------------------------ MODULE SendDispatcherProofs ------------------------
(***************************************************************************)
(* The bookkeeping of the send path, for any number of nodes, any queue    *)
(* sizes and any number of failures: m_sendQueuePending covers what is in  *)
(* flight, and is exact until something fails.                             *)
(*                                                                         *)
(* The sums over the nodes are cardinalities: Requests makes a set of      *)
(* pairs of a number for each node, a counter that changes by one adds or  *)
(* takes a pair, and the sum changes by one (TotalGrows, MoreRequests).    *)
(* For them to fit, the shared CQ has to have room for every send queue.   *)
(***************************************************************************)
EXTENDS SendDispatcher, FiniteSetTheorems, SequenceTheorems, TLAPS
-----------------------------------------------------------------------------
(* The sums over the nodes: m_completionsPending and the contexts in use.  *)

(* What a pair of a node and a number says.                                *)
LEMMA IsRequest ==
  ASSUME NEW f, NEW p
  PROVE  p \in Requests(f)
           <=> \E n \in Nodes : \E i \in 1..f[n] : p = <<n, i>>
<1>1. ASSUME p \in Requests(f)
      PROVE  \E n \in Nodes : \E i \in 1..f[n] : p = <<n, i>>
  <2>1. PICK n \in Nodes : p \in {n} \X (1..f[n])
    BY <1>1 DEF Requests
  <2>. QED
    BY <2>1
<1>2. ASSUME NEW n \in Nodes, NEW i \in 1..f[n], p = <<n, i>>
      PROVE  p \in Requests(f)
  <2>1. p \in {n} \X (1..f[n])
    BY <1>2
  <2>. QED
    BY <2>1 DEF Requests
<1>. QED
  BY <1>1, <1>2

(* k requests of one node.                                                 *)
LEMMA CountRow ==
  ASSUME NEW n \in Nodes, NEW a \in Nat, NEW k \in Nat
  PROVE  /\ IsFiniteSet({n} \X ((a + 1)..(a + k)))
         /\ Cardinality({n} \X ((a + 1)..(a + k))) = k
<1>. DEFINE I == (a + 1)..(a + k)
<1>1. IsFiniteSet(I) /\ Cardinality(I) = k
  <2>1. a + 1 \in Int /\ a + k \in Int
    OBVIOUS
  <2>2. /\ IsFiniteSet(I)
        /\ Cardinality(I) = IF a + 1 > a + k THEN 0 ELSE (a + k) - (a + 1) + 1
    BY <2>1, FS_Interval
  <2>. QED
    BY <2>2
<1>2. IsFiniteSet({n}) /\ Cardinality({n}) = 1
  BY FS_Singleton
<1>. HIDE DEF I
<1>3. IsFiniteSet({n} \X I) /\ Cardinality({n} \X I) = 1 * k
  BY <1>1, <1>2, FS_Product
<1>4. 1 * k = k
  OBVIOUS
<1>. QED
  BY <1>3, <1>4 DEF I

(* A sum of finitely many requests is a number.                            *)
LEMMA TotalType ==
  ASSUME NEW f, IsFiniteSet(Requests(f))
  PROVE  Total(f) \in Nat
BY FS_CardinalityType DEF Total

(* A sum grows with its terms.                                             *)
LEMMA TotalGrows ==
  ASSUME NEW f \in [Nodes -> Nat], NEW g \in [Nodes -> Nat],
         \A n \in Nodes : f[n] <= g[n], IsFiniteSet(Requests(g))
  PROVE  /\ IsFiniteSet(Requests(f)) /\ Total(f) \in Nat /\ Total(g) \in Nat
         /\ Total(f) <= Total(g)
<1>1. Requests(f) \subseteq Requests(g)
  <2>1. ASSUME NEW p \in Requests(f) PROVE p \in Requests(g)
    <3>1. PICK n \in Nodes : \E i \in 1..f[n] : p = <<n, i>>
      BY IsRequest
    <3>2. PICK i \in 1..f[n] : p = <<n, i>>
      BY <3>1
    <3>3. f[n] \in Nat /\ g[n] \in Nat /\ f[n] <= g[n]
      OBVIOUS
    <3>4. i \in 1..g[n]
      BY <3>2, <3>3
    <3>. QED
      BY <3>2, <3>4, IsRequest
  <2>. QED
    BY <2>1
<1>2. /\ IsFiniteSet(Requests(f))
      /\ Cardinality(Requests(f)) <= Cardinality(Requests(g))
  BY <1>1, FS_Subset
<1>3. Cardinality(Requests(f)) \in Nat /\ Cardinality(Requests(g)) \in Nat
  BY <1>2, FS_CardinalityType
<1>. QED
  BY <1>2, <1>3 DEF Total

(* k more requests of one node.                                            *)
LEMMA MoreRequests ==
  ASSUME NEW f \in [Nodes -> Nat], NEW n \in Nodes, NEW k \in Nat,
         IsFiniteSet(Requests(f))
  PROVE  LET g == [f EXCEPT ![n] = @ + k]
         IN  /\ g \in [Nodes -> Nat]
             /\ IsFiniteSet(Requests(g)) /\ Total(f) \in Nat
             /\ Total(g) = Total(f) + k
<1>. DEFINE g == [f EXCEPT ![n] = @ + k]
            Row == {n} \X ((f[n] + 1)..(f[n] + k))
<1>1. f[n] \in Nat /\ f[n] + k \in Nat
  OBVIOUS
<1>2. g \in [Nodes -> Nat] /\ g[n] = f[n] + k /\ \A m \in Nodes \ {n} : g[m] = f[m]
  BY <1>1
<1>3. IsFiniteSet(Row) /\ Cardinality(Row) = k
  <2>. DEFINE a == f[n]
  <2>1. a \in Nat /\ k \in Nat
    BY <1>1
  <2>. HIDE DEF a, g, Row
  <2>2. /\ IsFiniteSet({n} \X ((a + 1)..(a + k)))
        /\ Cardinality({n} \X ((a + 1)..(a + k))) = k
    BY <2>1, CountRow, Zenon
  <2>. QED
    BY <2>2 DEF a, Row
<1>4. ASSUME NEW p
      PROVE  p \in Row <=> \E i \in (f[n] + 1)..(f[n] + k) : p = <<n, i>>
  OBVIOUS
<1>. HIDE DEF g, Row
<1>5. Requests(g) = Requests(f) \cup Row
  <2>1. ASSUME NEW p \in Requests(g) PROVE p \in Requests(f) \cup Row
    <3>1. PICK m \in Nodes : \E i \in 1..g[m] : p = <<m, i>>
      BY IsRequest
    <3>2. PICK i \in 1..g[m] : p = <<m, i>>
      BY <3>1
    <3>3. CASE m = n /\ i > f[n]
      <4>1. i \in (f[n] + 1)..(f[n] + k)
        BY <1>1, <1>2, <3>2, <3>3
      <4>. QED
        BY <1>4, <3>2, <3>3, <4>1
    <3>4. CASE ~(m = n /\ i > f[n])
      <4>1. i \in 1..f[m]
        BY <1>1, <1>2, <3>2, <3>4
      <4>. QED
        BY <3>2, <4>1, IsRequest
    <3>. QED
      BY <3>3, <3>4
  <2>2. ASSUME NEW p \in Requests(f) PROVE p \in Requests(g)
    <3>1. PICK m \in Nodes : \E i \in 1..f[m] : p = <<m, i>>
      BY IsRequest
    <3>2. PICK i \in 1..f[m] : p = <<m, i>>
      BY <3>1
    <3>3. i \in 1..g[m]
      BY <1>1, <1>2, <3>2
    <3>. QED
      BY <3>2, <3>3, IsRequest
  <2>3. ASSUME NEW p \in Row PROVE p \in Requests(g)
    <3>1. PICK i \in (f[n] + 1)..(f[n] + k) : p = <<n, i>>
      BY <1>4
    <3>2. i \in 1..g[n]
      BY <1>1, <1>2, <3>1
    <3>. QED
      BY <3>1, <3>2, IsRequest
  <2>. QED
    BY <2>1, <2>2, <2>3
<1>6. Requests(f) \cap Row = {}
  <2>1. ASSUME NEW p \in Row, p \in Requests(f) PROVE FALSE
    <3>1. PICK i \in (f[n] + 1)..(f[n] + k) : p = <<n, i>>
      BY <1>4
    <3>2. PICK m \in Nodes : \E j \in 1..f[m] : p = <<m, j>>
      BY <2>1, IsRequest
    <3>3. PICK j \in 1..f[m] : p = <<m, j>>
      BY <3>2
    <3>4. m = n /\ i = j
      BY <3>1, <3>3
    <3>. QED
      BY <1>1, <3>1, <3>3, <3>4
  <2>. QED
    BY <2>1
<1>7. /\ IsFiniteSet(Requests(g))
      /\ Cardinality(Requests(g))
           = Cardinality(Requests(f)) + Cardinality(Row) - Cardinality(Requests(f) \cap Row)
  BY <1>3, <1>5, FS_Union
<1>8. Cardinality(Requests(f) \cap Row) = 0 /\ Cardinality(Requests(f)) \in Nat
  BY <1>6, FS_EmptySet, FS_CardinalityType
<1>9. Total(g) = Total(f) + k /\ Total(f) \in Nat
  BY <1>3, <1>7, <1>8 DEF Total
<1>. QED
  BY <1>2, <1>7, <1>9 DEF g

(* One request less.                                                       *)
LEMMA OneRequestLess ==
  ASSUME NEW f \in [Nodes -> Nat], NEW n \in Nodes, f[n] >= 1,
         IsFiniteSet(Requests(f))
  PROVE  LET g == [f EXCEPT ![n] = @ - 1]
         IN  /\ g \in [Nodes -> Nat]
             /\ IsFiniteSet(Requests(g)) /\ Total(f) \in Nat
             /\ Total(g) = Total(f) - 1
<1>. DEFINE g == [f EXCEPT ![n] = @ - 1]
<1>1. f[n] \in Nat /\ f[n] - 1 \in Nat
  OBVIOUS
<1>2. /\ g \in [Nodes -> Nat] /\ f = [g EXCEPT ![n] = @ + 1]
      /\ \A m \in Nodes : g[m] <= f[m]
  <2>1. g \in [Nodes -> Nat] /\ g[n] = f[n] - 1 /\ \A m \in Nodes \ {n} : g[m] = f[m]
    BY <1>1
  <2>2. g[n] + 1 = f[n]
    BY <1>1, <2>1
  <2>. HIDE DEF g
  <2>3. \A m \in Nodes : f[m] = [g EXCEPT ![n] = @ + 1][m]
    BY <2>1, <2>2
  <2>4. f = [g EXCEPT ![n] = @ + 1]
    BY <2>1, <2>3
  <2>. QED
    BY <1>1, <2>1, <2>4
<1>. HIDE DEF g
<1>3. IsFiniteSet(Requests(g)) /\ Total(g) \in Nat
  BY <1>2, TotalGrows
<1>4. Total(f) = Total(g) + 1
  <2>1. Total([g EXCEPT ![n] = @ + 1]) = Total(g) + 1
    BY <1>2, <1>3, MoreRequests
  <2>. QED
    BY <1>2, <2>1
<1>5. Total(g) = Total(f) - 1 /\ Total(f) \in Nat
  BY <1>3, <1>4
<1>. QED
  BY <1>2, <1>3, <1>5 DEF g

(* What is posted fits into the send queue.                                *)
LEMMA PostedFits ==
  ASSUME NEW n \in Nodes, NEW want \in 1..MaxWant, sqPending \in [Nodes -> 0..SQSize]
  PROVE  /\ Posted(n, want) \in 0..SQSize /\ Posted(n, want) <= want
         /\ sqPending[n] + Posted(n, want) \in 0..SQSize
<1>1. sqPending[n] \in 0..SQSize
  OBVIOUS
<1>2. QED BY <1>1, SendDispatcherAssumption DEF Posted, Smaller

LEMMA LenEmpty == Len(<<>>) = 0
  BY EmptySeq

(* Moving completions along their queue.                                   *)
LEMMA QueueLengths ==
  ASSUME NEW S, NEW s \in Seq(S)
  PROVE  /\ Len(s) \in Nat
         /\ \A e \in S : Append(s, e) \in Seq(S) /\ Len(Append(s, e)) = Len(s) + 1
         /\ s # <<>> => /\ Tail(s) \in Seq(S) /\ Len(Tail(s)) = Len(s) - 1
                        /\ Len(s) >= 1 /\ Head(s) \in S
         /\ <<>> \in Seq(S) /\ Len(<<>>) = 0
<1>1. Len(s) \in Nat /\ <<>> \in Seq(S) /\ Len(<<>>) = 0
  BY LenProperties, EmptySeq
<1>2. \A e \in S : Append(s, e) \in Seq(S) /\ Len(Append(s, e)) = Len(s) + 1
  BY AppendProperties
<1>3. ASSUME s # <<>>
      PROVE  /\ Tail(s) \in Seq(S) /\ Len(Tail(s)) = Len(s) - 1
             /\ Len(s) >= 1 /\ Head(s) \in S
  <2>1. Len(s) # 0
    BY <1>3, EmptySeq
  <2>2. QED BY <1>1, <1>3, <2>1, HeadTailProperties
<1>4. QED BY <1>1, <1>2, <1>3

(* The invariant holds at the start.                                       *)
LEMMA InitIInv == Init => IInv
<1> SUFFICES ASSUME Init PROVE IInv
  OBVIOUS
<1>1. /\ Empty \in [Nodes -> Seq(Statuses)] /\ Zero \in [Nodes -> Nat]
      /\ Zero \in [Nodes -> 0..SQSize] /\ Zero \in [Nodes -> Int]
  BY EmptySeq, SendDispatcherAssumption DEF Empty, Zero
<1>2. TypeOK
  <2>1. /\ package = NoPackage /\ connection = None /\ ~deleted /\ ~inCatch
        /\ firstWc /\ prev = NoResults /\ done = Zero /\ sqPending = Zero
        /\ cqPending = 0 /\ ctxUsed = 0 /\ ignoreFlush = 0 /\ workComp = Empty
        /\ sq = Zero /\ cq = Empty /\ qp = [n \in Nodes |-> "none"]
        /\ closing = {} /\ handles = Zero /\ unconfirmed = Zero /\ faults = 0
        /\ pc = "next" /\ thrown = "none"
    BY DEF Init
  <2>2. prev \in [node : Nodes \cup {None}, posted : 0..SQSize, left : 0..MaxWant]
    BY <2>1, SendDispatcherAssumption DEF NoResults
  <2>3. faults \in 0..MaxFaults
    BY <2>1, SendDispatcherAssumption
  <2>4. deleted \in BOOLEAN /\ inCatch \in BOOLEAN /\ firstWc \in BOOLEAN
    BY DEF Init
  <2>5. QED BY <1>1, <2>1, <2>2, <2>3, <2>4 DEF TypeOK
<1>3. PendingCovers
  <2>1. ASSUME NEW n \in Nodes PROVE InFlight(n) <= sqPending[n]
    <3>1. sq[n] = 0 /\ cq[n] = <<>> /\ workComp[n] = <<>> /\ sqPending[n] = 0
      BY DEF Init, Empty, Zero
    <3>2. Len(cq[n]) = 0 /\ Len(workComp[n]) = 0
      BY <3>1, EmptySeq
    <3>3. QED BY <3>1, <3>2 DEF InFlight
  <2>2. QED BY <2>1 DEF PendingCovers
<1>4. Control
  BY DEF Init, Control
<1>5. QED BY <1>2, <1>3, <1>4 DEF IInv

(* What the type invariant says of the numbers of one node.                *)
LEMMA NodeTypes ==
  ASSUME TypeOK, NEW n \in Nodes
  PROVE  /\ sq[n] \in Nat /\ sqPending[n] \in 0..SQSize /\ sqPending[n] \in Nat
         /\ cq[n] \in Seq(Statuses) /\ workComp[n] \in Seq(Statuses)
         /\ Len(cq[n]) \in Nat /\ Len(workComp[n]) \in Nat
<1>1. /\ sq[n] \in Nat /\ sqPending[n] \in 0..SQSize
      /\ cq[n] \in Seq(Statuses) /\ workComp[n] \in Seq(Statuses)
  BY DEF TypeOK
<1>2. QED BY <1>1, LenProperties, SendDispatcherAssumption

(* A completion is put into the CQ for a request of the send queue.        *)
Answer(n, e) ==
  /\ sq[n] > 0
  /\ sq' = [sq EXCEPT ![n] = @ - 1]
  /\ cq' = [cq EXCEPT ![n] = Append(@, e)]
  /\ UNCHANGED <<sqPending, workComp>>

LEMMA Answered ==
  ASSUME IInv, NEW n \in Nodes, NEW e \in Statuses, Answer(n, e)
  PROVE  /\ sq' \in [Nodes -> Nat] /\ cq' \in [Nodes -> Seq(Statuses)]
         /\ PendingCovers'
<1>1. sq \in [Nodes -> Nat] /\ cq \in [Nodes -> Seq(Statuses)] /\ TypeOK
  BY DEF IInv, TypeOK
<1>2. /\ Append(cq[n], e) \in Seq(Statuses) /\ Len(Append(cq[n], e)) = Len(cq[n]) + 1
      /\ sq[n] - 1 \in Nat
  BY <1>1, QueueLengths DEF Answer
<1>3. sq' \in [Nodes -> Nat] /\ cq' \in [Nodes -> Seq(Statuses)]
  BY <1>1, <1>2 DEF Answer
<1>4. ASSUME NEW m \in Nodes PROVE (InFlight(m) <= sqPending[m])'
  <2>1. InFlight(m) <= sqPending[m]
    BY DEF IInv, PendingCovers
  <2>2. sq'[m] + Len(cq'[m]) = sq[m] + Len(cq[m])
    <3>1. CASE m = n
      <4>1. sq'[m] = sq[n] - 1 /\ cq'[m] = Append(cq[n], e)
        BY <1>1, <3>1 DEF Answer
      <4>2. sq[n] \in Nat /\ Len(cq[n]) \in Nat
        BY <1>1, NodeTypes
      <4>3. Len(cq'[m]) = Len(cq[n]) + 1
        BY <1>2, <4>1
      <4>4. sq'[m] + Len(cq'[m]) = sq[n] + Len(cq[n])
        <5>1. sq'[m] = sq[n] - 1
          BY <4>1
        <5>2. QED BY <5>1, <4>2, <4>3
      <4>5. QED BY <3>1, <4>4, Zenon
    <3>2. CASE m # n
      BY <1>1, <3>2 DEF Answer
    <3>3. QED BY <3>1, <3>2
  <2>3. sqPending'[m] = sqPending[m] /\ workComp'[m] = workComp[m]
    BY DEF Answer
  <2>4. QED BY <2>1, <2>2, <2>3 DEF InFlight
<1>5. QED BY <1>3, <1>4 DEF PendingCovers

(* A polled completion is processed: the queue has room for one more.      *)
LEMMA Processed ==
  ASSUME IInv, NEW n \in Nodes, workComp[n] # <<>>, Completed(n),
         UNCHANGED <<sq, cq>>
  PROVE  /\ sqPending' \in [Nodes -> 0..SQSize]
         /\ workComp' \in [Nodes -> Seq(Statuses)]
         /\ cqPending' \in Int /\ ctxUsed' \in Int /\ ignoreFlush' \in Int
         /\ PendingCovers'
<1>1. /\ TypeOK /\ sqPending \in [Nodes -> 0..SQSize]
      /\ workComp \in [Nodes -> Seq(Statuses)]
      /\ cqPending \in Int /\ ctxUsed \in Int /\ ignoreFlush \in Int
  BY DEF IInv, TypeOK
<1>2. /\ Tail(workComp[n]) \in Seq(Statuses) /\ Len(workComp[n]) >= 1
      /\ Len(Tail(workComp[n])) = Len(workComp[n]) - 1
  BY <1>1, QueueLengths
<1>3. /\ sqPending' = [sqPending EXCEPT ![n] = @ - 1]
      /\ workComp' = [workComp EXCEPT ![n] = Tail(@)]
      /\ cqPending' = cqPending - 1 /\ ctxUsed' = ctxUsed - 1
      /\ ignoreFlush' = IF ignoreFlush > 0 THEN ignoreFlush - 1 ELSE 0
  BY DEF Completed, Settled, Pushed, ReturnedCtx
<1>4. sqPending[n] >= 1
  <2>1. InFlight(n) <= sqPending[n]
    BY DEF IInv, PendingCovers
  <2>2. QED BY <1>1, <1>2, <2>1, NodeTypes DEF InFlight
<1>5. /\ sqPending' \in [Nodes -> 0..SQSize]
      /\ workComp' \in [Nodes -> Seq(Statuses)]
  <2>1. sqPending[n] - 1 \in 0..SQSize
    BY <1>1, <1>4, NodeTypes, SendDispatcherAssumption
  <2>2. QED BY <1>1, <1>2, <1>3, <2>1
<1>6. cqPending' \in Int /\ ctxUsed' \in Int /\ ignoreFlush' \in Int
  BY <1>1, <1>3
<1>7. ASSUME NEW m \in Nodes PROVE (InFlight(m) <= sqPending[m])'
  <2>1. InFlight(m) <= sqPending[m]
    BY DEF IInv, PendingCovers
  <2>2. CASE m = n
    <3>1. sqPending'[m] = sqPending[n] - 1 /\ workComp'[m] = Tail(workComp[n])
      BY <1>1, <1>3, <2>2
    <3>2. QED BY <1>1, <1>2, <2>1, <2>2, <3>1, NodeTypes DEF InFlight
  <2>3. CASE m # n
    <3>1. sqPending'[m] = sqPending[m] /\ workComp'[m] = workComp[m]
      BY <1>1, <1>3, <2>3
    <3>2. QED BY <2>1, <3>1 DEF InFlight
  <2>4. QED BY <2>2, <2>3
<1>8. QED BY <1>5, <1>6, <1>7 DEF PendingCovers

(* Nothing is in flight that was not: a step that keeps the pending ones.  *)
Shrinks ==
  /\ UNCHANGED sqPending
  /\ \A n \in Nodes : /\ sq'[n] \in {0, sq[n]} /\ cq'[n] \in {<<>>, cq[n]}
                       /\ workComp'[n] \in {<<>>, workComp[n]}

LEMMA NoneAdded ==
  ASSUME IInv, Shrinks
  PROVE  PendingCovers'
<1> SUFFICES ASSUME NEW n \in Nodes PROVE (InFlight(n) <= sqPending[n])'
  BY DEF PendingCovers
<1>1. InFlight(n) <= sqPending[n] /\ TypeOK
  BY DEF IInv, PendingCovers
<1>2. /\ sq[n] \in Nat /\ Len(cq[n]) \in Nat /\ Len(workComp[n]) \in Nat
      /\ sqPending[n] \in Nat
  BY <1>1, NodeTypes
<1>3. sq'[n] \in Nat /\ sq'[n] <= sq[n] /\ sqPending'[n] = sqPending[n]
  BY <1>2 DEF Shrinks
<1>4. Len(cq'[n]) \in Nat /\ Len(cq'[n]) <= Len(cq[n])
  <2>1. cq'[n] = <<>> \/ cq'[n] = cq[n]
    BY DEF Shrinks
  <2>2. Len(cq'[n]) = 0 \/ Len(cq'[n]) = Len(cq[n])
    BY <2>1, LenEmpty, Zenon
  <2>3. QED BY <1>2, <2>2
<1>5. Len(workComp'[n]) \in Nat /\ Len(workComp'[n]) <= Len(workComp[n])
  <2>1. workComp'[n] = <<>> \/ workComp'[n] = workComp[n]
    BY DEF Shrinks
  <2>2. Len(workComp'[n]) = 0 \/ Len(workComp'[n]) = Len(workComp[n])
    BY <2>1, LenEmpty, Zenon
  <2>3. QED BY <1>2, <2>2
<1>6. sq'[n] + Len(cq'[n]) + Len(workComp'[n]) <= sqPending'[n]
  <2> DEFINE a == sq[n]  b == Len(cq[n])  c == Len(workComp[n])  p == sqPending[n]
             x == sq'[n]  y == Len(cq'[n])  z == Len(workComp'[n])
  <2>1. /\ a \in Nat /\ b \in Nat /\ c \in Nat /\ p \in Nat
        /\ x \in Nat /\ y \in Nat /\ z \in Nat
        /\ x <= a /\ y <= b /\ z <= c /\ a + b + c <= p
    BY <1>1, <1>2, <1>3, <1>4, <1>5 DEF InFlight
  <2>2. sqPending'[n] = p
    BY <1>3
  <2> HIDE DEF a, b, c, p, x, y, z
  <2>3. x + y + z <= p
    BY <2>1
  <2>4. QED BY <2>2, <2>3 DEF x, y, z
<1>7. QED BY <1>6 DEF InFlight

(* A step of the dispatcher or of its surroundings that leaves the queues  *)
(* alone.                                                                  *)
LEMMA QueuesUntouched ==
  ASSUME IInv, UNCHANGED <<sqPending, sq, cq, workComp>>
  PROVE  PendingCovers'
BY NoneAdded DEF Shrinks

(* An exception ends the process and changes nothing but the contexts.     *)
LEMMA ThrowKeeps ==
  ASSUME IInv, NEW e \in Exceptions, Throw(e), ctxUsed' \in Int,
         UNCHANGED <<deleted, sq, cq, qp, closing, handles>>,
         faults' \in 0..MaxFaults
  PROVE  IInv'
<1>1. PendingCovers'
  BY QueuesUntouched DEF Throw
<1>2. TypeOK'
  BY DEF Throw, IInv, TypeOK
<1>3. Control'
  BY DEF Throw, IInv, Control
<1>4. QED BY <1>1, <1>2, <1>3 DEF IInv

(* Asking for the next work package.                                       *)
LEMMA GetNextStep == IInv /\ GetNextDataToSend => IInv'
<1> SUFFICES ASSUME IInv, GetNextDataToSend PROVE IInv'
  OBVIOUS
<1>1. PendingCovers'
  BY QueuesUntouched DEF GetNextDataToSend, outside
<1>2. prev' \in [node : Nodes \cup {None}, posted : 0..SQSize, left : 0..MaxWant]
  BY SendDispatcherAssumption DEF GetNextDataToSend, NoResults
<1>3. done' \in [Nodes -> Nat] /\ unconfirmed' \in [Nodes -> Int]
  <2>1. prev.posted \in Nat /\ unconfirmed \in [Nodes -> Int] /\ done \in [Nodes -> Nat]
    BY DEF IInv, TypeOK
  <2>2. QED BY <2>1 DEF GetNextDataToSend, ResetList, ReportedOnce, Zero
<1>4. /\ package' \in [node : Nodes, want : 1..MaxWant] \cup {NoPackage}
      /\ pc' \in {"poll", "get"} /\ (pc' = "get" => package'.node \in Nodes)
  BY DEF GetNextDataToSend
<1>5. TypeOK'
  BY <1>2, <1>3, <1>4 DEF GetNextDataToSend, IInv, TypeOK, outside
<1>6. Control'
  BY <1>4 DEF Control
<1>7. QED BY <1>1, <1>5, <1>6 DEF IInv

(* Getting the connection, or the timeout.                                 *)
LEMMA GetConnectionStep == IInv /\ (GetConnection \/ GetConnectionTimesOut) => IInv'
<1>1. ASSUME IInv, GetConnection PROVE IInv'
  <2>1. PendingCovers'
    BY <1>1, QueuesUntouched DEF GetConnection
  <2>2. package.node \in Nodes
    BY <1>1 DEF IInv, Control, GetConnection, At
  <2>3. handles' \in [Nodes -> Int]
    <3>1. /\ handles' = [handles EXCEPT ![package.node] = @ + 1]
          /\ handles \in [Nodes -> Int]
      BY <1>1 DEF GetConnection, IInv, TypeOK
    <3>2. QED BY <2>2, <3>1
  <2>4. TypeOK'
    <3>1. pc' = "send" /\ connection' \in Nodes /\ deleted' = FALSE
      BY <1>1, <2>2 DEF GetConnection
    <3>2. QED BY <1>1, <2>3, <3>1 DEF GetConnection, IInv, TypeOK
  <2>5. Control'
    BY <1>1, <2>2 DEF GetConnection, Control
  <2>6. QED BY <2>1, <2>4, <2>5 DEF IInv
<1>2. ASSUME IInv, GetConnectionTimesOut PROVE IInv'
  <2>1. PendingCovers'
    BY <1>2, QueuesUntouched DEF GetConnectionTimesOut, outside
  <2>2. TypeOK'
    BY <1>2 DEF GetConnectionTimesOut, IInv, TypeOK, outside
  <2>3. Control'
    BY <1>2 DEF GetConnectionTimesOut, Control
  <2>4. QED BY <2>1, <2>2, <2>3 DEF IInv
<1>3. QED BY <1>1, <1>2

(* The work package to be sent.                                            *)
LEMMA PackageType ==
  ASSUME IInv, pc \in {"get", "send", "return"}
  PROVE  package.node \in Nodes /\ package.want \in 1..MaxWant
<1>1. package.node \in Nodes
  BY DEF IInv, Control
<1>2. package \in [node : Nodes, want : 1..MaxWant] \cup {NoPackage}
  BY DEF IInv, TypeOK
<1>3. package # NoPackage
  BY <1>1, SendDispatcherAssumption DEF NoPackage
<1>4. QED BY <1>1, <1>2, <1>3

(* A failure is counted up to the bound.                                   *)
LEMMA FaultType ==
  ASSUME IInv, Fault
  PROVE  faults' \in 0..MaxFaults
<1>1. faults \in 0..MaxFaults
  BY DEF IInv, TypeOK
<1>2. faults < MaxFaults /\ faults' = faults + 1
  BY DEF Fault
<1>3. QED BY <1>1, <1>2, SendDispatcherAssumption

(* Posting: the queue of the target gets as much as is counted.            *)
LEMMA SendDataStep == IInv /\ SendData => IInv'
<1> SUFFICES ASSUME IInv, SendData PROVE IInv'
  OBVIOUS
<1> DEFINE n == package.node
           k == Posted(n, package.want)
<1>1. /\ TypeOK /\ n \in Nodes /\ package.want \in 1..MaxWant
      /\ sqPending \in [Nodes -> 0..SQSize] /\ sq \in [Nodes -> Nat]
      /\ ctxUsed \in Int /\ cqPending \in Int
  <2>1. TypeOK /\ pc = "send"
    BY DEF IInv, SendData, At
  <2>2. n \in Nodes /\ package.want \in 1..MaxWant
    BY <2>1, PackageType
  <2>3. QED BY <2>1, <2>2 DEF TypeOK
<1>2. /\ k \in 0..SQSize /\ k <= package.want
      /\ sqPending[n] + k \in 0..SQSize /\ k \in Nat
  BY <1>1, PostedFits, SendDispatcherAssumption
<1>3. CASE deleted \/ ctxUsed + k > SCQSize
  <2>1. PICK e \in Exceptions : Throw(e) /\ UNCHANGED <<ctxUsed, outside>>
    BY <1>3 DEF SendData, Exceptions
  <2>2. ctxUsed' \in Int /\ faults' \in 0..MaxFaults
    BY <2>1 DEF IInv, TypeOK, outside
  <2>3. QED BY <2>1, <2>2, ThrowKeeps DEF outside
<1>4. CASE ~(deleted \/ ctxUsed + k > SCQSize)
  <2>1. /\ ctxUsed' = ctxUsed + k
        /\ prev' = [node |-> n, posted |-> k, left |-> package.want - k]
        /\ sqPending' = [sqPending EXCEPT ![n] = @ + k]
        /\ cqPending' = cqPending + k
        /\ sq' = [sq EXCEPT ![n] = @ + k]
        /\ pc' = "return"
        /\ UNCHANGED <<thrown, package, connection, deleted, inCatch, done,
                       firstWc, ignoreFlush, workComp, cq, qp, closing, handles,
                       unconfirmed, faults>>
    BY <1>4 DEF SendData, PendingOfPost
  <2> HIDE DEF k
  <2>2. sqPending' \in [Nodes -> 0..SQSize] /\ sq' \in [Nodes -> Nat]
    <3>1. sq[n] + k \in Nat
      BY <1>1, <1>2
    <3>2. QED BY <1>1, <1>2, <2>1, <3>1
  <2>3. prev' \in [node : Nodes \cup {None}, posted : 0..SQSize, left : 0..MaxWant]
    <3>1. package.want - k \in 0..MaxWant
      BY <1>1, <1>2, SendDispatcherAssumption
    <3>2. QED BY <1>1, <1>2, <2>1, <3>1
  <2>4. ctxUsed' \in Int /\ cqPending' \in Int
    BY <1>1, <1>2, <2>1
  <2>5. TypeOK'
    BY <1>1, <2>1, <2>2, <2>3, <2>4 DEF TypeOK
  <2>6. ASSUME NEW m \in Nodes PROVE (InFlight(m) <= sqPending[m])'
    <3> DEFINE a == sq[m]  b == Len(cq[m])  c == Len(workComp[m])  p == sqPending[m]
    <3>1. /\ a \in Nat /\ b \in Nat /\ c \in Nat /\ p \in Nat
          /\ a + b + c <= p
      BY <1>1, NodeTypes DEF IInv, PendingCovers, InFlight
    <3>2. Len(cq'[m]) = b /\ Len(workComp'[m]) = c
      BY <2>1
    <3>3. \/ sq'[m] = a + k /\ sqPending'[m] = p + k
          \/ sq'[m] = a /\ sqPending'[m] = p
      BY <1>1, <2>1
    <3> HIDE DEF a, b, c, p
    <3>4. sq'[m] + b + c <= sqPending'[m]
      <4>1. a + k + b + c <= p + k
        BY <1>2, <3>1
      <4>2. QED BY <3>1, <3>3, <4>1
    <3>5. QED BY <3>2, <3>4 DEF InFlight
  <2>7. Control'
    <3>1. connection \in Nodes
      BY DEF IInv, Control, SendData, At
    <3>2. QED BY <1>1, <2>1, <3>1 DEF Control
  <2>8. QED BY <2>5, <2>6, <2>7 DEF IInv, PendingCovers
<1>5. QED BY <1>3, <1>4

(* The rest of sending.                                                    *)
LEMMA SendStep == IInv /\ (PostFails \/ ReturnConnection) => IInv'
<1>1. ASSUME IInv, PostFails PROVE IInv'
  <2>1. package.node \in Nodes /\ package.want \in 1..MaxWant
    <3>1. pc = "send"
      BY <1>1 DEF PostFails, At
    <3>2. QED BY <1>1, <3>1, PackageType
  <2>2. ctxUsed' \in Int
    <3>1. sqPending \in [Nodes -> 0..SQSize] /\ ctxUsed \in Int
      BY <1>1 DEF IInv, TypeOK
    <3>2. Posted(package.node, package.want) \in 0..SQSize
      BY <2>1, <3>1, PostedFits
    <3>3. ctxUsed' = ctxUsed + Posted(package.node, package.want)
      BY <1>1 DEF PostFails
    <3>4. QED BY <3>1, <3>2, <3>3, SendDispatcherAssumption
  <2>3. faults' \in 0..MaxFaults
    BY <1>1, FaultType DEF PostFails
  <2>4. Throw("post failed") /\ "post failed" \in Exceptions
    BY <1>1 DEF PostFails, Exceptions
  <2>5. QED BY <1>1, <2>2, <2>3, <2>4, ThrowKeeps DEF PostFails
<1>2. ASSUME IInv, ReturnConnection PROVE IInv'
  <2>1. CASE deleted
    <3>1. /\ Throw("connection deleted") /\ "connection deleted" \in Exceptions
          /\ UNCHANGED <<ctxUsed, outside>>
      BY <1>2, <2>1 DEF ReturnConnection, Exceptions
    <3>2. ctxUsed' \in Int /\ faults' \in 0..MaxFaults
      BY <1>2, <3>1 DEF IInv, TypeOK, outside
    <3>3. QED BY <1>2, <3>1, <3>2, ThrowKeeps DEF outside
  <2>2. CASE ~deleted
    <3>1. connection \in Nodes
      BY <1>2 DEF ReturnConnection, At, IInv, Control
    <3>2. handles' \in [Nodes -> Int]
      <4>1. /\ handles' = [handles EXCEPT ![connection] = @ - 1]
            /\ handles \in [Nodes -> Int]
        BY <1>2, <2>2 DEF ReturnConnection, IInv, TypeOK
      <4>2. QED BY <3>1, <4>1
    <3>3. /\ pc' = "poll"
          /\ UNCHANGED <<thrown, package, connection, deleted, inCatch, prev,
               done, sqPending, cqPending, ctxUsed, firstWc, ignoreFlush,
               workComp, unconfirmed, sq, cq, qp, closing, faults>>
      BY <1>2, <2>2 DEF ReturnConnection, PollNext, AfterReturn
    <3>4. TypeOK'
      BY <1>2, <3>2, <3>3 DEF IInv, TypeOK
    <3>5. PendingCovers'
      BY <1>2, <3>3, QueuesUntouched
    <3>6. Control'
      BY <3>3 DEF Control
    <3>7. QED BY <3>4, <3>5, <3>6 DEF IInv
  <2>3. QED BY <2>1, <2>2
<1>3. QED BY <1>1, <1>2

(* Polling the CQ, and the end of the loop over what was polled.           *)
LEMMA PollStep ==
  IInv /\ (NothingToPoll \/ Poll \/ PollFails \/ PollDone) => IInv'
<1>1. ASSUME IInv, NothingToPoll \/ PollDone PROVE IInv'
  <2>1. /\ pc' = "next"
        /\ UNCHANGED <<thrown, package, connection, inCatch, prev, done, sqPending,
             cqPending, ctxUsed, firstWc, ignoreFlush, workComp, unconfirmed, outside>>
    BY <1>1 DEF NothingToPoll, PollDone
  <2>2. PendingCovers'
    BY <1>1, <2>1, QueuesUntouched DEF outside
  <2>3. TypeOK'
    BY <1>1, <2>1 DEF IInv, TypeOK, outside
  <2>4. Control'
    BY <2>1 DEF Control
  <2>5. QED BY <2>2, <2>3, <2>4 DEF IInv
<1>2. ASSUME IInv, Poll PROVE IInv'
  <2>1. workComp' = cq /\ cq' = Empty /\ pc' = "process"
    BY <1>2 DEF Poll
  <2>2. Empty \in [Nodes -> Seq(Statuses)]
    BY EmptySeq DEF Empty
  <2>3. TypeOK'
    BY <1>2, <2>1, <2>2 DEF Poll, IInv, TypeOK
  <2>4. ASSUME NEW m \in Nodes PROVE (InFlight(m) <= sqPending[m])'
    <3> DEFINE a == sq[m]  b == Len(cq[m])  c == Len(workComp[m])  p == sqPending[m]
    <3>1. /\ a \in Nat /\ b \in Nat /\ c \in Nat /\ p \in Nat
          /\ a + b + c <= p
      BY <1>2, NodeTypes DEF IInv, PendingCovers, InFlight
    <3>2. sq'[m] = a /\ sqPending'[m] = p /\ Len(workComp'[m]) = b
      BY <1>2 DEF Poll
    <3>3. Len(cq'[m]) = 0
      BY <2>1, LenEmpty DEF Empty
    <3> HIDE DEF a, b, c, p
    <3>4. a + 0 + b <= p
      BY <3>1
    <3>5. QED BY <3>2, <3>3, <3>4 DEF InFlight
  <2>5. Control'
    BY <2>1 DEF Control
  <2>6. QED BY <2>3, <2>4, <2>5 DEF IInv, PendingCovers
<1>3. ASSUME IInv, PollFails PROVE IInv'
  <2>1. ctxUsed' \in Int /\ faults' \in 0..MaxFaults
    BY <1>3, FaultType DEF PollFails, IInv, TypeOK
  <2>2. Throw("poll failed") /\ "poll failed" \in Exceptions
    BY <1>3 DEF PollFails, Exceptions
  <2>3. QED BY <1>3, <2>1, <2>2, ThrowKeeps DEF PollFails
<1>4. QED BY <1>1, <1>2, <1>3

(* A polled completion is processed.                                       *)
LEMMA CompletionStep ==
  ASSUME NEW n \in Nodes, IInv,
         Success(n) \/ IgnoredFlush(n) \/ FatalFlush(n) \/ FirstCompletionFails(n)
  PROVE  IInv'
<1>1. CASE Success(n) \/ IgnoredFlush(n)
  <2>1. /\ Completed(n) /\ workComp[n] # <<>> /\ pc = "process"
        /\ UNCHANGED <<pc, thrown, package, connection, inCatch, prev,
                       unconfirmed, outside>>
    BY <1>1 DEF Success, IgnoredFlush, Polled, At
  <2>2. /\ sqPending' \in [Nodes -> 0..SQSize]
        /\ workComp' \in [Nodes -> Seq(Statuses)]
        /\ cqPending' \in Int /\ ctxUsed' \in Int /\ ignoreFlush' \in Int
        /\ PendingCovers'
    BY <2>1, Processed DEF outside
  <2>3. done' \in [Nodes -> Nat] /\ firstWc' \in BOOLEAN
    <3>1. done \in [Nodes -> Nat] /\ firstWc \in BOOLEAN
      BY DEF IInv, TypeOK
    <3>2. CASE Success(n)
      <4>1. done' = [done EXCEPT ![n] = @ + 1] /\ firstWc' = FALSE
        BY <3>2 DEF Success
      <4>2. done' \in [Nodes -> Nat]
        BY <3>1, <4>1
      <4>3. QED BY <4>1, <4>2
    <3>3. CASE IgnoredFlush(n)
      BY <3>1, <3>3 DEF IgnoredFlush
    <3>4. QED BY <1>1, <3>2, <3>3
  <2>4. TypeOK'
    BY <2>1, <2>2, <2>3 DEF IInv, TypeOK, outside
  <2>5. Control'
    BY <2>1 DEF Control
  <2>6. QED BY <2>2, <2>4, <2>5 DEF IInv
<1>2. CASE FatalFlush(n) \/ FirstCompletionFails(n)
  <2>1. PICK e \in Exceptions : Throw(e) /\ UNCHANGED <<ctxUsed, outside>>
    BY <1>2 DEF FatalFlush, FirstCompletionFails, Exceptions
  <2>2. ctxUsed' \in Int /\ faults' \in 0..MaxFaults
    BY <2>1 DEF IInv, TypeOK, outside
  <2>3. QED BY <2>1, <2>2, ThrowKeeps DEF outside
<1>3. QED BY <1>1, <1>2

(* A disconnect: the polled completions are lost, the counters keep them.  *)
LEMMA DisconnectedStep ==
  ASSUME NEW n \in Nodes, IInv, Disconnected(n)
  PROVE  IInv'
<1>1. ctxUsed' \in Int /\ cqPending \in Int /\ ignoreFlush \in Int
  <2>1. ctxUsed \in Int /\ cqPending \in Int /\ ignoreFlush \in Int
    BY DEF IInv, TypeOK
  <2>2. ctxUsed' = ctxUsed - 1
    BY DEF Disconnected
  <2>3. QED BY <2>1, <2>2
<1>2. CASE inCatch \/ (connection # None /\ deleted)
  <2>1. PICK e \in Exceptions : Throw(e) /\ UNCHANGED outside
    BY <1>2 DEF Disconnected, Exceptions
  <2>2. faults' \in 0..MaxFaults
    BY <2>1 DEF IInv, TypeOK, outside
  <2>3. QED BY <1>1, <2>1, <2>2, ThrowKeeps DEF outside
<1>3. CASE ~(inCatch \/ (connection # None /\ deleted))
  <2>1. /\ handles' = IF connection = None THEN handles
                      ELSE [handles EXCEPT ![connection] = @ - 1]
        /\ closing' = closing \cup {n}
        /\ prev' = NoResults
        /\ ignoreFlush' = ignoreFlush + cqPending
        /\ workComp' = Empty
        /\ pc' = "next"
        /\ UNCHANGED <<thrown, package, connection, inCatch, done, sqPending,
                       cqPending, firstWc, unconfirmed, deleted, sq, cq, qp,
                       faults>>
    BY <1>3 DEF Disconnected
  <2>2. handles' \in [Nodes -> Int]
    <3>1. handles \in [Nodes -> Int] /\ connection \in Nodes \cup {None}
      BY DEF IInv, TypeOK
    <3>2. QED BY <2>1, <3>1
  <2>3. prev' \in [node : Nodes \cup {None}, posted : 0..SQSize, left : 0..MaxWant]
    BY <2>1, SendDispatcherAssumption DEF NoResults
  <2>4. workComp' \in [Nodes -> Seq(Statuses)] /\ ignoreFlush' \in Int
    BY <1>1, <2>1, EmptySeq DEF Empty
  <2>5. TypeOK'
    BY <1>1, <2>1, <2>2, <2>3, <2>4 DEF IInv, TypeOK
  <2>6. PendingCovers'
    <3>1. Shrinks
      BY <2>1 DEF Shrinks, Empty
    <3>2. QED BY <3>1, NoneAdded
  <2>7. Control'
    BY <2>1 DEF Control
  <2>8. QED BY <2>5, <2>6, <2>7 DEF IInv
<1>4. QED BY <1>2, <1>3

(* The HCA answers a request.                                              *)
LEMMA HCAStep ==
  ASSUME NEW n \in Nodes, IInv, Complete(n) \/ RetryExceeded(n) \/ Flush(n)
  PROVE  IInv'
<1>1. PICK e \in Statuses : Answer(n, e)
  BY DEF Complete, RetryExceeded, Flush, Answer, Statuses, dispatch
<1>2. /\ sq' \in [Nodes -> Nat] /\ cq' \in [Nodes -> Seq(Statuses)]
      /\ PendingCovers'
  BY <1>1, Answered
<1>3. UNCHANGED <<dispatch, deleted, closing, handles>>
  BY DEF Complete, RetryExceeded, Flush
<1>4. qp' \in [Nodes -> {"none", "up", "error"}]
  BY DEF Complete, RetryExceeded, Flush, IInv, TypeOK
<1>5. faults' \in 0..MaxFaults
  <2>1. CASE RetryExceeded(n)
    BY <2>1, FaultType DEF RetryExceeded
  <2>2. CASE Complete(n) \/ Flush(n)
    BY <2>2 DEF Complete, Flush, IInv, TypeOK
  <2>3. QED BY <2>1, <2>2
<1>6. TypeOK'
  BY <1>2, <1>3, <1>4, <1>5 DEF IInv, TypeOK, dispatch
<1>7. Control'
  BY <1>3 DEF IInv, Control, dispatch
<1>8. QED BY <1>2, <1>6, <1>7 DEF IInv

(* The job thread opens or closes a connection.                            *)
LEMMA ConnectionsStep ==
  ASSUME NEW n \in Nodes, IInv, Connect(n) \/ Close(n)
  PROVE  IInv'
<1>1. UNCHANGED dispatch
  BY DEF Connect, Close
<1>2. Control'
  BY <1>1 DEF IInv, Control, dispatch
<1>3. CASE Connect(n)
  <2>1. PendingCovers'
    BY <1>3, QueuesUntouched DEF Connect, dispatch
  <2>2. TypeOK'
    <3>1. qp' \in [Nodes -> {"none", "up", "error"}] /\ handles' \in [Nodes -> Int]
      <4>1. /\ qp \in [Nodes -> {"none", "up", "error"}] /\ handles \in [Nodes -> Int]
            /\ qp' = [qp EXCEPT ![n] = "up"] /\ handles' = [handles EXCEPT ![n] = 0]
        BY <1>3 DEF Connect, IInv, TypeOK
      <4>2. QED BY <4>1
    <3>2. QED BY <1>3, <3>1 DEF Connect, IInv, TypeOK, dispatch
  <2>3. QED BY <1>2, <2>1, <2>2 DEF IInv
<1>4. CASE Close(n)
  <2>1. /\ sq \in [Nodes -> Nat] /\ cq \in [Nodes -> Seq(Statuses)]
        /\ sq' = [sq EXCEPT ![n] = 0]
        /\ cq' \in {cq, [cq EXCEPT ![n] = <<>>]}
    BY <1>4 DEF Close, IInv, TypeOK
  <2>2. Shrinks
    BY <1>1, <2>1 DEF Shrinks, dispatch
  <2>3. sq' \in [Nodes -> Nat] /\ cq' \in [Nodes -> Seq(Statuses)]
    BY <2>1, EmptySeq
  <2>4. deleted' \in BOOLEAN
    BY <1>4 DEF Close
  <2>5. TypeOK'
    BY <1>4, <2>3, <2>4 DEF Close, IInv, TypeOK, dispatch
  <2>6. QED BY <1>2, <2>2, <2>5, NoneAdded DEF IInv
<1>5. QED BY <1>3, <1>4

(* Every step keeps the invariant.                                         *)
LEMMA NextIInv == IInv /\ [Next]_vars => IInv'
<1> SUFFICES ASSUME IInv, [Next]_vars PROVE IInv'
  OBVIOUS
<1>1. CASE Dispatch
  <2>1. CASE GetNextDataToSend \/ GetConnection \/ GetConnectionTimesOut
    BY <2>1, GetNextStep, GetConnectionStep
  <2>2. CASE Send
    BY <2>2, SendDataStep, SendStep DEF Send
  <2>3. CASE PollCompletions
    BY <2>3, PollStep, CompletionStep, DisconnectedStep DEF PollCompletions
  <2>4. QED BY <1>1, <2>1, <2>2, <2>3 DEF Dispatch
<1>2. CASE HCA
  BY <1>2, HCAStep DEF HCA
<1>3. CASE Connections
  BY <1>3, ConnectionsStep DEF Connections
<1>4. CASE UNCHANGED vars
  <2>1. PendingCovers'
    BY <1>4, QueuesUntouched DEF vars, dispatch, outside
  <2>2. TypeOK'
    BY <1>4 DEF vars, dispatch, outside, IInv, TypeOK
  <2>3. Control'
    BY <1>4 DEF vars, dispatch, IInv, Control
  <2>4. QED BY <2>1, <2>2, <2>3 DEF IInv
<1>5. QED BY <1>1, <1>2, <1>3, <1>4 DEF Next

(* The inductive invariant holds in every state of every behaviour.        *)
THEOREM InvariantHolds == Spec => []IInv
  BY InitIInv, NextIInv, PTL DEF Spec

(* Whatever fails, m_sendQueuePending covers what is in flight to a node:  *)
(* no send queue is overrun.                                               *)
THEOREM QueueNeverOverrun == Spec => []PendingCovers
<1>1. IInv => PendingCovers
  BY DEF IInv
<1>2. QED BY <1>1, InvariantHolds, PTL

-----------------------------------------------------------------------------
(* As long as nothing has failed the counters are exact.                   *)

(* What does not happen before the first failure.                          *)
FaultFree ==
  faults = 0 =>
    /\ closing = {}
    /\ \A n \in Nodes : /\ qp[n] # "error"
                        /\ cq[n] \in Seq({"ok"})
                        /\ workComp[n] \in Seq({"ok"})

(* What the parts of Dispatch leave behind for each other.                 *)
Between ==
  /\ pc # "process" => workComp = Empty
  /\ pc \in {"get", "send"} => prev = NoResults

ExactInv == IInv /\ FaultFree /\ Between /\ PendingExact /\ HandlerKnows

(* The numbers of one node as long as nothing has failed.                  *)
LEMMA ExactTypes ==
  ASSUME ExactInv, faults = 0, NEW n \in Nodes
  PROVE  /\ sq[n] \in Nat /\ sqPending[n] \in Nat /\ unconfirmed[n] \in Int
         /\ Len(cq[n]) \in Nat /\ Len(workComp[n]) \in Nat
         /\ prev.posted \in Nat /\ done[n] \in Nat
         /\ cq[n] \in Seq({"ok"}) /\ workComp[n] \in Seq({"ok"})
         /\ qp[n] # "error" /\ closing = {}
         /\ sq[n] + Len(cq[n]) + Len(workComp[n]) = sqPending[n]
         /\ unconfirmed[n] + Unreported(n) = sqPending[n]
<1>1. /\ sq[n] \in Nat /\ sqPending[n] \in Nat
      /\ Len(cq[n]) \in Nat /\ Len(workComp[n]) \in Nat
  BY NodeTypes DEF ExactInv, IInv
<1>2. unconfirmed[n] \in Int /\ prev.posted \in Nat /\ done[n] \in Nat
  BY SendDispatcherAssumption DEF ExactInv, IInv, TypeOK
<1>3. /\ cq[n] \in Seq({"ok"}) /\ workComp[n] \in Seq({"ok"})
      /\ qp[n] # "error" /\ closing = {}
  BY DEF ExactInv, FaultFree
<1>4. /\ sq[n] + Len(cq[n]) + Len(workComp[n]) = sqPending[n]
      /\ unconfirmed[n] + Unreported(n) = sqPending[n]
  BY DEF ExactInv, PendingExact, HandlerKnows, InFlight
<1>. QED
  BY <1>1, <1>2, <1>3, <1>4

(* Nothing is in flight at the start.                                      *)
LEMMA InitExact == Init => ExactInv
<1>. SUFFICES ASSUME Init PROVE ExactInv
  OBVIOUS
<1>1. IInv
  BY InitIInv
<1>2. ASSUME NEW n \in Nodes
      PROVE  /\ sq[n] = 0 /\ cq[n] = <<>> /\ workComp[n] = <<>> /\ sqPending[n] = 0
             /\ unconfirmed[n] = 0 /\ done[n] = 0 /\ qp[n] = "none"
  BY DEF Init, Empty, Zero
<1>3. closing = {} /\ prev = NoResults /\ workComp = Empty
  BY DEF Init
<1>4. FaultFree
  BY <1>2, <1>3, EmptySeq DEF FaultFree
<1>5. PendingExact
  <2>1. ASSUME NEW n \in Nodes PROVE InFlight(n) = 0
    <3>1. sq[n] = 0 /\ Len(cq[n]) = 0 /\ Len(workComp[n]) = 0
      BY <1>2, LenEmpty
    <3>. QED
      BY <3>1 DEF InFlight
  <2>. QED
    BY <1>2, <2>1 DEF PendingExact
<1>6. HandlerKnows
  <2>1. ASSUME NEW n \in Nodes PROVE Unreported(n) = 0
    <3>1. prev.posted = 0 /\ done[n] = 0
      BY <1>2, <1>3 DEF NoResults
    <3>. QED
      BY <3>1 DEF Unreported
  <2>2. ASSUME NEW n \in Nodes PROVE unconfirmed[n] + Unreported(n) = sqPending[n]
    BY <1>2, <2>1
  <2>. QED
    BY <2>2 DEF HandlerKnows
<1>. QED
  BY <1>1, <1>3, <1>4, <1>5, <1>6 DEF ExactInv, Between

(* Failures are counted and never taken back.                              *)
LEMMA FaultsGrow ==
  ASSUME IInv, [Next]_vars, faults' = 0
  PROVE  faults = 0
<1>1. faults \in Nat
  BY SendDispatcherAssumption DEF IInv, TypeOK
<1>2. faults' = faults \/ faults' = faults + 1
  <2>1. CASE Dispatch
    <3>1. CASE GetNextDataToSend \/ GetConnection \/ GetConnectionTimesOut
      <4>1. CASE GetNextDataToSend \/ GetConnectionTimesOut
        BY <4>1 DEF GetNextDataToSend, GetConnectionTimesOut, outside
      <4>2. CASE GetConnection
        BY <4>2 DEF GetConnection
      <4>. QED
        BY <3>1, <4>1, <4>2
    <3>2. CASE Send
      BY <3>2 DEF Send, SendData, PostFails, ReturnConnection, Fault, outside
    <3>3. CASE NothingToPoll \/ Poll \/ PollFails \/ PollDone
      BY <3>3 DEF NothingToPoll, Poll, PollFails, PollDone, Fault, outside
    <3>4. ASSUME NEW n \in Nodes,
                 \/ Success(n) \/ IgnoredFlush(n) \/ FatalFlush(n)
                 \/ FirstCompletionFails(n) \/ Disconnected(n)
          PROVE  faults' = faults
      BY <3>4 DEF Success, IgnoredFlush, FatalFlush, FirstCompletionFails, Disconnected, outside
    <3>. QED
      BY <2>1, <3>1, <3>2, <3>3, <3>4 DEF Dispatch, PollCompletions
  <2>2. CASE HCA \/ Connections
    BY <2>2 DEF HCA, Complete, RetryExceeded, Flush, Connections, Connect, Close, Fault
  <2>3. CASE UNCHANGED vars
    BY <2>3 DEF vars, outside
  <2>. QED
    BY <2>1, <2>2, <2>3 DEF Next
<1>. QED
  BY <1>1, <1>2

(* A step that changes none of the counters.                               *)
LEMMA CountersSame ==
  ASSUME ExactInv, faults = 0,
         UNCHANGED <<sq, cq, workComp, sqPending, prev, done, unconfirmed, closing>>,
         \A n \in Nodes : qp'[n] # "error"
  PROVE  FaultFree' /\ PendingExact' /\ HandlerKnows'
<1>1. FaultFree'
  BY DEF ExactInv, FaultFree
<1>2. PendingExact'
  BY DEF ExactInv, PendingExact, InFlight
<1>3. HandlerKnows'
  BY DEF ExactInv, HandlerKnows, Unreported
<1>. QED
  BY <1>1, <1>2, <1>3

(* The handler is told what was posted and what was completed.             *)
LEMMA TellExact ==
  ASSUME ExactInv, faults = 0, GetNextDataToSend
  PROVE  FaultFree' /\ PendingExact' /\ HandlerKnows'
<1>1. /\ unconfirmed' = [n \in Nodes |-> unconfirmed[n] + Unreported(n)]
      /\ prev' = NoResults /\ done' = Zero
  <2>1. /\ unconfirmed' = [n \in Nodes |->
             unconfirmed[n] + (IF prev.node = n THEN prev.posted ELSE 0) - done[n]]
        /\ prev' = NoResults /\ done' = Zero
    BY DEF GetNextDataToSend, ResetList, ReportedOnce
  <2>2. ASSUME NEW n \in Nodes
        PROVE  unconfirmed[n] + (IF prev.node = n THEN prev.posted ELSE 0) - done[n]
                 = unconfirmed[n] + Unreported(n)
    BY ExactTypes DEF Unreported
  <2>. QED
    BY <2>1, <2>2
<1>2. UNCHANGED <<sq, cq, workComp, sqPending, qp, closing, faults>>
  BY DEF GetNextDataToSend, outside
<1>3. FaultFree' /\ PendingExact'
  BY <1>2 DEF ExactInv, FaultFree, PendingExact, InFlight
<1>4. ASSUME NEW n \in Nodes PROVE unconfirmed'[n] + Unreported(n)' = sqPending'[n]
  <2>1. Unreported(n)' = 0
    <3>1. prev'.posted = 0 /\ done'[n] = 0
      BY <1>1 DEF NoResults, Zero
    <3>. QED
      BY <3>1 DEF Unreported
  <2>2. unconfirmed'[n] = sqPending[n] /\ sqPending[n] \in Nat
    BY <1>1, ExactTypes
  <2>. QED
    BY <1>2, <2>1, <2>2
<1>. QED
  BY <1>3, <1>4 DEF HandlerKnows

(* What is posted is in the send queue, pending, and about to be told.     *)
LEMMA SendExact ==
  ASSUME ExactInv, faults = 0, SendData
  PROVE  FaultFree' /\ PendingExact' /\ HandlerKnows'
<1>. DEFINE m == package.node
<1>1. pc = "send"
  BY DEF SendData, At
<1>2. prev = NoResults /\ m \in Nodes
  BY <1>1 DEF ExactInv, Between, IInv, Control
<1>3. PICK k \in Nat : k = Posted(m, package.want)
  <2>1. m \in Nodes /\ package.want \in 1..MaxWant
    BY <1>1, PackageType DEF ExactInv, IInv
  <2>2. sqPending \in [Nodes -> 0..SQSize]
    BY DEF ExactInv, IInv, TypeOK
  <2>3. Posted(m, package.want) \in 0..SQSize
    BY <2>1, <2>2, PostedFits
  <2>. QED
    BY <2>3, SendDispatcherAssumption
<1>4. CASE deleted \/ ctxUsed + k > SCQSize
  <2>1. (\E e \in Exceptions : Throw(e)) /\ UNCHANGED outside
    BY <1>3, <1>4 DEF SendData, Exceptions
  <2>2. UNCHANGED <<sq, cq, workComp, sqPending, prev, done, unconfirmed, closing, qp>>
    BY <2>1 DEF Throw, outside
  <2>. QED
    BY <2>2, CountersSame, ExactTypes
<1>5. CASE ~(deleted \/ ctxUsed + k > SCQSize)
  <2>1. /\ prev' = [node |-> m, posted |-> k, left |-> package.want - k]
        /\ sqPending' = [sqPending EXCEPT ![m] = @ + k]
        /\ sq' = [sq EXCEPT ![m] = @ + k]
        /\ UNCHANGED <<cq, workComp, done, unconfirmed, closing, qp, faults>>
    BY <1>3, <1>5 DEF SendData, PendingOfPost
  <2>2. FaultFree'
    BY <2>1 DEF ExactInv, FaultFree
  <2>3. sq \in [Nodes -> Nat] /\ sqPending \in [Nodes -> 0..SQSize]
    BY DEF ExactInv, IInv, TypeOK
  <2>4. ASSUME NEW n \in Nodes
        PROVE  /\ InFlight(n)' = sqPending'[n]
               /\ unconfirmed'[n] + Unreported(n)' = sqPending'[n]
    <3>1. /\ sq[n] \in Nat /\ sqPending[n] \in Nat /\ unconfirmed[n] \in Int
          /\ Len(cq[n]) \in Nat /\ Len(workComp[n]) \in Nat /\ done[n] \in Nat
          /\ sq[n] + Len(cq[n]) + Len(workComp[n]) = sqPending[n]
          /\ unconfirmed[n] + Unreported(n) = sqPending[n]
      BY ExactTypes
    <3>2. Unreported(n) = 0 - done[n]
      BY <1>2, <3>1 DEF Unreported, NoResults
    <3>3. CASE n = m
      <4>1. sq'[n] = sq[n] + k /\ sqPending'[n] = sqPending[n] + k
        BY <1>2, <2>1, <2>3, <3>3
      <4>2. Unreported(n)' = k - done[n]
        BY <2>1, <3>3 DEF Unreported
      <4>3. cq'[n] = cq[n] /\ workComp'[n] = workComp[n] /\ unconfirmed'[n] = unconfirmed[n]
        BY <2>1
      <4>4. InFlight(n)' = sqPending'[n]
        <5>1. (sq[n] + k) + Len(cq[n]) + Len(workComp[n]) = sqPending[n] + k
          BY <1>3, <3>1
        <5>2. InFlight(n)' = sq'[n] + Len(cq'[n]) + Len(workComp'[n])
          BY DEF InFlight
        <5>. QED
          BY <4>1, <4>3, <5>1, <5>2
      <4>. QED
        BY <1>3, <3>1, <3>2, <4>1, <4>2, <4>3, <4>4
    <3>4. CASE n # m
      <4>1. sq'[n] = sq[n] /\ sqPending'[n] = sqPending[n]
        BY <1>2, <2>1, <2>3, <3>4
      <4>2. Unreported(n)' = 0 - done[n]
        BY <2>1, <3>4 DEF Unreported
      <4>3. cq'[n] = cq[n] /\ workComp'[n] = workComp[n] /\ unconfirmed'[n] = unconfirmed[n]
        BY <2>1
      <4>4. InFlight(n)' = sqPending'[n]
        BY <3>1, <4>1, <4>3 DEF InFlight
      <4>. QED
        BY <3>1, <3>2, <4>1, <4>2, <4>3, <4>4
    <3>. QED
      BY <3>3, <3>4
  <2>. QED
    BY <2>2, <2>4 DEF PendingExact, HandlerKnows
<1>. QED
  BY <1>4, <1>5

(* The CQ is polled: its completions are processed next.                   *)
LEMMA PollExact ==
  ASSUME ExactInv, faults = 0, Poll
  PROVE  FaultFree' /\ PendingExact' /\ HandlerKnows'
<1>1. /\ workComp' = cq /\ cq' = Empty /\ workComp = Empty
      /\ UNCHANGED <<sq, sqPending, prev, done, unconfirmed, closing, qp>>
  BY DEF Poll, At, ExactInv, Between
<1>2. ASSUME NEW n \in Nodes
      PROVE  /\ cq'[n] \in Seq({"ok"}) /\ workComp'[n] \in Seq({"ok"})
             /\ InFlight(n)' = sqPending'[n]
  <2>1. /\ workComp[n] = <<>> /\ cq'[n] = <<>> /\ workComp'[n] = cq[n]
        /\ sq'[n] = sq[n] /\ sqPending'[n] = sqPending[n]
    BY <1>1 DEF Empty
  <2>2. Len(workComp[n]) = 0 /\ Len(cq'[n]) = 0 /\ <<>> \in Seq({"ok"})
    BY <2>1, LenEmpty, EmptySeq
  <2>3. /\ sq[n] \in Nat /\ Len(cq[n]) \in Nat /\ cq[n] \in Seq({"ok"})
        /\ sq[n] + Len(cq[n]) + 0 = sqPending[n]
    BY <2>2, ExactTypes
  <2>4. InFlight(n)' = sq[n] + 0 + Len(cq[n])
    BY <2>1, <2>2 DEF InFlight
  <2>. QED
    BY <2>1, <2>2, <2>3, <2>4
<1>3. FaultFree'
  BY <1>1, <1>2 DEF ExactInv, FaultFree
<1>4. HandlerKnows'
  BY <1>1 DEF ExactInv, HandlerKnows, Unreported
<1>. QED
  BY <1>2, <1>3, <1>4 DEF PendingExact

(* One of the requests moves on.                                           *)
LEMMA OneMoves ==
  ASSUME NEW a \in Int, NEW b \in Int, NEW c \in Int
  PROVE  (a - 1) + (b + 1) + c = a + b + c
OBVIOUS

(* One less to be told.                                                    *)
LEMMA OneLess ==
  ASSUME NEW a \in Int, NEW b \in Int, NEW d \in Int, a + b = d
  PROVE  a + (b - 1) = d - 1
OBVIOUS

(* A completion is processed: one pending request less, one more to tell.  *)
LEMMA SuccessExact ==
  ASSUME ExactInv, faults = 0, NEW n \in Nodes, Success(n)
  PROVE  FaultFree' /\ PendingExact' /\ HandlerKnows'
<1>1. /\ workComp[n] # <<>>
      /\ workComp' = [workComp EXCEPT ![n] = Tail(@)]
      /\ sqPending' = [sqPending EXCEPT ![n] = @ - 1]
      /\ done' = [done EXCEPT ![n] = @ + 1]
      /\ UNCHANGED <<sq, cq, prev, unconfirmed, closing, qp>>
  BY DEF Success, Polled, Completed, Settled, outside
<1>2. /\ workComp \in [Nodes -> Seq(Statuses)] /\ sqPending \in [Nodes -> 0..SQSize]
      /\ done \in [Nodes -> Nat]
  BY DEF ExactInv, IInv, TypeOK
<1>3. ASSUME NEW i \in Nodes
      PROVE  /\ workComp'[i] \in Seq({"ok"})
             /\ InFlight(i)' = sqPending'[i]
             /\ unconfirmed'[i] + Unreported(i)' = sqPending'[i]
  <2>1. /\ sq[i] \in Nat /\ sqPending[i] \in Nat /\ unconfirmed[i] \in Int
        /\ Len(cq[i]) \in Nat /\ Len(workComp[i]) \in Nat
        /\ prev.posted \in Nat /\ done[i] \in Nat
        /\ sq[i] + Len(cq[i]) + Len(workComp[i]) = sqPending[i]
        /\ unconfirmed[i] + Unreported(i) = sqPending[i]
    BY ExactTypes
  <2>0. workComp[i] \in Seq({"ok"})
    BY ExactTypes
  <2>2. CASE i = n
    <3>1. /\ workComp'[i] = Tail(workComp[i]) /\ sqPending'[i] = sqPending[i] - 1
          /\ done'[i] = done[i] + 1 /\ sq'[i] = sq[i] /\ cq'[i] = cq[i]
          /\ unconfirmed'[i] = unconfirmed[i]
      BY <1>1, <1>2, <2>2
    <3>2. /\ Tail(workComp[i]) \in Seq({"ok"})
          /\ Len(Tail(workComp[i])) = Len(workComp[i]) - 1
      BY <1>1, <2>0, <2>2, QueueLengths
    <3>3. Unreported(i)' = Unreported(i) - 1
      <4>1. prev' = prev /\ done'[i] = done[i] + 1
        BY <1>1, <3>1
      <4>2. \A p, d \in Int : p - (d + 1) = (p - d) - 1
        OBVIOUS
      <4>. QED
        BY <2>1, <4>1, <4>2 DEF Unreported
    <3>4. Unreported(i) \in Int
      BY <2>1 DEF Unreported
    <3>5. InFlight(i)' = sq[i] + Len(cq[i]) + (Len(workComp[i]) - 1)
      BY <3>1, <3>2 DEF InFlight
    <3>6. InFlight(i)' = sqPending'[i]
      <4>1. sqPending'[i] = sqPending[i] - 1
        BY <3>1
      <4>2. \A a, b, c \in Int : a + b + (c - 1) = (a + b + c) - 1
        OBVIOUS
      <4>3. sq[i] \in Int /\ Len(cq[i]) \in Int /\ Len(workComp[i]) \in Int
        BY <2>1
      <4>4. sq[i] + Len(cq[i]) + (Len(workComp[i]) - 1)
              = (sq[i] + Len(cq[i]) + Len(workComp[i])) - 1
        BY <4>2, <4>3
      <4>5. sq[i] + Len(cq[i]) + Len(workComp[i]) = sqPending[i]
        BY <2>1
      <4>. QED
        BY <3>5, <4>1, <4>4, <4>5
    <3>7. unconfirmed'[i] + Unreported(i)' = sqPending'[i]
      <4>1. unconfirmed'[i] = unconfirmed[i] /\ sqPending'[i] = sqPending[i] - 1
        BY <3>1
      <4>2. unconfirmed[i] + (Unreported(i) - 1) = sqPending[i] - 1
        <5>1. /\ unconfirmed[i] \in Int /\ sqPending[i] \in Int
              /\ unconfirmed[i] + Unreported(i) = sqPending[i]
          BY <2>1
        <5>. QED
          BY <3>4, <5>1, OneLess
      <4>. QED
        BY <3>3, <4>1, <4>2
    <3>. QED
      BY <3>1, <3>2, <3>6, <3>7
  <2>3. CASE i # n
    <3>1. /\ workComp'[i] = workComp[i] /\ sqPending'[i] = sqPending[i]
          /\ done'[i] = done[i] /\ sq'[i] = sq[i] /\ cq'[i] = cq[i]
          /\ unconfirmed'[i] = unconfirmed[i]
      BY <1>1, <1>2, <2>3
    <3>2. InFlight(i)' = sq[i] + Len(cq[i]) + Len(workComp[i])
      BY <1>1, <3>1 DEF InFlight
    <3>3. Unreported(i)' = Unreported(i)
      BY <1>1, <3>1 DEF Unreported
    <3>. QED
      BY <2>0, <2>1, <3>1, <3>2, <3>3
  <2>. QED
    BY <2>2, <2>3
<1>4. FaultFree'
  BY <1>1, <1>3 DEF ExactInv, FaultFree
<1>. QED
  BY <1>3, <1>4 DEF PendingExact, HandlerKnows

(* The HCA completes a request.                                            *)
LEMMA CompleteExact ==
  ASSUME ExactInv, faults = 0, NEW n \in Nodes, Complete(n)
  PROVE  FaultFree' /\ PendingExact' /\ HandlerKnows'
<1>1. /\ sq[n] > 0
      /\ sq' = [sq EXCEPT ![n] = @ - 1]
      /\ cq' = [cq EXCEPT ![n] = Append(@, "ok")]
      /\ UNCHANGED <<workComp, sqPending, prev, done, unconfirmed, closing, qp>>
  BY DEF Complete, dispatch
<1>2. sq \in [Nodes -> Nat] /\ cq \in [Nodes -> Seq(Statuses)]
  BY DEF ExactInv, IInv, TypeOK
<1>3. ASSUME NEW i \in Nodes
      PROVE  cq'[i] \in Seq({"ok"}) /\ InFlight(i)' = sqPending'[i]
  <2>1. /\ sq[i] \in Nat /\ Len(cq[i]) \in Nat /\ Len(workComp[i]) \in Nat
        /\ cq[i] \in Seq({"ok"})
        /\ sq[i] + Len(cq[i]) + Len(workComp[i]) = sqPending[i]
    BY ExactTypes
  <2>2. CASE i = n
    <3>1. /\ sq'[i] = sq[i] - 1 /\ cq'[i] = Append(cq[i], "ok")
          /\ workComp'[i] = workComp[i] /\ sqPending'[i] = sqPending[i]
      BY <1>1, <1>2, <2>2
    <3>2. Append(cq[i], "ok") \in Seq({"ok"}) /\ Len(Append(cq[i], "ok")) = Len(cq[i]) + 1
      BY <2>1, QueueLengths
    <3>3. InFlight(i)' = (sq[i] - 1) + (Len(cq[i]) + 1) + Len(workComp[i])
      BY <3>1, <3>2 DEF InFlight
    <3>4. (sq[i] - 1) + (Len(cq[i]) + 1) + Len(workComp[i]) = sqPending[i]
      <4>1. sq[i] \in Int /\ Len(cq[i]) \in Int /\ Len(workComp[i]) \in Int
        BY <2>1
      <4>2. sq[i] + Len(cq[i]) + Len(workComp[i]) = sqPending[i]
        BY <2>1
      <4>. QED
        BY <4>1, <4>2, OneMoves
    <3>5. sqPending'[i] = sqPending[i] /\ cq'[i] \in Seq({"ok"})
      BY <3>1, <3>2
    <3>. QED
      BY <3>3, <3>4, <3>5
  <2>3. CASE i # n
    <3>1. /\ sq'[i] = sq[i] /\ cq'[i] = cq[i]
          /\ workComp'[i] = workComp[i] /\ sqPending'[i] = sqPending[i]
      BY <1>1, <1>2, <2>3
    <3>2. InFlight(i)' = sq[i] + Len(cq[i]) + Len(workComp[i])
      BY <3>1 DEF InFlight
    <3>. QED
      BY <2>1, <3>1, <3>2
  <2>. QED
    BY <2>2, <2>3
<1>4. FaultFree'
  BY <1>1, <1>3 DEF ExactInv, FaultFree
<1>5. HandlerKnows'
  BY <1>1 DEF ExactInv, HandlerKnows, Unreported
<1>. QED
  BY <1>3, <1>4, <1>5 DEF PendingExact

(* Before the first failure no other step changes the counters.            *)
LEMMA OthersExact ==
  ASSUME ExactInv, faults = 0, faults' = 0, NEW n \in Nodes,
         \/ GetConnection \/ GetConnectionTimesOut \/ PostFails \/ ReturnConnection
         \/ NothingToPoll \/ PollFails \/ PollDone
         \/ IgnoredFlush(n) \/ FatalFlush(n) \/ FirstCompletionFails(n) \/ Disconnected(n)
         \/ RetryExceeded(n) \/ Flush(n) \/ Connect(n) \/ Close(n)
         \/ UNCHANGED vars
  PROVE  FaultFree' /\ PendingExact' /\ HandlerKnows'
<1>1. ~Fault
  BY DEF Fault
<1>2. ASSUME NEW e \in {"flush", "retry"} PROVE ~Polled(n, e)
  <2>1. workComp[n] \in Seq({"ok"})
    BY ExactTypes
  <2>2. workComp[n] # <<>> => Head(workComp[n]) \in {"ok"}
    BY <2>1, QueueLengths
  <2>. QED
    BY <2>2 DEF Polled
<1>3. qp[n] # "error" /\ closing = {}
  BY ExactTypes
<1>4. /\ UNCHANGED <<sq, cq, workComp, sqPending, prev, done, unconfirmed, closing>>
      /\ qp' = qp \/ (Connect(n) /\ qp' = [qp EXCEPT ![n] = "up"])
  <2>1. CASE GetConnection \/ GetConnectionTimesOut \/ ReturnConnection
    BY <2>1 DEF GetConnection, GetConnectionTimesOut, ReturnConnection, Throw, outside
  <2>2. CASE NothingToPoll \/ PollDone
    BY <2>2 DEF NothingToPoll, PollDone, outside
  <2>3. CASE PostFails \/ PollFails \/ RetryExceeded(n)
    BY <1>1, <2>3 DEF PostFails, PollFails, RetryExceeded
  <2>4. CASE IgnoredFlush(n) \/ FatalFlush(n) \/ FirstCompletionFails(n) \/ Disconnected(n)
    BY <1>2, <2>4 DEF IgnoredFlush, FatalFlush, FirstCompletionFails, Disconnected
  <2>5. CASE Flush(n) \/ Close(n)
    BY <1>3, <2>5 DEF Flush, Close
  <2>6. CASE Connect(n)
    BY <2>6 DEF Connect, dispatch
  <2>7. CASE UNCHANGED vars
    BY <2>7 DEF vars, dispatch, outside
  <2>. QED
    BY <2>1, <2>2, <2>3, <2>4, <2>5, <2>6, <2>7
<1>5. \A i \in Nodes : qp'[i] # "error"
  <2>1. qp \in [Nodes -> {"none", "up", "error"}]
    BY DEF ExactInv, IInv, TypeOK
  <2>2. \A i \in Nodes : qp[i] # "error"
    BY ExactTypes
  <2>. QED
    BY <1>4, <2>1, <2>2
<1>. QED
  BY <1>4, <1>5, CountersSame

(* What the parts of Dispatch leave behind, whatever fails.                *)
LEMMA BetweenKept ==
  ASSUME IInv, Between, [Next]_vars
  PROVE  Between'
<1>1. CASE GetNextDataToSend \/ GetConnection \/ GetConnectionTimesOut
  BY <1>1 DEF GetNextDataToSend, GetConnection, GetConnectionTimesOut, At, Between
<1>2. CASE SendData
  <2>1. CASE UNCHANGED <<pc, prev, workComp>>
    BY <2>1 DEF Between
  <2>2. CASE pc = "send" /\ pc' = "return" /\ UNCHANGED workComp
    BY <2>2 DEF Between
  <2>. QED
    BY <1>2, <2>1, <2>2 DEF SendData, At, Throw
<1>3. CASE PostFails \/ ReturnConnection
  BY <1>3 DEF PostFails, ReturnConnection, PollNext, AfterReturn, Throw, At, outside, Between
<1>4. CASE NothingToPoll \/ Poll \/ PollFails \/ PollDone
  BY <1>4 DEF NothingToPoll, Poll, PollFails, PollDone, Throw, At, outside, Between
<1>5. ASSUME NEW n \in Nodes,
             \/ Success(n) \/ IgnoredFlush(n) \/ FatalFlush(n)
             \/ FirstCompletionFails(n) \/ Disconnected(n)
      PROVE  Between'
  <2>1. CASE Success(n) \/ IgnoredFlush(n)
    BY <2>1 DEF Success, IgnoredFlush, Polled, At, Between
  <2>2. CASE FatalFlush(n) \/ FirstCompletionFails(n)
    BY <2>2 DEF FatalFlush, FirstCompletionFails, Throw, Between
  <2>3. CASE Disconnected(n)
    BY <2>3 DEF Disconnected, Throw, Between
  <2>. QED
    BY <1>5, <2>1, <2>2, <2>3
<1>6. CASE HCA \/ Connections \/ UNCHANGED vars
  <2>1. UNCHANGED dispatch
    BY <1>6 DEF HCA, Complete, RetryExceeded, Flush, Connections, Connect, Close, vars
  <2>. QED
    BY <2>1 DEF dispatch, Between
<1>. QED
  BY <1>1, <1>2, <1>3, <1>4, <1>5, <1>6 DEF Next, Dispatch, Send, PollCompletions

(* Every step keeps the counters exact until something fails.              *)
LEMMA NextExact == ExactInv /\ [Next]_vars => ExactInv'
<1>. SUFFICES ASSUME ExactInv, [Next]_vars PROVE ExactInv'
  OBVIOUS
<1>1. IInv' /\ Between'
  BY NextIInv, BetweenKept DEF ExactInv
<1>2. CASE faults' # 0
  BY <1>1, <1>2 DEF ExactInv, FaultFree, PendingExact, HandlerKnows
<1>3. CASE faults' = 0
  <2>1. faults = 0
    BY <1>3, FaultsGrow DEF ExactInv
  <2>2. FaultFree' /\ PendingExact' /\ HandlerKnows'
    <3>1. CASE GetNextDataToSend \/ SendData \/ Poll
      BY <2>1, <3>1, TellExact, SendExact, PollExact
    <3>2. ASSUME NEW n \in Nodes, Success(n) \/ Complete(n)
          PROVE  FaultFree' /\ PendingExact' /\ HandlerKnows'
      BY <2>1, <3>2, SuccessExact, CompleteExact
    <3>3. ASSUME NEW n \in Nodes,
                 \/ IgnoredFlush(n) \/ FatalFlush(n) \/ FirstCompletionFails(n)
                 \/ Disconnected(n) \/ RetryExceeded(n) \/ Flush(n) \/ Connect(n) \/ Close(n)
          PROVE  FaultFree' /\ PendingExact' /\ HandlerKnows'
      BY <1>3, <2>1, <3>3, OthersExact
    <3>4. CASE \/ GetConnection \/ GetConnectionTimesOut \/ PostFails \/ ReturnConnection
               \/ NothingToPoll \/ PollFails \/ PollDone \/ UNCHANGED vars
      <4>1. CASE Nodes = {}
        <5>1. closing' = {}
          BY <1>1, <4>1 DEF IInv, TypeOK
        <5>. QED
          BY <4>1, <5>1 DEF FaultFree, PendingExact, HandlerKnows
      <4>2. CASE Nodes # {}
        <5>1. PICK n \in Nodes : TRUE
          BY <4>2
        <5>. QED
          BY <1>3, <2>1, <3>4, <5>1, OthersExact
      <4>. QED
        BY <4>1, <4>2
    <3>. QED
      BY <3>1, <3>2, <3>3, <3>4
         DEF Next, Dispatch, Send, PollCompletions, HCA, Connections
  <2>. QED
    BY <1>1, <2>2 DEF ExactInv
<1>. QED
  BY <1>2, <1>3

(* For any number of nodes: until something fails m_sendQueuePending is    *)
(* exactly what is in flight to each.                                      *)
THEOREM PendingExactHolds == Spec => []PendingExact
<1>1. ExactInv => PendingExact
  BY DEF ExactInv
<1>. QED
  BY <1>1, InitExact, NextExact, PTL DEF Spec

(* For any number of nodes: until something fails the handler knows, with  *)
(* what it is about to be told, exactly what is pending.                   *)
THEOREM HandlerKnowsHolds == Spec => []HandlerKnows
<1>1. ExactInv => HandlerKnows
  BY DEF ExactInv
<1>. QED
  BY <1>1, InitExact, NextExact, PTL DEF Spec

(* All variables stay in their types, whatever fails.                      *)
THEOREM TypesHold == Spec => []TypeOK
<1>1. IInv => TypeOK
  BY DEF IInv
<1>. QED
  BY <1>1, InvariantHolds, PTL

-----------------------------------------------------------------------------
(* The sums over all nodes, whatever fails.                                *)

Flight == [n \in Nodes |-> InFlight(n)]

(* There is no exception that was not there, except in its place.          *)
OnlyThrows ==
  /\ thrown' = "none" => thrown = "none"
  /\ thrown' # "post failed" => thrown # "post failed"

SumsInv == IInv /\ IsFiniteSet(Requests(sqPending)) /\ ContextsBetween

(* The two sums, and the bound of one by the other.                        *)
LEMMA SumTypes ==
  ASSUME SumsInv
  PROVE  /\ sqPending \in [Nodes -> Nat] /\ Flight \in [Nodes -> Nat]
         /\ IsFiniteSet(Requests(Flight))
         /\ AllPending \in Nat /\ AllInFlight \in Nat
         /\ AllPending = Total(sqPending) /\ AllInFlight = Total(Flight)
         /\ AllInFlight <= AllPending
         /\ cqPending \in Int /\ ctxUsed \in Int
<1>1. ASSUME NEW n \in Nodes
      PROVE  /\ sqPending[n] \in Nat /\ InFlight(n) \in Nat
             /\ InFlight(n) <= sqPending[n]
  BY NodeTypes DEF SumsInv, IInv, PendingCovers, InFlight
<1>2. sqPending \in [Nodes -> Nat]
  <2>1. sqPending \in [Nodes -> 0..SQSize]
    BY DEF SumsInv, IInv, TypeOK
  <2>. QED
    BY <1>1, <2>1
<1>3. Flight \in [Nodes -> Nat] /\ \A n \in Nodes : Flight[n] <= sqPending[n]
  BY <1>1 DEF Flight
<1>4. AllPending = Total(sqPending) /\ AllInFlight = Total(Flight)
  BY DEF AllPending, AllInFlight, Flight
<1>5. /\ IsFiniteSet(Requests(Flight)) /\ Total(Flight) \in Nat
      /\ Total(sqPending) \in Nat /\ Total(Flight) <= Total(sqPending)
  BY <1>2, <1>3, TotalGrows DEF SumsInv
<1>6. cqPending \in Int /\ ctxUsed \in Int
  BY DEF SumsInv, IInv, TypeOK
<1>. QED
  BY <1>2, <1>3, <1>4, <1>5, <1>6

(* What is in flight at all is no more when it is no more for any node.    *)
LEMMA FlightBelow ==
  ASSUME SumsInv, IInv', NEW f \in [Nodes -> Nat], IsFiniteSet(Requests(f)),
         \A n \in Nodes : InFlight(n)' <= f[n]
  PROVE  AllInFlight' \in Nat /\ AllInFlight' <= Total(f)
<1>1. ASSUME NEW n \in Nodes PROVE InFlight(n)' \in Nat
  <2>1. TypeOK'
    BY DEF IInv
  <2>2. sq'[n] \in Nat /\ cq'[n] \in Seq(Statuses) /\ workComp'[n] \in Seq(Statuses)
    BY <2>1 DEF TypeOK
  <2>3. Len(cq'[n]) \in Nat /\ Len(workComp'[n]) \in Nat
    BY <2>2, LenProperties
  <2>. QED
    BY <2>2, <2>3 DEF InFlight
<1>. DEFINE g == [n \in Nodes |-> InFlight(n)']
<1>2. g \in [Nodes -> Nat] /\ \A n \in Nodes : g[n] <= f[n]
  BY <1>1
<1>3. AllInFlight' = Total(g)
  BY DEF AllInFlight, Total, Requests
<1>. HIDE DEF g
<1>4. Total(g) \in Nat /\ Total(g) <= Total(f)
  BY <1>2, TotalGrows
<1>. QED
  BY <1>3, <1>4

(* A step that counts nothing: less is in flight, or as much.              *)
LEMMA SumsUncounted ==
  ASSUME SumsInv, IInv', OnlyThrows, UNCHANGED <<sqPending, cqPending, ctxUsed>>,
         \A n \in Nodes : InFlight(n)' <= InFlight(n)
  PROVE  SumsInv'
<1>1. \A n \in Nodes : InFlight(n)' <= Flight[n]
  BY DEF Flight
<1>2. AllInFlight' \in Nat /\ AllInFlight' <= AllInFlight
  BY <1>1, SumTypes, FlightBelow
<1>3. AllPending' = AllPending
  BY DEF AllPending
<1>4. ContextsBetween'
  <2>1. cqPending' = AllPending' /\ ctxUsed' >= 0
    BY <1>3 DEF SumsInv, ContextsBetween
  <2>2. thrown' # "post failed" => ctxUsed' <= AllPending'
    BY <1>3 DEF OnlyThrows, SumsInv, ContextsBetween
  <2>3. ASSUME thrown' = "none" PROVE AllInFlight' <= ctxUsed'
    <3>1. AllInFlight <= ctxUsed /\ ctxUsed' = ctxUsed
      BY <2>3 DEF OnlyThrows, SumsInv, ContextsBetween
    <3>. QED
      BY <1>2, <3>1, SumTypes
  <2>. QED
    BY <2>1, <2>2, <2>3 DEF ContextsBetween
<1>5. IsFiniteSet(Requests(sqPending))'
  BY DEF SumsInv, Requests
<1>. QED
  BY <1>4, <1>5 DEF SumsInv

(* Nothing moves between the queues.                                       *)
LEMMA SumsUntouched ==
  ASSUME SumsInv, IInv', OnlyThrows,
         UNCHANGED <<sqPending, cqPending, ctxUsed, sq, cq, workComp>>
  PROVE  SumsInv'
<1>1. ASSUME NEW n \in Nodes PROVE InFlight(n)' <= InFlight(n)
  <2>1. InFlight(n)' = InFlight(n)
    BY DEF InFlight
  <2>2. InFlight(n) \in Nat
    BY NodeTypes DEF SumsInv, IInv, InFlight
  <2>. QED
    BY <2>1, <2>2
<1>. QED
  BY <1>1, SumsUncounted

(* Posting: as many contexts as requests.                                  *)
LEMMA SumsSend ==
  ASSUME SumsInv, IInv', SendData
  PROVE  SumsInv'
<1>1. pc = "send" /\ thrown = "none"
  BY DEF SendData, At
<1>2. PICK n \in Nodes : n = package.node /\ package.want \in 1..MaxWant
  BY <1>1, PackageType DEF SumsInv
<1>3. PICK k \in Nat : k = Posted(n, package.want)
  <2>1. sqPending \in [Nodes -> 0..SQSize]
    BY DEF SumsInv, IInv, TypeOK
  <2>2. Posted(n, package.want) \in 0..SQSize
    BY <1>2, <2>1, PostedFits
  <2>. QED
    BY <2>2, SendDispatcherAssumption
<1>4. CASE deleted \/ ctxUsed + k > SCQSize
  <2>1. PICK e \in {"connection deleted", "pool ran dry"} :
          Throw(e) /\ UNCHANGED <<ctxUsed, outside>>
    BY <1>2, <1>3, <1>4 DEF SendData
  <2>2. /\ OnlyThrows
        /\ UNCHANGED <<sqPending, cqPending, ctxUsed, sq, cq, workComp>>
    BY <1>1, <2>1 DEF Throw, outside, OnlyThrows
  <2>. QED
    BY <2>2, SumsUntouched
<1>5. CASE ~(deleted \/ ctxUsed + k > SCQSize)
  <2>1. /\ ctxUsed' = ctxUsed + k /\ cqPending' = cqPending + k
        /\ sqPending' = [sqPending EXCEPT ![n] = @ + k]
        /\ sq' = [sq EXCEPT ![n] = @ + k]
        /\ UNCHANGED <<thrown, cq, workComp>>
    BY <1>2, <1>3, <1>5 DEF SendData, PendingOfPost
  <2>2. /\ IsFiniteSet(Requests([sqPending EXCEPT ![n] = @ + k]))
        /\ Total([sqPending EXCEPT ![n] = @ + k]) = AllPending + k
    <3>1. /\ sqPending \in [Nodes -> Nat] /\ IsFiniteSet(Requests(sqPending))
          /\ AllPending = Total(sqPending) /\ k \in Nat /\ n \in Nodes
      BY SumTypes DEF SumsInv
    <3>. QED
      BY <3>1, MoreRequests, Zenon
  <2>3. IsFiniteSet(Requests(sqPending))'
    BY <2>1, <2>2 DEF Requests
  <2>4. AllPending' = AllPending + k
    BY <2>1, <2>2 DEF AllPending, Total, Requests
  <2>5. /\ [Flight EXCEPT ![n] = @ + k] \in [Nodes -> Nat]
        /\ IsFiniteSet(Requests([Flight EXCEPT ![n] = @ + k]))
        /\ Total([Flight EXCEPT ![n] = @ + k]) = AllInFlight + k
    <3>1. /\ Flight \in [Nodes -> Nat] /\ IsFiniteSet(Requests(Flight))
          /\ AllInFlight = Total(Flight) /\ k \in Nat /\ n \in Nodes
      BY SumTypes
    <3>. QED
      BY <3>1, MoreRequests, Zenon
  <2>6. ASSUME NEW m \in Nodes
        PROVE  InFlight(m)' <= [Flight EXCEPT ![n] = @ + k][m]
    <3>1. sq \in [Nodes -> Nat]
      BY DEF SumsInv, IInv, TypeOK
    <3>2. sq[m] \in Nat /\ Len(cq[m]) \in Nat /\ Len(workComp[m]) \in Nat
      BY NodeTypes DEF SumsInv, IInv
    <3>3. InFlight(m)' = sq'[m] + Len(cq[m]) + Len(workComp[m])
      BY <2>1 DEF InFlight
    <3>4. Flight[m] = sq[m] + Len(cq[m]) + Len(workComp[m])
      BY DEF Flight, InFlight
    <3>5. CASE m = n
      <4>1. sq'[m] = sq[m] + k /\ [Flight EXCEPT ![n] = @ + k][m] = Flight[m] + k
        BY <2>1, <3>1, <3>5, SumTypes
      <4>. QED
        BY <3>2, <3>3, <3>4, <4>1
    <3>6. CASE m # n
      <4>1. sq'[m] = sq[m] /\ [Flight EXCEPT ![n] = @ + k][m] = Flight[m]
        BY <2>1, <3>1, <3>6, SumTypes
      <4>. QED
        BY <3>2, <3>3, <3>4, <4>1
    <3>. QED
      BY <3>5, <3>6
  <2>7. AllInFlight' <= AllInFlight + k /\ AllInFlight' \in Nat
    BY <2>5, <2>6, FlightBelow
  <2>8. ContextsBetween'
    <3>1. /\ AllInFlight <= ctxUsed /\ ctxUsed <= AllPending /\ ctxUsed >= 0
          /\ cqPending = AllPending
      BY <1>1 DEF SumsInv, ContextsBetween
    <3>2. ctxUsed' = ctxUsed + k /\ cqPending' = cqPending + k
      BY <2>1
    <3>3. /\ AllInFlight' <= ctxUsed' /\ ctxUsed' <= AllPending' /\ ctxUsed' >= 0
          /\ cqPending' = AllPending'
      BY <2>4, <2>7, <3>1, <3>2, SumTypes
    <3>. QED
      BY <3>3 DEF ContextsBetween
  <2>. QED
    BY <2>3, <2>8 DEF SumsInv
<1>. QED
  BY <1>4, <1>5

(* A failed post keeps its contexts, and ends the process.                 *)
LEMMA SumsPostFails ==
  ASSUME SumsInv, IInv', PostFails
  PROVE  SumsInv'
<1>1. /\ thrown' = "post failed" /\ UNCHANGED <<sqPending, cqPending>> /\ pc = "send"
  BY DEF PostFails, Throw, At
<1>2. PICK k \in Nat : k = Posted(package.node, package.want)
  <2>1. package.node \in Nodes /\ package.want \in 1..MaxWant
    BY <1>1, PackageType DEF SumsInv
  <2>2. sqPending \in [Nodes -> 0..SQSize]
    BY DEF SumsInv, IInv, TypeOK
  <2>3. Posted(package.node, package.want) \in 0..SQSize
    BY <2>1, <2>2, PostedFits
  <2>. QED
    BY <2>3, SendDispatcherAssumption
<1>3. ctxUsed' >= 0
  <2>1. ctxUsed >= 0 /\ ctxUsed \in Int
    BY SumTypes DEF SumsInv, ContextsBetween
  <2>2. ctxUsed' = ctxUsed + k
    BY <1>2 DEF PostFails
  <2>. QED
    BY <2>1, <2>2
<1>4. cqPending' = AllPending' /\ IsFiniteSet(Requests(sqPending))'
  BY <1>1 DEF SumsInv, ContextsBetween, AllPending, Total, Requests
<1>. QED
  BY <1>1, <1>3, <1>4 DEF SumsInv, ContextsBetween

(* A completion gives back its context, and is no longer pending.          *)
LEMMA SumsCompleted ==
  ASSUME SumsInv, IInv', NEW n \in Nodes, Success(n) \/ IgnoredFlush(n)
  PROVE  SumsInv'
<1>1. /\ Completed(n) /\ workComp[n] # <<>> /\ thrown = "none"
      /\ UNCHANGED <<thrown, sq, cq>>
  BY DEF Success, IgnoredFlush, Polled, At, outside
<1>2. /\ sqPending' = [sqPending EXCEPT ![n] = @ - 1]
      /\ workComp' = [workComp EXCEPT ![n] = Tail(@)]
      /\ cqPending' = cqPending - 1 /\ ctxUsed' = ctxUsed - 1
  BY <1>1 DEF Completed, Settled, Pushed, ReturnedCtx
<1>3. /\ workComp \in [Nodes -> Seq(Statuses)] /\ workComp[n] \in Seq(Statuses)
      /\ Len(workComp[n]) >= 1 /\ Len(Tail(workComp[n])) = Len(workComp[n]) - 1
  <2>1. workComp \in [Nodes -> Seq(Statuses)]
    BY DEF SumsInv, IInv, TypeOK
  <2>2. workComp[n] \in Seq(Statuses)
    BY <2>1
  <2>. QED
    BY <1>1, <2>1, <2>2, QueueLengths
<1>4. Flight[n] >= 1 /\ sqPending[n] >= 1
  <2>1. Flight[n] = sq[n] + Len(cq[n]) + Len(workComp[n])
    BY DEF Flight, InFlight
  <2>2. Flight[n] <= sqPending[n]
    BY DEF SumsInv, IInv, PendingCovers, Flight
  <2>3. /\ sq[n] \in Nat /\ Len(cq[n]) \in Nat /\ Len(workComp[n]) \in Nat
        /\ sqPending[n] \in Nat
    BY NodeTypes DEF SumsInv, IInv
  <2>. QED
    BY <1>3, <2>1, <2>2, <2>3
<1>5. /\ IsFiniteSet(Requests([sqPending EXCEPT ![n] = @ - 1]))
      /\ Total([sqPending EXCEPT ![n] = @ - 1]) = AllPending - 1
  BY <1>4, SumTypes, OneRequestLess DEF SumsInv
<1>6. /\ [Flight EXCEPT ![n] = @ - 1] \in [Nodes -> Nat]
      /\ IsFiniteSet(Requests([Flight EXCEPT ![n] = @ - 1]))
      /\ Total([Flight EXCEPT ![n] = @ - 1]) = AllInFlight - 1
  BY <1>4, SumTypes, OneRequestLess
<1>7. IsFiniteSet(Requests(sqPending))' /\ AllPending' = AllPending - 1
  BY <1>2, <1>5 DEF AllPending, Total, Requests
<1>8. ASSUME NEW m \in Nodes
      PROVE  InFlight(m)' <= [Flight EXCEPT ![n] = @ - 1][m]
  <2>1. sq[m] \in Nat /\ Len(cq[m]) \in Nat /\ Len(workComp[m]) \in Nat
    BY NodeTypes DEF SumsInv, IInv
  <2>2. InFlight(m)' = sq[m] + Len(cq[m]) + Len(workComp'[m])
    BY <1>1 DEF InFlight
  <2>3. Flight[m] = sq[m] + Len(cq[m]) + Len(workComp[m])
    BY DEF Flight, InFlight
  <2>4. CASE m = n
    <3>1. workComp'[m] = Tail(workComp[n])
      BY <1>2, <1>3, <2>4
    <3>2. [Flight EXCEPT ![n] = @ - 1][m] = Flight[m] - 1
      BY <2>4, SumTypes
    <3>3. Len(workComp'[m]) = Len(workComp[m]) - 1
      BY <1>3, <2>4, <3>1
    <3>. QED
      BY <2>1, <2>2, <2>3, <3>2, <3>3
  <2>5. CASE m # n
    <3>1. workComp'[m] = workComp[m] /\ [Flight EXCEPT ![n] = @ - 1][m] = Flight[m]
      BY <1>2, <1>3, <2>5, SumTypes
    <3>. QED
      BY <2>1, <2>2, <2>3, <3>1
  <2>. QED
    BY <2>4, <2>5
<1>9. AllInFlight' <= AllInFlight - 1 /\ AllInFlight' \in Nat
  BY <1>6, <1>8, FlightBelow
<1>10. ContextsBetween'
  <2>1. /\ AllInFlight <= ctxUsed /\ ctxUsed <= AllPending /\ cqPending = AllPending
    BY <1>1 DEF SumsInv, ContextsBetween
  <2>2. /\ AllInFlight' <= ctxUsed' /\ ctxUsed' <= AllPending' /\ ctxUsed' >= 0
        /\ cqPending' = AllPending'
    BY <1>2, <1>7, <1>9, <2>1, SumTypes
  <2>. QED
    BY <2>2 DEF ContextsBetween
<1>. QED
  BY <1>7, <1>10 DEF SumsInv

(* A disconnect gives back one context, of a completion that was polled.   *)
LEMMA SumsDisconnected ==
  ASSUME SumsInv, IInv', NEW n \in Nodes, Disconnected(n)
  PROVE  SumsInv'
<1>1. /\ workComp[n] # <<>> /\ thrown = "none" /\ ctxUsed' = ctxUsed - 1
      /\ UNCHANGED <<sqPending, cqPending, sq, cq>>
      /\ \/ thrown' \in {"disconnected while handling a timeout", "connection deleted"}
         \/ thrown' = "none" /\ workComp' = Empty
  BY DEF Disconnected, Polled, At, Throw, outside
<1>2. Len(workComp[n]) >= 1
  <2>1. workComp[n] \in Seq(Statuses)
    BY NodeTypes DEF SumsInv, IInv
  <2>. QED
    BY <1>1, <2>1, QueueLengths
<1>3. Flight[n] >= 1
  <2>1. Flight[n] = sq[n] + Len(cq[n]) + Len(workComp[n])
    BY DEF Flight, InFlight
  <2>2. sq[n] \in Nat /\ Len(cq[n]) \in Nat /\ Len(workComp[n]) \in Nat
    BY NodeTypes DEF SumsInv, IInv
  <2>. QED
    BY <1>2, <2>1, <2>2
<1>4. /\ [Flight EXCEPT ![n] = @ - 1] \in [Nodes -> Nat]
      /\ IsFiniteSet(Requests([Flight EXCEPT ![n] = @ - 1]))
      /\ Total([Flight EXCEPT ![n] = @ - 1]) = AllInFlight - 1
  BY <1>3, SumTypes, OneRequestLess
<1>5. AllInFlight >= 1
  <2>1. Total([Flight EXCEPT ![n] = @ - 1]) \in Nat
    BY <1>4, TotalType
  <2>. QED
    BY <1>4, <2>1, SumTypes
<1>6. AllPending' = AllPending /\ IsFiniteSet(Requests(sqPending))'
  BY <1>1 DEF SumsInv, AllPending, Total, Requests
<1>7. /\ AllInFlight <= ctxUsed /\ ctxUsed <= AllPending /\ cqPending = AllPending
  BY <1>1 DEF SumsInv, ContextsBetween
<1>8. ctxUsed' >= 0 /\ ctxUsed' <= AllPending' /\ cqPending' = AllPending'
  <2>1. ctxUsed' = ctxUsed - 1 /\ cqPending' = cqPending
    BY <1>1
  <2>. QED
    BY <1>5, <1>6, <1>7, <2>1, SumTypes
<1>9. ASSUME thrown' = "none" PROVE AllInFlight' <= ctxUsed'
  <2>1. ASSUME NEW m \in Nodes
        PROVE  InFlight(m)' <= [Flight EXCEPT ![n] = @ - 1][m]
    <3>1. sq[m] \in Nat /\ Len(cq[m]) \in Nat /\ Len(workComp[m]) \in Nat
      BY NodeTypes DEF SumsInv, IInv
    <3>2. InFlight(m)' = sq[m] + Len(cq[m]) + 0
      <4>1. sq' = sq /\ cq' = cq /\ workComp'[m] = <<>>
        BY <1>1, <1>9 DEF Empty
      <4>. QED
        BY <4>1, LenEmpty DEF InFlight
    <3>3. Flight[m] = sq[m] + Len(cq[m]) + Len(workComp[m])
      BY DEF Flight, InFlight
    <3>4. CASE m = n
      <4>1. [Flight EXCEPT ![n] = @ - 1][m] = Flight[m] - 1
        BY <3>4, SumTypes
      <4>. QED
        BY <1>2, <3>1, <3>2, <3>3, <3>4, <4>1
    <3>5. CASE m # n
      <4>1. [Flight EXCEPT ![n] = @ - 1][m] = Flight[m]
        BY <3>5, SumTypes
      <4>. QED
        BY <3>1, <3>2, <3>3, <4>1
    <3>. QED
      BY <3>4, <3>5
  <2>2. AllInFlight' <= AllInFlight - 1 /\ AllInFlight' \in Nat
    BY <1>4, <2>1, FlightBelow
  <2>3. ctxUsed' = ctxUsed - 1
    BY <1>1
  <2>. QED
    BY <1>7, <2>2, <2>3, SumTypes
<1>. QED
  BY <1>6, <1>8, <1>9 DEF SumsInv, ContextsBetween

(* A step keeps what the sums say.                                         *)
LEMMA NextSums ==
  ASSUME SumsInv, [Next]_vars
  PROVE  SumsInv'
<1>1. IInv'
  BY NextIInv DEF SumsInv
<1>2. CASE GetNextDataToSend \/ GetConnection \/ GetConnectionTimesOut
  <2>1. /\ OnlyThrows
        /\ UNCHANGED <<sqPending, cqPending, ctxUsed, sq, cq, workComp>>
    <3>1. CASE GetNextDataToSend \/ GetConnectionTimesOut
      BY <3>1 DEF GetNextDataToSend, GetConnectionTimesOut, outside, OnlyThrows
    <3>2. CASE GetConnection
      BY <3>2 DEF GetConnection, OnlyThrows
    <3>. QED
      BY <1>2, <3>1, <3>2
  <2>. QED
    BY <1>1, <2>1, SumsUntouched
<1>3. CASE SendData \/ PostFails
  BY <1>1, <1>3, SumsSend, SumsPostFails
<1>4. CASE ReturnConnection
  <2>1. /\ OnlyThrows
        /\ UNCHANGED <<sqPending, cqPending, ctxUsed, sq, cq, workComp>>
    BY <1>4 DEF ReturnConnection, Throw, At, outside, OnlyThrows
  <2>. QED
    BY <1>1, <2>1, SumsUntouched
<1>5. CASE NothingToPoll \/ PollFails \/ PollDone
  <2>1. /\ OnlyThrows
        /\ UNCHANGED <<sqPending, cqPending, ctxUsed, sq, cq, workComp>>
    BY <1>5 DEF NothingToPoll, PollFails, PollDone, Throw, At, outside, OnlyThrows
  <2>. QED
    BY <1>1, <2>1, SumsUntouched
<1>6. CASE Poll
  <2>1. /\ OnlyThrows /\ UNCHANGED <<sqPending, cqPending, ctxUsed, sq>>
        /\ workComp' = cq /\ cq' = Empty
    BY <1>6 DEF Poll, OnlyThrows
  <2>2. ASSUME NEW n \in Nodes PROVE InFlight(n)' <= InFlight(n)
    <3>1. cq'[n] = <<>> /\ workComp'[n] = cq[n]
      BY <2>1 DEF Empty
    <3>2. InFlight(n)' = sq[n] + 0 + Len(cq[n])
      BY <2>1, <3>1, LenEmpty DEF InFlight
    <3>3. sq[n] \in Nat /\ Len(cq[n]) \in Nat /\ Len(workComp[n]) \in Nat
      BY NodeTypes DEF SumsInv, IInv
    <3>. QED
      BY <3>2, <3>3 DEF InFlight
  <2>. QED
    BY <1>1, <2>1, <2>2, SumsUncounted
<1>7. ASSUME NEW n \in Nodes,
             \/ Success(n) \/ IgnoredFlush(n) \/ FatalFlush(n)
             \/ FirstCompletionFails(n) \/ Disconnected(n)
      PROVE  SumsInv'
  <2>1. CASE Success(n) \/ IgnoredFlush(n)
    BY <1>1, <2>1, SumsCompleted
  <2>2. CASE FatalFlush(n) \/ FirstCompletionFails(n)
    <3>1. /\ OnlyThrows
          /\ UNCHANGED <<sqPending, cqPending, ctxUsed, sq, cq, workComp>>
      BY <2>2 DEF FatalFlush, FirstCompletionFails, Polled, At, Throw, outside, OnlyThrows
    <3>. QED
      BY <1>1, <3>1, SumsUntouched
  <2>3. CASE Disconnected(n)
    BY <1>1, <2>3, SumsDisconnected
  <2>. QED
    BY <1>7, <2>1, <2>2, <2>3
<1>8. ASSUME NEW n \in Nodes, Complete(n) \/ RetryExceeded(n) \/ Flush(n)
      PROVE  SumsInv'
  <2>1. PICK e \in Statuses : Answer(n, e)
    BY <1>8 DEF Complete, RetryExceeded, Flush, Answer, Statuses, dispatch
  <2>2. OnlyThrows /\ UNCHANGED <<sqPending, cqPending, ctxUsed>>
    BY <1>8 DEF Complete, RetryExceeded, Flush, dispatch, OnlyThrows
  <2>3. ASSUME NEW m \in Nodes PROVE InFlight(m)' <= InFlight(m)
    <3>1. sq \in [Nodes -> Nat] /\ cq \in [Nodes -> Seq(Statuses)]
      BY DEF SumsInv, IInv, TypeOK
    <3>2. sq[m] \in Nat /\ Len(cq[m]) \in Nat /\ Len(workComp[m]) \in Nat
      BY NodeTypes DEF SumsInv, IInv
    <3>3. InFlight(m)' = sq'[m] + Len(cq'[m]) + Len(workComp[m])
      BY <2>1 DEF Answer, InFlight
    <3>4. CASE m = n
      <4>1. sq'[m] = sq[m] - 1 /\ cq'[m] = Append(cq[m], e) /\ cq[m] \in Seq(Statuses)
        BY <2>1, <3>1, <3>4 DEF Answer
      <4>2. Len(cq'[m]) = Len(cq[m]) + 1
        BY <4>1, QueueLengths
      <4>3. sq'[m] = sq[m] - 1
        BY <4>1
      <4>. QED
        BY <3>2, <3>3, <4>2, <4>3 DEF InFlight
    <3>5. CASE m # n
      <4>1. sq'[m] = sq[m] /\ cq'[m] = cq[m]
        BY <2>1, <3>1, <3>5 DEF Answer
      <4>. QED
        BY <3>2, <3>3, <4>1 DEF InFlight
    <3>. QED
      BY <3>4, <3>5
  <2>. QED
    BY <1>1, <2>2, <2>3, SumsUncounted
<1>9. ASSUME NEW n \in Nodes, Connect(n)
      PROVE  SumsInv'
  <2>1. /\ OnlyThrows
        /\ UNCHANGED <<sqPending, cqPending, ctxUsed, sq, cq, workComp>>
    BY <1>9 DEF Connect, dispatch, OnlyThrows
  <2>. QED
    BY <1>1, <2>1, SumsUntouched
<1>10. ASSUME NEW n \in Nodes, Close(n)
       PROVE  SumsInv'
  <2>1. /\ OnlyThrows /\ UNCHANGED <<sqPending, cqPending, ctxUsed, workComp>>
        /\ sq' = [sq EXCEPT ![n] = 0] /\ cq' \in {cq, [cq EXCEPT ![n] = <<>>]}
    BY <1>10 DEF Close, dispatch, OnlyThrows
  <2>2. ASSUME NEW m \in Nodes PROVE InFlight(m)' <= InFlight(m)
    <3>1. sq \in [Nodes -> Nat] /\ cq \in [Nodes -> Seq(Statuses)]
      BY DEF SumsInv, IInv, TypeOK
    <3>2. sq[m] \in Nat /\ Len(cq[m]) \in Nat /\ Len(workComp[m]) \in Nat
      BY NodeTypes DEF SumsInv, IInv
    <3>3. sq'[m] \in Nat /\ sq'[m] <= sq[m]
      BY <2>1, <3>1, <3>2
    <3>4. cq'[m] = cq[m] \/ cq'[m] = <<>>
      BY <2>1, <3>1
    <3>5. Len(cq'[m]) = 0 \/ Len(cq'[m]) = Len(cq[m])
      BY <3>4, LenEmpty, Zenon
    <3>6. InFlight(m)' = sq'[m] + Len(cq'[m]) + Len(workComp[m])
      BY <2>1 DEF InFlight
    <3>7. Len(cq'[m]) \in Nat /\ Len(cq'[m]) <= Len(cq[m])
      BY <3>2, <3>5
    <3>8. sq'[m] + Len(cq'[m]) + Len(workComp[m]) <= sq[m] + Len(cq[m]) + Len(workComp[m])
      BY <3>2, <3>3, <3>7
    <3>. QED
      BY <3>6, <3>8 DEF InFlight
  <2>. QED
    BY <1>1, <2>1, <2>2, SumsUncounted
<1>11. CASE UNCHANGED vars
  <2>1. /\ OnlyThrows
        /\ UNCHANGED <<sqPending, cqPending, ctxUsed, sq, cq, workComp>>
    BY <1>11 DEF vars, dispatch, outside, OnlyThrows
  <2>. QED
    BY <1>1, <2>1, SumsUntouched
<1>. QED
  BY <1>2, <1>3, <1>4, <1>5, <1>6, <1>7, <1>8, <1>9, <1>10, <1>11
     DEF Next, Dispatch, Send, PollCompletions, HCA, Connections

(* Nothing is pending at the start.                                        *)
LEMMA InitSums == Init => SumsInv
<1>. SUFFICES ASSUME Init PROVE SumsInv
  OBVIOUS
<1>1. IInv
  BY InitIInv
<1>2. ASSUME NEW f \in [Nodes -> Nat], \A n \in Nodes : f[n] = 0
      PROVE  IsFiniteSet(Requests(f)) /\ Total(f) = 0
  <2>1. ASSUME NEW p \in Requests(f) PROVE FALSE
    <3>1. PICK n \in Nodes : \E i \in 1..f[n] : p = <<n, i>>
      BY IsRequest
    <3>2. f[n] = 0
      BY <1>2
    <3>. QED
      BY <3>1, <3>2
  <2>2. Requests(f) = {}
    BY <2>1
  <2>. QED
    BY <2>2, FS_EmptySet DEF Total
<1>3. IsFiniteSet(Requests(sqPending)) /\ AllPending = 0
  <2>1. sqPending = Zero
    BY DEF Init
  <2>2. Zero \in [Nodes -> Nat] /\ \A n \in Nodes : Zero[n] = 0
    BY DEF Zero
  <2>. QED
    BY <1>2, <2>1, <2>2 DEF AllPending
<1>4. AllInFlight = 0
  <2>1. ASSUME NEW n \in Nodes PROVE InFlight(n) = 0
    <3>1. sq[n] = 0 /\ cq[n] = <<>> /\ workComp[n] = <<>>
      BY DEF Init, Empty, Zero
    <3>2. Len(cq[n]) = 0 /\ Len(workComp[n]) = 0
      BY <3>1, LenEmpty
    <3>. QED
      BY <3>1, <3>2 DEF InFlight
  <2>2. Flight \in [Nodes -> Nat] /\ \A n \in Nodes : Flight[n] = 0
    BY <2>1 DEF Flight
  <2>. QED
    BY <1>2, <2>2 DEF AllInFlight, Flight
<1>5. cqPending = 0 /\ ctxUsed = 0
  BY DEF Init
<1>6. ContextsBetween
  BY <1>3, <1>4, <1>5 DEF ContextsBetween
<1>. QED
  BY <1>1, <1>3, <1>6 DEF SumsInv

(* For any number of nodes and whatever fails: m_completionsPending adds   *)
(* up the send queues, every context in use is of a pending request unless *)
(* a post failed, and what is in flight has its context: neither counter,  *)
(* both unsigned, wraps around.                                            *)
THEOREM ContextsBetweenHolds == Spec => []ContextsBetween
<1>1. SumsInv => ContextsBetween
  BY DEF SumsInv
<1>. QED
  BY <1>1, InitSums, NextSums, PTL DEF Spec

-----------------------------------------------------------------------------
(* The shared CQ has room for all the send queues.                         *)
Room == IsFiniteSet(Nodes) /\ Cardinality(Nodes) * SQSize <= SCQSize

(* Full send queues fit into it.                                           *)
LEMMA RoomForAll ==
  ASSUME Room, NEW f \in [Nodes -> 0..SQSize]
  PROVE  IsFiniteSet(Requests(f)) /\ Total(f) \in Nat /\ Total(f) <= SCQSize
<1>1. SQSize \in Nat /\ SCQSize \in Nat
  BY SendDispatcherAssumption
<1>2. IsFiniteSet(1..SQSize) /\ Cardinality(1..SQSize) = SQSize
  <2>1. /\ IsFiniteSet(1..SQSize)
        /\ Cardinality(1..SQSize) = IF 1 > SQSize THEN 0 ELSE SQSize - 1 + 1
    BY <1>1, FS_Interval
  <2>. QED
    BY <1>1, <2>1
<1>3. /\ IsFiniteSet(Nodes \X (1..SQSize))
      /\ Cardinality(Nodes \X (1..SQSize)) = Cardinality(Nodes) * SQSize
  <2>1. /\ IsFiniteSet(Nodes \X (1..SQSize))
        /\ Cardinality(Nodes \X (1..SQSize)) = Cardinality(Nodes) * Cardinality(1..SQSize)
    BY <1>2, FS_Product DEF Room
  <2>. QED
    BY <1>2, <2>1
<1>4. Requests(f) \subseteq Nodes \X (1..SQSize)
  <2>1. ASSUME NEW p \in Requests(f) PROVE p \in Nodes \X (1..SQSize)
    <3>1. PICK n \in Nodes : \E i \in 1..f[n] : p = <<n, i>>
      BY IsRequest
    <3>2. PICK i \in 1..f[n] : p = <<n, i>>
      BY <3>1
    <3>3. f[n] \in 0..SQSize
      OBVIOUS
    <3>4. i \in 1..SQSize
      BY <1>1, <3>2, <3>3
    <3>. QED
      BY <3>2, <3>4
  <2>. QED
    BY <2>1
<1>5. IsFiniteSet(Requests(f)) /\ Total(f) <= Cardinality(Nodes) * SQSize
  BY <1>3, <1>4, FS_Subset DEF Total
<1>6. Total(f) \in Nat /\ Cardinality(Nodes) \in Nat
  BY <1>5, TotalType, FS_CardinalityType DEF Room
<1>7. Cardinality(Nodes) * SQSize \in Nat
  BY <1>1, <1>6
<1>. QED
  BY <1>1, <1>5, <1>6, <1>7 DEF Room

(* Until something fails no connection is deleted and nothing is thrown.   *)
Unbroken == faults = 0 => ~deleted /\ thrown = "none"

RoomInv ==
  ExactInv /\ SumsInv /\ Unbroken /\ thrown # "pool ran dry"

(* There is a context for every request that fits into a send queue.       *)
LEMMA NeverDry ==
  ASSUME Room, SumsInv, thrown = "none", pc = "send"
  PROVE  ~(ctxUsed + Posted(package.node, package.want) > SCQSize)
<1>1. PICK n \in Nodes : n = package.node /\ package.want \in 1..MaxWant
  BY PackageType DEF SumsInv
<1>2. sqPending \in [Nodes -> 0..SQSize]
  BY DEF SumsInv, IInv, TypeOK
<1>3. PICK k \in Nat : /\ k = Posted(n, package.want)
                       /\ sqPending[n] + k \in 0..SQSize
  <2>1. /\ Posted(n, package.want) \in 0..SQSize
        /\ sqPending[n] + Posted(n, package.want) \in 0..SQSize
    BY <1>1, <1>2, PostedFits
  <2>. QED
    BY <2>1, SendDispatcherAssumption
<1>4. [sqPending EXCEPT ![n] = @ + k] \in [Nodes -> 0..SQSize]
  BY <1>2, <1>3
<1>5. Total([sqPending EXCEPT ![n] = @ + k]) <= SCQSize
  BY <1>4, RoomForAll
<1>6. Total([sqPending EXCEPT ![n] = @ + k]) = AllPending + k
  <2>1. /\ sqPending \in [Nodes -> Nat] /\ IsFiniteSet(Requests(sqPending))
        /\ AllPending = Total(sqPending) /\ k \in Nat /\ n \in Nodes
    BY SumTypes DEF SumsInv
  <2>. QED
    BY <2>1, MoreRequests, Zenon
<1>7. ctxUsed <= AllPending
  BY DEF SumsInv, ContextsBetween
<1>8. ctxUsed + k <= SCQSize
  BY <1>5, <1>6, <1>7, SumTypes, SendDispatcherAssumption
<1>9. ctxUsed + k \in Int /\ SCQSize \in Int
  BY SumTypes, SendDispatcherAssumption
<1>. QED
  BY <1>1, <1>3, <1>8, <1>9

(* The steps of the dispatcher that throw, and what for.                   *)
LEMMA UnbrokenKept ==
  ASSUME Room, RoomInv, [Next]_vars
  PROVE  Unbroken' /\ thrown' # "pool ran dry"
<1>1. faults' = 0 => faults = 0
  BY FaultsGrow DEF RoomInv, ExactInv
<1>2. CASE GetNextDataToSend \/ GetConnectionTimesOut \/ GetConnection
  <2>1. CASE GetNextDataToSend \/ GetConnectionTimesOut
    <3>1. UNCHANGED <<thrown, deleted, faults>>
      BY <2>1 DEF GetNextDataToSend, GetConnectionTimesOut, outside
    <3>. QED
      BY <3>1 DEF RoomInv, Unbroken
  <2>2. CASE GetConnection
    BY <1>1, <2>2 DEF GetConnection, RoomInv, Unbroken
  <2>. QED
    BY <1>2, <2>1, <2>2
<1>3. CASE SendData
  <2>1. thrown = "none" /\ pc = "send"
    BY <1>3 DEF SendData, At
  <2>2. ~(ctxUsed + Posted(package.node, package.want) > SCQSize)
    BY <2>1, NeverDry DEF RoomInv
  <2>3. CASE deleted
    <3>1. thrown' = "connection deleted" /\ faults' = faults
      BY <1>3, <2>3 DEF SendData, Throw, outside
    <3>. QED
      BY <2>3, <3>1 DEF RoomInv, Unbroken
  <2>4. CASE ~deleted
    <3>1. UNCHANGED <<thrown, deleted, faults>>
      BY <1>3, <2>2, <2>4 DEF SendData
    <3>. QED
      BY <3>1 DEF RoomInv, Unbroken
  <2>. QED
    BY <2>3, <2>4
<1>4. CASE PostFails \/ PollFails
  <2>1. thrown' = "post failed" \/ thrown' = "poll failed"
    BY <1>4 DEF PostFails, PollFails, Throw
  <2>2. faults' = faults + 1
    BY <1>4 DEF PostFails, PollFails, Fault
  <2>3. faults \in 0..MaxFaults
    BY DEF RoomInv, ExactInv, IInv, TypeOK
  <2>4. faults' # 0
    BY <2>2, <2>3, SendDispatcherAssumption
  <2>. QED
    BY <2>1, <2>4 DEF Unbroken
<1>5. CASE ReturnConnection
  <2>1. CASE deleted
    <3>1. thrown' = "connection deleted" /\ faults' = faults
      BY <1>5, <2>1 DEF ReturnConnection, Throw, outside
    <3>. QED
      BY <2>1, <3>1 DEF RoomInv, Unbroken
  <2>2. CASE ~deleted
    <3>1. UNCHANGED <<thrown, deleted, faults>>
      BY <1>5, <2>2 DEF ReturnConnection
    <3>. QED
      BY <3>1 DEF RoomInv, Unbroken
  <2>. QED
    BY <2>1, <2>2
<1>6. CASE NothingToPoll \/ Poll \/ PollDone
  <2>1. UNCHANGED <<thrown, deleted, faults>>
    BY <1>6 DEF NothingToPoll, Poll, PollDone, outside
  <2>. QED
    BY <2>1 DEF RoomInv, Unbroken
<1>7. ASSUME NEW n \in Nodes,
             \/ Success(n) \/ IgnoredFlush(n) \/ FatalFlush(n)
             \/ FirstCompletionFails(n) \/ Disconnected(n)
      PROVE  Unbroken' /\ thrown' # "pool ran dry"
  <2>1. CASE Success(n) \/ IgnoredFlush(n)
    <3>1. UNCHANGED <<thrown, deleted, faults>>
      BY <2>1 DEF Success, IgnoredFlush, outside
    <3>. QED
      BY <3>1 DEF RoomInv, Unbroken
  <2>2. CASE FatalFlush(n) \/ FirstCompletionFails(n) \/ Disconnected(n)
    <3>1. /\ faults' = faults
          /\ \/ thrown' = thrown
             \/ thrown' \in {"completion failed", "first completion failed",
                             "disconnected while handling a timeout", "connection deleted"}
      BY <2>2 DEF FatalFlush, FirstCompletionFails, Disconnected, Throw, outside
    <3>2. Polled(n, "flush") \/ Polled(n, "retry")
      BY <2>2 DEF FatalFlush, FirstCompletionFails, Disconnected
    <3>3. faults # 0
      <4>1. ASSUME faults = 0 PROVE FALSE
        <5>1. workComp[n] \in Seq({"ok"})
          BY <4>1, ExactTypes DEF RoomInv
        <5>2. workComp[n] # <<>> => Head(workComp[n]) \in {"ok"}
          BY <5>1, QueueLengths
        <5>. QED
          BY <3>2, <5>2 DEF Polled
      <4>. QED
        BY <4>1
    <3>. QED
      BY <3>1, <3>3 DEF RoomInv, Unbroken
  <2>. QED
    BY <1>7, <2>1, <2>2
<1>8. ASSUME NEW n \in Nodes, Complete(n) \/ RetryExceeded(n) \/ Flush(n) \/ Connect(n)
      PROVE  Unbroken' /\ thrown' # "pool ran dry"
  <2>1. UNCHANGED <<thrown, deleted>>
    BY <1>8 DEF Complete, RetryExceeded, Flush, Connect, dispatch
  <2>. QED
    BY <1>1, <2>1 DEF RoomInv, Unbroken
<1>9. ASSUME NEW n \in Nodes, Close(n)
      PROVE  Unbroken' /\ thrown' # "pool ran dry"
  <2>1. thrown' = thrown /\ n \in closing
    BY <1>9 DEF Close, dispatch
  <2>2. faults = 0 => closing = {}
    BY DEF RoomInv, ExactInv, FaultFree
  <2>. QED
    BY <1>1, <2>1, <2>2 DEF RoomInv, Unbroken
<1>10. CASE UNCHANGED vars
  <2>1. UNCHANGED <<thrown, deleted, faults>>
    BY <1>10 DEF vars, dispatch, outside
  <2>. QED
    BY <2>1 DEF RoomInv, Unbroken
<1>. QED
  BY <1>2, <1>3, <1>4, <1>5, <1>6, <1>7, <1>8, <1>9, <1>10
     DEF Next, Dispatch, Send, PollCompletions, HCA, Connections

(* With room in the CQ the invariant holds in every state.                 *)
LEMMA RoomInvHolds ==
  ASSUME Room
  PROVE  Spec => []RoomInv
<1>1. Init => RoomInv
  <2>1. Init => Unbroken /\ thrown # "pool ran dry"
    BY DEF Init, Unbroken
  <2>. QED
    BY <2>1, InitExact, InitSums DEF RoomInv
<1>2. RoomInv /\ [Next]_vars => RoomInv'
  BY NextExact, NextSums, UnbrokenKept DEF RoomInv
<1>. QED
  BY <1>1, <1>2, PTL DEF Spec

(* Until something fails every request in flight is counted once.          *)
LEMMA ExactSum ==
  ASSUME RoomInv, faults = 0
  PROVE  AllInFlight = AllPending
<1>1. \A n \in Nodes : Flight[n] = sqPending[n]
  BY DEF RoomInv, ExactInv, PendingExact, Flight
<1>2. Flight \in [Nodes -> Nat] /\ sqPending \in [Nodes -> Nat]
  BY SumTypes DEF RoomInv
<1>3. Flight = sqPending
  BY <1>1, <1>2
<1>. QED
  BY <1>3 DEF AllInFlight, AllPending, Flight

(* If the CQ has room for all the send queues: m_completionsPending adds   *)
(* up the send queues, no context is in use that is not pending, unless a  *)
(* post failed, neither wraps around, and until something fails every      *)
(* context is of a pending request and nothing ends the process.           *)
THEOREM TotalsHold ==
  ASSUME IsFiniteSet(Nodes), Cardinality(Nodes) * SQSize <= SCQSize
  PROVE  Spec => []Totals
<1>1. Room
  BY DEF Room
<1>2. ASSUME RoomInv PROVE Totals
  <2>1. /\ cqPending = AllPending /\ ctxUsed >= 0
        /\ thrown # "post failed" => ctxUsed <= AllPending
        /\ thrown = "none" => AllInFlight <= ctxUsed
    BY <1>2 DEF RoomInv, SumsInv, ContextsBetween
  <2>2. ASSUME faults = 0 PROVE ctxUsed = AllPending /\ thrown = "none"
    <3>1. thrown = "none"
      BY <1>2, <2>2 DEF RoomInv, Unbroken
    <3>2. AllInFlight <= ctxUsed /\ ctxUsed <= AllPending
      BY <2>1, <3>1
    <3>3. AllInFlight = AllPending
      BY <1>2, <2>2, ExactSum
    <3>4. ctxUsed \in Int /\ AllPending \in Nat
      BY <1>2, SumTypes DEF RoomInv
    <3>. QED
      BY <3>1, <3>2, <3>3, <3>4
  <2>. QED
    BY <2>1, <2>2 DEF Totals
<1>. QED
  BY <1>1, <1>2, RoomInvHolds, PTL

(* If the CQ has room for all the send queues: the pool of contexts, which *)
(* is as large as the CQ, never runs dry ("this should never happen"), and *)
(* the CQ never overflows, whatever fails.                                 *)
THEOREM ResourcesHold ==
  ASSUME IsFiniteSet(Nodes), Cardinality(Nodes) * SQSize <= SCQSize
  PROVE  Spec => []ResourcesSuffice
<1>1. Room
  BY DEF Room
<1>2. ASSUME RoomInv PROVE ResourcesSuffice
  <2>1. thrown # "pool ran dry"
    BY <1>2 DEF RoomInv
  <2>2. sqPending \in [Nodes -> 0..SQSize]
    BY <1>2 DEF RoomInv, SumsInv, IInv, TypeOK
  <2>3. AllPending <= SCQSize
    BY <1>1, <2>2, RoomForAll DEF AllPending
  <2>4. AllInFlight <= AllPending /\ AllInFlight \in Nat /\ AllPending \in Nat
    BY <1>2, SumTypes DEF RoomInv
  <2>5. AllInFlight <= SCQSize
    BY <2>3, <2>4, SendDispatcherAssumption
  <2>. QED
    BY <2>1, <2>5 DEF ResourcesSuffice
<1>. QED
  BY <1>1, <1>2, RoomInvHolds, PTL

=============================================================================
