------------------------ MODULE RecvBufferPoolProofs ------------------------
(***************************************************************************)
(* What RecvBufferPool guarantees for every size of the pool, every number *)
(* of returning threads and every interleaving.                            *)
(*                                                                         *)
(* The argument counts.  The ring has one slot, full or reserved, for      *)
(* every buffer that is not held (RingHoldsRest), so a reservation never   *)
(* runs into the front; the reservations in progress add up to the         *)
(* distance from the back to their end (PendingBehindBack), so the order   *)
(* in which they publish does not matter; and between front and            *)
(* reservations a slot is either occupied or reserved by one thread that   *)
(* has not written it yet (SlotsAccounted).  The compare-and-swaps need no *)
(* more than that: a counter that came around to an old value is harmless. *)
(*                                                                         *)
(* With the receive thread as the only one that returns, no exception is   *)
(* reachable and the ring implements BufferPool.                           *)
(***************************************************************************)
EXTENDS RecvBufferPool, FiniteSetTheorems, SequenceTheorems, TLAPS

-----------------------------------------------------------------------------
(* Ring indices and counting.                                              *)

(* The distance between two ring indices, without the remainder.           *)
LEMMA AheadIs ==
  ASSUME NEW i \in Slots, NEW j \in Slots
  PROVE  /\ Ahead(i, j) = IF i <= j THEN j - i ELSE j - i + Gapped
         /\ Ahead(i, j) \in 0..PoolSize
<1>1. PoolSize \in Nat /\ i \in 0..PoolSize /\ j \in 0..PoolSize
  BY RecvBufferPoolAssumption DEF Slots
<1>2. (j - i) % (PoolSize + 1) = IF i <= j THEN j - i ELSE j - i + (PoolSize + 1)
  BY <1>1, Z3
<1> QED  BY <1>1, <1>2 DEF Ahead, Gapped

(* A ring index moved on, without the remainder.                           *)
LEMMA AdvanceIs ==
  ASSUME NEW c \in Slots, NEW n \in 0..PoolSize
  PROVE  /\ Advance(c, n) = IF c + n <= PoolSize THEN c + n ELSE c + n - Gapped
         /\ Advance(c, n) \in Slots
<1>1. PoolSize \in Nat /\ c \in 0..PoolSize
  BY RecvBufferPoolAssumption DEF Slots
<1>2. (c + n) % (PoolSize + 1) = IF c + n <= PoolSize THEN c + n ELSE c + n - (PoolSize + 1)
  BY <1>1, Z3
<1> QED  BY <1>1, <1>2 DEF Advance, Gapped, Slots

(* Distances from one index name the slots of the ring: Advance and Ahead  *)
(* undo each other.                                                        *)
LEMMA RingIndex ==
  ASSUME NEW c \in Slots
  PROVE  /\ \A n \in 0..PoolSize : Ahead(c, Advance(c, n)) = n
         /\ \A i \in Slots : Advance(c, Ahead(c, i)) = i
         /\ \A i \in Slots : Ahead(c, i) = 0 <=> i = c
         /\ \A i, j \in Slots : Ahead(c, i) = Ahead(c, j) => i = j
         /\ \A n, k \in 0..PoolSize : Advance(c, n) = Advance(c, k) => n = k
<1>1. PoolSize \in Nat /\ Slots = 0..PoolSize /\ Gapped = PoolSize + 1
  BY RecvBufferPoolAssumption DEF Slots, Gapped
<1>2. \A n \in 0..PoolSize : Ahead(c, Advance(c, n)) = n
  <2> TAKE n \in 0..PoolSize
  <2>1. Advance(c, n) = (IF c + n <= PoolSize THEN c + n ELSE c + n - Gapped) /\ Advance(c, n) \in Slots
    BY AdvanceIs
  <2>2. Ahead(c, Advance(c, n)) = IF c <= Advance(c, n) THEN Advance(c, n) - c ELSE Advance(c, n) - c + Gapped
    BY <2>1, AheadIs
  <2> QED BY <1>1, <2>1, <2>2
<1>3. \A i \in Slots : Advance(c, Ahead(c, i)) = i
  <2> TAKE i \in Slots
  <2>1. Ahead(c, i) = (IF c <= i THEN i - c ELSE i - c + Gapped) /\ Ahead(c, i) \in 0..PoolSize
    BY AheadIs
  <2>2. Advance(c, Ahead(c, i)) = IF c + Ahead(c, i) <= PoolSize THEN c + Ahead(c, i) ELSE c + Ahead(c, i) - Gapped
    BY <2>1, AdvanceIs
  <2> QED BY <1>1, <2>1, <2>2
<1>4. Advance(c, 0) = c
  BY <1>1, AdvanceIs
<1>5. \A i \in Slots : Ahead(c, i) = 0 <=> i = c
  <2> TAKE i \in Slots
  <2>1. Ahead(c, i) = IF c <= i THEN i - c ELSE i - c + Gapped
    BY AheadIs
  <2> QED  BY <1>1, <2>1
<1>6. \A i, j \in Slots : Ahead(c, i) = Ahead(c, j) => i = j
  BY <1>3
<1>7. \A n, k \in 0..PoolSize : Advance(c, n) = Advance(c, k) => n = k
  BY <1>2
<1> QED BY <1>2, <1>3, <1>5, <1>6, <1>7

(* Moving an index on changes its distances by as much, unless it wraps.   *)
LEMMA AheadAdvanced ==
  ASSUME NEW c \in Slots, NEW i \in Slots, NEW n \in 0..PoolSize
  PROVE  /\ Ahead(c, i) + n <= PoolSize => Ahead(c, Advance(i, n)) = Ahead(c, i) + n
         /\ n <= Ahead(c, i) => Ahead(Advance(c, n), i) = Ahead(c, i) - n
<1>1. PoolSize \in Nat /\ Slots = 0..PoolSize /\ Gapped = PoolSize + 1
  BY RecvBufferPoolAssumption DEF Slots, Gapped
<1>2. /\ Advance(i, n) = (IF i + n <= PoolSize THEN i + n ELSE i + n - Gapped) /\ Advance(i, n) \in Slots
      /\ Advance(c, n) = (IF c + n <= PoolSize THEN c + n ELSE c + n - Gapped) /\ Advance(c, n) \in Slots
  BY AdvanceIs
<1>3. Ahead(c, i) = (IF c <= i THEN i - c ELSE i - c + Gapped)
  BY AheadIs
<1>4. Ahead(c, Advance(i, n)) = (IF c <= Advance(i, n) THEN Advance(i, n) - c ELSE Advance(i, n) - c + Gapped)
  BY AheadIs, <1>2
<1>5. Ahead(Advance(c, n), i) = (IF Advance(c, n) <= i THEN i - Advance(c, n) ELSE i - Advance(c, n) + Gapped)
  BY AheadIs, <1>2
<1> QED BY <1>1, <1>2, <1>3, <1>4, <1>5

(* Two moves are one, as long as they do not go once around.               *)
LEMMA AdvanceTwice ==
  ASSUME NEW c \in Slots, NEW n \in 0..PoolSize, NEW k \in 0..PoolSize, n + k <= PoolSize
  PROVE  Advance(Advance(c, n), k) = Advance(c, n + k)
<1>1. PoolSize \in Nat /\ Slots = 0..PoolSize /\ Gapped = PoolSize + 1 /\ n + k \in 0..PoolSize
  BY RecvBufferPoolAssumption DEF Slots, Gapped
<1>2. /\ Advance(c, n) = (IF c + n <= PoolSize THEN c + n ELSE c + n - Gapped) /\ Advance(c, n) \in Slots
      /\ Advance(c, n + k) = (IF c + (n + k) <= PoolSize THEN c + (n + k) ELSE c + (n + k) - Gapped)
  BY <1>1, AdvanceIs
<1>3. Advance(Advance(c, n), k) = (IF Advance(c, n) + k <= PoolSize THEN Advance(c, n) + k ELSE Advance(c, n) + k - Gapped)
  BY <1>2, AdvanceIs
<1> QED BY <1>1, <1>2, <1>3

(* The count GetBuffers works with is one too small when the range wraps,  *)
(* never too large.                                                        *)
LEMMA AvailableBound ==
  ASSUME TypeOK
  PROVE  Available \in Int /\ Available <= Ahead(front, back)
<1>1. PoolSize \in Nat /\ Slots = 0..PoolSize /\ Gapped = PoolSize + 1 /\ front \in Slots /\ back \in Slots
  BY RecvBufferPoolAssumption DEF Slots, Gapped, TypeOK
<1>2. Ahead(front, back) = IF front <= back THEN back - front ELSE back - front + Gapped
  BY <1>1, AheadIs
<1>3. Available = IF front <= back THEN back - front ELSE PoolSize - front + back
  BY DEF Available
<1> QED BY <1>1, <1>2, <1>3

(* An array without duplicates has as many buffers as entries.             *)
LEMMA CountDistinct ==
  ASSUME NEW n \in Nat, NEW f, \A i, j \in 1..n : i # j => f[i] # f[j]
  PROVE  /\ IsFiniteSet({f[i] : i \in 1..n})
         /\ Cardinality({f[i] : i \in 1..n}) = n
<1> DEFINE S == {f[i] : i \in 1..n}
           g == [i \in 1..n |-> f[i]]
<1>1. g \in Bijection(1..n, S)
  <2>1. g \in [1..n -> S] /\ \A i \in 1..n : g[i] = f[i]
    OBVIOUS
  <2>2. \A i, j \in 1..n : g[i] = g[j] => i = j
    BY <2>1
  <2>3. \A s \in S : \E i \in 1..n : g[i] = s
    BY <2>1
  <2> HIDE DEF g, S
  <2> QED  BY <2>1, <2>2, <2>3 DEF Bijection, Injection, Surjection, IsInjective
<1>2. IsFiniteSet(1..n) /\ Cardinality(1..n) = n
  BY FS_Interval
<1>3. ExistsBijection(1..n, S)
  BY <1>1 DEF ExistsBijection
<1> QED BY <1>2, <1>3, FS_Bijection

(* No array without duplicates is longer than the pool has buffers.        *)
LEMMA BatchFits ==
  ASSUME NEW n \in Nat, NEW f, \A i \in 1..n : f[i] \in Buffers, \A i, j \in 1..n : i # j => f[i] # f[j]
  PROVE  n <= PoolSize
<1>1. IsFiniteSet(Buffers) /\ Cardinality(Buffers) = PoolSize
  BY FS_Interval, RecvBufferPoolAssumption DEF Buffers
<1> DEFINE S == {f[i] : i \in 1..n}
<1>2. S \in SUBSET Buffers
  OBVIOUS
<1>3. Cardinality(S) = n
  BY CountDistinct
<1> HIDE DEF S
<1>4. Cardinality(S) <= Cardinality(Buffers)
  BY <1>1, <1>2, FS_Subset
<1> QED  BY <1>1, <1>3, <1>4
-----------------------------------------------------------------------------
(* What the invariant says of one thread.                                  *)
ThreadFacts(t) ==
  /\ bufs[t] \in Seq(Buffers) /\ want[t] \in Nat /\ pos[t] \in Nat /\ want[t] <= PoolSize /\ pos[t] <= want[t]
  /\ pc[t] \in {"idle", "take", "check", "reserve", "write"}
  /\ Len(bufs[t]) \in Nat
  /\ \A i \in 1..Len(bufs[t]) : bufs[t][i] \in Buffers
  /\ \A i, j \in 1..Len(bufs[t]) : i # j => bufs[t][i] # bufs[t][j]
  /\ pc[t] = "idle" => bufs[t] = <<>> /\ want[t] = 0 /\ pos[t] = 0
  /\ pc[t] = "take" => t = Consumer /\ Len(bufs[t]) = pos[t] /\ want[t] > 0
  /\ pc[t] \in {"check", "reserve"} => pos[t] = 0
  /\ pc[t] \in {"check", "reserve", "write"} => Len(bufs[t]) = want[t] /\ want[t] > 0

(* TypeOK and CallShape at one thread.                                     *)
LEMMA Shape ==
  ASSUME TypeOK, CallShape, NEW t \in Threads
  PROVE  ThreadFacts(t)
<1>1. PoolSize \in Nat
  BY RecvBufferPoolAssumption
<1>2. /\ bufs[t] \in Seq(Buffers) /\ want[t] \in 0..PoolSize /\ pos[t] \in 0..PoolSize /\ pos[t] <= want[t]
      /\ pc[t] \in {"idle", "take", "check", "reserve", "write"}
  BY DEF TypeOK
<1>3. Len(bufs[t]) \in Nat /\ \A i \in 1..Len(bufs[t]) : bufs[t][i] \in Buffers
  BY <1>2
<1>4. pc[t] = "idle" => bufs[t] = <<>> /\ want[t] = 0
  BY DEF CallShape, ShapeOf
<1>5. pc[t] = "take" => t = Consumer /\ Len(bufs[t]) = pos[t]
  BY DEF CallShape, ShapeOf
<1>6. pc[t] \in {"check", "reserve", "write"} => Len(bufs[t]) = want[t]
  BY DEF CallShape, ShapeOf
<1>7. /\ pc[t] # "idle" => want[t] > 0
      /\ pc[t] \in {"check", "reserve"} => pos[t] = 0
      /\ \A i, j \in 1..Len(bufs[t]) : i # j => bufs[t][i] # bufs[t][j]
  BY DEF CallShape, ShapeOf
<1> QED  BY <1>1, <1>2, <1>3, <1>4, <1>5, <1>6, <1>7 DEF ThreadFacts

(* The buffers of a call in progress, by the place of the call.            *)
LEMMA InCallBuffers ==
  ASSUME TypeOK, CallShape, NEW t \in Threads
  PROVE  /\ InCall(t) \subseteq Buffers
         /\ pc[t] = "idle" => InCall(t) = {}
         /\ pc[t] \in {"take", "check", "reserve"} => InCall(t) = {bufs[t][i] : i \in 1..Len(bufs[t])}
<1>1. ThreadFacts(t)
  BY Shape
<1>2. CASE pc[t] = "take"
  <2>1. InCall(t) = {bufs[t][i] : i \in 1..Len(bufs[t])}
    BY <1>1, <1>2 DEF InCall, ThreadFacts
  <2> QED  BY <1>1, <1>2, <2>1 DEF ThreadFacts
<1>3. CASE pc[t] # "take"
  <2>1. InCall(t) = {bufs[t][i] : i \in pos[t] + 1..want[t]}
    BY <1>3 DEF InCall
  <2> QED  BY <1>1, <1>3, <2>1 DEF ThreadFacts
<1> QED  BY <1>2, <1>3

(* An empty slot holds no buffer.                                          *)
LEMMA NullIsNoBuffer == NULL \notin Buffers
<1>1. PoolSize \in Nat /\ NULL \notin 0..PoolSize
  BY RecvBufferPoolAssumption
<1> QED  BY <1>1 DEF Buffers

(* OneOwner, place by place: no buffer twice among the slots, the calls    *)
(* and the callers, and each buffer somewhere.                             *)
Separate ==
  /\ \A i, j \in Slots : slots[i] # NULL /\ slots[i] = slots[j] => i = j
  /\ \A i \in Slots : \A t \in Threads : slots[i] \notin InCall(t)
  /\ \A i \in Slots : slots[i] \notin out
  /\ \A t, u \in Threads : t # u => InCall(t) \cap InCall(u) = {}
  /\ \A t \in Threads : InCall(t) \cap out = {}
  /\ \A b \in Buffers :
       b \in out \/ (\E t \in Threads : b \in InCall(t)) \/ (\E i \in Slots : slots[i] = b)

(* The two ways to say it agree.                                           *)
LEMMA OneOwnerSeparates ==
  ASSUME TypeOK, CallShape
  PROVE  OneOwner <=> Separate
<1>1. /\ \A i \in Slots : slots[i] \in Buffers \cup {NULL}
      /\ out \subseteq Buffers
      /\ \A t \in Threads : InCall(t) \subseteq Buffers
      /\ NULL \notin Buffers
  BY InCallBuffers, NullIsNoBuffer DEF TypeOK
<1>2. \A b : /\ \A i \in Slots : slots[i] = b => <<"slot", i>> \in Places(b)
             /\ \A t \in Threads : b \in InCall(t) => <<"call", t>> \in Places(b)
             /\ b \in out => <<"out", 0>> \in Places(b)
             /\ \A p \in Places(b) :
                  \/ \E i \in Slots : slots[i] = b /\ p = <<"slot", i>>
                  \/ \E t \in Threads : b \in InCall(t) /\ p = <<"call", t>>
                  \/ b \in out /\ p = <<"out", 0>>
  BY DEF Places
<1>3. ASSUME OneOwner PROVE Separate
  <2>1. \A b \in Buffers : \A p, q \in Places(b) : p = q
    BY <1>3 DEF OneOwner
  <2>2. ASSUME NEW i \in Slots, NEW j \in Slots, slots[i] # NULL, slots[i] = slots[j]
        PROVE  i = j
    <3>1. slots[i] \in Buffers /\ <<"slot", i>> \in Places(slots[i]) /\ <<"slot", j>> \in Places(slots[i])
      BY <1>1, <1>2, <2>2
    <3> QED  BY <2>1, <3>1
  <2>3. ASSUME NEW i \in Slots, NEW t \in Threads, slots[i] \in InCall(t)
        PROVE  FALSE
    <3>1. slots[i] \in Buffers /\ <<"slot", i>> \in Places(slots[i]) /\ <<"call", t>> \in Places(slots[i])
      BY <1>1, <1>2, <2>3
    <3> QED  BY <2>1, <3>1
  <2>4. ASSUME NEW i \in Slots, slots[i] \in out
        PROVE  FALSE
    <3>1. slots[i] \in Buffers /\ <<"slot", i>> \in Places(slots[i]) /\ <<"out", 0>> \in Places(slots[i])
      BY <1>1, <1>2, <2>4
    <3> QED  BY <2>1, <3>1
  <2>5. ASSUME NEW t \in Threads, NEW u \in Threads, t # u, NEW b \in InCall(t), b \in InCall(u)
        PROVE  FALSE
    <3>1. b \in Buffers /\ <<"call", t>> \in Places(b) /\ <<"call", u>> \in Places(b)
      BY <1>1, <1>2, <2>5
    <3> QED  BY <2>1, <2>5, <3>1
  <2>6. ASSUME NEW t \in Threads, NEW b \in InCall(t), b \in out
        PROVE  FALSE
    <3>1. b \in Buffers /\ <<"call", t>> \in Places(b) /\ <<"out", 0>> \in Places(b)
      BY <1>1, <1>2, <2>6
    <3> QED  BY <2>1, <3>1
  <2>7. ASSUME NEW b \in Buffers
        PROVE  b \in out \/ (\E t \in Threads : b \in InCall(t)) \/ (\E i \in Slots : slots[i] = b)
    <3>1. PICK p : p \in Places(b)
      BY <1>3 DEF OneOwner
    <3> QED  BY <1>2, <3>1
  <2> QED  BY <2>2, <2>3, <2>4, <2>5, <2>6, <2>7 DEF Separate
<1>4. ASSUME Separate PROVE OneOwner
  <2> SUFFICES ASSUME NEW b \in Buffers PROVE \E p \in Places(b) : Places(b) = {p}
    BY DEF OneOwner
  <2>1. \A p, q \in Places(b) : p = q
    BY <1>1, <1>2, <1>4 DEF Separate
  <2>2. \E p : p \in Places(b)
    BY <1>2, <1>4 DEF Separate
  <2> QED  BY <2>1, <2>2
<1> QED  BY <1>3, <1>4

(* What a thread may return: distinct buffers it holds, at most all.       *)
LEMMA BatchFacts ==
  ASSUME TypeOK, NEW t \in Threads, NEW batch \in Batches(t)
  PROVE  /\ batch \in Seq(Buffers)
         /\ Len(batch) \in 1..PoolSize
         /\ DOMAIN batch = 1..Len(batch)
         /\ \A i \in 1..Len(batch) : batch[i] \in out
         /\ \A i, j \in 1..Len(batch) : i # j => batch[i] # batch[j]
<1>1. PICK k \in Nat \ {0} : batch \in [1..k -> out] /\ \A i, j \in DOMAIN batch : i # j => batch[i] # batch[j]
  BY RecvBufferPoolAssumption DEF Batches
<1>2. out \subseteq Buffers
  BY DEF TypeOK
<1>3. batch \in [1..k -> Buffers]
  BY <1>1, <1>2
<1>4. batch \in Seq(Buffers) /\ Len(batch) = k /\ DOMAIN batch = 1..k
  BY <1>3
<1>5. k <= PoolSize
  BY <1>1, <1>3, <1>4, BatchFits
<1> QED  BY <1>1, <1>4, <1>5, RecvBufferPoolAssumption

(* GetBuffers never starts to take more buffers than were published.       *)
LEMMA CountFits ==
  ASSUME TypeOK, Available > 0, NEW count \in 1..MaxGet
  PROVE  /\ CappedCount(count) \in 1..PoolSize
         /\ CappedCount(count) <= Ahead(front, back)
<1>1. Ahead(front, back) \in 0..PoolSize /\ PoolSize \in Nat /\ MaxGet \in Nat
  BY AheadIs, RecvBufferPoolAssumption DEF TypeOK
<1>2. Available \in Int /\ Available <= Ahead(front, back)
  BY AvailableBound
<1> QED  BY <1>1, <1>2 DEF CappedCount

-----------------------------------------------------------------------------
(* The steps of the module, each with the one outcome it has.              *)

(* GetBuffers and GetBuffer up to the loop.                                *)
Begins(count) ==
  /\ pc[Consumer] = "idle"
  /\ count <= Ahead(front, back)
  /\ BeginTake(count)

(* A turn of the loop of GetBuffers that finds a buffer.                   *)
Takes(slot) ==
  /\ pc[Consumer] = "take" /\ pos[Consumer] < want[Consumer]
  /\ slot = Advance(front, pos[Consumer]) /\ slots[slot] # NULL
  /\ bufs' = [bufs EXCEPT ![Consumer] = Append(bufs[Consumer], slots[slot])]
  /\ slots' = [slots EXCEPT ![slot] = NULL]
  /\ pos' = [pos EXCEPT ![Consumer] = pos[Consumer] + 1]
  /\ UNCHANGED <<front, back, backRes, out, pc, want, res, thrown>>

(* GetBuffers after the loop.                                              *)
Finishes ==
  /\ pc[Consumer] = "take" /\ pos[Consumer] = want[Consumer]
  /\ FinishTake

(* A return loads m_dataBuffersBackRes.                                    *)
Enters(t, batch) ==
  /\ pc[t] = "idle"
  /\ bufs' = [bufs EXCEPT ![t] = batch]
  /\ want' = [want EXCEPT ![t] = Len(batch)]
  /\ out' = out \ {batch[i] : i \in 1..Len(batch)}
  /\ res' = [res EXCEPT ![t] = backRes]
  /\ pc' = [pc EXCEPT ![t] = "check"]
  /\ UNCHANGED <<slots, front, back, backRes, pos, thrown>>

(* A return finds room for its reservation.                                *)
Checks(t) ==
  /\ pc[t] = "check" /\ Advance(res[t], want[t]) # front
  /\ pc' = [pc EXCEPT ![t] = "reserve"]
  /\ UNCHANGED <<slots, front, back, backRes, out, bufs, want, pos, res, thrown>>

(* The reservation succeeds, from where the reservations end.              *)
Reserves(t) ==
  /\ pc[t] = "reserve" /\ res[t] = backRes
  /\ backRes' = Advance(backRes, want[t])
  /\ pc' = [pc EXCEPT ![t] = "write"]
  /\ UNCHANGED <<slots, front, back, out, bufs, want, pos, res, thrown>>

(* The reservation lost against another thread.                            *)
ChecksAgain(t) ==
  /\ pc[t] = "reserve" /\ res[t] # backRes
  /\ res' = [res EXCEPT ![t] = backRes]
  /\ pc' = [pc EXCEPT ![t] = "check"]
  /\ UNCHANGED <<slots, front, back, backRes, out, bufs, want, pos, thrown>>

(* A return fills an empty slot.                                           *)
Writes(t, slot) ==
  /\ pc[t] = "write" /\ pos[t] < want[t]
  /\ slot = Advance(res[t], pos[t]) /\ slots[slot] = NULL
  /\ slots' = [slots EXCEPT ![slot] = bufs[t][pos[t] + 1]]
  /\ pos' = [pos EXCEPT ![t] = pos[t] + 1]
  /\ UNCHANGED <<front, back, backRes, out, pc, bufs, want, res, thrown>>

(* The back moves over the slots of a return.                              *)
Publishes(t) ==
  /\ pc[t] = "write" /\ pos[t] = want[t] /\ back = res[t]
  /\ back' = Advance(back, want[t])
  /\ bufs' = [bufs EXCEPT ![t] = <<>>]
  /\ want' = [want EXCEPT ![t] = 0]
  /\ pos' = [pos EXCEPT ![t] = 0]
  /\ res' = [res EXCEPT ![t] = 0]
  /\ pc' = [pc EXCEPT ![t] = "idle"]
  /\ UNCHANGED <<slots, front, backRes, out, thrown>>

(* The back is not where the return expects it; it reloads it.             *)
PublishesLater(t) ==
  /\ pc[t] = "write" /\ pos[t] = want[t] /\ back # res[t]
  /\ res' = [res EXCEPT ![t] = back]
  /\ UNCHANGED <<slots, front, back, backRes, out, pc, bufs, want, pos, thrown>>

(* An exception: the process ends, nothing else changes.                   *)
Fails ==
  /\ \/ /\ pc[Consumer] = "take" /\ pos[Consumer] < want[Consumer]
        /\ slots[Advance(front, pos[Consumer])] = NULL
        /\ thrown' = "null"
     \/ \E t \in Returners :
          /\ pc[t] = "check" /\ Advance(res[t], want[t]) = front
          /\ thrown' = "overflow"
     \/ \E t \in Returners :
          /\ pc[t] = "write" /\ pos[t] < want[t]
          /\ slots[Advance(res[t], pos[t])] # NULL
          /\ thrown' = "overwrite"
  /\ UNCHANGED <<slots, front, back, backRes, out, pc, bufs, want, pos, res>>

(* Every step of Next is one of these.                                     *)
OneStep ==
  \/ \E count \in 1..PoolSize : Begins(count)
  \/ \E slot \in Slots : Takes(slot)
  \/ Finishes
  \/ \E t \in Returners :
       \/ \E batch \in Batches(t) : Enters(t, batch)
       \/ Checks(t)
       \/ Reserves(t)
       \/ ChecksAgain(t)
       \/ \E slot \in Slots : Writes(t, slot)
       \/ Publishes(t)
       \/ PublishesLater(t)
  \/ Fails

(* Next has no other outcome.                                              *)
LEMMA NextIsOneStep ==
  ASSUME TypeOK, CallShape, Next
  PROVE  OneStep
<1>0. /\ PoolSize \in Nat /\ PoolSize > 0
      /\ Consumer \in Threads /\ Returners \subseteq Threads
      /\ \A t \in Threads : ThreadFacts(t)
      /\ front \in Slots /\ back \in Slots /\ backRes \in Slots
      /\ \A t \in Threads : res[t] \in Slots
  BY RecvBufferPoolAssumption, Shape DEF Threads, TypeOK
<1>1. ASSUME NEW count \in 1..MaxGet, GetBuffers(count)
      PROVE  OneStep
  BY <1>1, CountFits DEF GetBuffers, OneStep, Begins, Running
<1>2. CASE GetBuffer
  <2>1. Ahead(front, back) \in Nat /\ Ahead(front, back) # 0
    BY <1>0, <1>2, AheadIs, RingIndex DEF GetBuffer
  <2>2. Begins(1)
    BY <1>2, <2>1 DEF GetBuffer, Begins, Running
  <2> QED  BY <1>0, <2>2 DEF OneStep
<1>3. CASE TakeSlot
  <2>1. Advance(front, pos[Consumer]) \in Slots
    BY <1>0, AdvanceIs DEF ThreadFacts
  <2>2. CASE slots[Advance(front, pos[Consumer])] = NULL
    <3>1. Fails
      BY <1>3, <2>2 DEF TakeSlot, Running, Fails
    <3> QED  BY <3>1 DEF OneStep
  <2>3. CASE slots[Advance(front, pos[Consumer])] # NULL
    <3>1. Takes(Advance(front, pos[Consumer]))
      BY <1>3, <2>3 DEF TakeSlot, Running, Takes
    <3> QED  BY <2>1, <3>1 DEF OneStep
  <2> QED  BY <2>2, <2>3
<1>4. CASE FinishTake
  BY <1>4 DEF FinishTake, Running, Finishes, OneStep
<1>5. ASSUME NEW t \in Returners, Return(t)
      PROVE  OneStep
  <2>1. PICK batch \in Batches(t) :
          /\ bufs' = [bufs EXCEPT ![t] = batch]
          /\ want' = [want EXCEPT ![t] = Len(batch)]
          /\ out' = out \ {batch[i] : i \in DOMAIN batch}
    BY <1>5 DEF Return
  <2>2. DOMAIN batch = 1..Len(batch)
    BY <1>0, BatchFacts
  <2>3. Enters(t, batch)
    BY <1>5, <2>1, <2>2 DEF Return, Running, Goto, Enters
  <2> QED  BY <2>3 DEF OneStep
<1>6. ASSUME NEW t \in Returners, CheckOverflow(t)
      PROVE  OneStep
  <2>1. CASE Advance(res[t], want[t]) = front
    <3>1. Fails
      BY <1>6, <2>1 DEF CheckOverflow, Running, Fails
    <3> QED  BY <3>1 DEF OneStep
  <2>2. CASE Advance(res[t], want[t]) # front
    BY <1>6, <2>2 DEF CheckOverflow, Running, Goto, Checks, OneStep
  <2> QED  BY <2>1, <2>2
<1>7. ASSUME NEW t \in Returners, Reserve(t)
      PROVE  OneStep
  <2>1. CASE res[t] = backRes
    BY <1>7, <2>1 DEF Reserve, SwapsReservation, Running, Goto, Reserves, OneStep
  <2>2. CASE res[t] # backRes
    BY <1>7, <2>2 DEF Reserve, SwapsReservation, Running, Goto, ChecksAgain, OneStep
  <2> QED  BY <2>1, <2>2
<1>8. ASSUME NEW t \in Returners, WriteSlot(t)
      PROVE  OneStep
  <2>1. Advance(res[t], pos[t]) \in Slots
    BY <1>0, AdvanceIs DEF ThreadFacts
  <2>2. CASE slots[Advance(res[t], pos[t])] # NULL
    <3>1. Fails
      BY <1>8, <2>2 DEF WriteSlot, Running, Fails
    <3> QED  BY <3>1 DEF OneStep
  <2>3. CASE slots[Advance(res[t], pos[t])] = NULL
    <3>1. Writes(t, Advance(res[t], pos[t]))
      BY <1>8, <2>3 DEF WriteSlot, NextBuffer, Running, Writes
    <3> QED  BY <2>1, <3>1 DEF OneStep
  <2> QED  BY <2>2, <2>3
<1>9. ASSUME NEW t \in Returners, Publish(t)
      PROVE  OneStep
  <2>1. CASE back = res[t]
    <3>1. Publishes(t)
      BY <1>9, <2>1 DEF Publish, SwapsBack, Running, Goto, Publishes
    <3> QED  BY <3>1 DEF OneStep
  <2>2. CASE back # res[t]
    <3>1. PublishesLater(t)
      BY <1>9, <2>2 DEF Publish, SwapsBack, Running, Goto, PublishesLater
    <3> QED  BY <3>1 DEF OneStep
  <2> QED  BY <2>1, <2>2
<1> QED  BY <1>1, <1>2, <1>3, <1>4, <1>5, <1>6, <1>7, <1>8, <1>9 DEF Next

(* Each step keeps the types and the shape of the calls.                   *)
LEMMA TypeStep ==
  ASSUME TypeOK, CallShape, OneOwner, OneStep
  PROVE  TypeOK' /\ CallShape'
<1>0. /\ PoolSize \in Nat /\ PoolSize > 0
      /\ NULL \notin Buffers
      /\ Consumer \in Threads /\ Returners \subseteq Threads
      /\ \A t \in Threads : ThreadFacts(t)
      /\ 0 \in Slots
  BY RecvBufferPoolAssumption, NullIsNoBuffer, Shape DEF Threads, Slots
<1>1. ASSUME NEW count \in 1..PoolSize, Begins(count)
      PROVE  TypeOK' /\ CallShape'
  <2>1. TypeOK'
    BY <1>0, <1>1 DEF TypeOK, Begins, BeginTake, Goto
  <2>2. ASSUME NEW u \in Threads PROVE ShapeOf(u)'
    BY <1>0, <1>1, <2>2 DEF TypeOK, Begins, BeginTake, Goto, CallShape, ShapeOf
  <2> QED  BY <2>1, <2>2 DEF CallShape, Threads
<1>2. ASSUME NEW slot \in Slots, Takes(slot)
      PROVE  TypeOK' /\ CallShape'
  <2> DEFINE b == slots[slot]
             s == Append(bufs[Consumer], b)
  <2>1. b \in Buffers /\ b \notin InCall(Consumer)
    BY <1>0, <1>2, OneOwnerSeparates DEF Separate, TypeOK, Takes
  <2>2. pc[Consumer] = "take" /\ Len(bufs[Consumer]) = pos[Consumer] /\ bufs[Consumer] \in Seq(Buffers)
    BY <1>0, <1>2 DEF Takes, ThreadFacts
  <2>3. \A i \in 1..Len(bufs[Consumer]) : bufs[Consumer][i] # b
    BY <1>0, <2>1, <2>2, InCallBuffers
  <2>4. /\ s \in Seq(Buffers) /\ Len(s) = pos[Consumer] + 1
        /\ \A i \in 1..Len(bufs[Consumer]) : s[i] = bufs[Consumer][i]
        /\ s[pos[Consumer] + 1] = b
    BY <2>1, <2>2
  <2>5. \A i, j \in 1..Len(s) : i # j => s[i] # s[j]
    BY <1>0, <2>2, <2>3, <2>4 DEF ThreadFacts
  <2>6. bufs' = [bufs EXCEPT ![Consumer] = s]
    BY <1>2 DEF Takes
  <2> HIDE DEF s, b
  <2>7. TypeOK'
    BY <1>0, <1>2, <2>4, <2>6 DEF TypeOK, Takes, ThreadFacts
  <2>8. ASSUME NEW u \in Threads PROVE ShapeOf(u)'
    BY <1>0, <1>2, <2>2, <2>4, <2>5, <2>6, <2>8 DEF TypeOK, Takes, CallShape, ShapeOf
  <2> QED  BY <2>7, <2>8 DEF CallShape, Threads
<1>3. CASE Finishes
  <2>1. Advance(front, want[Consumer]) \in Slots
    BY <1>0, AdvanceIs DEF ThreadFacts, TypeOK
  <2>2. {bufs[Consumer][i] : i \in 1..want[Consumer]} \subseteq Buffers
    BY <1>0, <1>3 DEF ThreadFacts, Finishes
  <2>3. TypeOK'
    BY <1>0, <1>3, <2>1, <2>2 DEF TypeOK, Finishes, FinishTake, Goto
  <2>4. ASSUME NEW u \in Threads PROVE ShapeOf(u)'
    BY <1>0, <1>3, <2>4 DEF TypeOK, Finishes, FinishTake, Goto, CallShape, ShapeOf
  <2> QED  BY <2>3, <2>4 DEF CallShape, Threads
<1>4. ASSUME NEW t \in Returners, NEW batch \in Batches(t), Enters(t, batch)
      PROVE  TypeOK' /\ CallShape'
  <2>1. t \in Threads /\ pos[t] = 0
    BY <1>0, <1>4 DEF ThreadFacts, Enters
  <2>2. /\ batch \in Seq(Buffers) /\ Len(batch) \in 1..PoolSize
        /\ \A i, j \in 1..Len(batch) : i # j => batch[i] # batch[j]
    BY <2>1, BatchFacts
  <2>3. TypeOK'
    BY <1>0, <1>4, <2>1, <2>2 DEF TypeOK, Enters
  <2>4. ASSUME NEW u \in Threads PROVE ShapeOf(u)'
    BY <1>0, <1>4, <2>1, <2>2, <2>4 DEF TypeOK, Enters, CallShape, ShapeOf
  <2> QED  BY <2>3, <2>4 DEF CallShape, Threads
<1>5. ASSUME NEW t \in Returners, Checks(t) \/ ChecksAgain(t) \/ Reserves(t)
      PROVE  TypeOK' /\ CallShape'
  <2>1. Advance(backRes, want[t]) \in Slots
    BY <1>0, AdvanceIs DEF ThreadFacts, TypeOK
  <2>2. TypeOK'
    BY <1>0, <1>5, <2>1 DEF TypeOK, Checks, ChecksAgain, Reserves
  <2>3. ASSUME NEW u \in Threads PROVE ShapeOf(u)'
    BY <1>0, <1>5, <2>3 DEF TypeOK, Checks, ChecksAgain, Reserves, CallShape, ShapeOf
  <2> QED  BY <2>2, <2>3 DEF CallShape, Threads
<1>6. ASSUME NEW t \in Returners, NEW slot \in Slots, Writes(t, slot)
      PROVE  TypeOK' /\ CallShape'
  <2>1. t \in Threads /\ pos[t] + 1 \in 1..want[t] /\ bufs[t][pos[t] + 1] \in Buffers
    BY <1>0, <1>6 DEF ThreadFacts, Writes
  <2>2. TypeOK'
    BY <1>0, <1>6, <2>1 DEF TypeOK, Writes, ThreadFacts
  <2>3. ASSUME NEW u \in Threads PROVE ShapeOf(u)'
    BY <1>0, <1>6, <2>1, <2>3 DEF TypeOK, Writes, CallShape, ShapeOf
  <2> QED  BY <2>2, <2>3 DEF CallShape, Threads
<1>7. ASSUME NEW t \in Returners, Publishes(t)
      PROVE  TypeOK' /\ CallShape'
  <2>1. Advance(back, want[t]) \in Slots
    BY <1>0, AdvanceIs DEF ThreadFacts, TypeOK
  <2>2. <<>> \in Seq(Buffers)
    OBVIOUS
  <2>3. TypeOK'
    BY <1>0, <1>7, <2>1, <2>2 DEF TypeOK, Publishes
  <2>4. ASSUME NEW u \in Threads PROVE ShapeOf(u)'
    <3>1. CASE u = t
      <4>1. bufs'[u] = <<>> /\ pc'[u] = "idle" /\ want'[u] = 0 /\ pos'[u] = 0
        BY <1>7, <2>4, <3>1 DEF TypeOK, Publishes
      <4> QED  BY <4>1 DEF ShapeOf
    <3>2. CASE u # t
      BY <1>7, <2>4, <3>2 DEF TypeOK, Publishes, CallShape, ShapeOf
    <3> QED  BY <3>1, <3>2
  <2> QED  BY <2>3, <2>4 DEF CallShape, Threads
<1>9. ASSUME NEW t \in Returners, PublishesLater(t)
      PROVE  TypeOK' /\ CallShape'
  BY <1>9 DEF TypeOK, PublishesLater, CallShape, ShapeOf
<1>8. CASE Fails
  BY <1>8 DEF Fails, TypeOK, CallShape, ShapeOf
<1> QED  BY <1>1, <1>2, <1>3, <1>4, <1>5, <1>6, <1>7, <1>8, <1>9 DEF OneStep

(* Each step moves a buffer from one place to one other place, or moves    *)
(* none.                                                                   *)
LEMMA OwnerStep ==
  ASSUME TypeOK, CallShape, OneOwner, OneStep
  PROVE  OneOwner'
<1>0. /\ PoolSize \in Nat
      /\ NULL \notin Buffers
      /\ Consumer \in Threads /\ Returners \subseteq Threads
      /\ \A t \in Threads : ThreadFacts(t)
      /\ \A t \in Threads : InCall(t) \subseteq Buffers
      /\ \A i \in Slots : slots[i] \in Buffers \cup {NULL}
      /\ out \subseteq Buffers
      /\ slots \in [Slots -> Buffers \cup {NULL}]
      /\ DOMAIN pc = Threads /\ DOMAIN bufs = Threads /\ DOMAIN want = Threads /\ DOMAIN pos = Threads
  BY RecvBufferPoolAssumption, NullIsNoBuffer, Shape, InCallBuffers DEF Threads, TypeOK
<1>s. Separate
  BY OneOwnerSeparates
<1>t. TypeOK' /\ CallShape'
  BY TypeStep
<1>f. \A u \in Threads :
        (bufs'[u] = bufs[u] /\ want'[u] = want[u] /\ pos'[u] = pos[u]
           /\ (pc'[u] = "take" <=> pc[u] = "take"))
        => InCall(u)' = InCall(u)
  BY DEF InCall
<1> SUFFICES Separate'
  <2>1. (TypeOK /\ CallShape => (OneOwner <=> Separate))'
    BY OneOwnerSeparates, PTL
  <2> QED  BY <1>t, <2>1
<1>1. ASSUME NEW count \in 1..PoolSize, Begins(count)
      PROVE  Separate'
  <2>1. InCall(Consumer) = {} /\ InCall(Consumer)' = {}
    <3>1. pc'[Consumer] = "take" /\ pos'[Consumer] = 0
      BY <1>0, <1>1 DEF Begins, BeginTake, Goto
    <3> QED  BY <1>0, <1>1, <3>1, InCallBuffers DEF InCall, Begins
  <2>2. \A u \in Threads : InCall(u)' = InCall(u)
    <3> TAKE u \in Threads
    <3>1. CASE u = Consumer
      BY <2>1, <3>1
    <3>2. CASE u # Consumer
      BY <1>0, <1>1, <1>f, <3>2 DEF Begins, BeginTake, Goto
    <3> QED  BY <3>1, <3>2
  <2>3. UNCHANGED <<slots, out>>
    BY <1>1 DEF Begins, BeginTake
  <2> QED  BY <1>s, <2>2, <2>3 DEF Separate
<1>2. ASSUME NEW slot \in Slots, Takes(slot)
      PROVE  Separate'
  <2>1. InCall(Consumer)' = InCall(Consumer) \cup {slots[slot]}
    <3>1. /\ pc[Consumer] = "take" /\ pc'[Consumer] = "take"
          /\ pos'[Consumer] = pos[Consumer] + 1 /\ Len(bufs[Consumer]) = pos[Consumer]
          /\ bufs'[Consumer] = Append(bufs[Consumer], slots[slot])
      BY <1>0, <1>2 DEF Takes, ThreadFacts
    <3>2. /\ InCall(Consumer) = {bufs[Consumer][i] : i \in 1..pos[Consumer]}
          /\ InCall(Consumer)' = {Append(bufs[Consumer], slots[slot])[i] : i \in 1..pos[Consumer] + 1}
      BY <3>1 DEF InCall
    <3>3. bufs[Consumer] \in Seq(Buffers \cup {NULL}) /\ slots[slot] \in Buffers \cup {NULL} /\ pos[Consumer] \in Nat
      BY <1>0 DEF ThreadFacts
    <3>4. /\ \A i \in 1..pos[Consumer] : Append(bufs[Consumer], slots[slot])[i] = bufs[Consumer][i]
          /\ Append(bufs[Consumer], slots[slot])[pos[Consumer] + 1] = slots[slot]
      BY <3>1, <3>3
    <3>5. \A i : i \in 1..pos[Consumer] + 1 <=> i \in 1..pos[Consumer] \/ i = pos[Consumer] + 1
      BY <3>3
    <3> QED  BY <3>2, <3>4, <3>5
  <2>2. \A u \in Threads : u # Consumer => InCall(u)' = InCall(u)
    BY <1>0, <1>2, <1>f DEF Takes
  <2>3. slots' = [slots EXCEPT ![slot] = NULL] /\ out' = out /\ slots[slot] # NULL
    BY <1>2 DEF Takes
  <2>4. \A i \in Slots : slots'[i] = IF i = slot THEN NULL ELSE slots[i]
    BY <1>0, <2>3
  <2> QED  BY <1>0, <1>s, <2>1, <2>2, <2>3, <2>4 DEF Separate
<1>3. CASE Finishes
  <2>1. /\ InCall(Consumer) = {bufs[Consumer][i] : i \in 1..want[Consumer]}
        /\ InCall(Consumer)' = {}
    BY <1>0, <1>3 DEF InCall, Finishes, FinishTake, Goto
  <2>2. \A u \in Threads : u # Consumer => InCall(u)' = InCall(u)
    BY <1>0, <1>3, <1>f DEF Finishes, FinishTake, Goto
  <2>3. slots' = slots /\ out' = out \cup InCall(Consumer)
    BY <1>3, <2>1 DEF Finishes, FinishTake
  <2> QED  BY <1>0, <1>s, <2>1, <2>2, <2>3 DEF Separate
<1>4. ASSUME NEW t \in Returners, NEW batch \in Batches(t), Enters(t, batch)
      PROVE  Separate'
  <2>0. t \in Threads
    BY <1>0
  <2>1. Len(batch) \in Nat /\ \A i \in 1..Len(batch) : batch[i] \in out
    BY <2>0, BatchFacts
  <2>2. InCall(t) = {} /\ InCall(t)' = {batch[i] : i \in 1..Len(batch)}
    <3>1. pos[t] = 0 /\ pc[t] = "idle"
      BY <1>0, <2>0, <1>4 DEF ThreadFacts, Enters
    <3>2. /\ pc'[t] = "check" /\ pos'[t] = 0
          /\ bufs'[t] = batch /\ want'[t] = Len(batch)
      BY <1>0, <2>0, <1>4, <3>1 DEF Enters
    <3>3. InCall(t)' = {batch[i] : i \in 0 + 1..Len(batch)}
      BY <3>2 DEF InCall
    <3> QED  BY <2>0, <3>1, <3>3, InCallBuffers
  <2>3. \A u \in Threads : u # t => InCall(u)' = InCall(u)
    BY <1>0, <1>4, <1>f DEF Enters
  <2>4. slots' = slots /\ out' = out \ InCall(t)' /\ InCall(t)' \subseteq out
    BY <1>4, <2>1, <2>2 DEF Enters
  <2> QED  BY <1>0, <1>s, <2>0, <2>2, <2>3, <2>4 DEF Separate
<1>5. ASSUME NEW t \in Returners, Checks(t) \/ ChecksAgain(t) \/ Reserves(t) \/ PublishesLater(t)
      PROVE  Separate'
  <2>1. \A u \in Threads : InCall(u)' = InCall(u)
    BY <1>0, <1>5, <1>f DEF Checks, ChecksAgain, Reserves, PublishesLater
  <2>2. UNCHANGED <<slots, out>>
    BY <1>5 DEF Checks, ChecksAgain, Reserves, PublishesLater
  <2> QED  BY <1>s, <2>1, <2>2 DEF Separate
<1>6. ASSUME NEW t \in Returners, NEW slot \in Slots, Writes(t, slot)
      PROVE  Separate'
  <2> DEFINE b == bufs[t][pos[t] + 1]
  <2>1. /\ t \in Threads /\ pos[t] \in Nat /\ want[t] \in Nat /\ Len(bufs[t]) = want[t]
        /\ pos[t] + 1 \in 1..want[t] /\ b \in Buffers
        /\ \A i, j \in 1..want[t] : i # j => bufs[t][i] # bufs[t][j]
    <3>1. t \in Threads /\ pc[t] = "write" /\ pos[t] < want[t]
      BY <1>0, <1>6 DEF Writes
    <3>2. ThreadFacts(t)
      BY <1>0, <3>1
    <3> QED  BY <3>1, <3>2 DEF ThreadFacts
  <2>2. /\ InCall(t) = {bufs[t][i] : i \in pos[t] + 1..want[t]}
        /\ InCall(t)' = {bufs[t][i] : i \in pos[t] + 2..want[t]}
    <3>1. pc[t] = "write" /\ pc'[t] = "write" /\ pos'[t] = pos[t] + 1 /\ bufs'[t] = bufs[t] /\ want'[t] = want[t]
      BY <1>0, <1>6, <2>1 DEF Writes
    <3>2. pos[t] + 1 + 1 = pos[t] + 2
      BY <2>1
    <3> QED  BY <3>1, <3>2 DEF InCall
  <2>3. InCall(t)' = InCall(t) \ {b} /\ b \in InCall(t)
    <3>1. \A i : i \in pos[t] + 1..want[t] <=> i = pos[t] + 1 \/ i \in pos[t] + 2..want[t]
      BY <2>1
    <3>2. \A i \in pos[t] + 2..want[t] : bufs[t][i] # b
      BY <2>1
    <3> QED  BY <2>2, <3>1, <3>2
  <2>4. \A u \in Threads : u # t => InCall(u)' = InCall(u)
    BY <1>0, <1>6, <1>f DEF Writes
  <2>5. slots' = [slots EXCEPT ![slot] = b] /\ out' = out /\ slots[slot] = NULL
    BY <1>6 DEF Writes
  <2>6. \A i \in Slots : slots'[i] = IF i = slot THEN b ELSE slots[i]
    BY <1>0, <2>5
  <2> HIDE DEF b
  <2> QED  BY <1>0, <1>s, <2>1, <2>3, <2>4, <2>5, <2>6 DEF Separate
<1>7. ASSUME NEW t \in Returners, Publishes(t)
      PROVE  Separate'
  <2>1. InCall(t) = {} /\ InCall(t)' = {}
    <3>1. t \in Threads /\ pc[t] = "write" /\ pos[t] = want[t] /\ want[t] \in Nat
      BY <1>0, <1>7 DEF ThreadFacts, Publishes
    <3> QED  BY <1>0, <1>7, <3>1 DEF InCall, Publishes
  <2>2. \A u \in Threads : u # t => InCall(u)' = InCall(u)
    BY <1>0, <1>7, <1>f DEF Publishes
  <2>3. UNCHANGED <<slots, out>>
    BY <1>7 DEF Publishes
  <2> QED  BY <1>s, <2>1, <2>2, <2>3 DEF Separate
<1>8. CASE Fails
  <2>1. UNCHANGED <<slots, out>> /\ \A u \in Threads : InCall(u)' = InCall(u)
    BY <1>8, <1>f DEF Fails
  <2> QED  BY <1>s, <2>1 DEF Separate
<1> QED  BY <1>1, <1>2, <1>3, <1>4, <1>5, <1>6, <1>7, <1>8 DEF OneStep

(* The types of the cursors and of their distances from the front.         *)
RingFacts ==
  /\ PoolSize \in Nat
  /\ front \in Slots /\ back \in Slots /\ backRes \in Slots
  /\ Ahead(front, back) \in 0..PoolSize
  /\ Ahead(front, backRes) \in 0..PoolSize

(* They follow from TypeOK.                                                *)
LEMMA RingTypes ==
  ASSUME TypeOK
  PROVE  RingFacts
BY AheadIs, RecvBufferPoolAssumption DEF TypeOK, RingFacts

(* The held buffers are finitely many; a call that has written nothing has *)
(* as many as its array.                                                   *)
LEMMA HeldCount ==
  ASSUME TypeOK, CallShape
  PROVE  /\ Held \subseteq Buffers
         /\ IsFiniteSet(Held)
         /\ Cardinality(Held) \in Nat
         /\ \A t \in Threads : pc[t] # "write" =>
              IsFiniteSet(InCall(t)) /\ Cardinality(InCall(t)) = Len(bufs[t])
<1>1. IsFiniteSet(Buffers)
  BY FS_Interval, RecvBufferPoolAssumption DEF Buffers
<1>2. Held \subseteq Buffers
  BY InCallBuffers DEF Held, TypeOK
<1>3. ASSUME NEW t \in Threads, pc[t] # "write"
      PROVE  IsFiniteSet(InCall(t)) /\ Cardinality(InCall(t)) = Len(bufs[t])
  <2>1. ThreadFacts(t)
    BY Shape
  <2>2. InCall(t) = {bufs[t][i] : i \in 1..Len(bufs[t])}
    <3>1. CASE pc[t] = "idle"
      <4>1. Len(bufs[t]) = 0
        <5>1. bufs[t] = <<>>
          BY <2>1, <3>1 DEF ThreadFacts
        <5> QED  BY <5>1
      <4>2. InCall(t) = {}
        BY <3>1, InCallBuffers
      <4>3. 1..Len(bufs[t]) = {}
        BY <4>1
      <4> QED  BY <4>2, <4>3
    <3>2. CASE pc[t] # "idle"
      BY <1>3, <2>1, <3>2, InCallBuffers DEF ThreadFacts
    <3> QED  BY <3>1, <3>2
  <2>3. Len(bufs[t]) \in Nat /\ \A i, j \in 1..Len(bufs[t]) : i # j => bufs[t][i] # bufs[t][j]
    BY <2>1 DEF ThreadFacts
  <2> DEFINE n == Len(bufs[t])
             f == bufs[t]
  <2>4. n \in Nat /\ \A i, j \in 1..n : i # j => f[i] # f[j]
    BY <2>3
  <2>5. InCall(t) = {f[i] : i \in 1..n}
    BY <2>2
  <2> HIDE DEF n, f
  <2>6. IsFiniteSet({f[i] : i \in 1..n}) /\ Cardinality({f[i] : i \in 1..n}) = n
    BY <2>4, CountDistinct
  <2>7. IsFiniteSet(InCall(t)) /\ Cardinality(InCall(t)) = n
    BY <2>5, <2>6
  <2> QED  BY <2>7 DEF n
<1> QED  BY <1>1, <1>2, <1>3, FS_Subset, FS_CardinalityType

(* A reservation always fits: there is a slot for every buffer.            *)
LEMMA RingFits ==
  ASSUME TypeOK, CallShape, RingHoldsRest, NEW t \in Threads, pc[t] \in {"check", "reserve"}
  PROVE  /\ want[t] <= Cardinality(Held)
         /\ want[t] \in 1..PoolSize
         /\ Ahead(front, backRes) + want[t] <= PoolSize
<1>1. RingFacts /\ ThreadFacts(t)
  BY RingTypes, Shape
<1>2. InCall(t) \subseteq Held /\ IsFiniteSet(Held)
  BY HeldCount DEF Held
<1>3. Cardinality(InCall(t)) = want[t]
  BY <1>1, HeldCount DEF ThreadFacts
<1>4. Cardinality(InCall(t)) <= Cardinality(Held)
  BY <1>2, FS_Subset
<1>5. Cardinality(Held) \in Nat /\ Cardinality(Held) + Ahead(front, backRes) = PoolSize
  BY HeldCount DEF RingHoldsRest
<1>6. want[t] \in 1..PoolSize
  BY <1>1 DEF ThreadFacts, RingFacts
<1> QED  BY <1>1, <1>3, <1>4, <1>5, <1>6 DEF RingFacts

(* Each step keeps one slot, full or reserved, for every buffer that is    *)
(* not held: taking moves the front by as many buffers as it hands out,    *)
(* and only a reservation moves the reservations.                          *)
LEMMA HeldStep ==
  ASSUME TypeOK, CallShape, OneOwner, CursorOrder, RingHoldsRest, OneStep
  PROVE  RingHoldsRest'
<1>0. /\ Consumer \in Threads /\ Returners \subseteq Threads
      /\ \A t \in Threads : ThreadFacts(t)
      /\ DOMAIN pc = Threads /\ DOMAIN bufs = Threads /\ DOMAIN want = Threads /\ DOMAIN pos = Threads
      /\ RingFacts
  BY Shape, RingTypes DEF Threads, TypeOK
<1>s. Separate
  BY OneOwnerSeparates
<1>h. /\ IsFiniteSet(Held) /\ Cardinality(Held) \in Nat
      /\ Cardinality(Held) + Ahead(front, backRes) = PoolSize
  BY HeldCount DEF RingHoldsRest
<1>f. \A u \in Threads :
        (bufs'[u] = bufs[u] /\ want'[u] = want[u] /\ pos'[u] = pos[u]
           /\ (pc'[u] = "take" <=> pc[u] = "take"))
        => InCall(u)' = InCall(u)
  BY DEF InCall
<1>g. ASSUME out' = out,
             \A u \in Threads : pc'[u] \in {"check", "reserve"} <=> pc[u] \in {"check", "reserve"},
             \A u \in Threads : pc[u] \in {"check", "reserve"} => InCall(u)' = InCall(u)
      PROVE  Held' = Held
  BY <1>g DEF Held
<1>1. ASSUME NEW count \in 1..PoolSize, Begins(count)
      PROVE  RingHoldsRest'
  <2>1. Held' = Held
    BY <1>0, <1>1, <1>f, <1>g DEF Begins, BeginTake, Goto
  <2> QED  BY <1>1, <1>h, <2>1 DEF Begins, BeginTake, RingHoldsRest, Ahead
<1>2. ASSUME NEW slot \in Slots, Takes(slot)
      PROVE  RingHoldsRest'
  <2>1. Held' = Held
    BY <1>0, <1>2, <1>f, <1>g DEF Takes
  <2> QED  BY <1>2, <1>h, <2>1 DEF Takes, RingHoldsRest, Ahead
<1>3. CASE Finishes
  <2>1. /\ InCall(Consumer) = {bufs[Consumer][i] : i \in 1..want[Consumer]}
        /\ InCall(Consumer)' = {}
    BY <1>0, <1>3 DEF InCall, Finishes, FinishTake, Goto
  <2>2. \A u \in Threads : u # Consumer => InCall(u)' = InCall(u) /\ pc'[u] = pc[u]
    BY <1>0, <1>3, <1>f DEF Finishes, FinishTake, Goto
  <2>3. /\ out' = out \cup InCall(Consumer)
        /\ pc[Consumer] = "take" /\ pc'[Consumer] = "idle"
    BY <1>0, <1>3, <2>1 DEF Finishes, FinishTake, Goto
  <2>4. Held' = Held \cup InCall(Consumer)
    BY <2>2, <2>3 DEF Held
  <2>5. Held \cap InCall(Consumer) = {}
    BY <1>0, <1>s, <2>3 DEF Held, Separate
  <2>6. IsFiniteSet(InCall(Consumer)) /\ Cardinality(InCall(Consumer)) = want[Consumer]
    BY <1>0, <1>3, <2>3, HeldCount DEF ThreadFacts, Finishes
  <2>7. Cardinality(Held') = Cardinality(Held) + want[Consumer]
    <3>1. want[Consumer] \in Nat /\ Cardinality({}) = 0
      BY <1>0, FS_EmptySet DEF ThreadFacts
    <3>2. Cardinality(Held \cup InCall(Consumer))
            = Cardinality(Held) + Cardinality(InCall(Consumer)) - Cardinality(Held \cap InCall(Consumer))
      BY <1>h, <2>6, FS_Union
    <3>3. Cardinality(Held \cup InCall(Consumer)) = Cardinality(Held) + want[Consumer] - 0
      BY <2>5, <2>6, <3>1, <3>2
    <3> QED  BY <1>h, <2>4, <3>1, <3>3
  <2>8. Ahead(front, backRes)' = Ahead(front, backRes) - want[Consumer]
    <3>1. want[Consumer] \in 0..PoolSize /\ want[Consumer] <= Ahead(front, backRes)
      BY <1>0, <2>3 DEF ThreadFacts, CursorOrder, RingFacts
    <3>2. Ahead(Advance(front, want[Consumer]), backRes) = Ahead(front, backRes) - want[Consumer]
      BY <1>0, <3>1, AheadAdvanced DEF RingFacts
    <3> QED  BY <1>3, <3>2 DEF Finishes, FinishTake, Ahead
  <2> QED  BY <1>0, <1>h, <2>7, <2>8 DEF RingHoldsRest, RingFacts, ThreadFacts
<1>4. ASSUME NEW t \in Returners, NEW batch \in Batches(t), Enters(t, batch)
      PROVE  RingHoldsRest'
  <2>0. t \in Threads
    BY <1>0
  <2>1. Len(batch) \in Nat /\ \A i \in 1..Len(batch) : batch[i] \in out
    BY <2>0, BatchFacts
  <2>2. InCall(t)' = {batch[i] : i \in 1..Len(batch)}
    <3>1. pos[t] = 0 /\ pc[t] = "idle"
      BY <1>0, <2>0, <1>4 DEF ThreadFacts, Enters
    <3>2. /\ pc'[t] = "check" /\ pos'[t] = 0
          /\ bufs'[t] = batch /\ want'[t] = Len(batch)
      BY <1>0, <2>0, <1>4, <3>1 DEF Enters
    <3>3. InCall(t)' = {batch[i] : i \in 0 + 1..Len(batch)}
      BY <3>2 DEF InCall
    <3> QED  BY <3>3
  <2>3. \A u \in Threads : u # t => InCall(u)' = InCall(u) /\ pc'[u] = pc[u]
    BY <1>0, <1>4, <1>f DEF Enters
  <2>4. /\ out' = out \ InCall(t)' /\ InCall(t)' \subseteq out
        /\ pc[t] = "idle" /\ pc'[t] = "check"
    BY <1>0, <1>4, <2>0, <2>1, <2>2 DEF Enters
  <2>5. Held' = Held
    BY <2>0, <2>3, <2>4 DEF Held
  <2> QED  BY <1>4, <1>h, <2>5 DEF Enters, RingHoldsRest, Ahead
<1>5. ASSUME NEW t \in Returners, Checks(t) \/ ChecksAgain(t)
      PROVE  RingHoldsRest'
  <2>1. Held' = Held
    BY <1>0, <1>5, <1>f, <1>g DEF Checks, ChecksAgain
  <2> QED  BY <1>5, <1>h, <2>1 DEF Checks, ChecksAgain, RingHoldsRest, Ahead
<1>6. ASSUME NEW t \in Returners, Reserves(t)
      PROVE  RingHoldsRest'
  <2>0. t \in Threads
    BY <1>0
  <2>1. \A u \in Threads : InCall(u)' = InCall(u) /\ (u # t => pc'[u] = pc[u])
    BY <1>0, <1>6, <1>f DEF Reserves
  <2>2. out' = out /\ pc[t] = "reserve" /\ pc'[t] = "write"
    BY <1>0, <2>0, <1>6 DEF Reserves
  <2>3. Held' = Held \ InCall(t) /\ InCall(t) \subseteq Held
    BY <1>s, <2>0, <2>1, <2>2 DEF Held, Separate
  <2>4. IsFiniteSet(InCall(t)) /\ Cardinality(InCall(t)) = want[t] /\ want[t] \in 0..PoolSize
    BY <1>0, <2>0, <2>2, HeldCount DEF ThreadFacts, RingFacts
  <2>5. Cardinality(Held') = Cardinality(Held) - want[t] /\ want[t] <= Cardinality(Held)
    <3>1. Held \cap InCall(t) = InCall(t)
      BY <2>3
    <3>2. Cardinality(Held \ InCall(t)) = Cardinality(Held) - Cardinality(Held \cap InCall(t))
      BY <1>h, FS_Difference
    <3>3. want[t] <= Cardinality(Held)
      BY <2>0, <2>2, RingFits
    <3> QED  BY <2>3, <2>4, <3>1, <3>2, <3>3
  <2>6. Ahead(front, backRes)' = Ahead(front, backRes) + want[t]
    <3>1. Ahead(front, backRes) + want[t] <= PoolSize
      BY <2>0, <2>2, RingFits
    <3>2. Ahead(front, Advance(backRes, want[t])) = Ahead(front, backRes) + want[t]
      BY <1>0, <2>4, <3>1, AheadAdvanced DEF RingFacts
    <3> QED  BY <1>6, <3>2 DEF Reserves, Ahead
  <2> QED  BY <1>0, <1>h, <2>4, <2>5, <2>6 DEF RingHoldsRest, RingFacts
<1>7. ASSUME NEW t \in Returners, NEW slot \in Slots, Writes(t, slot)
      PROVE  RingHoldsRest'
  <2>1. Held' = Held
    BY <1>0, <1>7, <1>f, <1>g DEF Writes
  <2> QED  BY <1>7, <1>h, <2>1 DEF Writes, RingHoldsRest, Ahead
<1>8. ASSUME NEW t \in Returners, Publishes(t) \/ PublishesLater(t)
      PROVE  RingHoldsRest'
  <2>1. Held' = Held
    BY <1>0, <1>8, <1>f, <1>g DEF Publishes, PublishesLater
  <2> QED  BY <1>8, <1>h, <2>1 DEF Publishes, PublishesLater, RingHoldsRest, Ahead
<1>9. CASE Fails
  <2>1. Held' = Held
    BY <1>0, <1>9, <1>f, <1>g DEF Fails
  <2> QED  BY <1>9, <1>h, <2>1 DEF Fails, RingHoldsRest, Ahead
<1> QED  BY <1>1, <1>2, <1>3, <1>4, <1>5, <1>6, <1>7, <1>8, <1>9 DEF OneStep

(* One thread's reserved slots, counted.                                   *)
LEMMA CountRow ==
  ASSUME NEW t, NEW n \in Nat
  PROVE  IsFiniteSet({t} \X (1..n)) /\ Cardinality({t} \X (1..n)) = n
<1>1. IsFiniteSet({t}) /\ Cardinality({t}) = 1
  BY FS_Singleton
<1>2. IsFiniteSet(1..n) /\ Cardinality(1..n) = n
  BY FS_Interval
<1>3. /\ IsFiniteSet({t} \X (1..n))
      /\ Cardinality({t} \X (1..n)) = Cardinality({t}) * Cardinality(1..n)
  BY <1>1, <1>2, FS_Product
<1> QED  BY <1>1, <1>2, <1>3

(* A return that publishes moves the back by no more than what lies        *)
(* between the back and the reservations.                                  *)
LEMMA PublishFits ==
  ASSUME TypeOK, CallShape, PendingBehindBack, NEW t \in Threads, pc[t] = "write"
  PROVE  /\ {t} \X (1..want[t]) \subseteq Pending
         /\ IsFiniteSet({t} \X (1..want[t])) /\ Cardinality({t} \X (1..want[t])) = want[t]
         /\ want[t] <= Cardinality(Pending)
         /\ Ahead(front, back) + want[t] <= PoolSize
<1> DEFINE Row == {t} \X (1..want[t])
<1>1. RingFacts /\ want[t] \in 1..PoolSize
  BY RingTypes, Shape DEF ThreadFacts, RingFacts
<1>2. Row \subseteq Pending
  BY <1>1 DEF Pending, RingFacts
<1>3. IsFiniteSet(Row) /\ Cardinality(Row) = want[t]
  <2>1. want[t] \in Nat
    BY <1>1 DEF RingFacts
  <2> QED  BY <2>1, CountRow, Zenon
<1> HIDE DEF Row
<1>4. /\ IsFiniteSet(Pending) /\ Cardinality(Pending) \in Nat
      /\ Ahead(front, back) + Cardinality(Pending) = Ahead(front, backRes)
  BY FS_CardinalityType DEF PendingBehindBack
<1>5. Cardinality(Row) <= Cardinality(Pending)
  BY <1>2, <1>4, FS_Subset
<1>6. Ahead(front, back) + want[t] <= PoolSize
  BY <1>1, <1>3, <1>4, <1>5 DEF RingFacts
<1> QED  BY <1>2, <1>3, <1>5, <1>6 DEF Row

(* Each step keeps the sum of the reservations in progress between the     *)
(* back and the reservations, in whatever order they publish.              *)
LEMMA PendingStep ==
  ASSUME TypeOK, CallShape, OneOwner, CursorOrder, RingHoldsRest, PendingBehindBack, OneStep
  PROVE  PendingBehindBack'
<1>0. /\ Consumer \in Threads /\ Returners \subseteq Threads
      /\ \A t \in Threads : ThreadFacts(t)
      /\ DOMAIN pc = Threads /\ DOMAIN want = Threads
      /\ RingFacts
  BY Shape, RingTypes DEF Threads, TypeOK
<1>p. /\ IsFiniteSet(Pending) /\ Cardinality(Pending) \in Nat
      /\ Ahead(front, back) + Cardinality(Pending) = Ahead(front, backRes)
  BY FS_CardinalityType DEF PendingBehindBack
<1>f. ASSUME \A u \in Threads : pc'[u] = "write" <=> pc[u] = "write",
             \A u \in Threads : pc[u] = "write" => want'[u] = want[u]
      PROVE  Pending' = Pending
  BY <1>f DEF Pending
<1>r. \A u \in Threads : pc[u] # "idle" => want[u] \in 1..PoolSize
  BY <1>0 DEF ThreadFacts, RingFacts
<1>1. ASSUME NEW count \in 1..PoolSize, Begins(count)
      PROVE  PendingBehindBack'
  <2>1. Pending' = Pending
    BY <1>0, <1>1, <1>f DEF Begins, BeginTake, Goto
  <2> QED  BY <1>1, <1>p, <2>1 DEF Begins, BeginTake, PendingBehindBack, Ahead
<1>2. ASSUME NEW slot \in Slots, Takes(slot)
      PROVE  PendingBehindBack'
  <2>1. Pending' = Pending
    BY <1>0, <1>2, <1>f DEF Takes
  <2> QED  BY <1>2, <1>p, <2>1 DEF Takes, PendingBehindBack, Ahead
<1>3. CASE Finishes
  <2>1. Pending' = Pending
    BY <1>0, <1>3, <1>f DEF Finishes, FinishTake, Goto
  <2>2. /\ want[Consumer] \in 0..PoolSize
        /\ want[Consumer] <= Ahead(front, back) /\ want[Consumer] <= Ahead(front, backRes)
    BY <1>0, <1>3 DEF Finishes, CursorOrder, ThreadFacts, RingFacts
  <2>3. /\ Ahead(Advance(front, want[Consumer]), back) = Ahead(front, back) - want[Consumer]
        /\ Ahead(Advance(front, want[Consumer]), backRes) = Ahead(front, backRes) - want[Consumer]
    BY <1>0, <2>2, AheadAdvanced DEF RingFacts
  <2>4. /\ Ahead(front, back)' = Ahead(front, back) - want[Consumer]
        /\ Ahead(front, backRes)' = Ahead(front, backRes) - want[Consumer]
    BY <1>3, <2>3 DEF Finishes, FinishTake, Ahead
  <2> QED  BY <1>0, <1>p, <2>1, <2>2, <2>4 DEF PendingBehindBack, RingFacts
<1>4. ASSUME NEW t \in Returners, NEW batch \in Batches(t), Enters(t, batch)
      PROVE  PendingBehindBack'
  <2>1. Pending' = Pending
    BY <1>0, <1>4, <1>f DEF Enters
  <2> QED  BY <1>4, <1>p, <2>1 DEF Enters, PendingBehindBack, Ahead
<1>5. ASSUME NEW t \in Returners, Checks(t) \/ ChecksAgain(t)
      PROVE  PendingBehindBack'
  <2>1. Pending' = Pending
    BY <1>0, <1>5, <1>f DEF Checks, ChecksAgain
  <2> QED  BY <1>5, <1>p, <2>1 DEF Checks, ChecksAgain, PendingBehindBack, Ahead
<1>6. ASSUME NEW t \in Returners, Reserves(t)
      PROVE  PendingBehindBack'
  <2>0. t \in Threads /\ pc[t] = "reserve" /\ want[t] \in 1..PoolSize
    BY <1>0, <1>6, <1>r DEF Reserves
  <2>1. /\ pc' = [pc EXCEPT ![t] = "write"] /\ want' = want
        /\ UNCHANGED <<front, back>>
        /\ backRes' = Advance(backRes, want[t])
    BY <1>6 DEF Reserves
  <2> DEFINE Row == {t} \X (1..want[t])
  <2>2. Pending' = Pending \cup Row /\ Pending \cap Row = {}
    BY <1>0, <2>0, <2>1 DEF Pending, RingFacts
  <2>3. IsFiniteSet(Row) /\ Cardinality(Row) = want[t]
    <3>1. want[t] \in Nat
      BY <1>0, <2>0 DEF RingFacts
    <3> QED  BY <3>1, CountRow, Zenon
  <2> HIDE DEF Row
  <2>4. IsFiniteSet(Pending') /\ Cardinality(Pending') = Cardinality(Pending) + want[t]
    <3>1. /\ IsFiniteSet(Pending \cup Row)
          /\ Cardinality(Pending \cup Row) = Cardinality(Pending) + Cardinality(Row) - Cardinality(Pending \cap Row)
      BY <1>p, <2>3, FS_Union
    <3>2. Cardinality(Pending \cap Row) = 0
      BY <2>2, FS_EmptySet
    <3> QED  BY <1>0, <1>p, <2>0, <2>2, <2>3, <3>1, <3>2 DEF RingFacts
  <2>5. Ahead(front, backRes) + want[t] <= PoolSize
    BY <2>0, RingFits
  <2>6. Ahead(front, Advance(backRes, want[t])) = Ahead(front, backRes) + want[t]
    BY <1>0, <2>0, <2>5, AheadAdvanced DEF RingFacts
  <2>7. Ahead(front, backRes)' = Ahead(front, backRes) + want[t] /\ Ahead(front, back)' = Ahead(front, back)
    BY <2>1, <2>6 DEF Ahead
  <2> QED  BY <1>0, <1>p, <2>0, <2>4, <2>7 DEF PendingBehindBack, RingFacts
<1>7. ASSUME NEW t \in Returners, NEW slot \in Slots, Writes(t, slot)
      PROVE  PendingBehindBack'
  <2>1. Pending' = Pending
    BY <1>0, <1>7, <1>f DEF Writes
  <2> QED  BY <1>7, <1>p, <2>1 DEF Writes, PendingBehindBack, Ahead
<1>8. ASSUME NEW t \in Returners, Publishes(t)
      PROVE  PendingBehindBack'
  <2>0. t \in Threads /\ pc[t] = "write" /\ want[t] \in 1..PoolSize
    BY <1>0, <1>8, <1>r DEF Publishes
  <2>1. /\ pc' = [pc EXCEPT ![t] = "idle"] /\ want' = [want EXCEPT ![t] = 0]
        /\ UNCHANGED <<front, backRes>>
        /\ back' = Advance(back, want[t])
    BY <1>8 DEF Publishes
  <2> DEFINE Row == {t} \X (1..want[t])
  <2>2. Pending' = Pending \ Row
    BY <1>0, <2>0, <2>1 DEF Pending, RingFacts
  <2>3. /\ Row \subseteq Pending
        /\ IsFiniteSet(Row) /\ Cardinality(Row) = want[t] /\ want[t] <= Cardinality(Pending)
        /\ Ahead(front, back) + want[t] <= PoolSize
    BY <2>0, PublishFits
  <2> HIDE DEF Row
  <2>4. IsFiniteSet(Pending') /\ Cardinality(Pending') = Cardinality(Pending) - want[t]
    <3>1. /\ IsFiniteSet(Pending \ Row)
          /\ Cardinality(Pending \ Row) = Cardinality(Pending) - Cardinality(Pending \cap Row)
      BY <1>p, FS_Difference
    <3>2. Pending \cap Row = Row
      BY <2>3
    <3> QED  BY <2>2, <2>3, <3>1, <3>2
  <2>5. Ahead(front, Advance(back, want[t])) = Ahead(front, back) + want[t]
    BY <1>0, <2>0, <2>3, AheadAdvanced DEF RingFacts
  <2>6. Ahead(front, backRes)' = Ahead(front, backRes) /\ Ahead(front, back)' = Ahead(front, back) + want[t]
    BY <2>1, <2>5 DEF Ahead
  <2> QED  BY <1>0, <1>p, <2>0, <2>3, <2>4, <2>6 DEF PendingBehindBack, RingFacts
<1>9. ASSUME NEW t \in Returners, PublishesLater(t)
      PROVE  PendingBehindBack'
  <2>1. Pending' = Pending
    BY <1>0, <1>9, <1>f DEF PublishesLater
  <2> QED  BY <1>9, <1>p, <2>1 DEF PublishesLater, PendingBehindBack, Ahead
<1>10. CASE Fails
  <2>1. Pending' = Pending
    BY <1>0, <1>10, <1>f DEF Fails
  <2> QED  BY <1>10, <1>p, <2>1 DEF Fails, PendingBehindBack, Ahead
<1> QED  BY <1>1, <1>2, <1>3, <1>4, <1>5, <1>6, <1>7, <1>8, <1>9, <1>10 DEF OneStep

(* Seen from a front moved on by n, the slots left behind are the last.    *)
LEMMA AheadWrapped ==
  ASSUME NEW c \in Slots, NEW i \in Slots, NEW n \in 0..PoolSize, Ahead(c, i) < n
  PROVE  Ahead(Advance(c, n), i) = Ahead(c, i) - n + Gapped
<1>1. PoolSize \in Nat /\ Slots = 0..PoolSize /\ Gapped = PoolSize + 1
  BY RecvBufferPoolAssumption DEF Slots, Gapped
<1>2. Advance(c, n) = (IF c + n <= PoolSize THEN c + n ELSE c + n - Gapped) /\ Advance(c, n) \in Slots
  BY AdvanceIs
<1>3. Ahead(c, i) = (IF c <= i THEN i - c ELSE i - c + Gapped)
  BY AheadIs
<1>4. Ahead(Advance(c, n), i) = (IF Advance(c, n) <= i THEN i - Advance(c, n) ELSE i - Advance(c, n) + Gapped)
  BY AheadIs, <1>2
<1> QED  BY <1>1, <1>2, <1>3, <1>4

(* The unwritten slots are slots of the ring.                              *)
LEMMA UnwrittenSlots ==
  ASSUME TypeOK, CallShape, NEW t \in Threads
  PROVE  Unwritten(t) \subseteq Slots
<1>1. ThreadFacts(t) /\ res[t] \in Slots /\ PoolSize \in Nat
  BY Shape, RecvBufferPoolAssumption DEF TypeOK
<1>2. \A k \in pos[t]..want[t] - 1 : k \in 0..PoolSize
  BY <1>1 DEF ThreadFacts
<1> QED  BY <1>1, <1>2, AdvanceIs DEF Unwritten

(* Each step keeps the account of the slots: a new reservation covers      *)
(* empty slots only, a write fills a slot of its own reservation, and the  *)
(* front passes only emptied slots.                                        *)
LEMMA SlotsStep ==
  ASSUME TypeOK, CallShape, OneOwner, CursorOrder, RingHoldsRest, PendingBehindBack,
         SlotsAccounted, OneStep
  PROVE  SlotsAccounted'
<1>0. /\ Consumer \in Threads /\ Returners \subseteq Threads
      /\ \A t \in Threads : ThreadFacts(t)
      /\ DOMAIN pc = Threads /\ DOMAIN want = Threads /\ DOMAIN pos = Threads /\ DOMAIN res = Threads
      /\ DOMAIN slots = Slots
      /\ \A i \in Slots : slots[i] \in Buffers \cup {NULL}
      /\ \A t \in Threads : res[t] \in Slots
      /\ RingFacts
      /\ \A t \in Threads : Unwritten(t) \subseteq Slots
      /\ NULL \notin Buffers
  BY Shape, RingTypes, UnwrittenSlots, NullIsNoBuffer DEF Threads, TypeOK
<1>a. \A i \in Slots : Ahead(front, i) \in 0..PoolSize
  BY <1>0, AheadIs DEF RingFacts
<1>b. Taken \in 0..PoolSize /\ Taken <= Ahead(front, backRes)
  BY <1>0 DEF Taken, ThreadFacts, RingFacts, CursorOrder
<1>u. \A t \in Threads :
        (pos'[t] = pos[t] /\ want'[t] = want[t] /\ res'[t] = res[t]
           /\ (pc'[t] = "write" <=> pc[t] = "write"))
        => Unwritten(t)' = Unwritten(t)
  BY DEF Unwritten, Advance
<1>e. \A t \in Threads : pc[t] # "write" /\ pc'[t] # "write" => Unwritten(t)' = Unwritten(t)
  BY DEF Unwritten
<1>f. ASSUME slots' = slots,
             \A i \in Slots : InRing(i)' <=> InRing(i),
             \A t \in Threads : Unwritten(t)' = Unwritten(t)
      PROVE  SlotsAccounted'
  BY <1>f, <1>0 DEF SlotsAccounted
<1>r. ASSUME UNCHANGED <<front, backRes>>, Taken' = Taken
      PROVE  \A i \in Slots : InRing(i)' <=> InRing(i)
  BY <1>r DEF InRing, Ahead
<1>1. ASSUME NEW count \in 1..PoolSize, Begins(count)
      PROVE  SlotsAccounted'
  <2>1. Taken' = Taken
    BY <1>0, <1>1 DEF Taken, Begins, BeginTake, Goto
  <2>2. \A t \in Threads : Unwritten(t)' = Unwritten(t)
    <3> TAKE t \in Threads
    <3>1. CASE t = Consumer
      BY <1>0, <1>1, <1>e, <3>1 DEF Begins, BeginTake, Goto
    <3>2. CASE t # Consumer
      BY <1>0, <1>1, <1>u, <3>2 DEF Begins, BeginTake, Goto
    <3> QED  BY <3>1, <3>2
  <2>3. UNCHANGED <<slots, front, backRes>>
    BY <1>1 DEF Begins, BeginTake
  <2> QED  BY <1>f, <1>r, <2>1, <2>2, <2>3
<1>2. ASSUME NEW slot \in Slots, Takes(slot)
      PROVE  SlotsAccounted'
  <2>1. /\ Taken = pos[Consumer] /\ Taken' = pos[Consumer] + 1 /\ pos[Consumer] \in 0..PoolSize
    BY <1>0, <1>2 DEF Taken, Takes, ThreadFacts, RingFacts
  <2>2. Ahead(front, slot) = pos[Consumer] /\ \A i \in Slots : i # slot => Ahead(front, i) # pos[Consumer]
    BY <1>0, <1>2, <2>1, RingIndex DEF Takes, RingFacts
  <2>3. \A i \in Slots : InRing(i)' <=> InRing(i) /\ i # slot
    <3> TAKE i \in Slots
    <3>1. Ahead(front, i) \in 0..PoolSize /\ PoolSize \in Nat
      BY <1>a, <1>0 DEF RingFacts
    <3>2. InRing(i)' <=> pos[Consumer] + 1 <= Ahead(front, i) /\ Ahead(front, i) < Ahead(front, backRes)
      BY <1>2, <2>1 DEF InRing, Takes, Ahead
    <3>3. pos[Consumer] + 1 <= Ahead(front, i) <=> pos[Consumer] <= Ahead(front, i) /\ i # slot
      BY <2>1, <2>2, <3>1
    <3> QED  BY <2>1, <3>2, <3>3 DEF InRing
  <2>4. \A t \in Threads : Unwritten(t)' = Unwritten(t)
    <3> TAKE t \in Threads
    <3>1. CASE t = Consumer
      BY <1>0, <1>2, <1>e, <3>1 DEF Takes
    <3>2. CASE t # Consumer
      BY <1>0, <1>2, <1>u, <3>2 DEF Takes
    <3> QED  BY <3>1, <3>2
  <2>5. slots[slot] # NULL /\ \A i \in Slots : slots'[i] = IF i = slot THEN NULL ELSE slots[i]
    BY <1>0, <1>2 DEF Takes
  <2> QED  BY <1>0, <2>3, <2>4, <2>5 DEF SlotsAccounted
<1>3. CASE Finishes
  <2>1. /\ Taken = want[Consumer] /\ Taken' = 0 /\ want[Consumer] \in 0..PoolSize
        /\ want[Consumer] <= Ahead(front, backRes)
    BY <1>0, <1>3, <1>b DEF Taken, Finishes, FinishTake, Goto, ThreadFacts, RingFacts
  <2>2. front' = Advance(front, want[Consumer]) /\ UNCHANGED <<slots, backRes>>
    BY <1>3 DEF Finishes, FinishTake
  <2>3. \A i \in Slots : InRing(i)' <=> InRing(i)
    <3> DEFINE n == want[Consumer]
               R == Ahead(front, backRes)
    <3>1. n \in 0..PoolSize /\ R \in 0..PoolSize /\ n <= R /\ PoolSize \in Nat /\ Gapped = PoolSize + 1
      BY <1>0, <2>1 DEF RingFacts, Gapped
    <3>2. Ahead(front', backRes') = R - n
      BY <1>0, <2>2, <3>1, AheadAdvanced DEF RingFacts
    <3> TAKE i \in Slots
    <3>3. InRing(i)' <=> 0 <= Ahead(front', i) /\ Ahead(front', i) < R - n
      BY <2>1, <3>2 DEF InRing, Ahead
    <3>4. InRing(i) <=> n <= Ahead(front, i) /\ Ahead(front, i) < R
      BY <2>1 DEF InRing
    <3>5. Ahead(front, i) \in 0..PoolSize
      BY <1>a
    <3>6. Ahead(front', i) = IF n <= Ahead(front, i) THEN Ahead(front, i) - n ELSE Ahead(front, i) - n + Gapped
      BY <1>0, <2>2, <3>1, <3>5, AheadAdvanced, AheadWrapped DEF RingFacts
    <3> HIDE DEF n, R
    <3> QED  BY <3>1, <3>3, <3>4, <3>5, <3>6
  <2>4. \A t \in Threads : Unwritten(t)' = Unwritten(t)
    <3> TAKE t \in Threads
    <3>1. CASE t = Consumer
      BY <1>0, <1>3, <1>e, <3>1 DEF Finishes, FinishTake, Goto
    <3>2. CASE t # Consumer
      BY <1>0, <1>3, <1>u, <3>2 DEF Finishes, FinishTake, Goto
    <3> QED  BY <3>1, <3>2
  <2> QED  BY <1>f, <2>2, <2>3, <2>4
<1>4. ASSUME NEW t \in Returners, NEW batch \in Batches(t), Enters(t, batch)
      PROVE  SlotsAccounted'
  <2>1. Taken' = Taken
    BY <1>0, <1>4 DEF Taken, Enters
  <2>2. \A u \in Threads : Unwritten(u)' = Unwritten(u)
    <3> TAKE u \in Threads
    <3>1. CASE u = t
      BY <1>0, <1>4, <1>e, <3>1 DEF Enters
    <3>2. CASE u # t
      BY <1>0, <1>4, <1>u, <3>2 DEF Enters
    <3> QED  BY <3>1, <3>2
  <2>3. UNCHANGED <<slots, front, backRes>>
    BY <1>4 DEF Enters
  <2> QED  BY <1>f, <1>r, <2>1, <2>2, <2>3
<1>5. ASSUME NEW t \in Returners, Checks(t) \/ ChecksAgain(t)
      PROVE  SlotsAccounted'
  <2>1. Taken' = Taken
    BY <1>0, <1>5 DEF Taken, Checks, ChecksAgain
  <2>2. \A u \in Threads : Unwritten(u)' = Unwritten(u)
    <3> TAKE u \in Threads
    <3>1. CASE u = t
      BY <1>0, <1>5, <1>e, <3>1 DEF Checks, ChecksAgain
    <3>2. CASE u # t
      BY <1>0, <1>5, <1>u, <3>2 DEF Checks, ChecksAgain
    <3> QED  BY <3>1, <3>2
  <2>3. UNCHANGED <<slots, front, backRes>>
    BY <1>5 DEF Checks, ChecksAgain
  <2> QED  BY <1>f, <1>r, <2>1, <2>2, <2>3
<1>6. ASSUME NEW t \in Returners, Reserves(t)
      PROVE  SlotsAccounted'
  <2> DEFINE R == Ahead(front, backRes)
  <2>0. /\ t \in Threads /\ pc[t] = "reserve" /\ pos[t] = 0 /\ res[t] = backRes
        /\ want[t] \in 1..PoolSize /\ R + want[t] <= PoolSize /\ R \in 0..PoolSize
        /\ PoolSize \in Nat
    BY <1>0, <1>6, RingFits DEF Reserves, ThreadFacts, RingFacts
  <2>1. /\ UNCHANGED <<slots, front>> /\ backRes' = Advance(backRes, want[t])
        /\ pc'[t] = "write" /\ pos'[t] = 0 /\ want'[t] = want[t] /\ res'[t] = backRes
    BY <1>0, <1>6, <2>0 DEF Reserves
  <2>2. Taken' = Taken
    BY <1>0, <1>6 DEF Taken, Reserves
  <2>3. Ahead(front, Advance(backRes, want[t])) = R + want[t]
    BY <1>0, <2>0, AheadAdvanced DEF RingFacts
  <2>4. \A i \in Slots : InRing(i)' <=> Taken <= Ahead(front, i) /\ Ahead(front, i) < R + want[t]
    BY <2>1, <2>2, <2>3 DEF InRing, Ahead
  <2>5. Unwritten(t)' = {Advance(backRes, k) : k \in 0..want[t] - 1}
    BY <2>1 DEF Unwritten, Advance
  <2>6. \A k \in 0..want[t] - 1 : Ahead(front, Advance(backRes, k)) = R + k /\ Advance(backRes, k) \in Slots
    <3> TAKE k \in 0..want[t] - 1
    <3>1. k \in 0..PoolSize /\ R + k <= PoolSize
      BY <2>0
    <3> QED  BY <1>0, <3>1, AheadAdvanced, AdvanceIs DEF RingFacts
  <2>7. Unwritten(t)' = {i \in Slots : R <= Ahead(front, i) /\ Ahead(front, i) < R + want[t]}
    <3>1. ASSUME NEW i \in Slots, R <= Ahead(front, i), Ahead(front, i) < R + want[t]
          PROVE  i \in Unwritten(t)'
      <4> DEFINE k == Ahead(front, i) - R
      <4>1. Ahead(front, i) \in 0..PoolSize /\ k \in 0..want[t] - 1
        BY <1>a, <2>0, <3>1
      <4>2. Ahead(front, Advance(backRes, k)) = R + k /\ Advance(backRes, k) \in Slots
        BY <2>6, <4>1
      <4>3. Ahead(front, Advance(backRes, k)) = Ahead(front, i)
        BY <2>0, <4>1, <4>2
      <4>4. Advance(backRes, k) = i
        BY <1>0, <4>2, <4>3, RingIndex DEF RingFacts
      <4> QED  BY <2>5, <4>1, <4>4
    <3>2. ASSUME NEW k \in 0..want[t] - 1
          PROVE  /\ Advance(backRes, k) \in Slots
                 /\ R <= Ahead(front, Advance(backRes, k)) /\ Ahead(front, Advance(backRes, k)) < R + want[t]
      BY <2>0, <2>6
    <3> QED  BY <2>5, <3>1, <3>2
  <2>8. \A u \in Threads : u # t => Unwritten(u)' = Unwritten(u)
    BY <1>0, <1>6, <1>u DEF Reserves
  <2>9. \A i \in Slots : InRing(i)' <=> InRing(i) \/ i \in Unwritten(t)'
    <3> TAKE i \in Slots
    <3>1. Ahead(front, i) \in 0..PoolSize /\ Taken \in 0..PoolSize /\ Taken <= R
      BY <1>a, <1>b
    <3> QED  BY <2>0, <2>4, <2>7, <3>1 DEF InRing
  <2>10. \A i \in Unwritten(t)' : i \in Slots /\ ~InRing(i)
    BY <1>a, <2>0, <2>7 DEF InRing
  <2>11. Unwritten(t) = {}
    BY <2>0 DEF Unwritten
  <2> HIDE DEF R
  <2> QED  BY <1>0, <2>0, <2>1, <2>8, <2>9, <2>10, <2>11 DEF SlotsAccounted
<1>7. ASSUME NEW t \in Returners, NEW slot \in Slots, Writes(t, slot)
      PROVE  SlotsAccounted'
  <2>0. /\ t \in Threads /\ pc[t] = "write" /\ pos[t] \in Nat /\ want[t] \in Nat
        /\ pos[t] < want[t] /\ want[t] <= PoolSize /\ PoolSize \in Nat
        /\ slot = Advance(res[t], pos[t])
    BY <1>0, <1>7 DEF Writes, ThreadFacts, RingFacts
  <2>1. Taken' = Taken
    BY <1>0, <1>7 DEF Taken, Writes
  <2>2. UNCHANGED <<front, backRes>>
    BY <1>7 DEF Writes
  <2>3. \A i \in Slots : InRing(i)' <=> InRing(i)
    BY <1>r, <2>1, <2>2
  <2>4. \A u \in Threads : u # t => Unwritten(u)' = Unwritten(u)
    BY <1>0, <1>7, <1>u DEF Writes
  <2>5. Unwritten(t)' = Unwritten(t) \ {slot} /\ slot \in Unwritten(t)
    <3>1. pc'[t] = "write" /\ pos'[t] = pos[t] + 1 /\ want'[t] = want[t] /\ res'[t] = res[t]
      BY <1>0, <1>7, <2>0 DEF Writes
    <3>2. /\ Unwritten(t) = {Advance(res[t], k) : k \in pos[t]..want[t] - 1}
          /\ Unwritten(t)' = {Advance(res[t], k) : k \in pos[t] + 1..want[t] - 1}
      BY <2>0, <3>1 DEF Unwritten, Advance
    <3>3. \A k : k \in pos[t]..want[t] - 1 <=> k = pos[t] \/ k \in pos[t] + 1..want[t] - 1
      BY <2>0
    <3>4. \A k \in pos[t] + 1..want[t] - 1 : Advance(res[t], k) # slot
      <4> TAKE k \in pos[t] + 1..want[t] - 1
      <4>1. k \in 0..PoolSize /\ pos[t] \in 0..PoolSize /\ k # pos[t]
        BY <2>0
      <4> QED  BY <1>0, <2>0, <4>1, RingIndex
    <3> QED  BY <2>0, <3>2, <3>3, <3>4
  <2>6. \A i \in Slots : i # slot => slots'[i] = slots[i]
    BY <1>0, <1>7 DEF Writes
  <2>7. slots'[slot] # NULL
    <3>1. pos[t] + 1 \in 1..Len(bufs[t])
      BY <1>0, <2>0 DEF ThreadFacts
    <3>2. bufs[t][pos[t] + 1] \in Buffers
      BY <1>0, <2>0, <3>1 DEF ThreadFacts
    <3> QED  BY <1>0, <1>7, <3>2 DEF Writes
  <2> QED  BY <1>0, <2>0, <2>3, <2>4, <2>5, <2>6, <2>7 DEF SlotsAccounted
<1>8. ASSUME NEW t \in Returners, Publishes(t) \/ PublishesLater(t)
      PROVE  SlotsAccounted'
  <2>1. Taken' = Taken
    BY <1>0, <1>8 DEF Taken, Publishes, PublishesLater
  <2>2. \A u \in Threads : Unwritten(u)' = Unwritten(u)
    <3> TAKE u \in Threads
    <3>1. CASE u = t
      <4>1. pos[t] = want[t] /\ want[t] \in Nat
        BY <1>0, <1>8, <3>1 DEF Publishes, PublishesLater, ThreadFacts
      <4>2. pc'[t] = "write" => pos'[t] = pos[t] /\ want'[t] = want[t]
        BY <1>0, <1>8, <3>1 DEF Publishes, PublishesLater
      <4>3. pos[t]..want[t] - 1 = {}
        BY <4>1
      <4> QED  BY <3>1, <4>1, <4>2, <4>3 DEF Unwritten
    <3>2. CASE u # t
      BY <1>0, <1>8, <1>u, <3>2 DEF Publishes, PublishesLater
    <3> QED  BY <3>1, <3>2
  <2>3. UNCHANGED <<slots, front, backRes>>
    BY <1>8 DEF Publishes, PublishesLater
  <2> QED  BY <1>f, <1>r, <2>1, <2>2, <2>3
<1>9. CASE Fails
  <2>1. Taken' = Taken
    BY <1>9 DEF Taken, Fails
  <2>2. \A u \in Threads : Unwritten(u)' = Unwritten(u)
    BY <1>9, <1>u DEF Fails
  <2>3. UNCHANGED <<slots, front, backRes>>
    BY <1>9 DEF Fails
  <2> QED  BY <1>f, <1>r, <2>1, <2>2, <2>3
<1> QED  BY <1>1, <1>2, <1>3, <1>4, <1>5, <1>6, <1>7, <1>8, <1>9 DEF OneStep

(* Each step keeps the order of the cursors.                               *)
LEMMA CursorStep ==
  ASSUME TypeOK, CallShape, CursorOrder, PendingBehindBack, PendingBehindBack', TypeOK', OneStep
  PROVE  CursorOrder'
<1>0. /\ Consumer \in Threads /\ Returners \subseteq Threads
      /\ DOMAIN pc = Threads /\ DOMAIN want = Threads
      /\ \A t \in Threads : ThreadFacts(t)
      /\ RingFacts
  BY Shape, RingTypes DEF Threads, TypeOK
<1>1. (Ahead(front, back) <= Ahead(front, backRes))'
  <2>1. (RingFacts)'
    BY RingTypes, PTL
  <2>2. Cardinality(Pending)' \in Nat
    BY FS_CardinalityType DEF PendingBehindBack
  <2> QED  BY <2>1, <2>2 DEF PendingBehindBack, RingFacts
<1>2. ASSUME pc'[Consumer] = "take"
      PROVE  (want[Consumer] <= Ahead(front, back))'
  <2>1. ASSUME NEW count \in 1..PoolSize, Begins(count)
        PROVE  (want[Consumer] <= Ahead(front, back))'
    BY <1>0, <2>1 DEF Begins, BeginTake, Ahead
  <2>2. ASSUME ~ \E count \in 1..PoolSize : Begins(count)
        PROVE  pc[Consumer] = "take" /\ want'[Consumer] = want[Consumer] /\ front' = front
    BY <1>0, <1>2, <2>2 DEF OneStep, Takes, Finishes, FinishTake, Goto, Enters, Checks, Reserves,
         ChecksAgain, Writes, Publishes, PublishesLater, Fails
  <2>3. ASSUME NEW t \in Returners, Publishes(t), pc[Consumer] = "take",
               want'[Consumer] = want[Consumer], front' = front
        PROVE  (want[Consumer] <= Ahead(front, back))'
    <3>1. want[t] \in 0..PoolSize /\ Ahead(front, back) + want[t] <= PoolSize
      <4>1. t \in Threads /\ pc[t] = "write"
        BY <1>0, <2>3 DEF Publishes
      <4>2. Ahead(front, back) + want[t] <= PoolSize
        BY <4>1, PublishFits
      <4> QED  BY <1>0, <4>1, <4>2 DEF ThreadFacts, RingFacts
    <3>2. Ahead(front, Advance(back, want[t])) = Ahead(front, back) + want[t]
      BY <1>0, <3>1, AheadAdvanced DEF RingFacts
    <3>3. Ahead(front, back)' = Ahead(front, back) + want[t]
      BY <2>3, <3>2 DEF Publishes, Ahead
    <3>4. want[Consumer] <= Ahead(front, back) /\ want[Consumer] \in Nat /\ Ahead(front, back) \in Nat
      BY <1>0, <2>3 DEF CursorOrder, ThreadFacts, RingFacts
    <3> QED  BY <2>3, <3>1, <3>3, <3>4
  <2>4. ASSUME ~ \E t \in Returners : Publishes(t), pc[Consumer] = "take",
               want'[Consumer] = want[Consumer], front' = front
        PROVE  (want[Consumer] <= Ahead(front, back))'
    <3>1. back' = back
      BY <1>0, <2>4 DEF OneStep, Begins, BeginTake, Takes, Finishes, FinishTake, Enters, Checks, Reserves,
         ChecksAgain, Writes, PublishesLater, Fails
    <3> QED  BY <2>4, <3>1 DEF CursorOrder, Ahead
  <2> QED  BY <2>1, <2>2, <2>3, <2>4
<1> QED  BY <1>1, <1>2 DEF CursorOrder

(* A return writes only slots it has reserved, and those are empty.        *)
LEMMA OverwriteStep ==
  ASSUME TypeOK, CallShape, SlotsAccounted, NoOverwrite, OneStep
  PROVE  NoOverwrite'
<1>1. ASSUME NEW t \in Returners, pc[t] = "write", pos[t] < want[t],
             slots[Advance(res[t], pos[t])] # NULL
      PROVE  FALSE
  <2>1. t \in Threads /\ pos[t] \in Nat /\ want[t] \in Nat
    BY Shape DEF Threads, ThreadFacts
  <2>2. pos[t] \in pos[t]..want[t] - 1
    BY <1>1, <2>1
  <2>3. Advance(res[t], pos[t]) \in Unwritten(t)
    BY <1>1, <2>2 DEF Unwritten
  <2> QED  BY <1>1, <2>1, <2>3 DEF SlotsAccounted
<1>2. CASE Fails
  BY <1>1, <1>2 DEF Fails, NoOverwrite
<1>3. CASE ~Fails
  <2>1. thrown' = thrown
    BY <1>3 DEF OneStep, Begins, BeginTake, Takes, Finishes, FinishTake, Enters, Checks, Reserves,
         ChecksAgain, Writes, Publishes, PublishesLater
  <2> QED  BY <2>1 DEF NoOverwrite
<1> QED  BY <1>2, <1>3

(* The full ring of the start.                                             *)
LEMMA InitIInv == Init => IInv
<1> SUFFICES ASSUME Init PROVE IInv
  OBVIOUS
<1>0. /\ PoolSize \in Nat /\ PoolSize > 0 /\ NULL \notin Buffers /\ NULL \notin Slots
      /\ Buffers = 0..PoolSize - 1 /\ Slots = 0..PoolSize
  BY RecvBufferPoolAssumption, NullIsNoBuffer DEF Buffers, Slots
<1>1. TypeOK
  BY <1>0 DEF Init, TypeOK
<1>2. CallShape
  BY DEF Init, CallShape, ShapeOf
<1>3. /\ \A t \in Threads : InCall(t) = {}
      /\ out = {}
      /\ \A i \in Slots : slots[i] = IF i = PoolSize THEN NULL ELSE i
  BY <1>1, <1>2, InCallBuffers DEF Init
<1>4. OneOwner
  <2>1. \A b \in Buffers : b \in Slots /\ slots[b] = b
    BY <1>0, <1>3
  <2>2. Separate
    BY <1>0, <1>3, <2>1 DEF Separate
  <2> QED  BY <1>1, <1>2, <2>2, OneOwnerSeparates
<1>5. Ahead(front, back) = PoolSize /\ Ahead(front, backRes) = PoolSize
  BY <1>0, AheadIs DEF Init
<1>6. RingHoldsRest
  <2>1. Held = {}
    BY <1>3 DEF Init, Held
  <2> QED  BY <1>0, <1>5, <2>1, FS_EmptySet DEF RingHoldsRest
<1>7. PendingBehindBack
  <2>1. Pending = {}
    BY DEF Init, Pending
  <2> QED  BY <1>0, <1>5, <2>1, FS_EmptySet DEF PendingBehindBack
<1>8. SlotsAccounted
  <2>1. Taken = 0
    BY DEF Init, Taken, Threads
  <2>2. \A i \in Slots : InRing(i) <=> i # PoolSize
    <3> TAKE i \in Slots
    <3>1. Ahead(front, i) = i
      BY <1>0, AheadIs DEF Init
    <3> QED  BY <1>0, <1>5, <2>1, <3>1 DEF InRing
  <2>3. \A t \in Threads : Unwritten(t) = {}
    BY DEF Init, Unwritten
  <2> QED  BY <1>0, <1>3, <2>2, <2>3 DEF SlotsAccounted
<1>9. CursorOrder
  BY <1>0, <1>5 DEF CursorOrder, Init, Threads
<1>10. NoOverwrite
  BY DEF Init, NoOverwrite
<1> QED  BY <1>1, <1>2, <1>4, <1>6, <1>7, <1>8, <1>9, <1>10 DEF IInv

(* The invariant is inductive.                                             *)
LEMMA NextIInv == IInv /\ [Next]_vars => IInv'
<1> SUFFICES ASSUME IInv, [Next]_vars PROVE IInv'
  OBVIOUS
<1>1. CASE Next
  <2>1. /\ TypeOK /\ CallShape /\ OneOwner /\ RingHoldsRest /\ PendingBehindBack
        /\ SlotsAccounted /\ CursorOrder /\ NoOverwrite
    BY DEF IInv
  <2>2. OneStep
    BY <1>1, <2>1, NextIsOneStep
  <2>3. TypeOK' /\ CallShape'
    BY <2>1, <2>2, TypeStep
  <2>4. OneOwner'
    BY <2>1, <2>2, OwnerStep
  <2>5. RingHoldsRest'
    BY <2>1, <2>2, HeldStep
  <2>6. PendingBehindBack'
    BY <2>1, <2>2, PendingStep
  <2>7. SlotsAccounted'
    BY <2>1, <2>2, SlotsStep
  <2>8. CursorOrder'
    BY <2>1, <2>2, <2>3, <2>6, CursorStep
  <2>9. NoOverwrite'
    BY <2>1, <2>2, OverwriteStep
  <2> QED  BY <2>3, <2>4, <2>5, <2>6, <2>7, <2>8, <2>9 DEF IInv
<1>2. CASE UNCHANGED vars
  <2>1. UNCHANGED <<slots, front, back, backRes, out, pc, bufs, want, pos, res, thrown>>
    BY <1>2 DEF vars
  <2>2. TypeOK' /\ CallShape' /\ CursorOrder' /\ NoOverwrite'
    BY <2>1 DEF IInv, TypeOK, CallShape, ShapeOf, CursorOrder, NoOverwrite, Ahead
  <2>3. \A t \in Threads : InCall(t)' = InCall(t) /\ Unwritten(t)' = Unwritten(t)
    BY <2>1 DEF InCall, Unwritten, Advance
  <2>4. OneOwner'
    <3>1. \A b : Places(b)' = Places(b)
      BY <2>1, <2>3 DEF Places
    <3> QED  BY <3>1 DEF IInv, OneOwner
  <2>5. RingHoldsRest'
    <3>1. Held' = Held
      BY <2>1, <2>3 DEF Held
    <3> QED  BY <2>1, <3>1 DEF IInv, RingHoldsRest, Ahead
  <2>6. PendingBehindBack'
    <3>1. Pending' = Pending
      BY <2>1 DEF Pending
    <3> QED  BY <2>1, <3>1 DEF IInv, PendingBehindBack, Ahead
  <2>7. SlotsAccounted'
    <3>1. \A i \in Slots : InRing(i)' <=> InRing(i)
      BY <2>1 DEF InRing, Taken, Ahead
    <3>2. \A t \in Threads : Unwritten(t) \subseteq Slots
      BY UnwrittenSlots DEF IInv
    <3> QED  BY <2>1, <2>3, <3>1, <3>2 DEF IInv, SlotsAccounted
  <2> QED  BY <2>2, <2>4, <2>5, <2>6, <2>7 DEF IInv
<1> QED  BY <1>1, <1>2

(* IInv holds of every state of the pool, for every size of the pool and   *)
(* every set of returning threads.                                         *)
THEOREM InvariantHolds == Spec => []IInv
<1> QED  BY InitIInv, NextIInv, PTL DEF Spec

(* With no call in progress nothing is reserved and nothing is unwritten.  *)
LEMMA QuiescentFollows == IInv => QuiescentConsistent
<1> SUFFICES ASSUME IInv, \A t \in Threads : pc[t] = "idle"
             PROVE  /\ back = backRes
                    /\ \A i \in Slots : (slots[i] # NULL) <=> (Ahead(front, i) < Ahead(front, back))
  BY DEF QuiescentConsistent
<1>1. RingFacts /\ Consumer \in Threads
  BY RingTypes DEF IInv, Threads
<1>2. Pending = {}
  BY DEF Pending
<1>3. Ahead(front, back) = Ahead(front, backRes)
  BY <1>1, <1>2, FS_EmptySet DEF IInv, PendingBehindBack, RingFacts
<1>4. back = backRes
  BY <1>1, <1>3, RingIndex DEF RingFacts
<1>5. Taken = 0
  BY <1>1 DEF Taken
<1>6. \A t \in Threads : Unwritten(t) = {}
  BY DEF Unwritten
<1>7. ASSUME NEW i \in Slots
      PROVE  (slots[i] # NULL) <=> (Ahead(front, i) < Ahead(front, back))
  <2>1. Ahead(front, i) \in 0..PoolSize
    BY <1>1, AheadIs DEF RingFacts
  <2>2. InRing(i) <=> Ahead(front, i) < Ahead(front, backRes)
    BY <1>1, <1>5, <2>1 DEF InRing, RingFacts
  <2>3. slots[i] # NULL <=> InRing(i)
    BY <1>6 DEF IInv, SlotsAccounted
  <2> QED  BY <1>3, <2>2, <2>3
<1> QED  BY <1>4, <1>7

(* TypeOK for every state.                                                 *)
THEOREM TypesHold == Spec => []TypeOK
<1>1. IInv => TypeOK
  BY DEF IInv
<1> QED  BY <1>1, InvariantHolds, PTL

(* GetBuffers, GetBuffer, ReturnBuffer and ReturnBuffers never lose or     *)
(* duplicate a buffer, however they interleave.                            *)
THEOREM OneOwnerHolds == Spec => []OneOwner
<1>1. IInv => OneOwner
  BY DEF IInv
<1> QED  BY <1>1, InvariantHolds, PTL

(* "Overwriting existing buffer" is never thrown: two returns never        *)
(* reserve the same slot, even if a counter came around to the value a     *)
(* thread had read.                                                        *)
THEOREM NoOverwriteHolds == Spec => []NoOverwrite
<1>1. IInv => NoOverwrite
  BY DEF IInv
<1> QED  BY <1>1, InvariantHolds, PTL

(* The consumer never takes more than was reserved and published.          *)
THEOREM CursorOrderHolds == Spec => []CursorOrder
<1>1. IInv => CursorOrder
  BY DEF IInv
<1> QED  BY <1>1, InvariantHolds, PTL

(* Whenever no call is in progress the back has caught up and exactly the  *)
(* slots between the cursors are occupied.                                 *)
THEOREM QuiescentHolds == Spec => []QuiescentConsistent
<1> QED  BY QuiescentFollows, InvariantHolds, PTL

(* With the consumer as the only thread that returns buffers.              *)
LoopbackInv == IInv /\ Sequential /\ NeverThrows

(* The receive thread is the only one that returns buffers: the loopback   *)
(* system.                                                                 *)
OneReturner == Returners = {Consumer}

(* Then back and reservations differ only inside a return, and every slot  *)
(* the consumer can be told of holds a buffer.                             *)
LEMMA SeqFacts ==
  ASSUME OneReturner, IInv, Sequential
  PROVE  /\ Threads = {Consumer} /\ ThreadFacts(Consumer) /\ RingFacts
         /\ pc[Consumer] # "write" => back = backRes
         /\ Ahead(front, back) <= Ahead(front, backRes)
         /\ \A i \in Slots : Taken <= Ahead(front, i) /\ Ahead(front, i) < Ahead(front, back) => slots[i] \in Buffers
         /\ \A i \in Slots : Ahead(front, i) < Taken => slots[i] = NULL
<1>1. Threads = {Consumer} /\ ThreadFacts(Consumer) /\ RingFacts
  BY RingTypes, Shape DEF Threads, OneReturner, IInv
<1>2. pc[Consumer] # "write" => back = backRes
  <2> SUFFICES ASSUME pc[Consumer] # "write" PROVE back = backRes
    OBVIOUS
  <2>1. Pending = {}
    BY <1>1 DEF Pending
  <2>2. Ahead(front, back) = Ahead(front, backRes)
    BY <1>1, <2>1, FS_EmptySet DEF IInv, PendingBehindBack, RingFacts
  <2> QED  BY <1>1, <2>2, RingIndex DEF RingFacts
<1>3. Ahead(front, back) <= Ahead(front, backRes)
  BY DEF IInv, CursorOrder
<1>4. ASSUME NEW i \in Slots, Taken <= Ahead(front, i), Ahead(front, i) < Ahead(front, back)
      PROVE  slots[i] \in Buffers
  <2>0. Ahead(front, i) \in 0..PoolSize
    BY <1>1, AheadIs DEF RingFacts
  <2>1. InRing(i)
    BY <1>1, <1>3, <1>4, <2>0 DEF InRing, RingFacts
  <2>2. i \notin Unwritten(Consumer)
    <3> SUFFICES ASSUME pc[Consumer] = "write", NEW k \in pos[Consumer]..want[Consumer] - 1,
                        i = Advance(res[Consumer], k)
                 PROVE  FALSE
      BY DEF Unwritten
    <3>1. res[Consumer] = back
      BY DEF Sequential
    <3>2. Ahead(front, back) + want[Consumer] <= PoolSize
      BY <1>1, PublishFits DEF IInv
    <3>3. k \in 0..PoolSize /\ Ahead(front, back) + k <= PoolSize
      BY <1>1, <3>2 DEF ThreadFacts, RingFacts
    <3>4. Ahead(front, Advance(back, k)) = Ahead(front, back) + k
      BY <1>1, <3>3, AheadAdvanced DEF RingFacts
    <3> QED  BY <1>1, <1>4, <3>1, <3>3, <3>4 DEF RingFacts
  <2>3. slots[i] # NULL
    BY <1>1, <2>1, <2>2 DEF IInv, SlotsAccounted
  <2> QED  BY <2>3 DEF IInv, TypeOK
<1>5. ASSUME NEW i \in Slots, Ahead(front, i) < Taken
      PROVE  slots[i] = NULL
  <2>1. Ahead(front, i) \in 0..PoolSize /\ Taken \in Nat
    BY <1>1, AheadIs DEF RingFacts, Taken, ThreadFacts
  <2>2. ~InRing(i)
    BY <1>5, <2>1 DEF InRing
  <2> QED  BY <2>2 DEF IInv, SlotsAccounted
<1> QED  BY <1>1, <1>2, <1>3, <1>4, <1>5

(* None of the three exceptions can be thrown.                             *)
LEMMA NoFailure ==
  ASSUME OneReturner, IInv, Sequential
  PROVE  ~Fails
<1>0. /\ Threads = {Consumer} /\ ThreadFacts(Consumer) /\ RingFacts
      /\ PoolSize \in Nat
  BY SeqFacts, RecvBufferPoolAssumption
<1>1. ASSUME pc[Consumer] = "take", pos[Consumer] < want[Consumer],
             slots[Advance(front, pos[Consumer])] = NULL
      PROVE  FALSE
  <2>1. pos[Consumer] \in 0..PoolSize /\ want[Consumer] \in Nat /\ want[Consumer] <= Ahead(front, back)
    BY <1>0, <1>1 DEF ThreadFacts, IInv, CursorOrder
  <2>2. Advance(front, pos[Consumer]) \in Slots /\ Ahead(front, Advance(front, pos[Consumer])) = pos[Consumer]
    BY <1>0, <2>1, AdvanceIs, RingIndex DEF RingFacts
  <2>3. slots[Advance(front, pos[Consumer])] \in Buffers
    BY <1>0, <1>1, <2>1, <2>2, SeqFacts DEF Taken, RingFacts
  <2> QED  BY <1>1, <2>3, NullIsNoBuffer
<1>2. ASSUME pc[Consumer] = "check", Advance(res[Consumer], want[Consumer]) = front
      PROVE  FALSE
  <2>1. want[Consumer] \in 1..PoolSize /\ Ahead(front, backRes) + want[Consumer] <= PoolSize
    BY <1>0, <1>2, RingFits DEF IInv
  <2>2. Ahead(front, Advance(backRes, want[Consumer])) = Ahead(front, backRes) + want[Consumer]
    BY <1>0, <2>1, AheadAdvanced DEF RingFacts
  <2>3. res[Consumer] = backRes
    BY <1>2 DEF Sequential
  <2>4. Ahead(front, front) = 0
    BY <1>0, RingIndex DEF RingFacts
  <2> QED  BY <1>0, <1>2, <2>1, <2>2, <2>3, <2>4 DEF RingFacts
<1>3. ASSUME pc[Consumer] = "write", pos[Consumer] < want[Consumer],
             slots[Advance(res[Consumer], pos[Consumer])] # NULL
      PROVE  FALSE
  <2>1. pos[Consumer] \in pos[Consumer]..want[Consumer] - 1
    BY <1>0, <1>3 DEF ThreadFacts
  <2>2. Advance(res[Consumer], pos[Consumer]) \in Unwritten(Consumer)
    BY <1>3, <2>1 DEF Unwritten
  <2> QED  BY <1>0, <1>3, <2>2 DEF IInv, SlotsAccounted
<1> QED  BY <1>1, <1>2, <1>3 DEF Fails, OneReturner

(* The return in progress keeps its reservation at the back, with what it  *)
(* wrote in order.                                                         *)
LEMMA SeqStep ==
  ASSUME OneReturner, IInv, Sequential, OneStep
  PROVE  Sequential'
<1>0. /\ Threads = {Consumer} /\ ThreadFacts(Consumer) /\ RingFacts
      /\ PoolSize \in Nat
      /\ DOMAIN pc = Threads /\ DOMAIN res = Threads /\ DOMAIN pos = Threads /\ DOMAIN bufs = Threads
      /\ DOMAIN slots = Slots
      /\ Returners = {Consumer}
  BY SeqFacts, RecvBufferPoolAssumption DEF IInv, TypeOK, OneReturner
<1>1. CASE \/ \E count \in 1..PoolSize : Begins(count)
           \/ \E slot \in Slots : Takes(slot)
           \/ Finishes
  <2>1. pc'[Consumer] \in {"take", "idle"}
    BY <1>0, <1>1 DEF Begins, BeginTake, Takes, Finishes, FinishTake, Goto
  <2> QED  BY <2>1 DEF Sequential
<1>2. CASE \E batch \in Batches(Consumer) : Enters(Consumer, batch)
  BY <1>0, <1>2 DEF Enters, Sequential
<1>3. CASE Checks(Consumer) \/ ChecksAgain(Consumer)
  BY <1>0, <1>3 DEF Checks, ChecksAgain, Sequential
<1>4. CASE Reserves(Consumer)
  <2>1. back = backRes /\ res[Consumer] = backRes /\ pos[Consumer] = 0
    BY <1>0, <1>4, SeqFacts DEF Reserves, ThreadFacts
  <2>2. pc'[Consumer] = "write" /\ res'[Consumer] = back' /\ pos'[Consumer] = 0
    BY <1>0, <1>4, <2>1 DEF Reserves
  <2> QED  BY <2>2 DEF Sequential
<1>5. ASSUME NEW slot \in Slots, Writes(Consumer, slot)
      PROVE  Sequential'
  <2>1. /\ pc[Consumer] = "write" /\ res[Consumer] = back
        /\ \A k \in 0..pos[Consumer] - 1 : slots[Advance(back, k)] = bufs[Consumer][k + 1]
    BY <1>5 DEF Writes, Sequential
  <2>2. /\ pc'[Consumer] = "write" /\ pos'[Consumer] = pos[Consumer] + 1
        /\ res' = res /\ back' = back /\ bufs' = bufs
        /\ slot = Advance(back, pos[Consumer]) /\ slots' = [slots EXCEPT ![slot] = bufs[Consumer][pos[Consumer] + 1]]
    BY <1>0, <1>5, <2>1 DEF Writes
  <2>3. pos[Consumer] \in 0..PoolSize
    BY <1>0 DEF ThreadFacts
  <2>4. ASSUME NEW k \in 0..pos[Consumer]
        PROVE  slots'[Advance(back, k)] = bufs[Consumer][k + 1]
    <3>1. k \in 0..PoolSize /\ Advance(back, k) \in Slots
      BY <1>0, <2>3, AdvanceIs DEF RingFacts
    <3>2. CASE k = pos[Consumer]
      BY <1>0, <2>2, <3>1, <3>2
    <3>3. CASE k # pos[Consumer]
      <4>1. Advance(back, k) # slot
        BY <1>0, <2>2, <2>3, <3>1, <3>3, RingIndex DEF RingFacts
      <4>2. k \in 0..pos[Consumer] - 1
        BY <2>3, <3>3
      <4> QED  BY <1>0, <2>1, <2>2, <3>1, <4>1, <4>2
    <3> QED  BY <3>2, <3>3
  <2>5. \A k \in 0..pos'[Consumer] - 1 : k \in 0..pos[Consumer]
    BY <2>2, <2>3
  <2>6. \A k : Advance(back, k)' = Advance(back, k)
    BY <2>2 DEF Advance
  <2> QED  BY <2>1, <2>2, <2>4, <2>5, <2>6 DEF Sequential
<1>6. CASE Publishes(Consumer) \/ PublishesLater(Consumer)
  <2>1. pc'[Consumer] = "idle"
    BY <1>0, <1>6 DEF Publishes, PublishesLater, Sequential
  <2> QED  BY <2>1 DEF Sequential
<1> QED  BY <1>0, <1>1, <1>2, <1>3, <1>4, <1>5, <1>6, NoFailure DEF OneStep

(* The invariant of the loopback system is inductive.                      *)
LEMMA LoopbackInductive ==
  ASSUME OneReturner
  PROVE  /\ Init => LoopbackInv
         /\ LoopbackInv /\ [Next]_vars => LoopbackInv'
<1>1. Init => LoopbackInv
  BY InitIInv DEF LoopbackInv, Init, Sequential, NeverThrows, Threads
<1>2. ASSUME LoopbackInv, Next PROVE LoopbackInv'
  <2>1. OneStep
    BY <1>2, NextIsOneStep DEF LoopbackInv, IInv
  <2>2. IInv'
    BY <1>2, NextIInv DEF LoopbackInv
  <2>3. Sequential'
    BY <1>2, <2>1, SeqStep DEF LoopbackInv
  <2>4. ~Fails
    BY <1>2, NoFailure DEF LoopbackInv
  <2>5. thrown' = thrown
    BY <2>1, <2>4 DEF OneStep, Begins, BeginTake, Takes, Finishes, FinishTake, Enters, Checks, Reserves,
         ChecksAgain, Writes, Publishes, PublishesLater
  <2> QED  BY <1>2, <2>2, <2>3, <2>5 DEF LoopbackInv, NeverThrows
<1>3. ASSUME LoopbackInv, UNCHANGED vars PROVE LoopbackInv'
  <2>1. IInv'
    BY <1>3, NextIInv DEF LoopbackInv
  <2> QED  BY <1>3, <2>1 DEF LoopbackInv, Sequential, NeverThrows, vars, Advance
<1> QED  BY <1>1, <1>2, <1>3

(* It holds of every state of the loopback system.                         *)
THEOREM LoopbackInvariantHolds ==
  ASSUME Returners = {Consumer}
  PROVE  Spec => []LoopbackInv
<1>1. OneReturner
  BY DEF OneReturner
<1>2. Init => LoopbackInv
  BY <1>1, LoopbackInductive
<1>3. LoopbackInv /\ [Next]_vars => LoopbackInv'
  BY <1>1, LoopbackInductive
<1> QED  BY <1>2, <1>3, PTL DEF Spec

(* With one thread that gets and returns, the pool never throws, whatever  *)
(* its size and whatever is asked of it.                                   *)
THEOREM NeverThrowsHolds ==
  ASSUME Returners = {Consumer}
  PROVE  Spec => []NeverThrows
<1>1. LoopbackInv => NeverThrows
  BY DEF LoopbackInv
<1> QED  BY <1>1, LoopbackInvariantHolds, PTL

(* The i-th available buffer.                                              *)
Avail(i) ==
  IF pc[Consumer] = "take" /\ i <= pos[Consumer]
  THEN bufs[Consumer][i] ELSE slots[Advance(front, i - 1)]

(* The mapped sequence, element by element.                                *)
LEMMA AvailIs ==
  TypeOK => AvailSeq = [i \in 1..Ahead(front, back) |-> Avail(i)]
<1> SUFFICES ASSUME TypeOK PROVE AvailSeq = [i \in 1..Ahead(front, back) |-> Avail(i)]
  OBVIOUS
<1>1. front \in Nat /\ Ahead(front, back) \in Nat
  BY RingTypes, RecvBufferPoolAssumption DEF RingFacts, Slots
<1>2. \A i \in 1..Ahead(front, back) : (front + i - 1) % Gapped = Advance(front, i - 1)
  <2> TAKE i \in 1..Ahead(front, back)
  <2>1. front + i - 1 = front + (i - 1)
    BY <1>1
  <2> QED  BY <2>1 DEF Advance
<1> QED  BY <1>2 DEF AvailSeq, Avail

(* The mapped sequence holds buffers, and none twice.                      *)
LEMMA AvailFacts ==
  ASSUME OneReturner, LoopbackInv
  PROVE  /\ Ahead(front, back) \in 0..PoolSize
         /\ AvailSeq \in [1..Ahead(front, back) -> Buffers]
         /\ AvailSeq \in Seq(Buffers) /\ Len(AvailSeq) = Ahead(front, back)
         /\ \A i \in 1..Ahead(front, back) : AvailSeq[i] = Avail(i)
         /\ \A i, j \in 1..Ahead(front, back) : i # j => Avail(i) # Avail(j)
<1> DEFINE N == Ahead(front, back)
<1>0. /\ Threads = {Consumer} /\ ThreadFacts(Consumer) /\ RingFacts
      /\ Separate /\ NULL \notin Buffers
      /\ TypeOK /\ CallShape
  BY SeqFacts, OneOwnerSeparates, NullIsNoBuffer DEF LoopbackInv, IInv
<1>1. N \in 0..PoolSize /\ PoolSize \in Nat
  BY <1>0 DEF RingFacts
<1>2. AvailSeq = [i \in 1..N |-> Avail(i)]
  BY <1>0, AvailIs
<1>3. Taken \in Nat /\ (pc[Consumer] = "take" => Taken = pos[Consumer]) /\ (pc[Consumer] # "take" => Taken = 0)
  BY <1>0 DEF Taken, ThreadFacts
<1>4. ASSUME NEW i \in 1..N, i <= Taken
      PROVE  pc[Consumer] = "take" /\ Avail(i) = bufs[Consumer][i] /\ Avail(i) \in InCall(Consumer)
             /\ i \in 1..Len(bufs[Consumer])
  <2>1. pc[Consumer] = "take" /\ i <= pos[Consumer] /\ i \in 1..Len(bufs[Consumer])
    BY <1>0, <1>1, <1>3, <1>4 DEF ThreadFacts
  <2> QED  BY <1>0, <2>1, InCallBuffers DEF Avail
<1>5. ASSUME NEW i \in 1..N, ~(i <= Taken)
      PROVE  /\ Avail(i) = slots[Advance(front, i - 1)] /\ Avail(i) \in Buffers
             /\ Advance(front, i - 1) \in Slots /\ Ahead(front, Advance(front, i - 1)) = i - 1
  <2>1. i - 1 \in 0..PoolSize /\ Taken <= i - 1 /\ i - 1 < N
    BY <1>1, <1>3, <1>5
  <2>2. Advance(front, i - 1) \in Slots /\ Ahead(front, Advance(front, i - 1)) = i - 1
    BY <1>0, <2>1, AdvanceIs, RingIndex DEF RingFacts
  <2>3. slots[Advance(front, i - 1)] \in Buffers
    BY <2>1, <2>2, SeqFacts DEF LoopbackInv
  <2>4. Avail(i) = slots[Advance(front, i - 1)]
    BY <1>3, <1>5 DEF Avail
  <2> QED  BY <2>2, <2>3, <2>4
<1>6. \A i \in 1..N : Avail(i) \in Buffers
  BY <1>0, <1>4, <1>5, InCallBuffers
<1>7. ASSUME NEW i \in 1..N, NEW j \in 1..N, i # j, Avail(i) = Avail(j)
      PROVE  FALSE
  <2>1. CASE i <= Taken /\ j <= Taken
    BY <1>0, <1>4, <1>7, <2>1 DEF ThreadFacts
  <2>2. CASE i <= Taken /\ ~(j <= Taken)
    BY <1>0, <1>4, <1>5, <1>7, <2>2 DEF Separate
  <2>3. CASE ~(i <= Taken) /\ j <= Taken
    BY <1>0, <1>4, <1>5, <1>7, <2>3 DEF Separate
  <2>4. CASE ~(i <= Taken) /\ ~(j <= Taken)
    <3>1. Advance(front, i - 1) = Advance(front, j - 1)
      BY <1>0, <1>5, <1>7, <2>4 DEF Separate
    <3>2. i - 1 = j - 1
      BY <1>5, <2>4, <3>1
    <3> QED  BY <1>7, <3>2
  <2> QED  BY <2>1, <2>2, <2>3, <2>4
<1>8. AvailSeq \in [1..N -> Buffers]
  BY <1>2, <1>6
<1>9. AvailSeq \in Seq(Buffers) /\ Len(AvailSeq) = N
  BY <1>1, <1>8
<1>10. \A i \in 1..N : AvailSeq[i] = Avail(i)
  BY <1>2
<1>11. \A i, j \in 1..N : i # j => Avail(i) # Avail(j)
  BY <1>7
<1> QED  BY <1>1, <1>8, <1>9, <1>10, <1>11

(* A step that leaves its length and every element alone leaves it alone.  *)
LEMMA AvailSame ==
  ASSUME TypeOK, TypeOK', Ahead(front, back)' = Ahead(front, back),
         \A i \in 1..Ahead(front, back) : Avail(i)' = Avail(i)
  PROVE  AvailSeq' = AvailSeq
<1>1. AvailSeq = [i \in 1..Ahead(front, back) |-> Avail(i)]
  BY AvailIs
<1>2. (TypeOK => AvailSeq = [i \in 1..Ahead(front, back) |-> Avail(i)])'
  BY AvailIs, PTL
<1> QED  BY <1>1, <1>2

(* The buffers outside a sequence.                                         *)
OutOf(s) == Buffers \ {s[i] : i \in DOMAIN s}

(* The abstract Take and Give, of the mapped variables.                    *)
AbstractTake ==
  \E k \in 1..Len(AvailSeq) :
    /\ AvailSeq' = SubSeq(AvailSeq, k + 1, Len(AvailSeq))
    /\ OutOf(AvailSeq)' = OutOf(AvailSeq)
          \cup {SubSeq(AvailSeq, 1, k)[i] : i \in 1..Len(SubSeq(AvailSeq, 1, k))}

AbstractGive ==
  \E k \in 1..PoolSize : \E batch \in [1..k -> OutOf(AvailSeq)] :
    /\ \A i, j \in 1..k : i # j => batch[i] # batch[j]
    /\ AvailSeq' = AvailSeq \o batch
    /\ OutOf(AvailSeq)' = OutOf(AvailSeq) \ {batch[i] : i \in 1..Len(batch)}

(* The end of GetBuffers is the abstract Take of what it took.             *)
LEMMA FinishTakesAbstractly ==
  ASSUME OneReturner, LoopbackInv, LoopbackInv', Finishes
  PROVE  AbstractTake
<1> DEFINE N == Ahead(front, back)
           n == want[Consumer]
           A == AvailSeq
<1>0. ThreadFacts(Consumer) /\ RingFacts /\ PoolSize \in Nat /\ Consumer \in Threads
      /\ TypeOK /\ TypeOK' /\ DOMAIN pc = Threads
  BY SeqFacts, RecvBufferPoolAssumption DEF LoopbackInv, IInv, Threads, TypeOK
<1>1. /\ N \in 0..PoolSize /\ A \in [1..N -> Buffers] /\ A \in Seq(Buffers) /\ Len(A) = N
      /\ \A i \in 1..N : A[i] = Avail(i)
      /\ \A i, j \in 1..N : i # j => Avail(i) # Avail(j)
  BY AvailFacts
<1>2. pc[Consumer] = "take" /\ pos[Consumer] = n /\ n \in 1..PoolSize /\ n <= N
  BY <1>0 DEF Finishes, LoopbackInv, IInv, CursorOrder, ThreadFacts
<1>3. /\ front' = Advance(front, n) /\ back' = back /\ slots' = slots /\ pc'[Consumer] = "idle"
  BY <1>0 DEF Finishes, FinishTake, Goto
<1>4. Ahead(front, back)' = N - n
  <2>1. Ahead(Advance(front, n), back) = N - n
    BY <1>0, <1>2, AheadAdvanced DEF RingFacts
  <2> QED  BY <1>3, <2>1 DEF Ahead
<1>5. \A i \in 1..N - n : Avail(i)' = Avail(i + n)
  <2> TAKE i \in 1..N - n
  <2> HIDE DEF N, n, A
  <2>1. n \in 0..PoolSize /\ i - 1 \in 0..PoolSize /\ n + (i - 1) <= PoolSize /\ n + (i - 1) = i + n - 1
    <3>1. N \in Int /\ n \in Int /\ PoolSize \in Int /\ N <= PoolSize /\ 1 <= n /\ n <= N
      BY <1>0, <1>1, <1>2
    <3>2. i \in Int /\ 1 <= i /\ i <= N - n
      BY <3>1
    <3> QED  BY <3>1, <3>2
  <2>2. Advance(Advance(front, n), i - 1) = Advance(front, i + n - 1)
    BY <1>0, <2>1, AdvanceTwice DEF RingFacts
  <2>3. Avail(i)' = slots[Advance(Advance(front, n), i - 1)]
    BY <1>3 DEF Avail, Advance
  <2>4. Avail(i + n) = slots[Advance(front, i + n - 1)]
    BY <1>2, <2>1 DEF Avail
  <2> QED  BY <2>2, <2>3, <2>4
<1>6. /\ A' \in [1..N - n -> Buffers] /\ A' \in Seq(Buffers) /\ Len(A') = N - n
      /\ \A i \in 1..N - n : A'[i] = Avail(i)'
  <2>1. (OneReturner /\ LoopbackInv =>
          /\ AvailSeq \in [1..Ahead(front, back) -> Buffers]
          /\ AvailSeq \in Seq(Buffers) /\ Len(AvailSeq) = Ahead(front, back)
          /\ \A i \in 1..Ahead(front, back) : AvailSeq[i] = Avail(i))'
    BY AvailFacts, PTL
  <2>2. OneReturner'
    BY DEF OneReturner
  <2> QED  BY <1>4, <2>1, <2>2
<1> HIDE DEF A, N, n
<1>7. \A i \in 1..N - n : A'[i] = A[i + n]
  BY <1>1, <1>2, <1>5, <1>6
<1>8. A' = SubSeq(A, n + 1, N)
  <2>1. \A i \in n + 1..N : A[i] \in Buffers
    BY <1>1, <1>2
  <2>2. /\ SubSeq(A, n + 1, N) \in Seq(Buffers) /\ Len(SubSeq(A, n + 1, N)) = N - n
        /\ \A i \in 1..N - n : SubSeq(A, n + 1, N)[i] = A[i + n]
    <3>1. n + 1 \in Int /\ N \in Int
      BY <1>1, <1>2
    <3>2. /\ SubSeq(A, n + 1, N) \in Seq(Buffers)
          /\ Len(SubSeq(A, n + 1, N)) = IF n + 1 <= N THEN N - (n + 1) + 1 ELSE 0
          /\ \A i \in 1..N - (n + 1) + 1 : SubSeq(A, n + 1, N)[i] = A[n + 1 + i - 1]
      BY <2>1, <3>1, SubSeqProperties
    <3>3. N - (n + 1) + 1 = N - n /\ \A i \in 1..N - n : n + 1 + i - 1 = i + n
      BY <1>1, <1>2
    <3> QED  BY <1>1, <1>2, <3>2, <3>3
  <2> QED  BY <1>6, <1>7, <2>2, SeqEqual
<1>9. /\ Len(SubSeq(A, 1, n)) = n
      /\ \A i \in 1..n : SubSeq(A, 1, n)[i] = A[i]
  BY <1>1, <1>2
<1>10. OutOf(A)' = OutOf(A) \cup {SubSeq(A, 1, n)[i] : i \in 1..Len(SubSeq(A, 1, n))}
  <2>1. OutOf(A)' = Buffers \ {A[i] : i \in n + 1..N}
    <3>1. {A'[i] : i \in 1..N - n} = {A[i] : i \in n + 1..N}
      <4>1. \A i \in 1..N - n : i + n \in n + 1..N
        BY <1>1, <1>2
      <4>2. \A i \in n + 1..N : i - n \in 1..N - n /\ (i - n) + n = i
        BY <1>1, <1>2
      <4> QED  BY <1>7, <4>1, <4>2
    <3>2. OutOf(A)' = Buffers \ {A'[i] : i \in 1..N - n}
      BY <1>6 DEF OutOf
    <3> QED  BY <3>1, <3>2
  <2>2. OutOf(A) = Buffers \ {A[i] : i \in 1..N}
    BY <1>1 DEF OutOf
  <2>3. {SubSeq(A, 1, n)[i] : i \in 1..Len(SubSeq(A, 1, n))} = {A[i] : i \in 1..n}
    BY <1>9
  <2>4. \A i : i \in 1..N <=> i \in 1..n \/ i \in n + 1..N
    BY <1>1, <1>2
  <2>5. \A i \in 1..n : A[i] \in Buffers /\ \A j \in n + 1..N : A[i] # A[j]
    <3> TAKE i \in 1..n
    <3>1. i \in 1..N /\ \A j \in n + 1..N : j \in 1..N /\ i # j
      BY <1>1, <1>2
    <3> QED  BY <1>1, <3>1
  <2> QED  BY <2>1, <2>2, <2>3, <2>4, <2>5
<1>11. n \in 1..N
  BY <1>1, <1>2
<1> QED  BY <1>1, <1>8, <1>10, <1>11 DEF AbstractTake, A

(* The move of the back is the abstract Give of the return's array.        *)
LEMMA PublishGivesAbstractly ==
  ASSUME OneReturner, LoopbackInv, LoopbackInv', Publishes(Consumer)
  PROVE  AbstractGive
<1> DEFINE N == Ahead(front, back)
           n == want[Consumer]
           A == AvailSeq
           B == bufs[Consumer]
<1>0. ThreadFacts(Consumer) /\ RingFacts /\ PoolSize \in Nat /\ Consumer \in Threads
      /\ Threads = {Consumer} /\ NULL \notin Buffers /\ DOMAIN pc = Threads /\ Separate
  BY SeqFacts, RecvBufferPoolAssumption, NullIsNoBuffer, OneOwnerSeparates DEF LoopbackInv, IInv, TypeOK
<1>1. /\ N \in 0..PoolSize /\ A \in [1..N -> Buffers] /\ A \in Seq(Buffers) /\ Len(A) = N
      /\ \A i \in 1..N : A[i] = Avail(i)
  BY AvailFacts
<1>2. /\ pc[Consumer] = "write" /\ pos[Consumer] = n /\ n \in 1..PoolSize
      /\ B \in Seq(Buffers) /\ Len(B) = n
      /\ \A i, j \in 1..n : i # j => B[i] # B[j]
      /\ \A k \in 0..n - 1 : slots[Advance(back, k)] = B[k + 1]
  BY <1>0 DEF Publishes, LoopbackInv, Sequential, ThreadFacts, RingFacts
<1>3. /\ back' = Advance(back, n) /\ front' = front /\ slots' = slots /\ pc'[Consumer] = "idle"
  BY <1>0 DEF Publishes
<1>4. N + n <= PoolSize
  BY <1>0, <1>2, PublishFits DEF LoopbackInv, IInv
<1>5. Ahead(front, back)' = N + n
  <2>1. Ahead(front, Advance(back, n)) = N + n
    BY <1>0, <1>2, <1>4, AheadAdvanced DEF RingFacts
  <2> QED  BY <1>3, <2>1 DEF Ahead
<1>6. \A i \in 1..N : Avail(i) = slots[Advance(front, i - 1)]
  BY <1>2 DEF Avail
<1>7. \A i : Avail(i)' = slots[Advance(front, i - 1)]
  BY <1>3 DEF Avail, Advance
<1>8. \A k \in 1..n : /\ Advance(front, N + k - 1) = Advance(back, k - 1)
                      /\ Advance(front, N + k - 1) \in Slots
                      /\ slots[Advance(front, N + k - 1)] = B[k]
  <2> TAKE k \in 1..n
  <2>1. Advance(front, N) = back
    BY <1>0, RingIndex DEF RingFacts
  <2> HIDE DEF N, n, B, A
  <2>2. /\ N \in 0..PoolSize /\ k - 1 \in 0..PoolSize /\ N + (k - 1) <= PoolSize /\ N + (k - 1) = N + k - 1
        /\ k - 1 \in 0..n - 1 /\ (k - 1) + 1 = k /\ N + k - 1 \in 0..PoolSize
    <3>1. N \in Int /\ n \in Int /\ PoolSize \in Int /\ 0 <= N /\ 1 <= n /\ N + n <= PoolSize
      BY <1>0, <1>1, <1>2, <1>4
    <3>2. k \in Int /\ 1 <= k /\ k <= n
      BY <3>1
    <3> QED  BY <3>1, <3>2
  <2>3. Advance(Advance(front, N), k - 1) = Advance(front, N + (k - 1))
    BY <1>0, <2>2, AdvanceTwice DEF RingFacts
  <2>4. Advance(front, N + k - 1) \in Slots
    BY <1>0, <2>2, AdvanceIs DEF RingFacts
  <2> QED  BY <1>2, <2>1, <2>2, <2>3, <2>4
<1>9. /\ A' \in [1..N + n -> Buffers] /\ A' \in Seq(Buffers) /\ Len(A') = N + n
      /\ \A i \in 1..N + n : A'[i] = slots[Advance(front, i - 1)]
      /\ \A i, j \in 1..N + n : i # j => A'[i] # A'[j]
  <2>1. (OneReturner /\ LoopbackInv =>
          /\ AvailSeq \in [1..Ahead(front, back) -> Buffers]
          /\ AvailSeq \in Seq(Buffers) /\ Len(AvailSeq) = Ahead(front, back)
          /\ \A i \in 1..Ahead(front, back) : AvailSeq[i] = Avail(i)
          /\ \A i, j \in 1..Ahead(front, back) : i # j => Avail(i) # Avail(j))'
    BY AvailFacts, PTL
  <2>2. OneReturner'
    BY DEF OneReturner
  <2> QED  BY <1>5, <1>7, <2>1, <2>2
<1>10. \A i \in 1..N : A'[i] = A[i] /\ i \in 1..N + n
  <2> HIDE DEF A, N, n, B
  <2>1. \A i \in 1..N : i \in 1..N + n
    BY <1>1, <1>2
  <2> QED  BY <1>1, <1>6, <1>9, <2>1
<1>i. N \in Nat /\ n \in Nat
  BY <1>0, <1>1, <1>2
<1>11. \A k \in 1..n : A'[N + k] = B[k] /\ N + k \in 1..N + n
  <2> HIDE DEF A, N, n, B
  <2> TAKE k \in 1..n
  <2>1. N + k \in 1..N + n
    BY <1>1, <1>2
  <2>2. A'[N + k] = slots[Advance(front, N + k - 1)]
    BY <1>i, <1>9, <2>1
  <2> QED  BY <1>8, <2>1, <2>2
<1> HIDE DEF A, N, n, B
<1>12. \A i \in 1..N : \A k \in 1..n : A[i] # B[k]
  <2> SUFFICES ASSUME NEW i \in 1..N, NEW k \in 1..n PROVE A[i] # B[k]
    OBVIOUS
  <2>1. i # N + k
    BY <1>i
  <2>2. A'[i] # A'[N + k]
    BY <1>9, <1>10, <1>11, <2>1
  <2> QED  BY <1>10, <1>11, <2>2
<1>13. A' = A \o B
  <2>1. /\ A \o B \in Seq(Buffers) /\ Len(A \o B) = N + n
        /\ \A i \in 1..N + n : (A \o B)[i] = IF i <= N THEN A[i] ELSE B[i - N]
    <3>1. A \in Seq(Buffers) /\ B \in Seq(Buffers) /\ Len(A) = N /\ Len(B) = n
      BY <1>1, <1>2
    <3>2. /\ A \o B \in Seq(Buffers) /\ Len(A \o B) = Len(A) + Len(B)
          /\ \A i \in 1..Len(A) + Len(B) :
               (A \o B)[i] = IF i <= Len(A) THEN A[i] ELSE B[i - Len(A)]
      BY <3>1, ConcatProperties
    <3> QED  BY <3>1, <3>2
  <2>2. ASSUME NEW i \in 1..N + n PROVE A'[i] = (A \o B)[i]
    <3>1. CASE i <= N
      <4>1. i \in 1..N
        BY <1>i, <3>1
      <4> QED  BY <1>10, <2>1, <4>1
    <3>2. CASE ~(i <= N)
      <4>1. i - N \in 1..n /\ N + (i - N) = i
        BY <1>i, <3>2
      <4>2. A'[i] = B[i - N]
        <5>1. A'[N + (i - N)] = B[i - N]
          BY <1>11, <4>1
        <5> QED  BY <4>1, <5>1
      <4> QED  BY <2>1, <3>2, <4>2
    <3> QED  BY <3>1, <3>2
  <2> QED  BY <1>9, <2>1, <2>2, SeqEqual
<1>14. OutOf(A) = Buffers \ {A[i] : i \in 1..N}
  BY <1>1 DEF OutOf
<1>15. B \in [1..n -> OutOf(A)]
  <2>1. B \in [1..n -> Buffers] /\ \A k \in 1..n : B[k] \in Buffers
    BY <1>2
  <2>2. \A k \in 1..n : B[k] \in OutOf(A)
    BY <1>12, <1>14, <2>1
  <2> QED  BY <2>1, <2>2
<1>16. OutOf(A)' = OutOf(A) \ {B[i] : i \in 1..Len(B)}
  <2>1. OutOf(A)' = Buffers \ {A'[i] : i \in 1..N + n}
    BY <1>9 DEF OutOf
  <2>2. {A'[i] : i \in 1..N + n} = {A[i] : i \in 1..N} \cup {B[k] : k \in 1..n}
    <3>1. \A i \in 1..N + n : (i \in 1..N) \/ (i - N \in 1..n /\ N + (i - N) = i)
      BY <1>1, <1>2
    <3> QED  BY <1>10, <1>11, <3>1
  <2>3. Len(B) = n
    BY <1>2
  <2> QED  BY <1>14, <2>1, <2>2, <2>3
<1> QED  BY <1>2, <1>13, <1>15, <1>16 DEF AbstractGive, A

(* No other step changes what is available.                                *)
LEMMA OtherStepsStutter ==
  ASSUME OneReturner, LoopbackInv, LoopbackInv', OneStep, ~Finishes, ~Publishes(Consumer)
  PROVE  AvailSeq' = AvailSeq
<1>0. /\ Threads = {Consumer} /\ Returners = {Consumer} /\ ThreadFacts(Consumer) /\ RingFacts
      /\ PoolSize \in Nat /\ TypeOK /\ TypeOK'
      /\ DOMAIN pc = Threads /\ DOMAIN pos = Threads /\ DOMAIN bufs = Threads /\ DOMAIN slots = Slots
      /\ ~Fails
  BY SeqFacts, NoFailure, RecvBufferPoolAssumption DEF LoopbackInv, IInv, TypeOK, OneReturner
<1>1. ASSUME UNCHANGED <<front, back, slots>>, pc[Consumer] # "take",
             pc'[Consumer] # "take" \/ pos'[Consumer] = 0
      PROVE  AvailSeq' = AvailSeq
  <2>1. Ahead(front, back)' = Ahead(front, back)
    BY <1>1 DEF Ahead
  <2>2. \A i \in 1..Ahead(front, back) : Avail(i)' = Avail(i)
    BY <1>1 DEF Avail, Advance
  <2> QED  BY <1>0, <2>1, <2>2, AvailSame
<1>2. CASE \E count \in 1..PoolSize : Begins(count)
  BY <1>0, <1>1, <1>2 DEF Begins, BeginTake, Goto
<1>3. ASSUME NEW slot \in Slots, Takes(slot)
      PROVE  AvailSeq' = AvailSeq
  <2>1. Ahead(front, back)' = Ahead(front, back)
    BY <1>3 DEF Takes, Ahead
  <2>2. /\ pc[Consumer] = "take" /\ pc'[Consumer] = "take" /\ pos'[Consumer] = pos[Consumer] + 1
        /\ Len(bufs[Consumer]) = pos[Consumer] /\ bufs[Consumer] \in Seq(Buffers)
        /\ bufs'[Consumer] = Append(bufs[Consumer], slots[slot])
        /\ slots' = [slots EXCEPT ![slot] = NULL] /\ slot = Advance(front, pos[Consumer])
        /\ front' = front /\ pos[Consumer] \in 0..PoolSize
    BY <1>0, <1>3 DEF Takes, ThreadFacts
  <2>3. /\ \A i \in 1..pos[Consumer] : bufs'[Consumer][i] = bufs[Consumer][i]
        /\ bufs'[Consumer][pos[Consumer] + 1] = slots[slot]
    BY <2>2
  <2>4. ASSUME NEW i \in 1..Ahead(front, back)
        PROVE  Avail(i)' = Avail(i)
    <3>0. i \in Nat /\ 1 <= i /\ i - 1 \in 0..PoolSize /\ i <= Ahead(front, back) /\ Advance(front, i - 1) \in Slots
      BY <1>0, AdvanceIs DEF RingFacts
    <3>1. CASE i <= pos[Consumer]
      <4>1. i <= pos[Consumer] + 1 /\ i \in 1..pos[Consumer]
        BY <2>2, <3>0, <3>1
      <4> QED  BY <2>2, <2>3, <3>1, <4>1 DEF Avail
    <3>2. CASE i = pos[Consumer] + 1
      <4>1. ~(i <= pos[Consumer]) /\ i <= pos[Consumer] + 1 /\ i - 1 = pos[Consumer]
        BY <2>2, <3>2
      <4> QED  BY <2>2, <2>3, <3>2, <4>1 DEF Avail
    <3>3. CASE i > pos[Consumer] + 1
      <4>1. ~(i <= pos[Consumer]) /\ ~(i <= pos[Consumer] + 1) /\ i - 1 # pos[Consumer]
        BY <2>2, <3>0, <3>3
      <4>2. Advance(front, i - 1) # slot
        BY <1>0, <2>2, <3>0, <4>1, RingIndex DEF RingFacts
      <4>3. slots'[Advance(front, i - 1)] = slots[Advance(front, i - 1)]
        BY <1>0, <2>2, <3>0, <4>2
      <4> QED  BY <2>2, <4>1, <4>3 DEF Avail, Advance
    <3> QED  BY <2>2, <3>0, <3>1, <3>2, <3>3
  <2> QED  BY <1>0, <2>1, <2>4, AvailSame
<1>4. CASE \E batch \in Batches(Consumer) : Enters(Consumer, batch)
  BY <1>0, <1>1, <1>4 DEF Enters
<1>5. CASE \/ Checks(Consumer) \/ Reserves(Consumer) \/ ChecksAgain(Consumer)
           \/ PublishesLater(Consumer)
  BY <1>0, <1>1, <1>5 DEF Checks, Reserves, ChecksAgain, PublishesLater
<1>6. ASSUME NEW slot \in Slots, Writes(Consumer, slot)
      PROVE  AvailSeq' = AvailSeq
  <2>1. Ahead(front, back)' = Ahead(front, back)
    BY <1>6 DEF Writes, Ahead
  <2>2. /\ pc[Consumer] = "write" /\ pc'[Consumer] = "write" /\ front' = front
        /\ slot = Advance(back, pos[Consumer])
        /\ \A i \in Slots : i # slot => slots'[i] = slots[i]
        /\ pos[Consumer] \in 0..PoolSize /\ pos[Consumer] <= want[Consumer]
    BY <1>0, <1>6 DEF Writes, LoopbackInv, Sequential, ThreadFacts
  <2>3. Ahead(front, slot) = Ahead(front, back) + pos[Consumer]
    <3>1. Ahead(front, back) + want[Consumer] <= PoolSize
      BY <1>0, <2>2, PublishFits DEF LoopbackInv, IInv
    <3>2. Ahead(front, back) + pos[Consumer] <= PoolSize
      BY <1>0, <2>2, <3>1 DEF RingFacts, ThreadFacts
    <3> QED  BY <1>0, <2>2, <3>2, AheadAdvanced DEF RingFacts
  <2>4. ASSUME NEW i \in 1..Ahead(front, back)
        PROVE  Avail(i)' = Avail(i)
    <3>1. i - 1 \in 0..PoolSize /\ i - 1 < Ahead(front, back) + pos[Consumer]
      BY <1>0, <2>2 DEF RingFacts
    <3>2. Advance(front, i - 1) \in Slots /\ Ahead(front, Advance(front, i - 1)) = i - 1
      BY <1>0, <3>1, AdvanceIs, RingIndex DEF RingFacts
    <3>3. Advance(front, i - 1) # slot
      BY <1>0, <2>3, <3>1, <3>2 DEF RingFacts
    <3>4. slots'[Advance(front, i - 1)] = slots[Advance(front, i - 1)]
      BY <2>2, <3>2, <3>3
    <3> QED  BY <2>2, <3>4 DEF Avail, Advance
  <2> QED  BY <1>0, <2>1, <2>4, AvailSame
<1> QED  BY <1>0, <1>2, <1>3, <1>4, <1>5, <1>6 DEF OneStep

(* The full ring is the full pool.                                         *)
LEMMA InitIsAbstract ==
  ASSUME Init
  PROVE  Abstract!Init
<1>0. PoolSize \in Nat /\ Slots = 0..PoolSize /\ Buffers = 0..PoolSize - 1 /\ TypeOK
  BY InitIInv, RecvBufferPoolAssumption DEF Slots, Buffers, IInv
<1>1. Ahead(front, back) = PoolSize
  BY <1>0, AheadIs DEF Init
<1>2. \A i \in 1..PoolSize : Avail(i) = i - 1
  <2> TAKE i \in 1..PoolSize
  <2>1. i - 1 \in 0..PoolSize /\ i - 1 # PoolSize
    BY <1>0
  <2>2. Advance(0, i - 1) = i - 1
    BY <1>0, <2>1, AdvanceIs
  <2> QED  BY <1>0, <2>1, <2>2 DEF Init, Avail, Threads
<1>3. AvailSeq = [i \in 1..PoolSize |-> i - 1]
  BY <1>0, <1>1, <1>2, AvailIs
<1>4. Buffers \ {AvailSeq[i] : i \in DOMAIN AvailSeq} = {}
  <2>1. \A b \in Buffers : b + 1 \in 1..PoolSize /\ (b + 1) - 1 = b
    BY <1>0
  <2> QED  BY <1>3, <2>1
<1> QED  BY <1>3, <1>4 DEF Abstract!Init

(* Every step is an abstract step or leaves the mapped variables alone.    *)
LEMMA StepIsAbstract ==
  ASSUME OneReturner, LoopbackInv, LoopbackInv', [Next]_vars
  PROVE  [Abstract!Next]_(Abstract!vars)
<1>1. CASE Next
  <2>0. OneStep /\ Returners = {Consumer}
    BY <1>1, NextIsOneStep DEF LoopbackInv, IInv, OneReturner
  <2>1. CASE Finishes
    <3>1. AbstractTake
      BY <2>1, FinishTakesAbstractly
    <3> QED  BY <3>1 DEF AbstractTake, OutOf, Abstract!Next, Abstract!Take, Abstract!Elems
  <2>2. CASE Publishes(Consumer)
    <3>1. AbstractGive
      BY <2>2, PublishGivesAbstractly
    <3> QED  BY <3>1 DEF AbstractGive, OutOf, Abstract!Next, Abstract!Give, Abstract!Elems
  <2>3. CASE ~Finishes /\ ~Publishes(Consumer)
    <3>1. AvailSeq' = AvailSeq
      BY <2>0, <2>3, OtherStepsStutter
    <3> QED  BY <3>1 DEF Abstract!vars, Buffers
  <2> QED  BY <2>1, <2>2, <2>3
<1>2. CASE UNCHANGED vars
  <2>1. AvailSeq' = AvailSeq
    BY <1>2 DEF vars, AvailSeq, Ahead
  <2> QED  BY <2>1 DEF Abstract!vars, Buffers
<1> QED  BY <1>1, <1>2

(* With one thread that gets and returns, the lock-free ring implements    *)
(* the abstract pool: buffers come out in the order they were given back,  *)
(* and none is lost or handed out twice.                                   *)
THEOREM LoopbackImplementsPool ==
  ASSUME Returners = {Consumer}
  PROVE  Spec => ImplementsPool
<1>1. OneReturner
  BY DEF OneReturner
<1>2. Init => Abstract!Init
  BY InitIsAbstract
<1>3. LoopbackInv /\ LoopbackInv' /\ [Next]_vars => [Abstract!Next]_(Abstract!vars)
  BY <1>1, StepIsAbstract
<1>4. Spec => []LoopbackInv
  BY LoopbackInvariantHolds
<1> QED  BY <1>2, <1>3, <1>4, PTL DEF Spec, ImplementsPool, Abstract!Spec

=============================================================================
