------------------------ MODULE RecvDispatcherProofs ------------------------
(***************************************************************************)
(* The bookkeeping of the receive dispatcher is right for every queue      *)
(* size, SGE list length, buffer pool and set of nodes: the invariant IInv *)
(* of RecvDispatcher is inductive.  No fact about the application or the   *)
(* handler is used; about the HCA only that it completes a posted request  *)
(* once and delivers no message that is empty or longer than an SGE list.  *)
(*                                                                         *)
(* That every buffer has one owner is proved by following the buffers: for *)
(* every action a function tells to which place each place's buffer moves; *)
(* it keeps the buffer and reaches every place of the next state, and then *)
(* one owner before the step is one owner after it (lemma Moves).          *)
(*                                                                         *)
(* That the dispatcher implements ReceiveStream needs, besides, that a     *)
(* message is cut where the abstract specification cuts it (CutAsPromised) *)
(* and that the pieces of lists of completions join when the lists do; the *)
(* latter is an induction over their length, made possible by SetInduction.*)
(***************************************************************************)
EXTENDS RecvDispatcher, FiniteSetTheorems, SequenceTheorems, TLAPS

-----------------------------------------------------------------------------
(* Arithmetic of the queue sizes.                                          *)

(* A quotient times the divisor is at most the dividend.                   *)
LEMMA QuotientBound ==
  ASSUME NEW x \in Nat, NEW m \in Nat \ {0}
  PROVE  x \div m \in Nat /\ m * (x \div m) <= x
  OBVIOUS

(* A product with a natural number grows with its second factor.           *)
LEMMA ProductMonotone ==
  ASSUME NEW m \in Nat, NEW a \in Nat, NEW b \in Nat, a <= b
  PROVE  m * a \in Nat /\ m * a <= m * b
  OBVIOUS

(* The sizes derived from the constants are natural numbers.               *)
LEMMA Sizes == IRBSize \in Nat /\ WRPoolSize \in Nat /\ WRPoolSize = SRQSize + SRQSize
  BY RecvDispatcherAssumption DEF IRBSize, WRPoolSize

(* __Poll never takes more completions than there is room for in the IRB.  *)
LEMMA RoomBound ==
  ASSUME IInv, pc = "poll"
  PROVE  /\ Room \in 0..SRQSize
         /\ MaxSGEs * Room <= IRBSize - Len(irb)
<1> DEFINE free == IRBSize - Len(irb)
<1>1. free \in Nat
  BY Sizes, EmptySeq, RecvDispatcherAssumption
     DEF IInv, TypeOK, RoomReserved, CompsInPhase
<1>2. free \div MaxSGEs \in Nat /\ MaxSGEs * (free \div MaxSGEs) <= free
  BY <1>1, QuotientBound, RecvDispatcherAssumption
<1> HIDE DEF free
<1>3. Room = Smaller(free \div MaxSGEs, SRQSize)
  BY DEF Room, free
<1>4. Room \in 0..SRQSize /\ Room <= free \div MaxSGEs
  BY <1>2, <1>3, RecvDispatcherAssumption DEF Smaller
<1>5. MaxSGEs * Room <= MaxSGEs * (free \div MaxSGEs)
  BY <1>2, <1>4, ProductMonotone, RecvDispatcherAssumption
<1>6. MaxSGEs * Room <= free
  <2>1. MaxSGEs * Room \in Int /\ MaxSGEs * (free \div MaxSGEs) \in Int
    BY <1>2, <1>4, RecvDispatcherAssumption
  <2>2. QED BY <2>1, <1>1, <1>2, <1>5
<1>7. QED BY <1>4, <1>6 DEF free

-----------------------------------------------------------------------------
(* Sequences.                                                              *)

(* The two halves of a sequence cut after its n-th element.                *)
LEMMA Cut ==
  ASSUME NEW S, NEW s \in Seq(S), NEW n \in 0..Len(s)
  PROVE  /\ SubSeq(s, 1, n) \in Seq(S)
         /\ Len(SubSeq(s, 1, n)) = n
         /\ \A i \in 1..n : SubSeq(s, 1, n)[i] = s[i]
         /\ SubSeq(s, n + 1, Len(s)) \in Seq(S)
         /\ Len(SubSeq(s, n + 1, Len(s))) = Len(s) - n
         /\ \A i \in 1..Len(s) - n : SubSeq(s, n + 1, Len(s))[i] = s[n + i]
<1>1. Len(s) \in Nat /\ \A i \in 1..Len(s) : s[i] \in S
  BY ElementOfSeq, LenProperties
<1>2. /\ SubSeq(s, 1, n) \in Seq(S)
      /\ Len(SubSeq(s, 1, n)) = IF 1 <= n THEN n - 1 + 1 ELSE 0
      /\ \A i \in 1..n - 1 + 1 : SubSeq(s, 1, n)[i] = s[1 + i - 1]
  BY <1>1, SubSeqProperties
<1>3. /\ SubSeq(s, n + 1, Len(s)) \in Seq(S)
      /\ Len(SubSeq(s, n + 1, Len(s))) =
           IF n + 1 <= Len(s) THEN Len(s) - (n + 1) + 1 ELSE 0
      /\ \A i \in 1..Len(s) - (n + 1) + 1 :
           SubSeq(s, n + 1, Len(s))[i] = s[n + 1 + i - 1]
  BY <1>1, SubSeqProperties
<1>4. QED BY <1>1, <1>2, <1>3

(* The buffers of the i-th full list are a list of MaxSGEs buffers.        *)
LEMMA SGEListType ==
  ASSUME NEW k \in Nat, avail \in Seq(Buffers), k * MaxSGEs <= Len(avail),
         NEW i \in 1..k
  PROVE  SGEList(i) \in Lists
<1> DEFINE lo == (i - 1) * MaxSGEs + 1
           hi == i * MaxSGEs
<1>1. lo \in Nat /\ hi \in Nat /\ 1 <= lo /\ hi - lo + 1 = MaxSGEs
  BY RecvDispatcherAssumption
<1>2. hi <= Len(avail)
  <2>1. MaxSGEs * i <= MaxSGEs * k
    BY ProductMonotone, RecvDispatcherAssumption
  <2>2. Len(avail) \in Nat /\ MaxSGEs * i = hi /\ MaxSGEs * k = k * MaxSGEs
    BY RecvDispatcherAssumption
  <2>3. QED BY <2>1, <2>2, <1>1, RecvDispatcherAssumption
<1> HIDE DEF lo, hi
<1>3. \A j \in lo..hi : avail[j] \in Buffers
  BY <1>1, <1>2, ElementOfSeq, LenProperties
<1>4. SubSeq(avail, lo, hi) \in Seq(Buffers) /\ Len(SubSeq(avail, lo, hi)) = MaxSGEs
  BY <1>1, <1>3, SubSeqProperties, RecvDispatcherAssumption
<1>5. SubSeq(avail, lo, hi) \in [1..MaxSGEs -> Buffers]
  BY <1>4, LenProperties
<1>6. QED BY <1>5 DEF SGEList, Lists, lo, hi

(* The pool after a refill is a sequence of buffers.                       *)
LEMMA LeftoverType ==
  ASSUME avail \in Seq(Buffers), NEW n \in 0..Len(avail), NEW used \in 0..n
  PROVE  Leftover(used, n) \in Seq(Buffers)
<1>1. Len(avail) \in Nat /\ \A i \in 1..Len(avail) : avail[i] \in Buffers
  BY ElementOfSeq, LenProperties
<1>2. SubSeq(avail, n + 1, Len(avail)) \in Seq(Buffers)
  BY Cut
<1>3. \A i \in used + 1..n : avail[i] \in Buffers
  BY <1>1
<1>4. SubSeq(avail, used + 1, n) \in Seq(Buffers)
  <2>1. used + 1 \in Int /\ n \in Int
    BY <1>1
  <2>2. QED BY <2>1, <1>3, SubSeqProperties
<1>5. QED BY <1>2, <1>4, ConcatProperties DEF Leftover

(* What a completion adds to the IRB and gives back to the pool.           *)
LEMMA ProcessedType ==
  ASSUME NEW c \in Completions
  PROVE  /\ NewEntries(c) \in Seq(Entries)
         /\ Len(NewEntries(c)) \in 1..MaxSGEs
         /\ UnusedBuffers(c) \in Seq(Buffers)
<1>1. c.bufs \in Seq(Buffers) /\ Len(c.bufs) = MaxSGEs
  <2>1. c.bufs \in [1..MaxSGEs -> Buffers] /\ MaxSGEs \in Nat
    BY RecvDispatcherAssumption DEF Completions, Lists
  <2>2. QED BY <2>1
<1>2. c.src \in Nodes /\ c.fc \in 0..MaxFC /\ c.len \in Nat
  BY DEF Completions
<1>3. SGEsUsed(c.len) \in 1..MaxSGEs
  BY RecvDispatcherAssumption DEF SGEsUsed
<1> DEFINE used == SGEsUsed(c.len)
<1> HIDE DEF used
<1>4. CASE c.len = 0
  <2>1. FCEntry(c) \in Entries
    BY <1>2 DEF FCEntry, Entries
  <2>2. QED BY <1>1, <1>4, <2>1, RecvDispatcherAssumption
            DEF NewEntries, UnusedBuffers
<1>5. CASE c.len # 0
  <2>1. ASSUME NEW i \in 1..used
        PROVE  [src |-> c.src, fc |-> EntryFC(c, i),
                len |-> DataLength(c.len, i), buf |-> c.bufs[i]] \in Entries
    <3>1. EntryFC(c, i) \in 0..MaxFC
      BY <1>2, RecvDispatcherAssumption DEF EntryFC
    <3>2. c.bufs[i] \in Buffers
      BY <1>1, <1>3, ElementOfSeq, RecvDispatcherAssumption DEF used
    <3>3. DataLength(c.len, i) \in Nat
      <4>1. Remaining(c.len, i) \in Nat
        BY <1>2, <1>3, RecvDispatcherAssumption DEF Remaining, used
      <4>2. QED BY <4>1, RecvDispatcherAssumption DEF DataLength, Smaller
    <3>4. QED BY <1>2, <3>1, <3>2, <3>3 DEF Entries
  <2>2. EntriesOf(c) \in [1..used -> Entries]
    BY <2>1 DEF EntriesOf, used
  <2>3. EntriesOf(c) \in Seq(Entries) /\ Len(EntriesOf(c)) = used
    BY <2>2, <1>3, RecvDispatcherAssumption DEF used
  <2>4. UnusedBuffers(c) \in Seq(Buffers)
    <3>1. used \in 0..Len(c.bufs)
      BY <1>1, <1>3, RecvDispatcherAssumption DEF used
    <3>2. QED BY <3>1, <1>1, <1>5, Cut DEF UnusedBuffers, used
  <2>5. QED BY <1>3, <1>5, <2>3, <2>4 DEF NewEntries, used
<1>6. QED BY <1>4, <1>5

-----------------------------------------------------------------------------
(* The invariant is inductive.                                             *)

(* Lengths of the sequences of the state are natural numbers.              *)
LEMMA Lengths ==
  ASSUME TypeOK
  PROVE  /\ Len(avail) \in Nat /\ Len(posted) \in Nat /\ Len(cq) \in Nat
         /\ Len(comps) \in Nat /\ Len(irb) \in Nat
  BY LenProperties DEF TypeOK

(* Ending the process keeps the invariant if the exception is not one of   *)
(* the failed sanity checks.                                               *)
LEMMA ThrowStep ==
  ASSUME IInv, NEW e \in {"ib", "disconnected"}, Throw(e)
  PROVE  IInv'
  BY DEF IInv, TypeOK, PendingExact, WRConserved, RoomReserved, CompsInPhase,
         MessagesNotEmpty, NeverInsane, Throw

(* The invariant holds initially.                                          *)
LEMMA InitIInv == Init => IInv
<1> SUFFICES ASSUME Init PROVE IInv
  OBVIOUS
<1>1. avail \in Seq(Buffers)
  <2>1. avail \in [1..PoolSize -> Buffers] /\ PoolSize \in Nat
    BY RecvDispatcherAssumption DEF Init, Buffers
  <2>2. QED BY <2>1
<1>2. TypeOK
  BY <1>1, Sizes, EmptySeq, RecvDispatcherAssumption DEF Init, TypeOK
<1>3. MaxSGEs * 0 = 0
  BY RecvDispatcherAssumption
<1>4. QED
  BY <1>2, <1>3, Sizes, RecvDispatcherAssumption
     DEF Init, IInv, PendingExact, WRConserved, RoomReserved, CompsInPhase,
         MessagesNotEmpty, NeverInsane

(* __Poll.                                                                 *)
LEMMA PollStep ==
  ASSUME IInv, Poll
  PROVE  IInv'
<1> DEFINE n == Smaller(Room, Len(cq))
<1>1. Room \in 0..SRQSize /\ MaxSGEs * Room <= IRBSize - Len(irb)
  BY RoomBound DEF Poll, At
<1>2. n \in 0..Len(cq) /\ n \in 0..SRQSize /\ n <= Room
  BY <1>1, Lengths, RecvDispatcherAssumption DEF Smaller, IInv
<1>3. /\ comps' = SubSeq(cq, 1, n) /\ cq' = SubSeq(cq, n + 1, Len(cq))
      /\ pending' = pending - n
  BY DEF Poll
<1>4. /\ pc = "poll" /\ pc' = "refill"
      /\ UNCHANGED <<avail, app, freeWRs, posted, irb, firstWc, thrown>>
  BY DEF Poll, At
<1> HIDE DEF n
<1>5. /\ comps' \in Seq(Completions) /\ Len(comps') = n
      /\ cq' \in Seq(Completions) /\ Len(cq') = Len(cq) - n
      /\ \A i \in 1..n : comps'[i] = cq[i]
      /\ \A i \in 1..Len(cq) - n : cq'[i] = cq[n + i]
  <2>1. cq \in Seq(Completions)
    BY DEF IInv, TypeOK
  <2>2. QED BY <2>1, <1>2, <1>3, Cut
<1>6. Len(comps) = 0
  BY <1>4 DEF CompsInPhase, IInv
<1>7. /\ pending \in 0..SRQSize /\ Len(cq) \in Nat /\ Len(posted) \in Nat
      /\ Len(irb) \in Nat /\ freeWRs \in 0..WRPoolSize
  BY Lengths DEF IInv, TypeOK
<1>8. PendingExact'
  BY <1>2, <1>3, <1>4, <1>5, <1>7 DEF PendingExact, IInv
<1>9. pending' \in 0..SRQSize
  BY <1>2, <1>3, <1>7, RecvDispatcherAssumption DEF PendingExact, IInv
<1>10. TypeOK'
  BY <1>4, <1>5, <1>9 DEF TypeOK, IInv
<1>11. WRConserved'
  BY <1>2, <1>4, <1>5, <1>6, <1>7, Sizes DEF WRConserved, IInv
<1>12. RoomReserved'
  <2>1. MaxSGEs * n <= MaxSGEs * Room /\ MaxSGEs * n \in Nat
    BY <1>1, <1>2, ProductMonotone, RecvDispatcherAssumption
  <2>2. MaxSGEs * Room \in Int
    BY <1>1, RecvDispatcherAssumption
  <2>3. Len(irb) + MaxSGEs * n <= IRBSize
    BY <1>1, <1>7, <2>1, <2>2, Sizes
  <2>4. QED BY <2>3, <1>4, <1>5 DEF RoomReserved
<1>13. CompsInPhase' /\ NeverInsane'
  BY <1>2, <1>4, <1>5 DEF CompsInPhase, NeverInsane, IInv
<1>14. MessagesNotEmpty'
  <2>1. ASSUME NEW i \in 1..Len(cq') PROVE NotEmpty(cq'[i])
    BY <2>1, <1>2, <1>5, <1>7 DEF MessagesNotEmpty, IInv
  <2>2. ASSUME NEW i \in 1..Len(comps') PROVE NotEmpty(comps'[i])
    BY <2>2, <1>2, <1>5, <1>7 DEF MessagesNotEmpty, IInv
  <2>3. QED BY <2>1, <2>2 DEF MessagesNotEmpty, NotEmpty
<1>15. QED
  BY <1>8, <1>10, <1>11, <1>12, <1>13, <1>14 DEF IInv

(* __Refill: the work requests cannot run out, for at most SRQSize of them *)
(* are posted or completed and at most SRQSize are being processed.        *)
LEMMA RefillStep ==
  ASSUME IInv, Refill
  PROVE  IInv'
<1> DEFINE toQueue == SRQSize - pending
<1>1. PICK numBufs \in Yields(toQueue * MaxSGEs) :
        LET n == QueuedElems(toQueue, numBufs)
        IN  IF n > freeWRs
            THEN Throw("dry")
            ELSE /\ freeWRs' = freeWRs - n
                 /\ posted' = posted \o [i \in 1..n |-> SGEList(i)]
                 /\ avail' = Leftover(n * MaxSGEs, numBufs)
                 /\ pending' = PendingAfter(n)
                 /\ pc' = "process"
                 /\ UNCHANGED <<app, cq, comps, irb, firstWc, thrown>>
  BY DEF Refill
<1> DEFINE n == QueuedElems(toQueue, numBufs)
<1>2. /\ pending \in 0..SRQSize /\ Len(cq) \in Nat /\ Len(posted) \in Nat
      /\ Len(comps) \in 0..SRQSize /\ freeWRs \in 0..WRPoolSize
      /\ Len(avail) \in Nat /\ avail \in Seq(Buffers) /\ posted \in Seq(Lists)
      /\ toQueue \in 1..SRQSize
  BY Lengths, RecvDispatcherAssumption DEF IInv, TypeOK, CompsInPhase, Refill
<1>3. numBufs \in 0..Len(avail)
  <2>1. toQueue * MaxSGEs \in Nat
    BY <1>2, RecvDispatcherAssumption
  <2>2. QED BY <2>1, <1>2 DEF Yields, Smaller
<1>4. numBufs \div MaxSGEs \in Nat /\ MaxSGEs * (numBufs \div MaxSGEs) <= numBufs
  BY <1>3, QuotientBound, RecvDispatcherAssumption
<1> HIDE DEF toQueue
<1>5. n \in 0..toQueue /\ n <= numBufs \div MaxSGEs
  BY <1>2, <1>4 DEF QueuedElems, Smaller
<1>6. n * MaxSGEs \in 0..numBufs
  <2>1. MaxSGEs * n <= MaxSGEs * (numBufs \div MaxSGEs) /\ MaxSGEs * n \in Nat
    BY <1>2, <1>4, <1>5, ProductMonotone, RecvDispatcherAssumption
  <2>2. MaxSGEs * (numBufs \div MaxSGEs) \in Int /\ n * MaxSGEs = MaxSGEs * n
    BY <1>2, <1>4, <1>5, RecvDispatcherAssumption
  <2>3. QED BY <1>3, <1>4, <2>1, <2>2
<1>7. n <= freeWRs
  <2>1. pending = Len(posted) + Len(cq)
    BY DEF IInv, PendingExact
  <2>2. freeWRs + Len(posted) + Len(cq) + Len(comps) = SRQSize + SRQSize
    BY Sizes DEF IInv, WRConserved
  <2>3. n <= SRQSize - pending /\ n \in Nat
    BY <1>2, <1>5 DEF toQueue
  <2> HIDE DEF n
  <2>4. QED BY <1>2, <2>1, <2>2, <2>3, RecvDispatcherAssumption
<1>8. /\ freeWRs' = freeWRs - n
      /\ posted' = posted \o [i \in 1..n |-> SGEList(i)]
      /\ avail' = Leftover(n * MaxSGEs, numBufs)
      /\ pending' = PendingAfter(n)
      /\ pc' = "process"
      /\ UNCHANGED <<app, cq, comps, irb, firstWc, thrown>>
  BY <1>1, <1>2, <1>5, <1>7
<1> HIDE DEF n
<1>9. avail' \in Seq(Buffers)
  BY <1>2, <1>3, <1>6, <1>8, LeftoverType
<1>10. posted' \in Seq(Lists) /\ Len(posted') = Len(posted) + n
  <2> DEFINE new == [i \in 1..n |-> SGEList(i)]
  <2>1. n \in Nat /\ n * MaxSGEs <= Len(avail)
    BY <1>2, <1>3, <1>5, <1>6
  <2>2. \A i \in 1..n : SGEList(i) \in Lists
    BY <2>1, <1>2, SGEListType
  <2>3. new \in [1..n -> Lists]
    BY <2>2
  <2>4. new \in Seq(Lists) /\ Len(new) = n
    BY <2>1, <2>3
  <2> HIDE DEF new
  <2>5. posted' = posted \o new
    BY <1>8 DEF new
  <2>6. QED BY <1>2, <2>4, <2>5, ConcatProperties
<1>11. pending' = pending + n /\ pending' \in 0..SRQSize
  BY <1>2, <1>5, <1>8, RecvDispatcherAssumption DEF PendingAfter, toQueue
<1>12. freeWRs' \in 0..WRPoolSize
  BY <1>2, <1>5, <1>7, <1>8, Sizes
<1>13. TypeOK'
  BY <1>8, <1>9, <1>10, <1>11, <1>12 DEF TypeOK, IInv
<1>14. PendingExact' /\ WRConserved'
  BY <1>2, <1>5, <1>8, <1>10, <1>11, Sizes DEF PendingExact, WRConserved, IInv
<1>15. RoomReserved' /\ MessagesNotEmpty' /\ NeverInsane'
  BY <1>8 DEF RoomReserved, MessagesNotEmpty, NotEmpty, NeverInsane, IInv
<1>16. CompsInPhase'
  BY <1>8 DEF CompsInPhase, IInv
<1>17. QED
  BY <1>13, <1>14, <1>15, <1>16 DEF IInv

(* __ProcessCompletions: no sanity check fails, for the work request being *)
(* processed is not in its pool and its entries have their room reserved.  *)
LEMMA ProcessStep ==
  ASSUME IInv, ProcessCompletion
  PROVE  IInv'
<1> DEFINE c == Head(comps)
<1>1. /\ comps \in Seq(Completions) /\ comps # <<>> /\ pc = "process"
      /\ c.status = "success"
  BY DEF ProcessCompletion, At, IInv, TypeOK
<1>2. /\ c \in Completions /\ Tail(comps) \in Seq(Completions)
      /\ Len(Tail(comps)) = Len(comps) - 1
      /\ \A i \in 1..Len(Tail(comps)) : Tail(comps)[i] = comps[i + 1]
  BY <1>1, HeadTailProperties
<1>3. c = comps[1]
  BY <1>1
<1>4. /\ Len(comps) \in 1..SRQSize /\ Len(cq) \in Nat /\ Len(posted) \in Nat
      /\ Len(irb) \in Nat /\ freeWRs \in 0..WRPoolSize
      /\ irb \in Seq(Entries) /\ avail \in Seq(Buffers)
  BY <1>1, EmptySeq, Lengths DEF IInv, TypeOK, CompsInPhase
<1>5. c.len > 0 \/ c.fc > 0
  BY <1>1, <1>3, <1>4 DEF IInv, MessagesNotEmpty, NotEmpty
<1>6. c.len \in Nat /\ c.fc \in Nat
  BY <1>2, RecvDispatcherAssumption DEF Completions
<1> HIDE DEF c
<1> DEFINE new == NewEntries(c)
           unused == UnusedBuffers(c)
<1>7. /\ new \in Seq(Entries) /\ Len(new) \in 1..MaxSGEs
      /\ unused \in Seq(Buffers)
  BY <1>2, ProcessedType
<1> HIDE DEF new, unused
<1>8. Len(irb) + MaxSGEs * Len(comps) <= IRBSize
  BY DEF IInv, RoomReserved
<1>9. /\ MaxSGEs * Len(comps) = MaxSGEs * (Len(comps) - 1) + MaxSGEs
      /\ MaxSGEs * (Len(comps) - 1) \in Nat
  BY <1>4, RecvDispatcherAssumption
<1>10. Len(irb) + Len(new) + MaxSGEs * (Len(comps) - 1) <= IRBSize
  BY <1>4, <1>7, <1>8, <1>9, Sizes, RecvDispatcherAssumption
<1>11. freeWRs < WRPoolSize
  BY <1>4, Sizes DEF IInv, WRConserved
<1>12. Insane(c) = "none"
  <2>1. ~(Len(irb) + Len(new) > IRBSize)
    BY <1>4, <1>7, <1>9, <1>10, Sizes, RecvDispatcherAssumption
  <2>2. freeWRs # WRPoolSize /\ ~(c.len = 0 /\ c.fc = 0)
    BY <1>4, <1>5, <1>6, <1>11, Sizes
  <2>3. QED BY <2>1, <2>2 DEF Insane, new
<1>13. /\ irb' = irb \o new /\ avail' = avail \o unused
       /\ freeWRs' = freeWRs + 1 /\ comps' = Tail(comps) /\ firstWc' = FALSE
       /\ UNCHANGED <<app, posted, cq, pending, pc, thrown>>
  BY <1>12 DEF ProcessCompletion, PushedWRs, c, new, unused
<1>14. irb' \in Seq(Entries) /\ Len(irb') = Len(irb) + Len(new)
  BY <1>4, <1>7, <1>13, ConcatProperties
<1>15. avail' \in Seq(Buffers)
  BY <1>4, <1>7, <1>13, ConcatProperties
<1>16. freeWRs' \in 0..WRPoolSize
  BY <1>4, <1>11, <1>13, Sizes
<1>17. TypeOK'
  BY <1>2, <1>13, <1>14, <1>15, <1>16 DEF TypeOK, IInv
<1>18. PendingExact' /\ WRConserved'
  BY <1>2, <1>4, <1>13, Sizes DEF PendingExact, WRConserved, IInv
<1>19. RoomReserved'
  BY <1>2, <1>10, <1>13, <1>14 DEF RoomReserved
<1>20. CompsInPhase' /\ NeverInsane'
  BY <1>1, <1>2, <1>4, <1>13, RecvDispatcherAssumption
     DEF CompsInPhase, NeverInsane, IInv
<1>21. MessagesNotEmpty'
  <2>1. ASSUME NEW i \in 1..Len(comps') PROVE NotEmpty(comps'[i])
    <3>1. comps'[i] = comps[i + 1] /\ i + 1 \in 1..Len(comps)
      BY <1>2, <1>4, <1>13
    <3>2. QED BY <3>1 DEF IInv, MessagesNotEmpty
  <2>2. ASSUME NEW i \in 1..Len(cq') PROVE NotEmpty(cq'[i])
    BY <1>13 DEF IInv, MessagesNotEmpty
  <2>3. QED BY <2>1, <2>2 DEF MessagesNotEmpty, NotEmpty
<1>22. QED
  BY <1>17, <1>18, <1>19, <1>20, <1>21 DEF IInv

(* The parts of Dispatch that only move on, and __DispatchReceived.        *)
LEMMA SkipStep ==
  ASSUME IInv, SkipRefill \/ EndProcess \/ NothingReceived
  PROVE  IInv'
<1>1. /\ UNCHANGED <<avail, app, freeWRs, posted, cq, comps, pending, irb,
                     firstWc, thrown>>
      /\ pc' \in {"poll", "process", "dispatch"}
      /\ pc' # "process" => comps = <<>>
  BY DEF SkipRefill, EndProcess, NothingReceived, At, IInv, CompsInPhase
<1>2. TypeOK' /\ CompsInPhase'
  BY <1>1 DEF TypeOK, CompsInPhase, IInv
<1>3. PendingExact' /\ WRConserved' /\ RoomReserved' /\ NeverInsane'
  BY <1>1 DEF PendingExact, WRConserved, RoomReserved, NeverInsane, IInv
<1>4. MessagesNotEmpty'
  BY <1>1 DEF MessagesNotEmpty, NotEmpty, IInv
<1>5. QED BY <1>2, <1>3, <1>4 DEF IInv

LEMMA DispatchStep ==
  ASSUME IInv, NEW k \in 0..IRBSize, DispatchReceived(k)
  PROVE  IInv'
<1>1. /\ k <= Len(irb) /\ irb' = SubSeq(irb, k + 1, Len(irb))
      /\ app' = app \cup ({irb[i].buf : i \in 1..k} \ {NULL})
      /\ pc = "dispatch" /\ pc' = "poll"
      /\ UNCHANGED <<avail, freeWRs, posted, cq, comps, pending, firstWc, thrown>>
  BY DEF DispatchReceived, At
<1>2. irb \in Seq(Entries) /\ app \subseteq Buffers /\ Len(irb) \in Nat
      /\ Len(comps) \in Nat
  BY Lengths DEF IInv, TypeOK
<1>3. k \in 0..Len(irb)
  BY <1>1, <1>2, Sizes
<1>4. irb' \in Seq(Entries) /\ Len(irb') = Len(irb) - k
  BY <1>1, <1>2, <1>3, Cut
<1>5. app' \subseteq Buffers
  <2>1. \A i \in 1..k : irb[i] \in Entries
    BY <1>2, <1>3, ElementOfSeq
  <2>2. QED BY <1>1, <1>2, <2>1 DEF Entries
<1>6. TypeOK'
  BY <1>1, <1>4, <1>5 DEF TypeOK, IInv
<1>7. RoomReserved'
  <2>1. Len(irb) + MaxSGEs * Len(comps) <= IRBSize /\ MaxSGEs * Len(comps) \in Nat
    BY <1>2, RecvDispatcherAssumption DEF IInv, RoomReserved
  <2>2. QED BY <1>1, <1>2, <1>3, <1>4, <2>1, Sizes DEF RoomReserved
<1>8. PendingExact' /\ WRConserved' /\ CompsInPhase' /\ NeverInsane'
  BY <1>1 DEF PendingExact, WRConserved, CompsInPhase, NeverInsane, IInv
<1>9. MessagesNotEmpty'
  BY <1>1 DEF MessagesNotEmpty, NotEmpty, IInv
<1>10. QED BY <1>6, <1>7, <1>8, <1>9 DEF IInv

(* The application returns a buffer.                                       *)
LEMMA ReturnStep ==
  ASSUME IInv, NEW b \in Buffers, ReturnBuffer(b)
  PROVE  IInv'
<1>1. /\ app' = app \ {b} /\ avail' = Append(avail, b)
      /\ UNCHANGED <<freeWRs, posted, cq, comps, pending, irb, firstWc, pc, thrown>>
  BY DEF ReturnBuffer
<1>2. avail' \in Seq(Buffers)
  BY <1>1, AppendProperties DEF IInv, TypeOK
<1>3. TypeOK'
  BY <1>1, <1>2 DEF TypeOK, IInv
<1>4. PendingExact' /\ WRConserved' /\ RoomReserved' /\ CompsInPhase' /\ NeverInsane'
  BY <1>1 DEF PendingExact, WRConserved, RoomReserved, CompsInPhase, NeverInsane,
              IInv
<1>5. MessagesNotEmpty'
  BY <1>1 DEF MessagesNotEmpty, NotEmpty, IInv
<1>6. QED BY <1>3, <1>4, <1>5 DEF IInv

(* The HCA completes a work request, successfully or not.                  *)
LEMMA CompleteStep ==
  ASSUME IInv, NEW status \in {"success", "retry_exc", "other"}, NEW src \in Nodes,
         NEW len \in Nat, NEW fc \in 0..MaxFC,
         status = "success" => len > 0 \/ fc > 0,
         Complete(status, src, len, fc)
  PROVE  IInv'
<1> DEFINE c == [status |-> status, src |-> src, len |-> len, fc |-> fc,
                 bufs |-> Head(posted)]
<1>1. /\ posted # <<>> /\ cq' = Append(cq, c) /\ posted' = Tail(posted)
      /\ UNCHANGED <<avail, app, freeWRs, comps, pending, irb, firstWc, pc, thrown>>
  BY DEF Complete
<1>2. /\ cq \in Seq(Completions) /\ posted \in Seq(Lists)
      /\ Len(cq) \in Nat /\ Len(posted) \in Nat /\ Len(comps) \in Nat
      /\ freeWRs \in 0..WRPoolSize
  BY Lengths DEF IInv, TypeOK
<1>3. /\ Head(posted) \in Lists /\ posted' \in Seq(Lists)
      /\ Len(posted') = Len(posted) - 1
  BY <1>1, <1>2, HeadTailProperties
<1>4. c \in Completions /\ NotEmpty(c)
  BY <1>3 DEF Completions, NotEmpty
<1> HIDE DEF c
<1>5. /\ cq' \in Seq(Completions) /\ Len(cq') = Len(cq) + 1
      /\ \A i \in 1..Len(cq) : cq'[i] = cq[i]
      /\ cq'[Len(cq) + 1] = c
  BY <1>1, <1>2, <1>4, AppendProperties
<1>6. TypeOK'
  BY <1>1, <1>3, <1>5 DEF TypeOK, IInv
<1>7. PendingExact' /\ WRConserved'
  BY <1>1, <1>2, <1>3, <1>5, Sizes DEF PendingExact, WRConserved, IInv
<1>8. RoomReserved' /\ CompsInPhase' /\ NeverInsane'
  BY <1>1 DEF RoomReserved, CompsInPhase, NeverInsane, IInv
<1>9. MessagesNotEmpty'
  <2>1. ASSUME NEW i \in 1..Len(cq') PROVE NotEmpty(cq'[i])
    <3>1. i \in 1..Len(cq) \/ i = Len(cq) + 1
      BY <1>2, <1>5
    <3>2. QED BY <3>1, <1>4, <1>5 DEF IInv, MessagesNotEmpty
  <2>2. ASSUME NEW i \in 1..Len(comps') PROVE NotEmpty(comps'[i])
    BY <1>1 DEF IInv, MessagesNotEmpty
  <2>3. QED BY <2>1, <2>2 DEF MessagesNotEmpty, NotEmpty
<1>10. QED BY <1>6, <1>7, <1>8, <1>9 DEF IInv

-----------------------------------------------------------------------------
(* Every step of the receive path keeps the invariant.                     *)
LEMMA NextIInv == IInv /\ [Next]_vars => IInv'
<1> SUFFICES ASSUME IInv, [Next]_vars PROVE IInv'
  OBVIOUS
<1>1. CASE Poll
  BY <1>1, PollStep
<1>2. CASE Refill
  BY <1>2, RefillStep
<1>3. CASE ProcessCompletion
  BY <1>3, ProcessStep
<1>4. CASE SkipRefill \/ EndProcess \/ NothingReceived
  BY <1>4, SkipStep
<1>5. CASE PollFails \/ PostFails \/ FailedCompletion
  <2>1. \E e \in {"ib", "disconnected"} : Throw(e)
    BY <1>5 DEF PollFails, PostFails, FailedCompletion
  <2>2. QED BY <2>1, ThrowStep
<1>6. CASE \E k \in 0..IRBSize : DispatchReceived(k)
  BY <1>6, DispatchStep
<1>7. CASE \E b \in Buffers : ReturnBuffer(b)
  BY <1>7, ReturnStep
<1>8. ASSUME NEW src \in Nodes, NEW len \in 0..MaxSGEs * BufferSize,
             NEW fc \in 0..MaxFC, Receive(src, len, fc)
      PROVE  IInv'
  <2>1. len \in Nat
    BY RecvDispatcherAssumption
  <2>2. (len > 0 \/ fc > 0) /\ Complete("success", src, len, fc)
    BY <1>8 DEF Receive
  <2>3. QED BY <2>1, <2>2, CompleteStep
<1>9. ASSUME NEW status \in {"retry_exc", "other"}, NEW src \in Nodes,
             ReceiveFails(status, src)
      PROVE  IInv'
  <2>1. Complete(status, src, 0, 0) /\ 0 \in 0..MaxFC
    BY <1>9, RecvDispatcherAssumption DEF ReceiveFails
  <2>2. QED BY <2>1, CompleteStep
<1>10. CASE UNCHANGED vars
  BY <1>10 DEF vars, IInv, TypeOK, PendingExact, WRConserved, RoomReserved,
               CompsInPhase, MessagesNotEmpty, NotEmpty, NeverInsane
<1>11. QED
  BY <1>1, <1>2, <1>3, <1>4, <1>5, <1>6, <1>7, <1>8, <1>9, <1>10
     DEF Next, Dispatch

(* The inductive invariant holds in every state of every behaviour.        *)
THEOREM InvariantHolds == Spec => []IInv
  BY InitIInv, NextIInv, PTL DEF Spec

(* The types are right, in particular all receive work requests carry full *)
(* SGE lists and the counter of pending requests never wraps around.       *)
THEOREM TypesHold == Spec => []TypeOK
<1>1. IInv => TypeOK
  BY DEF IInv
<1>2. QED BY <1>1, InvariantHolds, PTL

(* m_recvQueuePending counts the posted and the completed requests.        *)
THEOREM PendingCorrect == Spec => []PendingExact
<1>1. IInv => PendingExact
  BY DEF IInv
<1>2. QED BY <1>1, InvariantHolds, PTL

(* No receive work request is lost or freed twice.                         *)
THEOREM WorkRequestsConserved == Spec => []WRConserved
<1>1. IInv => WRConserved
  BY DEF IInv
<1>2. QED BY <1>1, InvariantHolds, PTL

(* Neither the work request pool nor the IRB is ever overrun, whatever the *)
(* handler refuses and whenever buffers come back.                         *)
THEOREM SanityChecksHold == Spec => []NeverInsane
<1>1. IInv => NeverInsane
  BY DEF IInv
<1>2. QED BY <1>1, InvariantHolds, PTL

-----------------------------------------------------------------------------
(* Every buffer has one place.                                             *)

(* Which places there are, and what they hold.                             *)
PlacesListed ==
  /\ \A i \in 1..Len(avail) :
       <<"pool", i, 0>> \in Places /\ BufferAt(<<"pool", i, 0>>) = avail[i]
  /\ \A i \in 1..Len(posted), j \in 1..MaxSGEs :
       /\ <<"posted", i, j>> \in Places
       /\ BufferAt(<<"posted", i, j>>) = posted[i][j]
  /\ \A i \in 1..Len(cq), j \in 1..MaxSGEs :
       /\ <<"cq", i, j>> \in Places
       /\ BufferAt(<<"cq", i, j>>) = cq[i].bufs[j]
  /\ \A i \in 1..Len(comps), j \in 1..MaxSGEs :
       /\ <<"comps", i, j>> \in Places
       /\ BufferAt(<<"comps", i, j>>) = comps[i].bufs[j]
  /\ \A i \in 1..Len(irb) :
       irb[i].buf # NULL =>
         <<"irb", i, 0>> \in Places /\ BufferAt(<<"irb", i, 0>>) = irb[i].buf
  /\ \A b \in app :
       <<"app", b, 0>> \in Places /\ BufferAt(<<"app", b, 0>>) = b

(* And that there are no others.                                          *)
KindsListed ==
  \A p \in Places :
    \/ \E i \in 1..Len(avail) : p = <<"pool", i, 0>>
    \/ \E i \in 1..Len(posted) : \E j \in 1..MaxSGEs : p = <<"posted", i, j>>
    \/ \E i \in 1..Len(cq) : \E j \in 1..MaxSGEs : p = <<"cq", i, j>>
    \/ \E i \in 1..Len(comps) : \E j \in 1..MaxSGEs : p = <<"comps", i, j>>
    \/ \E i \in 1..Len(irb) : irb[i].buf # NULL /\ p = <<"irb", i, 0>>
    \/ \E b \in app : p = <<"app", b, 0>>

(* A place is where it seems to be.                                        *)
LEMMA Listed == PlacesListed /\ KindsListed
<1>1. PlacesListed
  BY DEF PlacesListed, Places, InLists, BufferAt
<1>2. ASSUME NEW p \in Places
      PROVE  \/ \E i \in 1..Len(avail) : p = <<"pool", i, 0>>
             \/ \E i \in 1..Len(posted) : \E j \in 1..MaxSGEs : p = <<"posted", i, j>>
             \/ \E i \in 1..Len(cq) : \E j \in 1..MaxSGEs : p = <<"cq", i, j>>
             \/ \E i \in 1..Len(comps) : \E j \in 1..MaxSGEs : p = <<"comps", i, j>>
             \/ \E i \in 1..Len(irb) : irb[i].buf # NULL /\ p = <<"irb", i, 0>>
             \/ \E b \in app : p = <<"app", b, 0>>
  BY DEF Places, InLists
<1>. QED
  BY <1>1, <1>2, Zenon DEF KindsListed

(* The same after a step.                                                  *)
LEMMA ListedNext == PlacesListed' /\ KindsListed'
<1>1. (PlacesListed /\ KindsListed)'
  BY Listed, PTL
<1>. QED
  BY <1>1

(* A step moves the buffers: g tells where each goes, and every place of   *)
(* the next state is reached.                                              *)
LEMMA Moves ==
  ASSUME OneOwner, NEW g,
         \A p \in Places : g[p] \in Places' /\ BufferAt(g[p])' = BufferAt(p),
         \A q \in Places' : \E p \in Places : g[p] = q
  PROVE  OneOwner'
<1>. SUFFICES ASSUME NEW b \in Buffers
              PROVE  \E p \in Places' : \A q \in Places' : BufferAt(q)' = b <=> q = p
  BY DEF OneOwner, Buffers
<1>1. PICK p \in Places : \A q \in Places : BufferAt(q) = b <=> q = p
  BY DEF OneOwner
<1>2. g[p] \in Places' /\ BufferAt(g[p])' = b
  BY <1>1
<1>3. ASSUME NEW q \in Places', BufferAt(q)' = b PROVE q = g[p]
  <2>1. PICK r \in Places : g[r] = q
    OBVIOUS
  <2>2. BufferAt(g[r])' = BufferAt(r)
    OBVIOUS
  <2>3. BufferAt(r) = b
    BY <1>3, <2>1, <2>2
  <2>. QED
    BY <1>1, <2>1, <2>3
<1>. QED
  BY <1>2, <1>3

(* A place of what the step leaves alone.                                  *)
Kept(p) ==
  \/ p[1] = "pool" /\ UNCHANGED avail
  \/ p[1] = "posted" /\ UNCHANGED posted
  \/ p[1] = "cq" /\ UNCHANGED cq
  \/ p[1] = "comps" /\ UNCHANGED comps
  \/ p[1] = "irb" /\ UNCHANGED irb
  \/ p[1] = "app" /\ UNCHANGED app

(* It remains, and holds the same buffer.                                  *)
LEMMA Stays ==
  ASSUME NEW p, Kept(p)
  PROVE  /\ p \in Places <=> p \in Places'
         /\ BufferAt(p)' = BufferAt(p)
<1>1. CASE p[1] = "pool" /\ UNCHANGED avail
  BY <1>1 DEF Places, InLists, BufferAt
<1>2. CASE p[1] = "posted" /\ UNCHANGED posted
  BY <1>2 DEF Places, InLists, BufferAt
<1>3. CASE p[1] = "cq" /\ UNCHANGED cq
  BY <1>3 DEF Places, InLists, BufferAt
<1>4. CASE p[1] = "comps" /\ UNCHANGED comps
  BY <1>4 DEF Places, InLists, BufferAt
<1>5. CASE p[1] = "irb" /\ UNCHANGED irb
  BY <1>5 DEF Places, InLists, BufferAt
<1>6. CASE p[1] = "app" /\ UNCHANGED app
  BY <1>6 DEF Places, InLists, BufferAt
<1>. QED
  BY <1>1, <1>2, <1>3, <1>4, <1>5, <1>6 DEF Kept

(* No buffer moves.                                                        *)
LEMMA NoneMoves ==
  ASSUME OneOwner, UNCHANGED <<avail, app, posted, cq, comps, irb>>
  PROVE  OneOwner'
<1>1. Places' = Places
  BY DEF Places, InLists
<1>2. \A q : BufferAt(q)' = BufferAt(q)
  BY DEF BufferAt
<1>. QED
  BY <1>1, <1>2 DEF OneOwner, Buffers

(* The first n completions of the CQ become the polled ones.               *)
LEMMA PollMoves ==
  ASSUME IInv, OneOwner, Poll
  PROVE  OneOwner'
<1>1. PICK n \in 0..Len(cq) : comps' = SubSeq(cq, 1, n) /\ cq' = SubSeq(cq, n + 1, Len(cq))
  <2>1. Room \in 0..SRQSize
    BY RoomBound DEF Poll, At
  <2>2. Smaller(Room, Len(cq)) \in 0..Len(cq)
    BY <2>1, Lengths, RecvDispatcherAssumption DEF Smaller, IInv
  <2>. QED
    BY <2>2 DEF Poll
<1>2. /\ Len(comps') = n /\ \A i \in 1..n : comps'[i] = cq[i]
      /\ Len(cq') = Len(cq) - n /\ \A i \in 1..Len(cq) - n : cq'[i] = cq[n + i]
      /\ Len(cq) \in Nat
  <2>1. cq \in Seq(Completions)
    BY DEF IInv, TypeOK
  <2>. QED
    BY <1>1, <2>1, Cut, Lengths DEF IInv
<1>3. Len(comps) = 0 /\ UNCHANGED <<avail, app, posted, irb>>
  BY EmptySeq DEF Poll, At, IInv, CompsInPhase
<1>4. PICK g : g = [p \in Places |->
        IF p[1] # "cq" THEN p
        ELSE IF p[2] <= n THEN <<"comps", p[2], p[3]>> ELSE <<"cq", p[2] - n, p[3]>>]
  OBVIOUS
<1>5. ASSUME NEW i \in 1..Len(cq), NEW j \in 1..MaxSGEs
      PROVE  g[<<"cq", i, j>>] = IF i <= n THEN <<"comps", i, j>> ELSE <<"cq", i - n, j>>
  BY <1>4, Listed DEF PlacesListed
<1>6. ASSUME NEW p \in Places PROVE g[p] \in Places' /\ BufferAt(g[p])' = BufferAt(p)
  <2>1. CASE p[1] # "cq"
    <3>1. g[p] = p
      BY <1>4, <2>1
    <3>. QED
      BY <1>3, <2>1, <3>1, Listed, Stays DEF KindsListed, Kept
  <2>2. CASE p[1] = "cq"
    <3>1. PICK i \in 1..Len(cq), j \in 1..MaxSGEs : p = <<"cq", i, j>>
      BY <2>2, Listed DEF KindsListed
    <3>2. BufferAt(p) = cq[i].bufs[j]
      BY <3>1, Listed DEF PlacesListed
    <3>3. CASE i <= n
      <4>1. g[p] = <<"comps", i, j>>
        BY <1>5, <3>1, <3>3
      <4>2. i \in 1..Len(comps') /\ i \in 1..n
        BY <1>2, <3>1, <3>3
      <4>3. comps'[i] = cq[i]
        BY <1>2, <4>2
      <4>. QED
        BY <3>2, <4>1, <4>2, <4>3, ListedNext DEF PlacesListed
    <3>4. CASE ~(i <= n)
      <4>1. g[p] = <<"cq", i - n, j>>
        BY <1>5, <3>1, <3>4
      <4>2. i - n \in 1..Len(cq') /\ i - n \in 1..Len(cq) - n /\ n + (i - n) = i
        BY <1>2, <3>1, <3>4
      <4>3. cq'[i - n] = cq[i]
        BY <1>2, <4>2
      <4>. QED
        BY <3>2, <4>1, <4>2, <4>3, ListedNext DEF PlacesListed
    <3>. QED
      BY <3>3, <3>4
  <2>. QED
    BY <2>1, <2>2
<1>7. ASSUME NEW q \in Places' PROVE \E p \in Places : g[p] = q
  <2>1. CASE q[1] \notin {"cq", "comps"}
    <3>1. q \in Places
      BY <1>3, <2>1, ListedNext, Stays DEF KindsListed, Kept
    <3>. QED
      BY <1>4, <2>1, <3>1
  <2>2. CASE q[1] = "cq"
    <3>1. PICK i \in 1..Len(cq'), j \in 1..MaxSGEs : q = <<"cq", i, j>>
      BY <2>2, ListedNext DEF KindsListed
    <3>2. i + n \in 1..Len(cq) /\ ~(i + n <= n) /\ (i + n) - n = i
      BY <1>2, <3>1
    <3>3. <<"cq", i + n, j>> \in Places
      BY <3>1, <3>2, Listed DEF PlacesListed
    <3>4. g[<<"cq", i + n, j>>] = q
      BY <1>5, <3>1, <3>2
    <3>. QED
      BY <3>3, <3>4
  <2>3. CASE q[1] = "comps"
    <3>1. PICK i \in 1..Len(comps'), j \in 1..MaxSGEs : q = <<"comps", i, j>>
      BY <2>3, ListedNext DEF KindsListed
    <3>2. i \in 1..Len(cq) /\ i <= n
      BY <1>2, <3>1
    <3>3. <<"cq", i, j>> \in Places
      BY <3>1, <3>2, Listed DEF PlacesListed
    <3>4. g[<<"cq", i, j>>] = q
      BY <1>5, <3>1, <3>2
    <3>. QED
      BY <3>3, <3>4
  <2>. QED
    BY <2>1, <2>2, <2>3
<1>. QED
  BY <1>6, <1>7, Moves

(* The application puts a buffer behind those of the pool.                 *)
LEMMA ReturnMoves ==
  ASSUME IInv, OneOwner, NEW b \in Buffers, ReturnBuffer(b)
  PROVE  OneOwner'
<1>1. /\ b \in app /\ app' = app \ {b} /\ avail' = Append(avail, b)
      /\ UNCHANGED <<posted, cq, comps, irb>>
  BY DEF ReturnBuffer
<1>2. /\ Len(avail) \in Nat /\ Len(avail') = Len(avail) + 1 /\ avail'[Len(avail) + 1] = b
      /\ \A i \in 1..Len(avail) : avail'[i] = avail[i]
  <2>1. avail \in Seq(Buffers)
    BY DEF IInv, TypeOK
  <2>. QED
    BY <1>1, <2>1, AppendProperties, LenProperties
<1>3. PICK g : g = [p \in Places |->
        IF p[1] = "app" /\ p[2] = b THEN <<"pool", Len(avail) + 1, 0>> ELSE p]
  OBVIOUS
<1>4. ASSUME NEW p \in Places PROVE g[p] \in Places' /\ BufferAt(g[p])' = BufferAt(p)
  <2>1. CASE p[1] \in {"posted", "cq", "comps", "irb"}
    <3>1. g[p] = p
      BY <1>3, <2>1
    <3>. QED
      BY <1>1, <2>1, <3>1, Stays DEF Kept
  <2>2. CASE p[1] = "pool"
    <3>1. PICK i \in 1..Len(avail) : p = <<"pool", i, 0>>
      BY <2>2, Listed DEF KindsListed
    <3>2. g[p] = p
      BY <1>3, <2>2
    <3>3. i \in 1..Len(avail') /\ avail'[i] = avail[i]
      BY <1>2, <3>1
    <3>. QED
      BY <3>1, <3>2, <3>3, Listed, ListedNext DEF PlacesListed
  <2>3. CASE p[1] = "app"
    <3>1. PICK a \in app : p = <<"app", a, 0>>
      BY <2>3, Listed DEF KindsListed
    <3>2. BufferAt(p) = a
      BY <3>1, Listed DEF PlacesListed
    <3>3. CASE a = b
      <4>1. g[p] = <<"pool", Len(avail) + 1, 0>>
        BY <1>3, <3>1, <3>3
      <4>2. Len(avail) + 1 \in 1..Len(avail')
        BY <1>2
      <4>. QED
        BY <1>2, <3>2, <3>3, <4>1, <4>2, ListedNext DEF PlacesListed
    <3>4. CASE a # b
      <4>1. g[p] = p /\ a \in app'
        BY <1>1, <1>3, <3>1, <3>4
      <4>. QED
        BY <3>1, <3>2, <4>1, ListedNext DEF PlacesListed
    <3>. QED
      BY <3>3, <3>4
  <2>. QED
    BY <2>1, <2>2, <2>3, Listed DEF KindsListed
<1>5. ASSUME NEW q \in Places' PROVE \E p \in Places : g[p] = q
  <2>1. CASE q[1] \in {"posted", "cq", "comps", "irb"}
    <3>1. q \in Places
      BY <1>1, <2>1, Stays DEF Kept
    <3>. QED
      BY <1>3, <2>1, <3>1
  <2>2. CASE q[1] = "pool"
    <3>1. PICK i \in 1..Len(avail') : q = <<"pool", i, 0>>
      BY <2>2, ListedNext DEF KindsListed
    <3>2. CASE i = Len(avail) + 1
      <4>1. <<"app", b, 0>> \in Places
        BY <1>1, Listed DEF PlacesListed
      <4>2. g[<<"app", b, 0>>] = <<"pool", Len(avail) + 1, 0>>
        BY <1>3, <4>1
      <4>. QED
        BY <3>1, <3>2, <4>1, <4>2
    <3>3. CASE i # Len(avail) + 1
      <4>1. i \in 1..Len(avail)
        BY <1>2, <3>1, <3>3
      <4>2. q \in Places
        BY <3>1, <4>1, Listed DEF PlacesListed
      <4>. QED
        BY <1>3, <2>2, <4>2
    <3>. QED
      BY <3>2, <3>3
  <2>3. CASE q[1] = "app"
    <3>1. PICK a \in app' : q = <<"app", a, 0>>
      BY <2>3, ListedNext DEF KindsListed
    <3>2. a \in app /\ a # b
      BY <1>1, <3>1
    <3>3. q \in Places
      BY <3>1, <3>2, Listed DEF PlacesListed
    <3>. QED
      BY <1>3, <3>1, <3>2, <3>3
  <2>. QED
    BY <2>1, <2>2, <2>3, ListedNext DEF KindsListed
<1>. QED
  BY <1>4, <1>5, Moves

(* The HCA moves the first posted list behind the CQ.                      *)
LEMMA CompleteMoves ==
  ASSUME IInv, OneOwner, NEW status, NEW src, NEW len, NEW fc,
         Complete(status, src, len, fc)
  PROVE  OneOwner'
<1>1. /\ posted # <<>> /\ posted' = Tail(posted)
      /\ cq' = Append(cq, [status |-> status, src |-> src, len |-> len, fc |-> fc,
                           bufs |-> Head(posted)])
      /\ UNCHANGED <<avail, app, comps, irb>>
  BY DEF Complete
<1>2. /\ Len(posted) \in Nat /\ Len(posted) >= 1 /\ Len(posted') = Len(posted) - 1
      /\ \A i \in 1..Len(posted) - 1 : posted'[i] = posted[i + 1]
      /\ Head(posted) = posted[1]
  <2>1. posted \in Seq(Lists) /\ Len(posted) \in Nat
    BY Lengths DEF IInv, TypeOK
  <2>2. Len(posted) # 0
    BY <1>1, <2>1, EmptySeq
  <2>. QED
    BY <1>1, <2>1, <2>2, HeadTailProperties
<1>3. /\ Len(cq) \in Nat /\ Len(cq') = Len(cq) + 1
      /\ \A i \in 1..Len(cq) : cq'[i] = cq[i]
      /\ cq'[Len(cq) + 1].bufs = posted[1]
  <2>. DEFINE c == [status |-> status, src |-> src, len |-> len, fc |-> fc,
                    bufs |-> Head(posted)]
  <2>1. cq \in Seq(Completions \cup {c}) /\ Len(cq) \in Nat
    <3>1. cq \in Seq(Completions)
      BY DEF IInv, TypeOK
    <3>2. /\ Len(cq) \in Nat /\ \A i \in 1..Len(cq) : cq[i] \in Completions
          /\ cq \in [1..Len(cq) -> Completions]
      BY <3>1, ElementOfSeq, LenProperties
    <3>3. cq \in [1..Len(cq) -> Completions \cup {c}]
      BY <3>2
    <3>. HIDE DEF c
    <3>. QED
      BY <3>2, <3>3
  <2>2. c.bufs = Head(posted) /\ cq' = Append(cq, c)
    BY <1>1
  <2>. HIDE DEF c
  <2>3. /\ Len(cq') = Len(cq) + 1 /\ cq'[Len(cq) + 1] = c
        /\ \A i \in 1..Len(cq) : cq'[i] = cq[i]
    BY <2>1, <2>2, AppendProperties
  <2>. QED
    BY <1>2, <2>1, <2>2, <2>3
<1>4. PICK g : g = [p \in Places |->
        IF p[1] # "posted" THEN p
        ELSE IF p[2] = 1 THEN <<"cq", Len(cq) + 1, p[3]>> ELSE <<"posted", p[2] - 1, p[3]>>]
  OBVIOUS
<1>5. ASSUME NEW i \in 1..Len(posted), NEW j \in 1..MaxSGEs
      PROVE  g[<<"posted", i, j>>]
               = IF i = 1 THEN <<"cq", Len(cq) + 1, j>> ELSE <<"posted", i - 1, j>>
  BY <1>4, Listed DEF PlacesListed
<1>6. ASSUME NEW p \in Places PROVE g[p] \in Places' /\ BufferAt(g[p])' = BufferAt(p)
  <2>1. CASE p[1] \in {"pool", "comps", "irb", "app"}
    <3>1. g[p] = p
      BY <1>4, <2>1
    <3>. QED
      BY <1>1, <2>1, <3>1, Stays DEF Kept
  <2>2. CASE p[1] = "cq"
    <3>1. PICK i \in 1..Len(cq), j \in 1..MaxSGEs : p = <<"cq", i, j>>
      BY <2>2, Listed DEF KindsListed
    <3>2. g[p] = p
      BY <1>4, <2>2
    <3>3. i \in 1..Len(cq') /\ cq'[i] = cq[i]
      BY <1>3, <3>1
    <3>. QED
      BY <3>1, <3>2, <3>3, Listed, ListedNext DEF PlacesListed
  <2>3. CASE p[1] = "posted"
    <3>1. PICK i \in 1..Len(posted), j \in 1..MaxSGEs : p = <<"posted", i, j>>
      BY <2>3, Listed DEF KindsListed
    <3>2. BufferAt(p) = posted[i][j]
      BY <3>1, Listed DEF PlacesListed
    <3>3. CASE i = 1
      <4>1. g[p] = <<"cq", Len(cq) + 1, j>>
        BY <1>5, <3>1, <3>3
      <4>2. Len(cq) + 1 \in 1..Len(cq')
        BY <1>3
      <4>. QED
        BY <1>3, <3>2, <3>3, <4>1, <4>2, ListedNext DEF PlacesListed
    <3>4. CASE i # 1
      <4>1. g[p] = <<"posted", i - 1, j>>
        BY <1>5, <3>1, <3>4
      <4>2. i - 1 \in 1..Len(posted') /\ i - 1 \in 1..Len(posted) - 1 /\ (i - 1) + 1 = i
        BY <1>2, <3>1, <3>4
      <4>3. posted'[i - 1] = posted[i]
        BY <1>2, <4>2
      <4>. QED
        BY <3>2, <4>1, <4>2, <4>3, ListedNext DEF PlacesListed
    <3>. QED
      BY <3>3, <3>4
  <2>. QED
    BY <2>1, <2>2, <2>3, Listed DEF KindsListed
<1>7. ASSUME NEW q \in Places' PROVE \E p \in Places : g[p] = q
  <2>1. CASE q[1] \in {"pool", "comps", "irb", "app"}
    <3>1. q \in Places
      BY <1>1, <2>1, Stays DEF Kept
    <3>. QED
      BY <1>4, <2>1, <3>1
  <2>2. CASE q[1] = "cq"
    <3>1. PICK i \in 1..Len(cq'), j \in 1..MaxSGEs : q = <<"cq", i, j>>
      BY <2>2, ListedNext DEF KindsListed
    <3>2. CASE i = Len(cq) + 1
      <4>1. 1 \in 1..Len(posted)
        BY <1>2
      <4>2. <<"posted", 1, j>> \in Places
        BY <4>1, Listed DEF PlacesListed
      <4>3. g[<<"posted", 1, j>>] = <<"cq", Len(cq) + 1, j>>
        BY <1>5, <4>1
      <4>. QED
        BY <3>1, <3>2, <4>2, <4>3
    <3>3. CASE i # Len(cq) + 1
      <4>1. i \in 1..Len(cq)
        BY <1>3, <3>1, <3>3
      <4>2. q \in Places
        BY <3>1, <4>1, Listed DEF PlacesListed
      <4>. QED
        BY <1>4, <2>2, <4>2
    <3>. QED
      BY <3>2, <3>3
  <2>3. CASE q[1] = "posted"
    <3>1. PICK i \in 1..Len(posted'), j \in 1..MaxSGEs : q = <<"posted", i, j>>
      BY <2>3, ListedNext DEF KindsListed
    <3>2. i + 1 \in 1..Len(posted) /\ i + 1 # 1 /\ (i + 1) - 1 = i
      BY <1>2, <3>1
    <3>3. <<"posted", i + 1, j>> \in Places
      BY <3>1, <3>2, Listed DEF PlacesListed
    <3>4. g[<<"posted", i + 1, j>>] = q
      BY <1>5, <3>1, <3>2
    <3>. QED
      BY <3>3, <3>4
  <2>. QED
    BY <2>1, <2>2, <2>3, ListedNext DEF KindsListed
<1>. QED
  BY <1>6, <1>7, Moves

(* The handler keeps the buffers of the first k entries.                   *)
LEMMA DispatchMoves ==
  ASSUME IInv, OneOwner, NEW k \in 0..IRBSize, DispatchReceived(k)
  PROVE  OneOwner'
<1>1. /\ k <= Len(irb) /\ irb' = SubSeq(irb, k + 1, Len(irb))
      /\ app' = app \cup ({irb[i].buf : i \in 1..k} \ {NULL})
      /\ UNCHANGED <<avail, posted, cq, comps>>
  BY DEF DispatchReceived, At
<1>2. /\ k \in 0..Len(irb) /\ Len(irb) \in Nat /\ Len(irb') = Len(irb) - k
      /\ \A i \in 1..Len(irb) - k : irb'[i] = irb[k + i]
  <2>1. irb \in Seq(Entries) /\ Len(irb) \in Nat
    BY Lengths DEF IInv, TypeOK
  <2>2. k \in 0..Len(irb)
    BY <1>1, <2>1, Sizes
  <2>. QED
    BY <1>1, <2>1, <2>2, Cut
<1>3. PICK g : g = [p \in Places |->
        IF p[1] # "irb" THEN p
        ELSE IF p[2] <= k THEN <<"app", irb[p[2]].buf, 0>> ELSE <<"irb", p[2] - k, 0>>]
  OBVIOUS
<1>4. ASSUME NEW i \in 1..Len(irb), irb[i].buf # NULL
      PROVE  g[<<"irb", i, 0>>]
               = IF i <= k THEN <<"app", irb[i].buf, 0>> ELSE <<"irb", i - k, 0>>
  BY <1>3, <1>4, Listed DEF PlacesListed
<1>5. ASSUME NEW p \in Places PROVE g[p] \in Places' /\ BufferAt(g[p])' = BufferAt(p)
  <2>1. CASE p[1] \in {"pool", "posted", "cq", "comps"}
    <3>1. g[p] = p
      BY <1>3, <2>1
    <3>. QED
      BY <1>1, <2>1, <3>1, Stays DEF Kept
  <2>2. CASE p[1] = "app"
    <3>1. PICK a \in app : p = <<"app", a, 0>>
      BY <2>2, Listed DEF KindsListed
    <3>2. g[p] = p /\ a \in app'
      BY <1>1, <1>3, <2>2
    <3>. QED
      BY <3>1, <3>2, Listed, ListedNext DEF PlacesListed
  <2>3. CASE p[1] = "irb"
    <3>1. PICK i \in 1..Len(irb) : irb[i].buf # NULL /\ p = <<"irb", i, 0>>
      BY <2>3, Listed DEF KindsListed
    <3>2. BufferAt(p) = irb[i].buf
      BY <3>1, Listed DEF PlacesListed
    <3>3. CASE i <= k
      <4>1. g[p] = <<"app", irb[i].buf, 0>>
        BY <1>4, <3>1, <3>3
      <4>2. i \in 1..k
        BY <1>2, <3>1, <3>3
      <4>3. irb[i].buf \in app'
        BY <1>1, <3>1, <4>2
      <4>. QED
        BY <3>2, <4>1, <4>3, ListedNext DEF PlacesListed
    <3>4. CASE ~(i <= k)
      <4>1. g[p] = <<"irb", i - k, 0>>
        BY <1>4, <3>1, <3>4
      <4>2. i - k \in 1..Len(irb') /\ i - k \in 1..Len(irb) - k /\ k + (i - k) = i
        BY <1>2, <3>1, <3>4
      <4>3. irb'[i - k] = irb[i]
        BY <1>2, <4>2
      <4>. QED
        BY <3>1, <3>2, <4>1, <4>2, <4>3, ListedNext DEF PlacesListed
    <3>. QED
      BY <3>3, <3>4
  <2>. QED
    BY <2>1, <2>2, <2>3, Listed DEF KindsListed
<1>6. ASSUME NEW q \in Places' PROVE \E p \in Places : g[p] = q
  <2>1. CASE q[1] \in {"pool", "posted", "cq", "comps"}
    <3>1. q \in Places
      BY <1>1, <2>1, Stays DEF Kept
    <3>. QED
      BY <1>3, <2>1, <3>1
  <2>2. CASE q[1] = "app"
    <3>1. PICK a \in app' : q = <<"app", a, 0>>
      BY <2>2, ListedNext DEF KindsListed
    <3>2. CASE a \in app
      <4>1. q \in Places
        BY <3>1, <3>2, Listed DEF PlacesListed
      <4>. QED
        BY <1>3, <2>2, <4>1
    <3>3. CASE a \notin app
      <4>1. PICK i \in 1..k : a = irb[i].buf
        BY <1>1, <3>1, <3>3
      <4>2. a # NULL
        BY <1>1, <3>1, <3>3
      <4>3. i \in 1..Len(irb) /\ i <= k /\ irb[i].buf # NULL
        BY <1>2, <4>1, <4>2
      <4>4. <<"irb", i, 0>> \in Places
        BY <4>3, Listed DEF PlacesListed
      <4>5. g[<<"irb", i, 0>>] = q
        BY <1>4, <3>1, <4>1, <4>3
      <4>. QED
        BY <4>4, <4>5
    <3>. QED
      BY <3>2, <3>3
  <2>3. CASE q[1] = "irb"
    <3>1. PICK i \in 1..Len(irb') : irb'[i].buf # NULL /\ q = <<"irb", i, 0>>
      BY <2>3, ListedNext DEF KindsListed
    <3>2. i \in 1..Len(irb) - k /\ k + i \in 1..Len(irb) /\ ~(k + i <= k) /\ (k + i) - k = i
      BY <1>2, <3>1
    <3>3. irb[k + i].buf # NULL
      BY <1>2, <3>1, <3>2
    <3>4. <<"irb", k + i, 0>> \in Places
      BY <3>2, <3>3, Listed DEF PlacesListed
    <3>5. g[<<"irb", k + i, 0>>] = q
      BY <1>4, <3>1, <3>2, <3>3
    <3>. QED
      BY <3>4, <3>5
  <2>. QED
    BY <2>1, <2>2, <2>3, ListedNext DEF KindsListed
<1>. QED
  BY <1>5, <1>6, Moves

(* Division with remainder, and that it is the only one.                   *)
LEMMA Division ==
  ASSUME NEW x \in Nat, NEW m \in Nat \ {0}
  PROVE  /\ x \div m \in Nat /\ x % m \in 0..m - 1
         /\ x = m * (x \div m) + (x % m)
<1>1. x \div m \in Nat /\ x % m \in 0..m - 1
  OBVIOUS
<1>2. x = m * (x \div m) + (x % m)
  OBVIOUS
<1>. QED
  BY <1>1, <1>2

LEMMA OnlyDivision ==
  ASSUME NEW m \in Nat \ {0}, NEW a \in Nat, NEW r \in 0..m - 1
  PROVE  /\ m * a + r \in Nat
         /\ (m * a + r) \div m = a /\ (m * a + r) % m = r
<1>1. m * a \in Nat
  OBVIOUS
<1>. DEFINE x == m * a + r
<1>2. x \in Nat
  BY <1>1
<1>. DEFINE q == x \div m
            s == x % m
<1>3. q \in Nat /\ s \in 0..m - 1 /\ x = m * q + s
  BY <1>2, Division
<1>4. m * q \in Nat
  BY <1>3
<1>. HIDE DEF q, s
<1>5. m * q + s = m * a + r
  BY <1>3
<1>6. ASSUME q < a PROVE FALSE
  <2>1. m * (q + 1) <= m * a /\ m * (q + 1) = m * q + m
    BY <1>3, <1>6, ProductMonotone
  <2>. QED
    BY <1>1, <1>3, <1>4, <1>5, <2>1
<1>7. ASSUME a < q PROVE FALSE
  <2>1. m * (a + 1) <= m * q /\ m * (a + 1) = m * a + m
    BY <1>3, <1>7, ProductMonotone
  <2>. QED
    BY <1>1, <1>3, <1>4, <1>5, <2>1
<1>8. q = a
  BY <1>3, <1>6, <1>7
<1>9. s = r
  BY <1>1, <1>3, <1>5, <1>8
<1>. QED
  BY <1>2, <1>8, <1>9 DEF q, s

(* Filling the receive queue: the first n full lists leave the pool, what  *)
(* else was taken goes behind the rest.                                    *)
LEMMA RefillMoves ==
  ASSUME IInv, OneOwner, Refill
  PROVE  OneOwner'
<1>. DEFINE toQueue == SRQSize - pending
<1>1. PICK B \in Yields(toQueue * MaxSGEs) :
        LET n == QueuedElems(toQueue, B)
        IN  IF n > freeWRs
            THEN Throw("dry")
            ELSE /\ freeWRs' = freeWRs - n
                 /\ posted' = posted \o [i \in 1..n |-> SGEList(i)]
                 /\ avail' = Leftover(n * MaxSGEs, B)
                 /\ pending' = PendingAfter(n)
                 /\ pc' = "process"
                 /\ UNCHANGED <<app, cq, comps, irb, firstWc, thrown>>
  BY DEF Refill
<1>2. /\ avail \in Seq(Buffers) /\ posted \in Seq(Lists)
      /\ Len(avail) \in Nat /\ Len(posted) \in Nat /\ toQueue \in 1..SRQSize
      /\ MaxSGEs \in Nat \ {0}
  BY Lengths, RecvDispatcherAssumption DEF IInv, TypeOK, Refill
<1>3. B \in 0..Len(avail)
  <2>1. toQueue * MaxSGEs \in Nat
    BY <1>2, RecvDispatcherAssumption
  <2>. QED
    BY <2>1, <1>2 DEF Yields, Smaller
<1>4. CASE QueuedElems(toQueue, B) > freeWRs
  <2>1. UNCHANGED <<avail, app, posted, cq, comps, irb>>
    BY <1>1, <1>4 DEF Throw
  <2>. QED
    BY <2>1, NoneMoves
<1>5. CASE ~(QueuedElems(toQueue, B) > freeWRs)
  <2>. DEFINE n0 == QueuedElems(toQueue, B)
  <2>1. n0 \in Nat /\ MaxSGEs * n0 <= B
    <3>1. B \div MaxSGEs \in Nat /\ MaxSGEs * (B \div MaxSGEs) <= B
      BY <1>2, <1>3, QuotientBound
    <3>. HIDE DEF toQueue
    <3>2. n0 \in Nat /\ n0 <= B \div MaxSGEs
      BY <1>2, <3>1, RecvDispatcherAssumption DEF QueuedElems, Smaller
    <3>. HIDE DEF n0
    <3>3. MaxSGEs * n0 <= MaxSGEs * (B \div MaxSGEs) /\ MaxSGEs * n0 \in Nat
      BY <1>2, <3>1, <3>2, ProductMonotone
    <3>4. MaxSGEs * (B \div MaxSGEs) \in Nat /\ B \in Nat
      BY <1>2, <1>3, <3>1
    <3>. QED
      BY <3>1, <3>2, <3>3, <3>4
  <2>2. PICK n \in Nat : n = n0
    BY <2>1
  <2>3. PICK u \in Nat : u = MaxSGEs * n /\ u <= B
    BY <1>2, <2>1, <2>2
  <2>4. /\ posted' = posted \o [i \in 1..n |-> SGEList(i)]
        /\ avail' = Leftover(u, B)
        /\ UNCHANGED <<app, cq, comps, irb>>
    <3>1. n * MaxSGEs = u
      BY <1>2, <2>3
    <3>. QED
      BY <1>1, <1>5, <2>2, <3>1
  <2>. HIDE DEF n0, toQueue
  <2>5. ASSUME NEW x \in Nat, 1 <= x, x <= u
        PROVE  /\ (x - 1) \div MaxSGEs + 1 \in 1..n
               /\ ((x - 1) % MaxSGEs) + 1 \in 1..MaxSGEs
               /\ x = ((x - 1) \div MaxSGEs + 1 - 1) * MaxSGEs + (((x - 1) % MaxSGEs) + 1)
    <3>. DEFINE a == (x - 1) \div MaxSGEs
                r == ((x - 1) % MaxSGEs)
    <3>1. x - 1 \in Nat
      BY <2>5
    <3>2. a \in Nat /\ r \in 0..MaxSGEs - 1 /\ x - 1 = MaxSGEs * a + r
      BY <1>2, <3>1, Division, Zenon
    <3>. HIDE DEF a, r
    <3>3. a < n
      <4>1. ASSUME n <= a PROVE FALSE
        <5>1. MaxSGEs * n <= MaxSGEs * a /\ MaxSGEs * a \in Nat
          BY <1>2, <3>2, <4>1, ProductMonotone
        <5>. QED
          BY <1>2, <2>3, <2>5, <3>2, <5>1
      <4>. QED
        BY <3>2, <4>1
    <3>4. a + 1 \in 1..n /\ r + 1 \in 1..MaxSGEs
      BY <1>2, <3>2, <3>3
    <3>5. x = (a + 1 - 1) * MaxSGEs + (r + 1)
      <4>1. (a + 1 - 1) * MaxSGEs = MaxSGEs * a /\ MaxSGEs * a \in Nat
        BY <1>2, <3>2
      <4>. QED
        BY <3>2, <4>1
    <3>. QED
      BY <3>4, <3>5 DEF a, r
  <2>6. ASSUME NEW a \in 1..n, NEW j \in 1..MaxSGEs
        PROVE  \E x \in 1..u : (x - 1) \div MaxSGEs + 1 = a /\ ((x - 1) % MaxSGEs) + 1 = j
    <3>. DEFINE b == a - 1
                r == j - 1
    <3>1. b \in Nat /\ r \in 0..MaxSGEs - 1 /\ b + 1 <= n /\ b + 1 \in Nat /\ j = r + 1
      BY <1>2
    <3>. HIDE DEF b, r
    <3>2. /\ MaxSGEs * b + r \in Nat
          /\ (MaxSGEs * b + r) \div MaxSGEs = b /\ (MaxSGEs * b + r) % MaxSGEs = r
      BY <1>2, <3>1, OnlyDivision
    <3>3. b * MaxSGEs = MaxSGEs * b /\ MaxSGEs * b \in Nat
      BY <1>2, <3>1
    <3>4. b * MaxSGEs + j - 1 = MaxSGEs * b + r /\ b * MaxSGEs + j \in Nat
      BY <1>2, <3>1, <3>3
    <3>5. b * MaxSGEs + j <= u
      <4>1. MaxSGEs * (b + 1) <= MaxSGEs * n /\ MaxSGEs * (b + 1) = MaxSGEs * b + MaxSGEs
        BY <1>2, <3>1, ProductMonotone
      <4>. QED
        BY <1>2, <2>3, <3>1, <3>3, <4>1
    <3>6. PICK x \in 1..u : x = b * MaxSGEs + j
      <4>1. b * MaxSGEs + j >= 1
        BY <3>1, <3>3
      <4>. QED
        BY <3>4, <3>5, <4>1
    <3>7. x - 1 = MaxSGEs * b + r
      <4>1. PICK p \in Nat : p = b * MaxSGEs /\ p = MaxSGEs * b
        BY <3>3
      <4>2. x = p + j
        BY <3>6, <4>1
      <4>3. x - 1 = p + r
        BY <3>1, <4>1, <4>2
      <4>. QED
        BY <4>1, <4>3
    <3>8. (x - 1) \div MaxSGEs = b /\ (x - 1) % MaxSGEs = r
      BY <3>2, <3>7, Zenon
    <3>9. b + 1 = a /\ r + 1 = j
      BY <1>2 DEF b, r
    <3>. QED
      BY <3>8, <3>9
  <2>7. ASSUME NEW a \in 1..n
        PROVE  \A j \in 1..MaxSGEs : SGEList(a)[j] = avail[(a - 1) * MaxSGEs + j]
    <3>. DEFINE lo == (a - 1) * MaxSGEs + 1
                hi == a * MaxSGEs
    <3>1. lo \in Nat /\ hi \in Nat /\ 1 <= lo /\ hi - lo + 1 = MaxSGEs
      BY <1>2
    <3>2. hi <= Len(avail)
      <4>1. MaxSGEs * a <= MaxSGEs * n /\ MaxSGEs * a \in Nat
        BY <1>2, ProductMonotone
      <4>2. hi = MaxSGEs * a
        BY <1>2
      <4>. HIDE DEF hi, lo
      <4>. QED
        BY <1>2, <1>3, <2>3, <4>1, <4>2
    <3>3. \A j \in 1..MaxSGEs : lo + j - 1 = (a - 1) * MaxSGEs + j
      <4>1. (a - 1) * MaxSGEs \in Int
        BY <1>2
      <4>. QED
        BY <1>2, <4>1
    <3>4. SGEList(a) = SubSeq(avail, lo, hi)
      BY DEF SGEList
    <3>. HIDE DEF lo, hi
    <3>5. \A i \in lo..hi : avail[i] \in Buffers
      BY <1>2, <3>1, <3>2, ElementOfSeq
    <3>6. \A j \in 1..hi - lo + 1 : SubSeq(avail, lo, hi)[j] = avail[lo + j - 1]
      BY <3>1, <3>5, SubSeqProperties
    <3>. QED
      BY <3>1, <3>3, <3>4, <3>6
  <2>8. /\ Len(posted') = Len(posted) + n
        /\ \A i \in 1..Len(posted) : posted'[i] = posted[i]
        /\ \A i \in 1..n : posted'[Len(posted) + i] = SGEList(i)
    <3>. DEFINE new == [i \in 1..n |-> SGEList(i)]
    <3>1. \A i \in 1..n : SGEList(i) \in Lists
      <4>1. n * MaxSGEs <= Len(avail)
        BY <1>2, <1>3, <2>3
      <4>. QED
        BY <1>2, <4>1, SGEListType
    <3>2. new \in [1..n -> Lists]
      BY <3>1
    <3>3. new \in Seq(Lists) /\ Len(new) = n /\ \A i \in 1..n : new[i] = SGEList(i)
      BY <3>2
    <3>4. posted' = posted \o new
      BY <2>4
    <3>. HIDE DEF new
    <3>5. /\ Len(posted \o new) = Len(posted) + Len(new)
          /\ \A i \in 1..Len(posted) + Len(new) :
               (posted \o new)[i] = IF i <= Len(posted) THEN posted[i]
                                                        ELSE new[i - Len(posted)]
      BY <1>2, <3>3, ConcatProperties
    <3>6. \A i \in 1..n : /\ Len(posted) + i \in 1..Len(posted) + n
                          /\ ~(Len(posted) + i <= Len(posted))
                          /\ (Len(posted) + i) - Len(posted) = i
      BY <1>2
    <3>7. \A i \in 1..Len(posted) : i \in 1..Len(posted) + n /\ i <= Len(posted)
      BY <1>2
    <3>. QED
      BY <3>3, <3>4, <3>5, <3>6, <3>7
  <2>9. /\ Len(avail') = Len(avail) - u
        /\ \A i \in 1..Len(avail) - B : avail'[i] = avail[B + i]
        /\ \A i \in 1..B - u : avail'[(Len(avail) - B) + i] = avail[u + i]
    <3>. DEFINE s == SubSeq(avail, B + 1, Len(avail))
                t == SubSeq(avail, u + 1, B)
    <3>1. /\ s \in Seq(Buffers) /\ Len(s) = Len(avail) - B
          /\ \A i \in 1..Len(avail) - B : s[i] = avail[B + i]
      BY <1>2, <1>3, Cut
    <3>2. /\ t \in Seq(Buffers) /\ Len(t) = B - u
          /\ \A i \in 1..B - u : t[i] = avail[u + i]
      <4>1. \A i \in u + 1..B : avail[i] \in Buffers
        BY <1>2, <1>3, ElementOfSeq
      <4>2. /\ t \in Seq(Buffers)
            /\ Len(t) = IF u + 1 <= B THEN B - (u + 1) + 1 ELSE 0
            /\ \A i \in 1..B - (u + 1) + 1 : t[i] = avail[u + 1 + i - 1]
        BY <1>3, <4>1, SubSeqProperties
      <4>. HIDE DEF t
      <4>3. /\ B \in Nat /\ B - (u + 1) + 1 = B - u
            /\ \A i \in 1..B - u : u + 1 + i - 1 = u + i
        BY <1>3
      <4>. QED
        BY <1>3, <2>3, <4>2, <4>3
    <3>3. avail' = s \o t
      BY <2>4 DEF Leftover
    <3>. HIDE DEF s, t
    <3>4. /\ Len(s \o t) = Len(s) + Len(t)
          /\ \A i \in 1..Len(s) + Len(t) :
               (s \o t)[i] = IF i <= Len(s) THEN s[i] ELSE t[i - Len(s)]
      BY <3>1, <3>2, ConcatProperties
    <3>5. B \in Nat /\ Len(s) \in Nat /\ Len(s) + Len(t) = Len(avail) - u
      BY <1>2, <1>3, <3>1, <3>2
    <3>6. \A i \in 1..Len(avail) - B : i \in 1..Len(s) + Len(t) /\ i <= Len(s)
      BY <1>2, <2>3, <3>1, <3>5
    <3>7. \A i \in 1..B - u : /\ (Len(avail) - B) + i \in 1..Len(s) + Len(t)
                              /\ ~((Len(avail) - B) + i <= Len(s))
                              /\ ((Len(avail) - B) + i) - Len(s) = i
      BY <1>2, <1>3, <3>1, <3>5
    <3>8. \A i \in 1..Len(avail) - B : avail'[i] = avail[B + i]
      BY <3>1, <3>3, <3>4, <3>6
    <3>9. \A i \in 1..B - u : avail'[(Len(avail) - B) + i] = avail[u + i]
      BY <3>2, <3>3, <3>4, <3>7
    <3>. QED
      BY <3>3, <3>4, <3>5, <3>8, <3>9
  <2>10. PICK g : g = [p \in Places |->
           IF p[1] # "pool" THEN p
           ELSE IF p[2] <= u
           THEN <<"posted", Len(posted) + ((p[2] - 1) \div MaxSGEs + 1),
                  ((p[2] - 1) % MaxSGEs) + 1>>
           ELSE IF p[2] <= B THEN <<"pool", (Len(avail) - B) + (p[2] - u), 0>>
           ELSE <<"pool", p[2] - B, 0>>]
    OBVIOUS
  <2>11. ASSUME NEW x \in 1..Len(avail)
         PROVE  g[<<"pool", x, 0>>]
                  = IF x <= u
                    THEN <<"posted", Len(posted) + ((x - 1) \div MaxSGEs + 1),
                           ((x - 1) % MaxSGEs) + 1>>
                    ELSE IF x <= B THEN <<"pool", (Len(avail) - B) + (x - u), 0>>
                    ELSE <<"pool", x - B, 0>>
    <3>1. <<"pool", x, 0>> \in Places
      BY Listed DEF PlacesListed
    <3>. QED
      BY <2>10, <3>1
  <2>12. ASSUME NEW p \in Places PROVE g[p] \in Places' /\ BufferAt(g[p])' = BufferAt(p)
    <3>1. CASE p[1] \in {"cq", "comps", "irb", "app"}
      <4>1. g[p] = p
        BY <2>10, <3>1
      <4>. QED
        BY <2>4, <3>1, <4>1, Stays DEF Kept
    <3>2. CASE p[1] = "posted"
      <4>1. PICK i \in 1..Len(posted), j \in 1..MaxSGEs : p = <<"posted", i, j>>
        BY <3>2, Listed DEF KindsListed
      <4>2. g[p] = p
        BY <2>10, <3>2
      <4>3. i \in 1..Len(posted') /\ posted'[i] = posted[i]
        BY <1>2, <2>8, <4>1
      <4>. QED
        BY <4>1, <4>2, <4>3, Listed, ListedNext DEF PlacesListed
    <3>3. CASE p[1] = "pool"
      <4>1. PICK x \in 1..Len(avail) : p = <<"pool", x, 0>>
        BY <3>3, Listed DEF KindsListed
      <4>2. BufferAt(p) = avail[x]
        BY <4>1, Listed DEF PlacesListed
      <4>3. CASE x <= u
        <5>. DEFINE a == (x - 1) \div MaxSGEs + 1
                    j == ((x - 1) % MaxSGEs) + 1
        <5>1. a \in 1..n /\ j \in 1..MaxSGEs /\ x = (a - 1) * MaxSGEs + j
          BY <1>2, <2>5, <4>1, <4>3
        <5>2. g[p] = <<"posted", Len(posted) + a, j>>
          BY <2>11, <4>1, <4>3
        <5>. HIDE DEF a, j
        <5>3. Len(posted) + a \in 1..Len(posted')
          BY <1>2, <2>8, <5>1
        <5>4. posted'[Len(posted) + a][j] = avail[x]
          BY <2>7, <2>8, <5>1
        <5>. QED
          BY <4>2, <5>1, <5>2, <5>3, <5>4, ListedNext DEF PlacesListed
      <4>4. CASE ~(x <= u) /\ x <= B
        <5>1. x - u \in 1..B - u /\ u + (x - u) = x
          BY <1>2, <1>3, <4>1, <4>4
        <5>2. (Len(avail) - B) + (x - u) \in 1..Len(avail')
          BY <1>2, <1>3, <2>9, <5>1
        <5>3. avail'[(Len(avail) - B) + (x - u)] = avail[x]
          BY <2>9, <5>1
        <5>4. g[p] = <<"pool", (Len(avail) - B) + (x - u), 0>>
          BY <2>11, <4>1, <4>4
        <5>. QED
          BY <4>2, <5>2, <5>3, <5>4, ListedNext DEF PlacesListed
      <4>5. CASE ~(x <= u) /\ ~(x <= B)
        <5>1. x - B \in 1..Len(avail) - B /\ B + (x - B) = x
          BY <1>2, <1>3, <4>1, <4>5
        <5>2. x - B \in 1..Len(avail')
          BY <1>2, <1>3, <2>3, <2>9, <5>1
        <5>3. avail'[x - B] = avail[x]
          BY <2>9, <5>1
        <5>4. g[p] = <<"pool", x - B, 0>>
          BY <2>11, <4>1, <4>5
        <5>. QED
          BY <4>2, <5>2, <5>3, <5>4, ListedNext DEF PlacesListed
      <4>. QED
        BY <4>3, <4>4, <4>5
    <3>. QED
      BY <3>1, <3>2, <3>3, Listed DEF KindsListed
  <2>13. ASSUME NEW q \in Places' PROVE \E p \in Places : g[p] = q
    <3>1. CASE q[1] \in {"cq", "comps", "irb", "app"}
      <4>1. q \in Places
        BY <2>4, <3>1, Stays DEF Kept
      <4>. QED
        BY <2>10, <3>1, <4>1
    <3>2. CASE q[1] = "posted"
      <4>1. PICK i \in 1..Len(posted'), j \in 1..MaxSGEs : q = <<"posted", i, j>>
        BY <3>2, ListedNext DEF KindsListed
      <4>2. CASE i <= Len(posted)
        <5>1. i \in 1..Len(posted)
          BY <1>2, <4>1, <4>2
        <5>2. q \in Places
          BY <4>1, <5>1, Listed DEF PlacesListed
        <5>. QED
          BY <2>10, <3>2, <5>2
      <4>3. CASE ~(i <= Len(posted))
        <5>1. PICK a \in 1..n : i = Len(posted) + a
          <6>1. PICK l \in Nat : l = Len(posted)
            BY <1>2
          <6>2. i \in 1..l + n /\ ~(i <= l)
            BY <2>8, <4>3, <6>1
          <6>3. i - l \in 1..n /\ i = l + (i - l)
            BY <6>2
          <6>. QED
            BY <6>1, <6>3
        <5>2. PICK x \in 1..u : (x - 1) \div MaxSGEs + 1 = a /\ ((x - 1) % MaxSGEs) + 1 = j
          BY <2>6
        <5>3. x \in 1..Len(avail) /\ x <= u
          BY <1>2, <1>3, <2>3
        <5>4. <<"pool", x, 0>> \in Places
          BY <5>3, Listed DEF PlacesListed
        <5>5. g[<<"pool", x, 0>>] = <<"posted", Len(posted) + a, j>>
          BY <2>11, <5>2, <5>3
        <5>. QED
          BY <4>1, <5>1, <5>4, <5>5
      <4>. QED
        BY <4>2, <4>3
    <3>3. CASE q[1] = "pool"
      <4>1. PICK i \in 1..Len(avail') : q = <<"pool", i, 0>>
        BY <3>3, ListedNext DEF KindsListed
      <4>2. CASE i <= Len(avail) - B
        <5>1. PICK x \in 1..Len(avail) : x = B + i /\ ~(x <= u) /\ ~(x <= B) /\ x - B = i
          BY <1>2, <1>3, <2>3, <4>1, <4>2
        <5>2. <<"pool", x, 0>> \in Places
          BY <5>1, Listed DEF PlacesListed
        <5>3. g[<<"pool", x, 0>>] = <<"pool", i, 0>>
          BY <2>11, <5>1
        <5>. QED
          BY <4>1, <5>2, <5>3
      <4>3. CASE ~(i <= Len(avail) - B)
        <5>1. PICK x \in 1..Len(avail) :
                /\ x = u + (i - (Len(avail) - B)) /\ ~(x <= u) /\ x <= B
                /\ (Len(avail) - B) + (x - u) = i
          <6>1. PICK l \in Nat : l = Len(avail)
            BY <1>2
          <6>2. i \in 1..l - u /\ ~(i <= l - B) /\ B \in 0..l /\ u <= B
            BY <1>3, <2>3, <2>9, <4>1, <4>3, <6>1
          <6>3. PICK x \in 1..l : x = u + (i - (l - B)) /\ ~(x <= u) /\ x <= B /\ (l - B) + (x - u) = i
            BY <6>2
          <6>. QED
            BY <6>1, <6>3
        <5>2. <<"pool", x, 0>> \in Places
          BY <5>1, Listed DEF PlacesListed
        <5>3. g[<<"pool", x, 0>>] = <<"pool", i, 0>>
          BY <2>11, <5>1
        <5>. QED
          BY <4>1, <5>2, <5>3
      <4>. QED
        BY <4>2, <4>3
    <3>. QED
      BY <3>1, <3>2, <3>3, ListedNext DEF KindsListed
  <2>. QED
    BY <2>12, <2>13, Moves
<1>. QED
  BY <1>4, <1>5

(* What stands where in two sequences joined.                              *)
LEMMA Joined ==
  ASSUME NEW S, NEW s \in Seq(S), NEW t \in Seq(S)
  PROVE  /\ Len(s \o t) = Len(s) + Len(t)
         /\ \A i \in 1..Len(s) : (s \o t)[i] = s[i]
         /\ \A i \in 1..Len(t) : (s \o t)[Len(s) + i] = t[i]
<1>1. Len(s) \in Nat /\ Len(t) \in Nat
  BY LenProperties
<1>2. /\ Len(s \o t) = Len(s) + Len(t)
      /\ \A i \in 1..Len(s) + Len(t) :
           (s \o t)[i] = IF i <= Len(s) THEN s[i] ELSE t[i - Len(s)]
  BY ConcatProperties
<1>3. \A i \in 1..Len(s) : i \in 1..Len(s) + Len(t) /\ i <= Len(s)
  BY <1>1
<1>4. \A i \in 1..Len(t) : /\ Len(s) + i \in 1..Len(s) + Len(t)
                           /\ ~(Len(s) + i <= Len(s)) /\ (Len(s) + i) - Len(s) = i
  BY <1>1
<1>5. \A i \in 1..Len(s) : (s \o t)[i] = s[i]
  BY <1>2, <1>3
<1>6. \A i \in 1..Len(t) : (s \o t)[Len(s) + i] = t[i]
  BY <1>2, <1>4
<1>. QED
  BY <1>2, <1>5, <1>6

(* What a processed completion does with its list: the first u buffers go  *)
(* with the new entries, the others are unused; an entry without data      *)
(* takes none.                                                             *)
LEMMA ProcessedBuffers ==
  ASSUME NEW c \in Completions
  PROVE  \E u \in 0..MaxSGEs :
           /\ Len(UnusedBuffers(c)) = MaxSGEs - u
           /\ \A j \in 1..MaxSGEs - u : UnusedBuffers(c)[j] = c.bufs[u + j]
           /\ \A j \in 1..u : /\ j \in 1..Len(NewEntries(c))
                              /\ NewEntries(c)[j].buf = c.bufs[j]
                              /\ c.bufs[j] # NULL
           /\ \A j \in 1..Len(NewEntries(c)) : NewEntries(c)[j].buf # NULL => j \in 1..u
<1>1. c.bufs \in Seq(Buffers) /\ Len(c.bufs) = MaxSGEs /\ MaxSGEs \in Nat
  <2>1. c.bufs \in [1..MaxSGEs -> Buffers] /\ MaxSGEs \in Nat
    BY RecvDispatcherAssumption DEF Completions, Lists
  <2>. QED
    BY <2>1
<1>2. \A j \in 1..MaxSGEs : c.bufs[j] # NULL
  <2>1. NULL \notin Buffers
    BY RecvDispatcherAssumption DEF Buffers
  <2>. QED
    BY <1>1, <2>1, ElementOfSeq
<1>3. CASE c.len = 0
  <2>1. UnusedBuffers(c) = c.bufs
    BY <1>3 DEF UnusedBuffers
  <2>2. NewEntries(c) = <<FCEntry(c)>> /\ FCEntry(c).buf = NULL
    BY <1>3 DEF NewEntries, FCEntry
  <2>3. \A j \in 1..Len(NewEntries(c)) : NewEntries(c)[j].buf = NULL
    BY <2>2
  <2>4. \A j \in 1..MaxSGEs - 0 : c.bufs[j] = c.bufs[0 + j]
    BY <1>1
  <2>5. Len(UnusedBuffers(c)) = MaxSGEs - 0 /\ 0 \in 0..MaxSGEs
    BY <1>1, <2>1
  <2>. QED
    BY <2>1, <2>3, <2>4, <2>5
<1>4. CASE c.len # 0
  <2>1. PICK u \in 1..MaxSGEs : u = SGEsUsed(c.len)
    BY RecvDispatcherAssumption DEF SGEsUsed
  <2>2. NewEntries(c) = EntriesOf(c)
    BY <1>4 DEF NewEntries
  <2>3. Len(EntriesOf(c)) = u /\ \A j \in 1..u : EntriesOf(c)[j].buf = c.bufs[j]
    BY <1>1, <2>1 DEF EntriesOf
  <2>4. UnusedBuffers(c) = SubSeq(c.bufs, u + 1, Len(c.bufs))
    BY <1>4, <2>1 DEF UnusedBuffers
  <2>5. u \in 0..Len(c.bufs) /\ u \in 0..MaxSGEs /\ \A j \in 1..u : j \in 1..MaxSGEs
    BY <1>1
  <2>6. /\ Len(UnusedBuffers(c)) = MaxSGEs - u
        /\ \A j \in 1..MaxSGEs - u : UnusedBuffers(c)[j] = c.bufs[u + j]
    BY <1>1, <2>4, <2>5, Cut
  <2>7. /\ \A j \in 1..u : /\ j \in 1..Len(NewEntries(c))
                           /\ NewEntries(c)[j].buf = c.bufs[j]
                           /\ c.bufs[j] # NULL
        /\ \A j \in 1..Len(NewEntries(c)) : NewEntries(c)[j].buf # NULL => j \in 1..u
    BY <1>2, <2>2, <2>3, <2>5
  <2>. QED
    BY <2>5, <2>6, <2>7, Zenon
<1>. QED
  BY <1>3, <1>4

(* A processed completion: its buffers go into the new entries of the IRB  *)
(* and, unused, behind the pool; the other completions move up.            *)
LEMMA ProcessMoves ==
  ASSUME IInv, OneOwner, ProcessCompletion
  PROVE  OneOwner'
<1>1. CASE Insane(Head(comps)) # "none"
  <2>1. UNCHANGED <<avail, app, posted, cq, comps, irb>>
    BY <1>1 DEF ProcessCompletion, Throw
  <2>. QED
    BY <2>1, NoneMoves
<1>2. CASE Insane(Head(comps)) = "none"
  <2>1. /\ comps \in Seq(Completions) /\ Len(comps) \in Nat /\ comps # <<>>
        /\ irb \in Seq(Entries) /\ Len(irb) \in Nat
        /\ avail \in Seq(Buffers) /\ Len(avail) \in Nat
    BY Lengths DEF ProcessCompletion, IInv, TypeOK
  <2>2. /\ Head(comps) \in Completions /\ Head(comps) = comps[1]
        /\ Len(comps) >= 1 /\ Len(Tail(comps)) = Len(comps) - 1
        /\ \A i \in 1..Len(comps) - 1 : Tail(comps)[i] = comps[i + 1]
    <3>1. Len(comps) # 0
      BY <2>1, EmptySeq
    <3>. QED
      BY <2>1, <3>1, HeadTailProperties
  <2>3. PICK c \in Completions : c = Head(comps)
    BY <2>2
  <2>4. /\ irb' = irb \o NewEntries(c) /\ avail' = avail \o UnusedBuffers(c)
        /\ comps' = Tail(comps) /\ UNCHANGED <<app, posted, cq>>
    BY <1>2, <2>3 DEF ProcessCompletion
  <2>5. PICK u \in 0..MaxSGEs :
          /\ Len(UnusedBuffers(c)) = MaxSGEs - u
          /\ \A j \in 1..MaxSGEs - u : UnusedBuffers(c)[j] = c.bufs[u + j]
          /\ \A j \in 1..u : /\ j \in 1..Len(NewEntries(c))
                             /\ NewEntries(c)[j].buf = c.bufs[j]
                             /\ c.bufs[j] # NULL
          /\ \A j \in 1..Len(NewEntries(c)) : NewEntries(c)[j].buf # NULL => j \in 1..u
    BY ProcessedBuffers
  <2>6. PICK k \in Nat : k = Len(NewEntries(c))
    BY ProcessedType, RecvDispatcherAssumption
  <2>7. /\ Len(irb') = Len(irb) + k
        /\ \A i \in 1..Len(irb) : irb'[i] = irb[i]
        /\ \A i \in 1..k : irb'[Len(irb) + i] = NewEntries(c)[i]
    BY <2>1, <2>4, <2>6, ProcessedType, Joined
  <2>8. /\ Len(avail') = Len(avail) + (MaxSGEs - u)
        /\ \A i \in 1..Len(avail) : avail'[i] = avail[i]
        /\ \A i \in 1..MaxSGEs - u : avail'[Len(avail) + i] = c.bufs[u + i]
    <3>1. /\ Len(avail') = Len(avail) + Len(UnusedBuffers(c))
          /\ \A i \in 1..Len(avail) : avail'[i] = avail[i]
          /\ \A i \in 1..Len(UnusedBuffers(c)) :
               avail'[Len(avail) + i] = UnusedBuffers(c)[i]
      BY <2>1, <2>4, ProcessedType, Joined
    <3>. QED
      BY <2>5, <3>1
  <2>9. PICK g : g = [p \in Places |->
          IF p[1] # "comps" THEN p
          ELSE IF p[2] # 1 THEN <<"comps", p[2] - 1, p[3]>>
          ELSE IF p[3] <= u THEN <<"irb", Len(irb) + p[3], 0>>
          ELSE <<"pool", Len(avail) + (p[3] - u), 0>>]
    OBVIOUS
  <2>10. ASSUME NEW i \in 1..Len(comps), NEW j \in 1..MaxSGEs
         PROVE  g[<<"comps", i, j>>]
                  = IF i # 1 THEN <<"comps", i - 1, j>>
                    ELSE IF j <= u THEN <<"irb", Len(irb) + j, 0>>
                    ELSE <<"pool", Len(avail) + (j - u), 0>>
    BY <2>9, Listed DEF PlacesListed
  <2>11. MaxSGEs \in Nat
    BY RecvDispatcherAssumption
  <2>12. 1 \in 1..Len(comps)
    BY <2>1, <2>2
  <2>13. ASSUME NEW p \in Places PROVE g[p] \in Places' /\ BufferAt(g[p])' = BufferAt(p)
    <3>1. CASE p[1] \in {"posted", "cq", "app"}
      <4>1. g[p] = p
        BY <2>9, <3>1
      <4>. QED
        BY <2>4, <3>1, <4>1, Stays DEF Kept
    <3>2. CASE p[1] = "pool"
      <4>1. PICK i \in 1..Len(avail) : p = <<"pool", i, 0>>
        BY <3>2, Listed DEF KindsListed
      <4>2. g[p] = p
        BY <2>9, <3>2
      <4>3. i \in 1..Len(avail') /\ avail'[i] = avail[i]
        BY <2>1, <2>8, <2>11, <4>1
      <4>. QED
        BY <4>1, <4>2, <4>3, Listed, ListedNext DEF PlacesListed
    <3>3. CASE p[1] = "irb"
      <4>1. PICK i \in 1..Len(irb) : irb[i].buf # NULL /\ p = <<"irb", i, 0>>
        BY <3>3, Listed DEF KindsListed
      <4>2. g[p] = p
        BY <2>9, <3>3
      <4>3. i \in 1..Len(irb') /\ irb'[i] = irb[i]
        BY <2>1, <2>7, <4>1
      <4>. QED
        BY <4>1, <4>2, <4>3, Listed, ListedNext DEF PlacesListed
    <3>4. CASE p[1] = "comps"
      <4>1. PICK i \in 1..Len(comps), j \in 1..MaxSGEs : p = <<"comps", i, j>>
        BY <3>4, Listed DEF KindsListed
      <4>2. BufferAt(p) = comps[i].bufs[j]
        BY <4>1, Listed DEF PlacesListed
      <4>3. CASE i # 1
        <5>1. i - 1 \in 1..Len(comps') /\ i - 1 \in 1..Len(comps) - 1 /\ (i - 1) + 1 = i
          BY <2>1, <2>2, <2>4, <4>1, <4>3
        <5>2. comps'[i - 1] = comps[i]
          BY <2>2, <2>4, <5>1
        <5>3. g[p] = <<"comps", i - 1, j>>
          BY <2>10, <4>1, <4>3
        <5>. QED
          BY <4>2, <5>1, <5>2, <5>3, ListedNext DEF PlacesListed
      <4>4. CASE i = 1 /\ j <= u
        <5>1. j \in 1..u
          BY <2>11, <4>4
        <5>2. j \in 1..k /\ Len(irb) + j \in 1..Len(irb')
          <6>1. j \in 1..k
            BY <2>5, <2>6, <5>1
          <6>. QED
            BY <2>1, <2>7, <5>1, <6>1
        <5>3. irb'[Len(irb) + j].buf = c.bufs[j] /\ c.bufs[j] # NULL
          BY <2>5, <2>7, <5>1, <5>2
        <5>4. g[p] = <<"irb", Len(irb) + j, 0>>
          BY <2>10, <4>1, <4>4
        <5>5. BufferAt(p) = c.bufs[j]
          BY <2>2, <2>3, <4>2, <4>4
        <5>. QED
          BY <5>2, <5>3, <5>4, <5>5, ListedNext DEF PlacesListed
      <4>5. CASE i = 1 /\ ~(j <= u)
        <5>1. /\ j - u \in 1..MaxSGEs - u /\ u + (j - u) = j
              /\ Len(avail) + (j - u) \in 1..Len(avail')
          BY <2>1, <2>8, <2>11, <4>5
        <5>2. avail'[Len(avail) + (j - u)] = c.bufs[j]
          BY <2>8, <5>1
        <5>3. g[p] = <<"pool", Len(avail) + (j - u), 0>>
          BY <2>10, <4>1, <4>5
        <5>4. BufferAt(p) = c.bufs[j]
          BY <2>2, <2>3, <4>2, <4>5
        <5>. QED
          BY <5>1, <5>2, <5>3, <5>4, ListedNext DEF PlacesListed
      <4>. QED
        BY <4>3, <4>4, <4>5
    <3>. QED
      BY <3>1, <3>2, <3>3, <3>4, Listed DEF KindsListed
  <2>14. ASSUME NEW q \in Places' PROVE \E p \in Places : g[p] = q
    <3>1. CASE q[1] \in {"posted", "cq", "app"}
      <4>1. q \in Places
        BY <2>4, <3>1, Stays DEF Kept
      <4>. QED
        BY <2>9, <3>1, <4>1
    <3>2. CASE q[1] = "pool"
      <4>1. PICK i \in 1..Len(avail') : q = <<"pool", i, 0>>
        BY <3>2, ListedNext DEF KindsListed
      <4>2. CASE i <= Len(avail)
        <5>1. q \in Places
          BY <2>1, <4>1, <4>2, Listed DEF PlacesListed
        <5>. QED
          BY <2>9, <3>2, <5>1
      <4>3. CASE ~(i <= Len(avail))
        <5>1. PICK j \in 1..MaxSGEs : ~(j <= u) /\ i = Len(avail) + (j - u)
          <6>1. PICK l \in Nat : l = Len(avail)
            BY <2>1
          <6>2. i \in 1..l + (MaxSGEs - u) /\ ~(i <= l)
            BY <2>8, <4>3, <6>1
          <6>3. PICK j \in 1..MaxSGEs : j = (i - l) + u /\ ~(j <= u) /\ i = l + (j - u)
            BY <2>11, <6>2
          <6>. QED
            BY <6>1, <6>3
        <5>2. <<"comps", 1, j>> \in Places
          BY <2>12, Listed DEF PlacesListed
        <5>3. g[<<"comps", 1, j>>] = <<"pool", Len(avail) + (j - u), 0>>
          BY <2>10, <2>12, <5>1
        <5>. QED
          BY <4>1, <5>1, <5>2, <5>3
      <4>. QED
        BY <4>2, <4>3
    <3>3. CASE q[1] = "irb"
      <4>1. PICK i \in 1..Len(irb') : irb'[i].buf # NULL /\ q = <<"irb", i, 0>>
        BY <3>3, ListedNext DEF KindsListed
      <4>2. CASE i <= Len(irb)
        <5>1. i \in 1..Len(irb) /\ irb[i].buf # NULL
          BY <2>1, <2>7, <4>1, <4>2
        <5>2. q \in Places
          BY <4>1, <5>1, Listed DEF PlacesListed
        <5>. QED
          BY <2>9, <3>3, <5>2
      <4>3. CASE ~(i <= Len(irb))
        <5>1. PICK j \in 1..k : i = Len(irb) + j
          <6>1. PICK l \in Nat : l = Len(irb)
            BY <2>1
          <6>2. i \in 1..l + k /\ ~(i <= l)
            BY <2>7, <4>3, <6>1
          <6>3. i - l \in 1..k /\ i = l + (i - l)
            BY <6>2
          <6>. QED
            BY <6>1, <6>3
        <5>2. NewEntries(c)[j].buf # NULL
          BY <2>7, <4>1, <5>1
        <5>3. j \in 1..u
          BY <2>5, <2>6, <5>2
        <5>4. j \in 1..MaxSGEs /\ j <= u
          BY <2>11, <5>3
        <5>5. <<"comps", 1, j>> \in Places
          BY <2>12, <5>4, Listed DEF PlacesListed
        <5>6. g[<<"comps", 1, j>>] = <<"irb", Len(irb) + j, 0>>
          BY <2>10, <2>12, <5>4
        <5>. QED
          BY <4>1, <5>1, <5>5, <5>6
      <4>. QED
        BY <4>2, <4>3
    <3>4. CASE q[1] = "comps"
      <4>1. PICK i \in 1..Len(comps'), j \in 1..MaxSGEs : q = <<"comps", i, j>>
        BY <3>4, ListedNext DEF KindsListed
      <4>2. i + 1 \in 1..Len(comps) /\ i + 1 # 1 /\ (i + 1) - 1 = i
        BY <2>1, <2>2, <2>4, <4>1
      <4>3. <<"comps", i + 1, j>> \in Places
        BY <4>1, <4>2, Listed DEF PlacesListed
      <4>4. g[<<"comps", i + 1, j>>] = q
        BY <2>10, <4>1, <4>2
      <4>. QED
        BY <4>3, <4>4
    <3>. QED
      BY <3>1, <3>2, <3>3, <3>4, ListedNext DEF KindsListed
  <2>. QED
    BY <2>13, <2>14, Moves
<1>. QED
  BY <1>1, <1>2

(* Initially every buffer is in the pool.                                  *)
LEMMA InitOneOwner == Init => OneOwner
<1>. SUFFICES ASSUME Init, NEW b \in Buffers
              PROVE  \E p \in Places : \A q \in Places : BufferAt(q) = b <=> q = p
  BY DEF OneOwner
<1>1. /\ PoolSize \in Nat /\ b \in Int /\ b + 1 \in 1..PoolSize
  BY RecvDispatcherAssumption DEF Buffers
<1>2. Len(avail) = PoolSize /\ \A i \in 1..PoolSize : avail[i] = i - 1
  BY <1>1 DEF Init
<1>3. Len(posted) = 0 /\ Len(cq) = 0 /\ Len(comps) = 0 /\ Len(irb) = 0 /\ app = {}
  BY DEF Init
<1>4. <<"pool", b + 1, 0>> \in Places /\ BufferAt(<<"pool", b + 1, 0>>) = b
  BY <1>1, <1>2, Listed DEF PlacesListed
<1>5. ASSUME NEW q \in Places, BufferAt(q) = b PROVE q = <<"pool", b + 1, 0>>
  <2>1. PICK i \in 1..PoolSize : q = <<"pool", i, 0>>
    BY <1>2, <1>3, Listed DEF KindsListed
  <2>2. BufferAt(q) = i - 1
    BY <1>2, <2>1, Listed DEF PlacesListed
  <2>3. i = b + 1
    BY <1>1, <1>5, <2>2
  <2>. QED
    BY <2>1, <2>3
<1>. QED
  BY <1>4, <1>5

(* Every step of the receive path leaves every buffer with one owner.      *)
LEMMA NextOneOwner == IInv /\ OneOwner /\ [Next]_vars => OneOwner'
<1>. SUFFICES ASSUME IInv, OneOwner, [Next]_vars PROVE OneOwner'
  OBVIOUS
<1>1. CASE Poll
  BY <1>1, PollMoves
<1>2. CASE Refill
  BY <1>2, RefillMoves
<1>3. CASE ProcessCompletion
  BY <1>3, ProcessMoves
<1>4. CASE \/ SkipRefill \/ EndProcess \/ NothingReceived
           \/ PollFails \/ PostFails \/ FailedCompletion \/ UNCHANGED vars
  <2>1. UNCHANGED <<avail, app, posted, cq, comps, irb>>
    BY <1>4 DEF SkipRefill, EndProcess, NothingReceived, PollFails, PostFails,
                FailedCompletion, Throw, vars
  <2>. QED
    BY <2>1, NoneMoves
<1>5. CASE \E k \in 0..IRBSize : DispatchReceived(k)
  BY <1>5, DispatchMoves
<1>6. CASE \E b \in Buffers : ReturnBuffer(b)
  BY <1>6, ReturnMoves
<1>7. CASE \E src \in Nodes, len \in 0..MaxSGEs * BufferSize, fc \in 0..MaxFC :
             Receive(src, len, fc)
  BY <1>7, CompleteMoves DEF Receive
<1>8. CASE \E status \in {"retry_exc", "other"}, src \in Nodes :
             ReceiveFails(status, src)
  BY <1>8, CompleteMoves DEF ReceiveFails
<1>. QED
  BY <1>1, <1>2, <1>3, <1>4, <1>5, <1>6, <1>7, <1>8 DEF Next, Dispatch

(* Every receive buffer is always in exactly one place: in the pool, in a  *)
(* posted, completed or polled work request, in one entry of the IRB or    *)
(* with the application.  None is lost when a message fills only a part of *)
(* its list, when buffers are left over from a refill, or when the handler *)
(* takes a part of the entries; none is written while it is read.          *)
THEOREM OneOwnerHolds == Spec => []OneOwner
<1>1. Init => IInv /\ OneOwner
  BY InitIInv, InitOneOwner
<1>2. (IInv /\ OneOwner) /\ [Next]_vars => (IInv /\ OneOwner)'
  BY NextIInv, NextOneOwner
<1>3. Spec => [](IInv /\ OneOwner)
  BY <1>1, <1>2, PTL DEF Spec
<1>. QED
  BY <1>3, PTL

-----------------------------------------------------------------------------
(* Joined lists of sequences.  What the fold FlattenSeq computes needs an  *)
(* induction over the natural numbers; there is one for sets of them.      *)

(* Induction over the natural numbers, for a set of them: were a number    *)
(* missing, the successor function would take the finitely many smaller    *)
(* ones that are in the set one to one to fewer, without zero.             *)
LEMMA SetInduction ==
  ASSUME NEW P, 0 \in P, \A n \in Nat : n \in P => n + 1 \in P
  PROVE  Nat \subseteq P
<1>. SUFFICES ASSUME NEW n \in Nat, n \notin P PROVE FALSE
  OBVIOUS
<1>. DEFINE S == P \cap (0..n)
            T == S \ {0}
<1>1. IsFiniteSet(S)
  <2>1. IsFiniteSet(0..n)
    BY FS_Interval
  <2>2. S \in SUBSET (0..n)
    OBVIOUS
  <2>. HIDE DEF S
  <2>. QED
    BY <2>1, <2>2, FS_Subset
<1>2. IsFiniteSet(T) /\ Cardinality(T) = Cardinality(S) - 1 /\ Cardinality(S) \in Nat
  <2>1. 0 \in S
    OBVIOUS
  <2>. HIDE DEF S
  <2>. QED
    BY <1>1, <2>1, FS_RemoveElement, FS_CardinalityType
<1>3. PICK f : f = [i \in S |-> i + 1]
  OBVIOUS
<1>4. f \in [S -> T]
  <2>1. ASSUME NEW i \in S PROVE i + 1 \in T
    OBVIOUS
  <2>. QED
    BY <1>3, <2>1
<1>5. \A i, j \in S : f[i] = f[j] => i = j
  BY <1>3
<1>. QED
  <2>1. Cardinality(T) < Cardinality(S)
    BY <1>2
  <2>. HIDE DEF S, T
  <2>. QED
    BY <1>1, <1>2, <1>4, <1>5, <2>1, FS_PigeonHole

(* A function as FlattenSeq defines one, for the first n sequences.        *)
Flattens(f, seqs, n) ==
  f = [i \in 1..n |-> IF i = 1 THEN seqs[i] ELSE f[i - 1] \o seqs[i]]

(* There is one for every number of sequences.                             *)
LEMMA FlattenExists ==
  ASSUME NEW seqs, NEW n \in Nat
  PROVE  \E f : Flattens(f, seqs, n)
<1>. DEFINE P == {k \in Nat : \E f : Flattens(f, seqs, k)}
<1>1. 0 \in P
  <2>1. PICK f : f = [i \in 1..0 |-> seqs[i]]
    OBVIOUS
  <2>2. f = [i \in 1..0 |-> IF i = 1 THEN seqs[i] ELSE f[i - 1] \o seqs[i]]
    BY <2>1
  <2>. QED
    BY <2>2 DEF Flattens
<1>2. ASSUME NEW k \in Nat, k \in P PROVE k + 1 \in P
  <2>1. PICK f : f = [i \in 1..k |-> IF i = 1 THEN seqs[i] ELSE f[i - 1] \o seqs[i]]
    BY <1>2 DEF Flattens
  <2>2. PICK g : g = [i \in 1..k + 1 |-> IF i = 1 THEN seqs[i] ELSE f[i - 1] \o seqs[i]]
    OBVIOUS
  <2>3. ASSUME NEW i \in 1..k + 1, i # 1 PROVE g[i - 1] = f[i - 1]
    <3>1. i - 1 \in 1..k /\ i - 1 \in 1..k + 1
      BY <2>3
    <3>. QED
      BY <2>1, <2>2, <3>1
  <2>4. g = [i \in 1..k + 1 |-> IF i = 1 THEN seqs[i] ELSE g[i - 1] \o seqs[i]]
    BY <2>2, <2>3
  <2>5. Flattens(g, seqs, k + 1)
    BY <2>4 DEF Flattens
  <2>. QED
    BY <2>5
<1>3. \A k \in Nat : k \in P => k + 1 \in P
  BY <1>2
<1>. HIDE DEF P
<1>4. n \in P
  BY <1>1, <1>3, SetInduction
<1>. QED
  BY <1>4 DEF P

(* And it is the only one, as far as the sequences are the same.           *)
LEMMA FlattenUnique ==
  ASSUME NEW s, NEW t, NEW m \in Nat, NEW n \in Nat, n <= m,
         NEW f, Flattens(f, s, n), NEW g, Flattens(g, t, m),
         \A i \in 1..n : s[i] = t[i]
  PROVE  \A i \in 1..n : f[i] = g[i]
<1>. DEFINE P == {k \in Nat : k \in 1..n => f[k] = g[k]}
<1>1. /\ \A i \in 1..n : f[i] = IF i = 1 THEN s[i] ELSE f[i - 1] \o s[i]
      /\ \A i \in 1..n : g[i] = IF i = 1 THEN t[i] ELSE g[i - 1] \o t[i]
  <2>1. f = [i \in 1..n |-> IF i = 1 THEN s[i] ELSE f[i - 1] \o s[i]]
    BY DEF Flattens
  <2>2. g = [i \in 1..m |-> IF i = 1 THEN t[i] ELSE g[i - 1] \o t[i]]
    BY DEF Flattens
  <2>3. \A i \in 1..m : g[i] = IF i = 1 THEN t[i] ELSE g[i - 1] \o t[i]
    BY <2>2
  <2>4. \A i \in 1..n : f[i] = IF i = 1 THEN s[i] ELSE f[i - 1] \o s[i]
    BY <2>1
  <2>5. \A i \in 1..n : i \in 1..m
    OBVIOUS
  <2>. QED
    BY <2>3, <2>4, <2>5
<1>2. 0 \in P
  OBVIOUS
<1>3. ASSUME NEW k \in Nat, k \in P PROVE k + 1 \in P
  <2>. SUFFICES ASSUME k + 1 \in 1..n PROVE f[k + 1] = g[k + 1]
    OBVIOUS
  <2>1. CASE k + 1 = 1
    BY <1>1, <2>1
  <2>2. CASE k + 1 # 1
    <3>1. k \in 1..n /\ (k + 1) - 1 = k
      BY <2>2
    <3>2. f[k] = g[k]
      BY <1>3, <3>1
    <3>. QED
      BY <1>1, <2>2, <3>1, <3>2
  <2>. QED
    BY <2>1, <2>2
<1>4. \A k \in Nat : k \in P => k + 1 \in P
  BY <1>3
<1>. HIDE DEF P
<1>5. Nat \subseteq P
  BY <1>2, <1>4, SetInduction
<1>6. 1..n \subseteq Nat
  OBVIOUS
<1>. QED
  BY <1>5, <1>6 DEF P

(* FlattenSeq takes the last value of this function.                       *)
LEMMA FlattenIs ==
  ASSUME NEW seqs, Len(seqs) \in Nat \ {0}
  PROVE  \E f : Flattens(f, seqs, Len(seqs)) /\ FlattenSeq(seqs) = f[Len(seqs)]
<1>1. \E f : Flattens(f, seqs, Len(seqs))
  BY FlattenExists
<1>2. FlattenSeq(seqs) = (CHOOSE f : Flattens(f, seqs, Len(seqs)))[Len(seqs)]
  BY DEF FlattenSeq, Flattens
<1>. QED
  BY <1>1, <1>2

(* One more sequence goes to the end of the joined ones.                   *)
LEMMA FlattenOne ==
  ASSUME NEW S, NEW s \in Seq(Seq(S)), NEW x \in Seq(S)
  PROVE  FlattenSeq(Append(s, x)) = IF s = <<>> THEN x ELSE FlattenSeq(s) \o x
<1>. DEFINE t == Append(s, x)
<1>0. PICK n \in Nat : n = Len(s)
  BY LenProperties
<1>1. /\ n \in Nat /\ Len(t) = n + 1
      /\ \A i \in 1..n : t[i] = s[i]
      /\ t[n + 1] = x
  BY <1>0, AppendProperties
<1>. HIDE DEF t
<1>2. PICK g : Flattens(g, t, n + 1) /\ FlattenSeq(t) = g[n + 1]
  <2>1. Len(t) \in Nat \ {0}
    BY <1>1
  <2>. QED
    BY <1>1, <2>1, FlattenIs
<1>3. \A i \in 1..n + 1 : g[i] = IF i = 1 THEN t[i] ELSE g[i - 1] \o t[i]
  BY <1>2 DEF Flattens
<1>4. g[n + 1] = IF n + 1 = 1 THEN x ELSE g[n] \o x
  <2>1. n + 1 \in 1..n + 1 /\ (n + 1) - 1 = n
    OBVIOUS
  <2>. QED
    BY <1>1, <1>3, <2>1
<1>5. s = <<>> <=> n = 0
  BY <1>0, EmptySeq
<1>6. CASE n = 0
  BY <1>2, <1>4, <1>5, <1>6 DEF t
<1>7. CASE n # 0
  <2>1. PICK f : Flattens(f, s, n) /\ FlattenSeq(s) = f[n]
    BY <1>0, <1>7, FlattenIs
  <2>2. f[n] = g[n]
    <3>1. \A i \in 1..n : f[i] = g[i]
      <4>1. PICK m \in Nat : m = n + 1
        BY <1>1
      <4>2. n <= m /\ \A i \in 1..n : s[i] = t[i]
        BY <1>1, <4>1
      <4>3. Flattens(f, s, n) /\ Flattens(g, t, m)
        BY <1>2, <2>1, <4>1
      <4>. QED
        BY <1>1, <4>2, <4>3, FlattenUnique
    <3>. QED
      BY <1>1, <1>7, <3>1
  <2>3. FlattenSeq(t) = FlattenSeq(s) \o x
    BY <1>1, <1>2, <1>4, <1>7, <2>1, <2>2
  <2>. QED
    BY <1>5, <1>7, <2>3 DEF t
<1>. QED
  BY <1>1, <1>6, <1>7

(* Nothing flattens to nothing.                                            *)
LEMMA FlattenEmpty == FlattenSeq(<<>>) = <<>>
  BY DEF FlattenSeq

(* Sequences flatten to a sequence of what their elements are.             *)
LEMMA FlattenType ==
  ASSUME NEW S
  PROVE  \A s \in Seq(Seq(S)) : FlattenSeq(s) \in Seq(S)
<1>. DEFINE P == {k \in Nat : \A s \in Seq(Seq(S)) : Len(s) = k => FlattenSeq(s) \in Seq(S)}
<1>1. 0 \in P
  <2>1. ASSUME NEW s \in Seq(Seq(S)), Len(s) = 0 PROVE FlattenSeq(s) \in Seq(S)
    BY <2>1, EmptySeq, FlattenEmpty
  <2>. QED
    BY <2>1
<1>2. ASSUME NEW k \in Nat, k \in P PROVE k + 1 \in P
  <2>1. ASSUME NEW s \in Seq(Seq(S)), Len(s) = k + 1 PROVE FlattenSeq(s) \in Seq(S)
    <3>1. s # <<>>
      BY <2>1, EmptySeq
    <3>2. PICK r \in Seq(Seq(S)), x \in Seq(S) : s = Append(r, x)
      BY <3>1, SequenceEmptyOrAppend
    <3>3. Len(r) = k
      BY <2>1, <3>2, AppendProperties, LenProperties
    <3>4. FlattenSeq(r) \in Seq(S)
      BY <1>2, <3>3
    <3>5. FlattenSeq(r) \o x \in Seq(S)
      BY <3>4, ConcatProperties
    <3>. QED
      BY <3>2, <3>5, FlattenOne
  <2>. QED
    BY <2>1
<1>3. \A k \in Nat : k \in P => k + 1 \in P
  BY <1>2
<1>. HIDE DEF P
<1>4. Nat \subseteq P
  BY <1>1, <1>3, SetInduction
<1>. TAKE s \in Seq(Seq(S))
<1>5. Len(s) \in P
  BY <1>4, LenProperties
<1>. QED
  BY <1>5 DEF P

(* The same without the case of the first sequence.                        *)
LEMMA FlattenAppend ==
  ASSUME NEW S, NEW s \in Seq(Seq(S)), NEW x \in Seq(S)
  PROVE  FlattenSeq(Append(s, x)) = FlattenSeq(s) \o x
<1>1. CASE s = <<>>
  <2>1. FlattenSeq(s) \o x = x
    BY <1>1, FlattenEmpty, ConcatEmptySeq
  <2>. QED
    BY <1>1, <2>1, FlattenOne
<1>2. CASE s # <<>>
  BY <1>2, FlattenOne
<1>. QED
  BY <1>1, <1>2

(* Flattening joined lists of sequences joins what they flatten to.        *)
LEMMA FlattenConcat ==
  ASSUME NEW S, NEW s \in Seq(Seq(S))
  PROVE  \A t \in Seq(Seq(S)) : FlattenSeq(s \o t) = FlattenSeq(s) \o FlattenSeq(t)
<1>. DEFINE Q(t) == FlattenSeq(s \o t) = FlattenSeq(s) \o FlattenSeq(t)
            P == {k \in Nat : \A t \in Seq(Seq(S)) : Len(t) = k => Q(t)}
<1>0. FlattenSeq(s) \in Seq(S)
  BY FlattenType
<1>1. 0 \in P
  <2>1. ASSUME NEW t \in Seq(Seq(S)), Len(t) = 0 PROVE Q(t)
    <3>1. t = <<>>
      BY <2>1, EmptySeq
    <3>2. s \o t = s /\ FlattenSeq(s) \o <<>> = FlattenSeq(s)
      BY <1>0, <3>1, ConcatEmptySeq
    <3>. QED
      BY <3>1, <3>2, FlattenEmpty
  <2>. QED
    BY <2>1
<1>2. ASSUME NEW k \in Nat, k \in P PROVE k + 1 \in P
  <2>1. ASSUME NEW t \in Seq(Seq(S)), Len(t) = k + 1 PROVE Q(t)
    <3>1. t # <<>>
      BY <2>1, EmptySeq
    <3>2. PICK r \in Seq(Seq(S)), x \in Seq(S) : t = Append(r, x)
      BY <3>1, SequenceEmptyOrAppend
    <3>3. Len(r) = k
      BY <2>1, <3>2, AppendProperties, LenProperties
    <3>4. FlattenSeq(s \o r) = FlattenSeq(s) \o FlattenSeq(r)
      BY <1>2, <3>3
    <3>5. s \o t = Append(s \o r, x)
      <4>1. t = r \o <<x>> /\ Append(s \o r, x) = (s \o r) \o <<x>>
        BY <3>2, AppendIsConcat, ConcatProperties
      <4>2. <<x>> \in Seq(Seq(S))
        OBVIOUS
      <4>. QED
        BY <4>1, <4>2, ConcatAssociative
    <3>6. FlattenSeq(s \o t) = (FlattenSeq(s) \o FlattenSeq(r)) \o x
      <4>1. s \o r \in Seq(Seq(S))
        BY ConcatProperties
      <4>2. FlattenSeq(Append(s \o r, x)) = FlattenSeq(s \o r) \o x
        BY <4>1, FlattenAppend
      <4>. QED
        BY <3>4, <3>5, <4>2
    <3>7. FlattenSeq(t) = FlattenSeq(r) \o x
      BY <3>2, FlattenAppend
    <3>8. FlattenSeq(r) \in Seq(S)
      BY FlattenType
    <3>. QED
      BY <1>0, <3>6, <3>7, <3>8, ConcatAssociative
  <2>. QED
    BY <2>1
<1>3. \A k \in Nat : k \in P => k + 1 \in P
  BY <1>2
<1>. HIDE DEF P
<1>4. Nat \subseteq P
  BY <1>1, <1>3, SetInduction
<1>. TAKE t \in Seq(Seq(S))
<1>5. Len(t) \in P
  BY <1>4, LenProperties
<1>. QED
  BY <1>5 DEF P

-----------------------------------------------------------------------------
(* The pieces of a message: what the abstract specification cuts it into   *)
(* and what the entries made of its completion are.                        *)
PieceSet == [src : Nodes, len : Nat, fc : 0..MaxFC]

(* The lengths of the pieces of a message of the given length.             *)
PieceLengths(len) == Stream!Full(len) \o Stream!Rest(len)

(* The first q pieces fill a buffer, one more has the rest r, if any.      *)
LEMMA PieceLengthsAre ==
  ASSUME NEW len \in Nat, NEW q \in Nat, NEW r \in 0..BufferSize - 1,
         len \div BufferSize = q, len % BufferSize = r
  PROVE  /\ Len(PieceLengths(len)) = IF r = 0 /\ len > 0 THEN q ELSE q + 1
         /\ DOMAIN PieceLengths(len) = 1..Len(PieceLengths(len))
         /\ \A i \in 1..Len(PieceLengths(len)) :
              PieceLengths(len)[i] = IF i <= q THEN BufferSize ELSE r
<1>. DEFINE full == [i \in 1..q |-> BufferSize]
            rest == IF r = 0 /\ len > 0 THEN <<>> ELSE <<r>>
<1>0. BufferSize \in Nat /\ r \in Nat
  BY RecvDispatcherAssumption
<1>1. PieceLengths(len) = full \o rest
  BY Zenon DEF PieceLengths, Stream!Full, Stream!Rest
<1>2. full \in Seq(Nat) /\ Len(full) = q /\ \A i \in 1..q : full[i] = BufferSize
  <2>1. full \in [1..q -> Nat]
    BY <1>0
  <2>. QED
    BY <2>1
<1>3. /\ rest \in Seq(Nat) /\ Len(rest) \in {0, 1} /\ \A i \in 1..Len(rest) : rest[i] = r
      /\ Len(rest) = IF r = 0 /\ len > 0 THEN 0 ELSE 1
  BY <1>0
<1>. HIDE DEF full, rest
<1>4. /\ full \o rest \in Seq(Nat)
      /\ Len(full \o rest) = Len(full) + Len(rest)
      /\ \A i \in 1..Len(full) : (full \o rest)[i] = full[i]
      /\ \A i \in 1..Len(rest) : (full \o rest)[Len(full) + i] = rest[i]
  <2>1. full \o rest \in Seq(Nat)
    BY <1>2, <1>3, ConcatProperties
  <2>2. /\ Len(full \o rest) = Len(full) + Len(rest)
        /\ \A i \in 1..Len(full) : (full \o rest)[i] = full[i]
        /\ \A i \in 1..Len(rest) : (full \o rest)[Len(full) + i] = rest[i]
    <3>1. full \in Seq(Nat) /\ rest \in Seq(Nat)
      BY <1>2, <1>3
    <3>. QED
      BY <3>1, Joined
  <2>. QED
    BY <2>1, <2>2
<1>5. DOMAIN PieceLengths(len) = 1..Len(PieceLengths(len))
  BY <1>1, <1>4, LenProperties
<1>6. ASSUME NEW i \in 1..q + Len(rest)
      PROVE  PieceLengths(len)[i] = IF i <= q THEN BufferSize ELSE r
  <2>1. CASE i <= q
    <3>1. i \in 1..q
      BY <2>1
    <3>. QED
      BY <1>1, <1>2, <1>4, <2>1, <3>1
  <2>2. CASE ~(i <= q)
    <3>1. Len(rest) = 1 /\ i = q + 1 /\ 1 \in 1..Len(rest)
      BY <1>3, <2>2
    <3>2. (full \o rest)[q + 1] = rest[1] /\ rest[1] = r
      BY <1>2, <1>3, <1>4, <3>1
    <3>. QED
      BY <1>1, <2>2, <3>1, <3>2
  <2>. QED
    BY <2>1, <2>2
<1>7. Len(PieceLengths(len)) = q + Len(rest)
  BY <1>1, <1>2, <1>4
<1>. QED
  BY <1>3, <1>5, <1>6, <1>7

(* Dividing by a common factor keeps the order.                            *)
LEMMA LessFactor ==
  ASSUME NEW m \in Nat, NEW a \in Nat, NEW b \in Nat, m * a < m * b
  PROVE  a < b
<1>. SUFFICES ASSUME b <= a PROVE FALSE
  OBVIOUS
<1>1. m * b \in Nat /\ m * b <= m * a
  BY ProductMonotone
<1>2. m * a \in Nat
  OBVIOUS
<1>. QED
  BY <1>1, <1>2

(* __ProcessCompletions fills as many SGEs as there are pieces, each with  *)
(* the length of its piece.                                                *)
LEMMA CutLengths ==
  ASSUME NEW len \in Nat, len > 0, len <= MaxSGEs * BufferSize
  PROVE  /\ SGEsUsed(len) = Len(PieceLengths(len))
         /\ \A i \in 1..SGEsUsed(len) : DataLength(len, i) = PieceLengths(len)[i]
<1>0. BufferSize \in Nat \ {0} /\ MaxSGEs \in Nat \ {0}
  BY RecvDispatcherAssumption
<1>1. PICK B \in Nat \ {0} : B = BufferSize
  BY <1>0
<1>2. PICK q \in Nat, r \in 0..B - 1 :
        len \div B = q /\ len % B = r /\ len = B * q + r
  <2>1. len \div B \in Nat /\ len % B \in 0..B - 1 /\ len = B * (len \div B) + (len % B)
    BY Division
  <2>. QED
    BY <2>1, Zenon
<1>3. PICK n \in Nat : n = IF r = 0 THEN q ELSE q + 1
  BY <1>2
<1>4. B * q \in Nat /\ B * 1 = B /\ B * 0 = 0
  BY <1>1
<1>5. n \in Nat \ {0}
  BY <1>2, <1>3, <1>4
<1>6. PICK p \in Nat : p = n - 1
  BY <1>5
<1>7. B * p < len /\ len <= B * n
  <2>1. B * (q + 1) = B * q + B /\ (n = p + 1 => B * n = B * p + B) /\ B * p \in Nat
    BY <1>1, <1>2, <1>6
  <2>2. CASE r = 0
    BY <1>1, <1>2, <1>3, <1>4, <1>6, <2>1, <2>2
  <2>3. CASE r # 0
    <3>1. n = q + 1 /\ p = q
      BY <1>2, <1>3, <1>6, <2>3
    <3>. QED
      BY <1>1, <1>2, <1>4, <2>1, <2>3, <3>1
  <2>. QED
    BY <2>2, <2>3
<1>8. MaxSGEs * BufferSize = B * MaxSGEs /\ B * MaxSGEs \in Nat
  BY <1>0, <1>1
<1>9. n \in 1..MaxSGEs
  <2>1. B * p < B * MaxSGEs
    <3>1. B * p \in Nat
      OBVIOUS
    <3>. QED
      BY <1>7, <1>8, <3>1
  <2>2. p < MaxSGEs
    BY <1>0, <1>1, <2>1, LessFactor
  <2>. QED
    BY <1>0, <1>5, <1>6, <2>2
<1>10. \A k \in 1..MaxSGEs : Exhausts(k, len) <=> k = n
  <2>. TAKE k \in 1..MaxSGEs
  <2>1. PICK j \in Nat : j = k - 1
    OBVIOUS
  <2>2. Exhausts(k, len) <=> B * j < len /\ len <= B * k
    <3>1. (k - 1) * BufferSize = B * j /\ k * BufferSize = B * k
      BY <1>0, <1>1, <2>1
    <3>. QED
      BY <3>1 DEF Exhausts
  <2>3. ASSUME B * j < len, len <= B * k PROVE k = n
    <3>1. B * j \in Nat /\ B * k \in Nat /\ B * p \in Nat /\ B * n \in Nat
      BY <1>0
    <3>2. B * j < B * n /\ B * p < B * k
      BY <1>7, <2>3, <3>1
    <3>3. j < n /\ p < k
      BY <1>1, <1>5, <3>2, LessFactor
    <3>. QED
      BY <1>6, <2>1, <3>3
  <2>4. k = n => j = p
    BY <1>6, <2>1
  <2>. QED
    BY <1>7, <2>2, <2>3, <2>4
<1>11. SGEsUsed(len) = n
  BY <1>9, <1>10 DEF SGEsUsed
<1>12. /\ Len(PieceLengths(len)) = n
       /\ \A i \in 1..n : PieceLengths(len)[i] = IF i <= q THEN B ELSE r
  <2>1. q \in Nat /\ r \in 0..BufferSize - 1 /\ len \div BufferSize = q
        /\ len % BufferSize = r
    BY <1>1, <1>2, Zenon
  <2>2. /\ Len(PieceLengths(len)) = IF r = 0 /\ len > 0 THEN q ELSE q + 1
        /\ \A i \in 1..Len(PieceLengths(len)) :
              PieceLengths(len)[i] = IF i <= q THEN BufferSize ELSE r
    BY <2>1, PieceLengthsAre
  <2>3. n = Len(PieceLengths(len))
    BY <1>3, <2>2
  <2>. QED
    BY <1>1, <2>2, <2>3
<1>13. ASSUME NEW i \in 1..n PROVE DataLength(len, i) = IF i <= q THEN B ELSE r
  <2>1. PICK j \in Nat : j = i - 1
    OBVIOUS
  <2>2. (i - 1) * BufferSize = B * j
    BY <1>0, <1>1, <2>1
  <2>3. B * j \in Nat /\ B * i = B * j + B /\ B * j <= B * p
    <3>1. j <= p /\ i = j + 1
      BY <1>6, <2>1
    <3>2. B * j <= B * p /\ B * j \in Nat
      BY <1>1, <3>1, ProductMonotone
    <3>. QED
      BY <3>1, <3>2
  <2>4. DataLength(len, i) = Smaller(len - B * j, B)
    <3>1. len > B * j
      <4>1. B * p \in Nat
        OBVIOUS
      <4>. QED
        BY <1>7, <2>3, <4>1
    <3>. QED
      BY <1>1, <2>2, <3>1 DEF DataLength, Remaining
  <2>5. CASE i <= q
    <3>1. B * i <= B * q
      BY <1>1, <2>5, ProductMonotone
    <3>2. len - B * j >= B
      BY <1>2, <1>4, <2>3, <3>1
    <3>3. Smaller(len - B * j, B) = B
      BY <1>1, <2>3, <3>2 DEF Smaller
    <3>. QED
      BY <2>4, <2>5, <3>3
  <2>6. CASE ~(i <= q)
    <3>1. i = q + 1 /\ j = q /\ r # 0
      BY <1>3, <2>1, <2>6
    <3>2. len - B * j = r /\ r < B
      BY <1>1, <1>2, <1>4, <3>1
    <3>3. Smaller(len - B * j, B) = r
      BY <1>1, <1>2, <3>2 DEF Smaller
    <3>. QED
      BY <2>4, <2>6, <3>3
  <2>. QED
    BY <2>5, <2>6
<1>. QED
  BY <1>11, <1>12, <1>13

(* The pieces of a message, one for each of these lengths.                 *)
LEMMA PiecesAre ==
  ASSUME NEW src \in Nodes, NEW len \in Nat, NEW fc \in 0..MaxFC
  PROVE  /\ Stream!Pieces(src, len, fc) \in Seq(PieceSet)
         /\ Len(Stream!Pieces(src, len, fc)) = Len(PieceLengths(len))
         /\ \A i \in 1..Len(PieceLengths(len)) :
              Stream!Pieces(src, len, fc)[i] =
                [src |-> src, len |-> PieceLengths(len)[i],
                 fc |-> IF i = 1 THEN fc ELSE 0]
<1>0. BufferSize \in Nat \ {0} /\ MaxFC \in Nat
  BY RecvDispatcherAssumption
<1>1. PICK q \in Nat, r \in 0..BufferSize - 1 : len \div BufferSize = q /\ len % BufferSize = r
  <2>1. len \div BufferSize \in Nat /\ len % BufferSize \in 0..BufferSize - 1
    BY <1>0, Division
  <2>. QED
    BY <2>1, Zenon
<1>2. PICK n \in Nat :
        /\ n = Len(PieceLengths(len)) /\ DOMAIN PieceLengths(len) = 1..n
        /\ \A i \in 1..n : PieceLengths(len)[i] = IF i <= q THEN BufferSize ELSE r
  <2>1. /\ Len(PieceLengths(len)) = IF r = 0 /\ len > 0 THEN q ELSE q + 1
        /\ DOMAIN PieceLengths(len) = 1..Len(PieceLengths(len))
        /\ \A i \in 1..Len(PieceLengths(len)) :
              PieceLengths(len)[i] = IF i <= q THEN BufferSize ELSE r
    BY <1>1, PieceLengthsAre
  <2>2. Len(PieceLengths(len)) \in Nat
    BY <2>1
  <2>. QED
    BY <2>1, <2>2
<1>. DEFINE piece(i) == [src |-> src, len |-> PieceLengths(len)[i],
                         fc |-> IF i = 1 THEN fc ELSE 0]
<1>3. Stream!Pieces(src, len, fc) = [i \in 1..n |-> piece(i)]
  <2>1. Stream!Pieces(src, len, fc) = [i \in DOMAIN PieceLengths(len) |-> piece(i)]
    BY Zenon DEF Stream!Pieces, PieceLengths
  <2>. QED
    BY <1>2, <2>1
<1>4. \A i \in 1..n : piece(i) \in PieceSet
  <2>. TAKE i \in 1..n
  <2>1. PieceLengths(len)[i] \in Nat
    BY <1>0, <1>2
  <2>2. (IF i = 1 THEN fc ELSE 0) \in 0..MaxFC
    BY <1>0
  <2>. QED
    BY <2>1, <2>2 DEF PieceSet
<1>. HIDE DEF piece
<1>5. [i \in 1..n |-> piece(i)] \in Seq(PieceSet) /\ Len([i \in 1..n |-> piece(i)]) = n
  <2>1. [i \in 1..n |-> piece(i)] \in [1..n -> PieceSet]
    BY <1>4
  <2>. QED
    BY <2>1
<1>6. \A i \in 1..n : Stream!Pieces(src, len, fc)[i] = piece(i)
  BY <1>3
<1>. QED
  BY <1>2, <1>3, <1>5, <1>6 DEF piece

(* The pieces of entries, one each.                                        *)
EntryPieces(s) == [i \in DOMAIN s |-> Piece(s[i])]

(* They are pieces, each with the data of its entry.                       *)
LEMMA EntryPiecesAre ==
  ASSUME NEW s \in Seq(Entries)
  PROVE  /\ EntryPieces(s) \in Seq(PieceSet)
         /\ Len(EntryPieces(s)) = Len(s)
         /\ \A i \in 1..Len(s) : EntryPieces(s)[i] = Piece(s[i])
<1>1. PICK n \in Nat : n = Len(s) /\ DOMAIN s = 1..n
  BY LenProperties
<1>2. \A i \in 1..n : Piece(s[i]) \in PieceSet
  <2>. TAKE i \in 1..n
  <2>1. s[i] \in Entries
    BY <1>1, ElementOfSeq
  <2>. QED
    BY <2>1 DEF Entries, Piece, PieceSet
<1>3. EntryPieces(s) = [i \in 1..n |-> Piece(s[i])]
  BY <1>1 DEF EntryPieces
<1>4. EntryPieces(s) \in [1..n -> PieceSet]
  BY <1>2, <1>3
<1>5. EntryPieces(s) \in Seq(PieceSet) /\ Len(EntryPieces(s)) = n
  BY <1>4
<1>. QED
  BY <1>1, <1>3, <1>5

(* Entries that are joined have their pieces joined ...                    *)
LEMMA EntryPiecesJoin ==
  ASSUME NEW s \in Seq(Entries), NEW t \in Seq(Entries)
  PROVE  EntryPieces(s \o t) = EntryPieces(s) \o EntryPieces(t)
<1>. DEFINE a == EntryPieces(s \o t)
            b == EntryPieces(s)
            c == EntryPieces(t)
<1>1. s \o t \in Seq(Entries)
  BY ConcatProperties
<1>2. /\ a \in Seq(PieceSet) /\ Len(a) = Len(s \o t)
      /\ \A i \in 1..Len(s \o t) : a[i] = Piece((s \o t)[i])
  BY <1>1, EntryPiecesAre
<1>3. /\ b \in Seq(PieceSet) /\ Len(b) = Len(s)
      /\ \A i \in 1..Len(s) : b[i] = Piece(s[i])
  BY EntryPiecesAre
<1>4. /\ c \in Seq(PieceSet) /\ Len(c) = Len(t)
      /\ \A i \in 1..Len(t) : c[i] = Piece(t[i])
  BY EntryPiecesAre
<1>. HIDE DEF a, b, c
<1>5. PICK m \in Nat, n \in Nat : m = Len(s) /\ n = Len(t)
  BY LenProperties
<1>6. /\ Len(s \o t) = m + n
      /\ \A i \in 1..m : (s \o t)[i] = s[i]
      /\ \A i \in 1..n : (s \o t)[m + i] = t[i]
  BY <1>5, Joined
<1>7. /\ Len(b \o c) = m + n
      /\ \A i \in 1..m : (b \o c)[i] = b[i]
      /\ \A i \in 1..n : (b \o c)[m + i] = c[i]
  <2>1. b \in Seq(PieceSet) /\ c \in Seq(PieceSet)
    BY <1>3, <1>4
  <2>2. /\ Len(b \o c) = Len(b) + Len(c)
        /\ \A i \in 1..Len(b) : (b \o c)[i] = b[i]
        /\ \A i \in 1..Len(c) : (b \o c)[Len(b) + i] = c[i]
    BY <2>1, Joined
  <2>3. Len(b) = m /\ Len(c) = n
    BY <1>3, <1>4, <1>5
  <2>. QED
    BY <2>2, <2>3
<1>8. \A i \in 1..m + n : a[i] = (b \o c)[i]
  <2>. TAKE i \in 1..m + n
  <2>1. CASE i \in 1..m
    BY <1>2, <1>3, <1>5, <1>6, <1>7, <2>1
  <2>2. CASE i \notin 1..m
    <3>1. PICK j \in 1..n : i = m + j
      <4>1. i - m \in 1..n /\ i = m + (i - m)
        BY <2>2
      <4>. QED
        BY <4>1, Zenon
    <3>2. a[i] = Piece(t[j])
      BY <1>2, <1>6, <3>1
    <3>3. (b \o c)[i] = Piece(t[j])
      BY <1>4, <1>5, <1>7, <3>1
    <3>. QED
      BY <3>2, <3>3
  <2>. QED
    BY <2>1, <2>2
<1>9. b \o c \in Seq(PieceSet)
  BY <1>3, <1>4, ConcatProperties
<1>10. a = b \o c
  BY <1>2, <1>6, <1>7, <1>8, <1>9, SeqEqual
<1>. QED
  BY <1>10 DEF a, b, c

(* ... and if the first ones go, so do their pieces.                       *)
LEMMA EntryPiecesCut ==
  ASSUME NEW s \in Seq(Entries), NEW k \in 0..Len(s)
  PROVE  EntryPieces(SubSeq(s, k + 1, Len(s))) = SubSeq(EntryPieces(s), k + 1, Len(s))
<1>. DEFINE u == SubSeq(s, k + 1, Len(s))
            b == EntryPieces(s)
            a == EntryPieces(u)
            d == SubSeq(b, k + 1, Len(s))
<1>1. PICK n \in Nat : n = Len(s)
  BY LenProperties
<1>2. u \in Seq(Entries) /\ Len(u) = n - k /\ \A i \in 1..n - k : u[i] = s[k + i]
  BY <1>1, Cut
<1>3. b \in Seq(PieceSet) /\ Len(b) = n /\ \A i \in 1..n : b[i] = Piece(s[i])
  BY <1>1, EntryPiecesAre
<1>. HIDE DEF u
<1>4. a \in Seq(PieceSet) /\ Len(a) = n - k /\ \A i \in 1..n - k : a[i] = Piece(u[i])
  BY <1>2, EntryPiecesAre
<1>. HIDE DEF a, b
<1>5. d \in Seq(PieceSet) /\ Len(d) = n - k /\ \A i \in 1..n - k : d[i] = b[k + i]
  BY <1>1, <1>3, Cut
<1>. HIDE DEF d
<1>6. \A i \in 1..n - k : a[i] = d[i]
  <2>. TAKE i \in 1..n - k
  <2>1. k + i \in 1..n
    BY <1>1
  <2>. QED
    BY <1>2, <1>3, <1>4, <1>5, <2>1
<1>7. a = d
  BY <1>4, <1>5, <1>6, SeqEqual
<1>. QED
  BY <1>7 DEF a, b, d, u

(* The entries that __ProcessCompletions makes of a message are the pieces *)
(* that it promises.                                                       *)
LEMMA CutAsPromised ==
  ASSUME NEW c \in Completions, c.status = "success", c.len <= MaxSGEs * BufferSize
  PROVE  EntryPieces(NewEntries(c)) = MessagePieces(c)
<1>0. PICK src \in Nodes, len \in Nat, fc \in 0..MaxFC :
        c.src = src /\ c.len = len /\ c.fc = fc
  BY DEF Completions
<1>. DEFINE a == EntryPieces(NewEntries(c))
            b == Stream!Pieces(src, len, fc)
<1>1. MessagePieces(c) = b
  BY <1>0 DEF MessagePieces
<1>2. /\ b \in Seq(PieceSet) /\ Len(b) = Len(PieceLengths(len))
      /\ \A i \in 1..Len(PieceLengths(len)) :
           b[i] = [src |-> src, len |-> PieceLengths(len)[i],
                   fc |-> IF i = 1 THEN fc ELSE 0]
  BY <1>0, PiecesAre
<1>3. NewEntries(c) \in Seq(Entries)
  BY ProcessedType
<1>4. /\ a \in Seq(PieceSet) /\ Len(a) = Len(NewEntries(c))
      /\ \A i \in 1..Len(NewEntries(c)) : a[i] = Piece(NewEntries(c)[i])
  BY <1>3, EntryPiecesAre
<1>. HIDE DEF a, b
<1>5. CASE len = 0
  <2>1. NewEntries(c) = <<FCEntry(c)>> /\ Piece(FCEntry(c)) = [src |-> src, len |-> 0, fc |-> fc]
    BY <1>0, <1>5 DEF NewEntries, FCEntry, Piece
  <2>2. Len(a) = 1 /\ a[1] = [src |-> src, len |-> 0, fc |-> fc]
    BY <1>4, <2>1
  <2>3. Len(PieceLengths(len)) = 1 /\ PieceLengths(len)[1] = 0
    <3>0. BufferSize \in Nat \ {0}
      BY RecvDispatcherAssumption
    <3>1. 0 \div BufferSize = 0 /\ 0 % BufferSize = 0
      <4>1. /\ BufferSize * 0 + 0 \in Nat
            /\ (BufferSize * 0 + 0) \div BufferSize = 0 /\ (BufferSize * 0 + 0) % BufferSize = 0
        BY <3>0, OnlyDivision
      <4>2. BufferSize * 0 + 0 = 0
        BY <3>0
      <4>. QED
        BY <4>1, <4>2, Zenon
    <3>2. 0 \in Nat /\ 0 \in 0..BufferSize - 1
      BY <3>0
    <3>3. /\ Len(PieceLengths(0)) = IF 0 = 0 /\ 0 > 0 THEN 0 ELSE 0 + 1
          /\ \A i \in 1..Len(PieceLengths(0)) :
               PieceLengths(0)[i] = IF i <= 0 THEN BufferSize ELSE 0
      BY <3>1, <3>2, PieceLengthsAre
    <3>. QED
      BY <1>5, <3>3
  <2>4. Len(b) = 1 /\ b[1] = [src |-> src, len |-> 0, fc |-> fc]
    BY <1>2, <2>3
  <2>5. a = b
    BY <1>2, <1>4, <2>2, <2>4, SeqEqual
  <2>. QED
    BY <1>1, <2>5 DEF a
<1>6. CASE len # 0
  <2>1. /\ SGEsUsed(len) = Len(PieceLengths(len))
        /\ \A i \in 1..SGEsUsed(len) : DataLength(len, i) = PieceLengths(len)[i]
    BY <1>0, <1>6, CutLengths
  <2>2. PICK n \in 1..MaxSGEs : n = SGEsUsed(len)
    BY RecvDispatcherAssumption DEF SGEsUsed
  <2>3. /\ Len(NewEntries(c)) = n
        /\ \A i \in 1..n :
             Piece(NewEntries(c)[i]) =
               [src |-> src, len |-> DataLength(len, i), fc |-> EntryFC(c, i)]
    <3>1. NewEntries(c) =
            [i \in 1..n |-> [src |-> src, fc |-> EntryFC(c, i),
                             len |-> DataLength(len, i), buf |-> c.bufs[i]]]
      BY <1>0, <1>6, <2>2 DEF NewEntries, EntriesOf
    <3>2. Len(NewEntries(c)) = n
      BY <3>1
    <3>. QED
      BY <3>1, <3>2 DEF Piece
  <2>4. \A i \in 1..n : a[i] = b[i]
    <3>. TAKE i \in 1..n
    <3>1. b[i] = [src |-> src, len |-> PieceLengths(len)[i],
                  fc |-> IF i = 1 THEN fc ELSE 0]
      BY <1>2, <2>1, <2>2
    <3>2. a[i] = [src |-> src, len |-> DataLength(len, i), fc |-> EntryFC(c, i)]
      BY <1>0, <1>4, <2>3
    <3>3. DataLength(len, i) = PieceLengths(len)[i]
      BY <2>1, <2>2
    <3>4. EntryFC(c, i) = IF i = 1 THEN fc ELSE 0
      BY <1>0 DEF EntryFC
    <3>. QED
      BY <3>1, <3>2, <3>3, <3>4
  <2>5. a = b
    BY <1>2, <1>4, <2>1, <2>2, <2>3, <2>4, SeqEqual
  <2>. QED
    BY <1>1, <2>5 DEF a
<1>. QED
  BY <1>5, <1>6

(* The pieces of a list of completions, a sequence of them for each.       *)
PieceLists(s) == [i \in DOMAIN s |-> MessagePieces(s[i])]

(* A completion has a sequence of pieces.                                  *)
LEMMA MessagePiecesType ==
  ASSUME NEW c \in Completions
  PROVE  MessagePieces(c) \in Seq(PieceSet)
<1>1. PICK src \in Nodes, len \in Nat, fc \in 0..MaxFC :
        c.src = src /\ c.len = len /\ c.fc = fc
  BY DEF Completions
<1>2. Stream!Pieces(src, len, fc) \in Seq(PieceSet)
  BY PiecesAre
<1>3. MessagePieces(c) = Stream!Pieces(src, len, fc) \/ MessagePieces(c) = <<>>
  BY <1>1 DEF MessagePieces
<1>. QED
  BY <1>2, <1>3, EmptySeq

(* The lists are those of the completions.                                 *)
LEMMA PieceListsAre ==
  ASSUME NEW s \in Seq(Completions)
  PROVE  /\ PieceLists(s) \in Seq(Seq(PieceSet))
         /\ Len(PieceLists(s)) = Len(s)
         /\ \A i \in 1..Len(s) : PieceLists(s)[i] = MessagePieces(s[i])
<1>1. PICK n \in Nat : n = Len(s) /\ DOMAIN s = 1..n
  BY LenProperties
<1>2. \A i \in 1..n : MessagePieces(s[i]) \in Seq(PieceSet)
  <2>. TAKE i \in 1..n
  <2>1. s[i] \in Completions
    BY <1>1, ElementOfSeq
  <2>. QED
    BY <2>1, MessagePiecesType
<1>3. PieceLists(s) = [i \in 1..n |-> MessagePieces(s[i])]
  BY <1>1 DEF PieceLists
<1>4. PieceLists(s) \in [1..n -> Seq(PieceSet)]
  BY <1>2, <1>3
<1>5. PieceLists(s) \in Seq(Seq(PieceSet)) /\ Len(PieceLists(s)) = n
  BY <1>4
<1>. QED
  BY <1>1, <1>3, <1>5

(* They are joined if the completions are.                                 *)
LEMMA PieceListsJoin ==
  ASSUME NEW s \in Seq(Completions), NEW t \in Seq(Completions)
  PROVE  PieceLists(s \o t) = PieceLists(s) \o PieceLists(t)
<1>. DEFINE a == PieceLists(s \o t)
            b == PieceLists(s)
            c == PieceLists(t)
            P == Seq(PieceSet)
<1>1. s \o t \in Seq(Completions)
  BY ConcatProperties
<1>2. /\ a \in Seq(P) /\ Len(a) = Len(s \o t)
      /\ \A i \in 1..Len(s \o t) : a[i] = MessagePieces((s \o t)[i])
  BY <1>1, PieceListsAre
<1>3. /\ b \in Seq(P) /\ Len(b) = Len(s)
      /\ \A i \in 1..Len(s) : b[i] = MessagePieces(s[i])
  BY PieceListsAre
<1>4. /\ c \in Seq(P) /\ Len(c) = Len(t)
      /\ \A i \in 1..Len(t) : c[i] = MessagePieces(t[i])
  BY PieceListsAre
<1>. HIDE DEF a, b, c, P
<1>5. PICK m \in Nat, n \in Nat : m = Len(s) /\ n = Len(t)
  BY LenProperties
<1>6. /\ Len(s \o t) = m + n
      /\ \A i \in 1..m : (s \o t)[i] = s[i]
      /\ \A i \in 1..n : (s \o t)[m + i] = t[i]
  BY <1>5, Joined
<1>7. /\ Len(b \o c) = m + n
      /\ \A i \in 1..m : (b \o c)[i] = b[i]
      /\ \A i \in 1..n : (b \o c)[m + i] = c[i]
  <2>1. b \in Seq(P) /\ c \in Seq(P)
    BY <1>3, <1>4
  <2>2. /\ Len(b \o c) = Len(b) + Len(c)
        /\ \A i \in 1..Len(b) : (b \o c)[i] = b[i]
        /\ \A i \in 1..Len(c) : (b \o c)[Len(b) + i] = c[i]
    BY <2>1, Joined
  <2>3. Len(b) = m /\ Len(c) = n
    BY <1>3, <1>4, <1>5
  <2>. QED
    BY <2>2, <2>3
<1>8. \A i \in 1..m + n : a[i] = (b \o c)[i]
  <2>. TAKE i \in 1..m + n
  <2>1. CASE i \in 1..m
    BY <1>2, <1>3, <1>5, <1>6, <1>7, <2>1
  <2>2. CASE i \notin 1..m
    <3>1. PICK j \in 1..n : i = m + j
      <4>1. i - m \in 1..n /\ i = m + (i - m)
        BY <2>2
      <4>. QED
        BY <4>1, Zenon
    <3>2. a[i] = MessagePieces(t[j])
      BY <1>2, <1>6, <3>1
    <3>3. (b \o c)[i] = MessagePieces(t[j])
      BY <1>4, <1>5, <1>7, <3>1
    <3>. QED
      BY <3>2, <3>3
  <2>. QED
    BY <2>1, <2>2
<1>9. b \o c \in Seq(P)
  BY <1>3, <1>4, ConcatProperties
<1>10. a = b \o c
  BY <1>2, <1>6, <1>7, <1>8, <1>9, SeqEqual
<1>. QED
  BY <1>10 DEF a, b, c

(* The pieces of completions are pieces.                                   *)
LEMMA PiecesOfAre ==
  ASSUME NEW s \in Seq(Completions)
  PROVE  PiecesOf(s) \in Seq(PieceSet) /\ PiecesOf(s) = FlattenSeq(PieceLists(s))
<1>1. PiecesOf(s) = FlattenSeq(PieceLists(s))
  BY DEF PiecesOf, PieceLists
<1>. QED
  BY <1>1, PieceListsAre, FlattenType

(* Joined completions have their pieces joined, ...                        *)
LEMMA PiecesOfJoin ==
  ASSUME NEW s \in Seq(Completions), NEW t \in Seq(Completions)
  PROVE  PiecesOf(s \o t) = PiecesOf(s) \o PiecesOf(t)
<1>1. s \o t \in Seq(Completions)
  BY ConcatProperties
<1>2. PieceLists(s) \in Seq(Seq(PieceSet)) /\ PieceLists(t) \in Seq(Seq(PieceSet))
  BY PieceListsAre
<1>3. PiecesOf(s \o t) = FlattenSeq(PieceLists(s) \o PieceLists(t))
  BY <1>1, PiecesOfAre, PieceListsJoin
<1>4. FlattenSeq(PieceLists(s) \o PieceLists(t)) = FlattenSeq(PieceLists(s)) \o FlattenSeq(PieceLists(t))
  BY <1>2, FlattenConcat
<1>. QED
  BY <1>3, <1>4, PiecesOfAre

(* ... no completions have none, ...                                       *)
LEMMA PiecesOfNone == PiecesOf(<<>>) = <<>>
<1>1. <<>> \in Seq(Completions)
  BY EmptySeq
<1>2. PieceLists(<<>>) \in Seq(Seq(PieceSet)) /\ Len(PieceLists(<<>>)) = 0
  BY <1>1, PieceListsAre, EmptySeq
<1>3. PieceLists(<<>>) = <<>>
  BY <1>2, EmptySeq
<1>. QED
  BY <1>1, <1>3, PiecesOfAre, FlattenEmpty

(* ... and one has those of its message.                                   *)
LEMMA PiecesOfOne ==
  ASSUME NEW c \in Completions
  PROVE  PiecesOf(<<c>>) = MessagePieces(c)
<1>1. <<c>> \in Seq(Completions) /\ Len(<<c>>) = 1 /\ <<c>>[1] = c
  OBVIOUS
<1>2. /\ PieceLists(<<c>>) \in Seq(Seq(PieceSet)) /\ Len(PieceLists(<<c>>)) = 1
      /\ PieceLists(<<c>>)[1] = MessagePieces(c)
  <2>1. PICK s \in Seq(Completions) : s = <<c>>
    BY <1>1
  <2>2. Len(s) = 1 /\ s[1] = c /\ 1 \in 1..Len(s)
    BY <2>1
  <2>3. /\ PieceLists(s) \in Seq(Seq(PieceSet)) /\ Len(PieceLists(s)) = Len(s)
        /\ PieceLists(s)[1] = MessagePieces(s[1])
    BY <2>2, PieceListsAre
  <2>. QED
    BY <2>1, <2>2, <2>3
<1>3. MessagePieces(c) \in Seq(PieceSet)
  BY MessagePiecesType
<1>4. /\ Append(<<>>, MessagePieces(c)) \in Seq(Seq(PieceSet))
      /\ Len(Append(<<>>, MessagePieces(c))) = 1
      /\ Append(<<>>, MessagePieces(c))[1] = MessagePieces(c)
  BY <1>3
<1>5. PieceLists(<<c>>) = Append(<<>>, MessagePieces(c))
  BY <1>2, <1>4, SeqEqual
<1>6. FlattenSeq(Append(<<>>, MessagePieces(c))) = MessagePieces(c)
  <2>1. <<>> \in Seq(Seq(PieceSet))
    BY EmptySeq
  <2>. QED
    BY <1>3, <2>1, FlattenOne
<1>. QED
  BY <1>1, <1>5, <1>6, PiecesOfAre

-----------------------------------------------------------------------------
(* The messages fit in the lists they are written to.                      *)

(* No step makes a message longer, and the HCA writes none that is too     *)
(* long.                                                                   *)
LEMMA NextMessagesFit == IInv /\ MessagesFit /\ [Next]_vars => MessagesFit'
<1>. SUFFICES ASSUME IInv, MessagesFit, [Next]_vars PROVE MessagesFit'
  OBVIOUS
<1>1. CASE UNCHANGED <<cq, comps>>
  BY <1>1 DEF MessagesFit, FitsList
<1>2. CASE Poll
  <2>1. PICK n \in 0..Len(cq) : comps' = SubSeq(cq, 1, n) /\ cq' = SubSeq(cq, n + 1, Len(cq))
    <3>1. Room \in 0..SRQSize /\ Len(cq) \in Nat
      BY <1>2, RoomBound, Lengths DEF Poll, At, IInv
    <3>2. Smaller(Room, Len(cq)) \in 0..Len(cq)
      BY <3>1, RecvDispatcherAssumption DEF Smaller
    <3>. QED
      BY <1>2, <3>2 DEF Poll
  <2>2. /\ cq \in Seq(Completions) /\ Len(cq) \in Nat
    BY Lengths DEF IInv, TypeOK
  <2>3. /\ Len(comps') = n /\ Len(cq') = Len(cq) - n
        /\ \A i \in 1..n : comps'[i] = cq[i]
        /\ \A i \in 1..Len(cq) - n : cq'[i] = cq[n + i]
    BY <2>1, <2>2, Cut
  <2>4. /\ \A i \in 1..n : FitsList(cq[i])
        /\ \A i \in 1..Len(cq) - n : FitsList(cq[n + i])
    BY <2>2 DEF MessagesFit
  <2>. QED
    BY <2>3, <2>4 DEF MessagesFit, FitsList
<1>3. CASE ProcessCompletion
  <2>1. UNCHANGED <<cq, comps>> \/ (cq' = cq /\ comps' = Tail(comps))
    BY <1>3 DEF ProcessCompletion, Throw
  <2>2. CASE cq' = cq /\ comps' = Tail(comps)
    <3>1. comps \in Seq(Completions) /\ comps # <<>> /\ Len(comps) \in Nat
      BY <1>3, Lengths DEF ProcessCompletion, IInv, TypeOK
    <3>2. /\ Len(comps') = Len(comps) - 1
          /\ \A i \in 1..Len(comps) - 1 : comps'[i] = comps[i + 1]
      BY <2>2, <3>1, HeadTailProperties
    <3>3. \A i \in 1..Len(comps) - 1 : FitsList(comps[i + 1])
      BY <3>1 DEF MessagesFit
    <3>. QED
      BY <2>2, <3>2, <3>3 DEF MessagesFit, FitsList
  <2>. QED
    BY <1>1, <2>1, <2>2
<1>4. ASSUME NEW status, NEW src, NEW len, NEW fc, Complete(status, src, len, fc),
             src \in Nodes, fc \in 0..MaxFC, status \in {"success", "retry_exc", "other"},
             len \in 0..MaxSGEs * BufferSize
      PROVE  MessagesFit'
  <2>1. PICK c : c = [status |-> status, src |-> src, len |-> len, fc |-> fc,
                      bufs |-> Head(posted)]
    OBVIOUS
  <2>2. cq' = Append(cq, c) /\ comps' = comps /\ posted # <<>>
    BY <1>4, <2>1 DEF Complete
  <2>3. c \in Completions
    <3>1. Head(posted) \in Lists
      BY <2>2, HeadTailProperties DEF IInv, TypeOK
    <3>2. len \in Nat
      BY <1>4, RecvDispatcherAssumption
    <3>. QED
      BY <1>4, <2>1, <3>1, <3>2 DEF Completions
  <2>4. FitsList(c)
    <3>1. len <= MaxSGEs * BufferSize
      BY <1>4, RecvDispatcherAssumption
    <3>. QED
      BY <2>1, <3>1 DEF FitsList
  <2>5. cq \in Seq(Completions) /\ Len(cq) \in Nat
    BY Lengths DEF IInv, TypeOK
  <2>6. /\ Len(cq') = Len(cq) + 1 /\ cq'[Len(cq) + 1] = c
        /\ \A i \in 1..Len(cq) : cq'[i] = cq[i]
    BY <2>2, <2>3, <2>5, AppendProperties
  <2>7. \A i \in 1..Len(cq) + 1 : FitsList(cq'[i])
    BY <2>4, <2>5, <2>6 DEF MessagesFit
  <2>. QED
    BY <2>2, <2>6, <2>7 DEF MessagesFit, FitsList
<1>5. ASSUME NEW src \in Nodes, NEW len \in 0..MaxSGEs * BufferSize,
             NEW fc \in 0..MaxFC, Receive(src, len, fc)
      PROVE  MessagesFit'
  BY <1>4, <1>5 DEF Receive
<1>6. ASSUME NEW status \in {"retry_exc", "other"}, NEW src \in Nodes,
             ReceiveFails(status, src)
      PROVE  MessagesFit'
  <2>1. 0 \in 0..MaxFC /\ 0 \in 0..MaxSGEs * BufferSize
    BY RecvDispatcherAssumption
  <2>. QED
    BY <1>4, <1>6, <2>1 DEF ReceiveFails
<1>7. CASE Dispatch
  <2>1. CASE Poll
    BY <1>2, <2>1
  <2>2. CASE ProcessCompletion
    BY <1>3, <2>2
  <2>3. CASE Refill
    <3>1. UNCHANGED <<cq, comps>>
      BY <2>3 DEF Refill, Throw
    <3>. QED
      BY <1>1, <3>1
  <2>4. CASE \/ PollFails \/ SkipRefill \/ PostFails \/ FailedCompletion
             \/ EndProcess \/ NothingReceived
             \/ \E k \in 0..IRBSize : DispatchReceived(k)
    <3>1. UNCHANGED <<cq, comps>>
      BY <2>4 DEF PollFails, SkipRefill, PostFails, FailedCompletion, EndProcess,
                  NothingReceived, DispatchReceived, Throw
    <3>. QED
      BY <1>1, <3>1
  <2>. QED
    BY <1>7, <2>1, <2>2, <2>3, <2>4 DEF Dispatch
<1>8. CASE \E b \in Buffers : ReturnBuffer(b)
  <2>1. UNCHANGED <<cq, comps>>
    BY <1>8 DEF ReturnBuffer
  <2>. QED
    BY <1>1, <2>1
<1>9. CASE UNCHANGED vars
  BY <1>1, <1>9 DEF vars
<1>. QED
  BY <1>5, <1>6, <1>7, <1>8, <1>9 DEF Next

(* Every message that was received fits in the list it was written to.     *)
LEMMA MessagesFitHolds == Spec => [](IInv /\ MessagesFit)
<1>1. Init => IInv /\ MessagesFit
  <2>1. Init => MessagesFit
    BY DEF Init, MessagesFit
  <2>. QED
    BY <2>1, InitIInv
<1>2. (IInv /\ MessagesFit) /\ [Next]_vars => (IInv /\ MessagesFit)'
  BY NextIInv, NextMessagesFit
<1>. QED
  BY <1>1, <1>2, PTL DEF Spec

-----------------------------------------------------------------------------
(* The stream of pieces, and what each action does to it.                  *)
PendingPieces == EntryPieces(irb) \o PiecesOf(comps) \o PiecesOf(cq)

(* Joining pieces is associative.                                          *)
LEMMA PiecesAssociative ==
  \A x, y, z \in Seq(PieceSet) : (x \o y) \o z = x \o (y \o z)
  BY ConcatAssociative

(* Its three parts are sequences of pieces.                                *)
LEMMA PendingParts ==
  ASSUME TypeOK
  PROVE  /\ EntryPieces(irb) \in Seq(PieceSet) /\ Len(EntryPieces(irb)) = Len(irb)
         /\ PiecesOf(comps) \in Seq(PieceSet)
         /\ PiecesOf(cq) \in Seq(PieceSet)
         /\ PendingPieces \in Seq(PieceSet)
         /\ PendingPieces = EntryPieces(irb) \o (PiecesOf(comps) \o PiecesOf(cq))
         /\ PiecesOf(comps) \o PiecesOf(cq) \in Seq(PieceSet)
<1>1. irb \in Seq(Entries) /\ comps \in Seq(Completions) /\ cq \in Seq(Completions)
  BY DEF TypeOK
<1>2. PICK a, b, c : a = EntryPieces(irb) /\ b = PiecesOf(comps) /\ c = PiecesOf(cq)
  OBVIOUS
<1>3. a \in Seq(PieceSet) /\ Len(a) = Len(irb)
  BY <1>1, <1>2, EntryPiecesAre
<1>4. b \in Seq(PieceSet) /\ c \in Seq(PieceSet)
  BY <1>1, <1>2, PiecesOfAre
<1>5. b \o c \in Seq(PieceSet) /\ (a \o b) \o c = a \o (b \o c)
  BY <1>3, <1>4, ConcatProperties, ConcatAssociative
<1>6. a \o (b \o c) \in Seq(PieceSet)
  BY <1>3, <1>5, ConcatProperties
<1>7. PendingPieces = (a \o b) \o c
  BY <1>2 DEF PendingPieces
<1>. QED
  BY <1>2, <1>3, <1>4, <1>5, <1>6, <1>7

(* __Poll moves the front of the completion queue to the polled ones.      *)
LEMMA PollKeepsPieces ==
  ASSUME IInv, Poll
  PROVE  PendingPieces' = PendingPieces
<1>1. PICK s \in Seq(Completions), e \in Seq(Entries) : cq = s /\ irb = e
  BY DEF IInv, TypeOK
<1>2. PICK n \in 0..Len(s) : comps' = SubSeq(s, 1, n) /\ cq' = SubSeq(s, n + 1, Len(s))
  <2>1. Room \in 0..SRQSize /\ Len(cq) \in Nat
    BY RoomBound, Lengths DEF Poll, At, IInv
  <2>2. Smaller(Room, Len(cq)) \in 0..Len(cq)
    BY <2>1, RecvDispatcherAssumption DEF Smaller
  <2>. QED
    BY <1>1, <2>2 DEF Poll
<1>3. comps = <<>> /\ irb' = e
  BY <1>1 DEF Poll, At, IInv, CompsInPhase
<1>4. PICK t \in Seq(Completions), u \in Seq(Completions) :
        t = SubSeq(s, 1, n) /\ u = SubSeq(s, n + 1, Len(s))
  BY Cut
<1>5. s = t \o u
  <2>1. PICK l \in Nat : l = Len(s)
    BY LenProperties
  <2>2. 1 \in 1..Len(s) + 1 /\ n \in 1 - 1..Len(s) /\ Len(s) \in n..Len(s)
    BY <2>1
  <2>3. t \o u = SubSeq(s, 1, Len(s))
    BY <1>4, <2>2, ConcatAdjacentSubSeq
  <2>. QED
    BY <2>3, SubSeqFull
<1>6. PiecesOf(s) = PiecesOf(t) \o PiecesOf(u)
  BY <1>5, PiecesOfJoin
<1>7. /\ EntryPieces(e) \in Seq(PieceSet) /\ PiecesOf(t) \in Seq(PieceSet)
      /\ PiecesOf(u) \in Seq(PieceSet)
  BY EntryPiecesAre, PiecesOfAre
<1>8. PendingPieces = EntryPieces(e) \o (PiecesOf(t) \o PiecesOf(u))
  <2>1. PendingPieces = (EntryPieces(e) \o <<>>) \o PiecesOf(s)
    BY <1>1, <1>3, PiecesOfNone DEF PendingPieces
  <2>2. EntryPieces(e) \o <<>> = EntryPieces(e)
    BY <1>7, ConcatEmptySeq
  <2>. QED
    BY <1>6, <2>1, <2>2
<1>9. PendingPieces' = (EntryPieces(e) \o PiecesOf(t)) \o PiecesOf(u)
  BY <1>2, <1>3, <1>4 DEF PendingPieces
<1>10. EntryPieces(e) \o (PiecesOf(t) \o PiecesOf(u)) = (EntryPieces(e) \o PiecesOf(t)) \o PiecesOf(u)
  <2>1. PICK x \in Seq(PieceSet), y \in Seq(PieceSet), z \in Seq(PieceSet) :
          x = EntryPieces(e) /\ y = PiecesOf(t) /\ z = PiecesOf(u)
    BY <1>7
  <2>2. (x \o y) \o z = x \o (y \o z)
    BY PiecesAssociative
  <2>. QED
    BY <2>1, <2>2
<1>. QED
  BY <1>8, <1>9, <1>10

(* __ProcessCompletions turns a message into its pieces.                   *)
LEMMA ProcessKeepsPieces ==
  ASSUME IInv, MessagesFit, ProcessCompletion
  PROVE  PendingPieces' = PendingPieces
<1>1. CASE Insane(Head(comps)) # "none"
  BY <1>1 DEF ProcessCompletion, Throw, PendingPieces
<1>2. CASE Insane(Head(comps)) = "none"
  <2>1. PICK s \in Seq(Completions), e \in Seq(Entries), q \in Seq(Completions) :
          comps = s /\ irb = e /\ cq = q /\ s # <<>>
    BY DEF IInv, TypeOK, ProcessCompletion
  <2>2. PICK c \in Completions, t \in Seq(Completions) :
          /\ c = Head(s) /\ t = Tail(s) /\ Len(t) = Len(s) - 1
          /\ \A i \in 1..Len(t) : t[i] = s[i + 1]
    <3>1. /\ Head(s) \in Completions /\ Tail(s) \in Seq(Completions)
          /\ Len(Tail(s)) = Len(s) - 1
          /\ \A i \in 1..Len(Tail(s)) : Tail(s)[i] = s[i + 1]
      BY <2>1, HeadTailProperties
    <3>. QED
      BY <3>1, Zenon
  <2>3. PICK new \in Seq(Entries) : new = NewEntries(c)
    BY ProcessedType
  <2>4. c.status = "success" /\ irb' = e \o new /\ comps' = t /\ cq' = q
    BY <1>2, <2>1, <2>2, <2>3 DEF ProcessCompletion
  <2>5. s = <<c>> \o t
    <3>1. PICK l \in Nat : l = Len(s) /\ l >= 1
      <4>1. Len(s) \in Nat \ {0}
        BY <2>1, EmptySeq
      <4>. QED
        BY <4>1
    <3>2. PICK h \in Seq(Completions) : h = <<c>> /\ Len(h) = 1 /\ h[1] = c
      <4>1. <<c>> \in Seq(Completions) /\ Len(<<c>>) = 1 /\ <<c>>[1] = c
        OBVIOUS
      <4>. QED
        BY <4>1, Zenon
    <3>3. /\ h \o t \in Seq(Completions) /\ Len(h \o t) = 1 + Len(t)
          /\ \A i \in 1..1 + Len(t) : (h \o t)[i] = IF i <= 1 THEN h[i] ELSE t[i - 1]
      BY <3>2, ConcatProperties
    <3>4. \A i \in 1..l : (h \o t)[i] = s[i]
      <4>. TAKE i \in 1..l
      <4>1. CASE i = 1
        BY <2>1, <2>2, <3>1, <3>2, <3>3, <4>1
      <4>2. CASE i # 1
        <5>1. PICK j \in 1..Len(t) : i = j + 1 /\ j = i - 1
          BY <2>2, <3>1, <4>2
        <5>2. t[j] = s[i]
          BY <2>2, <5>1
        <5>3. (h \o t)[i] = t[j]
          BY <2>2, <3>1, <3>3, <4>2, <5>1
        <5>. QED
          BY <5>2, <5>3
      <4>. QED
        BY <4>1, <4>2
    <3>5. Len(h \o t) = Len(s)
      BY <2>2, <3>1, <3>3
    <3>6. h \o t = s
      BY <3>1, <3>3, <3>4, <3>5, SeqEqual
    <3>. QED
      BY <3>2, <3>6
  <2>6. EntryPieces(new) = MessagePieces(c)
    <3>1. FitsList(c)
      <4>1. c = comps[1] /\ 1 \in 1..Len(comps)
        BY <2>1, <2>2, EmptySeq
      <4>. QED
        BY <4>1 DEF MessagesFit
    <3>2. c.len <= MaxSGEs * BufferSize
      BY <2>4, <3>1 DEF FitsList
    <3>. QED
      BY <2>3, <2>4, <3>2, CutAsPromised
  <2>7. PiecesOf(s) = MessagePieces(c) \o PiecesOf(t)
    <3>1. <<c>> \in Seq(Completions)
      OBVIOUS
    <3>2. PiecesOf(<<c>> \o t) = PiecesOf(<<c>>) \o PiecesOf(t)
      BY <3>1, PiecesOfJoin
    <3>. QED
      BY <2>5, <3>2, PiecesOfOne
  <2>8. PICK x \in Seq(PieceSet), y \in Seq(PieceSet), z \in Seq(PieceSet),
             w \in Seq(PieceSet) :
          x = EntryPieces(e) /\ y = MessagePieces(c) /\ z = PiecesOf(t) /\ w = PiecesOf(q)
    BY EntryPiecesAre, MessagePiecesType, PiecesOfAre
  <2>9. PendingPieces = (x \o (y \o z)) \o w
    BY <2>1, <2>7, <2>8 DEF PendingPieces
  <2>10. PendingPieces' = ((x \o y) \o z) \o w
    <3>1. EntryPieces(e \o new) = x \o y
      BY <2>6, <2>8, EntryPiecesJoin
    <3>. QED
      BY <2>4, <2>8, <3>1 DEF PendingPieces
  <2>11. x \o (y \o z) = (x \o y) \o z
    BY PiecesAssociative
  <2>. QED
    BY <2>9, <2>10, <2>11
<1>. QED
  BY <1>1, <1>2

(* A completion adds the pieces of its message at the end.                 *)
LEMMA CompleteAddsPieces ==
  ASSUME IInv, NEW status \in {"success", "retry_exc", "other"}, NEW src \in Nodes,
         NEW len \in Nat, NEW fc \in 0..MaxFC, Complete(status, src, len, fc)
  PROVE  PendingPieces' = PendingPieces \o (IF status = "success" THEN Stream!Pieces(src, len, fc) ELSE <<>>)
<1>1. PICK s \in Seq(Completions), e \in Seq(Entries), q \in Seq(Completions) :
        comps = s /\ irb = e /\ cq = q
  BY DEF IInv, TypeOK
<1>2. PICK c : c = [status |-> status, src |-> src, len |-> len, fc |-> fc,
                    bufs |-> Head(posted)]
  OBVIOUS
<1>3. irb' = e /\ comps' = s /\ cq' = Append(q, c) /\ posted # <<>>
  BY <1>1, <1>2 DEF Complete
<1>4. c \in Completions
  <2>1. Head(posted) \in Lists
    BY <1>3, HeadTailProperties DEF IInv, TypeOK
  <2>. QED
    BY <1>2, <2>1 DEF Completions
<1>5. MessagePieces(c) = IF status = "success" THEN Stream!Pieces(src, len, fc) ELSE <<>>
  BY <1>2 DEF MessagePieces
<1>6. PiecesOf(Append(q, c)) = PiecesOf(q) \o MessagePieces(c)
  <2>1. <<c>> \in Seq(Completions) /\ Append(q, c) = q \o <<c>>
    BY <1>4, AppendIsConcat
  <2>2. PiecesOf(q \o <<c>>) = PiecesOf(q) \o PiecesOf(<<c>>)
    BY <2>1, PiecesOfJoin
  <2>. QED
    BY <1>4, <2>1, <2>2, PiecesOfOne
<1>7. PICK x \in Seq(PieceSet), y \in Seq(PieceSet), z \in Seq(PieceSet),
           w \in Seq(PieceSet) :
        x = EntryPieces(e) /\ y = PiecesOf(s) /\ z = PiecesOf(q) /\ w = MessagePieces(c)
  BY <1>4, EntryPiecesAre, MessagePiecesType, PiecesOfAre
<1>8. PendingPieces' = (x \o y) \o (z \o w)
  BY <1>3, <1>6, <1>7 DEF PendingPieces
<1>9. PendingPieces = (x \o y) \o z
  BY <1>1, <1>7 DEF PendingPieces
<1>10. x \o y \in Seq(PieceSet)
  BY ConcatProperties
<1>11. (x \o y) \o (z \o w) = ((x \o y) \o z) \o w
  <2>1. PICK v \in Seq(PieceSet) : v = x \o y
    BY <1>10
  <2>2. (v \o z) \o w = v \o (z \o w)
    BY PiecesAssociative
  <2>. QED
    BY <2>1, <2>2
<1>. QED
  BY <1>5, <1>7, <1>8, <1>9, <1>11

(* The front of two sequences joined is the front of the first one.        *)
LEMMA FrontDropped ==
  \A S : \A s, t \in Seq(S) : \A k \in 0..Len(s) :
    SubSeq(s \o t, k + 1, Len(s \o t)) = SubSeq(s, k + 1, Len(s)) \o t
<1>. SUFFICES ASSUME NEW S, NEW s \in Seq(S), NEW t \in Seq(S), NEW k \in 0..Len(s)
              PROVE  SubSeq(s \o t, k + 1, Len(s \o t)) = SubSeq(s, k + 1, Len(s)) \o t
  OBVIOUS
<1>1. PICK m \in Nat, n \in Nat : m = Len(s) /\ n = Len(t)
  BY LenProperties
<1>2. PICK u \in Seq(S) :
        /\ u = s \o t /\ Len(u) = m + n
        /\ \A i \in 1..m : u[i] = s[i]
        /\ \A i \in 1..n : u[m + i] = t[i]
  <2>1. s \o t \in Seq(S)
    BY ConcatProperties
  <2>2. /\ Len(s \o t) = m + n
        /\ \A i \in 1..m : (s \o t)[i] = s[i]
        /\ \A i \in 1..n : (s \o t)[m + i] = t[i]
    BY <1>1, Joined
  <2>. QED
    BY <2>1, <2>2, Zenon
<1>3. PICK v \in Seq(S) :
        /\ v = SubSeq(s, k + 1, Len(s)) /\ Len(v) = m - k
        /\ \A i \in 1..m - k : v[i] = s[k + i]
  <2>1. /\ SubSeq(s, k + 1, Len(s)) \in Seq(S)
        /\ Len(SubSeq(s, k + 1, Len(s))) = m - k
        /\ \A i \in 1..m - k : SubSeq(s, k + 1, Len(s))[i] = s[k + i]
    BY <1>1, Cut
  <2>. QED
    BY <2>1, Zenon
<1>4. PICK a \in Seq(S) :
        /\ a = SubSeq(u, k + 1, Len(u)) /\ Len(a) = m + n - k
        /\ \A i \in 1..m + n - k : a[i] = u[k + i]
  <2>1. k \in 0..Len(u)
    BY <1>1, <1>2
  <2>2. PICK a \in Seq(S) :
          /\ a = SubSeq(u, k + 1, Len(u)) /\ Len(a) = Len(u) - k
          /\ \A i \in 1..Len(u) - k : a[i] = u[k + i]
    <3>1. /\ SubSeq(u, k + 1, Len(u)) \in Seq(S)
          /\ Len(SubSeq(u, k + 1, Len(u))) = Len(u) - k
          /\ \A i \in 1..Len(u) - k : SubSeq(u, k + 1, Len(u))[i] = u[k + i]
      BY <2>1, Cut
    <3>. QED
      BY <3>1, Zenon
  <2>3. Len(u) = m + n
    BY <1>2
  <2>4. Len(a) = m + n - k /\ \A i \in 1..m + n - k : a[i] = u[k + i]
    BY <2>2, <2>3
  <2>. QED
    BY <2>2, <2>4, Zenon
<1>5. PICK b \in Seq(S) :
        /\ b = v \o t /\ Len(b) = (m - k) + n
        /\ \A i \in 1..m - k : b[i] = v[i]
        /\ \A i \in 1..n : b[(m - k) + i] = t[i]
  <2>1. v \o t \in Seq(S)
    BY ConcatProperties
  <2>2. /\ Len(v \o t) = (m - k) + n
        /\ \A i \in 1..m - k : (v \o t)[i] = v[i]
        /\ \A i \in 1..n : (v \o t)[(m - k) + i] = t[i]
    <3>1. /\ Len(v \o t) = Len(v) + Len(t)
          /\ \A i \in 1..Len(v) : (v \o t)[i] = v[i]
          /\ \A i \in 1..Len(t) : (v \o t)[Len(v) + i] = t[i]
      BY Joined
    <3>. QED
      BY <1>1, <1>3, <3>1
  <2>. QED
    BY <2>1, <2>2, Zenon
<1>6. \A i \in 1..m + n - k : a[i] = b[i]
  <2>. TAKE i \in 1..m + n - k
  <2>1. CASE i <= m - k
    <3>1. i \in 1..m - k /\ k + i \in 1..m
      BY <1>1, <2>1
    <3>. QED
      BY <1>2, <1>3, <1>4, <1>5, <3>1
  <2>2. CASE ~(i <= m - k)
    <3>1. PICK j \in 1..n : i = (m - k) + j /\ k + i = m + j
      <4>1. i - (m - k) \in 1..n
        BY <1>1, <2>2
      <4>2. i = (m - k) + (i - (m - k)) /\ k + i = m + (i - (m - k))
        BY <1>1
      <4>. QED
        BY <4>1, <4>2, Zenon
    <3>2. a[i] = t[j]
      BY <1>2, <1>4, <3>1
    <3>3. b[i] = t[j]
      BY <1>5, <3>1
    <3>. QED
      BY <3>2, <3>3
  <2>. QED
    BY <2>1, <2>2
<1>7. a = b
  <2>1. Len(a) = Len(b)
    BY <1>1, <1>4, <1>5
  <2>. QED
    BY <1>4, <1>6, <2>1, SeqEqual
<1>. QED
  BY <1>2, <1>3, <1>4, <1>5, <1>7

(* __DispatchReceived hands over the first pieces.                         *)
LEMMA DispatchHandsOver ==
  ASSUME IInv, NEW k \in 0..IRBSize, DispatchReceived(k)
  PROVE  k \in 0..Len(PendingPieces) /\ PendingPieces' = SubSeq(PendingPieces, k + 1, Len(PendingPieces))
<1>1. PICK e \in Seq(Entries) : irb = e
  BY DEF IInv, TypeOK
<1>2. PICK x \in Seq(PieceSet), y \in Seq(PieceSet) :
        /\ x = EntryPieces(e) /\ y = PiecesOf(comps) \o PiecesOf(cq)
        /\ Len(x) = Len(e) /\ PendingPieces = x \o y
  BY <1>1, PendingParts DEF IInv
<1>3. PICK m \in Nat : m = Len(e)
  BY LenProperties
<1>4. k \in 0..m
  BY <1>1, <1>3, Sizes DEF DispatchReceived
<1>5. irb' = SubSeq(e, k + 1, Len(e)) /\ comps' = comps /\ cq' = cq
  BY <1>1 DEF DispatchReceived
<1>6. EntryPieces(SubSeq(e, k + 1, Len(e))) = SubSeq(x, k + 1, Len(e))
  BY <1>2, <1>3, <1>4, EntryPiecesCut
<1>7. PendingPieces' = SubSeq(x, k + 1, Len(x)) \o y
  <2>1. PICK f \in Seq(Entries) : f = SubSeq(e, k + 1, Len(e))
    BY <1>3, <1>4, Cut
  <2>2. PICK b \in Seq(PieceSet), c \in Seq(PieceSet) : b = PiecesOf(comps) /\ c = PiecesOf(cq)
    BY PendingParts DEF IInv
  <2>3. PendingPieces' = (EntryPieces(f) \o b) \o c
    BY <1>5, <2>1, <2>2 DEF PendingPieces
  <2>4. EntryPieces(f) \in Seq(PieceSet)
    BY EntryPiecesAre
  <2>5. (EntryPieces(f) \o b) \o c = EntryPieces(f) \o (b \o c)
    <3>1. PICK a \in Seq(PieceSet) : a = EntryPieces(f)
      BY <2>4
    <3>2. (a \o b) \o c = a \o (b \o c)
      BY PiecesAssociative
    <3>. QED
      BY <3>1, <3>2
  <2>. QED
    BY <1>2, <1>6, <2>1, <2>2, <2>3, <2>5
<1>8. SubSeq(x \o y, k + 1, Len(x \o y)) = SubSeq(x, k + 1, Len(x)) \o y
  <2>1. k \in 0..Len(x)
    BY <1>2, <1>3, <1>4
  <2>. QED
    BY <2>1, FrontDropped
<1>9. k \in 0..Len(x \o y)
  <2>1. Len(x \o y) = m + Len(y) /\ Len(y) \in Nat
    <3>1. Len(x \o y) = Len(x) + Len(y)
      BY ConcatProperties
    <3>2. Len(y) \in Nat
      BY LenProperties
    <3>. QED
      BY <1>2, <1>3, <3>1, <3>2
  <2>. QED
    BY <1>4, <2>1
<1>. QED
  BY <1>2, <1>7, <1>8, <1>9

(* The queues are empty initially.                                         *)
LEMMA InitIsPromised == Init => Promise!Init
<1>. SUFFICES ASSUME Init PROVE Promise!Init
  OBVIOUS
<1>1. PendingPieces = (EntryPieces(<<>>) \o <<>>) \o <<>>
  BY PiecesOfNone DEF Init, PendingPieces
<1>2. EntryPieces(<<>>) = <<>>
  <2>1. PICK e \in Seq(Entries) : e = <<>>
    BY EmptySeq
  <2>2. EntryPieces(e) \in Seq(PieceSet) /\ Len(EntryPieces(e)) = 0
    BY <2>1, EntryPiecesAre, EmptySeq
  <2>. QED
    BY <2>1, <2>2, EmptySeq
<1>3. <<>> \o <<>> = <<>>
  BY EmptySeq, ConcatEmptySeq
<1>4. PendingPieces = <<>>
  BY <1>1, <1>2, <1>3
<1>. QED
  BY <1>4 DEF PendingPieces, EntryPieces, Promise!Init

(* Every step of the receive path takes the promised step, or none.        *)
LEMMA StepIsPromised ==
  ASSUME IInv, MessagesFit, [Next]_vars
  PROVE  \/ PendingPieces' = PendingPieces
         \/ \E src \in Nodes, len \in 0..MaxSGEs * BufferSize, fc \in 0..MaxFC :
              PendingPieces' = PendingPieces \o Stream!Pieces(src, len, fc)
         \/ \E k \in 1..Len(PendingPieces) : PendingPieces' = SubSeq(PendingPieces, k + 1, Len(PendingPieces))
<1>1. CASE UNCHANGED <<irb, cq, comps>>
  BY <1>1 DEF PendingPieces
<1>2. CASE Poll
  BY <1>2, PollKeepsPieces
<1>3. CASE ProcessCompletion
  BY <1>3, ProcessKeepsPieces
<1>4. ASSUME NEW k \in 0..IRBSize, DispatchReceived(k)
      PROVE  \/ PendingPieces' = PendingPieces
             \/ \E j \in 1..Len(PendingPieces) : PendingPieces' = SubSeq(PendingPieces, j + 1, Len(PendingPieces))
  <2>1. k \in 0..Len(PendingPieces) /\ PendingPieces' = SubSeq(PendingPieces, k + 1, Len(PendingPieces))
    BY <1>4, DispatchHandsOver
  <2>2. CASE k = 0
    <3>1. PICK p \in Seq(PieceSet) : p = PendingPieces
      BY PendingParts DEF IInv
    <3>2. SubSeq(p, 0 + 1, Len(p)) = p
      BY SubSeqFull
    <3>. QED
      BY <2>1, <2>2, <3>1, <3>2
  <2>3. CASE k # 0
    <3>1. k \in 1..Len(PendingPieces)
      BY <2>1, <2>3
    <3>. QED
      BY <2>1, <3>1
  <2>. QED
    BY <2>2, <2>3
<1>5. ASSUME NEW src \in Nodes, NEW len \in 0..MaxSGEs * BufferSize,
             NEW fc \in 0..MaxFC, Receive(src, len, fc)
      PROVE  PendingPieces' = PendingPieces \o Stream!Pieces(src, len, fc)
  <2>1. len \in Nat /\ Complete("success", src, len, fc)
    BY <1>5, RecvDispatcherAssumption DEF Receive
  <2>. QED
    BY <2>1, CompleteAddsPieces
<1>6. ASSUME NEW status \in {"retry_exc", "other"}, NEW src \in Nodes,
             ReceiveFails(status, src)
      PROVE  PendingPieces' = PendingPieces
  <2>1. 0 \in 0..MaxFC /\ 0 \in Nat /\ Complete(status, src, 0, 0) /\ status # "success"
    BY <1>6, RecvDispatcherAssumption DEF ReceiveFails
  <2>2. PendingPieces' = PendingPieces \o <<>>
    BY <2>1, CompleteAddsPieces
  <2>3. PICK p \in Seq(PieceSet) : p = PendingPieces
    BY PendingParts DEF IInv
  <2>. QED
    BY <2>2, <2>3, ConcatEmptySeq
<1>7. CASE Dispatch
  <2>1. CASE Refill
    <3>1. UNCHANGED <<irb, cq, comps>>
      BY <2>1 DEF Refill, Throw
    <3>. QED
      BY <1>1, <3>1
  <2>2. CASE PollFails \/ SkipRefill \/ PostFails \/ FailedCompletion
             \/ EndProcess \/ NothingReceived
    <3>1. UNCHANGED <<irb, cq, comps>>
      BY <2>2 DEF PollFails, SkipRefill, PostFails, FailedCompletion, EndProcess,
                  NothingReceived, Throw
    <3>. QED
      BY <1>1, <3>1
  <2>. QED
    BY <1>2, <1>3, <1>4, <1>7, <2>1, <2>2 DEF Dispatch
<1>8. CASE \E b \in Buffers : ReturnBuffer(b)
  <2>1. UNCHANGED <<irb, cq, comps>>
    BY <1>8 DEF ReturnBuffer
  <2>. QED
    BY <1>1, <2>1
<1>9. CASE UNCHANGED vars
  BY <1>1, <1>9 DEF vars
<1>. QED
  BY <1>5, <1>6, <1>7, <1>8, <1>9 DEF Next

(* The receive path keeps the promise of ReceiveStream: whatever is polled *)
(* together, wherever the handler stops, each message reaches it complete, *)
(* in order and cut at the size of the buffers, its flow control data with *)
(* the first piece only, and a failed completion adds nothing.             *)
THEOREM StreamImplemented == Spec => ImplementsStream
<1>. DEFINE P == Promise!Next
            M == [i \in DOMAIN irb |-> Piece(irb[i])] \o PiecesOf(comps) \o PiecesOf(cq)
<1>1. M = PendingPieces /\ M' = PendingPieces'
  BY DEF PendingPieces, EntryPieces
<1>2. (IInv /\ MessagesFit) /\ [Next]_vars => [P]_M
  <2>. SUFFICES ASSUME IInv, MessagesFit, [Next]_vars PROVE [P]_M
    OBVIOUS
  <2>1. CASE PendingPieces' = PendingPieces
    BY <1>1, <2>1
  <2>2. CASE \E src \in Nodes, len \in 0..MaxSGEs * BufferSize, fc \in 0..MaxFC :
               PendingPieces' = PendingPieces \o Stream!Pieces(src, len, fc)
    <3>1. PICK src \in Nodes, len \in 0..MaxSGEs * BufferSize, fc \in 0..MaxFC :
            M' = M \o Stream!Pieces(src, len, fc)
      BY <1>1, <2>2
    <3>2. Promise!Accept(src, len, fc)
      BY <3>1 DEF Promise!Accept, Promise!Pieces, Promise!Full, Promise!Rest,
                  Stream!Pieces, Stream!Full, Stream!Rest
    <3>. QED
      BY <3>2 DEF Promise!Next
  <2>3. CASE \E k \in 1..Len(PendingPieces) : PendingPieces' = SubSeq(PendingPieces, k + 1, Len(PendingPieces))
    <3>1. \E k \in 1..Len(M) : M' = SubSeq(M, k + 1, Len(M))
      BY <1>1, <2>3
    <3>. QED
      BY <3>1 DEF Promise!Next, Promise!Handle
  <2>. QED
    BY <2>1, <2>2, <2>3, StepIsPromised
<1>3. Init => Promise!Init
  BY InitIsPromised
<1>. QED
  BY <1>2, <1>3, MessagesFitHolds, PTL DEF Spec, ImplementsStream, Promise!Spec

=============================================================================
