--------------------------- MODULE RecvBufferPool ---------------------------
(***************************************************************************)
(* The pool of registered receive buffers (dx/RecvBufferPool), a lock-free *)
(* ring with one consumer and many producers.  Every atomic load, store    *)
(* and compare-and-swap of the code is a step of its own, so the threads   *)
(* interleave exactly where the code lets them.                            *)
(*                                                                         *)
(* The atomics are taken to be sequentially consistent (the relaxed and    *)
(* acquire/release accesses of the x86 build).  A weak compare-and-swap    *)
(* fails only if the value differs: a spurious failure rereads the same    *)
(* value and tries again.                                                  *)
(*                                                                         *)
(* An IllegalStateException of the pool is caught by nobody (Thread::__Run *)
(* rethrows it), so the process ends: once "thrown" is set no step is      *)
(* taken any more.                                                         *)
(***************************************************************************)
EXTENDS Integers, Sequences, FiniteSets

CONSTANTS
  PoolSize,   \* m_bufferPoolSize
  Consumer,   \* the receive thread, the only one that gets buffers
  Returners,  \* the threads that return buffers; the consumer may be one
  MaxGet,     \* bound: the largest number of buffers asked for at once
  MaxReturn,  \* bound: the most buffers the consumer returns at once
  NULL        \* nullptr, the content of an empty slot

ASSUME RecvBufferPoolAssumption ==
  /\ PoolSize \in Nat \ {0}
  /\ MaxGet \in Nat \ {0}
  /\ MaxReturn \in Nat \ {0}
  /\ NULL \notin 0..PoolSize

VARIABLES
  slots,    \* m_dataBuffers
  front,    \* m_dataBuffersFront
  back,     \* m_dataBuffersBack
  backRes,  \* m_dataBuffersBackRes
  out,      \* the buffers the callers hold: posted, received or with Java
  pc,       \* where each thread is in the call it makes
  bufs,     \* the buffers of that call, in order (retBuffers / buffers)
  want,     \* its count, after the cap to what is available
  pos,      \* its loop index i
  res,      \* its local copy of m_dataBuffersBackRes
  thrown    \* the exception that ended the process, or "none"

vars == <<slots, front, back, backRes, out, pc, bufs, want, pos, res, thrown>>

-----------------------------------------------------------------------------
Threads == {Consumer} \cup Returners
Buffers == 0..PoolSize - 1

(* m_bufferPoolSizeGapped: one slot more than there are buffers, so that   *)
(* front = back means an empty ring.                                       *)
Gapped == PoolSize + 1
Slots  == 0..PoolSize

(* How far the ring index j lies ahead of the ring index i.                *)
Ahead(i, j) == (j - i) % Gapped

(* The number of buffers GetBuffers believes it can take.  The code takes  *)
(* m_bufferPoolSize, not the gapped size, when the range wraps around.     *)
Available ==
  IF front <= back THEN back - front ELSE PoolSize - front + back

UncappedCount(count) == count

(* The count of buffers taken: never more than there seem to be.           *)
CappedCount(count) == IF Available < count THEN Available ELSE count

UnwrappedAdvance(cursor, n) == cursor + n

(* A ring index moved on by n slots.                                       *)
Advance(cursor, n) == (cursor + n) % Gapped

Init ==
  /\ slots = [i \in Slots |-> IF i = PoolSize THEN NULL ELSE i]
  /\ front = 0
  /\ back = PoolSize
  /\ backRes = PoolSize
  /\ out = {}
  /\ pc = [t \in Threads |-> "idle"]
  /\ bufs = [t \in Threads |-> <<>>]
  /\ want = [t \in Threads |-> 0]
  /\ pos = [t \in Threads |-> 0]
  /\ res = [t \in Threads |-> 0]
  /\ thrown = "none"

Running(t, label) == thrown = "none" /\ pc[t] = label
Goto(t, label)    == pc' = [pc EXCEPT ![t] = label]

-----------------------------------------------------------------------------
(* Getting buffers: the consumer thread only.                              *)

BeginTake(count) ==
  /\ Goto(Consumer, "take")
  /\ bufs' = [bufs EXCEPT ![Consumer] = <<>>]
  /\ want' = [want EXCEPT ![Consumer] = count]
  /\ pos' = [pos EXCEPT ![Consumer] = 0]
  /\ UNCHANGED <<slots, front, back, backRes, out, res, thrown>>

(* GetBuffers up to the loop: an empty ring, or one that the code believes *)
(* to be empty, returns no buffers and changes nothing.                    *)
GetBuffers(count) ==
  /\ Running(Consumer, "idle")
  /\ front # back
  /\ Available > 0
  /\ BeginTake(CappedCount(count))

(* GetBuffer is the same for one buffer, without the cap.                  *)
GetBuffer ==
  /\ Running(Consumer, "idle")
  /\ front # back
  /\ BeginTake(1)

(* One turn of the loop: read a slot, fail on an empty one, empty it.      *)
TakeSlot ==
  LET slot == Advance(front, pos[Consumer])
  IN  /\ Running(Consumer, "take")
      /\ pos[Consumer] < want[Consumer]
      /\ IF slots[slot] = NULL
         THEN /\ thrown' = "null"
              /\ UNCHANGED <<slots, bufs, pos>>
         ELSE /\ bufs' = [bufs EXCEPT ![Consumer] = Append(@, slots[slot])]
              /\ slots' = [slots EXCEPT ![slot] = NULL]
              /\ pos' = [pos EXCEPT ![Consumer] = @ + 1]
              /\ UNCHANGED thrown
      /\ UNCHANGED <<front, back, backRes, out, pc, want, res>>

(* Move the front and return the buffers to the caller.                    *)
FinishTake ==
  /\ Running(Consumer, "take")
  /\ pos[Consumer] = want[Consumer]
  /\ front' = Advance(front, want[Consumer])
  /\ out' = out \cup {bufs[Consumer][i] : i \in 1..want[Consumer]}
  /\ bufs' = [bufs EXCEPT ![Consumer] = <<>>]
  /\ want' = [want EXCEPT ![Consumer] = 0]
  /\ pos' = [pos EXCEPT ![Consumer] = 0]
  /\ Goto(Consumer, "idle")
  /\ UNCHANGED <<slots, back, backRes, res, thrown>>

-----------------------------------------------------------------------------
(* Returning buffers: ReturnBuffers by the consumer (whole parts of an SGE *)
(* list), ReturnBuffer by every other thread.                              *)

Batches(t) ==
  {batch \in UNION {[1..k -> out] :
              k \in 1..(IF t = Consumer THEN MaxReturn ELSE 1)} :
     \A i, j \in DOMAIN batch : i # j => batch[i] # batch[j]}

(* Enter the call and load m_dataBuffersBackRes.                           *)
Return(t) ==
  /\ Running(t, "idle")
  /\ \E batch \in Batches(t) :
       /\ bufs' = [bufs EXCEPT ![t] = batch]
       /\ want' = [want EXCEPT ![t] = Len(batch)]
       /\ out' = out \ {batch[i] : i \in DOMAIN batch}
  /\ res' = [res EXCEPT ![t] = backRes]
  /\ Goto(t, "check")
  /\ UNCHANGED <<slots, front, back, backRes, pos, thrown>>

(* Load the front and compare it with the reservation to be made.          *)
CheckOverflow(t) ==
  /\ Running(t, "check")
  /\ IF Advance(res[t], want[t]) = front
     THEN thrown' = "overflow" /\ UNCHANGED pc
     ELSE Goto(t, "reserve") /\ UNCHANGED thrown
  /\ UNCHANGED <<slots, front, back, backRes, out, bufs, want, pos, res>>

UncheckedSwap(t) == TRUE

(* The compare-and-swap of m_dataBuffersBackRes succeeds.                  *)
SwapsReservation(t) == backRes = res[t]

(* Reserve the slots: a failed compare-and-swap reloads res and goes back  *)
(* to the check.                                                           *)
Reserve(t) ==
  /\ Running(t, "reserve")
  /\ IF SwapsReservation(t)
     THEN /\ backRes' = Advance(res[t], want[t])
          /\ Goto(t, "write")
          /\ UNCHANGED res
     ELSE /\ res' = [res EXCEPT ![t] = backRes]
          /\ Goto(t, "check")
          /\ UNCHANGED backRes
  /\ UNCHANGED <<slots, front, back, out, bufs, want, pos, thrown>>

FirstBuffer(t) == bufs[t][1]

(* The buffer the loop writes next.                                        *)
NextBuffer(t) == bufs[t][pos[t] + 1]

(* One turn of the loop: fail on an occupied slot, else fill it.           *)
WriteSlot(t) ==
  LET slot == Advance(res[t], pos[t])
  IN  /\ Running(t, "write")
      /\ pos[t] < want[t]
      /\ IF slots[slot] # NULL
         THEN thrown' = "overwrite" /\ UNCHANGED <<slots, pos>>
         ELSE /\ slots' = [slots EXCEPT ![slot] = NextBuffer(t)]
              /\ pos' = [pos EXCEPT ![t] = @ + 1]
              /\ UNCHANGED thrown
      /\ UNCHANGED <<front, back, backRes, out, pc, bufs, want, res>>

PlainStore(t)     == TRUE
SwapsFromEnd(t)   == back = Advance(res[t], want[t])

(* The compare-and-swap of m_dataBuffersBack succeeds.                     *)
SwapsBack(t) == back = res[t]

(* Move the back: a failed compare-and-swap leaves the current back in     *)
(* res, and the next attempt swaps from there.                             *)
Publish(t) ==
  /\ Running(t, "write")
  /\ pos[t] = want[t]
  /\ IF SwapsBack(t)
     THEN /\ back' = Advance(res[t], want[t])
          /\ bufs' = [bufs EXCEPT ![t] = <<>>]
          /\ want' = [want EXCEPT ![t] = 0]
          /\ pos' = [pos EXCEPT ![t] = 0]
          /\ res' = [res EXCEPT ![t] = 0]
          /\ Goto(t, "idle")
     ELSE /\ res' = [res EXCEPT ![t] = back]
          /\ UNCHANGED <<back, bufs, want, pos, pc>>
  /\ UNCHANGED <<slots, front, backRes, out, thrown>>

Next ==
  \/ \E count \in 1..MaxGet : GetBuffers(count)
  \/ GetBuffer
  \/ TakeSlot
  \/ FinishTake
  \/ \E t \in Returners :
       Return(t) \/ CheckOverflow(t) \/ Reserve(t) \/ WriteSlot(t) \/ Publish(t)

(* A thread inside a call keeps running; nobody has to start a call.       *)
Fairness ==
  /\ WF_vars(TakeSlot \/ FinishTake)
  /\ \A t \in Returners :
       WF_vars(CheckOverflow(t) \/ Reserve(t) \/ WriteSlot(t) \/ Publish(t))

Spec     == Init /\ [][Next]_vars
FairSpec == Spec /\ Fairness

-----------------------------------------------------------------------------
(* Properties.                                                             *)

TypeOK ==
  /\ slots \in [Slots -> Buffers \cup {NULL}]
  /\ front \in Slots
  /\ back \in Slots
  /\ backRes \in Slots
  /\ out \subseteq Buffers
  /\ pc \in [Threads -> {"idle", "take", "check", "reserve", "write"}]
  /\ bufs \in [Threads -> Seq(Buffers)]
  /\ want \in [Threads -> 0..PoolSize]
  /\ pos \in [Threads -> 0..PoolSize]
  /\ res \in [Threads -> Slots]
  /\ \A t \in Threads : pos[t] <= want[t]
  /\ thrown \in {"none", "null", "overflow", "overwrite"}

(* The buffers a call in progress has in its array and not in the ring.    *)
InCall(t) ==
  IF pc[t] = "take"
  THEN {bufs[t][i] : i \in 1..pos[t]}
  ELSE {bufs[t][i] : i \in pos[t] + 1..want[t]}

(* Where the buffer b is: each place that has it, once.                    *)
Places(b) ==
  {<<"slot", i>> : i \in {j \in Slots : slots[j] = b}}
    \cup {<<"call", t>> : t \in {u \in Threads : b \in InCall(u)}}
    \cup (IF b \in out THEN {<<"out", 0>>} ELSE {})

(* However gets and returns interleave, every buffer is in exactly one     *)
(* place: none is lost, none is handed out twice.                          *)
OneOwner == \A b \in Buffers : \E p \in Places(b) : Places(b) = {p}

(* Two threads never reserve the same slot: the "Overwriting existing      *)
(* buffer" exception of the returning functions is unreachable.            *)
NoOverwrite == thrown # "overwrite"

(* Once no call is in progress, whatever order the returns published in,   *)
(* the back has caught up with the reservations and the slots from front   *)
(* to back are exactly the occupied ones.                                  *)
QuiescentConsistent ==
  (thrown = "none" /\ \A t \in Threads : pc[t] = "idle") =>
     /\ back = backRes
     /\ \A i \in Slots :
          (slots[i] # NULL) <=> (Ahead(front, i) < Ahead(front, back))

(* The back never overtakes the reservations, nor the front the back: what *)
(* the consumer is told to be available was reserved by somebody.          *)
CursorOrder ==
  /\ Ahead(front, back) <= Ahead(front, backRes)
  /\ want[Consumer] <= Ahead(front, back) \/ pc[Consumer] # "take"

(* Lock freedom: while calls are in progress, some call always finishes    *)
(* (or the process has ended): the threads waiting to move the back never  *)
(* wait for each other for ever.                                           *)
SomeCallFinishes ==
  \/ []<>(thrown # "none" \/ \A t \in Threads : pc[t] = "idle")
  \/ []<><<\E t \in Threads : pc[t] # "idle" /\ pc'[t] = "idle">>_vars

(* With all buffers returned by the receive thread itself, as the loopback *)
(* system does, no exception of the pool is reachable, however many        *)
(* buffers are asked for.                                                  *)
NeverThrows == thrown = "none"

(* "This should not happen": returning a buffer one got from the pool      *)
(* never finds the ring full.                                              *)
NoOverflow == thrown # "overflow"

(* A return that reserved later waits for the earlier ones before it moves *)
(* the back: every slot from front to back that the consumer has not       *)
(* emptied itself holds a buffer.                                          *)
PublishedSlotsWritten ==
  \A i \in Slots :
    (Ahead(front, i) < Ahead(front, back) /\ slots[i] = NULL) =>
      pc[Consumer] = "take" /\ Ahead(front, i) < pos[Consumer]

(* GetBuffers returns less than asked for only when not enough buffers are *)
(* available: the number it computes is the number there is.               *)
AvailableExact == Available = Ahead(front, back)

-----------------------------------------------------------------------------
(* What the properties rest on: the inductive invariant.                   *)

(* What a thread's count, index and array are at each place of its call;   *)
(* no array has a buffer twice.                                            *)
ShapeOf(t) ==
  /\ CASE pc[t] = "idle" -> bufs[t] = <<>> /\ want[t] = 0
       [] pc[t] = "take" -> t = Consumer /\ Len(bufs[t]) = pos[t]
       [] OTHER          -> Len(bufs[t]) = want[t]
  /\ pc[t] # "idle" => want[t] > 0
  /\ pc[t] \in {"check", "reserve"} => pos[t] = 0
  /\ \A i, j \in 1..Len(bufs[t]) : i # j => bufs[t][i] # bufs[t][j]

CallShape == \A t \in Threads : ShapeOf(t)

(* The buffers for which no slot of the ring is reserved: those the        *)
(* callers hold and those of the returns that have no reservation yet.     *)
Held ==
  out \cup UNION {InCall(t) : t \in {u \in Threads : pc[u] \in {"check", "reserve"}}}

(* The ring has a slot, full or reserved, for every other buffer: a        *)
(* reservation never runs into the front.                                  *)
RingHoldsRest == Cardinality(Held) + Ahead(front, backRes) = PoolSize

(* The slots reserved by the returns in progress, counted.                 *)
Pending ==
  {p \in Threads \X (1..PoolSize) : pc[p[1]] = "write" /\ p[2] <= want[p[1]]}

(* Between the back and the reservations lie as many slots as the returns  *)
(* in progress reserved, whichever of them moved the back how far.         *)
PendingBehindBack ==
  /\ IsFiniteSet(Pending)
  /\ Ahead(front, back) + Cardinality(Pending) = Ahead(front, backRes)

(* How many slots at the front the consumer has emptied.                   *)
Taken == IF pc[Consumer] = "take" THEN pos[Consumer] ELSE 0

InRing(i) == Taken <= Ahead(front, i) /\ Ahead(front, i) < Ahead(front, backRes)

(* The slots a return has reserved and not written.                        *)
Unwritten(t) ==
  IF pc[t] = "write" THEN {Advance(res[t], k) : k \in pos[t]..want[t] - 1} ELSE {}

(* The ring from the front to the reservations is the occupied slots and   *)
(* the unwritten ones, and no slot was reserved by two threads.            *)
SlotsAccounted ==
  /\ \A i \in Slots :
       /\ slots[i] # NULL => InRing(i)
       /\ InRing(i) /\ slots[i] = NULL => \E t \in Threads : i \in Unwritten(t)
  /\ \A t \in Threads : \A i \in Unwritten(t) : slots[i] = NULL /\ InRing(i)
  /\ \A t, u \in Threads : t # u => Unwritten(t) \cap Unwritten(u) = {}

IInv ==
  /\ TypeOK
  /\ CallShape
  /\ OneOwner
  /\ RingHoldsRest
  /\ PendingBehindBack
  /\ SlotsAccounted
  /\ CursorOrder
  /\ NoOverwrite

(* With the consumer as the only returning thread, no reservation is       *)
(* overtaken by another, and what a return has written so far lies behind  *)
(* the back in the order of its array.                                     *)
Sequential ==
  /\ pc[Consumer] \in {"check", "reserve"} => res[Consumer] = backRes
  /\ pc[Consumer] = "write" =>
       /\ res[Consumer] = back
       /\ \A k \in 0..pos[Consumer] - 1 :
            slots[Advance(back, k)] = bufs[Consumer][k + 1]

-----------------------------------------------------------------------------
(* With one returning thread the ring is the abstract pool.  The buffers   *)
(* from front to back are available; those the consumer has taken but not  *)
(* yet returned to its caller still count as available.                    *)

AvailSeq ==
  [i \in 1..Ahead(front, back) |->
     IF pc[Consumer] = "take" /\ i <= pos[Consumer]
     THEN bufs[Consumer][i]
     ELSE slots[(front + i - 1) % Gapped]]

Abstract ==
  INSTANCE BufferPool WITH
    avail <- AvailSeq,
    out   <- Buffers \ {AvailSeq[i] : i \in DOMAIN AvailSeq}

ImplementsPool == Abstract!Spec

=============================================================================
