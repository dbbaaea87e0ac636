------------------------------ MODULE JobQueue ------------------------------
(***************************************************************************)
(* The queue of jobs (con/JobQueue): a ring without locks that many        *)
(* threads push to and one pops from.  A push reserves a slot, writes it,  *)
(* and publishes it after the slots reserved before.                       *)
(*                                                                         *)
(* The positions are not bounded here; the code keeps them modulo 2^32,    *)
(* a multiple of the size.  That a weak compare and exchange may also fail *)
(* for no reason only repeats a step.                                      *)
(***************************************************************************)
EXTENDS Integers, FiniteSets

CONSTANTS
  Threads,  \* the threads that push jobs
  Size,     \* m_size
  Jobs,     \* the jobs
  NULL      \* no job: a slot not written, or whose job is deleted

ASSUME JobQueueAssumption ==
  /\ IsFiniteSet(Threads)
  /\ Size \in Nat \ {0}
  /\ NULL \notin Jobs

VARIABLES
  front,    \* m_front
  back,     \* m_back
  backRes,  \* m_backRes
  slots,    \* m_queue
  push      \* where each thread is in AddJob and PushBack, and its variables

queue == <<front, back, backRes, slots, push>>

Slot(pos) == pos % Size
NoPush == [at |-> "idle", res |-> 0, job |-> NULL]

InitQueue ==
  /\ front = 0 /\ back = 0 /\ backRes = 0
  /\ slots = [i \in 0..Size - 1 |-> NULL]
  /\ push = [t \in Threads |-> NoPush]

IsIdle(t) == push[t].at = "idle"

(* AddJob calls PushBack, which takes a copy of the reservation.           *)
StartPush(t, job) ==
  /\ IsIdle(t)
  /\ push' = [push EXCEPT ![t] = [at |-> "check", res |-> backRes, job |-> job]]
  /\ UNCHANGED <<front, back, backRes, slots>>

FullModSize(res, pos) == Slot(res + 1) = Slot(pos)
FullAsWritten(res, pos) == res + (1 % Size) = Slot(pos)

(* The check for a full queue, as the precedence of its operators has it.  *)
Full(res, pos) == FullAsWritten(res, pos)

CheckFull(t) ==
  /\ push[t].at = "check"
  /\ IF Full(push[t].res, front)
     THEN push' = [push EXCEPT ![t].res = backRes]  \* AddJob tries again
     ELSE push' = [push EXCEPT ![t].at = "reserve"]
  /\ UNCHANGED <<front, back, backRes, slots>>

Reserve(t) ==
  /\ push[t].at = "reserve"
  /\ IF push[t].res = backRes
     THEN /\ backRes' = push[t].res + 1
          /\ push' = [push EXCEPT ![t].at = "write"]
     ELSE /\ push' = [push EXCEPT ![t].at = "check", ![t].res = backRes]
          /\ UNCHANGED backRes
  /\ UNCHANGED <<front, back, slots>>

WriteSlot(t) ==
  /\ push[t].at = "write"
  /\ slots' = [slots EXCEPT ![Slot(push[t].res)] = push[t].job]
  /\ push' = [push EXCEPT ![t].at = "publish"]
  /\ UNCHANGED <<front, back, backRes>>

ResWhileWaiting(t) == back

PublishesBlindly(t) == TRUE
PublishesInTurn(t)  == push[t].res = back
Publishes(t) == PublishesInTurn(t)

(* A compare and exchange that fails loads what it found into the copy,    *)
(* so that it is the thread's turn when it tries again.                    *)
Publish(t) ==
  /\ push[t].at = "publish"
  /\ IF Publishes(t)
     THEN /\ back' = push[t].res + 1
          /\ push' = [push EXCEPT ![t].at = "notify"]
     ELSE /\ push' = [push EXCEPT ![t].res = ResWhileWaiting(t)]
          /\ UNCHANGED back
  /\ UNCHANGED <<front, backRes, slots>>

PushBack(t) == CheckFull(t) \/ Reserve(t) \/ WriteSlot(t) \/ Publish(t)

IsEmpty == Slot(front) = Slot(back)

(* What PopFront returns, and what it leaves: the job is deleted by who    *)
(* popped it, its slot keeps the pointer.                                  *)
FrontJob == slots[Slot(front)]
PopFront ==
  /\ ~IsEmpty
  /\ front' = front + 1
  /\ slots' = [slots EXCEPT ![Slot(front)] = NULL]
  /\ UNCHANGED <<back, backRes, push>>

-----------------------------------------------------------------------------
(* Properties.                                                             *)

PushTypes ==
  [at : {"idle", "check", "reserve", "write", "publish", "notify"}, res : Nat,
   job : Jobs \cup {NULL}]

QueueTypeOK ==
  /\ front \in Nat /\ back \in Nat /\ backRes \in Nat
  /\ slots \in [0..Size - 1 -> Jobs \cup {NULL}]
  /\ push \in [Threads -> PushTypes]

(* The threads between their reservation and its publication.              *)
Pushing == {t \in Threads : push[t].at \in {"write", "publish"}}

(* The slots reserved and not published are as many as the threads that    *)
(* are about to publish one, whoever published for whom: once no push is   *)
(* in progress the back has caught up with the reservations, and nothing   *)
(* is reserved twice.                                                      *)
ReservationsCounted ==
  /\ front <= back
  /\ backRes = back + Cardinality(Pushing)

(* "wait for any preceding reservations to complete before updating back": *)
(* what is published and not popped was written.                           *)
PublishedWritten ==
  \A pos \in front..back - 1 :
    ~\E t \in Threads : push[t].at = "write" /\ push[t].res = pos

=============================================================================
