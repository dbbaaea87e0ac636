-------------------------- MODULE JobManagerProofs --------------------------
(***************************************************************************)
(* Theorems about JobManager and the JobQueue in it, for every size of the *)
(* queue and any number of threads, nodes and jobs.                        *)
(***************************************************************************)
EXTENDS JobManager, FiniteSetTheorems, TLAPS

-----------------------------------------------------------------------------
(* The queue.                                                              *)

QueueInv == QueueTypeOK /\ ReservationsCounted

(* What AddJob is called with.                                             *)
LEMMA StartTyped ==
  ASSUME QueueTypeOK, NEW t \in Threads, NEW j \in Jobs, StartPush(t, j)
  PROVE  QueueTypeOK'
BY DEF QueueTypeOK, PushTypes, StartPush

(* A push that starts has reserved nothing yet.                            *)
LEMMA StartKeeps ==
  ASSUME QueueInv, NEW t \in Threads, NEW j \in Jobs, StartPush(t, j)
  PROVE  QueueInv'
<1>1. QueueTypeOK'
  BY StartTyped DEF QueueInv
<1>2. Pushing' = Pushing
  BY DEF QueueInv, QueueTypeOK, StartPush, IsIdle, Pushing
<1>. QED
  BY <1>1, <1>2 DEF QueueInv, ReservationsCounted, StartPush

(* The threads are finitely many.                                          *)
LEMMA PushingFinite == IsFiniteSet(Pushing)
BY JobQueueAssumption, FS_Subset DEF Pushing

(* One reserves a slot, writes it and publishes one: the count of those    *)
(* that are about to publish follows the reservations and the back.        *)
LEMMA PushKeeps ==
  ASSUME QueueInv, NEW t \in Threads, PushBack(t)
  PROVE  QueueInv'
<1>1. /\ front \in Nat /\ back \in Nat /\ backRes \in Nat
      /\ slots \in [0..Size - 1 -> Jobs \cup {NULL}]
      /\ push \in [Threads -> PushTypes]
      /\ push[t] \in PushTypes
      /\ push[t].res \in Nat
      /\ push[t].job \in Jobs \cup {NULL}
  BY DEF QueueInv, QueueTypeOK, PushTypes
<1>2. front <= back /\ backRes = back + Cardinality(Pushing)
  BY DEF QueueInv, ReservationsCounted
<1>. DEFINE Moves(to) == /\ push'[t].at = to
                         /\ \A k \in Threads : k # t => push'[k] = push[k]
<1>3. CASE CheckFull(t)
  <2>1. Pushing' = Pushing
    <3>1. push[t].at = "check" /\ (Moves("check") \/ Moves("reserve"))
      BY <1>1, <1>3 DEF CheckFull, PushTypes
    <3>. QED
      BY <3>1 DEF Pushing
  <2>2. QueueTypeOK'
    <3>1. /\ [push[t] EXCEPT !.res = backRes] \in PushTypes
          /\ [push[t] EXCEPT !.at = "reserve"] \in PushTypes
      BY <1>1 DEF PushTypes
    <3>2. push' \in [Threads -> PushTypes]
      BY <1>1, <1>3, <3>1 DEF CheckFull
    <3>. QED
      BY <1>1, <1>3, <3>2 DEF CheckFull, QueueTypeOK
  <2>. QED
    BY <1>2, <1>3, <2>1, <2>2 DEF CheckFull, QueueInv, ReservationsCounted
<1>4. CASE Reserve(t)
  <2>1. QueueTypeOK'
    BY <1>1, <1>4 DEF Reserve, QueueTypeOK, PushTypes
  <2>2. CASE push[t].res = backRes
    <3>0. push[t].at = "reserve" /\ Moves("write")
      BY <1>1, <1>4, <2>2 DEF Reserve, PushTypes
    <3>1. Pushing' = Pushing \cup {t} /\ t \notin Pushing
      BY <3>0 DEF Pushing
    <3>2. Cardinality(Pushing') = Cardinality(Pushing) + 1
      BY <3>1, PushingFinite, FS_AddElement
    <3>3. Cardinality(Pushing) \in Nat
      BY PushingFinite, FS_CardinalityType
    <3>4. front' = front /\ back' = back /\ backRes' = backRes + 1
      BY <1>4, <2>2 DEF Reserve
    <3>. QED
      BY <1>1, <1>2, <2>1, <3>2, <3>3, <3>4 DEF QueueInv, ReservationsCounted
  <2>3. CASE push[t].res # backRes
    <3>0. push[t].at = "reserve" /\ Moves("check")
      BY <1>1, <1>4, <2>3 DEF Reserve, PushTypes
    <3>1. Pushing' = Pushing
      BY <3>0 DEF Pushing
    <3>2. front' = front /\ back' = back /\ backRes' = backRes
      BY <1>4, <2>3 DEF Reserve
    <3>. QED
      BY <1>2, <2>1, <3>1, <3>2 DEF QueueInv, ReservationsCounted
  <2>. QED
    BY <2>2, <2>3
<1>5. CASE WriteSlot(t)
  <2>1. Pushing' = Pushing
    <3>1. push[t].at = "write" /\ Moves("publish")
      BY <1>1, <1>5 DEF WriteSlot, PushTypes
    <3>. QED
      BY <3>1 DEF Pushing
  <2>2. QueueTypeOK'
    BY <1>1, <1>5 DEF WriteSlot, QueueTypeOK, PushTypes
  <2>. QED
    BY <1>2, <1>5, <2>1, <2>2 DEF WriteSlot, QueueInv, ReservationsCounted
<1>6. CASE Publish(t)
  <2>1. QueueTypeOK'
    BY <1>1, <1>6
       DEF Publish, Publishes, PublishesInTurn, ResWhileWaiting,
           QueueTypeOK, PushTypes
  <2>2. CASE Publishes(t)
    <3>0. push[t].at = "publish" /\ Moves("notify")
      BY <1>1, <1>6, <2>2 DEF Publish, PushTypes
    <3>1. Pushing' = Pushing \ {t} /\ t \in Pushing
      BY <3>0 DEF Pushing
    <3>2. Cardinality(Pushing') = Cardinality(Pushing) - 1
      BY <3>1, PushingFinite, FS_RemoveElement
    <3>3. Cardinality(Pushing) \in Nat
      BY PushingFinite, FS_CardinalityType
    <3>4. front' = front /\ back' = back + 1 /\ backRes' = backRes
      BY <1>6, <2>2 DEF Publish, Publishes, PublishesInTurn
    <3>. QED
      BY <1>1, <1>2, <2>1, <3>2, <3>3, <3>4 DEF QueueInv, ReservationsCounted
  <2>3. CASE ~Publishes(t)
    <3>0. push[t].at = "publish" /\ Moves("publish")
      BY <1>1, <1>6, <2>3 DEF Publish, PushTypes
    <3>1. Pushing' = Pushing
      BY <3>0 DEF Pushing
    <3>2. front' = front /\ back' = back /\ backRes' = backRes
      BY <1>6, <2>3 DEF Publish
    <3>. QED
      BY <1>2, <2>1, <3>1, <3>2 DEF QueueInv, ReservationsCounted
  <2>. QED
    BY <2>2, <2>3
<1>. QED
  BY <1>3, <1>4, <1>5, <1>6 DEF PushBack

(* A push that has notified the job thread is over.                        *)
LEMMA NotifyKeeps ==
  ASSUME QueueInv, NEW t \in Threads, push[t].at = "notify",
         push' = [push EXCEPT ![t] = NoPush], UNCHANGED <<front, back, backRes, slots>>
  PROVE  QueueInv'
<1>1. Pushing' = Pushing
  BY DEF QueueInv, QueueTypeOK, NoPush, Pushing
<1>. QED
  BY <1>1 DEF QueueInv, QueueTypeOK, PushTypes, NoPush, ReservationsCounted

(* What is popped has been published.                                      *)
LEMMA PopKeeps ==
  ASSUME QueueInv, PopFront
  PROVE  QueueInv' /\ FrontJob \in Jobs \cup {NULL}
<1>1. front # back
  BY DEF PopFront, IsEmpty
<1>2. Slot(front) \in 0..Size - 1
  BY JobQueueAssumption DEF QueueInv, QueueTypeOK, Slot
<1>3. Pushing' = Pushing
  BY DEF PopFront, Pushing
<1>. QED
  BY <1>1, <1>2, <1>3 DEF PopFront, FrontJob, QueueInv, QueueTypeOK, ReservationsCounted

-----------------------------------------------------------------------------
(* What the parts of the invariant see of a step of the queue.             *)

(* The thread that starts to add a job is busy, no other one changes.      *)
LEMMA StartStep ==
  ASSUME QueueInv, SleepAgrees, NEW t \in Threads, NEW j \in Jobs, StartPush(t, j), at' = at
  PROVE  /\ QueueInv'
         /\ SleepAgrees'
         /\ IsIdle(t)
         /\ \A k \in Threads : k # t => (IsIdle(k)' <=> IsIdle(k))
<1>1. push \in [Threads -> PushTypes]
  BY DEF QueueInv, QueueTypeOK
<1>2. \A k \in Threads : k # t => push'[k] = push[k]
  BY <1>1 DEF StartPush
<1>3. push[t].at = "idle"
  BY DEF StartPush, IsIdle
<1>4. IsEmpty' <=> IsEmpty
  BY DEF StartPush, IsEmpty
<1>. QED
  BY <1>2, <1>3, <1>4, StartKeeps DEF SleepAgrees, Woken, IsIdle

(* A step of PushBack leaves the thread busy; the one that publishes a job *)
(* is about to wake the job thread.                                        *)
LEMMA PushStep ==
  ASSUME QueueInv, SleepAgrees, NEW t \in Threads, PushBack(t), at' = at
  PROVE  /\ QueueInv'
         /\ SleepAgrees'
         /\ \A k \in Threads : IsIdle(k)' <=> IsIdle(k)
<1>1. push \in [Threads -> PushTypes] /\ push[t] \in PushTypes
  BY DEF QueueInv, QueueTypeOK
<1>2. /\ \A k \in Threads : k # t => push'[k] = push[k]
      /\ push[t].at \in {"check", "reserve", "write", "publish"}
      /\ push'[t].at \in {"check", "reserve", "write", "publish", "notify"}
      /\ push'[t].at = "notify" \/ (front' = front /\ back' = back)
  <2>1. CASE CheckFull(t)
    BY <1>1, <2>1 DEF CheckFull, PushTypes
  <2>2. CASE Reserve(t)
    BY <1>1, <2>2 DEF Reserve, PushTypes
  <2>3. CASE WriteSlot(t)
    BY <1>1, <2>3 DEF WriteSlot, PushTypes
  <2>4. CASE Publish(t)
    BY <1>1, <2>4 DEF Publish, PushTypes
  <2>. QED
    BY <2>1, <2>2, <2>3, <2>4 DEF PushBack
<1>3. \A k \in Threads : push[k].at = "notify" => push'[k].at = "notify"
  BY <1>2
<1>4. SleepAgrees'
  <2>1. CASE push'[t].at = "notify"
    BY <2>1 DEF SleepAgrees, Woken
  <2>2. CASE front' = front /\ back' = back
    <3>1. IsEmpty' <=> IsEmpty
      BY <2>2 DEF IsEmpty
    <3>. QED
      BY <1>3, <3>1 DEF SleepAgrees, Woken
  <2>. QED
    BY <1>2, <2>1, <2>2
<1>. QED
  BY <1>2, <1>4, PushKeeps DEF IsIdle

(* A step that leaves the queue alone and does not begin to sleep.         *)
LEMMA QueueSame ==
  ASSUME QueueInv, SleepAgrees, UNCHANGED queue, at' = at \/ at' # "sleep"
  PROVE  /\ QueueInv'
         /\ SleepAgrees'
         /\ IsEmpty' <=> IsEmpty
         /\ \A k \in Threads : IsIdle(k)' <=> IsIdle(k)
<1>1. QueueInv' /\ (IsEmpty' <=> IsEmpty)
  BY DEF queue, QueueInv, QueueTypeOK, ReservationsCounted, Pushing, IsEmpty
<1>. QED
  BY <1>1 DEF queue, SleepAgrees, Woken, IsIdle

-----------------------------------------------------------------------------
(* The invariant.                                                          *)

(* The types of what is not the queue.                                     *)
LoopTyped ==
  /\ at \in {"pop", "popped", "dispatch", "add", "discover", "check", "sleep", "stopped"}
  /\ job \in Jobs \cup {NULL}
  /\ todo \in Seq(Jobs)
  /\ conn \in [Nodes -> {"none", "created", "connected"}]
  /\ broken \in {"none", "no job", "no class", "no node"}
ObjectsTyped ==
  /\ main \in {"run", "flag", "close", "connections: receiver",
               "connections: dispatcher", "idle job", "discovery: receiver",
               "discovery: dispatcher", "stop", "join", "done"}
  /\ left \subseteq Nodes
  /\ receivers \subseteq Managers
  /\ dispatchers \subseteq Managers
  /\ alive \subseteq Objects
FlagsTyped == flagShutdown \in BOOLEAN /\ idleJob \in BOOLEAN /\ run \in BOOLEAN
OthersTyped == LoopTyped /\ ObjectsTyped /\ FlagsTyped

(* The invariant, as the proof takes it apart.                             *)
Inv ==
  /\ QueueInv
  /\ SleepAgrees
  /\ OthersTyped
  /\ BusyAgrees
  /\ ShutdownAgrees
  /\ LocksHold

(* The jobs of the threads are jobs of the queue.                          *)
LEMMA JobTypes ==
  /\ \A n \in Nodes, y \in {"create", "connect", "close", "shutdown"} :
       [type |-> y, node |-> n] \in Jobs
  /\ Invalid \in Jobs /\ Discover \in Jobs /\ ConnectionJobs \subseteq Jobs
  /\ {JobThread, Exchange, Main} \cup Workers = Threads
BY JobManagerAssumption DEF ConnectionJobs

(* Nothing is destroyed at the start.                                      *)
LEMMA InitHolds == Init => Inv
<1>. SUFFICES ASSUME Init PROVE Inv
  OBVIOUS
<1>1. \A t \in Threads : push[t] = NoPush /\ IsIdle(t)
  BY DEF Init, InitQueue, NoPush, IsIdle
<1>2. QueueTypeOK
  BY JobQueueAssumption DEF Init, InitQueue, QueueTypeOK, PushTypes, NoPush
<1>3. Pushing = {}
  BY <1>1 DEF Pushing, NoPush
<1>4. ReservationsCounted
  BY <1>3, FS_EmptySet DEF Init, InitQueue, ReservationsCounted
<1>5. OthersTyped
  <2>1. todo = <<>> /\ <<>> \in Seq(Jobs)
    BY DEF Init
  <2>. QED
    BY <2>1 DEF Init, OthersTyped, LoopTyped, ObjectsTyped, FlagsTyped, Objects
<1>6. SleepAgrees /\ LocksHold /\ BusyAgrees
  BY <1>1, JobTypes DEF Init, SleepAgrees, LocksHold, BusyAgrees
<1>7. ShutdownAgrees
  BY DEF Init, ShutdownAgrees, Objects, Managers, DispatcherStep, ReceiverStep
<1>. QED
  BY <1>2, <1>4, <1>5, <1>6, <1>7 DEF QueueInv, Inv

(* What the shutdown has done is as it was when it does nothing.           *)
LEMMA ShutdownSame ==
  ASSUME ShutdownAgrees, UNCHANGED shutdown, at = "stopped" => at' = "stopped"
  PROVE  /\ ShutdownAgrees'
         /\ UNCHANGED <<main, left, receivers, dispatchers, alive>>
         /\ UNCHANGED <<flagShutdown, idleJob, run>>
<1>1. UNCHANGED <<main, left, receivers, dispatchers, alive>>
  BY DEF shutdown
<1>2. UNCHANGED <<flagShutdown, idleJob, run>>
  BY Zenon DEF shutdown
<1>. QED
  BY <1>1, <1>2 DEF ShutdownAgrees, DispatcherStep, ReceiverStep

(* Nor is anything else when neither the job thread does anything.         *)
LEMMA RestSame ==
  ASSUME OthersTyped, ShutdownAgrees, LocksHold, UNCHANGED <<loop, shutdown, conn, broken>>
  PROVE  OthersTyped' /\ ShutdownAgrees' /\ LocksHold'
<1>1. UNCHANGED <<at, job, todo>>
  BY DEF loop
<1>2. /\ ShutdownAgrees'
      /\ UNCHANGED <<main, left, receivers, dispatchers, alive>>
      /\ UNCHANGED <<flagShutdown, idleJob, run>>
  BY <1>1, ShutdownSame
<1>3. OthersTyped'
  <2>1. UNCHANGED <<conn, broken>>
    OBVIOUS
  <2>2. LoopTyped'
    BY <1>1, <2>1 DEF OthersTyped, LoopTyped
  <2>3. ObjectsTyped'
    BY <1>2 DEF OthersTyped, ObjectsTyped
  <2>4. FlagsTyped'
    BY <1>2 DEF OthersTyped, FlagsTyped
  <2>. QED
    BY <2>2, <2>3, <2>4 DEF OthersTyped
<1>. QED
  BY <1>1, <1>2, <1>3 DEF LocksHold

(* A thread starts to add a job.                                           *)
LEMMA AddsKeep ==
  ASSUME Inv,
         \/ ExchangeAdds
         \/ \E t \in Workers : WorkerAdds(t)
         \/ AddNext
         \/ \E n \in Nodes : CloseOpened(n) /\ conn[n] # "none"
  PROVE  Inv'
<1>0. QueueInv /\ SleepAgrees /\ OthersTyped /\ BusyAgrees /\ ShutdownAgrees /\ LocksHold
  BY DEF Inv
<1>1. CASE ExchangeAdds
  <2>1. PICK j \in Jobs : StartPush(Exchange, j) /\ receivers # {}
    BY <1>1, JobTypes DEF ExchangeAdds
  <2>2. /\ QueueInv' /\ SleepAgrees'
        /\ \A k \in Threads : k # Exchange => (IsIdle(k)' <=> IsIdle(k))
    BY <1>0, <1>1, <2>1, StartStep, JobTypes DEF ExchangeAdds, loop
  <2>3. OthersTyped' /\ ShutdownAgrees' /\ LocksHold'
    BY <1>0, <1>1, RestSame DEF ExchangeAdds
  <2>4. BusyAgrees'
    BY <1>0, <1>1, <2>1, <2>2, JobTypes, JobManagerAssumption
       DEF ExchangeAdds, loop, shutdown, BusyAgrees
  <2>. QED
    BY <2>2, <2>3, <2>4 DEF Inv
<1>2. ASSUME NEW t \in Workers, WorkerAdds(t) PROVE Inv'
  <2>1. PICK j \in Jobs : StartPush(t, j)
    BY <1>2, JobTypes DEF WorkerAdds
  <2>2. /\ QueueInv' /\ SleepAgrees'
        /\ \A k \in Threads : k # t => (IsIdle(k)' <=> IsIdle(k))
    BY <1>0, <1>2, <2>1, StartStep, JobTypes DEF WorkerAdds, loop
  <2>3. OthersTyped' /\ ShutdownAgrees' /\ LocksHold'
    BY <1>0, <1>2, RestSame DEF WorkerAdds
  <2>4. BusyAgrees'
    BY <1>0, <1>2, <2>2, JobTypes, JobManagerAssumption
       DEF WorkerAdds, loop, shutdown, BusyAgrees
  <2>. QED
    BY <2>2, <2>3, <2>4 DEF Inv
<1>3. CASE AddNext
  <2>1. Head(todo) \in Jobs /\ Tail(todo) \in Seq(Jobs)
    <3>1. todo \in Seq(Jobs)
      BY <1>0 DEF OthersTyped, LoopTyped, ObjectsTyped, FlagsTyped
    <3>2. todo # <<>>
      BY <1>3 DEF AddNext
    <3>. QED
      BY <3>1, <3>2
  <2>2. /\ QueueInv' /\ SleepAgrees'
        /\ \A k \in Threads : k # JobThread => (IsIdle(k)' <=> IsIdle(k))
    BY <1>0, <1>3, <2>1, StartStep, JobTypes DEF AddNext
  <2>3. OthersTyped' /\ ShutdownAgrees' /\ LocksHold'
    <3>1. /\ ShutdownAgrees'
          /\ UNCHANGED <<main, left, receivers, dispatchers, alive>>
          /\ UNCHANGED <<flagShutdown, idleJob, run>>
      BY <1>0, <1>3, ShutdownSame DEF AddNext
    <3>2. UNCHANGED <<at, job, conn, broken>> /\ todo' = Tail(todo)
      BY <1>3 DEF AddNext
    <3>3. OthersTyped'
      <4>1. LoopTyped'
        BY <1>0, <2>1, <3>1, <3>2 DEF OthersTyped, LoopTyped
      <4>2. ObjectsTyped'
        BY <1>0, <2>1, <3>1, <3>2 DEF OthersTyped, ObjectsTyped
      <4>3. FlagsTyped'
        BY <1>0, <2>1, <3>1, <3>2 DEF OthersTyped, FlagsTyped
      <4>. QED
        BY <4>1, <4>2, <4>3 DEF OthersTyped
    <3>4. LocksHold'
      BY <1>0, <3>1, <3>2 DEF LocksHold
    <3>. QED
      BY <3>1, <3>3, <3>4
  <2>4. BusyAgrees'
    BY <1>0, <1>3, <2>2, JobTypes, JobManagerAssumption DEF AddNext, shutdown, BusyAgrees
  <2>. QED
    BY <2>2, <2>3, <2>4 DEF Inv
<1>4. ASSUME NEW n \in Nodes, CloseOpened(n), conn[n] # "none" PROVE Inv'
  <2>1. PICK j \in Jobs : StartPush(Main, j)
    BY <1>4, JobTypes DEF CloseOpened, CloseJob
  <2>2. /\ QueueInv' /\ SleepAgrees'
        /\ \A k \in Threads : k # Main => (IsIdle(k)' <=> IsIdle(k))
    BY <1>0, <1>4, <2>1, StartStep, JobTypes DEF CloseOpened, loop
  <2>3. OthersTyped' /\ ShutdownAgrees' /\ LocksHold'
    <3>1. /\ UNCHANGED <<at, job, todo>>
          /\ UNCHANGED <<main, receivers, dispatchers, alive, conn, broken>>
          /\ left' = left \ {n}
      BY <1>4 DEF CloseOpened, loop
    <3>2. UNCHANGED <<flagShutdown, idleJob, run>>
      BY <1>4, Zenon DEF CloseOpened
    <3>3. OthersTyped'
      <4>1. LoopTyped'
        BY <1>0, <3>1, <3>2 DEF OthersTyped, LoopTyped
      <4>2. ObjectsTyped'
        BY <1>0, <3>1, <3>2 DEF OthersTyped, ObjectsTyped
      <4>3. FlagsTyped'
        BY <1>0, <3>1, <3>2 DEF OthersTyped, FlagsTyped
      <4>. QED
        BY <4>1, <4>2, <4>3 DEF OthersTyped
    <3>4. ShutdownAgrees'
      BY <1>0, <3>1 DEF ShutdownAgrees, DispatcherStep, ReceiverStep
    <3>5. LocksHold'
      BY <1>0, <3>1, <3>2 DEF LocksHold
    <3>. QED
      BY <3>3, <3>4, <3>5
  <2>4. BusyAgrees'
    BY <1>0, <1>4, <2>2, JobTypes, JobManagerAssumption DEF CloseOpened, loop, BusyAgrees
  <2>. QED
    BY <2>2, <2>3, <2>4 DEF Inv
<1>. QED
  BY <1>1, <1>2, <1>3, <1>4

(* A thread goes on with the job it adds.                                  *)
LEMMA PushesKeep ==
  ASSUME Inv, NEW t \in Threads, Pushes(t)
  PROVE  Inv'
<1>0. QueueInv /\ SleepAgrees /\ OthersTyped /\ BusyAgrees /\ ShutdownAgrees /\ LocksHold
  BY DEF Inv
<1>1. /\ QueueInv' /\ SleepAgrees'
      /\ \A k \in Threads : IsIdle(k)' <=> IsIdle(k)
  BY <1>0, PushStep DEF Pushes, loop
<1>2. OthersTyped' /\ ShutdownAgrees' /\ LocksHold'
  BY <1>0, RestSame DEF Pushes
<1>3. BusyAgrees'
  BY <1>0, <1>1, JobTypes DEF Pushes, loop, shutdown, BusyAgrees
<1>. QED
  BY <1>1, <1>2, <1>3 DEF Inv

(* A thread is done with the job it added.                                 *)
LEMMA NotifiesKeep ==
  ASSUME Inv, NEW t \in Threads, Notify(t)
  PROVE  Inv'
<1>0. QueueInv /\ SleepAgrees /\ OthersTyped /\ BusyAgrees /\ ShutdownAgrees /\ LocksHold
  BY DEF Inv
<1>1. push \in [Threads -> PushTypes]
  BY <1>0 DEF QueueInv, QueueTypeOK
<1>2. QueueInv'
  BY <1>0, NotifyKeeps DEF Notify
<1>3. \A k \in Threads : ~IsIdle(k)' => ~IsIdle(k)
  BY <1>1 DEF Notify, IsIdle, NoPush
<1>4. at' # "sleep" /\ (at' = at \/ at' = "pop") /\ (at = "stopped" => at' = at)
  BY DEF Notify
<1>5. /\ ShutdownAgrees'
      /\ UNCHANGED <<main, left, receivers, dispatchers, alive>>
      /\ UNCHANGED <<flagShutdown, idleJob, run>>
  BY <1>0, <1>4, ShutdownSame DEF Notify
<1>6. /\ UNCHANGED <<job, todo, conn, broken>>
      /\ at = "add" => at' = "add"
  BY DEF Notify
<1>7. OthersTyped'
  <2>1. LoopTyped'
    BY <1>0, <1>4, <1>5, <1>6 DEF OthersTyped, LoopTyped
  <2>2. ObjectsTyped'
    BY <1>0, <1>4, <1>5, <1>6 DEF OthersTyped, ObjectsTyped
  <2>3. FlagsTyped'
    BY <1>0, <1>4, <1>5, <1>6 DEF OthersTyped, FlagsTyped
  <2>. QED
    BY <2>1, <2>2, <2>3 DEF OthersTyped
<1>8. SleepAgrees' /\ LocksHold'
  BY <1>0, <1>4, <1>5, <1>6 DEF SleepAgrees, Woken, LocksHold
<1>9. BusyAgrees'
  BY <1>0, <1>3, <1>4, <1>5, <1>6, JobTypes DEF BusyAgrees
<1>. QED
  BY <1>2, <1>5, <1>7, <1>8, <1>9 DEF Inv

(* The job thread pops a job: it is no thread that adds one.               *)
LEMMA PopsKeep ==
  ASSUME Inv, Pop
  PROVE  Inv'
<1>0. QueueInv /\ SleepAgrees /\ OthersTyped /\ BusyAgrees /\ ShutdownAgrees /\ LocksHold
  BY DEF Inv
<1>1. QueueInv' /\ FrontJob \in Jobs \cup {NULL}
  BY <1>0, PopKeeps DEF Pop
<1>2. \A k \in Threads : IsIdle(k)' <=> IsIdle(k)
  BY DEF Pop, PopFront, IsIdle
<1>3. at = "pop" /\ ((at' = "popped" /\ job' \in Jobs) \/ (at' = at /\ job' = job))
  <2>1. CASE FrontJob = NULL
    BY <2>1 DEF Pop
  <2>2. CASE FrontJob # NULL
    <3>1. FrontJob \in Jobs
      BY <1>1, <2>2
    <3>2. at = "pop" /\ at' = "popped" /\ job' = FrontJob
      BY <2>2 DEF Pop
    <3>. QED
      BY <3>1, <3>2
  <2>. QED
    BY <2>1, <2>2
<1>4. SleepAgrees' /\ LocksHold'
  BY <1>3 DEF SleepAgrees, Woken, LocksHold
<1>5. /\ ShutdownAgrees'
      /\ UNCHANGED <<main, left, receivers, dispatchers, alive>>
      /\ UNCHANGED <<flagShutdown, idleJob, run>>
  BY <1>0, <1>3, ShutdownSame DEF Pop
<1>6. UNCHANGED <<todo, conn>> /\ broken' \in {broken, "no job"}
  BY DEF Pop
<1>7. OthersTyped'
  <2>1. LoopTyped'
    BY <1>0, <1>3, <1>5, <1>6 DEF OthersTyped, LoopTyped
  <2>2. ObjectsTyped'
    BY <1>0, <1>3, <1>5, <1>6 DEF OthersTyped, ObjectsTyped
  <2>3. FlagsTyped'
    BY <1>0, <1>3, <1>5, <1>6 DEF OthersTyped, FlagsTyped
  <2>. QED
    BY <2>1, <2>2, <2>3 DEF OthersTyped
<1>8. BusyAgrees'
  BY <1>0, <1>2, <1>3, <1>5, JobTypes DEF BusyAgrees
<1>. QED
  BY <1>1, <1>4, <1>5, <1>7, <1>8 DEF Inv

(* The steps of the job thread that leave the queue alone.  The locks it   *)
(* takes with a job hold what it dispatches to.                            *)
LoopStep ==
  \/ Stopped \/ PopNothing \/ Discovered \/ Sleep \/ WakeUp
  \/ StartDispatch \/ DispatchCreate \/ DispatchConnect \/ DispatchClose
  \/ DispatchInvalid \/ DispatchDiscover \/ FinishDispatch

(* What such a step changes: the job thread was not asleep over a job, and *)
(* is busy with a job only if somebody gets it.                            *)
LoopEffect ==
  /\ UNCHANGED <<queue, shutdown>>
  /\ at # "stopped"
  /\ at' \in {"pop", "dispatch", "add", "discover", "check", "sleep", "stopped"}
  /\ at' = "sleep" => IsEmpty
  /\ at' \in {"dispatch", "add"} =>
       /\ job' = job /\ job \in Jobs /\ Receiver(job) \in dispatchers
  /\ at' = "discover" => "discovery" \in dispatchers /\ idleJob
  /\ at = "add" => IsIdle(JobThread)
  /\ job' \in {job, NULL}
  /\ todo' \in Seq(Jobs)
  /\ conn' \in [Nodes -> {"none", "created", "connected"}]
  /\ broken' \in {"none", "no job", "no class", "no node"}

(* A dispatch leaves jobs to be added.                                     *)
LEMMA DispatchEffect ==
  ASSUME at = "dispatch", BusyAgrees, LocksHold,
         NEW jobs \in Seq(Jobs), EndDispatch(jobs),
         conn' \in [Nodes -> {"none", "created", "connected"}],
         broken' \in {"none", "no job", "no class", "no node"}
  PROVE  LoopEffect
<1>1. at' = "add" /\ todo' = jobs /\ job' = job
  BY DEF EndDispatch
<1>2. UNCHANGED <<queue, shutdown>>
  BY DEF EndDispatch
<1>3. job \in Jobs /\ Receiver(job) \in dispatchers
  BY DEF BusyAgrees, LocksHold
<1>. QED
  BY <1>1, <1>2, <1>3 DEF LoopEffect

(* A connection is there, created or connected, or its class is not.       *)
LEMMA AllocateTyped ==
  ASSUME OthersTyped, NEW n, NEW to \in {"created", "connected"}, Allocate(n, to)
  PROVE  /\ conn' \in [Nodes -> {"none", "created", "connected"}]
         /\ broken' \in {"none", "no job", "no class", "no node"}
<1>1. /\ conn \in [Nodes -> {"none", "created", "connected"}]
      /\ broken \in {"none", "no job", "no class", "no node"}
  BY DEF OthersTyped, LoopTyped, ObjectsTyped, FlagsTyped
<1>2. CASE "RC" \in alive
  BY <1>1, <1>2 DEF Allocate
<1>3. CASE "RC" \notin alive
  BY <1>1, <1>3 DEF Allocate
<1>. QED
  BY <1>2, <1>3

(* Every step of the job thread is of this kind.                           *)
LEMMA LoopStepIs ==
  ASSUME OthersTyped, BusyAgrees, LocksHold, LoopStep
  PROVE  LoopEffect
<1>0. /\ todo \in Seq(Jobs)
      /\ conn \in [Nodes -> {"none", "created", "connected"}]
      /\ broken \in {"none", "no job", "no class", "no node"}
  BY DEF OthersTyped, LoopTyped, ObjectsTyped, FlagsTyped
<1>00. <<>> \in Seq(Jobs)
  OBVIOUS
<1>1. CASE Stopped
  BY <1>0, <1>1 DEF LoopEffect, Stopped
<1>2. CASE PopNothing
  BY <1>0, <1>2 DEF LoopEffect, PopNothing
<1>3. CASE Discovered
  BY <1>0, <1>3 DEF LoopEffect, Discovered
<1>4. CASE Sleep
  BY <1>0, <1>4 DEF LoopEffect, Sleep, Sleeps, SleepsIfEmpty
<1>5. CASE WakeUp
  BY <1>0, <1>5 DEF LoopEffect, WakeUp
<1>6. CASE StartDispatch
  BY <1>0, <1>6 DEF LoopEffect, StartDispatch, BusyAgrees
<1>7. CASE DispatchCreate
  <2>1. conn' \in [Nodes -> {"none", "created", "connected"}]
        /\ broken' \in {"none", "no job", "no class", "no node"}
    BY <1>0, <1>7, AllocateTyped DEF DispatchCreate
  <2>2. at = "dispatch" /\ EndDispatch(<<>>)
    BY <1>7 DEF DispatchCreate
  <2>. QED
    BY <1>00, <2>1, <2>2, DispatchEffect
<1>8. CASE DispatchConnect
  <2>1. conn' \in [Nodes -> {"none", "created", "connected"}]
        /\ broken' \in {"none", "no job", "no class", "no node"}
    BY <1>0, <1>8, AllocateTyped DEF DispatchConnect
  <2>2. at = "dispatch" /\ job.type = "connect"
    BY <1>8 DEF DispatchConnect
  <2>3. job.node \in Nodes
    <3>1. job \in Jobs
      BY <2>2 DEF BusyAgrees
    <3>2. job # Invalid /\ job # Discover
      BY <2>2 DEF Invalid, Discover
    <3>. QED
      BY <3>1, <3>2, JobManagerAssumption DEF ConnectionJobs
  <2>4. /\ [type |-> "close", node |-> job.node] \in Jobs
        /\ [type |-> "create", node |-> job.node] \in Jobs
    BY <2>3, JobTypes
  <2>5. PICK jobs \in Seq(Jobs) : EndDispatch(jobs)
    <3>1. <<[type |-> "close", node |-> job.node], [type |-> "create", node |-> job.node]>>
            \in Seq(Jobs)
      BY <2>4
    <3>. QED
      BY <1>00, <1>8, <3>1 DEF DispatchConnect
  <2>. QED
    BY <1>00, <2>1, <2>2, <2>5, DispatchEffect
<1>9. CASE DispatchClose
  <2>1. conn' \in [Nodes -> {"none", "created", "connected"}] /\ broken' = broken
    BY <1>0, <1>9 DEF DispatchClose
  <2>2. PICK jobs \in Seq(Jobs) : EndDispatch(jobs)
    <3>1. <<Discover>> \in Seq(Jobs)
      BY JobTypes
    <3>. QED
      BY <1>00, <1>9, <3>1 DEF DispatchClose
  <2>3. at = "dispatch"
    BY <1>9 DEF DispatchClose
  <2>. QED
    BY <1>0, <1>00, <2>1, <2>2, <2>3, DispatchEffect
<1>10. CASE DispatchInvalid
  <2>1. at = "dispatch" /\ EndDispatch(<<>>) /\ conn' = conn /\ broken' \in {"none", "no node"}
    BY <1>10 DEF DispatchInvalid
  <2>. QED
    BY <1>0, <1>00, <2>1, DispatchEffect
<1>11. CASE DispatchDiscover
  <2>1. at = "dispatch" /\ EndDispatch(<<>>) /\ conn' = conn /\ broken' = broken
    BY <1>11 DEF DispatchDiscover
  <2>. QED
    BY <1>0, <1>00, <2>1, DispatchEffect
<1>12. CASE FinishDispatch
  BY <1>0, <1>12 DEF LoopEffect, FinishDispatch
<1>. QED
  BY <1>1, <1>2, <1>3, <1>4, <1>5, <1>6, <1>7, <1>8, <1>9, <1>10, <1>11, <1>12
     DEF LoopStep

(* The job thread's own steps keep the invariant.                          *)
LEMMA LoopKeeps ==
  ASSUME Inv, LoopStep
  PROVE  Inv'
<1>0. QueueInv /\ SleepAgrees /\ OthersTyped /\ BusyAgrees /\ ShutdownAgrees /\ LocksHold
  BY DEF Inv
<1>1. LoopEffect
  BY <1>0, LoopStepIs
<1>2. /\ QueueInv'
      /\ \A k \in Threads : IsIdle(k)' <=> IsIdle(k)
      /\ IsEmpty' <=> IsEmpty
  BY <1>0, <1>1 DEF LoopEffect, QueueInv, QueueTypeOK, ReservationsCounted, Pushing, IsIdle,
                    IsEmpty, queue
<1>3. SleepAgrees'
  BY <1>1, <1>2 DEF LoopEffect, SleepAgrees, Woken
<1>4. /\ ShutdownAgrees'
      /\ UNCHANGED <<main, left, receivers, dispatchers, alive>>
      /\ UNCHANGED <<flagShutdown, idleJob, run>>
  BY <1>0, <1>1, ShutdownSame DEF LoopEffect
<1>5. OthersTyped'
  <2>1. LoopTyped'
    BY <1>0, <1>1, <1>4 DEF LoopEffect, OthersTyped, LoopTyped
  <2>2. ObjectsTyped'
    BY <1>0, <1>1, <1>4 DEF LoopEffect, OthersTyped, ObjectsTyped
  <2>3. FlagsTyped'
    BY <1>0, <1>1, <1>4 DEF LoopEffect, OthersTyped, FlagsTyped
  <2>. QED
    BY <2>1, <2>2, <2>3 DEF OthersTyped
<1>6. LocksHold'
  BY <1>1, <1>4 DEF LoopEffect, LocksHold
<1>7. BusyAgrees'
  <2>1. at' # "popped"
    BY <1>1 DEF LoopEffect
  <2>2. at' \in {"dispatch", "add"} => job' \in Jobs
    BY <1>1 DEF LoopEffect
  <2>3. IsIdle(JobThread)'
    BY <1>0, <1>1, <1>2, JobTypes DEF LoopEffect, BusyAgrees
  <2>. QED
    BY <1>0, <1>2, <1>4, <2>1, <2>2, <2>3, JobTypes DEF BusyAgrees
<1>. QED
  BY <1>2, <1>3, <1>4, <1>5, <1>6, <1>7 DEF Inv

(* The steps of the shutdown that leave the queue alone.                   *)
ShutdownStep ==
  \/ DestroyRC \/ SetFlag \/ (\E n \in Nodes : CloseOpened(n) /\ conn[n] = "none")
  \/ AwaitEmpty
  \/ (\E o \in Managers : RemoveReceiver(o) \/ RemoveDispatcher(o))
  \/ RemoveIdleJob \/ Stop \/ Join

(* What all of them leave alone.                                           *)
LEMMA ShutdownLeaves ==
  ASSUME ShutdownStep
  PROVE  /\ UNCHANGED queue
         /\ UNCHANGED <<at, job, todo>>
         /\ UNCHANGED <<conn, broken>>
<1>1. ASSUME NEW n \in Nodes, CloseOpened(n), conn[n] = "none"
      PROVE  UNCHANGED <<queue, loop, conn, broken>>
  BY <1>1 DEF CloseOpened
<1>2. ASSUME NEW o \in Managers, RemoveReceiver(o) \/ RemoveDispatcher(o)
      PROVE  UNCHANGED <<queue, loop, conn, broken>>
  BY <1>2 DEF RemoveReceiver, RemoveDispatcher
<1>3. UNCHANGED <<queue, loop, conn, broken>>
  BY <1>1, <1>2 DEF ShutdownStep, DestroyRC, SetFlag, AwaitEmpty, RemoveIdleJob, Stop, Join
<1>. QED
  BY <1>3 DEF loop

(* The shutdown keeps the invariant: it waits for the locks before it      *)
(* destroys, and for the thread of the ExchangeManager before the last     *)
(* receiver is gone.                                                       *)
LEMMA ShutdownKeeps ==
  ASSUME Inv, ShutdownStep
  PROVE  Inv'
<1>0. QueueInv /\ SleepAgrees /\ OthersTyped /\ BusyAgrees /\ ShutdownAgrees /\ LocksHold
  BY DEF Inv
<1>1. /\ UNCHANGED queue
      /\ UNCHANGED <<at, job, todo>>
      /\ UNCHANGED <<conn, broken>>
  BY ShutdownLeaves
<1>2. /\ QueueInv' /\ SleepAgrees'
      /\ \A k \in Threads : IsIdle(k)' <=> IsIdle(k)
  BY <1>0, <1>1, QueueSame
<1>. SUFFICES /\ ShutdownAgrees' /\ OthersTyped' /\ LocksHold'
              /\ ~IsIdle(Main) => main' = "close"
              /\ \A t \in Workers : ~IsIdle(t) => main' = "run"
              /\ ~IsIdle(Exchange) => receivers' # {}
  BY <1>0, <1>1, <1>2, JobTypes DEF Inv, BusyAgrees
<1>3. CASE DestroyRC
  <2>1. /\ main = "run" /\ main' = "flag" /\ alive' = alive \ {"RC"}
        /\ \A t \in Workers : IsIdle(t)
        /\ UNCHANGED <<left, receivers, dispatchers>>
    BY <1>3 DEF DestroyRC
  <2>2. UNCHANGED <<flagShutdown, idleJob, run>>
    BY <1>3, Zenon DEF DestroyRC
  <2>3. OthersTyped' /\ LocksHold'
    <3>1. LoopTyped'
      BY <1>0, <1>1, <2>1, <2>2 DEF OthersTyped, LoopTyped
    <3>2. ObjectsTyped'
      BY <1>0, <1>1, <2>1, <2>2 DEF OthersTyped, ObjectsTyped, Objects
    <3>3. FlagsTyped'
      BY <1>0, <1>1, <2>1, <2>2 DEF OthersTyped, FlagsTyped
    <3>4. LocksHold'
      BY <1>0, <1>1, <2>1, <2>2 DEF LocksHold
    <3>. QED
      BY <3>1, <3>2, <3>3, <3>4 DEF OthersTyped
  <2>4. ShutdownAgrees'
    BY <1>0, <1>1, <2>1
       DEF OthersTyped, ShutdownAgrees, DispatcherStep, ReceiverStep, Managers, Objects
  <2>. QED
    BY <1>0, <2>1, <2>3, <2>4 DEF BusyAgrees
<1>4. CASE SetFlag
  <2>1. /\ main = "flag" /\ main' = "close" /\ flagShutdown' = TRUE
        /\ UNCHANGED <<left, receivers, dispatchers, alive>>
    BY <1>4 DEF SetFlag
  <2>2. UNCHANGED <<idleJob, run>>
    BY <1>4, Zenon DEF SetFlag
  <2>3. OthersTyped' /\ LocksHold'
    <3>1. LoopTyped'
      BY <1>0, <1>1, <2>1, <2>2 DEF OthersTyped, LoopTyped
    <3>2. ObjectsTyped'
      BY <1>0, <1>1, <2>1, <2>2 DEF OthersTyped, ObjectsTyped, Objects
    <3>3. FlagsTyped'
      BY <1>0, <1>1, <2>1, <2>2 DEF OthersTyped, FlagsTyped
    <3>4. LocksHold'
      BY <1>0, <1>1, <2>1, <2>2 DEF LocksHold
    <3>. QED
      BY <3>1, <3>2, <3>3, <3>4 DEF OthersTyped
  <2>4. ShutdownAgrees'
    BY <1>0, <1>1, <2>1
       DEF OthersTyped, ShutdownAgrees, DispatcherStep, ReceiverStep, Managers, Objects
  <2>. QED
    BY <1>0, <2>1, <2>3, <2>4 DEF BusyAgrees
<1>5. ASSUME NEW n \in Nodes, CloseOpened(n)
      PROVE  /\ ShutdownAgrees' /\ OthersTyped' /\ LocksHold'
             /\ ~IsIdle(Main) => main' = "close"
             /\ \A t \in Workers : ~IsIdle(t) => main' = "run"
             /\ ~IsIdle(Exchange) => receivers' # {}
  <2>1. /\ main = "close" /\ left' = left \ {n}
        /\ UNCHANGED <<main, receivers, dispatchers, alive>>
    BY <1>5 DEF CloseOpened
  <2>2. UNCHANGED <<flagShutdown, idleJob, run>>
    BY <1>5, Zenon DEF CloseOpened
  <2>3. OthersTyped' /\ LocksHold'
    <3>1. LoopTyped'
      BY <1>0, <1>1, <2>1, <2>2 DEF OthersTyped, LoopTyped
    <3>2. ObjectsTyped'
      BY <1>0, <1>1, <2>1, <2>2 DEF OthersTyped, ObjectsTyped, Objects
    <3>3. FlagsTyped'
      BY <1>0, <1>1, <2>1, <2>2 DEF OthersTyped, FlagsTyped
    <3>4. LocksHold'
      BY <1>0, <1>1, <2>1, <2>2 DEF LocksHold
    <3>. QED
      BY <3>1, <3>2, <3>3, <3>4 DEF OthersTyped
  <2>4. ShutdownAgrees'
    BY <1>0, <1>1, <2>1
       DEF OthersTyped, ShutdownAgrees, DispatcherStep, ReceiverStep, Managers, Objects
  <2>. QED
    BY <1>0, <2>1, <2>3, <2>4 DEF BusyAgrees
<1>6. CASE AwaitEmpty
  <2>1. /\ main = "close" /\ main' = "connections: receiver" /\ IsIdle(Main)
        /\ UNCHANGED <<left, receivers, dispatchers, alive>>
    BY <1>6 DEF AwaitEmpty
  <2>2. UNCHANGED <<flagShutdown, idleJob, run>>
    BY <1>6, Zenon DEF AwaitEmpty
  <2>3. OthersTyped' /\ LocksHold'
    <3>1. LoopTyped'
      BY <1>0, <1>1, <2>1, <2>2 DEF OthersTyped, LoopTyped
    <3>2. ObjectsTyped'
      BY <1>0, <1>1, <2>1, <2>2 DEF OthersTyped, ObjectsTyped, Objects
    <3>3. FlagsTyped'
      BY <1>0, <1>1, <2>1, <2>2 DEF OthersTyped, FlagsTyped
    <3>4. LocksHold'
      BY <1>0, <1>1, <2>1, <2>2 DEF LocksHold
    <3>. QED
      BY <3>1, <3>2, <3>3, <3>4 DEF OthersTyped
  <2>4. ShutdownAgrees'
    BY <1>0, <1>1, <2>1
       DEF OthersTyped, ShutdownAgrees, DispatcherStep, ReceiverStep, Managers, Objects
  <2>. QED
    BY <1>0, <2>1, <2>3, <2>4 DEF BusyAgrees
<1>7. ASSUME NEW o \in Managers, RemoveReceiver(o)
      PROVE  /\ ShutdownAgrees' /\ OthersTyped' /\ LocksHold'
             /\ ~IsIdle(Main) => main' = "close"
             /\ \A t \in Workers : ~IsIdle(t) => main' = "run"
             /\ ~IsIdle(Exchange) => receivers' # {}
  <2>1. /\ main = ReceiverStep(o) /\ main' = DispatcherStep(o)
        /\ receivers' = receivers \ {o} /\ IsIdle(Exchange)
        /\ UNCHANGED <<left, dispatchers, alive>>
    BY <1>7 DEF RemoveReceiver, ReceiversLocked
  <2>2. UNCHANGED <<flagShutdown, idleJob, run>>
    BY <1>7, Zenon DEF RemoveReceiver
  <2>3. o \in {"connections", "discovery"}
    BY <1>7 DEF Managers
  <2>4. OthersTyped' /\ LocksHold'
    <3>1. LoopTyped'
      BY <1>0, <1>1, <2>1, <2>2, <2>3 DEF OthersTyped, LoopTyped
    <3>2. ObjectsTyped'
      BY <1>0, <1>1, <2>1, <2>2, <2>3 DEF OthersTyped, ObjectsTyped, DispatcherStep
    <3>3. FlagsTyped'
      BY <1>0, <1>1, <2>1, <2>2, <2>3 DEF OthersTyped, FlagsTyped
    <3>4. LocksHold'
      BY <1>0, <1>1, <2>1, <2>2, <2>3 DEF LocksHold
    <3>. QED
      BY <3>1, <3>2, <3>3, <3>4 DEF OthersTyped
  <2>5. ShutdownAgrees'
    <3>1. CASE o = "connections"
      BY <1>0, <1>1, <2>1, <3>1
         DEF OthersTyped, ShutdownAgrees, DispatcherStep, ReceiverStep, Managers
    <3>2. CASE o = "discovery"
      BY <1>0, <1>1, <2>1, <3>2
         DEF OthersTyped, ShutdownAgrees, DispatcherStep, ReceiverStep, Managers
    <3>. QED
      BY <2>3, <3>1, <3>2
  <2>. QED
    BY <1>0, <2>1, <2>3, <2>4, <2>5 DEF BusyAgrees, ReceiverStep
<1>8. ASSUME NEW o \in Managers, RemoveDispatcher(o)
      PROVE  /\ ShutdownAgrees' /\ OthersTyped' /\ LocksHold'
             /\ ~IsIdle(Main) => main' = "close"
             /\ \A t \in Workers : ~IsIdle(t) => main' = "run"
             /\ ~IsIdle(Exchange) => receivers' # {}
  <2>1. /\ main = DispatcherStep(o)
        /\ main' = IF o = "connections" THEN "idle job" ELSE "stop"
        /\ at \notin {"dispatch", "add", "discover"}
        /\ dispatchers' = dispatchers \ {o}
        /\ alive' = alive \ {o}
        /\ UNCHANGED <<left, receivers>>
    BY <1>8 DEF RemoveDispatcher, Removes, RemovesLocking, DispatcherLocked
  <2>2. UNCHANGED <<flagShutdown, idleJob, run>>
    BY <1>8, Zenon DEF RemoveDispatcher
  <2>3. o \in {"connections", "discovery"}
    BY <1>8 DEF Managers
  <2>4. OthersTyped' /\ LocksHold'
    <3>1. LoopTyped'
      BY <1>0, <1>1, <2>1, <2>2, <2>3 DEF OthersTyped, LoopTyped
    <3>2. ObjectsTyped'
      BY <1>0, <1>1, <2>1, <2>2, <2>3 DEF OthersTyped, ObjectsTyped
    <3>3. FlagsTyped'
      BY <1>0, <1>1, <2>1, <2>2, <2>3 DEF OthersTyped, FlagsTyped
    <3>4. LocksHold'
      BY <1>0, <1>1, <2>1, <2>2, <2>3 DEF LocksHold
    <3>. QED
      BY <3>1, <3>2, <3>3, <3>4 DEF OthersTyped
  <2>5. ShutdownAgrees'
    <3>1. CASE o = "connections"
      BY <1>0, <1>1, <2>1, <3>1
         DEF OthersTyped, ShutdownAgrees, DispatcherStep, ReceiverStep, Managers
    <3>2. CASE o = "discovery"
      BY <1>0, <1>1, <2>1, <3>2
         DEF OthersTyped, ShutdownAgrees, DispatcherStep, ReceiverStep, Managers
    <3>. QED
      BY <2>3, <3>1, <3>2
  <2>. QED
    BY <1>0, <2>1, <2>3, <2>4, <2>5 DEF BusyAgrees, DispatcherStep
<1>9. CASE RemoveIdleJob
  <2>1. /\ main = "idle job" /\ main' = "discovery: receiver" /\ idleJob' = FALSE
        /\ at # "discover"
        /\ UNCHANGED <<left, receivers, dispatchers, alive>>
    BY <1>9 DEF RemoveIdleJob, IdleJobLocked
  <2>2. UNCHANGED <<flagShutdown, run>>
    BY <1>9, Zenon DEF RemoveIdleJob
  <2>3. OthersTyped' /\ LocksHold'
    <3>1. LoopTyped'
      BY <1>0, <1>1, <2>1, <2>2 DEF OthersTyped, LoopTyped
    <3>2. ObjectsTyped'
      BY <1>0, <1>1, <2>1, <2>2 DEF OthersTyped, ObjectsTyped, Objects
    <3>3. FlagsTyped'
      BY <1>0, <1>1, <2>1, <2>2 DEF OthersTyped, FlagsTyped
    <3>4. LocksHold'
      BY <1>0, <1>1, <2>1, <2>2 DEF LocksHold
    <3>. QED
      BY <3>1, <3>2, <3>3, <3>4 DEF OthersTyped
  <2>4. ShutdownAgrees'
    BY <1>0, <1>1, <2>1
       DEF OthersTyped, ShutdownAgrees, DispatcherStep, ReceiverStep, Managers, Objects
  <2>. QED
    BY <1>0, <2>1, <2>3, <2>4 DEF BusyAgrees
<1>10. CASE Stop
  <2>1. /\ main = "stop" /\ main' = "join" /\ run' = FALSE
        /\ UNCHANGED <<left, receivers, dispatchers, alive>>
    BY <1>10 DEF Stop
  <2>2. UNCHANGED <<flagShutdown, idleJob>>
    BY <1>10, Zenon DEF Stop
  <2>3. OthersTyped' /\ LocksHold'
    <3>1. LoopTyped'
      BY <1>0, <1>1, <2>1, <2>2 DEF OthersTyped, LoopTyped
    <3>2. ObjectsTyped'
      BY <1>0, <1>1, <2>1, <2>2 DEF OthersTyped, ObjectsTyped, Objects
    <3>3. FlagsTyped'
      BY <1>0, <1>1, <2>1, <2>2 DEF OthersTyped, FlagsTyped
    <3>4. LocksHold'
      BY <1>0, <1>1, <2>1, <2>2 DEF LocksHold
    <3>. QED
      BY <3>1, <3>2, <3>3, <3>4 DEF OthersTyped
  <2>4. ShutdownAgrees'
    BY <1>0, <1>1, <2>1
       DEF OthersTyped, ShutdownAgrees, DispatcherStep, ReceiverStep, Managers, Objects
  <2>. QED
    BY <1>0, <2>1, <2>3, <2>4 DEF BusyAgrees
<1>11. CASE Join
  <2>1. /\ main = "join" /\ main' = "done" /\ at = "stopped"
        /\ alive' = alive \ {"jobs"}
        /\ UNCHANGED <<left, receivers, dispatchers>>
    BY <1>11 DEF Join
  <2>2. UNCHANGED <<flagShutdown, idleJob, run>>
    BY <1>11, Zenon DEF Join
  <2>3. OthersTyped' /\ LocksHold'
    <3>1. LoopTyped'
      BY <1>0, <1>1, <2>1, <2>2 DEF OthersTyped, LoopTyped
    <3>2. ObjectsTyped'
      BY <1>0, <1>1, <2>1, <2>2 DEF OthersTyped, ObjectsTyped, Objects
    <3>3. FlagsTyped'
      BY <1>0, <1>1, <2>1, <2>2 DEF OthersTyped, FlagsTyped
    <3>4. LocksHold'
      BY <1>0, <1>1, <2>1, <2>2 DEF LocksHold
    <3>. QED
      BY <3>1, <3>2, <3>3, <3>4 DEF OthersTyped
  <2>4. ShutdownAgrees'
    BY <1>0, <1>1, <2>1
       DEF OthersTyped, ShutdownAgrees, DispatcherStep, ReceiverStep, Managers, Objects
  <2>. QED
    BY <1>0, <2>1, <2>3, <2>4 DEF BusyAgrees
<1>. QED
  BY <1>3, <1>4, <1>5, <1>6, <1>7, <1>8, <1>9, <1>10, <1>11 DEF ShutdownStep

-----------------------------------------------------------------------------
(* The theorems.                                                           *)

(* Every step keeps the invariant.                                         *)
LEMMA Inductive == Inv /\ [Next]_vars => Inv'
<1>. SUFFICES ASSUME Inv, [Next]_vars PROVE Inv'
  OBVIOUS
<1>1. ASSUME NEW t \in Threads, Pushes(t) \/ Notify(t) PROVE Inv'
  BY <1>1, PushesKeep, NotifiesKeep
<1>2. CASE LoopStep \/ Pop \/ AddNext
  BY <1>2, LoopKeeps, PopsKeep, AddsKeep
<1>3. CASE RunLoop
  BY <1>1, <1>2, <1>3, JobTypes DEF RunLoop, LoopStep
<1>4. CASE Shutdown
  <2>1. ASSUME NEW n \in Nodes, CloseOpened(n) PROVE Inv'
    BY <2>1, AddsKeep, ShutdownKeeps DEF ShutdownStep
  <2>2. CASE ShutdownStep
    BY <2>2, ShutdownKeeps
  <2>. QED
    BY <1>1, <1>4, <2>1, <2>2, JobTypes DEF Shutdown, ShutdownStep
<1>5. CASE ExchangeAdds \/ \E t \in Workers : WorkerAdds(t)
  BY <1>5, AddsKeep
<1>6. CASE UNCHANGED vars
  <2>1. /\ UNCHANGED queue
        /\ UNCHANGED <<loop, shutdown, conn, broken>>
        /\ UNCHANGED <<loop, shutdown>>
    BY <1>6 DEF vars
  <2>2. UNCHANGED <<at, job, todo>>
    BY <2>1 DEF loop
  <2>3. UNCHANGED <<main, receivers>>
    BY <2>1 DEF shutdown
  <2>. QED
    BY <2>1, <2>2, <2>3, QueueSame, RestSame, JobTypes DEF Inv, BusyAgrees
<1>. QED
  BY <1>1, <1>3, <1>4, <1>5, <1>6, JobTypes DEF Next

(* The two forms of the invariant are the same.                            *)
LEMMA SameInvariant == Inv <=> IInv
BY DEF Inv, IInv, TypeOK, QueueInv, OthersTyped, LoopTyped, ObjectsTyped, FlagsTyped

(* The invariant of the queue, the job thread and the shutdown holds in    *)
(* every reachable state.                                                  *)
THEOREM InvariantHolds == Spec => []IInv
<1>1. Inv => IInv
  BY SameInvariant
<1>. QED
  BY <1>1, InitHolds, Inductive, PTL DEF Spec

(* The values of all variables stay in their types.                        *)
THEOREM TypesHold == Spec => []TypeOK
<1>1. IInv => TypeOK
  BY DEF IInv
<1>. QED
  BY <1>1, InvariantHolds, PTL

(* The slots reserved and not published are those of the threads that have *)
(* yet to publish one, however many push at once and although they publish *)
(* each other's (JobQueue.cpp:65-72): no job gets stuck behind a slot that *)
(* nobody publishes.                                                       *)
THEOREM ReservationsCountedHolds == Spec => []ReservationsCounted
<1>1. IInv => ReservationsCounted
  BY DEF IInv
<1>. QED
  BY <1>1, InvariantHolds, PTL

(* Two positions that are less than the size of the ring apart are not in  *)
(* the same slot.                                                          *)
LEMMA SlotsDiffer ==
  ASSUME NEW i \in Nat, NEW j \in Nat, j - i \in 1..Size - 1
  PROVE  Slot(i) # Slot(j)
<1>1. PICK n \in Nat \ {0} : n = Size
  BY JobQueueAssumption
<1>2. SUFFICES ASSUME i % n = j % n
               PROVE  FALSE
  BY <1>1 DEF Slot
<1>3. PICK q \in Int : i = q * n + (i % n)
  <2>1. i \div n \in Int /\ i = n * (i \div n) + (i % n)
    BY <1>1
  <2>2. i = (i \div n) * n + (i % n)
    BY <1>1, <2>1
  <2>. QED
    BY <2>1, <2>2, Zenon
<1>4. PICK r \in Int : j = r * n + (j % n)
  <2>1. j \div n \in Int /\ j = n * (j \div n) + (j % n)
    BY <1>1
  <2>2. j = (j \div n) * n + (j % n)
    BY <1>1, <2>1
  <2>. QED
    BY <2>1, <2>2, Zenon
<1>5. PICK k \in Int : k = r - q
  OBVIOUS
<1>6. i % n \in Nat
  BY <1>1
<1>7. j - i = k * n
  BY <1>1, <1>2, <1>3, <1>4, <1>5, <1>6
<1>8. k >= 1 => k * n >= n
  BY <1>1, <1>5
<1>9. k <= 0 => k * n <= 0
  BY <1>1, <1>5
<1>. QED
  BY <1>1, <1>5, <1>7, <1>8, <1>9

(* The job thread does not go to sleep over published jobs, fewer than the *)
(* size of the ring, that nobody is about to announce (JobManager.cpp:     *)
(* 68-70, 104-109).  Over as many as the size it may.                      *)
THEOREM NoLostWakeupHolds == Spec => []NoLostWakeup
<1>1. IInv => NoLostWakeup
  <2>. SUFFICES ASSUME IInv, at = "sleep", back - front \in 1..Size - 1
                PROVE  Woken
    BY DEF NoLostWakeup
  <2>1. front \in Nat /\ back \in Nat
    BY DEF IInv, TypeOK, QueueTypeOK
  <2>2. ~IsEmpty
    BY <2>1, SlotsDiffer DEF IsEmpty
  <2>. QED
    BY <2>2 DEF IInv, SleepAgrees
<1>. QED
  BY <1>1, InvariantHolds, PTL

(* The shutdown destroys no object that the job thread is dispatching to,  *)
(* nor the idle job while it runs: the lock of JobManager.h:74-86 holds it *)
(* back.                                                                   *)
THEOREM DispatchersAliveHolds == Spec => []DispatchersAlive
<1>1. IInv => DispatchersAlive
  <2>. SUFFICES ASSUME IInv PROVE DispatchersAlive
    OBVIOUS
  <2>1. dispatchers \subseteq alive
    BY DEF IInv, ShutdownAgrees
  <2>. QED
    BY <2>1 DEF IInv, LocksHold, DispatchersAlive
<1>. QED
  BY <1>1, InvariantHolds, PTL

(* Packets reach only objects that are there, and no thread adds a job to  *)
(* a queue that is destroyed.                                              *)
THEOREM QueueAliveHolds == Spec => []QueueAlive
<1>1. IInv => QueueAlive
  <2>. SUFFICES ASSUME IInv PROVE QueueAlive
    OBVIOUS
  <2>1. receivers \subseteq alive
    BY DEF IInv, ShutdownAgrees
  <2>2. ASSUME NEW t \in Threads, ~IsIdle(t) PROVE main # "done"
    <3>1. main = "done" => at = "stopped" /\ receivers = {}
      BY DEF IInv, ShutdownAgrees
    <3>. QED
      BY <2>2, <3>1, JobTypes DEF IInv, BusyAgrees
  <2>3. main # "done" => "jobs" \in alive
    BY DEF IInv, ShutdownAgrees
  <2>. QED
    BY <2>1, <2>2, <2>3 DEF QueueAlive
<1>. QED
  BY <1>1, InvariantHolds, PTL

=============================================================================
