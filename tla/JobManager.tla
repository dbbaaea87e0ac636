----------------------------- MODULE JobManager -----------------------------
(***************************************************************************)
(* The job thread (con/JobManager), the threads that add jobs to its       *)
(* queue, and the shutdown of the system (msgrc/MsgrcSystem::Shutdown),    *)
(* which destroys one after the other the connection manager, the          *)
(* discovery manager and the job manager while the job thread and the      *)
(* thread of the ExchangeManager go on.                                    *)
(*                                                                         *)
(* Of a connection only that it is there, and connected, is kept           *)
(* (ConnectionManager and ConnectionExchange have the rest).  A lock is    *)
(* held by who is where it is held; a lock that is taken for one step is   *)
(* waited for and not modelled otherwise.                                  *)
(***************************************************************************)
EXTENDS JobQueue, Sequences

CONSTANTS
  Nodes,      \* the remote nodes
  JobThread,  \* the thread of the job manager
  Exchange,   \* the thread of the ExchangeManager
  Main,       \* the thread that shuts the system down
  Workers,    \* the threads that use connections: they end before
  MaxJobs     \* bound: positions of the queue, after which no thread that is
              \* not part of the job manager or the shutdown adds jobs

ConnectionJobs == [type : {"create", "connect", "close", "shutdown"}, node : Nodes]
Invalid == [type |-> "shutdown", node |-> NULL]
Discover   == [type |-> "discover", node |-> NULL]

ASSUME JobManagerAssumption ==
  /\ Threads = {JobThread, Exchange, Main} \cup Workers
  /\ JobThread # Exchange /\ JobThread # Main /\ Exchange # Main
  /\ Workers \cap {JobThread, Exchange, Main} = {}
  /\ Jobs = ConnectionJobs \cup {Invalid, Discover}
  /\ NULL \notin Nodes
  /\ MaxJobs \in Nat

VARIABLES
  at,           \* where the job thread is in _RunLoop
  job,          \* the job it popped
  todo,         \* the jobs that are still to be added by the dispatcher
  main,         \* what the shutdown does next
  left,         \* the nodes whose connection it has not looked at
  flagShutdown, \* ConnectionManager::m_flagShutdown
  conn,         \* m_connections: "none", "created" or "connected"
  receivers,    \* the dispatchers of the ExchangeManager
  dispatchers,  \* m_dispatcher: who gets the jobs
  idleJob,      \* m_idleJob is set
  alive,        \* the objects that are not destroyed
  run,          \* ThreadLoop::m_run
  broken        \* the undefined behaviour that was met, or "none"

loop     == <<at, job, todo>>
shutdown == <<main, left, flagShutdown, receivers, dispatchers, idleJob, alive, run>>
vars     == <<queue, loop, shutdown, conn, broken>>

Managers == {"connections", "discovery"}
Objects  == Managers \cup {"RC", "jobs"}

Init ==
  /\ InitQueue
  /\ at = "pop" /\ job = NULL /\ todo = <<>>
  /\ main = "run" /\ left = Nodes
  /\ flagShutdown = FALSE
  /\ conn = [n \in Nodes |-> "none"]
  /\ receivers = Managers
  /\ dispatchers = Managers
  /\ idleJob = TRUE
  /\ alive = Objects
  /\ run = TRUE
  /\ broken = "none"

Receiver(j) == IF j.type = "discover" THEN "discovery" ELSE "connections"

(* The locks that are held for longer than a step.                         *)
DispatcherLocked == at \in {"dispatch", "add", "discover"}  \* by the job thread
IdleJobLocked    == at = "discover"                         \* by the job thread
ReceiversLocked  == ~IsIdle(Exchange)                       \* by the exchange thread

Ok == broken = "none"

-----------------------------------------------------------------------------
(* Adding jobs.                                                            *)

(* The exchange thread makes a job of a packet, if there is a dispatcher   *)
(* for it; the discovery's jobs are all alike here.                        *)
ExchangeAdds ==
  /\ Ok
  /\ backRes < MaxJobs
  /\ \/ /\ "connections" \in receivers
        /\ \E n \in Nodes : StartPush(Exchange, [type |-> "connect", node |-> n])
     \/ /\ "discovery" \in receivers
        /\ StartPush(Exchange, Discover)
  /\ UNCHANGED <<loop, shutdown, conn, broken>>

(* GetConnection asks for a connection, the send dispatcher for a close.   *)
WorkerAdds(t) ==
  /\ Ok
  /\ backRes < MaxJobs
  /\ main = "run"
  /\ \E j \in ConnectionJobs : j.type \in {"create", "close"} /\ StartPush(t, j)
  /\ UNCHANGED <<loop, shutdown, conn, broken>>

Pushes(t) ==
  /\ Ok
  /\ PushBack(t)
  /\ UNCHANGED <<loop, shutdown, conn, broken>>

(* The thread may be sleeping: m_jobLock is taken, the condition signaled. *)
Notify(t) ==
  /\ Ok
  /\ push[t].at = "notify"
  /\ push' = [push EXCEPT ![t] = NoPush]
  /\ at' = IF at = "sleep" THEN "pop" ELSE at
  /\ UNCHANGED <<front, back, backRes, slots, job, todo, shutdown, conn, broken>>

-----------------------------------------------------------------------------
(* The loop of the job thread.                                             *)

Stopped ==
  /\ Ok
  /\ at = "pop" /\ ~run
  /\ at' = "stopped"
  /\ UNCHANGED <<queue, job, todo, shutdown, conn, broken>>

Pop ==
  /\ Ok
  /\ at = "pop" /\ run
  /\ IF FrontJob = NULL
     THEN broken' = "no job" /\ UNCHANGED <<at, job>>
     ELSE job' = FrontJob /\ at' = "popped" /\ UNCHANGED broken
  /\ PopFront
  /\ UNCHANGED <<todo, shutdown, conn>>

(* Nothing to pop: the idle job is dispatched, under both locks.           *)
PopNothing ==
  /\ Ok
  /\ at = "pop" /\ run
  /\ IsEmpty
  /\ at' = IF idleJob /\ "discovery" \in dispatchers THEN "discover" ELSE "check"
  /\ UNCHANGED <<queue, job, todo, shutdown, conn, broken>>

Discovered ==
  /\ Ok
  /\ at = "discover"
  /\ at' = "check"
  /\ UNCHANGED <<queue, job, todo, shutdown, conn, broken>>

SleepsAnyway == TRUE
SleepsIfEmpty == IsEmpty
Sleeps == SleepsIfEmpty

(* Under m_jobLock.                                                        *)
Sleep ==
  /\ Ok
  /\ at = "check"
  /\ at' = IF Sleeps THEN "sleep" ELSE "pop"
  /\ UNCHANGED <<queue, job, todo, shutdown, conn, broken>>

(* The wait ends after a second.                                           *)
WakeUp ==
  /\ Ok
  /\ at = "sleep"
  /\ at' = "pop"
  /\ UNCHANGED <<queue, job, todo, shutdown, conn, broken>>

(* Connections are neither created nor connected when shutting down.       *)
Ignored(j) == flagShutdown /\ j.type \in {"create", "connect"}

(* m_dispatcherLock is taken, and the job given to its dispatcher, or      *)
(* deleted.                                                                *)
StartDispatch ==
  /\ Ok
  /\ at = "popped"
  /\ IF Receiver(job) \in dispatchers /\ ~Ignored(job)
     THEN at' = "dispatch" /\ UNCHANGED job
     ELSE at' = "pop" /\ job' = NULL
  /\ UNCHANGED <<queue, todo, shutdown, conn, broken>>

EndDispatch(jobs) == at' = "add" /\ todo' = jobs /\ UNCHANGED <<queue, job, shutdown>>

(* A connection is allocated by the class derived from the manager.        *)
Allocate(n, to) ==
  /\ conn[n] = "none"
  /\ IF "RC" \in alive
     THEN conn' = [conn EXCEPT ![n] = to] /\ UNCHANGED broken
     ELSE broken' = "no class" /\ UNCHANGED conn

DispatchCreate ==
  /\ Ok
  /\ at = "dispatch" /\ job.type = "create"
  /\ \/ Allocate(job.node, "created")
     \/ UNCHANGED <<conn, broken>>  \* it is there, or nobody asks any more
  /\ EndDispatch(<<>>)

(* Exchange data of a node, which may be found to have been restarted.     *)
DispatchConnect ==
  /\ Ok
  /\ at = "dispatch" /\ job.type = "connect"
  /\ \/ Allocate(job.node, "connected") /\ EndDispatch(<<>>)
     \/ /\ conn[job.node] # "none"
        /\ conn' = [conn EXCEPT ![job.node] = "connected"]
        /\ UNCHANGED broken
        /\ \/ EndDispatch(<<>>)
           \/ EndDispatch(<<[type |-> "close", node |-> job.node],
                            [type |-> "create", node |-> job.node]>>)
     \/ UNCHANGED <<conn, broken>> /\ EndDispatch(<<>>)  \* not discovered

(* The node of a closed connection is discovered again.                    *)
DispatchClose ==
  /\ Ok
  /\ at = "dispatch" /\ job.type \in {"close", "shutdown"} /\ job.node \in Nodes
  /\ conn' = [conn EXCEPT ![job.node] = "none"]
  /\ EndDispatch(IF conn[job.node] # "none" /\ job.type = "close" THEN <<Discover>> ELSE <<>>)
  /\ UNCHANGED broken

(* NODE_ID_INVALID is no index: what is behind the arrays is changed, and  *)
(* taken for a connection unless it is null.                               *)
DispatchInvalid ==
  /\ Ok
  /\ at = "dispatch" /\ job = Invalid
  /\ broken' \in {"none", "no node"}
  /\ EndDispatch(<<>>)
  /\ UNCHANGED conn

DispatchDiscover ==
  /\ Ok
  /\ at = "dispatch" /\ job = Discover
  /\ EndDispatch(<<>>)
  /\ UNCHANGED <<conn, broken>>

AddNext ==
  /\ Ok
  /\ at = "add" /\ todo # <<>>
  /\ StartPush(JobThread, Head(todo))
  /\ todo' = Tail(todo)
  /\ UNCHANGED <<at, job, shutdown, conn, broken>>

FinishDispatch ==
  /\ Ok
  /\ at = "add" /\ todo = <<>> /\ IsIdle(JobThread)
  /\ at' = "pop"
  /\ job' = NULL
  /\ UNCHANGED <<queue, todo, shutdown, conn, broken>>

RunLoop ==
  \/ Stopped \/ Pop \/ PopNothing \/ Discovered \/ Sleep \/ WakeUp
  \/ StartDispatch \/ DispatchCreate \/ DispatchConnect \/ DispatchClose
  \/ DispatchInvalid \/ DispatchDiscover \/ AddNext \/ FinishDispatch
  \/ Pushes(JobThread) \/ Notify(JobThread)

-----------------------------------------------------------------------------
(* The shutdown.                                                           *)

(* The threads of the execution engine are stopped, then ~ConnectionManager *)
(* of msgrc runs before that of con.                                       *)
DestroyRC ==
  /\ Ok
  /\ main = "run"
  /\ \A t \in Workers : IsIdle(t)
  /\ alive' = alive \ {"RC"}
  /\ main' = "flag"
  /\ UNCHANGED <<queue, loop, left, flagShutdown, receivers, dispatchers, idleJob,
                 run, conn, broken>>

SetFlag ==
  /\ Ok
  /\ main = "flag"
  /\ flagShutdown' = TRUE
  /\ main' = "close"
  /\ UNCHANGED <<queue, loop, left, receivers, dispatchers, idleJob, alive, run,
                 conn, broken>>

(* The close job of a connection, for the node it is connected to.         *)
CloseJob(n) ==
  IF conn[n] = "connected" THEN [type |-> "shutdown", node |-> n] ELSE Invalid

CloseOpened(n) ==
  /\ Ok
  /\ main = "close"
  /\ IsIdle(Main)
  /\ n \in left
  /\ left' = left \ {n}
  /\ IF conn[n] = "none" THEN UNCHANGED queue ELSE StartPush(Main, CloseJob(n))
  /\ UNCHANGED <<loop, main, flagShutdown, receivers, dispatchers, idleJob, alive, run,
                 conn, broken>>

AwaitEmpty ==
  /\ Ok
  /\ main = "close" /\ left = {} /\ IsIdle(Main)
  /\ IsEmpty
  /\ main' = "connections: receiver"
  /\ UNCHANGED <<queue, loop, left, flagShutdown, receivers, dispatchers, idleJob, alive,
                 run, conn, broken>>

ReceiverStep(o) ==
  IF o = "connections" THEN "connections: receiver" ELSE "discovery: receiver"
DispatcherStep(o) ==
  IF o = "connections" THEN "connections: dispatcher" ELSE "discovery: dispatcher"

(* RemoveDispatcher of the ExchangeManager waits for what it dispatches.   *)
RemoveReceiver(o) ==
  /\ Ok
  /\ main = ReceiverStep(o)
  /\ ~ReceiversLocked
  /\ receivers' = receivers \ {o}
  /\ main' = DispatcherStep(o)
  /\ UNCHANGED <<queue, loop, left, flagShutdown, dispatchers, idleJob, alive, run,
                 conn, broken>>

RemovesAtOnce == TRUE
RemovesLocking == ~DispatcherLocked
Removes == RemovesLocking

(* RemoveDispatcher of the JobManager, after which the object is gone.     *)
RemoveDispatcher(o) ==
  /\ Ok
  /\ main = DispatcherStep(o)
  /\ Removes
  /\ dispatchers' = dispatchers \ {o}
  /\ alive' = alive \ {o}
  /\ main' = IF o = "connections" THEN "idle job" ELSE "stop"
  /\ UNCHANGED <<queue, loop, left, flagShutdown, receivers, idleJob, run, conn, broken>>

RemoveIdleJob ==
  /\ Ok
  /\ main = "idle job"
  /\ ~IdleJobLocked
  /\ idleJob' = FALSE
  /\ main' = "discovery: receiver"
  /\ UNCHANGED <<queue, loop, left, flagShutdown, receivers, dispatchers, alive, run,
                 conn, broken>>

Stop ==
  /\ Ok
  /\ main = "stop"
  /\ run' = FALSE
  /\ main' = "join"
  /\ UNCHANGED <<queue, loop, left, flagShutdown, receivers, dispatchers, idleJob, alive,
                 conn, broken>>

Join ==
  /\ Ok
  /\ main = "join"
  /\ at = "stopped"
  /\ alive' = alive \ {"jobs"}
  /\ main' = "done"
  /\ UNCHANGED <<queue, loop, left, flagShutdown, receivers, dispatchers, idleJob, run,
                 conn, broken>>

Shutdown ==
  \/ DestroyRC \/ SetFlag \/ (\E n \in Nodes : CloseOpened(n)) \/ AwaitEmpty
  \/ (\E o \in Managers : RemoveReceiver(o) \/ RemoveDispatcher(o))
  \/ RemoveIdleJob \/ Stop \/ Join
  \/ Pushes(Main) \/ Notify(Main)

Next ==
  \/ RunLoop
  \/ Shutdown
  \/ ExchangeAdds
  \/ \E t \in Workers : WorkerAdds(t)
  \/ \E t \in Workers \cup {Exchange} : Pushes(t) \/ Notify(t)

Spec == Init /\ [][Next]_vars

(* All threads go on, the shutdown does once it has begun.  A thread that  *)
(* waits for a lock gets it if it is free again and again: between two     *)
(* dispatches of the idle job the job thread sleeps.                       *)
Fairness ==
  /\ WF_vars(RunLoop)
  /\ WF_vars(main # "run" /\ Shutdown)
  /\ SF_vars(RemoveIdleJob)
  /\ SF_vars(\E o \in Managers : RemoveReceiver(o))
  /\ SF_vars(\E o \in Managers : RemoveDispatcher(o))
  /\ \A t \in Workers \cup {Exchange} : WF_vars(Pushes(t) \/ Notify(t))

FairSpec == Spec /\ Fairness

-----------------------------------------------------------------------------
(* Properties.                                                             *)

TypeOK ==
  /\ QueueTypeOK
  /\ at \in {"pop", "popped", "dispatch", "add", "discover", "check", "sleep", "stopped"}
  /\ job \in Jobs \cup {NULL}
  /\ todo \in Seq(Jobs)
  /\ main \in {"run", "flag", "close", "connections: receiver",
               "connections: dispatcher", "idle job", "discovery: receiver",
               "discovery: dispatcher", "stop", "join", "done"}
  /\ left \subseteq Nodes
  /\ flagShutdown \in BOOLEAN /\ idleJob \in BOOLEAN /\ run \in BOOLEAN
  /\ conn \in [Nodes -> {"none", "created", "connected"}]
  /\ receivers \subseteq Managers
  /\ dispatchers \subseteq Managers
  /\ alive \subseteq Objects
  /\ broken \in {"none", "no job", "no class", "no node"}

(* No job is dispatched to an object that is destroyed, and the idle job   *)
(* is not deleted while it is dispatched.                                  *)
DispatchersAlive ==
  /\ at \in {"dispatch", "add"} => Receiver(job) \in alive
  /\ at = "discover" => "discovery" \in alive /\ idleJob

(* A packet is not given to an object that is destroyed, and no thread     *)
(* adds jobs to a queue that is.                                           *)
QueueAlive ==
  /\ (\E t \in Threads : ~IsIdle(t)) => "jobs" \in alive
  /\ receivers \subseteq alive

(* "get woken up if a new job is available": while the job thread sleeps   *)
(* over jobs that are published, as many as the queue is meant to hold (a  *)
(* slot of the ring stays free), somebody is about to wake it.             *)
Woken == \E t \in Threads : push[t].at = "notify"
NoLostWakeup == at = "sleep" /\ back - front \in 1..Size - 1 => Woken

(* A thread that adds a job is done in the end.                            *)
PushesFinish == \A t \in Threads : ~IsIdle(t) ~> (IsIdle(t) \/ ~Ok)

(* A shutdown that has begun ends.                                         *)
ShutdownEnds == main = "flag" ~> (main = "done" \/ ~Ok)

(* "close opened connections", "wait until all jobs are processed".        *)
AllClosed ==
  "connections" \notin alive => \A n \in Nodes : conn[n] = "none"

(* With the check for a full queue as it is, the ring may come to hold a   *)
(* job in every slot, which looks as if it were empty.                     *)
NeverSleepsOverJobs == at = "sleep" /\ front # back => Woken

(* The behaviours without a definition that the code may meet.             *)
JobThere   == broken # "no job"
ClassThere == broken # "no class"
NodeThere  == broken # "no node"

(* ~JobQueue deletes the jobs left in the queue by the front, which is no  *)
(* index of m_queue once it has passed the size.                           *)
DeletesInBounds == main = "done" /\ ~IsEmpty => front < Size

-----------------------------------------------------------------------------
(* What the theorems need besides.                                         *)

(* Who has work to do in which part of the shutdown.                       *)
BusyAgrees ==
  /\ at \in {"popped", "dispatch", "add"} => job \in Jobs
  /\ ~IsIdle(JobThread) => at = "add"
  /\ ~IsIdle(Main) => main = "close"
  /\ \A t \in Workers : ~IsIdle(t) => main = "run"
  /\ ~IsIdle(Exchange) => receivers # {}

(* How far the objects are destroyed in which part.                        *)
ShutdownAgrees ==
  /\ dispatchers = alive \cap Managers
  /\ receivers \subseteq dispatchers
  /\ main = DispatcherStep("connections") => "connections" \notin receivers
  /\ main \in {"idle job", ReceiverStep("discovery")} => receivers \subseteq {"discovery"}
  /\ main \in {DispatcherStep("discovery"), "stop", "join", "done"} => receivers = {}
  /\ "jobs" \in alive <=> main # "done"
  /\ main = "done" => at = "stopped"

(* What a dispatch relies on is held back by the locks.                    *)
LocksHold ==
  /\ at \in {"dispatch", "add"} => Receiver(job) \in dispatchers
  /\ at = "discover" => "discovery" \in dispatchers /\ idleJob

(* What the job thread sees when it goes to sleep.                         *)
SleepAgrees == at = "sleep" /\ ~IsEmpty => Woken

IInv ==
  /\ TypeOK
  /\ ReservationsCounted
  /\ SleepAgrees
  /\ BusyAgrees
  /\ ShutdownAgrees
  /\ LocksHold

=============================================================================
