-------------------------- MODULE ConnectionManager --------------------------
(***************************************************************************)
(* The connection to one remote node (con/ConnectionManager): threads get  *)
(* and return handles of it, a counter that doubles as its availability    *)
(* tells how many there are; the thread of the job manager creates,        *)
(* connects and closes it, one job after the other.                        *)
(*                                                                         *)
(* Every access of the threads to an atomic field or to m_connections is a *)
(* step of its own; so are those of the job thread that the others can     *)
(* tell apart.  The exchange data of the remote node arrives in any order  *)
(* and with any flags, and the remote node may be restarted.  What the     *)
(* node sends itself is left out: nothing here depends on it.              *)
(***************************************************************************)
EXTENDS Integers, Sequences, FiniteSets

CONSTANTS
  Threads,   \* the threads that use the connection
  Half,      \* -(INT32_MIN / 2), scaled down
  Idents,    \* m_conManIdent of the incarnations of the remote node
  Forces,    \* how CloseConnection is called: {TRUE} within this code
  MaxJobs,   \* bound: jobs queued
  NULL       \* nullptr

ASSUME ConnectionManagerAssumption ==
  /\ IsFiniteSet(Threads)
  /\ Half \in Nat
  /\ Half > 4 * Cardinality(Threads)
  /\ Forces \subseteq BOOLEAN
  /\ MaxJobs \in Nat \ {0}
  /\ NULL \notin Idents \cup {"live", "deleted"}

VARIABLES
  available,    \* ConnectionState::m_available
  state,        \* ConnectionState::m_state
  reExchange,   \* ConnectionState::m_triggerReExchange
  exchg,        \* ConnectionState::m_exchgFlags
  remoteExchg,  \* ConnectionState::m_remoteExchgFlags
  connection,   \* m_connections[nodeId]: NULL or "live"
  peer,         \* the identification of the remote node it is connected to
  known,        \* DiscoveryManager::m_nodeInfo[nodeId] is set
  pc,           \* the step of each thread
  fetched,      \* its copy of m_available while it resets a fetch
  periodic,     \* its triggerPeriodicRecreation
  handle,       \* the connection it got: NULL, "live", or "deleted" meanwhile
  jobs,         \* JobManager::m_queue
  jobPc,        \* the step of the job thread
  counter,      \* the handles the close job found
  thrown,       \* what ended the process in the job thread, or "none"
  closed        \* history: a close job has been executed

shared  == <<available, state, reExchange, exchg, remoteExchg, connection,
             peer, known>>
threads == <<pc, fetched, periodic, handle>>
manager == <<jobs, jobPc, counter, thrown, closed>>
vars    == <<shared, threads, manager>>

-----------------------------------------------------------------------------
Lowest       == -2 * Half
NotAvailable == Lowest
Closing      == -Half
Available    == 0

(* The counter is as wide as the values from Lowest to -Lowest - 1.        *)
Counts   == Lowest..-Lowest - 1
Plus1(x)  == IF x = -Lowest - 1 THEN Lowest ELSE x + 1
Minus1(x) == IF x = Lowest THEN -Lowest - 1 ELSE x - 1

States    == 0..3
None      == 0
Creating  == 1
Created   == 2
Connected == 3

(* A node is connected to the other before it notes that the other is.     *)
Flags      == {"connectedToRemote", "remoteConnected"}
ExchgFlags == {{}, {"connectedToRemote"}, Flags}

(* ConnectionState::ConnectionExchgComplete                                *)
ExchgComplete(own, remote) == own = Flags /\ remote = Flags

CreateJob            == [type |-> "create"]
CloseJob(force)      == [type |-> "close", force |-> force]
ConnectJob(ident, f) == [type |-> "connect", ident |-> ident, flags |-> f]

Jobs == {CreateJob} \cup {CloseJob(force) : force \in BOOLEAN}
          \cup {ConnectJob(i, f) : i \in Idents, f \in ExchgFlags}

Init ==
  /\ available = NotAvailable
  /\ state = None
  /\ reExchange = FALSE
  /\ exchg = {}
  /\ remoteExchg = {}
  /\ connection = NULL
  /\ peer = NULL
  /\ known = FALSE
  /\ pc = [t \in Threads |-> "idle"]
  /\ fetched = [t \in Threads |-> 0]
  /\ periodic = [t \in Threads |-> FALSE]
  /\ handle = [t \in Threads |-> NULL]
  /\ jobs = <<>>
  /\ jobPc = "pop"
  /\ counter = 0
  /\ thrown = "none"
  /\ closed = FALSE

At(t, label) == thrown = "none" /\ pc[t] = label
Goto(t, label) == pc' = [pc EXCEPT ![t] = label]

(* AddJob waits while the queue is full; the zombie handling of the job    *)
(* thread itself adds two jobs and must not wait.                          *)
Room        == Len(jobs) < MaxJobs
AddJob(job) == Room /\ jobs' = Append(jobs, job)

-----------------------------------------------------------------------------
(* GetConnection: the fetch, and its reset if it came too early.           *)

Fetch(t) ==
  /\ At(t, "idle")
  /\ available' = Plus1(available)
  /\ IF available >= Available
     THEN Goto(t, "read") /\ UNCHANGED fetched
     ELSE /\ Goto(t, "reset")
          /\ fetched' = [fetched EXCEPT ![t] = available]
  /\ UNCHANGED <<state, reExchange, exchg, remoteExchg, connection, peer, known,
                 periodic, handle, manager>>

NeverStops(count)        == FALSE
StopsIfAvailable(count)  == count >= Available

(* After a compare and exchange that failed: no reset any more.            *)
NoReset(count) == StopsIfAvailable(count)

Reset(t) ==
  /\ At(t, "reset")
  /\ IF available = fetched[t]
     THEN /\ available' = NotAvailable
          /\ fetched' = [fetched EXCEPT ![t] = 0]
          /\ Goto(t, "request")
     ELSE /\ UNCHANGED available
          /\ IF NoReset(available)
             THEN fetched' = [fetched EXCEPT ![t] = 0] /\ Goto(t, "request")
             ELSE /\ fetched' = [fetched EXCEPT ![t] = available]
                  /\ UNCHANGED pc
  /\ UNCHANGED <<state, reExchange, exchg, remoteExchg, connection, peer, known,
                 periodic, handle, manager>>

-----------------------------------------------------------------------------
(* GetConnection: the request to create the connection, and the wait.      *)

Request(t) ==
  /\ At(t, "request")
  /\ state' = IF state = None THEN Creating ELSE state
  /\ Goto(t, IF state = Connected THEN "wait" ELSE "trigger")
  /\ UNCHANGED <<available, reExchange, exchg, remoteExchg, connection, peer,
                 known, fetched, periodic, handle, manager>>

EveryThread == TRUE
FirstThread == ~reExchange

(* Only the first thread adds the job, and adds it again every second.     *)
Triggers == FirstThread

Trigger(t) ==
  /\ At(t, "trigger")
  /\ Goto(t, "wait")
  /\ IF Triggers
     THEN /\ AddJob(CreateJob)
          /\ reExchange' = TRUE
          /\ periodic' = [periodic EXCEPT ![t] = TRUE]
     ELSE UNCHANGED <<jobs, reExchange, periodic>>
  /\ UNCHANGED <<available, state, exchg, remoteExchg, connection, peer, known,
                 fetched, handle, jobPc, counter, thrown, closed>>

(* The connection is found available ...                                   *)
FindAvailable(t) ==
  /\ At(t, "wait")
  /\ available >= Available
  /\ Goto(t, "take")
  /\ UNCHANGED <<shared, fetched, periodic, handle, manager>>

(* ... or a second has passed and the exchange is still not complete ...   *)
Retry(t) ==
  /\ At(t, "wait")
  /\ available < Available
  /\ periodic[t]
  /\ connection = NULL \/ ~ExchgComplete(exchg, remoteExchg)
  /\ AddJob(CreateJob)
  /\ UNCHANGED <<shared, threads, jobPc, counter, thrown, closed>>

(* ... or the time is up.                                                  *)
TimeOut(t) ==
  /\ At(t, "wait")
  /\ available < Available
  /\ Goto(t, IF periodic[t] THEN "giveUp" ELSE "idle")
  /\ UNCHANGED <<shared, fetched, periodic, handle, manager>>

GiveUp(t) ==
  /\ At(t, "giveUp")
  /\ state' = IF state = Creating THEN None ELSE state
  /\ Goto(t, "untrigger")
  /\ UNCHANGED <<available, reExchange, exchg, remoteExchg, connection, peer,
                 known, fetched, periodic, handle, manager>>

Untrigger(t) ==
  /\ At(t, "untrigger")
  /\ reExchange' = FALSE
  /\ periodic' = [periodic EXCEPT ![t] = FALSE]
  /\ Goto(t, "idle")
  /\ UNCHANGED <<available, state, exchg, remoteExchg, connection, peer, known,
                 fetched, handle, manager>>

-----------------------------------------------------------------------------
(* GetConnection: the handle is taken; ReturnConnection.                   *)

Take(t) ==
  /\ At(t, "take")
  /\ available' = Plus1(available)
  /\ Goto(t, "check")
  /\ UNCHANGED <<state, reExchange, exchg, remoteExchg, connection, peer, known,
                 fetched, periodic, handle, manager>>

(* The sanity check: an IllegalStateException without a connection.        *)
Check(t) ==
  /\ At(t, "check")
  /\ Goto(t, IF connection = NULL THEN "idle" ELSE "read")
  /\ periodic' = IF connection = NULL
                 THEN [periodic EXCEPT ![t] = FALSE]
                 ELSE periodic
  /\ UNCHANGED <<shared, fetched, handle, manager>>

Read(t) ==
  /\ At(t, "read")
  /\ handle' = [handle EXCEPT ![t] = connection]
  /\ periodic' = [periodic EXCEPT ![t] = FALSE]
  /\ Goto(t, "use")
  /\ UNCHANGED <<shared, fetched, manager>>

ReturnConnection(t) ==
  /\ At(t, "use")
  /\ handle[t] # NULL
  /\ available' = Minus1(available)
  /\ handle' = [handle EXCEPT ![t] = NULL]
  /\ Goto(t, "idle")
  /\ UNCHANGED <<state, reExchange, exchg, remoteExchg, connection, peer, known,
                 fetched, periodic, manager>>

(* GetSendBuffer of the JNI system: nothing to return.                     *)
GotNull(t) ==
  /\ At(t, "use")
  /\ handle[t] = NULL
  /\ Goto(t, "idle")
  /\ UNCHANGED <<shared, fetched, periodic, handle, manager>>

CloseConnection(force) ==
  /\ thrown = "none"
  /\ AddJob(CloseJob(force))
  /\ UNCHANGED <<shared, threads, jobPc, counter, thrown, closed>>

-----------------------------------------------------------------------------
(* The job thread: creation and connection.                                *)

IsNext(type) ==
  /\ thrown = "none"
  /\ jobPc = "pop"
  /\ jobs # <<>>
  /\ Head(jobs).type = type

(* DiscoveryManager::GetNodeInfo finds the node.                           *)
Discovered == known

StateKept    == state
StateCreated == IF connection = NULL THEN Created ELSE state

(* __AllocateConnection returns at once if there is a connection.          *)
StateAllocated == StateCreated

(* A job for a node that is not discovered is dropped.                     *)
DropJob ==
  /\ IsNext("create") \/ IsNext("connect")
  /\ ~Discovered
  /\ jobs' = Tail(jobs)
  /\ UNCHANGED <<shared, threads, jobPc, counter, thrown, closed>>

(* Only a connection in creation is allocated ...                          *)
MayAllocate == state = Creating

(* ... and then there is a connection to take the exchange data from.      *)
CreateConnection ==
  /\ IsNext("create")
  /\ Discovered
  /\ jobs' = Tail(jobs)
  /\ connection' = IF MayAllocate THEN "live" ELSE connection
  /\ state' = IF MayAllocate THEN StateAllocated ELSE state
  /\ thrown' = IF connection' = NULL THEN "nullptr" ELSE "none"
  /\ UNCHANGED <<available, reExchange, exchg, remoteExchg, peer, known, threads,
                 jobPc, counter, closed>>

OwnFlags(flags) ==
  IF "connectedToRemote" \in flags THEN {"remoteConnected"}
                                   ELSE {"connectedToRemote"}

AddedFlags(flags) == exchg \cup OwnFlags(flags) \cup {"connectedToRemote"}

(* The flags after the exchange data with the remote's flags was applied.  *)
ExchgAfter(flags) == AddedFlags(flags)

(* A restarted remote: close the old connection and create a new one.      *)
ReplaceZombie == <<CloseJob(TRUE), CreateJob>>

(* The whole handler up to the completion of the connection: allocate,     *)
(* connect, note the flags, and finish if both sides are connected.  A     *)
(* connection to an earlier incarnation of the remote is closed instead.   *)
ConnectConnection ==
  /\ IsNext("connect")
  /\ Discovered
  /\ LET job     == Head(jobs)
         after   == ExchgAfter(job.flags)
         peerNow == IF "connectedToRemote" \in exchg THEN peer ELSE job.ident
         finish  == ExchgComplete(after, job.flags) /\ StateAllocated = Created
     IN  /\ connection' = "live"
         /\ peer' = peerNow
         /\ exchg' = after
         /\ remoteExchg' = job.flags
         /\ state' = IF finish THEN Connected ELSE StateAllocated
         /\ jobs' = IF finish /\ peerNow # job.ident
                    THEN Tail(jobs) \o ReplaceZombie
                    ELSE Tail(jobs)
         /\ jobPc' = IF finish /\ peerNow = job.ident THEN "open" ELSE "pop"
  /\ UNCHANGED <<available, reExchange, known, threads, counter, thrown, closed>>

(* The connection becomes available, with no handle given out.             *)
OpenConnection ==
  /\ thrown = "none"
  /\ jobPc = "open"
  /\ available' = Available
  /\ jobPc' = "pop"
  /\ UNCHANGED <<state, reExchange, exchg, remoteExchg, connection, peer, known,
                 threads, jobs, counter, thrown, closed>>

-----------------------------------------------------------------------------
(* The job thread: closing.                                                *)

BeginClose ==
  /\ IsNext("close")
  /\ counter' = available
  /\ available' = Closing
  /\ closed' = TRUE
  /\ jobPc' = IF Head(jobs).force THEN "unlink" ELSE "drain"
  /\ jobs' = Tail(jobs)
  /\ UNCHANGED <<state, reExchange, exchg, remoteExchg, connection, peer, known,
                 threads, thrown>>

(* Unless forced: all handles were returned.                               *)
Drained ==
  /\ thrown = "none"
  /\ jobPc = "drain"
  /\ available = Closing - counter
  /\ jobPc' = "unlink"
  /\ UNCHANGED <<shared, threads, jobs, counter, thrown, closed>>

(* Nothing more to do if the connection was removed already.               *)
Unlink ==
  /\ thrown = "none"
  /\ jobPc = "unlink"
  /\ connection' = NULL
  /\ counter' = 0
  /\ jobPc' = IF connection = NULL THEN "pop" ELSE "delete"
  /\ UNCHANGED <<available, state, reExchange, exchg, remoteExchg, peer, known,
                 threads, jobs, thrown, closed>>

FlagsKept(f)  == f
NoFlags(f)    == {}

FlagsAfterClose(f) == NoFlags(f)

Delete ==
  /\ thrown = "none"
  /\ jobPc = "delete"
  /\ exchg' = FlagsAfterClose(exchg)
  /\ remoteExchg' = FlagsAfterClose(remoteExchg)
  /\ state' = None
  /\ peer' = NULL
  /\ handle' = [t \in Threads |->
                  IF handle[t] = "live" THEN "deleted" ELSE handle[t]]
  /\ jobPc' = "closed"
  /\ UNCHANGED <<available, reExchange, connection, known, pc, fetched, periodic,
                 jobs, counter, thrown, closed>>

(* DiscoveryManager::Invalidate moves the node back to those to discover.  *)
EndClose ==
  /\ thrown = "none"
  /\ jobPc = "closed"
  /\ available' = NotAvailable
  /\ known' = FALSE
  /\ jobPc' = "pop"
  /\ UNCHANGED <<state, reExchange, exchg, remoteExchg, connection, peer,
                 threads, jobs, counter, thrown, closed>>

-----------------------------------------------------------------------------
(* The outside: the node is discovered (a job of the discovery manager);   *)
(* exchange data arrives, with any flags of any incarnation.               *)

Discover ==
  /\ thrown = "none"
  /\ jobPc = "pop"
  /\ ~known
  /\ known' = TRUE
  /\ UNCHANGED <<available, state, reExchange, exchg, remoteExchg, connection,
                 peer, threads, manager>>

DispatchExchangeData(ident, flags) ==
  /\ thrown = "none"
  /\ AddJob(ConnectJob(ident, flags))
  /\ UNCHANGED <<shared, threads, jobPc, counter, thrown, closed>>

-----------------------------------------------------------------------------
GetConnection(t) ==
  \/ Fetch(t) \/ Reset(t) \/ Request(t) \/ Trigger(t)
  \/ FindAvailable(t) \/ Retry(t) \/ TimeOut(t) \/ GiveUp(t) \/ Untrigger(t)
  \/ Take(t) \/ Check(t) \/ Read(t)

DispatchJob ==
  \/ DropJob \/ CreateConnection \/ ConnectConnection \/ OpenConnection
  \/ BeginClose \/ Drained \/ Unlink \/ Delete \/ EndClose

Next ==
  \/ \E t \in Threads : GetConnection(t) \/ ReturnConnection(t) \/ GotNull(t)
  \/ \E force \in Forces : CloseConnection(force)
  \/ DispatchJob
  \/ Discover
  \/ \E i \in Idents, f \in ExchgFlags : DispatchExchangeData(i, f)

Spec == Init /\ [][Next]_vars

-----------------------------------------------------------------------------
(* Properties.                                                             *)

TypeOK ==
  /\ available \in Counts
  /\ state \in States
  /\ reExchange \in BOOLEAN
  /\ exchg \in ExchgFlags
  /\ remoteExchg \in ExchgFlags
  /\ connection \in {NULL, "live"}
  /\ peer \in Idents \cup {NULL}
  /\ known \in BOOLEAN
  /\ pc \in [Threads -> {"idle", "reset", "request", "trigger", "wait", "take",
                         "check", "read", "use", "giveUp", "untrigger"}]
  /\ fetched \in [Threads -> Counts]
  /\ periodic \in [Threads -> BOOLEAN]
  /\ handle \in [Threads -> {NULL, "live", "deleted"}]
  /\ jobs \in Seq(Jobs)
  /\ jobPc \in {"pop", "open", "drain", "unlink", "delete", "closed"}
  /\ counter \in Counts
  /\ thrown \in {"none", "nullptr"}
  /\ closed \in BOOLEAN

(* At most one thread at a time repeats the creation job, whatever the     *)
(* others do between its timeout and the reset of m_triggerReExchange.     *)
OneCreator ==
  /\ \A t, u \in Threads : periodic[t] /\ periodic[u] => t = u
  /\ \A t \in Threads : periodic[t] => reExchange

(* While no job changes it, the state says whether there is a connection,  *)
(* whatever the threads request or give up meanwhile: the connect job      *)
(* never finds a connection that is not created.                           *)
StateAgrees ==
  /\ jobPc \notin {"delete", "closed"} =>
       (connection # NULL <=> state \in {Created, Connected})
  /\ jobPc \in {"delete", "closed"} => connection = NULL
  /\ jobPc = "closed" => state \in {None, Creating}

(* A connection that is closed is one to a discovered node: the discovery  *)
(* manager moves no null pointer to the nodes it has to discover.          *)
KnownWhileConnected ==
  connection # NULL \/ jobPc \in {"delete", "closed"} => known

(* A connection is connected only after both sides said so, and it keeps   *)
(* what it knows of the other until it is deleted, whatever late or        *)
(* repeated exchange data arrives.                                         *)
ConnectedMeansExchanged ==
  state = Connected => exchg = Flags /\ peer # NULL

Holders == {t \in Threads : pc[t] \in {"check", "read"} \/ handle[t] # NULL}

(* The counter tells how many handles are out whenever it says that the    *)
(* connection is available.                                                *)
HandlesTracked ==
  available >= Available => available = Cardinality(Holders)

(* That is so until a connection is closed for the first time.             *)
HandlesTrackedUntilClosed == closed \/ HandlesTracked

(* m_triggerReExchange is set only while a thread repeats the creation     *)
(* job of a connection: otherwise no thread would ever add one again.      *)
ReExchangeOwned ==
  reExchange /\ state # Connected /\ jobPc = "pop"
    => \E t \in Threads : periodic[t]

(* The creation job finds the connection whose data it sends.              *)
CreationFindsConnection == thrown # "nullptr"

-----------------------------------------------------------------------------
(* What the theorems need besides.                                         *)

(* What a thread knows by where it is.                                     *)
ThreadControl ==
  \A t \in Threads :
    /\ pc[t] = "reset" => fetched[t] < Available
    /\ handle[t] # NULL => pc[t] = "use"
    /\ pc[t] \in {"giveUp", "untrigger"} => periodic[t]

PeerKnown == "connectedToRemote" \in exchg => peer # NULL

Resetting == {t \in Threads : pc[t] = "reset"}

(* Until the first close the counter is at most the threads that have not  *)
(* reset their fetch above the lowest value, or counts the handles.        *)
CountedOrReset ==
  IF available < Available
  THEN /\ Holders = {}
       /\ \A t \in Threads : pc[t] # "take"
       /\ available <= Lowest + Cardinality(Resetting)
  ELSE /\ available = Cardinality(Holders)
       /\ state = Connected
       /\ jobPc = "pop"

Opening == jobPc = "open" => state = Connected

ClosingNoted == jobPc \in {"drain", "unlink", "delete", "closed"} => closed

(* The inductive invariant.                                                *)
IInv ==
  /\ TypeOK
  /\ OneCreator
  /\ StateAgrees
  /\ KnownWhileConnected
  /\ ConnectedMeansExchanged
  /\ ThreadControl
  /\ PeerKnown
  /\ ClosingNoted
  /\ Opening
  /\ closed \/ CountedOrReset

=============================================================================
