------------------------- MODULE ConnectionExchange -------------------------
(***************************************************************************)
(* How two nodes connect a queue pair each to that of the other            *)
(* (con/ConnectionManager and msgrc/Connection on both sides, with the     *)
(* ExchangeManager between them): exchange data in UDP packets, which may  *)
(* be lost, repeated and reordered, carries what a node knows of itself    *)
(* and of the other.  Queue pairs fail and are closed, a process may end   *)
(* and be started again at any time.                                       *)
(*                                                                         *)
(* A job of the job manager is one step here, and so is what a thread does *)
(* between two looks at the connection: what the parts of both do to each  *)
(* other is ConnectionManager's subject.  The thread of the                *)
(* ExchangeManager turns a packet into a job; one that waits in the queue  *)
(* of jobs is still in the network here.                                   *)
(***************************************************************************)
EXTENDS Integers, Sequences, FiniteSets

CONSTANTS
  A, B,       \* the two nodes
  MaxJobs,    \* bound: jobs of one type queued on a node
  MaxPackets, \* bound: packets to each node in the network, more are lost
  MaxFaults,  \* bound: restarts, failed queue pairs and repeated packets
  NULL        \* nullptr

(* A connection's own queue pair, and the identification and the queue     *)
(* pair of the header and the data it was connected with.                  *)
Connections == [qp : Nat, peerIdent : Nat \cup {NULL}, peerQP : Nat \cup {NULL}]

ASSUME ConnectionExchangeAssumption ==
  /\ A # B
  /\ MaxJobs \in Nat \ {0}
  /\ MaxPackets \in [{A, B} -> Nat \ {0}]
  /\ MaxFaults \in Nat
  /\ NULL \notin Nat \cup Connections

VARIABLES
  ident,        \* m_connectionCtxIdent of each node's process
  down,         \* the process of a node has ended in the job thread
  known,        \* DiscoveryManager: the other node is discovered
  state,        \* ConnectionState::m_state for the other node
  exchg,        \* ConnectionState::m_exchgFlags
  remoteExchg,  \* ConnectionState::m_remoteExchgFlags
  connection,   \* m_connections[other]: NULL or what a Connection knows
  open,         \* m_available is at least CONNECTION_AVAILABLE
  trigger,      \* m_triggerReExchange, and whether who set it still waits
  jobs,         \* JobManager::m_queue of each node: creation and close jobs
  created,      \* the queue pairs a node has created, in all its processes
  packets,      \* what the network and the queues of jobs hold
  faults        \* the faults so far

vars == <<ident, down, known, state, exchg, remoteExchg, connection, open, trigger,
          jobs, created, packets, faults>>

Nodes == {A, B}
Peer(n) == IF n = A THEN B ELSE A

None      == "none"
Creating  == "inCreation"
Created   == "created"
Connected == "connected"
States    == {None, Creating, Created, Connected}

(* The flag is not set; the thread that set it repeats its job; the flag is *)
(* set and that thread has its connection.                                 *)
Clear    == "clear"
Repeats  == "repeats"
Left     == "left"
Triggers == {Clear, Repeats, Left}

Flags      == {"connectedToRemote", "remoteConnected"}
ExchgFlags == {{}, {"connectedToRemote"}, Flags}

(* RemoteConnectionHeader and RemoteConnectionData, to the other node; a   *)
(* packet carries what its sender knows of the receiver's flags as well.   *)
Packets == [to : Nodes, ident : Nat, qp : Nat, flags : ExchgFlags, seen : ExchgFlags]

JobTypes == {"create", "close"}

Completed(own, remote)        == own = Flags /\ remote = Flags
ConnectedHere(own, remote)    == "connectedToRemote" \in own

ExchgComplete(own, remote) == Completed(own, remote)

Init ==
  /\ ident = [n \in Nodes |-> 1]
  /\ down = [n \in Nodes |-> FALSE]
  /\ known = [n \in Nodes |-> FALSE]
  /\ state = [n \in Nodes |-> None]
  /\ exchg = [n \in Nodes |-> {}]
  /\ remoteExchg = [n \in Nodes |-> {}]
  /\ connection = [n \in Nodes |-> NULL]
  /\ open = [n \in Nodes |-> FALSE]
  /\ trigger = [n \in Nodes |-> Clear]
  /\ jobs = [n \in Nodes |-> <<>>]
  /\ created = [n \in Nodes |-> 0]
  /\ packets = {}
  /\ faults = 0

Runs(n) == ~down[n]
IsNext(n, job) == Runs(n) /\ jobs[n] # <<>> /\ Head(jobs[n]) = job
AddJob(n, job) ==
  /\ Cardinality({i \in DOMAIN jobs[n] : jobs[n][i] = job}) < MaxJobs
  /\ jobs' = [jobs EXCEPT ![n] = Append(@, job)]
PopJob(n) == jobs' = [jobs EXCEPT ![n] = Tail(@)]

-----------------------------------------------------------------------------
(* Threads of a node in GetConnection of a connection that is not          *)
(* available.  The send dispatcher closes a connection whose requests are  *)
(* not acknowledged.                                                       *)

(* Only the thread that sets m_triggerReExchange adds a creation job.      *)
Request(n) ==
  /\ Runs(n)
  /\ ~open[n]
  /\ state[n] # Connected
  /\ state' = [state EXCEPT ![n] = IF @ = None THEN Creating ELSE @]
  /\ \/ /\ trigger[n] = Clear
        /\ trigger' = [trigger EXCEPT ![n] = Repeats]
        /\ AddJob(n, "create")
     \/ /\ trigger[n] # Clear
        /\ UNCHANGED <<trigger, jobs>>
  /\ UNCHANGED <<ident, down, known, exchg, remoteExchg, connection, open,
                 created, packets, faults>>

(* Every second it adds the job again, until the exchange is complete.     *)
Repeat(n) ==
  /\ Runs(n)
  /\ trigger[n] = Repeats
  /\ ~open[n]
  /\ connection[n] = NULL \/ ~ExchgComplete(exchg[n], remoteExchg[n])
  /\ AddJob(n, "create")
  /\ UNCHANGED <<ident, down, known, state, exchg, remoteExchg, connection, open,
                 trigger, created, packets, faults>>

(* It has the connection, and leaves the flag as it is.                    *)
Obtain(n) ==
  /\ Runs(n)
  /\ trigger[n] = Repeats
  /\ open[n]
  /\ trigger' = [trigger EXCEPT ![n] = Left]
  /\ UNCHANGED <<ident, down, known, state, exchg, remoteExchg, connection, open,
                 jobs, created, packets, faults>>

(* The time is over.  Other threads that give up change nothing.           *)
GiveUp(n) ==
  /\ Runs(n)
  /\ trigger[n] = Repeats
  /\ ~open[n]
  /\ state' = [state EXCEPT ![n] = IF @ = Creating THEN None ELSE @]
  /\ trigger' = [trigger EXCEPT ![n] = Clear]
  /\ UNCHANGED <<ident, down, known, exchg, remoteExchg, connection, open, jobs,
                 created, packets, faults>>

(* Requests are not acknowledged, whether or not the other node has a      *)
(* queue pair that is connected to this one.                               *)
SendFails(n) ==
  /\ Runs(n)
  /\ open[n]
  /\ faults < MaxFaults
  /\ faults' = faults + 1
  /\ AddJob(n, "close")
  /\ UNCHANGED <<ident, down, known, state, exchg, remoteExchg, connection, open,
                 trigger, created, packets>>

-----------------------------------------------------------------------------
(* The jobs.                                                               *)

NewConnection(n) == [qp |-> created[n] + 1, peerIdent |-> NULL, peerQP |-> NULL]

(* __AllocateConnection                                                    *)
Allocated(n) == IF connection[n] = NULL THEN NewConnection(n) ELSE connection[n]
CreatedBy(n) == IF connection[n] = NULL THEN created[n] + 1 ELSE created[n]

(* __SendConnectionExchgData, of a connection with the flags own, that     *)
(* knows the flags remote of the other: what the network holds then.       *)
Sent(n, c, own, remote, net) ==
  LET m == [to |-> Peer(n), ident |-> ident[n], qp |-> c.qp, flags |-> own,
            seen |-> remote]
  IN  IF Cardinality({p \in net : p.to = m.to}) < MaxPackets[m.to]
      THEN net \cup {m} ELSE net

(* Nothing is done for a node that is not discovered.                      *)
DropCreate(n) ==
  /\ IsNext(n, "create")
  /\ ~known[n]
  /\ PopJob(n)
  /\ UNCHANGED <<ident, down, known, state, exchg, remoteExchg, connection, open,
                 trigger, created, packets, faults>>

CreateConnection(n) ==
  /\ IsNext(n, "create")
  /\ known[n]
  /\ connection[n] # NULL \/ state[n] = Creating
  /\ connection' = [connection EXCEPT ![n] = Allocated(n)]
  /\ created' = [created EXCEPT ![n] = CreatedBy(n)]
  /\ state' = [state EXCEPT ![n] = IF @ = Creating THEN Created ELSE @]
  /\ packets' = Sent(n, Allocated(n), exchg[n], remoteExchg[n], packets)
  /\ PopJob(n)
  /\ UNCHANGED <<ident, down, known, exchg, remoteExchg, open, trigger, faults>>

(* A creation job that outlived the close of its connection, or the thread *)
(* that wanted it, sends the data of a connection that is not there.       *)
CreateFindsNothing(n) ==
  /\ IsNext(n, "create")
  /\ known[n]
  /\ connection[n] = NULL
  /\ state[n] # Creating
  /\ down' = [down EXCEPT ![n] = TRUE]
  /\ UNCHANGED <<ident, known, state, exchg, remoteExchg, connection, open, trigger,
                 jobs, created, packets, faults>>

(* SetConnectedToRemote, and SetRemoteConnected if the packet says so.     *)
ExchgAfter(own, flags) ==
  own \cup {"connectedToRemote"}
      \cup (IF "connectedToRemote" \in flags THEN {"remoteConnected"} ELSE {})

(* The queue pair is connected with the first packet that arrives.         *)
LastPeer(own, c, m) == [c EXCEPT !.peerIdent = m.ident, !.peerQP = m.qp]
FirstPeer(own, c, m) ==
  IF "connectedToRemote" \in own THEN c ELSE LastPeer(own, c, m)

ConnectedTo(own, c, m) == FirstPeer(own, c, m)

AnswersEverything(own, remote, m) == TRUE
AnswersIncomplete(own, remote, m) == ~ExchgComplete(own, remote)
AnswersUnlessKnown(own, remote, m) ==
  ~ExchgComplete(own, remote) \/ own # m.seen

(* Exchange data is answered if the exchange is not complete here, or if   *)
(* the other's knowledge of it is out of date.                             *)
Answers(own, remote, m) == AnswersUnlessKnown(own, remote, m)

(* The parts of a connect job for the packet m.                            *)
StateBefore(n) == IF connection[n] = NULL THEN Created ELSE state[n]
ConnectionAfter(n, m) == ConnectedTo(exchg[n], Allocated(n), m)
Finishes(n, m) ==
  /\ ExchgComplete(ExchgAfter(exchg[n], m.flags), m.flags)
  /\ StateBefore(n) = Created

(* A packet is applied: allocate, connect, note the flags.                 *)
Apply(n, m) ==
  /\ known[n]
  /\ connection' = [connection EXCEPT ![n] = ConnectionAfter(n, m)]
  /\ created' = [created EXCEPT ![n] = CreatedBy(n)]
  /\ exchg' = [exchg EXCEPT ![n] = ExchgAfter(@, m.flags)]
  /\ remoteExchg' = [remoteExchg EXCEPT ![n] = m.flags]
  /\ UNCHANGED <<ident, down, known, trigger>>

DropConnect(n, rest) ==
  /\ ~known[n]
  /\ packets' = rest
  /\ UNCHANGED <<ident, down, known, state, exchg, remoteExchg, connection, open,
                 trigger, jobs, created>>

(* The exchange goes on, or the connection was completed before.           *)
Exchange(n, m, rest) ==
  /\ ~Finishes(n, m)
  /\ Apply(n, m)
  /\ state' = [state EXCEPT ![n] = StateBefore(n)]
  /\ packets' = IF Answers(exchg'[n], remoteExchg'[n], m)
                THEN Sent(n, ConnectionAfter(n, m), exchg'[n], remoteExchg'[n], rest)
                ELSE rest
  /\ UNCHANGED <<open, jobs>>

OpenConnection(n, m, rest) ==
  /\ Finishes(n, m)
  /\ ConnectionAfter(n, m).peerIdent = m.ident
  /\ Apply(n, m)
  /\ state' = [state EXCEPT ![n] = Connected]
  /\ open' = [open EXCEPT ![n] = TRUE]
  /\ packets' = rest
  /\ UNCHANGED jobs

(* The other node was restarted after this one had connected to it: the    *)
(* connection is closed and created again.                                 *)
ReplaceZombie(n, m, rest) ==
  /\ Finishes(n, m)
  /\ ConnectionAfter(n, m).peerIdent # m.ident
  /\ Apply(n, m)
  /\ state' = [state EXCEPT ![n] = Connected]
  /\ jobs' = [jobs EXCEPT ![n] = @ \o <<"close", "create">>]
  /\ packets' = rest
  /\ UNCHANGED open

(* The connect job of a packet, of which another copy may be on its way.   *)
ConnectConnection(n, m) ==
  /\ Runs(n)
  /\ m \in packets
  /\ m.to = n
  /\ \E rest \in {packets \ {m}, packets} :
       /\ rest = packets => faults < MaxFaults
       /\ faults' = IF rest = packets THEN faults + 1 ELSE faults
       /\ \/ DropConnect(n, rest)
          \/ Exchange(n, m, rest)
          \/ OpenConnection(n, m, rest)
          \/ ReplaceZombie(n, m, rest)

FlagsKept(flags) == flags
NoFlags(flags)   == {}
FlagsAfterClose(flags) == NoFlags(flags)

(* A forced close; of a connection that is there the node is invalidated.  *)
CloseConnection(n) ==
  /\ IsNext(n, "close")
  /\ open' = [open EXCEPT ![n] = FALSE]
  /\ IF connection[n] = NULL
     THEN UNCHANGED <<known, state, exchg, remoteExchg, connection>>
     ELSE /\ connection' = [connection EXCEPT ![n] = NULL]
          /\ exchg' = [exchg EXCEPT ![n] = FlagsAfterClose(@)]
          /\ remoteExchg' = [remoteExchg EXCEPT ![n] = FlagsAfterClose(@)]
          /\ state' = [state EXCEPT ![n] = None]
          /\ known' = [known EXCEPT ![n] = FALSE]
  /\ PopJob(n)
  /\ UNCHANGED <<ident, down, trigger, created, packets, faults>>

Discover(n) ==
  /\ Runs(n)
  /\ ~known[n]
  /\ known' = [known EXCEPT ![n] = TRUE]
  /\ UNCHANGED <<ident, down, state, exchg, remoteExchg, connection, open, trigger,
                 jobs, created, packets, faults>>

-----------------------------------------------------------------------------
(* The network and the nodes' processes.                                   *)

(* It is lost, or arrives where no process runs.                           *)
Lose(m) ==
  /\ m \in packets
  /\ packets' = packets \ {m}
  /\ UNCHANGED <<ident, down, known, state, exchg, remoteExchg, connection, open,
                 trigger, jobs, created, faults>>

(* The process ends, in any way, and is started again.                     *)
Restart(n) ==
  /\ faults < MaxFaults
  /\ faults' = faults + 1
  /\ ident' = [ident EXCEPT ![n] = @ + 1]
  /\ down' = [down EXCEPT ![n] = FALSE]
  /\ known' = [known EXCEPT ![n] = FALSE]
  /\ state' = [state EXCEPT ![n] = None]
  /\ exchg' = [exchg EXCEPT ![n] = {}]
  /\ remoteExchg' = [remoteExchg EXCEPT ![n] = {}]
  /\ connection' = [connection EXCEPT ![n] = NULL]
  /\ open' = [open EXCEPT ![n] = FALSE]
  /\ trigger' = [trigger EXCEPT ![n] = Clear]
  /\ jobs' = [jobs EXCEPT ![n] = <<>>]
  /\ UNCHANGED <<created, packets>>

-----------------------------------------------------------------------------
Thread(n) == Request(n) \/ Repeat(n) \/ Obtain(n) \/ GiveUp(n)

Job(n) ==
  \/ DropCreate(n) \/ CreateConnection(n) \/ CreateFindsNothing(n)
  \/ CloseConnection(n)

Next ==
  \/ \E n \in Nodes :
       Thread(n) \/ SendFails(n) \/ Job(n) \/ Discover(n) \/ Restart(n)
  \/ \E m \in packets :
       Lose(m) \/ \E n \in Nodes : ConnectConnection(n, m)

Spec == Init /\ [][Next]_vars

(* The job thread and the discovery go on, and so does a thread that       *)
(* repeats its job; that threads ask for the connection, or give up, is    *)
(* not assumed.  Of the packets that reach the network for a node again    *)
(* and again some arrive.                                                  *)
Fairness ==
  \A n \in Nodes :
    /\ WF_vars(Job(n))
    /\ WF_vars(Discover(n))
    /\ WF_vars(Repeat(n))
    /\ WF_vars(Obtain(n))
    /\ SF_vars(\E m \in packets : ConnectConnection(n, m))

FairSpec == Spec /\ Fairness

-----------------------------------------------------------------------------
(* Properties.                                                             *)

TypeOK ==
  /\ ident \in [Nodes -> Nat \ {0}]
  /\ down \in [Nodes -> BOOLEAN]
  /\ known \in [Nodes -> BOOLEAN]
  /\ state \in [Nodes -> States]
  /\ exchg \in [Nodes -> ExchgFlags]
  /\ remoteExchg \in [Nodes -> ExchgFlags]
  /\ connection \in [Nodes -> Connections \cup {NULL}]
  /\ open \in [Nodes -> BOOLEAN]
  /\ trigger \in [Nodes -> Triggers]
  /\ jobs \in [Nodes -> Seq(JobTypes)]
  /\ created \in [Nodes -> Nat]
  /\ packets \subseteq Packets
  /\ faults \in Nat

(* The queue pairs of two connections are connected to each other.         *)
Mutual(c, d) ==
  /\ c # NULL /\ d # NULL
  /\ c.peerQP = d.qp
  /\ d.peerQP = c.qp

(* A node whose connection became available may use it: while neither node *)
(* has created a second queue pair and the other has not closed its own,   *)
(* the two are connected to each other, whatever packets were lost,        *)
(* repeated or reordered and whatever failed before.                       *)
Agreement ==
  \A n \in Nodes :
    /\ open[n]
    /\ created[n] = 1 /\ created[Peer(n)] = 1
    /\ connection[Peer(n)] # NULL
    => Mutual(connection[n], connection[Peer(n)])

(* A queue pair is connected once: no later packet, of whichever process   *)
(* and however late, changes what a connection is connected to.            *)
ConnectsOnce ==
  [][\A n \in Nodes :
       /\ connection[n] # NULL
       /\ connection[n].peerQP # NULL
       /\ connection'[n] # NULL
       => connection'[n] = connection[n]]_vars

SomeDown == \E n \in Nodes : down[n]

(* No thread repeats its job for ever: it has its connection in the end,   *)
(* unless it gives up or a process has ended.  So it is after faults on    *)
(* either side, with all but some packets lost, and although the other     *)
(* node may not ask itself and only answers.  Nothing is said of a node    *)
(* whose flag was left set and whose connection was closed since: there    *)
(* nobody repeats.                                                         *)
Opens == \A n \in Nodes : []<>(trigger[n] # Repeats \/ SomeDown)

(* The exchange ends: the nodes do not go on answering each other for ever *)
(* once no thread repeats its job.                                         *)
Settles ==
  \/ \E n \in Nodes : []<>(trigger[n] = Repeats)
  \/ <>[](SomeDown \/ (packets = {} /\ \A n \in Nodes : jobs[n] = <<>>))

(* A node that notes that the other is connected to it means its own       *)
(* process: while the other has the queue pair this one is connected to,   *)
(* that one is connected to this process.                                  *)
ConnectedToCurrent ==
  \A n \in Nodes :
    /\ "remoteConnected" \in exchg[n]
    /\ connection[Peer(n)] # NULL
    /\ connection[n].peerQP = connection[Peer(n)].qp
    => connection[Peer(n)].peerIdent = ident[n]

-----------------------------------------------------------------------------
(* What the theorems need besides.                                         *)

(* The connect job finds a connection that is created, and a connection    *)
(* that is available is one whose exchange was complete.                   *)
StateAgrees ==
  \A n \in Nodes :
    /\ connection[n] = NULL <=> state[n] \in {None, Creating}
    /\ state[n] = Connected => exchg[n] = Flags
    /\ open[n] => state[n] = Connected

(* A connection has the queue pair created last, and is connected to one   *)
(* of the other node exactly when its flags say so.                        *)
ConnectionAgrees ==
  \A n \in Nodes :
    /\ connection[n] = NULL => exchg[n] = {}
    /\ connection[n] # NULL =>
         /\ connection[n].qp = created[n]
         /\ created[n] >= 1
         /\ "connectedToRemote" \in exchg[n] <=> connection[n].peerQP # NULL
         /\ connection[n].peerQP # NULL => connection[n].peerQP \in 1..created[Peer(n)]

(* Only what is so is told: a packet that says that its sender's queue     *)
(* pair is connected was sent after it was.                                *)
PacketTrue(m) ==
  /\ m.qp \in 1..created[Peer(m.to)]
  /\ /\ "connectedToRemote" \in m.flags
     /\ m.qp = created[Peer(m.to)]
     /\ connection[Peer(m.to)] # NULL
     => "connectedToRemote" \in exchg[Peer(m.to)]

PacketsTrue == \A m \in packets : PacketTrue(m)

(* What a node has noted of the other was so.                              *)
NotedTrue ==
  \A n \in Nodes :
    "remoteConnected" \in exchg[n] =>
      /\ created[Peer(n)] >= 1
      /\ created[Peer(n)] = 1 /\ connection[Peer(n)] # NULL
           => "connectedToRemote" \in exchg[Peer(n)]

(* The inductive invariant.                                                *)
IInv ==
  /\ TypeOK
  /\ StateAgrees
  /\ ConnectionAgrees
  /\ PacketsTrue
  /\ NotedTrue

=============================================================================
