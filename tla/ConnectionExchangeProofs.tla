---------------------- MODULE ConnectionExchangeProofs ----------------------
(***************************************************************************)
(* Theorems about ConnectionExchange, for any number of faults, packets    *)
(* and queued jobs.                                                        *)
(***************************************************************************)
EXTENDS ConnectionExchange, TLAPS

(* There are two nodes.                                                    *)
LEMMA PeerFacts ==
  ASSUME NEW n \in Nodes
  PROVE  /\ Peer(n) \in Nodes
         /\ Peer(n) # n
         /\ Peer(Peer(n)) = n
         /\ \A k \in Nodes : k = n \/ k = Peer(n)
BY ConnectionExchangeAssumption DEF Nodes, Peer

(* What the connection of a node may become while it is there, and what of *)
(* it the other node may be told: it keeps its queue pair and its flags.   *)
Grows(n, d, e) ==
  /\ connection' = [connection EXCEPT ![n] = d]
  /\ created' = [created EXCEPT ![n] = CreatedBy(n)]
  /\ exchg' = [exchg EXCEPT ![n] = e]
  /\ d \in Connections
  /\ d.qp = CreatedBy(n)
  /\ e \in ExchgFlags
  /\ exchg[n] \subseteq e
  /\ "connectedToRemote" \in e <=> d.peerQP # NULL
  /\ d.peerQP # NULL => d.peerQP \in 1..created[Peer(n)]
  /\ "remoteConnected" \in e =>
       \/ "remoteConnected" \in exchg[n]
       \/ \E m \in packets : m.to = n /\ "connectedToRemote" \in m.flags

(* It is not there any more.                                               *)
Clears(n) ==
  /\ connection' = [connection EXCEPT ![n] = NULL]
  /\ exchg' = [exchg EXCEPT ![n] = {}]
  /\ UNCHANGED created

(* The queue pairs of a node are numbered on.                              *)
LEMMA CreatedByFacts ==
  ASSUME NEW n \in Nodes, TypeOK
  PROVE  /\ created[n] \in Nat
         /\ CreatedBy(n) \in Nat
         /\ CreatedBy(n) >= created[n]
         /\ connection[n] = NULL => CreatedBy(n) = created[n] + 1
         /\ connection[n] # NULL => CreatedBy(n) = created[n]
BY DEF TypeOK, CreatedBy

(* A connection that grows leaves all that was told of it true.            *)
LEMMA GrowsKeeps ==
  ASSUME IInv, NEW n \in Nodes, NEW d, NEW e, Grows(n, d, e)
  PROVE  /\ ConnectionAgrees'
         /\ NotedTrue'
         /\ \A m \in packets : PacketTrue(m)'
<1>. DEFINE p == Peer(n)
<1>1. p \in Nodes /\ p # n /\ Peer(p) = n /\ \A k \in Nodes : k = n \/ k = p
  BY PeerFacts
<1>2. /\ created[n] \in Nat
      /\ CreatedBy(n) \in Nat
      /\ CreatedBy(n) >= created[n]
      /\ connection[n] = NULL => CreatedBy(n) = created[n] + 1
      /\ connection[n] # NULL => CreatedBy(n) = created[n]
  BY CreatedByFacts DEF IInv
<1>3. /\ connection'[n] = d /\ connection'[p] = connection[p]
      /\ exchg'[n] = e /\ exchg'[p] = exchg[p]
      /\ created'[n] = CreatedBy(n) /\ created'[p] = created[p]
  BY <1>1 DEF Grows, IInv, TypeOK
<1>4. d # NULL
  BY ConnectionExchangeAssumption DEF Grows
<1>5. created[p] \in Nat
  BY <1>1 DEF IInv, TypeOK
<1>6. ConnectionAgrees'
  <2>1. /\ connection'[n].qp = created'[n]
        /\ created'[n] >= 1
        /\ "connectedToRemote" \in exchg'[n] <=> connection'[n].peerQP # NULL
        /\ connection'[n].peerQP # NULL => connection'[n].peerQP \in 1..created'[p]
    BY <1>2, <1>3, <1>5 DEF Grows, IInv, ConnectionAgrees
  <2>2. /\ connection'[p] = NULL => exchg'[p] = {}
        /\ connection'[p] # NULL =>
             /\ connection'[p].qp = created'[p]
             /\ created'[p] >= 1
             /\ "connectedToRemote" \in exchg'[p] <=> connection'[p].peerQP # NULL
             /\ connection'[p].peerQP # NULL => connection'[p].peerQP \in 1..created'[n]
    BY <1>1, <1>2, <1>3, <1>5 DEF IInv, ConnectionAgrees
  <2>. QED
    BY <1>1, <1>3, <1>4, <2>1, <2>2 DEF ConnectionAgrees
<1>7. NotedTrue'
  <2>1. "remoteConnected" \in e =>
          /\ created[p] >= 1
          /\ created[p] = 1 /\ connection[p] # NULL => "connectedToRemote" \in exchg[p]
    <3>1. CASE "remoteConnected" \in exchg[n]
      BY <1>1, <3>1 DEF IInv, NotedTrue
    <3>2. CASE \E m \in packets : m.to = n /\ "connectedToRemote" \in m.flags
      <4>1. PICK m \in packets : m.to = n /\ "connectedToRemote" \in m.flags
        BY <3>2
      <4>2. PacketTrue(m)
        BY DEF IInv, PacketsTrue
      <4>. QED
        BY <1>5, <4>1, <4>2 DEF PacketTrue
    <3>. QED
      BY <3>1, <3>2 DEF Grows
  <2>2. "remoteConnected" \in exchg[p] =>
          /\ CreatedBy(n) >= 1
          /\ CreatedBy(n) = 1 => "connectedToRemote" \in e
    <3>1. "remoteConnected" \in exchg[p] =>
            /\ created[n] >= 1
            /\ created[n] = 1 /\ connection[n] # NULL => "connectedToRemote" \in exchg[n]
      BY <1>1 DEF IInv, NotedTrue
    <3>2. exchg[n] \subseteq e
      BY DEF Grows
    <3>. QED
      BY <1>2, <3>1, <3>2
  <2>. QED
    BY <1>1, <1>3, <2>1, <2>2 DEF NotedTrue
<1>8. ASSUME NEW m \in packets
      PROVE  PacketTrue(m)'
  <2>1. PacketTrue(m) /\ m.to \in Nodes
    BY DEF IInv, PacketsTrue, TypeOK, Packets
  <2>2. CASE m.to = n
    BY <1>3, <2>1, <2>2 DEF PacketTrue
  <2>3. CASE m.to = p
    <3>1. exchg[n] \subseteq e
      BY DEF Grows
    <3>. QED
      BY <1>1, <1>2, <1>3, <2>1, <2>3, <3>1 DEF PacketTrue
  <2>. QED
    BY <1>1, <2>1, <2>2, <2>3
<1>. QED
  BY <1>6, <1>7, <1>8

(* So does one that is removed.                                            *)
LEMMA ClearsKeeps ==
  ASSUME IInv, NEW n \in Nodes, Clears(n)
  PROVE  /\ ConnectionAgrees'
         /\ NotedTrue'
         /\ \A m \in packets : PacketTrue(m)'
<1>. DEFINE p == Peer(n)
<1>1. p \in Nodes /\ p # n /\ Peer(p) = n /\ \A k \in Nodes : k = n \/ k = p
  BY PeerFacts
<1>2. /\ connection'[n] = NULL /\ connection'[p] = connection[p]
      /\ exchg'[n] = {} /\ exchg'[p] = exchg[p]
      /\ created' = created
  BY <1>1 DEF Clears, IInv, TypeOK
<1>3. ConnectionAgrees'
  BY <1>1, <1>2 DEF IInv, ConnectionAgrees
<1>4. NotedTrue'
  BY <1>1, <1>2 DEF IInv, NotedTrue
<1>5. ASSUME NEW m \in packets
      PROVE  PacketTrue(m)'
  <2>1. PacketTrue(m) /\ m.to \in Nodes
    BY DEF IInv, PacketsTrue, TypeOK, Packets
  <2>. QED
    BY <1>1, <1>2, <2>1 DEF PacketTrue
<1>. QED
  BY <1>3, <1>4, <1>5

(* And a step that touches no connection and sends nothing.                *)
LEMMA StillKeeps ==
  ASSUME IInv, UNCHANGED <<connection, exchg, created>>, packets' \subseteq packets
  PROVE  /\ ConnectionAgrees'
         /\ NotedTrue'
         /\ PacketsTrue'
         /\ packets' \subseteq Packets
BY DEF IInv, TypeOK, ConnectionAgrees, NotedTrue, PacketsTrue, PacketTrue

(* What is sent of a connection that grows is typed and true.              *)
LEMMA SentTrue ==
  ASSUME IInv, NEW n \in Nodes, NEW d, NEW e, Grows(n, d, e),
         NEW remote \in ExchgFlags, NEW net \in SUBSET packets,
         \/ packets' = Sent(n, d, e, remote, net)
         \/ packets' = net
  PROVE  PacketsTrue' /\ packets' \subseteq Packets
<1>. DEFINE p == Peer(n)
            new == [to |-> p, ident |-> ident[n], qp |-> d.qp, flags |-> e,
                    seen |-> remote]
<1>1. p \in Nodes /\ p # n /\ Peer(p) = n
  BY PeerFacts
<1>2. packets' \subseteq net \cup {new}
  BY DEF Sent
<1>3. CreatedBy(n) \in Nat /\ CreatedBy(n) >= 1
  <2>1. /\ created[n] \in Nat
        /\ CreatedBy(n) \in Nat
        /\ CreatedBy(n) >= created[n]
        /\ connection[n] = NULL => CreatedBy(n) = created[n] + 1
    BY CreatedByFacts DEF IInv
  <2>2. connection[n] # NULL => created[n] >= 1
    BY DEF IInv, ConnectionAgrees
  <2>. QED
    BY <2>1, <2>2
<1>4. new \in Packets
  <2>1. ident[n] \in Nat
    BY DEF IInv, TypeOK
  <2>2. d.qp \in Nat /\ e \in ExchgFlags
    BY <1>3 DEF Grows
  <2>. QED
    BY <1>1, <2>1, <2>2 DEF Packets
<1>5. ASSUME NEW q, q = new
      PROVE  PacketTrue(q)'
  <2>0. /\ q.to = p /\ q.qp = d.qp /\ q.flags = e
    BY <1>5
  <2>1. created'[n] = CreatedBy(n) /\ exchg'[n] = e
    BY DEF Grows, IInv, TypeOK
  <2>2. d.qp = CreatedBy(n)
    BY DEF Grows
  <2>. QED
    BY <1>1, <1>3, <2>0, <2>1, <2>2 DEF PacketTrue
<1>6. \A m \in packets : PacketTrue(m)'
  BY GrowsKeeps
<1>7. packets \subseteq Packets
  BY DEF IInv, TypeOK
<1>. QED
  BY <1>2, <1>4, <1>5, <1>6, <1>7 DEF PacketsTrue

(* A node's flags after a packet, and its connection.                      *)
LEMMA FlagsFacts ==
  ASSUME NEW own \in ExchgFlags, NEW flags \in ExchgFlags
  PROVE  /\ ExchgAfter(own, flags) \in ExchgFlags
         /\ own \subseteq ExchgAfter(own, flags)
         /\ "connectedToRemote" \in ExchgAfter(own, flags)
         /\ "remoteConnected" \in ExchgAfter(own, flags) =>
              "remoteConnected" \in own \/ "connectedToRemote" \in flags
BY DEF ExchgAfter, ExchgFlags, Flags

(* Allocating a connection.                                                *)
LEMMA AllocatedFacts ==
  ASSUME IInv, NEW n \in Nodes
  PROVE  /\ Allocated(n) \in Connections
         /\ Allocated(n).qp = CreatedBy(n)
         /\ "connectedToRemote" \in exchg[n] <=> Allocated(n).peerQP # NULL
         /\ Allocated(n).peerQP # NULL => Allocated(n).peerQP \in 1..created[Peer(n)]
<1>1. CASE connection[n] = NULL
  <2>1. exchg[n] = {}
    BY <1>1 DEF IInv, ConnectionAgrees
  <2>2. created[n] \in Nat
    BY DEF IInv, TypeOK
  <2>. QED
    BY <1>1, <2>1, <2>2 DEF Allocated, CreatedBy, NewConnection, Connections
<1>2. CASE connection[n] # NULL
  <2>1. connection[n] \in Connections
    BY <1>2 DEF IInv, TypeOK
  <2>. QED
    BY <1>2, <2>1 DEF Allocated, CreatedBy, IInv, ConnectionAgrees
<1>. QED
  BY <1>1, <1>2

(* A creation job lets a connection grow.                                  *)
LEMMA CreationGrows ==
  ASSUME IInv, NEW n \in Nodes, CreateConnection(n)
  PROVE  Grows(n, Allocated(n), exchg[n])
<1>1. exchg[n] \in ExchgFlags /\ exchg' = [exchg EXCEPT ![n] = exchg[n]]
  BY DEF IInv, TypeOK, CreateConnection
<1>. QED
  BY <1>1, AllocatedFacts DEF CreateConnection, Grows

(* And so does a packet that is applied.                                   *)
LEMMA ApplyGrows ==
  ASSUME IInv, NEW n \in Nodes, NEW m \in packets, m.to = n, Apply(n, m)
  PROVE  /\ Grows(n, ConnectionAfter(n, m), ExchgAfter(exchg[n], m.flags))
         /\ m.flags \in ExchgFlags
<1>. DEFINE c == Allocated(n)
            d == ConnectionAfter(n, m)
            e == ExchgAfter(exchg[n], m.flags)
<1>1. m \in Packets /\ m.flags \in ExchgFlags /\ m.ident \in Nat /\ m.qp \in Nat
  BY DEF IInv, TypeOK, Packets
<1>2. exchg[n] \in ExchgFlags
  BY DEF IInv, TypeOK
<1>3. /\ e \in ExchgFlags
      /\ exchg[n] \subseteq e
      /\ "connectedToRemote" \in e
      /\ "remoteConnected" \in e =>
           "remoteConnected" \in exchg[n] \/ "connectedToRemote" \in m.flags
  BY <1>1, <1>2, FlagsFacts
<1>4. /\ c \in Connections
      /\ c.qp = CreatedBy(n)
      /\ "connectedToRemote" \in exchg[n] <=> c.peerQP # NULL
      /\ c.peerQP # NULL => c.peerQP \in 1..created[Peer(n)]
  BY AllocatedFacts
<1>5. m.qp \in 1..created[Peer(n)]
  BY DEF IInv, PacketsTrue, PacketTrue
<1>6. /\ d \in Connections
      /\ d.qp = CreatedBy(n)
      /\ d.peerQP # NULL
      /\ d.peerQP \in 1..created[Peer(n)]
  <2>1. CASE "connectedToRemote" \in exchg[n]
    BY <1>4, <2>1 DEF ConnectionAfter, ConnectedTo, FirstPeer
  <2>2. CASE "connectedToRemote" \notin exchg[n]
    <3>1. d = [c EXCEPT !.peerIdent = m.ident, !.peerQP = m.qp]
      BY <2>2 DEF ConnectionAfter, ConnectedTo, FirstPeer, LastPeer
    <3>2. m.qp # NULL
      BY <1>1, ConnectionExchangeAssumption
    <3>3. d = [qp |-> c.qp, peerIdent |-> m.ident, peerQP |-> m.qp]
      BY <1>4, <3>1 DEF Connections
    <3>4. c.qp \in Nat
      BY <1>4 DEF Connections
    <3>. QED
      BY <1>1, <1>4, <1>5, <3>2, <3>3, <3>4 DEF Connections
  <2>. QED
    BY <2>1, <2>2
<1>. QED
  BY <1>1, <1>3, <1>6 DEF Apply, Grows

-----------------------------------------------------------------------------
(* The steps.                                                              *)

(* Initially there is nothing.                                             *)
LEMMA InitHolds == Init => IInv
BY ConnectionExchangeAssumption
   DEF Init, IInv, TypeOK, StateAgrees, ConnectionAgrees, PacketsTrue, NotedTrue,
       States, None, Creating, Created, Connected, Triggers, Clear, ExchgFlags, Flags,
       Packets

(* Jobs are added and taken.                                               *)
LEMMA JobsTyped ==
  ASSUME TypeOK, NEW n \in Nodes,
         \/ \E job \in JobTypes : AddJob(n, job)
         \/ jobs[n] # <<>> /\ PopJob(n)
         \/ jobs' = [jobs EXCEPT ![n] = @ \o <<"close", "create">>]
         \/ jobs' = [jobs EXCEPT ![n] = <<>>]
         \/ UNCHANGED jobs
  PROVE  jobs' \in [Nodes -> Seq(JobTypes)]
<1>1. jobs \in [Nodes -> Seq(JobTypes)] /\ jobs[n] \in Seq(JobTypes)
  BY DEF TypeOK
<1>2. CASE \E job \in JobTypes : AddJob(n, job)
  <2>1. PICK job \in JobTypes : AddJob(n, job)
    BY <1>2
  <2>2. Append(jobs[n], job) \in Seq(JobTypes)
    BY <1>1
  <2>. QED
    BY <1>1, <2>1, <2>2 DEF AddJob
<1>3. CASE jobs[n] # <<>> /\ PopJob(n)
  <2>1. Tail(jobs[n]) \in Seq(JobTypes)
    BY <1>1, <1>3
  <2>. QED
    BY <1>1, <1>3, <2>1 DEF PopJob
<1>4. CASE jobs' = [jobs EXCEPT ![n] = @ \o <<"close", "create">>]
  <2>1. <<"close", "create">> \in Seq(JobTypes)
    BY DEF JobTypes
  <2>2. jobs[n] \o <<"close", "create">> \in Seq(JobTypes)
    BY <1>1, <2>1
  <2>. QED
    BY <1>1, <1>4, <2>2
<1>5. CASE jobs' = [jobs EXCEPT ![n] = <<>>]
  <2>1. <<>> \in Seq(JobTypes)
    OBVIOUS
  <2>. QED
    BY <1>1, <1>5, <2>1
<1>. QED
  BY <1>1, <1>2, <1>3, <1>4, <1>5

(* The steps of threads that want the connection: they only change its     *)
(* state from not available to in creation and back.                       *)
LEMMA ThreadStep ==
  ASSUME IInv, NEW n \in Nodes, Thread(n)
  PROVE  IInv'
<1>1. UNCHANGED <<ident, down, known, exchg, remoteExchg, connection, open, created,
                  packets, faults>>
  BY DEF Thread, Request, Repeat, Obtain, GiveUp
<1>2. ConnectionAgrees' /\ NotedTrue' /\ PacketsTrue' /\ packets' \subseteq Packets
  BY <1>1, StillKeeps
<1>3. jobs' \in [Nodes -> Seq(JobTypes)]
  <2>1. (\E job \in JobTypes : AddJob(n, job)) \/ UNCHANGED jobs
    BY DEF Thread, Request, Repeat, Obtain, GiveUp, JobTypes
  <2>. QED
    BY <2>1, JobsTyped DEF IInv
<1>4. trigger' \in [Nodes -> Triggers]
  BY DEF IInv, TypeOK, Thread, Request, Repeat, Obtain, GiveUp, Triggers
<1>5. /\ state' \in [Nodes -> States]
      /\ \A k \in Nodes :
           state'[k] = state[k] \/ {state[k], state'[k]} \subseteq {None, Creating}
  <2>1. state \in [Nodes -> States] /\ None \in States /\ Creating \in States
    BY DEF IInv, TypeOK, States
  <2>2. CASE Request(n)
    BY <2>1, <2>2 DEF Request
  <2>3. CASE GiveUp(n)
    BY <2>1, <2>3 DEF GiveUp
  <2>4. CASE UNCHANGED state
    BY <2>1, <2>4
  <2>. QED
    BY <2>2, <2>3, <2>4 DEF Thread, Repeat, Obtain
<1>6. StateAgrees'
  BY <1>1, <1>5 DEF IInv, StateAgrees, None, Creating, Connected
<1>7. TypeOK'
  BY <1>1, <1>3, <1>4, <1>5 DEF IInv, TypeOK
<1>. QED
  BY <1>2, <1>6, <1>7 DEF IInv

(* Other steps that touch no connection: a failure that is found, the      *)
(* discovery, the network and jobs that are dropped or end the process.    *)
LEMMA StillSteps ==
  ASSUME IInv, NEW n \in Nodes,
         \/ SendFails(n) \/ Discover(n)
         \/ DropCreate(n) \/ CreateFindsNothing(n)
         \/ \E m \in packets : Lose(m)
         \/ /\ \E rest \in SUBSET packets : DropConnect(n, rest)
            /\ faults' \in Nat
  PROVE  IInv'
<1>1. UNCHANGED <<connection, exchg, created>> /\ packets' \subseteq packets
  BY DEF SendFails, Discover, DropCreate, CreateFindsNothing, Lose, DropConnect
<1>2. ConnectionAgrees' /\ NotedTrue' /\ PacketsTrue' /\ packets' \subseteq Packets
  BY <1>1, StillKeeps
<1>3. jobs' \in [Nodes -> Seq(JobTypes)]
  <2>1. \/ \E job \in JobTypes : AddJob(n, job)
        \/ jobs[n] # <<>> /\ PopJob(n)
        \/ UNCHANGED jobs
    BY DEF SendFails, Discover, DropCreate, CreateFindsNothing, Lose,
           DropConnect, IsNext, JobTypes
  <2>. QED
    BY <2>1, JobsTyped DEF IInv
<1>4. TypeOK'
  <2>1. UNCHANGED <<ident, state, remoteExchg, open, trigger>>
    BY DEF SendFails, Discover, DropCreate, CreateFindsNothing, Lose, DropConnect
  <2>2. down' \in [Nodes -> BOOLEAN] /\ known' \in [Nodes -> BOOLEAN]
    BY DEF IInv, TypeOK, SendFails, Discover, DropCreate, CreateFindsNothing,
           Lose, DropConnect
  <2>3. faults' \in Nat
    <3>1. CASE SendFails(n)
      BY <3>1 DEF SendFails, IInv, TypeOK
    <3>2. CASE UNCHANGED faults
      BY <3>2 DEF IInv, TypeOK
    <3>. QED
      BY <3>1, <3>2 DEF Discover, DropCreate, CreateFindsNothing, Lose
  <2>. QED
    BY <1>1, <1>2, <1>3, <2>1, <2>2, <2>3 DEF IInv, TypeOK
<1>5. StateAgrees'
  <2>1. UNCHANGED <<connection, exchg, open, state>>
    BY DEF SendFails, Discover, DropCreate, CreateFindsNothing, Lose, DropConnect
  <2>. QED
    BY <2>1 DEF IInv, StateAgrees
<1>. QED
  BY <1>2, <1>4, <1>5 DEF IInv

(* A creation job that sends.                                              *)
LEMMA CreationStep ==
  ASSUME IInv, NEW n \in Nodes, CreateConnection(n)
  PROVE  IInv'
<1>1. Grows(n, Allocated(n), exchg[n])
  BY CreationGrows
<1>2. ConnectionAgrees' /\ NotedTrue'
  BY <1>1, GrowsKeeps
<1>3. PacketsTrue' /\ packets' \subseteq Packets
  <2>1. remoteExchg[n] \in ExchgFlags
    BY DEF IInv, TypeOK
  <2>. QED
    BY <1>1, <2>1, SentTrue DEF CreateConnection
<1>4. jobs' \in [Nodes -> Seq(JobTypes)]
  BY JobsTyped DEF IInv, CreateConnection, IsNext
<1>5. TypeOK'
  <2>1. state' \in [Nodes -> States]
    BY DEF IInv, TypeOK, CreateConnection, States
  <2>2. connection' \in [Nodes -> Connections \cup {NULL}]
    BY <1>1 DEF IInv, TypeOK, Grows
  <2>3. created' \in [Nodes -> Nat]
    BY CreatedByFacts DEF IInv, TypeOK, CreateConnection
  <2>. QED
    BY <1>3, <1>4, <2>1, <2>2, <2>3 DEF IInv, TypeOK, CreateConnection
<1>6. StateAgrees'
  <2>1. Allocated(n) # NULL
    BY <1>1, ConnectionExchangeAssumption DEF Grows
  <2>2. /\ connection'[n] = Allocated(n)
        /\ state'[n] = IF state[n] = Creating THEN Created ELSE state[n]
        /\ \A k \in Nodes : k # n => connection'[k] = connection[k] /\ state'[k] = state[k]
        /\ UNCHANGED <<exchg, open>>
        /\ connection[n] # NULL \/ state[n] = Creating
    BY DEF CreateConnection, IInv, TypeOK
  <2>. QED
    BY <2>1, <2>2 DEF IInv, StateAgrees, None, Creating, Created, Connected
<1>. QED
  BY <1>2, <1>3, <1>5, <1>6 DEF IInv

(* A packet that is applied.                                               *)
LEMMA ApplyStep ==
  ASSUME IInv, NEW n \in Nodes, NEW m \in packets, m.to = n,
         NEW rest \in SUBSET packets, faults' \in Nat,
         \/ Exchange(n, m, rest)
         \/ OpenConnection(n, m, rest)
         \/ ReplaceZombie(n, m, rest)
  PROVE  IInv'
<1>. DEFINE d == ConnectionAfter(n, m)
            e == ExchgAfter(exchg[n], m.flags)
<1>1. Apply(n, m)
  BY DEF Exchange, OpenConnection, ReplaceZombie
<1>2. Grows(n, d, e) /\ m.flags \in ExchgFlags
  BY <1>1, ApplyGrows
<1>3. ConnectionAgrees' /\ NotedTrue'
  BY <1>2, GrowsKeeps
<1>4. exchg'[n] = e /\ remoteExchg'[n] = m.flags
  BY <1>1 DEF Apply, IInv, TypeOK
<1>5. PacketsTrue' /\ packets' \subseteq Packets
  <2>1. \/ packets' = Sent(n, d, e, m.flags, rest)
        \/ packets' = rest
    BY <1>4 DEF Exchange, OpenConnection, ReplaceZombie
  <2>. QED
    BY <1>2, <2>1, SentTrue
<1>6. jobs' \in [Nodes -> Seq(JobTypes)]
  BY JobsTyped DEF IInv, Exchange, OpenConnection, ReplaceZombie
<1>7. /\ state' = [state EXCEPT ![n] = state'[n]]
      /\ \/ state'[n] = StateBefore(n) /\ UNCHANGED open
         \/ /\ state'[n] = Connected
            /\ e = Flags
            /\ \A k \in Nodes : open'[k] => open[k] \/ k = n
      /\ open' \in [Nodes -> BOOLEAN]
  <2>1. CASE Exchange(n, m, rest)
    BY <2>1 DEF Exchange, IInv, TypeOK
  <2>2. CASE OpenConnection(n, m, rest) \/ ReplaceZombie(n, m, rest)
    <3>1. e = Flags
      BY <2>2 DEF OpenConnection, ReplaceZombie, Finishes, ExchgComplete, Completed
    <3>. QED
      BY <2>2, <3>1 DEF OpenConnection, ReplaceZombie, IInv, TypeOK
  <2>. QED
    BY <2>1, <2>2
<1>8. StateBefore(n) \in {Created, Connected} /\ state'[n] \in {Created, Connected}
  <2>1. StateBefore(n) \in {Created, Connected}
    BY DEF StateBefore, IInv, TypeOK, StateAgrees, States
  <2>. QED
    BY <1>7, <2>1
<1>9. TypeOK'
  <2>1. state' \in [Nodes -> States]
    BY <1>7, <1>8 DEF IInv, TypeOK, States
  <2>2. connection' \in [Nodes -> Connections \cup {NULL}]
    BY <1>2 DEF IInv, TypeOK, Grows
  <2>3. created' \in [Nodes -> Nat]
    BY <1>1, CreatedByFacts DEF IInv, TypeOK, Apply
  <2>4. exchg' \in [Nodes -> ExchgFlags] /\ remoteExchg' \in [Nodes -> ExchgFlags]
    BY <1>1, <1>2 DEF IInv, TypeOK, Grows, Apply
  <2>. QED
    BY <1>1, <1>5, <1>6, <1>7, <2>1, <2>2, <2>3, <2>4 DEF IInv, TypeOK, Apply
<1>10. StateAgrees'
  <2>1. d # NULL /\ connection'[n] = d
    BY <1>2, ConnectionExchangeAssumption DEF Grows, IInv, TypeOK
  <2>2. \A k \in Nodes : k # n =>
          /\ connection'[k] = connection[k]
          /\ state'[k] = state[k]
          /\ exchg'[k] = exchg[k]
          /\ open'[k] => open[k]
    BY <1>1, <1>7 DEF Apply, IInv, TypeOK
  <2>3. connection'[n] = NULL <=> state'[n] \in {None, Creating}
    BY <1>8, <2>1 DEF None, Creating, Created, Connected
  <2>4. /\ state'[n] = Connected => exchg'[n] = Flags
        /\ open'[n] => state'[n] = Connected
    <3>1. CASE state'[n] = StateBefore(n) /\ UNCHANGED open
      <4>1. CASE connection[n] = NULL
        BY <3>1, <4>1 DEF StateBefore, IInv, StateAgrees, None, Creating, Created, Connected
      <4>2. CASE connection[n] # NULL
        <5>1. state[n] = Connected => e = Flags
          <6>1. state[n] = Connected => exchg[n] = Flags
            BY DEF IInv, StateAgrees
          <6>2. exchg[n] \subseteq e /\ e \in ExchgFlags
            BY <1>2 DEF Grows
          <6>. QED
            BY <6>1, <6>2 DEF ExchgFlags, Flags
        <5>. QED
          BY <1>4, <3>1, <4>2, <5>1 DEF StateBefore, IInv, StateAgrees
      <4>. QED
        BY <4>1, <4>2
    <3>2. CASE state'[n] = Connected /\ e = Flags
      BY <1>4, <3>2
    <3>. QED
      BY <1>7, <3>1, <3>2
  <2>. QED
    BY <2>2, <2>3, <2>4 DEF IInv, StateAgrees
<1>. QED
  BY <1>3, <1>5, <1>9, <1>10 DEF IInv

(* A connection that is closed, or the end of its node's process.          *)
LEMMA ClearStep ==
  ASSUME IInv, NEW n \in Nodes,
         \/ CloseConnection(n) /\ connection[n] # NULL
         \/ Restart(n)
  PROVE  IInv'
<1>1. Clears(n) /\ UNCHANGED packets
  BY DEF CloseConnection, Restart, Clears, FlagsAfterClose, NoFlags, IInv, TypeOK
<1>2. ConnectionAgrees' /\ NotedTrue' /\ PacketsTrue'
  BY <1>1, ClearsKeeps DEF PacketsTrue
<1>3. /\ state' = [state EXCEPT ![n] = None]
      /\ open' = [open EXCEPT ![n] = FALSE]
      /\ known' = [known EXCEPT ![n] = FALSE]
      /\ remoteExchg' = [remoteExchg EXCEPT ![n] = {}]
  BY DEF CloseConnection, Restart, FlagsAfterClose, NoFlags
<1>4. jobs' \in [Nodes -> Seq(JobTypes)]
  BY JobsTyped DEF IInv, CloseConnection, Restart, IsNext
<1>5. ident' \in [Nodes -> Nat \ {0}] /\ down' \in [Nodes -> BOOLEAN] /\ faults' \in Nat
  <2>1. CASE CloseConnection(n)
    BY <2>1 DEF CloseConnection, IInv, TypeOK
  <2>2. CASE Restart(n)
    BY <2>2 DEF Restart, IInv, TypeOK
  <2>. QED
    BY <2>1, <2>2
<1>6. TypeOK'
  <2>1. {} \in ExchgFlags /\ None \in States /\ Clear \in Triggers
    BY DEF ExchgFlags, States, Triggers
  <2>2. trigger' \in [Nodes -> Triggers]
    BY <2>1 DEF IInv, TypeOK, CloseConnection, Restart
  <2>. QED
    BY <1>1, <1>3, <1>4, <1>5, <2>1, <2>2 DEF IInv, TypeOK, Clears
<1>7. StateAgrees'
  BY <1>1, <1>3 DEF IInv, TypeOK, StateAgrees, Clears, None, Creating, Connected
<1>. QED
  BY <1>2, <1>6, <1>7 DEF IInv

(* A close job that finds no connection.                                   *)
LEMMA EmptyCloseStep ==
  ASSUME IInv, NEW n \in Nodes, CloseConnection(n), connection[n] = NULL
  PROVE  IInv'
<1>1. /\ UNCHANGED <<ident, down, known, state, exchg, remoteExchg, connection, trigger,
                     created, packets, faults>>
      /\ open' = [open EXCEPT ![n] = FALSE]
  BY DEF CloseConnection
<1>2. ConnectionAgrees' /\ NotedTrue' /\ PacketsTrue' /\ packets' \subseteq Packets
  BY <1>1, StillKeeps
<1>3. jobs' \in [Nodes -> Seq(JobTypes)]
  BY JobsTyped DEF IInv, CloseConnection, IsNext
<1>4. TypeOK' /\ StateAgrees'
  BY <1>1, <1>3 DEF IInv, TypeOK, StateAgrees
<1>. QED
  BY <1>2, <1>4 DEF IInv

(* Every step preserves the inductive invariant.                           *)
LEMMA Inductive == IInv /\ [Next]_vars => IInv'
<1>. SUFFICES ASSUME IInv, [Next]_vars
              PROVE  IInv'
  OBVIOUS
<1>1. ASSUME NEW n \in Nodes,
             Thread(n) \/ SendFails(n) \/ Job(n) \/ Discover(n) \/ Restart(n)
      PROVE  IInv'
  <2>0. CASE Thread(n)
    BY <2>0, ThreadStep
  <2>1. CASE \/ SendFails(n) \/ Discover(n)
             \/ DropCreate(n) \/ CreateFindsNothing(n)
    BY <2>1, StillSteps
  <2>2. CASE CreateConnection(n)
    BY <2>2, CreationStep
  <2>3. CASE CloseConnection(n)
    BY <2>3, ClearStep, EmptyCloseStep
  <2>4. CASE Restart(n)
    BY <2>4, ClearStep
  <2>. QED
    BY <1>1, <2>0, <2>1, <2>2, <2>3, <2>4 DEF Job
<1>2. ASSUME NEW m \in packets, Lose(m)
      PROVE  IInv'
  BY <1>2, StillSteps DEF Nodes
<1>3. ASSUME NEW m \in packets, NEW n \in Nodes, ConnectConnection(n, m)
      PROVE  IInv'
  <2>1. PICK rest \in {packets \ {m}, packets} :
          /\ faults' = IF rest = packets THEN faults + 1 ELSE faults
          /\ \/ DropConnect(n, rest)
             \/ Exchange(n, m, rest)
             \/ OpenConnection(n, m, rest)
             \/ ReplaceZombie(n, m, rest)
    BY <1>3 DEF ConnectConnection
  <2>2. rest \in SUBSET packets /\ m.to = n
    BY <1>3 DEF ConnectConnection
  <2>3. faults' \in Nat
    BY <2>1 DEF IInv, TypeOK
  <2>4. CASE DropConnect(n, rest)
    BY <2>2, <2>3, <2>4, StillSteps
  <2>5. CASE \/ Exchange(n, m, rest)
             \/ OpenConnection(n, m, rest)
             \/ ReplaceZombie(n, m, rest)
    BY <2>2, <2>3, <2>5, ApplyStep
  <2>. QED
    BY <2>1, <2>4, <2>5
<1>4. CASE UNCHANGED vars
  BY <1>4 DEF vars, IInv, TypeOK, StateAgrees, ConnectionAgrees, PacketsTrue, PacketTrue,
              NotedTrue
<1>. QED
  BY <1>1, <1>2, <1>3, <1>4 DEF Next

-----------------------------------------------------------------------------
(* The theorems.                                                           *)

(* Job thread, packets and restarts keep the nodes' states, flags and      *)
(* connections in agreement, and only what is so is told.                  *)
THEOREM InvariantHolds == Spec => []IInv
<1>. QED
  BY InitHolds, Inductive, PTL DEF Spec

(* State and flags of the connections of both nodes, jobs and packets      *)
(* always have their types.                                                *)
THEOREM TypesHold == Spec => []TypeOK
<1>1. IInv => TypeOK
  BY DEF IInv
<1>. QED
  BY <1>1, InvariantHolds, PTL

(* A connection that is available is connected to the queue pair that is   *)
(* connected to it, however packets are lost, repeated or reordered.       *)
THEOREM AgreementHolds == Spec => []Agreement
<1>1. IInv => Agreement
  <2>. SUFFICES ASSUME IInv, NEW n \in Nodes, open[n],
                       created[n] = 1, created[Peer(n)] = 1,
                       connection[Peer(n)] # NULL
                PROVE  Mutual(connection[n], connection[Peer(n)])
    BY DEF Agreement
  <2>. DEFINE p == Peer(n)
  <2>1. p \in Nodes /\ Peer(p) = n
    BY PeerFacts
  <2>2. connection[n] # NULL /\ exchg[n] = Flags
    BY DEF IInv, StateAgrees, None, Creating, Connected
  <2>3. "connectedToRemote" \in exchg[p]
    BY <2>2 DEF IInv, NotedTrue, Flags
  <2>4. connection[n].qp = 1 /\ connection[n].peerQP \in 1..1
    BY <2>1, <2>2 DEF IInv, ConnectionAgrees, Flags
  <2>5. connection[p].qp = 1 /\ connection[p].peerQP \in 1..1
    BY <2>1, <2>3 DEF IInv, ConnectionAgrees
  <2>. QED
    BY <2>2, <2>4, <2>5 DEF Mutual
<1>. QED
  BY <1>1, InvariantHolds, PTL

(* A queue pair is connected once, whatever arrives later.                 *)
THEOREM ConnectsOnceHolds == Spec => ConnectsOnce
<1>. DEFINE Once(n) ==
       connection[n] # NULL /\ connection[n].peerQP # NULL /\ connection'[n] # NULL
         => connection'[n] = connection[n]
<1>1. ASSUME IInv, [Next]_vars, NEW n \in Nodes
      PROVE  Once(n)
  <2>0. SUFFICES ASSUME connection[n] # NULL, connection[n].peerQP # NULL,
                       connection'[n] # NULL
                PROVE  connection'[n] = connection[n]
    BY <1>1
  <2>1. "connectedToRemote" \in exchg[n]
    BY <1>1, <2>0 DEF IInv, ConnectionAgrees
  <2>2. Allocated(n) = connection[n]
    BY <2>0 DEF Allocated
  <2>3. ASSUME NEW k \in Nodes, NEW m \in packets, Apply(k, m)
        PROVE  connection'[n] = connection[n]
    <3>1. CASE k = n
      BY <1>1, <2>1, <2>2, <2>3, <3>1
         DEF Apply, ConnectionAfter, ConnectedTo, FirstPeer, IInv, TypeOK
    <3>2. CASE k # n
      BY <1>1, <2>3, <3>2 DEF Apply, IInv, TypeOK
    <3>. QED
      BY <3>1, <3>2
  <2>4. ASSUME NEW k \in Nodes,
               Thread(k) \/ SendFails(k) \/ Job(k) \/ Discover(k) \/ Restart(k)
        PROVE  connection'[n] = connection[n]
    <3>1. CASE UNCHANGED connection
      BY <3>1
    <3>2. CASE CreateConnection(k)
      BY <1>1, <2>2, <3>2 DEF CreateConnection, IInv, TypeOK
    <3>3. CASE CloseConnection(k)
      BY <1>1, <2>0, <3>3 DEF CloseConnection, IInv, TypeOK
    <3>4. CASE Restart(k)
      BY <1>1, <2>0, <3>4 DEF Restart, IInv, TypeOK
    <3>. QED
      BY <2>4, <3>1, <3>2, <3>3, <3>4
         DEF Thread, Request, Repeat, Obtain, GiveUp, SendFails, Job, Discover, DropCreate, CreateFindsNothing
  <2>5. ASSUME NEW k \in Nodes, NEW m \in packets, ConnectConnection(k, m)
        PROVE  connection'[n] = connection[n]
    BY <2>3, <2>5
       DEF ConnectConnection, DropConnect, Exchange, OpenConnection, ReplaceZombie
  <2>6. ASSUME NEW m \in packets, Lose(m)
        PROVE  connection'[n] = connection[n]
    BY <2>6 DEF Lose
  <2>7. CASE UNCHANGED vars
    BY <2>7 DEF vars
  <2>. QED
    BY <1>1, <2>4, <2>5, <2>6, <2>7 DEF Next
<1>2. IInv /\ [Next]_vars =>
        [\A n \in Nodes :
           /\ connection[n] # NULL
           /\ connection[n].peerQP # NULL
           /\ connection'[n] # NULL
           => connection'[n] = connection[n]]_vars
  BY <1>1
<1>. QED
  BY <1>2, InvariantHolds, PTL DEF Spec, ConnectsOnce

=============================================================================
