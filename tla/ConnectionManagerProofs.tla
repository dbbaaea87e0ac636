---------------------- MODULE ConnectionManagerProofs ----------------------
(***************************************************************************)
(* The connection manager for any number of threads and of incarnations of *)
(* the remote node, and for a job queue of any size: the jobs meet only    *)
(* states they expect, one thread repeats the creation, and the handles    *)
(* are counted right until a connection is closed for the first time.      *)
(***************************************************************************)
EXTENDS ConnectionManager, FiniteSetTheorems, SequenceTheorems, TLAPS

-----------------------------------------------------------------------------
(* Values.                                                                 *)

(* The marks lie in the range of the counter, and its steps stay there.    *)
LEMMA CountTypes ==
  /\ NotAvailable \in Counts /\ Closing \in Counts /\ Available \in Counts
  /\ \A x \in Counts : x \in Int /\ Plus1(x) \in Counts /\ Minus1(x) \in Counts
<1>1. Half \in Nat /\ Half > 0
  <2>1. Cardinality(Threads) \in Nat
    BY FS_CardinalityType, ConnectionManagerAssumption
  <2>2. QED BY <2>1, ConnectionManagerAssumption
<1>2. QED
  BY <1>1 DEF Counts, Lowest, NotAvailable, Closing, Available, Plus1, Minus1

(* Exchange flags stay among those that can occur.                         *)
LEMMA FlagTypes ==
  /\ Flags \in ExchgFlags /\ {} \in ExchgFlags
  /\ exchg \in ExchgFlags => \A f \in ExchgFlags : AddedFlags(f) \in ExchgFlags
<1>1. Flags \in ExchgFlags /\ {} \in ExchgFlags
  BY DEF ExchgFlags
<1>2. ASSUME NEW f \in ExchgFlags, exchg \in ExchgFlags
      PROVE  AddedFlags(f) \in ExchgFlags
  BY <1>2 DEF AddedFlags, OwnFlags, ExchgFlags, Flags
<1>3. QED BY <1>1, <1>2

(* Two elements are a sequence.                                            *)
LEMMA PairOf ==
  ASSUME NEW S, NEW a \in S, NEW b \in S
  PROVE  <<a, b>> \in Seq(S)
  OBVIOUS

(* A job that is added, and the jobs that are left.                        *)
LEMMA JobTypes ==
  ASSUME jobs \in Seq(Jobs)
  PROVE  /\ \A job \in Jobs : Append(jobs, job) \in Seq(Jobs)
         /\ jobs # <<>> =>
              /\ Tail(jobs) \in Seq(Jobs) /\ Head(jobs) \in Jobs
              /\ Tail(jobs) \o ReplaceZombie \in Seq(Jobs)
<1>1. CreateJob \in Jobs
  BY DEF Jobs
<1>2. CloseJob(TRUE) \in Jobs
  <2>1. \A force \in BOOLEAN : CloseJob(force) \in Jobs
    BY DEF Jobs
  <2>2. QED BY <2>1, Zenon
<1>r. ReplaceZombie \in Seq(Jobs)
  BY <1>1, <1>2, PairOf, Zenon DEF ReplaceZombie
<1>3. ASSUME jobs # <<>>
      PROVE  Tail(jobs) \in Seq(Jobs) /\ Head(jobs) \in Jobs
  BY <1>3
<1>4. \A job \in Jobs : Append(jobs, job) \in Seq(Jobs)
  OBVIOUS
<1>5. QED BY <1>r, <1>3, <1>4, ConcatProperties

(* A job to connect has the identification and the flags of the remote.    *)
LEMMA ConnectJobType ==
  ASSUME NEW job \in Jobs, job.type = "connect"
  PROVE  job.ident \in Idents /\ job.flags \in ExchgFlags
<1>1. job # CreateJob
  BY DEF CreateJob
<1>2. \A force \in BOOLEAN : job # CloseJob(force)
  BY DEF CloseJob
<1>3. PICK i \in Idents, f \in ExchgFlags : job = ConnectJob(i, f)
  BY <1>1, <1>2 DEF Jobs
<1>4. QED BY <1>3 DEF ConnectJob

-----------------------------------------------------------------------------
(* Types.                                                                  *)

Labels == {"idle", "reset", "request", "trigger", "wait", "take", "check",
           "read", "use", "giveUp", "untrigger"}

(* A thread that moves on is at a label again.                             *)
LEMMA GotoType ==
  ASSUME NEW t \in Threads, NEW label \in Labels, pc \in [Threads -> Labels],
         Goto(t, label)
  PROVE  pc' \in [Threads -> Labels]
  BY DEF Goto

(* The initial state satisfies the invariant.                              *)
LEMMA InitIInv == Init => IInv
<1> SUFFICES ASSUME Init PROVE IInv
  OBVIOUS
<1> USE DEF Init
<1>1. TypeOK
  <2>1. exchg \in ExchgFlags /\ remoteExchg \in ExchgFlags
    BY FlagTypes
  <2>2. available \in Counts /\ 0 \in Counts
    BY CountTypes DEF Available
  <2>3. jobs \in Seq(Jobs)
    BY EmptySeq
  <2>4. fetched \in [Threads -> Counts] /\ counter \in Counts
    BY <2>2
  <2>5. pc \in [Threads -> Labels] /\ state \in States
    BY DEF Labels, States, None
  <2>6. periodic \in [Threads -> BOOLEAN]
          /\ handle \in [Threads -> {NULL, "live", "deleted"}]
    OBVIOUS
  <2>7. QED BY <2>1, <2>2, <2>3, <2>4, <2>5, <2>6 DEF TypeOK, Labels
<1>2. OneCreator /\ StateAgrees /\ KnownWhileConnected /\ ConnectedMeansExchanged
  BY DEF OneCreator, StateAgrees, KnownWhileConnected, ConnectedMeansExchanged,
         None, Created, Connected
<1>3. ThreadControl /\ PeerKnown /\ ClosingNoted /\ Opening
  BY DEF ThreadControl, PeerKnown, ClosingNoted, Opening
<1>4. CountedOrReset
  <2>1. Holders = {} /\ Resetting = {}
    BY DEF Holders, Resetting
  <2>2. available < Available /\ available <= Lowest + Cardinality(Resetting)
    <3>1. Half \in Nat /\ Half > 0
      BY FS_CardinalityType, ConnectionManagerAssumption
    <3>2. QED
      BY <3>1, <2>1, FS_EmptySet DEF NotAvailable, Lowest, Available
  <2>3. QED BY <2>1, <2>2 DEF CountedOrReset
<1>5. QED BY <1>1, <1>2, <1>3, <1>4 DEF IInv

(* A creation job that is added, or none.                                  *)
LEMMA AddedTypes ==
  ASSUME jobs \in Seq(Jobs), AddJob(CreateJob) \/ UNCHANGED jobs
  PROVE  jobs' \in Seq(Jobs)
<1>1. CreateJob \in Jobs
  BY DEF Jobs
<1>2. Append(jobs, CreateJob) \in Seq(Jobs)
  BY <1>1, JobTypes
<1>3. CASE AddJob(CreateJob)
  BY <1>2, <1>3 DEF AddJob
<1>4. CASE UNCHANGED jobs
  BY <1>4
<1>5. QED BY <1>3, <1>4

(* The steps of a thread keep the types.                                   *)
LEMMA ThreadTypes ==
  ASSUME TypeOK, NEW t \in Threads,
         GetConnection(t) \/ ReturnConnection(t) \/ GotNull(t)
  PROVE  TypeOK'
<1> USE DEF TypeOK, shared, threads, manager
<1>p. pc \in [Threads -> Labels]
  BY DEF Labels
<1>l. \A label \in Labels : Goto(t, label) => pc' \in [Threads -> Labels]
  BY <1>p, GotoType
<1>1. CASE Fetch(t)
  <2>1. pc' \in [Threads -> Labels]
    BY <1>1, <1>l DEF Fetch, Labels
  <2>2. available' \in Counts /\ fetched' \in [Threads -> Counts]
    BY <1>1, CountTypes DEF Fetch
  <2>3. QED BY <1>1, <2>1, <2>2 DEF Fetch, Labels
<1>2. CASE Reset(t)
  <2>1. pc' \in [Threads -> Labels]
    BY <1>2, <1>l, <1>p DEF Reset, Labels
  <2>2. available' \in Counts /\ fetched' \in [Threads -> Counts]
    BY <1>2, CountTypes DEF Reset, Available
  <2>3. QED BY <1>2, <2>1, <2>2 DEF Reset, Labels
<1>3. CASE Request(t)
  <2>1. pc' \in [Threads -> Labels]
    BY <1>3, <1>l DEF Request, Labels
  <2>2. QED BY <1>3, <2>1 DEF Request, Labels, States, Creating
<1>4. CASE Trigger(t)
  <2>1. pc' \in [Threads -> Labels]
    BY <1>4, <1>l DEF Trigger, Labels
  <2>2. jobs' \in Seq(Jobs)
    BY <1>4, AddedTypes DEF Trigger
  <2>3. QED BY <1>4, <2>1, <2>2 DEF Trigger, Labels
<1>5. CASE FindAvailable(t) \/ TimeOut(t) \/ Take(t) \/ Check(t) \/ GotNull(t)
  <2>1. pc' \in [Threads -> Labels]
    BY <1>5, <1>l DEF FindAvailable, TimeOut, Take, Check, GotNull, Labels
  <2>2. available' \in Counts /\ periodic' \in [Threads -> BOOLEAN]
    BY <1>5, CountTypes DEF FindAvailable, TimeOut, Take, Check, GotNull
  <2>3. QED
    BY <1>5, <2>1, <2>2
       DEF FindAvailable, TimeOut, Take, Check, GotNull, Labels
<1>6. CASE Retry(t)
  <2>1. jobs' \in Seq(Jobs)
    BY <1>6, AddedTypes DEF Retry
  <2>2. QED BY <1>6, <2>1 DEF Retry
<1>7. CASE GiveUp(t) \/ Untrigger(t)
  <2>1. pc' \in [Threads -> Labels]
    BY <1>7, <1>l DEF GiveUp, Untrigger, Labels
  <2>2. state' \in States
    BY <1>7 DEF GiveUp, Untrigger, States, None
  <2>3. periodic' \in [Threads -> BOOLEAN] /\ reExchange' \in BOOLEAN
    BY <1>7 DEF GiveUp, Untrigger
  <2>4. QED BY <1>7, <2>1, <2>2, <2>3 DEF GiveUp, Untrigger, Labels
<1>8. CASE Read(t) \/ ReturnConnection(t)
  <2>1. pc' \in [Threads -> Labels]
    BY <1>8, <1>l DEF Read, ReturnConnection, Labels
  <2>2. available' \in Counts
    BY <1>8, CountTypes DEF Read, ReturnConnection
  <2>3. handle' \in [Threads -> {NULL, "live", "deleted"}]
    BY <1>8 DEF Read, ReturnConnection
  <2>4. QED BY <1>8, <2>1, <2>2, <2>3 DEF Read, ReturnConnection, Labels
<1>9. QED
  BY <1>1, <1>2, <1>3, <1>4, <1>5, <1>6, <1>7, <1>8 DEF GetConnection

(* The steps of the job thread and from outside keep the types.            *)
LEMMA JobThreadTypes ==
  ASSUME TypeOK, DispatchJob
  PROVE  TypeOK'
<1> USE DEF TypeOK, shared, threads, manager
<1>1. CASE DropJob
  <2>1. jobs' \in Seq(Jobs)
    BY <1>1, JobTypes DEF DropJob, IsNext
  <2>2. QED BY <1>1, <2>1 DEF DropJob
<1>2. CASE CreateConnection
  <2>1. jobs' \in Seq(Jobs)
    BY <1>2, JobTypes DEF CreateConnection, IsNext
  <2>2. state' \in States
    BY <1>2 DEF CreateConnection, StateAllocated, StateCreated, States, Created
  <2>3. connection' \in {NULL, "live"} /\ thrown' \in {"none", "nullptr"}
    BY <1>2 DEF CreateConnection
  <2>4. QED BY <1>2, <2>1, <2>2, <2>3 DEF CreateConnection
<1>3. CASE ConnectConnection
  <2> DEFINE job == Head(jobs)
  <2>1. job \in Jobs /\ job.type = "connect"
    BY <1>3, JobTypes DEF ConnectConnection, IsNext
  <2>2. job.ident \in Idents /\ job.flags \in ExchgFlags
    BY <2>1, ConnectJobType
  <2>3. jobs' \in Seq(Jobs)
    BY <1>3, JobTypes DEF ConnectConnection, IsNext
  <2>4. exchg' \in ExchgFlags /\ remoteExchg' \in ExchgFlags
    BY <1>3, <2>2, FlagTypes DEF ConnectConnection, ExchgAfter
  <2>5. state' \in States
    BY <1>3 DEF ConnectConnection, StateAllocated, StateCreated, States, Created,
                Connected
  <2>6. peer' \in Idents \cup {NULL}
    BY <1>3, <2>2 DEF ConnectConnection
  <2>7. jobPc' \in {"pop", "open"} /\ connection' \in {NULL, "live"}
    BY <1>3 DEF ConnectConnection
  <2>8. QED
    BY <1>3, <2>3, <2>4, <2>5, <2>6, <2>7 DEF ConnectConnection
<1>4. CASE OpenConnection
  BY <1>4, CountTypes DEF OpenConnection
<1>5. CASE BeginClose
  <2>1. jobs' \in Seq(Jobs)
    BY <1>5, JobTypes DEF BeginClose, IsNext
  <2>2. QED BY <1>5, <2>1, CountTypes DEF BeginClose
<1>6. CASE Drained
  BY <1>6 DEF Drained
<1>7. CASE Unlink
  BY <1>7, CountTypes DEF Unlink, Available
<1>8. CASE Delete
  <2>1. exchg' \in ExchgFlags /\ remoteExchg' \in ExchgFlags
    BY <1>8, FlagTypes DEF Delete, FlagsAfterClose, NoFlags
  <2>2. handle' \in [Threads -> {NULL, "live", "deleted"}]
    BY <1>8 DEF Delete
  <2>3. QED BY <1>8, <2>1, <2>2 DEF Delete, States, None
<1>9. CASE EndClose
  BY <1>9, CountTypes DEF EndClose
<1>10. QED
  BY <1>1, <1>2, <1>3, <1>4, <1>5, <1>6, <1>7, <1>8, <1>9 DEF DispatchJob

(* What the job thread and the callers do not do.                          *)
Outside ==
  \/ \E force \in Forces : CloseConnection(force)
  \/ Discover
  \/ \E i \in Idents, f \in ExchgFlags : DispatchExchangeData(i, f)

(* From outside come new jobs, and the discovery of the node.              *)
LEMMA OutsideChanges ==
  ASSUME TypeOK, Outside
  PROVE  /\ jobs' \in Seq(Jobs) /\ known' \in BOOLEAN
         /\ known => known'
         /\ UNCHANGED <<available, state, reExchange, exchg, remoteExchg,
              connection, peer, threads, jobPc, counter, thrown, closed>>
<1> USE DEF shared, threads, manager, TypeOK
<1>1. ASSUME NEW force \in Forces, CloseConnection(force)
      PROVE  jobs' \in Seq(Jobs)
  <2>1. \A b \in BOOLEAN : CloseJob(b) \in Jobs
    BY DEF Jobs
  <2>2. CloseJob(force) \in Jobs
    BY <2>1, ConnectionManagerAssumption, Zenon
  <2>3. QED BY <1>1, <2>2, JobTypes DEF CloseConnection, AddJob
<1>2. ASSUME NEW i \in Idents, NEW f \in ExchgFlags, DispatchExchangeData(i, f)
      PROVE  jobs' \in Seq(Jobs)
  <2>1. ConnectJob(i, f) \in Jobs
    BY DEF Jobs
  <2>2. QED BY <1>2, <2>1, JobTypes DEF DispatchExchangeData, AddJob
<1>3. CASE Discover
  BY <1>3 DEF Discover
<1>4. QED
  BY <1>1, <1>2, <1>3 DEF Outside, CloseConnection, DispatchExchangeData

-----------------------------------------------------------------------------
(* The jobs and the state of the connection.                               *)

(* The properties that relate the jobs and the state.                      *)
JobView ==
  StateAgrees /\ KnownWhileConnected /\ ConnectedMeansExchanged /\ PeerKnown
    /\ ClosingNoted /\ Opening

(* A thread changes the state only between none and in creation.           *)
LEMMA ThreadKeepsView ==
  ASSUME TypeOK, JobView, NEW t \in Threads,
         GetConnection(t) \/ ReturnConnection(t) \/ GotNull(t)
  PROVE  JobView'
<1>1. /\ UNCHANGED <<exchg, connection, peer, known, jobPc, closed>>
      /\ \/ UNCHANGED state
         \/ state \in {None, Creating} /\ state' \in {None, Creating}
  BY DEF GetConnection, Fetch, Reset, Request, Trigger, FindAvailable, Retry,
         TimeOut, GiveUp, Untrigger, Take, Check, Read, ReturnConnection, GotNull,
         shared, threads, manager
<1>2. state' = Connected <=> state = Connected
  BY <1>1 DEF None, Creating, Connected
<1>3. state' \in {Created, Connected} <=> state \in {Created, Connected}
  BY <1>1 DEF None, Creating, Created, Connected
<1>4. state \in {None, Creating} => state' \in {None, Creating}
  BY <1>1
<1>5. StateAgrees'
  BY <1>1, <1>3, <1>4 DEF JobView, StateAgrees
<1>6. QED
  BY <1>1, <1>2, <1>5
     DEF JobView, KnownWhileConnected, ConnectedMeansExchanged, PeerKnown,
         ClosingNoted, Opening

(* The creation and the connect job find and leave a connection that is    *)
(* at least created.                                                       *)
LEMMA OpeningJobsKeepView ==
  ASSUME TypeOK, JobView, DropJob \/ CreateConnection \/ OpenConnection
  PROVE  JobView'
<1> USE DEF JobView, StateAgrees, KnownWhileConnected, ConnectedMeansExchanged,
            PeerKnown, ClosingNoted, Opening, shared, threads, manager
<1>1. CASE DropJob
  BY <1>1 DEF DropJob
<1>2. CASE CreateConnection
  <2>1. jobPc = "pop" /\ known
    BY <1>2 DEF CreateConnection, IsNext, Discovered
  <2>2. CASE MayAllocate
    <3>1. connection' = "live" /\ state' = Created
      BY <1>2, <2>1, <2>2
         DEF CreateConnection, MayAllocate, StateAllocated, StateCreated,
             Creating, Created, Connected
    <3>2. QED
      BY <1>2, <2>1, <3>1, ConnectionManagerAssumption
         DEF CreateConnection, Created, Connected
  <2>3. CASE ~MayAllocate
    BY <1>2, <2>1, <2>3 DEF CreateConnection
  <2>4. QED BY <2>2, <2>3
<1>3. CASE OpenConnection
  BY <1>3 DEF OpenConnection
<1>4. QED BY <1>1, <1>2, <1>3

(* The connect job completes a connection both sides are connected to.     *)
LEMMA ConnectKeepsView ==
  ASSUME TypeOK, JobView, ConnectConnection
  PROVE  JobView'
<1> DEFINE job == Head(jobs)
<1>1. job.ident \in Idents /\ job.flags \in ExchgFlags
  BY JobTypes, ConnectJobType DEF TypeOK, ConnectConnection, IsNext
<1>2. jobPc = "pop" /\ known
  BY DEF ConnectConnection, IsNext, Discovered
<1>3. connection' = "live" /\ "live" # NULL /\ UNCHANGED <<known, closed>>
  BY ConnectionManagerAssumption DEF ConnectConnection
<1>4. exchg' = AddedFlags(job.flags) /\ "connectedToRemote" \in exchg'
  BY DEF ConnectConnection, ExchgAfter, AddedFlags
<1>5. peer' # NULL
  BY <1>1, ConnectionManagerAssumption DEF ConnectConnection, JobView, PeerKnown
<1>6. StateAllocated \in {Created, Connected}
  BY <1>2 DEF JobView, StateAgrees, StateAllocated, StateCreated
<1>7. jobPc' \in {"pop", "open"} /\ (jobPc' = "open" => state' = Connected)
  BY DEF ConnectConnection
<1>8. state' \in {Created, Connected}
  BY <1>6 DEF ConnectConnection
<1>9. state' = Connected => exchg' = Flags
  <2>1. CASE ExchgComplete(exchg', job.flags)
    BY <2>1 DEF ExchgComplete
  <2>2. CASE ~ExchgComplete(exchg', job.flags) /\ state' = Connected
    <3>1. StateAllocated = Connected
      BY <2>2 DEF ConnectConnection
    <3>2. state = Connected
      BY <3>1 DEF StateAllocated, StateCreated, Created, Connected
    <3>3. exchg = Flags
      BY <3>2 DEF JobView, ConnectedMeansExchanged
    <3>4. QED BY <1>4, <3>3 DEF AddedFlags, OwnFlags, Flags
  <2>3. QED BY <2>1, <2>2
<1>10. QED
  BY <1>2, <1>3, <1>4, <1>5, <1>7, <1>8, <1>9
     DEF JobView, StateAgrees, KnownWhileConnected, ConnectedMeansExchanged,
         PeerKnown, ClosingNoted, Opening

(* The close job takes the connection and its state away together.         *)
LEMMA CloseKeepsView ==
  ASSUME TypeOK, JobView, BeginClose \/ Drained \/ Unlink \/ Delete \/ EndClose
  PROVE  JobView'
<1> USE DEF JobView, StateAgrees, KnownWhileConnected, ConnectedMeansExchanged,
            PeerKnown, ClosingNoted, Opening, shared, threads, manager
<1>1. CASE BeginClose
  BY <1>1 DEF BeginClose, IsNext
<1>2. CASE Drained
  BY <1>2 DEF Drained
<1>3. CASE Unlink
  BY <1>3 DEF Unlink
<1>4. CASE Delete
  BY <1>4 DEF Delete, FlagsAfterClose, NoFlags, None, Connected
<1>5. CASE EndClose
  BY <1>5 DEF EndClose, None, Creating, Created, Connected
<1>6. QED BY <1>1, <1>2, <1>3, <1>4, <1>5

-----------------------------------------------------------------------------
(* One thread repeats the creation.                                        *)

(* Whoever sets m_triggerReExchange is the one, until it resets it.        *)
LEMMA ThreadKeepsControl ==
  ASSUME TypeOK, OneCreator, ThreadControl, NEW t \in Threads,
         GetConnection(t) \/ ReturnConnection(t) \/ GotNull(t)
  PROVE  OneCreator' /\ ThreadControl'
<1> USE DEF TypeOK, OneCreator, ThreadControl, At, Goto, shared, threads, manager
<1>1. CASE Fetch(t) \/ Reset(t)
  <2>1. UNCHANGED <<periodic, handle, reExchange>>
    BY <1>1 DEF Fetch, Reset
  <2>2. \A u \in Threads \ {t} : pc'[u] = pc[u] /\ fetched'[u] = fetched[u]
    BY <1>1 DEF Fetch, Reset
  <2>3. pc[t] \in {"idle", "reset"} /\ handle[t] = NULL
    BY <1>1 DEF Fetch, Reset
  <2>4. pc'[t] \in {"read", "reset", "request"}
    BY <1>1 DEF Fetch, Reset
  <2>5. pc'[t] = "reset" => fetched'[t] < Available
    <3>1. CASE Fetch(t)
      BY <3>1, CountTypes DEF Fetch, Available
    <3>2. CASE Reset(t)
      <4>1. available \in Int
        BY CountTypes
      <4>2. pc'[t] = "reset" => fetched'[t] = available /\ ~(available >= 0)
        BY <3>2 DEF Reset, NoReset, StopsIfAvailable, Available
      <4>3. QED BY <4>1, <4>2 DEF Available
    <3>3. QED BY <1>1, <3>1, <3>2
  <2>6. QED BY <2>1, <2>2, <2>3, <2>4, <2>5
<1>2. CASE Request(t)
  BY <1>2 DEF Request
<1>3. CASE Trigger(t)
  BY <1>3 DEF Trigger, Triggers, FirstThread
<1>4. CASE FindAvailable(t) \/ TimeOut(t) \/ Take(t) \/ Check(t) \/ GotNull(t)
  BY <1>4 DEF FindAvailable, TimeOut, Take, Check, GotNull
<1>5. CASE Retry(t)
  BY <1>5 DEF Retry
<1>6. CASE GiveUp(t) \/ Untrigger(t)
  BY <1>6 DEF GiveUp, Untrigger
<1>7. CASE Read(t) \/ ReturnConnection(t)
  BY <1>7 DEF Read, ReturnConnection
<1>8. QED
  BY <1>1, <1>2, <1>3, <1>4, <1>5, <1>6, <1>7 DEF GetConnection

(* The job thread leaves the threads where they are.                       *)
LEMMA JobKeepsControl ==
  ASSUME TypeOK, OneCreator, ThreadControl, DispatchJob
  PROVE  OneCreator' /\ ThreadControl'
<1>1. UNCHANGED <<reExchange, pc, fetched, periodic>>
  BY DEF DispatchJob, DropJob, CreateConnection, ConnectConnection,
         OpenConnection, BeginClose, Drained, Unlink, Delete, EndClose, shared,
         threads, manager
<1>2. \A t \in Threads : handle'[t] # NULL => handle[t] # NULL
  <2>1. CASE Delete
    BY <2>1, ConnectionManagerAssumption DEF Delete, TypeOK
  <2>2. CASE ~Delete
    BY <2>2
       DEF DispatchJob, DropJob, CreateConnection, ConnectConnection,
           OpenConnection, BeginClose, Drained, Unlink, EndClose, threads, shared
  <2>3. QED BY <2>1, <2>2
<1>3. QED BY <1>1, <1>2 DEF OneCreator, ThreadControl

-----------------------------------------------------------------------------
(* The handles.                                                            *)

(* The regions of the counter are wider apart than there are threads.      *)
LEMMA HalfType ==
  /\ Half \in Nat /\ Cardinality(Threads) \in Nat /\ Half > Cardinality(Threads)
  /\ Lowest \in Int /\ Lowest + Cardinality(Threads) < Available
  /\ Available + Cardinality(Threads) < -Lowest - 1
<1>1. Cardinality(Threads) \in Nat
  BY FS_CardinalityType, ConnectionManagerAssumption
<1>2. QED BY <1>1, ConnectionManagerAssumption DEF Lowest, Available

(* The number of the threads in a set, and with one thread more or less.   *)
LEMMA ThreadCount ==
  ASSUME NEW S \in SUBSET Threads
  PROVE  /\ IsFiniteSet(S) /\ Cardinality(S) \in Nat
         /\ Cardinality(S) <= Cardinality(Threads)
         /\ \A t \in Threads \ S :
              /\ Cardinality(S \cup {t}) = Cardinality(S) + 1
              /\ Cardinality(S) < Cardinality(Threads)
         /\ \A t \in S : Cardinality(S \ {t}) = Cardinality(S) - 1
<1>1. IsFiniteSet(S) /\ Cardinality(S) <= Cardinality(Threads)
  BY FS_Subset, ConnectionManagerAssumption
<1>2. Cardinality(S) \in Nat
  BY <1>1, FS_CardinalityType
<1>3. ASSUME NEW t \in Threads \ S
      PROVE  /\ Cardinality(S \cup {t}) = Cardinality(S) + 1
             /\ Cardinality(S) < Cardinality(Threads)
  <2>1. Cardinality(S \cup {t}) = Cardinality(S) + 1
    BY <1>1, <1>3, FS_AddElement
  <2>2. S \cup {t} \subseteq Threads
    BY <1>3
  <2>3. Cardinality(S \cup {t}) <= Cardinality(Threads)
    BY <2>2, FS_Subset, ConnectionManagerAssumption
  <2>4. QED BY <2>1, <2>3, <1>2, HalfType
<1>4. ASSUME NEW t \in S
      PROVE  Cardinality(S \ {t}) = Cardinality(S) - 1
  BY <1>1, FS_RemoveElement
<1>5. QED BY <1>1, <1>2, <1>3, <1>4

(* What the threads see of the connection until its first close.           *)
View == TypeOK /\ ThreadControl /\ JobView /\ ~closed /\ CountedOrReset

(* A fetch of an available connection is a handle, an early one is noted   *)
(* by the thread that resets it.                                           *)
LEMMA FetchKeepsCount ==
  ASSUME View, NEW t \in Threads, Fetch(t)
  PROVE  CountedOrReset'
<1> USE DEF View
<1>1. available \in Counts /\ available \in Int /\ pc \in [Threads -> Labels]
  BY CountTypes DEF TypeOK, Labels
<1>2. pc[t] = "idle" /\ handle[t] = NULL
  BY DEF Fetch, At, ThreadControl
<1>3. Holders \in SUBSET Threads /\ Resetting \in SUBSET Threads
  BY DEF Holders, Resetting
<1>4. t \notin Holders /\ t \notin Resetting
  BY <1>2 DEF Holders, Resetting
<1>5. UNCHANGED <<state, jobPc, handle>>
  BY DEF Fetch, manager
<1>6. CASE available >= Available
  <2>1. available = Cardinality(Holders)
    BY <1>6, <1>1 DEF CountedOrReset, Available
  <2>2. pc' = [pc EXCEPT ![t] = "read"]
    BY <1>6 DEF Fetch, Goto
  <2>3. Holders' = Holders \cup {t}
    BY <1>1, <1>5, <2>2 DEF Holders
  <2>4. Cardinality(Holders') = available + 1 /\ available < Cardinality(Threads)
    BY <2>1, <2>3, <1>3, <1>4, ThreadCount
  <2>5. available' = available + 1
    BY <2>4, <1>1, HalfType DEF Fetch, Plus1, Available
  <2>6. QED
    BY <2>4, <2>5, <1>5, <1>6, <1>1 DEF CountedOrReset, Available
<1>7. CASE available < Available
  <2>1. /\ Holders = {} /\ \A u \in Threads : pc[u] # "take"
        /\ available <= Lowest + Cardinality(Resetting)
    BY <1>7 DEF CountedOrReset
  <2>2. pc' = [pc EXCEPT ![t] = "reset"]
    BY <1>7, <1>1 DEF Fetch, Goto, Available
  <2>3. Resetting' = Resetting \cup {t}
    BY <1>1, <2>2 DEF Resetting
  <2>4. /\ Cardinality(Resetting') = Cardinality(Resetting) + 1
        /\ Cardinality(Resetting) \in Nat
        /\ Cardinality(Resetting) < Cardinality(Threads)
    BY <2>3, <1>3, <1>4, ThreadCount
  <2>5. available' = available + 1 /\ available' < Available
    BY <2>1, <2>4, <1>1, HalfType DEF Fetch, Plus1, Available
  <2>6. Holders' = {} /\ \A u \in Threads : pc'[u] # "take"
    BY <2>1, <2>2, <1>1, <1>2, <1>5 DEF Holders
  <2>7. QED
    BY <2>1, <2>4, <2>5, <2>6, <1>1, HalfType DEF CountedOrReset
<1>8. QED BY <1>1, <1>6, <1>7 DEF Available

(* The reset forgets all early fetches at once, and never a handle.        *)
LEMMA ResetKeepsCount ==
  ASSUME View, NEW t \in Threads, Reset(t)
  PROVE  CountedOrReset'
<1> USE DEF View
<1>1. available \in Int /\ pc \in [Threads -> Labels]
  BY CountTypes DEF TypeOK, Labels
<1>2. pc[t] = "reset" /\ handle[t] = NULL /\ fetched[t] < Available
  BY DEF Reset, At, ThreadControl
<1>3. UNCHANGED <<state, jobPc, handle>>
  BY DEF Reset, manager
<1>4. Resetting' \in SUBSET Threads
  BY DEF Resetting
<1>5. /\ \A u \in Threads \ {t} : pc'[u] = pc[u]
      /\ pc'[t] \in {"reset", "request"}
  BY <1>1, <1>2 DEF Reset, Goto
<1>6. Holders' = Holders
  BY <1>2, <1>3, <1>5 DEF Holders
<1>7. CASE available = fetched[t]
  <2>1. available' = Lowest /\ available < Available
    BY <1>2, <1>7 DEF Reset, NotAvailable
  <2>2. Cardinality(Resetting') \in Nat
    BY <1>4, ThreadCount
  <2>3. Holders = {} /\ \A u \in Threads : pc[u] # "take"
    BY <2>1 DEF CountedOrReset
  <2>4. \A u \in Threads : pc'[u] # "take"
    BY <1>5, <2>3
  <2>5. QED
    BY <2>1, <2>2, <2>3, <2>4, <1>6, HalfType DEF CountedOrReset, Available
<1>8. CASE available # fetched[t]
  <2>1. available' = available
    BY <1>8 DEF Reset
  <2>2. CASE available >= Available
    BY <1>1, <1>3, <1>6, <2>1, <2>2 DEF CountedOrReset, Available
  <2>3. CASE available < Available
    <3>1. ~(available >= Available)
      BY <1>1, <2>3 DEF Available
    <3>2. pc' = pc
      BY <1>8, <3>1 DEF Reset, NoReset, StopsIfAvailable
    <3>3. Resetting' = Resetting
      BY <3>2 DEF Resetting
    <3>4. QED
      BY <1>6, <2>1, <2>3, <3>2, <3>3 DEF CountedOrReset
  <2>4. QED BY <1>1, <2>2, <2>3 DEF Available
<1>9. QED BY <1>7, <1>8

(* The steps between: no handle is taken or returned, and a thread goes to *)
(* take one only if the connection is available.                           *)
LEMMA WaitKeepsCount ==
  ASSUME View, NEW t \in Threads,
         \/ Request(t) \/ Trigger(t) \/ FindAvailable(t) \/ Retry(t)
         \/ TimeOut(t) \/ GiveUp(t) \/ Untrigger(t) \/ GotNull(t) \/ Read(t)
  PROVE  CountedOrReset'
<1> USE DEF View
<1>1. available \in Int /\ pc \in [Threads -> Labels]
        /\ handle \in [Threads -> {NULL, "live", "deleted"}]
  BY CountTypes DEF TypeOK, Labels
<1>2. UNCHANGED <<available, jobPc>> /\ (state = Connected => state' = Connected)
  BY DEF Request, Trigger, FindAvailable, Retry, TimeOut, GiveUp, Untrigger,
         GotNull, Read, shared, manager, None, Creating, Connected
<1>3. /\ \A u \in Threads \ {t} : pc'[u] = pc[u] /\ handle'[u] = handle[u]
      /\ pc'[t] = "take" => pc[t] = "take" \/ available >= Available
      /\ pc[t] # "reset" /\ pc'[t] # "reset"
  BY <1>1 DEF Request, Trigger, FindAvailable, Retry, TimeOut, GiveUp, Untrigger,
              GotNull, Read, At, Goto, threads
<1>4. t \in Holders' <=> t \in Holders
  <2>1. CASE Read(t)
    <3>1. available < Available => Holders = {}
      BY DEF CountedOrReset
    <3>2. t \in Holders
      BY <2>1 DEF Read, At, Holders
    <3>3. available >= Available
      BY <3>1, <3>2, <1>1 DEF Available
    <3>4. connection # NULL
      BY <3>3, <1>1
         DEF CountedOrReset, Available, JobView, StateAgrees, Created, Connected
    <3>5. handle'[t] # NULL
      BY <2>1, <3>4, <1>1 DEF Read
    <3>6. QED BY <3>2, <3>5 DEF Holders
  <2>2. CASE ~Read(t)
    <3>1. pc[t] \notin {"check", "read"} /\ pc'[t] \notin {"check", "read"}
      BY <1>1, <2>2
         DEF Request, Trigger, FindAvailable, Retry, TimeOut, GiveUp, Untrigger,
             GotNull, At, Goto, threads
    <3>2. handle' = handle
      BY <2>2
         DEF Request, Trigger, FindAvailable, Retry, TimeOut, GiveUp, Untrigger,
             GotNull, threads
    <3>3. QED BY <3>1, <3>2 DEF Holders
  <2>3. QED BY <2>1, <2>2
<1>5. Holders' = Holders
  BY <1>3, <1>4 DEF Holders
<1>6. Resetting' = Resetting
  BY <1>3 DEF Resetting
<1>7. QED
  BY <1>1, <1>2, <1>3, <1>5, <1>6 DEF CountedOrReset, Available

(* The second way to a handle: found available, then taken.                *)
LEMMA TakeKeepsCount ==
  ASSUME View, NEW t \in Threads, Take(t)
  PROVE  CountedOrReset'
<1> USE DEF View
<1>1. available \in Int /\ available \in Counts /\ pc \in [Threads -> Labels]
  BY CountTypes DEF TypeOK, Labels
<1>2. pc[t] = "take" /\ handle[t] = NULL
  BY DEF Take, At, ThreadControl
<1>3. UNCHANGED <<state, jobPc, handle>> /\ pc' = [pc EXCEPT ![t] = "check"]
  BY DEF Take, Goto, manager
<1>4. available >= Available /\ available = Cardinality(Holders)
  BY <1>1, <1>2 DEF CountedOrReset, Available
<1>5. Holders \in SUBSET Threads /\ t \notin Holders /\ Holders' = Holders \cup {t}
  BY <1>1, <1>2, <1>3 DEF Holders
<1>6. Cardinality(Holders') = available + 1 /\ available < Cardinality(Threads)
  BY <1>4, <1>5, ThreadCount
<1>7. available' = available + 1
  BY <1>1, <1>6, HalfType DEF Take, Plus1, Available
<1>8. QED
  BY <1>1, <1>3, <1>4, <1>6, <1>7 DEF CountedOrReset, Available

(* There is a connection when the sanity check looks for it.               *)
LEMMA CheckKeepsCount ==
  ASSUME View, NEW t \in Threads, Check(t)
  PROVE  CountedOrReset'
<1> USE DEF View
<1>1. available \in Int /\ pc \in [Threads -> Labels]
  BY CountTypes DEF TypeOK, Labels
<1>2. pc[t] = "check" /\ t \in Holders
  BY DEF Check, At, Holders
<1>3. available >= Available /\ state = Connected /\ jobPc = "pop"
  BY <1>1, <1>2 DEF CountedOrReset, Available
<1>4. connection # NULL
  BY <1>3 DEF JobView, StateAgrees, Created, Connected
<1>5. pc' = [pc EXCEPT ![t] = "read"] /\ UNCHANGED <<available, state, jobPc, handle>>
  BY <1>4 DEF Check, Goto, shared, manager
<1>6. Holders' = Holders
  BY <1>1, <1>2, <1>5 DEF Holders
<1>7. QED BY <1>1, <1>3, <1>5, <1>6 DEF CountedOrReset, Available

(* A handle that is returned is one less.                                  *)
LEMMA ReturnKeepsCount ==
  ASSUME View, NEW t \in Threads, ReturnConnection(t)
  PROVE  CountedOrReset'
<1> USE DEF View
<1>1. /\ available \in Int /\ available \in Counts /\ pc \in [Threads -> Labels]
      /\ handle \in [Threads -> {NULL, "live", "deleted"}]
  BY CountTypes DEF TypeOK, Labels
<1>2. pc[t] = "use" /\ t \in Holders /\ Holders \in SUBSET Threads
  BY DEF ReturnConnection, At, Holders
<1>3. available >= Available /\ available = Cardinality(Holders)
  BY <1>1, <1>2 DEF CountedOrReset, Available
<1>4. /\ UNCHANGED <<state, jobPc>>
      /\ pc' = [pc EXCEPT ![t] = "idle"] /\ handle' = [handle EXCEPT ![t] = NULL]
  BY DEF ReturnConnection, Goto, manager
<1>5. Holders' = Holders \ {t}
  BY <1>1, <1>2, <1>4 DEF Holders
<1>6. Cardinality(Holders') = available - 1 /\ Cardinality(Holders') \in Nat
  BY <1>2, <1>3, <1>5, ThreadCount
<1>7. available' = available - 1
  BY <1>1, <1>3, HalfType DEF ReturnConnection, Minus1, Available
<1>8. QED
  BY <1>1, <1>3, <1>4, <1>6, <1>7 DEF CountedOrReset, Available

(* The connection becomes available once, when nobody has a handle.        *)
LEMMA JobKeepsCount ==
  ASSUME View, DispatchJob
  PROVE  closed' \/ CountedOrReset'
<1> USE DEF View
<1>1. available \in Int
  BY CountTypes DEF TypeOK
<1>2. CASE DropJob \/ CreateConnection
  <2>1. /\ UNCHANGED <<available, pc, handle>> /\ jobPc' = "pop" /\ jobPc = "pop"
        /\ state = Connected => state' = Connected
    BY <1>2
       DEF DropJob, CreateConnection, IsNext, MayAllocate, Creating, Connected,
           shared, threads
  <2>2. QED BY <2>1 DEF CountedOrReset, Holders, Resetting
<1>3. CASE ConnectConnection
  <2>1. UNCHANGED <<available, pc, handle>>
    BY <1>3 DEF ConnectConnection, threads
  <2>2. ASSUME state = Connected
        PROVE  state' = Connected /\ jobPc' = "pop"
    <3>1. jobPc = "pop"
      BY <1>3 DEF ConnectConnection, IsNext
    <3>2. connection # NULL
      BY <2>2, <3>1 DEF JobView, StateAgrees
    <3>3. StateAllocated = Connected /\ Connected # Created
      BY <2>2, <3>2 DEF StateAllocated, StateCreated, Created, Connected
    <3>4. QED BY <1>3, <3>3 DEF ConnectConnection
  <2>3. QED BY <2>1, <2>2 DEF CountedOrReset, Holders, Resetting
<1>4. CASE OpenConnection
  <2>1. /\ available' = Available /\ jobPc' = "pop" /\ jobPc = "open"
        /\ UNCHANGED <<state, pc, handle>>
    BY <1>4 DEF OpenConnection, threads
  <2>2. state = Connected
    BY <2>1 DEF JobView, Opening
  <2>3. Holders = {}
    BY <1>1, <2>1 DEF CountedOrReset, Available
  <2>4. Holders' = {}
    BY <2>1, <2>3 DEF Holders
  <2>5. QED
    BY <2>1, <2>2, <2>4, FS_EmptySet DEF CountedOrReset, Available
<1>5. CASE BeginClose
  BY <1>5 DEF BeginClose
<1>6. CASE Drained \/ Unlink \/ Delete \/ EndClose
  BY <1>6 DEF Drained, Unlink, Delete, EndClose, JobView, ClosingNoted
<1>7. QED
  BY <1>2, <1>3, <1>4, <1>5, <1>6 DEF DispatchJob

-----------------------------------------------------------------------------
(* The invariant.                                                          *)

(* Every step keeps the invariant.                                         *)
LEMMA NextIInv == IInv /\ [Next]_vars => IInv'
<1> SUFFICES ASSUME IInv, [Next]_vars PROVE IInv'
  OBVIOUS
<1>1. TypeOK /\ OneCreator /\ ThreadControl /\ JobView /\ (closed \/ View)
  BY DEF IInv, JobView, View
<1>2. ASSUME NEW t \in Threads,
             GetConnection(t) \/ ReturnConnection(t) \/ GotNull(t)
      PROVE  IInv'
  <2>1. TypeOK' /\ OneCreator' /\ ThreadControl' /\ JobView'
    BY <1>1, <1>2, ThreadTypes, ThreadKeepsControl, ThreadKeepsView
  <2>2. closed' = closed
    BY <1>2
       DEF GetConnection, Fetch, Reset, Request, Trigger, FindAvailable, Retry,
           TimeOut, GiveUp, Untrigger, Take, Check, Read, ReturnConnection,
           GotNull, manager
  <2>3. View => CountedOrReset'
    BY <1>2, FetchKeepsCount, ResetKeepsCount, WaitKeepsCount, TakeKeepsCount,
       CheckKeepsCount, ReturnKeepsCount DEF GetConnection
  <2>4. QED BY <1>1, <2>1, <2>2, <2>3 DEF IInv, JobView
<1>3. CASE DispatchJob
  <2>1. TypeOK' /\ OneCreator' /\ ThreadControl'
    BY <1>1, <1>3, JobThreadTypes, JobKeepsControl
  <2>2. JobView'
    BY <1>1, <1>3, OpeningJobsKeepView, ConnectKeepsView, CloseKeepsView
       DEF DispatchJob
  <2>3. closed => closed'
    BY <1>3
       DEF DispatchJob, DropJob, CreateConnection, ConnectConnection,
           OpenConnection, BeginClose, Drained, Unlink, Delete, EndClose
  <2>4. closed' \/ CountedOrReset'
    BY <1>1, <1>3, <2>3, JobKeepsCount
  <2>5. QED BY <2>1, <2>2, <2>4 DEF IInv, JobView
<1>4. CASE Outside
  <2>1. /\ jobs' \in Seq(Jobs) /\ known' \in BOOLEAN /\ (known => known')
        /\ UNCHANGED <<available, state, reExchange, exchg, remoteExchg,
             connection, peer, threads, jobPc, counter, thrown, closed>>
    BY <1>1, <1>4, OutsideChanges
  <2>2. TypeOK'
    BY <1>1, <2>1 DEF TypeOK, threads
  <2>3. OneCreator' /\ ThreadControl' /\ JobView'
    BY <1>1, <2>1
       DEF OneCreator, ThreadControl, JobView, StateAgrees, KnownWhileConnected,
           ConnectedMeansExchanged, PeerKnown, ClosingNoted, Opening, threads
  <2>4. closed' \/ CountedOrReset'
    BY <1>1, <2>1 DEF View, CountedOrReset, Holders, Resetting, threads
  <2>5. QED BY <2>2, <2>3, <2>4 DEF IInv, JobView
<1>5. CASE UNCHANGED vars
  BY <1>5
     DEF IInv, TypeOK, OneCreator, StateAgrees, KnownWhileConnected,
         ConnectedMeansExchanged, ThreadControl, PeerKnown, ClosingNoted, Opening,
         CountedOrReset, Holders, Resetting, vars, shared, threads, manager
<1>6. QED BY <1>2, <1>3, <1>4, <1>5 DEF Next, Outside

(* IInv holds of every state the connection manager can reach.             *)
THEOREM InvariantHolds == Spec => []IInv
<1>1. QED BY InitIInv, NextIInv, PTL DEF Spec

(* At most one thread repeats the creation job, for any number of threads: *)
(* the compare and exchange of m_triggerReExchange elects one.             *)
THEOREM OneThreadCreates == Spec => []OneCreator
<1>1. IInv => OneCreator
  BY DEF IInv
<1>2. QED BY InvariantHolds, <1>1, PTL

(* The state of the connection and m_connections agree, so the connect job *)
(* never throws for a connection that is not created.                      *)
THEOREM StateIsRight == Spec => []StateAgrees
<1>1. IInv => StateAgrees
  BY DEF IInv
<1>2. QED BY InvariantHolds, <1>1, PTL

(* A node whose connection is closed is known to the discovery manager.    *)
THEOREM ClosedNodesKnown == Spec => []KnownWhileConnected
<1>1. IInv => KnownWhileConnected
  BY DEF IInv
<1>2. QED BY InvariantHolds, <1>1, PTL

(* A connection counts as connected only with the flags of both sides set, *)
(* whatever exchange data arrived in whatever order.                       *)
THEOREM ConnectedByBoth == Spec => []ConnectedMeansExchanged
<1>1. IInv => ConnectedMeansExchanged
  BY DEF IInv
<1>2. QED BY InvariantHolds, <1>1, PTL

(* Until the first close m_available counts the handles given out whenever *)
(* it says that the connection is available: no early fetch, no reset and  *)
(* no thread that finds it available meanwhile makes it miscount.          *)
THEOREM HandlesCounted == Spec => []HandlesTrackedUntilClosed
<1>1. IInv => HandlesTrackedUntilClosed
  <2>1. SUFFICES ASSUME IInv, ~closed, available >= Available
                 PROVE  available = Cardinality(Holders)
    BY DEF HandlesTrackedUntilClosed, HandlesTracked
  <2>2. available \in Int
    BY <2>1, CountTypes DEF IInv, TypeOK
  <2>3. QED BY <2>1, <2>2 DEF IInv, CountedOrReset, Available
<1>2. QED BY InvariantHolds, <1>1, PTL

(* All variables stay in their types, for any number of threads.           *)
THEOREM TypesHold == Spec => []TypeOK
<1>1. IInv => TypeOK
  BY DEF IInv
<1>2. QED BY <1>1, InvariantHolds, PTL

=============================================================================
