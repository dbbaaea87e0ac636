--------------------------- MODULE DiscoveryProofs ---------------------------
(***************************************************************************)
(* Theorems about the discovery, for any number of addresses, node ids,    *)
(* entries and restarts.                                                   *)
(***************************************************************************)
EXTENDS Discovery, TLAPS

(* Nothing is known or connected at first, and what is configured has its  *)
(* entry.                                                                  *)
LEMMA InitHolds == Init => IInv
<1> SUFFICES ASSUME Init
             PROVE  IInv
  OBVIOUS
<1> USE DiscoveryAssumption DEF Init
<1>1. \A a \in Addresses : Listed(a) \in {0, 1}
  BY DEF Listed
<1>2. \A a \in Addresses : entries[a] = Listed(a) /\ infoToGet[a] = Listed(a)
  OBVIOUS
<1>3. \A a \in Addresses : ~Knows(a)
  BY DEF Knows
<1>4. TypeOK
  <2>1. infoToGet \in [Addresses \cup {NULL} -> Nat] /\ entries \in [Addresses -> Nat]
    BY <1>1
  <2>2. id \in [Addresses -> Ids] /\ nodeInfo \in [Ids -> Addresses \cup {NULL}]
    OBVIOUS
  <2> QED
    BY <2>1, <2>2 DEF TypeOK
<1>5. NeverForgotten /\ NoNullEntry
  BY <1>2 DEF NeverForgotten, NoNullEntry
<1>6. OneEntry
  BY <1>1, <1>2, <1>3 DEF OneEntry, Knows
<1>7. IdsAgree /\ EntriesAgree
  BY <1>2, <1>3 DEF IdsAgree, EntriesAgree
<1> QED
  BY <1>4, <1>5, <1>6, <1>7 DEF IInv

(* One more entry of an address: there may be two now.                     *)
LEMMA AddNodeKeeps ==
  ASSUME IInv, NEW a \in Addresses, AddNode(a)
  PROVE  IInv'
<1> USE DiscoveryAssumption DEF AddNode, net, remote
<1>1. TypeOK'
  BY DEF IInv, TypeOK
<1>2. /\ infoToGet[NULL]' = infoToGet[NULL]
      /\ infoToGet'[a] = infoToGet[a] + 1 /\ entries'[a] = entries[a] + 1
      /\ \A b \in Addresses \ {a} : infoToGet'[b] = infoToGet[b] /\ entries'[b] = entries[b]
  BY DEF IInv, TypeOK
<1>3. infoToGet[a] \in Nat /\ entries[a] \in Nat
  BY DEF IInv, TypeOK
<1>4. \A b \in Addresses : Knows(b)' <=> Knows(b)
  BY DEF Knows
<1>5. NeverForgotten'
  BY <1>2, <1>3, <1>4 DEF IInv, NeverForgotten
<1>6. OneEntry'
  <2> SUFFICES ASSUME NEW b \in Addresses, entries'[b] = 1
               PROVE  /\ infoToGet'[b] = (IF Knows(b)' THEN 0 ELSE 1)
                      /\ \A i, j \in Ids : nodeInfo[i] = b /\ nodeInfo[j] = b => i = j
    BY DEF OneEntry
  <2>1. CASE b # a
    BY <1>2, <1>4, <2>1 DEF IInv, OneEntry
  <2>2. CASE b = a
    <3>1. entries[a] = 0
      BY <1>2, <1>3, <2>2
    <3>2. infoToGet[a] = 0 /\ ~Knows(a)
      BY <1>3, <3>1 DEF IInv, EntriesAgree
    <3> QED
      BY <1>2, <1>4, <2>2, <3>2 DEF Knows
  <2> QED
    BY <2>1, <2>2
<1>7. NoNullEntry' /\ IdsAgree'
  BY <1>2 DEF IInv, NoNullEntry, IdsAgree
<1>8. EntriesAgree'
  BY <1>2, <1>3, <1>4 DEF IInv, EntriesAgree
<1> QED
  BY <1>1, <1>5, <1>6, <1>7, <1>8 DEF IInv

(* The network and the processes at the addresses change neither the list  *)
(* nor what is known.                                                      *)
LEMMA RemoteKeeps ==
  ASSUME IInv,
         UNCHANGED <<infoToGet, nodeInfo, connected, entries>>,
         TypeOK',
         IdsAgree'
  PROVE  IInv'
BY DEF IInv, NeverForgotten, OneEntry, NoNullEntry, EntriesAgree, Knows

(* No null pointer is in the list: the discovery asks all addresses.       *)
LEMMA ExecuteDiscoveryKeeps ==
  ASSUME IInv, ExecuteDiscovery
  PROVE  IInv'
<1>1. UNCHANGED <<infoToGet, nodeInfo, connected, entries>>
  BY DEF ExecuteDiscovery
<1>2. TypeOK'
  BY DEF IInv, TypeOK, ExecuteDiscovery, remote, Asked
<1>3. IdsAgree'
  BY DEF IInv, IdsAgree, ExecuteDiscovery, remote
<1> QED
  BY <1>1, <1>2, <1>3, RemoteKeeps

LEMMA NotFoundKeeps ==
  ASSUME IInv, NEW m \in Responses, NotFound(m)
  PROVE  IInv'
<1>1. UNCHANGED <<infoToGet, nodeInfo, connected, entries>>
  BY DEF NotFound
<1>2. TypeOK'
  BY DEF IInv, TypeOK, NotFound, remote
<1>3. IdsAgree'
  BY DEF IInv, IdsAgree, NotFound, remote
<1> QED
  BY <1>1, <1>2, <1>3, RemoteKeeps

LEMMA NetworkKeeps ==
  ASSUME IInv,
         \/ \E a \in Addresses : SendResponse(a) \/ LoseRequest(a) \/ Restart(a)
         \/ \E m \in Responses : AddJobDiscovered(m) \/ LoseResponse(m)
  PROVE  IInv'
<1> USE DEF net, remote
<1>1. UNCHANGED <<infoToGet, nodeInfo, connected, entries>>
  BY DEF SendResponse, LoseRequest, Restart, AddJobDiscovered, LoseResponse
<1>2. ASSUME NEW a \in Addresses, SendResponse(a)
      PROVE  TypeOK' /\ IdsAgree'
  <2>1. [addr |-> a, id |-> id[a]] \in Responses /\ id[a] \in IdsOf[a]
    BY DEF IInv, TypeOK, IdsAgree, Responses
  <2>2. TypeOK'
    BY <1>2, <2>1 DEF IInv, TypeOK, SendResponse
  <2>3. IdsAgree'
    BY <1>2, <2>1 DEF IInv, IdsAgree, SendResponse
  <2> QED
    BY <2>2, <2>3
<1>3. ASSUME NEW a \in Addresses, LoseRequest(a)
      PROVE  TypeOK' /\ IdsAgree'
  BY <1>3 DEF IInv, TypeOK, IdsAgree, LoseRequest
<1>4. ASSUME NEW a \in Addresses, Restart(a)
      PROVE  TypeOK' /\ IdsAgree'
  <2>1. PICK i \in IdsOf[a] : id' = [id EXCEPT ![a] = i]
    BY <1>4 DEF Restart
  <2>2. i \in Ids
    BY <2>1, DiscoveryAssumption
  <2>3. TypeOK'
    BY <1>4, <2>1, <2>2 DEF IInv, TypeOK, Restart
  <2>4. IdsAgree'
    BY <1>4, <2>1, <2>2 DEF IInv, TypeOK, IdsAgree, Restart
  <2> QED
    BY <2>3, <2>4
<1>5. ASSUME NEW m \in Responses, AddJobDiscovered(m)
      PROVE  TypeOK' /\ IdsAgree'
  BY <1>5 DEF IInv, TypeOK, IdsAgree, AddJobDiscovered
<1>6. ASSUME NEW m \in Responses, LoseResponse(m)
      PROVE  TypeOK' /\ IdsAgree'
  BY <1>6 DEF IInv, TypeOK, IdsAgree, LoseResponse
<1>7. TypeOK' /\ IdsAgree'
  BY <1>2, <1>3, <1>4, <1>5, <1>6
<1> QED
  BY <1>1, <1>7, RemoteKeeps

(* An entry moves from the list to a node id, where no other address has   *)
(* its entry.                                                              *)
LEMMA DiscoveredKeeps ==
  ASSUME IInv, NEW m \in Responses, Discovered(m)
  PROVE  IInv'
<1> USE DiscoveryAssumption DEF remote
<1> DEFINE a == m.addr
           i == m.id
<1>1. a \in Addresses /\ i \in Ids /\ i \in IdsOf[a] /\ NULL \notin Addresses
  BY DEF Responses, IInv, IdsAgree, Discovered
<1>2. /\ infoToGet[a] \in Nat /\ infoToGet[a] > 0
      /\ infoToGet' = [infoToGet EXCEPT ![a] = @ - 1]
      /\ nodeInfo' = [nodeInfo EXCEPT ![i] = a]
      /\ jobs' = jobs \ {m}
      /\ UNCHANGED <<connected, requests, responses, id, restarts, entries, broken>>
  BY <1>1 DEF Discovered, IInv, TypeOK, Remove, EntryTaken
<1> HIDE DEF a, i
<1>3. TypeOK'
  BY <1>1, <1>2 DEF IInv, TypeOK
<1>4. /\ infoToGet'[a] = infoToGet[a] - 1
      /\ \A b \in (Addresses \cup {NULL}) \ {a} : infoToGet'[b] = infoToGet[b]
      /\ nodeInfo'[i] = a
      /\ \A j \in Ids \ {i} : nodeInfo'[j] = nodeInfo[j]
  BY <1>1, <1>2 DEF IInv, TypeOK
<1>5. nodeInfo[i] \in {a, NULL}
  BY <1>1 DEF IInv, TypeOK, IdsAgree
<1>6. Knows(a)' /\ \A b \in Addresses \ {a} : Knows(b)' <=> Knows(b)
  BY <1>1, <1>4, <1>5 DEF Knows
<1>7. NeverForgotten'
  BY <1>1, <1>2, <1>4, <1>6 DEF IInv, NeverForgotten
<1>8. OneEntry'
  <2> SUFFICES ASSUME NEW b \in Addresses, entries[b] = 1
               PROVE  /\ infoToGet'[b] = (IF Knows(b)' THEN 0 ELSE 1)
                      /\ \A j, k \in Ids : nodeInfo'[j] = b /\ nodeInfo'[k] = b => j = k
    BY <1>2 DEF OneEntry
  <2>1. CASE b # a
    BY <1>1, <1>4, <1>5, <1>6, <2>1 DEF IInv, OneEntry
  <2>2. CASE b = a
    <3>1. ~Knows(a) /\ infoToGet[a] = 1
      BY <1>1, <1>2, <2>2 DEF IInv, OneEntry
    <3>2. \A j \in Ids : nodeInfo[j] # a
      BY <3>1 DEF Knows
    <3>3. infoToGet'[a] = 0
      BY <1>4, <3>1
    <3>4. \A j \in Ids : nodeInfo'[j] = a => j = i
      BY <1>4, <3>2
    <3> QED
      BY <1>6, <2>2, <3>3, <3>4
  <2> QED
    BY <2>1, <2>2
<1>9. NoNullEntry'
  BY <1>1, <1>4 DEF IInv, NoNullEntry
<1>10. IdsAgree'
  BY <1>1, <1>2, <1>4 DEF IInv, TypeOK, IdsAgree
<1>11. EntriesAgree'
  <2>1. \A b \in Addresses : infoToGet'[b] > 0 \/ Knows(b)' => entries[b] > 0
    BY <1>1, <1>2, <1>4, <1>6 DEF IInv, EntriesAgree
  <2>2. \A j \in connected : nodeInfo'[j] # NULL
    BY <1>1, <1>4 DEF IInv, TypeOK, EntriesAgree
  <2> QED
    BY <1>2, <2>1, <2>2 DEF EntriesAgree
<1> QED
  BY <1>3, <1>7, <1>8, <1>9, <1>10, <1>11 DEF IInv

(* Only what is known is connected.                                        *)
LEMMA ConnectKeeps ==
  ASSUME IInv, NEW i \in Ids, Connect(i)
  PROVE  IInv'
<1> USE DEF Connect, MayConnect, MayConnectKnown, net, remote
<1>1. TypeOK'
  BY DEF IInv, TypeOK
<1>2. NeverForgotten' /\ OneEntry' /\ NoNullEntry'
  BY DEF IInv, NeverForgotten, OneEntry, NoNullEntry, Knows
<1>3. IdsAgree'
  BY DEF IInv, IdsAgree
<1>4. EntriesAgree'
  BY DEF IInv, EntriesAgree, Knows
<1> QED
  BY <1>1, <1>2, <1>3, <1>4 DEF IInv

(* The entry of a connected node is there, and returns to the list.        *)
LEMMA CloseConnectionKeeps ==
  ASSUME IInv, NEW i \in Ids, CloseConnection(i)
  PROVE  IInv'
<1> USE DiscoveryAssumption DEF net, remote
<1>1. PICK a \in Addresses : nodeInfo[i] = a
  BY DEF CloseConnection, IInv, TypeOK, EntriesAgree
<1>2. NULL \notin Addresses
  OBVIOUS
<1>3. /\ infoToGet[a] \in Nat
      /\ infoToGet' = [infoToGet EXCEPT ![a] = @ + 1]
      /\ nodeInfo' = [nodeInfo EXCEPT ![i] = NULL]
      /\ connected' = connected \ {i}
      /\ UNCHANGED <<requests, responses, jobs, id, restarts, entries, broken>>
  BY <1>1 DEF CloseConnection, IInv, TypeOK, PushBack, Relisted
<1>4. TypeOK'
  BY <1>2, <1>3 DEF IInv, TypeOK
<1>5. /\ infoToGet'[a] = infoToGet[a] + 1
      /\ \A b \in (Addresses \cup {NULL}) \ {a} : infoToGet'[b] = infoToGet[b]
      /\ nodeInfo'[i] = NULL
      /\ \A j \in Ids \ {i} : nodeInfo'[j] = nodeInfo[j]
  BY <1>2, <1>3 DEF IInv, TypeOK
<1>6. Knows(a) /\ \A b \in Addresses \ {a} : Knows(b)' <=> Knows(b)
  BY <1>2, <1>1, <1>5 DEF Knows
<1>7. NeverForgotten'
  BY <1>2, <1>3, <1>5, <1>6 DEF IInv, NeverForgotten
<1>8. OneEntry'
  <2> SUFFICES ASSUME NEW b \in Addresses, entries[b] = 1
               PROVE  /\ infoToGet'[b] = (IF Knows(b)' THEN 0 ELSE 1)
                      /\ \A j, k \in Ids : nodeInfo'[j] = b /\ nodeInfo'[k] = b => j = k
    BY <1>3 DEF OneEntry
  <2>1. CASE b # a
    BY <1>2, <1>5, <1>6, <2>1 DEF IInv, OneEntry
  <2>2. CASE b = a
    <3>1. infoToGet[a] = 0 /\ \A j \in Ids : nodeInfo[j] = a => j = i
      BY <1>2, <1>1, <1>6, <2>2 DEF IInv, OneEntry
    <3>2. \A j \in Ids : nodeInfo'[j] # a
      BY <1>2, <1>5, <3>1
    <3>3. ~Knows(a)'
      BY <3>2 DEF Knows
    <3> QED
      BY <1>5, <2>2, <3>1, <3>2, <3>3
  <2> QED
    BY <2>1, <2>2
<1>9. NoNullEntry'
  BY <1>2, <1>5 DEF IInv, NoNullEntry
<1>10. IdsAgree'
  BY <1>2, <1>3, <1>5 DEF IInv, TypeOK, IdsAgree
<1>11. EntriesAgree'
  <2>1. entries[a] > 0
    BY <1>2, <1>6 DEF IInv, EntriesAgree
  <2>2. \A b \in Addresses : infoToGet'[b] > 0 \/ Knows(b)' => entries[b] > 0
    BY <1>2, <1>5, <1>6, <2>1 DEF IInv, EntriesAgree
  <2>3. \A j \in connected \ {i} : nodeInfo'[j] # NULL
    BY <1>5 DEF IInv, TypeOK, EntriesAgree
  <2> QED
    BY <1>3, <2>2, <2>3 DEF EntriesAgree
<1> QED
  BY <1>4, <1>7, <1>8, <1>9, <1>10, <1>11 DEF IInv

LEMMA StepKeeps == IInv /\ [Next]_vars => IInv'
<1> SUFFICES ASSUME IInv, [Next]_vars
             PROVE  IInv'
  OBVIOUS
<1>1. CASE ExecuteDiscovery
  BY <1>1, ExecuteDiscoveryKeeps
<1>2. ASSUME NEW m \in Responses, Discovered(m) \/ NotFound(m)
      PROVE  IInv'
  BY <1>2, DiscoveredKeeps, NotFoundKeeps
<1>3. ASSUME NEW i \in Ids, Connect(i) \/ CloseConnection(i)
      PROVE  IInv'
  BY <1>3, ConnectKeeps, CloseConnectionKeeps
<1>4. ASSUME NEW a \in Addresses, AddNode(a)
      PROVE  IInv'
  BY <1>4, AddNodeKeeps
<1>5. ASSUME \/ \E a \in Addresses : SendResponse(a) \/ LoseRequest(a) \/ Restart(a)
             \/ \E m \in Responses : AddJobDiscovered(m) \/ LoseResponse(m)
      PROVE  IInv'
  BY <1>5, NetworkKeeps
<1>6. CASE UNCHANGED vars
  BY <1>6 DEF vars, IInv, TypeOK, NeverForgotten, OneEntry, NoNullEntry, IdsAgree,
              EntriesAgree, Knows
<1> QED
  BY <1>1, <1>2, <1>3, <1>4, <1>5, <1>6 DEF Next, DispatchJob

(* The inductive invariant of the discovery holds.                         *)
THEOREM InvariantHolds == Spec => []IInv
BY InitHolds, StepKeeps, PTL DEF Spec

(* Every variable keeps its type; the list has no negative number of       *)
(* entries of an address.                                                  *)
THEOREM TypesHold == Spec => []TypeOK
<1>1. IInv => TypeOK
  BY DEF IInv
<1> QED
  BY <1>1, InvariantHolds, PTL

(* No address is forgotten, whatever packets are lost, repeated or late,   *)
(* whatever connections are closed and however often nodes change their id.*)
THEOREM NeverForgottenHolds == Spec => []NeverForgotten
<1>1. IInv => NeverForgotten
  BY DEF IInv
<1> QED
  BY <1>1, InvariantHolds, PTL

(* An entry is in one place: nothing is leaked or deleted twice.           *)
THEOREM OneEntryHolds == Spec => []OneEntry
<1>1. IInv => OneEntry
  BY DEF IInv
<1> QED
  BY <1>1, InvariantHolds, PTL

(* Invalidate never puts a null pointer into the list.                     *)
THEOREM NoNullEntryHolds == Spec => []NoNullEntry
<1>1. IInv => NoNullEntry
  BY DEF IInv
<1> QED
  BY <1>1, InvariantHolds, PTL

=============================================================================
