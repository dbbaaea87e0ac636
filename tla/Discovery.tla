------------------------------ MODULE Discovery ------------------------------
(***************************************************************************)
(* The discovery of nodes (con/DiscoveryManager): the addresses whose node *)
(* ids are not known are asked for them in UDP packets, which may be lost, *)
(* repeated and reordered, until an answer arrives.  A process may end and *)
(* be started again with another node id.  Closing a connection            *)
(* (con/ConnectionManager) makes its node unknown again.                   *)
(*                                                                         *)
(* Jobs are dispatched one at a time by the job thread, each in one step;  *)
(* what the listener does is left out, and so is the order of the jobs and *)
(* that of the entries in m_infoToGet: those of an address are alike.      *)
(***************************************************************************)
EXTENDS Integers

CONSTANTS
  Addresses,   \* the addresses of the nodes
  Ids,         \* the node ids
  IdsOf,       \* the node ids that the processes at an address have
  Configured,  \* the addresses in the node configuration, but for the own
  MaxEntries,  \* bound: entries of each address
  MaxRestarts, \* bound: restarts of remote processes
  NULL         \* nullptr

(* A node id belongs to one address.                                       *)
ASSUME DiscoveryAssumption ==
  /\ IdsOf \in [Addresses -> SUBSET Ids]
  /\ \A a \in Addresses : IdsOf[a] # {}
  /\ \A a, b \in Addresses : a # b => IdsOf[a] \cap IdsOf[b] = {}
  /\ Configured \subseteq Addresses
  /\ MaxEntries \in [Addresses -> Nat]
  /\ MaxRestarts \in Nat
  /\ NULL \notin Addresses

VARIABLES
  infoToGet,  \* m_infoToGet: the number of entries of each address, or null
  nodeInfo,   \* m_nodeInfo: the address of a node id, or NULL
  connected,  \* ConnectionManager: the node ids with a connection
  requests,   \* the network: the addresses that are asked
  responses,  \* the network: answers
  jobs,       \* JobManager: the answers that arrived
  id,         \* the node id of the process at each address
  entries,    \* history: the entries that were made of each address
  restarts,   \* the restarts so far
  broken      \* a null pointer was dereferenced

vars == <<infoToGet, nodeInfo, connected, requests, responses, jobs, id, entries,
          restarts, broken>>

remote == <<id, restarts>>
net    == <<requests, responses, jobs>>

Responses == [addr : Addresses, id : Ids]
Listed(a) == IF a \in Configured THEN 1 ELSE 0

Init ==
  /\ infoToGet = [a \in Addresses \cup {NULL} |-> IF a = NULL THEN 0 ELSE Listed(a)]
  /\ nodeInfo = [i \in Ids |-> NULL]
  /\ connected = {}
  /\ requests = {}
  /\ responses = {}
  /\ jobs = {}
  /\ id \in {f \in [Addresses -> Ids] : \A a \in Addresses : f[a] \in IdsOf[a]}
  /\ entries = [a \in Addresses |-> Listed(a)]
  /\ restarts = 0
  /\ broken = FALSE

-----------------------------------------------------------------------------
(* Any thread adds a node.  The own one is not told apart, for the entry   *)
(* that is made of an address has no host name.                            *)

AddNode(a) ==
  /\ ~broken
  /\ entries[a] < MaxEntries[a]
  /\ infoToGet' = [infoToGet EXCEPT ![a] = @ + 1]
  /\ entries' = [entries EXCEPT ![a] = @ + 1]
  /\ UNCHANGED <<nodeInfo, connected, net, remote, broken>>

-----------------------------------------------------------------------------
(* The jobs.                                                               *)

Asked == {a \in Addresses : infoToGet[a] > 0}

(* The idle job, and the one that follows an invalidation.                 *)
ExecuteDiscovery ==
  /\ ~broken
  /\ IF infoToGet[NULL] > 0
     THEN broken' = TRUE /\ UNCHANGED requests
     ELSE requests' = requests \cup Asked /\ UNCHANGED broken
  /\ UNCHANGED <<infoToGet, nodeInfo, connected, responses, jobs, remote, entries>>

EntryLeft(list, a)  == list
EntryTaken(list, a) == [list EXCEPT ![a] = @ - 1]
Remove(list, a)     == EntryTaken(list, a)

(* An entry of the address is moved to the node id.  The addresses of the  *)
(* entries before it are read: none of them is null (NoNullEntry).         *)
Discovered(m) ==
  /\ ~broken
  /\ m \in jobs
  /\ jobs' = jobs \ {m}
  /\ infoToGet[m.addr] > 0
  /\ nodeInfo' = [nodeInfo EXCEPT ![m.id] = m.addr]
  /\ infoToGet' = Remove(infoToGet, m.addr)
  /\ UNCHANGED <<connected, requests, responses, remote, entries, broken>>

(* Nobody asks any more.                                                   *)
NotFound(m) ==
  /\ ~broken
  /\ m \in jobs
  /\ jobs' = jobs \ {m}
  /\ infoToGet[m.addr] = 0
  /\ UNCHANGED <<infoToGet, nodeInfo, connected, requests, responses, remote, entries,
                 broken>>

(* Create and connect jobs look the node up before they make a connection. *)
MayConnectAny(i)   == TRUE
MayConnectKnown(i) == nodeInfo[i] # NULL
MayConnect(i)      == MayConnectKnown(i)

Connect(i) ==
  /\ ~broken
  /\ MayConnect(i)
  /\ connected' = connected \cup {i}
  /\ UNCHANGED <<infoToGet, nodeInfo, net, remote, entries, broken>>

NotRelisted(list, entry) == list
Relisted(list, entry)    == [list EXCEPT ![entry] = @ + 1]
PushBack(list, entry)    == Relisted(list, entry)

(* A close job that finds its connection, and Invalidate.                  *)
CloseConnection(i) ==
  /\ ~broken
  /\ i \in connected
  /\ connected' = connected \ {i}
  /\ infoToGet' = PushBack(infoToGet, nodeInfo[i])
  /\ nodeInfo' = [nodeInfo EXCEPT ![i] = NULL]
  /\ UNCHANGED <<net, remote, entries, broken>>

-----------------------------------------------------------------------------
(* The network, of whose packets another copy may be on its way, and the   *)
(* threads of the ExchangeManagers on both sides.                          *)

(* The process at the address executes the same code.                      *)
SendResponse(a) ==
  /\ ~broken
  /\ a \in requests
  /\ requests' \in {requests \ {a}, requests}
  /\ responses' = responses \cup {[addr |-> a, id |-> id[a]]}
  /\ UNCHANGED <<infoToGet, nodeInfo, connected, jobs, remote, entries, broken>>

AddJobDiscovered(m) ==
  /\ ~broken
  /\ m \in responses
  /\ responses' \in {responses \ {m}, responses}
  /\ jobs' = jobs \cup {m}
  /\ UNCHANGED <<infoToGet, nodeInfo, connected, requests, remote, entries, broken>>

LoseRequest(a) ==
  /\ ~broken
  /\ a \in requests
  /\ requests' = requests \ {a}
  /\ UNCHANGED <<infoToGet, nodeInfo, connected, responses, jobs, remote, entries,
                 broken>>

LoseResponse(m) ==
  /\ ~broken
  /\ m \in responses
  /\ responses' = responses \ {m}
  /\ UNCHANGED <<infoToGet, nodeInfo, connected, requests, jobs, remote, entries, broken>>

(* With the same node id a new process is no other to the discovery.       *)
Restart(a) ==
  /\ ~broken
  /\ restarts < MaxRestarts
  /\ restarts' = restarts + 1
  /\ \E i \in IdsOf[a] \ {id[a]} : id' = [id EXCEPT ![a] = i]
  /\ UNCHANGED <<infoToGet, nodeInfo, connected, net, entries, broken>>

-----------------------------------------------------------------------------
DispatchJob ==
  \/ ExecuteDiscovery
  \/ \E m \in Responses : Discovered(m) \/ NotFound(m)
  \/ \E i \in Ids : Connect(i) \/ CloseConnection(i)

Next ==
  \/ DispatchJob
  \/ \E a \in Addresses : AddNode(a) \/ SendResponse(a) \/ LoseRequest(a) \/ Restart(a)
  \/ \E m \in Responses : AddJobDiscovered(m) \/ LoseResponse(m)

Spec == Init /\ [][Next]_vars

(* The job thread goes on, and with nothing else to do runs the discovery. *)
(* Of the packets to and from an address that are sent again and again     *)
(* some arrive.                                                            *)
Fairness ==
  /\ WF_vars(ExecuteDiscovery)
  /\ \A a \in Addresses :
       /\ SF_vars(SendResponse(a))
       /\ SF_vars(\E i \in Ids : AddJobDiscovered([addr |-> a, id |-> i]))
       /\ SF_vars(\E i \in Ids : Discovered([addr |-> a, id |-> i]))

FairSpec == Spec /\ Fairness

-----------------------------------------------------------------------------
(* Properties.                                                             *)

TypeOK ==
  /\ infoToGet \in [Addresses \cup {NULL} -> Nat]
  /\ nodeInfo \in [Ids -> Addresses \cup {NULL}]
  /\ connected \subseteq Ids
  /\ requests \subseteq Addresses
  /\ responses \subseteq Responses
  /\ jobs \subseteq Responses
  /\ id \in [Addresses -> Ids]
  /\ entries \in [Addresses -> Nat]
  /\ restarts \in Nat
  /\ broken \in BOOLEAN

Knows(a) == \E i \in Ids : nodeInfo[i] = a

(* An address that was configured or added is never forgotten: it is known *)
(* or still asked for, whatever answers are lost, repeated or late and     *)
(* whatever connections are closed.                                        *)
NeverForgotten ==
  \A a \in Addresses : entries[a] > 0 => infoToGet[a] > 0 \/ Knows(a)

(* An address that was added once has one entry, in the list or at one     *)
(* node id, even if it answered with several: the destructor deletes each  *)
(* entry once.                                                             *)
OneEntry ==
  \A a \in Addresses : entries[a] = 1 =>
    /\ infoToGet[a] = (IF Knows(a) THEN 0 ELSE 1)
    /\ \A i, j \in Ids : nodeInfo[i] = a /\ nodeInfo[j] = a => i = j

(* Invalidate is called for nodes that are known only: no null pointer     *)
(* gets into the list, where the next discovery would dereference it.      *)
NoNullEntry == infoToGet[NULL] = 0

(* Every address that was added is known again and again, although its     *)
(* process is restarted and connections to it are closed.                  *)
FoundEventually ==
  \A a \in Addresses : []<>(entries[a] = 0 \/ Knows(a) \/ broken)

(* The process at an address is known under its own node id again and      *)
(* again, if it keeps the id that it has.                                  *)
FoundAsItself ==
  \A a \in Addresses :
    <>[](entries[a] > 0) => []<>(nodeInfo[id[a]] = a \/ broken)

-----------------------------------------------------------------------------
(* What the theorems need besides.                                         *)

(* Everybody has ids of their own, and answers with them.                  *)
IdsAgree ==
  /\ \A a \in Addresses : id[a] \in IdsOf[a]
  /\ \A m \in responses \cup jobs : m.id \in IdsOf[m.addr]
  /\ \A i \in Ids : nodeInfo[i] # NULL => i \in IdsOf[nodeInfo[i]]

(* What has an entry was added; what has a connection is known.            *)
EntriesAgree ==
  /\ \A a \in Addresses : infoToGet[a] > 0 \/ Knows(a) => entries[a] > 0
  /\ \A i \in connected : nodeInfo[i] # NULL

(* The inductive invariant.                                                *)
IInv ==
  /\ TypeOK
  /\ NeverForgotten
  /\ OneEntry
  /\ NoNullEntry
  /\ IdsAgree
  /\ EntriesAgree

=============================================================================
