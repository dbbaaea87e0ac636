--------------------------- MODULE SendDispatcher ---------------------------
(***************************************************************************)
(* The send path (msgrc/SendDispatcher): one thread that asks the send     *)
(* handler for a work package, posts its work requests on the queue pair   *)
(* (QP) of the target, and polls the send completion queue (CQ) that all   *)
(* connections share.  It reports to the handler how much of the previous  *)
(* package was posted and what was completed since.                        *)
(*                                                                         *)
(* Around it, and concurrent with it: the host channel adapter (HCA), which *)
(* completes or flushes requests, and the job thread of the connection     *)
(* manager, which closes and opens connections.                            *)
(*                                                                         *)
(* Data is counted in work requests (SendChunks says how bytes are cut     *)
(* into these).  Exceptions that Dispatch does not catch end the process:  *)
(* nothing happens once "thrown" is set.                                   *)
(***************************************************************************)
EXTENDS Integers, Sequences, FiniteSets

CONSTANTS
  Nodes,      \* the remote nodes
  None,       \* con::NODE_ID_INVALID and nullptr
  SQSize,     \* m_refConnectionManager->GetIbSQSize()
  SCQSize,    \* m_refConnectionManager->GetIbSharedSCQSize()
  MaxWant,    \* bound: work requests of a package
  MaxFaults   \* bound: failures of the HCA and of its calls

ASSUME SendDispatcherAssumption ==
  /\ None \notin Nodes
  /\ SQSize \in Nat \ {0}
  /\ SCQSize \in Nat \ {0}
  /\ MaxWant \in Nat \ {0}
  /\ MaxFaults \in Nat

VARIABLES
  pc,           \* the part of Dispatch that is next
  thrown,       \* the exception that ended the process, or "none"
  package,      \* workPackage
  connection,   \* connection: the node it leads to, or None
  deleted,      \* whether the connection object was deleted meanwhile
  inCatch,      \* polling is done by the handler of the TimeoutException
  prev,         \* m_prevWorkPackageResults
  done,         \* m_completionList: completed work requests of each node
  sqPending,    \* m_sendQueuePending
  cqPending,    \* m_completionsPending
  ctxUsed,      \* SendWorkRequestCtxPool::m_nonReturnedBuffers
  firstWc,      \* m_firstWc
  ignoreFlush,  \* m_ignoreFlushErrOnPendingCompletions
  workComp,     \* m_workComp: polled completions not yet processed
  sq,           \* the number of requests in the send queue of each QP
  cq,           \* the completions of each node in the shared CQ
  qp,           \* the QP of each node: "none", "up" or "error"
  closing,      \* the nodes with a close job queued
  handles,      \* m_available of the connection: the handles given out
  unconfirmed,  \* what the handler takes for posted and not yet completed
  faults        \* the failures so far

dispatch == <<pc, thrown, package, connection, inCatch, prev, done, sqPending,
              cqPending, ctxUsed, firstWc, ignoreFlush, workComp, unconfirmed>>
outside  == <<deleted, sq, cq, qp, closing, handles, faults>>
vars     == <<dispatch, outside>>

-----------------------------------------------------------------------------
NoResults == [node |-> None, posted |-> 0, left |-> 0]
NoPackage == [node |-> None, want |-> 0]
Zero      == [n \in Nodes |-> 0]
Empty     == [n \in Nodes |-> <<>>]

Smaller(a, b) == IF a < b THEN a ELSE b

Init ==
  /\ pc = "next"
  /\ thrown = "none"
  /\ package = NoPackage
  /\ connection = None
  /\ deleted = FALSE
  /\ inCatch = FALSE
  /\ prev = NoResults
  /\ done = Zero
  /\ sqPending = Zero
  /\ cqPending = 0
  /\ ctxUsed = 0
  /\ firstWc = TRUE
  /\ ignoreFlush = 0
  /\ workComp = Empty
  /\ sq = Zero
  /\ cq = Empty
  /\ qp = [n \in Nodes |-> "none"]
  /\ closing = {}
  /\ handles = Zero
  /\ unconfirmed = Zero
  /\ faults = 0

At(label) == thrown = "none" /\ pc = label

(* The dispatcher ends with an exception, having changed what it changed.  *)
Throw(exception) ==
  /\ thrown' = exception
  /\ UNCHANGED <<pc, package, connection, inCatch, prev, done, sqPending,
                 cqPending, firstWc, ignoreFlush, workComp, unconfirmed>>

Fault == faults < MaxFaults /\ faults' = faults + 1

-----------------------------------------------------------------------------
(* Dispatch, up to GetConnection.                                          *)

ReportedOnce(list)  == Zero
ReportedAgain(list) == list

(* CompletedWorkList::Reset                                                *)
ResetList(list) == ReportedOnce(list)

(* The handler learns the results and gives the next package, or none.     *)
GetNextDataToSend ==
  /\ At("next")
  /\ unconfirmed' = [n \in Nodes |->
       unconfirmed[n] + (IF prev.node = n THEN prev.posted ELSE 0) - done[n]]
  /\ prev' = NoResults
  /\ done' = ResetList(done)
  /\ connection' = None
  /\ inCatch' = FALSE
  /\ \/ package' = NoPackage /\ pc' = "poll"
     \/ \E n \in Nodes, want \in 1..MaxWant :
          package' = [node |-> n, want |-> want] /\ pc' = "get"
  /\ UNCHANGED <<thrown, sqPending, cqPending, ctxUsed, firstWc, ignoreFlush,
                 workComp, outside>>

(* The connection is available, though a close job may already be queued.  *)
GetConnection ==
  /\ At("get")
  /\ qp[package.node] # "none"
  /\ handles' = [handles EXCEPT ![package.node] = @ + 1]
  /\ connection' = package.node
  /\ deleted' = FALSE
  /\ pc' = "send"
  /\ UNCHANGED <<thrown, package, inCatch, prev, done, sqPending, cqPending,
                 ctxUsed, firstWc, ignoreFlush, workComp, unconfirmed, sq, cq,
                 qp, closing, faults>>

(* TimeoutException: the connection did not become available.              *)
GetConnectionTimesOut ==
  /\ At("get")
  /\ qp[package.node] = "none"
  /\ inCatch' = TRUE
  /\ pc' = "poll"
  /\ UNCHANGED <<thrown, package, connection, prev, done, sqPending, cqPending,
                 ctxUsed, firstWc, ignoreFlush, workComp, unconfirmed, outside>>

-----------------------------------------------------------------------------
(* __SendData                                                              *)

PostedBlindly(n, want) == Smaller(want, SQSize)

(* The work requests that fit into the send queue.                         *)
Posted(n, want) == Smaller(want, SQSize - sqPending[n])

PendingPerPost(k) == 1

(* What a post of k requests adds to the pending ones.                     *)
PendingOfPost(k) == k

SendData ==
  /\ At("send")
  /\ LET n == package.node
         k == Posted(n, package.want)
     IN  IF deleted \/ ctxUsed + k > SCQSize
         THEN /\ Throw(IF deleted THEN "connection deleted" ELSE "pool ran dry")
              /\ UNCHANGED <<ctxUsed, outside>>
         ELSE /\ ctxUsed' = ctxUsed + k
              /\ prev' = [node |-> n, posted |-> k, left |-> package.want - k]
              /\ sqPending' = [sqPending EXCEPT ![n] = @ + PendingOfPost(k)]
              /\ cqPending' = cqPending + PendingOfPost(k)
              /\ sq' = [sq EXCEPT ![n] = @ + k]
              /\ pc' = "return"
              /\ UNCHANGED <<thrown, package, connection, deleted, inCatch, done,
                   firstWc, ignoreFlush, workComp, cq, qp, closing, handles,
                   unconfirmed, faults>>

(* ibv_post_send fails: the exceptions for it are not caught.              *)
PostFails ==
  /\ At("send")
  /\ ~deleted
  /\ Posted(package.node, package.want) > 0
  /\ Fault
  /\ ctxUsed' = ctxUsed + Posted(package.node, package.want)
  /\ Throw("post failed")
  /\ UNCHANGED <<deleted, sq, cq, qp, closing, handles>>

AfterReturn == "poll"
SendsOn     == "next"

(* Polling follows every package.                                          *)
PollNext == AfterReturn

ReturnConnection ==
  /\ At("return")
  /\ IF deleted
     THEN Throw("connection deleted") /\ UNCHANGED <<ctxUsed, outside>>
     ELSE /\ handles' = [handles EXCEPT ![connection] = @ - 1]
          /\ pc' = PollNext
          /\ UNCHANGED <<thrown, package, connection, deleted, inCatch, prev,
               done, sqPending, cqPending, ctxUsed, firstWc, ignoreFlush,
               workComp, unconfirmed, sq, cq, qp, closing, faults>>

-----------------------------------------------------------------------------
(* __PollCompletions                                                       *)

NothingToPoll ==
  /\ At("poll")
  /\ cqPending = 0
  /\ pc' = "next"
  /\ UNCHANGED <<thrown, package, connection, inCatch, prev, done, sqPending,
                 cqPending, ctxUsed, firstWc, ignoreFlush, workComp,
                 unconfirmed, outside>>

(* ibv_poll_cq returns all that is there.                                  *)
Poll ==
  /\ At("poll")
  /\ cqPending > 0
  /\ workComp' = cq
  /\ cq' = Empty
  /\ pc' = "process"
  /\ UNCHANGED <<thrown, package, connection, inCatch, prev, done, sqPending,
                 cqPending, ctxUsed, firstWc, ignoreFlush, unconfirmed,
                 deleted, sq, qp, closing, handles, faults>>

PollFails ==
  /\ At("poll")
  /\ cqPending > 0
  /\ Fault
  /\ Throw("poll failed")
  /\ UNCHANGED <<ctxUsed, deleted, sq, cq, qp, closing, handles>>

(* The next polled completion is one of node n.  Those of one QP are in    *)
(* order, those of different QPs in any order.                             *)
Polled(n, status) ==
  /\ At("process")
  /\ workComp[n] # <<>>
  /\ Head(workComp[n]) = status

KeptCtx     == 0
ReturnedCtx == 1
Pushed      == ReturnedCtx

(* The send queue of the node has room for one more.                       *)
Settled(n) == [sqPending EXCEPT ![n] = @ - 1]

(* The end of the loop body, for a success and for an ignored error.       *)
Completed(n) ==
  /\ sqPending' = Settled(n)
  /\ cqPending' = cqPending - 1
  /\ ctxUsed' = ctxUsed - Pushed
  /\ ignoreFlush' = IF ignoreFlush > 0 THEN ignoreFlush - 1 ELSE 0
  /\ workComp' = [workComp EXCEPT ![n] = Tail(@)]

Success(n) ==
  /\ Polled(n, "ok")
  /\ firstWc' = FALSE
  /\ done' = [done EXCEPT ![n] = @ + 1]
  /\ Completed(n)
  /\ UNCHANGED <<pc, thrown, package, connection, inCatch, prev, unconfirmed,
                 outside>>

IgnoredFlush(n) ==
  /\ Polled(n, "flush")
  /\ ignoreFlush # 0
  /\ Completed(n)
  /\ UNCHANGED <<pc, thrown, package, connection, inCatch, prev, done, firstWc,
                 unconfirmed, outside>>

FatalFlush(n) ==
  /\ Polled(n, "flush")
  /\ ignoreFlush = 0
  /\ Throw("completion failed")
  /\ UNCHANGED <<ctxUsed, outside>>

FirstCompletionFails(n) ==
  /\ Polled(n, "retry")
  /\ firstWc
  /\ Throw("first completion failed")
  /\ UNCHANGED <<ctxUsed, outside>>

(* DisconnectedException: thrown out of the loop over the completions and  *)
(* caught by Dispatch, unless a handler of Dispatch called.                *)
Disconnected(n) ==
  /\ Polled(n, "retry")
  /\ ~firstWc
  /\ ctxUsed' = ctxUsed - 1
  /\ IF inCatch \/ (connection # None /\ deleted)
     THEN /\ Throw(IF inCatch THEN "disconnected while handling a timeout"
                              ELSE "connection deleted")
          /\ UNCHANGED outside
     ELSE
        /\ handles' = IF connection = None THEN handles
                      ELSE [handles EXCEPT ![connection] = @ - 1]
        /\ closing' = closing \cup {n}
        /\ prev' = NoResults
        /\ ignoreFlush' = ignoreFlush + cqPending
        /\ workComp' = Empty
        /\ pc' = "next"
        /\ UNCHANGED <<thrown, package, connection, inCatch, done, sqPending,
                       cqPending, firstWc, unconfirmed, deleted, sq, cq, qp,
                       faults>>

PollDone ==
  /\ At("process")
  /\ workComp = Empty
  /\ pc' = "next"
  /\ UNCHANGED <<thrown, package, connection, inCatch, prev, done, sqPending,
                 cqPending, ctxUsed, firstWc, ignoreFlush, workComp,
                 unconfirmed, outside>>

-----------------------------------------------------------------------------
(* The HCA.                                                                *)

Complete(n) ==
  /\ thrown = "none"
  /\ qp[n] = "up" /\ sq[n] > 0
  /\ sq' = [sq EXCEPT ![n] = @ - 1]
  /\ cq' = [cq EXCEPT ![n] = Append(@, "ok")]
  /\ UNCHANGED <<dispatch, deleted, qp, closing, handles, faults>>

(* The remote does not answer: the QP goes to the error state.             *)
RetryExceeded(n) ==
  /\ thrown = "none"
  /\ qp[n] = "up" /\ sq[n] > 0
  /\ Fault
  /\ qp' = [qp EXCEPT ![n] = "error"]
  /\ sq' = [sq EXCEPT ![n] = @ - 1]
  /\ cq' = [cq EXCEPT ![n] = Append(@, "retry")]
  /\ UNCHANGED <<dispatch, deleted, closing, handles>>

Flush(n) ==
  /\ thrown = "none"
  /\ qp[n] = "error" /\ sq[n] > 0
  /\ sq' = [sq EXCEPT ![n] = @ - 1]
  /\ cq' = [cq EXCEPT ![n] = Append(@, "flush")]
  /\ UNCHANGED <<dispatch, deleted, qp, closing, handles, faults>>

(* The connection manager: a connection is completed with the remote.      *)
Connect(n) ==
  /\ thrown = "none"
  /\ qp[n] = "none"
  /\ qp' = [qp EXCEPT ![n] = "up"]
  /\ handles' = [handles EXCEPT ![n] = 0]
  /\ UNCHANGED <<dispatch, deleted, sq, cq, closing, faults>>

(* The close job deletes the connection whether or not it is in use, and   *)
(* destroys the QP: what is not yet in the CQ never gets there, and what   *)
(* is in it may be removed.                                                *)
Close(n) ==
  /\ thrown = "none"
  /\ n \in closing
  /\ closing' = closing \ {n}
  /\ qp' = [qp EXCEPT ![n] = "none"]
  /\ sq' = [sq EXCEPT ![n] = 0]
  /\ cq' \in {cq, [cq EXCEPT ![n] = <<>>]}
  /\ deleted' = (deleted \/ connection = n)
  /\ UNCHANGED <<dispatch, handles, faults>>

-----------------------------------------------------------------------------
Send == SendData \/ PostFails \/ ReturnConnection

PollCompletions ==
  \/ NothingToPoll \/ Poll \/ PollFails \/ PollDone
  \/ \E n \in Nodes : \/ Success(n) \/ IgnoredFlush(n) \/ FatalFlush(n)
                      \/ FirstCompletionFails(n) \/ Disconnected(n)

Dispatch ==
  GetNextDataToSend \/ GetConnection \/ GetConnectionTimesOut \/ Send
    \/ PollCompletions

HCA == \E n \in Nodes : Complete(n) \/ RetryExceeded(n) \/ Flush(n)

Connections == \E n \in Nodes : Connect(n) \/ Close(n)

Next == Dispatch \/ HCA \/ Connections

Spec == Init /\ [][Next]_vars

(* The execution engine calls Dispatch again and again, and the HCA        *)
(* completes what it was given.                                            *)
FairSpec ==
  /\ Spec
  /\ WF_vars(Dispatch)
  /\ \A n \in Nodes : WF_vars(Complete(n) \/ Flush(n))

-----------------------------------------------------------------------------
(* Properties.                                                             *)

Statuses == {"ok", "retry", "flush"}

Exceptions ==
  {"connection deleted", "pool ran dry", "post failed", "poll failed",
   "completion failed", "first completion failed",
   "disconnected while handling a timeout"}

TypeOK ==
  /\ pc \in {"next", "get", "send", "return", "poll", "process"}
  /\ thrown \in Exceptions \cup {"none"}
  /\ package \in [node : Nodes, want : 1..MaxWant] \cup {NoPackage}
  /\ connection \in Nodes \cup {None}
  /\ deleted \in BOOLEAN /\ inCatch \in BOOLEAN /\ firstWc \in BOOLEAN
  /\ prev \in [node : Nodes \cup {None}, posted : 0..SQSize, left : 0..MaxWant]
  /\ done \in [Nodes -> Nat]
  /\ sqPending \in [Nodes -> 0..SQSize]
  /\ cqPending \in Int /\ ctxUsed \in Int /\ ignoreFlush \in Int
  /\ workComp \in [Nodes -> Seq(Statuses)]
  /\ sq \in [Nodes -> Nat]
  /\ cq \in [Nodes -> Seq(Statuses)]
  /\ qp \in [Nodes -> {"none", "up", "error"}]
  /\ closing \subseteq Nodes
  /\ handles \in [Nodes -> Int]
  /\ unconfirmed \in [Nodes -> Int]
  /\ faults \in 0..MaxFaults

(* The requests of node n whose completion is still to be processed.       *)
InFlight(n) == sq[n] + Len(cq[n]) + Len(workComp[n])

(* m_sendQueuePending never counts less than is in flight, whatever fails: *)
(* the send queue of a QP is never overrun.                                *)
PendingCovers == \A n \in Nodes : InFlight(n) <= sqPending[n]

(* Until something fails it counts exactly what is in flight.              *)
PendingExact == faults = 0 => \A n \in Nodes : InFlight(n) = sqPending[n]

(* The sum of f over all nodes: n has f[n] requests, counted from 1.       *)
Requests(f) == UNION {{n} \X (1..f[n]) : n \in Nodes}
Total(f)    == Cardinality(Requests(f))

AllPending  == Total(sqPending)
AllInFlight == Total([n \in Nodes |-> InFlight(n)])

(* m_completionsPending adds up the send queues, and no work request       *)
(* context is in use that is not pending: neither counter, both unsigned,  *)
(* wraps around. Until something fails every context in use belongs to a   *)
(* pending request, and nothing ends the process.                          *)
Totals ==
  /\ cqPending = AllPending
  /\ ctxUsed >= 0
  /\ thrown # "post failed" => ctxUsed <= AllPending
  /\ faults = 0 => ctxUsed = AllPending /\ thrown = "none"

(* "this should never happen": the pool of work request contexts never     *)
(* runs dry, and the CQ never overflows, if it has room for all the send   *)
(* queues.                                                                 *)
ResourcesSuffice ==
  /\ thrown # "pool ran dry"
  /\ AllInFlight <= SCQSize

(* Until something fails the handler's view is right between any two       *)
(* steps: what it takes for posted, and what it is about to be told, is    *)
(* exactly what is pending.                                                *)
Unreported(n) == (IF prev.node = n THEN prev.posted ELSE 0) - done[n]
HandlerKnows ==
  faults = 0 => \A n \in Nodes : unconfirmed[n] + Unreported(n) = sqPending[n]

(* "if disconnect is detected during polling, connection is null": every   *)
(* handle is returned once.                                                *)
HandlesBalanced == \A n \in Nodes : handles[n] >= 0

(* "Continue decrementing until all failed completions are processed":     *)
(* between two calls of Dispatch only what is in flight is pending.        *)
AllDecremented ==
  pc = "next" => \A n \in Nodes : qp[n] = "up" => InFlight(n) = sqPending[n]

(* "how much data was processed": the handler is told of every request     *)
(* that was posted, before it is told of its completion.                   *)
PostedReported == \A n \in Nodes : unconfirmed[n] >= 0

(* "some node disconnected/failed and we have to ignore any errors": the   *)
(* requests flushed by a disconnect do not end the process.                *)
FlushIgnored == thrown # "completion failed"

(* "timeout on initial connection creation try polling work completions    *)
(* and return": the timeout of one node does not end the process.          *)
TimeoutHandled == thrown # "disconnected while handling a timeout"

(* A full send queue has room again, unless something fails: its requests  *)
(* complete and are polled.                                                *)
QueueDrains ==
  \A n \in Nodes : sqPending[n] = SQSize ~> (sqPending[n] < SQSize \/ faults > 0)

-----------------------------------------------------------------------------
(* What the theorems need to know of the control flow.                     *)
Control ==
  /\ pc \in {"get", "send", "return"} => package.node \in Nodes
  /\ pc \in {"send", "return"} => connection \in Nodes

IInv == TypeOK /\ PendingCovers /\ Control

(* Every context in use is of a pending request, and what is in flight has *)
(* its context, whatever completions a disconnect throws away.             *)
ContextsBetween ==
  /\ cqPending = AllPending
  /\ ctxUsed >= 0
  /\ thrown # "post failed" => ctxUsed <= AllPending
  /\ thrown = "none" => AllInFlight <= ctxUsed

=============================================================================
