--------------------------- MODULE RecvDispatcher ---------------------------
(***************************************************************************)
(* The receive path (msgrc/RecvDispatcher): one thread that polls the      *)
(* shared completion queue, refills the shared receive queue (SRQ) with    *)
(* work requests and buffers, turns completions into entries of the        *)
(* incoming ring buffer (IRB) and hands these to the receive handler.      *)
(*                                                                         *)
(* Around it, and concurrent with it: the host channel adapter (HCA), which *)
(* completes the posted work requests in order, and the application, which *)
(* returns the buffers it was given in any order.                          *)
(*                                                                         *)
(* The buffer pool is used through what it promises (module BufferPool):   *)
(* a queue of buffers; the work request pool through the number of free    *)
(* requests, for only the dispatcher uses it.  An exception is caught by   *)
(* nobody and ends the process: nothing happens once "thrown" is set.      *)
(***************************************************************************)
EXTENDS Integers, Sequences, SequencesExt

CONSTANTS
  Nodes,       \* the remote nodes
  SRQSize,     \* m_refConnectionManager->GetIbSRQSize()
  MaxSGEs,     \* m_refConnectionManager->GetMaxSGEs()
  PoolSize,    \* the number of receive buffers
  BufferSize,  \* m_refRecvBufferPool->GetBufferSize(), in units of data
  MaxFC,       \* the largest flow control value of a message, below 256
  NULL         \* nullptr, the buffer of an entry without data

ASSUME RecvDispatcherAssumption ==
  /\ SRQSize \in Nat \ {0}
  /\ MaxSGEs \in Nat \ {0}
  /\ PoolSize \in Nat \ {0}
  /\ BufferSize \in Nat \ {0}
  /\ MaxFC \in 0..255
  /\ NULL \notin Nat

VARIABLES
  avail,    \* RecvBufferPool: the available buffers, in order
  app,      \* the buffers the application holds
  freeWRs,  \* RecvWorkRequestPool: the number of free work requests
  posted,   \* the SRQ: the buffers of each posted work request
  cq,       \* the shared receive completion queue
  comps,    \* m_workComps: the polled completions not yet processed
  pending,  \* m_recvQueuePending
  irb,      \* m_ringBuffer, from front to back
  firstWc,  \* m_firstWc
  pc,       \* the part of Dispatch that is next
  thrown    \* the exception that ended the process, or "none"

vars == <<avail, app, freeWRs, posted, cq, comps, pending, irb, firstWc, pc,
          thrown>>

-----------------------------------------------------------------------------
Buffers    == 0..PoolSize - 1
IRBSize    == SRQSize * MaxSGEs
WRPoolSize == SRQSize * 2

Smaller(a, b) == IF a < b THEN a ELSE b

(* The buffers of a work request: always a full SGE list.                  *)
Lists == [1..MaxSGEs -> Buffers]

Completions ==
  [status : {"success", "retry_exc", "other"}, src : Nodes, len : Nat,
   fc : 0..MaxFC, bufs : Lists]

Entries ==
  [src : Nodes, fc : 0..MaxFC, len : Nat, buf : Buffers \cup {NULL}]

Init ==
  /\ avail = [i \in 1..PoolSize |-> i - 1]
  /\ app = {}
  /\ freeWRs = WRPoolSize
  /\ posted = <<>>
  /\ cq = <<>>
  /\ comps = <<>>
  /\ pending = 0
  /\ irb = <<>>
  /\ firstWc = TRUE
  /\ pc = "poll"
  /\ thrown = "none"

At(label) == thrown = "none" /\ pc = label

Throw(exception) ==
  /\ thrown' = exception
  /\ UNCHANGED <<avail, app, freeWRs, posted, cq, comps, pending, irb, firstWc,
                 pc>>

-----------------------------------------------------------------------------
(* __Poll: take at most as many completions as the free entries of the IRB *)
(* can hold if each fills all its scatter-gather elements (SGEs).          *)

RoomInEntries == Smaller(IRBSize - Len(irb), SRQSize)
RoomForAll    == IF IRBSize - Len(irb) > SRQSize * MaxSGEs THEN SRQSize ELSE 0

(* The number of completions the IRB has room for, at most the SRQ size.   *)
Room == Smaller((IRBSize - Len(irb)) \div MaxSGEs, SRQSize)

Poll ==
  /\ At("poll")
  /\ LET n == Smaller(Room, Len(cq))
     IN  /\ comps' = SubSeq(cq, 1, n)
         /\ cq' = SubSeq(cq, n + 1, Len(cq))
         /\ pending' = pending - n
  /\ pc' = "refill"
  /\ UNCHANGED <<avail, app, freeWRs, posted, irb, firstWc, thrown>>

(* Polling the completion queue fails.                                     *)
PollFails == At("poll") /\ Room > 0 /\ Throw("ib")

-----------------------------------------------------------------------------
(* __Refill: fill the SRQ up again.                                        *)

(* What GetBuffers may return: as many as asked for or there are; it can   *)
(* see one less than there are (see AvailableExact in RecvBufferPool).     *)
Yields(count) ==
  {Smaller(count, n) : n \in {Len(avail), Len(avail) - 1} \cap Nat}

(* The number of full SGE lists that the buffers are enough for, at most   *)
(* the number of work requests to be queued.                               *)
QueuedElems(toQueue, numBufs) == Smaller(toQueue, numBufs \div MaxSGEs)

SGEList(i) == SubSeq(avail, (i - 1) * MaxSGEs + 1, i * MaxSGEs)

LeftoverLost(used, numBufs) == SubSeq(avail, numBufs + 1, Len(avail))

(* The pool afterwards: the buffers that do not make up a full list return *)
(* behind the others.  (The application may return buffers meanwhile;      *)
(* nobody but this thread takes any.)                                      *)
Leftover(used, numBufs) ==
  SubSeq(avail, numBufs + 1, Len(avail)) \o SubSeq(avail, used + 1, numBufs)

PendingRefilled(n)  == SRQSize

(* m_recvQueuePending after n work requests were posted.                   *)
PendingAfter(n) == pending + n

Refill ==
  /\ At("refill")
  /\ pending < SRQSize
  /\ LET toQueue == SRQSize - pending
     IN  \E numBufs \in Yields(toQueue * MaxSGEs) :
           LET n == QueuedElems(toQueue, numBufs)
           IN  IF n > freeWRs
               THEN Throw("dry")
               ELSE /\ freeWRs' = freeWRs - n
                    /\ posted' = posted \o [i \in 1..n |-> SGEList(i)]
                    /\ avail' = Leftover(n * MaxSGEs, numBufs)
                    /\ pending' = PendingAfter(n)
                    /\ pc' = "process"
                    /\ UNCHANGED <<app, cq, comps, irb, firstWc, thrown>>

(* Nothing to refill.                                                      *)
SkipRefill ==
  /\ At("refill")
  /\ pending >= SRQSize
  /\ pc' = "process"
  /\ UNCHANGED <<avail, app, freeWRs, posted, cq, comps, pending, irb, firstWc,
                 thrown>>

(* Posting the work requests fails.                                        *)
PostFails ==
  /\ At("refill")
  /\ pending < SRQSize
  /\ Len(avail) >= MaxSGEs
  /\ Throw("ib")

-----------------------------------------------------------------------------
(* __ProcessCompletions: one completion at a time.                         *)

(* The number of SGEs that a message of the given length fills, at most    *)
(* all of the list; n is the first one with no data left behind it.        *)
Exhausts(n, len) == (n - 1) * BufferSize < len /\ len <= n * BufferSize

SGEsUsed(len) ==
  IF \E n \in 1..MaxSGEs : Exhausts(n, len)
  THEN CHOOSE n \in 1..MaxSGEs : Exhausts(n, len)
  ELSE MaxSGEs

(* dataRecvLenTmp before the i-th SGE, and the data in that SGE.           *)
Remaining(len, i) ==
  IF len > (i - 1) * BufferSize THEN len - (i - 1) * BufferSize ELSE 0

DataLength(len, i) == Smaller(Remaining(len, i), BufferSize)

RepeatedFC(c, i) == c.fc

(* Flow control data goes with the first SGE only.                         *)
EntryFC(c, i) == IF i = 1 THEN c.fc ELSE 0

(* The entries that a completion with data adds to the IRB.                *)
EntriesOf(c) ==
  [i \in 1..SGEsUsed(c.len) |->
     [src |-> c.src, fc |-> EntryFC(c, i), len |-> DataLength(c.len, i),
      buf |-> c.bufs[i]]]

(* The entry of a completion without data.                                 *)
FCEntry(c) == [src |-> c.src, fc |-> c.fc, len |-> 0, buf |-> NULL]

NewEntries(c) == IF c.len = 0 THEN <<FCEntry(c)>> ELSE EntriesOf(c)

UnusedKept(c) == <<>>

(* The buffers that a completion returns to the pool at once.              *)
UnusedBuffers(c) ==
  IF c.len = 0
  THEN c.bufs
  ELSE SubSeq(c.bufs, SGEsUsed(c.len) + 1, Len(c.bufs))

PushedWithData(c) == IF c.len = 0 THEN 0 ELSE 1

(* The work requests that a completion returns to their pool.              *)
PushedWRs(c) == 1

(* A failed completion: the code tells apart only the first completion of  *)
(* all, which hints at wrong connection attributes.                        *)
FailedCompletion ==
  /\ At("process")
  /\ comps # <<>>
  /\ Head(comps).status # "success"
  /\ Throw(IF Head(comps).status = "retry_exc" /\ ~firstWc
           THEN "disconnected"
           ELSE "ib")

(* The sanity checks on the way: the pool of work requests overflows, a    *)
(* message has neither data nor flow control data, the IRB overflows.      *)
Insane(c) ==
  CASE freeWRs = WRPoolSize                          -> "push"
    [] c.len = 0 /\ c.fc = 0                         -> "empty"
    [] Len(irb) + Len(NewEntries(c)) > IRBSize       -> "irb"
    [] OTHER                                         -> "none"

ProcessCompletion ==
  /\ At("process")
  /\ comps # <<>>
  /\ LET c == Head(comps)
     IN  /\ c.status = "success"
         /\ IF Insane(c) # "none"
            THEN Throw(Insane(c))
            ELSE /\ irb' = irb \o NewEntries(c)
                 /\ avail' = avail \o UnusedBuffers(c)
                 /\ freeWRs' = freeWRs + PushedWRs(c)
                 /\ comps' = Tail(comps)
                 /\ firstWc' = FALSE
                 /\ UNCHANGED <<app, posted, cq, pending, pc, thrown>>

EndProcess ==
  /\ At("process")
  /\ comps = <<>>
  /\ pc' = "dispatch"
  /\ UNCHANGED <<avail, app, freeWRs, posted, cq, comps, pending, irb, firstWc,
                 thrown>>

-----------------------------------------------------------------------------
(* __DispatchReceived: the handler processes the first k entries (none if  *)
(* it has no room for them) and keeps their buffers.                       *)

DispatchReceived(k) ==
  /\ At("dispatch")
  /\ irb # <<>>
  /\ k <= Len(irb)
  /\ app' = app \cup ({irb[i].buf : i \in 1..k} \ {NULL})
  /\ irb' = SubSeq(irb, k + 1, Len(irb))
  /\ pc' = "poll"
  /\ UNCHANGED <<avail, freeWRs, posted, cq, comps, pending, firstWc, thrown>>

NothingReceived ==
  /\ At("dispatch")
  /\ irb = <<>>
  /\ pc' = "poll"
  /\ UNCHANGED <<avail, app, freeWRs, posted, cq, comps, pending, irb, firstWc,
                 thrown>>

-----------------------------------------------------------------------------
(* The application returns a buffer; the HCA completes the first posted    *)
(* work request.                                                           *)

ReturnBuffer(b) ==
  /\ thrown = "none"
  /\ b \in app
  /\ app' = app \ {b}
  /\ avail' = Append(avail, b)
  /\ UNCHANGED <<freeWRs, posted, cq, comps, pending, irb, firstWc, pc, thrown>>

Complete(status, src, len, fc) ==
  /\ thrown = "none"
  /\ posted # <<>>
  /\ cq' = Append(cq, [status |-> status, src |-> src, len |-> len, fc |-> fc,
                       bufs |-> Head(posted)])
  /\ posted' = Tail(posted)
  /\ UNCHANGED <<avail, app, freeWRs, comps, pending, irb, firstWc, pc, thrown>>

(* A message of a remote SendDispatcher: data, flow control data or both,  *)
(* and never more than the SGEs of one work request hold.                  *)
Receive(src, len, fc) ==
  /\ len > 0 \/ fc > 0
  /\ Complete("success", src, len, fc)

ReceiveFails(status, src) == Complete(status, src, 0, 0)

-----------------------------------------------------------------------------
Dispatch ==
  \/ Poll \/ PollFails
  \/ Refill \/ SkipRefill \/ PostFails
  \/ FailedCompletion \/ ProcessCompletion \/ EndProcess
  \/ (\E k \in 0..IRBSize : DispatchReceived(k)) \/ NothingReceived

Next ==
  \/ Dispatch
  \/ \E b \in Buffers : ReturnBuffer(b)
  \/ \E src \in Nodes, len \in 0..MaxSGEs * BufferSize, fc \in 0..MaxFC :
       Receive(src, len, fc)
  \/ \E status \in {"retry_exc", "other"}, src \in Nodes :
       ReceiveFails(status, src)

(* The execution engine calls Dispatch for ever; the handler does not      *)
(* refuse everything for ever and the application returns its buffers.     *)
Fairness ==
  /\ WF_vars(Dispatch)
  /\ SF_vars(\E k \in 1..IRBSize : DispatchReceived(k))
  /\ \A b \in Buffers : WF_vars(ReturnBuffer(b))

Spec     == Init /\ [][Next]_vars
FairSpec == Spec /\ Fairness

-----------------------------------------------------------------------------
(* Properties.                                                             *)

TypeOK ==
  /\ avail \in Seq(Buffers)
  /\ app \subseteq Buffers
  /\ freeWRs \in 0..WRPoolSize
  /\ posted \in Seq(Lists)
  /\ cq \in Seq(Completions)
  /\ comps \in Seq(Completions)
  /\ pending \in 0..SRQSize
  /\ irb \in Seq(Entries)
  /\ firstWc \in BOOLEAN
  /\ pc \in {"poll", "refill", "process", "dispatch"}
  /\ thrown \in {"none", "ib", "disconnected", "dry", "push", "empty", "irb"}

(* m_recvQueuePending is exactly the number of work requests the HCA has   *)
(* or has completed without the dispatcher having polled them, so neither  *)
(* the receive queue nor the completion queue of SRQSize entries overflows *)
(* (and the unsigned subtraction of __Poll does not wrap around).          *)
PendingExact == pending = Len(posted) + Len(cq)

(* A work request is free, posted, completed or being processed: none is   *)
(* lost on any path of __ProcessCompletions.                               *)
WRConserved ==
  freeWRs + Len(posted) + Len(cq) + Len(comps) = WRPoolSize

(* The completions already polled always fit into the IRB, even if each of *)
(* them fills all its SGEs.                                                *)
RoomReserved == Len(irb) + MaxSGEs * Len(comps) <= IRBSize

(* Polled completions exist only between __Poll and the end of             *)
(* __ProcessCompletions, and are never more than the SRQ holds; none of    *)
(* the successful ones is an empty message.                                *)
CompsInPhase ==
  /\ pc \in {"poll", "dispatch"} => comps = <<>>
  /\ Len(comps) <= SRQSize

NotEmpty(c) == c.status = "success" => c.len > 0 \/ c.fc > 0

MessagesNotEmpty ==
  /\ \A i \in 1..Len(cq) : NotEmpty(cq[i])
  /\ \A i \in 1..Len(comps) : NotEmpty(comps[i])

(* The HCA writes no message that is longer than the list it writes to.    *)
FitsList(c) == c.status = "success" => c.len <= MaxSGEs * BufferSize

MessagesFit ==
  /\ \A i \in 1..Len(cq) : FitsList(cq[i])
  /\ \A i \in 1..Len(comps) : FitsList(comps[i])

(* "This should never happen": the work request pool running dry or        *)
(* overflowing, an empty message and an overflow of the IRB do not happen. *)
NeverInsane == thrown \in {"none", "ib", "disconnected"}

(* The places that hold a buffer: the pool, a list of a posted, completed  *)
(* or polled work request, an entry of the IRB, and the application.       *)
InLists(name, s) == {<<name, i, j>> : i \in 1..Len(s), j \in 1..MaxSGEs}

Places ==
  {<<"pool", i, 0>> : i \in 1..Len(avail)}
    \cup InLists("posted", posted) \cup InLists("cq", cq) \cup InLists("comps", comps)
    \cup {<<"irb", i, 0>> : i \in {i \in 1..Len(irb) : irb[i].buf # NULL}}
    \cup {<<"app", b, 0>> : b \in app}

BufferAt(p) ==
  CASE p[1] = "pool"   -> avail[p[2]]
    [] p[1] = "posted" -> posted[p[2]][p[3]]
    [] p[1] = "cq"     -> cq[p[2]].bufs[p[3]]
    [] p[1] = "comps"  -> comps[p[2]].bufs[p[3]]
    [] p[1] = "irb"    -> irb[p[2]].buf
    [] p[1] = "app"    -> p[2]

(* Every buffer is in exactly one place on every path through the          *)
(* dispatcher: none is lost, none is given out twice.                      *)
OneOwner ==
  \A b \in Buffers : \E p \in Places : \A q \in Places : BufferAt(q) = b <=> q = p

(* The inductive invariant.                                                *)
IInv ==
  /\ TypeOK
  /\ PendingExact
  /\ WRConserved
  /\ RoomReserved
  /\ CompsInPhase
  /\ MessagesNotEmpty
  /\ NeverInsane

(* The receive queue does not stay empty: as long as the application keeps *)
(* returning its buffers and the pool has one buffer more than an SGE list *)
(* takes, an empty receive queue is refilled.                              *)
RefilledEventually == (posted = <<>>) ~> (posted # <<>> \/ thrown # "none")

Undelivered == cq # <<>> \/ comps # <<>> \/ irb # <<>>

(* What was received reaches the handler: unless the process ends, either  *)
(* everything was handed over again and again or entries are for ever      *)
(* being handed over.                                                      *)
DeliveredEventually ==
  \/ []<>(~Undelivered \/ thrown # "none")
  \/ []<><<\E k \in 1..IRBSize : DispatchReceived(k)>>_vars

-----------------------------------------------------------------------------
(* The stream of pieces: what is left in the IRB, then what the polled     *)
(* completions and the completion queue hold.                              *)
Piece(e) == [src |-> e.src, len |-> e.len, fc |-> e.fc]

Stream == INSTANCE ReceiveStream WITH stream <- <<>>

MessagePieces(c) ==
  IF c.status = "success" THEN Stream!Pieces(c.src, c.len, c.fc) ELSE <<>>

PiecesOf(completions) ==
  FlattenSeq([i \in DOMAIN completions |-> MessagePieces(completions[i])])

Promise ==
  INSTANCE ReceiveStream WITH
    stream <- [i \in DOMAIN irb |-> Piece(irb[i])] \o PiecesOf(comps)
                \o PiecesOf(cq)

(* The dispatcher keeps the promise of ReceiveStream: whatever is polled,  *)
(* processed and handed over when, every message reaches the handler       *)
(* completely, in order, cut at the size of the buffers, with its flow     *)
(* control data once.                                                      *)
ImplementsStream == Promise!Spec

=============================================================================
