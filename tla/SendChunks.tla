----------------------------- MODULE SendChunks -----------------------------
(***************************************************************************)
(* How the send dispatcher cuts the data of one work package into work     *)
(* requests (SendDispatcher::__SendDataPrepareWorkRequests).  The data is  *)
(* an area of the outgoing ring buffer (ORB) of the connection, from the   *)
(* back to the front position, that may wrap around its end.  Each turn of *)
(* the loop is a step and makes one chunk, a work request that the receive *)
(* buffers of one request of the remote can hold.                          *)
(***************************************************************************)
EXTENDS Integers, Sequences

CONSTANTS
  ORBSize,  \* refSendBuffer->GetSizeBuffer()
  MaxRecv,  \* maxRecvBufferSize
  SQSize,   \* m_refConnectionManager->GetIbSQSize()
  MaxFC     \* the largest flow control value of a package, below 256

ASSUME SendChunksAssumption ==
  /\ ORBSize \in Nat \ {0}
  /\ MaxRecv \in Nat \ {0}
  /\ SQSize \in Nat \ {0}
  /\ MaxFC \in 0..255

VARIABLES
  package,    \* the work package, and the free slots of the send queue
  posBack,    \* posBack
  fcData,     \* fcData: the flow control data not yet in a chunk
  fcDone,     \* totalFcDataProcessed
  processed,  \* totalBytesProcessed
  chunks,     \* m_sendWrs, up to chunksPos
  state       \* "loop", "done", or the sanity check that failed

vars == <<package, posBack, fcData, fcDone, processed, chunks, state>>

-----------------------------------------------------------------------------
posFront == package.front

Smaller(a, b) == IF a < b THEN a ELSE b

(* The number of bytes from back to front, around the end of the ORB.      *)
Distance(back, front) ==
  IF back > front THEN ORBSize - back + front ELSE front - back

(* totalBytesToProcess                                                     *)
Total == Distance(package.back, package.front)

Start(packages) ==
  /\ package \in packages
  /\ posBack = package.back
  /\ fcData = package.fc
  /\ fcDone = 0
  /\ processed = 0
  /\ chunks = <<>>
  /\ state = "loop"

(* The packages of an application that manages the ORB as a ring.          *)
RingPackages ==
  [back : 0..ORBSize - 1, front : 0..ORBSize - 1, fc : 0..MaxFC,
   free : 0..SQSize]

(* The packages of the loopback system: always the whole buffer.           *)
LoopbackPackages ==
  [back : {0}, front : {ORBSize}, fc : {0}, free : 0..SQSize]

-----------------------------------------------------------------------------
MoreThanFree == Len(chunks) <= package.free /\ (posBack # posFront \/ fcData > 0)

(* The condition of the loop.                                              *)
More ==
  /\ Len(chunks) < package.free
  /\ posBack # posFront \/ fcData > 0

(* The area at the end of the ORB is smaller than a chunk and the data     *)
(* goes on at its start: two SGEs.                                         *)
WrapAround ==
  posBack > posFront /\ posFront # 0 /\ posBack + MaxRecv > ORBSize

(* The end of a chunk that wraps around: the front, or what fills a chunk. *)
WrappedEnd == Smaller(posFront, MaxRecv - (ORBSize - posBack))

(* The end of a chunk that does not: at most the end of the ORB, and the   *)
(* front unless that lies behind the end.                                  *)
StraightEnd ==
  IF posBack > posFront
  THEN Smaller(posBack + MaxRecv, ORBSize)
  ELSE Smaller(posBack + MaxRecv, posFront)

PosEnd == IF WrapAround THEN WrappedEnd ELSE StraightEnd

(* The length of the chunk: of the one SGE, or of both.                    *)
Length ==
  IF WrapAround THEN (ORBSize - posBack) + PosEnd ELSE PosEnd - posBack

NextUnwrapped(end) == end

(* The next position to send from: the end of the ORB is its start.        *)
NextBack(end) == IF end = ORBSize THEN 0 ELSE end

KeptFC == fcData

(* Flow control data goes into the first chunk only.                       *)
FCAfterChunk == 0

AddChunk(len) ==
  /\ chunks' = Append(chunks, [back |-> posBack, len |-> len, fc |-> fcData])
  /\ fcDone' = IF fcData > 0 THEN fcData ELSE fcDone
  /\ fcData' = FCAfterChunk

(* No data: a work request without SGEs that carries the flow control data.*)
FCOnly ==
  /\ state = "loop"
  /\ More
  /\ posBack = posFront
  /\ AddChunk(0)
  /\ state' = "done"
  /\ UNCHANGED <<package, posBack, processed>>

(* A chunk of data, with the flow control data if it is the first.         *)
DataChunk ==
  /\ state = "loop"
  /\ More
  /\ posBack # posFront
  /\ IF Length > MaxRecv
     THEN state' = "too long" /\ UNCHANGED <<posBack, processed, chunks, fcData, fcDone>>
     ELSE /\ AddChunk(Length)
          /\ processed' = processed + Length
          /\ posBack' = NextBack(PosEnd)
          /\ state' = IF posBack' = posFront THEN "done" ELSE "loop"
  /\ UNCHANGED package

(* The send queue is full, or there is nothing to send.                    *)
Stop ==
  /\ state = "loop"
  /\ ~More
  /\ state' = "done"
  /\ UNCHANGED <<package, posBack, fcData, fcDone, processed, chunks>>

Next == FCOnly \/ DataChunk \/ Stop

Spec         == Start(RingPackages) /\ [][Next]_vars
LoopbackSpec == Start(LoopbackPackages) /\ [][Next]_vars

-----------------------------------------------------------------------------
(* Properties.                                                             *)

TypeOK ==
  /\ package \in RingPackages
  /\ posBack \in 0..ORBSize - 1
  /\ fcData \in 0..MaxFC
  /\ fcDone \in 0..MaxFC
  /\ processed \in 0..ORBSize
  /\ chunks \in Seq([back : 0..ORBSize - 1, len : 0..MaxRecv, fc : 0..MaxFC])
  /\ state \in {"loop", "done", "too long"}

(* "max recv buffer size": no chunk is larger than what the remote's       *)
(* receive work requests hold, however the area lies in the ORB.           *)
NeverTooLong == state # "too long"

(* What was processed and what lies between the current back and the front *)
(* add up to the package: m_numBytesPosted and m_numBytesNotPosted are     *)
(* right, and the unsigned difference does not wrap around.                *)
BytesBalance == processed + Distance(posBack, posFront) = Total

(* The flow control data is in a chunk or left over, never both.           *)
FCBalance == fcDone + fcData = package.fc

(* The position after the bytes of a chunk, around the end of the ORB.     *)
EndOf(c) == IF c.back + c.len < ORBSize THEN c.back + c.len
                                        ELSE c.back + c.len - ORBSize

(* The chunks tile the area: each starts where the one before it ended, so *)
(* every byte is sent at most once and in order.                           *)
ChunksTile ==
  \A i \in DOMAIN chunks :
    chunks[i].back = IF i = 1 THEN package.back ELSE EndOf(chunks[i - 1])

(* Flow control data is sent once, with the first work request.            *)
FCOnce ==
  \A i \in DOMAIN chunks : chunks[i].fc = IF i = 1 THEN package.fc ELSE 0

(* The loop stops only if everything is posted or the send queue is full,  *)
(* and never posts an empty work request.                                  *)
StopsWhenFull ==
  /\ state = "done" => \/ posBack = posFront /\ fcData = 0
                       \/ Len(chunks) = package.free
  /\ Len(chunks) <= package.free
  /\ \A i \in DOMAIN chunks : chunks[i].len > 0 \/ chunks[i].fc > 0

(* The loop goes on where the last chunk ended, and the flow control data  *)
(* is gone after the first one.                                            *)
Continues ==
  /\ posBack = IF chunks = <<>> THEN package.back ELSE EndOf(chunks[Len(chunks)])
  /\ fcData = IF chunks = <<>> THEN package.fc ELSE 0

(* The inductive invariant.                                                *)
IInv ==
  /\ TypeOK
  /\ NeverTooLong
  /\ BytesBalance
  /\ FCBalance
  /\ ChunksTile
  /\ FCOnce
  /\ StopsWhenFull
  /\ Continues

(* "always send full send buffer": the loopback system sends the buffer it *)
(* asks for, once.                                                         *)
SentAtMostOnce == processed <= Total

=============================================================================
