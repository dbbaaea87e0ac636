-------------------------- MODULE SendChunksProofs --------------------------
(***************************************************************************)
(* The chunks tile the area of every work package, for every size of the   *)
(* ORB and of the receive buffers: the invariant IInv of SendChunks is     *)
(* inductive.                                                              *)
(***************************************************************************)
EXTENDS SendChunks, SequenceTheorems, TLAPS

ChunkType == [back : 0..ORBSize - 1, len : 0..MaxRecv, fc : 0..MaxFC]

(* The arithmetic of one chunk of data: it is not empty and not too long,  *)
(* the next position is where it ends, and the bytes to the front are      *)
(* fewer by its length.                                                    *)
LEMMA ChunkArithmetic ==
  ASSUME posBack \in 0..ORBSize - 1, posFront \in 0..ORBSize - 1,
         posBack # posFront
  PROVE  /\ Length \in 1..MaxRecv
         /\ Length <= Distance(posBack, posFront)
         /\ NextBack(PosEnd) \in 0..ORBSize - 1
         /\ Length + Distance(NextBack(PosEnd), posFront) = Distance(posBack, posFront)
         /\ NextBack(PosEnd) = EndOf([back |-> posBack, len |-> Length, fc |-> fcData])
<1> USE SendChunksAssumption
<1>1. CASE WrapAround
  <2>1. /\ PosEnd = WrappedEnd /\ Length = (ORBSize - posBack) + PosEnd
        /\ posBack > posFront /\ posFront # 0 /\ posBack + MaxRecv > ORBSize
    BY <1>1 DEF PosEnd, Length, WrapAround
  <2>2. PosEnd \in 1..posFront
    BY <2>1 DEF WrappedEnd, Smaller
  <2>3. NextBack(PosEnd) = PosEnd
    BY <2>2 DEF NextBack
  <2>4. Length \in 1..MaxRecv
    BY <2>1, <2>2 DEF WrappedEnd, Smaller
  <2>5. QED BY <2>1, <2>2, <2>3, <2>4 DEF Distance, EndOf
<1>2. CASE ~WrapAround
  <2>1. PosEnd = StraightEnd /\ Length = PosEnd - posBack
    BY <1>2 DEF PosEnd, Length
  <2>2. CASE posBack < posFront
    <3>1. PosEnd \in posBack + 1..posFront /\ PosEnd <= posBack + MaxRecv
      BY <2>1, <2>2 DEF StraightEnd, Smaller
    <3>2. NextBack(PosEnd) = PosEnd
      BY <3>1 DEF NextBack
    <3>3. QED BY <2>1, <2>2, <3>1, <3>2 DEF Distance, EndOf
  <2>3. CASE posBack > posFront
    <3>1. PosEnd \in posBack + 1..ORBSize /\ PosEnd <= posBack + MaxRecv
      BY <2>1, <2>3 DEF StraightEnd, Smaller
    <3>2. CASE PosEnd = ORBSize
      <4>1. NextBack(PosEnd) = 0
        BY <3>2 DEF NextBack
      <4>2. QED BY <2>1, <2>3, <3>1, <3>2, <4>1 DEF Distance, EndOf
    <3>3. CASE PosEnd < ORBSize
      <4>1. NextBack(PosEnd) = PosEnd
        BY <3>3 DEF NextBack
      <4>2. PosEnd > posFront
        BY <2>3, <3>1
      <4>3. QED BY <2>1, <2>3, <3>1, <3>3, <4>1, <4>2 DEF Distance, EndOf
    <3>4. QED BY <3>1, <3>2, <3>3
  <2>4. QED BY <2>2, <2>3
<1>3. QED BY <1>1, <1>2

(* A distance within the ORB is less than its size.                        *)
LEMMA DistanceType ==
  ASSUME NEW a \in 0..ORBSize - 1, NEW b \in 0..ORBSize - 1
  PROVE  Distance(a, b) \in 0..ORBSize - 1
  BY SendChunksAssumption DEF Distance

(* The invariant holds at the start.                                       *)
LEMMA StartIInv == Start(RingPackages) => IInv
<1> SUFFICES ASSUME Start(RingPackages) PROVE IInv
  OBVIOUS
<1>1. /\ package \in RingPackages /\ package.back \in 0..ORBSize - 1
      /\ package.front \in 0..ORBSize - 1 /\ package.fc \in 0..MaxFC
      /\ package.free \in 0..SQSize
  BY DEF Start, RingPackages
<1>2. TypeOK
  BY <1>1, SendChunksAssumption, EmptySeq DEF Start, TypeOK
<1>3. BytesBalance
  <2>1. Distance(package.back, package.front) \in 0..ORBSize - 1
    BY <1>1, DistanceType
  <2>2. processed = 0 /\ posBack = package.back
    BY DEF Start
  <2>3. QED BY <2>1, <2>2, SendChunksAssumption DEF BytesBalance, Total, posFront
<1>3a. FCBalance /\ Continues
  BY <1>1, SendChunksAssumption DEF Start, FCBalance, Continues
<1>4. ChunksTile /\ FCOnce /\ StopsWhenFull /\ NeverTooLong
  BY <1>1, SendChunksAssumption
     DEF Start, ChunksTile, FCOnce, StopsWhenFull, NeverTooLong
<1>5. QED BY <1>2, <1>3, <1>3a, <1>4 DEF IInv

(* Adding a chunk that starts at posBack keeps what is said of the chunks. *)
LEMMA AddChunkStep ==
  ASSUME IInv, NEW len \in 0..MaxRecv, len > 0 \/ fcData > 0,
         Len(chunks) < package.free, AddChunk(len), UNCHANGED package,
         posBack' = EndOf([back |-> posBack, len |-> len, fc |-> fcData])
  PROVE  /\ chunks' \in Seq(ChunkType)
         /\ fcData' \in 0..MaxFC /\ fcDone' \in 0..MaxFC
         /\ FCBalance' /\ ChunksTile' /\ FCOnce' /\ Continues'
         /\ Len(chunks') <= package.free
         /\ \A i \in DOMAIN chunks' : chunks'[i].len > 0 \/ chunks'[i].fc > 0
<1> DEFINE c == [back |-> posBack, len |-> len, fc |-> fcData]
<1>1. /\ chunks \in Seq(ChunkType) /\ package \in RingPackages
      /\ posBack \in 0..ORBSize - 1 /\ fcData \in 0..MaxFC /\ fcDone \in 0..MaxFC
  BY DEF IInv, TypeOK, ChunkType
<1>2. c \in ChunkType
  BY <1>1 DEF ChunkType
<1>3. package.fc \in 0..MaxFC /\ package.free \in 0..SQSize
  BY <1>1 DEF RingPackages
<1>4. /\ c.back = posBack /\ c.fc = fcData /\ c.len = len
      /\ posBack' = EndOf(c)
  OBVIOUS
<1>5. chunks' = Append(chunks, c)
  BY DEF AddChunk
<1> HIDE DEF c
<1>6. /\ chunks' \in Seq(ChunkType) /\ Len(chunks') = Len(chunks) + 1
      /\ Len(chunks) \in Nat /\ chunks' # <<>>
      /\ DOMAIN chunks' = 1..Len(chunks) + 1 /\ DOMAIN chunks = 1..Len(chunks)
      /\ \A i \in 1..Len(chunks) : chunks'[i] = chunks[i]
      /\ chunks'[Len(chunks) + 1] = c
  BY <1>1, <1>2, <1>5, AppendProperties, LenProperties
<1>7. fcData' = 0 /\ fcDone' = IF fcData > 0 THEN fcData ELSE fcDone
  BY DEF AddChunk, FCAfterChunk
<1>8. fcData = IF chunks = <<>> THEN package.fc ELSE 0
  BY DEF IInv, Continues
<1>9. FCBalance'
  <2>1. fcDone + fcData = package.fc /\ fcDone \in Nat /\ fcData \in Nat
    BY <1>1, SendChunksAssumption DEF IInv, FCBalance
  <2>2. fcData > 0 => fcData = package.fc
    BY <1>3, <1>8
  <2>3. fcDone' + fcData' = package.fc
    BY <1>7, <2>1, <2>2
  <2>4. QED BY <2>3 DEF FCBalance
<1>10. Continues'
  BY <1>4, <1>6, <1>7 DEF Continues, EndOf
<1>11. chunks = <<>> <=> Len(chunks) = 0
  BY <1>1, EmptySeq
<1>12. ChunksTile'
  <2>1. ASSUME NEW i \in 1..Len(chunks) + 1
        PROVE  chunks'[i].back =
                 IF i = 1 THEN package.back ELSE EndOf(chunks'[i - 1])
    <3>1. CASE i \in 1..Len(chunks)
      <4>1. /\ chunks'[i] = chunks[i]
            /\ i # 1 => i - 1 \in 1..Len(chunks) /\ chunks'[i - 1] = chunks[i - 1]
        BY <1>6, <3>1
      <4>2. chunks[i].back = IF i = 1 THEN package.back ELSE EndOf(chunks[i - 1])
        BY <1>6, <3>1 DEF IInv, ChunksTile
      <4>3. QED BY <4>1, <4>2
    <3>2. CASE i = Len(chunks) + 1
      <4>1. chunks'[i].back = posBack
        BY <1>4, <1>6, <3>2
      <4>2. posBack = IF chunks = <<>> THEN package.back
                                       ELSE EndOf(chunks[Len(chunks)])
        BY DEF IInv, Continues
      <4>3. i # 1 => i - 1 = Len(chunks) /\ chunks'[i - 1] = chunks[Len(chunks)]
        BY <1>6, <3>2
      <4>4. QED BY <4>1, <4>2, <4>3, <1>6, <1>11, <3>2
    <3>3. QED BY <1>6, <3>1, <3>2
  <2>2. QED BY <2>1, <1>6 DEF ChunksTile, EndOf
<1>13. FCOnce'
  <2>1. ASSUME NEW i \in 1..Len(chunks) + 1
        PROVE  chunks'[i].fc = IF i = 1 THEN package.fc ELSE 0
    BY <1>4, <1>6, <1>8, <1>11 DEF IInv, FCOnce
  <2>2. QED BY <2>1, <1>6 DEF FCOnce
<1>14. Len(chunks') <= package.free
  BY <1>3, <1>6
<1>15. \A i \in DOMAIN chunks' : chunks'[i].len > 0 \/ chunks'[i].fc > 0
  BY <1>4, <1>6 DEF IInv, StopsWhenFull
<1>16. fcData' \in 0..MaxFC /\ fcDone' \in 0..MaxFC
  BY <1>1, <1>7, SendChunksAssumption
<1>17. chunks' \in Seq(ChunkType)
  BY <1>6
<1>18. QED
  BY <1>9, <1>10, <1>12, <1>13, <1>14, <1>15, <1>16, <1>17, Zenon

(* Every turn of the loop keeps the invariant.                             *)
LEMMA NextIInv == IInv /\ [Next]_vars => IInv'
<1> SUFFICES ASSUME IInv, [Next]_vars PROVE IInv'
  OBVIOUS
<1>1. /\ package \in RingPackages /\ posBack \in 0..ORBSize - 1
      /\ posFront \in 0..ORBSize - 1 /\ fcData \in 0..MaxFC /\ fcDone \in 0..MaxFC
      /\ processed \in 0..ORBSize /\ chunks \in Seq(ChunkType)
      /\ package.free \in 0..SQSize /\ package.back \in 0..ORBSize - 1
  BY DEF IInv, TypeOK, ChunkType, posFront, RingPackages
<1>2. Len(chunks) \in Nat
  BY <1>1, LenProperties
<1>3. CASE FCOnly
  <2>1. /\ Len(chunks) < package.free /\ posBack = posFront /\ fcData > 0
        /\ AddChunk(0) /\ state' = "done" /\ UNCHANGED <<package, posBack, processed>>
    BY <1>3 DEF FCOnly, More
  <2>2. posBack' = EndOf([back |-> posBack, len |-> 0, fc |-> fcData])
    BY <1>1, <2>1, SendChunksAssumption DEF EndOf
  <2>3. /\ chunks' \in Seq(ChunkType)
        /\ fcData' \in 0..MaxFC /\ fcDone' \in 0..MaxFC
        /\ FCBalance' /\ ChunksTile' /\ FCOnce' /\ Continues'
        /\ Len(chunks') <= package.free
        /\ \A i \in DOMAIN chunks' : chunks'[i].len > 0 \/ chunks'[i].fc > 0
    <3>1. 0 \in 0..MaxRecv
      BY SendChunksAssumption
    <3>2. UNCHANGED package
      BY <2>1
    <3>3. QED BY <2>1, <2>2, <3>1, <3>2, AddChunkStep, Zenon
  <2>4. TypeOK' /\ NeverTooLong'
    BY <1>1, <2>1, <2>3 DEF TypeOK, NeverTooLong, ChunkType
  <2>5. BytesBalance'
    BY <2>1 DEF IInv, BytesBalance, Distance, Total, posFront
  <2>6. fcData' = 0
    BY <2>1 DEF AddChunk, FCAfterChunk
  <2>7. StopsWhenFull'
    BY <2>1, <2>3, <2>6 DEF StopsWhenFull, posFront
  <2>8. QED BY <2>3, <2>4, <2>5, <2>7 DEF IInv
<1>4. CASE DataChunk
  <2>1. /\ Length \in 1..MaxRecv /\ Length <= Distance(posBack, posFront)
        /\ NextBack(PosEnd) \in 0..ORBSize - 1
        /\ Length + Distance(NextBack(PosEnd), posFront) = Distance(posBack, posFront)
        /\ NextBack(PosEnd) = EndOf([back |-> posBack, len |-> Length, fc |-> fcData])
    BY <1>1, <1>4, ChunkArithmetic DEF DataChunk
  <2>2. /\ Len(chunks) < package.free /\ AddChunk(Length)
        /\ processed' = processed + Length /\ posBack' = NextBack(PosEnd)
        /\ state' = IF posBack' = posFront THEN "done" ELSE "loop"
        /\ UNCHANGED package
    <3>1. ~(Length > MaxRecv)
      BY <2>1, SendChunksAssumption
    <3>2. QED BY <1>4, <3>1, Zenon DEF DataChunk, More
  <2>3. /\ chunks' \in Seq(ChunkType)
        /\ fcData' \in 0..MaxFC /\ fcDone' \in 0..MaxFC
        /\ FCBalance' /\ ChunksTile' /\ FCOnce' /\ Continues'
        /\ Len(chunks') <= package.free
        /\ \A i \in DOMAIN chunks' : chunks'[i].len > 0 \/ chunks'[i].fc > 0
    <3>1. Length \in 0..MaxRecv /\ Length > 0
      BY <2>1, SendChunksAssumption
    <3>2. QED BY <3>1, <2>1, <2>2, AddChunkStep
  <2>4. processed + Distance(posBack, posFront) = Total
    BY DEF IInv, BytesBalance
  <2>5. processed' + Distance(posBack', posFront) = Total
    <3>1. /\ Distance(posBack', posFront) \in Int
          /\ Distance(posBack, posFront) \in Int
      BY <1>1, <2>1, <2>2, DistanceType, SendChunksAssumption
    <3>2. Length \in Int /\ processed \in Int
      BY <1>1, <2>1, SendChunksAssumption
    <3>3. QED BY <2>1, <2>2, <2>4, <3>1, <3>2
  <2>6. processed' \in 0..ORBSize
    <3>1. /\ Distance(posBack', posFront) \in 0..ORBSize - 1
          /\ Total \in 0..ORBSize - 1
      BY <1>1, <2>1, <2>2, DistanceType DEF Total, posFront
    <3>2. processed' \in Int /\ processed' >= 0
      BY <1>1, <2>1, <2>2, SendChunksAssumption
    <3>3. QED BY <2>5, <3>1, <3>2, SendChunksAssumption
  <2>7. BytesBalance'
    BY <2>2, <2>5 DEF BytesBalance, Distance, Total, posFront
  <2>8. TypeOK' /\ NeverTooLong'
    BY <1>1, <2>1, <2>2, <2>3, <2>6 DEF TypeOK, NeverTooLong, ChunkType
  <2>9. fcData' = 0
    BY <2>2 DEF AddChunk, FCAfterChunk
  <2>10. StopsWhenFull'
    BY <2>2, <2>3, <2>9 DEF StopsWhenFull, posFront
  <2>11. QED BY <2>3, <2>7, <2>8, <2>10 DEF IInv
<1>5. CASE Stop
  <2>1. /\ ~(Len(chunks) < package.free /\ (posBack # posFront \/ fcData > 0))
        /\ state' = "done"
        /\ UNCHANGED <<package, posBack, fcData, fcDone, processed, chunks>>
    BY <1>5 DEF Stop, More
  <2>2. /\ TypeOK' /\ NeverTooLong' /\ BytesBalance' /\ FCBalance'
        /\ ChunksTile' /\ FCOnce' /\ Continues'
    BY <2>1 DEF IInv, TypeOK, NeverTooLong, BytesBalance, FCBalance, ChunksTile,
                FCOnce, Continues, Distance, Total, posFront, EndOf
  <2>3. StopsWhenFull'
    <3>1. fcData = 0 \/ fcData > 0
      BY <1>1, SendChunksAssumption
    <3>2. Len(chunks) <= package.free
      BY DEF IInv, StopsWhenFull
    <3>3. Len(chunks) = package.free \/ (posBack = posFront /\ fcData = 0)
      BY <1>1, <1>2, <2>1, <3>1, <3>2, SendChunksAssumption
    <3>4. QED BY <2>1, <3>2, <3>3 DEF IInv, StopsWhenFull, posFront
  <2>4. QED BY <2>2, <2>3 DEF IInv
<1>6. CASE UNCHANGED vars
  BY <1>6 DEF vars, IInv, TypeOK, NeverTooLong, BytesBalance, FCBalance, ChunksTile,
              FCOnce, Continues, StopsWhenFull, Distance, Total, posFront, EndOf
<1>7. QED BY <1>3, <1>4, <1>5, <1>6 DEF Next

(* The inductive invariant holds in every state of every behaviour.        *)
THEOREM InvariantHolds == Spec => []IInv
  BY StartIInv, NextIInv, PTL DEF Spec

(* No chunk is larger than what a receive work request of the remote holds.*)
THEOREM ChunksFit == Spec => []NeverTooLong
<1>1. IInv => NeverTooLong
  BY DEF IInv
<1>2. QED BY <1>1, InvariantHolds, PTL

(* The posted and the remaining bytes add up to the work package.          *)
THEOREM BytesConserved == Spec => []BytesBalance
<1>1. IInv => BytesBalance
  BY DEF IInv
<1>2. QED BY <1>1, InvariantHolds, PTL

(* Each chunk starts where the one before it ended.                        *)
THEOREM ChunksTileArea == Spec => []ChunksTile
<1>1. IInv => ChunksTile
  BY DEF IInv
<1>2. QED BY <1>1, InvariantHolds, PTL

(* The flow control data of a package is sent exactly once.                *)
THEOREM FCSentOnce == Spec => [](FCBalance /\ FCOnce)
<1>1. IInv => FCBalance /\ FCOnce
  BY DEF IInv
<1>2. QED BY <1>1, InvariantHolds, PTL

(* All variables stay in their types: in particular the position in the    *)
(* ORB never leaves it (SendDispatcher.cpp:679).                           *)
THEOREM TypesHold == Spec => []TypeOK
<1>1. IInv => TypeOK
  BY DEF IInv
<1>2. QED BY <1>1, InvariantHolds, PTL

(* The loop stops with everything posted or the send queue full, and posts *)
(* no empty work request, for every area of the ring and every size.       *)
THEOREM EverythingPosted == Spec => []StopsWhenFull
<1>1. IInv => StopsWhenFull
  BY DEF IInv
<1>2. QED BY <1>1, InvariantHolds, PTL

=============================================================================
