------------------------ MODULE MCVelodyneHDL_proofs -------------------------
(***************************************************************************)
(* Every property that the run of MCVelodyneHDL checks, for any number of  *)
(* blocks, points and (but for the announced entries) sensors, however     *)
(* beams are echoed, frames overflow and packets are lost.                 *)
(*                                                                         *)
(* The HDL-32E needs five things to hold together.  The read position      *)
(* belongs to the block decoded (CursorAligned, LoopInv); the azimuths to  *)
(* where the head stood, which is never behind the last firing (OnTrack);  *)
(* the last point was fired before what comes next (LastPoint); and the    *)
(* three parts of a row are written together, with an azimuth between that *)
(* of the first row and that of the last block (CloudInv).  Only the order *)
(* of turns needs that less than a turn is lost at once (ShortLosses).     *)
(*                                                                         *)
(* What is proved of the HDL-64E in Velodyne64Decoder_proofs is used by    *)
(* instance; HDLInv puts the two together.                                 *)
(***************************************************************************)
EXTENDS MCVelodyneHDL, TLAPS, FiniteSetTheorems

P64 == INSTANCE Velodyne64Decoder_proofs WITH
    Sensors <- Sensors64, MaxPoints <- MaxPoints64, EchoPatterns <- EchoPatterns64,
    index <- blockID, azimuth <- currentAzimuth, pointIndex <- pointIndexSPC

-----------------------------------------------------------------------------
(* The HDL-32E.                                                            *)

ShortLosses == Step + MaxLost * PacketSpan < Turn

(* Where the head fires the block being decoded.                           *)
BlockAt == packet + blockID * Step

LoopInv ==
    /\ pc \in {"idle", "azimuth", "guard"} => counter = 0
    /\ pc = "idle" => position = 0 /\ blockID = 0
    /\ currentAzimuth = previousAzimuth

OnTrack ==
    /\ previousAzimuth = firedAt % Turn
    /\ lost <= MaxLost
    /\ pc # "idle" => sensorAt = packet + PacketSpan
    /\ pc = "idle" =>
        /\ firedAt <= sensorAt
        /\ sensorAt >= Turn => sensorAt <= firedAt + Step + lost * PacketSpan
    /\ pc = "azimuth" => firedAt <= BlockAt /\ (ShortLosses => BlockAt < firedAt + Turn)
    /\ pc \in {"guard", "beam"} => firedAt = BlockAt

(* The last of n points in the segment is fired before this.               *)
LastBefore(n, points, at, id) ==
    n > 0 =>
        \/ points[n - 1].at < at
        \/ points[n - 1].at = at /\ points[n - 1].sensor < id

LastPoint ==
    /\ segment \in [0 .. MaxPoints - 1 -> PointType]
    /\ pc = "idle" => LastBefore(pointIndexSPC, segment, sensorAt, 0)
    /\ pc = "azimuth" => LastBefore(pointIndexSPC, segment, BlockAt, 0)
    /\ pc \in {"guard", "beam"} => LastBefore(pointIndexSPC, segment, firedAt, counter)

(* The rows of three parts are the same firings, in one interval, and each *)
(* part has the entries of its layers.                                     *)
RowType == [at : Nat, azimuth : 0 .. Turn - 1, entries : {Cardinality(LayersOfPart(k)) : k \in 1 .. 3}]

PartsFit(three, from, to) ==
    /\ three \in [1 .. 3 -> Seq(RowType)]
    /\ \A k \in 1 .. 3 : Len(three[k]) = Len(three[1])
    /\ \A k \in 1 .. 3 : \A n \in 1 .. Len(three[k]) :
        /\ three[k][n].at = three[1][n].at
        /\ three[k][n].azimuth = three[1][n].azimuth
        /\ three[k][n].entries = Cardinality(LayersOfPart(k))
        /\ from <= three[k][n].azimuth /\ three[k][n].azimuth <= to

CloudInv ==
    /\ WithCPC => startAzimuth <= previousAzimuth
    /\ ~WithCPC => parts = NoRows
    /\ \A s \in AllStreams : PartsFit(parts[s], startAzimuth, previousAzimuth)
    /\ \A s \in AllStreams : PartsFit(cpc[s].parts, cpc[s].start, cpc[s].end)

IInv == TypeOK /\ CursorAligned /\ LoopInv /\ OnTrack /\ LastPoint /\ CloudInv

-----------------------------------------------------------------------------
(* Lemmas about the operators.                                             *)

LEMMA Sizes ==
    /\ Turn \in Nat \ {0} /\ Step \in Nat \ {0} /\ Blocks \in Nat \ {0}
    /\ Sensors \in Nat \ {0} /\ MaxPoints \in Nat \ {0} /\ MaxLost \in Nat
    /\ BlockBytes \in Nat \ {0} /\ BlockBytes = 4 + 3 * Sensors
    /\ PacketSpan \in Nat \ {0} /\ PacketSpan = Blocks * Step
    /\ LastBlock = Blocks - 1
  BY Velodyne32Assumption DEF BlockBytes, PacketSpan, LastBlock

LEMMA BlockAtNat ==
    ASSUME TypeOK
    PROVE  /\ blockID \in Nat /\ blockID <= LastBlock /\ packet \in Nat
           /\ blockID * Step \in Nat /\ BlockAt \in Nat
  <1>1. blockID \in Nat /\ packet \in Nat /\ blockID <= LastBlock
    BY Sizes DEF TypeOK
  <1>2. blockID * Step \in Nat
    BY <1>1, Sizes
  <1> QED
    BY <1>1, <1>2 DEF BlockAt

(* What stands in the packet at a byte of the block being decoded.         *)
LEMMA FieldsOfBlock ==
    ASSUME TypeOK, NEW rest \in 0 .. BlockBytes - 1,
           NEW byte, byte = blockID * BlockBytes + rest
    PROVE  FiringAt(byte) = BlockAt /\ ReportedAzimuth(byte) = BlockAt % Turn
  <1>1. blockID \in Nat /\ BlockBytes \in Nat \ {0}
    BY Sizes, BlockAtNat
  <1>2. byte \div BlockBytes = blockID
    BY <1>1, P64!BlockOfByte
  <1> QED
    BY <1>2 DEF FiringAt, ReportedAzimuth, BlockAt

(* The last point of a segment, and later firings.                         *)
LEMMA LastIsPoint ==
    ASSUME NEW n \in 0 .. MaxPoints, NEW points \in [0 .. MaxPoints - 1 -> PointType]
    PROVE  n \in Nat /\ (n > 0 => points[n - 1].at \in Int /\ points[n - 1].sensor \in Int)
  <1>1. MaxPoints \in Nat /\ Sensors \in Nat
    BY Sizes
  <1>2. n > 0 => points[n - 1] \in PointType
    BY <1>1
  <1> QED
    BY <1>1, <1>2 DEF PointType

LEMMA LaterSensor ==
    ASSUME NEW n \in 0 .. MaxPoints, NEW points \in [0 .. MaxPoints - 1 -> PointType],
           NEW at \in Int, NEW id \in Int, NEW more \in Int, id <= more,
           LastBefore(n, points, at, id)
    PROVE  LastBefore(n, points, at, more)
  <1>1. n \in Nat /\ (n > 0 => points[n - 1].at \in Int /\ points[n - 1].sensor \in Int)
    BY LastIsPoint
  <1> QED
    BY <1>1 DEF LastBefore

LEMMA LaterFiring ==
    ASSUME NEW n \in 0 .. MaxPoints, NEW points \in [0 .. MaxPoints - 1 -> PointType],
           NEW at \in Int, NEW id, NEW later \in Int, NEW any, at < later,
           LastBefore(n, points, at, id)
    PROVE  LastBefore(n, points, later, any)
  <1>1. n \in Nat /\ (n > 0 => points[n - 1].at \in Int /\ points[n - 1].sensor \in Int)
    BY LastIsPoint
  <1> QED
    BY <1>1 DEF LastBefore

(* Losses up to the bound are shorter than a turn.                         *)
LEMMA GapShort ==
    ASSUME NEW n \in Nat, n <= MaxLost
    PROVE  /\ n * PacketSpan \in Nat
           /\ ShortLosses => Step + n * PacketSpan < Turn
           /\ (n + 1) * PacketSpan = n * PacketSpan + PacketSpan
  <1>1. PacketSpan \in Nat /\ MaxLost \in Nat /\ Step \in Nat /\ Turn \in Nat
    BY Sizes
  <1>2. PICK d \in Nat : MaxLost = n + d
    BY <1>1
  <1>3. MaxLost * PacketSpan = n * PacketSpan + d * PacketSpan
    BY <1>1, <1>2
  <1>4. n * PacketSpan \in Nat /\ d * PacketSpan \in Nat
    BY <1>1
  <1>5. (n + 1) * PacketSpan = n * PacketSpan + PacketSpan
    BY <1>1
  <1>6. ShortLosses => Step + MaxLost * PacketSpan < Turn
    BY DEF ShortLosses
  <1> QED
    BY <1>1, <1>3, <1>4, <1>5, <1>6

(* Three parts without rows fit any interval; a wider interval fits too.   *)
LEMMA NoRowsFit ==
    ASSUME NEW s \in AllStreams, NEW from, NEW to
    PROVE  PartsFit(NoRows[s], from, to)
  <1>1. NoRows[s] = [k \in 1 .. 3 |-> <<>>]
    BY DEF NoRows
  <1>2. <<>> \in Seq(RowType) /\ Len(<<>>) = 0
    OBVIOUS
  <1>3. 1 .. 0 = {}
    OBVIOUS
  <1> QED
    BY <1>1, <1>2, <1>3 DEF PartsFit

LEMMA PartsWiden ==
    ASSUME NEW three, NEW from \in Nat, NEW to \in Nat, NEW later \in Nat,
           to <= later, PartsFit(three, from, to)
    PROVE  PartsFit(three, from, later)
  <1>1. ASSUME NEW k \in 1 .. 3, NEW n \in 1 .. Len(three[k])
        PROVE  three[k][n].azimuth <= later
    <2>1. three[k] \in Seq(RowType)
      BY DEF PartsFit
    <2>2. three[k][n] \in RowType
      BY <2>1
    <2>3. three[k][n].azimuth \in 0 .. Turn - 1 /\ three[k][n].azimuth <= to
      BY <2>2 DEF RowType, PartsFit
    <2> QED
      BY <2>3, Sizes
  <1> QED
    BY <1>1 DEF PartsFit

(* A row that is written to the three parts at once.                       *)
LEMMA PartsGrow ==
    ASSUME NEW three, NEW from \in Nat, NEW to \in 0 .. Turn - 1, from <= to,
           PartsFit(three, from, to), NEW at \in Nat, NEW row,
           row = [k \in 1 .. 3 |-> [at |-> at, azimuth |-> to,
                                    entries |-> Cardinality(LayersOfPart(k))]]
    PROVE  PartsFit([k \in 1 .. 3 |-> Append(three[k], row[k])], from, to)
  <1> DEFINE more == [k \in 1 .. 3 |-> Append(three[k], row[k])]
  <1>1. ASSUME NEW k \in 1 .. 3
        PROVE  /\ three[k] \in Seq(RowType) /\ row[k] \in RowType
               /\ row[k].at = at /\ row[k].azimuth = to
               /\ row[k].entries = Cardinality(LayersOfPart(k))
               /\ Len(three[k]) = Len(three[1])
    <2>1. row[k] = [at |-> at, azimuth |-> to, entries |-> Cardinality(LayersOfPart(k))]
      OBVIOUS
    <2> QED
      BY <2>1 DEF PartsFit, RowType
  <1>2. ASSUME NEW k \in 1 .. 3
        PROVE  /\ more[k] \in Seq(RowType) /\ Len(more[k]) = Len(three[1]) + 1
               /\ \A n \in 1 .. Len(three[1]) : more[k][n] = three[k][n]
               /\ more[k][Len(three[1]) + 1] = row[k]
    <2>1. more[k] = Append(three[k], row[k])
      OBVIOUS
    <2>2. three[k] \in Seq(RowType) /\ row[k] \in RowType /\ Len(three[k]) = Len(three[1])
      BY <1>1
    <2> HIDE DEF more
    <2> QED
      BY <2>1, <2>2
  <1>3. 1 \in 1 .. 3
    OBVIOUS
  <1>4. more \in [1 .. 3 -> Seq(RowType)] /\ \A k \in 1 .. 3 : Len(more[k]) = Len(more[1])
    <2>1. \A k \in 1 .. 3 : more[k] \in Seq(RowType) /\ Len(more[k]) = Len(more[1])
      BY <1>2, <1>3
    <2> QED
      BY <2>1
  <1> HIDE DEF more
  <1>5. ASSUME NEW k \in 1 .. 3, NEW n \in 1 .. Len(more[k])
        PROVE  /\ more[k][n].at = more[1][n].at
               /\ more[k][n].azimuth = more[1][n].azimuth
               /\ more[k][n].entries = Cardinality(LayersOfPart(k))
               /\ from <= more[k][n].azimuth /\ more[k][n].azimuth <= to
    <2>1. Len(more[k]) = Len(three[1]) + 1 /\ Len(three[1]) \in Nat
      <3>1. Len(more[k]) = Len(three[1]) + 1
        BY <1>2, Zenon
      <3>2. three[1] \in Seq(RowType)
        BY <1>1, <1>3, Zenon
      <3> QED
        BY ONLY <3>1, <3>2
    <2>a. three[k] \in Seq(RowType) /\ Len(three[k]) = Len(three[1])
      BY <1>1, Zenon
    <2>2. CASE n = Len(three[1]) + 1
      <3>1. more[k][n] = row[k] /\ more[1][n] = row[1]
        BY <1>2, <1>3, <2>2
      <3>2. /\ row[k].at = at /\ row[k].azimuth = to /\ row[1].at = at /\ row[1].azimuth = to
            /\ row[k].entries = Cardinality(LayersOfPart(k))
        BY <1>1, <1>3
      <3>3. to \in Int /\ to <= to
        BY Sizes
      <3> QED
        BY ONLY <3>1, <3>2, <3>3, from <= to
    <2>3. CASE n # Len(three[1]) + 1
      <3>1. n \in 1 .. Len(three[1]) /\ n \in 1 .. Len(three[k])
        BY ONLY <2>1, <2>a, <2>3, n \in 1 .. Len(more[k])
      <3>2. more[k][n] = three[k][n] /\ more[1][n] = three[1][n]
        BY <1>2, <1>3, <3>1
      <3>3. /\ three[k][n].at = three[1][n].at
            /\ three[k][n].azimuth = three[1][n].azimuth
            /\ three[k][n].entries = Cardinality(LayersOfPart(k))
            /\ from <= three[k][n].azimuth /\ three[k][n].azimuth <= to
        BY ONLY <3>1, PartsFit(three, from, to), k \in 1 .. 3 DEF PartsFit
      <3> QED
        BY ONLY <3>2, <3>3
    <2> QED
      BY <2>2, <2>3
  <1>6. PartsFit(more, from, to)
    BY <1>4, <1>5 DEF PartsFit
  <1> QED
    BY <1>6 DEF more

-----------------------------------------------------------------------------
(* The actions of the HDL-32E.                                             *)

\* Clouds that are not touched, and azimuths that stay, keep CloudInv.
LEMMA CloudKept ==
    ASSUME CloudInv, UNCHANGED <<config, previousAzimuth, startAzimuth, parts, cpc>>
    PROVE  CloudInv'
  BY DEF CloudInv, WithCPC, config

LEMMA InitInv ==
    ASSUME Init
    PROVE  IInv
  <1>1. /\ pointCloudOption \in PointCloudOptions /\ intensityOption \in IntensityOptions
        /\ pc = "idle" /\ position = 0 /\ blockID = 0 /\ counter = 0 /\ echoes = {}
        /\ sensorAt \in 0 .. Turn - 1 /\ lost = 0 /\ packet = 0 /\ firedAt = 0
        /\ currentAzimuth = 0 /\ previousAzimuth = 0
        /\ pointIndexSPC = 0 /\ startID = 0 /\ pointIndexCPC = 0 /\ startAzimuth = 0
        /\ segment = [i \in 0 .. MaxPoints - 1 |-> NoPoint]
        /\ parts = NoRows
        /\ cpc = [s \in AllStreams |-> [start |-> 0, end |-> 0, parts |-> NoRows[s]]]
    BY DEF Init
  <1>2. TypeOK
    <2>1. pointCloudOption \in 0 .. 2 /\ intensityOption \in 0 .. 2
      BY <1>1, Velodyne32Assumption
    <2>2. /\ 0 \in 0 .. LastBlock /\ 0 \in 0 .. Sensors - 1 /\ 0 \in 0 .. Turn - 1
          /\ 0 \in 0 .. MaxPoints /\ 0 = Components * 0 /\ sensorAt \in Nat
      BY <1>1, Sizes DEF Components
    <2> QED
      BY <1>1, <2>1, <2>2 DEF TypeOK
  <1>3. CursorAligned /\ LoopInv
    BY <1>1 DEF CursorAligned, LoopInv
  <1>4. OnTrack
    <2>1. 0 % Turn = 0 /\ sensorAt < Turn /\ 0 <= sensorAt /\ 0 <= MaxLost
      BY <1>1, Sizes
    <2> QED
      BY <1>1, <2>1, Sizes DEF OnTrack
  <1>5. LastPoint
    <2>1. NoPoint \in PointType
      BY Sizes DEF NoPoint, PointType
    <2> QED
      BY <1>1, <2>1 DEF LastPoint, LastBefore
  <1>6. CloudInv
    <2>1. ASSUME NEW s \in AllStreams
          PROVE  /\ PartsFit(parts[s], startAzimuth, previousAzimuth)
                 /\ PartsFit(cpc[s].parts, cpc[s].start, cpc[s].end)
      <3>1. cpc[s].parts = NoRows[s]
        BY <1>1
      <3> QED
        BY <1>1, <3>1, NoRowsFit
    <2> QED
      BY <1>1, <2>1 DEF CloudInv
  <1> QED
    BY <1>2, <1>3, <1>4, <1>5, <1>6 DEF IInv

LEMMA LosePacketInv ==
    ASSUME IInv, LosePacket
    PROVE  IInv'
  <1>1. /\ pc = "idle" /\ lost < MaxLost /\ sensorAt >= Turn
        /\ sensorAt' = sensorAt + PacketSpan /\ lost' = lost + 1
        /\ UNCHANGED <<config, packet, pc, position, blockID, counter, echoes,
                       currentAzimuth, previousAzimuth, firedAt, pointIndexSPC, startID,
                       segment, spc, pointIndexCPC, startAzimuth, parts, cpc>>
    BY DEF LosePacket, cursor, angles, spcVars, cpcVars
  <1>2. /\ lost \in Nat /\ sensorAt \in Nat /\ PacketSpan \in Nat \ {0} /\ Step \in Nat
        /\ MaxLost \in Nat /\ firedAt \in Nat /\ pointIndexSPC \in 0 .. MaxPoints
    BY Sizes DEF IInv, TypeOK
  <1>3. TypeOK'
    <2>1. sensorAt' \in Nat /\ lost' \in Nat
      BY <1>1, <1>2
    <2> QED
      BY <1>1, <2>1 DEF IInv, TypeOK, config
  <1>4. CursorAligned' /\ LoopInv'
    BY <1>1 DEF IInv, CursorAligned, LoopInv
  <1>5. OnTrack'
    <2>1. /\ lost * PacketSpan \in Nat
          /\ (lost + 1) * PacketSpan = lost * PacketSpan + PacketSpan
      BY <1>1, <1>2, GapShort
    <2>2. firedAt <= sensorAt /\ sensorAt <= firedAt + Step + lost * PacketSpan
      BY <1>1 DEF IInv, OnTrack
    <2>3. firedAt <= sensorAt' /\ sensorAt' <= firedAt + Step + lost' * PacketSpan
      BY <1>1, <1>2, <2>1, <2>2
    <2>4. lost' <= MaxLost /\ previousAzimuth = firedAt % Turn
      BY <1>1, <1>2 DEF IInv, OnTrack
    <2> QED
      BY <1>1, <2>3, <2>4 DEF OnTrack
  <1>6. LastPoint'
    <2>1. /\ LastBefore(pointIndexSPC, segment, sensorAt, 0)
          /\ segment \in [0 .. MaxPoints - 1 -> PointType]
      BY <1>1 DEF IInv, LastPoint
    <2>2. sensorAt < sensorAt' /\ sensorAt' \in Int /\ sensorAt \in Int
      BY <1>1, <1>2
    <2>3. LastBefore(pointIndexSPC, segment, sensorAt', 0)
      BY <1>2, <2>1, <2>2, LaterFiring
    <2> QED
      BY <1>1, <2>1, <2>3 DEF LastPoint
  <1>7. CloudInv'
    BY <1>1, CloudKept DEF IInv
  <1> QED
    BY <1>3, <1>4, <1>5, <1>6, <1>7 DEF IInv

LEMMA ReceivePacketInv ==
    ASSUME IInv, ReceivePacket
    PROVE  IInv'
  <1>1. /\ pc = "idle" /\ pc' = "azimuth" /\ packet' = sensorAt /\ lost' = 0
        /\ sensorAt' = sensorAt + PacketSpan
        /\ UNCHANGED <<config, position, blockID, counter, echoes,
                       currentAzimuth, previousAzimuth, firedAt, pointIndexSPC, startID,
                       segment, spc, pointIndexCPC, startAzimuth, parts, cpc>>
    BY DEF ReceivePacket, angles, spcVars, cpcVars
  <1>2. /\ lost \in Nat /\ sensorAt \in Nat /\ PacketSpan \in Nat \ {0} /\ Step \in Nat
        /\ MaxLost \in Nat /\ firedAt \in Nat /\ Turn \in Nat
    BY Sizes DEF IInv, TypeOK
  <1>3. position = 0 /\ blockID = 0 /\ counter = 0
    BY <1>1 DEF IInv, LoopInv
  <1>4. TypeOK'
    <2>1. sensorAt' \in Nat /\ lost' \in Nat /\ packet' \in Nat
      BY <1>1, <1>2
    <2> QED
      BY <1>1, <2>1 DEF IInv, TypeOK, config
  <1>5. CursorAligned' /\ LoopInv'
    <2>1. 0 = 0 * BlockBytes
      BY Sizes
    <2> QED
      BY <1>1, <1>3, <2>1 DEF IInv, CursorAligned, LoopInv
  <1>6. BlockAt' = sensorAt
    <2>1. 0 * Step = 0
      BY <1>2
    <2> QED
      BY <1>1, <1>2, <1>3, <2>1 DEF BlockAt
  <1>7. OnTrack'
    <2>1. lost * PacketSpan \in Nat /\ (ShortLosses => Step + lost * PacketSpan < Turn)
      BY <1>2, GapShort DEF IInv, OnTrack
    <2>2. /\ firedAt <= sensorAt /\ previousAzimuth = firedAt % Turn
          /\ sensorAt >= Turn => sensorAt <= firedAt + Step + lost * PacketSpan
      BY <1>1 DEF IInv, OnTrack
    <2>3. ShortLosses => sensorAt < firedAt + Turn
      BY <1>2, <2>1, <2>2
    <2> QED
      BY <1>1, <1>2, <1>6, <2>2, <2>3 DEF OnTrack
  <1>8. LastPoint'
    BY <1>1, <1>6 DEF IInv, LastPoint
  <1>9. CloudInv'
    BY <1>1, CloudKept DEF IInv
  <1> QED
    BY <1>4, <1>5, <1>7, <1>8, <1>9 DEF IInv

(* A block begins: its azimuth is that of the firing, and the frame is     *)
(* kept or sent.                                                           *)
LEMMA StartBlockSteps ==
    ASSUME IInv, StartBlock
    PROVE  /\ BlockAzimuth = BlockAt % Turn /\ BlockAt \in Nat
           /\ BlockAt % Turn \in 0 .. Turn - 1
           /\ firedAt' = BlockAt /\ firedAt <= BlockAt
           /\ ShortLosses => BlockAt < firedAt + Turn
           /\ previousAzimuth = firedAt % Turn
           /\ previousAzimuth' = BlockAt % Turn /\ currentAzimuth' = BlockAt % Turn
           /\ NewScan => SendPointCloud(BlockAt % Turn)
           /\ ~NewScan => UNCHANGED <<spcVars, cpcVars>>
           /\ NewScan <=> BlockAt % Turn < previousAzimuth
  <1>1. /\ pc = "azimuth" /\ position = blockID * BlockBytes
        /\ previousAzimuth = firedAt % Turn /\ firedAt <= BlockAt
        /\ ShortLosses => BlockAt < firedAt + Turn
    BY DEF StartBlock, IInv, CursorAligned, OnTrack
  <1>2. blockID \in Nat /\ BlockAt \in Nat
    BY BlockAtNat DEF IInv
  <1>3. 2 \in 0 .. BlockBytes - 1 /\ position + 2 = blockID * BlockBytes + 2
    BY <1>1, Sizes
  <1>4. BlockAzimuth = BlockAt % Turn
    BY <1>3, FieldsOfBlock DEF IInv, BlockAzimuth
  <1>5. BlockAt % Turn \in 0 .. Turn - 1
    BY <1>2, Sizes, P64!TurnOf
  <1> QED
    BY <1>1, <1>2, <1>4, <1>5 DEF StartBlock, BlockAt, NewScan

(* What a cut does to the compact clouds.                                  *)
LEMMA CutClouds ==
    ASSUME IInv, StartBlock
    PROVE  CloudInv' /\ startAzimuth' \in 0 .. Turn - 1 /\ pointIndexCPC' \in 0 .. MaxPoints
  <1>1. /\ previousAzimuth \in Nat /\ startAzimuth \in Nat /\ previousAzimuth' \in Nat
        /\ startAzimuth \in 0 .. Turn - 1 /\ pointIndexCPC \in 0 .. MaxPoints
        /\ 0 \in 0 .. MaxPoints
    BY StartBlockSteps, Sizes DEF IInv, TypeOK
  <1>2. WithCPC' = WithCPC
    BY DEF StartBlock, config, WithCPC
  <1>3. ASSUME ~NewScan
        PROVE  CloudInv' /\ UNCHANGED <<startAzimuth, pointIndexCPC>>
    <2>1. /\ UNCHANGED <<startAzimuth, parts, cpc, pointIndexCPC>>
          /\ previousAzimuth <= previousAzimuth'
      BY <1>1, <1>3, StartBlockSteps DEF cpcVars
    <2>2. ASSUME NEW s \in AllStreams
          PROVE  PartsFit(parts[s], startAzimuth, previousAzimuth')
      BY <1>1, <2>1, PartsWiden DEF IInv, CloudInv
    <2>3. WithCPC => startAzimuth <= previousAzimuth'
      BY <1>1, <2>1 DEF IInv, CloudInv
    <2> QED
      BY <1>2, <2>1, <2>2, <2>3 DEF IInv, CloudInv
  <1>4. ASSUME NewScan, ~WithCPC
        PROVE  CloudInv' /\ UNCHANGED <<startAzimuth, pointIndexCPC>>
    <2>1. UNCHANGED <<startAzimuth, parts, cpc, pointIndexCPC>>
      BY <1>4, StartBlockSteps DEF SendPointCloud, PublishCPC, cpcVars
    <2>2. parts = NoRows
      BY <1>4 DEF IInv, CloudInv
    <2> QED
      BY <1>2, <1>4, <2>1, <2>2, NoRowsFit DEF IInv, CloudInv
  <1>5. ASSUME NewScan, WithCPC
        PROVE  CloudInv' /\ startAzimuth' = BlockAt % Turn /\ pointIndexCPC' = 0
    <2>1. /\ startAzimuth' = BlockAt % Turn /\ parts' = NoRows /\ pointIndexCPC' = 0
          /\ previousAzimuth' = BlockAt % Turn
          /\ cpc' = [s \in AllStreams |->
                      IF s \in Streams
                      THEN [start |-> startAzimuth, end |-> previousAzimuth,
                            parts |-> parts[s]]
                      ELSE cpc[s]]
      BY <1>5, StartBlockSteps DEF SendPointCloud, PublishCPC, ResetParts
    <2>2. ASSUME NEW s \in AllStreams
          PROVE  PartsFit(cpc'[s].parts, cpc'[s].start, cpc'[s].end)
      <3>1. CASE s \in Streams
        <4>1. /\ cpc'[s].parts = parts[s] /\ cpc'[s].start = startAzimuth
              /\ cpc'[s].end = previousAzimuth
          BY <2>1, <3>1
        <4> QED
          BY <4>1 DEF IInv, CloudInv
      <3>2. CASE s \notin Streams
        BY <2>1, <3>2 DEF IInv, CloudInv
      <3> QED
        BY <3>1, <3>2
    <2>3. startAzimuth' <= previousAzimuth'
      BY <1>1, <2>1
    <2> QED
      BY <1>2, <1>5, <2>1, <2>2, <2>3, NoRowsFit DEF CloudInv
  <1> QED
    BY <1>1, <1>3, <1>4, <1>5, StartBlockSteps

LEMMA StartBlockInv ==
    ASSUME IInv, StartBlock
    PROVE  IInv'
  <1>1. /\ pc = "azimuth" /\ pc' = "guard" /\ position' = position + 4
        /\ UNCHANGED <<config, blockID, counter, echoes, sensorAt, lost, packet>>
    BY DEF StartBlock, sensor
  <1>2. /\ firedAt' = BlockAt /\ BlockAt \in Nat /\ BlockAt % Turn \in 0 .. Turn - 1
        /\ previousAzimuth' = BlockAt % Turn /\ currentAzimuth' = BlockAt % Turn
    BY StartBlockSteps
  <1>3. /\ UNCHANGED segment
        /\ \/ pointIndexSPC' = 0 /\ startID' = 0
           \/ UNCHANGED <<pointIndexSPC, startID>>
    BY StartBlockSteps DEF SendPointCloud, PublishSPC, ResetSegment, spcVars
  <1>4. BlockAt' = BlockAt
    BY <1>1 DEF BlockAt
  <1>5. TypeOK'
    <2>1. position' \in Nat
      BY <1>1 DEF IInv, TypeOK
    <2>2. pointIndexSPC' \in 0 .. MaxPoints /\ startID' = Components * pointIndexSPC'
      BY <1>3, Sizes DEF IInv, TypeOK, Components
    <2> QED
      BY <1>1, <1>2, <2>1, <2>2, CutClouds DEF IInv, TypeOK, config
  <1>6. CursorAligned' /\ LoopInv'
    BY <1>1, <1>2 DEF IInv, CursorAligned, LoopInv
  <1>7. OnTrack'
    BY <1>1, <1>2, <1>4 DEF IInv, OnTrack
  <1>8. LastPoint'
    <2>1. /\ LastBefore(pointIndexSPC, segment, BlockAt, 0) /\ counter = 0
          /\ segment \in [0 .. MaxPoints - 1 -> PointType]
      BY <1>1 DEF IInv, LastPoint, LoopInv
    <2>2. LastBefore(pointIndexSPC', segment, BlockAt, 0)
      BY <1>3, <2>1 DEF LastBefore
    <2> QED
      BY <1>1, <1>2, <1>3, <2>1, <2>2 DEF LastPoint
  <1> QED
    BY <1>5, <1>6, <1>7, <1>8, CutClouds DEF IInv

LEMMA EnterBlockInv ==
    ASSUME IInv, EnterBlock
    PROVE  IInv'
  <1>1. /\ pc = "guard" /\ pc' = "beam" /\ echoes' \in EchoPatterns
        /\ UNCHANGED <<config, position, blockID, counter, sensorAt, lost, packet,
                       currentAzimuth, previousAzimuth, firedAt, pointIndexSPC, startID,
                       segment, spc, pointIndexCPC, startAzimuth, parts, cpc>>
    BY DEF EnterBlock, sensor, angles, spcVars, cpcVars
  <1>2. TypeOK'
    <2>1. echoes' \subseteq 0 .. Sensors - 1
      BY <1>1, Velodyne32Assumption
    <2> QED
      BY <1>1, <2>1 DEF IInv, TypeOK, config
  <1>3. CursorAligned' /\ LoopInv'
    <2>1. counter = 0 /\ position = blockID * BlockBytes + 4
      BY <1>1 DEF IInv, LoopInv, CursorAligned
    <2>2. blockID * BlockBytes + 4 + 3 * 0 = blockID * BlockBytes + 4
      BY Sizes, BlockAtNat DEF IInv
    <2> QED
      BY <1>1, <2>1, <2>2 DEF IInv, CursorAligned, LoopInv
  <1>4. OnTrack'
    BY <1>1 DEF IInv, OnTrack, BlockAt
  <1>5. LastPoint'
    BY <1>1 DEF IInv, LastPoint
  <1>6. CloudInv'
    BY <1>1, CloudKept DEF IInv
  <1> QED
    BY <1>2, <1>3, <1>4, <1>5, <1>6 DEF IInv

(* A block is left, decoded or skipped: the read position stands at the    *)
(* next one, which is fired Step later, or the packet is done.             *)
LEMMA LeaveKeeps ==
    ASSUME IInv, pc \in {"guard", "beam"},
           NEW byte, byte = blockID * BlockBytes + BlockBytes, LeaveBlock(byte),
           UNCHANGED <<currentAzimuth, sensorAt, lost, packet, firedAt, previousAzimuth>>,
           pointIndexSPC' \in 0 .. MaxPoints,
           segment' \in [0 .. MaxPoints - 1 -> PointType],
           LastBefore(pointIndexSPC', segment', firedAt, Sensors)
    PROVE  /\ CursorAligned' /\ LoopInv' /\ OnTrack' /\ LastPoint'
           /\ pc' \in {"azimuth", "idle"} /\ position' \in Nat
           /\ blockID' \in 0 .. LastBlock /\ counter' = 0 /\ echoes' = {}
  <1>1. /\ blockID \in Nat /\ blockID <= LastBlock /\ packet \in Nat /\ BlockAt \in Nat
        /\ Step \in Nat \ {0} /\ BlockBytes \in Nat \ {0} /\ Turn \in Nat
        /\ Blocks \in Nat \ {0} /\ LastBlock = Blocks - 1
        /\ lost \in Nat /\ PacketSpan \in Nat \ {0} /\ MaxLost \in Nat
        /\ blockID * Step \in Nat
    BY BlockAtNat, Sizes DEF IInv, TypeOK
  <1>2. /\ firedAt = BlockAt /\ sensorAt = packet + PacketSpan /\ lost <= MaxLost
        /\ previousAzimuth = firedAt % Turn /\ currentAzimuth = previousAzimuth
    BY DEF IInv, OnTrack, LoopInv
  <1>3. counter' = 0 /\ echoes' = {}
    BY DEF LeaveBlock
  <1>4. lost * PacketSpan \in Nat /\ (ShortLosses => Step + lost * PacketSpan < Turn)
    BY <1>1, <1>2, GapShort
  <1>5. ShortLosses => Step < Turn
    BY <1>1, <1>4
  <1>6. byte = (blockID + 1) * BlockBytes /\ byte \in Nat
    BY <1>1
  <1>7. Sensors \in Int
    BY Sizes
  <1>8. CASE blockID < LastBlock
    <2>1. pc' = "azimuth" /\ blockID' = blockID + 1 /\ position' = byte
      BY <1>8 DEF LeaveBlock
    <2>2. blockID' \in 0 .. LastBlock
      BY <1>1, <1>8, <2>1
    <2>3. CursorAligned' /\ LoopInv'
      BY <1>2, <1>3, <1>6, <2>1 DEF CursorAligned, LoopInv
    <2>4. BlockAt' = BlockAt + Step
      <3>1. (blockID + 1) * Step = blockID * Step + Step
        BY <1>1
      <3> QED
        BY <1>1, <2>1, <3>1 DEF BlockAt
    <2>5. firedAt <= BlockAt' /\ (ShortLosses => BlockAt' < firedAt + Turn)
      BY <1>1, <1>2, <1>5, <2>4
    <2>6. OnTrack'
      BY <1>2, <2>1, <2>5 DEF OnTrack
    <2>7. firedAt < BlockAt' /\ BlockAt' \in Int /\ firedAt \in Int
      BY <1>1, <1>2, <2>4
    <2>8. LastBefore(pointIndexSPC', segment', BlockAt', 0)
      BY <1>7, <2>7, LaterFiring
    <2>9. LastPoint'
      BY <2>1, <2>8 DEF LastPoint
    <2> QED
      BY <1>3, <1>6, <2>1, <2>2, <2>3, <2>6, <2>9
  <1>9. CASE blockID >= LastBlock
    <2>1. pc' = "idle" /\ blockID' = 0 /\ position' = 0
      BY <1>1, <1>9 DEF LeaveBlock
    <2>2. position' \in Nat /\ blockID' \in 0 .. LastBlock
      BY <1>1, <2>1
    <2>3. CursorAligned' /\ LoopInv'
      BY <1>2, <1>3, <2>1 DEF CursorAligned, LoopInv
    <2>4. sensorAt = firedAt + Step
      <3>1. blockID = Blocks - 1
        BY <1>1, <1>9
      <3>2. (Blocks - 1) * Step + Step = PacketSpan /\ (Blocks - 1) * Step \in Nat
        BY <1>1, Sizes
      <3>3. BlockAt = packet + (Blocks - 1) * Step
        BY <3>1 DEF BlockAt
      <3> QED
        BY <1>1, <1>2, <3>2, <3>3
    <2>5. firedAt <= sensorAt /\ sensorAt <= firedAt + Step + lost * PacketSpan
      BY <1>1, <1>2, <1>4, <2>4
    <2>6. OnTrack'
      BY <1>2, <2>1, <2>5 DEF OnTrack
    <2>7. firedAt < sensorAt /\ sensorAt \in Int /\ firedAt \in Int
      BY <1>1, <1>2, <2>4
    <2>8. LastBefore(pointIndexSPC', segment', sensorAt, 0)
      BY <1>7, <2>7, LaterFiring
    <2>9. LastPoint'
      BY <2>1, <2>8 DEF LastPoint
    <2> QED
      BY <1>3, <2>1, <2>2, <2>3, <2>6, <2>9
  <1> QED
    BY <1>1, <1>8, <1>9

LEMMA SkipBlockInv ==
    ASSUME IInv, SkipBlock
    PROVE  IInv'
  <1> DEFINE byte == position + 3 * Sensors
  <1>1. /\ pc = "guard" /\ LeaveBlock(byte)
        /\ UNCHANGED <<config, sensorAt, lost, packet, currentAzimuth, previousAzimuth,
                       firedAt, pointIndexSPC, startID, segment, spc, pointIndexCPC,
                       startAzimuth, parts, cpc>>
    BY DEF SkipBlock, sensor, angles, spcVars, cpcVars
  <1>2. byte = blockID * BlockBytes + BlockBytes
    <2>1. position = blockID * BlockBytes + 4 /\ blockID * BlockBytes \in Nat
      BY <1>1, Sizes, BlockAtNat DEF IInv, CursorAligned
    <2> QED
      BY <2>1, Sizes
  <1> HIDE DEF byte
  <1>3. /\ pointIndexSPC \in 0 .. MaxPoints /\ firedAt \in Int
        /\ segment \in [0 .. MaxPoints - 1 -> PointType]
        /\ counter \in Int /\ Sensors \in Int /\ counter <= Sensors
        /\ LastBefore(pointIndexSPC, segment, firedAt, counter)
    BY <1>1, Sizes DEF IInv, TypeOK, LastPoint
  <1>4. LastBefore(pointIndexSPC, segment, firedAt, Sensors)
    BY <1>3, LaterSensor
  <1>5. /\ CursorAligned' /\ LoopInv' /\ OnTrack' /\ LastPoint'
        /\ pc' \in {"azimuth", "idle"} /\ position' \in Nat
        /\ blockID' \in 0 .. LastBlock /\ counter' = 0 /\ echoes' = {}
    BY <1>1, <1>2, <1>3, <1>4, LeaveKeeps
  <1>6. TypeOK'
    <2>1. 0 \in 0 .. Sensors - 1
      BY Sizes
    <2> QED
      BY <1>1, <1>5, <2>1 DEF IInv, TypeOK, config
  <1>7. CloudInv'
    BY <1>1, CloudKept DEF IInv
  <1> QED
    BY <1>5, <1>6, <1>7 DEF IInv

-----------------------------------------------------------------------------
(* The point of the beam being decoded: the firing, its sensor, and the    *)
(* azimuth of the block.                                                   *)
LEMMA PointOfBeam ==
    ASSUME IInv, pc = "beam"
    PROVE  /\ FiringAt(position) = firedAt /\ firedAt \in Nat
           /\ Point(position).at = firedAt /\ Point(position).sensor = counter
           /\ Point(position).azimuth = firedAt % Turn
           /\ Point(position) \in PointType
           /\ counter \in Nat /\ counter <= Sensors - 1 /\ Sensors \in Nat
           /\ position + 3 + BytesLeft = blockID * BlockBytes + BlockBytes
  <1>1. /\ Sensors \in Nat \ {0} /\ BlockBytes = 4 + 3 * Sensors /\ Turn \in Nat \ {0}
        /\ firedAt \in Nat /\ counter \in Nat /\ counter <= Sensors - 1
    BY Sizes DEF IInv, TypeOK
  <1>2. blockID * BlockBytes \in Nat /\ position = blockID * BlockBytes + 4 + 3 * counter
    BY Sizes, BlockAtNat DEF IInv, CursorAligned
  <1>3. 4 + 3 * counter \in 0 .. BlockBytes - 1
    BY <1>1
  <1>4. position = blockID * BlockBytes + (4 + 3 * counter)
    BY <1>1, <1>2
  <1>5. FiringAt(position) = BlockAt
    BY <1>3, <1>4, FieldsOfBlock DEF IInv
  <1>6. firedAt = BlockAt /\ currentAzimuth = firedAt % Turn
    BY DEF IInv, OnTrack, LoopInv
  <1>7. firedAt % Turn \in 0 .. Turn
    BY <1>1
  <1>8. Point(position) = [at |-> firedAt, sensor |-> counter, azimuth |-> firedAt % Turn]
    BY <1>5, <1>6 DEF Point
  <1>9. Point(position) \in PointType
    BY <1>1, <1>7, <1>8 DEF PointType
  <1>10. position + 3 + BytesLeft = blockID * BlockBytes + BlockBytes
    BY <1>1, <1>2 DEF BytesLeft
  <1> QED
    BY <1>1, <1>5, <1>6, <1>8, <1>9, <1>10

LEMMA StoreSteps ==
    ASSUME IInv, pc = "beam", StorePoint
    PROVE  /\ pointIndexSPC' \in 0 .. MaxPoints /\ startID' = Components * pointIndexSPC'
           /\ segment' \in [0 .. MaxPoints - 1 -> PointType]
           /\ LastBefore(pointIndexSPC', segment', firedAt, counter + 1)
           /\ \/ UNCHANGED <<pointIndexSPC, startID, segment, spc>>
              \/ /\ segment' = [segment EXCEPT ![pointIndexSPC] = Point(position)]
                 /\ pointIndexSPC' = pointIndexSPC + 1 /\ pointIndexSPC < MaxPoints
                 /\ UNCHANGED spc
  <1>1. /\ pointIndexSPC \in 0 .. MaxPoints /\ pointIndexSPC \in Nat /\ MaxPoints \in Nat
        /\ startID = 4 * pointIndexSPC
        /\ segment \in [0 .. MaxPoints - 1 -> PointType]
        /\ firedAt \in Int /\ counter \in Int /\ counter + 1 \in Int /\ counter <= counter + 1
        /\ LastBefore(pointIndexSPC, segment, firedAt, counter)
    BY PointOfBeam, Sizes DEF IInv, TypeOK, LastPoint, Components
  <1>2. /\ Point(position) \in PointType
        /\ Point(position).at = firedAt /\ Point(position).sensor = counter
    BY PointOfBeam
  <1>3. CASE WithSPC /\ SegmentHasRoom /\ BeamOfBlock(position) \in echoes
    <2>1. startID \div Components = pointIndexSPC /\ pointIndexSPC < MaxPoints
      BY <1>1, <1>3 DEF Components, SegmentHasRoom
    <2>2. /\ segment' = [segment EXCEPT ![pointIndexSPC] = Point(position)]
          /\ pointIndexSPC' = pointIndexSPC + 1 /\ startID' = startID + 4 /\ UNCHANGED spc
      BY <1>3, <2>1 DEF StorePoint, Components
    <2>3. /\ segment' \in [0 .. MaxPoints - 1 -> PointType]
          /\ segment'[pointIndexSPC] = Point(position)
      BY <1>1, <1>2, <2>1, <2>2
    <2>4. pointIndexSPC' - 1 = pointIndexSPC
      BY <1>1, <2>2
    <2>5. LastBefore(pointIndexSPC', segment', firedAt, counter + 1)
      BY <1>1, <1>2, <2>3, <2>4 DEF LastBefore
    <2>6. pointIndexSPC' \in 0 .. MaxPoints /\ startID' = Components * pointIndexSPC'
      BY <1>1, <2>1, <2>2 DEF Components
    <2> QED
      BY <2>1, <2>2, <2>3, <2>5, <2>6
  <1>4. CASE ~(WithSPC /\ SegmentHasRoom /\ BeamOfBlock(position) \in echoes)
    <2>1. UNCHANGED <<pointIndexSPC, startID, segment, spc>>
      BY <1>4 DEF StorePoint, spcVars
    <2>2. LastBefore(pointIndexSPC, segment, firedAt, counter + 1)
      BY <1>1, LaterSensor
    <2> QED
      BY <1>1, <2>1, <2>2 DEF Components
  <1> QED
    BY <1>3, <1>4

(* A distance, and with the last one of a block a row in all three parts   *)
(* of the streams selected.                                                *)
LEMMA DistanceSteps ==
    ASSUME IInv, pc = "beam", StoreDistance, UNCHANGED <<config, previousAzimuth>>
    PROVE  CloudInv' /\ pointIndexCPC' \in 0 .. MaxPoints /\ startAzimuth' = startAzimuth
  <1>1. pointIndexCPC \in 0 .. MaxPoints /\ MaxPoints \in Nat
    BY Sizes DEF IInv, TypeOK
  <1>2. CASE ~(WithCPC /\ pointIndexCPC < MaxPoints)
    <2>1. UNCHANGED <<pointIndexCPC, startAzimuth, parts, cpc>>
      BY <1>2 DEF StoreDistance, cpcVars
    <2> QED
      BY <1>1, <2>1, CloudKept DEF IInv
  <1>3. CASE WithCPC /\ pointIndexCPC < MaxPoints
    <2> DEFINE row == [k \in 1 .. 3 |-> [at |-> firedAt, azimuth |-> previousAzimuth,
                                         entries |-> Cardinality(LayersOfPart(k))]]
    <2>1. /\ pointIndexCPC' = pointIndexCPC + 1
          /\ parts' = [s \in AllStreams |-> [k \in 1 .. 3 |->
                         IF s \in Streams /\ counter = Sensors - 1
                         THEN Append(parts[s][k], RowPart(position, k))
                         ELSE parts[s][k]]]
          /\ UNCHANGED <<startAzimuth, cpc>>
      BY <1>3 DEF StoreDistance
    <2>2. \A k \in 1 .. 3 : RowPart(position, k) = row[k]
      BY PointOfBeam DEF IInv, LoopInv, RowPart
    <2>3. /\ startAzimuth \in Nat /\ previousAzimuth \in 0 .. Turn - 1 /\ firedAt \in Nat
          /\ startAzimuth <= previousAzimuth
      BY <1>3, Sizes DEF IInv, TypeOK, CloudInv
    <2>4. ASSUME NEW s \in AllStreams
          PROVE  PartsFit(parts'[s], startAzimuth, previousAzimuth)
      <3>1. PartsFit(parts[s], startAzimuth, previousAzimuth)
        BY DEF IInv, CloudInv
      <3>2. CASE s \in Streams /\ counter = Sensors - 1
        <4>1. parts'[s] = [k \in 1 .. 3 |-> Append(parts[s][k], row[k])]
          <5> HIDE DEF row
          <5> QED
            BY <2>1, <2>2, <3>2
        <4>2. row = [k \in 1 .. 3 |-> [at |-> firedAt, azimuth |-> previousAzimuth,
                                       entries |-> Cardinality(LayersOfPart(k))]]
          OBVIOUS
        <4> HIDE DEF row
        <4>3. PartsFit([k \in 1 .. 3 |-> Append(parts[s][k], row[k])],
                       startAzimuth, previousAzimuth)
          BY <2>3, <3>1, <4>2, PartsGrow
        <4> QED
          BY <4>1, <4>3
      <3>3. CASE ~(s \in Streams /\ counter = Sensors - 1)
        <4>1. parts[s] \in [1 .. 3 -> Seq(RowType)]
          BY <3>1 DEF PartsFit
        <4>2. parts'[s] = parts[s]
          BY <2>1, <3>3, <4>1
        <4> QED
          BY <3>1, <4>2
      <3> QED
        BY <3>2, <3>3
    <2>5. WithCPC' /\ pointIndexCPC' \in 0 .. MaxPoints
      BY <1>1, <1>3, <2>1 DEF WithCPC, config
    <2> QED
      BY <1>3, <2>1, <2>3, <2>4, <2>5 DEF IInv, CloudInv
  <1> QED
    BY <1>2, <1>3

LEMMA DecodeBeamInv ==
    ASSUME IInv, DecodeBeam
    PROVE  IInv'
  <1>1. /\ pc = "beam" /\ StorePoint /\ StoreDistance
        /\ UNCHANGED <<config, sensorAt, lost, packet, currentAzimuth, previousAzimuth,
                       firedAt>>
    BY DEF DecodeBeam, sensor, angles
  <1>2. /\ pointIndexSPC' \in 0 .. MaxPoints /\ startID' = Components * pointIndexSPC'
        /\ segment' \in [0 .. MaxPoints - 1 -> PointType]
        /\ LastBefore(pointIndexSPC', segment', firedAt, counter + 1)
    BY <1>1, StoreSteps
  <1>3. CloudInv' /\ pointIndexCPC' \in 0 .. MaxPoints /\ startAzimuth' = startAzimuth
    BY <1>1, DistanceSteps
  <1>4. /\ firedAt \in Int /\ counter \in Nat /\ counter <= Sensors - 1 /\ Sensors \in Nat
        /\ counter + 1 \in Int /\ counter + 1 <= Sensors
    BY <1>1, PointOfBeam
  <1>5. CASE ~FrameFull /\ counter < Sensors - 1
    <2>1. /\ counter' = counter + 1 /\ position' = position + 3
          /\ UNCHANGED <<pc, blockID, echoes>>
      BY <1>5 DEF DecodeBeam
    <2>2. TypeOK'
      <3>1. position' \in Nat /\ counter' \in 0 .. Sensors - 1
        BY <1>4, <1>5, <2>1 DEF IInv, TypeOK
      <3> QED
        BY <1>1, <1>2, <1>3, <2>1, <3>1 DEF IInv, TypeOK, config
    <2>3. CursorAligned'
      <3>1. position = blockID * BlockBytes + 4 + 3 * counter /\ blockID * BlockBytes \in Nat
        BY <1>1, Sizes, BlockAtNat DEF IInv, CursorAligned
      <3>2. position' = blockID * BlockBytes + 4 + 3 * (counter + 1)
        BY <1>4, <2>1, <3>1
      <3> QED
        BY <1>1, <2>1, <3>2 DEF CursorAligned
    <2>4. LoopInv' /\ OnTrack'
      BY <1>1, <2>1 DEF IInv, LoopInv, OnTrack, BlockAt
    <2>5. LastPoint'
      BY <1>1, <1>2, <2>1 DEF LastPoint
    <2> QED
      BY <1>3, <2>2, <2>3, <2>4, <2>5 DEF IInv
  <1>6. CASE ~(~FrameFull /\ counter < Sensors - 1)
    <2> DEFINE byte == position + 3 + (IF FrameFull THEN BytesLeft ELSE 0)
    <2>1. LeaveBlock(byte)
      BY <1>6 DEF DecodeBeam
    <2>2. byte = blockID * BlockBytes + BlockBytes
      <3>1. position + 3 + BytesLeft = blockID * BlockBytes + BlockBytes
        BY <1>1, PointOfBeam
      <3>2. CASE FrameFull
        BY <3>1, <3>2
      <3>3. CASE ~FrameFull
        <4>1. counter = Sensors - 1
          BY <1>4, <1>6, <3>3
        <4>2. BytesLeft = 0
          BY <1>4, <4>1 DEF BytesLeft
        <4> QED
          BY <3>1, <3>3, <4>2
      <3> QED
        BY <3>2, <3>3
    <2> HIDE DEF byte
    <2>3. LastBefore(pointIndexSPC', segment', firedAt, Sensors)
      BY <1>2, <1>4, LaterSensor
    <2>4. /\ CursorAligned' /\ LoopInv' /\ OnTrack' /\ LastPoint'
          /\ pc' \in {"azimuth", "idle"} /\ position' \in Nat
          /\ blockID' \in 0 .. LastBlock /\ counter' = 0 /\ echoes' = {}
      BY <1>1, <1>2, <2>1, <2>2, <2>3, LeaveKeeps
    <2>5. TypeOK'
      <3>1. 0 \in 0 .. Sensors - 1
        BY Sizes
      <3> QED
        BY <1>1, <1>2, <1>3, <2>4, <3>1 DEF IInv, TypeOK, config
    <2> QED
      BY <1>3, <2>4, <2>5 DEF IInv
  <1> QED
    BY <1>5, <1>6

LEMMA StepPreserves ==
    ASSUME IInv, [Next]_vars
    PROVE  IInv'
  <1>1. CASE Next
    BY <1>1, LosePacketInv, ReceivePacketInv, StartBlockInv, EnterBlockInv,
       SkipBlockInv, DecodeBeamInv DEF Next
  <1>2. CASE UNCHANGED vars
    <2>1. UNCHANGED <<config, pc, position, blockID, counter, echoes, sensorAt, lost,
                      packet, currentAzimuth, previousAzimuth, firedAt, pointIndexSPC,
                      startID, segment, spc, pointIndexCPC, startAzimuth, parts, cpc>>
      BY <1>2 DEF vars, cursor, sensor, angles, spcVars, cpcVars
    <2>2. TypeOK' /\ CursorAligned' /\ LoopInv'
      BY <2>1 DEF IInv, TypeOK, CursorAligned, LoopInv, config
    <2>3. OnTrack' /\ LastPoint'
      BY <2>1 DEF IInv, OnTrack, LastPoint, BlockAt
    <2>4. CloudInv'
      BY <2>1, CloudKept DEF IInv
    <2> QED
      BY <2>2, <2>3, <2>4 DEF IInv
  <1> QED
    BY <1>1, <1>2

-----------------------------------------------------------------------------
(* What the invariant says of the compact clouds that were sent.           *)

(* Counting the layers of a part by numbering them.                        *)
LEMMA Numbered ==
    ASSUME NEW S, NEW n \in Nat, NEW f \in [1 .. n -> S],
           \A i, j \in 1 .. n : f[i] = f[j] => i = j,
           \A x \in S : \E i \in 1 .. n : f[i] = x
    PROVE  Cardinality(S) = n
  <1>1. f \in Bijection(1 .. n, S)
    BY Zenon DEF Bijection, Injection, Surjection, IsInjective
  <1>2. ExistsBijection(1 .. n, S)
    BY <1>1, Zenon DEF ExistsBijection
  <1> QED
    BY <1>2, FS_CountingElements

(* The 32 layers are twelve, eleven and nine.                              *)
LEMMA LayersAnnounced ==
    ASSUME Sensors = 32
    PROVE  /\ Cardinality(LayersOfPart(1)) = 12
           /\ Cardinality(LayersOfPart(2)) = 11
           /\ Cardinality(LayersOfPart(3)) = 9
  <1>1. \A layer \in 0 .. 31 :
          /\ PartOf(layer) = 1 <=> layer = 0 \/ layer % 3 = 1
          /\ PartOf(layer) = 2 <=> layer # 0 /\ (layer = 2 \/ layer % 3 = 0)
          /\ PartOf(layer) = 3 <=> layer # 2 /\ layer % 3 = 2
    BY DEF PartOf
  <1>2. \A k \in 1 .. 3 : LayersOfPart(k) = {layer \in 0 .. 31 : PartOf(layer) = k}
    BY DEF LayersOfPart
  <1>3. Cardinality(LayersOfPart(1)) = 12
    <2> DEFINE S == LayersOfPart(1)
               f == [i \in 1 .. 12 |-> IF i = 1 THEN 0 ELSE 3 * i - 5]
    <2>1. S = {layer \in 0 .. 31 : layer = 0 \/ layer % 3 = 1}
      BY <1>1, <1>2
    <2>2. f \in [1 .. 12 -> S]
      <3> SUFFICES ASSUME NEW i \in 1 .. 12
                   PROVE  f[i] \in S
        OBVIOUS
      <3>1. f[i] \in 0 .. 31 /\ (f[i] = 0 \/ f[i] % 3 = 1)
        OBVIOUS
      <3> QED
        BY <2>1, <3>1
    <2>3. \A i, j \in 1 .. 12 : f[i] = f[j] => i = j
      OBVIOUS
    <2>4. ASSUME NEW x \in S
          PROVE  \E i \in 1 .. 12 : f[i] = x
      <3>1. CASE x = 0
        <4>1. 1 \in 1 .. 12 /\ f[1] = x
          BY <3>1
        <4> QED
          BY <4>1
      <3>2. CASE x # 0
        <4>1. x \in 1 .. 31 /\ x % 3 = 1
          BY <2>1, <3>2
        <4>2. (x + 5) \div 3 \in 2 .. 12 /\ 3 * ((x + 5) \div 3) - 5 = x
          BY <4>1
        <4> QED
          BY <4>2
      <3> QED
        BY <3>1, <3>2
    <2> HIDE DEF S, f
    <2>5. ASSUME NEW n, n = 12
          PROVE  Cardinality(S) = n
      <3>1. /\ n \in Nat /\ f \in [1 .. n -> S]
            /\ \A i, j \in 1 .. n : f[i] = f[j] => i = j
            /\ \A x \in S : \E i \in 1 .. n : f[i] = x
        BY <2>2, <2>3, <2>4, <2>5
      <3> HIDE DEF S, f
      <3> QED
        BY ONLY <3>1, Numbered
    <2> QED
      BY <2>5 DEF S
  <1>4. Cardinality(LayersOfPart(2)) = 11
    <2> DEFINE S == LayersOfPart(2)
               f == [i \in 1 .. 11 |-> IF i = 1 THEN 2 ELSE 3 * i - 3]
    <2>1. S = {layer \in 0 .. 31 : layer # 0 /\ (layer = 2 \/ layer % 3 = 0)}
      BY <1>1, <1>2
    <2>2. f \in [1 .. 11 -> S]
      <3> SUFFICES ASSUME NEW i \in 1 .. 11
                   PROVE  f[i] \in S
        OBVIOUS
      <3>1. f[i] \in 1 .. 31 /\ (f[i] = 2 \/ f[i] % 3 = 0)
        OBVIOUS
      <3> QED
        BY <2>1, <3>1
    <2>3. \A i, j \in 1 .. 11 : f[i] = f[j] => i = j
      OBVIOUS
    <2>4. ASSUME NEW x \in S
          PROVE  \E i \in 1 .. 11 : f[i] = x
      <3>1. CASE x = 2
        <4>1. 1 \in 1 .. 11 /\ f[1] = x
          BY <3>1
        <4> QED
          BY <4>1
      <3>2. CASE x # 2
        <4>1. x \in 1 .. 31 /\ x % 3 = 0
          BY <2>1, <3>2
        <4>2. (x + 3) \div 3 \in 2 .. 11 /\ 3 * ((x + 3) \div 3) - 3 = x
          BY <4>1
        <4> QED
          BY <4>2
      <3> QED
        BY <3>1, <3>2
    <2> HIDE DEF S, f
    <2>5. ASSUME NEW n, n = 11
          PROVE  Cardinality(S) = n
      <3>1. /\ n \in Nat /\ f \in [1 .. n -> S]
            /\ \A i, j \in 1 .. n : f[i] = f[j] => i = j
            /\ \A x \in S : \E i \in 1 .. n : f[i] = x
        BY <2>2, <2>3, <2>4, <2>5
      <3> HIDE DEF S, f
      <3> QED
        BY ONLY <3>1, Numbered
    <2> QED
      BY <2>5 DEF S
  <1>5. Cardinality(LayersOfPart(3)) = 9
    <2> DEFINE S == LayersOfPart(3)
               f == [i \in 1 .. 9 |-> 3 * i + 2]
    <2>1. S = {layer \in 0 .. 31 : layer # 2 /\ layer % 3 = 2}
      BY <1>1, <1>2
    <2>2. f \in [1 .. 9 -> S]
      <3> SUFFICES ASSUME NEW i \in 1 .. 9
                   PROVE  f[i] \in S
        OBVIOUS
      <3>1. f[i] \in 3 .. 31 /\ f[i] % 3 = 2
        OBVIOUS
      <3> QED
        BY <2>1, <3>1
    <2>3. \A i, j \in 1 .. 9 : f[i] = f[j] => i = j
      OBVIOUS
    <2>4. ASSUME NEW x \in S
          PROVE  \E i \in 1 .. 9 : f[i] = x
      <3>1. x \in 0 .. 31 /\ x # 2 /\ x % 3 = 2
        BY <2>1
      <3>2. (x - 2) \div 3 \in 1 .. 9 /\ 3 * ((x - 2) \div 3) + 2 = x
        BY <3>1
      <3> QED
        BY <3>2
    <2> HIDE DEF S, f
    <2>5. ASSUME NEW n, n = 9
          PROVE  Cardinality(S) = n
      <3>1. /\ n \in Nat /\ f \in [1 .. n -> S]
            /\ \A i, j \in 1 .. n : f[i] = f[j] => i = j
            /\ \A x \in S : \E i \in 1 .. n : f[i] = x
        BY <2>2, <2>3, <2>4, <2>5
      <3> HIDE DEF S, f
      <3> QED
        BY ONLY <3>1, Numbered
    <2> QED
      BY <2>5 DEF S
  <1> QED
    BY <1>3, <1>4, <1>5

LEMMA CloudsBelong ==
    ASSUME Sensors = 32, IInv
    PROVE  PartsBelongTogether
  <1> SUFFICES ASSUME NEW s \in Streams
               PROVE  LET sent == cpc[s].parts
                      IN  /\ \A k \in 1 .. 3 : RowsOf(sent[k]) = RowsOf(sent[1])
                          /\ \A k \in 1 .. 3 : \A i \in 1 .. Len(sent[k]) :
                                 sent[k][i].entries = Announced[k]
                          /\ \A i \in 1 .. Len(sent[1]) :
                                 sent[1][i].entries + sent[2][i].entries
                                   + sent[3][i].entries = Sensors
    BY DEF PartsBelongTogether
  <1> DEFINE sent == cpc[s].parts
  <1>1. PartsFit(sent, cpc[s].start, cpc[s].end)
    BY DEF IInv, CloudInv, Streams
  <1>2. /\ \A k \in 1 .. 3 : Len(sent[k]) = Len(sent[1])
        /\ \A k \in 1 .. 3 : \A n \in 1 .. Len(sent[k]) :
            /\ sent[k][n].at = sent[1][n].at /\ sent[k][n].azimuth = sent[1][n].azimuth
            /\ sent[k][n].entries = Cardinality(LayersOfPart(k))
    BY <1>1 DEF PartsFit
  <1> HIDE DEF sent
  <1>3. ASSUME NEW k \in 1 .. 3
        PROVE  RowsOf(sent[k]) = RowsOf(sent[1])
    BY <1>2 DEF RowsOf
  <1>4. \A k \in 1 .. 3 : Cardinality(LayersOfPart(k)) = Announced[k]
    BY LayersAnnounced DEF Announced
  <1>5. ASSUME NEW i \in 1 .. Len(sent[1])
        PROVE  sent[1][i].entries + sent[2][i].entries + sent[3][i].entries = Sensors
    <2>1. /\ 1 \in 1 .. 3 /\ 2 \in 1 .. 3 /\ 3 \in 1 .. 3
          /\ Len(sent[2]) = Len(sent[1]) /\ Len(sent[3]) = Len(sent[1])
      BY <1>2
    <2>2. sent[1][i].entries = 12 /\ sent[2][i].entries = 11 /\ sent[3][i].entries = 9
      BY <1>2, <2>1, LayersAnnounced
    <2> QED
      BY <2>2
  <1> QED
    BY <1>2, <1>3, <1>4, <1>5 DEF sent

LEMMA CloudsInInterval ==
    ASSUME IInv
    PROVE  RowsInAnnouncedInterval
  BY DEF IInv, CloudInv, PartsFit, RowsInAnnouncedInterval, Streams

-----------------------------------------------------------------------------
(* The refinement of the HDL-32E.                                          *)

LEMMA TurnOfFiring ==
    ASSUME firedAt \in Nat, previousAzimuth = firedAt % Turn
    PROVE  turnCollected = firedAt \div Turn
  <1>1. Turn \in Nat \ {0}
    BY Sizes
  <1>2. (firedAt - (firedAt % Turn)) \div Turn = firedAt \div Turn
    BY ONLY <1>1, firedAt \in Nat, P64!TurnOf
  <1> QED
    BY <1>2, Zenon DEF turnCollected

(* Without a shared cloud there is no frame and nothing is published.      *)
SharedOff == ~WithSPC => pointIndexSPC = 0 /\ spc = <<>>

LEMMA SharedOffKept ==
    ASSUME SharedOff, [Next]_vars
    PROVE  SharedOff'
  <1>1. CASE ~WithSPC
    <2>1. UNCHANGED <<pointIndexSPC, spc>>
      BY <1>1
      DEF Next, LosePacket, ReceivePacket, StartBlock, EnterBlock, SkipBlock, DecodeBeam,
          SendPointCloud, PublishSPC, StorePoint, spcVars, vars
    <2> QED
      BY <1>1, <2>1 DEF SharedOff
  <1>2. CASE WithSPC
    <2>1. UNCHANGED config
      BY DEF Next, LosePacket, ReceivePacket, StartBlock, EnterBlock, SkipBlock,
             DecodeBeam, vars
    <2> QED
      BY <1>2, <2>1 DEF SharedOff, WithSPC, config
  <1> QED
    BY <1>1, <1>2

LEMMA InitScan ==
    ASSUME Init
    PROVE  SPCScan!ScanInit /\ SharedOff
  <1>1. turnCollected = 0
    <2>1. firedAt = 0 /\ previousAzimuth = 0
      BY DEF Init
    <2>2. Turn \in Nat \ {0}
      BY Sizes
    <2>3. (0 - 0) \div Turn = 0
      BY ONLY <2>2
    <2> QED
      BY <2>1, <2>3, Zenon DEF turnCollected
  <1>2. SegmentPoints = <<>> /\ spc = <<>> /\ pointIndexSPC = 0
    BY DEF Init, SegmentPoints
  <1> QED
    BY <1>1, <1>2 DEF SPCScan!ScanInit, SharedOff

(* A block whose azimuth falls begins a later turn, any other is fired in  *)
(* the turn of the last one.                                               *)
LEMMA StartBlockScan ==
    ASSUME ShortLosses, IInv, SharedOff, StartBlock
    PROVE  SPCScan!Publish \/ UNCHANGED SPCScan!scanVars
  <1>1. /\ firedAt' = BlockAt /\ BlockAt \in Nat
        /\ previousAzimuth' = BlockAt % Turn
        /\ NewScan => SendPointCloud(BlockAt % Turn)
        /\ ~NewScan => UNCHANGED <<pointIndexSPC, startID, segment, spc>>
        /\ NewScan <=> BlockAt % Turn < firedAt % Turn
        /\ firedAt <= BlockAt /\ BlockAt < firedAt + Turn
        /\ previousAzimuth = firedAt % Turn
    BY StartBlockSteps DEF spcVars
  <1>2. firedAt \in Nat /\ Turn \in Nat \ {0}
    BY Sizes DEF IInv, TypeOK
  <1>3. turnCollected = firedAt \div Turn
    BY <1>1, <1>2, TurnOfFiring
  <1>4. turnCollected' = BlockAt \div Turn
    BY <1>1, <1>2, P64!TurnOf DEF turnCollected
  <1>5. CASE NewScan
    <2>1. turnCollected' > turnCollected
      BY <1>1, <1>2, <1>3, <1>4, <1>5, P64!TurnsApart
    <2>2. spc' = SegmentPoints /\ SegmentPoints' = <<>>
      <3>1. CASE WithSPC
        <4>1. spc' = SegmentPoints /\ pointIndexSPC' = 0
          BY <1>1, <1>5, <3>1 DEF SendPointCloud, PublishSPC, ResetSegment
        <4> QED
          BY <4>1 DEF SegmentPoints
      <3>2. CASE ~WithSPC
        <4>1. spc' = <<>> /\ pointIndexSPC' = 0 /\ pointIndexSPC = 0
          BY <1>1, <1>5, <3>2 DEF SendPointCloud, PublishSPC, spcVars, SharedOff
        <4> QED
          BY <4>1 DEF SegmentPoints
      <3> QED
        BY <3>1, <3>2
    <2> QED
      BY <2>1, <2>2 DEF SPCScan!Publish
  <1>6. CASE ~NewScan
    <2>1. turnCollected' = turnCollected
      <3>1. BlockAt % Turn \in Int /\ firedAt % Turn \in Int
        BY <1>1, <1>2
      <3>2. BlockAt % Turn >= firedAt % Turn
        BY <1>1, <1>6, <3>1
      <3> QED
        BY <1>1, <1>2, <1>3, <1>4, <3>2, P64!TurnsApart
    <2>2. spc' = spc /\ SegmentPoints' = SegmentPoints
      BY <1>1, <1>6 DEF SegmentPoints
    <2> QED
      BY <2>1, <2>2 DEF SPCScan!scanVars
  <1> QED
    BY <1>5, <1>6

(* A point is appended, with its turn and its azimuth, behind the last.    *)
LEMMA DecodeBeamScan ==
    ASSUME IInv, DecodeBeam
    PROVE  SPCScan!Collect \/ UNCHANGED SPCScan!scanVars
  <1>1. /\ pc = "beam" /\ StorePoint /\ UNCHANGED <<firedAt, previousAzimuth>>
    BY DEF DecodeBeam, angles
  <1>2. turnCollected' = turnCollected
    BY <1>1 DEF turnCollected
  <1>3. CASE UNCHANGED <<pointIndexSPC, startID, segment, spc>>
    BY <1>2, <1>3 DEF SPCScan!scanVars, SegmentPoints
  <1>4. CASE /\ segment' = [segment EXCEPT ![pointIndexSPC] = Point(position)]
             /\ pointIndexSPC' = pointIndexSPC + 1 /\ pointIndexSPC < MaxPoints
             /\ UNCHANGED spc
    <2> DEFINE n == pointIndexSPC
               p == Point(position)
               frame == [k \in 1 .. n |-> segment[k - 1]]
    <2>1. /\ n \in Nat /\ MaxPoints \in Nat /\ n < MaxPoints
          /\ segment \in [0 .. MaxPoints - 1 -> PointType]
      BY <1>4, Sizes DEF IInv, TypeOK, LastPoint
    <2>2. /\ p.at = firedAt /\ p.sensor = counter /\ p.azimuth = firedAt % Turn
          /\ p \in PointType /\ counter \in Nat
      BY <1>1, PointOfBeam
    <2>3. /\ firedAt \in Nat /\ Turn \in Nat \ {0} /\ previousAzimuth = firedAt % Turn
      BY Sizes DEF IInv, TypeOK, OnTrack
    <2>4. LastBefore(n, segment, firedAt, counter)
      BY <1>1 DEF IInv, LastPoint
    <2>5. segment' = [segment EXCEPT ![n] = p] /\ pointIndexSPC' = n + 1
      BY <1>4
    <2> HIDE DEF n, p
    <2>6. SegmentPoints = frame
      BY DEF SegmentPoints, n
    <2>7. SegmentPoints' = [k \in 1 .. n + 1 |-> IF k = n + 1 THEN p ELSE frame[k]]
      <3>1. SegmentPoints' = [k \in 1 .. n + 1 |-> segment'[k - 1]]
        BY <2>5 DEF SegmentPoints
      <3>2. ASSUME NEW k \in 1 .. n + 1
            PROVE  segment'[k - 1] = IF k = n + 1 THEN p ELSE frame[k]
        BY <2>1, <2>5
      <3> QED
        BY <3>1, <3>2
    <2> DEFINE new == [k \in 1 .. n + 1 |-> IF k = n + 1 THEN p ELSE frame[k]]
    <2>8. Len(frame) = n /\ Len(new) = n + 1 /\ new[n + 1] = p
      BY <2>1
    <2>9. SubSeq(new, 1, n) = frame
      <3>1. SubSeq(new, 1, n) = [k \in 1 .. n |-> new[k]]
        BY <2>1
      <3>2. ASSUME NEW k \in 1 .. n
            PROVE  new[k] = frame[k]
        BY <2>1
      <3> QED
        BY <3>1, <3>2
    <2>10. p \in [at : Nat, sensor : Nat, azimuth : 0 .. Turn]
      <3>1. p \in [at : Int, sensor : 0 .. Sensors - 1, azimuth : 0 .. Turn]
        BY <2>2 DEF PointType
      <3> QED
        BY <2>2, <2>3, <3>1
    <2>11. /\ turnCollected * Turn <= p.at /\ p.at <= (turnCollected + 1) * Turn
           /\ p.azimuth = p.at - turnCollected * Turn
      <3>1. turnCollected = firedAt \div Turn
        BY <2>3, TurnOfFiring
      <3>2. /\ firedAt = (firedAt \div Turn) * Turn + (firedAt % Turn)
            /\ firedAt % Turn \in 0 .. Turn - 1 /\ firedAt \div Turn \in Nat
        BY <2>3, P64!TurnOf
      <3>3. ((firedAt \div Turn) + 1) * Turn = (firedAt \div Turn) * Turn + Turn
        BY <2>3, <3>2
      <3>4. (firedAt \div Turn) * Turn \in Nat
        BY <2>3, <3>2
      <3> QED
        BY <2>2, <2>3, <3>1, <3>2, <3>3, <3>4
    <2>12. frame # <<>> =>
             frame[n].at < p.at \/ (frame[n].at = p.at /\ frame[n].sensor < p.sensor)
      <3>1. frame # <<>> => n > 0
        BY <2>1
      <3>2. n > 0 => frame[n] = segment[n - 1]
        BY <2>1
      <3> QED
        BY <2>2, <2>4, <3>1, <3>2 DEF LastBefore
    <2> HIDE DEF frame, new
    <2>13. SPCScan!Collect
      BY <1>2, <1>4, <2>1, <2>6, <2>7, <2>8, <2>9, <2>10, <2>11, <2>12
      DEF SPCScan!Collect, SPCScan!ScanPoint, SPCScan!InTurn, SPCScan!TrueAzimuth,
          SPCScan!FiredBefore, new
    <2> QED
      BY <2>13
  <1> QED
    BY <1>1, <1>3, <1>4, StoreSteps

LEMMA StepScan ==
    ASSUME ShortLosses, IInv, SharedOff, [Next]_vars
    PROVE  [SPCScan!Collect \/ SPCScan!Publish]_(SPCScan!scanVars)
  <1>1. CASE StartBlock
    BY <1>1, StartBlockScan
  <1>2. CASE DecodeBeam
    BY <1>2, DecodeBeamScan
  <1>3. CASE LosePacket \/ ReceivePacket \/ EnterBlock \/ SkipBlock \/ UNCHANGED vars
    <2>1. UNCHANGED <<firedAt, previousAzimuth, pointIndexSPC, segment, spc>>
      BY <1>3 DEF LosePacket, ReceivePacket, EnterBlock, SkipBlock, vars, angles, spcVars
    <2> QED
      BY <2>1 DEF SPCScan!scanVars, turnCollected, SegmentPoints
  <1> QED
    BY <1>1, <1>2, <1>3 DEF Next

-----------------------------------------------------------------------------
(* The HDL-64E: its decoder, and what is proved of it, by instance.        *)

LEMMA Assumed64 ==
    P64!Velodyne64Assumption
  BY HDL64Assumption DEF HDL64!Velodyne64Assumption, P64!Velodyne64Assumption

LEMMA Init64Is ==
    ASSUME HDL64!Init
    PROVE  P64!Init
  BY DEF HDL64!Init, HDL64!NoPoint, P64!Init, P64!NoPoint

LEMMA LosePacketIs ==
    ASSUME HDL64!LosePacket
    PROVE  P64!LosePacket
  BY DEF HDL64!LosePacket, HDL64!PacketSpan, HDL64!loop, HDL64!cloud,
         P64!LosePacket, P64!PacketSpan, P64!loop, P64!cloud

LEMMA ReceivePacketIs ==
    ASSUME HDL64!ReceivePacket
    PROVE  P64!ReceivePacket
  BY DEF HDL64!ReceivePacket, HDL64!PacketSpan, HDL64!loop, HDL64!cloud,
         P64!ReceivePacket, P64!PacketSpan, P64!loop, P64!cloud

LEMMA StartBlockIs ==
    ASSUME HDL64!StartBlock
    PROVE  P64!StartBlock
  BY DEF HDL64!StartBlock, HDL64!ReportedUpper, HDL64!ReportedAzimuth, HDL64!FiringAt,
         HDL64!BlockBytes, HDL64!SendSharedPointCloud, HDL64!SegmentPoints,
         HDL64!ResetSegment, HDL64!cloud, HDL64!sensor,
         P64!StartBlock, P64!ReportedUpper, P64!ReportedAzimuth, P64!FiringAt,
         P64!BlockBytes, P64!SendSharedPointCloud, P64!SegmentPoints,
         P64!ResetSegment, P64!cloud, P64!sensor

LEMMA EnterBlockIs ==
    ASSUME HDL64!EnterBlock
    PROVE  P64!EnterBlock
  BY DEF HDL64!EnterBlock, HDL64!HasRoom, HDL64!cloud, HDL64!sensor,
         P64!EnterBlock, P64!HasRoom, P64!cloud, P64!sensor

LEMMA SkipBlockIs ==
    ASSUME HDL64!SkipBlock
    PROVE  P64!SkipBlock
  BY DEF HDL64!SkipBlock, HDL64!HasRoom, HDL64!LeaveBlock, HDL64!LastBlock,
         HDL64!cloud, HDL64!sensor,
         P64!SkipBlock, P64!HasRoom, P64!LeaveBlock, P64!LastBlock,
         P64!cloud, P64!sensor

LEMMA DecodeBeamIs ==
    ASSUME HDL64!DecodeBeam
    PROVE  P64!DecodeBeam
  BY DEF HDL64!DecodeBeam, HDL64!StorePoint, HDL64!BeamOfBlock, HDL64!BlockBytes,
         HDL64!Components, HDL64!Point, HDL64!FiringAt, HDL64!SensorID, HDL64!FrameFull,
         HDL64!BytesLeft, HDL64!LeaveBlock, HDL64!LastBlock, HDL64!cloud, HDL64!sensor,
         P64!DecodeBeam, P64!StorePoint, P64!BeamOfBlock, P64!BlockBytes,
         P64!Components, P64!Point, P64!FiringAt, P64!SensorID, P64!FrameFull,
         P64!BytesLeft, P64!LeaveBlock, P64!LastBlock, P64!cloud, P64!sensor

LEMMA Next64Is ==
    ASSUME HDL64!Next
    PROVE  P64!Next
  BY LosePacketIs, ReceivePacketIs, StartBlockIs, EnterBlockIs, SkipBlockIs, DecodeBeamIs
  DEF HDL64!Next, P64!Next

-----------------------------------------------------------------------------
(* Either decoder, the one chosen at the start.                            *)

HDLInv ==
    /\ decoder \in {"HDL-32E", "HDL-64E"}
    /\ decoder = "HDL-32E" => IInv /\ SharedOff
    /\ decoder = "HDL-64E" => P64!IInv

LEMMA HDLInitInv ==
    ASSUME Init32 \/ Init64
    PROVE  HDLInv
  <1>1. CASE Init32
    BY <1>1, InitInv, InitScan DEF Init32, HDLInv
  <1>2. CASE Init64
    <2>1. decoder = "HDL-64E" /\ HDL64!Init
      BY <1>2 DEF Init64
    <2>2. P64!Init
      BY <2>1, Init64Is
    <2>3. P64!IInv
      BY <2>2, Assumed64, P64!InitInv
    <2> QED
      BY <2>1, <2>3 DEF HDLInv
  <1> QED
    BY <1>1, <1>2

(* A step is one of the decoder that was chosen.                           *)
LEMMA StepOfOne ==
    ASSUME [Next32 \/ Next64]_hdlVars, HDLInv
    PROVE  /\ decoder' = decoder
           /\ decoder = "HDL-32E" => [Next]_vars
           /\ decoder = "HDL-64E" => [P64!Next]_(P64!vars)
  <1>1. CASE Next32
    BY <1>1 DEF Next32
  <1>2. CASE Next64
    BY <1>2, Next64Is DEF Next64
  <1>3. CASE UNCHANGED hdlVars
    <2>1. UNCHANGED vars /\ UNCHANGED <<decoder, upperBlock>>
      BY <1>3 DEF hdlVars
    <2>2. UNCHANGED P64!vars
      BY <2>1
      DEF vars, cursor, sensor, angles, spcVars, P64!vars, P64!loop, P64!sensor, P64!cloud
    <2> QED
      BY <2>1, <2>2
  <1> QED
    BY <1>1, <1>2, <1>3

LEMMA HDLStepInv ==
    ASSUME HDLInv, [Next32 \/ Next64]_hdlVars
    PROVE  HDLInv'
  <1>1. CASE decoder = "HDL-32E"
    <2>1. IInv /\ SharedOff /\ [Next]_vars /\ decoder' = decoder
      BY <1>1, StepOfOne DEF HDLInv
    <2>2. IInv' /\ SharedOff'
      BY <2>1, StepPreserves, SharedOffKept
    <2> QED
      BY <1>1, <2>1, <2>2 DEF HDLInv
  <1>2. CASE decoder = "HDL-64E"
    <2>1. P64!IInv /\ [P64!Next]_(P64!vars) /\ decoder' = decoder
      BY <1>2, StepOfOne DEF HDLInv
    <2>2. P64!IInv'
      BY <2>1, Assumed64, P64!StepPreserves
    <2> QED
      BY <1>2, <2>1, <2>2 DEF HDLInv
  <1> QED
    BY <1>1, <1>2 DEF HDLInv

(* The frames of the 64 are those of the 32, by the same variables.        *)
LEMMA SameFrames ==
    /\ P64!turnCollected = turnCollected
    /\ P64!SegmentPoints = SegmentPoints
  BY DEF P64!turnCollected, P64!SegmentPoints, turnCollected, SegmentPoints

LEMMA HDLInitScan ==
    ASSUME Init32 \/ Init64
    PROVE  SPCScan!ScanInit
  <1>1. CASE Init32
    BY <1>1, InitScan DEF Init32
  <1>2. CASE Init64
    <2>1. P64!Init
      BY <1>2, Init64Is DEF Init64
    <2>2. P64!Scan!ScanInit
      BY <2>1, Assumed64, P64!InitScan
    <2> QED
      BY <2>2, SameFrames DEF P64!Scan!ScanInit, SPCScan!ScanInit
  <1> QED
    BY <1>1, <1>2

LEMMA HDLStepScan ==
    ASSUME ShortLosses, P64!ShortLosses, HDLInv, [Next32 \/ Next64]_hdlVars
    PROVE  [HDLCollect \/ SPCScan!Publish]_(SPCScan!scanVars)
  <1>1. CASE decoder = "HDL-32E"
    <2>1. IInv /\ SharedOff /\ [Next]_vars
      BY <1>1, StepOfOne DEF HDLInv
    <2>2. [SPCScan!Collect \/ SPCScan!Publish]_(SPCScan!scanVars)
      BY <2>1, StepScan
    <2> QED
      BY <1>1, <2>2 DEF HDLCollect
  <1>2. CASE decoder = "HDL-64E"
    <2>1. P64!IInv /\ [P64!Next]_(P64!vars)
      BY <1>2, StepOfOne DEF HDLInv
    <2>2. [P64!Scan!Collect \/ P64!Scan!Publish]_(P64!Scan!scanVars)
      BY <2>1, Assumed64, P64!StepScan
    <2>3. CASE P64!Scan!Collect
      <3>1. Scan64!Collect
        BY <2>3
        DEF P64!Scan!Collect, P64!Scan!ScanPoint, P64!Scan!InTurn, P64!Scan!TrueAzimuth,
            P64!Scan!FiredBefore, P64!turnCollected, P64!SegmentPoints,
            Scan64!Collect, Scan64!ScanPoint, Scan64!InTurn, Scan64!TrueAzimuth,
            Scan64!FiredBefore, turnCollected, SegmentPoints
      <3> QED
        BY <1>2, <3>1 DEF HDLCollect
    <2>4. CASE P64!Scan!Publish
      BY <2>4
      DEF P64!Scan!Publish, P64!turnCollected, P64!SegmentPoints,
          SPCScan!Publish, turnCollected, SegmentPoints
    <2>5. CASE UNCHANGED P64!Scan!scanVars
      BY <2>5
      DEF P64!Scan!scanVars, P64!turnCollected, P64!SegmentPoints,
          SPCScan!scanVars, turnCollected, SegmentPoints
    <2> QED
      BY <2>2, <2>3, <2>4, <2>5
  <1> QED
    BY <1>1, <1>2 DEF HDLInv

LEMMA HDLIs64 ==
    ASSUME P64!IInv
    PROVE  HDL64!TypeOK /\ HDL64!SegmentBounds /\ HDL64!CursorAligned
  <1>1. P64!TypeOK /\ P64!SegmentBounds /\ P64!CursorAligned
    BY DEF P64!IInv
  <1>2. HDL64!TypeOK
    BY <1>1 DEF P64!TypeOK, P64!PointType, HDL64!TypeOK, HDL64!PointType
  <1>3. HDL64!SegmentBounds
    BY <1>1 DEF P64!SegmentBounds, P64!Components, HDL64!SegmentBounds, HDL64!Components
  <1>4. HDL64!CursorAligned
    BY <1>1 DEF P64!CursorAligned, P64!BlockBytes, HDL64!CursorAligned, HDL64!BlockBytes
  <1> QED
    BY <1>2, <1>3, <1>4

-----------------------------------------------------------------------------
(* Every variable of the chosen decoder keeps its type, so that no point   *)
(* is written outside of the segment and no byte read outside of the       *)
(* packet, whatever overflows or is lost.                                  *)
THEOREM HDLTyped == HDLSpec => []HDLTypeOK
  <1>1. Init32 \/ Init64 => HDLInv
    BY HDLInitInv
  <1>2. HDLInv /\ [Next32 \/ Next64]_hdlVars => HDLInv'
    BY HDLStepInv
  <1>3. HDLInv => HDLTypeOK
    BY HDLIs64 DEF HDLInv, IInv, HDLTypeOK
  <1> QED
    BY <1>1, <1>2, <1>3, PTL DEF HDLSpec

(* However a block is left - decoded, full in the middle of it, or skipped *)
(* - the read position stands at the field that is read next.              *)
THEOREM HDLCursorSafe == HDLSpec => []HDLCursorAligned
  <1>1. Init32 \/ Init64 => HDLInv
    BY HDLInitInv
  <1>2. HDLInv /\ [Next32 \/ Next64]_hdlVars => HDLInv'
    BY HDLStepInv
  <1>3. HDLInv => HDLCursorAligned
    BY HDLIs64 DEF HDLInv, IInv, HDLCursorAligned
  <1> QED
    BY <1>1, <1>2, <1>3, PTL DEF HDLSpec

(* The three containers of a compact cloud hold the same rows and have the *)
(* entries they announce, 32 together: for the 32 sensors of the HDL-32E,  *)
(* as 12, 11 and 9 are fixed in sendCPC.                                   *)
THEOREM PartsBelong ==
    ASSUME Sensors = 32
    PROVE  HDLSpec => []HDLPartsBelongTogether
  <1>1. Init32 \/ Init64 => HDLInv
    BY HDLInitInv
  <1>2. HDLInv /\ [Next32 \/ Next64]_hdlVars => HDLInv'
    BY HDLStepInv
  <1>3. HDLInv => HDLPartsBelongTogether
    BY CloudsBelong DEF HDLInv, HDLPartsBelongTogether
  <1> QED
    BY <1>1, <1>2, <1>3, PTL DEF HDLSpec

(* The azimuth of every row of a compact cloud is from the start to the    *)
(* end azimuth that the cloud announces, whatever was lost in between.     *)
THEOREM RowsInInterval == HDLSpec => []HDLRowsInAnnouncedInterval
  <1>1. Init32 \/ Init64 => HDLInv
    BY HDLInitInv
  <1>2. HDLInv /\ [Next32 \/ Next64]_hdlVars => HDLInv'
    BY HDLStepInv
  <1>3. HDLInv => HDLRowsInAnnouncedInterval
    BY CloudsInInterval DEF HDLInv, HDLRowsInAnnouncedInterval
  <1> QED
    BY <1>1, <1>2, <1>3, PTL DEF HDLSpec

(* Either decoder collects the points of one turn, in the order of firing  *)
(* and with the azimuths they were fired at, and publishes them together   *)
(* when a later turn begins, as long as less than a turn is lost at once.  *)
THEOREM HDLScans ==
    ASSUME ShortLosses, P64!ShortLosses
    PROVE  HDLSpec => HDLRefinesScan
  <1>1. Init32 \/ Init64 => HDLInv /\ SPCScan!ScanInit
    BY HDLInitInv, HDLInitScan
  <1>2. HDLInv /\ [Next32 \/ Next64]_hdlVars => HDLInv'
    BY HDLStepInv
  <1>3. HDLInv /\ [Next32 \/ Next64]_hdlVars
            => [HDLCollect \/ SPCScan!Publish]_(SPCScan!scanVars)
    BY HDLStepScan
  <1> QED
    BY <1>1, <1>2, <1>3, PTL DEF HDLSpec, HDLRefinesScan
=============================================================================
