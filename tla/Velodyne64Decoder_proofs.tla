----------------------- MODULE Velodyne64Decoder_proofs ----------------------
(***************************************************************************)
(* The HDL-64E decoder implements ScanFrames, for any number of sensors,   *)
(* blocks and points, however beams are echoed and frames overflow, as     *)
(* long as less than a turn is lost at once (ShortLosses: a longer loss is *)
(* not seen in the azimuths).                                              *)
(*                                                                         *)
(* A step that collects a point must name the turn and the true azimuth of *)
(* the firing, behind the point before.  So the invariant ties the read    *)
(* position to the block being decoded (CursorAligned), the azimuths to    *)
(* where the head stood (OnTrack), and the last point to the firing that   *)
(* comes next (LastPoint).                                                 *)
(***************************************************************************)
EXTENDS Velodyne64Decoder, TLAPS

-----------------------------------------------------------------------------
ShortLosses == Step + MaxLost * PacketSpan < Turn

(* Where the head fires the block being decoded.                           *)
BlockAt == packet + (index \div 2) * Step

LoopInv ==
    /\ pc \in {"idle", "block", "guard"} => counter = 0
    /\ pc = "idle" => position = 0 /\ index = 0
    /\ pc \in {"guard", "beam"} =>
        /\ azimuth = previousAzimuth
        /\ upperBlock = (index % 2 = 0)

OnTrack ==
    /\ previousAzimuth = firedAt % Turn
    /\ lost <= MaxLost
    /\ pc # "idle" => sensorAt = packet + PacketSpan
    /\ pc = "idle" =>
        /\ firedAt <= sensorAt
        /\ sensorAt >= Turn => sensorAt <= firedAt + Step + lost * PacketSpan
    /\ pc = "block" => firedAt <= BlockAt /\ (ShortLosses => BlockAt < firedAt + Turn)
    /\ pc \in {"guard", "beam"} => firedAt = BlockAt

(* The last of n points in the segment is fired before this.               *)
LastBefore(n, points, at, id) ==
    n > 0 =>
        \/ points[n - 1].at < at
        \/ points[n - 1].at = at /\ points[n - 1].sensor < id

LastPoint ==
    /\ pc = "idle" => LastBefore(pointIndex, segment, sensorAt, 0)
    /\ pc = "block" =>
        LastBefore(pointIndex, segment, BlockAt, IF index % 2 = 0 THEN 0 ELSE Sensors)
    /\ pc \in {"guard", "beam"} => LastBefore(pointIndex, segment, firedAt, SensorID)

IInv == TypeOK /\ SegmentBounds /\ CursorAligned /\ LoopInv /\ OnTrack /\ LastPoint

-----------------------------------------------------------------------------
(* Lemmas about the operators.                                             *)

LEMMA Sizes ==
    ASSUME Velodyne64Assumption
    PROVE  /\ Turn \in Nat \ {0} /\ Step \in Nat \ {0} /\ Pairs \in Nat \ {0}
           /\ Sensors \in Nat \ {0} /\ MaxPoints \in Nat \ {0} /\ MaxLost \in Nat
           /\ BlockBytes \in Nat \ {0} /\ BlockBytes = 4 + 3 * Sensors
           /\ PacketSpan \in Nat \ {0} /\ PacketSpan = Pairs * Step
           /\ LastBlock = 2 * Pairs - 1
  BY DEF Velodyne64Assumption, BlockBytes, PacketSpan, LastBlock

LEMMA BlockOfByte ==
    ASSUME NEW n \in Nat \ {0}, NEW k \in Nat, NEW rest \in 0 .. n - 1
    PROVE  (k * n + rest) \div n = k
  OBVIOUS

(* The two blocks of a pair are fired together, the next pair Step later.  *)
LEMMA NextBlockAt ==
    ASSUME NEW s \in Nat, NEW k \in Nat
    PROVE  /\ (k \div 2) * s \in Nat
           /\ ((k + 1) \div 2) * s = (k \div 2) * s + (IF k % 2 = 0 THEN 0 ELSE s)
           /\ (k + 1) % 2 = IF k % 2 = 0 THEN 1 ELSE 0
  <1>1. CASE k % 2 = 0
    <2>1. (k + 1) \div 2 = k \div 2 /\ (k + 1) % 2 = 1
      BY <1>1
    <2> QED
      BY <1>1, <2>1
  <1>2. CASE k % 2 = 1
    <2>1. (k + 1) \div 2 = (k \div 2) + 1 /\ (k + 1) % 2 = 0
      BY <1>2
    <2>2. ((k \div 2) + 1) * s = (k \div 2) * s + s
      OBVIOUS
    <2> QED
      BY <1>2, <2>1, <2>2
  <1> QED
    BY <1>1, <1>2

(* Turns and azimuths of two firings less than a turn apart.               *)
LEMMA TurnOf ==
    ASSUME NEW t \in Nat \ {0}, NEW f \in Nat
    PROVE  /\ f % t \in 0 .. t - 1 /\ f \div t \in Nat
           /\ f = (f \div t) * t + (f % t)
           /\ (f - (f % t)) \div t = f \div t
  OBVIOUS

LEMMA TurnsApart ==
    ASSUME NEW t \in Nat \ {0}, NEW f \in Nat, NEW g \in Nat, f <= g, g < f + t
    PROVE  /\ g % t < f % t => g \div t > f \div t
           /\ g % t >= f % t => g \div t = f \div t
  OBVIOUS

LEMMA BlockAtNat ==
    ASSUME Velodyne64Assumption, TypeOK
    PROVE  index \in Nat /\ packet \in Nat /\ BlockAt \in Nat
  <1>1. index \in Nat /\ packet \in Nat
    BY Sizes DEF TypeOK
  <1>2. Step \in Nat
    BY Sizes
  <1>3. (index \div 2) * Step \in Nat
    BY <1>1, <1>2, NextBlockAt
  <1> QED
    BY <1>1, <1>3 DEF BlockAt

(* What stands in the packet at a byte of the block being decoded.         *)
LEMMA FieldsOfBlock ==
    ASSUME Velodyne64Assumption, TypeOK, NEW rest \in 0 .. BlockBytes - 1,
           NEW byte, byte = index * BlockBytes + rest
    PROVE  /\ FiringAt(byte) = BlockAt
           /\ ReportedAzimuth(byte) = BlockAt % Turn
           /\ ReportedUpper(byte) = (index % 2 = 0)
  <1>1. index \in Nat /\ BlockBytes \in Nat \ {0}
    BY Sizes, BlockAtNat
  <1>2. byte \div BlockBytes = index
    BY <1>1, BlockOfByte
  <1> QED
    BY <1>2 DEF FiringAt, ReportedAzimuth, ReportedUpper, BlockAt

(* The last point of a segment, and later firings.                         *)
LEMMA LastIsPoint ==
    ASSUME NEW m \in Nat, NEW n \in Nat, n <= m, NEW points \in [0 .. m - 1 -> PointType]
    PROVE  n > 0 => points[n - 1] \in PointType
  OBVIOUS

LEMMA LaterSensor ==
    ASSUME NEW n \in Nat, NEW points, NEW at \in Int, NEW id \in Int, NEW more \in Int,
           id <= more, n > 0 => points[n - 1] \in PointType, LastBefore(n, points, at, id)
    PROVE  LastBefore(n, points, at, more)
  BY DEF LastBefore, PointType

LEMMA LaterFiring ==
    ASSUME NEW n \in Nat, NEW points, NEW at \in Int, NEW id, NEW later \in Int, NEW any,
           at < later, n > 0 => points[n - 1] \in PointType, LastBefore(n, points, at, id)
    PROVE  LastBefore(n, points, later, any)
  BY DEF LastBefore, PointType

(* Losses up to the bound are shorter than a turn.                         *)
LEMMA GapShort ==
    ASSUME Velodyne64Assumption, NEW n \in Nat, n <= MaxLost
    PROVE  /\ n * PacketSpan \in Nat
           /\ ShortLosses => Step + n * PacketSpan < Turn
           /\ (n + 1) * PacketSpan = n * PacketSpan + PacketSpan
  <1>1. PacketSpan \in Nat /\ MaxLost \in Nat /\ Step \in Nat /\ Turn \in Nat
    BY Sizes
  <1>2. PICK d \in Nat : MaxLost = n + d
    BY <1>1
  <1>3. MaxLost * PacketSpan = n * PacketSpan + d * PacketSpan
    BY <1>1, <1>2
  <1>4. n * PacketSpan \in Nat /\ d * PacketSpan \in Nat
    BY <1>1
  <1>5. (n + 1) * PacketSpan = n * PacketSpan + PacketSpan
    BY <1>1
  <1>6. ShortLosses => Step + MaxLost * PacketSpan < Turn
    BY DEF ShortLosses
  <1> QED
    BY <1>1, <1>3, <1>4, <1>5, <1>6

-----------------------------------------------------------------------------
(* The actions.                                                            *)

LEMMA InitInv ==
    ASSUME Velodyne64Assumption, Init
    PROVE  IInv
  <1> USE Sizes
  <1>1. TypeOK
    <2>1. NoPoint \in PointType
      BY DEF NoPoint, PointType
    <2>2. segment \in [0 .. MaxPoints - 1 -> PointType]
      BY <2>1 DEF Init
    <2>3. /\ pc = "idle" /\ position = 0 /\ index = 0 /\ counter = 0 /\ echoes = {}
          /\ azimuth = 0 /\ upperBlock = TRUE /\ sensorAt \in 0 .. Turn - 1 /\ lost = 0
          /\ packet = 0 /\ firedAt = 0 /\ previousAzimuth = 0
          /\ pointIndex = 0 /\ startID = 0
      BY DEF Init
    <2>4. 0 \in 0 .. 2 * Pairs - 1 /\ 0 \in 0 .. Sensors - 1 /\ 0 \in 0 .. Turn - 1
      BY Sizes
    <2>5. sensorAt \in Nat
      BY <2>3
    <2> QED
      BY <2>2, <2>3, <2>4, <2>5 DEF TypeOK
  <1>2. SegmentBounds /\ CursorAligned /\ LoopInv
    BY DEF Init, SegmentBounds, CursorAligned, LoopInv, Components
  <1>3. OnTrack
    <2>1. 0 % Turn = 0
      BY Sizes
    <2> QED
      BY <2>1 DEF Init, OnTrack
  <1>4. LastPoint
    BY DEF Init, LastPoint, LastBefore
  <1> QED
    BY <1>1, <1>2, <1>3, <1>4 DEF IInv

LEMMA LosePacketInv ==
    ASSUME Velodyne64Assumption, IInv, LosePacket
    PROVE  IInv'
  <1>1. /\ pc = "idle" /\ lost < MaxLost /\ sensorAt >= Turn
        /\ sensorAt' = sensorAt + PacketSpan /\ lost' = lost + 1
        /\ UNCHANGED <<packet, pc, position, index, counter, echoes, azimuth, upperBlock,
                       firedAt, previousAzimuth, pointIndex, startID, segment, spc>>
    BY DEF LosePacket, loop, cloud
  <1>2. /\ lost \in Nat /\ sensorAt \in Nat /\ PacketSpan \in Nat \ {0} /\ Step \in Nat
        /\ MaxLost \in Nat /\ firedAt \in Nat
    BY Sizes DEF IInv, TypeOK
  <1>3. TypeOK'
    BY <1>1, <1>2 DEF IInv, TypeOK
  <1>4. SegmentBounds' /\ CursorAligned' /\ LoopInv'
    BY <1>1 DEF IInv, SegmentBounds, CursorAligned, LoopInv
  <1>5. OnTrack'
    <2>1. /\ lost * PacketSpan \in Nat
          /\ (lost + 1) * PacketSpan = lost * PacketSpan + PacketSpan
      BY <1>1, <1>2, GapShort
    <2>2. firedAt <= sensorAt /\ sensorAt <= firedAt + Step + lost * PacketSpan
      BY <1>1 DEF IInv, OnTrack
    <2>3. firedAt <= sensorAt' /\ sensorAt' <= firedAt + Step + lost' * PacketSpan
      BY <1>1, <1>2, <2>1, <2>2
    <2>4. lost' <= MaxLost /\ previousAzimuth = firedAt % Turn
      BY <1>1, <1>2 DEF IInv, OnTrack
    <2> QED
      BY <1>1, <2>3, <2>4 DEF OnTrack
  <1>6. LastPoint'
    <2>1. LastBefore(pointIndex, segment, sensorAt, 0)
      BY <1>1 DEF IInv, LastPoint
    <2>2. pointIndex > 0 => segment[pointIndex - 1] \in PointType
      <3>1. /\ pointIndex \in Nat /\ pointIndex <= MaxPoints /\ MaxPoints \in Nat
            /\ segment \in [0 .. MaxPoints - 1 -> PointType]
        BY Sizes DEF IInv, TypeOK, SegmentBounds
      <3> QED
        BY <3>1
    <2>3. LastBefore(pointIndex, segment, sensorAt + PacketSpan, 0)
      BY <1>2, <2>1, <2>2 DEF LastBefore, PointType
    <2> QED
      BY <1>1, <2>3 DEF LastPoint
  <1> QED
    BY <1>3, <1>4, <1>5, <1>6 DEF IInv

LEMMA ReceivePacketInv ==
    ASSUME Velodyne64Assumption, IInv, ReceivePacket
    PROVE  IInv'
  <1>1. /\ pc = "idle" /\ pc' = "block" /\ packet' = sensorAt /\ lost' = 0
        /\ sensorAt' = sensorAt + PacketSpan
        /\ UNCHANGED <<position, index, counter, echoes, azimuth, upperBlock,
                       firedAt, previousAzimuth, pointIndex, startID, segment, spc>>
    BY DEF ReceivePacket, loop, cloud
  <1>2. /\ lost \in Nat /\ sensorAt \in Nat /\ PacketSpan \in Nat \ {0} /\ Step \in Nat
        /\ MaxLost \in Nat /\ firedAt \in Nat /\ Turn \in Nat
    BY Sizes DEF IInv, TypeOK
  <1>3. position = 0 /\ index = 0 /\ counter = 0
    BY <1>1 DEF IInv, LoopInv
  <1>4. TypeOK'
    BY <1>1, <1>2 DEF IInv, TypeOK
  <1>5. SegmentBounds' /\ CursorAligned' /\ LoopInv'
    <2>1. 0 = 0 * BlockBytes
      BY Sizes
    <2> QED
      BY <1>1, <1>3, <2>1 DEF IInv, SegmentBounds, CursorAligned, LoopInv
  <1>6. BlockAt' = sensorAt
    <2>1. (0 \div 2) * Step = 0
      BY <1>2
    <2> QED
      BY <1>1, <1>2, <1>3, <2>1 DEF BlockAt
  <1>7. OnTrack'
    <2>1. /\ lost * PacketSpan \in Nat
          /\ ShortLosses => Step + lost * PacketSpan < Turn
      BY <1>2, GapShort DEF IInv, OnTrack
    <2>2. /\ firedAt <= sensorAt /\ previousAzimuth = firedAt % Turn
          /\ sensorAt >= Turn => sensorAt <= firedAt + Step + lost * PacketSpan
      BY <1>1 DEF IInv, OnTrack
    <2>3. ShortLosses => sensorAt < firedAt + Turn
      BY <1>2, <2>1, <2>2
    <2> QED
      BY <1>1, <1>2, <1>6, <2>2, <2>3 DEF OnTrack
  <1>8. LastPoint'
    BY <1>1, <1>3, <1>6 DEF IInv, LastPoint
  <1> QED
    BY <1>4, <1>5, <1>7, <1>8 DEF IInv

(* A block begins: its azimuth is that of the firing, and the frame is     *)
(* kept or published.                                                      *)
LEMMA StartBlockSteps ==
    ASSUME Velodyne64Assumption, IInv, StartBlock
    PROVE  /\ firedAt' = BlockAt /\ BlockAt \in Nat
           /\ previousAzimuth' = BlockAt % Turn /\ azimuth' = BlockAt % Turn
           /\ upperBlock' = (index % 2 = 0)
           /\ IF BlockAt % Turn < firedAt % Turn
              THEN /\ spc' = SegmentPoints /\ pointIndex' = 0 /\ startID' = 0
                   /\ UNCHANGED segment
              ELSE UNCHANGED <<pointIndex, startID, segment, spc>>
  <1>1. pc = "block" /\ position = index * BlockBytes /\ previousAzimuth = firedAt % Turn
    BY DEF StartBlock, IInv, CursorAligned, OnTrack
  <1>2. index \in Nat /\ packet \in Nat /\ BlockAt \in Nat
    BY BlockAtNat DEF IInv
  <1>3. 0 \in 0 .. BlockBytes - 1 /\ 2 \in 0 .. BlockBytes - 1 /\ BlockBytes \in Nat
    BY Sizes
  <1>4. position = index * BlockBytes + 0 /\ position + 2 = index * BlockBytes + 2
    BY <1>1, <1>2, <1>3
  <1>5. ReportedAzimuth(position + 2) = BlockAt % Turn
    BY <1>3, <1>4, FieldsOfBlock DEF IInv
  <1>6. ReportedUpper(position) = (index % 2 = 0)
    BY <1>3, <1>4, FieldsOfBlock DEF IInv
  <1> QED
    BY <1>1, <1>2, <1>5, <1>6
    DEF StartBlock, BlockAt, SendSharedPointCloud, ResetSegment, cloud

LEMMA StartBlockInv ==
    ASSUME Velodyne64Assumption, IInv, StartBlock
    PROVE  IInv'
  <1>1. /\ pc = "block" /\ pc' = "guard" /\ position' = position + 4
        /\ UNCHANGED <<index, counter, echoes, sensorAt, lost, packet>>
    BY DEF StartBlock, sensor
  <1>2. /\ firedAt' = BlockAt /\ BlockAt \in Nat
        /\ previousAzimuth' = BlockAt % Turn /\ azimuth' = BlockAt % Turn
        /\ upperBlock' = (index % 2 = 0) /\ UNCHANGED segment
        /\ \/ pointIndex' = 0 /\ startID' = 0
           \/ UNCHANGED <<pointIndex, startID>>
    BY StartBlockSteps
  <1>3. BlockAt' = BlockAt
    BY <1>1 DEF BlockAt
  <1>4. BlockAt % Turn \in 0 .. Turn - 1
    BY <1>2, Sizes, TurnOf
  <1>5. TypeOK'
    <2>1. position' \in Nat
      BY <1>1 DEF IInv, TypeOK
    <2>2. pointIndex' \in Nat /\ startID' \in Nat
      BY <1>2 DEF IInv, TypeOK
    <2>3. upperBlock' \in BOOLEAN
      BY <1>2
    <2> QED
      BY <1>1, <1>2, <1>4, <2>1, <2>2, <2>3 DEF IInv, TypeOK
  <1>6. SegmentBounds'
    BY <1>1, <1>2, Sizes DEF IInv, SegmentBounds, Components
  <1>7. CursorAligned'
    BY <1>1 DEF IInv, CursorAligned
  <1>8. LoopInv'
    BY <1>1, <1>2 DEF IInv, LoopInv
  <1>9. OnTrack'
    BY <1>1, <1>2, <1>3 DEF IInv, OnTrack
  <1>10. LastPoint'
    <2>1. LastBefore(pointIndex, segment, BlockAt, IF index % 2 = 0 THEN 0 ELSE Sensors)
      BY <1>1 DEF IInv, LastPoint
    <2>2. counter = 0
      BY <1>1 DEF IInv, LoopInv
    <2>3. SensorID' = IF index % 2 = 0 THEN 0 ELSE Sensors
      <3>1. CASE index % 2 = 0
        BY <1>1, <1>2, <2>2, <3>1 DEF SensorID
      <3>2. CASE index % 2 # 0
        <4>1. ~upperBlock' /\ counter' = 0
          BY <1>1, <1>2, <2>2, <3>2
        <4> QED
          BY <3>2, <4>1, Sizes DEF SensorID
      <3> QED
        BY <3>1, <3>2
    <2>4. LastBefore(pointIndex', segment, BlockAt, IF index % 2 = 0 THEN 0 ELSE Sensors)
      BY <1>2, <2>1 DEF LastBefore
    <2> QED
      BY <1>1, <1>2, <2>3, <2>4 DEF LastPoint
  <1> QED
    BY <1>5, <1>6, <1>7, <1>8, <1>9, <1>10 DEF IInv

LEMMA EnterBlockInv ==
    ASSUME Velodyne64Assumption, IInv, EnterBlock
    PROVE  IInv'
  <1>1. /\ pc = "guard" /\ pc' = "beam" /\ pointIndex < MaxPoints
        /\ echoes' \in EchoPatterns
        /\ UNCHANGED <<position, index, counter, azimuth, upperBlock, sensorAt, lost, packet,
                       firedAt, previousAzimuth, pointIndex, startID, segment, spc>>
    BY DEF EnterBlock, HasRoom, sensor, cloud
  <1>2. TypeOK'
    <2>1. echoes' \subseteq 0 .. Sensors - 1
      BY <1>1 DEF Velodyne64Assumption
    <2> QED
      BY <1>1, <2>1 DEF IInv, TypeOK
  <1>3. SegmentBounds'
    BY <1>1, Sizes DEF IInv, TypeOK, SegmentBounds, Components
  <1>4. counter = 0 /\ position = index * BlockBytes + 4
    BY <1>1 DEF IInv, LoopInv, CursorAligned
  <1>5. CursorAligned'
    <2>1. index * BlockBytes + 4 + 3 * 0 = index * BlockBytes + 4
      BY Sizes, BlockAtNat DEF IInv
    <2> QED
      BY <1>1, <1>4, <2>1 DEF CursorAligned
  <1>6. LoopInv'
    BY <1>1 DEF IInv, LoopInv
  <1>7. OnTrack'
    BY <1>1 DEF IInv, OnTrack, BlockAt
  <1>8. LastPoint'
    BY <1>1 DEF IInv, LastPoint, SensorID
  <1> QED
    BY <1>2, <1>3, <1>5, <1>6, <1>7, <1>8 DEF IInv

(* A block is left, decoded or skipped: the read position stands at the    *)
(* next one, which is fired now or Step later, or the packet is done.      *)
LEMMA LeaveKeeps ==
    ASSUME Velodyne64Assumption, IInv, pc \in {"guard", "beam"},
           NEW byte, byte = index * BlockBytes + BlockBytes, LeaveBlock(byte),
           UNCHANGED <<sensorAt, lost, packet, firedAt, previousAzimuth>>,
           pointIndex' \in Nat, pointIndex' <= MaxPoints,
           segment' \in [0 .. MaxPoints - 1 -> PointType],
           LastBefore(pointIndex', segment', firedAt,
                      IF index % 2 = 0 THEN Sensors ELSE 2 * Sensors)
    PROVE  /\ CursorAligned' /\ LoopInv' /\ OnTrack' /\ LastPoint'
           /\ pc' \in {"block", "idle"} /\ position' \in Nat
           /\ index' \in 0 .. 2 * Pairs - 1
           /\ counter' = 0 /\ echoes' = {} /\ azimuth' = 0
  <1>1. /\ index \in Nat /\ index <= LastBlock /\ packet \in Nat /\ BlockAt \in Nat
        /\ Step \in Nat \ {0} /\ BlockBytes \in Nat \ {0} /\ Turn \in Nat
        /\ Pairs \in Nat \ {0} /\ LastBlock = 2 * Pairs - 1
        /\ lost \in Nat /\ PacketSpan \in Nat \ {0} /\ MaxLost \in Nat
    <2>1. index \in Nat /\ packet \in Nat /\ BlockAt \in Nat
      BY BlockAtNat DEF IInv
    <2>2. index \in 0 .. 2 * Pairs - 1 /\ lost \in Nat
      BY DEF IInv, TypeOK
    <2> QED
      BY <2>1, <2>2, Sizes
  <1>2. /\ firedAt = BlockAt /\ sensorAt = packet + PacketSpan /\ lost <= MaxLost
        /\ previousAzimuth = firedAt % Turn
    BY DEF IInv, OnTrack
  <1>3. counter' = 0 /\ echoes' = {} /\ azimuth' = 0
    BY DEF LeaveBlock
  <1>4. /\ lost * PacketSpan \in Nat
        /\ ShortLosses => Step + lost * PacketSpan < Turn
    BY <1>1, <1>2, GapShort
  <1>5. ShortLosses => Step < Turn
    BY <1>1, <1>4
  <1>6. byte = (index + 1) * BlockBytes
    BY <1>1
  <1>7. pointIndex' > 0 => segment'[pointIndex' - 1] \in PointType
    <2>1. MaxPoints \in Nat
      BY Sizes
    <2> QED
      BY <2>1, LastIsPoint
  <1>8. /\ (index \div 2) * Step \in Nat
        /\ ((index + 1) \div 2) * Step
             = (index \div 2) * Step + (IF index % 2 = 0 THEN 0 ELSE Step)
        /\ (index + 1) % 2 = IF index % 2 = 0 THEN 1 ELSE 0
    BY <1>1, NextBlockAt
  <1>9. CASE index < LastBlock
    <2>1. pc' = "block" /\ index' = index + 1 /\ position' = byte
      BY <1>9 DEF LeaveBlock
    <2>2. position' \in Nat /\ index' \in 0 .. 2 * Pairs - 1
      <3>1. (index + 1) * BlockBytes \in Nat
        BY <1>1
      <3> QED
        BY <1>1, <1>6, <1>9, <2>1, <3>1
    <2>3. CursorAligned' /\ LoopInv'
      BY <1>3, <1>6, <2>1 DEF CursorAligned, LoopInv
    <2>4. BlockAt' = BlockAt + (IF index % 2 = 0 THEN 0 ELSE Step)
      BY <1>1, <1>8, <2>1 DEF BlockAt
    <2>5. firedAt <= BlockAt' /\ (ShortLosses => BlockAt' < firedAt + Turn)
      BY <1>1, <1>2, <1>5, <2>4
    <2>6. OnTrack'
      BY <1>2, <2>1, <2>5 DEF OnTrack
    <2>7. LastBefore(pointIndex', segment', BlockAt', IF index' % 2 = 0 THEN 0 ELSE Sensors)
      <3>1. CASE index % 2 = 0
        BY <1>1, <1>2, <1>8, <2>1, <2>4, <3>1
      <3>2. CASE index % 2 # 0
        <4>1. firedAt < BlockAt' /\ BlockAt' \in Int /\ firedAt \in Int
          BY <1>1, <1>2, <2>4, <3>2
        <4>2. LastBefore(pointIndex', segment', firedAt, 2 * Sensors)
          BY <3>2
        <4>3. pointIndex' \in Nat
          OBVIOUS
        <4> QED
          BY <1>1, <1>2, <1>7, <4>1, <4>2, <4>3, LaterFiring
      <3> QED
        BY <3>1, <3>2
    <2>8. LastPoint'
      BY <2>1, <2>7 DEF LastPoint
    <2> QED
      BY <1>3, <2>1, <2>2, <2>3, <2>6, <2>8
  <1>10. CASE index >= LastBlock
    <2>1. pc' = "idle" /\ index' = 0 /\ position' = 0
      BY <1>1, <1>10 DEF LeaveBlock
    <2>2. position' \in Nat /\ index' \in 0 .. 2 * Pairs - 1
      BY <1>1, <2>1
    <2>3. CursorAligned' /\ LoopInv'
      BY <1>3, <2>1 DEF CursorAligned, LoopInv
    <2>4. sensorAt = firedAt + Step
      <3>1. index \div 2 = Pairs - 1
        BY <1>1, <1>10
      <3>2. (Pairs - 1) * Step + Step = PacketSpan
        BY <1>1, Sizes
      <3>3. BlockAt = packet + (Pairs - 1) * Step
        BY <3>1 DEF BlockAt
      <3>4. (Pairs - 1) * Step \in Nat
        BY <1>1
      <3> QED
        BY <1>1, <1>2, <3>2, <3>3, <3>4
    <2>5. firedAt <= sensorAt /\ sensorAt <= firedAt + Step + lost * PacketSpan
      BY <1>1, <1>2, <1>4, <2>4
    <2>6. OnTrack'
      BY <1>2, <2>1, <2>5 DEF OnTrack
    <2>7. LastBefore(pointIndex', segment', sensorAt, 0)
      <3>1. firedAt < sensorAt /\ sensorAt \in Int /\ firedAt \in Int
        BY <1>1, <1>2, <2>4
      <3> QED
        BY <1>7, <3>1, LaterFiring
    <2>8. LastPoint'
      BY <2>1, <2>7 DEF LastPoint
    <2> QED
      BY <1>3, <2>1, <2>2, <2>3, <2>6, <2>8
  <1> QED
    BY <1>1, <1>9, <1>10

(* Before and after a beam, the last point is within the block.            *)
LEMMA BlockOfSensors ==
    ASSUME Velodyne64Assumption, IInv, pc \in {"guard", "beam"}
    PROVE  /\ SensorID \in Nat /\ counter \in Nat /\ counter <= Sensors - 1
           /\ SensorID + 1 <= IF index % 2 = 0 THEN Sensors ELSE 2 * Sensors
           /\ SensorID < 2 * Sensors
  <1>1. Sensors \in Nat \ {0} /\ counter \in 0 .. Sensors - 1
    BY Sizes DEF IInv, TypeOK
  <1>2. CASE index % 2 = 0
    <2>1. upperBlock
      BY <1>2 DEF IInv, LoopInv
    <2> QED
      BY <1>1, <1>2, <2>1 DEF SensorID
  <1>3. CASE index % 2 # 0
    <2>1. ~upperBlock
      BY <1>3 DEF IInv, LoopInv
    <2> QED
      BY <1>1, <1>3, <2>1 DEF SensorID
  <1> QED
    BY <1>2, <1>3

LEMMA SkipBlockInv ==
    ASSUME Velodyne64Assumption, IInv, SkipBlock
    PROVE  IInv'
  <1> DEFINE byte == position + 3 * Sensors
  <1>1. /\ pc = "guard" /\ LeaveBlock(byte)
        /\ UNCHANGED <<upperBlock, sensorAt, lost, packet, firedAt, previousAzimuth,
                       pointIndex, startID, segment, spc>>
    BY DEF SkipBlock, sensor, cloud
  <1>2. byte = index * BlockBytes + BlockBytes
    <2>1. position = index * BlockBytes + 4 /\ index * BlockBytes \in Nat
      BY <1>1, Sizes, BlockAtNat DEF IInv, CursorAligned
    <2> QED
      BY <2>1, Sizes
  <1> HIDE DEF byte
  <1>3. /\ pointIndex \in Nat /\ pointIndex <= MaxPoints /\ MaxPoints \in Nat
        /\ segment \in [0 .. MaxPoints - 1 -> PointType] /\ firedAt \in Int
    BY Sizes DEF IInv, TypeOK, SegmentBounds
  <1>4. pointIndex > 0 => segment[pointIndex - 1] \in PointType
    BY <1>3
  <1>5. LastBefore(pointIndex, segment, firedAt, IF index % 2 = 0 THEN Sensors ELSE 2 * Sensors)
    <2>1. LastBefore(pointIndex, segment, firedAt, SensorID)
      BY <1>1 DEF IInv, LastPoint
    <2>2. (IF index % 2 = 0 THEN Sensors ELSE 2 * Sensors) \in Int
      BY Sizes
    <2>3. SensorID \in Int /\ SensorID <= IF index % 2 = 0 THEN Sensors ELSE 2 * Sensors
      BY <1>1, <2>2, BlockOfSensors
    <2> QED
      BY <1>3, <1>4, <2>1, <2>2, <2>3, LaterSensor
  <1>6. /\ CursorAligned' /\ LoopInv' /\ OnTrack' /\ LastPoint'
        /\ pc' \in {"block", "idle"} /\ position' \in Nat
        /\ index' \in 0 .. 2 * Pairs - 1
        /\ counter' = 0 /\ echoes' = {} /\ azimuth' = 0
    BY <1>1, <1>2, <1>3, <1>5, LeaveKeeps
  <1>7. TypeOK'
    <2>1. 0 \in 0 .. Sensors - 1 /\ 0 \in 0 .. Turn - 1
      BY Sizes
    <2> QED
      BY <1>1, <1>6, <2>1 DEF IInv, TypeOK
  <1>8. SegmentBounds'
    BY <1>1, <1>6 DEF IInv, SegmentBounds
  <1> QED
    BY <1>6, <1>7, <1>8 DEF IInv

-----------------------------------------------------------------------------
(* The point of the beam being decoded: the firing, its sensor, and the    *)
(* azimuth of the block.                                                   *)
LEMMA PointOfBeam ==
    ASSUME Velodyne64Assumption, IInv, pc = "beam"
    PROVE  /\ Point(position).at = firedAt /\ Point(position).sensor = SensorID
           /\ Point(position).azimuth = firedAt % Turn
           /\ Point(position) \in PointType
           /\ position + 3 + BytesLeft = index * BlockBytes + BlockBytes
  <1>1. /\ Sensors \in Nat \ {0} /\ BlockBytes = 4 + 3 * Sensors /\ Turn \in Nat \ {0}
        /\ firedAt \in Nat
    BY Sizes DEF IInv, TypeOK
  <1>2. counter \in Nat /\ counter <= Sensors - 1 /\ SensorID \in Nat /\ SensorID < 2 * Sensors
    BY BlockOfSensors
  <1>3. index * BlockBytes \in Nat /\ position = index * BlockBytes + 4 + 3 * counter
    BY Sizes, BlockAtNat DEF IInv, CursorAligned
  <1>4. 4 + 3 * counter \in 0 .. BlockBytes - 1
    BY <1>1, <1>2
  <1>5. position = index * BlockBytes + (4 + 3 * counter)
    BY <1>2, <1>3
  <1>6. FiringAt(position) = BlockAt
    BY <1>4, <1>5, FieldsOfBlock DEF IInv
  <1>7. firedAt = BlockAt /\ azimuth = firedAt % Turn
    BY DEF IInv, OnTrack, LoopInv
  <1>8. firedAt % Turn \in 0 .. Turn
    BY <1>1
  <1>9. Point(position) = [at |-> firedAt, sensor |-> SensorID, azimuth |-> firedAt % Turn]
    BY <1>6, <1>7 DEF Point
  <1>10. Point(position) \in PointType
    BY <1>1, <1>2, <1>8, <1>9 DEF PointType
  <1>11. position + 3 + BytesLeft = index * BlockBytes + BlockBytes
    BY <1>1, <1>2, <1>3 DEF BytesLeft
  <1> QED
    BY <1>9, <1>10, <1>11

LEMMA StoreSteps ==
    ASSUME Velodyne64Assumption, IInv, pc = "beam", StorePoint
    PROVE  /\ pointIndex' \in Nat /\ pointIndex' <= MaxPoints
           /\ startID' = Components * pointIndex'
           /\ segment' \in [0 .. MaxPoints - 1 -> PointType]
           /\ LastBefore(pointIndex', segment', firedAt, SensorID + 1)
           /\ \/ UNCHANGED <<pointIndex, startID, segment, spc>>
              \/ /\ segment' = [segment EXCEPT ![pointIndex] = Point(position)]
                 /\ pointIndex' = pointIndex + 1 /\ pointIndex < MaxPoints
                 /\ UNCHANGED spc
  <1>1. /\ pointIndex \in Nat /\ MaxPoints \in Nat \ {0}
        /\ startID = 4 * pointIndex /\ pointIndex < MaxPoints
        /\ segment \in [0 .. MaxPoints - 1 -> PointType] /\ firedAt \in Int
    <2>1. startID + 4 <= 4 * MaxPoints /\ startID = 4 * pointIndex
      BY DEF IInv, SegmentBounds, Components
    <2>2. /\ pointIndex \in Nat /\ firedAt \in Nat
          /\ segment \in [0 .. MaxPoints - 1 -> PointType]
      BY DEF IInv, TypeOK
    <2>3. MaxPoints \in Nat \ {0}
      BY Sizes
    <2>4. pointIndex < MaxPoints
      BY <2>1, <2>2, <2>3
    <2> QED
      BY <2>1, <2>2, <2>3, <2>4
  <1>2. /\ Point(position) \in PointType
        /\ Point(position).at = firedAt /\ Point(position).sensor = SensorID
    BY PointOfBeam
  <1>3. SensorID \in Int
    BY BlockOfSensors
  <1>4. CASE BeamOfBlock(position) \in echoes
    <2>1. startID \div Components = pointIndex
      BY <1>1 DEF Components
    <2>2. /\ segment' = [segment EXCEPT ![pointIndex] = Point(position)]
          /\ pointIndex' = pointIndex + 1 /\ startID' = startID + 4 /\ UNCHANGED spc
      BY <1>4, <2>1 DEF StorePoint, Components
    <2>3. /\ segment' \in [0 .. MaxPoints - 1 -> PointType]
          /\ segment'[pointIndex] = Point(position)
      BY <1>1, <1>2, <2>2
    <2>4. pointIndex' - 1 = pointIndex
      BY <1>1, <2>2
    <2>5. LastBefore(pointIndex', segment', firedAt, SensorID + 1)
      BY <1>2, <1>3, <2>3, <2>4 DEF LastBefore
    <2> QED
      BY <1>1, <2>2, <2>3, <2>5 DEF Components
  <1>5. CASE BeamOfBlock(position) \notin echoes
    <2>1. UNCHANGED <<pointIndex, startID, segment, spc>>
      BY <1>5 DEF StorePoint, cloud
    <2>2. LastBefore(pointIndex, segment, firedAt, SensorID)
      BY DEF IInv, LastPoint
    <2>3. pointIndex > 0 => segment[pointIndex - 1] \in PointType
      BY <1>1
    <2>4. LastBefore(pointIndex, segment, firedAt, SensorID + 1)
      BY <1>1, <1>3, <2>2, <2>3, LaterSensor
    <2> QED
      BY <1>1, <2>1, <2>4 DEF Components
  <1> QED
    BY <1>4, <1>5

\* The write position belongs to the index, and leaves room for a point.
LEMMA FloatsOf ==
    ASSUME NEW n \in Nat, NEW m \in Nat, NEW floats, floats = 4 * n
    PROVE  /\ floats \in Nat
           /\ n < m => floats + 4 <= 4 * m
  OBVIOUS

LEMMA DecodeBeamInv ==
    ASSUME Velodyne64Assumption, IInv, DecodeBeam
    PROVE  IInv'
  <1>1. /\ pc = "beam" /\ StorePoint
        /\ UNCHANGED <<upperBlock, sensorAt, lost, packet, firedAt, previousAzimuth>>
    BY DEF DecodeBeam, sensor
  <1>2. /\ pointIndex' \in Nat /\ pointIndex' <= MaxPoints
        /\ startID' = Components * pointIndex'
        /\ segment' \in [0 .. MaxPoints - 1 -> PointType]
        /\ LastBefore(pointIndex', segment', firedAt, SensorID + 1)
    BY <1>1, StoreSteps
  <1>3. /\ MaxPoints \in Nat \ {0} /\ Sensors \in Nat \ {0} /\ firedAt \in Int
        /\ counter \in Nat /\ counter <= Sensors - 1 /\ SensorID \in Int
    <2>1. firedAt \in Nat
      BY DEF IInv, TypeOK
    <2>2. counter \in Nat /\ counter <= Sensors - 1 /\ SensorID \in Nat
      BY <1>1, BlockOfSensors
    <2> QED
      BY <2>1, <2>2, Sizes
  <1>4. startID' \in Nat /\ startID' = 4 * pointIndex'
    <2>1. startID' = 4 * pointIndex'
      BY <1>2 DEF Components
    <2>2. pointIndex' \in Nat
      BY <1>2
    <2> QED
      BY <2>1, <2>2, FloatsOf, Zenon
  <1>5. CASE ~FrameFull /\ counter < Sensors - 1
    <2>1. /\ counter' = counter + 1 /\ position' = position + 3 /\ pointIndex' < MaxPoints
          /\ UNCHANGED <<pc, index, echoes, azimuth>>
      BY <1>2, <1>3, <1>5 DEF DecodeBeam, FrameFull
    <2>2. TypeOK'
      <3>1. position' \in Nat /\ counter' \in 0 .. Sensors - 1
        BY <1>3, <1>5, <2>1 DEF IInv, TypeOK
      <3> QED
        BY <1>1, <1>2, <1>4, <2>1, <3>1 DEF IInv, TypeOK
    <2>3. SegmentBounds'
      <3>1. startID' + 4 <= 4 * MaxPoints
        <4>1. pointIndex' \in Nat /\ pointIndex' < MaxPoints /\ MaxPoints \in Nat
          BY <1>2, <1>3, <2>1
        <4>2. startID' = 4 * pointIndex'
          BY <1>4
        <4> QED
          BY <4>1, <4>2, FloatsOf, Zenon
      <3> QED
        BY <1>2, <3>1 DEF SegmentBounds, Components
    <2>4. CursorAligned'
      <3>1. position = index * BlockBytes + 4 + 3 * counter /\ index * BlockBytes \in Nat
        BY <1>1, Sizes, BlockAtNat DEF IInv, CursorAligned
      <3>2. position' = index * BlockBytes + 4 + 3 * (counter + 1)
        BY <1>3, <2>1, <3>1
      <3> QED
        BY <1>1, <2>1, <3>2 DEF CursorAligned
    <2>5. LoopInv'
      BY <1>1, <2>1 DEF IInv, LoopInv
    <2>6. OnTrack'
      BY <1>1, <2>1 DEF IInv, OnTrack, BlockAt
    <2>7. SensorID' = SensorID + 1
      BY <1>1, <1>3, <2>1 DEF SensorID
    <2>8. LastPoint'
      BY <1>1, <1>2, <2>1, <2>7 DEF LastPoint
    <2> QED
      BY <2>2, <2>3, <2>4, <2>5, <2>6, <2>8 DEF IInv
  <1>6. CASE ~(~FrameFull /\ counter < Sensors - 1)
    <2> DEFINE byte == position + 3 + (IF FrameFull THEN BytesLeft ELSE 0)
    <2>1. LeaveBlock(byte)
      BY <1>6 DEF DecodeBeam
    <2>2. byte = index * BlockBytes + BlockBytes
      <3>1. position + 3 + BytesLeft = index * BlockBytes + BlockBytes
        BY <1>1, PointOfBeam
      <3>2. CASE FrameFull
        BY <3>1, <3>2
      <3>3. CASE ~FrameFull
        <4>1. counter = Sensors - 1
          BY <1>3, <1>6, <3>3
        <4>2. BytesLeft = 0
          BY <1>3, <4>1 DEF BytesLeft
        <4> QED
          BY <3>1, <3>3, <4>2
      <3> QED
        BY <3>2, <3>3
    <2> HIDE DEF byte
    <2>3. pointIndex' > 0 => segment'[pointIndex' - 1] \in PointType
      <3>1. MaxPoints \in Nat
        BY <1>3
      <3> QED
        BY <1>2, <3>1, LastIsPoint
    <2>4. LastBefore(pointIndex', segment', firedAt,
                     IF index % 2 = 0 THEN Sensors ELSE 2 * Sensors)
      <3>1. (IF index % 2 = 0 THEN Sensors ELSE 2 * Sensors) \in Int
        BY <1>3
      <3>2. SensorID + 1 <= IF index % 2 = 0 THEN Sensors ELSE 2 * Sensors
        BY <1>1, BlockOfSensors
      <3>3. /\ pointIndex' \in Nat /\ firedAt \in Int /\ SensorID + 1 \in Int
            /\ LastBefore(pointIndex', segment', firedAt, SensorID + 1)
        BY <1>2, <1>3
      <3> QED
        BY <2>3, <3>1, <3>2, <3>3, LaterSensor
    <2>5. /\ CursorAligned' /\ LoopInv' /\ OnTrack' /\ LastPoint'
          /\ pc' \in {"block", "idle"} /\ position' \in Nat
          /\ index' \in 0 .. 2 * Pairs - 1
          /\ counter' = 0 /\ echoes' = {} /\ azimuth' = 0
      BY <1>1, <1>2, <2>1, <2>2, <2>4, LeaveKeeps
    <2>6. TypeOK'
      <3>1. 0 \in 0 .. Sensors - 1 /\ 0 \in 0 .. Turn - 1
        BY Sizes
      <3> QED
        BY <1>1, <1>2, <1>4, <2>5, <3>1 DEF IInv, TypeOK
    <2>7. SegmentBounds'
      BY <1>2, <2>5 DEF SegmentBounds
    <2> QED
      BY <2>5, <2>6, <2>7 DEF IInv
  <1> QED
    BY <1>5, <1>6

LEMMA StepPreserves ==
    ASSUME Velodyne64Assumption, IInv, [Next]_vars
    PROVE  IInv'
  <1>1. CASE Next
    BY <1>1, LosePacketInv, ReceivePacketInv, StartBlockInv, EnterBlockInv,
       SkipBlockInv, DecodeBeamInv DEF Next
  <1>2. CASE UNCHANGED vars
    <2>1. UNCHANGED <<pc, position, index, counter, echoes, azimuth, upperBlock, sensorAt,
                      lost, packet, firedAt, previousAzimuth, pointIndex, startID,
                      segment, spc>>
      BY <1>2 DEF vars, loop, sensor, cloud
    <2>2. TypeOK' /\ SegmentBounds' /\ CursorAligned' /\ LoopInv'
      BY <2>1 DEF IInv, TypeOK, SegmentBounds, CursorAligned, LoopInv
    <2>3. OnTrack' /\ LastPoint'
      BY <2>1 DEF IInv, OnTrack, LastPoint, BlockAt, SensorID
    <2> QED
      BY <2>2, <2>3 DEF IInv
  <1> QED
    BY <1>1, <1>2

-----------------------------------------------------------------------------
(* The refinement.                                                         *)

(* The turn being collected is the one the head was in at the last firing. *)
LEMMA TurnOfFiring ==
    ASSUME Velodyne64Assumption, firedAt \in Nat, previousAzimuth = firedAt % Turn
    PROVE  turnCollected = firedAt \div Turn
  <1>1. Turn \in Nat \ {0}
    BY Sizes
  <1>2. (firedAt - (firedAt % Turn)) \div Turn = firedAt \div Turn
    BY ONLY <1>1, firedAt \in Nat, TurnOf
  <1> QED
    BY <1>2, Zenon DEF turnCollected

LEMMA InitScan ==
    ASSUME Velodyne64Assumption, Init
    PROVE  Scan!ScanInit
  <1>1. turnCollected = 0
    <2>1. firedAt = 0 /\ previousAzimuth = 0
      BY DEF Init
    <2>2. Turn \in Nat \ {0}
      BY Sizes
    <2>3. (0 - 0) \div Turn = 0
      BY ONLY <2>2
    <2> QED
      BY <2>1, <2>3, Zenon DEF turnCollected
  <1>2. SegmentPoints = <<>> /\ spc = <<>>
    BY DEF Init, SegmentPoints
  <1> QED
    BY <1>1, <1>2 DEF Scan!ScanInit

(* A block whose azimuth falls begins a later turn, any other is fired in  *)
(* the turn of the last one.                                               *)
LEMMA StartBlockScan ==
    ASSUME Velodyne64Assumption, ShortLosses, IInv, StartBlock
    PROVE  Scan!Publish \/ UNCHANGED Scan!scanVars
  <1>1. /\ firedAt' = BlockAt /\ BlockAt \in Nat
        /\ previousAzimuth' = BlockAt % Turn
        /\ IF BlockAt % Turn < firedAt % Turn
           THEN spc' = SegmentPoints /\ pointIndex' = 0
           ELSE UNCHANGED <<pointIndex, startID, segment, spc>>
    BY StartBlockSteps
  <1>2. /\ firedAt \in Nat /\ previousAzimuth = firedAt % Turn
        /\ firedAt <= BlockAt /\ BlockAt < firedAt + Turn
    BY DEF StartBlock, IInv, TypeOK, OnTrack
  <1>3. Turn \in Nat \ {0}
    BY Sizes
  <1>4. turnCollected = firedAt \div Turn
    BY <1>2, TurnOfFiring
  <1>5. turnCollected' = BlockAt \div Turn
    BY <1>1, <1>3, TurnOf DEF turnCollected
  <1>6. CASE BlockAt % Turn < firedAt % Turn
    <2>1. turnCollected' > turnCollected
      BY <1>1, <1>2, <1>3, <1>4, <1>5, <1>6, TurnsApart
    <2>2. spc' = SegmentPoints /\ SegmentPoints' = <<>>
      BY <1>1, <1>6 DEF SegmentPoints
    <2> QED
      BY <2>1, <2>2 DEF Scan!Publish
  <1>7. CASE ~(BlockAt % Turn < firedAt % Turn)
    <2>1. turnCollected' = turnCollected
      <3>1. BlockAt % Turn \in Int /\ firedAt % Turn \in Int
        BY <1>1, <1>2, <1>3
      <3>2. BlockAt % Turn >= firedAt % Turn
        BY <1>7, <3>1
      <3> QED
        BY <1>1, <1>2, <1>3, <1>4, <1>5, <3>2, TurnsApart
    <2>2. spc' = spc /\ SegmentPoints' = SegmentPoints
      BY <1>1, <1>7 DEF SegmentPoints
    <2> QED
      BY <2>1, <2>2 DEF Scan!scanVars
  <1> QED
    BY <1>6, <1>7

(* A point is appended, with its turn and its azimuth, behind the last.    *)
LEMMA DecodeBeamScan ==
    ASSUME Velodyne64Assumption, ShortLosses, IInv, DecodeBeam
    PROVE  Scan!Collect \/ UNCHANGED Scan!scanVars
  <1>1. /\ pc = "beam" /\ StorePoint /\ UNCHANGED <<firedAt, previousAzimuth>>
    BY DEF DecodeBeam
  <1>2. turnCollected' = turnCollected
    BY <1>1 DEF turnCollected
  <1>3. CASE UNCHANGED <<pointIndex, startID, segment, spc>>
    BY <1>2, <1>3 DEF Scan!scanVars, SegmentPoints
  <1>4. CASE /\ segment' = [segment EXCEPT ![pointIndex] = Point(position)]
             /\ pointIndex' = pointIndex + 1 /\ pointIndex < MaxPoints
             /\ UNCHANGED spc
    <2> DEFINE n == pointIndex
               p == Point(position)
               frame == [k \in 1 .. n |-> segment[k - 1]]
    <2>1. /\ n \in Nat /\ MaxPoints \in Nat /\ n < MaxPoints
          /\ segment \in [0 .. MaxPoints - 1 -> PointType]
      BY <1>4, Sizes DEF IInv, TypeOK
    <2>2. /\ p.at = firedAt /\ p.sensor = SensorID /\ p.azimuth = firedAt % Turn
          /\ p \in PointType
      BY <1>1, PointOfBeam
    <2>3. /\ firedAt \in Nat /\ Turn \in Nat \ {0} /\ previousAzimuth = firedAt % Turn
      BY Sizes DEF IInv, TypeOK, OnTrack
    <2>4. LastBefore(n, segment, firedAt, SensorID)
      BY <1>1 DEF IInv, LastPoint
    <2>5. segment' = [segment EXCEPT ![n] = p] /\ pointIndex' = n + 1
      BY <1>4
    <2>a. SensorID \in Nat
      BY <1>1, BlockOfSensors
    <2> HIDE DEF n, p
    <2>6. SegmentPoints = frame
      BY DEF SegmentPoints, n
    <2>7. SegmentPoints' = [k \in 1 .. n + 1 |-> IF k = n + 1 THEN p ELSE frame[k]]
      <3>1. SegmentPoints' = [k \in 1 .. n + 1 |-> segment'[k - 1]]
        BY <2>5 DEF SegmentPoints
      <3>2. ASSUME NEW k \in 1 .. n + 1
            PROVE  segment'[k - 1] = IF k = n + 1 THEN p ELSE frame[k]
        BY <2>1, <2>5
      <3> QED
        BY <3>1, <3>2
    <2> DEFINE new == [k \in 1 .. n + 1 |-> IF k = n + 1 THEN p ELSE frame[k]]
    <2>8. Len(frame) = n /\ Len(new) = n + 1 /\ new[n + 1] = p
      BY <2>1
    <2>9. SubSeq(new, 1, n) = frame
      <3>1. SubSeq(new, 1, n) = [k \in 1 .. n |-> new[k]]
        BY <2>1
      <3>2. ASSUME NEW k \in 1 .. n
            PROVE  new[k] = frame[k]
        BY <2>1
      <3> QED
        BY <3>1, <3>2
    <2>10. p \in [at : Nat, sensor : Nat, azimuth : 0 .. Turn]
      <3>1. p \in [at : Int, sensor : 0 .. 2 * Sensors - 1, azimuth : 0 .. Turn]
        BY <2>2 DEF PointType
      <3> QED
        BY <2>2, <2>3, <2>a, <3>1
    <2>11. /\ turnCollected * Turn <= p.at /\ p.at <= (turnCollected + 1) * Turn
           /\ p.azimuth = p.at - turnCollected * Turn
      <3>1. turnCollected = firedAt \div Turn
        BY <2>3, TurnOfFiring
      <3>2. /\ firedAt = (firedAt \div Turn) * Turn + (firedAt % Turn)
            /\ firedAt % Turn \in 0 .. Turn - 1 /\ firedAt \div Turn \in Nat
        BY <2>3, TurnOf
      <3>3. ((firedAt \div Turn) + 1) * Turn = (firedAt \div Turn) * Turn + Turn
        BY <2>3, <3>2
      <3>4. (firedAt \div Turn) * Turn \in Nat
        BY <2>3, <3>2
      <3> QED
        BY <2>2, <2>3, <3>1, <3>2, <3>3, <3>4
    <2>12. frame # <<>> =>
             frame[n].at < p.at \/ (frame[n].at = p.at /\ frame[n].sensor < p.sensor)
      <3>1. frame # <<>> => n > 0
        BY <2>1
      <3>2. n > 0 => frame[n] = segment[n - 1]
        BY <2>1
      <3> QED
        BY <2>2, <2>4, <3>1, <3>2 DEF LastBefore
    <2> HIDE DEF frame, new
    <2>13. Scan!Collect
      BY <1>2, <1>4, <2>1, <2>6, <2>7, <2>8, <2>9, <2>10, <2>11, <2>12
      DEF Scan!Collect, Scan!ScanPoint, Scan!InTurn, Scan!TrueAzimuth, Scan!FiredBefore, new
    <2> QED
      BY <2>13
  <1> QED
    BY <1>1, <1>3, <1>4, StoreSteps

LEMMA StepScan ==
    ASSUME Velodyne64Assumption, ShortLosses, IInv, [Next]_vars
    PROVE  [Scan!Collect \/ Scan!Publish]_Scan!scanVars
  <1>1. CASE StartBlock
    BY <1>1, StartBlockScan
  <1>2. CASE DecodeBeam
    BY <1>2, DecodeBeamScan
  <1>3. CASE LosePacket \/ ReceivePacket \/ EnterBlock \/ SkipBlock \/ UNCHANGED vars
    <2>1. UNCHANGED <<firedAt, previousAzimuth, pointIndex, segment, spc>>
      BY <1>3 DEF LosePacket, ReceivePacket, EnterBlock, SkipBlock, vars, cloud
    <2> QED
      BY <2>1 DEF Scan!scanVars, turnCollected, SegmentPoints
  <1> QED
    BY <1>1, <1>2, <1>3 DEF Next

-----------------------------------------------------------------------------
(* Every variable of the HDL-64E decoder keeps its type, so that no index  *)
(* leaves the block, the packet or the frame.                              *)
THEOREM Type64Correct ==
    ASSUME Velodyne64Assumption
    PROVE  Spec => []TypeOK
  <1>1. Init => IInv
    BY InitInv
  <1>2. IInv /\ [Next]_vars => IInv'
    BY StepPreserves
  <1>3. IInv => TypeOK
    BY DEF IInv
  <1> QED
    BY <1>1, <1>2, <1>3, PTL DEF Spec

(* Whatever overflows or is lost, no point of the HDL-64E is written       *)
(* outside of the malloc'ed segment, for any capacity and sensors.         *)
THEOREM Segment64Safe ==
    ASSUME Velodyne64Assumption
    PROVE  Spec => []SegmentBounds
  <1>1. Init => IInv
    BY InitInv
  <1>2. IInv /\ [Next]_vars => IInv'
    BY StepPreserves
  <1>3. IInv => SegmentBounds
    BY DEF IInv
  <1> QED
    BY <1>1, <1>2, <1>3, PTL DEF Spec

(* However blocks are left, the read position stands at the field that is  *)
(* read next.                                                              *)
THEOREM Cursor64Safe ==
    ASSUME Velodyne64Assumption
    PROVE  Spec => []CursorAligned
  <1>1. Init => IInv
    BY InitInv
  <1>2. IInv /\ [Next]_vars => IInv'
    BY StepPreserves
  <1>3. IInv => CursorAligned
    BY DEF IInv
  <1> QED
    BY <1>1, <1>2, <1>3, PTL DEF Spec

(* The HDL-64E decoder implements ScanFrames: a frame it publishes has the *)
(* points of one turn, in the order of firing, with the azimuths they were *)
(* fired at, for any sensors, blocks, capacity, echoes and short losses.   *)
THEOREM Implements ==
    ASSUME Velodyne64Assumption, ShortLosses
    PROVE  Spec => RefinesScan
  <1>1. Init => IInv
    BY InitInv
  <1>2. IInv /\ [Next]_vars => IInv'
    BY StepPreserves
  <1>3. Init => Scan!ScanInit
    BY InitScan
  <1>4. IInv /\ [Next]_vars => [Scan!Collect \/ Scan!Publish]_Scan!scanVars
    BY StepScan
  <1> QED
    BY <1>1, <1>2, <1>3, <1>4, PTL DEF Spec, RefinesScan, Scan!ScanSpec
=============================================================================
