------------------------- MODULE Velodyne32Decoder --------------------------
(***************************************************************************)
(* The HDL-32E decoder (velodyne32Decoder.cpp).  As in the VLP-16 decoder  *)
(* UDP packets are decoded into a shared point cloud (SPC) and a compact   *)
(* one (CPC), and a frame is cut where the azimuth decreases; but a block  *)
(* is one firing of all sensors and carries its own azimuth, and a CPC is  *)
(* sent in three parts, each with some of the layers of every row.         *)
(*                                                                         *)
(* Positions and azimuths are as in Velodyne16Decoder; a ...Slip is a      *)
(* plausible mistake in the definition after it.                           *)
(***************************************************************************)
EXTENDS Integers, Sequences, FiniteSets

CONSTANTS
    Turn,               \* azimuth units in a full turn (360 degrees)
    Step,               \* azimuth units between two blocks
    Blocks,             \* blocks in a packet (12)
    Sensors,            \* sensors of a block (32)
    MaxPoints,          \* m_MAX_POINT_SIZE
    PointCloudOptions,  \* configured clouds, of 0: SPC, 1: CPC, 2: both
    IntensityOptions,   \* configured CPC streams, of 0: without, 1: with, 2: both
    EchoPatterns,       \* sets of sensors whose distance is over 1 m in a block
    MaxPosition,        \* bound: the sensor sends no packet beyond it
    MaxLost             \* bound: packets lost in a row

ASSUME Velodyne32Assumption ==
    /\ Turn \in Nat \ {0} /\ Step \in Nat \ {0} /\ Blocks \in Nat \ {0}
    /\ Sensors \in Nat \ {0} /\ MaxPoints \in Nat \ {0}
    /\ PointCloudOptions \subseteq 0 .. 2 /\ IntensityOptions \subseteq 0 .. 2
    /\ EchoPatterns \subseteq SUBSET (0 .. Sensors - 1)
    /\ MaxPosition \in Nat /\ MaxLost \in Nat

VARIABLES
    pointCloudOption, intensityOption,
    pc, position, blockID, counter, echoes,
    sensorAt, lost, packet, firedAt,
    currentAzimuth, previousAzimuth,
    pointIndexSPC, startID, segment, spc,
    pointIndexCPC, startAzimuth, parts, cpc

config == <<pointCloudOption, intensityOption>>
cursor == <<pc, position, blockID, counter, echoes>>
sensor == <<sensorAt, lost, packet>>
angles == <<currentAzimuth, previousAzimuth, firedAt>>
spcVars == <<pointIndexSPC, startID, segment, spc>>
cpcVars == <<pointIndexCPC, startAzimuth, parts, cpc>>
vars == <<config, cursor, sensor, angles, spcVars, cpcVars>>

Components == 4                         \* floats of a point in the segment
BlockBytes == 4 + 3 * Sensors           \* flag, azimuth, 3 bytes for a beam
PacketSpan == Blocks * Step
LastBlock == Blocks - 1
AllStreams == {"noIntensity", "withIntensity"}
PointType == [at : Int, sensor : 0 .. Sensors - 1, azimuth : 0 .. Turn]
NoPoint == [at |-> -1, sensor |-> 0, azimuth |-> 0]     \* never written

WithSPC == pointCloudOption \in {0, 2}
WithCPC == pointCloudOption \in {1, 2}
Streams ==
    {s \in AllStreams : \/ s = "noIntensity" /\ intensityOption \in {0, 2}
                        \/ s = "withIntensity" /\ intensityOption \in {1, 2}}

(* The part a layer is written to, and the entries per azimuth that the    *)
(* three containers of sendCPC announce.                                   *)
PartOfSlip(layer) ==
    IF layer % 3 = 1 THEN 1 ELSE IF layer = 2 \/ layer % 3 = 0 THEN 2 ELSE 3
PartOf(layer) ==
    IF layer = 0 \/ layer % 3 = 1 THEN 1
    ELSE IF layer = 2 \/ layer % 3 = 0 THEN 2 ELSE 3

Announced == <<12, 11, 9>>

LayersOfPart(k) == {layer \in 0 .. Sensors - 1 : PartOf(layer) = k}

-----------------------------------------------------------------------------
ReportedAzimuth(byte) == (packet + (byte \div BlockBytes) * Step) % Turn

BeamOfBlock(byte) == ((byte % BlockBytes) - 4) \div 3

FiringAt(byte) == packet + (byte \div BlockBytes) * Step

Point(byte) ==
    [at |-> FiringAt(byte), sensor |-> counter, azimuth |-> currentAzimuth]

RowPart(byte, k) ==
    [at |-> FiringAt(byte), azimuth |-> currentAzimuth,
     entries |-> Cardinality(LayersOfPart(k))]

SegmentPoints == [i \in 1 .. pointIndexSPC |-> segment[i - 1]]

NoRows == [s \in AllStreams |-> [k \in 1 .. 3 |-> <<>>]]

-----------------------------------------------------------------------------
Init ==
    /\ pointCloudOption \in PointCloudOptions /\ intensityOption \in IntensityOptions
    /\ pc = "idle" /\ position = 0 /\ blockID = 0 /\ counter = 0 /\ echoes = {}
    /\ sensorAt \in 0 .. Turn - 1 /\ lost = 0 /\ packet = 0 /\ firedAt = 0
    /\ currentAzimuth = 0 /\ previousAzimuth = 0
    /\ pointIndexSPC = 0 /\ startID = 0
    /\ segment = [i \in 0 .. MaxPoints - 1 |-> NoPoint]
    /\ spc = <<>>
    /\ pointIndexCPC = 0 /\ startAzimuth = 0
    /\ parts = NoRows
    /\ cpc = [s \in AllStreams |-> [start |-> 0, end |-> 0, parts |-> NoRows[s]]]

(* The UDP socket drops a packet, or the packet has not 1206 bytes (before *)
(* the first packet a loss is just a later start).                         *)
LosePacket ==
    /\ pc = "idle"
    /\ lost < MaxLost /\ sensorAt >= Turn
    /\ sensorAt + 2 * PacketSpan <= MaxPosition
    /\ sensorAt' = sensorAt + PacketSpan
    /\ lost' = lost + 1
    /\ UNCHANGED <<packet, config, cursor, angles, spcVars, cpcVars>>

ReceivePacket ==
    /\ pc = "idle"
    /\ sensorAt + PacketSpan <= MaxPosition
    /\ packet' = sensorAt
    /\ sensorAt' = sensorAt + PacketSpan
    /\ lost' = 0
    /\ pc' = "azimuth"
    /\ UNCHANGED <<config, position, blockID, counter, echoes, angles, spcVars, cpcVars>>

-----------------------------------------------------------------------------
ResetSegment == pointIndexSPC' = 0 /\ startID' = 0

PublishSPC ==
    IF WithSPC
    THEN spc' = SegmentPoints /\ ResetSegment /\ UNCHANGED segment
    ELSE UNCHANGED spcVars

(* The three string streams of every selected stream, and their reset.     *)
ResetPartsSlip == parts' = [s \in AllStreams |-> [k \in 1 .. 3 |->
                                IF k = 3 THEN parts[s][3] ELSE <<>>]]
ResetParts == parts' = NoRows

PublishCPC(azimuth) ==
    IF WithCPC
    THEN /\ cpc' = [s \in AllStreams |->
                      IF s \in Streams
                      THEN [start |-> startAzimuth, end |-> previousAzimuth,
                            parts |-> parts[s]]
                      ELSE cpc[s]]
         /\ pointIndexCPC' = 0
         /\ startAzimuth' = azimuth
         /\ ResetParts
    ELSE UNCHANGED cpcVars

SendPointCloud(azimuth) == PublishSPC /\ PublishCPC(azimuth)

BlockAzimuth == ReportedAzimuth(position + 2)

(* The test that ends a frame (line 318).                                  *)
NewScanSlip == BlockAzimuth + Step < previousAzimuth
NewScan == BlockAzimuth < previousAzimuth

StartBlock ==
    /\ pc = "azimuth"
    /\ IF NewScan THEN SendPointCloud(BlockAzimuth) ELSE UNCHANGED <<spcVars, cpcVars>>
    /\ currentAzimuth' = BlockAzimuth
    /\ previousAzimuth' = BlockAzimuth
    /\ firedAt' = packet + blockID * Step
    /\ position' = position + 4
    /\ pc' = "guard"
    /\ UNCHANGED <<config, blockID, counter, echoes, sensor>>

-----------------------------------------------------------------------------
LeaveBlock(byte) ==
    /\ counter' = 0
    /\ echoes' = {}
    /\ IF blockID < LastBlock
       THEN pc' = "azimuth" /\ blockID' = blockID + 1 /\ position' = byte
       ELSE pc' = "idle" /\ blockID' = 0 /\ position' = 0

HasRoom == pointIndexSPC < MaxPoints \/ pointIndexCPC < MaxPoints

EnterBlock ==
    /\ pc = "guard"
    /\ HasRoom
    /\ \E pattern \in EchoPatterns : echoes' = pattern
    /\ pc' = "beam"
    /\ UNCHANGED <<config, position, blockID, counter, sensor, angles, spcVars, cpcVars>>

SkipBlock ==
    /\ pc = "guard"
    /\ ~HasRoom
    /\ LeaveBlock(position + 3 * Sensors)
    /\ UNCHANGED <<config, sensor, angles, spcVars, cpcVars>>

SegmentHasRoom == pointIndexSPC < MaxPoints

StorePoint ==
    IF WithSPC /\ SegmentHasRoom /\ BeamOfBlock(position) \in echoes
    THEN /\ segment' = [segment EXCEPT ![startID \div Components] = Point(position)]
         /\ pointIndexSPC' = pointIndexSPC + 1
         /\ startID' = startID + Components
         /\ UNCHANGED spc
    ELSE UNCHANGED spcVars

StoreDistance ==
    IF WithCPC /\ pointIndexCPC < MaxPoints
    THEN /\ pointIndexCPC' = pointIndexCPC + 1
         /\ parts' = [s \in AllStreams |-> [k \in 1 .. 3 |->
                        IF s \in Streams /\ counter = Sensors - 1
                        THEN Append(parts[s][k], RowPart(position, k))
                        ELSE parts[s][k]]]
         /\ UNCHANGED <<startAzimuth, cpc>>
    ELSE UNCHANGED cpcVars

FrameFull ==
    \/ WithCPC /\ pointIndexCPC' >= MaxPoints
    \/ ~WithCPC /\ pointIndexSPC' >= MaxPoints

BytesLeftSlip == 3 * (Sensors - counter)
BytesLeft == 3 * (Sensors - 1 - counter)

DecodeBeam ==
    /\ pc = "beam"
    /\ StorePoint
    /\ StoreDistance
    /\ IF ~FrameFull /\ counter < Sensors - 1
       THEN /\ counter' = counter + 1 /\ position' = position + 3
            /\ UNCHANGED <<pc, blockID, echoes>>
       ELSE LeaveBlock(position + 3 + (IF FrameFull THEN BytesLeft ELSE 0))
    /\ UNCHANGED <<config, sensor, angles>>

-----------------------------------------------------------------------------
Next ==
    \/ LosePacket \/ ReceivePacket
    \/ StartBlock
    \/ EnterBlock \/ SkipBlock
    \/ DecodeBeam

Spec == Init /\ [][Next]_vars

-----------------------------------------------------------------------------
(* The types of the variables, the bounds of the segment and the position  *)
(* of the read cursor at every step of the loop.                           *)
TypeOK ==
    /\ pointCloudOption \in 0 .. 2 /\ intensityOption \in 0 .. 2
    /\ pc \in {"idle", "azimuth", "guard", "beam"}
    /\ position \in Nat /\ blockID \in 0 .. LastBlock /\ counter \in 0 .. Sensors - 1
    /\ echoes \subseteq 0 .. Sensors - 1
    /\ sensorAt \in Nat /\ lost \in Nat /\ packet \in Nat /\ firedAt \in Nat
    /\ currentAzimuth \in 0 .. Turn - 1 /\ previousAzimuth \in 0 .. Turn - 1
    /\ pointIndexSPC \in 0 .. MaxPoints /\ startID = Components * pointIndexSPC
    /\ pointIndexCPC \in 0 .. MaxPoints /\ startAzimuth \in 0 .. Turn - 1

CursorAligned ==
    /\ pc = "azimuth" => position = blockID * BlockBytes
    /\ pc = "guard" => position = blockID * BlockBytes + 4
    /\ pc = "beam" => position = blockID * BlockBytes + 4 + 3 * counter

(* Full or not, the decoder implements ScanFrames: it stops storing when   *)
(* the frame is full and starts again exactly with the next turn, and      *)
(* every point carries the azimuth it was fired at.                        *)
turnCollected == (firedAt - previousAzimuth) \div Turn

SPCScan == INSTANCE ScanFrames WITH
    Capacity <- MaxPoints, turn <- turnCollected,
    frame <- SegmentPoints, published <- spc
SPCRefinesScan == SPCScan!ScanSpec

(* The parts of a CPC belong together: they hold the same rows, a part has *)
(* the entries per azimuth it announces, and together they have all the    *)
(* sensors.                                                                *)
RowsOf(part) == [i \in 1 .. Len(part) |-> <<part[i].at, part[i].azimuth>>]
PartsBelongTogether ==
    \A s \in Streams :
        LET sent == cpc[s].parts
        IN  /\ \A k \in 1 .. 3 : RowsOf(sent[k]) = RowsOf(sent[1])
            /\ \A k \in 1 .. 3 : \A i \in 1 .. Len(sent[k]) :
                   sent[k][i].entries = Announced[k]
            /\ \A i \in 1 .. Len(sent[1]) :
                   sent[1][i].entries + sent[2][i].entries + sent[3][i].entries = Sensors

(* All rows of a CPC were fired in the announced interval: from the start  *)
(* azimuth to the end azimuth, without crossing 360 degrees.               *)
RowsInAnnouncedInterval ==
    \A s \in Streams : \A k \in 1 .. 3 : \A i \in 1 .. Len(cpc[s].parts[k]) :
        LET row == cpc[s].parts[k][i]
        IN  cpc[s].start <= row.azimuth /\ row.azimuth <= cpc[s].end
=============================================================================
