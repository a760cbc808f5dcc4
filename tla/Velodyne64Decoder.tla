------------------------- MODULE Velodyne64Decoder --------------------------
(***************************************************************************)
(* The HDL-64E decoder (velodyne64Decoder.cpp): the 64 sensors fire as an  *)
(* upper and a lower block of equal azimuth, told apart by the flag of a   *)
(* block; the points go to one shared point cloud, which is published when *)
(* the azimuth decreases.                                                  *)
(*                                                                         *)
(* Positions and azimuths are as in Velodyne16Decoder; a ...Slip is a      *)
(* plausible mistake in the definition after it.                           *)
(***************************************************************************)
EXTENDS Integers, Sequences

CONSTANTS
    Turn,           \* azimuth units in a full turn (360 degrees)
    Step,           \* azimuth units between two pairs of blocks
    Pairs,          \* upper and lower blocks in a packet (6 of each)
    Sensors,        \* sensors of one block (32)
    MaxPoints,      \* m_MAX_POINT_SIZE
    EchoPatterns,   \* sets of beams of a block whose distance is over 1 m
    MaxPosition,    \* bound: the sensor sends no packet beyond it
    MaxLost         \* bound: packets lost in a row

Velodyne64Assumption ==
    /\ Turn \in Nat \ {0} /\ Step \in Nat \ {0} /\ Pairs \in Nat \ {0}
    /\ Sensors \in Nat \ {0} /\ MaxPoints \in Nat \ {0}
    /\ EchoPatterns \subseteq SUBSET (0 .. Sensors - 1)
    /\ MaxPosition \in Nat /\ MaxLost \in Nat

VARIABLES
    pc, position, index, counter, echoes, azimuth, upperBlock,
    sensorAt, lost, packet, firedAt,
    previousAzimuth, pointIndex, startID, segment, spc

sensor == <<sensorAt, lost, packet>>
cloud == <<pointIndex, startID, segment, spc>>
loop == <<index, counter, echoes, azimuth, upperBlock>>
vars == <<pc, position, loop, sensor, firedAt, previousAzimuth, cloud>>

Components == 4                         \* floats of a point in the segment
BlockBytes == 4 + 3 * Sensors           \* flag, azimuth, 3 bytes for a beam
PacketSpan == Pairs * Step
LastBlock == 2 * Pairs - 1
PointType == [at : Int, sensor : 0 .. 2 * Sensors - 1, azimuth : 0 .. Turn]
NoPoint == [at |-> -1, sensor |-> 0, azimuth |-> 0]     \* never written

-----------------------------------------------------------------------------
(* What stands at a byte of the packet being decoded: the blocks of a pair *)
(* have the same azimuth, the upper one comes first.                       *)

FiringAt(byte) == packet + ((byte \div BlockBytes) \div 2) * Step

ReportedAzimuth(byte) == FiringAt(byte) % Turn

ReportedUpper(byte) == (byte \div BlockBytes) % 2 = 0

BeamOfBlock(byte) == ((byte % BlockBytes) - 4) \div 3

SensorID == IF upperBlock THEN counter ELSE counter + Sensors

Point(byte) == [at |-> FiringAt(byte), sensor |-> SensorID, azimuth |-> azimuth]

SegmentPoints == [i \in 1 .. pointIndex |-> segment[i - 1]]

-----------------------------------------------------------------------------
Init ==
    /\ pc = "idle" /\ position = 0 /\ index = 0 /\ counter = 0 /\ echoes = {}
    /\ azimuth = 0 /\ upperBlock = TRUE
    /\ sensorAt \in 0 .. Turn - 1 /\ lost = 0 /\ packet = 0 /\ firedAt = 0
    /\ previousAzimuth = 0
    /\ pointIndex = 0 /\ startID = 0
    /\ segment = [i \in 0 .. MaxPoints - 1 |-> NoPoint]
    /\ spc = <<>>

(* The UDP socket drops a packet, or the packet has not 1206 bytes (before *)
(* the first packet a loss is just a later start).                         *)
LosePacket ==
    /\ pc = "idle"
    /\ lost < MaxLost /\ sensorAt >= Turn
    /\ sensorAt + 2 * PacketSpan <= MaxPosition
    /\ sensorAt' = sensorAt + PacketSpan
    /\ lost' = lost + 1
    /\ UNCHANGED <<packet, pc, position, loop, firedAt, previousAzimuth, cloud>>

ReceivePacket ==
    /\ pc = "idle"
    /\ sensorAt + PacketSpan <= MaxPosition
    /\ packet' = sensorAt
    /\ sensorAt' = sensorAt + PacketSpan
    /\ lost' = 0
    /\ pc' = "block"
    /\ UNCHANGED <<position, loop, firedAt, previousAzimuth, cloud>>

-----------------------------------------------------------------------------
ResetSegment == pointIndex' = 0 /\ startID' = 0

SendSharedPointCloud(oldAzimuth, newAzimuth) ==
    IF newAzimuth < oldAzimuth
    THEN spc' = SegmentPoints /\ ResetSegment /\ UNCHANGED segment
    ELSE UNCHANGED cloud

StartBlock ==
    /\ pc = "block"
    /\ upperBlock' = ReportedUpper(position)
    /\ azimuth' = ReportedAzimuth(position + 2)
    /\ SendSharedPointCloud(previousAzimuth, ReportedAzimuth(position + 2))
    /\ previousAzimuth' = ReportedAzimuth(position + 2)
    /\ firedAt' = packet + (index \div 2) * Step
    /\ position' = position + 4
    /\ pc' = "guard"
    /\ UNCHANGED <<index, counter, echoes, sensor>>

LeaveBlock(byte) ==
    /\ counter' = 0
    /\ echoes' = {}
    /\ azimuth' = 0
    /\ IF index < LastBlock
       THEN pc' = "block" /\ index' = index + 1 /\ position' = byte
       ELSE pc' = "idle" /\ index' = 0 /\ position' = 0

HasRoomSlip == pointIndex <= MaxPoints
HasRoom == pointIndex < MaxPoints

EnterBlock ==
    /\ pc = "guard"
    /\ HasRoom
    /\ \E pattern \in EchoPatterns : echoes' = pattern
    /\ pc' = "beam"
    /\ UNCHANGED <<position, index, counter, azimuth, upperBlock,
                   sensor, firedAt, previousAzimuth, cloud>>

SkipBlock ==
    /\ pc = "guard"
    /\ ~HasRoom
    /\ LeaveBlock(position + 3 * Sensors)
    /\ UNCHANGED <<upperBlock, sensor, firedAt, previousAzimuth, cloud>>

StorePoint ==
    IF BeamOfBlock(position) \in echoes
    THEN /\ segment' = [segment EXCEPT ![startID \div Components] = Point(position)]
         /\ pointIndex' = pointIndex + 1
         /\ startID' = startID + Components
         /\ UNCHANGED spc
    ELSE UNCHANGED cloud

FrameFull == pointIndex' >= MaxPoints

BytesLeft == 3 * (Sensors - 1 - counter)

DecodeBeam ==
    /\ pc = "beam"
    /\ StorePoint
    /\ IF ~FrameFull /\ counter < Sensors - 1
       THEN /\ counter' = counter + 1 /\ position' = position + 3
            /\ UNCHANGED <<pc, index, echoes, azimuth>>
       ELSE LeaveBlock(position + 3 + (IF FrameFull THEN BytesLeft ELSE 0))
    /\ UNCHANGED <<upperBlock, sensor, firedAt, previousAzimuth>>

-----------------------------------------------------------------------------
Next ==
    \/ LosePacket \/ ReceivePacket
    \/ StartBlock
    \/ EnterBlock \/ SkipBlock
    \/ DecodeBeam

Spec == Init /\ [][Next]_vars

-----------------------------------------------------------------------------
(* The types of the variables.                                             *)
TypeOK ==
    /\ pc \in {"idle", "block", "guard", "beam"}
    /\ position \in Nat /\ index \in 0 .. 2 * Pairs - 1 /\ counter \in 0 .. Sensors - 1
    /\ echoes \subseteq 0 .. Sensors - 1
    /\ azimuth \in 0 .. Turn - 1 /\ upperBlock \in BOOLEAN
    /\ sensorAt \in Nat /\ lost \in Nat /\ packet \in Nat /\ firedAt \in Nat
    /\ previousAzimuth \in 0 .. Turn - 1
    /\ pointIndex \in Nat /\ startID \in Nat
    /\ segment \in [0 .. MaxPoints - 1 -> PointType]

(* The beams are stored without a test of their own: it is the test before *)
(* the block and the break after a beam that keep startID inside the       *)
(* malloc'ed segment when a point is written.                              *)
SegmentBounds ==
    /\ pointIndex <= MaxPoints
    /\ startID = Components * pointIndex
    /\ pc = "beam" => startID + Components <= Components * MaxPoints

(* However a block was left, the read position stands at the next field.   *)
CursorAligned ==
    /\ pc = "block" => position = index * BlockBytes
    /\ pc = "guard" => position = index * BlockBytes + 4
    /\ pc = "beam" => position = index * BlockBytes + 4 + 3 * counter

(* Full or not, the decoder implements ScanFrames; that the sensors of a   *)
(* firing come in ascending order says that upper and lower blocks are not *)
(* mixed up.                                                               *)
turnCollected == (firedAt - previousAzimuth) \div Turn

Scan == INSTANCE ScanFrames WITH
    Capacity <- MaxPoints, turn <- turnCollected,
    frame <- SegmentPoints, published <- spc
RefinesScan == Scan!ScanSpec
=============================================================================
