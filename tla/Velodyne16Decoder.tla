------------------------- MODULE Velodyne16Decoder --------------------------
(***************************************************************************)
(* The VLP-16 decoder (velodyne16Decoder.cpp): UDP packets are decoded     *)
(* block by block, beam by beam, into a shared point cloud (SPC, points in *)
(* a shared memory) and a compact point cloud (CPC, rows of distances).  A *)
(* frame is cut where the azimuth decreases.  A block holds two firings of *)
(* all sensors but only the azimuth of the first; that of the second, and  *)
(* the azimuth of the next block, are worked out in the middle of a block. *)
(* nextString runs on one thread; its loop is one step per decision.       *)
(*                                                                         *)
(* Azimuths are integers: a turn is Turn units, a block advances Step.     *)
(* "at", sensorAt, packet and firedAt are positions of the turning head    *)
(* since the start of the run; they do not wrap.  firedAt is a history     *)
(* variable, read by properties only.                                      *)
(*                                                                         *)
(* A definition named ...Slip is a plausible mistake in the definition     *)
(* after it; the runs are repeated with it to show that they would see it. *)
(***************************************************************************)
EXTENDS Integers, Sequences

CONSTANTS
    Turn,               \* azimuth units in a full turn (360 degrees)
    Step,               \* azimuth units between two blocks
    Blocks,             \* blocks in a packet (12)
    Sensors,            \* sensors fired together (16, m_ENTRIES_PER_AZIMUTH)
    MaxPoints,          \* m_MAX_POINT_SIZE
    PointCloudOptions,  \* configured clouds, of 0: SPC, 1: CPC, 2: both
    IntensityOptions,   \* configured CPC streams, of 0: without, 1: with, 2: both
    EchoPatterns,       \* sets of sensors whose distance is over 1 m in a block
    MaxPosition,        \* bound: the sensor sends no packet beyond it
    MaxLost             \* bound: packets lost in a row

ASSUME VelodyneAssumption ==
    /\ Turn \in Nat \ {0} /\ Turn % 2 = 0
    /\ Step \in Nat \ {0} /\ Step % 2 = 0
    /\ Blocks \in Nat \ {0} /\ Sensors \in Nat \ {0} /\ MaxPoints \in Nat \ {0}
    /\ PointCloudOptions \subseteq 0 .. 2 /\ IntensityOptions \subseteq 0 .. 2
    /\ EchoPatterns \subseteq SUBSET (0 .. Sensors - 1)
    /\ MaxPosition \in Nat /\ MaxLost \in Nat

VARIABLES
    pointCloudOption, intensityOption,
    pc, position, blockID, counter, echoes,
    sensorAt, lost, packet, firedAt,
    currentAzimuth, previousAzimuth, nextAzimuth, deltaAzimuth,
    pointIndexSPC, startID, segment, spc,
    pointIndexCPC, startAzimuth, rows, cpc

config == <<pointCloudOption, intensityOption>>
cursor == <<pc, position, blockID, counter, echoes>>
sensor == <<sensorAt, lost, packet>>
angles == <<currentAzimuth, previousAzimuth, nextAzimuth, deltaAzimuth, firedAt>>
spcVars == <<pointIndexSPC, startID, segment, spc>>
cpcVars == <<pointIndexCPC, startAzimuth, rows, cpc>>
vars == <<config, cursor, sensor, angles, spcVars, cpcVars>>

Components == 4                         \* floats of a point in the segment
Beams == 2 * Sensors                    \* beams of a block, two firings
BlockBytes == 4 + 3 * Beams             \* flag, azimuth, 3 bytes for a beam
PacketSpan == Blocks * Step
LastBlockSlip == Blocks
LastBlock == Blocks - 1
AllStreams == {"noIntensity", "withIntensity"}
PointType == [at : Int, sensor : 0 .. Sensors - 1, azimuth : 0 .. Turn]
NoPoint == [at |-> -1, sensor |-> 0, azimuth |-> 0]     \* never written

WithSPC == pointCloudOption \in {0, 2}
WithCPC == pointCloudOption \in {1, 2}
Streams ==
    {s \in AllStreams : \/ s = "noIntensity" /\ intensityOption \in {0, 2}
                        \/ s = "withIntensity" /\ intensityOption \in {1, 2}}

-----------------------------------------------------------------------------
(* What stands at a byte of the packet being decoded.                      *)

ReportedAzimuth(byte) == (packet + (byte \div BlockBytes) * Step) % Turn

BeamOfBlock(byte) == ((byte % BlockBytes) - 4) \div 3

FiringAt(byte) ==
    packet + (byte \div BlockBytes) * Step
           + (BeamOfBlock(byte) \div Sensors) * (Step \div 2)

Point(byte) ==
    [at |-> FiringAt(byte), sensor |-> counter % Sensors, azimuth |-> currentAzimuth]

NormalisedSlip(azimuth) == IF azimuth > Turn THEN azimuth - (Turn - 1) ELSE azimuth
Normalised(azimuth) == IF azimuth > Turn THEN azimuth - Turn ELSE azimuth

SegmentPoints == [i \in 1 .. pointIndexSPC |-> segment[i - 1]]

-----------------------------------------------------------------------------
Init ==
    /\ pointCloudOption \in PointCloudOptions /\ intensityOption \in IntensityOptions
    /\ pc = "idle" /\ position = 0 /\ blockID = 0 /\ counter = 0 /\ echoes = {}
    /\ sensorAt \in 0 .. Turn - 1 /\ lost = 0 /\ packet = 0 /\ firedAt = 0
    /\ currentAzimuth = 0 /\ previousAzimuth = 0
    /\ nextAzimuth = 0 /\ deltaAzimuth = 0
    /\ pointIndexSPC = 0 /\ startID = 0
    /\ segment = [i \in 0 .. MaxPoints - 1 |-> NoPoint]
    /\ spc = <<>>
    /\ pointIndexCPC = 0 /\ startAzimuth = 0
    /\ rows = [s \in AllStreams |-> <<>>]
    /\ cpc = [s \in AllStreams |-> [start |-> 0, end |-> 0, rows |-> <<>>]]

(* The UDP socket drops a packet, or the packet has not 1206 bytes (before *)
(* the first packet a loss is just a later start).                         *)
LosePacket ==
    /\ pc = "idle"
    /\ lost < MaxLost /\ sensorAt >= Turn
    /\ sensorAt + 2 * PacketSpan <= MaxPosition
    /\ sensorAt' = sensorAt + PacketSpan
    /\ lost' = lost + 1
    /\ UNCHANGED <<packet, config, cursor, angles, spcVars, cpcVars>>

ReceivePacket ==
    /\ pc = "idle"
    /\ sensorAt + PacketSpan <= MaxPosition
    /\ packet' = sensorAt
    /\ sensorAt' = sensorAt + PacketSpan
    /\ lost' = 0
    /\ pc' = "azimuth"
    /\ UNCHANGED <<config, position, blockID, counter, echoes, angles, spcVars, cpcVars>>

-----------------------------------------------------------------------------
(* sendPointCloud: the segment is copied to the shared memory (which is    *)
(* valid: setUp has created it), its index is the width; the CPC carries   *)
(* the azimuths it starts and ends at.                                     *)

ResetSegmentSlip == pointIndexSPC' = 0 /\ startID' = startID
ResetSegment == pointIndexSPC' = 0 /\ startID' = 0

PublishSPC ==
    IF WithSPC
    THEN spc' = SegmentPoints /\ ResetSegment /\ UNCHANGED segment
    ELSE UNCHANGED spcVars

NextStartSlip(azimuth) == previousAzimuth
NextStart(azimuth) == azimuth

ResetRowsSlip == rows' = rows
ResetRows == rows' = [s \in AllStreams |-> <<>>]

PublishCPC(azimuth) ==
    IF WithCPC
    THEN /\ cpc' = [s \in AllStreams |->
                      IF s \in Streams
                      THEN [start |-> startAzimuth, end |-> previousAzimuth, rows |-> rows[s]]
                      ELSE cpc[s]]
         /\ pointIndexCPC' = 0
         /\ startAzimuth' = NextStart(azimuth)
         /\ ResetRows
    ELSE UNCHANGED cpcVars

SendPointCloud(azimuth) == PublishSPC /\ PublishCPC(azimuth)

BlockAzimuth ==
    IF blockID = 0 THEN ReportedAzimuth(position + 2) ELSE Normalised(nextAzimuth)

StartBlock ==
    /\ pc = "azimuth"
    /\ currentAzimuth' = BlockAzimuth
    /\ previousAzimuth' = BlockAzimuth
    /\ firedAt' = packet + blockID * Step
    /\ position' = position + 4
    /\ pc' = "guard"
    /\ UNCHANGED <<config, blockID, counter, echoes, nextAzimuth, deltaAzimuth, sensor>>

ContinueScan ==
    /\ StartBlock
    /\ BlockAzimuth >= previousAzimuth
    /\ UNCHANGED <<spcVars, cpcVars>>

CompleteScan ==
    /\ StartBlock
    /\ BlockAzimuth < previousAzimuth
    /\ SendPointCloud(BlockAzimuth)

-----------------------------------------------------------------------------
(* The end of a block, at the given byte: the next one, or the packet is   *)
(* done and the locals of nextString are gone.                             *)
LeaveBlock(byte) ==
    /\ counter' = 0
    /\ echoes' = {}
    /\ IF blockID < LastBlock
       THEN pc' = "azimuth" /\ blockID' = blockID + 1 /\ position' = byte
       ELSE pc' = "idle" /\ blockID' = 0 /\ position' = 0

HasRoom == pointIndexSPC < MaxPoints \/ pointIndexCPC < MaxPoints

EnterBlock ==
    /\ pc = "guard"
    /\ HasRoom
    /\ \E pattern \in EchoPatterns : echoes' = pattern
    /\ pc' = "beam"
    /\ UNCHANGED <<config, position, blockID, counter, sensor, angles, spcVars, cpcVars>>

SkipBlock ==
    /\ pc = "guard"
    /\ ~HasRoom
    /\ LeaveBlock(position + 3 * Beams)
    /\ UNCHANGED <<config, sensor, angles, spcVars, cpcVars>>

(* In the middle of a block the azimuth of the next block is read ahead,   *)
(* and that of the second firing is taken halfway; the last block of a     *)
(* packet goes on with the difference of the block before.                 *)

ReadAheadSlip == ReportedAzimuth(position + 3 * Sensors + 2)
ReadAhead ==
    LET reported == ReportedAzimuth(position + 3 * Sensors + 2)
    IN  IF reported < currentAzimuth THEN reported + Turn ELSE reported

Delta ==
    IF blockID < LastBlock THEN (ReadAhead - currentAzimuth) \div 2 ELSE deltaAzimuth

Interpolate ==
    /\ pc = "middle"
    /\ nextAzimuth' = IF blockID < LastBlock THEN ReadAhead ELSE nextAzimuth
    /\ deltaAzimuth' = Delta
    /\ currentAzimuth' = Normalised(currentAzimuth + Delta)
    /\ previousAzimuth' = Normalised(currentAzimuth + Delta)
    /\ firedAt' = FiringAt(position)
    /\ pc' = "beam"
    /\ UNCHANGED <<config, position, blockID, counter, echoes, sensor>>

ContinueHalf ==
    /\ Interpolate
    /\ currentAzimuth + Delta <= Turn
    /\ UNCHANGED <<spcVars, cpcVars>>

CompleteHalf ==
    /\ Interpolate
    /\ currentAzimuth + Delta > Turn
    /\ SendPointCloud(Normalised(currentAzimuth + Delta))

-----------------------------------------------------------------------------
(* One beam: its point is stored when it has an echo and the segment has   *)
(* room; its distance goes to the row, written after the last sensor.      *)

SegmentHasRoom == pointIndexSPC < MaxPoints

StorePoint ==
    IF WithSPC /\ SegmentHasRoom /\ BeamOfBlock(position) % Sensors \in echoes
    THEN /\ segment' = [segment EXCEPT ![startID \div Components] = Point(position)]
         /\ pointIndexSPC' = pointIndexSPC + 1
         /\ startID' = startID + Components
         /\ UNCHANGED spc
    ELSE UNCHANGED spcVars

RowCompleteSlip == counter = Beams - 1
RowComplete == counter % Sensors = Sensors - 1

StoreDistance ==
    IF WithCPC /\ pointIndexCPC < MaxPoints
    THEN /\ pointIndexCPC' = pointIndexCPC + 1
         /\ rows' = [s \in AllStreams |->
                       IF s \in Streams /\ RowComplete
                       THEN Append(rows[s], Point(position)) ELSE rows[s]]
         /\ UNCHANGED <<startAzimuth, cpc>>
    ELSE UNCHANGED cpcVars

FrameFull ==
    \/ WithCPC /\ pointIndexCPC' >= MaxPoints
    \/ ~WithCPC /\ pointIndexSPC' >= MaxPoints

BytesLeftSlip == 3 * (Beams - counter)
BytesLeft == 3 * (Beams - 1 - counter)

NextBeam ==
    /\ counter' = counter + 1
    /\ position' = position + 3
    /\ pc' = IF counter + 1 = Sensors THEN "middle" ELSE "beam"
    /\ UNCHANGED <<blockID, echoes>>

DecodeBeam ==
    /\ pc = "beam"
    /\ StorePoint
    /\ StoreDistance
    /\ IF FrameFull THEN LeaveBlock(position + 3 + BytesLeft)
       ELSE IF counter < Beams - 1 THEN NextBeam ELSE LeaveBlock(position + 3)
    /\ UNCHANGED <<config, sensor, angles>>

-----------------------------------------------------------------------------
Next ==
    \/ LosePacket \/ ReceivePacket
    \/ ContinueScan \/ CompleteScan
    \/ EnterBlock \/ SkipBlock
    \/ ContinueHalf \/ CompleteHalf
    \/ DecodeBeam

Spec == Init /\ [][Next]_vars

-----------------------------------------------------------------------------
(* The types of the variables.                                             *)
TypeOK ==
    /\ pointCloudOption \in 0 .. 2 /\ intensityOption \in 0 .. 2
    /\ pc \in {"idle", "azimuth", "guard", "middle", "beam"}
    /\ position \in Nat /\ blockID \in 0 .. Blocks - 1 /\ counter \in 0 .. Beams - 1
    /\ echoes \subseteq 0 .. Sensors - 1
    /\ sensorAt \in Nat /\ lost \in Nat /\ packet \in Nat /\ firedAt \in Int
    /\ currentAzimuth \in 0 .. Turn /\ previousAzimuth \in 0 .. Turn
    /\ nextAzimuth \in 0 .. 2 * Turn /\ deltaAzimuth \in 0 .. Turn
    /\ pointIndexSPC \in Nat /\ startID \in Nat
    /\ segment \in [0 .. MaxPoints - 1 -> PointType]
    /\ pointIndexCPC \in Nat /\ startAzimuth \in 0 .. Turn
    /\ rows \in [AllStreams -> Seq(PointType)]

(* The float written next is the first one behind the points of the frame  *)
(* and never outside the malloc'ed segment (startID and pointIndexSPC are  *)
(* reset in one place and advanced in another).                            *)
SegmentBounds ==
    /\ pointIndexSPC <= MaxPoints
    /\ startID = Components * pointIndexSPC

(* However a block was left (decoded, skipped because the frame is full,   *)
(* or broken off in the middle), the read position stands where the next   *)
(* field of the packet begins.                                             *)
CursorAligned ==
    /\ pc = "azimuth" => position = blockID * BlockBytes
    /\ pc = "guard" => position = blockID * BlockBytes + 4
    /\ pc \in {"beam", "middle"} => position = blockID * BlockBytes + 4 + 3 * counter

(* A CPC holds one row for every Sensors distances counted: counter, index *)
(* and streams are advanced separately and reset together.                 *)
RowAccounting ==
    WithCPC => \A s \in Streams : Len(rows[s]) = pointIndexCPC \div Sensors

(* Whatever was lost, full or cut too early: inside a frame the azimuths   *)
(* never decrease, so a frame never spans the 360 degree boundary.         *)
Ascending(points) ==
    \A i \in 1 .. Len(points) - 1 : points[i].azimuth <= points[i + 1].azimuth
AzimuthsAscend ==
    /\ Ascending(SegmentPoints)
    /\ \A s \in AllStreams : Ascending(rows[s])

(* While no frame overflows, the decoder implements ScanFrames, for the    *)
(* points of the SPC and for the rows of the CPC: frames are cut exactly   *)
(* between two turns of the sensor and every azimuth is the true one.      *)
turnCollected == (firedAt - previousAzimuth) \div Turn

SPCScan == INSTANCE ScanFrames WITH
    Capacity <- MaxPoints, turn <- turnCollected,
    frame <- SegmentPoints, published <- spc
SPCRefinesScan == SPCScan!ScanSpec

aStream == IF intensityOption = 1 THEN "withIntensity" ELSE "noIntensity"

CPCScan == INSTANCE ScanFrames WITH
    Capacity <- MaxPoints, turn <- turnCollected,
    frame <- rows[aStream], published <- cpc[aStream].rows
CPCRefinesScan == CPCScan!ScanSpec

(* While no frame overflows, only whole packets are missing between two    *)
(* rows, within a frame and from one frame to the next: no firing of a     *)
(* packet that arrived is left out, in particular not at the cut.          *)
OnlyPacketsMissing(r, q) == (q.at - r.at - Step \div 2) % PacketSpan = 0
NoFiringMissing ==
    \A s \in Streams :
        LET sent == cpc[s].rows \o rows[s]
        IN  \A i \in 1 .. Len(sent) - 1 : OnlyPacketsMissing(sent[i], sent[i + 1])

(* The azimuths a CPC announces are those of its first and last row.  (Not *)
(* for the first frame: startAzimuth is 0 until the first cut.)            *)
HeaderMatchesRows ==
    \A s \in Streams :
        LET r == cpc[s].rows
        IN  r # <<>> /\ r[1].at >= Turn =>
                cpc[s].start = r[1].azimuth /\ cpc[s].end = r[Len(r)].azimuth

(* With both clouds enabled and no overflow, an SPC and the CPC sent with  *)
(* it show the same firings (every pattern of the run has an echo).        *)
CloudsAgree ==
    WithSPC /\ WithCPC => \A s \in Streams :
        {spc[i].at : i \in 1 .. Len(spc)} =
        {cpc[s].rows[i].at : i \in 1 .. Len(cpc[s].rows)}

(* A frame is sent "when a complete scan is completed": when the sensor    *)
(* has passed from one turn to the next since the firing before.           *)
CutOnlyAtTurn ==
    [][CompleteScan \/ CompleteHalf =>
         \E k \in 1 .. MaxPosition : firedAt <= k * Turn /\ k * Turn <= firedAt']_vars
=============================================================================
