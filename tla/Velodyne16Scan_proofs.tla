------------------------ MODULE Velodyne16Scan_proofs ------------------------
(***************************************************************************)
(* The VLP-16 decoder implements ScanFrames, with the points of the shared *)
(* and with the rows of the compact cloud, for any sizes and any losses    *)
(* under three assumptions: a packet has more than one block (the last     *)
(* takes the difference of azimuths over), less than a turn is lost at     *)
(* once, and a turn fits into a frame.  The sensor has 12 blocks, and 16   *)
(* beams every 0.2 degrees are fewer than 30000 in a turn:                 *)
(* 16 * (36000 + 20) < 30000 * 20.                                         *)
(*                                                                         *)
(* The invariant says where the head stood at every point of the loop, and *)
(* that the azimuth handed out is the one it had there (OnTurn, OnTrack);  *)
(* that a frame has no more beams than were fired since its turn began     *)
(* (RoomInv), so that no block is skipped or broken off; and that the      *)
(* points collected were fired before (LastPoint, LastRow).                *)
(***************************************************************************)
EXTENDS Velodyne16Decoder_proofs

-----------------------------------------------------------------------------
Half == Step \div 2

ShortLosses == Step < Turn /\ Half + MaxLost * PacketSpan < Turn
FrameFits == Sensors * (Turn + Half) < MaxPoints * Half
ScanAssumption == Blocks > 1 /\ ShortLosses /\ FrameFits

(* Where the head fires the first beams of the block being decoded.        *)
BlockAt == packet + blockID * Step

OnTurn ==
    /\ firedAt \in Nat /\ turnCollected \in Nat
    /\ firedAt = turnCollected * Turn + previousAzimuth

(* Before the first packet.                                                *)
NothingYet ==
    /\ firedAt = 0 /\ previousAzimuth = 0
    /\ pointIndexSPC = 0 /\ pointIndexCPC = 0
    /\ \A s \in AllStreams : rows[s] = <<>>

(* The azimuth read ahead is half a step after the current one.            *)
NextKnown ==
    \/ nextAzimuth = previousAzimuth + Half
    \/ nextAzimuth = previousAzimuth + Half + Turn

BetweenPackets ==
    /\ pc = "idle" =>
        \/ NothingYet /\ sensorAt < Turn
        \/ sensorAt = firedAt + Half + lost * PacketSpan
    /\ lost <= MaxLost
    /\ pc # "idle" => lost = 0 /\ sensorAt = packet + PacketSpan

BetweenBlocks ==
    /\ pc = "azimuth" /\ blockID = 0 =>
        \/ NothingYet /\ BlockAt < Turn
        \/ firedAt + Half <= BlockAt /\ BlockAt < firedAt + Turn
    /\ pc = "azimuth" /\ blockID > 0 => BlockAt = firedAt + Half /\ NextKnown
    /\ blockID > 0 => deltaAzimuth = Half

InBlock ==
    /\ pc \in {"guard", "middle"} => firedAt = BlockAt
    /\ pc = "beam" /\ counter < Sensors => firedAt = BlockAt
    /\ pc = "beam" /\ counter >= Sensors =>
        /\ firedAt = BlockAt + Half /\ deltaAzimuth = Half
        /\ blockID < LastBlock => NextKnown

OnTrack == OnTurn /\ BetweenPackets /\ BetweenBlocks /\ InBlock

(* A frame with n beams counted began at azimuth 0 or later.               *)
Room(n, where, azimuth, column) ==
    /\ where \in {"idle", "azimuth", "middle"} => n * Half <= Sensors * (azimuth + Half)
    /\ where = "guard" => n * Half <= Sensors * azimuth
    /\ where = "beam" => n * Half <= Sensors * azimuth + column * Half

RoomInv ==
    /\ Room(pointIndexSPC, pc, previousAzimuth, Column)
    /\ Room(pointIndexCPC, pc, previousAzimuth, Column)
    /\ \A s \in AllStreams : Len(rows[s]) <= pointIndexCPC

LastPoint ==
    LET at == segment[pointIndexSPC - 1].at
        beam == segment[pointIndexSPC - 1].sensor
    IN  pointIndexSPC > 0 =>
            /\ at <= firedAt
            /\ pc = "guard" => at < firedAt
            /\ pc = "beam" => at < firedAt \/ (at = firedAt /\ beam < Column)

LastRow ==
    \A s \in AllStreams : Len(rows[s]) > 0 =>
        /\ rows[s][Len(rows[s])].at <= firedAt
        /\ pc \in {"guard", "beam"} => rows[s][Len(rows[s])].at < firedAt

(* A cloud that is not configured is never published.                      *)
NeverSent ==
    /\ ~WithSPC => spc = <<>>
    /\ ~WithCPC => pointIndexCPC = 0 /\ \A s \in AllStreams : cpc[s].rows = <<>>

ScanInv == IInv /\ OnTrack /\ RoomInv /\ LastPoint /\ LastRow /\ NeverSent

-----------------------------------------------------------------------------
(* Arithmetic.                                                             *)

LEMMA TurnBy ==
    ASSUME NEW t \in Nat \ {0}, NEW k \in Nat, NEW p \in Nat, NEW f, f = k * t + p
    PROVE  (f - p) \div t = k /\ f \in Nat
  <1>1. k * t \in Nat
    OBVIOUS
  <1>2. f - p = k * t
    BY <1>1
  <1>3. (k * t) \div t = k
    OBVIOUS
  <1> QED
    BY <1>1, <1>2, <1>3

LEMMA DivMod ==
    ASSUME NEW t \in Nat \ {0}, NEW f \in Nat
    PROVE  f % t \in 0 .. t - 1 /\ f \div t \in Nat /\ f = (f \div t) * t + (f % t)
  OBVIOUS

(* Two firings less than a turn apart: the azimuth falls with the turn.    *)
LEMMA TurnsApart ==
    ASSUME NEW t \in Nat \ {0}, NEW k \in Int, NEW m \in Int, NEW p \in 0 .. t,
           NEW q \in 0 .. t, k * t + p <= m * t + q, m * t + q < k * t + p + t,
           q = t => k * t + p < m * t + q
    PROVE  /\ q >= p => m = k
           /\ q < p => m > k
  <1>1. PICK j \in Int : m = k + j
    <2>1. m = k + (m - k) /\ m - k \in Int
      OBVIOUS
    <2> QED
      BY <2>1
  <1>2. m * t = k * t + j * t
    BY <1>1
  <1>3. k * t \in Int /\ j * t \in Int
    OBVIOUS
  <1>4. p - q <= j * t /\ j * t < p - q + t
    BY <1>2, <1>3
  <1>5. /\ j >= 1 => j * t >= t
        /\ j <= -1 => j * t <= -t
        /\ j = 0 => j * t = 0
    OBVIOUS
  <1> DEFINE d == j * t
  <1>6. /\ d \in Int /\ p - q <= d /\ d < p - q + t /\ (j >= 1 => d >= t) /\ (j <= -1 => d <= -t)
        /\ q = t => p - q < d
    BY <1>2, <1>3, <1>4, <1>5
  <1> HIDE DEF d
  <1>7. q >= p => j = 0
    BY <1>6
  <1>8. q < p => j >= 1
    <2>1. CASE j <= -1
      BY <1>6, <2>1
    <2>2. CASE j = 0
      <3>1. d = 0
        BY <1>5, <2>2 DEF d
      <3> QED
        BY <1>6, <3>1
    <2> QED
      BY <2>1, <2>2
  <1> QED
    BY <1>1, <1>7, <1>8

LEMMA Difference ==
    ASSUME NEW a \in Nat, NEW b \in Nat \ {0}, ~(a < b)
    PROVE  a - b \in Nat
  OBVIOUS

(* A frame of no more beams than a turn and a firing has room.             *)
LEMMA Fits ==
    ASSUME NEW n \in Nat, NEW m \in Nat, NEW h \in Nat \ {0}, NEW x \in Nat, NEW y \in Nat,
           n * h <= x, x <= y, y < m * h
    PROVE  n < m
  <1> SUFFICES ASSUME n >= m PROVE FALSE
    OBVIOUS
  <1>1. n * h >= m * h /\ n * h \in Nat /\ m * h \in Nat
    OBVIOUS
  <1> QED
    BY <1>1

LEMMA Products ==
    ASSUME NEW s \in Nat, NEW a \in Nat, NEW b \in Nat, a <= b
    PROVE  /\ s * a \in Nat /\ s * b \in Nat /\ s * a <= s * b
           /\ s * (a + b) = s * a + s * b
           /\ (s + 1) * b = s * b + b
  OBVIOUS
-----------------------------------------------------------------------------
LEMMA Numbers ==
    /\ Half \in Nat \ {0} /\ Step = 2 * Half /\ Half <= Step
    /\ MaxLost \in Nat
  BY VelodyneAssumption DEF Half

LEMMA StepInTurn ==
    ASSUME ShortLosses
    PROVE  Step < Turn /\ Half < Turn
  <1>1. Step < Turn
    BY DEF ShortLosses
  <1>2. Half \in Nat /\ Step \in Nat /\ Half <= Step /\ Turn \in Nat
    BY Sizes, Numbers
  <1> QED
    BY <1>1, <1>2

LEMMA GapShort ==
    ASSUME ShortLosses, NEW n \in Nat, n <= MaxLost
    PROVE  /\ n * PacketSpan \in Nat /\ Half + n * PacketSpan < Turn
           /\ (n + 1) * PacketSpan = n * PacketSpan + PacketSpan
  <1>1. PacketSpan \in Nat /\ MaxLost \in Nat /\ Half \in Nat /\ Turn \in Nat
    BY Sizes, Numbers
  <1>2. /\ n * PacketSpan \in Nat /\ MaxLost * PacketSpan \in Nat
        /\ n * PacketSpan <= MaxLost * PacketSpan
        /\ (n + 1) * PacketSpan = n * PacketSpan + PacketSpan
    BY <1>1
  <1> QED
    BY <1>1, <1>2 DEF ShortLosses

LEMMA BlockAtNat ==
    ASSUME TypeOK
    PROVE  /\ blockID \in Nat /\ packet \in Nat /\ blockID * Step \in Nat /\ BlockAt \in Nat
           /\ (blockID + 1) * Step = blockID * Step + Step
  <1>1. blockID \in Nat /\ packet \in Nat /\ Step \in Nat
    BY Sizes DEF TypeOK
  <1>2. blockID * Step \in Nat /\ (blockID + 1) * Step = blockID * Step + Step
    BY <1>1
  <1> QED
    BY <1>1, <1>2 DEF BlockAt

(* Whatever the head has turned to and the azimuth that belongs to it.     *)
LEMMA NewTurn ==
    ASSUME TypeOK', NEW k \in Nat, firedAt' = k * Turn + previousAzimuth'
    PROVE  OnTurn' /\ turnCollected' = k
  <1>1. previousAzimuth' \in Nat /\ Turn \in Nat \ {0}
    BY Sizes DEF TypeOK
  <1>2. (firedAt' - previousAzimuth') \div Turn = k /\ firedAt' \in Nat
    BY <1>1, TurnBy, Zenon
  <1>3. turnCollected' = k
    BY <1>2, Zenon DEF turnCollected
  <1>4. firedAt' = turnCollected' * Turn + previousAzimuth'
    BY <1>3, Zenon
  <1> QED
    BY <1>2, <1>3, <1>4, Zenon DEF OnTurn

(* A step that leaves the clouds and the azimuths alone.                   *)
LEMMA CloudsUntouched ==
    ASSUME ScanInv, UNCHANGED <<config, angles, spcVars, cpcVars>>
    PROVE  /\ OnTurn' /\ NeverSent' /\ turnCollected' = turnCollected
           /\ SegmentPoints' = SegmentPoints
           /\ UNCHANGED <<firedAt, previousAzimuth, nextAzimuth, deltaAzimuth, currentAzimuth,
                          pointIndexSPC, segment, spc, pointIndexCPC, rows, cpc>>
           /\ \A s \in AllStreams : Len(rows'[s]) <= pointIndexCPC'
  <1>1. UNCHANGED <<firedAt, previousAzimuth, nextAzimuth, deltaAzimuth, currentAzimuth,
                    pointIndexSPC, segment, spc, pointIndexCPC, rows, cpc,
                    pointCloudOption>>
    BY DEF config, angles, spcVars, cpcVars
  <1>2. OnTurn' /\ turnCollected' = turnCollected
    BY <1>1 DEF ScanInv, OnTrack, OnTurn, turnCollected
  <1>3. NeverSent'
    BY <1>1 DEF ScanInv, NeverSent, WithSPC, WithCPC
  <1> QED
    BY <1>1, <1>2, <1>3 DEF ScanInv, RoomInv, SegmentPoints

LEMMA LosePacketTrack ==
    ASSUME ShortLosses, ScanInv, LosePacket
    PROVE  OnTrack' /\ RoomInv' /\ LastPoint' /\ LastRow' /\ NeverSent'
  <1>1. /\ pc = "idle" /\ pc' = "idle" /\ lost < MaxLost /\ sensorAt >= Turn
        /\ sensorAt' = sensorAt + PacketSpan /\ lost' = lost + 1
        /\ UNCHANGED <<packet, blockID, counter>>
        /\ UNCHANGED <<config, angles, spcVars, cpcVars>>
    BY DEF LosePacket, cursor
  <1>2. /\ OnTurn' /\ NeverSent'
        /\ UNCHANGED <<firedAt, previousAzimuth, nextAzimuth, deltaAzimuth,
                       pointIndexSPC, segment, pointIndexCPC, rows>>
        /\ \A s \in AllStreams : Len(rows'[s]) <= pointIndexCPC'
    BY <1>1, CloudsUntouched
  <1>3. /\ lost \in Nat /\ sensorAt \in Nat /\ PacketSpan \in Nat /\ Turn \in Nat
        /\ MaxLost \in Nat /\ Half \in Nat /\ firedAt \in Nat
    BY Sizes, Numbers DEF ScanInv, IInv, TypeOK, OnTrack, OnTurn
  <1>4. BetweenPackets'
    <2>1. /\ lost * PacketSpan \in Nat
          /\ (lost + 1) * PacketSpan = lost * PacketSpan + PacketSpan
      BY <1>1, <1>3, GapShort
    <2>2. sensorAt = firedAt + Half + lost * PacketSpan
      BY <1>1, <1>3 DEF ScanInv, OnTrack, BetweenPackets
    <2>3. sensorAt' = firedAt' + Half + lost' * PacketSpan /\ lost' <= MaxLost
      BY <1>1, <1>2, <1>3, <2>1, <2>2
    <2> QED
      BY <1>1, <2>3 DEF BetweenPackets
  <1>5. BetweenBlocks' /\ InBlock'
    BY <1>1, <1>2 DEF ScanInv, OnTrack, BetweenBlocks, InBlock
  <1>6. RoomInv'
    BY <1>1, <1>2 DEF ScanInv, RoomInv, Room
  <1>7. LastPoint' /\ LastRow'
    BY <1>1, <1>2 DEF ScanInv, LastPoint, LastRow
  <1> QED
    BY <1>2, <1>4, <1>5, <1>6, <1>7 DEF OnTrack

LEMMA ReceivePacketTrack ==
    ASSUME ShortLosses, ScanInv, ReceivePacket
    PROVE  OnTrack' /\ RoomInv' /\ LastPoint' /\ LastRow' /\ NeverSent'
  <1>1. /\ pc = "idle" /\ pc' = "azimuth" /\ packet' = sensorAt
        /\ sensorAt' = sensorAt + PacketSpan /\ lost' = 0
        /\ UNCHANGED <<blockID, counter>>
        /\ UNCHANGED <<config, angles, spcVars, cpcVars>>
    BY DEF ReceivePacket
  <1>2. /\ OnTurn' /\ NeverSent'
        /\ UNCHANGED <<firedAt, previousAzimuth, nextAzimuth, deltaAzimuth,
                       pointIndexSPC, segment, pointIndexCPC, rows>>
        /\ \A s \in AllStreams : Len(rows'[s]) <= pointIndexCPC'
    BY <1>1, CloudsUntouched
  <1>3. /\ lost \in Nat /\ sensorAt \in Nat /\ PacketSpan \in Nat /\ Turn \in Nat
        /\ MaxLost \in Nat /\ Half \in Nat /\ firedAt \in Nat /\ Half <= Step /\ Step \in Nat
    BY Sizes, Numbers DEF ScanInv, IInv, TypeOK, OnTrack, OnTurn
  <1>4. blockID = 0 /\ lost <= MaxLost
    BY <1>1 DEF ScanInv, IInv, LoopInv, OnTrack, BetweenPackets
  <1>5. BlockAt' = sensorAt
    <2>1. 0 * Step = 0
      BY <1>3
    <2> QED
      BY <1>1, <1>3, <1>4, <2>1 DEF BlockAt
  <1>6. BetweenPackets'
    BY <1>1, <1>3 DEF BetweenPackets
  <1>7. BetweenBlocks'
    <2>1. CASE NothingYet /\ sensorAt < Turn
      <3>1. NothingYet'
        BY <1>2, <2>1 DEF NothingYet
      <3> QED
        BY <1>1, <1>4, <1>5, <2>1, <3>1 DEF BetweenBlocks
    <2>2. CASE sensorAt = firedAt + Half + lost * PacketSpan
      <3>1. lost * PacketSpan \in Nat /\ Half + lost * PacketSpan < Turn
        BY <1>3, <1>4, GapShort
      <3>2. firedAt + Half <= sensorAt /\ sensorAt < firedAt + Turn
        BY <1>3, <2>2, <3>1
      <3> QED
        BY <1>1, <1>2, <1>4, <1>5, <3>2 DEF BetweenBlocks
    <2> QED
      BY <1>1, <2>1, <2>2 DEF ScanInv, OnTrack, BetweenPackets
  <1>8. InBlock'
    BY <1>1 DEF InBlock
  <1>9. RoomInv'
    BY <1>1, <1>2 DEF ScanInv, RoomInv, Room
  <1>10. LastPoint' /\ LastRow'
    BY <1>1, <1>2 DEF ScanInv, LastPoint, LastRow
  <1> QED
    BY <1>2, <1>6, <1>7, <1>8, <1>9, <1>10 DEF OnTrack
-----------------------------------------------------------------------------
(* A block begins.                                                         *)

(* The first azimuth of a packet is reported by the sensor.                *)
LEMMA FirstAzimuth ==
    ASSUME ScanInv, pc = "azimuth", blockID = 0
    PROVE  BlockAzimuth = BlockAt % Turn
  <1>1. position = 0
    <2>1. position = blockID * BlockBytes /\ BlockBytes \in Nat
      BY Sizes DEF ScanInv, IInv, CursorAligned
    <2> QED
      BY <2>1
  <1>2. (0 + 2) \div BlockBytes = 0
    BY Sizes DEF BlockBytes
  <1>3. ReportedAzimuth(position + 2) = BlockAt % Turn
    BY <1>1, <1>2 DEF ReportedAzimuth, BlockAt
  <1> QED
    BY <1>3 DEF BlockAzimuth

(* The azimuth of any other was read ahead, and is half a step later.      *)
LEMMA NextAzimuth ==
    ASSUME ShortLosses, ScanInv, pc = "azimuth", blockID > 0
    PROVE  /\ BlockAt = firedAt + Half
           /\ \/ BlockAzimuth = previousAzimuth + Half
              \/ BlockAzimuth = previousAzimuth + Half - Turn
  <1>1. BlockAt = firedAt + Half /\ NextKnown
    BY DEF ScanInv, OnTrack, BetweenBlocks
  <1>2. BlockAzimuth = Normalised(nextAzimuth)
    <2>1. blockID # 0
      BY BlockAtNat DEF ScanInv, IInv
    <2> QED
      BY <2>1 DEF BlockAzimuth
  <1>3. /\ Half \in Nat /\ Half < Turn /\ Turn \in Nat
        /\ previousAzimuth \in Nat /\ previousAzimuth <= Turn
    BY Sizes, Numbers, StepInTurn DEF ScanInv, IInv, TypeOK
  <1>4. \/ BlockAzimuth = previousAzimuth + Half
        \/ BlockAzimuth = previousAzimuth + Half - Turn
    <2>1. CASE nextAzimuth = previousAzimuth + Half
      <3>1. BlockAzimuth = IF nextAzimuth > Turn THEN nextAzimuth - Turn ELSE nextAzimuth
        BY <1>2 DEF Normalised
      <3>2. CASE nextAzimuth > Turn
        <4>1. BlockAzimuth = nextAzimuth - Turn
          BY <3>1, <3>2
        <4>2. BlockAzimuth = previousAzimuth + Half - Turn
          BY <1>3, <2>1, <4>1
        <4> QED
          BY <4>2
      <3>3. CASE ~(nextAzimuth > Turn)
        BY <2>1, <3>1, <3>3
      <3> QED
        BY <3>2, <3>3
    <2>2. CASE nextAzimuth = previousAzimuth + Half + Turn
      <3>1. BlockAzimuth = IF nextAzimuth > Turn THEN nextAzimuth - Turn ELSE nextAzimuth
        BY <1>2 DEF Normalised
      <3>2. nextAzimuth - Turn = previousAzimuth + Half
        BY <1>3, <2>2
      <3>3. nextAzimuth > Turn \/ previousAzimuth + Half = 0
        BY <1>3, <2>2
      <3>4. Half > 0
        BY Numbers
      <3>5. nextAzimuth > Turn
        BY <1>3, <3>3, <3>4
      <3> QED
        BY <3>1, <3>2, <3>5
    <2> QED
      BY <1>1, <2>1, <2>2 DEF NextKnown
  <1> QED
    BY <1>1, <1>4

LEMMA StartBlockTurn ==
    ASSUME ShortLosses, ScanInv, TypeOK', StartBlock
    PROVE  /\ firedAt' = BlockAt /\ BlockAt \in Nat
           /\ previousAzimuth' = BlockAzimuth /\ BlockAzimuth \in 0 .. Turn
           /\ OnTurn'
           /\ BlockAzimuth >= previousAzimuth => turnCollected' = turnCollected
           /\ BlockAzimuth < previousAzimuth => turnCollected' > turnCollected
           /\ NothingYet \/ firedAt + Half <= BlockAt
  <1>1. /\ pc = "azimuth" /\ firedAt' = BlockAt /\ previousAzimuth' = BlockAzimuth
    BY DEF StartBlock, BlockAt
  <1>2. BlockAzimuth \in 0 .. Turn
    BY BlockAzimuthRange DEF ScanInv, IInv
  <1>3. BlockAt \in Nat /\ blockID \in Nat
    BY BlockAtNat DEF ScanInv, IInv
  <1>4. /\ Turn \in Nat \ {0} /\ Half \in Nat \ {0} /\ Half < Turn
        /\ previousAzimuth \in 0 .. Turn
    BY Sizes, Numbers, StepInTurn DEF ScanInv, IInv, TypeOK
  <1>5. /\ firedAt \in Nat /\ turnCollected \in Nat
        /\ firedAt = turnCollected * Turn + previousAzimuth
    BY DEF ScanInv, OnTrack, OnTurn
  <1>6. \E m \in Nat :
           /\ BlockAt = m * Turn + BlockAzimuth
           /\ firedAt <= BlockAt /\ BlockAt < firedAt + Turn
           /\ BlockAzimuth = Turn => firedAt < BlockAt
           /\ NothingYet \/ firedAt + Half <= BlockAt
    <2>1. CASE blockID = 0
      <3>1. BlockAzimuth = BlockAt % Turn
        BY <1>1, <2>1, FirstAzimuth
      <3>2. /\ BlockAt \div Turn \in Nat /\ BlockAzimuth # Turn
            /\ BlockAt = (BlockAt \div Turn) * Turn + BlockAzimuth
        BY <1>3, <1>4, <3>1, DivMod
      <3>3. \/ NothingYet /\ BlockAt < Turn
            \/ firedAt + Half <= BlockAt /\ BlockAt < firedAt + Turn
        BY <1>1, <2>1 DEF ScanInv, OnTrack, BetweenBlocks
      <3>4. NothingYet => firedAt = 0
        BY DEF NothingYet
      <3>5. firedAt <= BlockAt /\ BlockAt < firedAt + Turn
        BY <1>3, <1>4, <1>5, <3>3, <3>4
      <3> QED
        BY <3>2, <3>3, <3>5
    <2>2. CASE blockID > 0
      <3>1. /\ BlockAt = firedAt + Half
            /\ \/ BlockAzimuth = previousAzimuth + Half
               \/ BlockAzimuth = previousAzimuth + Half - Turn
        BY <1>1, <2>2, NextAzimuth
      <3>2. /\ firedAt < BlockAt /\ BlockAt < firedAt + Turn
            /\ firedAt <= BlockAt /\ firedAt + Half <= BlockAt
        BY <1>4, <1>5, <3>1
      <3>3. /\ turnCollected * Turn \in Nat
            /\ (turnCollected + 1) * Turn = turnCollected * Turn + Turn
            /\ turnCollected + 1 \in Nat
        BY <1>4, <1>5
      <3>4. CASE BlockAzimuth = previousAzimuth + Half
        <4>1. BlockAt = turnCollected * Turn + BlockAzimuth
          BY <1>4, <1>5, <3>1, <3>3, <3>4
        <4> QED
          BY <1>5, <3>2, <4>1
      <3>5. CASE BlockAzimuth = previousAzimuth + Half - Turn
        <4>1. BlockAt = (turnCollected + 1) * Turn + BlockAzimuth
          BY <1>4, <1>5, <3>1, <3>3, <3>5
        <4> QED
          BY <3>2, <3>3, <4>1
      <3> QED
        BY <3>1, <3>4, <3>5
    <2> QED
      BY <1>3, <2>1, <2>2
  <1>7. PICK m \in Nat :
           /\ BlockAt = m * Turn + BlockAzimuth
           /\ firedAt <= BlockAt /\ BlockAt < firedAt + Turn
           /\ BlockAzimuth = Turn => firedAt < BlockAt
           /\ NothingYet \/ firedAt + Half <= BlockAt
    BY <1>6
  <1>8. OnTurn' /\ turnCollected' = m
    BY <1>1, <1>7, NewTurn
  <1>9. /\ BlockAzimuth >= previousAzimuth => m = turnCollected
        /\ BlockAzimuth < previousAzimuth => m > turnCollected
    <2> DEFINE p == previousAzimuth
               q == BlockAzimuth
               k == turnCollected
    <2>1. /\ Turn \in Nat \ {0} /\ k \in Int /\ m \in Int /\ p \in 0 .. Turn /\ q \in 0 .. Turn
          /\ k * Turn + p <= m * Turn + q /\ m * Turn + q < k * Turn + p + Turn
          /\ q = Turn => k * Turn + p < m * Turn + q
      BY <1>2, <1>4, <1>5, <1>7
    <2> HIDE DEF p, q, k
    <2>2. (q >= p => m = k) /\ (q < p => m > k)
      BY <2>1, TurnsApart
    <2> QED
      BY <2>2 DEF p, q, k
  <1> QED
    BY <1>1, <1>2, <1>3, <1>7, <1>8, <1>9
(* A cut publishes what was collected, and both clouds are empty.          *)
LEMMA CutBoth ==
    ASSUME ScanInv, UNCHANGED config, NEW azimuth \in 0 .. Turn, SendPointCloud(azimuth)
    PROVE  /\ pointIndexSPC' = 0 /\ pointIndexCPC' = 0
           /\ rows' = [s \in AllStreams |-> <<>>]
           /\ NeverSent'
           /\ spc' = SegmentPoints
           /\ \A s \in Streams : cpc'[s].rows = rows[s]
  <1>1. pointIndexSPC' = 0 /\ rows' = [s \in AllStreams |-> <<>>]
    BY CutEmpties DEF ScanInv
  <1>2. WithSPC' = WithSPC /\ WithCPC' = WithCPC
    BY DEF config, WithSPC, WithCPC
  <1>4. ASSUME ~WithSPC PROVE spc' = <<>> /\ SegmentPoints = <<>>
    <2>1. spc' = spc /\ spc = <<>>
      BY <1>4 DEF SendPointCloud, PublishSPC, spcVars, ScanInv, NeverSent
    <2>2. pointIndexSPC = 0
      BY <1>4 DEF ScanInv, IInv, DisabledEmpty
    <2>3. SegmentPoints = <<>>
      BY <2>2 DEF SegmentPoints
    <2> QED
      BY <2>1, <2>3
  <1>5. spc' = SegmentPoints
    <2>1. CASE WithSPC
      BY <2>1 DEF SendPointCloud, PublishSPC
    <2> QED
      BY <1>4, <2>1
  <1>6. CASE WithCPC
    <2>1. /\ pointIndexCPC' = 0
          /\ cpc' = [s \in AllStreams |->
                      IF s \in Streams
                      THEN [start |-> startAzimuth, end |-> previousAzimuth, rows |-> rows[s]]
                      ELSE cpc[s]]
      BY <1>6 DEF SendPointCloud, PublishCPC
    <2>2. ASSUME NEW s \in Streams PROVE cpc'[s].rows = rows[s]
      <3>1. s \in AllStreams
        BY StreamsTyped
      <3>2. cpc'[s] = [start |-> startAzimuth, end |-> previousAzimuth, rows |-> rows[s]]
        BY <2>1, <3>1
      <3> QED
        BY <3>2
    <2>3. NeverSent'
      BY <1>2, <1>4, <1>6 DEF NeverSent
    <2> QED
      BY <1>1, <1>5, <2>1, <2>2, <2>3
  <1>7. CASE ~WithCPC
    <2>1. pointIndexCPC' = pointIndexCPC /\ cpc' = cpc
      BY <1>7 DEF SendPointCloud, PublishCPC, cpcVars
    <2>2. pointIndexCPC = 0 /\ \A s \in AllStreams : cpc[s].rows = <<>>
      BY <1>7 DEF ScanInv, NeverSent
    <2>3. \A s \in AllStreams : rows[s] = <<>>
      BY <1>7 DEF ScanInv, IInv, DisabledEmpty
    <2>4. NeverSent'
      BY <1>2, <1>4, <2>1, <2>2 DEF NeverSent
    <2> QED
      BY <1>1, <1>5, <2>1, <2>2, <2>3, <2>4, StreamsTyped
  <1> QED
    BY <1>6, <1>7

(* Empty clouds have room and nothing out of order.                        *)
LEMMA EmptyTrack ==
    ASSUME TypeOK', pointIndexSPC' = 0, pointIndexCPC' = 0,
           rows' = [s \in AllStreams |-> <<>>],
           counter' \in 0 .. Beams - 1
    PROVE  RoomInv' /\ LastPoint' /\ LastRow'
  <1>1. \A s \in AllStreams : rows'[s] = <<>>
    OBVIOUS
  <1>2. LastPoint' /\ LastRow'
    BY <1>1 DEF LastPoint, LastRow
  <1>3. /\ Half \in Nat /\ Sensors \in Nat \ {0} /\ previousAzimuth' \in Nat
        /\ Beams = 2 * Sensors
    BY Sizes, Numbers DEF TypeOK
  <1>4. Column' \in Nat
    <2>1. counter' \in Nat
      BY <1>3
    <2>2. CASE counter' < Sensors
      BY <2>1, <2>2 DEF Column
    <2>3. CASE ~(counter' < Sensors)
      <3>1. Column' = counter' - Sensors
        BY <2>3 DEF Column
      <3> QED
        BY <1>3, <2>1, <2>3, <3>1, Difference, Zenon
    <2> QED
      BY <2>2, <2>3
  <1>5. ASSUME NEW where, NEW azimuth \in Nat, NEW column \in Nat
        PROVE  Room(0, where, azimuth, column)
    <2>1. /\ Sensors * (azimuth + Half) \in Nat /\ 0 * Half = 0
          /\ Sensors * azimuth \in Nat /\ column * Half \in Nat
      BY <1>3
    <2> QED
      BY <2>1 DEF Room
  <1>6. RoomInv'
    <2>1. Room(0, pc', previousAzimuth', Column')
      BY <1>3, <1>4, <1>5
    <2>2. \A s \in AllStreams : Len(rows'[s]) <= pointIndexCPC'
      BY <1>1
    <2> QED
      BY <2>1, <2>2 DEF RoomInv
  <1> QED
    BY <1>2, <1>6

LEMMA StartBlockKept ==
    ASSUME ShortLosses, ScanInv, TypeOK', StartBlock
    PROVE  /\ pc' = "guard" /\ OnTrack' /\ UNCHANGED <<config, counter>> /\ counter = 0
  <1>1. /\ pc = "azimuth" /\ pc' = "guard" /\ firedAt' = BlockAt
        /\ UNCHANGED <<config, blockID, counter, deltaAzimuth>>
        /\ UNCHANGED <<sensorAt, lost, packet>>
    BY DEF StartBlock, BlockAt, sensor
  <1>2. OnTurn'
    BY StartBlockTurn
  <1>3. BlockAt' = BlockAt
    BY <1>1 DEF BlockAt
  <1>4. BetweenPackets'
    BY <1>1 DEF ScanInv, OnTrack, BetweenPackets
  <1>5. BetweenBlocks'
    BY <1>1 DEF ScanInv, OnTrack, BetweenBlocks
  <1>6. InBlock'
    BY <1>1, <1>3 DEF InBlock
  <1>7. counter = 0
    BY <1>1 DEF ScanInv, IInv, LoopInv
  <1> QED
    BY <1>1, <1>2, <1>4, <1>5, <1>6, <1>7 DEF OnTrack

LEMMA CompleteScanTrack ==
    ASSUME ShortLosses, ScanInv, TypeOK', CompleteScan
    PROVE  OnTrack' /\ RoomInv' /\ LastPoint' /\ LastRow' /\ NeverSent'
  <1>1. StartBlock /\ SendPointCloud(BlockAzimuth)
    BY DEF CompleteScan
  <1>2. OnTrack' /\ UNCHANGED config /\ BlockAzimuth \in 0 .. Turn
    BY <1>1, StartBlockKept, StartBlockTurn
  <1>3. counter' \in 0 .. Beams - 1
    BY DEF TypeOK
  <1> QED
    BY <1>1, <1>2, <1>3, CutBoth, EmptyTrack

(* The points collected were all fired before the next firing.             *)
LEMMA LaterFiring ==
    ASSUME ScanInv, UNCHANGED <<pointIndexSPC, segment, rows>>,
           firedAt' \in Nat, firedAt < firedAt'
    PROVE  LastPoint' /\ LastRow'
  <1>1. /\ firedAt \in Nat /\ pointIndexSPC \in Nat
        /\ pointIndexSPC <= MaxPoints /\ MaxPoints \in Nat
        /\ segment \in [0 .. MaxPoints - 1 -> PointType]
    BY Sizes DEF ScanInv, IInv, TypeOK, SegmentBounds, OnTrack, OnTurn
  <1>2. ASSUME NEW at \in Int, at <= firedAt PROVE at <= firedAt' /\ at < firedAt'
    BY <1>1, <1>2
  <1>3. LastPoint'
    <2>1. pointIndexSPC > 0 =>
            /\ segment[pointIndexSPC - 1] \in PointType
            /\ segment[pointIndexSPC - 1].at <= firedAt
      BY <1>1 DEF ScanInv, LastPoint
    <2>2. pointIndexSPC > 0 =>
            /\ segment[pointIndexSPC - 1].at <= firedAt'
            /\ segment[pointIndexSPC - 1].at < firedAt'
      BY <1>2, <2>1 DEF PointType
    <2> QED
      BY <2>2 DEF LastPoint
  <1>4. LastRow'
    <2> SUFFICES ASSUME NEW s \in AllStreams, Len(rows[s]) > 0
                 PROVE  /\ rows[s][Len(rows[s])].at <= firedAt'
                        /\ rows[s][Len(rows[s])].at < firedAt'
      BY DEF LastRow
    <2>1. rows[s] \in Seq(PointType)
      BY DEF ScanInv, IInv, TypeOK
    <2>2. rows[s][Len(rows[s])] \in PointType
      BY <2>1
    <2>3. rows[s][Len(rows[s])].at <= firedAt
      BY DEF ScanInv, LastRow
    <2> QED
      BY <1>2, <2>2, <2>3 DEF PointType
  <1> QED
    BY <1>3, <1>4

(* The frame goes on: the azimuth has advanced by half a step or more.     *)
LEMMA ContinueScanTrack ==
    ASSUME ShortLosses, ScanInv, TypeOK', ContinueScan
    PROVE  OnTrack' /\ RoomInv' /\ LastPoint' /\ LastRow' /\ NeverSent'
  <1>1. StartBlock /\ BlockAzimuth >= previousAzimuth /\ UNCHANGED <<spcVars, cpcVars>>
    BY DEF ContinueScan
  <1>2. /\ OnTrack' /\ UNCHANGED config /\ pc' = "guard" /\ UNCHANGED counter
    BY <1>1, StartBlockKept
  <1>3. UNCHANGED <<pointIndexSPC, segment, spc, pointIndexCPC, rows, cpc>>
    BY <1>1 DEF spcVars, cpcVars
  <1>4. /\ firedAt' = BlockAt /\ previousAzimuth' = BlockAzimuth
        /\ BlockAt \in Nat /\ BlockAzimuth \in Nat
        /\ turnCollected' = turnCollected
        /\ NothingYet \/ firedAt + Half <= BlockAt
        /\ OnTurn'
    BY <1>1, StartBlockTurn, Sizes
  <1>5. NeverSent'
    BY <1>2, <1>3 DEF config, ScanInv, NeverSent, WithSPC, WithCPC
  <1>6. CASE NothingYet
    <2>1. /\ pointIndexSPC' = 0 /\ pointIndexCPC' = 0
          /\ rows' = [s \in AllStreams |-> <<>>]
      BY <1>3, <1>6 DEF NothingYet, ScanInv, IInv, TypeOK
    <2>2. counter' \in 0 .. Beams - 1
      BY DEF TypeOK
    <2> QED
      BY <1>2, <1>5, <2>1, <2>2, EmptyTrack
  <1>7. CASE firedAt + Half <= BlockAt
    <2>1. /\ Half \in Nat \ {0} /\ Sensors \in Nat /\ Turn \in Nat
          /\ firedAt \in Nat /\ previousAzimuth \in Nat /\ turnCollected \in Nat
          /\ firedAt = turnCollected * Turn + previousAzimuth
          /\ pointIndexSPC \in Nat /\ pointIndexCPC \in Nat
      BY Sizes, Numbers DEF ScanInv, IInv, TypeOK, OnTrack, OnTurn
    <2>2. BlockAt = turnCollected * Turn + BlockAzimuth
      BY <1>4 DEF OnTurn
    <2>3. previousAzimuth + Half <= BlockAzimuth
      <3>1. turnCollected * Turn \in Nat
        BY <2>1
      <3> QED
        BY <1>4, <1>7, <2>1, <2>2, <3>1
    <2>4. Sensors * (previousAzimuth + Half) <= Sensors * BlockAzimuth
      BY <1>4, <2>1, <2>3, Products
    <2>5. ASSUME NEW n \in Nat, Room(n, pc, previousAzimuth, Column)
          PROVE  Room(n, pc', previousAzimuth', Column')
      <3>1. n * Half <= Sensors * (previousAzimuth + Half)
        BY <1>1, <2>5 DEF Room, StartBlock
      <3>2. /\ n * Half \in Int /\ Sensors * (previousAzimuth + Half) \in Int
            /\ Sensors * BlockAzimuth \in Int
        BY <1>4, <2>1
      <3>3. n * Half <= Sensors * BlockAzimuth
        BY <2>4, <3>1, <3>2
      <3> QED
        BY <1>2, <1>4, <3>3 DEF Room
    <2>6. RoomInv'
      <3>1. /\ Room(pointIndexSPC, pc', previousAzimuth', Column')
            /\ Room(pointIndexCPC, pc', previousAzimuth', Column')
        BY <2>1, <2>5 DEF ScanInv, RoomInv
      <3> QED
        BY <1>3, <3>1 DEF ScanInv, RoomInv
    <2>7. firedAt < firedAt' /\ firedAt' \in Nat
      BY <1>4, <1>7, <2>1
    <2>8. LastPoint' /\ LastRow'
      BY <1>3, <2>7, LaterFiring
    <2> QED
      BY <1>2, <1>5, <2>6, <2>8
  <1> QED
    BY <1>4, <1>6, <1>7
-----------------------------------------------------------------------------
(* A turn fits into a frame: there is always room.                         *)

LEMMA RoomLeft ==
    ASSUME FrameFits, NEW n \in Nat, NEW a \in 0 .. Turn, n * Half <= Sensors * (a + Half)
    PROVE  n < MaxPoints
  <1>1. /\ Half \in Nat \ {0} /\ Sensors \in Nat /\ Turn \in Nat /\ MaxPoints \in Nat
        /\ a + Half \in Nat /\ Turn + Half \in Nat /\ a + Half <= Turn + Half
    BY Sizes, Numbers
  <1>2. /\ Sensors * (a + Half) \in Nat /\ Sensors * (Turn + Half) \in Nat
        /\ Sensors * (a + Half) <= Sensors * (Turn + Half)
    BY <1>1, Products
  <1>3. Sensors * (Turn + Half) < MaxPoints * Half
    BY DEF FrameFits
  <1> QED
    BY <1>1, <1>2, <1>3, Fits

LEMMA OneMore ==
    ASSUME NEW n \in Nat, NEW a \in Nat, NEW c \in 0 .. Sensors - 1,
           n * Half <= Sensors * a + c * Half
    PROVE  /\ (n + 1) * Half <= Sensors * a + (c + 1) * Half
           /\ (n + 1) * Half <= Sensors * (a + Half)
           /\ n * Half <= (n + 1) * Half
  <1>1. Half \in Nat /\ Sensors \in Nat
    BY Sizes, Numbers
  <1>2. PICK d \in Nat : Sensors = c + 1 + d
    <2>1. Sensors = c + 1 + (Sensors - 1 - c) /\ Sensors - 1 - c \in Nat
      BY <1>1
    <2> QED
      BY <2>1
  <1>3. /\ (n + 1) * Half = n * Half + Half
        /\ (c + 1) * Half = c * Half + Half
        /\ Sensors * (a + Half) = Sensors * a + Sensors * Half
        /\ n * Half \in Nat /\ c * Half \in Nat /\ Sensors * a \in Nat
    BY <1>1
  <1>4. Sensors * Half = (c + 1) * Half + d * Half /\ d * Half \in Nat
    BY <1>1, <1>2
  <1> QED
    BY <1>1, <1>3, <1>4

LEMMA SomeRoom ==
    ASSUME FrameFits, ScanInv, pc \in {"guard", "beam"}
    PROVE  pointIndexSPC < MaxPoints /\ pointIndexCPC < MaxPoints
  <1>1. /\ Half \in Nat /\ Sensors \in Nat \ {0} /\ previousAzimuth \in 0 .. Turn /\ Turn \in Nat
        /\ pointIndexSPC \in Nat /\ pointIndexCPC \in Nat /\ counter \in 0 .. Beams - 1
    BY Sizes, Numbers DEF ScanInv, IInv, TypeOK
  <1>2. Column \in 0 .. Sensors - 1
    BY <1>1, ColumnOfCounter
  <1>3. ASSUME NEW n \in Nat, Room(n, pc, previousAzimuth, Column)
        PROVE  n < MaxPoints
    <2>1. n * Half <= Sensors * (previousAzimuth + Half)
      <3>1. previousAzimuth \in Nat
        BY <1>1
      <3>2. /\ Sensors * previousAzimuth \in Nat /\ Sensors * Half \in Nat /\ n * Half \in Nat
            /\ Sensors * (previousAzimuth + Half) = Sensors * previousAzimuth + Sensors * Half
        BY <1>1, <3>1
      <3>3. CASE pc = "guard"
        <4>1. n * Half <= Sensors * previousAzimuth
          BY <1>3, <3>3 DEF Room
        <4> QED
          BY <3>2, <4>1
      <3>4. CASE pc = "beam"
        <4>1. n * Half <= Sensors * previousAzimuth + Column * Half
          BY <1>3, <3>4 DEF Room
        <4>2. /\ (n + 1) * Half <= Sensors * (previousAzimuth + Half)
              /\ n * Half <= (n + 1) * Half
          BY <1>2, <3>1, <4>1, OneMore
        <4>3. (n + 1) * Half \in Nat
          BY <1>1
        <4> QED
          BY <3>2, <4>2, <4>3
      <3> QED
        BY <3>3, <3>4
    <2> QED
      BY <1>1, <2>1, RoomLeft
  <1> QED
    BY <1>1, <1>3 DEF ScanInv, RoomInv

LEMMA EnterBlockTrack ==
    ASSUME ScanInv, EnterBlock
    PROVE  OnTrack' /\ RoomInv' /\ LastPoint' /\ LastRow' /\ NeverSent'
  <1>1. /\ pc = "guard" /\ pc' = "beam" /\ UNCHANGED <<blockID, counter>>
        /\ UNCHANGED <<sensorAt, lost, packet>>
        /\ UNCHANGED <<config, angles, spcVars, cpcVars>>
    BY DEF EnterBlock, sensor
  <1>2. /\ OnTurn' /\ NeverSent'
        /\ UNCHANGED <<firedAt, previousAzimuth, nextAzimuth, deltaAzimuth,
                       pointIndexSPC, segment, pointIndexCPC, rows>>
        /\ \A s \in AllStreams : Len(rows'[s]) <= pointIndexCPC'
    BY <1>1, CloudsUntouched
  <1>3. counter = 0 /\ Column = 0 /\ Column' = 0 /\ Sensors > 0
    <2>1. counter = 0
      BY <1>1 DEF ScanInv, IInv, LoopInv
    <2> QED
      BY <1>1, <2>1, Sizes DEF Column
  <1>4. BetweenPackets' /\ BetweenBlocks'
    BY <1>1, <1>2 DEF ScanInv, OnTrack, BetweenPackets, BetweenBlocks
  <1>5. InBlock'
    <2>1. firedAt = BlockAt
      BY <1>1 DEF ScanInv, OnTrack, InBlock
    <2>2. ~(counter' >= Sensors)
      BY <1>1, <1>3, Sizes
    <2> QED
      BY <1>1, <1>2, <2>1, <2>2 DEF InBlock, BlockAt
  <1>6. RoomInv'
    <2>1. ASSUME NEW n \in Nat, Room(n, pc, previousAzimuth, Column)
          PROVE  Room(n, pc', previousAzimuth', Column')
      <3>1. n * Half <= Sensors * previousAzimuth
        BY <1>1, <2>1 DEF Room
      <3>2. Sensors * previousAzimuth + 0 * Half = Sensors * previousAzimuth
        <4>1. Sensors \in Nat /\ Half \in Nat /\ previousAzimuth \in Nat
          BY Sizes, Numbers DEF ScanInv, IInv, TypeOK
        <4> QED
          BY <4>1
      <3> QED
        BY <1>1, <1>2, <1>3, <3>1, <3>2 DEF Room
    <2>2. pointIndexSPC \in Nat /\ pointIndexCPC \in Nat
      BY DEF ScanInv, IInv, TypeOK
    <2>3. /\ Room(pointIndexSPC, pc', previousAzimuth', Column')
          /\ Room(pointIndexCPC, pc', previousAzimuth', Column')
      BY <2>1, <2>2 DEF ScanInv, RoomInv
    <2> QED
      BY <1>2, <2>3 DEF RoomInv
  <1>7. LastPoint' /\ LastRow'
    BY <1>1, <1>2 DEF ScanInv, LastPoint, LastRow
  <1> QED
    BY <1>2, <1>4, <1>5, <1>6, <1>7 DEF OnTrack

LEMMA NeverSkips ==
    ASSUME FrameFits, ScanInv
    PROVE  ~SkipBlock
  BY SomeRoom DEF SkipBlock, HasRoom
-----------------------------------------------------------------------------
(* The middle of a block: the azimuth of the second firing.                *)

LEMMA FieldsOfMiddle ==
    ASSUME ScanInv, pc = "middle"
    PROVE  /\ FiringAt(position) = BlockAt + Half
           /\ ReportedAzimuth(position + 3 * Sensors + 2) = (BlockAt + Step) % Turn
  <1>1. /\ counter = Sensors /\ position = blockID * BlockBytes + 4 + 3 * counter
    BY DEF ScanInv, IInv, LoopInv, CursorAligned
  <1>2. /\ blockID \in Nat /\ packet \in Nat /\ blockID * Step \in Nat /\ BlockAt \in Nat
        /\ (blockID + 1) * Step = blockID * Step + Step
    BY BlockAtNat DEF ScanInv, IInv
  <1>3. /\ Sensors \in Nat \ {0} /\ BlockBytes \in Nat \ {0} /\ BlockBytes = 4 + 6 * Sensors
        /\ Step \in Nat /\ Half \in Nat /\ Turn \in Nat
    BY Sizes, Numbers DEF BlockBytes
  <1>4. ASSUME NEW k \in Nat, NEW rest \in 0 .. BlockBytes - 1
        PROVE  (k * BlockBytes + rest) \div BlockBytes = k /\ (k * BlockBytes + rest) % BlockBytes = rest
    <2> DEFINE n == BlockBytes
    <2>1. n \in Nat \ {0} /\ rest \in 0 .. n - 1
      BY <1>3
    <2> HIDE DEF n
    <2>2. (k * n + rest) \div n = k /\ (k * n + rest) % n = rest
      BY <2>1
    <2> QED
      BY <2>2 DEF n
  <1>5. blockID * BlockBytes \in Nat /\ (blockID + 1) * BlockBytes = blockID * BlockBytes + BlockBytes
    BY <1>2, <1>3
  <1>6. /\ position \div BlockBytes = blockID
        /\ position % BlockBytes = 4 + 3 * Sensors
    <2>1. position = blockID * BlockBytes + (4 + 3 * Sensors)
      BY <1>1, <1>3, <1>5
    <2>2. 4 + 3 * Sensors \in 0 .. BlockBytes - 1
      BY <1>3
    <2> QED
      BY <1>2, <1>4, <2>1, <2>2
  <1>7. (position + 3 * Sensors + 2) \div BlockBytes = blockID + 1
    <2>1. position + 3 * Sensors + 2 = (blockID + 1) * BlockBytes + 2
      BY <1>1, <1>3, <1>5
    <2>2. 2 \in 0 .. BlockBytes - 1 /\ blockID + 1 \in Nat
      BY <1>2, <1>3
    <2> QED
      BY <1>4, <2>1, <2>2
  <1>8. BeamOfBlock(position) \div Sensors = 1
    <2>1. BeamOfBlock(position) = Sensors
      BY <1>3, <1>6 DEF BeamOfBlock
    <2> QED
      BY <1>3, <2>1
  <1>9. FiringAt(position) = BlockAt + Half
    <2>1. 1 * Half = Half
      BY <1>3
    <2> QED
      BY <1>6, <1>8, <2>1 DEF FiringAt, BlockAt, Half
  <1>10. ReportedAzimuth(position + 3 * Sensors + 2) = (BlockAt + Step) % Turn
    <2>1. packet + (blockID + 1) * Step = BlockAt + Step
      BY <1>2, <1>3 DEF BlockAt
    <2> QED
      BY <1>7, <2>1 DEF ReportedAzimuth
  <1> QED
    BY <1>9, <1>10

(* Read ahead or taken over, the difference is half a step.                *)
LEMMA MiddleAhead ==
    ASSUME ScanAssumption, ScanInv, pc = "middle"
    PROVE  /\ Delta = Half /\ currentAzimuth = previousAzimuth
           /\ blockID < LastBlock => ReadAhead = previousAzimuth + Step
           /\ firedAt = BlockAt
  <1>1. /\ currentAzimuth = previousAzimuth /\ firedAt = BlockAt
    BY DEF ScanInv, IInv, LoopInv, OnTrack, InBlock
  <1>2. /\ firedAt \in Nat /\ turnCollected \in Nat
        /\ firedAt = turnCollected * Turn + previousAzimuth
    BY DEF ScanInv, OnTrack, OnTurn
  <1>3. /\ Turn \in Nat \ {0} /\ Step \in 1 .. Turn - 1 /\ previousAzimuth \in 0 .. Turn
        /\ Half \in Nat /\ Step = 2 * Half
    BY Sizes, Numbers, StepInTurn DEF ScanAssumption, ScanInv, IInv, TypeOK
  <1>4. ReadAhead = previousAzimuth + Step
    <2> DEFINE r == ReportedAzimuth(position + 3 * Sensors + 2)
    <2>1. r = (firedAt + Step) % Turn
      BY <1>1, FieldsOfMiddle
    <2>2. ReadAhead = IF r < previousAzimuth THEN r + Turn ELSE r
      BY <1>1 DEF ReadAhead
    <2> HIDE DEF r
    <2>3. r = (turnCollected * Turn + previousAzimuth + Step) % Turn
      BY <1>2, <2>1
    <2>4. /\ r < previousAzimuth => r + Turn = previousAzimuth + Step
          /\ ~(r < previousAzimuth) => r = previousAzimuth + Step
      <3> DEFINE k == turnCollected
                 c == previousAzimuth
                 f == k * Turn + c + Step
                 m == f \div Turn
      <3>1. /\ Turn \in Nat \ {0} /\ k \in Nat /\ c \in 0 .. Turn
            /\ Step \in 1 .. Turn - 1 /\ r = f % Turn
        BY <1>2, <1>3, <2>3
      <3>2. f \in Nat
        BY <3>1
      <3> HIDE DEF f
      <3>3. m \in Nat /\ r \in 0 .. Turn - 1 /\ f = m * Turn + r
        BY <3>1, <3>2, DivMod
      <3> HIDE DEF k, c, m
      <3>4. m * Turn + r = k * Turn + c + Step
        BY <3>3 DEF f
      <3>5. (r < c => r + Turn = c + Step) /\ (~(r < c) => r = c + Step)
        <4>1. PICK j \in Int : m = k + j
          <5>1. m = k + (m - k) /\ m - k \in Int
            BY <3>1, <3>3
          <5> QED
            BY <5>1
        <4>2. m * Turn = k * Turn + j * Turn /\ k * Turn \in Int /\ j * Turn \in Int
          BY <3>1, <4>1
        <4>3. j * Turn = c + Step - r
          BY <3>1, <3>3, <3>4, <4>2
        <4>4. /\ j >= 2 => j * Turn >= 2 * Turn
              /\ j <= -1 => j * Turn <= -Turn
              /\ j = 0 => j * Turn = 0
              /\ j = 1 => j * Turn = Turn
          BY <3>1
        <4> DEFINE d == j * Turn
        <4>5. /\ d = c + Step - r
              /\ j >= 2 => d >= 2 * Turn
              /\ j <= -1 => d <= -Turn
              /\ j = 0 => d = 0
              /\ j = 1 => d = Turn
          BY <4>3, <4>4
        <4> HIDE DEF d
        <4>6. j = 0 \/ j = 1
          BY <3>1, <3>3, <4>5
        <4> QED
          BY <3>1, <3>3, <4>5, <4>6
      <3> QED
        BY <3>5 DEF c
    <2> QED
      BY <2>2, <2>4, Zenon
  <1>5. Delta = Half
    <2>1. CASE blockID < LastBlock
      <3>1. Delta = (ReadAhead - currentAzimuth) \div 2
        BY <2>1 DEF Delta
      <3>2. ReadAhead - currentAzimuth = Step
        BY <1>1, <1>3, <1>4
      <3> QED
        BY <3>1, <3>2 DEF Half
    <2>2. CASE ~(blockID < LastBlock)
      <3>1. blockID > 0
        BY <2>2, Sizes DEF ScanAssumption, ScanInv, IInv, TypeOK, LastBlock
      <3> QED
        BY <2>2, <3>1 DEF Delta, ScanInv, OnTrack, BetweenBlocks
    <2> QED
      BY <2>1, <2>2
  <1> QED
    BY <1>1, <1>4, <1>5
(* The second firing is half a step later, maybe in the next turn.         *)
LEMMA InterpolateTurn ==
    ASSUME ScanAssumption, ScanInv, TypeOK', Interpolate
    PROVE  /\ OnTrack' /\ pc' = "beam" /\ counter' = Sensors /\ UNCHANGED config
           /\ firedAt' = firedAt + Half /\ Column' = 0
           /\ Delta = Half /\ currentAzimuth = previousAzimuth
           /\ previousAzimuth + Half <= Turn =>
                /\ previousAzimuth' = previousAzimuth + Half
                /\ turnCollected' = turnCollected
           /\ previousAzimuth + Half > Turn => turnCollected' > turnCollected
  <1>1. /\ pc = "middle" /\ pc' = "beam" /\ UNCHANGED <<config, blockID, counter>>
        /\ UNCHANGED <<sensorAt, lost, packet>>
        /\ previousAzimuth' = Normalised(currentAzimuth + Delta)
        /\ firedAt' = FiringAt(position) /\ deltaAzimuth' = Delta
        /\ blockID < LastBlock => nextAzimuth' = ReadAhead
    BY DEF Interpolate, sensor
  <1>2. /\ Delta = Half /\ currentAzimuth = previousAzimuth /\ firedAt = BlockAt
        /\ blockID < LastBlock => ReadAhead = previousAzimuth + Step
    BY <1>1, MiddleAhead
  <1>3. firedAt' = firedAt + Half
    BY <1>1, <1>2, FieldsOfMiddle
  <1>4. /\ firedAt \in Nat /\ turnCollected \in Nat
        /\ firedAt = turnCollected * Turn + previousAzimuth
    BY DEF ScanInv, OnTrack, OnTurn
  <1>5. /\ Turn \in Nat \ {0} /\ Half \in Nat /\ Step = 2 * Half
        /\ previousAzimuth \in Nat
    BY Sizes, Numbers DEF ScanInv, IInv, TypeOK
  <1>6. previousAzimuth' = IF previousAzimuth + Half > Turn
                           THEN (previousAzimuth + Half) - Turn ELSE previousAzimuth + Half
    BY <1>1, <1>2 DEF Normalised
  <1>7. /\ turnCollected * Turn \in Nat /\ turnCollected + 1 \in Nat
        /\ (turnCollected + 1) * Turn = turnCollected * Turn + Turn
    BY <1>4, <1>5
  <1>8. counter = Sensors
    BY <1>1 DEF ScanInv, IInv, LoopInv
  <1>9. Column' = 0
    BY <1>1, <1>8, Sizes DEF Column
  <1>10. ASSUME OnTurn', blockID < LastBlock => NextKnown'
         PROVE  OnTrack'
    <2>1. BetweenPackets'
      BY <1>1 DEF ScanInv, OnTrack, BetweenPackets
    <2>2. BetweenBlocks'
      BY <1>1, <1>2 DEF BetweenBlocks
    <2>3. BlockAt' = BlockAt /\ ~(counter' < Sensors)
      BY <1>1, <1>8, Sizes DEF BlockAt
    <2>4. InBlock'
      BY <1>1, <1>2, <1>3, <1>10, <2>3 DEF InBlock
    <2> QED
      BY <1>10, <2>1, <2>2, <2>4 DEF OnTrack
  <1>11. CASE previousAzimuth + Half <= Turn
    <2>0. ~(previousAzimuth + Half > Turn)
      BY <1>5, <1>11
    <2>1. previousAzimuth' = previousAzimuth + Half
      BY <1>6, <2>0
    <2>2. firedAt' = turnCollected * Turn + previousAzimuth'
      BY <1>3, <1>4, <1>5, <1>7, <2>1
    <2>3. OnTurn' /\ turnCollected' = turnCollected
      BY <1>4, <2>2, NewTurn
    <2>4. blockID < LastBlock => nextAzimuth' = previousAzimuth' + Half
      BY <1>1, <1>2, <1>5, <2>1
    <2>5. OnTrack'
      BY <1>10, <2>3, <2>4 DEF NextKnown
    <2> QED
      BY <1>1, <1>2, <1>3, <1>8, <1>9, <2>0, <2>1, <2>3, <2>5
  <1>12. CASE previousAzimuth + Half > Turn
    <2>0. ~(previousAzimuth + Half <= Turn)
      BY <1>5, <1>12
    <2>1. previousAzimuth' = (previousAzimuth + Half) - Turn
      BY <1>6, <1>12
    <2>2. firedAt' = (turnCollected + 1) * Turn + previousAzimuth'
      BY <1>3, <1>4, <1>5, <1>7, <2>1
    <2>3. OnTurn' /\ turnCollected' = turnCollected + 1
      BY <1>7, <2>2, NewTurn
    <2>4. blockID < LastBlock => nextAzimuth' = previousAzimuth' + Half + Turn
      BY <1>1, <1>2, <1>5, <2>1
    <2>5. OnTrack'
      BY <1>10, <2>3, <2>4 DEF NextKnown
    <2>6. turnCollected' > turnCollected
      BY <1>4, <2>3
    <2> QED
      BY <1>1, <1>2, <1>3, <1>8, <1>9, <2>0, <2>5, <2>6
  <1> QED
    BY <1>5, <1>11, <1>12

LEMMA CompleteHalfTrack ==
    ASSUME ScanAssumption, ScanInv, TypeOK', CompleteHalf
    PROVE  OnTrack' /\ RoomInv' /\ LastPoint' /\ LastRow' /\ NeverSent'
  <1>1. Interpolate /\ SendPointCloud(Normalised(currentAzimuth + Delta))
    BY DEF CompleteHalf
  <1>2. OnTrack' /\ UNCHANGED config
    BY <1>1, InterpolateTurn
  <1>3. Normalised(currentAzimuth + Delta) \in 0 .. Turn
    BY <1>1, InterpolateKeeps DEF ScanInv, Interpolate
  <1>4. counter' \in 0 .. Beams - 1
    BY DEF TypeOK
  <1> QED
    BY <1>1, <1>2, <1>3, <1>4, CutBoth, EmptyTrack

LEMMA ContinueHalfTrack ==
    ASSUME ScanAssumption, ScanInv, TypeOK', ContinueHalf
    PROVE  OnTrack' /\ RoomInv' /\ LastPoint' /\ LastRow' /\ NeverSent'
  <1>1. Interpolate /\ currentAzimuth + Delta <= Turn /\ UNCHANGED <<spcVars, cpcVars>>
    BY DEF ContinueHalf
  <1>2. /\ OnTrack' /\ UNCHANGED config /\ pc = "middle" /\ pc' = "beam"
        /\ firedAt' = firedAt + Half /\ Column' = 0
        /\ previousAzimuth' = previousAzimuth + Half
    <2>1. pc = "middle"
      BY <1>1 DEF Interpolate
    <2> QED
      BY <1>1, <2>1, InterpolateTurn
  <1>3. UNCHANGED <<pointIndexSPC, segment, spc, pointIndexCPC, rows, cpc>>
    BY <1>1 DEF spcVars, cpcVars
  <1>4. NeverSent'
    BY <1>2, <1>3 DEF config, ScanInv, NeverSent, WithSPC, WithCPC
  <1>5. /\ Half \in Nat \ {0} /\ Sensors \in Nat /\ firedAt \in Nat /\ previousAzimuth \in Nat
        /\ pointIndexSPC \in Nat /\ pointIndexCPC \in Nat
    BY Sizes, Numbers DEF ScanInv, IInv, TypeOK, OnTrack, OnTurn
  <1>6. LastPoint' /\ LastRow'
    <2>1. firedAt' \in Nat /\ firedAt < firedAt'
      BY <1>2, <1>5
    <2> QED
      BY <1>3, <2>1, LaterFiring
  <1>7. RoomInv'
    <2>1. ASSUME NEW n \in Nat, Room(n, pc, previousAzimuth, Column)
          PROVE  Room(n, pc', previousAzimuth', Column')
      <3>1. n * Half <= Sensors * (previousAzimuth + Half)
        BY <1>2, <2>1 DEF Room
      <3>2. Sensors * (previousAzimuth + Half) + 0 * Half = Sensors * (previousAzimuth + Half)
        BY <1>5
      <3> QED
        BY <1>2, <3>1, <3>2 DEF Room
    <2>2. /\ Room(pointIndexSPC, pc', previousAzimuth', Column')
          /\ Room(pointIndexCPC, pc', previousAzimuth', Column')
      BY <1>5, <2>1 DEF ScanInv, RoomInv
    <2> QED
      BY <1>3, <2>2 DEF ScanInv, RoomInv
  <1> QED
    BY <1>2, <1>4, <1>6, <1>7
-----------------------------------------------------------------------------
(* A beam: its point is the firing, and the frame does not become full.    *)

LEMMA BeamPoint ==
    ASSUME ScanInv, pc = "beam"
    PROVE  /\ Point(position) \in PointType /\ Point(position).at = firedAt
           /\ Point(position).sensor = Column /\ Point(position).azimuth = previousAzimuth
  <1>1. position = blockID * BlockBytes + 4 + 3 * counter /\ currentAzimuth = previousAzimuth
    BY DEF ScanInv, IInv, LoopInv, CursorAligned
  <1>2. blockID \in Nat /\ position \in Nat /\ counter \in 0 .. Beams - 1
    BY BlockAtNat DEF ScanInv, IInv, TypeOK
  <1>3. /\ Sensors \in Nat \ {0} /\ BlockBytes \in Nat \ {0} /\ BlockBytes = 4 + 6 * Sensors
        /\ Half \in Nat /\ Beams = 2 * Sensors
    BY Sizes, Numbers DEF BlockBytes
  <1>4. position \div BlockBytes = blockID /\ position % BlockBytes = 4 + 3 * counter
    <2> DEFINE n == BlockBytes
               rest == 4 + 3 * counter
    <2>1. n \in Nat \ {0} /\ rest \in 0 .. n - 1
      BY <1>2, <1>3
    <2>2. blockID * n \in Nat /\ position = blockID * n + rest
      BY <1>1, <1>2, <1>3
    <2> HIDE DEF n, rest
    <2>3. (blockID * n + rest) \div n = blockID /\ (blockID * n + rest) % n = rest
      BY <1>2, <2>1
    <2> QED
      BY <2>2, <2>3 DEF n, rest
  <1>5. BeamOfBlock(position) = counter
    BY <1>2, <1>4 DEF BeamOfBlock
  <1>6. FiringAt(position) = BlockAt + (counter \div Sensors) * Half
    BY <1>4, <1>5 DEF FiringAt, BlockAt, Half
  <1>7. FiringAt(position) = firedAt /\ counter % Sensors = Column
    <2>0. BlockAt \in Nat
      BY BlockAtNat DEF ScanInv, IInv
    <2>1. CASE counter < Sensors
      <3>1. counter \div Sensors = 0 /\ counter % Sensors = counter /\ 0 * Half = 0
        BY <1>2, <1>3, <2>1
      <3>2. firedAt = BlockAt
        BY <2>1 DEF ScanInv, OnTrack, InBlock
      <3> QED
        BY <1>6, <2>0, <2>1, <3>1, <3>2 DEF Column
    <2>2. CASE ~(counter < Sensors)
      <3>1. counter \div Sensors = 1 /\ counter % Sensors = counter - Sensors /\ 1 * Half = Half
        BY <1>2, <1>3, <2>2
      <3>2. counter >= Sensors
        BY <1>2, <1>3, <2>2
      <3>3. firedAt = BlockAt + Half
        BY <3>2 DEF ScanInv, OnTrack, InBlock
      <3> QED
        BY <1>6, <2>2, <3>1, <3>3 DEF Column
    <2> QED
      BY <2>1, <2>2
  <1>8. Point(position) = [at |-> firedAt, sensor |-> Column, azimuth |-> previousAzimuth]
    BY <1>1, <1>7 DEF Point
  <1>9. Point(position) \in PointType
    BY <1>2, PointTyped DEF ScanInv, IInv
  <1> QED
    BY <1>8, <1>9

LEMMA BeamCount ==
    ASSUME FrameFits, ScanInv, pc = "beam", NEW n \in Nat,
           Room(n, pc, previousAzimuth, Column), NEW more \in {n, n + 1}
    PROVE  /\ more \in Nat /\ more < MaxPoints
           /\ more * Half <= Sensors * previousAzimuth + (Column + 1) * Half
           /\ more * Half <= Sensors * (previousAzimuth + Half)
  <1>1. /\ Half \in Nat /\ Sensors \in Nat \ {0} /\ previousAzimuth \in 0 .. Turn /\ Turn \in Nat
        /\ counter \in 0 .. Beams - 1
    BY Sizes, Numbers DEF ScanInv, IInv, TypeOK
  <1>2. Column \in 0 .. Sensors - 1 /\ previousAzimuth \in Nat
    BY <1>1, ColumnOfCounter
  <1>3. n * Half <= Sensors * previousAzimuth + Column * Half
    BY DEF Room
  <1>4. /\ (n + 1) * Half <= Sensors * previousAzimuth + (Column + 1) * Half
        /\ (n + 1) * Half <= Sensors * (previousAzimuth + Half)
        /\ n * Half <= (n + 1) * Half
    BY <1>2, <1>3, OneMore
  <1>5. /\ n * Half \in Nat /\ (n + 1) * Half \in Nat
        /\ Sensors * previousAzimuth + (Column + 1) * Half \in Nat
        /\ Sensors * (previousAzimuth + Half) \in Nat
    <2>1. Sensors * previousAzimuth \in Nat /\ (Column + 1) * Half \in Nat
      BY <1>1, <1>2
    <2> QED
      BY <1>1, <1>2, <2>1
  <1>6. /\ more * Half <= Sensors * previousAzimuth + (Column + 1) * Half
        /\ more * Half <= Sensors * (previousAzimuth + Half)
    <2>1. CASE more = n
      BY <1>4, <1>5, <2>1
    <2>2. CASE more = n + 1
      BY <1>4, <2>2
    <2> QED
      BY <2>1, <2>2
  <1>7. more \in Nat
    OBVIOUS
  <1> QED
    BY <1>1, <1>6, <1>7, RoomLeft

LEMMA StoreSPC ==
    ASSUME ScanInv, pc = "beam", StorePoint
    PROVE  /\ spc' = spc
           /\ \/ UNCHANGED <<pointIndexSPC, segment>>
              \/ /\ WithSPC /\ pointIndexSPC < MaxPoints
                 /\ segment' = [segment EXCEPT ![pointIndexSPC] = Point(position)]
                 /\ pointIndexSPC' = pointIndexSPC + 1
  <1>1. pointIndexSPC \in Nat /\ startID = 4 * pointIndexSPC
    BY DEF ScanInv, IInv, TypeOK, SegmentBounds, Components
  <1>2. startID \div Components = pointIndexSPC
    BY <1>1 DEF Components
  <1> QED
    BY <1>2 DEF StorePoint, SegmentHasRoom, spcVars

LEMMA StoreCPC ==
    ASSUME FrameFits, ScanInv, pc = "beam", StoreDistance
    PROVE  /\ cpc' = cpc
           /\ \/ ~WithCPC /\ UNCHANGED <<pointIndexCPC, rows>>
              \/ /\ WithCPC /\ pointIndexCPC' = pointIndexCPC + 1
                 /\ rows' = [s \in AllStreams |->
                               IF s \in Streams /\ Column = Sensors - 1
                               THEN Append(rows[s], Point(position)) ELSE rows[s]]
  <1>1. pointIndexCPC < MaxPoints
    BY SomeRoom
  <1>2. RowComplete <=> Column = Sensors - 1
    BY ColumnOfCounter DEF ScanInv, IInv, TypeOK
  <1>3. CASE WithCPC
    BY <1>1, <1>2, <1>3 DEF StoreDistance
  <1>4. CASE ~WithCPC
    BY <1>4 DEF StoreDistance, cpcVars
  <1> QED
    BY <1>3, <1>4

LEMMA BeamMoves ==
    ASSUME FrameFits, ScanInv, DecodeBeam
    PROVE  \/ /\ pc' = "beam" /\ blockID' = blockID /\ Column' = Column + 1
              /\ Column # Sensors - 1 /\ (counter' < Sensors <=> counter < Sensors)
              /\ (counter' >= Sensors <=> counter >= Sensors)
           \/ /\ pc' = "middle" /\ blockID' = blockID /\ counter < Sensors
           \/ /\ counter >= Sensors
              /\ \/ pc' = "azimuth" /\ blockID < LastBlock /\ blockID' = blockID + 1
                 \/ pc' = "idle" /\ blockID = LastBlock /\ blockID' = 0
  <1>1. pc = "beam" /\ StorePoint /\ StoreDistance
    BY DEF DecodeBeam
  <1>2. pointIndexSPC \in Nat /\ pointIndexCPC \in Nat
    BY DEF ScanInv, IInv, TypeOK
  <1>3. pointIndexSPC' < MaxPoints /\ pointIndexCPC' < MaxPoints
    <2>1. pointIndexSPC' \in {pointIndexSPC, pointIndexSPC + 1}
      BY <1>1, StoreSPC
    <2>2. pointIndexCPC' \in {pointIndexCPC, pointIndexCPC + 1}
      BY <1>1, StoreCPC
    <2> QED
      BY <1>1, <1>2, <2>1, <2>2, BeamCount DEF ScanInv, RoomInv
  <1>4. ~FrameFull
    <2>1. pointIndexSPC' \in Nat /\ pointIndexCPC' \in Nat /\ MaxPoints \in Nat
      BY <1>1, <1>2, StoreSPC, StoreCPC, Sizes
    <2>2. ~(pointIndexSPC' >= MaxPoints) /\ ~(pointIndexCPC' >= MaxPoints)
      BY <1>3, <2>1
    <2> QED
      BY <2>2 DEF FrameFull
  <1>5. /\ Sensors \in Nat \ {0} /\ Beams = 2 * Sensors /\ counter \in 0 .. Beams - 1
        /\ blockID \in Nat /\ blockID <= LastBlock /\ LastBlock \in Nat
    BY Sizes DEF ScanInv, IInv, TypeOK, LastBlock
  <1>6. CASE counter < Beams - 1
    <2>1. /\ counter' = counter + 1 /\ blockID' = blockID
          /\ pc' = IF counter + 1 = Sensors THEN "middle" ELSE "beam"
      BY <1>4, <1>6 DEF DecodeBeam, NextBeam
    <2>2. CASE counter + 1 = Sensors
      <3>1. counter < Sensors
        BY <1>5, <2>2
      <3> QED
        BY <2>1, <2>2, <3>1
    <2>3. CASE counter + 1 # Sensors /\ counter < Sensors
      <3>1. /\ counter' < Sensors /\ counter # Sensors - 1
            /\ ~(counter' >= Sensors) /\ ~(counter >= Sensors)
        BY <1>5, <2>1, <2>3
      <3>2. Column = counter /\ Column' = counter + 1
        BY <2>1, <2>3, <3>1 DEF Column
      <3> QED
        BY <2>1, <2>3, <3>1, <3>2
    <2>4. CASE counter >= Sensors
      <3>1. /\ ~(counter' < Sensors) /\ ~(counter < Sensors) /\ counter' >= Sensors
            /\ counter + 1 # Sensors
            /\ counter - Sensors # Sensors - 1 /\ (counter + 1) - Sensors = (counter - Sensors) + 1
        BY <1>5, <1>6, <2>1, <2>4
      <3>2. Column = counter - Sensors /\ Column' = (counter - Sensors) + 1
        BY <2>1, <3>1 DEF Column
      <3> QED
        BY <2>1, <2>4, <3>1, <3>2
    <2> QED
      BY <1>5, <2>2, <2>3, <2>4
  <1>7. CASE ~(counter < Beams - 1)
    <2>1. counter >= Sensors
      BY <1>5, <1>7
    <2>2. LeaveBlock(position + 3)
      BY <1>4, <1>7 DEF DecodeBeam
    <2>3. CASE blockID < LastBlock
      BY <2>1, <2>2, <2>3 DEF LeaveBlock
    <2>4. CASE ~(blockID < LastBlock)
      <3>1. blockID = LastBlock
        BY <1>5, <2>4
      <3> QED
        BY <2>1, <2>2, <2>4, <3>1 DEF LeaveBlock
    <2> QED
      BY <2>3, <2>4
  <1> QED
    BY <1>6, <1>7

LEMMA BeamTrack ==
    ASSUME FrameFits, ScanInv, DecodeBeam
    PROVE  OnTrack'
  <1>1. /\ pc = "beam" /\ UNCHANGED <<sensorAt, lost, packet, firedAt, previousAzimuth>>
        /\ UNCHANGED <<nextAzimuth, deltaAzimuth>>
    BY DEF DecodeBeam, sensor, angles
  <1>2. OnTurn'
    BY <1>1 DEF ScanInv, OnTrack, OnTurn, turnCollected
  <1>3. /\ blockID \in Nat /\ packet \in Nat /\ blockID * Step \in Nat /\ BlockAt \in Nat
        /\ (blockID + 1) * Step = blockID * Step + Step
    BY BlockAtNat DEF ScanInv, IInv
  <1>4. /\ Half \in Nat /\ Step = 2 * Half /\ firedAt \in Nat
    BY Numbers DEF ScanInv, OnTrack, OnTurn
  <1>5. lost = 0 /\ sensorAt = packet + PacketSpan /\ lost <= MaxLost
    BY <1>1 DEF ScanInv, OnTrack, BetweenPackets
  <1>6. counter < Sensors => firedAt = BlockAt
    BY <1>1 DEF ScanInv, OnTrack, InBlock
  <1>7. counter >= Sensors =>
            /\ firedAt = BlockAt + Half /\ deltaAzimuth = Half
            /\ blockID < LastBlock => NextKnown
    BY <1>1 DEF ScanInv, OnTrack, InBlock
  <1>8. blockID > 0 => deltaAzimuth = Half
    BY DEF ScanInv, OnTrack, BetweenBlocks
  <1>9. NextKnown' = NextKnown
    BY <1>1 DEF NextKnown
  <1>10. CASE /\ pc' = "beam" /\ blockID' = blockID
              /\ (counter' < Sensors <=> counter < Sensors)
              /\ (counter' >= Sensors <=> counter >= Sensors)
    <2>1. BlockAt' = BlockAt
      BY <1>1, <1>10 DEF BlockAt
    <2>2. BetweenPackets'
      BY <1>1, <1>5, <1>10 DEF BetweenPackets
    <2>3. BetweenBlocks'
      BY <1>1, <1>8, <1>10 DEF BetweenBlocks
    <2>4. InBlock'
      BY <1>1, <1>6, <1>7, <1>9, <1>10, <2>1 DEF InBlock
    <2> QED
      BY <1>2, <2>2, <2>3, <2>4 DEF OnTrack
  <1>11. CASE pc' = "middle" /\ blockID' = blockID /\ counter < Sensors
    <2>1. BlockAt' = BlockAt
      BY <1>1, <1>11 DEF BlockAt
    <2>2. BetweenPackets'
      BY <1>1, <1>5, <1>11 DEF BetweenPackets
    <2>3. BetweenBlocks'
      BY <1>1, <1>8, <1>11 DEF BetweenBlocks
    <2>4. InBlock'
      BY <1>1, <1>6, <1>11, <2>1 DEF InBlock
    <2> QED
      BY <1>2, <2>2, <2>3, <2>4 DEF OnTrack
  <1>12. CASE counter >= Sensors /\ pc' = "azimuth" /\ blockID < LastBlock /\ blockID' = blockID + 1
    <2>1. BlockAt' = firedAt' + Half
      <3>1. BlockAt' = packet + (blockID + 1) * Step
        BY <1>1, <1>12 DEF BlockAt
      <3>2. BlockAt = packet + blockID * Step
        BY DEF BlockAt
      <3> QED
        BY <1>1, <1>3, <1>4, <1>7, <1>12, <3>1, <3>2
    <2>2. BetweenPackets'
      BY <1>1, <1>5, <1>12 DEF BetweenPackets
    <2>3. BetweenBlocks'
      <3>1. blockID' # 0
        BY <1>3, <1>12
      <3> QED
        BY <1>1, <1>7, <1>9, <1>12, <2>1, <3>1 DEF BetweenBlocks
    <2>4. InBlock'
      BY <1>12 DEF InBlock
    <2> QED
      BY <1>2, <2>2, <2>3, <2>4 DEF OnTrack
  <1>13. CASE counter >= Sensors /\ pc' = "idle" /\ blockID = LastBlock /\ blockID' = 0
    <2>1. sensorAt' = firedAt' + Half + lost' * PacketSpan
      <3>1. Blocks \in Nat /\ blockID = Blocks - 1 /\ PacketSpan = Blocks * Step /\ PacketSpan \in Nat
        BY <1>13, Sizes DEF LastBlock, PacketSpan
      <3>2. blockID + 1 = Blocks
        BY <3>1
      <3>3. PacketSpan = blockID * Step + Step
        BY <1>3, <3>1, <3>2
      <3>4. firedAt + Half = packet + PacketSpan
        BY <1>3, <1>4, <1>7, <1>13, <3>3 DEF BlockAt
      <3>5. 0 * PacketSpan = 0
        BY <3>1
      <3> QED
        BY <1>1, <1>4, <1>5, <3>4, <3>5
    <2>2. BetweenPackets'
      BY <1>1, <1>5, <1>13, <2>1 DEF BetweenPackets
    <2>3. BetweenBlocks'
      <3>1. ~(blockID' > 0)
        BY <1>13
      <3> QED
        BY <1>13, <3>1 DEF BetweenBlocks
    <2>4. InBlock'
      BY <1>13 DEF InBlock
    <2> QED
      BY <1>2, <2>2, <2>3, <2>4 DEF OnTrack
  <1> QED
    BY <1>10, <1>11, <1>12, <1>13, BeamMoves

LEMMA BeamRoom ==
    ASSUME FrameFits, ScanInv, DecodeBeam
    PROVE  RoomInv'
  <1>1. /\ pc = "beam" /\ StorePoint /\ StoreDistance /\ UNCHANGED previousAzimuth
    BY DEF DecodeBeam, angles
  <1>2. /\ pointIndexSPC \in Nat /\ pointIndexCPC \in Nat
        /\ Room(pointIndexSPC, pc, previousAzimuth, Column)
        /\ Room(pointIndexCPC, pc, previousAzimuth, Column)
        /\ \A s \in AllStreams : Len(rows[s]) <= pointIndexCPC
    BY DEF ScanInv, IInv, TypeOK, RoomInv
  <1>3. ASSUME NEW n \in Nat, Room(n, pc, previousAzimuth, Column), NEW more \in {n, n + 1}
        PROVE  Room(more, pc', previousAzimuth', Column')
    <2>1. /\ more * Half <= Sensors * previousAzimuth + (Column + 1) * Half
          /\ more * Half <= Sensors * (previousAzimuth + Half)
      BY <1>1, <1>3, BeamCount
    <2>2. CASE pc' = "beam" /\ Column' = Column + 1
      BY <1>1, <2>1, <2>2 DEF Room
    <2>3. CASE pc' \in {"middle", "azimuth", "idle"}
      BY <1>1, <2>1, <2>3 DEF Room
    <2> QED
      BY <2>2, <2>3, BeamMoves
  <1>4. pointIndexSPC' \in {pointIndexSPC, pointIndexSPC + 1}
    BY <1>1, StoreSPC
  <1>5. pointIndexCPC' \in {pointIndexCPC, pointIndexCPC + 1}
    BY <1>1, StoreCPC
  <1>6. ASSUME NEW s \in AllStreams PROVE Len(rows'[s]) <= pointIndexCPC'
    <2>1. rows[s] \in Seq(PointType) /\ Len(rows[s]) <= pointIndexCPC
      BY <1>2 DEF ScanInv, IInv, TypeOK
    <2>2. Point(position) \in PointType
      BY <1>1, BeamPoint
    <2>3. Len(Append(rows[s], Point(position))) = Len(rows[s]) + 1 /\ Len(rows[s]) \in Nat
      BY <2>1, <2>2
    <2>4. CASE UNCHANGED <<pointIndexCPC, rows>>
      BY <2>1, <2>4
    <2>5. CASE /\ pointIndexCPC' = pointIndexCPC + 1
               /\ rows'[s] \in {rows[s], Append(rows[s], Point(position))}
      BY <1>2, <2>1, <2>3, <2>5
    <2> QED
      BY <1>1, <2>4, <2>5, StoreCPC
  <1>7. /\ Room(pointIndexSPC', pc', previousAzimuth', Column')
        /\ Room(pointIndexCPC', pc', previousAzimuth', Column')
    BY <1>2, <1>3, <1>4, <1>5
  <1> QED
    BY <1>6, <1>7 DEF RoomInv

LEMMA BeamLastPoint ==
    ASSUME FrameFits, ScanInv, DecodeBeam
    PROVE  LastPoint'
  <1>1. /\ pc = "beam" /\ StorePoint /\ UNCHANGED firedAt
    BY DEF DecodeBeam, angles
  <1>2. /\ pointIndexSPC \in Nat /\ pointIndexSPC <= MaxPoints /\ MaxPoints \in Nat
        /\ segment \in [0 .. MaxPoints - 1 -> PointType] /\ firedAt \in Nat
    BY Sizes DEF ScanInv, IInv, TypeOK, SegmentBounds, OnTrack, OnTurn
  <1>3. Column \in Nat
    <2>1. counter \in 0 .. Beams - 1
      BY DEF ScanInv, IInv, TypeOK
    <2> QED
      BY <2>1, ColumnOfCounter
  <1>a. ASSUME NEW n \in Nat, n <= MaxPoints, n > 0
        PROVE  n - 1 \in 0 .. MaxPoints - 1
    <2>1. MaxPoints \in Nat
      BY <1>2
    <2>2. 0 <= n - 1
      BY <1>a
    <2>3. n - 1 <= MaxPoints - 1
      BY <1>a, <2>1
    <2> QED
      BY <2>1, <2>2, <2>3
  <1> DEFINE last == segment'[pointIndexSPC' - 1]
  <1>4. pointIndexSPC' > 0 =>
            \/ last.at < firedAt
            \/ last.at = firedAt /\ last.sensor < Column + 1
    <2>1. CASE UNCHANGED <<pointIndexSPC, segment>>
      <3>1. pointIndexSPC > 0 => segment[pointIndexSPC - 1] \in PointType
        BY <1>2
      <3>2. pointIndexSPC > 0 =>
              \/ segment[pointIndexSPC - 1].at < firedAt
              \/ /\ segment[pointIndexSPC - 1].at = firedAt
                 /\ segment[pointIndexSPC - 1].sensor < Column
        BY <1>1 DEF ScanInv, LastPoint
      <3>3. pointIndexSPC > 0 => segment[pointIndexSPC - 1].sensor \in Int
        BY <3>1 DEF PointType
      <3> QED
        BY <1>3, <2>1, <3>2, <3>3
    <2>2. CASE /\ pointIndexSPC < MaxPoints
               /\ segment' = [segment EXCEPT ![pointIndexSPC] = Point(position)]
               /\ pointIndexSPC' = pointIndexSPC + 1
      <3>1. pointIndexSPC' - 1 = pointIndexSPC /\ pointIndexSPC \in 0 .. MaxPoints - 1
        BY <1>2, <2>2
      <3>2. last = Point(position)
        BY <1>2, <2>2, <3>1
      <3>3. last.at = firedAt /\ last.sensor = Column
        BY <1>1, <3>2, BeamPoint
      <3> QED
        BY <1>3, <3>3
    <2> QED
      BY <1>1, <2>1, <2>2, StoreSPC
  <1>5. pointIndexSPC' > 0 => last.at <= firedAt
    <2>1. pointIndexSPC' > 0 => last \in PointType
      <3>1. /\ segment' \in [0 .. MaxPoints - 1 -> PointType]
            /\ pointIndexSPC' \in Nat /\ pointIndexSPC' <= MaxPoints
        <4>1. CASE UNCHANGED <<pointIndexSPC, segment>>
          BY <1>2, <4>1
        <4>2. CASE /\ pointIndexSPC < MaxPoints
                   /\ segment' = [segment EXCEPT ![pointIndexSPC] = Point(position)]
                   /\ pointIndexSPC' = pointIndexSPC + 1
          <5>1. Point(position) \in PointType
            BY <1>1, BeamPoint
          <5> QED
            BY <1>2, <4>2, <5>1
        <4> QED
          BY <1>1, <4>1, <4>2, StoreSPC
      <3>2. /\ MaxPoints \in Nat /\ pointIndexSPC' \in Nat
            /\ pointIndexSPC' <= MaxPoints
        BY <1>2, <3>1
      <3> QED
        BY <1>a, <3>1, <3>2
    <2> HIDE DEF last
    <2>2. pointIndexSPC' > 0 => last.at \in Int
      BY <2>1 DEF PointType
    <2> QED
      BY <1>2, <1>4, <2>2
  <1> HIDE DEF last
  <1>6. CASE pc' = "beam" /\ Column' = Column + 1
    BY <1>1, <1>4, <1>5, <1>6 DEF LastPoint, last
  <1>7. CASE pc' \in {"middle", "azimuth", "idle"}
    BY <1>1, <1>5, <1>7 DEF LastPoint, last
  <1> QED
    BY <1>6, <1>7, BeamMoves

LEMMA BeamLastRow ==
    ASSUME FrameFits, ScanInv, DecodeBeam
    PROVE  LastRow'
  <1>1. /\ pc = "beam" /\ StoreDistance /\ UNCHANGED firedAt
    BY DEF DecodeBeam, angles
  <1> SUFFICES ASSUME NEW s \in AllStreams, Len(rows'[s]) > 0
               PROVE  /\ rows'[s][Len(rows'[s])].at <= firedAt'
                      /\ pc' \in {"guard", "beam"} => rows'[s][Len(rows'[s])].at < firedAt'
    BY DEF LastRow
  <1>2. firedAt \in Nat /\ rows[s] \in Seq(PointType)
    BY DEF ScanInv, IInv, TypeOK, OnTrack, OnTurn
  <1>3. CASE rows'[s] = rows[s]
    BY <1>1, <1>3 DEF ScanInv, LastRow
  <1>4. CASE Column = Sensors - 1 /\ rows'[s] = Append(rows[s], Point(position))
    <2>1. Point(position) \in PointType /\ Point(position).at = firedAt
      BY <1>1, BeamPoint
    <2>2. rows'[s][Len(rows'[s])] = Point(position)
      BY <1>2, <1>4, <2>1
    <2>3. ~(pc' \in {"guard", "beam"})
      BY <1>4, BeamMoves
    <2>4. rows'[s][Len(rows'[s])].at = firedAt
      BY <2>1, <2>2
    <2>5. rows'[s][Len(rows'[s])].at <= firedAt'
      BY <1>1, <1>2, <2>4
    <2> QED
      BY <2>3, <2>5
  <1> QED
    BY <1>1, <1>3, <1>4, StoreCPC

LEMMA DecodeBeamTrack ==
    ASSUME FrameFits, ScanInv, DecodeBeam
    PROVE  OnTrack' /\ RoomInv' /\ LastPoint' /\ LastRow' /\ NeverSent'
  <1>1. pc = "beam" /\ StorePoint /\ StoreDistance /\ UNCHANGED config
    BY DEF DecodeBeam
  <1>2. spc' = spc /\ cpc' = cpc /\ WithSPC' = WithSPC /\ WithCPC' = WithCPC
    BY <1>1, StoreSPC, StoreCPC DEF config, WithSPC, WithCPC
  <1>3. ~WithCPC => pointIndexCPC' = pointIndexCPC
    BY <1>1, StoreCPC
  <1>4. NeverSent'
    BY <1>2, <1>3 DEF ScanInv, NeverSent
  <1> QED
    BY <1>4, BeamTrack, BeamRoom, BeamLastPoint, BeamLastRow

-----------------------------------------------------------------------------
(* The invariant holds.                                                    *)

LEMMA ScanInvInit == ASSUME Init PROVE ScanInv
  <1>1. /\ pc = "idle" /\ blockID = 0 /\ sensorAt \in 0 .. Turn - 1 /\ lost = 0
        /\ firedAt = 0 /\ previousAzimuth = 0 /\ pointIndexSPC = 0 /\ pointIndexCPC = 0
        /\ counter = 0 /\ rows = [s \in AllStreams |-> <<>>] /\ spc = <<>>
    BY DEF Init
  <1>2. cpc = [s \in AllStreams |-> [start |-> 0, end |-> 0, rows |-> <<>>]]
    BY DEF Init
  <1>3. /\ Turn \in Nat \ {0} /\ Sensors \in Nat \ {0} /\ MaxLost \in Nat
        /\ Half \in Nat
    BY Sizes, Numbers
  <1>4. OnTurn
    <2>1. (0 - 0) \div Turn = 0 /\ 0 * Turn = 0
      BY <1>3
    <2> QED
      BY <1>1, <2>1 DEF OnTurn, turnCollected
  <1>5. \A s \in AllStreams : rows[s] = <<>> /\ Len(rows[s]) = 0
    BY <1>1
  <1>6. BetweenPackets
    <2>1. NothingYet /\ sensorAt < Turn
      BY <1>1, <1>3, <1>5 DEF NothingYet
    <2> QED
      BY <1>1, <1>3, <2>1 DEF BetweenPackets
  <1>7. BetweenBlocks /\ InBlock
    BY <1>1 DEF BetweenBlocks, InBlock
  <1>8. RoomInv
    <2>1. Room(0, "idle", 0, Column)
      <3>1. 0 * Half = 0 /\ Sensors * (0 + Half) \in Nat
        BY <1>3
      <3> QED
        BY <3>1 DEF Room
    <2> QED
      BY <1>1, <1>5, <2>1 DEF RoomInv
  <1>9. LastPoint /\ LastRow
    BY <1>1, <1>5 DEF LastPoint, LastRow
  <1>10. NeverSent
    BY <1>1, <1>2 DEF NeverSent
  <1> QED
    BY <1>4, <1>6, <1>7, <1>8, <1>9, <1>10, InitInv DEF ScanInv, OnTrack

LEMMA StutterTrack ==
    ASSUME ScanInv, UNCHANGED vars
    PROVE  OnTrack' /\ RoomInv' /\ LastPoint' /\ LastRow' /\ NeverSent'
  <1>1. /\ UNCHANGED <<config, angles, spcVars, cpcVars>>
        /\ UNCHANGED <<pc, blockID, counter, sensorAt, lost, packet>>
    BY DEF vars, cursor, sensor
  <1>2. /\ OnTurn' /\ NeverSent'
        /\ UNCHANGED <<firedAt, previousAzimuth, nextAzimuth, deltaAzimuth,
                       pointIndexSPC, segment, pointIndexCPC, rows>>
        /\ \A s \in AllStreams : Len(rows'[s]) <= pointIndexCPC'
    BY <1>1, CloudsUntouched
  <1>3. BetweenPackets'
    BY <1>1, <1>2 DEF ScanInv, OnTrack, BetweenPackets, NothingYet
  <1>4. BetweenBlocks'
    BY <1>1, <1>2 DEF ScanInv, OnTrack, BetweenBlocks, NothingYet, NextKnown, BlockAt
  <1>5. InBlock'
    BY <1>1, <1>2 DEF ScanInv, OnTrack, InBlock, NextKnown, BlockAt
  <1>6. Column' = Column
    BY <1>1 DEF Column
  <1>7. RoomInv'
    BY <1>1, <1>2, <1>6 DEF ScanInv, RoomInv
  <1>8. LastPoint' /\ LastRow'
    BY <1>1, <1>2, <1>6 DEF ScanInv, LastPoint, LastRow
  <1> QED
    BY <1>2, <1>3, <1>4, <1>5, <1>7, <1>8 DEF OnTrack

LEMMA ScanInvNext == ASSUME ScanAssumption, ScanInv, [Next]_vars PROVE ScanInv'
  <1>1. ShortLosses /\ FrameFits
    BY DEF ScanAssumption
  <1>2. IInv' /\ TypeOK'
    <2>1. IInv'
      BY NextInv DEF ScanInv
    <2> QED
      BY <2>1 DEF IInv
  <1>3. ~SkipBlock
    BY <1>1, NeverSkips
  <1>4. OnTrack' /\ RoomInv' /\ LastPoint' /\ LastRow' /\ NeverSent'
    <2>1. CASE LosePacket
      BY <1>1, <2>1, LosePacketTrack
    <2>2. CASE ReceivePacket
      BY <1>1, <2>2, ReceivePacketTrack
    <2>3. CASE ContinueScan
      BY <1>1, <1>2, <2>3, ContinueScanTrack
    <2>4. CASE CompleteScan
      BY <1>1, <1>2, <2>4, CompleteScanTrack
    <2>5. CASE EnterBlock
      BY <2>5, EnterBlockTrack
    <2>6. CASE ContinueHalf
      BY <1>2, <2>6, ContinueHalfTrack
    <2>7. CASE CompleteHalf
      BY <1>2, <2>7, CompleteHalfTrack
    <2>8. CASE DecodeBeam
      BY <1>1, <2>8, DecodeBeamTrack
    <2>9. CASE UNCHANGED vars
      BY <2>9, StutterTrack
    <2> QED
      BY <1>3, <2>1, <2>2, <2>3, <2>4, <2>5, <2>6, <2>7, <2>8, <2>9 DEF Next
  <1> QED
    BY <1>2, <1>4 DEF ScanInv

-----------------------------------------------------------------------------
(* The steps as steps of ScanFrames.                                       *)

LEMMA StreamOfCPC == ASSUME TypeOK PROVE aStream \in Streams /\ aStream \in AllStreams
  BY DEF TypeOK, aStream, Streams, AllStreams

LEMMA SameStream == ASSUME UNCHANGED config PROVE aStream' = aStream
  BY DEF config, aStream

LEMMA ScanInitially == ASSUME Init PROVE SPCScan!ScanInit /\ CPCScan!ScanInit
  <1>1. turnCollected = 0
    <2>1. firedAt = 0 /\ previousAzimuth = 0 /\ (0 - 0) \div Turn = 0
      BY Sizes DEF Init
    <2> QED
      BY <2>1 DEF turnCollected
  <1>2. SegmentPoints = <<>> /\ spc = <<>>
    BY DEF Init, SegmentPoints
  <1>3. aStream \in AllStreams
    BY DEF aStream, AllStreams
  <1>4. rows[aStream] = <<>> /\ cpc[aStream].rows = <<>>
    BY <1>3 DEF Init
  <1> QED
    BY <1>1, <1>2, <1>4 DEF SPCScan!ScanInit, CPCScan!ScanInit

(* A cut in a later turn publishes both frames.                            *)
LEMMA CutPublishes ==
    ASSUME ScanInv, UNCHANGED config, NEW azimuth \in 0 .. Turn, SendPointCloud(azimuth),
           turnCollected' > turnCollected
    PROVE  SPCScan!Publish /\ CPCScan!Publish
  <1>1. /\ pointIndexSPC' = 0 /\ rows' = [s \in AllStreams |-> <<>>]
        /\ spc' = SegmentPoints /\ \A s \in Streams : cpc'[s].rows = rows[s]
    BY CutBoth
  <1>2. SegmentPoints' = <<>>
    BY <1>1 DEF SegmentPoints
  <1>3. aStream \in Streams /\ aStream \in AllStreams /\ aStream' = aStream
    BY StreamOfCPC, SameStream DEF ScanInv, IInv
  <1>4. (rows[aStream])' = <<>> /\ (cpc[aStream].rows)' = rows[aStream]
    BY <1>1, <1>3
  <1> QED
    BY <1>1, <1>2, <1>4 DEF SPCScan!Publish, CPCScan!Publish

LEMMA Stutters ==
    ASSUME UNCHANGED config, turnCollected' = turnCollected,
           UNCHANGED <<pointIndexSPC, segment, spc, rows, cpc>>
    PROVE  UNCHANGED SPCScan!scanVars /\ UNCHANGED CPCScan!scanVars
  <1>1. aStream' = aStream
    BY SameStream
  <1>2. SegmentPoints' = SegmentPoints
    BY DEF SegmentPoints
  <1> QED
    BY <1>1, <1>2 DEF SPCScan!scanVars, CPCScan!scanVars

(* What a beam stores: a point of the turn, with its true azimuth.         *)
LEMMA BeamInTurn ==
    ASSUME ScanInv, pc = "beam"
    PROVE  LET p == Point(position)
           IN  /\ p \in [at : Nat, sensor : Nat, azimuth : 0 .. Turn]
               /\ turnCollected * Turn <= p.at /\ p.at <= (turnCollected + 1) * Turn
               /\ p.azimuth = p.at - turnCollected * Turn
  <1> DEFINE p == Point(position)
  <1>1. /\ p \in PointType /\ p.at = firedAt /\ p.sensor = Column
        /\ p.azimuth = previousAzimuth
    BY BeamPoint
  <1>2. /\ firedAt \in Nat /\ turnCollected \in Nat /\ Turn \in Nat
        /\ firedAt = turnCollected * Turn + previousAzimuth
        /\ previousAzimuth \in Nat /\ previousAzimuth <= Turn
    BY Sizes DEF ScanInv, IInv, TypeOK, OnTrack, OnTurn
  <1>3. Column \in Nat
    <2>1. counter \in 0 .. Beams - 1
      BY DEF ScanInv, IInv, TypeOK
    <2> QED
      BY <2>1, ColumnOfCounter
  <1> HIDE DEF p
  <1>4. p \in [at : Nat, sensor : Nat, azimuth : 0 .. Turn]
    BY <1>1, <1>2, <1>3 DEF PointType
  <1>5. /\ turnCollected * Turn \in Nat
        /\ (turnCollected + 1) * Turn = turnCollected * Turn + Turn
    BY <1>2
  <1>6. /\ turnCollected * Turn <= firedAt /\ firedAt <= (turnCollected + 1) * Turn
        /\ previousAzimuth = firedAt - turnCollected * Turn
    BY <1>2, <1>5
  <1> QED
    BY <1>1, <1>4, <1>6 DEF p

LEMMA DecodeBeamSPC ==
    ASSUME ScanInv, DecodeBeam
    PROVE  SPCScan!Collect \/ UNCHANGED SPCScan!scanVars
  <1>1. /\ pc = "beam" /\ StorePoint /\ UNCHANGED <<firedAt, previousAzimuth>>
    BY DEF DecodeBeam, angles
  <1>2. turnCollected' = turnCollected
    BY <1>1 DEF turnCollected
  <1>3. CASE spc' = spc /\ UNCHANGED <<pointIndexSPC, segment>>
    BY <1>2, <1>3 DEF SPCScan!scanVars, SegmentPoints
  <1>4. CASE /\ spc' = spc /\ pointIndexSPC < MaxPoints
             /\ segment' = [segment EXCEPT ![pointIndexSPC] = Point(position)]
             /\ pointIndexSPC' = pointIndexSPC + 1
    <2> DEFINE n == pointIndexSPC
               p == Point(position)
               frame == [k \in 1 .. n |-> segment[k - 1]]
    <2>1. /\ n \in Nat /\ MaxPoints \in Nat /\ n < MaxPoints
          /\ segment \in [0 .. MaxPoints - 1 -> PointType]
      BY <1>4, Sizes DEF ScanInv, IInv, TypeOK
    <2>2. /\ p \in [at : Nat, sensor : Nat, azimuth : 0 .. Turn]
          /\ turnCollected * Turn <= p.at /\ p.at <= (turnCollected + 1) * Turn
          /\ p.azimuth = p.at - turnCollected * Turn
      BY <1>1, BeamInTurn
    <2>3. p.at = firedAt /\ p.sensor = Column
      BY <1>1, BeamPoint
    <2>4. n > 0 =>
            \/ segment[n - 1].at < firedAt
            \/ segment[n - 1].at = firedAt /\ segment[n - 1].sensor < Column
      BY <1>1 DEF ScanInv, LastPoint
    <2>5. segment' = [segment EXCEPT ![n] = p] /\ pointIndexSPC' = n + 1
      BY <1>4
    <2> HIDE DEF n, p
    <2>6. SegmentPoints = frame
      BY DEF SegmentPoints, n
    <2>7. SegmentPoints' = [k \in 1 .. n + 1 |-> IF k = n + 1 THEN p ELSE frame[k]]
      <3>1. SegmentPoints' = [k \in 1 .. n + 1 |-> segment'[k - 1]]
        BY <2>5 DEF SegmentPoints
      <3>2. ASSUME NEW k \in 1 .. n + 1
            PROVE  segment'[k - 1] = IF k = n + 1 THEN p ELSE frame[k]
        BY <2>1, <2>5
      <3> QED
        BY <3>1, <3>2
    <2> DEFINE new == [k \in 1 .. n + 1 |-> IF k = n + 1 THEN p ELSE frame[k]]
    <2>8. Len(frame) = n /\ Len(new) = n + 1 /\ new[n + 1] = p
      BY <2>1
    <2>9. SubSeq(new, 1, n) = frame
      <3>1. SubSeq(new, 1, n) = [k \in 1 .. n |-> new[k]]
        BY <2>1
      <3>2. ASSUME NEW k \in 1 .. n
            PROVE  new[k] = frame[k]
        BY <2>1
      <3> QED
        BY <3>1, <3>2
    <2>10. frame # <<>> =>
             frame[n].at < p.at \/ (frame[n].at = p.at /\ frame[n].sensor < p.sensor)
      <3>1. frame # <<>> => n > 0
        BY <2>1
      <3>2. n > 0 => frame[n] = segment[n - 1]
        BY <2>1
      <3> QED
        BY <2>3, <2>4, <3>1, <3>2
    <2> HIDE DEF frame, new
    <2>11. SPCScan!Collect
      BY <1>2, <1>4, <2>1, <2>2, <2>6, <2>7, <2>8, <2>9, <2>10
      DEF SPCScan!Collect, SPCScan!ScanPoint, SPCScan!InTurn, SPCScan!TrueAzimuth,
          SPCScan!FiredBefore, new
    <2> QED
      BY <2>11
  <1> QED
    BY <1>1, <1>3, <1>4, StoreSPC

LEMMA DecodeBeamCPC ==
    ASSUME FrameFits, ScanInv, DecodeBeam
    PROVE  CPCScan!Collect \/ UNCHANGED CPCScan!scanVars
  <1>1. /\ pc = "beam" /\ StoreDistance
        /\ UNCHANGED <<firedAt, previousAzimuth, config>>
    BY DEF DecodeBeam, angles
  <1>2. turnCollected' = turnCollected
    BY <1>1 DEF turnCollected
  <1>3. /\ aStream \in AllStreams /\ aStream' = aStream
    BY <1>1, StreamOfCPC, SameStream DEF ScanInv, IInv
  <1>4. cpc' = cpc
    BY <1>1, StoreCPC
  <1> DEFINE frame == rows[aStream]
             new == rows'[aStream]
             p == Point(position)
  <1>5. CASE new = frame
    BY <1>2, <1>3, <1>4, <1>5 DEF CPCScan!scanVars
  <1>6. CASE new = Append(frame, p)
    <2>1. /\ p \in [at : Nat, sensor : Nat, azimuth : 0 .. Turn]
          /\ turnCollected * Turn <= p.at /\ p.at <= (turnCollected + 1) * Turn
          /\ p.azimuth = p.at - turnCollected * Turn
      BY <1>1, BeamInTurn
    <2>2. p \in PointType /\ p.at = firedAt
      BY <1>1, BeamPoint
    <2>3. frame \in Seq(PointType)
      BY <1>3 DEF ScanInv, IInv, TypeOK
    <2>4. Len(frame) <= pointIndexCPC /\ pointIndexCPC \in Nat
      BY <1>3 DEF ScanInv, IInv, TypeOK, RoomInv
    <2>5. pointIndexCPC < MaxPoints
      BY <1>1, SomeRoom
    <2>6. Len(frame) > 0 => frame[Len(frame)].at < firedAt
      BY <1>1, <1>3 DEF ScanInv, LastRow
    <2>7. (rows[aStream])' = new /\ (cpc[aStream].rows)' = cpc[aStream].rows
      BY <1>3, <1>4
    <2> HIDE DEF frame, new, p
    <2>8. Len(frame) \in Nat /\ Len(frame) < MaxPoints
      <3>1. Len(frame) \in Nat /\ MaxPoints \in Nat
        BY <2>3, Sizes
      <3> QED
        BY <2>4, <2>5, <3>1
    <2>9. /\ Len(new) = Len(frame) + 1 /\ new[Len(frame) + 1] = p
          /\ SubSeq(new, 1, Len(frame)) = frame
      BY <1>6, <2>2, <2>3
    <2>10. frame # <<>> => frame[Len(frame)].at < p.at
      <3>1. frame # <<>> => Len(frame) > 0
        BY <2>3, <2>8
      <3> QED
        BY <2>2, <2>6, <3>1
    <2>11. CPCScan!Collect
      BY <1>2, <2>1, <2>7, <2>8, <2>9, <2>10
      DEF CPCScan!Collect, CPCScan!ScanPoint, CPCScan!InTurn, CPCScan!TrueAzimuth,
          CPCScan!FiredBefore, frame
    <2> QED
      BY <2>11
  <1>7. new = frame \/ new = Append(frame, p)
    BY <1>1, <1>3, StoreCPC
  <1> QED
    BY <1>5, <1>6, <1>7

LEMMA CompleteSteps ==
    ASSUME ScanAssumption, ScanInv, TypeOK', CompleteScan \/ CompleteHalf
    PROVE  SPCScan!Publish /\ CPCScan!Publish
  <1>1. CASE CompleteScan
    <2>1. /\ StartBlock /\ BlockAzimuth < previousAzimuth /\ SendPointCloud(BlockAzimuth)
      BY <1>1 DEF CompleteScan
    <2>2. UNCHANGED config /\ BlockAzimuth \in 0 .. Turn /\ turnCollected' > turnCollected
      BY <2>1, StartBlockTurn DEF ScanAssumption, StartBlock
    <2> QED
      BY <2>1, <2>2, CutPublishes
  <1>2. CASE CompleteHalf
    <2>1. /\ Interpolate /\ currentAzimuth + Delta > Turn
          /\ SendPointCloud(Normalised(currentAzimuth + Delta))
      BY <1>2 DEF CompleteHalf
    <2>2. UNCHANGED config /\ turnCollected' > turnCollected
      BY <2>1, InterpolateTurn
    <2>3. Normalised(currentAzimuth + Delta) \in 0 .. Turn
      BY <2>1, InterpolateKeeps DEF ScanInv, Interpolate
    <2> QED
      BY <2>1, <2>2, <2>3, CutPublishes
  <1> QED
    BY <1>1, <1>2

LEMMA ScanSteps ==
    ASSUME ScanAssumption, ScanInv, [Next]_vars
    PROVE  /\ [SPCScan!Collect \/ SPCScan!Publish]_SPCScan!scanVars
           /\ [CPCScan!Collect \/ CPCScan!Publish]_CPCScan!scanVars
  <1>1. ShortLosses /\ FrameFits
    BY DEF ScanAssumption
  <1>2. TypeOK'
    BY NextInv DEF ScanInv, IInv
  <1>3. CASE CompleteScan \/ CompleteHalf
    BY <1>2, <1>3, CompleteSteps
  <1>4. CASE DecodeBeam
    BY <1>1, <1>4, DecodeBeamSPC, DecodeBeamCPC
  <1>5. CASE LosePacket \/ ReceivePacket \/ EnterBlock \/ UNCHANGED vars
    <2>1. UNCHANGED <<config, angles, spcVars, cpcVars>>
      BY <1>5 DEF LosePacket, ReceivePacket, EnterBlock, vars
    <2> QED
      BY <2>1, CloudsUntouched, Stutters
  <1>6. CASE ContinueScan
    <2>1. /\ StartBlock /\ BlockAzimuth >= previousAzimuth /\ UNCHANGED <<spcVars, cpcVars>>
      BY <1>6 DEF ContinueScan
    <2>2. UNCHANGED config /\ turnCollected' = turnCollected
      BY <1>1, <1>2, <2>1, StartBlockTurn DEF StartBlock
    <2>3. UNCHANGED <<pointIndexSPC, segment, spc, rows, cpc>>
      BY <2>1 DEF spcVars, cpcVars
    <2> QED
      BY <2>2, <2>3, Stutters
  <1>7. CASE ContinueHalf
    <2>1. /\ Interpolate /\ currentAzimuth + Delta <= Turn /\ UNCHANGED <<spcVars, cpcVars>>
      BY <1>7 DEF ContinueHalf
    <2>2. UNCHANGED config /\ turnCollected' = turnCollected
      BY <1>2, <2>1, InterpolateTurn
    <2>3. UNCHANGED <<pointIndexSPC, segment, spc, rows, cpc>>
      BY <2>1 DEF spcVars, cpcVars
    <2> QED
      BY <2>2, <2>3, Stutters
  <1>8. ~SkipBlock
    BY <1>1, NeverSkips
  <1> QED
    BY <1>3, <1>4, <1>5, <1>6, <1>7, <1>8 DEF Next

-----------------------------------------------------------------------------
(* The VLP-16 decoder implements ScanFrames for the shared point cloud: a  *)
(* frame it sends has the points of one turn, in the order of firing, each *)
(* with its true azimuth, and a cut is made exactly where a turn ends, for *)
(* any sensors, blocks, echoes, clouds and losses of less than a turn,     *)
(* when a turn fits into a frame.                                          *)
THEOREM ImplementsSPC == ASSUME ScanAssumption PROVE Spec => SPCRefinesScan
  <1>1. Init => ScanInv
    BY ScanInvInit
  <1>2. ScanInv /\ [Next]_vars => ScanInv'
    BY ScanInvNext
  <1>3. Init => SPCScan!ScanInit
    BY ScanInitially
  <1>4. ScanInv /\ [Next]_vars => [SPCScan!Collect \/ SPCScan!Publish]_SPCScan!scanVars
    BY ScanSteps
  <1> QED
    BY <1>1, <1>2, <1>3, <1>4, PTL DEF Spec, SPCRefinesScan, SPCScan!ScanSpec

(* The same for the rows of the compact point cloud, of which either       *)
(* stream has one for every firing of all sensors.                         *)
THEOREM ImplementsCPC == ASSUME ScanAssumption PROVE Spec => CPCRefinesScan
  <1>1. Init => ScanInv
    BY ScanInvInit
  <1>2. ScanInv /\ [Next]_vars => ScanInv'
    BY ScanInvNext
  <1>3. Init => CPCScan!ScanInit
    BY ScanInitially
  <1>4. ScanInv /\ [Next]_vars => [CPCScan!Collect \/ CPCScan!Publish]_CPCScan!scanVars
    BY ScanSteps
  <1> QED
    BY <1>1, <1>2, <1>3, <1>4, PTL DEF Spec, CPCRefinesScan, CPCScan!ScanSpec

(* When a turn fits into a frame, no block is skipped for want of room.    *)
THEOREM NothingSkipped == ASSUME ScanAssumption PROVE Spec => [][~SkipBlock]_vars
  <1>1. Init => ScanInv
    BY ScanInvInit
  <1>2. ScanInv /\ [Next]_vars => ScanInv'
    BY ScanInvNext
  <1>3. ScanInv /\ [Next]_vars => [~SkipBlock]_vars
    BY NeverSkips DEF ScanAssumption
  <1> QED
    BY <1>1, <1>2, <1>3, PTL DEF Spec
=============================================================================
