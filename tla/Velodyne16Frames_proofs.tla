----------------------- MODULE Velodyne16Frames_proofs -----------------------
(***************************************************************************)
(* What is in the compact clouds of the VLP-16, under the assumptions of   *)
(* Velodyne16Scan_proofs: no firing of a packet that arrived is missing,   *)
(* within a frame or between two, and the azimuths announced with a frame  *)
(* are those of its first and last row; and when every block has an echo,  *)
(* the shared cloud and the compact cloud of a turn show the same firings. *)
(*                                                                         *)
(* Between two firings the last row is the firing decoded last; from the   *)
(* start of a block or of its second half until the row is written, the    *)
(* firing being decoded follows the last row (Follows).  The shared cloud  *)
(* has a firing as soon as one sensor saw it, the compact one when its row *)
(* is written, so that they agree only between two firings (Agreed).       *)
(***************************************************************************)
EXTENDS Velodyne16Scan_proofs

-----------------------------------------------------------------------------
(* A firing at b is the next after one at a, but for packets lost.         *)
Follows(a, b) == (b - a - Half) % PacketSpan = 0

Between == pc \in {"idle", "azimuth", "middle"}

(* No firing is missing inside r.                                          *)
Chain(r) == \A i \in 1 .. Len(r) - 1 : OnlyPacketsMissing(r[i], r[i + 1])

LastAt(r) == r[Len(r)].at

NextPacket ==
    pc = "azimuth" /\ blockID = 0 => NothingYet \/ Follows(firedAt, BlockAt)

Sequel(s) ==
    LET sent == cpc[s].rows
    IN  /\ Chain(sent) /\ Chain(rows[s])
        /\ sent # <<>> /\ rows[s] # <<>> => OnlyPacketsMissing(sent[Len(sent)], rows[s][1])
        /\ Between /\ rows[s] = <<>> => NothingYet /\ sent = <<>>
        /\ Between /\ rows[s] # <<>> => LastAt(rows[s]) = firedAt
        /\ ~Between /\ rows[s] # <<>> => Follows(LastAt(rows[s]), firedAt)
        /\ ~Between /\ rows[s] = <<>> /\ sent # <<>> => Follows(LastAt(sent), firedAt)

(* The azimuths noted for the next header.                                 *)
Header(s) ==
    LET r == rows[s]
        sent == cpc[s].rows
    IN  /\ ~Between /\ r = <<>> => firedAt < Turn \/ startAzimuth = previousAzimuth
        /\ Between /\ r # <<>> => r[Len(r)].azimuth = previousAzimuth
        /\ r # <<>> => r[1].at < Turn \/ r[1].azimuth = startAzimuth
        /\ sent # <<>> /\ sent[1].at >= Turn =>
               cpc[s].start = sent[1].azimuth /\ cpc[s].end = sent[Len(sent)].azimuth

StreamsInv == \A s \in Streams : Sequel(s) /\ Header(s)

SentTyped == \A s \in AllStreams : cpc[s].rows \in Seq(PointType)

FramesInv == NextPacket /\ SentTyped /\ (WithCPC => StreamsInv)

-----------------------------------------------------------------------------
LEMMA FollowsLosses ==
    ASSUME NEW a \in Nat, NEW n \in Nat
    PROVE  /\ Follows(a, a + Half + n * PacketSpan)
           /\ Follows(a, a + Half)
  <1> DEFINE p == PacketSpan
  <1>1. p \in Nat \ {0} /\ Half \in Nat
    BY Sizes, Numbers
  <1> HIDE DEF p
  <1>2. (n * p) % p = 0 /\ 0 % p = 0 /\ n * p \in Nat
    BY <1>1
  <1>3. (a + Half + n * p) - a - Half = n * p /\ (a + Half) - a - Half = 0
    BY <1>1, <1>2
  <1>4. PacketSpan = p
    BY DEF p
  <1>5. /\ ((a + Half + n * PacketSpan) - a - Half) % PacketSpan = 0
        /\ ((a + Half) - a - Half) % PacketSpan = 0
    BY <1>2, <1>3, <1>4
  <1> QED
    BY <1>5 DEF Follows

LEMMA AppendChains ==
    ASSUME NEW r \in Seq(PointType), Chain(r), NEW p \in PointType,
           r # <<>> => Follows(LastAt(r), p.at)
    PROVE  LET more == Append(r, p)
           IN  /\ Chain(more) /\ more # <<>> /\ more[Len(more)] = p
               /\ more[1] = IF r = <<>> THEN p ELSE r[1]
  <1> DEFINE more == Append(r, p)
  <1>1. /\ Len(r) \in Nat /\ Len(more) = Len(r) + 1 /\ more \in Seq(PointType)
        /\ \A i \in 1 .. Len(r) : more[i] = r[i]
        /\ more[Len(r) + 1] = p
    OBVIOUS
  <1>2. r # <<>> => Len(r) > 0
    BY <1>1
  <1>3. more # <<>> /\ more[Len(more)] = p
    BY <1>1
  <1>4. more[1] = IF r = <<>> THEN p ELSE r[1]
    <2>1. CASE r = <<>>
      <3>1. Len(r) = 0
        BY <2>1
      <3> QED
        BY <1>1, <2>1, <3>1
    <2>2. CASE r # <<>>
      <3>1. 1 \in 1 .. Len(r)
        BY <1>1, <1>2, <2>2
      <3> QED
        BY <1>1, <2>2, <3>1
    <2> QED
      BY <2>1, <2>2
  <1> HIDE DEF more
  <1>5. ASSUME NEW i \in 1 .. Len(more) - 1
        PROVE  OnlyPacketsMissing(more[i], more[i + 1])
    <2>1. CASE i < Len(r)
      <3>1. i \in 1 .. Len(r) - 1 /\ i \in 1 .. Len(r) /\ i + 1 \in 1 .. Len(r)
        BY <1>1, <2>1
      <3>2. OnlyPacketsMissing(r[i], r[i + 1])
        BY <3>1 DEF Chain
      <3> QED
        BY <1>1, <3>1, <3>2
    <2>2. CASE ~(i < Len(r))
      <3>1. i = Len(r) /\ i \in 1 .. Len(r) /\ i + 1 = Len(r) + 1
        BY <1>1, <2>2
      <3>2. r # <<>>
        BY <3>1
      <3>3. more[i] = r[Len(r)] /\ more[i + 1] = p
        BY <1>1, <3>1
      <3> QED
        BY <3>2, <3>3 DEF Follows, LastAt, OnlyPacketsMissing, Half
    <2> QED
      BY <2>1, <2>2
  <1>6. Chain(more)
    BY <1>5 DEF Chain
  <1> QED
    BY <1>3, <1>4, <1>6 DEF more

-----------------------------------------------------------------------------
(* The kinds of steps.                                                     *)

LEMMA SameStreams ==
    ASSUME UNCHANGED config
    PROVE  Streams' = Streams /\ WithCPC' = WithCPC /\ WithSPC' = WithSPC
  BY DEF config, Streams, WithCPC, WithSPC

(* Nothing the streams speak of changes.                                   *)
LEMMA StreamsKept ==
    ASSUME WithCPC => StreamsInv, UNCHANGED <<config, rows, cpc, firedAt, previousAzimuth>>,
           UNCHANGED <<startAzimuth, pointIndexSPC, pointIndexCPC>>, Between' = Between
    PROVE  WithCPC' => StreamsInv'
  <1>1. NothingYet' = NothingYet
    BY DEF NothingYet
  <1> QED
    BY <1>1, SameStreams DEF StreamsInv, Sequel, Header

(* A firing begins, and the frame goes on.                                 *)
LEMMA StreamsContinued ==
    ASSUME WithCPC => StreamsInv, UNCHANGED <<config, rows, cpc, startAzimuth>>,
           Between, ~Between',
           NothingYet => firedAt' < Turn,
           NothingYet \/ Follows(firedAt, firedAt')
    PROVE  WithCPC' => StreamsInv'
  <1>1. Streams' = Streams /\ WithCPC' = WithCPC
    BY SameStreams
  <1> SUFFICES ASSUME WithCPC, NEW s \in Streams PROVE Sequel(s)' /\ Header(s)'
    BY <1>1 DEF StreamsInv
  <1>2. Sequel(s) /\ Header(s) /\ s \in AllStreams
    BY StreamsTyped DEF StreamsInv
  <1>3. CASE rows[s] = <<>>
    BY <1>2, <1>3 DEF Sequel, Header
  <1>4. CASE rows[s] # <<>>
    <2>1. ~NothingYet
      BY <1>2, <1>4 DEF NothingYet
    <2>2. Follows(LastAt(rows[s]), firedAt')
      BY <1>2, <1>4, <2>1 DEF Sequel
    <2>3. Sequel(s)'
      BY <1>2, <1>4, <2>2 DEF Sequel
    <2>4. Header(s)'
      BY <1>2, <1>4 DEF Header
    <2> QED
      BY <2>3, <2>4
  <1> QED
    BY <1>3, <1>4

(* A firing begins, and the frame is sent before it.                       *)
LEMMA StreamsCut ==
    ASSUME ScanInv, WithCPC => StreamsInv, UNCHANGED config,
           NEW azimuth \in 0 .. Turn, SendPointCloud(azimuth), previousAzimuth' = azimuth,
           Between, ~Between', NothingYet \/ Follows(firedAt, firedAt')
    PROVE  WithCPC' => StreamsInv'
  <1>1. Streams' = Streams /\ WithCPC' = WithCPC
    BY SameStreams
  <1> SUFFICES ASSUME WithCPC, NEW s \in Streams PROVE Sequel(s)' /\ Header(s)'
    BY <1>1 DEF StreamsInv
  <1>2. Sequel(s) /\ Header(s) /\ s \in AllStreams
    BY StreamsTyped DEF StreamsInv
  <1>3. /\ rows'[s] = <<>> /\ startAzimuth' = previousAzimuth'
        /\ cpc'[s] = [start |-> startAzimuth, end |-> previousAzimuth, rows |-> rows[s]]
    BY <1>2 DEF SendPointCloud, PublishCPC, ResetRows, NextStart
  <1>4. /\ cpc'[s].rows = rows[s] /\ cpc'[s].start = startAzimuth
        /\ cpc'[s].end = previousAzimuth
    BY <1>3
  <1>5. Chain(rows'[s])
    BY <1>3 DEF Chain
  <1>6. Sequel(s)'
    <2>1. rows[s] # <<>> => Follows(LastAt(rows[s]), firedAt')
      BY <1>2 DEF NothingYet, Sequel
    <2> QED
      BY <1>2, <1>3, <1>4, <1>5, <2>1 DEF Sequel
  <1>7. Header(s)'
    <2>1. rows[s] # <<>> /\ rows[s][1].at >= Turn =>
            /\ startAzimuth = rows[s][1].azimuth
            /\ previousAzimuth = rows[s][Len(rows[s])].azimuth
      <3>1. rows[s] # <<>> => rows[s][1].at \in Int
        <4>1. rows[s] \in Seq(PointType)
          BY <1>2 DEF ScanInv, IInv, TypeOK
        <4>2. rows[s] # <<>> => rows[s][1] \in PointType
          BY <4>1
        <4> QED
          BY <4>2 DEF PointType
      <3>2. rows[s] # <<>> => ~(rows[s][1].at < Turn /\ rows[s][1].at >= Turn)
        BY <3>1, Sizes
      <3> QED
        BY <1>2, <3>2 DEF Header
    <2> QED
      BY <1>3, <1>4, <2>1 DEF Header
  <1> QED
    BY <1>6, <1>7

(* The row of a firing is complete exactly when the next one begins.       *)
LEMMA RowOfFiring ==
    ASSUME FrameFits, ScanInv, DecodeBeam
    PROVE  Between' <=> Column = Sensors - 1
  <1>1. /\ counter \in 0 .. Beams - 1 /\ Beams = 2 * Sensors /\ Sensors \in Nat \ {0}
    BY Sizes DEF ScanInv, IInv, TypeOK
  <1>2. CASE pc' = "beam" /\ Column # Sensors - 1
    BY <1>2 DEF Between
  <1>3. CASE pc' = "middle"
    <2>1. counter + 1 = Sensors
      <3>1. ~FrameFull /\ counter < Beams - 1 => pc' = IF counter + 1 = Sensors THEN "middle" ELSE "beam"
        BY DEF DecodeBeam, NextBeam
      <3>2. FrameFull \/ ~(counter < Beams - 1) => pc' \in {"azimuth", "idle"}
        BY DEF DecodeBeam, LeaveBlock
      <3> QED
        BY <1>3, <3>1, <3>2
    <2>2. counter < Sensors /\ counter = Sensors - 1
      BY <1>1, <2>1
    <2> QED
      BY <1>3, <2>2 DEF Column, Between
  <1>4. CASE counter >= Sensors /\ pc' \in {"azimuth", "idle"}
    <2>1. ~FrameFull
      <3>1. pc = "beam" /\ StorePoint /\ StoreDistance
        BY DEF DecodeBeam
      <3>2. /\ pointIndexSPC' \in {pointIndexSPC, pointIndexSPC + 1}
            /\ pointIndexCPC' \in {pointIndexCPC, pointIndexCPC + 1}
        BY <3>1, StoreSPC, StoreCPC
      <3>3. pointIndexSPC \in Nat /\ pointIndexCPC \in Nat /\ MaxPoints \in Nat
        BY Sizes DEF ScanInv, IInv, TypeOK
      <3>4. pointIndexSPC' < MaxPoints /\ pointIndexCPC' < MaxPoints
        BY <3>1, <3>2, <3>3, BeamCount DEF ScanInv, RoomInv
      <3>5. ~(pointIndexSPC' >= MaxPoints) /\ ~(pointIndexCPC' >= MaxPoints)
        BY <3>2, <3>3, <3>4
      <3> QED
        BY <3>5 DEF FrameFull
    <2>2. ~(counter < Beams - 1)
      BY <1>4, <2>1 DEF DecodeBeam, NextBeam
    <2>3. ~(counter < Sensors) /\ counter - Sensors = Sensors - 1
      BY <1>1, <1>4, <2>2
    <2> QED
      BY <1>4, <2>3 DEF Column, Between
  <1> QED
    BY <1>2, <1>3, <1>4, BeamMoves

LEMMA DecodeBeamStreams ==
    ASSUME FrameFits, ScanInv, WithCPC => StreamsInv, DecodeBeam
    PROVE  WithCPC' => StreamsInv'
  <1>1. /\ pc = "beam" /\ StoreDistance
        /\ UNCHANGED <<config, firedAt, previousAzimuth>>
    BY DEF DecodeBeam, angles
  <1>2. Streams' = Streams /\ WithCPC' = WithCPC
    BY <1>1, SameStreams
  <1> SUFFICES ASSUME WithCPC, NEW s \in Streams PROVE Sequel(s)' /\ Header(s)'
    BY <1>2 DEF StreamsInv
  <1>3. Sequel(s) /\ Header(s) /\ s \in AllStreams /\ ~Between
    BY <1>1, StreamsTyped DEF StreamsInv, Between
  <1>4. cpc' = cpc /\ startAzimuth' = startAzimuth
    BY <1>1 DEF StoreDistance, cpcVars
  <1>5. rows'[s] = IF Column = Sensors - 1 THEN Append(rows[s], Point(position)) ELSE rows[s]
    BY <1>1, <1>3, StoreCPC
  <1>6. CASE Column # Sensors - 1
    <2>1. ~Between' /\ rows'[s] = rows[s]
      BY <1>5, <1>6, RowOfFiring
    <2> QED
      BY <1>1, <1>3, <1>4, <2>1 DEF Sequel, Header
  <1>7. CASE Column = Sensors - 1
    <2> DEFINE r == rows[s]
               p == Point(position)
               more == Append(r, p)
    <2>1. /\ p \in PointType /\ p.at = firedAt /\ p.azimuth = previousAzimuth
      BY <1>1, BeamPoint
    <2>2. r \in Seq(PointType) /\ Chain(r) /\ (r # <<>> => Follows(LastAt(r), p.at))
      BY <1>3, <2>1 DEF ScanInv, IInv, TypeOK, Sequel
    <2>3. /\ Chain(more) /\ more # <<>> /\ more[Len(more)] = p
          /\ more[1] = IF r = <<>> THEN p ELSE r[1]
      BY <2>1, <2>2, AppendChains
    <2>4. Between' /\ rows'[s] = more
      BY <1>5, <1>7, RowOfFiring
    <2>5. LastAt(more) = firedAt
      BY <2>1, <2>3 DEF LastAt
    <2>6. cpc[s].rows # <<>> => OnlyPacketsMissing(cpc[s].rows[Len(cpc[s].rows)], more[1])
      <3>1. CASE r = <<>>
        BY <1>3, <2>1, <2>3, <3>1 DEF Sequel, Follows, LastAt, OnlyPacketsMissing, Half
      <3>2. CASE r # <<>>
        BY <1>3, <2>3, <3>2 DEF Sequel
      <3> QED
        BY <3>1, <3>2
    <2>7. more[1].at < Turn \/ more[1].azimuth = startAzimuth
      <3>1. CASE r = <<>>
        BY <1>3, <2>1, <2>3, <3>1 DEF Header
      <3>2. CASE r # <<>>
        BY <1>3, <2>3, <3>2 DEF Header
      <3> QED
        BY <3>1, <3>2
    <2> HIDE DEF more
    <2>8. Sequel(s)'
      BY <1>1, <1>3, <1>4, <2>3, <2>4, <2>5, <2>6 DEF Sequel
    <2>9. more[Len(more)].azimuth = previousAzimuth
      BY <2>1, <2>3
    <2>10. Header(s)'
      BY <1>1, <1>3, <1>4, <2>3, <2>4, <2>7, <2>9 DEF Header
    <2> QED
      BY <2>8, <2>10
  <1> QED
    BY <1>6, <1>7

(* Where the next firing is, at the start of a block and in its middle.    *)
LEMMA BlockFollows ==
    ASSUME ShortLosses, ScanInv, NextPacket, StartBlock
    PROVE  /\ Between /\ ~Between' /\ UNCHANGED config /\ firedAt' = BlockAt
           /\ NothingYet => firedAt' < Turn
           /\ NothingYet \/ Follows(firedAt, firedAt')
  <1>1. /\ pc = "azimuth" /\ pc' = "guard" /\ firedAt' = BlockAt /\ UNCHANGED config
    BY DEF StartBlock, BlockAt
  <1>2. Between /\ ~Between'
    BY <1>1 DEF Between
  <1>3. firedAt \in Nat /\ Half < Turn /\ Half \in Nat /\ BlockAt \in Nat /\ Turn \in Nat
    BY Sizes, Numbers, StepInTurn, BlockAtNat DEF ScanInv, IInv, OnTrack, OnTurn
  <1>4. blockID \in Nat
    BY BlockAtNat DEF ScanInv, IInv
  <1>5. CASE blockID = 0
    <2>1. \/ NothingYet /\ BlockAt < Turn
          \/ BlockAt < firedAt + Turn
      BY <1>1, <1>5 DEF ScanInv, OnTrack, BetweenBlocks
    <2>2. NothingYet => firedAt = 0
      BY DEF NothingYet
    <2>3. NothingYet => BlockAt < Turn
      BY <1>3, <2>1, <2>2
    <2>4. NothingYet \/ Follows(firedAt, BlockAt)
      BY <1>1, <1>5 DEF NextPacket
    <2> QED
      BY <1>1, <1>2, <2>3, <2>4
  <1>6. CASE blockID > 0
    <2>1. BlockAt = firedAt + Half
      BY <1>1, <1>6 DEF ScanInv, OnTrack, BetweenBlocks
    <2>2. Follows(firedAt, firedAt + Half)
      BY <1>3, FollowsLosses
    <2>3. NothingYet => firedAt = 0
      BY DEF NothingYet
    <2>4. NothingYet => BlockAt < Turn
      BY <1>3, <2>1, <2>3
    <2> QED
      BY <1>1, <1>2, <2>1, <2>2, <2>4
  <1> QED
    BY <1>4, <1>5, <1>6

LEMMA HalfFollows ==
    ASSUME ScanAssumption, ScanInv, TypeOK', Interpolate
    PROVE  /\ Between /\ ~Between' /\ UNCHANGED config
           /\ NothingYet => firedAt' < Turn
           /\ NothingYet \/ Follows(firedAt, firedAt')
  <1>1. pc = "middle" /\ pc' = "beam" /\ UNCHANGED config /\ firedAt' = firedAt + Half
    <2>1. pc = "middle"
      BY DEF Interpolate
    <2> QED
      BY <2>1, InterpolateTurn
  <1>2. Between /\ ~Between'
    BY <1>1 DEF Between
  <1>3. firedAt \in Nat /\ Half < Turn /\ Half \in Nat /\ Turn \in Nat
    BY Sizes, Numbers, StepInTurn DEF ScanAssumption, ScanInv, IInv, OnTrack, OnTurn
  <1>4. Follows(firedAt, firedAt')
    BY <1>1, <1>3, FollowsLosses
  <1>5. NothingYet => firedAt = 0
    BY DEF NothingYet
  <1>6. NothingYet => firedAt' < Turn
    BY <1>1, <1>3, <1>5
  <1> QED
    BY <1>1, <1>2, <1>4, <1>6

-----------------------------------------------------------------------------
(* The invariant holds.                                                    *)

LEMMA FramesInvInit == ASSUME Init PROVE FramesInv
  <1>1. /\ pc = "idle" /\ firedAt = 0 /\ previousAzimuth = 0 /\ pointIndexSPC = 0
        /\ pointIndexCPC = 0
        /\ \A s \in AllStreams : rows[s] = <<>> /\ cpc[s].rows = <<>>
    BY DEF Init
  <1>2. NextPacket
    BY <1>1 DEF NextPacket
  <1>3. NothingYet
    BY <1>1 DEF NothingYet
  <1>4. Chain(<<>>)
    BY DEF Chain
  <1>5. StreamsInv
    <2> SUFFICES ASSUME NEW s \in Streams PROVE Sequel(s) /\ Header(s)
      BY DEF StreamsInv
    <2>1. rows[s] = <<>> /\ cpc[s].rows = <<>> /\ Between
      BY <1>1, StreamsTyped DEF Between
    <2>2. Sequel(s)
      BY <1>3, <1>4, <2>1 DEF Sequel
    <2>3. Header(s)
      BY <2>1 DEF Header
    <2> QED
      BY <2>2, <2>3
  <1>6. SentTyped
    <2>1. <<>> \in Seq(PointType)
      OBVIOUS
    <2> QED
      BY <1>1, <2>1 DEF SentTyped
  <1> QED
    BY <1>2, <1>5, <1>6 DEF FramesInv

(* What is sent are rows.                                                  *)
LEMMA SentTypedCut ==
    ASSUME ScanInv, SentTyped, NEW azimuth, SendPointCloud(azimuth)
    PROVE  SentTyped'
  <1> SUFFICES ASSUME NEW s \in AllStreams PROVE cpc'[s].rows \in Seq(PointType)
    BY DEF SentTyped
  <1>1. rows[s] \in Seq(PointType) /\ cpc[s].rows \in Seq(PointType)
    BY DEF ScanInv, IInv, TypeOK, SentTyped
  <1>2. CASE WithCPC
    <2>1. cpc'[s] = IF s \in Streams
                    THEN [start |-> startAzimuth, end |-> previousAzimuth, rows |-> rows[s]]
                    ELSE cpc[s]
      BY <1>2 DEF SendPointCloud, PublishCPC
    <2>2. CASE s \in Streams
      <3>1. cpc'[s].rows = rows[s]
        BY <2>1, <2>2
      <3> QED
        BY <1>1, <3>1
    <2>3. CASE s \notin Streams
      BY <1>1, <2>1, <2>3
    <2> QED
      BY <2>2, <2>3
  <1>3. CASE ~WithCPC
    BY <1>1, <1>3 DEF SendPointCloud, PublishCPC, cpcVars
  <1> QED
    BY <1>2, <1>3

LEMMA FramesInvNext ==
    ASSUME ScanAssumption, ScanInv, FramesInv, [Next]_vars
    PROVE  FramesInv'
  <1>1. ShortLosses /\ FrameFits
    BY DEF ScanAssumption
  <1>2. TypeOK'
    BY NextInv DEF ScanInv, IInv
  <1>3. NextPacket /\ SentTyped /\ (WithCPC => StreamsInv)
    BY DEF FramesInv
  <1>4. ASSUME UNCHANGED <<config, angles, spcVars, cpcVars>>, Between' = Between, NextPacket'
        PROVE  FramesInv'
    <2>1. /\ UNCHANGED <<config, rows, cpc, firedAt, previousAzimuth>>
          /\ UNCHANGED <<startAzimuth, pointIndexSPC, pointIndexCPC>>
      BY <1>4 DEF angles, spcVars, cpcVars
    <2>2. WithCPC' => StreamsInv'
      BY <1>3, <1>4, <2>1, StreamsKept
    <2>3. SentTyped'
      BY <1>3, <2>1 DEF SentTyped
    <2> QED
      BY <1>4, <2>2, <2>3 DEF FramesInv
  <1>5. CASE LosePacket
    <2>1. UNCHANGED <<config, angles, spcVars, cpcVars>> /\ pc = "idle" /\ pc' = "idle"
      BY <1>5 DEF LosePacket, cursor
    <2>2. Between' = Between /\ NextPacket'
      BY <2>1 DEF Between, NextPacket
    <2> QED
      BY <1>4, <2>1, <2>2
  <1>6. CASE ReceivePacket
    <2>1. /\ UNCHANGED <<config, angles, spcVars, cpcVars>> /\ pc = "idle" /\ pc' = "azimuth"
          /\ packet' = sensorAt /\ blockID' = blockID
      BY <1>6 DEF ReceivePacket
    <2>2. Between' = Between
      BY <2>1 DEF Between
    <2>3. blockID = 0
      BY <2>1 DEF ScanInv, IInv, LoopInv
    <2>4. BlockAt' = sensorAt
      <3>1. sensorAt \in Nat /\ Step \in Nat /\ 0 * Step = 0
        BY Sizes DEF ScanInv, IInv, TypeOK
      <3> QED
        BY <2>1, <2>3, <3>1 DEF BlockAt
    <2>5. NothingYet \/ Follows(firedAt, sensorAt)
      <3>1. NothingYet \/ sensorAt = firedAt + Half + lost * PacketSpan
        BY <2>1 DEF ScanInv, OnTrack, BetweenPackets
      <3>2. firedAt \in Nat /\ lost \in Nat
        BY DEF ScanInv, IInv, TypeOK, OnTrack, OnTurn
      <3> QED
        BY <3>1, <3>2, FollowsLosses
    <2>6. NothingYet' = NothingYet /\ firedAt' = firedAt
      BY <2>1 DEF NothingYet, angles, spcVars, cpcVars
    <2>7. NextPacket'
      BY <2>4, <2>5, <2>6 DEF NextPacket
    <2> QED
      BY <1>4, <2>1, <2>2, <2>7
  <1>7. CASE EnterBlock
    <2>1. UNCHANGED <<config, angles, spcVars, cpcVars>> /\ pc = "guard" /\ pc' = "beam"
      BY <1>7 DEF EnterBlock
    <2>2. Between' = Between /\ NextPacket'
      BY <2>1 DEF Between, NextPacket
    <2> QED
      BY <1>4, <2>1, <2>2
  <1>8. CASE UNCHANGED vars
    <2>1. /\ UNCHANGED <<config, angles, spcVars, cpcVars>>
          /\ UNCHANGED <<pc, blockID, packet, firedAt, previousAzimuth>>
          /\ UNCHANGED <<pointIndexSPC, pointIndexCPC, rows>>
      BY <1>8 DEF vars, cursor, sensor, angles, spcVars, cpcVars
    <2>2. Between' = Between /\ NextPacket'
      BY <1>3, <2>1 DEF Between, NextPacket, NothingYet, BlockAt
    <2> QED
      BY <1>4, <2>1, <2>2
  <1>9. ASSUME pc' \in {"guard", "beam"}, WithCPC' => StreamsInv', SentTyped'
        PROVE  FramesInv'
    BY <1>9 DEF FramesInv, NextPacket
  <1>10. CASE ContinueScan
    <2>1. /\ StartBlock /\ pc' = "guard" /\ UNCHANGED <<rows, cpc, startAzimuth>>
      BY <1>10 DEF ContinueScan, StartBlock, cpcVars
    <2>2. /\ Between /\ ~Between' /\ UNCHANGED config
          /\ NothingYet => firedAt' < Turn
          /\ NothingYet \/ Follows(firedAt, firedAt')
      BY <1>1, <1>3, <2>1, BlockFollows
    <2>3. WithCPC' => StreamsInv'
      BY <1>3, <2>1, <2>2, StreamsContinued
    <2>4. SentTyped'
      BY <1>3, <2>1 DEF SentTyped
    <2> QED
      BY <1>9, <2>1, <2>3, <2>4
  <1>11. CASE CompleteScan
    <2>1. StartBlock /\ pc' = "guard" /\ SendPointCloud(BlockAzimuth)
      BY <1>11 DEF CompleteScan, StartBlock
    <2>2. /\ Between /\ ~Between' /\ UNCHANGED config
          /\ NothingYet \/ Follows(firedAt, firedAt')
      BY <1>1, <1>3, <2>1, BlockFollows
    <2>3. previousAzimuth' = BlockAzimuth /\ BlockAzimuth \in 0 .. Turn
      BY <1>1, <1>2, <2>1, StartBlockTurn
    <2>4. WithCPC' => StreamsInv'
      BY <1>3, <2>1, <2>2, <2>3, StreamsCut
    <2>5. SentTyped'
      BY <1>3, <2>1, SentTypedCut
    <2> QED
      BY <1>9, <2>1, <2>4, <2>5
  <1>12. CASE ContinueHalf
    <2>1. Interpolate /\ pc' = "beam" /\ UNCHANGED <<rows, cpc, startAzimuth>>
      BY <1>12 DEF ContinueHalf, Interpolate, cpcVars
    <2>2. /\ Between /\ ~Between' /\ UNCHANGED config
          /\ NothingYet => firedAt' < Turn
          /\ NothingYet \/ Follows(firedAt, firedAt')
      BY <1>2, <2>1, HalfFollows
    <2>3. WithCPC' => StreamsInv'
      BY <1>3, <2>1, <2>2, StreamsContinued
    <2>4. SentTyped'
      BY <1>3, <2>1 DEF SentTyped
    <2> QED
      BY <1>9, <2>1, <2>3, <2>4
  <1>13. CASE CompleteHalf
    <2> DEFINE azimuth == Normalised(currentAzimuth + Delta)
    <2>1. /\ Interpolate /\ pc' = "beam" /\ SendPointCloud(azimuth)
          /\ previousAzimuth' = azimuth
      BY <1>13 DEF CompleteHalf, Interpolate
    <2>2. /\ Between /\ ~Between' /\ UNCHANGED config
          /\ NothingYet \/ Follows(firedAt, firedAt')
      BY <1>2, <2>1, HalfFollows
    <2>3. azimuth \in 0 .. Turn
      BY <2>1, InterpolateKeeps DEF ScanInv
    <2> HIDE DEF azimuth
    <2>4. WithCPC' => StreamsInv'
      BY <1>3, <2>1, <2>2, <2>3, StreamsCut
    <2>5. SentTyped'
      BY <1>3, <2>1, SentTypedCut
    <2> QED
      BY <1>9, <2>1, <2>4, <2>5
  <1>14. CASE DecodeBeam
    <2>1. WithCPC' => StreamsInv'
      BY <1>1, <1>3, <1>14, DecodeBeamStreams
    <2>2. SentTyped'
      <3>1. cpc' = cpc
        BY <1>14 DEF DecodeBeam, StoreDistance, cpcVars
      <3> QED
        BY <1>3, <3>1 DEF SentTyped
    <2>3. NextPacket'
      <3>1. pc' = "azimuth" => blockID' = blockID + 1
        BY <1>1, <1>14, BeamMoves
      <3>2. blockID \in Nat
        BY BlockAtNat DEF ScanInv, IInv
      <3>3. pc' = "azimuth" => blockID' # 0
        BY <3>1, <3>2
      <3> QED
        BY <3>3 DEF NextPacket
    <2> QED
      BY <2>1, <2>2, <2>3 DEF FramesInv
  <1>15. ~SkipBlock
    BY <1>1, NeverSkips
  <1> QED
    BY <1>5, <1>6, <1>7, <1>8, <1>10, <1>11, <1>12, <1>13, <1>14, <1>15 DEF Next

-----------------------------------------------------------------------------
(* Two frames one behind the other.                                        *)
LEMMA ChainOfTwo ==
    ASSUME NEW a \in Seq(PointType), NEW b \in Seq(PointType), Chain(a), Chain(b),
           a # <<>> /\ b # <<>> => OnlyPacketsMissing(a[Len(a)], b[1])
    PROVE  \A i \in 1 .. Len(a \o b) - 1 : OnlyPacketsMissing((a \o b)[i], (a \o b)[i + 1])
  <1> DEFINE both == a \o b
  <1>1. /\ Len(a) \in Nat /\ Len(b) \in Nat /\ Len(both) = Len(a) + Len(b)
        /\ \A i \in 1 .. Len(a) : both[i] = a[i]
    OBVIOUS
  <1>2. ASSUME NEW i \in 1 .. Len(b) PROVE both[Len(a) + i] = b[i]
    OBVIOUS
  <1> HIDE DEF both
  <1> SUFFICES ASSUME NEW i \in 1 .. Len(both) - 1
               PROVE  OnlyPacketsMissing(both[i], both[i + 1])
    BY DEF both
  <1>3. CASE i < Len(a)
    <2>1. i \in 1 .. Len(a) - 1 /\ i \in 1 .. Len(a) /\ i + 1 \in 1 .. Len(a)
      BY <1>1, <1>3
    <2>2. OnlyPacketsMissing(a[i], a[i + 1])
      BY <2>1 DEF Chain
    <2> QED
      BY <1>1, <2>1, <2>2
  <1>4. CASE i = Len(a)
    <2>1. i \in 1 .. Len(a) /\ 1 \in 1 .. Len(b) /\ i + 1 = Len(a) + 1
      BY <1>1, <1>4
    <2>2. both[i] = a[Len(a)] /\ both[i + 1] = b[1]
      BY <1>1, <1>2, <1>4, <2>1
    <2>3. a # <<>> /\ b # <<>>
      BY <2>1
    <2> QED
      BY <2>2, <2>3
  <1>5. CASE i > Len(a)
    <2>1. PICK j \in Nat : j = i - Len(a)
      BY <1>1, <1>5
    <2>2. /\ j \in 1 .. Len(b) - 1 /\ j \in 1 .. Len(b) /\ j + 1 \in 1 .. Len(b)
          /\ i = Len(a) + j /\ i + 1 = Len(a) + (j + 1)
      BY <1>1, <1>5, <2>1
    <2>3. both[i] = b[j] /\ both[i + 1] = b[j + 1]
      BY <1>2, <2>2
    <2>4. OnlyPacketsMissing(b[j], b[j + 1])
      BY <2>2 DEF Chain
    <2> QED
      BY <2>3, <2>4
  <1> QED
    BY <1>1, <1>3, <1>4, <1>5

LEMMA FramesInvariant ==
    ASSUME ScanAssumption
    PROVE  Spec => [](ScanInv /\ FramesInv)
  <1>1. Init => ScanInv /\ FramesInv
    BY ScanInvInit, FramesInvInit
  <1>2. ScanInv /\ FramesInv /\ [Next]_vars => (ScanInv /\ FramesInv)'
    BY ScanInvNext, FramesInvNext
  <1> QED
    BY <1>1, <1>2, PTL DEF Spec

(* While no frame overflows, no firing of a packet that arrived is missing *)
(* in the compact cloud of any instance, nor where frames are cut.         *)
THEOREM NoFiringIsMissing == ASSUME ScanAssumption PROVE Spec => []NoFiringMissing
  <1>1. ScanInv /\ FramesInv => NoFiringMissing
    <2> SUFFICES ASSUME ScanInv, FramesInv, NEW s \in Streams
                 PROVE  LET sent == cpc[s].rows \o rows[s]
                        IN  \A i \in 1 .. Len(sent) - 1 :
                                OnlyPacketsMissing(sent[i], sent[i + 1])
      BY DEF NoFiringMissing
    <2>1. s \in AllStreams
      BY StreamsTyped
    <2>2. rows[s] \in Seq(PointType) /\ cpc[s].rows \in Seq(PointType)
      BY <2>1 DEF ScanInv, IInv, TypeOK, FramesInv, SentTyped
    <2>3. /\ Chain(cpc[s].rows) /\ Chain(rows[s])
          /\ cpc[s].rows # <<>> /\ rows[s] # <<>> =>
                OnlyPacketsMissing(cpc[s].rows[Len(cpc[s].rows)], rows[s][1])
      <3>1. CASE WithCPC
        BY <3>1 DEF FramesInv, StreamsInv, Sequel
      <3>2. CASE ~WithCPC
        <4>1. cpc[s].rows = <<>> /\ rows[s] = <<>>
          BY <2>1, <3>2 DEF ScanInv, IInv, NeverSent, DisabledEmpty
        <4> QED
          BY <4>1 DEF Chain
      <3> QED
        BY <3>1, <3>2
    <2> QED
      BY <2>2, <2>3, ChainOfTwo
  <1> QED
    BY <1>1, FramesInvariant, PTL

(* The azimuths a compact cloud announces are those of its first and last  *)
(* row, but for the first frame of all.                                    *)
THEOREM HeaderIsRight == ASSUME ScanAssumption PROVE Spec => []HeaderMatchesRows
  <1>1. ScanInv /\ FramesInv => HeaderMatchesRows
    <2> SUFFICES ASSUME ScanInv, FramesInv, NEW s \in Streams,
                        cpc[s].rows # <<>>, cpc[s].rows[1].at >= Turn
                 PROVE  /\ cpc[s].start = cpc[s].rows[1].azimuth
                        /\ cpc[s].end = cpc[s].rows[Len(cpc[s].rows)].azimuth
      BY DEF HeaderMatchesRows
    <2>1. WithCPC
      BY StreamsTyped DEF ScanInv, NeverSent
    <2> QED
      BY <2>1 DEF FramesInv, StreamsInv, Header
  <1> QED
    BY <1>1, FramesInvariant, PTL

-----------------------------------------------------------------------------
(* Both clouds: the firings of the points and those of the rows.           *)

Shown == {SegmentPoints[i].at : i \in 1 .. Len(SegmentPoints)}
RowsAt(r) == {r[i].at : i \in 1 .. Len(r)}

Agreed(r) ==
    /\ pc # "beam" => Shown = RowsAt(r)
    /\ pc = "beam" =>
        /\ RowsAt(r) \subseteq Shown
        /\ Shown \subseteq RowsAt(r) \cup {firedAt}
        /\ (\E e \in echoes : e < Column) => firedAt \in Shown

EchoesInBlock == pc \in {"beam", "middle"} => echoes \in EchoPatterns

PairInv ==
    /\ EchoesInBlock
    /\ WithSPC /\ WithCPC => \A s \in Streams : Agreed(rows[s])
    /\ CloudsAgree

EveryBlockEchoes == \A pattern \in EchoPatterns : pattern # {}

LEMMA BeamOfCursor ==
    ASSUME ScanInv, pc = "beam"
    PROVE  BeamOfBlock(position) % Sensors = Column
  <1>1. position = blockID * BlockBytes + 4 + 3 * counter
    BY DEF ScanInv, IInv, CursorAligned
  <1>2. blockID \in Nat /\ counter \in 0 .. Beams - 1
    BY BlockAtNat DEF ScanInv, IInv, TypeOK
  <1>3. /\ Sensors \in Nat \ {0} /\ BlockBytes \in Nat \ {0} /\ BlockBytes = 4 + 6 * Sensors
        /\ Beams = 2 * Sensors
    BY Sizes DEF BlockBytes
  <1>4. position % BlockBytes = 4 + 3 * counter
    <2> DEFINE n == BlockBytes
               rest == 4 + 3 * counter
    <2>1. n \in Nat \ {0} /\ rest \in 0 .. n - 1
      BY <1>2, <1>3
    <2>2. blockID * n \in Nat /\ position = blockID * n + rest
      BY <1>1, <1>2, <1>3
    <2> HIDE DEF n, rest
    <2>3. (blockID * n + rest) % n = rest
      BY <1>2, <2>1
    <2> QED
      BY <2>2, <2>3 DEF n, rest
  <1>5. BeamOfBlock(position) = counter
    BY <1>2, <1>4 DEF BeamOfBlock
  <1>6. counter % Sensors = Column
    <2>1. CASE counter < Sensors
      <3>1. counter % Sensors = counter
        BY <1>2, <1>3, <2>1
      <3> QED
        BY <2>1, <3>1 DEF Column
    <2>2. CASE ~(counter < Sensors)
      <3>1. counter % Sensors = counter - Sensors
        BY <1>2, <1>3, <2>2
      <3> QED
        BY <2>2, <3>1 DEF Column
    <2> QED
      BY <2>1, <2>2
  <1> QED
    BY <1>5, <1>6

(* A point behind those of a sequence.                                     *)
LEMMA OneMoreAt ==
    ASSUME NEW r \in Seq(PointType), NEW p \in PointType
    PROVE  RowsAt(Append(r, p)) = RowsAt(r) \cup {p.at}
  <1> DEFINE more == Append(r, p)
  <1>1. /\ Len(r) \in Nat /\ Len(more) = Len(r) + 1
        /\ \A i \in 1 .. Len(r) : more[i] = r[i]
        /\ more[Len(r) + 1] = p
    OBVIOUS
  <1> HIDE DEF more
  <1>2. ASSUME NEW i \in 1 .. Len(more) PROVE more[i].at \in RowsAt(r) \cup {p.at}
    <2>1. CASE i \in 1 .. Len(r)
      BY <1>1, <2>1 DEF RowsAt
    <2>2. CASE i = Len(r) + 1
      BY <1>1, <2>2
    <2> QED
      BY <1>1, <2>1, <2>2
  <1>3. ASSUME NEW i \in 1 .. Len(r) PROVE r[i].at \in RowsAt(more)
    <2>1. i \in 1 .. Len(more) /\ more[i] = r[i]
      BY <1>1
    <2> QED
      BY <2>1 DEF RowsAt
  <1>4. p.at \in RowsAt(more)
    <2>1. Len(r) + 1 \in 1 .. Len(more)
      BY <1>1
    <2> QED
      BY <1>1, <2>1 DEF RowsAt
  <1>5. RowsAt(more) = RowsAt(r) \cup {p.at}
    BY <1>2, <1>3, <1>4 DEF RowsAt
  <1> QED
    BY <1>5 DEF more

LEMMA ShownAt ==
    ASSUME TypeOK
    PROVE  Shown = {segment[i - 1].at : i \in 1 .. pointIndexSPC}
  <1>1. Len(SegmentPoints) = pointIndexSPC
    BY DEF TypeOK, SegmentPoints
  <1> QED
    BY <1>1 DEF Shown, SegmentPoints

LEMMA BeamShown ==
    ASSUME FrameFits, ScanInv, TypeOK', WithSPC, DecodeBeam
    PROVE  Shown' = IF Column \in echoes THEN Shown \cup {firedAt} ELSE Shown
  <1>1. pc = "beam" /\ StorePoint
    BY DEF DecodeBeam
  <1>2. pointIndexSPC < MaxPoints
    BY <1>1, SomeRoom
  <1>3. CASE Column \in echoes
    <2>1. /\ segment' = [segment EXCEPT ![pointIndexSPC] = Point(position)]
          /\ pointIndexSPC' = pointIndexSPC + 1
      <3>1. startID \div Components = pointIndexSPC
        <4>1. pointIndexSPC \in Nat /\ startID = 4 * pointIndexSPC
          BY DEF ScanInv, IInv, TypeOK, SegmentBounds, Components
        <4> QED
          BY <4>1 DEF Components
      <3> QED
        BY <1>1, <1>2, <1>3, <3>1, BeamOfCursor DEF StorePoint, SegmentHasRoom
    <2>2. /\ pointIndexSPC \in Nat /\ MaxPoints \in Nat
          /\ segment \in [0 .. MaxPoints - 1 -> PointType]
      BY Sizes DEF ScanInv, IInv, TypeOK
    <2>3. Point(position).at = firedAt
      BY <1>1, BeamPoint
    <2>4. segment'[pointIndexSPC] = Point(position)
      BY <1>2, <2>1, <2>2
    <2>5. ASSUME NEW i \in 1 .. pointIndexSPC PROVE segment'[i - 1] = segment[i - 1]
      BY <1>2, <2>1, <2>2
    <2>6. /\ Shown = {segment[i - 1].at : i \in 1 .. pointIndexSPC}
          /\ Shown' = {segment'[i - 1].at : i \in 1 .. pointIndexSPC'}
      <3>1. Len(SegmentPoints') = pointIndexSPC'
        BY DEF TypeOK, SegmentPoints
      <3>2. Shown' = {segment'[i - 1].at : i \in 1 .. pointIndexSPC'}
        BY <3>1 DEF Shown, SegmentPoints
      <3> QED
        BY <3>2, ShownAt DEF ScanInv, IInv
    <2>7. 1 .. pointIndexSPC' = (1 .. pointIndexSPC) \cup {pointIndexSPC + 1}
      BY <2>1, <2>2
    <2>8. Shown' = Shown \cup {segment'[(pointIndexSPC + 1) - 1].at}
      BY <2>5, <2>6, <2>7
    <2>9. (pointIndexSPC + 1) - 1 = pointIndexSPC
      BY <2>2
    <2> QED
      BY <1>3, <2>3, <2>4, <2>8, <2>9
  <1>4. CASE Column \notin echoes
    <2>1. UNCHANGED <<pointIndexSPC, segment>>
      BY <1>1, <1>4, BeamOfCursor DEF StorePoint, spcVars
    <2> QED
      BY <1>4, <2>1 DEF Shown, SegmentPoints
  <1> QED
    BY <1>3, <1>4

LEMMA PairInvInit == ASSUME Init PROVE PairInv
  <1>1. /\ pc = "idle" /\ pointIndexSPC = 0 /\ spc = <<>>
        /\ \A s \in AllStreams : rows[s] = <<>> /\ cpc[s].rows = <<>>
    BY DEF Init
  <1>2. Shown = {} /\ RowsAt(<<>>) = {}
    BY <1>1 DEF Shown, SegmentPoints, RowsAt
  <1>3. EchoesInBlock
    BY <1>1 DEF EchoesInBlock
  <1>4. \A s \in Streams : Agreed(rows[s])
    BY <1>1, <1>2, StreamsTyped DEF Agreed
  <1>5. CloudsAgree
    BY <1>1, StreamsTyped DEF CloudsAgree
  <1> QED
    BY <1>3, <1>4, <1>5 DEF PairInv

(* The clouds agree as long as neither is sent.                            *)
LEMMA CloudsAgreeKept ==
    ASSUME CloudsAgree, spc' = spc, cpc' = cpc, Streams' = Streams,
           WithSPC' = WithSPC, WithCPC' = WithCPC
    PROVE  CloudsAgree'
  <1>1. ASSUME WithSPC, WithCPC, NEW s \in Streams
        PROVE  {spc'[i].at : i \in 1 .. Len(spc')} =
               {cpc'[s].rows[i].at : i \in 1 .. Len(cpc'[s].rows)}
    <2>1. {spc[i].at : i \in 1 .. Len(spc)} =
          {cpc[s].rows[i].at : i \in 1 .. Len(cpc[s].rows)}
      BY <1>1 DEF CloudsAgree
    <2> QED
      BY <2>1
  <1> QED
    BY <1>1 DEF CloudsAgree

(* A step that stores and sends nothing.                                   *)
LEMMA PairKept ==
    ASSUME PairInv, TypeOK', UNCHANGED <<config, spcVars, cpcVars>>,
           pc # "beam", pc' = "beam" => Column' = 0 /\ echoes' \in EchoPatterns,
           pc' # "middle"
    PROVE  PairInv'
  <1>1. UNCHANGED <<pointIndexSPC, segment, spc, rows, cpc>>
    BY DEF spcVars, cpcVars
  <1>2. Streams' = Streams /\ WithCPC' = WithCPC /\ WithSPC' = WithSPC
    BY SameStreams
  <1>3. Shown' = Shown
    BY <1>1 DEF Shown, SegmentPoints
  <1>4. EchoesInBlock'
    BY DEF EchoesInBlock
  <1>5. CloudsAgree'
    <2>1. CloudsAgree
      BY DEF PairInv
    <2> QED
      BY <1>1, <1>2, <2>1, CloudsAgreeKept
  <1>6. pc' = "beam" => ~\E e \in echoes' : e < Column'
    BY DEF TypeOK
  <1>7. ASSUME WithSPC, WithCPC, NEW s \in Streams PROVE Agreed(rows[s])'
    <2>1. Shown = RowsAt(rows[s])
      BY <1>7 DEF PairInv, Agreed
    <2> QED
      BY <1>1, <1>3, <1>6, <2>1 DEF Agreed
  <1> QED
    BY <1>2, <1>4, <1>5, <1>7 DEF PairInv

(* A step that sends both clouds.                                          *)
LEMMA PairCut ==
    ASSUME ScanInv, PairInv, TypeOK', UNCHANGED config,
           NEW azimuth \in 0 .. Turn, SendPointCloud(azimuth),
           pc # "beam", pc' = "beam" => Column' = 0 /\ echoes' \in EchoPatterns,
           pc' # "middle"
    PROVE  PairInv'
  <1>1. /\ pointIndexSPC' = 0 /\ rows' = [s \in AllStreams |-> <<>>]
        /\ spc' = SegmentPoints /\ \A s \in Streams : cpc'[s].rows = rows[s]
    BY CutBoth
  <1>2. Streams' = Streams /\ WithCPC' = WithCPC /\ WithSPC' = WithSPC
    BY SameStreams
  <1>3. Shown' = {} /\ RowsAt(<<>>) = {}
    BY <1>1 DEF Shown, SegmentPoints, RowsAt
  <1>4. EchoesInBlock'
    BY DEF EchoesInBlock
  <1>5. CloudsAgree'
    <2>1. ASSUME WithSPC, WithCPC, NEW s \in Streams
          PROVE  {spc'[i].at : i \in 1 .. Len(spc')} =
                 {cpc'[s].rows[i].at : i \in 1 .. Len(cpc'[s].rows)}
      <3>1. Shown = RowsAt(rows[s])
        BY <2>1 DEF PairInv, Agreed
      <3>2. cpc'[s].rows = rows[s] /\ spc' = SegmentPoints
        BY <1>1
      <3>3. {spc'[i].at : i \in 1 .. Len(spc')} = Shown
        BY <3>2, Zenon DEF Shown
      <3>4. {cpc'[s].rows[i].at : i \in 1 .. Len(cpc'[s].rows)} = RowsAt(rows[s])
        BY <3>2, Zenon DEF RowsAt
      <3> QED
        BY <3>1, <3>3, <3>4, Zenon
    <2> QED
      BY <1>2, <2>1 DEF CloudsAgree
  <1>6. pc' = "beam" => ~\E e \in echoes' : e < Column'
    BY DEF TypeOK
  <1>7. ASSUME NEW s \in Streams PROVE Agreed(rows[s])'
    <2>1. rows'[s] = <<>>
      BY <1>1, StreamsTyped
    <2> QED
      BY <1>3, <1>6, <2>1 DEF Agreed
  <1> QED
    BY <1>2, <1>4, <1>5, <1>7 DEF PairInv

LEMMA PairBeam ==
    ASSUME EveryBlockEchoes, FrameFits, ScanInv, PairInv, TypeOK', DecodeBeam
    PROVE  PairInv'
  <1>1. /\ pc = "beam" /\ StorePoint /\ StoreDistance /\ UNCHANGED <<config, firedAt>>
    BY DEF DecodeBeam, angles
  <1>2. Streams' = Streams /\ WithCPC' = WithCPC /\ WithSPC' = WithSPC
    BY <1>1, SameStreams
  <1>3. spc' = spc /\ cpc' = cpc
    BY <1>1, StoreSPC, StoreCPC
  <1>4. CloudsAgree'
    <2>1. CloudsAgree
      BY DEF PairInv
    <2> QED
      BY <1>2, <1>3, <2>1, CloudsAgreeKept
  <1>5. echoes \in EchoPatterns /\ echoes \subseteq 0 .. Sensors - 1 /\ echoes # {}
    BY <1>1 DEF PairInv, EchoesInBlock, ScanInv, IInv, TypeOK, EveryBlockEchoes
  <1>6. EchoesInBlock'
    <2>1. pc' \in {"beam", "middle"} => echoes' = echoes
      BY DEF DecodeBeam, LeaveBlock, NextBeam
    <2> QED
      BY <1>5, <2>1 DEF EchoesInBlock
  <1>7. Column \in 0 .. Sensors - 1 /\ Sensors \in Nat
    <2>1. counter \in 0 .. Beams - 1
      BY DEF ScanInv, IInv, TypeOK
    <2> QED
      BY <2>1, ColumnOfCounter, Sizes
  <1>8. ASSUME WithSPC, WithCPC, NEW s \in Streams PROVE Agreed(rows[s])'
    <2> DEFINE r == rows[s]
               p == Point(position)
    <2>1. /\ RowsAt(r) \subseteq Shown
          /\ Shown \subseteq RowsAt(r) \cup {firedAt}
          /\ (\E e \in echoes : e < Column) => firedAt \in Shown
      BY <1>1, <1>8 DEF PairInv, Agreed
    <2>2. Shown' = IF Column \in echoes THEN Shown \cup {firedAt} ELSE Shown
      BY <1>8, BeamShown
    <2>3. rows'[s] = IF Column = Sensors - 1 THEN Append(r, p) ELSE r
      BY <1>1, <1>8, StoreCPC, StreamsTyped
    <2>4. \A e \in echoes : e < Column + 1 => e = Column \/ e < Column
      BY <1>5, <1>7
    <2>5. (\E e \in echoes : e < Column + 1) => firedAt \in Shown'
      BY <2>1, <2>2, <2>4
    <2>6. RowsAt(r) \subseteq Shown' /\ Shown' \subseteq RowsAt(r) \cup {firedAt}
      BY <2>1, <2>2
    <2>7. CASE Column # Sensors - 1
      <3>1. ~Between' /\ rows'[s] = r
        BY <1>1, <2>3, <2>7, RowOfFiring
      <3>2. pc' = "beam" /\ Column' = Column + 1 /\ echoes' = echoes
        <4>1. pc' = "beam" /\ Column' = Column + 1
          BY <3>1, BeamMoves DEF Between
        <4>2. pc' = "beam" => echoes' = echoes
          BY DEF DecodeBeam, LeaveBlock, NextBeam
        <4> QED
          BY <4>1, <4>2
      <3> HIDE DEF r
      <3> QED
        BY <1>1, <2>5, <2>6, <3>1, <3>2 DEF Agreed
    <2>8. CASE Column = Sensors - 1
      <3>1. pc' # "beam"
        BY <2>8, RowOfFiring DEF Between
      <3>2. p \in PointType /\ p.at = firedAt
        BY <1>1, BeamPoint
      <3>3. r \in Seq(PointType)
        BY <1>8, StreamsTyped DEF ScanInv, IInv, TypeOK
      <3>4. RowsAt(rows'[s]) = RowsAt(r) \cup {firedAt}
        BY <2>3, <2>8, <3>2, <3>3, OneMoreAt
      <3>5. firedAt \in Shown'
        <4>1. PICK e \in echoes : TRUE
          BY <1>5
        <4>2. e < Column + 1
          BY <1>5, <1>7, <2>8
        <4> QED
          BY <2>5, <4>2
      <3>6. Shown' = RowsAt(rows'[s])
        BY <2>6, <3>4, <3>5
      <3> QED
        BY <3>1, <3>6 DEF Agreed
    <2> QED
      BY <2>7, <2>8
  <1> QED
    BY <1>2, <1>4, <1>6, <1>8 DEF PairInv

LEMMA PairInvNext ==
    ASSUME ScanAssumption, EveryBlockEchoes, ScanInv, PairInv, [Next]_vars
    PROVE  PairInv'
  <1>1. ShortLosses /\ FrameFits
    BY DEF ScanAssumption
  <1>2. TypeOK'
    BY NextInv DEF ScanInv, IInv
  <1>3. CASE LosePacket \/ ReceivePacket \/ ContinueScan
    <2>1. /\ UNCHANGED <<config, spcVars, cpcVars>> /\ pc \in {"idle", "azimuth"}
          /\ pc' \in {"idle", "azimuth", "guard"}
      BY <1>3 DEF LosePacket, ReceivePacket, ContinueScan, StartBlock, cursor
    <2> QED
      BY <1>2, <2>1, PairKept
  <1>4. CASE EnterBlock
    <2>1. /\ UNCHANGED <<config, spcVars, cpcVars>> /\ pc = "guard" /\ pc' = "beam"
          /\ counter' = counter /\ echoes' \in EchoPatterns
      BY <1>4 DEF EnterBlock
    <2>2. Column' = 0
      BY <2>1, Sizes DEF ScanInv, IInv, LoopInv, Column
    <2> QED
      BY <1>2, <2>1, <2>2, PairKept
  <1>5. CASE CompleteScan
    <2>1. /\ StartBlock /\ SendPointCloud(BlockAzimuth) /\ UNCHANGED config
          /\ pc = "azimuth" /\ pc' = "guard"
      BY <1>5 DEF CompleteScan, StartBlock
    <2>2. BlockAzimuth \in 0 .. Turn
      BY BlockAzimuthRange DEF ScanInv, IInv
    <2> QED
      BY <1>2, <2>1, <2>2, PairCut
  <1>6. CASE ContinueHalf \/ CompleteHalf
    <2>1. /\ Interpolate /\ pc = "middle" /\ pc' = "beam" /\ UNCHANGED <<config, echoes>>
      BY <1>6 DEF ContinueHalf, CompleteHalf, Interpolate
    <2>2. Column' = 0
      BY <1>2, <2>1, InterpolateTurn
    <2>3. echoes' \in EchoPatterns
      BY <2>1 DEF PairInv, EchoesInBlock
    <2>4. CASE ContinueHalf
      <3>1. UNCHANGED <<spcVars, cpcVars>>
        BY <2>4 DEF ContinueHalf
      <3> QED
        BY <1>2, <2>1, <2>2, <2>3, <3>1, PairKept
    <2>5. CASE CompleteHalf
      <3>1. SendPointCloud(Normalised(currentAzimuth + Delta))
        BY <2>5 DEF CompleteHalf
      <3>2. Normalised(currentAzimuth + Delta) \in 0 .. Turn
        BY <2>1, InterpolateKeeps DEF ScanInv, Interpolate
      <3> QED
        BY <1>2, <2>1, <2>2, <2>3, <3>1, <3>2, PairCut
    <2> QED
      BY <1>6, <2>4, <2>5
  <1>7. CASE DecodeBeam
    BY <1>1, <1>2, <1>7, PairBeam
  <1>8. CASE UNCHANGED vars
    <2>1. /\ UNCHANGED <<config, pc, counter, echoes, firedAt>>
          /\ UNCHANGED <<pointIndexSPC, segment, spc, rows, cpc>>
      BY <1>8 DEF vars, cursor, angles, spcVars, cpcVars
    <2>2. Streams' = Streams /\ WithCPC' = WithCPC /\ WithSPC' = WithSPC
      BY <2>1, SameStreams
    <2>3. Shown' = Shown /\ Column' = Column
      BY <2>1 DEF Shown, SegmentPoints, Column
    <2>4. EchoesInBlock'
      BY <2>1 DEF PairInv, EchoesInBlock
    <2>5. CloudsAgree'
      <3>1. CloudsAgree
        BY DEF PairInv
      <3> QED
        BY <2>1, <2>2, <3>1, CloudsAgreeKept
    <2>6. ASSUME WithSPC, WithCPC, NEW s \in Streams PROVE Agreed(rows[s])'
      <3>1. Agreed(rows[s])
        BY <2>6 DEF PairInv
      <3> QED
        BY <2>1, <2>3, <3>1 DEF Agreed
    <2> QED
      BY <2>2, <2>4, <2>6, <2>5 DEF PairInv
  <1>9. ~SkipBlock
    BY <1>1, NeverSkips
  <1> QED
    BY <1>3, <1>4, <1>5, <1>6, <1>7, <1>8, <1>9 DEF Next

(* When every block has an echo, the two clouds of one turn, sent at two   *)
(* places and filled by different rules, show the same firings.            *)
THEOREM CloudsShowTheSame ==
    ASSUME ScanAssumption, EveryBlockEchoes
    PROVE  Spec => []CloudsAgree
  <1>1. Init => ScanInv /\ PairInv
    BY ScanInvInit, PairInvInit
  <1>2. ScanInv /\ PairInv /\ [Next]_vars => (ScanInv /\ PairInv)'
    BY ScanInvNext, PairInvNext
  <1>3. ScanInv /\ PairInv => CloudsAgree
    BY DEF PairInv
  <1> QED
    BY <1>1, <1>2, <1>3, PTL DEF Spec
=============================================================================
