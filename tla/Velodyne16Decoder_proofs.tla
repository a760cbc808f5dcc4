---------------------- MODULE Velodyne16Decoder_proofs ----------------------
(***************************************************************************)
(* For every packet size, number of sensors, frame capacity, configuration *)
(* and loss of packets, the VLP-16 decoder keeps its types, writes inside  *)
(* its segment, keeps its read position aligned with the packet, never     *)
(* lets the azimuths of a frame decrease, and has a row for every group of *)
(* distances it counts.                                                    *)
(***************************************************************************)
EXTENDS Velodyne16Decoder, TLAPS

-----------------------------------------------------------------------------
(* The inductive invariant.                                                *)

(* What the program counter says about the loop variables of nextString.   *)
LoopInv ==
    /\ pc \in {"idle", "azimuth", "guard"} => counter = 0
    /\ pc = "idle" => position = 0 /\ blockID = 0
    /\ pc = "middle" => counter = Sensors
    /\ pc \in {"guard", "beam", "middle"} => currentAzimuth = previousAzimuth

(* A cloud that is not configured stays empty.                             *)
DisabledEmpty ==
    /\ ~WithSPC => pointIndexSPC = 0
    /\ ~WithCPC => \A s \in AllStreams : rows[s] = <<>>

(* No point of the frame was fired beyond the azimuth decoded last.        *)
SegmentAscends ==
    /\ \A i \in 1 .. pointIndexSPC - 1 : segment[i - 1].azimuth <= segment[i].azimuth
    /\ pointIndexSPC > 0 => segment[pointIndexSPC - 1].azimuth <= previousAzimuth

RowsAscend ==
    \A s \in AllStreams :
        /\ Ascending(rows[s])
        /\ Len(rows[s]) > 0 => rows[s][Len(rows[s])].azimuth <= previousAzimuth

IInv ==
    /\ TypeOK /\ SegmentBounds /\ CursorAligned
    /\ LoopInv /\ DisabledEmpty /\ SegmentAscends /\ RowsAscend

-----------------------------------------------------------------------------
(* Lemmas about the operators.                                             *)

LEMMA Sizes ==
    /\ Beams \in Nat \ {0} /\ Beams = 2 * Sensors
    /\ BlockBytes \in Nat \ {0}
    /\ LastBlock \in Nat /\ PacketSpan \in Nat \ {0}
    /\ Turn \in Nat \ {0} /\ Step \in Nat \ {0}
    /\ Blocks \in Nat \ {0} /\ Sensors \in Nat \ {0} /\ MaxPoints \in Nat \ {0}
  BY VelodyneAssumption DEF Beams, BlockBytes, LastBlock, PacketSpan

(* The azimuth field of a packet is below a full turn.                     *)
LEMMA ReportedRange ==
    ASSUME packet \in Nat, NEW byte \in Int
    PROVE  ReportedAzimuth(byte) \in 0 .. Turn - 1
  <1>1. (byte \div BlockBytes) \in Int
    BY Sizes
  <1>2. packet + (byte \div BlockBytes) * Step \in Int
    BY <1>1, Sizes
  <1> QED
    BY <1>2, Sizes DEF ReportedAzimuth

LEMMA NormalisedRange ==
    ASSUME NEW a \in 0 .. 2 * Turn
    PROVE  Normalised(a) \in 0 .. Turn
  BY Sizes DEF Normalised

LEMMA BlockAzimuthRange ==
    ASSUME TypeOK
    PROVE  BlockAzimuth \in 0 .. Turn
  <1>1. CASE blockID = 0
    <2>0. packet \in Nat /\ position + 2 \in Int
      BY DEF TypeOK
    <2>1. ReportedAzimuth(position + 2) \in 0 .. Turn - 1
      BY <2>0, ReportedRange
    <2> QED
      BY <1>1, <2>1, Sizes DEF BlockAzimuth
  <1>2. CASE blockID # 0
    BY <1>2, NormalisedRange DEF BlockAzimuth, TypeOK
  <1> QED
    BY <1>1, <1>2

(* Reading ahead gives an azimuth at or after the current one, less than a *)
(* turn away.                                                              *)
LEMMA ReadAheadRange ==
    ASSUME TypeOK
    PROVE  /\ ReadAhead \in 0 .. 2 * Turn
           /\ ReadAhead - currentAzimuth \in 0 .. Turn
  <1> DEFINE reported == ReportedAzimuth(position + 3 * Sensors + 2)
  <1>1. reported \in 0 .. Turn - 1
    BY ReportedRange, Sizes DEF TypeOK
  <1>2. ReadAhead = IF reported < currentAzimuth THEN reported + Turn ELSE reported
    BY DEF ReadAhead
  <1> HIDE DEF reported
  <1> QED
    BY <1>1, <1>2, Sizes DEF TypeOK

LEMMA DeltaRange ==
    ASSUME TypeOK
    PROVE  Delta \in 0 .. Turn /\ currentAzimuth + Delta \in 0 .. 2 * Turn
  <1>1. (ReadAhead - currentAzimuth) \div 2 \in 0 .. Turn
    BY ReadAheadRange, Sizes DEF TypeOK
  <1>2. Delta \in 0 .. Turn
    BY <1>1 DEF Delta, TypeOK
  <1> QED
    BY <1>2, Sizes DEF TypeOK

(* After a cut both clouds are empty, or were never filled.                *)
LEMMA CutEmpties ==
    ASSUME IInv, NEW azimuth \in 0 .. Turn, SendPointCloud(azimuth)
    PROVE  /\ pointIndexSPC' = 0 /\ startID' = 0 /\ segment' = segment
           /\ rows' = [s \in AllStreams |-> <<>>]
           /\ pointIndexCPC' \in Nat /\ startAzimuth' \in 0 .. Turn
  <1>1. pointIndexSPC' = 0 /\ startID' = 0 /\ segment' = segment
    <2>1. CASE WithSPC
      BY <2>1 DEF SendPointCloud, PublishSPC, ResetSegment
    <2>2. CASE ~WithSPC
      BY <2>2 DEF SendPointCloud, PublishSPC, spcVars, IInv, DisabledEmpty,
                  SegmentBounds, Components
    <2> QED
      BY <2>1, <2>2
  <1>2. rows' = [s \in AllStreams |-> <<>>]
    <2>1. CASE WithCPC
      BY <2>1 DEF SendPointCloud, PublishCPC, ResetRows
    <2>2. CASE ~WithCPC
      BY <2>2 DEF SendPointCloud, PublishCPC, cpcVars, IInv, DisabledEmpty, TypeOK
    <2> QED
      BY <2>1, <2>2
  <1>3. pointIndexCPC' \in Nat /\ startAzimuth' \in 0 .. Turn
    BY DEF SendPointCloud, PublishCPC, NextStart, cpcVars, IInv, TypeOK
  <1> QED
    BY <1>1, <1>2, <1>3

(* The end of a block is where the next block begins.                      *)
LEMMA BlockEnd ==
    ASSUME TypeOK, NEW byte \in Nat, LeaveBlock(byte),
           byte = blockID * BlockBytes + BlockBytes
    PROVE  /\ pc' \in {"azimuth", "idle"}
           /\ position' \in Nat /\ blockID' \in 0 .. Blocks - 1 /\ counter' = 0
           /\ echoes' = {}
           /\ pc' = "azimuth" => position' = blockID' * BlockBytes
           /\ pc' = "idle" => position' = 0 /\ blockID' = 0
  <1>1. CASE blockID < LastBlock
    <2>1. (blockID + 1) * BlockBytes = blockID * BlockBytes + BlockBytes
      BY Sizes DEF TypeOK
    <2> QED
      BY <1>1, <2>1, Sizes DEF LeaveBlock, TypeOK, LastBlock
  <1>2. CASE ~(blockID < LastBlock)
    BY <1>2, Sizes DEF LeaveBlock, TypeOK
  <1> QED
    BY <1>1, <1>2

LEMMA PointTyped ==
    ASSUME TypeOK, NEW byte \in Nat
    PROVE  Point(byte) \in PointType /\ Point(byte).azimuth = currentAzimuth
  <1>1. (byte % BlockBytes) \in Int
    BY Sizes
  <1>2. BeamOfBlock(byte) \in Int
    BY <1>1 DEF BeamOfBlock
  <1>3. (BeamOfBlock(byte) \div Sensors) \in Int /\ (byte \div BlockBytes) \in Int
    BY <1>2, Sizes
  <1>4. (Step \div 2) \in Int
    BY Sizes
  <1>5. FiringAt(byte) \in Int
    BY <1>3, <1>4, Sizes DEF FiringAt, TypeOK
  <1>6. counter % Sensors \in 0 .. Sensors - 1
    BY Sizes DEF TypeOK
  <1> QED
    BY <1>5, <1>6 DEF Point, PointType, TypeOK
-----------------------------------------------------------------------------
(* What a step does to the clouds: nothing, or it empties them.            *)

CloudInv == DisabledEmpty /\ SegmentAscends /\ RowsAscend

LEMMA CloudsKept ==
    ASSUME IInv, UNCHANGED <<config, spcVars, cpcVars>>,
           previousAzimuth' \in 0 .. Turn, previousAzimuth <= previousAzimuth'
    PROVE  CloudInv' /\ SegmentBounds'
  <1> USE DEF IInv, config, spcVars, cpcVars
  <1>1. DisabledEmpty'
    BY DEF DisabledEmpty, WithSPC, WithCPC
  <1>2. SegmentBounds'
    BY DEF SegmentBounds
  <1>3. SegmentAscends'
    <2>1. pointIndexSPC > 0 => segment[pointIndexSPC - 1].azimuth \in 0 .. Turn
      BY Sizes DEF TypeOK, PointType, SegmentBounds
    <2> QED
      BY <2>1, Sizes DEF SegmentAscends, TypeOK
  <1>4. RowsAscend'
    <2> SUFFICES ASSUME NEW s \in AllStreams
                 PROVE  /\ Ascending(rows[s])'
                        /\ Len(rows'[s]) > 0 =>
                             rows'[s][Len(rows'[s])].azimuth <= previousAzimuth'
      BY DEF RowsAscend
    <2>1. rows[s] \in Seq(PointType)
      BY DEF TypeOK
    <2>2. Len(rows[s]) > 0 => rows[s][Len(rows[s])].azimuth \in 0 .. Turn
      <3> SUFFICES ASSUME Len(rows[s]) > 0
                   PROVE  rows[s][Len(rows[s])].azimuth \in 0 .. Turn
        OBVIOUS
      <3>1. Len(rows[s]) \in 1 .. Len(rows[s])
        BY <2>1
      <3>2. rows[s][Len(rows[s])] \in PointType
        BY <2>1, <3>1
      <3> QED
        BY <3>2 DEF PointType
    <2> QED
      BY <2>2, Sizes DEF RowsAscend, Ascending, TypeOK
  <1> QED
    BY <1>1, <1>2, <1>3, <1>4 DEF CloudInv

LEMMA CloudsEmptied ==
    ASSUME IInv, UNCHANGED config, pointIndexSPC' = 0, startID' = 0,
           rows' = [s \in AllStreams |-> <<>>]
    PROVE  CloudInv' /\ SegmentBounds'
  <1>1. DisabledEmpty'
    BY DEF DisabledEmpty, WithSPC, WithCPC
  <1>2. SegmentBounds'
    BY Sizes DEF SegmentBounds, Components
  <1>3. SegmentAscends'
    BY DEF SegmentAscends
  <1>4. RowsAscend'
    BY DEF RowsAscend, Ascending
  <1> QED
    BY <1>1, <1>2, <1>3, <1>4 DEF CloudInv

-----------------------------------------------------------------------------
(* Every action preserves the invariant.                                   *)

LEMMA StartBlockKeeps ==
    ASSUME IInv, StartBlock
    PROVE  CursorAligned' /\ LoopInv' /\ UNCHANGED config
           /\ previousAzimuth' = BlockAzimuth /\ BlockAzimuth \in 0 .. Turn
  <1>1. BlockAzimuth \in 0 .. Turn
    BY BlockAzimuthRange DEF IInv
  <1>2. CursorAligned' /\ LoopInv'
    BY DEF StartBlock, IInv, CursorAligned, LoopInv
  <1> QED
    BY <1>1, <1>2 DEF StartBlock

LEMMA StartBlockTypes ==
    ASSUME IInv, StartBlock,
           pointIndexSPC' \in Nat, startID' \in Nat, segment' = segment,
           pointIndexCPC' \in Nat, startAzimuth' \in 0 .. Turn,
           rows' \in [AllStreams -> Seq(PointType)]
    PROVE  TypeOK'
  <1>1. BlockAzimuth \in 0 .. Turn
    BY BlockAzimuthRange DEF IInv
  <1>2. packet + blockID * Step \in Int
    BY Sizes DEF IInv, TypeOK
  <1> QED
    BY <1>1, <1>2, Sizes DEF StartBlock, IInv, TypeOK, config, sensor

LEMMA ContinueScanInv == ASSUME IInv, ContinueScan PROVE IInv'
  <1>1. StartBlock /\ BlockAzimuth >= previousAzimuth /\ UNCHANGED <<spcVars, cpcVars>>
    BY DEF ContinueScan
  <1>2. TypeOK'
    BY <1>1, StartBlockTypes DEF IInv, TypeOK, spcVars, cpcVars
  <1>3. CloudInv' /\ SegmentBounds'
    BY <1>1, StartBlockKeeps, CloudsKept DEF IInv, TypeOK
  <1> QED
    BY <1>1, <1>2, <1>3, StartBlockKeeps DEF IInv, CloudInv

LEMMA CompleteScanInv == ASSUME IInv, CompleteScan PROVE IInv'
  <1>1. StartBlock /\ SendPointCloud(BlockAzimuth)
    BY DEF CompleteScan
  <1>2. /\ pointIndexSPC' = 0 /\ startID' = 0 /\ segment' = segment
        /\ rows' = [s \in AllStreams |-> <<>>]
        /\ pointIndexCPC' \in Nat /\ startAzimuth' \in 0 .. Turn
    BY <1>1, StartBlockKeeps, CutEmpties
  <1>3. TypeOK'
    BY <1>1, <1>2, StartBlockTypes
  <1>4. CloudInv' /\ SegmentBounds'
    BY <1>1, <1>2, StartBlockKeeps, CloudsEmptied
  <1> QED
    BY <1>1, <1>3, <1>4, StartBlockKeeps DEF IInv, CloudInv

LEMMA InterpolateKeeps ==
    ASSUME IInv, Interpolate
    PROVE  /\ CursorAligned' /\ LoopInv' /\ UNCHANGED config
           /\ previousAzimuth' = Normalised(currentAzimuth + Delta)
           /\ previousAzimuth' \in 0 .. Turn
           /\ Delta \in 0 .. Turn /\ currentAzimuth + Delta \in 0 .. 2 * Turn
  <1>1. Delta \in 0 .. Turn /\ currentAzimuth + Delta \in 0 .. 2 * Turn
    BY DeltaRange DEF IInv
  <1>2. Normalised(currentAzimuth + Delta) \in 0 .. Turn
    BY <1>1, NormalisedRange
  <1>3. CursorAligned' /\ LoopInv'
    BY DEF Interpolate, IInv, CursorAligned, LoopInv
  <1> QED
    BY <1>1, <1>2, <1>3 DEF Interpolate

LEMMA InterpolateTypes ==
    ASSUME IInv, Interpolate,
           pointIndexSPC' \in Nat, startID' \in Nat, segment' = segment,
           pointIndexCPC' \in Nat, startAzimuth' \in 0 .. Turn,
           rows' \in [AllStreams -> Seq(PointType)]
    PROVE  TypeOK'
  <1>1. Delta \in 0 .. Turn /\ Normalised(currentAzimuth + Delta) \in 0 .. Turn
    BY InterpolateKeeps
  <1>2. ReadAhead \in 0 .. 2 * Turn
    BY ReadAheadRange DEF IInv
  <1>3. FiringAt(position) \in Int
    <2>1. Point(position) \in PointType
      BY PointTyped DEF IInv, TypeOK
    <2> QED
      BY <2>1 DEF Point, PointType
  <1> QED
    BY <1>1, <1>2, <1>3 DEF Interpolate, IInv, TypeOK, config, sensor

LEMMA ContinueHalfInv == ASSUME IInv, ContinueHalf PROVE IInv'
  <1>1. /\ Interpolate /\ currentAzimuth + Delta <= Turn
        /\ UNCHANGED <<spcVars, cpcVars>>
    BY DEF ContinueHalf
  <1>2. TypeOK'
    BY <1>1, InterpolateTypes DEF IInv, TypeOK, spcVars, cpcVars
  <1>3. currentAzimuth = previousAzimuth
    BY <1>1 DEF IInv, LoopInv, Interpolate
  <1>4. previousAzimuth <= previousAzimuth'
    BY <1>1, <1>3, InterpolateKeeps, Sizes DEF Normalised, IInv, TypeOK
  <1>5. CloudInv' /\ SegmentBounds'
    BY <1>1, <1>4, InterpolateKeeps, CloudsKept
  <1> QED
    BY <1>1, <1>2, <1>5, InterpolateKeeps DEF IInv, CloudInv

LEMMA CompleteHalfInv == ASSUME IInv, CompleteHalf PROVE IInv'
  <1>1. Interpolate /\ SendPointCloud(Normalised(currentAzimuth + Delta))
    BY DEF CompleteHalf
  <1>2. /\ pointIndexSPC' = 0 /\ startID' = 0 /\ segment' = segment
        /\ rows' = [s \in AllStreams |-> <<>>]
        /\ pointIndexCPC' \in Nat /\ startAzimuth' \in 0 .. Turn
    BY <1>1, InterpolateKeeps, CutEmpties
  <1>3. TypeOK'
    BY <1>1, <1>2, InterpolateTypes
  <1>4. CloudInv' /\ SegmentBounds'
    BY <1>1, <1>2, InterpolateKeeps, CloudsEmptied
  <1> QED
    BY <1>1, <1>3, <1>4, InterpolateKeeps DEF IInv, CloudInv
LEMMA LosePacketInv == ASSUME IInv, LosePacket PROVE IInv'
  <1>1. UNCHANGED <<config, cursor, angles, spcVars, cpcVars>>
    BY DEF LosePacket
  <1>2. CloudInv' /\ SegmentBounds'
    BY <1>1, CloudsKept, Sizes DEF angles, IInv, TypeOK
  <1>3. TypeOK'
    BY <1>1, Sizes DEF LosePacket, IInv, TypeOK, config, cursor, angles, spcVars, cpcVars
  <1>4. CursorAligned' /\ LoopInv'
    BY <1>1 DEF IInv, CursorAligned, LoopInv, cursor, angles
  <1> QED
    BY <1>2, <1>3, <1>4 DEF IInv, CloudInv

LEMMA ReceivePacketInv == ASSUME IInv, ReceivePacket PROVE IInv'
  <1>1. UNCHANGED <<config, angles, spcVars, cpcVars, position, blockID, counter, echoes>>
    BY DEF ReceivePacket
  <1>2. CloudInv' /\ SegmentBounds'
    BY <1>1, CloudsKept, Sizes DEF angles, IInv, TypeOK
  <1>3. TypeOK'
    BY <1>1, Sizes DEF ReceivePacket, IInv, TypeOK, config, angles, spcVars, cpcVars
  <1>4. CursorAligned' /\ LoopInv'
    BY <1>1, Sizes DEF ReceivePacket, IInv, CursorAligned, LoopInv, angles
  <1> QED
    BY <1>2, <1>3, <1>4 DEF IInv, CloudInv

LEMMA EnterBlockInv == ASSUME IInv, EnterBlock PROVE IInv'
  <1>1. UNCHANGED <<config, position, blockID, counter, sensor, angles, spcVars, cpcVars>>
    BY DEF EnterBlock
  <1>2. CloudInv' /\ SegmentBounds'
    BY <1>1, CloudsKept, Sizes DEF angles, IInv, TypeOK
  <1>3. echoes' \subseteq 0 .. Sensors - 1
    BY VelodyneAssumption DEF EnterBlock
  <1>4. TypeOK'
    BY <1>1, <1>3 DEF EnterBlock, IInv, TypeOK, config, sensor, angles, spcVars, cpcVars
  <1>5. CursorAligned' /\ LoopInv'
    BY <1>1, Sizes DEF EnterBlock, IInv, CursorAligned, LoopInv, TypeOK, angles
  <1> QED
    BY <1>2, <1>4, <1>5 DEF IInv, CloudInv

(* Leaving a block at its end establishes what is known between blocks.    *)
LEMMA LeaveBlockKeeps ==
    ASSUME IInv, NEW byte \in Nat, LeaveBlock(byte),
           byte = blockID * BlockBytes + BlockBytes
    PROVE  CursorAligned' /\ LoopInv'
  BY BlockEnd DEF IInv, CursorAligned, LoopInv

LEMMA SkipBlockInv == ASSUME IInv, SkipBlock PROVE IInv'
  <1> DEFINE byte == position + 3 * Beams
  <1>1. LeaveBlock(byte) /\ UNCHANGED <<config, sensor, angles, spcVars, cpcVars>>
    BY DEF SkipBlock
  <1>2. byte \in Nat /\ byte = blockID * BlockBytes + BlockBytes
    BY Sizes DEF SkipBlock, IInv, TypeOK, CursorAligned, BlockBytes
  <1> HIDE DEF byte
  <1>3. CloudInv' /\ SegmentBounds'
    BY <1>1, CloudsKept, Sizes DEF angles, IInv, TypeOK
  <1>4. CursorAligned' /\ LoopInv'
    BY <1>1, <1>2, LeaveBlockKeeps
  <1>5. TypeOK'
    BY <1>1, <1>2, BlockEnd, Sizes
    DEF IInv, TypeOK, config, sensor, angles, spcVars, cpcVars
  <1> QED
    BY <1>3, <1>4, <1>5 DEF IInv, CloudInv

-----------------------------------------------------------------------------
(* Decoding a beam.                                                        *)

LEMMA BeamCursor ==
    ASSUME IInv, DecodeBeam
    PROVE  /\ CursorAligned' /\ LoopInv'
           /\ pc' \in {"idle", "azimuth", "middle", "beam"}
           /\ position' \in Nat /\ blockID' \in 0 .. Blocks - 1
           /\ counter' \in 0 .. Beams - 1
           /\ echoes' \subseteq 0 .. Sensors - 1
  <1> USE Sizes
  <1>0. /\ position = blockID * BlockBytes + 4 + 3 * counter
        /\ blockID * BlockBytes \in Nat /\ counter \in 0 .. Beams - 1
        /\ currentAzimuth = previousAzimuth /\ UNCHANGED angles
    BY DEF DecodeBeam, IInv, CursorAligned, LoopInv, TypeOK
  <1>1. CASE LeaveBlock(position + 3 + BytesLeft)
    <2>1. /\ position + 3 + BytesLeft \in Nat
          /\ position + 3 + BytesLeft = blockID * BlockBytes + BlockBytes
      BY <1>0 DEF BytesLeft, BlockBytes
    <2> QED
      BY <1>1, <2>1, BlockEnd, LeaveBlockKeeps DEF IInv
  <1>2. CASE counter < Beams - 1 /\ NextBeam
    BY <1>0, <1>2 DEF NextBeam, IInv, TypeOK, CursorAligned, LoopInv, angles
  <1>3. CASE ~(counter < Beams - 1) /\ LeaveBlock(position + 3)
    <2>1. /\ position + 3 \in Nat
          /\ position + 3 = blockID * BlockBytes + BlockBytes
      BY <1>0, <1>3 DEF BlockBytes
    <2> QED
      BY <1>3, <2>1, BlockEnd, LeaveBlockKeeps DEF IInv
  <1> QED
    BY <1>1, <1>2, <1>3 DEF DecodeBeam

LEMMA BeamSegment ==
    ASSUME IInv, DecodeBeam
    PROVE  /\ pointIndexSPC' \in Nat /\ startID' \in Nat
           /\ segment' \in [0 .. MaxPoints - 1 -> PointType]
           /\ SegmentBounds' /\ SegmentAscends'
           /\ ~WithSPC => pointIndexSPC' = 0
  <1> USE Sizes
  <1>0. UNCHANGED angles /\ currentAzimuth = previousAzimuth /\ StorePoint
    BY DEF DecodeBeam, IInv, LoopInv
  <1>1. CASE UNCHANGED spcVars
    BY <1>0, <1>1 DEF IInv, TypeOK, SegmentBounds, SegmentAscends, DisabledEmpty,
                      spcVars, angles
  <1>2. CASE /\ WithSPC /\ SegmentHasRoom
             /\ segment' = [segment EXCEPT ![startID \div Components] = Point(position)]
             /\ pointIndexSPC' = pointIndexSPC + 1
             /\ startID' = startID + Components
    <2>1. Point(position) \in PointType /\ Point(position).azimuth = previousAzimuth
      BY <1>0, PointTyped DEF IInv, TypeOK
    <2>2. startID \div Components = pointIndexSPC
      BY DEF IInv, TypeOK, SegmentBounds, Components
    <2>3. pointIndexSPC \in 0 .. MaxPoints - 1
      BY <1>2 DEF SegmentHasRoom, IInv, TypeOK
    <2>4. segment' = [segment EXCEPT ![pointIndexSPC] = Point(position)]
      BY <1>2, <2>2
    <2>5. segment' \in [0 .. MaxPoints - 1 -> PointType]
      BY <2>1, <2>3, <2>4 DEF IInv, TypeOK
    <2>6. SegmentBounds'
      BY <1>2, <2>3 DEF IInv, TypeOK, SegmentBounds, Components
    <2>7. SegmentAscends'
      <3> SUFFICES /\ \A i \in 1 .. pointIndexSPC :
                         segment'[i - 1].azimuth <= segment'[i].azimuth
                   /\ segment'[pointIndexSPC].azimuth <= previousAzimuth
        BY <1>0, <1>2, <2>3 DEF SegmentAscends, angles
      <3>1. segment'[pointIndexSPC].azimuth = previousAzimuth
        BY <2>1, <2>3, <2>4 DEF IInv, TypeOK
      <3>2. previousAzimuth \in 0 .. Turn
        BY DEF IInv, TypeOK
      <3>3. ASSUME NEW i \in 1 .. pointIndexSPC
            PROVE  segment'[i - 1].azimuth <= segment'[i].azimuth
        <4>1. segment'[i - 1] = segment[i - 1]
          BY <2>3, <2>4 DEF IInv, TypeOK
        <4>2. CASE i = pointIndexSPC
          BY <2>3, <3>1, <4>1, <4>2 DEF IInv, SegmentAscends
        <4>3. CASE i # pointIndexSPC
          <5>1. segment'[i] = segment[i]
            BY <2>3, <2>4, <4>3 DEF IInv, TypeOK
          <5>2. i \in 1 .. pointIndexSPC - 1
            BY <2>3, <4>3
          <5> QED
            BY <4>1, <5>1, <5>2 DEF IInv, SegmentAscends
        <4> QED
          BY <4>2, <4>3
      <3> QED
        BY <3>1, <3>2, <3>3
    <2> QED
      BY <1>2, <2>3, <2>5, <2>6, <2>7 DEF IInv, TypeOK, Components
  <1> QED
    BY <1>0, <1>1, <1>2 DEF StorePoint

(* Appending a point that is not behind the last one keeps a row in order. *)
LEMMA AppendAscends ==
    ASSUME NEW r \in Seq(PointType), Ascending(r), NEW p \in PointType,
           Len(r) > 0 => r[Len(r)].azimuth <= p.azimuth
    PROVE  Ascending(Append(r, p))
  <1> SUFFICES ASSUME NEW i \in 1 .. Len(r)
               PROVE  Append(r, p)[i].azimuth <= Append(r, p)[i + 1].azimuth
    BY DEF Ascending
  <1>1. Append(r, p)[i] = r[i]
    OBVIOUS
  <1>2. CASE i = Len(r)
    BY <1>1, <1>2
  <1>3. CASE i # Len(r)
    <2>1. Append(r, p)[i + 1] = r[i + 1] /\ i \in 1 .. Len(r) - 1
      BY <1>3
    <2> QED
      BY <1>1, <2>1 DEF Ascending
  <1> QED
    BY <1>2, <1>3

LEMMA BeamRows ==
    ASSUME IInv, DecodeBeam
    PROVE  /\ pointIndexCPC' \in Nat /\ startAzimuth' \in 0 .. Turn
           /\ rows' \in [AllStreams -> Seq(PointType)] /\ RowsAscend'
           /\ ~WithCPC => \A s \in AllStreams : rows'[s] = <<>>
  <1> USE Sizes
  <1>0. UNCHANGED angles /\ currentAzimuth = previousAzimuth /\ StoreDistance
    BY DEF DecodeBeam, IInv, LoopInv
  <1>1. CASE UNCHANGED cpcVars
    BY <1>0, <1>1 DEF IInv, TypeOK, RowsAscend, Ascending, DisabledEmpty, cpcVars, angles
  <1>2. CASE /\ WithCPC
             /\ pointIndexCPC' = pointIndexCPC + 1 /\ UNCHANGED <<startAzimuth, cpc>>
             /\ rows' = [s \in AllStreams |->
                           IF s \in Streams /\ RowComplete
                           THEN Append(rows[s], Point(position)) ELSE rows[s]]
    <2>1. Point(position) \in PointType /\ Point(position).azimuth = previousAzimuth
      BY <1>0, PointTyped DEF IInv, TypeOK
    <2>2. ASSUME NEW s \in AllStreams
          PROVE  /\ rows'[s] \in Seq(PointType) /\ Ascending(rows'[s])
                 /\ Len(rows'[s]) > 0 => rows'[s][Len(rows'[s])].azimuth <= previousAzimuth
      <3>1. /\ rows[s] \in Seq(PointType) /\ Ascending(rows[s])
            /\ Len(rows[s]) > 0 => rows[s][Len(rows[s])].azimuth <= previousAzimuth
        BY DEF IInv, TypeOK, RowsAscend
      <3>2. CASE rows'[s] = rows[s]
        BY <3>1, <3>2
      <3>3. CASE rows'[s] = Append(rows[s], Point(position))
        <4>1. Ascending(Append(rows[s], Point(position)))
          BY <2>1, <3>1, AppendAscends
        <4>2. previousAzimuth <= previousAzimuth
          BY DEF IInv, TypeOK
        <4> QED
          BY <2>1, <3>1, <3>3, <4>1, <4>2
      <3> QED
        BY <1>2, <3>2, <3>3
    <2>3. rows' \in [AllStreams -> Seq(PointType)]
      BY <1>2, <2>2
    <2>4. RowsAscend'
      BY <1>0, <2>2 DEF RowsAscend, Ascending, angles
    <2> QED
      BY <1>2, <2>3, <2>4 DEF IInv, TypeOK
  <1> QED
    BY <1>0, <1>1, <1>2 DEF StoreDistance

LEMMA DecodeBeamInv == ASSUME IInv, DecodeBeam PROVE IInv'
  <1>1. UNCHANGED <<config, sensor, angles>>
    BY DEF DecodeBeam
  <1>2. TypeOK'
    BY <1>1, BeamCursor, BeamSegment, BeamRows DEF IInv, TypeOK, config, sensor, angles
  <1>3. DisabledEmpty'
    BY <1>1, BeamSegment, BeamRows DEF DisabledEmpty, WithSPC, WithCPC, config
  <1> QED
    BY <1>2, <1>3, BeamCursor, BeamSegment, BeamRows DEF IInv

-----------------------------------------------------------------------------
LEMMA InitInv == Init => IInv
  <1> SUFFICES ASSUME Init PROVE IInv
    OBVIOUS
  <1> USE Sizes DEF Init
  <1>1. NoPoint \in PointType
    BY DEF NoPoint, PointType
  <1>2. TypeOK
    BY <1>1, VelodyneAssumption DEF TypeOK
  <1>3. SegmentBounds /\ CursorAligned /\ LoopInv
    BY DEF SegmentBounds, CursorAligned, LoopInv, Components
  <1>4. DisabledEmpty /\ SegmentAscends /\ RowsAscend
    BY DEF DisabledEmpty, SegmentAscends, RowsAscend, Ascending
  <1> QED
    BY <1>2, <1>3, <1>4 DEF IInv

LEMMA NextInv == IInv /\ [Next]_vars => IInv'
  <1> SUFFICES ASSUME IInv, [Next]_vars PROVE IInv'
    OBVIOUS
  <1>1. CASE UNCHANGED vars
    <2>1. UNCHANGED <<config, cursor, sensor, angles, spcVars, cpcVars>>
      BY <1>1 DEF vars
    <2>2. CloudInv' /\ SegmentBounds'
      BY <2>1, CloudsKept, Sizes DEF angles, IInv, TypeOK
    <2>3. TypeOK'
      BY <2>1 DEF IInv, TypeOK, config, cursor, sensor, angles, spcVars, cpcVars
    <2>4. CursorAligned' /\ LoopInv'
      BY <2>1 DEF IInv, CursorAligned, LoopInv, cursor, angles
    <2> QED
      BY <2>2, <2>3, <2>4 DEF IInv, CloudInv
  <1> QED
    BY <1>1, LosePacketInv, ReceivePacketInv, ContinueScanInv, CompleteScanInv,
       EnterBlockInv, SkipBlockInv, ContinueHalfInv, CompleteHalfInv, DecodeBeamInv
    DEF Next

LEMMA Invariance == Spec => []IInv
  BY InitInv, NextInv, PTL DEF Spec

(* Type correctness: in particular every azimuth handed out is in 0..360.  *)
THEOREM TypeCorrect == Spec => []TypeOK
  <1>1. IInv => TypeOK
    BY DEF IInv
  <1> QED
    BY <1>1, Invariance, PTL

(* sendPointCloud and nextString never write outside the malloc'ed segment *)
(* and never leave a gap in it.                                            *)
THEOREM SegmentSafe == Spec => []SegmentBounds
  <1>1. IInv => SegmentBounds
    BY DEF IInv
  <1> QED
    BY <1>1, Invariance, PTL

(* Every way out of a block leaves the read position at the next block.    *)
THEOREM CursorSafe == Spec => []CursorAligned
  <1>1. IInv => CursorAligned
    BY DEF IInv
  <1> QED
    BY <1>1, Invariance, PTL

(* No frame, sent or being collected, spans the 360 degree boundary.       *)
THEOREM AscendSafe == Spec => []AzimuthsAscend
  <1>1. IInv => AzimuthsAscend
    <2> SUFFICES ASSUME IInv PROVE AzimuthsAscend
      OBVIOUS
    <2>1. /\ DOMAIN SegmentPoints = 1 .. pointIndexSPC
          /\ \A i \in 1 .. pointIndexSPC : SegmentPoints[i] = segment[i - 1]
      BY DEF SegmentPoints
    <2>2. pointIndexSPC \in Nat
      BY DEF IInv, TypeOK
    <2>3. Len(SegmentPoints) = pointIndexSPC
      BY <2>1, <2>2
    <2>4. Ascending(SegmentPoints)
      <3> SUFFICES ASSUME NEW i \in 1 .. pointIndexSPC - 1
                   PROVE  SegmentPoints[i].azimuth <= SegmentPoints[i + 1].azimuth
        BY <2>3 DEF Ascending
      <3>1. SegmentPoints[i] = segment[i - 1] /\ SegmentPoints[i + 1] = segment[i]
        BY <2>1, <2>2
      <3> QED
        BY <3>1 DEF IInv, SegmentAscends
    <2> QED
      BY <2>4 DEF AzimuthsAscend, IInv, RowsAscend
  <1> QED
    BY <1>1, Invariance, PTL

-----------------------------------------------------------------------------
(* For every instance: the rows of a compact point cloud are those of the  *)
(* distances counted, although counter, index and streams are advanced at  *)
(* three places and a frame may be cut or become full in the middle of a   *)
(* block.                                                                  *)

(* The position of the next distance in its row.                           *)
Column == IF counter < Sensors THEN counter ELSE counter - Sensors

(* The distances counted are those of the rows written and, while the      *)
(* frame has room, those of the row begun.                                 *)
Counted(index, length, column) ==
    /\ Sensors * length <= index /\ index < Sensors * length + Sensors
    /\ index < MaxPoints => index = Sensors * length + column

RowInv == WithCPC => \A s \in Streams : Counted(pointIndexCPC, Len(rows[s]), Column)

-----------------------------------------------------------------------------
LEMMA RowArithmetic ==
    ASSUME NEW index \in Nat, NEW length \in Nat,
           Sensors * length <= index, index < Sensors * length + Sensors
    PROVE  index \div Sensors = length
  BY Sizes

LEMMA ColumnOfCounter ==
    ASSUME counter \in 0 .. Beams - 1
    PROVE  /\ Column \in 0 .. Sensors - 1
           /\ RowComplete <=> Column = Sensors - 1
  <1> USE Sizes
  <1>1. CASE counter < Sensors
    <2>1. counter % Sensors = counter
      BY <1>1
    <2> QED
      BY <1>1, <2>1 DEF Column, RowComplete
  <1>2. CASE ~(counter < Sensors)
    <2>1. counter % Sensors = counter - Sensors
      BY <1>2
    <2> QED
      BY <1>2, <2>1 DEF Column, RowComplete
  <1> QED
    BY <1>1, <1>2

LEMMA StreamsTyped == Streams \subseteq AllStreams
  BY DEF Streams, AllStreams

-----------------------------------------------------------------------------
(* What a step does to the rows: nothing, it empties them, or it counts a  *)
(* distance.                                                               *)

LEMMA RowsKept ==
    ASSUME RowInv, UNCHANGED <<config, cpcVars>>,
           WithCPC => Column' = Column \/ pointIndexCPC >= MaxPoints,
           WithCPC => pointIndexCPC \in Nat
    PROVE  RowInv'
  <1>1. WithCPC' = WithCPC /\ Streams' = Streams
    BY DEF config, WithCPC, Streams
  <1>2. pointIndexCPC' = pointIndexCPC /\ rows' = rows
    BY DEF cpcVars
  <1> SUFFICES ASSUME WithCPC, NEW s \in Streams
               PROVE  Counted(pointIndexCPC, Len(rows[s]), Column')
    BY <1>1, <1>2 DEF RowInv, Counted
  <1>3. Counted(pointIndexCPC, Len(rows[s]), Column)
    BY DEF RowInv
  <1> QED
    BY <1>3, Sizes DEF Counted

LEMMA RowsEmptied ==
    ASSUME RowInv, UNCHANGED config, NEW azimuth, SendPointCloud(azimuth),
           Column' = 0
    PROVE  RowInv'
  <1>1. WithCPC' = WithCPC /\ Streams' = Streams
    BY DEF config, WithCPC, Streams
  <1> SUFFICES ASSUME WithCPC, NEW s \in Streams
               PROVE  Counted(pointIndexCPC', Len(rows'[s]), Column')
    BY <1>1 DEF RowInv, Counted
  <1>2. pointIndexCPC' = 0 /\ rows' = [t \in AllStreams |-> <<>>]
    BY DEF SendPointCloud, PublishCPC, ResetRows
  <1>3. Len(rows'[s]) = 0
    BY <1>2, StreamsTyped
  <1> QED
    BY <1>2, <1>3, Sizes DEF Counted

(* The column after a beam that did not fill the frame.                    *)
LEMMA NextColumn ==
    ASSUME IInv, DecodeBeam, ~FrameFull
    PROVE  Column' = IF RowComplete THEN 0 ELSE Column + 1
  <1> USE Sizes
  <1>0. counter \in 0 .. Beams - 1
    BY DEF IInv, TypeOK
  <1>1. CASE counter < Beams - 1
    <2>1. counter' = counter + 1
      BY <1>1 DEF DecodeBeam, NextBeam
    <2> QED
      BY <1>0, <1>1, <2>1, ColumnOfCounter DEF Column
  <1>2. CASE ~(counter < Beams - 1)
    <2>1. counter' = 0
      BY <1>2 DEF DecodeBeam, LeaveBlock
    <2> QED
      BY <1>0, <1>2, <2>1, ColumnOfCounter DEF Column
  <1> QED
    BY <1>1, <1>2

LEMMA CountOne ==
    ASSUME NEW index \in Nat, NEW length \in Nat, NEW column \in 0 .. Sensors - 1,
           Counted(index, length, column), index < MaxPoints
    PROVE  /\ column = Sensors - 1 => Counted(index + 1, length + 1, 0)
           /\ column # Sensors - 1 => Counted(index + 1, length, column + 1)
  <1> USE Sizes
  <1> DEFINE before == Sensors * length
  <1>1. before \in Nat /\ Sensors * (length + 1) = before + Sensors
    OBVIOUS
  <1>2. index = before + column
    BY DEF Counted
  <1>3. ASSUME column = Sensors - 1
        PROVE  Counted(index + 1, length + 1, 0)
    <2> HIDE DEF before
    <2>1. index + 1 = before + Sensors
      BY <1>1, <1>2, <1>3
    <2> QED
      BY <1>1, <2>1 DEF Counted
  <1>4. ASSUME column # Sensors - 1
        PROVE  Counted(index + 1, length, column + 1)
    <2>1. index + 1 = before + (column + 1) /\ index + 1 < before + Sensors
          /\ before <= index + 1
      <3> HIDE DEF before
      <3> QED
        BY <1>1, <1>2, <1>4
    <2> QED
      BY <2>1 DEF Counted
  <1> QED
    BY <1>3, <1>4

-----------------------------------------------------------------------------
(* Every action preserves the invariant.                                   *)

LEMMA DecodeBeamRows == ASSUME IInv, RowInv, DecodeBeam PROVE RowInv'
  <1> USE Sizes
  <1>1. UNCHANGED config /\ StoreDistance
    BY DEF DecodeBeam
  <1>2. WithCPC' = WithCPC /\ Streams' = Streams
    BY <1>1 DEF config, WithCPC, Streams
  <1>3. pointIndexCPC \in Nat
    BY DEF IInv, TypeOK
  <1>4. CASE WithCPC /\ pointIndexCPC < MaxPoints
    <2> SUFFICES ASSUME NEW s \in Streams
                 PROVE  Counted(pointIndexCPC', Len(rows'[s]), Column')
      BY <1>2 DEF RowInv, Counted
    <2>1. /\ pointIndexCPC' = pointIndexCPC + 1
          /\ rows'[s] = IF RowComplete THEN Append(rows[s], Point(position)) ELSE rows[s]
      BY <1>1, <1>4, StreamsTyped DEF StoreDistance
    <2>2. rows[s] \in Seq(PointType) /\ Point(position) \in PointType
      BY StreamsTyped, PointTyped DEF IInv, TypeOK
    <2>3. Len(rows[s]) \in Nat
          /\ Len(rows'[s]) = IF RowComplete THEN Len(rows[s]) + 1 ELSE Len(rows[s])
      BY <2>1, <2>2
    <2>4. Column \in 0 .. Sensors - 1 /\ (RowComplete <=> Column = Sensors - 1)
      BY ColumnOfCounter DEF IInv, TypeOK
    <2>5. Counted(pointIndexCPC, Len(rows[s]), Column)
      BY <1>4 DEF RowInv
    <2>6. Counted(pointIndexCPC', Len(rows'[s]),
                  IF RowComplete THEN 0 ELSE Column + 1)
      BY <1>3, <1>4, <2>1, <2>3, <2>4, <2>5, CountOne
    <2>7. FrameFull <=> pointIndexCPC' >= MaxPoints
      BY <1>4 DEF FrameFull
    <2>8. CASE FrameFull
      BY <1>3, <2>1, <2>6, <2>7, <2>8 DEF Counted
    <2>9. CASE ~FrameFull
      BY <2>6, <2>9, NextColumn
    <2> QED
      BY <2>8, <2>9
  <1>5. CASE ~(WithCPC /\ pointIndexCPC < MaxPoints)
    <2>1. UNCHANGED <<config, cpcVars>>
      BY <1>1, <1>5 DEF StoreDistance
    <2> QED
      BY <1>3, <1>5, <2>1, RowsKept
  <1> QED
    BY <1>4, <1>5

LEMMA RowInit == Init => RowInv
  <1> SUFFICES ASSUME Init, NEW s \in Streams
               PROVE  Counted(pointIndexCPC, Len(rows[s]), Column)
    BY DEF RowInv
  <1>1. pointIndexCPC = 0 /\ counter = 0 /\ rows[s] = <<>>
    BY StreamsTyped DEF Init
  <1>2. Len(rows[s]) = 0 /\ Column = 0
    BY <1>1, Sizes DEF Column
  <1> QED
    BY <1>1, <1>2, Sizes DEF Counted

LEMMA RowNext == IInv /\ RowInv /\ [Next]_vars => RowInv'
  <1> SUFFICES ASSUME IInv, RowInv, [Next]_vars PROVE RowInv'
    OBVIOUS
  <1>0. pointIndexCPC \in Nat
    BY DEF IInv, TypeOK
  <1>1. ASSUME UNCHANGED <<config, cpcVars>>, counter' = counter PROVE RowInv'
    <2>1. Column' = Column
      BY <1>1 DEF Column
    <2> QED
      BY <1>0, <1>1, <2>1, RowsKept
  <1>2. CASE LosePacket \/ UNCHANGED vars
    BY <1>1, <1>2 DEF LosePacket, vars, cursor
  <1>3. CASE ReceivePacket \/ EnterBlock
    BY <1>1, <1>3 DEF ReceivePacket, EnterBlock
  <1>4. CASE ContinueScan \/ ContinueHalf
    BY <1>1, <1>4 DEF ContinueScan, ContinueHalf, StartBlock, Interpolate
  <1>5. CASE SkipBlock
    BY <1>0, <1>5, RowsKept, Sizes DEF SkipBlock, HasRoom
  <1>6. CASE CompleteScan
    <2>1. counter' = 0 /\ UNCHANGED config /\ SendPointCloud(BlockAzimuth)
      BY <1>6 DEF CompleteScan, StartBlock, IInv, LoopInv
    <2>2. Column' = 0
      BY <2>1, Sizes DEF Column
    <2> QED
      BY <2>1, <2>2, RowsEmptied
  <1>7. CASE CompleteHalf
    <2>1. /\ counter' = Sensors /\ UNCHANGED config
          /\ SendPointCloud(Normalised(currentAzimuth + Delta))
      BY <1>7 DEF CompleteHalf, Interpolate, IInv, LoopInv
    <2>2. Column' = 0
      BY <2>1, Sizes DEF Column
    <2> QED
      BY <2>1, <2>2, RowsEmptied
  <1> QED
    BY <1>2, <1>3, <1>4, <1>5, <1>6, <1>7, DecodeBeamRows DEF Next

-----------------------------------------------------------------------------
(* A compact point cloud holds exactly one row for every Sensors distances *)
(* counted since the last cut, also when the frame is cut or becomes full  *)
(* in the middle of a block.                                               *)
THEOREM RowsSafe == Spec => []RowAccounting
  <1>1. IInv /\ RowInv => RowAccounting
    <2> SUFFICES ASSUME IInv, RowInv, WithCPC, NEW s \in Streams
                 PROVE  Len(rows[s]) = pointIndexCPC \div Sensors
      BY DEF RowAccounting
    <2>1. pointIndexCPC \in Nat /\ Len(rows[s]) \in Nat
      <3>1. rows[s] \in Seq(PointType)
        BY StreamsTyped DEF IInv, TypeOK
      <3> QED
        BY <3>1 DEF IInv, TypeOK
    <2> QED
      BY <2>1, RowArithmetic DEF RowInv, Counted
  <1>2. Spec => [](IInv /\ RowInv)
    BY InitInv, NextInv, RowInit, RowNext, PTL DEF Spec
  <1> QED
    BY <1>1, <1>2, PTL
=============================================================================
