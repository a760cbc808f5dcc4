--------------------------- MODULE MCVelodyneHDL ----------------------------
(***************************************************************************)
(* One of the two HDL decoders, chosen at the start and kept.  The 64 uses *)
(* the variables of the 32 for what is the same in both; what it has not   *)
(* (the options, the compact cloud) stays as it is.                        *)
(*                                                                         *)
(* The 32 sensors of the HDL-32E all see something, or every other one     *)
(* does.  The HDL-64E has two sensors in a block, with sizes of its own.   *)
(***************************************************************************)
EXTENDS Velodyne32Decoder

CONSTANTS Pairs, Sensors64, MaxPoints64, EchoPatterns64

VARIABLES decoder, upperBlock

HDL64 == INSTANCE Velodyne64Decoder WITH
    Sensors <- Sensors64, MaxPoints <- MaxPoints64, EchoPatterns <- EchoPatterns64,
    index <- blockID, azimuth <- currentAzimuth, pointIndex <- pointIndexSPC

ASSUME HDL64Assumption == HDL64!Velodyne64Assumption

MCEchoPatterns == {0 .. 31, {n \in 0 .. 31 : n % 2 = 1}}

hdlVars == <<vars, decoder, upperBlock>>

Init32 ==
    /\ decoder = "HDL-32E" /\ Init
    /\ upperBlock = FALSE
Init64 ==
    /\ decoder = "HDL-64E" /\ HDL64!Init
    /\ pointCloudOption = 0 /\ intensityOption = 0
    /\ pointIndexCPC = 0 /\ startAzimuth = 0 /\ parts = NoRows /\ cpc = <<>>

Next32 == decoder = "HDL-32E" /\ Next /\ UNCHANGED <<decoder, upperBlock>>
Next64 == decoder = "HDL-64E" /\ HDL64!Next /\ UNCHANGED <<decoder, config, cpcVars>>

HDLSpec == (Init32 \/ Init64) /\ [][Next32 \/ Next64]_hdlVars

-----------------------------------------------------------------------------
(* What each decoder's module says of its variables, the bounds of the     *)
(* segment of the 64 included; the 32 states those with its types.         *)
HDLTypeOK ==
    /\ decoder = "HDL-32E" => TypeOK
    /\ decoder = "HDL-64E" => HDL64!TypeOK /\ HDL64!SegmentBounds

(* However a block was left, the read position stands at the next field.   *)
HDLCursorAligned ==
    /\ decoder = "HDL-32E" => CursorAligned
    /\ decoder = "HDL-64E" => HDL64!CursorAligned

(* The parts of a compact cloud, which only the 32 has.                    *)
HDLPartsBelongTogether == decoder = "HDL-32E" => PartsBelongTogether
HDLRowsInAnnouncedInterval == decoder = "HDL-32E" => RowsInAnnouncedInterval

(* Either decoder publishes whole turns, each point with the azimuth it    *)
(* was fired at: frame, azimuth and cloud are the same variables in both,  *)
(* and a frame holds what this decoder has room for.                       *)
Scan64 == INSTANCE ScanFrames WITH
    Capacity <- MaxPoints64, turn <- turnCollected,
    frame <- SegmentPoints, published <- spc

HDLCollect ==
    \/ decoder = "HDL-32E" /\ SPCScan!Collect
    \/ decoder = "HDL-64E" /\ Scan64!Collect

HDLRefinesScan ==
    /\ SPCScan!ScanInit
    /\ [][HDLCollect \/ SPCScan!Publish]_(SPCScan!scanVars)
=============================================================================
