----------------------------- MODULE ScanFrames -----------------------------
(***************************************************************************)
(* What every Velodyne decoder promises ("update the shared point cloud    *)
(* when a complete scan is completed"): the points of one turn of the      *)
(* sensor are collected in the order they were fired, each with the        *)
(* azimuth it was fired at, and published together when the next turn      *)
(* starts.  A point may be left out (no echo, a full buffer), never moved  *)
(* to another turn.                                                        *)
(***************************************************************************)
EXTENDS Integers, Sequences

CONSTANTS
    Turn,       \* azimuth units in one turn of the sensor
    Capacity    \* most points one frame can hold

VARIABLES
    turn,       \* number of the sensor turn being collected
    frame,      \* points collected from that turn, in order
    published   \* points of the frame published last

scanVars == <<turn, frame, published>>

(* A point: where the turning head really was when it fired ("at", counted *)
(* from the start of the run, never wrapping), which beam it was, and the  *)
(* azimuth the decoder attached to it.                                     *)
ScanPoint == [at : Nat, sensor : Nat, azimuth : 0..Turn]

(* The head stands on the boundary of two turns at 0 as well as at Turn;   *)
(* such a firing may end the old turn or start the new one.                *)
InTurn(p, t) == t * Turn <= p.at /\ p.at <= (t + 1) * Turn

TrueAzimuth(p, t) == p.azimuth = p.at - t * Turn

FiredBefore(p, q) == p.at < q.at \/ (p.at = q.at /\ p.sensor < q.sensor)

ScanInit == turn \in Nat /\ frame = <<>> /\ published = <<>>

Collect ==
    /\ Len(frame) < Capacity
    /\ Len(frame') = Len(frame) + 1
    /\ SubSeq(frame', 1, Len(frame)) = frame
    /\ LET p == frame'[Len(frame) + 1]
       IN  /\ p \in ScanPoint
           /\ InTurn(p, turn)
           /\ TrueAzimuth(p, turn)
           /\ frame # <<>> => FiredBefore(frame[Len(frame)], p)
    /\ UNCHANGED <<turn, published>>

Publish ==
    /\ turn' > turn
    /\ published' = frame
    /\ frame' = <<>>

ScanSpec == ScanInit /\ [][Collect \/ Publish]_scanVars
=============================================================================
