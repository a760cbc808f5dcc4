-------------------------- MODULE ProxyAnglesensor ---------------------------
(***************************************************************************)
(* The angle sensor (ProxyAnglesensor.cpp): the smallest and the greatest  *)
(* raw reading are calibrated when it is asked for, or when no file can be *)
(* read, and saved when the module stops; every reading is then sent as    *)
(* its place between the two.  The process may fail, be stopped or lose    *)
(* its power at any moment, and start again.                               *)
(*                                                                         *)
(* The calibration file has one line, which is flushed as a whole: the     *)
(* file is missing, holds the two values, or is torn (without them).  A    *)
(* device file that cannot be opened reads as 0, an empty one throws.  A   *)
(* definition named ...Slip is a plausible mistake in the definition after *)
(* it.                                                                     *)
(***************************************************************************)
EXTENDS Integers, Sequences

CONSTANTS
    Readings,       \* raw readings of the analogue input
    Iterations,     \* calibrationIterations (400)
    MaxStarts       \* bound: starts of the process

AnglesensorAssumption ==
    /\ Readings \subseteq Nat /\ 0 \in Readings
    /\ Iterations \in Nat /\ MaxStarts \in Nat

VARIABLES
    calibrationFile,    \* a file is configured
    setUpCalibration,   \* what the configuration of this start asks for
    pc,
    least, greatest, i, \* the locals of Calibrate
    rawReadingMinMax,   \* m_rawReadingMinMax
    file,
    sent,               \* the angle sent last, a fraction
    starts,
    saved,              \* what was last saved completely (history)
    seen,               \* the readings calibrated with in this run (history)
    intact              \* no save was cut off and no run failed (history)

calibration == <<least, greatest, i>>
history == <<saved, seen, intact>>
vars == <<calibrationFile, setUpCalibration, pc, calibration, rawReadingMinMax,
          file, sent, starts, history>>

Missing == <<>>
Torn == <<"m_rawReadingMinMax">>
MinMaxValues == {<<min, max>> : min, max \in Readings}
Nothing == [above |-> 0, below |-> 0]   \* no angle sent yet

Init ==
    /\ calibrationFile \in BOOLEAN
    /\ setUpCalibration = FALSE
    /\ pc = "off"
    /\ least = 0 /\ greatest = 0 /\ i = 0
    /\ rawReadingMinMax = <<>>
    /\ file = Missing
    /\ sent = Nothing
    /\ starts = 0
    /\ saved = <<>> /\ seen = {} /\ intact = TRUE

-----------------------------------------------------------------------------
Start(asked) ==
    /\ pc = "off" /\ starts < MaxStarts
    /\ starts' = starts + 1
    /\ setUpCalibration' = asked
    /\ UNCHANGED <<calibrationFile, file, sent, saved>>

(* setUpCalibration || LoadCalibration(): LoadCalibration returns true     *)
(* when there is nothing to load, and is not called when it is not needed. *)
MustCalibrateSlip(asked) == ~calibrationFile \/ file = Missing
MustCalibrate(asked) == asked \/ ~calibrationFile \/ file = Missing

(* The first reading of all is the least, the second the greatest.         *)
StartCalibrating ==
    \E asked \in BOOLEAN, first \in Readings, second \in Readings :
        /\ Start(asked)
        /\ MustCalibrate(asked)
        /\ pc' = "calibrating"
        /\ least' = first /\ greatest' = second /\ i' = 0
        /\ seen' = {first, second}
        /\ UNCHANGED <<rawReadingMinMax, intact>>

StartFromFile ==
    \E asked \in BOOLEAN :
        /\ Start(asked)
        /\ ~MustCalibrate(asked) /\ file # Torn
        /\ rawReadingMinMax' = file
        /\ pc' = "running"
        /\ UNCHANGED <<calibration, seen, intact>>

(* A torn file counts as loaded, though it gives no values: the at(0) that *)
(* follows throws.                                                         *)
StartFromTorn ==
    \E asked \in BOOLEAN :
        /\ Start(asked)
        /\ ~MustCalibrate(asked) /\ file = Torn
        /\ pc' = "failed"
        /\ intact' = FALSE
        /\ UNCHANGED <<calibration, rawReadingMinMax, seen>>

-----------------------------------------------------------------------------
Calibrate ==
    /\ pc = "calibrating" /\ i < Iterations
    /\ \E v \in Readings :
          /\ least' = IF v < least THEN v ELSE least
          /\ greatest' = IF v >= least /\ v > greatest THEN v ELSE greatest
          /\ seen' = seen \cup {v}
    /\ i' = i + 1
    /\ UNCHANGED <<calibrationFile, setUpCalibration, pc, rawReadingMinMax, file,
                   sent, starts, saved, intact>>

(* Calibrate ends after its iterations, or when the module is stopped.     *)
EndCalibrationSlip(next) ==
    /\ pc = "calibrating"
    /\ rawReadingMinMax' = IF next = "running" THEN <<least, greatest>> ELSE <<>>
    /\ pc' = next
    /\ UNCHANGED <<calibrationFile, setUpCalibration, calibration, file, sent,
                   starts, history>>
EndCalibration(next) ==
    /\ pc = "calibrating"
    /\ rawReadingMinMax' = rawReadingMinMax \o <<least, greatest>>
    /\ pc' = next
    /\ UNCHANGED <<calibrationFile, setUpCalibration, calibration, file, sent,
                   starts, history>>
FinishCalibration == i = Iterations /\ EndCalibration("running")
StopCalibration == i < Iterations /\ EndCalibration("stopping")

(* The distance of a reading from the middle, over half the width: its     *)
(* place between the angles m_anglesMinMax.                                *)
Angle(v) ==
    LET min == rawReadingMinMax[1]
        max == rawReadingMinMax[2]
    IN  [above |-> 2 * v - (min + max), below |-> max - min]

SendReading ==
    /\ pc = "running"
    /\ \E v \in Readings : sent' = Angle(v)
    /\ UNCHANGED <<calibrationFile, setUpCalibration, pc, calibration,
                   rawReadingMinMax, file, starts, history>>

Stop ==
    /\ pc = "running"
    /\ pc' = "stopping"
    /\ UNCHANGED <<calibrationFile, setUpCalibration, calibration, rawReadingMinMax,
                   file, sent, starts, history>>

(* GetRawReading throws: stoi of an empty line.                            *)
FailReading ==
    /\ pc \in {"calibrating", "running"}
    /\ pc' = "failed"
    /\ intact' = FALSE
    /\ UNCHANGED <<calibrationFile, setUpCalibration, calibration, rawReadingMinMax,
                   file, sent, starts, saved, seen>>

-----------------------------------------------------------------------------
Gone ==
    /\ pc' = "off"
    /\ least' = 0 /\ greatest' = 0 /\ i' = 0
    /\ rawReadingMinMax' = <<>>
    /\ sent' = Nothing
    /\ seen' = {}
    /\ UNCHANGED <<calibrationFile, setUpCalibration, starts>>

(* tearDown: nothing is saved without a file, or when it cannot be opened. *)
StopWithoutSaving ==
    /\ pc = "stopping"
    /\ Gone
    /\ UNCHANGED <<file, saved, intact>>

(* Opening the file to write empties it.  tearDown may be called after a   *)
(* run that failed, too.                                                   *)
OpenToSave ==
    /\ pc \in {"stopping", "failed"} /\ calibrationFile
    /\ file' = Torn
    /\ pc' = "saving"
    /\ UNCHANGED <<calibrationFile, setUpCalibration, calibration, rawReadingMinMax,
                   sent, starts, history>>

SavedValues == SubSeq(rawReadingMinMax, 1, 2)
SaveValues ==
    /\ pc = "saving" /\ rawReadingMinMax # <<>>
    /\ file' = SavedValues
    /\ saved' = SavedValues
    /\ Gone
    /\ UNCHANGED intact

(* at(0) of the empty m_rawReadingMinMax throws.                           *)
FailToSave ==
    /\ pc = "saving" /\ rawReadingMinMax = <<>>
    /\ Gone
    /\ UNCHANGED <<file, saved, intact>>

(* The power fails, the process is killed, or ends after a failure.        *)
Crash ==
    /\ pc # "off"
    /\ Gone
    /\ intact' = (intact /\ pc # "saving")
    /\ UNCHANGED <<file, saved>>

Next ==
    \/ StartCalibrating \/ StartFromFile \/ StartFromTorn
    \/ Calibrate \/ FinishCalibration \/ StopCalibration
    \/ SendReading \/ Stop \/ FailReading
    \/ StopWithoutSaving \/ OpenToSave \/ SaveValues \/ FailToSave
    \/ Crash

Spec == Init /\ [][Next]_vars

-----------------------------------------------------------------------------
(* The types of the variables.                                             *)
TypeOK ==
    /\ calibrationFile \in BOOLEAN /\ setUpCalibration \in BOOLEAN
    /\ pc \in {"off", "calibrating", "running", "stopping", "failed", "saving"}
    /\ least \in Readings /\ greatest \in Readings /\ i \in 0 .. Iterations
    /\ rawReadingMinMax \in MinMaxValues \cup {<<>>}
    /\ file \in MinMaxValues \cup {Missing, Torn}
    /\ sent \in [above : Int, below : Int]
    /\ starts \in 0 .. MaxStarts
    /\ saved \in MinMaxValues \cup {<<>>} /\ seen \subseteq Readings /\ intact \in BOOLEAN

(* A start that takes the values of a file takes those saved last.         *)
FindsWhatWasSaved == [][StartFromFile => rawReadingMinMax' = saved]_vars

(* Whoever asks for a calibration gets one: the values used are readings   *)
(* taken in this run, not those of a file.                                 *)
FreshWhenAsked ==
    setUpCalibration /\ pc \in {"running", "stopping"} =>
        rawReadingMinMax[1] \in seen /\ rawReadingMinMax[2] \in seen

(* A run that was neither cut off while saving nor failed leaves a file    *)
(* behind with which the next one can run.                                 *)
UsableAfterCleanStop == intact /\ pc # "saving" => file # Torn

(* "Finding min and max values of analogue input" (line 110): when the     *)
(* calibration is over, no reading it took lies outside of the two.        *)
CalibrationCoversReadings ==
    [][FinishCalibration =>
          \A v \in seen : rawReadingMinMax'[1] <= v /\ v <= rawReadingMinMax'[2]]_vars
=============================================================================
