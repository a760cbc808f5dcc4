------------------------ MODULE PololuAltImu10Device -------------------------
(***************************************************************************)
(* The IMU (Pololualtimu10device.cpp, ProxyIMU.cpp) and its calibration,   *)
(* which outlives the process in a file: the constructor loads it, every   *)
(* reading widens it, tearDown writes it back line by line.  The process   *)
(* may be stopped or lose its power at any moment, and start again.        *)
(*                                                                         *)
(* The three axes of a sensor are treated alike and apart; one is enough.  *)
(* Altitude and temperature are not calibrated and left out.  Readings are *)
(* integers.  A reading that fails is computed from an uninitialized       *)
(* buffer: any of them.  A definition named ...Slip is a plausible mistake *)
(* in the definition after it.                                             *)
(***************************************************************************)
EXTENDS Integers, Sequences

CONSTANTS
    Readings,       \* what six bytes from the bus may mean
    Averages,       \* averages of the gyroscope's first samples
    Grain,          \* a file holds six digits: multiples of Grain
    MaxStarts       \* bound: starts of the process

ASSUME IMUAssumption ==
    /\ Readings \subseteq Int /\ Readings # {}
    /\ Averages \subseteq Int /\ Averages # {}
    /\ Grain \in Nat \ {0} /\ MaxStarts \in Nat

Sensors == {"magnetometer", "accelerometer"}

VARIABLES
    lockCalibration,    \* m_lockCalibration
    pc,
    bounds,             \* m_...MinVal and m_...MaxVal of the sensors
    gyroscopeAvg,
    file,               \* the lines of the calibration file
    fileExists,
    sent,               \* the calibrated reading sent last, a fraction
    starts,
    saved,              \* what the save begun last has to write (history)
    cut,                \* and whether it was cut short (history)
    seen,               \* the readings ever taken of a sensor (history)
    intact              \* no save was cut short, no bus was missing (history)

device == <<bounds, gyroscopeAvg, sent>>
disk == <<file, fileExists>>
history == <<saved, cut, seen, intact>>
vars == <<lockCalibration, pc, device, disk, starts, history>>

Bounds == [min : Int, max : Int]
Exactly(v) == [min |-> v, max |-> v]
Uncalibrated == [s \in Sensors |-> Exactly(0)]
Nothing == [above |-> 0, below |-> 0]   \* no reading sent yet

(* A float is written with six significant digits.                         *)
Rounded(v) == Grain * ((2 * v + Grain) \div (2 * Grain))

(* The lines of the file, in the order they are written.                   *)
Keys == <<"magnetometerMax", "magnetometerMin",
          "accelerometerMax", "accelerometerMin", "gyroscopeAvg">>
ValueOf(i) ==
    CASE i = 1 -> bounds["magnetometer"].max [] i = 2 -> bounds["magnetometer"].min
      [] i = 3 -> bounds["accelerometer"].max [] i = 4 -> bounds["accelerometer"].min
      [] OTHER -> gyroscopeAvg

(* A value whose line is missing keeps the 0 of the constructor.           *)
Line(i) == IF i <= Len(file) THEN file[i] ELSE 0
LoadedBounds ==
    [s \in Sensors |-> IF s = "magnetometer" THEN [max |-> Line(1), min |-> Line(2)]
                                             ELSE [max |-> Line(3), min |-> Line(4)]]

(* A reading widens the bounds, unless they are locked: at one end, the    *)
(* upper one first.                                                        *)
WidenedSlip(b, v) == IF v > b.max THEN [b EXCEPT !.max = v] ELSE b
Widened(b, v) ==
    IF v > b.max THEN [b EXCEPT !.max = v]
    ELSE IF v < b.min THEN [b EXCEPT !.min = v] ELSE b

(* "Centering the value around 0 and somewhat within range of [-1,1]": the *)
(* distance from the centre of the bounds over half their width.           *)
Calibrated(b, v) == [above |-> 2 * v - (b.min + b.max), below |-> b.max - b.min]
-----------------------------------------------------------------------------
Init ==
    /\ lockCalibration \in BOOLEAN
    /\ pc = "off"
    /\ bounds = Uncalibrated /\ gyroscopeAvg = 0 /\ sent = Nothing
    /\ file = <<>> /\ fileExists = FALSE
    /\ starts = 0
    /\ saved = [k \in 1 .. Len(Keys) |-> 0] /\ cut = FALSE
    /\ seen = [s \in Sensors |-> {}]
    /\ intact = TRUE

Start ==
    /\ pc = "off" /\ starts < MaxStarts
    /\ starts' = starts + 1
    /\ sent' = Nothing
    /\ pc' = "running"
    /\ UNCHANGED <<lockCalibration, disk, saved, cut>>

(* The file can be opened: what it has is taken, what it lacks is 0.       *)
StartFromFile ==
    /\ Start /\ fileExists
    /\ bounds' = LoadedBounds /\ gyroscopeAvg' = Line(5)
    /\ UNCHANGED <<seen, intact>>

(* No file: one reading of each sensor, and some of the gyroscope.         *)
FreshCalibrationSlip(v) == [s \in Sensors |-> [min |-> 0, max |-> v[s]]]
FreshCalibration(v) == [s \in Sensors |-> Exactly(v[s])]
StartFresh ==
    /\ Start /\ ~fileExists
    /\ \E v \in [Sensors -> Readings], g \in Averages :
          /\ bounds' = FreshCalibration(v) /\ gyroscopeAvg' = g
          /\ seen' = [s \in Sensors |-> seen[s] \cup {v[s]}]
    /\ UNCHANGED intact

(* The bus cannot be opened: the constructor returns early, m_initialized  *)
(* stays false, and nobody asks for it.                                    *)
StartWithoutBus ==
    /\ Start
    /\ bounds' = Uncalibrated /\ gyroscopeAvg' = 0
    /\ intact' = FALSE
    /\ UNCHANGED seen

-----------------------------------------------------------------------------
(* One pass of body: each sensor is read, calibrated and sent.             *)
SendSlip(s, v) == Calibrated(bounds[s], v)
Send(s, v) == Calibrated(bounds'[s], v)

ReadSensor(s) ==
    \E v \in Readings :
        /\ bounds' = IF lockCalibration THEN bounds
                     ELSE [bounds EXCEPT ![s] = Widened(bounds[s], v)]
        /\ sent' = Send(s, v)
        /\ seen' = [seen EXCEPT ![s] = @ \cup {v}]
        /\ UNCHANGED <<lockCalibration, gyroscopeAvg, disk, starts, saved, cut, intact>>

ReadAccelerometer ==
    pc = "running" /\ ReadSensor("accelerometer") /\ pc' = "magnetometer"

ReadMagnetometer ==
    pc = "magnetometer" /\ ReadSensor("magnetometer") /\ pc' = "running"

Gone ==
    /\ pc' = "off"
    /\ bounds' = Uncalibrated /\ gyroscopeAvg' = 0 /\ sent' = Nothing

(* The module is told to stop; tearDown saves.  Nothing is written when    *)
(* the calibration is locked or the file cannot be opened.                 *)
StopWithoutSaving ==
    /\ pc = "running"
    /\ Gone
    /\ UNCHANGED <<lockCalibration, disk, starts, history>>

LinesLeftSlip == Len(file) <= Len(Keys)
LinesLeft == Len(file) < Len(Keys)

(* The old lines are gone before the first new one is written.             *)
OpenedSlip == file
Opened == <<>>
OpenToSave ==
    /\ pc = "running" /\ ~lockCalibration
    /\ file' = Opened /\ fileExists' = TRUE
    /\ pc' = "saving"
    /\ saved' = [k \in 1 .. Len(Keys) |-> ValueOf(k)] /\ cut' = FALSE
    /\ UNCHANGED <<lockCalibration, device, starts, seen, intact>>

SaveLine ==
    /\ pc = "saving" /\ LinesLeft
    /\ file' = Append(file, Rounded(ValueOf(Len(file) + 1)))
    /\ UNCHANGED <<lockCalibration, pc, device, fileExists, starts, history>>

CloseSaved ==
    /\ pc = "saving" /\ ~LinesLeft
    /\ Gone
    /\ UNCHANGED <<lockCalibration, disk, starts, history>>

(* The power fails, or the process is killed.                              *)
Crash ==
    /\ pc # "off"
    /\ Gone
    /\ cut' = (cut \/ pc = "saving") /\ intact' = (intact /\ pc # "saving")
    /\ UNCHANGED <<lockCalibration, disk, starts, saved, seen>>

Body == ReadAccelerometer \/ ReadMagnetometer

Next ==
    \/ StartFromFile \/ StartFresh \/ StartWithoutBus
    \/ ReadAccelerometer \/ ReadMagnetometer
    \/ StopWithoutSaving \/ OpenToSave \/ SaveLine \/ CloseSaved
    \/ Crash

(* The body runs in every time slice; tearDown runs to its end.            *)
Spec == Init /\ [][Next]_vars /\ WF_vars(Body) /\ WF_vars(SaveLine \/ CloseSaved)

-----------------------------------------------------------------------------
(* The types of the variables.                                             *)
TypeOK ==
    /\ lockCalibration \in BOOLEAN
    /\ pc \in {"off", "running", "magnetometer", "saving"}
    /\ bounds \in [Sensors -> Bounds] /\ gyroscopeAvg \in Int
    /\ file \in Seq(Int) /\ Len(file) <= Len(Keys) /\ fileExists \in BOOLEAN
    /\ sent \in [above : Int, below : Int]
    /\ starts \in 0 .. MaxStarts
    /\ saved \in [1 .. Len(Keys) -> Int] /\ cut \in BOOLEAN
    /\ seen \in [Sensors -> SUBSET Readings] /\ intact \in BOOLEAN

(* While it is not locked, no reading is sent beyond the bounds: where     *)
(* they are apart and not crossed, the fraction lies within [-1,1], also   *)
(* with the bounds of a file that was cut off.  They never cross unless    *)
(* one was.                                                                *)
SentInRange ==
    /\ ~lockCalibration /\ sent.below > 0 =>
          sent.above \in -sent.below .. sent.below
    /\ intact => sent.below >= 0

(* Every bound is a reading of this run or of one before, as it was or     *)
(* rounded, but never further however often it went through the file.      *)
(* Only a save that was cut off, or a start without the bus, adds to that  *)
(* the 0 of the constructor, and nothing else.                             *)
Sources(s) == seen[s] \cup (IF intact THEN {} ELSE {0})
Measured(x, readings) == \E v \in readings : x = v \/ x = Rounded(v)
NothingInvented ==
    pc # "off" => \A s \in Sensors :
        Measured(bounds[s].min, Sources(s)) /\ Measured(bounds[s].max, Sources(s))

(* A start that finds a file finds the values of the save begun last, as   *)
(* far as six digits tell them: all of them if that save came to its end.  *)
(* If it was cut off, its first lines, and 0 for the rest, as nothing is   *)
(* left of the save before.                                                *)
FoundAsSaved ==
    StartFromFile => \E n \in 0 .. Len(Keys) :
        /\ ~cut => n = Len(Keys)
        /\ \A k \in 1 .. Len(Keys) :
              IF k <= n THEN 2 * ValueOf(k)' - 2 * saved[k] \in -Grain .. Grain
                        ELSE ValueOf(k)' = 0
FindsWhatWasSaved == [][FoundAsSaved]_vars

(* Bounds that crossed, because the line of one was lost, uncross by the   *)
(* readings of the next run, if it lasts (and is not locked).              *)
Crossed == \E s \in Sensors : bounds[s].min > bounds[s].max
BoundsHeal == pc # "off" /\ ~lockCalibration /\ Crossed ~> pc = "off" \/ ~Crossed
=============================================================================
