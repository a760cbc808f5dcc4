------------------------ MODULE MCCalibration_proofs -------------------------
(***************************************************************************)
(* What is calibrated outlives the process in a file.  For any readings,   *)
(* iterations, corners and clicks, any number of restarts, and wherever    *)
(* the process is killed: what was saved is found again, and what is used  *)
(* are readings, or clicks, of one calibration.                            *)
(*                                                                         *)
(* The IMU's bounds go through the file again and again, and are rounded   *)
(* each time.  That this does not add up is the heart of its invariant: a  *)
(* bound is a reading or a reading rounded once (Measured), as a rounded   *)
(* value is not changed by rounding.  The lines of the file are the first  *)
(* of the save begun last, rounded, and all of them unless it was cut      *)
(* (OnDisk); while it goes on, they are those of the memory (Writing).     *)
(*                                                                         *)
(* The angle sensor's invariant says which values the module has at each   *)
(* stage of its life (AngleHolds), that those of a calibration are         *)
(* readings (AngleMeasured), and what the file is worth (AngleKept): torn  *)
(* only after a failure or in the middle of a save, and otherwise what was *)
(* saved last.                                                             *)
(*                                                                         *)
(* CornersOfOneRound says nothing of a calibration that is going on.  The  *)
(* camera's invariant does: the corners clicked so far follow each other,  *)
(* and the last of them is the last click of all, unless all corners are   *)
(* clicked (RoundSoFar).  That a right click later on does not spoil a     *)
(* round that is finished follows from the order of the clicks.            *)
(***************************************************************************)
EXTENDS MCCalibration, TLAPS, WellFoundedInduction, NaturalsInduction, FiniteSetTheorems

-----------------------------------------------------------------------------
(* The IMU.                                                                *)

Borne(b, readings) ==
    Measured(b.min, readings) /\ Measured(b.max, readings) /\ (intact => b.min <= b.max)

InMemory == pc # "off" => \A s \in Sensors : Borne(bounds[s], Sources(s))

(* The bounds of a save, in the order of its lines.                        *)
SavedBounds ==
    [s \in Sensors |-> IF s = "magnetometer" THEN [max |-> saved[1], min |-> saved[2]]
                                             ELSE [max |-> saved[3], min |-> saved[4]]]

OnDisk ==
    /\ \A l \in 1 .. Len(file) : file[l] = Rounded(saved[l])
    /\ fileExists => \A s \in Sensors : Borne(SavedBounds[s], Sources(s))
    /\ fileExists /\ ~cut /\ pc # "saving" => Len(file) = 5
    /\ cut => ~intact

Writing == pc = "saving" => \A l \in 1 .. 5 : saved[l] = ValueOf(l)

ImuInv == TypeOK /\ InMemory /\ OnDisk /\ Writing /\ SentInRange

-----------------------------------------------------------------------------
(* Rounding.                                                               *)

LEMMA Quotient ==
    ASSUME NEW d \in Nat \ {0}, NEW a \in Int
    PROVE  a \div d \in Int /\ d * (a \div d) <= a /\ a < d * (a \div d) + d
  OBVIOUS

LEMMA QuotientGrows ==
    ASSUME NEW d \in Nat \ {0}, NEW q \in Int, NEW r \in Int, NEW a \in Int, NEW b \in Int,
           a <= b, d * q <= a, b < d * r + d
    PROVE  q <= r
  <1> SUFFICES ASSUME q >= r + 1 PROVE FALSE
    OBVIOUS
  <1>1. d * q >= d * (r + 1)
    OBVIOUS
  <1>2. d * (r + 1) = d * r + d
    OBVIOUS
  <1>3. d * q \in Int /\ d * r \in Int
    OBVIOUS
  <1> QED
    BY <1>1, <1>2, <1>3

(* A value is rounded by less than six digits tell.                        *)
LEMMA RoundedNear ==
    ASSUME NEW v \in Int
    PROVE  /\ Rounded(v) \in Int
           /\ 2 * Rounded(v) <= 2 * v + Grain /\ 2 * v - Grain <= 2 * Rounded(v)
  <1> DEFINE q == (2 * v + Grain) \div (2 * Grain)
  <1>1. Grain \in Nat \ {0} /\ 2 * Grain \in Nat \ {0} /\ 2 * v + Grain \in Int
    BY IMUAssumption
  <1>2. /\ q \in Int /\ (2 * Grain) * q <= 2 * v + Grain
        /\ 2 * v + Grain < (2 * Grain) * q + 2 * Grain
    BY <1>1, Quotient
  <1> HIDE DEF q
  <1>3. Grain * q \in Int /\ (2 * Grain) * q = 2 * (Grain * q)
    BY <1>1, <1>2
  <1>4. Rounded(v) = Grain * q
    BY DEF Rounded, q
  <1> QED
    BY <1>1, <1>2, <1>3, <1>4

(* Rounding keeps the order of two values.                                 *)
LEMMA RoundedGrows ==
    ASSUME NEW v \in Int, NEW w \in Int, v <= w
    PROVE  Rounded(v) <= Rounded(w)
  <1> DEFINE q == (2 * v + Grain) \div (2 * Grain)
             r == (2 * w + Grain) \div (2 * Grain)
  <1>1. /\ Grain \in Nat \ {0} /\ 2 * Grain \in Nat \ {0}
        /\ 2 * v + Grain \in Int /\ 2 * w + Grain \in Int
        /\ 2 * v + Grain <= 2 * w + Grain
    BY IMUAssumption
  <1>2. q \in Int /\ (2 * Grain) * q <= 2 * v + Grain
    BY <1>1, Quotient
  <1>3. r \in Int /\ 2 * w + Grain < (2 * Grain) * r + 2 * Grain
    BY <1>1, Quotient
  <1>4. Rounded(v) = Grain * q /\ Rounded(w) = Grain * r
    BY DEF Rounded
  <1> HIDE DEF q, r
  <1>5. q <= r
    BY <1>1, <1>2, <1>3, QuotientGrows
  <1>6. Grain * q <= Grain * r
    BY <1>1, <1>2, <1>3, <1>5
  <1> QED
    BY <1>4, <1>6

(* What was rounded stays as it is.                                        *)
LEMMA RoundedTwice ==
    ASSUME NEW v \in Int
    PROVE  Rounded(Rounded(v)) = Rounded(v)
  <1> DEFINE q == (2 * v + Grain) \div (2 * Grain)
             n == Grain * q
             r == (2 * n + Grain) \div (2 * Grain)
  <1>1. Grain \in Nat \ {0} /\ 2 * Grain \in Nat \ {0} /\ 2 * v + Grain \in Int
    BY IMUAssumption
  <1>2. q \in Int
    BY <1>1, Quotient
  <1>3. Rounded(v) = n /\ Rounded(n) = Grain * r
    BY DEF Rounded
  <1> HIDE DEF q
  <1>4. n \in Int /\ (2 * Grain) * q = 2 * n
    BY <1>1, <1>2
  <1>5. 2 * n + Grain \in Int
    BY <1>1, <1>4
  <1>6. /\ r \in Int /\ (2 * Grain) * r <= 2 * n + Grain
        /\ 2 * n + Grain < (2 * Grain) * r + 2 * Grain
    BY <1>1, <1>5, Quotient
  <1>7. (2 * Grain) * q <= 2 * n + Grain /\ 2 * n + Grain < (2 * Grain) * q + 2 * Grain
    BY <1>1, <1>4
  <1> HIDE DEF r, n
  <1>8. q <= r /\ r <= q
    BY <1>1, <1>2, <1>5, <1>6, <1>7, QuotientGrows
  <1>9. q = r
    BY <1>2, <1>6, <1>8
  <1> QED
    BY <1>3, <1>9 DEF n

-----------------------------------------------------------------------------
(* Bounds.                                                                 *)

LEMMA MeasuredRounded ==
    ASSUME NEW readings \in SUBSET Int, NEW x, Measured(x, readings)
    PROVE  Measured(Rounded(x), readings)
  BY RoundedTwice DEF Measured

LEMMA MeasuredByMore ==
    ASSUME NEW S, NEW T, S \subseteq T, NEW x, Measured(x, S)
    PROVE  Measured(x, T)
  BY DEF Measured

(* What the values come from: readings, and 0 once something went wrong.   *)
LEMMA SourcesAreIntegers ==
    ASSUME TypeOK, NEW s \in Sensors
    PROVE  Sources(s) \in SUBSET Int /\ (~intact => Measured(0, Sources(s)))
  <1>1. seen[s] \in SUBSET Int
    BY IMUAssumption DEF TypeOK
  <1> QED
    BY <1>1 DEF Sources, Measured

LEMMA MoreSources ==
    ASSUME NEW s \in Sensors, seen[s] \subseteq seen'[s], intact' => intact
    PROVE  Sources(s) \subseteq Sources(s)'
  BY DEF Sources

LEMMA BorneByMore ==
    ASSUME NEW s \in Sensors, seen[s] \subseteq seen'[s], intact' => intact,
           NEW b, Borne(b, Sources(s))
    PROVE  /\ Measured(b.min, Sources(s)') /\ Measured(b.max, Sources(s)')
           /\ intact' => b.min <= b.max
  BY MoreSources, MeasuredByMore DEF Borne

(* The values of a save, and what a file with its first lines gives.       *)
LEMMA SavedTyped ==
    ASSUME TypeOK, NEW s \in Sensors
    PROVE  SavedBounds[s] \in Bounds
  <1>1. saved \in [1 .. 5 -> Int]
    BY DEF TypeOK, Keys
  <1>2. saved[1] \in Int /\ saved[2] \in Int /\ saved[3] \in Int /\ saved[4] \in Int
    BY <1>1
  <1> QED
    BY <1>2 DEF SavedBounds, Bounds

LEMMA LoadedFromSaved ==
    ASSUME TypeOK, OnDisk, NEW s \in Sensors
    PROVE  /\ LoadedBounds[s].min \in {Rounded(SavedBounds[s].min), 0}
           /\ LoadedBounds[s].max \in {Rounded(SavedBounds[s].max), 0}
           /\ Len(file) = 5 =>
                 /\ LoadedBounds[s].min = Rounded(SavedBounds[s].min)
                 /\ LoadedBounds[s].max = Rounded(SavedBounds[s].max)
  <1>1. Len(file) \in Nat
    BY DEF TypeOK
  <1>2. ASSUME NEW l \in 1 .. 4
        PROVE  /\ Line(l) \in {Rounded(saved[l]), 0}
               /\ Len(file) = 5 => Line(l) = Rounded(saved[l])
    BY <1>1 DEF Line, OnDisk
  <1>3. /\ Line(1) \in {Rounded(saved[1]), 0} /\ Line(2) \in {Rounded(saved[2]), 0}
        /\ Line(3) \in {Rounded(saved[3]), 0} /\ Line(4) \in {Rounded(saved[4]), 0}
    BY <1>2
  <1>4. Len(file) = 5 =>
           /\ Line(1) = Rounded(saved[1]) /\ Line(2) = Rounded(saved[2])
           /\ Line(3) = Rounded(saved[3]) /\ Line(4) = Rounded(saved[4])
    BY <1>2
  <1> QED
    BY <1>3, <1>4 DEF LoadedBounds, SavedBounds

(* A reading widens bounds to bounds that hold it.                         *)
LEMMA WidenedHolds ==
    ASSUME NEW b \in Bounds, NEW v \in Int
    PROVE  /\ Widened(b, v) \in Bounds
           /\ Widened(b, v).min = b.min \/ Widened(b, v).min = v
           /\ Widened(b, v).max = b.max \/ Widened(b, v).max = v
           /\ b.min <= b.max => /\ Widened(b, v).min <= v /\ v <= Widened(b, v).max
           /\ Widened(b, v).max > Widened(b, v).min =>
                 Widened(b, v).min <= v /\ v <= Widened(b, v).max
  <1>1. b = [min |-> b.min, max |-> b.max] /\ b.min \in Int /\ b.max \in Int
    BY DEF Bounds
  <1>2. CASE v > b.max
    <2>1. Widened(b, v) = [min |-> b.min, max |-> v]
      BY <1>1, <1>2 DEF Widened
    <2> QED
      BY <1>1, <1>2, <2>1 DEF Bounds
  <1>3. CASE ~(v > b.max) /\ v < b.min
    <2>1. Widened(b, v) = [min |-> v, max |-> b.max]
      BY <1>1, <1>3 DEF Widened
    <2> QED
      BY <1>1, <1>3, <2>1 DEF Bounds
  <1>4. CASE ~(v > b.max) /\ ~(v < b.min)
    <2>1. Widened(b, v) = b
      BY <1>4 DEF Widened
    <2> QED
      BY <1>1, <1>4, <2>1
  <1> QED
    BY <1>2, <1>3, <1>4

(* Within its bounds, a reading is sent as a fraction of [-1,1].           *)
LEMMA CalibratedInRange ==
    ASSUME NEW b \in Bounds, NEW v \in Int, b.min <= v, v <= b.max
    PROVE  LET c == Calibrated(b, v) IN c.above \in -c.below .. c.below
  <1>1. b.min \in Int /\ b.max \in Int
    BY DEF Bounds
  <1> QED
    BY <1>1 DEF Calibrated

LEMMA KeysOfFile == Len(Keys) = 5
  BY DEF Keys

LEMMA LinesLoaded ==
    ASSUME TypeOK
    PROVE  LoadedBounds \in [Sensors -> Bounds] /\ \A l \in Nat \ {0} : Line(l) \in Int
  <1>1. ASSUME NEW l \in Nat \ {0} PROVE Line(l) \in Int
    BY DEF TypeOK, Line
  <1>2. Line(1) \in Int /\ Line(2) \in Int /\ Line(3) \in Int /\ Line(4) \in Int
    BY <1>1
  <1> QED
    BY <1>1, <1>2 DEF LoadedBounds, Bounds

LEMMA ValuesSaved ==
    ASSUME TypeOK, NEW l \in Nat
    PROVE  ValueOf(l) \in Int
  <1>1. /\ bounds["magnetometer"] \in Bounds /\ bounds["accelerometer"] \in Bounds
        /\ gyroscopeAvg \in Int
    BY DEF TypeOK, Sensors
  <1> QED
    BY <1>1 DEF ValueOf, Bounds

-----------------------------------------------------------------------------
LEMMA ImuInitially == ASSUME Init PROVE ImuInv
  <1>1. TypeOK
    <2>1. Uncalibrated \in [Sensors -> Bounds]
      BY DEF Uncalibrated, Exactly, Bounds
    <2>2. Nothing \in [above : Int, below : Int]
      BY DEF Nothing
    <2>3. 0 \in 0 .. MaxStarts
      BY IMUAssumption
    <2>4. <<>> \in Seq(Int) /\ Len(<<>>) <= Len(Keys)
      BY KeysOfFile
    <2>5. [s \in Sensors |-> {}] \in [Sensors -> SUBSET Readings]
      OBVIOUS
    <2>a. [k \in 1 .. Len(Keys) |-> 0] \in [1 .. Len(Keys) -> Int]
      OBVIOUS
    <2>6. bounds \in [Sensors -> Bounds] /\ saved \in [1 .. Len(Keys) -> Int]
      BY <2>1, <2>a DEF Init
    <2>7. file \in Seq(Int) /\ Len(file) <= Len(Keys)
      BY <2>4 DEF Init
    <2>8. seen \in [Sensors -> SUBSET Readings]
      BY <2>5 DEF Init
    <2>9. /\ sent \in [above : Int, below : Int] /\ gyroscopeAvg \in Int
          /\ starts \in 0 .. MaxStarts
      BY <2>2, <2>3 DEF Init
    <2>10. /\ fileExists \in BOOLEAN /\ intact \in BOOLEAN /\ cut \in BOOLEAN
           /\ lockCalibration \in BOOLEAN
           /\ pc \in {"off", "running", "magnetometer", "saving"}
      BY DEF Init
    <2> QED
      BY <2>6, <2>7, <2>8, <2>9, <2>10 DEF TypeOK
  <1>2. InMemory /\ OnDisk /\ Writing
    BY DEF Init, InMemory, OnDisk, Writing
  <1>3. SentInRange
    BY DEF Init, SentInRange, Nothing
  <1> QED
    BY <1>1, <1>2, <1>3 DEF ImuInv

-----------------------------------------------------------------------------
(* Steps that leave the memory of the process.                             *)

LEMMA UncalibratedTyped ==
    Uncalibrated \in [Sensors -> Bounds] /\ Nothing \in [above : Int, below : Int]
  BY DEF Uncalibrated, Exactly, Bounds, Nothing

LEMMA NothingInRange ==
    ASSUME sent' = Nothing
    PROVE  SentInRange'
  BY DEF SentInRange, Nothing

(* The file stays as it is while the history goes on.                      *)
LEMMA SameDisk ==
    ASSUME ImuInv, UNCHANGED <<file, fileExists, saved>>,
           \A s \in Sensors : seen[s] \subseteq seen'[s], intact' => intact,
           cut' \in BOOLEAN, cut' => ~intact',
           fileExists /\ ~cut' /\ pc' # "saving" => ~cut /\ pc # "saving"
    PROVE  OnDisk'
  <1>1. SavedBounds' = SavedBounds
    BY DEF SavedBounds
  <1>2. OnDisk
    BY DEF ImuInv
  <1>3. ASSUME fileExists, NEW s \in Sensors
        PROVE  /\ Measured(SavedBounds[s].min, Sources(s)')
               /\ Measured(SavedBounds[s].max, Sources(s)')
               /\ intact' => SavedBounds[s].min <= SavedBounds[s].max
    <2>1. Borne(SavedBounds[s], Sources(s))
      BY <1>2, <1>3 DEF OnDisk
    <2>2. seen[s] \subseteq seen'[s]
      OBVIOUS
    <2> QED
      BY <2>1, <2>2, BorneByMore
  <1> QED
    BY <1>1, <1>2, <1>3 DEF OnDisk, Borne

LEMMA GoneKeeps ==
    ASSUME ImuInv, Gone, UNCHANGED <<lockCalibration, file, fileExists, starts, seen>>,
           intact' \in BOOLEAN, cut' \in BOOLEAN, saved' = saved
    PROVE  TypeOK' /\ InMemory' /\ Writing' /\ SentInRange'
  <1>1. pc' = "off" /\ bounds' = Uncalibrated /\ gyroscopeAvg' = 0 /\ sent' = Nothing
    BY DEF Gone
  <1>2. TypeOK'
    BY <1>1, UncalibratedTyped DEF ImuInv, TypeOK
  <1>3. InMemory' /\ Writing'
    BY <1>1 DEF InMemory, Writing
  <1> QED
    BY <1>1, <1>2, <1>3, NothingInRange

LEMMA StopKeeps == ASSUME ImuInv, StopWithoutSaving \/ CloseSaved PROVE ImuInv'
  <1>1. /\ Gone /\ pc \in {"running", "saving"}
        /\ UNCHANGED <<lockCalibration, file, fileExists, starts, saved, cut, seen, intact>>
    BY DEF StopWithoutSaving, CloseSaved, disk, history
  <1>2. TypeOK' /\ InMemory' /\ Writing' /\ SentInRange'
    BY <1>1, GoneKeeps DEF ImuInv, TypeOK
  <1>3. OnDisk'
    <2>1. CASE StopWithoutSaving
      <3>1. pc # "saving" /\ cut \in BOOLEAN /\ (cut => ~intact)
        BY <2>1 DEF StopWithoutSaving, ImuInv, TypeOK, OnDisk
      <3> QED
        BY <1>1, <3>1, SameDisk
    <2>2. CASE CloseSaved
      <3>1. Len(file) = 5
        <4>1. PICK n \in Nat : n = Len(file)
          BY DEF ImuInv, TypeOK
        <4>2. n <= Len(Keys) /\ ~(n < Len(Keys))
          BY <2>2, <4>1 DEF CloseSaved, LinesLeft, ImuInv, TypeOK
        <4>3. n <= 5 /\ ~(n < 5)
          BY <4>2, KeysOfFile
        <4> QED
          BY <4>1, <4>3
      <3>2. SavedBounds' = SavedBounds /\ \A s \in Sensors : Sources(s)' = Sources(s)
        BY <1>1 DEF SavedBounds, Sources
      <3> QED
        BY <1>1, <3>1, <3>2 DEF ImuInv, OnDisk, Borne
    <2> QED
      BY <2>1, <2>2
  <1> QED
    BY <1>2, <1>3 DEF ImuInv

LEMMA CrashKeeps == ASSUME ImuInv, Crash PROVE ImuInv'
  <1>1. /\ Gone /\ intact' = (intact /\ pc # "saving") /\ cut' = (cut \/ pc = "saving")
        /\ UNCHANGED <<lockCalibration, file, fileExists, starts, saved, seen>>
    BY DEF Crash, disk
  <1>2. cut \in BOOLEAN /\ (cut => ~intact)
    BY DEF ImuInv, TypeOK, OnDisk
  <1>3. /\ intact' \in BOOLEAN /\ (intact' => intact)
        /\ cut' \in BOOLEAN /\ (cut' => ~intact') /\ (~cut' => ~cut /\ pc # "saving")
    BY <1>1, <1>2
  <1>4. TypeOK' /\ InMemory' /\ Writing' /\ SentInRange'
    BY <1>1, <1>3, GoneKeeps DEF ImuInv, TypeOK
  <1>5. OnDisk'
    BY <1>1, <1>3, SameDisk
  <1> QED
    BY <1>4, <1>5 DEF ImuInv

-----------------------------------------------------------------------------
(* Saving.                                                                 *)

LEMMA OpenKeeps == ASSUME ImuInv, OpenToSave PROVE ImuInv'
  <1>1. /\ pc = "running" /\ pc' = "saving" /\ file' = <<>> /\ fileExists' = TRUE
        /\ saved' = [k \in 1 .. Len(Keys) |-> ValueOf(k)] /\ cut' = FALSE
        /\ UNCHANGED <<lockCalibration, bounds, gyroscopeAvg, sent, starts, seen, intact>>
    BY DEF OpenToSave, Opened, device
  <1>2. \A l \in 1 .. 5 : saved'[l] = ValueOf(l)
    BY <1>1, KeysOfFile
  <1>3. saved' \in [1 .. Len(Keys) -> Int]
    <2>1. \A k \in 1 .. Len(Keys) : ValueOf(k) \in Int
      BY ValuesSaved, KeysOfFile DEF ImuInv
    <2> QED
      BY <1>1, <2>1
  <1>4. TypeOK'
    <2>1. file' \in Seq(Int) /\ Len(file') <= Len(Keys)
      BY <1>1, KeysOfFile
    <2> QED
      BY <1>1, <1>3, <2>1 DEF ImuInv, TypeOK
  <1>5. ASSUME NEW s \in Sensors
        PROVE  /\ SavedBounds'[s].min = bounds[s].min /\ SavedBounds'[s].max = bounds[s].max
               /\ Sources(s)' = Sources(s) /\ Borne(bounds[s], Sources(s))
    <2>1. /\ saved'[1] = bounds["magnetometer"].max /\ saved'[2] = bounds["magnetometer"].min
          /\ saved'[3] = bounds["accelerometer"].max /\ saved'[4] = bounds["accelerometer"].min
      BY <1>2 DEF ValueOf
    <2>2. SavedBounds'[s].min = bounds[s].min /\ SavedBounds'[s].max = bounds[s].max
      BY <2>1 DEF SavedBounds, Sensors
    <2>3. Sources(s)' = Sources(s)
      BY <1>1 DEF Sources
    <2>4. Borne(bounds[s], Sources(s))
      BY <1>1 DEF ImuInv, InMemory
    <2> QED
      BY <2>2, <2>3, <2>4
  <1>6. OnDisk'
    <2>1. Len(file') = 0
      BY <1>1
    <2> QED
      BY <1>1, <1>5, <2>1 DEF OnDisk, Borne
  <1>7. InMemory'
    BY <1>1, <1>5 DEF InMemory, Borne
  <1>8. Writing'
    <2>1. ASSUME NEW l PROVE ValueOf(l)' = ValueOf(l)
      BY <1>1 DEF ValueOf
    <2> QED
      BY <1>2, <2>1 DEF Writing
  <1>9. SentInRange'
    BY <1>1 DEF ImuInv, SentInRange
  <1> QED
    BY <1>4, <1>6, <1>7, <1>8, <1>9 DEF ImuInv

LEMMA SaveKeeps == ASSUME ImuInv, SaveLine PROVE ImuInv'
  <1>1. /\ pc = "saving" /\ pc' = "saving" /\ Len(file) < Len(Keys)
        /\ file' = Append(file, Rounded(ValueOf(Len(file) + 1)))
        /\ UNCHANGED <<lockCalibration, bounds, gyroscopeAvg, sent, fileExists, starts,
                       saved, cut, seen, intact>>
    BY DEF SaveLine, LinesLeft, device, history
  <1>2. file \in Seq(Int) /\ Len(file) \in Nat
    BY DEF ImuInv, TypeOK
  <1>3. Rounded(ValueOf(Len(file) + 1)) \in Int
    BY <1>2, ValuesSaved, RoundedNear DEF ImuInv
  <1>4. /\ file' \in Seq(Int) /\ Len(file') = Len(file) + 1
        /\ file'[Len(file) + 1] = Rounded(ValueOf(Len(file) + 1))
        /\ \A l \in 1 .. Len(file) : file'[l] = file[l]
    BY <1>1, <1>2, <1>3
  <1>5. TypeOK'
    BY <1>1, <1>2, <1>4, KeysOfFile DEF ImuInv, TypeOK
  <1>6. Writing'
    <2>1. ASSUME NEW l PROVE ValueOf(l)' = ValueOf(l)
      BY <1>1 DEF ValueOf
    <2> QED
      BY <1>1, <2>1 DEF ImuInv, Writing
  <1>7. \A s \in Sensors : Sources(s)' = Sources(s)
    BY <1>1 DEF Sources
  <1>8. InMemory'
    BY <1>1, <1>7 DEF ImuInv, InMemory, Borne
  <1>9. OnDisk'
    <2>1. Len(file) + 1 \in 1 .. 5
      BY <1>1, <1>2, KeysOfFile
    <2>2. saved[Len(file) + 1] = ValueOf(Len(file) + 1)
      BY <1>1, <2>1 DEF ImuInv, Writing
    <2>3. ASSUME NEW l \in 1 .. Len(file') PROVE file'[l] = Rounded(saved[l])
      <3>1. CASE l \in 1 .. Len(file)
        BY <1>4, <3>1 DEF ImuInv, OnDisk
      <3>2. CASE l = Len(file) + 1
        BY <1>4, <2>2, <3>2
      <3> QED
        BY <1>2, <1>4, <3>1, <3>2
    <2>4. SavedBounds' = SavedBounds
      BY <1>1 DEF SavedBounds
    <2> QED
      BY <1>1, <1>7, <2>3, <2>4 DEF ImuInv, OnDisk, Borne
  <1>10. SentInRange'
    BY <1>1 DEF ImuInv, SentInRange
  <1> QED
    BY <1>5, <1>6, <1>8, <1>9, <1>10 DEF ImuInv

-----------------------------------------------------------------------------
(* Starting.                                                               *)

LEMMA StartTyped ==
    ASSUME ImuInv, Start, bounds' \in [Sensors -> Bounds], gyroscopeAvg' \in Int,
           seen' \in [Sensors -> SUBSET Readings], intact' \in BOOLEAN
    PROVE  TypeOK' /\ Writing' /\ SentInRange'
  <1>1. /\ starts < MaxStarts /\ starts' = starts + 1 /\ sent' = Nothing /\ pc' = "running"
        /\ UNCHANGED <<lockCalibration, file, fileExists, saved, cut>>
    BY DEF Start, disk
  <1>2. starts' \in 0 .. MaxStarts
    <2>1. starts \in 0 .. MaxStarts /\ MaxStarts \in Nat
      BY IMUAssumption DEF ImuInv, TypeOK
    <2> QED
      BY <1>1, <2>1
  <1>3. TypeOK'
    BY <1>1, <1>2, UncalibratedTyped DEF ImuInv, TypeOK
  <1>4. Writing'
    BY <1>1 DEF Writing
  <1> QED
    BY <1>1, <1>3, <1>4, NothingInRange

LEMMA StartFromFileKeeps == ASSUME ImuInv, StartFromFile PROVE ImuInv'
  <1>1. /\ Start /\ pc = "off" /\ pc' = "running" /\ fileExists
        /\ bounds' = LoadedBounds /\ gyroscopeAvg' = Line(5)
        /\ UNCHANGED <<file, fileExists, saved, cut, seen, intact>>
    BY DEF StartFromFile, Start, disk
  <1>2. TypeOK' /\ Writing' /\ SentInRange'
    BY <1>1, StartTyped, LinesLoaded DEF ImuInv, TypeOK
  <1>3. OnDisk'
    BY <1>1, SameDisk DEF ImuInv, TypeOK, OnDisk
  <1>4. InMemory'
    <2>1. ASSUME NEW s \in Sensors PROVE Borne(LoadedBounds[s], Sources(s))
      <3>1. Borne(SavedBounds[s], Sources(s))
        BY <1>1 DEF ImuInv, OnDisk
      <3>2. /\ Sources(s) \in SUBSET Int /\ (~intact => Measured(0, Sources(s)))
            /\ SavedBounds[s] \in Bounds
        BY SourcesAreIntegers, SavedTyped DEF ImuInv
      <3>3. /\ LoadedBounds[s].min \in {Rounded(SavedBounds[s].min), 0}
            /\ LoadedBounds[s].max \in {Rounded(SavedBounds[s].max), 0}
            /\ Len(file) = 5 => /\ LoadedBounds[s].min = Rounded(SavedBounds[s].min)
                               /\ LoadedBounds[s].max = Rounded(SavedBounds[s].max)
        BY LoadedFromSaved DEF ImuInv
      <3>4. intact => Len(file) = 5
        BY <1>1 DEF ImuInv, OnDisk
      <3>5. /\ Measured(Rounded(SavedBounds[s].min), Sources(s))
            /\ Measured(Rounded(SavedBounds[s].max), Sources(s))
        BY <3>1, <3>2, MeasuredRounded DEF Borne
      <3>6. intact => Rounded(SavedBounds[s].min) <= Rounded(SavedBounds[s].max)
        BY <3>1, <3>2, RoundedGrows DEF Borne, Bounds
      <3> QED
        BY <3>2, <3>3, <3>4, <3>5, <3>6 DEF Borne
    <2>2. \A s \in Sensors : Sources(s)' = Sources(s)
      BY <1>1 DEF Sources
    <2> QED
      BY <1>1, <2>1, <2>2 DEF InMemory, Borne
  <1> QED
    BY <1>2, <1>3, <1>4 DEF ImuInv

LEMMA StartFreshKeeps == ASSUME ImuInv, StartFresh PROVE ImuInv'
  <1>1. PICK v \in [Sensors -> Readings], g \in Averages :
            /\ bounds' = FreshCalibration(v) /\ gyroscopeAvg' = g
            /\ seen' = [s \in Sensors |-> seen[s] \cup {v[s]}]
    BY DEF StartFresh
  <1>2. /\ Start /\ ~fileExists /\ pc = "off"
        /\ UNCHANGED <<file, fileExists, saved, cut, intact>>
    BY DEF StartFresh, Start, disk
  <1>3. seen \in [Sensors -> SUBSET Readings] /\ Readings \subseteq Int /\ Averages \subseteq Int
    BY IMUAssumption DEF ImuInv, TypeOK
  <1>4. \A s \in Sensors : v[s] \in Readings /\ v[s] \in Int
    BY <1>3
  <1>5. bounds' \in [Sensors -> Bounds]
    BY <1>1, <1>4 DEF FreshCalibration, Exactly, Bounds
  <1>6. seen' \in [Sensors -> SUBSET Readings] /\ gyroscopeAvg' \in Int
    BY <1>1, <1>3, <1>4
  <1>7. TypeOK' /\ Writing' /\ SentInRange'
    BY <1>2, <1>5, <1>6, StartTyped DEF ImuInv, TypeOK
  <1>8. OnDisk'
    BY <1>2 DEF ImuInv, OnDisk
  <1>9. InMemory'
    <2>1. ASSUME NEW s \in Sensors PROVE Borne(bounds[s], Sources(s))'
      <3>1. bounds'[s].min = v[s] /\ bounds'[s].max = v[s] /\ v[s] \in Sources(s)'
        BY <1>1 DEF FreshCalibration, Exactly, Sources
      <3> QED
        BY <1>4, <3>1 DEF Borne, Measured
    <2> QED
      BY <2>1 DEF InMemory
  <1> QED
    BY <1>7, <1>8, <1>9 DEF ImuInv

LEMMA StartWithoutBusKeeps == ASSUME ImuInv, StartWithoutBus PROVE ImuInv'
  <1>1. /\ Start /\ bounds' = Uncalibrated /\ gyroscopeAvg' = 0 /\ pc = "off"
        /\ ~intact' /\ intact' \in BOOLEAN
        /\ UNCHANGED <<file, fileExists, saved, cut, seen>>
    BY DEF StartWithoutBus, Start, disk
  <1>2. TypeOK' /\ Writing' /\ SentInRange'
    BY <1>1, UncalibratedTyped, StartTyped DEF ImuInv, TypeOK
  <1>3. OnDisk'
    BY <1>1, SameDisk DEF ImuInv, TypeOK
  <1>4. ASSUME NEW s \in Sensors PROVE Borne(bounds[s], Sources(s))'
    BY <1>1 DEF Uncalibrated, Exactly, Borne, Sources, Measured
  <1>5. InMemory'
    BY <1>4 DEF InMemory
  <1> QED
    BY <1>2, <1>3, <1>5 DEF ImuInv

-----------------------------------------------------------------------------
(* Reading.                                                                *)

LEMMA ReadKeeps ==
    ASSUME ImuInv, NEW s \in Sensors, ReadSensor(s),
           pc \in {"running", "magnetometer"}, pc' \in {"running", "magnetometer"}
    PROVE  ImuInv'
  <1>1. PICK v \in Readings :
            /\ bounds' = IF lockCalibration THEN bounds
                         ELSE [bounds EXCEPT ![s] = Widened(bounds[s], v)]
            /\ sent' = Calibrated(bounds'[s], v)
            /\ seen' = [seen EXCEPT ![s] = @ \cup {v}]
    BY DEF ReadSensor, Send
  <1>2. UNCHANGED <<lockCalibration, gyroscopeAvg, file, fileExists, starts, saved, cut, intact>>
    BY DEF ReadSensor, disk
  <1>3. /\ bounds \in [Sensors -> Bounds] /\ seen \in [Sensors -> SUBSET Readings]
        /\ Readings \subseteq Int /\ v \in Int
    BY IMUAssumption DEF ImuInv, TypeOK
  <1> DEFINE w == Widened(bounds[s], v)
  <1>4. /\ w \in Bounds /\ (w.min = bounds[s].min \/ w.min = v)
        /\ (w.max = bounds[s].max \/ w.max = v)
        /\ bounds[s].min <= bounds[s].max => w.min <= v /\ v <= w.max
        /\ w.max > w.min => w.min <= v /\ v <= w.max
    BY <1>3, WidenedHolds
  <1> HIDE DEF w
  <1>5. \A r \in Sensors : bounds'[r] = IF r = s /\ ~lockCalibration THEN w ELSE bounds[r]
    BY <1>1, <1>3 DEF w
  <1>6. \A r \in Sensors : seen[r] \subseteq seen'[r] /\ (r = s => v \in seen'[r])
    BY <1>1, <1>3
  <1>7. bounds' \in [Sensors -> Bounds] /\ seen' \in [Sensors -> SUBSET Readings]
    BY <1>1, <1>3, <1>4 DEF w
  <1>8. \A r \in Sensors : bounds'[r] \in Bounds
    BY <1>7
  <1>9. bounds'[s].min \in Int /\ bounds'[s].max \in Int
    BY <1>8 DEF Bounds
  <1>10. sent' \in [above : Int, below : Int]
    BY <1>1, <1>3, <1>9 DEF Calibrated
  <1>11. TypeOK'
    BY <1>2, <1>7, <1>10 DEF ImuInv, TypeOK
  <1>12. ASSUME NEW r \in Sensors PROVE Borne(bounds[r], Sources(r))'
    <2>1. Borne(bounds[r], Sources(r))
      BY DEF ImuInv, InMemory
    <2>2. /\ Measured(bounds[r].min, Sources(r)') /\ Measured(bounds[r].max, Sources(r)')
          /\ intact' => bounds[r].min <= bounds[r].max
      BY <1>2, <1>6, <2>1, BorneByMore
    <2>3. CASE r = s /\ ~lockCalibration
      <3>1. bounds'[r] = w
        BY <1>5, <2>3
      <3>2. Measured(v, Sources(r)')
        BY <1>6, <2>3 DEF Measured, Sources
      <3>3. intact' => w.min <= w.max
        <4>1. ASSUME intact' PROVE w.min <= v /\ v <= w.max
          BY <1>4, <2>2, <2>3, <4>1
        <4> QED
          BY <1>3, <1>4, <4>1 DEF Bounds
      <3>4. Measured(w.min, Sources(r)') /\ Measured(w.max, Sources(r)')
        BY <1>4, <2>2, <2>3, <3>2
      <3> QED
        BY <3>1, <3>3, <3>4 DEF Borne
    <2>4. CASE ~(r = s /\ ~lockCalibration)
      <3>1. bounds'[r] = bounds[r]
        BY <1>5, <2>4
      <3> QED
        BY <2>2, <3>1 DEF Borne
    <2> QED
      BY <2>3, <2>4
  <1>13. InMemory'
    BY <1>12 DEF InMemory
  <1>14. OnDisk'
    BY <1>2, <1>6, SameDisk DEF ImuInv, TypeOK, OnDisk
  <1>15. SentInRange'
    <2>1. sent'.below = bounds'[s].max - bounds'[s].min
      BY <1>1 DEF Calibrated
    <2>2. ASSUME ~lockCalibration, sent'.below > 0
          PROVE  sent'.above \in -sent'.below .. sent'.below
      <3>1. bounds'[s] = w
        BY <1>5, <2>2
      <3>2. w.min <= v /\ v <= w.max
        BY <1>4, <1>9, <2>1, <2>2, <3>1
      <3> QED
        BY <1>1, <1>3, <1>4, <3>1, <3>2, CalibratedInRange
    <2>3. ASSUME intact PROVE sent'.below >= 0
      <3>1. bounds'[s].min <= bounds'[s].max
        BY <1>2, <1>12, <2>3 DEF Borne
      <3> QED
        BY <1>9, <2>1, <3>1
    <2> QED
      BY <1>2, <2>2, <2>3 DEF SentInRange
  <1>16. Writing'
    BY DEF Writing
  <1> QED
    BY <1>11, <1>13, <1>14, <1>15, <1>16 DEF ImuInv

LEMMA ImuStep == ASSUME ImuInv, [Next]_vars PROVE ImuInv'
  <1>1. CASE StartFromFile
    BY <1>1, StartFromFileKeeps
  <1>2. CASE StartFresh
    BY <1>2, StartFreshKeeps
  <1>3. CASE StartWithoutBus
    BY <1>3, StartWithoutBusKeeps
  <1>4. CASE ReadAccelerometer \/ ReadMagnetometer
    BY <1>4, ReadKeeps DEF ReadAccelerometer, ReadMagnetometer, Sensors
  <1>5. CASE StopWithoutSaving \/ CloseSaved
    BY <1>5, StopKeeps
  <1>6. CASE OpenToSave
    BY <1>6, OpenKeeps
  <1>7. CASE SaveLine
    BY <1>7, SaveKeeps
  <1>9. CASE Crash
    BY <1>9, CrashKeeps
  <1>10. CASE UNCHANGED vars
    <2>1. UNCHANGED <<lockCalibration, pc, bounds, gyroscopeAvg, sent, file, fileExists,
                      starts, saved, cut, seen, intact>>
      BY <1>10 DEF vars, device, disk, history
    <2>2. TypeOK' /\ SentInRange'
      BY <2>1 DEF ImuInv, TypeOK, SentInRange
    <2>3. SavedBounds' = SavedBounds /\ \A s \in Sensors : Sources(s)' = Sources(s)
      BY <2>1 DEF SavedBounds, Sources
    <2>4. OnDisk' /\ InMemory'
      BY <2>1, <2>3 DEF ImuInv, OnDisk, InMemory, Borne
    <2>5. ASSUME NEW l PROVE ValueOf(l)' = ValueOf(l)
      BY <2>1 DEF ValueOf
    <2>6. Writing'
      BY <2>1, <2>5 DEF ImuInv, Writing
    <2> QED
      BY <2>2, <2>4, <2>6 DEF ImuInv
  <1> QED
    BY <1>1, <1>2, <1>3, <1>4, <1>5, <1>6, <1>7, <1>9, <1>10 DEF Next

(* The invariant says of the bounds what is claimed, and of their order.   *)
LEMMA BoundsOfReadings == ImuInv => NothingInvented
  BY DEF ImuInv, InMemory, Borne, NothingInvented

(* The first lines of the save begun last are loaded, rounded, and nothing *)
(* else.                                                                   *)
LEMMA ValuesOfSave == ImuInv => FoundAsSaved
  <1> SUFFICES ASSUME ImuInv, StartFromFile PROVE FoundAsSaved
    BY DEF FoundAsSaved
  <1>1. fileExists /\ pc = "off" /\ bounds' = LoadedBounds /\ gyroscopeAvg' = Line(5)
    BY DEF StartFromFile, Start
  <1>2. Len(file) \in 0 .. 5 /\ (~cut => Len(file) = 5)
    <2>1. PICK n \in Nat : n = Len(file)
      BY DEF ImuInv, TypeOK
    <2>2. n <= 5
      BY <2>1, KeysOfFile DEF ImuInv, TypeOK
    <2>3. n \in 0 .. 5
      BY <2>2
    <2>4. ~cut => Len(file) = 5
      BY <1>1 DEF ImuInv, OnDisk
    <2> QED
      BY <2>1, <2>3, <2>4, Zenon
  <1>3. ASSUME NEW k \in 1 .. 5
        PROVE  ValueOf(k)' = Line(k)
    <2>1. /\ bounds'["magnetometer"].max = Line(1) /\ bounds'["magnetometer"].min = Line(2)
          /\ bounds'["accelerometer"].max = Line(3) /\ bounds'["accelerometer"].min = Line(4)
      BY <1>1 DEF LoadedBounds, Sensors
    <2>2. k = 1 \/ k = 2 \/ k = 3 \/ k = 4 \/ k = 5
      OBVIOUS
    <2> QED
      BY <1>1, <2>1, <2>2 DEF ValueOf
  <1>4. ASSUME NEW k \in 1 .. 5
        PROVE  IF k <= Len(file) THEN 2 * ValueOf(k)' - 2 * saved[k] \in -Grain .. Grain
                                 ELSE ValueOf(k)' = 0
    <2>1. CASE k <= Len(file)
      <3>1. ValueOf(k)' = Rounded(saved[k])
        BY <1>2, <1>3, <2>1 DEF Line, ImuInv, OnDisk
      <3>2. saved[k] \in Int
        BY KeysOfFile DEF ImuInv, TypeOK
      <3>3. Grain \in Nat
        BY IMUAssumption
      <3>4. /\ Rounded(saved[k]) \in Int
            /\ 2 * Rounded(saved[k]) <= 2 * saved[k] + Grain
            /\ 2 * saved[k] - Grain <= 2 * Rounded(saved[k])
        BY <3>2, RoundedNear
      <3> QED
        BY <2>1, <3>1, <3>2, <3>3, <3>4
    <2>2. CASE ~(k <= Len(file))
      BY <1>3, <2>2 DEF Line
    <2> QED
      BY <2>1, <2>2
  <1>5. \E n \in 0 .. Len(Keys) :
           /\ ~cut => n = Len(Keys)
           /\ \A k \in 1 .. Len(Keys) :
                 IF k <= n THEN 2 * ValueOf(k)' - 2 * saved[k] \in -Grain .. Grain
                           ELSE ValueOf(k)' = 0
    <2>1. PICK n \in 0 .. Len(Keys) : n = Len(file)
      BY <1>2, KeysOfFile, Zenon
    <2>2. ~cut => n = Len(Keys)
      BY <1>2, <2>1, KeysOfFile, Zenon
    <2>3. ASSUME NEW k \in 1 .. Len(Keys)
          PROVE  IF k <= n THEN 2 * ValueOf(k)' - 2 * saved[k] \in -Grain .. Grain
                           ELSE ValueOf(k)' = 0
      <3>1. k \in 1 .. 5
        BY KeysOfFile, Zenon
      <3> QED
        BY <1>4, <2>1, <3>1, Zenon
    <2> WITNESS n \in 0 .. Len(Keys)
    <2> QED
      BY <2>2, <2>3, Zenon
  <1> QED
    BY <1>5, Zenon DEF FoundAsSaved

-----------------------------------------------------------------------------
(* The angle sensor.                                                       *)

AngleHolds ==
    /\ pc \in {"off", "calibrating"} => rawReadingMinMax = <<>>
    /\ pc \in {"running", "stopping"} => rawReadingMinMax \in Anglesensor!MinMaxValues
    /\ pc = "saving" /\ intact => rawReadingMinMax \in Anglesensor!MinMaxValues
    /\ pc = "failed" => ~intact

AngleMeasured ==
    /\ pc = "calibrating" => least \in seen /\ greatest \in seen
    /\ Anglesensor!FreshWhenAsked

AngleKept ==
    /\ file \in Anglesensor!MinMaxValues => file = saved
    /\ Anglesensor!UsableAfterCleanStop

AngleInv == Anglesensor!TypeOK /\ AngleHolds /\ AngleMeasured /\ AngleKept

-----------------------------------------------------------------------------
(* Two values are neither of the broken files, and are saved as they are.  *)
LEMMA ValuesAreWhole ==
    ASSUME NEW p \in Anglesensor!MinMaxValues
    PROVE  /\ p[1] \in RawReadings /\ p[2] \in RawReadings
           /\ p # Anglesensor!Missing /\ p # Anglesensor!Torn /\ SubSeq(p, 1, 2) = p
  <1>1. PICK a \in RawReadings, b \in RawReadings : p = <<a, b>>
    BY DEF Anglesensor!MinMaxValues
  <1>2. Len(p) = 2 /\ Len(Anglesensor!Missing) = 0 /\ Len(Anglesensor!Torn) = 1
    BY <1>1 DEF Anglesensor!Missing, Anglesensor!Torn
  <1>3. SubSeq(p, 1, 2) = p
    <2>1. p = [k \in 1 .. 2 |-> IF k = 1 THEN a ELSE b]
      BY <1>1
    <2>2. SubSeq(p, 1, 2) = [k \in 1 .. 2 |-> p[k]]
      OBVIOUS
    <2> QED
      BY <2>1, <2>2
  <1> QED
    BY <1>1, <1>2, <1>3

LEMMA ValuesOf ==
    ASSUME NEW a \in RawReadings, NEW b \in RawReadings
    PROVE  <<>> \o <<a, b>> = <<a, b>> /\ <<a, b>> \in Anglesensor!MinMaxValues
  <1>1. <<a, b>> \in Anglesensor!MinMaxValues
    BY DEF Anglesensor!MinMaxValues
  <1>2. <<>> \o <<a, b>> = <<a, b>>
    OBVIOUS
  <1> QED
    BY <1>1, <1>2

LEMMA BrokenFilesDiffer ==
    /\ Anglesensor!Missing # Anglesensor!Torn
    /\ Anglesensor!Missing \notin Anglesensor!MinMaxValues
    /\ Anglesensor!Torn \notin Anglesensor!MinMaxValues
  <1>1. Anglesensor!Missing # Anglesensor!Torn
    <2>1. Len(Anglesensor!Missing) = 0 /\ Len(Anglesensor!Torn) = 1
      BY DEF Anglesensor!Missing, Anglesensor!Torn
    <2> QED
      BY <2>1
  <1> QED
    BY <1>1, ValuesAreWhole

-----------------------------------------------------------------------------
LEMMA AngleInitially ==
    ASSUME Anglesensor!AnglesensorAssumption, Anglesensor!Init
    PROVE  AngleInv
  <1>1. Anglesensor!TypeOK
    <2>1. 0 \in RawReadings /\ 0 \in 0 .. Iterations /\ 0 \in 0 .. MaxStarts
      BY DEF Anglesensor!AnglesensorAssumption
    <2>2. Anglesensor!Nothing \in [above : Int, below : Int]
      BY DEF Anglesensor!Nothing
    <2> QED
      BY <2>1, <2>2 DEF Anglesensor!Init, Anglesensor!TypeOK, Anglesensor!Missing
  <1>2. AngleHolds /\ AngleMeasured
    BY DEF Anglesensor!Init, AngleHolds, AngleMeasured, Anglesensor!FreshWhenAsked
  <1>3. AngleKept
    BY BrokenFilesDiffer DEF Anglesensor!Init, AngleKept,
       Anglesensor!UsableAfterCleanStop
  <1> QED
    BY <1>1, <1>2, <1>3 DEF AngleInv

(* The three ways to start.                                                *)
LEMMA AngleStartSteps ==
    ASSUME Anglesensor!AnglesensorAssumption, AngleInv,
           Anglesensor!StartCalibrating \/ Anglesensor!StartFromFile \/ Anglesensor!StartFromTorn
    PROVE  AngleInv'
  <1>1. /\ pc = "off" /\ setUpCalibration' \in BOOLEAN /\ starts' \in 0 .. MaxStarts
        /\ UNCHANGED <<calibrationFile, file, sent, saved>>
    BY DEF Anglesensor!StartCalibrating, Anglesensor!StartFromFile,
       Anglesensor!StartFromTorn, Anglesensor!Start, AngleInv, Anglesensor!TypeOK,
       Anglesensor!AnglesensorAssumption
  <1>2. rawReadingMinMax = <<>>
    BY <1>1 DEF AngleInv, AngleHolds
  <1>3. CASE Anglesensor!StartCalibrating
    <2>1. /\ pc' = "calibrating" /\ least' \in RawReadings /\ greatest' \in RawReadings
          /\ i' = 0 /\ seen' = {least', greatest'}
          /\ UNCHANGED <<rawReadingMinMax, intact>>
      BY <1>3 DEF Anglesensor!StartCalibrating
    <2>2. Anglesensor!TypeOK'
      BY <1>1, <2>1 DEF AngleInv, Anglesensor!TypeOK, Anglesensor!AnglesensorAssumption
    <2>3. AngleHolds' /\ AngleMeasured'
      BY <1>2, <2>1 DEF AngleHolds, AngleMeasured, Anglesensor!FreshWhenAsked
    <2>4. AngleKept'
      BY <1>1, <2>1 DEF AngleInv, AngleKept, Anglesensor!UsableAfterCleanStop
    <2> QED
      BY <2>2, <2>3, <2>4 DEF AngleInv
  <1>4. CASE Anglesensor!StartFromFile
    <2>1. /\ pc' = "running" /\ rawReadingMinMax' = file /\ setUpCalibration' = FALSE
          /\ UNCHANGED <<Anglesensor!calibration, seen, intact>> 
          /\ file \notin {Anglesensor!Missing, Anglesensor!Torn}
      BY <1>4 DEF Anglesensor!StartFromFile, Anglesensor!Start,
         Anglesensor!MustCalibrate
    <2>2. file \in Anglesensor!MinMaxValues
      BY <2>1 DEF AngleInv, Anglesensor!TypeOK
    <2>3. UNCHANGED <<least, greatest, i>>
      BY <2>1 DEF Anglesensor!calibration
    <2>4. Anglesensor!TypeOK'
      BY <1>1, <2>1, <2>2, <2>3 DEF AngleInv, Anglesensor!TypeOK
    <2>5. AngleHolds' /\ AngleMeasured'
      BY <2>1, <2>2 DEF AngleHolds, AngleMeasured, Anglesensor!FreshWhenAsked
    <2>6. AngleKept'
      BY <1>1, <2>1 DEF AngleInv, AngleKept, Anglesensor!UsableAfterCleanStop
    <2> QED
      BY <2>4, <2>5, <2>6 DEF AngleInv
  <1>5. CASE Anglesensor!StartFromTorn
    <2>1. /\ pc' = "failed" /\ intact' = FALSE
          /\ UNCHANGED <<Anglesensor!calibration, rawReadingMinMax, seen>>
      BY <1>5 DEF Anglesensor!StartFromTorn
    <2>2. UNCHANGED <<least, greatest, i>>
      BY <2>1 DEF Anglesensor!calibration
    <2>3. Anglesensor!TypeOK'
      BY <1>1, <2>1, <2>2 DEF AngleInv, Anglesensor!TypeOK
    <2>4. AngleHolds' /\ AngleMeasured'
      BY <2>1 DEF AngleHolds, AngleMeasured, Anglesensor!FreshWhenAsked
    <2>5. AngleKept'
      BY <1>1, <2>1 DEF AngleInv, AngleKept, Anglesensor!UsableAfterCleanStop
    <2> QED
      BY <2>3, <2>4, <2>5 DEF AngleInv
  <1> QED
    BY <1>3, <1>4, <1>5

(* A reading into the calibration, and the end of the calibration.         *)
LEMMA AngleCalibrationSteps ==
    ASSUME Anglesensor!AnglesensorAssumption, AngleInv,
           Anglesensor!Calibrate \/ Anglesensor!FinishCalibration \/ Anglesensor!StopCalibration
    PROVE  AngleInv'
  <1>1. /\ pc = "calibrating"
        /\ UNCHANGED <<calibrationFile, setUpCalibration, file, sent, starts,
                       saved, intact>>
    BY DEF Anglesensor!Calibrate, Anglesensor!FinishCalibration,
       Anglesensor!StopCalibration, Anglesensor!EndCalibration, Anglesensor!history
  <1>2. rawReadingMinMax = <<>> /\ least \in seen /\ greatest \in seen
    BY <1>1 DEF AngleInv, AngleHolds, AngleMeasured
  <1>3. CASE Anglesensor!Calibrate
    <2>1. PICK v \in RawReadings :
             /\ least' = IF v < least THEN v ELSE least
             /\ greatest' = IF v >= least /\ v > greatest THEN v ELSE greatest
             /\ seen' = seen \cup {v}
      BY <1>3 DEF Anglesensor!Calibrate
    <2>2. pc' = "calibrating" /\ UNCHANGED rawReadingMinMax /\ i' \in 0 .. Iterations
      BY <1>1, <1>3 DEF Anglesensor!Calibrate, AngleInv, Anglesensor!TypeOK,
         Anglesensor!AnglesensorAssumption
    <2>3. least' \in {v, least} /\ greatest' \in {v, greatest}
      BY <2>1
    <2>4. Anglesensor!TypeOK'
      BY <1>1, <2>1, <2>2, <2>3 DEF AngleInv, Anglesensor!TypeOK
    <2>5. AngleHolds' /\ AngleMeasured'
      BY <1>2, <2>1, <2>2, <2>3 DEF AngleHolds, AngleMeasured,
         Anglesensor!FreshWhenAsked
    <2>6. AngleKept'
      BY <1>1, <2>2 DEF AngleInv, AngleKept, Anglesensor!UsableAfterCleanStop
    <2> QED
      BY <2>4, <2>5, <2>6 DEF AngleInv
  <1>4. CASE Anglesensor!FinishCalibration \/ Anglesensor!StopCalibration
    <2>1. /\ pc' \in {"running", "stopping"}
          /\ rawReadingMinMax' = rawReadingMinMax \o <<least, greatest>>
          /\ UNCHANGED <<least, greatest, i, seen>>
      BY <1>4 DEF Anglesensor!FinishCalibration, Anglesensor!StopCalibration,
         Anglesensor!EndCalibration, Anglesensor!calibration, Anglesensor!history
    <2>2. least \in RawReadings /\ greatest \in RawReadings
      BY DEF AngleInv, Anglesensor!TypeOK
    <2>3. /\ rawReadingMinMax' = <<least, greatest>> 
          /\ rawReadingMinMax' \in Anglesensor!MinMaxValues
      BY <1>2, <2>1, <2>2, ValuesOf
    <2>4. Anglesensor!TypeOK'
      BY <1>1, <2>1, <2>3 DEF AngleInv, Anglesensor!TypeOK
    <2>5. AngleHolds' /\ AngleMeasured'
      BY <1>2, <2>1, <2>3 DEF AngleHolds, AngleMeasured, Anglesensor!FreshWhenAsked
    <2>6. AngleKept'
      BY <1>1, <2>1 DEF AngleInv, AngleKept, Anglesensor!UsableAfterCleanStop
    <2> QED
      BY <2>4, <2>5, <2>6 DEF AngleInv
  <1> QED
    BY <1>3, <1>4

(* A reading is sent, the module is stopped, or a reading fails.           *)
LEMMA AngleRunningSteps ==
    ASSUME Anglesensor!AnglesensorAssumption, AngleInv,
           Anglesensor!SendReading \/ Anglesensor!Stop \/ Anglesensor!FailReading
    PROVE  AngleInv'
  <1>1. UNCHANGED <<calibrationFile, setUpCalibration, least, greatest, i,
                    rawReadingMinMax, file, starts, saved, seen>>
    BY DEF Anglesensor!SendReading, Anglesensor!Stop, Anglesensor!FailReading,
       Anglesensor!calibration, Anglesensor!history
  <1>2. \/ pc = "running" /\ pc' \in {"running", "stopping"} /\ UNCHANGED intact
        \/ pc' = "failed" /\ intact' = FALSE
    BY DEF Anglesensor!SendReading, Anglesensor!Stop, Anglesensor!FailReading,
       Anglesensor!history
  <1>3. sent' \in [above : Int, below : Int]
    <2>1. CASE Anglesensor!SendReading
      <3>1. PICK v \in RawReadings : sent' = Anglesensor!Angle(v)
        BY <2>1 DEF Anglesensor!SendReading
      <3>2. rawReadingMinMax[1] \in RawReadings /\ rawReadingMinMax[2] \in RawReadings
        BY <2>1, ValuesAreWhole DEF Anglesensor!SendReading, AngleInv, AngleHolds
      <3>a. RawReadings \subseteq Int
        BY DEF Anglesensor!AnglesensorAssumption
      <3>3. /\ v \in Int /\ rawReadingMinMax[1] \in Int /\ rawReadingMinMax[2] \in Int
        BY <3>1, <3>2, <3>a
      <3>4. Anglesensor!Angle(v) \in [above : Int, below : Int]
        BY <3>3 DEF Anglesensor!Angle
      <3> QED
        BY <3>1, <3>4
    <2>2. CASE Anglesensor!Stop \/ Anglesensor!FailReading
      BY <2>2 DEF Anglesensor!Stop, Anglesensor!FailReading, AngleInv,
         Anglesensor!TypeOK
    <2> QED
      BY <2>1, <2>2
  <1>4. Anglesensor!TypeOK'
    BY <1>1, <1>2, <1>3 DEF AngleInv, Anglesensor!TypeOK
  <1>5. AngleHolds'
    BY <1>1, <1>2 DEF AngleInv, AngleHolds
  <1>6. AngleMeasured'
    BY <1>1, <1>2 DEF AngleInv, AngleMeasured, Anglesensor!FreshWhenAsked
  <1>7. AngleKept'
    BY <1>1, <1>2 DEF AngleInv, AngleKept, Anglesensor!UsableAfterCleanStop
  <1> QED
    BY <1>4, <1>5, <1>6, <1>7 DEF AngleInv

(* The file is emptied before the values are looked up.                    *)
LEMMA AngleOpenStep ==
    ASSUME Anglesensor!AnglesensorAssumption, AngleInv, Anglesensor!OpenToSave
    PROVE  AngleInv'
  <1>1. /\ pc \in {"stopping", "failed"} /\ pc' = "saving" /\ file' = Anglesensor!Torn
        /\ UNCHANGED <<calibrationFile, setUpCalibration, least, greatest, i,
                       rawReadingMinMax, sent, starts, saved, seen, intact>>
    BY DEF Anglesensor!OpenToSave, Anglesensor!calibration, Anglesensor!history
  <1>2. Anglesensor!TypeOK'
    BY <1>1 DEF AngleInv, Anglesensor!TypeOK
  <1>3. AngleHolds'
    BY <1>1 DEF AngleInv, AngleHolds
  <1>4. AngleMeasured'
    BY <1>1 DEF AngleInv, AngleMeasured, Anglesensor!FreshWhenAsked
  <1>5. AngleKept'
    BY <1>1, BrokenFilesDiffer DEF AngleKept, Anglesensor!UsableAfterCleanStop
  <1> QED
    BY <1>2, <1>3, <1>4, <1>5 DEF AngleInv

(* The process ends, with or without a save.                               *)
LEMMA AngleEndSteps ==
    ASSUME Anglesensor!AnglesensorAssumption, AngleInv,
           Anglesensor!StopWithoutSaving \/ Anglesensor!SaveValues \/ Anglesensor!FailToSave
           \/ Anglesensor!Crash
    PROVE  AngleInv'
  <1>1. /\ pc' = "off" /\ least' = 0 /\ greatest' = 0 /\ i' = 0
        /\ rawReadingMinMax' = <<>> /\ sent' = Anglesensor!Nothing /\ seen' = {}
        /\ UNCHANGED <<calibrationFile, setUpCalibration, starts>>
    BY DEF Anglesensor!StopWithoutSaving, Anglesensor!SaveValues,
       Anglesensor!FailToSave, Anglesensor!Crash, Anglesensor!Gone
  <1>2. intact' \in BOOLEAN
    BY DEF Anglesensor!StopWithoutSaving, Anglesensor!SaveValues,
       Anglesensor!FailToSave, Anglesensor!Crash, AngleInv, Anglesensor!TypeOK
  <1>3. \/ UNCHANGED <<file, saved>>
        \/ file' \in Anglesensor!MinMaxValues /\ saved' = file'
    <2>1. CASE Anglesensor!SaveValues
      <3>1. rawReadingMinMax \in Anglesensor!MinMaxValues
        BY <2>1 DEF Anglesensor!SaveValues, AngleInv, Anglesensor!TypeOK
      <3> QED
        BY <2>1, <3>1, ValuesAreWhole DEF Anglesensor!SaveValues,
           Anglesensor!SavedValues
    <2> QED
      BY <2>1 DEF Anglesensor!StopWithoutSaving, Anglesensor!FailToSave,
         Anglesensor!Crash
  <1>4. intact' => file' # Anglesensor!Torn
    <2>1. CASE Anglesensor!StopWithoutSaving
      BY <2>1 DEF Anglesensor!StopWithoutSaving, AngleInv, AngleKept,
         Anglesensor!UsableAfterCleanStop
    <2>2. CASE Anglesensor!SaveValues
      <3>1. rawReadingMinMax \in Anglesensor!MinMaxValues
        BY <2>2 DEF Anglesensor!SaveValues, AngleInv, Anglesensor!TypeOK
      <3> QED
        BY <2>2, <3>1, ValuesAreWhole DEF Anglesensor!SaveValues,
           Anglesensor!SavedValues
    <2>3. CASE Anglesensor!FailToSave
      <3>1. ~intact /\ UNCHANGED intact
        BY <2>3, BrokenFilesDiffer DEF Anglesensor!FailToSave, AngleInv, AngleHolds,
           Anglesensor!Missing
      <3> QED
        BY <3>1
    <2>4. CASE Anglesensor!Crash
      BY <2>4 DEF Anglesensor!Crash, AngleInv, AngleKept,
         Anglesensor!UsableAfterCleanStop
    <2> QED
      BY <2>1, <2>2, <2>3, <2>4
  <1>5. Anglesensor!TypeOK'
    <2>1. /\ 0 \in RawReadings /\ 0 \in 0 .. Iterations
          /\ Anglesensor!Nothing \in [above : Int, below : Int]
      BY DEF Anglesensor!AnglesensorAssumption, Anglesensor!Nothing
    <2> QED
      BY <1>1, <1>2, <1>3, <2>1 DEF AngleInv, Anglesensor!TypeOK
  <1>6. AngleHolds' /\ AngleMeasured'
    BY <1>1 DEF AngleHolds, AngleMeasured, Anglesensor!FreshWhenAsked
  <1>7. AngleKept'
    BY <1>1, <1>3, <1>4 DEF AngleInv, AngleKept, Anglesensor!UsableAfterCleanStop
  <1> QED
    BY <1>5, <1>6, <1>7 DEF AngleInv

LEMMA AngleStep ==
    ASSUME Anglesensor!AnglesensorAssumption, AngleInv,
           [Anglesensor!Next]_(Anglesensor!vars)
    PROVE  AngleInv'
  <1>1. CASE Anglesensor!Next
    BY <1>1, AngleStartSteps, AngleCalibrationSteps, AngleRunningSteps, AngleOpenStep,
       AngleEndSteps DEF Anglesensor!Next
  <1>2. CASE UNCHANGED Anglesensor!vars
    <2>1. UNCHANGED <<calibrationFile, setUpCalibration, pc, least, greatest, i,
                      rawReadingMinMax, file, sent, starts, saved, seen, intact>>
      BY <1>2 DEF Anglesensor!vars, Anglesensor!calibration, Anglesensor!history
    <2>2. Anglesensor!TypeOK'
      BY <2>1 DEF AngleInv, Anglesensor!TypeOK
    <2>3. AngleHolds' /\ AngleMeasured' /\ AngleKept'
      BY <2>1 DEF AngleInv, AngleHolds, AngleMeasured, Anglesensor!FreshWhenAsked,
         AngleKept, Anglesensor!UsableAfterCleanStop
    <2> QED
      BY <2>2, <2>3 DEF AngleInv
  <1> QED
    BY <1>1, <1>2

LEMMA ValuesAreFound ==
    ASSUME AngleInv, Anglesensor!StartFromFile
    PROVE  rawReadingMinMax' = saved
  <1>1. rawReadingMinMax' = file /\ file \notin {Anglesensor!Missing, Anglesensor!Torn}
    BY DEF Anglesensor!StartFromFile, Anglesensor!MustCalibrate
  <1> QED
    BY <1>1 DEF AngleInv, Anglesensor!TypeOK, AngleKept

-----------------------------------------------------------------------------
(* The camera in the projection tool.                                      *)

Counted ==
    /\ clicks \in 0 .. MaxClicks /\ resets \subseteq 1 .. clicks
    /\ iterator \in 0 .. Corners /\ points \in [1 .. Corners -> 0 .. MaxClicks]

(* The first n of these corners are clicks up to the last one, one after   *)
(* the other, and none of the right button.                                *)
InARow(corners, n, last, right) ==
    /\ \A k \in 1 .. n : corners[k] \in 1 .. last /\ corners[k] \notin right
    /\ \A k \in 1 .. n - 1 : corners[k + 1] = corners[k] + 1

RoundSoFar ==
    mode = "calibrate" =>
        /\ InARow(points, iterator, clicks, resets)
        /\ iterator \in 1 .. Corners - 1 => points[iterator] = clicks

OneRound(corners, last, right) ==
    corners = Projection!Undefined \/ InARow(corners, Corners, last, right)

CornersKept ==
    OneRound(bMatrix, clicks, resets) /\ OneRound(file.corners, clicks, resets)

CameraInv == Counted /\ RoundSoFar /\ CornersKept

-----------------------------------------------------------------------------
LEMMA CameraInitially ==
    ASSUME Projection!ProjectionAssumption, Projection!Init
    PROVE  CameraInv
  <1>1. Counted
    BY DEF Projection!ProjectionAssumption, Projection!Init, Projection!Started,
       Counted
  <1>2. RoundSoFar
    BY DEF Projection!Init, Projection!Started, RoundSoFar
  <1>3. bMatrix = Projection!Undefined /\ file.corners = Projection!Undefined
    BY DEF Projection!Init, Projection!Started, Projection!UndefinedProjection
  <1> QED
    BY <1>1, <1>2, <1>3 DEF CameraInv, CornersKept, OneRound

(* One more click, of any button, is none of the corners clicked before.   *)
LEMMA ClickAfter ==
    ASSUME NEW corners, NEW n, NEW last \in Nat, NEW right \in SUBSET (1 .. last),
           NEW more \in SUBSET (right \cup {last + 1}),
           InARow(corners, n, last, right)
    PROVE  InARow(corners, n, last + 1, more)
  <1>1. ASSUME NEW k \in 1 .. n
        PROVE  corners[k] \in 1 .. last + 1 /\ corners[k] \notin more
    <2>1. corners[k] \in 1 .. last /\ corners[k] \notin right
      BY DEF InARow
    <2> QED
      BY <2>1
  <1> QED
    BY <1>1 DEF InARow

(* What is kept survives a step that changes neither matrix nor file, and  *)
(* at most adds a click.                                                   *)
LEMMA CornersKeptOn ==
    ASSUME CameraInv, UNCHANGED <<bMatrix, file>>,
           \/ UNCHANGED <<clicks, resets>>
           \/ clicks' = clicks + 1 /\ resets' \subseteq resets \cup {clicks'}
    PROVE  CornersKept'
  <1>1. clicks \in Nat /\ resets \in SUBSET (1 .. clicks)
    BY DEF CameraInv, Counted
  <1>2. CASE UNCHANGED <<clicks, resets>>
    BY <1>2 DEF CameraInv, CornersKept, OneRound
  <1>3. CASE clicks' = clicks + 1 /\ resets' \subseteq resets \cup {clicks'}
    <2>1. ASSUME NEW corners, OneRound(corners, clicks, resets)
          PROVE  OneRound(corners, clicks', resets')
      BY <1>1, <1>3, <2>1, ClickAfter DEF OneRound
    <2> QED
      BY <2>1 DEF CameraInv, CornersKept
  <1> QED
    BY <1>2, <1>3

-----------------------------------------------------------------------------
(* The menu, the configuration and the restart touch neither the clicks    *)
(* nor the corners; they begin a calibration at most.                      *)
LEMMA MenuSteps ==
    ASSUME Projection!ProjectionAssumption, CameraInv,
           \/ Projection!EnterCalibration \/ Projection!EnterConfiguration
           \/ Projection!EnterProjection \/ Projection!Quit
           \/ Projection!TypeCharacter \/ Projection!Backspace
           \/ Projection!EnterValues \/ Projection!EndProjection
    PROVE  CameraInv'
  <1>1. UNCHANGED <<bMatrix, file, clicks, resets>>
    BY DEF Projection!EnterCalibration, Projection!EnterConfiguration,
       Projection!EnterProjection, Projection!Quit, Projection!TypeCharacter,
       Projection!Backspace, Projection!EnterValues, Projection!EndProjection,
       Projection!matrices, Projection!mouse
  <1>2. CASE Projection!EnterCalibration
    <2>1. iterator' = 0 /\ points' = [k \in 1 .. Corners |-> 0]
      BY <1>2 DEF Projection!EnterCalibration
    <2>2. Counted'
      BY <1>1, <2>1 DEF CameraInv, Counted, Projection!ProjectionAssumption
    <2>3. RoundSoFar'
      BY <2>1 DEF RoundSoFar, InARow
    <2> QED
      BY <1>1, <2>2, <2>3, CornersKeptOn DEF CameraInv
  <1>3. CASE ~Projection!EnterCalibration
    <2>1. mode' # "calibrate" /\ UNCHANGED <<iterator, points>>
      BY <1>3 DEF Projection!EnterConfiguration, Projection!EnterProjection,
         Projection!Quit, Projection!TypeCharacter, Projection!Backspace,
         Projection!EnterValues, Projection!EndProjection, Projection!mouse
    <2>2. Counted'
      BY <1>1, <2>1 DEF CameraInv, Counted
    <2>3. RoundSoFar'
      BY <2>1 DEF RoundSoFar
    <2> QED
      BY <1>1, <2>2, <2>3, CornersKeptOn DEF CameraInv
  <1> QED
    BY <1>2, <1>3

(* Matrices are saved, computed from finished rounds, or lost.             *)
LEMMA MatrixSteps ==
    ASSUME Projection!ProjectionAssumption, CameraInv,
           Projection!Save \/ Projection!EndCalibration \/ Projection!Restart
    PROVE  CameraInv'
  <1>1. mode' # "calibrate" /\ UNCHANGED <<clicks, resets, iterator, points>>
    BY DEF Projection!Save, Projection!EndCalibration, Projection!Restart,
       Projection!mouse
  <1>2. Counted' /\ RoundSoFar'
    BY <1>1 DEF CameraInv, Counted, RoundSoFar
  <1>3. OneRound(bMatrix', clicks, resets)
    <2>1. CASE Projection!EndCalibration
      <3>1. iterator >= Corners => InARow(points, Corners, clicks, resets)
        BY <2>1 DEF Projection!EndCalibration, CameraInv, Counted, RoundSoFar,
           Projection!ProjectionAssumption
      <3> QED
        BY <2>1, <3>1 DEF Projection!EndCalibration, Projection!Enough, OneRound,
           CameraInv, CornersKept
    <2>2. CASE Projection!Save \/ Projection!Restart
      BY <2>2 DEF Projection!Save, Projection!Restart, OneRound, CameraInv, CornersKept
    <2> QED
      BY <2>1, <2>2
  <1>4. OneRound(file'.corners, clicks, resets)
    <2>1. CASE Projection!Save
      <3>1. file'.corners = bMatrix \/ file' = file
        BY <2>1 DEF Projection!Save
      <3> QED
        BY <3>1 DEF CameraInv, CornersKept
    <2>2. CASE Projection!EndCalibration \/ Projection!Restart
      BY <2>2 DEF Projection!EndCalibration, Projection!Restart, CameraInv, CornersKept
    <2> QED
      BY <2>1, <2>2
  <1> QED
    BY <1>1, <1>2, <1>3, <1>4 DEF CameraInv, CornersKept

(* A click: the next corner, none at all, or the first of a new round.     *)
LEMMA ClickSteps ==
    ASSUME Projection!ProjectionAssumption, CameraInv,
           Projection!LeftClick \/ Projection!RightClick
    PROVE  CameraInv'
  <1>1. /\ mode = "calibrate" /\ clicks < MaxClicks /\ clicks' = clicks + 1
        /\ resets' \subseteq resets \cup {clicks'}
        /\ UNCHANGED <<bMatrix, file>>
    BY DEF Projection!LeftClick, Projection!RightClick, Projection!matrices
  <1>2. /\ clicks \in Nat /\ resets \in SUBSET (1 .. clicks) /\ iterator \in 0 .. Corners
        /\ points \in [1 .. Corners -> 0 .. MaxClicks] /\ Corners \in Nat /\ MaxClicks \in Nat
    BY DEF CameraInv, Counted, Projection!ProjectionAssumption
  <1>3. /\ InARow(points, iterator, clicks, resets)
        /\ iterator \in 1 .. Corners - 1 => points[iterator] = clicks
    BY <1>1 DEF CameraInv, RoundSoFar
  <1>4. clicks' \in 0 .. MaxClicks /\ resets' \subseteq 1 .. clicks'
    BY <1>1, <1>2
  <1>5. CASE Projection!RightClick
    <2>1. iterator' = 0 /\ UNCHANGED points
      BY <1>5 DEF Projection!RightClick
    <2>2. Counted'
      BY <1>2, <1>4, <2>1 DEF Counted
    <2>3. RoundSoFar'
      BY <2>1 DEF RoundSoFar, InARow
    <2> QED
      BY <1>1, <2>2, <2>3, CornersKeptOn DEF CameraInv
  <1>6. CASE Projection!LeftClick /\ iterator >= Corners
    <2>1. UNCHANGED <<iterator, points, resets>> /\ iterator = Corners
      BY <1>2, <1>6 DEF Projection!LeftClick
    <2>2. Counted'
      BY <1>2, <1>4, <2>1 DEF Counted
    <2>3. RoundSoFar'
      BY <1>1, <1>2, <1>3, <2>1, ClickAfter DEF RoundSoFar
    <2> QED
      BY <1>1, <2>2, <2>3, CornersKeptOn DEF CameraInv
  <1>7. CASE Projection!LeftClick /\ iterator < Corners
    <2>1. /\ points' = [points EXCEPT ![iterator + 1] = clicks + 1]
          /\ iterator' = iterator + 1 /\ UNCHANGED resets
      BY <1>1, <1>7 DEF Projection!LeftClick
    <2>2. iterator \in Nat /\ iterator' \in 1 .. Corners
      BY <1>2, <1>7, <2>1
    <2>3. /\ points' \in [1 .. Corners -> 0 .. MaxClicks] /\ points'[iterator'] = clicks'
          /\ \A k \in 1 .. iterator : points'[k] = points[k]
      BY <1>1, <1>2, <1>4, <2>1, <2>2
    <2>4. Counted'
      BY <1>4, <2>2, <2>3 DEF Counted
    <2>5. InARow(points, iterator, clicks', resets)
      BY <1>1, <1>2, <1>3, ClickAfter
    <2>6. InARow(points', iterator', clicks', resets')
      <3>1. ASSUME NEW k \in 1 .. iterator'
            PROVE  points'[k] \in 1 .. clicks' /\ points'[k] \notin resets'
        <4>1. CASE k = iterator'
          BY <1>1, <1>2, <2>1, <2>3, <4>1
        <4>2. CASE k \in 1 .. iterator
          BY <2>1, <2>3, <2>5, <4>2 DEF InARow
        <4> QED
          BY <2>1, <2>2, <4>1, <4>2
      <3>2. ASSUME NEW k \in 1 .. iterator' - 1
            PROVE  points'[k + 1] = points'[k] + 1
        <4>1. CASE k = iterator
          <5>1. points[iterator] = clicks
            BY <1>2, <1>3, <1>7, <2>2, <4>1
          <5> QED
            BY <1>1, <2>1, <2>2, <2>3, <4>1, <5>1
        <4>2. CASE k \in 1 .. iterator - 1
          <5>1. points[k + 1] = points[k] + 1
            BY <1>3, <4>2 DEF InARow
          <5> QED
            BY <2>2, <2>3, <4>2, <5>1
        <4> QED
          BY <2>1, <2>2, <4>1, <4>2
      <3> QED
        BY <3>1, <3>2 DEF InARow
    <2>7. RoundSoFar'
      BY <2>3, <2>6 DEF RoundSoFar
    <2> QED
      BY <1>1, <2>4, <2>7, CornersKeptOn DEF CameraInv
  <1> QED
    BY <1>2, <1>5, <1>6, <1>7

LEMMA CameraStep ==
    ASSUME Projection!ProjectionAssumption, CameraInv, [Projection!Next]_(Projection!vars)
    PROVE  CameraInv'
  <1>1. CASE Projection!Next
    BY <1>1, MenuSteps, MatrixSteps, ClickSteps DEF Projection!Next
  <1>2. CASE UNCHANGED Projection!vars
    BY <1>2 DEF Projection!vars, Projection!matrices, Projection!mouse, CameraInv,
       Counted, RoundSoFar, CornersKept
  <1> QED
    BY <1>1, <1>2

LEMMA CornersAreOfOneRound ==
    ASSUME Projection!ProjectionAssumption, CameraInv
    PROVE  Projection!CornersOfOneRound
  <1>1. ASSUME NEW corners, NEW last \in Nat, NEW right, OneRound(corners, last, right),
               right = resets
        PROVE  Projection!OfOneRound(corners)
    BY <1>1 DEF OneRound, InARow, Projection!OfOneRound
  <1>2. clicks \in Nat
    BY DEF CameraInv, Counted
  <1> QED
    BY <1>1, <1>2 DEF CameraInv, CornersKept, Projection!CornersOfOneRound

-----------------------------------------------------------------------------
(* The types of the camera: where the numbers of a configuration come from.*)

LEMMA LeastOf ==
    ASSUME NEW S \in SUBSET Nat, S # {}
    PROVE  \E x \in S : \A y \in S : x <= y
  <1>1. PICK x \in S : \A y \in S : <<y, x>> \notin OpToRel(<, Nat)
    BY WFMin, NatLessThanWellFounded, Zenon
  <1>2. \A y \in S : ~(y < x)
    BY <1>1, Zenon DEF OpToRel
  <1> QED
    BY <1>2

LEMMA GreatestOf ==
    ASSUME NEW m \in Nat, NEW S \in SUBSET (0 .. m), S # {}
    PROVE  \E x \in S : \A y \in S : x >= y
  <1> DEFINE T == {m - y : y \in S}
  <1>1. T \in SUBSET Nat /\ T # {}
    <2>1. PICK y \in S : TRUE
      OBVIOUS
    <2>2. m - y \in T
      OBVIOUS
    <2>3. ASSUME NEW x \in S PROVE m - x \in Nat
      OBVIOUS
    <2> QED
      BY <2>2, <2>3
  <1>2. PICK t \in T : \A u \in T : t <= u
    BY <1>1, LeastOf, Zenon
  <1>3. PICK x \in S : t = m - x
    BY <1>2
  <1>4. ASSUME NEW y \in S PROVE x >= y
    <2>1. m - x <= m - y
      BY <1>2, <1>3
    <2> QED
      BY <2>1
  <1> QED
    BY <1>4

LEMMA MaxOf ==
    ASSUME NEW m \in Nat, NEW S \in SUBSET (0 .. m), S # {}
    PROVE  Projection!Max(S) \in S
  BY GreatestOf DEF Projection!Max

LEMMA SameCardinality ==
    \A S : Projection!Cardinality(S) = Cardinality(S)
  BY Zenon DEF Projection!Cardinality, Cardinality

LEMMA BoundedIsFinite ==
    ASSUME NEW m \in Nat, NEW S \in SUBSET (0 .. m)
    PROVE  IsFiniteSet(S) /\ S \in SUBSET Nat /\ Cardinality(S) \in Nat
  <1>1. IsFiniteSet(0 .. m)
    BY FS_Interval
  <1>2. IsFiniteSet(S)
    BY <1>1, FS_Subset
  <1> QED
    BY <1>2, FS_CardinalityType

(* The elements of a set of numbers can be counted.                        *)
LEMMA NthOf ==
    ASSUME NEW m \in Nat, NEW S \in SUBSET (0 .. m), NEW n \in 1 .. Cardinality(S)
    PROVE  Projection!Nth(S, n) \in S
  <1> DEFINE UpTo(k) == {j \in S : j <= k}
             Enough == {k \in S : Cardinality(UpTo(k)) >= n}
  <1>1. IsFiniteSet(S) /\ S \in SUBSET Nat /\ Cardinality(S) \in Nat
    BY BoundedIsFinite
  <1>2. ASSUME NEW T \in SUBSET S
        PROVE  IsFiniteSet(T) /\ Cardinality(T) \in Nat
    BY <1>1, FS_Subset, FS_CardinalityType
  <1>3. S # {}
    BY FS_EmptySet
  <1>4. PICK g \in S : \A y \in S : g >= y
    BY <1>3, GreatestOf
  <1>5. UpTo(g) = S
    BY <1>1, <1>4
  <1>6. g \in Enough
    BY <1>1, <1>5
  <1>7. PICK e \in Enough : \A y \in Enough : e <= y
    <2>1. Enough \in SUBSET Nat /\ Enough # {}
      BY <1>1, <1>6
    <2> QED
      BY <2>1, LeastOf, Zenon
  <1> DEFINE Before == {j \in S : j < e}
  <1>8. /\ Before \in SUBSET S /\ e \notin Before /\ e \in S
        /\ UpTo(e) = Before \cup {e}
    <2>1. e \in S /\ e \in Nat
      BY <1>1, <1>7
    <2>2. \A j \in S : j \in Nat
      BY <1>1
    <2>3. \A j \in S : j <= e <=> j < e \/ j = e
      BY <2>1, <2>2
    <2>4. e \notin Before
      BY <2>1
    <2> QED
      BY <2>1, <2>3, <2>4
  <1>9. Cardinality(UpTo(e)) = Cardinality(Before) + 1
    BY <1>2, <1>8, FS_AddElement
  <1>10. Cardinality(Before) < n
    <2>1. CASE Before = {}
      BY <2>1, FS_EmptySet
    <2>2. CASE Before # {}
      <3>1. Before \in SUBSET (0 .. m)
        BY <1>8
      <3>2. PICK p \in Before : \A y \in Before : p >= y
        BY <2>2, <3>1, GreatestOf
      <3>3. UpTo(p) = Before /\ p \in S /\ p < e
        <4>1. p \in S /\ p < e /\ p \in Nat /\ e \in Nat
          BY <1>1, <1>8, <3>2
        <4>2. \A j \in S : j \in Nat
          BY <1>1
        <4>3. \A j \in S : j < e => p >= j
          BY <3>2
        <4>4. \A j \in S : j <= p <=> j < e
          BY <4>1, <4>2, <4>3
        <4> QED
          BY <4>1, <4>4
      <3>4. p \notin Enough
        BY <1>1, <1>7, <3>3
      <3>5. ~(Cardinality(UpTo(p)) >= n)
        BY <3>3, <3>4
      <3>6. Cardinality(Before) \in Nat
        BY <1>2, <1>8
      <3> QED
        BY <3>3, <3>5, <3>6
    <2> QED
      BY <2>1, <2>2
  <1>11. Cardinality(UpTo(e)) = n
    <2>1. Cardinality(UpTo(e)) >= n /\ Cardinality(Before) \in Nat
      BY <1>2, <1>7, <1>8
    <2> QED
      BY <1>9, <1>10, <2>1
  <1>12. \E k \in S : Cardinality({j \in S : j <= k}) = n
    BY <1>8, <1>11
  <1> HIDE DEF UpTo, Enough, Before
  <1>13. Projection!Nth(S, n) = CHOOSE k \in S : Cardinality({j \in S : j <= k}) = n
    BY SameCardinality, Zenon DEF Projection!Nth
  <1> QED
    BY <1>12, <1>13, Zenon

Characters == {"digit", ",", "-1"}

(* A field of the text is no longer than the text.                         *)
LEMMA FieldsAreShort ==
    ASSUME NEW str \in Seq(Characters)
    PROVE  /\ Len(Projection!Fields(str)) \in Nat
           /\ \A k \in 1 .. Len(Projection!Fields(str)) :
                 Len(Projection!Fields(str)[k]) \in 0 .. Len(str)
  <1> DEFINE ends == {0, Len(str) + 1} \cup {k \in DOMAIN str : str[k] = ","}
             N == Cardinality(ends)
             field(k) == SubSeq(str, Projection!Nth(ends, k) + 1,
                                     Projection!Nth(ends, k + 1) - 1)
  <1>1. Len(str) + 1 \in Nat /\ DOMAIN str = 1 .. Len(str) /\ Len(str) \in Nat
    OBVIOUS
  <1>2. ends \in SUBSET (0 .. Len(str) + 1) /\ ends # {}
    <2>1. {0, Len(str) + 1} \in SUBSET (0 .. Len(str) + 1)
      BY <1>1
    <2>2. {k \in DOMAIN str : str[k] = ","} \in SUBSET (DOMAIN str)
      BY Zenon
    <2>3. DOMAIN str \in SUBSET (0 .. Len(str) + 1)
      BY <1>1
    <2> QED
      BY <2>1, <2>2, <2>3
  <1> HIDE DEF ends
  <1>3. N \in Nat \ {0}
    <2>1. IsFiniteSet(ends) /\ N \in Nat
      BY <1>1, <1>2, BoundedIsFinite
    <2> QED
      BY <1>2, <2>1, FS_EmptySet
  <1>4. ASSUME NEW k \in 1 .. N - 1
        PROVE  Len(field(k)) \in 0 .. Len(str)
    <2>1. k \in 1 .. N /\ k + 1 \in 1 .. N
      BY <1>3
    <2>2. Projection!Nth(ends, k) \in ends /\ Projection!Nth(ends, k + 1) \in ends
      BY <1>1, <1>2, <2>1, NthOf
    <2>3. /\ Projection!Nth(ends, k) \in 0 .. Len(str) + 1
          /\ Projection!Nth(ends, k + 1) \in 0 .. Len(str) + 1
      BY <1>2, <2>2
    <2>4. ASSUME NEW a \in Nat, NEW b \in Int, b <= Len(str)
          PROVE  Len(SubSeq(str, a + 1, b)) \in 0 .. Len(str)
      BY <2>4
    <2>5. /\ Projection!Nth(ends, k) \in Nat
          /\ Projection!Nth(ends, k + 1) - 1 <= Len(str)
          /\ Projection!Nth(ends, k + 1) - 1 \in Int
      BY <1>1, <2>3
    <2> QED
      BY <2>4, <2>5
  <1>5. Projection!Fields(str) = [k \in 1 .. N - 1 |-> field(k)]
    BY SameCardinality, Zenon DEF Projection!Fields, ends, N, field
  <1> HIDE DEF N, field
  <1>6. Len(Projection!Fields(str)) = N - 1
    BY <1>3, <1>5
  <1> QED
    BY <1>3, <1>4, <1>5, <1>6

LEMMA DigitsBounded ==
    ASSUME NEW m \in Nat, NEW f, Len(f) \in 0 .. m
    PROVE  Projection!DigitsOf(f) \in 0 .. m
  <1> DEFINE S == {n \in 0 .. Len(f) : \A k \in 1 .. n : f[k] = "digit"}
  <1>1. S \in SUBSET (0 .. m) /\ 0 \in S
    OBVIOUS
  <1>2. Projection!Max(S) \in S
    BY <1>1, MaxOf
  <1> QED
    BY <1>1, <1>2 DEF Projection!DigitsOf

(* The numbers parsed are numbers of digits of the text.                   *)
LEMMA NumbersParsed ==
    ASSUME NEW str \in Seq(Characters)
    PROVE  \E n \in Nat : Projection!Parsable(str) \in [1 .. n -> 0 .. Len(str)]
  <1> DEFINE fields == Projection!Fields(str)
             good == {n \in 0 .. Len(fields) :
                         \A k \in 1 .. n : Projection!DigitsOf(fields[k]) > 0}
  <1>1. Len(fields) \in Nat /\ Len(str) \in Nat
    BY FieldsAreShort
  <1>2. good \in SUBSET (0 .. Len(fields)) /\ 0 \in good
    BY <1>1
  <1>3. Projection!Max(good) \in 0 .. Len(fields)
    BY <1>1, <1>2, MaxOf
  <1>4. \A k \in 1 .. Len(fields) : Projection!DigitsOf(fields[k]) \in 0 .. Len(str)
    BY <1>1, FieldsAreShort, DigitsBounded
  <1>5. Projection!Parsable(str) =
           [k \in 1 .. Projection!Max(good) |-> Projection!DigitsOf(fields[k])]
    BY DEF Projection!Parsable
  <1> HIDE DEF good, fields
  <1> QED
    BY <1>1, <1>3, <1>4, <1>5

LEMMA RectangleConfigured ==
    ASSUME Projection!ProjectionAssumption, aMatrix \in Projection!Rectangles,
           NEW str \in Seq(Characters), Len(str) <= MaxInput
    PROVE  Projection!Configured(str) \in Projection!Rectangles
  <1> DEFINE p == Projection!Parsable(str)
  <1>1. PICK n \in Nat : p \in [1 .. n -> 0 .. Len(str)]
    BY NumbersParsed
  <1>2. Values \in Nat /\ MaxInput \in Nat /\ Len(str) \in Nat
    BY DEF Projection!ProjectionAssumption
  <1>3. ASSUME Len(p) >= Values
        PROVE  SubSeq(p, 1, Values) \in [1 .. Values -> 0 .. MaxInput]
    <2> HIDE DEF p
    <2>1. Len(p) = n
      BY <1>1
    <2>2. \A k \in 1 .. Values : p[k] \in 0 .. MaxInput
      BY <1>1, <1>2, <1>3, <2>1
    <2>3. p \in Seq(0 .. Len(str))
      BY <1>1
    <2>4. SubSeq(p, 1, Values) = [k \in 1 .. Values |-> p[k]]
      BY <1>2, <2>3
    <2> QED
      BY <2>2, <2>4
  <1>4. Projection!Configured(str) =
           IF Len(p) >= Values THEN SubSeq(p, 1, Values) ELSE aMatrix
    BY DEF Projection!Configured
  <1> HIDE DEF p
  <1> QED
    BY <1>3, <1>4 DEF Projection!Rectangles

-----------------------------------------------------------------------------
CameraTyped ==
    /\ mode \in {"menu", "configure", "calibrate", "project", "ended", "crashed"}
    /\ inputStr \in Seq(Characters) /\ Len(inputStr) <= MaxInput
    /\ aMatrix \in Projection!Rectangles /\ bMatrix \in Projection!CornerSets
    /\ projectionMatrix \in Projection!Projections /\ file \in Projection!Projections

LEMMA CameraTypedInitially ==
    ASSUME Projection!ProjectionAssumption, Projection!Init
    PROVE  CameraTyped
  <1>1. inputStr \in Seq(Characters) /\ Len(inputStr) <= MaxInput
    BY DEF Projection!ProjectionAssumption, Projection!Init, Projection!Started
  <1>2. Projection!UndefinedProjection \in Projection!Projections
    BY DEF Projection!UndefinedProjection, Projection!Projections,
           Projection!Rectangles, Projection!CornerSets
  <1> QED
    BY <1>1, <1>2 DEF Projection!Init, Projection!Started, CameraTyped,
       Projection!Rectangles, Projection!CornerSets

LEMMA CameraTypedStep ==
    ASSUME Projection!ProjectionAssumption, CameraInv, CameraTyped,
           [Projection!Next]_(Projection!vars)
    PROVE  CameraTyped'
  <1> USE DEF Projection!matrices
  <1>1. MaxInput \in Nat
    BY DEF Projection!ProjectionAssumption
  <1>2. mode' \in {"menu", "configure", "calibrate", "project", "ended", "crashed"}
    BY DEF Projection!Next, Projection!EnterCalibration, Projection!EnterConfiguration,
       Projection!Save, Projection!EnterProjection, Projection!Quit,
       Projection!TypeCharacter, Projection!Backspace, Projection!EnterValues,
       Projection!LeftClick, Projection!RightClick, Projection!EndCalibration,
       Projection!EndProjection, Projection!Restart, Projection!vars, CameraTyped
  <1>3. inputStr' \in Seq(Characters) /\ Len(inputStr') <= MaxInput
    <2>1. CASE Projection!TypeCharacter
      <3>1. PICK c \in Characters : inputStr' = Append(inputStr, c)
        BY <2>1 DEF Projection!TypeCharacter, Characters
      <3>2. Len(inputStr) < MaxInput
        BY <2>1 DEF Projection!TypeCharacter
      <3> QED
        BY <1>1, <3>1, <3>2 DEF CameraTyped
    <2>2. CASE Projection!Backspace
      BY <1>1, <2>2 DEF Projection!Backspace, CameraTyped
    <2>3. CASE inputStr' = inputStr \/ inputStr' = <<>>
      <3>1. <<>> \in Seq(Characters) /\ Len(<<>>) <= MaxInput
        BY <1>1
      <3> QED
        BY <2>3, <3>1 DEF CameraTyped
    <2> QED
      BY <2>1, <2>2, <2>3 DEF Projection!Next, Projection!EnterCalibration,
         Projection!EnterConfiguration, Projection!Save, Projection!EnterProjection,
         Projection!Quit, Projection!EnterValues, Projection!LeftClick,
         Projection!RightClick, Projection!EndCalibration, Projection!EndProjection,
         Projection!Restart, Projection!vars
  <1>4. aMatrix' \in Projection!Rectangles
    <2>1. CASE Projection!EnterValues
      <3>1. Projection!Configured(inputStr) \in Projection!Rectangles
        BY RectangleConfigured DEF CameraTyped
      <3> QED
        BY <2>1, <3>1 DEF Projection!EnterValues, CameraTyped
    <2>2. CASE aMatrix' = aMatrix \/ aMatrix' = Projection!Undefined
      BY <2>2 DEF CameraTyped, Projection!Rectangles
    <2> QED
      BY <2>1, <2>2 DEF Projection!Next, Projection!EnterCalibration,
         Projection!EnterConfiguration, Projection!Save, Projection!EnterProjection,
         Projection!Quit, Projection!TypeCharacter, Projection!Backspace,
         Projection!LeftClick, Projection!RightClick, Projection!EndCalibration,
         Projection!EndProjection, Projection!Restart, Projection!vars
  <1>5. bMatrix' \in Projection!CornerSets
    <2>1. points \in Projection!CornerSets
      BY DEF CameraInv, Counted, Projection!CornerSets
    <2>2. bMatrix' \in {bMatrix, Projection!Undefined, points}
      BY DEF Projection!Next, Projection!EnterCalibration, Projection!EnterConfiguration,
         Projection!Save, Projection!EnterProjection, Projection!Quit,
         Projection!TypeCharacter, Projection!Backspace, Projection!EnterValues,
         Projection!LeftClick, Projection!RightClick, Projection!EndCalibration,
         Projection!EndProjection, Projection!Restart, Projection!vars
    <2> QED
      BY <2>1, <2>2 DEF CameraTyped, Projection!CornerSets
  <1>6. [rectangle |-> aMatrix, corners |-> bMatrix] \in Projection!Projections
    BY DEF CameraTyped, Projection!Projections
  <1>7. Projection!UndefinedProjection \in Projection!Projections
    BY DEF Projection!UndefinedProjection, Projection!Projections,
           Projection!Rectangles, Projection!CornerSets
  <1>8. /\ projectionMatrix' \in Projection!Projections
        /\ file' \in Projection!Projections
    <2>1. CASE Projection!Save
      BY <1>6, <2>1 DEF Projection!Save, CameraTyped
    <2>2. CASE Projection!Restart
      BY <1>7, <2>2 DEF Projection!Restart, CameraTyped
    <2>3. CASE UNCHANGED <<projectionMatrix, file>>
      BY <2>3 DEF CameraTyped
    <2> QED
      BY <2>1, <2>2, <2>3 DEF Projection!Next, Projection!EnterCalibration,
         Projection!EnterConfiguration, Projection!EnterProjection, Projection!Quit,
         Projection!TypeCharacter, Projection!Backspace, Projection!EnterValues,
         Projection!LeftClick, Projection!RightClick, Projection!EndCalibration,
         Projection!EndProjection, Projection!vars
  <1> QED
    BY <1>2, <1>3, <1>4, <1>5, <1>8 DEF CameraTyped

LEMMA CameraTypes ==
    ASSUME Projection!ProjectionAssumption, CameraInv, CameraTyped
    PROVE  Projection!TypeOK
  <1>1. /\ clicks \in 0 .. MaxClicks /\ resets \subseteq 1 .. MaxClicks
        /\ iterator \in 0 .. Corners
    BY DEF CameraInv, Counted, Projection!ProjectionAssumption
  <1> QED
    BY <1>1 DEF CameraTyped, Projection!TypeOK

-----------------------------------------------------------------------------
(* The three together: whichever is calibrated keeps its own invariant.    *)

CalibrationInv ==
    /\ sensor = "IMU" => ImuInv
    /\ sensor = "angle" => AngleInv
    /\ sensor = "camera" => CameraInv /\ CameraTyped

LEMMA CalibrationInitially ==
    ASSUME CalibrationInit
    PROVE  CalibrationInv
  <1>1. sensor = "IMU" => ImuInv
    BY ImuInitially DEF CalibrationInit
  <1>2. sensor = "angle" => AngleInv
    BY AngleInitially, CalibrationAssumption DEF CalibrationInit
  <1>3. sensor = "camera" => CameraInv /\ CameraTyped
    BY CameraInitially, CameraTypedInitially, CalibrationAssumption DEF CalibrationInit
  <1> QED
    BY <1>1, <1>2, <1>3 DEF CalibrationInv

LEMMA CalibrationStep ==
    ASSUME CalibrationInv, [ImuNext \/ AngleNext \/ CameraNext]_calibrationVars
    PROVE  CalibrationInv'
  <1>1. CASE ImuNext
    BY <1>1, ImuStep DEF ImuNext, CalibrationInv
  <1>2. CASE AngleNext
    BY <1>2, AngleStep, CalibrationAssumption DEF AngleNext, CalibrationInv
  <1>3. CASE CameraNext
    BY <1>3, CameraStep, CameraTypedStep, CalibrationAssumption
       DEF CameraNext, CalibrationInv
  <1>4. CASE UNCHANGED calibrationVars
    <2>1. UNCHANGED <<sensor, vars, angleVars, cameraVars>>
      BY <1>4 DEF calibrationVars
    <2>2. sensor = "IMU" => ImuInv'
      BY <2>1, ImuStep DEF CalibrationInv
    <2>3. UNCHANGED <<pc, file, sent, starts, history>>
      BY <2>1 DEF vars, device, disk
    <2>4. UNCHANGED Anglesensor!vars
      BY <2>1, <2>3 DEF Anglesensor!vars, Anglesensor!calibration, Anglesensor!history,
         angleVars, history
    <2>5. sensor = "angle" => AngleInv'
      BY <2>4, AngleStep, CalibrationAssumption DEF CalibrationInv
    <2>6. UNCHANGED Projection!vars
      BY <2>1, <2>3 DEF Projection!vars, Projection!matrices, Projection!mouse, cameraVars
    <2>7. sensor = "camera" => CameraInv' /\ CameraTyped'
      BY <2>6, CameraStep, CameraTypedStep, CalibrationAssumption DEF CalibrationInv
    <2> QED
      BY <2>1, <2>2, <2>5, <2>7 DEF CalibrationInv
  <1> QED
    BY <1>1, <1>2, <1>3, <1>4

LEMMA CalibrationInvariance == CalibrationSpec => []CalibrationInv
  <1>1. CalibrationInit => CalibrationInv
    BY CalibrationInitially
  <1>2. CalibrationInv /\ [ImuNext \/ AngleNext \/ CameraNext]_calibrationVars
           => CalibrationInv'
    BY CalibrationStep
  <1> QED
    BY <1>1, <1>2, PTL DEF CalibrationSpec

-----------------------------------------------------------------------------
(* Memory, file and history of whichever is calibrated keep their types:   *)
(* the IMU's file never has more than its five lines, the angle sensor's   *)
(* values are two readings or none, and no number of the projection tool   *)
(* has more digits than were typed.                                        *)
THEOREM CalibrationTyped == CalibrationSpec => []CalibrationTypeOK
  <1>1. CalibrationInv => CalibrationTypeOK
    <2>1. ImuInv => TypeOK
      BY DEF ImuInv
    <2>2. AngleInv => Anglesensor!TypeOK
      BY DEF AngleInv
    <2>3. CameraInv /\ CameraTyped => Projection!TypeOK
      BY CameraTypes, CalibrationAssumption
    <2> QED
      BY <2>1, <2>2, <2>3 DEF CalibrationInv, CalibrationTypeOK
  <1> QED
    BY <1>1, CalibrationInvariance, PTL

(* An IMU that is not locked sends fractions of [-1,1], also with bounds   *)
(* of a file that was cut off, and none of a width below 0 otherwise.      *)
THEOREM ReadingsInRange == CalibrationSpec => []ImuSentInRange
  <1>1. CalibrationInv => ImuSentInRange
    BY DEF CalibrationInv, ImuInv, ImuSentInRange
  <1> QED
    BY <1>1, CalibrationInvariance, PTL

(* However often the IMU's bounds were saved and loaded, each is a reading *)
(* or a reading rounded once; or 0, after a save that was cut off or a     *)
(* start without the bus.                                                  *)
THEOREM BoundsAreReadings == CalibrationSpec => []ImuNothingInvented
  <1>1. CalibrationInv => ImuNothingInvented
    BY BoundsOfReadings DEF CalibrationInv, ImuNothingInvented
  <1> QED
    BY <1>1, CalibrationInvariance, PTL

(* Whoever asks the angle sensor for a calibration gets one: the values    *)
(* used, and saved, are readings of this run and not those of the file.    *)
THEOREM CalibrationFresh == CalibrationSpec => []AngleFreshWhenAsked
  <1>1. CalibrationInv => AngleFreshWhenAsked
    BY DEF CalibrationInv, AngleInv, AngleMeasured, AngleFreshWhenAsked
  <1> QED
    BY <1>1, CalibrationInvariance, PTL

(* A file without its values is left behind only by a save cut off or a    *)
(* run that failed: SaveCalibration empties it before it looks them up.    *)
THEOREM FileUsable == CalibrationSpec => []AngleUsableAfterCleanStop
  <1>1. CalibrationInv => AngleUsableAfterCleanStop
    BY DEF CalibrationInv, AngleInv, AngleKept, AngleUsableAfterCleanStop
  <1> QED
    BY <1>1, CalibrationInvariance, PTL

(* For any number of corners, clicks and calibrations, over restarts: what *)
(* Calibrate and Save make use of are corners clicked one after the other, *)
(* with no right click (LogMouseClicks) in between.                        *)
THEOREM CornersSafe == CalibrationSpec => []CameraCornersOfOneRound
  <1>1. CalibrationInv => CameraCornersOfOneRound
    BY CornersAreOfOneRound, CalibrationAssumption
       DEF CalibrationInv, CameraCornersOfOneRound
  <1> QED
    BY <1>1, CalibrationInvariance, PTL

(* A start that finds a file finds what was saved last, over any number of *)
(* crashes, failures and restarts: the angle sensor its two values, the    *)
(* IMU its bounds and average, but for the digits a file has not, and of a *)
(* save that was cut off its first lines and 0 for the others.             *)
THEOREM SavedIsFound == CalibrationSpec => SensorsFindWhatWasSaved
  <1>1. ImuInv => FoundAsSaved
    BY ValuesOfSave
  <1>2. AngleInv /\ Anglesensor!StartFromFile => rawReadingMinMax' = saved
    BY ValuesAreFound
  <1>3. CalibrationInv =>
           [/\ sensor = "IMU" => FoundAsSaved
            /\ sensor = "angle" /\ Anglesensor!StartFromFile =>
                  rawReadingMinMax' = saved]_calibrationVars
    BY <1>1, <1>2 DEF CalibrationInv
  <1> QED
    BY <1>3, CalibrationInvariance, PTL DEF SensorsFindWhatWasSaved
=============================================================================
