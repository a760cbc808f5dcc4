--------------------------- MODULE CameraProjection --------------------------
(***************************************************************************)
(* The user interface of the camera projection tool (cameraprojection.cpp).*)
(* body takes a key in every time slice, or -1 when there was none, and    *)
(* follows it in the menu or adds it to the text of the configuration.     *)
(* Calibrate and Project wait for any key and take clicks meanwhile.  What *)
(* nextContainer shows is modelled in SharedImage.                         *)
(*                                                                         *)
(* A number is typed as that many digits: 3 is <<"digit", "digit",         *)
(* "digit">>; "-1" is the character of a slice without a key.  A matrix is *)
(* known by what it was computed from: the rectangle, the corners clicked; *)
(* or it is Undefined, uninitialised.  A definition named ...Slip is a     *)
(* plausible mistake in the definition after it.                           *)
(***************************************************************************)
EXTENDS Integers, Sequences, FiniteSets, FiniteSetsExt

CONSTANTS
    Values,         \* numbers of a configuration (4)
    Corners,        \* clicks of a calibration (4)
    MaxInput,       \* bound: characters of a configuration
    MaxClicks       \* bound: clicks in the life of the program

ProjectionAssumption ==
    /\ Values \in Nat \ {0} /\ Corners \in Nat \ {0}
    /\ MaxInput \in Nat /\ MaxClicks \in Nat

VARIABLES
    mode,           \* where body is
    inputStr,       \* m_inputStr
    points,         \* mouseClick: the numbers of the clicks stored
    iterator,
    aMatrix, bMatrix, projectionMatrix,
    file,           \* the matrix in the file
    clicks,         \* clicks so far (number of the last one)
    resets          \* clicks of the right button (history)

matrices == <<aMatrix, bMatrix, projectionMatrix>>
mouse == <<points, iterator, clicks, resets>>
vars == <<mode, inputStr, matrices, file, mouse>>

Undefined == <<>>
UndefinedProjection == [rectangle |-> Undefined, corners |-> Undefined]

-----------------------------------------------------------------------------
(* std::stod: the number at the beginning; 0 digits are an exception.      *)
DigitsOf(str) ==
    Max({n \in 0 .. Len(str) : \A i \in 1 .. n : str[i] = "digit"})

(* split: the fields between the commas.                                   *)
Nth(S, n) == CHOOSE i \in S : Cardinality({j \in S : j <= i}) = n
Fields(str) ==
    LET ends == {0, Len(str) + 1} \cup {i \in DOMAIN str : str[i] = ","}
    IN  [k \in 1 .. Cardinality(ends) - 1 |->
            SubSeq(str, Nth(ends, k) + 1, Nth(ends, k + 1) - 1)]

(* The numbers the loop parses before one cannot be parsed.                *)
Parsable(str) ==
    LET fields == Fields(str)
        good == {n \in 0 .. Len(fields) :
                    \A i \in 1 .. n : DigitsOf(fields[i]) > 0}
    IN  [i \in 1 .. Max(good) |-> DigitsOf(fields[i])]
Throws(str) == str # <<>> /\ Len(Parsable(str)) < Len(Fields(str))

(* Config is called after every number, and takes exactly four.            *)
Configured(str) ==
    IF Len(Parsable(str)) >= Values
    THEN SubSeq(Parsable(str), 1, Values) ELSE aMatrix

(* What the user typed: the slices without a key left out.                 *)
Typed(str) ==
    LET fields == Fields(str)
        Digits(field) == Cardinality({i \in DOMAIN field : field[i] = "digit"})
    IN  [k \in DOMAIN fields |-> Digits(fields[k])]

-----------------------------------------------------------------------------
Started ==
    /\ mode = "menu" /\ inputStr = <<>>
    /\ points = [i \in 1 .. Corners |-> 0] /\ iterator = 0
    /\ aMatrix = Undefined /\ bMatrix = Undefined
    /\ projectionMatrix = UndefinedProjection

Init == Started /\ file = UndefinedProjection /\ clicks = 0 /\ resets = {}

(* Menu mode: the keys c, r, s, p and q (or escape).  The key e reads the  *)
(* file into a matrix nobody uses; other keys do nothing.                  *)
EnterCalibration ==
    /\ mode = "menu"
    /\ mode' = "calibrate"
    /\ iterator' = 0 /\ points' = [i \in 1 .. Corners |-> 0]
    /\ UNCHANGED <<inputStr, matrices, file, clicks, resets>>

EnterConfiguration ==
    /\ mode = "menu"
    /\ mode' = "configure"
    /\ UNCHANGED <<inputStr, matrices, file, mouse>>

(* The file may be one that cannot be opened.                              *)
Save ==
    /\ mode = "menu"
    /\ projectionMatrix' = [rectangle |-> aMatrix, corners |-> bMatrix]
    /\ file' = projectionMatrix' \/ UNCHANGED file
    /\ UNCHANGED <<mode, inputStr, aMatrix, bMatrix, mouse>>

EnterProjection ==
    /\ mode = "menu"
    /\ mode' = "project"
    /\ UNCHANGED <<inputStr, matrices, file, mouse>>

Quit ==
    /\ mode = "menu"
    /\ mode' = "ended"
    /\ UNCHANGED <<inputStr, matrices, file, mouse>>

-----------------------------------------------------------------------------
(* Configuration: a character, also that of no key; backspace; return.     *)
TypeCharacter ==
    /\ mode = "configure" /\ Len(inputStr) < MaxInput
    /\ \E c \in {"digit", ",", "-1"} : inputStr' = Append(inputStr, c)
    /\ UNCHANGED <<mode, matrices, file, mouse>>

Backspace ==
    /\ mode = "configure"
    /\ inputStr' = SubSeq(inputStr, 1, Len(inputStr) - 1)
    /\ UNCHANGED <<mode, matrices, file, mouse>>

(* std::invalid_argument is no cv::Exception: the program ends.            *)
EnterValues ==
    /\ mode = "configure"
    /\ IF Throws(inputStr)
       THEN mode' = "crashed" /\ UNCHANGED inputStr
       ELSE mode' = "menu" /\ inputStr' = <<>>
    /\ aMatrix' = IF inputStr = <<>> THEN aMatrix ELSE Configured(inputStr)
    /\ UNCHANGED <<bMatrix, projectionMatrix, file, mouse>>

-----------------------------------------------------------------------------
(* LogMouseClicks, while Calibrate waits.                                  *)
LeftClick ==
    /\ mode = "calibrate" /\ clicks < MaxClicks
    /\ clicks' = clicks + 1
    /\ IF iterator < Corners
       THEN /\ points' = [points EXCEPT ![iterator + 1] = clicks']
            /\ iterator' = iterator + 1
       ELSE UNCHANGED <<points, iterator>>
    /\ UNCHANGED <<mode, inputStr, matrices, file, resets>>

RightClick ==
    /\ mode = "calibrate" /\ clicks < MaxClicks
    /\ clicks' = clicks + 1 /\ resets' = resets \cup {clicks'}
    /\ iterator' = 0
    /\ UNCHANGED <<mode, inputStr, points, matrices, file>>

EnoughSlip == points[Corners] # 0
Enough == iterator >= Corners
EndCalibration ==
    /\ mode = "calibrate"
    /\ mode' = "menu"
    /\ bMatrix' = IF Enough THEN points ELSE bMatrix
    /\ UNCHANGED <<inputStr, aMatrix, projectionMatrix, file, mouse>>

(* Clicks are projected and printed; any key ends it.                      *)
EndProjection ==
    /\ mode = "project"
    /\ mode' = "menu"
    /\ UNCHANGED <<inputStr, matrices, file, mouse>>

(* The tool is started again.                                              *)
Restart ==
    /\ mode \in {"ended", "crashed"}
    /\ mode' = "menu" /\ inputStr' = <<>>
    /\ aMatrix' = Undefined /\ bMatrix' = Undefined
    /\ projectionMatrix' = UndefinedProjection
    /\ UNCHANGED <<file, mouse>>

Next ==
    \/ EnterCalibration \/ EnterConfiguration \/ Save \/ EnterProjection \/ Quit
    \/ TypeCharacter \/ Backspace \/ EnterValues
    \/ LeftClick \/ RightClick \/ EndCalibration \/ EndProjection \/ Restart

Spec == Init /\ [][Next]_vars

-----------------------------------------------------------------------------
(* The types of the variables.                                             *)
Rectangles == {Undefined} \cup [1 .. Values -> 0 .. MaxInput]
CornerSets == {Undefined} \cup [1 .. Corners -> 0 .. MaxClicks]
Projections == [rectangle : Rectangles, corners : CornerSets]
TypeOK ==
    /\ mode \in {"menu", "configure", "calibrate", "project", "ended", "crashed"}
    /\ Len(inputStr) <= MaxInput /\ iterator \in 0 .. Corners
    /\ aMatrix \in Rectangles /\ bMatrix \in CornerSets
    /\ projectionMatrix \in Projections /\ file \in Projections
    /\ clicks \in 0 .. MaxClicks /\ resets \subseteq 1 .. MaxClicks

(* The corners a matrix is computed from, in the memory or in the file,    *)
(* are clicked one after the other in one calibration that no right click  *)
(* began again in between.                                                 *)
OfOneRound(corners) ==
    corners = Undefined
    \/ /\ \A i \in 1 .. Corners - 1 : corners[i + 1] = corners[i] + 1
       /\ \A i \in 1 .. Corners : corners[i] \notin resets \cup {0}
CornersOfOneRound ==
    OfOneRound(bMatrix) /\ OfOneRound(file.corners)

(* "Enter the values seperated by commas: 'width,height,xposition,         *)
(* yposition' and enter with space" (line 210): who does that has          *)
(* configured them, when the tool is back in its menu, or left it.         *)
EnteredIsConfigured ==
    [][/\ mode = "configure" /\ mode' # "configure"
       /\ Len(Typed(inputStr)) = Values
       /\ \A k \in 1 .. Values : Typed(inputStr)[k] > 0
       => aMatrix' = Typed(inputStr)]_vars
=============================================================================
