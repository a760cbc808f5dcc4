--------------------------- MODULE ProxyLEDStrip ----------------------------
(***************************************************************************)
(* The LED strip (ProxyLEDStrip.cpp).  nextContainer stores the angle of   *)
(* an AimPoint on the thread of the conference, while body, once in a time *)
(* slice, caps the angle and sends a frame for it.  The two share m_angle  *)
(* without a lock: body reads it up to three times in a pass and writes it *)
(* back.                                                                   *)
(*                                                                         *)
(* Angles are integers, Cap (50) units are 45 degrees; a unit is then one  *)
(* percent of the strip.  A definition named ...Slip is a plausible        *)
(* mistake in the definition after it.                                     *)
(***************************************************************************)
EXTENDS Integers, Sequences, FiniteSets

CONSTANTS
    Cap,            \* 0.785398, 45 degrees
    Angles,         \* azimuth angles of the AimPoints that arrive
    MaxAimPoints    \* bound: AimPoints received

ASSUME LEDStripAssumption ==
    Cap = 50 /\ Angles \subseteq Int /\ MaxAimPoints \in Nat

VARIABLES
    angle,          \* m_angle
    pc, seen,       \* body, and the value of m_angle it has read
    frame,          \* the frame sent last
    aimPoints,      \* AimPoints received (bound only)
    disturbed,      \* an AimPoint has come since body began this pass (history)
    aimed,          \* the AimPoint that came last (history)
    overwritten     \* and whether it came before a cap was written (history)

aims == <<aimed, overwritten>>
vars == <<angle, pc, seen, frame, aimPoints, disturbed, aims>>

SectionSize == 50
Fade == 10
Byte == 0 .. 255
Color == [R : Byte, G : Byte, B : Byte]

(* m_R, m_G and m_B keep the values of the constructor.                    *)
OwnColor == [R |-> 0, G |-> 255, B |-> 0]
Green == [R |-> 0, G |-> 255, B |-> 0]
OrangeSlip == [R |-> 200, G |-> 50, B |-> 0]
Orange == [R |-> 200, G |-> 50, B |-> 5]

Magnitude(a) == IF a < 0 THEN -a ELSE a

(* The bitwise xor of the payload bytes, as the function of its bits, each *)
(* known by its weight.                                                    *)
Weights == {1, 2, 4, 8, 16, 32, 64, 128}
Bits == [Weights -> 0 .. 1]
PayloadXor(focus, color) ==
    LET payload == <<focus, SectionSize, Fade, color.R, color.G, color.B>>
        Has(j, w) == (payload[j] \div w) % 2 = 1
    IN  [w \in Weights |-> Cardinality({j \in DOMAIN payload : Has(j, w)}) % 2]

-----------------------------------------------------------------------------
FrameOf(focus) ==
    [focus |-> focus,
     color |-> IF Magnitude(focus - 50) <= 10 THEN Green ELSE Orange,
     checksum |-> PayloadXor(focus, OwnColor)]

(* A number that is no byte is converted to one: undefined in C++; it is   *)
(* truncated, and on some processors a negative one becomes 0.             *)
AsByteSlip(n) == {n}
AsByte(n) == IF n \in Byte THEN {n} ELSE {n % 256} \cup (IF n < 0 THEN {0} ELSE {})

Init ==
    /\ angle = 0
    /\ pc = "wait" /\ seen = 0
    /\ frame = FrameOf(50)      \* none yet: as if green had been sent
    /\ aimPoints = 0 /\ disturbed = FALSE
    /\ aimed = 0 /\ overwritten = FALSE

NextContainer ==
    /\ aimPoints < MaxAimPoints
    /\ \E a \in Angles : angle' = a /\ aimed' = a
    /\ aimPoints' = aimPoints + 1
    /\ disturbed' = TRUE /\ overwritten' = (pc = "cap")
    /\ UNCHANGED <<pc, seen, frame>>

TooLargeSlip(a) == a >= Cap
TooLarge(a) == Magnitude(a) >= Cap

StartPass ==
    /\ pc = "wait"
    /\ seen' = angle
    /\ pc' = IF TooLarge(angle) THEN "cap" ELSE "send"
    /\ disturbed' = FALSE
    /\ UNCHANGED <<angle, frame, aimPoints, aims>>

(* The sign is read again, or still in a register.                         *)
CapAngle ==
    /\ pc = "cap"
    /\ \E a \in {seen, angle} : angle' = IF a >= 0 THEN Cap ELSE -Cap
    /\ pc' = "send"
    /\ UNCHANGED <<seen, frame, aimPoints, disturbed, aims>>

SendFrame ==
    /\ pc = "send"
    /\ \E focus \in AsByte(50 - angle) : frame' = FrameOf(focus)
    /\ pc' = "wait"
    /\ UNCHANGED <<angle, seen, aimPoints, disturbed, aims>>

Body == StartPass \/ CapAngle \/ SendFrame

Next == NextContainer \/ StartPass \/ CapAngle \/ SendFrame

(* The body runs in every time slice.                                      *)
Spec == Init /\ [][Next]_vars /\ WF_vars(Body)

-----------------------------------------------------------------------------
(* The types of the variables.                                             *)
TypeOK ==
    /\ angle \in Int /\ seen \in Int
    /\ pc \in {"wait", "cap", "send"}
    /\ frame \in [focus : Byte, color : Color, checksum : Bits]
    /\ aimPoints \in 0 .. MaxAimPoints /\ disturbed \in BOOLEAN
    /\ aimed \in Int /\ overwritten \in BOOLEAN

(* "checksum resulting from the bitwise xor of the payload bytes" (line    *)
(* 130), though it is computed from other colors than the frame carries.   *)
ChecksumOfFrame == frame.checksum = PayloadXor(frame.focus, frame.color)

(* "a percentage value" (line 124): the frame lights a part of the strip.  *)
Percentage == frame.focus \in 0 .. 100

(* A pass that is not disturbed by an AimPoint sends a percentage.         *)
UndisturbedPercentage == pc = "wait" /\ ~disturbed => Percentage

(* Once no more AimPoints arrive, the frames settle on the one that came    *)
(* last, capped: an angle that slipped past the cap is capped in the next  *)
(* pass.  Only an AimPoint that came between the comparison with the cap   *)
(* and the write of it (lines 102 to 109) is lost, and an end of the strip *)
(* stays lit.                                                              *)
Capped(a) == IF Magnitude(a) < Cap THEN a ELSE IF a > 0 THEN Cap ELSE -Cap
LastAimShown ==
    IF overwritten THEN frame.focus \in {50 - Cap, 50 + Cap}
                   ELSE frame.focus = 50 - Capped(aimed)
FramesSettle == <>[]LastAimShown
=============================================================================
