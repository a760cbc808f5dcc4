-------------------------- MODULE MCTimeTriggered ---------------------------
(***************************************************************************)
(* One of the modules whose body works in time slices while somebody else  *)
(* interferes, chosen at the start and kept: the LED strip, the PS3        *)
(* controller, the schedule of the SICK proxy, a camera with its reader.   *)
(* Variables of the others stay as they are.                               *)
(*                                                                         *)
(* Angles of the LED strip on both sides of the cap, of the color limit    *)
(* and of a byte; braking, which is negative, as it is configured.         *)
(***************************************************************************)
EXTENDS ProxyLEDStrip

CONSTANTS
    MaxAxesValue, AccelerationMin, AccelerationMax, DecelerationMin, DecelerationMax,
    SteeringMax, QueueSize, MaxInputs,      \* PS3 controller
    MaxTroubles,                            \* SICK proxy
    MaxFrames, MaxAnnounced, MaxLost,       \* camera
    Unused

VARIABLES
    module,
    position, startup, queue, plugged, command, request, inputs, meant, moved,
    counter, port, scanner, decoded, troubles, troubled, deafStart,
    memory, valid, lock, camera, image, announced, reader, copy, expected, lost

PS3 == INSTANCE PS3Controller
Sick == INSTANCE ProxySick
Image == INSTANCE SharedImage

ASSUME TimeTriggeredAssumption ==
    PS3!PS3Assumption /\ Sick!ProxySickAssumption /\ Image!SharedImageAssumption

MCAngles == {-230, -61, -50, -11, 0, 10, 49, 75}
MCBraking == -10

ledVars == <<angle, seen, frame, aimPoints, disturbed, aims>>
ps3Vars == <<position, startup, queue, plugged, command, request, inputs, meant, moved>>
sickVars == <<counter, port, scanner, decoded, troubles, troubled, deafStart>>
imageVars == <<memory, valid, lock, camera, image, announced, reader, copy,
               expected, lost>>
moduleVars == <<module, pc, ledVars, ps3Vars, sickVars, imageVars>>

NoLed ==
    /\ angle = Unused /\ seen = Unused /\ frame = Unused
    /\ aimPoints = Unused /\ disturbed = FALSE
    /\ aimed = Unused /\ overwritten = FALSE
NoPS3 ==
    /\ position = Unused /\ startup = Unused /\ queue = Unused /\ plugged = TRUE
    /\ command = Unused /\ request = Unused /\ inputs = Unused
    /\ meant = Unused /\ moved = Unused
NoSick ==
    /\ counter = Unused /\ port = Unused /\ scanner = Unused /\ decoded = Unused
    /\ troubles = Unused /\ troubled = FALSE /\ deafStart = FALSE
NoImage ==
    /\ memory = Unused /\ valid = FALSE /\ lock = Unused /\ camera = Unused
    /\ image = Unused /\ announced = Unused /\ reader = Unused /\ copy = Unused
    /\ expected = Unused /\ lost = Unused

ModuleInit ==
    \/ module = "LED strip" /\ Init /\ NoPS3 /\ NoSick /\ NoImage
    \/ module = "PS3 controller" /\ PS3!Init /\ NoLed /\ NoSick /\ NoImage
    \/ module = "SICK" /\ Sick!Init /\ NoLed /\ NoPS3 /\ NoImage
    \/ module = "camera" /\ Image!Init /\ pc = Unused /\ NoLed /\ NoPS3 /\ NoSick

(* An action of one of them.                                               *)
OfLed(A) == module = "LED strip" /\ A /\ UNCHANGED <<module, ps3Vars, sickVars, imageVars>>
OfPS3(A) ==
    module = "PS3 controller" /\ A /\ UNCHANGED <<module, ledVars, sickVars, imageVars>>
OfSick(A) == module = "SICK" /\ A /\ UNCHANGED <<module, ledVars, ps3Vars, imageVars>>
OfImage(A) ==
    module = "camera" /\ A /\ UNCHANGED <<module, pc, ledVars, ps3Vars, sickVars>>

LedNext == OfLed(Next)
PS3Next == OfPS3(PS3!Next)
SickNext == OfSick(Sick!Next)
ImageNext == OfImage(Image!Next)

(* The fairness of their specifications.                                   *)
ModuleSpec ==
    /\ ModuleInit /\ [][LedNext \/ PS3Next \/ SickNext \/ ImageNext]_moduleVars
    /\ WF_moduleVars(OfLed(Body) \/ OfPS3(PS3!Body) \/ OfSick(Sick!Body)
                     \/ OfImage(Image!CameraBody))
    /\ WF_moduleVars(OfSick(Sick!Scan) \/ OfImage(Image!SetUpReader))
    /\ WF_moduleVars(OfImage(Image!Reader))
    /\ SF_moduleVars(OfImage(Image!LockForReading))
    /\ SF_moduleVars(OfImage(Image!LockMemory))

-----------------------------------------------------------------------------
(* The types of the variables.                                             *)
ModuleTypeOK ==
    CASE module = "LED strip" -> TypeOK
      [] module = "PS3 controller" -> PS3!TypeOK
      [] module = "SICK" -> Sick!TypeOK
      [] module = "camera" -> Image!TypeOK

(* Percentages of the LED strip, the check sum of its frame, and that it   *)
(* settles on the aim point that came last.                                *)
LedUndisturbedPercentage == module = "LED strip" => UndisturbedPercentage
LedChecksumOfFrame == module = "LED strip" => ChecksumOfFrame
LedFramesSettle == <>[](module = "LED strip" => LastAimShown)

(* What the PS3 controller asks for: nothing before a stick is moved, what *)
(* was meant last, and nothing when the joystick is gone.                  *)
PS3ZeroUntilMoved == module = "PS3 controller" => PS3!ZeroUntilMoved
PS3Settles ==
    /\ <>[](module = "PS3 controller" => PS3!Settled)
    /\ [](module = "PS3 controller" /\ ~plugged => <>(PS3!Stopped))

(* The scans of the SICK that are decoded, and that they come.             *)
SickOnlyCentimeters == module = "SICK" => Sick!OnlyCentimeters
SickScansAtLast ==
    [](module = "SICK" /\ Sick!ScheduleDone => <>(Sick!ScansOrTrouble))

(* The image that is shown, and that the last one is shown.                *)
ImageShownAsAnnounced == module = "camera" => Image!ShownAsAnnounced
ImageCatchesUp == <>[](module = "camera" => Image!CaughtUp)
=============================================================================
