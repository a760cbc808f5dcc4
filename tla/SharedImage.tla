---------------------------- MODULE SharedImage ------------------------------
(***************************************************************************)
(* An image in shared memory: a module with a camera (proxy-camera,        *)
(* proxy-camera-axis, tool/camera-replay) and a module that shows the      *)
(* images (tool/camera-projection).  In every time slice the camera        *)
(* captures a frame, copies it into the memory under its lock, and sends   *)
(* a SharedImage; it sends it also when no frame was captured.  A          *)
(* SharedImage carries no number: the reader copies whatever is in the     *)
(* memory by then.                                                         *)
(*                                                                         *)
(* Frames are numbers, and an image is a pair of halves, as a copy is no   *)
(* atomic step.  A definition named ...Slip is a plausible mistake in the  *)
(* definition after it.                                                    *)
(***************************************************************************)
EXTENDS Integers, Sequences

CONSTANTS
    MaxFrames,      \* bound: frames the device delivers before its end
    MaxAnnounced,   \* bound: SharedImages under way to the reader
    MaxLost         \* bound: SharedImages the network loses

SharedImageAssumption ==
    MaxFrames \in Nat /\ MaxAnnounced \in Nat \ {0} /\ MaxLost \in Nat

VARIABLES
    memory,         \* the shared memory, a pair of frames
    valid,          \* m_sharedMemory->isValid(), for both
    lock,           \* who holds its lock
    camera, image,  \* the camera: what it does, m_image
    announced,      \* SharedImages under way: the frame in memory when sent (history)
    reader, copy,   \* the reader: what it does, its m_image
    expected,       \* the frame that was announced to it (history)
    lost

vars == <<memory, valid, lock, camera, image, announced, reader, copy, expected, lost>>

Frames == 0 .. MaxFrames        \* 0 before the first frame
Whole(frame) == <<frame, frame>>

Init ==
    /\ memory = Whole(0) /\ valid \in BOOLEAN /\ lock = "free"
    /\ camera = "waiting" /\ image = 0
    /\ announced = <<>> /\ lost = 0
    /\ reader = "starting" /\ copy = Whole(0) /\ expected = 0

-----------------------------------------------------------------------------
(* Camera::capture, and the body that sends what it returns.               *)
CaptureFrame ==
    /\ camera = "waiting" /\ image < MaxFrames
    /\ image' = image + 1
    /\ camera' = IF valid THEN "locking" ELSE "captured"
    /\ UNCHANGED <<memory, valid, lock, announced, reader, copy, expected, lost>>

(* No device, no frame from it, or the end of the file.                    *)
AfterFailureSlip == "waiting"
AfterFailure == "captured"
FailCapture ==
    /\ camera = "waiting"
    /\ camera' = AfterFailure
    /\ UNCHANGED <<memory, valid, lock, image, announced, reader, copy, expected, lost>>

MayCopySlip(me) == TRUE
MayCopy(me) == lock = "free"

LockMemory ==
    /\ camera = "locking" /\ MayCopy("camera")
    /\ lock' = "camera" /\ camera' = "copying"
    /\ UNCHANGED <<memory, valid, image, announced, reader, copy, expected, lost>>

CopyImageTo ==
    /\ camera = "copying"
    /\ IF memory[1] # image
       THEN /\ memory' = [memory EXCEPT ![1] = image]
            /\ UNCHANGED <<camera, lock>>
       ELSE /\ memory' = [memory EXCEPT ![2] = image]
            /\ lock' = "free" /\ camera' = "captured"
    /\ UNCHANGED <<valid, image, announced, reader, copy, expected, lost>>

Send ==
    /\ camera = "captured" /\ Len(announced) < MaxAnnounced
    /\ announced' = Append(announced, memory[1])
    /\ camera' = "waiting"
    /\ UNCHANGED <<memory, valid, lock, image, reader, copy, expected, lost>>

(* SharedImages are sent in datagrams.                                     *)
Lose ==
    /\ announced # <<>> /\ lost < MaxLost
    /\ announced' = Tail(announced) /\ lost' = lost + 1
    /\ UNCHANGED <<memory, valid, lock, camera, image, reader, copy, expected>>

-----------------------------------------------------------------------------
(* CameraProjection: setUp, and nextContainer for a SharedImage of the     *)
(* right name.  It is ignored while setUp is not done, and when the memory *)
(* cannot be attached.                                                     *)
SetUpReader ==
    /\ reader = "starting"
    /\ reader' = "idle"
    /\ UNCHANGED <<memory, valid, lock, camera, image, announced, copy, expected, lost>>

NextContainer ==
    /\ reader \in {"starting", "idle"} /\ announced # <<>>
    /\ announced' = Tail(announced)
    /\ IF reader = "idle" /\ valid
       THEN reader' = "locking" /\ expected' = Head(announced)
       ELSE UNCHANGED <<reader, expected>>
    /\ UNCHANGED <<memory, valid, lock, camera, image, copy, lost>>

LockForReading ==
    /\ reader = "locking" /\ MayCopy("reader")
    /\ lock' = "reader" /\ reader' = "copying"
    /\ UNCHANGED <<memory, valid, camera, image, announced, copy, expected, lost>>

(* memcpy, the second half with the unlock and imshow.                     *)
CopyFirstHalf ==
    /\ reader = "copying"
    /\ copy' = [copy EXCEPT ![1] = memory[1]] /\ reader' = "halfway"
    /\ UNCHANGED <<memory, valid, lock, camera, image, announced, expected, lost>>
CopySecondHalf ==
    /\ reader = "halfway"
    /\ copy' = [copy EXCEPT ![2] = memory[2]] /\ reader' = "idle"
    /\ lock' = "free"
    /\ UNCHANGED <<memory, valid, camera, image, announced, expected, lost>>

CameraBody == CaptureFrame \/ FailCapture \/ LockMemory \/ CopyImageTo \/ Send
Reader ==
    SetUpReader \/ NextContainer \/ LockForReading \/ CopyFirstHalf \/ CopySecondHalf

Next ==
    \/ CaptureFrame \/ FailCapture \/ LockMemory \/ CopyImageTo \/ Send \/ Lose
    \/ SetUpReader \/ NextContainer
    \/ LockForReading \/ CopyFirstHalf \/ CopySecondHalf

(* Time slices come, containers are delivered to a listener, and a lock    *)
(* that is freed again and again is obtained.                              *)
Spec ==
    /\ Init /\ [][Next]_vars
    /\ WF_vars(CameraBody) /\ WF_vars(SetUpReader)
    /\ WF_vars(Reader) /\ SF_vars(LockForReading) /\ SF_vars(LockMemory)

-----------------------------------------------------------------------------
(* The types of the variables.                                             *)
TypeOK ==
    /\ memory \in Frames \X Frames /\ copy \in Frames \X Frames
    /\ valid \in BOOLEAN /\ lock \in {"free", "camera", "reader"}
    /\ camera \in {"waiting", "locking", "copying", "captured"} /\ image \in Frames
    /\ reader \in {"starting", "idle", "locking", "copying", "halfway"}
    /\ expected \in Frames /\ Len(announced) <= MaxAnnounced /\ lost \in 0 .. MaxLost

(* What is shown is one frame, and at least as new as the one the          *)
(* SharedImage announced: the image is in the memory before it is sent     *)
(* for, and a frame never gives way to an older one.                       *)
ShownAsAnnounced == reader = "idle" => copy[1] = copy[2] /\ copy[1] >= expected

(* The reader catches up with the camera, whichever SharedImages are lost: *)
(* they are also sent when there is no new frame, until the reader has     *)
(* seen the last one.                                                      *)
CaughtUp == copy = memory /\ (valid => memory = Whole(image))
CatchesUp == <>[]CaughtUp
=============================================================================
