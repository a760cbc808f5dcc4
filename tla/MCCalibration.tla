---------------------------- MODULE MCCalibration ----------------------------
(***************************************************************************)
(* One of the three things that are calibrated, chosen at the start and    *)
(* kept: the IMU, the angle sensor, the camera in the projection tool.     *)
(* Process, file and history are the same variables for the sensors, the   *)
(* file for all; those of the others stay at Unused.                       *)
(*                                                                         *)
(* The IMU has two readings below 0, so that bounds whose lower line was   *)
(* lost cross, and one above.                                              *)
(***************************************************************************)
EXTENDS PololuAltImu10Device

CONSTANTS
    RawReadings, Iterations,                    \* angle sensor
    Values, Corners, MaxInput, MaxClicks,       \* projection tool
    Unused

VARIABLES
    sensor,
    calibrationFile, setUpCalibration, least, greatest, i, rawReadingMinMax,
    mode, inputStr, points, iterator, aMatrix, bMatrix, projectionMatrix,
    clicks, resets

Anglesensor == INSTANCE ProxyAnglesensor WITH Readings <- RawReadings
Projection == INSTANCE CameraProjection

ASSUME CalibrationAssumption ==
    Anglesensor!AnglesensorAssumption /\ Projection!ProjectionAssumption

MCReadings == {-5, -3, 2}

angleVars == <<calibrationFile, setUpCalibration, least, greatest, i, rawReadingMinMax>>
imuVars == <<lockCalibration, bounds, gyroscopeAvg, fileExists, cut>>
processVars == <<pc, sent, starts, saved, seen, intact>>
cameraVars ==
    <<mode, inputStr, points, iterator, aMatrix, bMatrix, projectionMatrix,
      clicks, resets>>
calibrationVars == <<vars, sensor, angleVars, cameraVars>>

NoImu ==
    /\ lockCalibration = TRUE /\ bounds = Uncalibrated /\ gyroscopeAvg = Unused
    /\ fileExists = Unused /\ cut = FALSE
NoAngle ==
    /\ calibrationFile = Unused /\ setUpCalibration = Unused
    /\ least = Unused /\ greatest = Unused /\ i = Unused
    /\ rawReadingMinMax = Unused
NoCamera ==
    /\ mode = Unused /\ inputStr = Unused /\ points = Unused /\ iterator = Unused
    /\ aMatrix = Unused /\ bMatrix = Unused /\ projectionMatrix = Unused
    /\ clicks = Unused /\ resets = Unused

CalibrationInit ==
    \/ sensor = "IMU" /\ Init /\ NoAngle /\ NoCamera
    \/ sensor = "angle" /\ Anglesensor!Init /\ NoImu /\ NoCamera
    \/ /\ sensor = "camera" /\ Projection!Init /\ NoImu /\ NoAngle
       /\ pc = "off" /\ sent = Unused /\ starts = Unused
       /\ saved = Unused /\ seen = Unused /\ intact = Unused

ImuNext == sensor = "IMU" /\ Next /\ UNCHANGED <<sensor, angleVars, cameraVars>>
AngleNext ==
    sensor = "angle" /\ Anglesensor!Next /\ UNCHANGED <<sensor, imuVars, cameraVars>>
CameraNext ==
    /\ sensor = "camera" /\ Projection!Next
    /\ UNCHANGED <<sensor, imuVars, angleVars, processVars>>

(* The fairness of the IMU's specification.                                *)
CalibrationSpec ==
    /\ CalibrationInit /\ [][ImuNext \/ AngleNext \/ CameraNext]_calibrationVars
    /\ WF_calibrationVars(/\ sensor = "IMU" /\ Body
                          /\ UNCHANGED <<sensor, angleVars, cameraVars>>)
    /\ WF_calibrationVars(/\ sensor = "IMU" /\ (SaveLine \/ CloseSaved)
                          /\ UNCHANGED <<sensor, angleVars, cameraVars>>)

-----------------------------------------------------------------------------
(* The types of the variables.                                             *)
CalibrationTypeOK ==
    /\ sensor = "IMU" => TypeOK
    /\ sensor = "angle" => Anglesensor!TypeOK
    /\ sensor = "camera" => Projection!TypeOK

(* The readings the IMU sends, and the bounds it has, over restarts.       *)
ImuSentInRange == sensor = "IMU" => SentInRange
ImuNothingInvented == sensor = "IMU" => NothingInvented
ImuBoundsHeal ==
    sensor = "IMU" /\ pc # "off" /\ ~lockCalibration /\ Crossed
    ~> pc = "off" \/ ~Crossed

(* The values the angle sensor uses, and the file it leaves behind.        *)
AngleFreshWhenAsked == sensor = "angle" => Anglesensor!FreshWhenAsked
AngleUsableAfterCleanStop == sensor = "angle" => Anglesensor!UsableAfterCleanStop

(* The corners clicked for the camera, in the memory and in the file.      *)
CameraCornersOfOneRound == sensor = "camera" => Projection!CornersOfOneRound

(* A start of either sensor that finds a file finds what was saved last;   *)
(* of a save that was cut off, what the IMU had written of it.             *)
SensorsFindWhatWasSaved ==
    [][/\ sensor = "IMU" => FoundAsSaved
       /\ sensor = "angle" /\ Anglesensor!StartFromFile =>
              rawReadingMinMax' = saved]_calibrationVars
=============================================================================
