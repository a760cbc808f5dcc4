\* IMU: readings that are no multiples of Grain, on both sides of 0.
\* Angle sensor: four readings in a calibration, 0 among them.
\* Camera: corners begun twice, and configurations of one and of two numbers.
SPECIFICATION CalibrationSpec
CHECK_DEADLOCK FALSE
CONSTANTS
    Readings <- MCReadings
    Averages = {1}
    Grain = 2
    MaxStarts = 3
    RawReadings = {0, 2, 5}
    Iterations = 2
    Values = 2
    Corners = 3
    MaxInput = 3
    MaxClicks = 6
    Unused = Unused
INVARIANTS CalibrationTypeOK ImuSentInRange ImuNothingInvented AngleFreshWhenAsked AngleUsableAfterCleanStop CameraCornersOfOneRound
PROPERTIES SensorsFindWhatWasSaved ImuBoundsHeal
