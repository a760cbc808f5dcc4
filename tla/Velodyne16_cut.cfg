\* The comments of lines 219 and 292: a frame is sent when a scan is complete.
SPECIFICATION Spec
CHECK_DEADLOCK FALSE
CONSTANTS
    Turn = 8
    Step = 2
    Blocks = 3
    Sensors = 2
    MaxPoints = 9
    PointCloudOptions = {0, 1, 2}
    IntensityOptions = {1, 2}
    EchoPatterns = {{0, 1}, {1}}
    MaxPosition = 24
    MaxLost = 1
PROPERTY CutOnlyAtTurn
