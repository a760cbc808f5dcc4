\* No frame overflows: a turn has 16 beams, two of the firings may be counted
\* at the boundary.  A packet may be lost.
SPECIFICATION Spec
CHECK_DEADLOCK FALSE
CONSTANTS
    Turn = 8
    Step = 2
    Blocks = 3
    Sensors = 2
    MaxPoints = 20
    PointCloudOptions = {0, 1, 2}
    IntensityOptions = {1, 2}
    EchoPatterns = {{0, 1}, {1}}
    MaxPosition = 30
    MaxLost = 1
INVARIANTS NoFiringMissing HeaderMatchesRows CloudsAgree
PROPERTIES SPCRefinesScan CPCRefinesScan
