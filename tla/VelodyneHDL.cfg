\* HDL-32E: MaxPoints is no multiple of Sensors, as 70000 is none of 32: the
\* last row of a full frame is begun and never written.
\* HDL-64E: a turn has 2 * 4 * 2 = 16 beams at most: with MaxPoints64 9 frames
\* overflow, in a lower block as well as in an upper one, or not.
SPECIFICATION HDLSpec
CHECK_DEADLOCK FALSE
CONSTANTS
    Turn = 8
    Step = 2
    Blocks = 2
    Sensors = 32
    MaxPoints = 80
    PointCloudOptions = {0, 1, 2}
    IntensityOptions = {0, 2}
    EchoPatterns <- MCEchoPatterns
    MaxPosition = 20
    MaxLost = 1
    Pairs = 2
    Sensors64 = 2
    MaxPoints64 = 9
    EchoPatterns64 = {{0, 1}, {1}}
INVARIANTS HDLTypeOK HDLCursorAligned HDLPartsBelongTogether HDLRowsInAnnouncedInterval
PROPERTY HDLRefinesScan
