\* A turn has 16 beams: with MaxPoints 9 frames overflow in the first and the
\* second half of a block.  A packet may be lost.
SPECIFICATION Spec
CHECK_DEADLOCK FALSE
CONSTANTS
    Turn = 8
    Step = 2
    Blocks = 3
    Sensors = 2
    MaxPoints = 9
    PointCloudOptions = {0, 1, 2}
    IntensityOptions = {1, 2}
    EchoPatterns = {{0, 1}, {1}}
    MaxPosition = 24
    MaxLost = 1
INVARIANTS TypeOK SegmentBounds CursorAligned RowAccounting AzimuthsAscend
