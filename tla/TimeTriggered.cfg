\* LED strip: four aim points. PS3 controller: a queue that overflows at
\* the third event, and inputs before, in and after an overflow. SICK: enough troubles
\* for a run that loses power and port, and a crash after it. Camera: the last
\* SharedImages of all can be lost.
SPECIFICATION ModuleSpec
CHECK_DEADLOCK FALSE
CONSTANTS
    Cap = 50
    Angles <- MCAngles
    MaxAimPoints = 4
    MaxAxesValue = 2
    AccelerationMin = 0
    AccelerationMax = 50
    DecelerationMin = 0
    DecelerationMax <- MCBraking
    SteeringMax = 10
    QueueSize = 3
    MaxInputs = 6
    MaxTroubles = 4
    MaxFrames = 3
    MaxAnnounced = 2
    MaxLost = 3
    Unused = Unused
INVARIANTS ModuleTypeOK LedUndisturbedPercentage LedChecksumOfFrame PS3ZeroUntilMoved SickOnlyCentimeters ImageShownAsAnnounced
PROPERTIES LedFramesSettle PS3Settles SickScansAtLast ImageCatchesUp
