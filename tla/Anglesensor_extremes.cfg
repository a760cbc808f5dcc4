\* One calibration of four readings, the first two of them included.
SPECIFICATION Spec
CHECK_DEADLOCK FALSE
CONSTANTS
    Readings = {0, 2, 5}
    Iterations = 2
    MaxStarts = 2
PROPERTY CalibrationCoversReadings
