\* The comment of line 124: the focus is a percentage.
SPECIFICATION Spec
CHECK_DEADLOCK FALSE
CONSTANTS
    Cap = 50
    Angles = {0, 10, 49, 75, 230}
    MaxAimPoints = 4
INVARIANT Percentage
