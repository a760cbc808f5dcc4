\* The comment of line 473: data are added to the end of the buffer.
SPECIFICATION Spec
CHECK_DEADLOCK FALSE
CONSTANTS
    Header = 8
    Footer = 4
    MaxBuffer = 30
    Word = 65536
    Payloads = {6, 13}
    Length = 5
    Chunks = {1, 11}
INVARIANT EveryByteStored
