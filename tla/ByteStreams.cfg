\* Applanix: payloads short enough for several messages to pass MaxBuffer,
\* chunks that split headers, payloads and footers everywhere.
\* SICK: chunks that split every header somewhere, that are too short to be
\* decoded, and that hold more than a whole telegram.
\* Trimble: chunks of a piece, of half a sentence, of one and of two.
\* Proxies: all six, with every part that may be missing.
SPECIFICATION StreamsSpec
CHECK_DEADLOCK FALSE
CONSTANTS
    Header = 8
    Footer = 4
    MaxBuffer = 30
    Word = 65536
    Payloads = {6, 13}
    Length = 5
    Chunks = {1, 11}
    HeaderLength = 7
    StartLength = 10
    PayloadLength = 5
    TrailerLength = 3
    Telegrams = {"measurement", "confirmation", "other"}
    SickLength = 4
    SickChunks = {1, 4, 13, 20}
    TrimbleLength = 4
    TrimbleChunks = {1, 4, 10, 19}
    Unused = Unused
INVARIANTS StreamsTypeOK ApplanixBufferInBounds SickBufferKeepsBytes TrimbleOnlyCutSentencesSpoil ProxyPartsAreThere
PROPERTIES AllPassOnMessages HeadersMissed
