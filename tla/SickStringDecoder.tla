------------------------- MODULE SickStringDecoder --------------------------
(***************************************************************************)
(* The decoder of the SICK laser scanner (SickStringDecoder.cpp).  The     *)
(* serial line gives nextString the bytes in chunks of any size; as soon   *)
(* as ten are buffered, tryDecode is called until all are used up.         *)
(*                                                                         *)
(* Bytes are named by their number on the serial line, which carries a     *)
(* sequence of telegrams; a telegram can be told from its first bytes (no  *)
(* payload holds a header by chance).  m_buffer is what its calls do:      *)
(* str(s) replaces the contents and puts the write position at their       *)
(* beginning, write overwrites what stands there.                          *)
(*                                                                         *)
(* A definition named ...Slip is a plausible mistake in the definition     *)
(* after it; the runs are repeated with it to show that they would see it. *)
(***************************************************************************)
EXTENDS Integers, Sequences, FiniteSets

CONSTANTS
    HeaderLength,   \* HEADER_LENGTH (7)
    StartLength,    \* START_LENGTH (10), and the bytes nextString waits for
    PayloadLength,  \* MAX_NUMBER_OF_BYTES_PER_PAYLOAD (722)
    TrailerLength,  \* "three bytes trailing before the next sequence"
    Telegrams,      \* kinds of telegrams the scanner sends
    Length,         \* bound: telegrams on the line
    Chunks          \* sizes of the chunks the serial line delivers

SickAssumption ==
    /\ HeaderLength \in Nat \ {0} /\ StartLength \in Nat /\ HeaderLength < StartLength
    /\ PayloadLength \in Nat \ {0} /\ TrailerLength \in Nat \ {0}
    /\ Telegrams \subseteq {"measurement", "confirmation", "other"}
    /\ Length \in Nat /\ Chunks \subseteq Nat \ {0}

VARIABLES
    line,           \* the telegrams the scanner sends
    received,       \* bytes given to nextString so far
    buffer, put,    \* contents and write position of m_buffer
    header, startConfirmed, byteCounter, measurements,
    pc,
    delivered       \* the telegrams given to convertToDistances

state == <<header, startConfirmed, byteCounter, measurements>>
vars == <<line, received, buffer, put, state, pc, delivered>>

-----------------------------------------------------------------------------
LengthOf(kind) ==
    CASE kind = "measurement" -> HeaderLength + PayloadLength + TrailerLength
      [] kind = "confirmation" -> StartLength
      [] kind = "other" -> TrailerLength

StartOf[k \in 1 .. Len(line) + 1] ==
    IF k = 1 THEN 0 ELSE StartOf[k - 1] + LengthOf(line[k - 1])

Numbers == 1 .. Len(line)
Measurements == {k \in Numbers : line[k] = "measurement"}
LineLength == StartOf[Len(line) + 1]

(* The bytes from one number to another, as they are sent.                 *)
Bytes(first, count) == [i \in 1 .. count |-> first + i - 1]

Init ==
    /\ line \in [1 .. Length -> Telegrams]
    /\ received = 0
    /\ buffer = <<>> /\ put = 0
    /\ header = FALSE /\ startConfirmed = FALSE
    /\ byteCounter = 0 /\ measurements = [i \in 1 .. PayloadLength |-> -1]
    /\ pc = "idle"
    /\ delivered = <<>>

-----------------------------------------------------------------------------
(* ostream::write: over what stands behind the write position.             *)
Written(bytes) ==
    LET end == put + Len(bytes)
    IN  SubSeq(buffer, 1, put) \o bytes \o SubSeq(buffer, end + 1, Len(buffer))

NextString ==
    /\ pc = "idle"
    /\ \E n \in Chunks :
          /\ received + n <= LineLength
          /\ received' = received + n
          /\ buffer' = Written(Bytes(received, n))
          /\ put' = put + n
    /\ pc' = IF Len(buffer') >= StartLength THEN "decode" ELSE "idle"
    /\ UNCHANGED <<line, state, delivered>>

(* str(): what is left after the first n bytes, and whether the loop of    *)
(* nextString goes on.                                                     *)
LoopEndsSlip == Len(buffer') < StartLength
LoopEnds == buffer' = <<>>

Consume(n) ==
    /\ buffer' = SubSeq(buffer, n + 1, Len(buffer))
    /\ put' = 0
    /\ pc' = IF LoopEnds THEN "idle" ELSE "decode"
    /\ UNCHANGED <<line, received>>

BytesMissing == PayloadLength - byteCounter

StoredBytes == IF Len(buffer) < BytesMissing THEN Len(buffer) ELSE BytesMissing

StorePayload ==
    /\ pc = "decode"
    /\ header /\ byteCounter < PayloadLength
    /\ measurements' = [i \in 1 .. PayloadLength |->
                          IF i \in byteCounter + 1 .. byteCounter + StoredBytes
                          THEN buffer[i - byteCounter] ELSE measurements[i]]
    /\ byteCounter' = byteCounter + StoredBytes
    /\ Consume(StoredBytes)
    /\ UNCHANGED <<header, startConfirmed, delivered>>

(* Which telegram the measurements really are of, if of one.               *)
MeasuredTelegram ==
    LET matching == {k \in Measurements :
                       measurements = Bytes(StartOf[k] + HeaderLength, PayloadLength)}
    IN  IF matching = {} THEN 0 ELSE CHOOSE k \in matching : TRUE

(* The payload is complete: tryDecode does not use a byte, so nextString   *)
(* drops one.                                                              *)
DroppedAtEnd == 1

CompletePayload ==
    /\ pc = "decode"
    /\ header /\ byteCounter = PayloadLength
    /\ delivered' = Append(delivered, MeasuredTelegram)
    /\ header' = FALSE
    /\ Consume(DroppedAtEnd)
    /\ UNCHANGED <<startConfirmed, byteCounter, measurements>>

BeginsWith(kind, n) ==
    /\ Len(buffer) >= n
    /\ \E k \in Numbers : line[k] = kind /\ SubSeq(buffer, 1, n) = Bytes(StartOf[k], n)

CounterAtHeader == 0

FindHeader ==
    /\ pc = "decode"
    /\ ~header /\ BeginsWith("measurement", HeaderLength)
    /\ header' = TRUE
    /\ byteCounter' = CounterAtHeader
    /\ Consume(HeaderLength)
    /\ UNCHANGED <<startConfirmed, measurements, delivered>>

FindConfirmation ==
    /\ pc = "decode"
    /\ ~header /\ BeginsWith("confirmation", StartLength)
    /\ startConfirmed' = TRUE
    /\ Consume(StartLength)
    /\ UNCHANGED <<header, byteCounter, measurements, delivered>>

(* Nothing begins here: the first byte is dropped; the flag of the start   *)
(* confirmation falls back as soon as ten other bytes were compared.       *)
DroppedBytesSlip == StartLength - HeaderLength
DroppedBytes == 1

DropByte ==
    /\ pc = "decode"
    /\ ~header
    /\ ~BeginsWith("measurement", HeaderLength)
    /\ ~BeginsWith("confirmation", StartLength)
    /\ startConfirmed' = (startConfirmed /\ Len(buffer) < StartLength)
    /\ Consume(DroppedBytes)
    /\ UNCHANGED <<header, byteCounter, measurements, delivered>>

Next ==
    \/ NextString
    \/ StorePayload \/ CompletePayload
    \/ FindHeader \/ FindConfirmation
    \/ DropByte

Spec == Init /\ [][Next]_vars

-----------------------------------------------------------------------------
(* The types of the variables.                                             *)
TypeOK ==
    /\ received \in 0 .. LineLength
    /\ buffer \in Seq(0 .. LineLength - 1) /\ put \in 0 .. Len(buffer)
    /\ header \in BOOLEAN /\ startConfirmed \in BOOLEAN
    /\ byteCounter \in 0 .. PayloadLength
    /\ measurements \in [1 .. PayloadLength -> -1 .. LineLength - 1]
    /\ pc \in {"idle", "decode"}
    /\ delivered \in Seq(0 .. Length)

(* Between two calls the next byte is written behind the others, and the   *)
(* buffer holds the last bytes of the line, fewer than ten: it is used up  *)
(* or was never touched, as str() leaves the write position at the front.  *)
BufferKeepsBytes ==
    pc = "idle" =>
        /\ put = Len(buffer) /\ Len(buffer) < StartLength
        /\ buffer = Bytes(received - Len(buffer), Len(buffer))

(* Whatever the chunks, the measurements that are converted are the        *)
(* payload of one telegram, complete and in order, and each telegram is    *)
(* converted at most once.                                                 *)
LastByteOf(k) ==
    StartOf[k] + LengthOf(line[k]) - (IF k \in Measurements THEN TrailerLength ELSE 0)
Arrived == Cardinality({k \in Numbers : LastByteOf(k) <= received})

AsMessages == INSTANCE MessageStream WITH arrived <- Arrived
ConvertsTelegrams == AsMessages!StreamSpec

(* A telegram is missed only when its header was split, that is when some  *)
(* of the seven bytes had not arrived yet as the buffer was used up.       *)
Examined == received - Len(buffer)
PassesHeader(k) == Examined <= StartOf[k] /\ StartOf[k] < Examined'
FindsOrSplit ==
    \A k \in Measurements :
        PassesHeader(k) => FindHeader \/ received < StartOf[k] + HeaderLength
OnlySplitHeadersMissed == [][FindsOrSplit]_vars
=============================================================================
