----------------------- MODULE ApplanixStringDecoder ------------------------
(***************************************************************************)
(* The decoder of the Applanix POS (ApplanixStringDecoder.cpp).  TCP gives *)
(* nextString the bytes in chunks of any size; a stringstream keeps them,  *)
(* and a loop looks for the header of a known message, waits for its       *)
(* payload, decodes and sends it.                                          *)
(*                                                                         *)
(* Bytes are named by their number in the TCP stream; the stream is a      *)
(* sequence of messages, and a "$GRP" starts a message (no payload holds   *)
(* one by chance).  The stringstream is what its calls do: size is tellp,  *)
(* a failed seek or read makes it bad, and then it stores and reads        *)
(* nothing until clear().                                                  *)
(*                                                                         *)
(* A definition named ...Slip is a plausible mistake in the definition     *)
(* after it; the runs are repeated with it to show that they would see it. *)
(***************************************************************************)
EXTENDS Integers, Sequences, FiniteSets

CONSTANTS
    Header,         \* GRP_HEADER_SIZE (8)
    Footer,         \* GRP_FOOTER_SIZE (4): check sum and "$#"
    MaxBuffer,      \* MAX_BUFFER
    Word,           \* 2^32: unsigned differences wrap around
    Payloads,       \* payload sizes a header may announce
    Length,         \* bound: messages in the stream
    Chunks          \* sizes of the chunks TCP delivers

ASSUME ApplanixAssumption ==
    /\ Header = 8 /\ Footer = 4
    /\ MaxBuffer \in Nat /\ Header < MaxBuffer /\ Word \in Nat /\ Length \in Nat
    /\ Payloads \subseteq Nat /\ Payloads # {} /\ \A p \in Payloads : p > Footer
    /\ Chunks \subseteq Nat \ {0}
    \* A chunk is 64 kB at most, and the buffer far from its 4 GB.
    /\ \A n \in Chunks : n <= 2 * MaxBuffer
    /\ \A p \in Payloads : 4 * MaxBuffer + 2 * Header + p < Word

VARIABLES
    stream,         \* the messages the device sends
    received,       \* bytes given to nextString so far
    base,           \* byte of the stream that is the first one in m_buffer
    good, size, tellg,                                  \* m_buffer
    foundHeader, buffering, payloadSize, toRemove,
    nextMessage,    \* the message a header was found of, 0 if UNKNOWN
    pc,
    delivered       \* what was sent to the conference

network == <<stream, received>>
buffer == <<base, good, size, tellg>>
header == <<foundHeader, buffering, payloadSize, nextMessage>>
vars == <<network, buffer, header, toRemove, pc, delivered>>

Messages == [known : BOOLEAN, payload : Payloads]

-----------------------------------------------------------------------------
(* The wire format.  The size a header announces counts everything behind  *)
(* the header, the footer too (lines 376 and 418 take it off again).       *)

StartOf[k \in 1 .. Len(stream) + 1] ==
    IF k = 1 THEN 0 ELSE StartOf[k - 1] + (Header + stream[k - 1].payload)
EndOf(k) == StartOf[k + 1]

Numbers == 1 .. Len(stream)
KnownMessages == {k \in Numbers : stream[k].known}
StreamLength == StartOf[Len(stream) + 1]

-----------------------------------------------------------------------------
Init ==
    /\ stream \in [1 .. Length -> Messages]
    /\ received = 0 /\ base = 0
    /\ good = TRUE /\ size = 0 /\ tellg = 0
    /\ foundHeader = FALSE /\ buffering = FALSE /\ payloadSize = 0 /\ toRemove = 0
    /\ nextMessage = 0
    /\ pc = "idle"
    /\ delivered = <<>>

(* Append the chunk and go back to where reading goes on.                  *)
NextString ==
    /\ pc = "idle"
    /\ \E n \in Chunks :
          /\ received + n <= StreamLength
          /\ received' = received + n
          /\ size' = IF good THEN size + n ELSE size
    /\ good' = (good /\ toRemove <= size')
    /\ tellg' = IF good' THEN toRemove ELSE -1
    /\ pc' = "loop"
    /\ UNCHANGED <<stream, base, header, toRemove, delivered>>

-----------------------------------------------------------------------------
(* toRemove is counted twice, as tellg already stands there; and the       *)
(* difference is unsigned.                                                 *)
Available == (size - (tellg + toRemove)) % Word

MoreToRead == good /\ tellg + toRemove + Header < size

PayloadComplete == Available >= payloadSize

(* The stream position a payload is decoded at tells which message it is   *)
(* really, if any.                                                         *)
DecodedAt(byte) ==
    LET matching == {k \in Numbers : byte = StartOf[k] + Header}
    IN  IF nextMessage \in matching THEN nextMessage ELSE 0

(* The fields up to the footer are read; the footer is not.                *)
BehindData == toRemove + payloadSize - Footer

MovePast == toRemove + payloadSize + Footer

NextAfterDecodingSlip == nextMessage
NextAfterDecoding == 0

DecodePayload ==
    /\ pc = "loop"
    /\ MoreToRead /\ buffering /\ PayloadComplete
    /\ delivered' = Append(delivered, DecodedAt(base + toRemove))
    /\ tellg' = BehindData
    /\ buffering' = FALSE /\ foundHeader' = FALSE /\ payloadSize' = 0
    /\ nextMessage' = NextAfterDecoding
    /\ toRemove' = MovePast
    /\ pc' = "header"
    /\ UNCHANGED <<network, base, good, size>>

HeaderTurn ==
    \/ pc = "header"
    \/ pc = "loop" /\ MoreToRead /\ ~buffering

(* The test before a header is read.                                       *)
HeaderReadable == ~foundHeader /\ Available >= Header

HeaderAt(byte) == {k \in KnownMessages : StartOf[k] = byte}

BehindHeaderSlip == toRemove + Header - 2
BehindHeader == toRemove + Header

ReadHeader ==
    /\ HeaderTurn
    /\ HeaderReadable /\ toRemove + Header <= size
    /\ \E k \in HeaderAt(base + toRemove) :
          /\ nextMessage' = k
          /\ payloadSize' = stream[k].payload
    /\ foundHeader' = TRUE /\ buffering' = TRUE
    /\ tellg' = toRemove + Header
    /\ toRemove' = BehindHeader
    /\ pc' = "loop"
    /\ UNCHANGED <<network, base, good, size, delivered>>

(* "$GRP" and the group number are read, and are not those of a message    *)
(* that is decoded.                                                        *)
NextByte == toRemove + 1

SkipByte ==
    /\ HeaderTurn
    /\ HeaderReadable /\ toRemove + 6 <= size
    /\ HeaderAt(base + toRemove) = {}
    /\ tellg' = toRemove + 6
    /\ toRemove' = NextByte
    /\ pc' = "loop"
    /\ UNCHANGED <<network, base, good, size, header, delivered>>

(* The unsigned difference has wrapped around and the header is read where *)
(* there are not enough bytes: the stream fails.  (What else the pass      *)
(* assigns is never looked at again.)                                      *)
ReadPastEnd ==
    /\ HeaderTurn
    /\ HeaderReadable
    /\ IF HeaderAt(base + toRemove) = {}
       THEN toRemove + 6 > size ELSE toRemove + Header > size
    /\ good' = FALSE
    /\ tellg' = -1
    /\ pc' = "loop"
    /\ UNCHANGED <<network, base, size, header, toRemove, delivered>>

NoHeaderYet ==
    /\ HeaderTurn
    /\ ~HeaderReadable
    /\ pc' = "loop"
    /\ UNCHANGED <<network, buffer, header, toRemove, delivered>>

-----------------------------------------------------------------------------
Exhausted ==
    /\ pc = "loop"
    /\ ~MoreToRead \/ (buffering /\ ~PayloadComplete)

DiscardDueSlip == tellg > 0 /\ toRemove > MaxBuffer /\ ~buffering
DiscardDue == tellg > 0 /\ toRemove > MaxBuffer

KeepBuffer ==
    /\ Exhausted
    /\ ~DiscardDue
    /\ pc' = "idle"
    /\ UNCHANGED <<network, buffer, header, toRemove, delivered>>

(* What is discarded is what was read, up to tellg, and not what was       *)
(* examined, up to toRemove.                                               *)
ResumeAt == 0

DiscardRead ==
    /\ Exhausted
    /\ DiscardDue
    /\ base' = base + tellg /\ size' = size - tellg
    /\ good' = TRUE /\ tellg' = 0
    /\ toRemove' = ResumeAt
    /\ pc' = "idle"
    /\ UNCHANGED <<network, header, delivered>>

Next ==
    \/ NextString
    \/ DecodePayload
    \/ ReadHeader \/ SkipByte \/ ReadPastEnd \/ NoHeaderYet
    \/ KeepBuffer \/ DiscardRead

Spec == Init /\ [][Next]_vars

-----------------------------------------------------------------------------
(* The types of the variables; foundHeader and buffering always agree, and *)
(* name a message exactly then.                                            *)
TypeOK ==
    /\ received \in 0 .. StreamLength /\ base \in Nat
    /\ good \in BOOLEAN /\ size \in Nat /\ tellg \in -1 .. size
    /\ foundHeader \in BOOLEAN /\ buffering = foundHeader
    /\ payloadSize \in Payloads \cup {0} /\ toRemove \in Nat
    /\ nextMessage \in KnownMessages \cup {0}
    /\ buffering <=> nextMessage # 0
    /\ pc \in {"idle", "loop", "header"}
    /\ delivered \in Seq(0 .. Length)

(* The seek a call begins with stays inside the buffer, whatever was       *)
(* discarded: while the stream is good a call finds its bytes again.       *)
SeekInBuffer == pc = "idle" /\ good => toRemove <= size

(* Whatever the chunks, the decoder passes on whole messages in order.     *)
Arrived == Cardinality({k \in Numbers : EndOf(k) <= received})

AsMessages == INSTANCE MessageStream WITH arrived <- Arrived
PassesOnMessages == AsMessages!StreamSpec

(* Between two calls at most the bytes behind MAX_BUFFER, as many again    *)
(* and a message are kept: the buffer does not grow with the stream (while *)
(* the stream is good, and after it as nothing is stored).                 *)
LargestMessage == CHOOSE p \in Payloads : \A q \in Payloads : q <= p
BufferBounded ==
    pc = "idle" => size <= 2 * MaxBuffer + 2 * Header + LargestMessage

(* The byte examined next: all known headers before it were found, or were *)
(* jumped over by a step of another kind.                                  *)
Examined == base + toRemove
PassesHeader(k) == Examined <= StartOf[k] /\ StartOf[k] < Examined'

(* While it looks for a header the decoder overlooks none, however the     *)
(* header is split into chunks: a known message is missed only directly    *)
(* behind one that was decoded, or where the buffer was discarded.         *)
FollowsDecoded(k) == k > 1 /\ nextMessage = k - 1 /\ DecodePayload
FindsOrExcuses ==
    \A k \in KnownMessages :
        PassesHeader(k) => nextMessage' = k \/ FollowsDecoded(k) \/ DiscardRead
NoHeaderOverlooked == [][FindsOrExcuses]_vars

(* "Nothing known found; skip this byte and try again" (line 652): bytes   *)
(* are skipped when no known message starts there.                         *)
KnownHeadersNotSkipped ==
    [][\A k \in KnownMessages : PassesHeader(k) => nextMessage' = k]_vars

(* "Add data to the end..." (line 473): every byte given to nextString is  *)
(* in the buffer, until it is discarded.                                   *)
EveryByteStored == pc = "idle" => base + size = received
=============================================================================
