------------------------ MODULE TrimbleStringDecoder -------------------------
(***************************************************************************)
(* The decoder of the Trimble GPS (TrimbleStringDecoder.cpp).  It keeps no *)
(* bytes: each chunk TCP delivers is split at '$' into sentences, and what *)
(* was cut off at the end of a chunk is missing.  One WGS84 coordinate is  *)
(* sent for a chunk in which a GPGGA sentence begins.                      *)
(*                                                                         *)
(* All sentences are cut into the same few pieces, in their order: '$',    *)
(* the two halves of the type, the time, the halves of latitude and        *)
(* longitude, and the rest.  A chunk is any number of pieces.              *)
(*                                                                         *)
(* A definition named ...Slip is a plausible mistake in the definition     *)
(* after it; the runs are repeated with it to show that they would see it. *)
(***************************************************************************)
EXTENDS Integers, Sequences, FiniteSets

CONSTANTS
    Length,         \* bound: sentences in the stream
    Chunks          \* sizes of the chunks TCP delivers, in pieces

TrimbleAssumption == Length \in Nat /\ Chunks \subseteq Nat \ {0}

VARIABLES
    stream,         \* the sentences the device sends
    received,       \* pieces given to nextString so far
    chunk,          \* number of the first piece of the chunk decoded last
    fix,            \* the latitude and longitude computed from that chunk
    hasOldWGS84, oldWGS84,
    delivered       \* the sentences of which a coordinate was sent

vars == <<stream, received, chunk, fix, hasOldWGS84, oldWGS84, delivered>>

(* A GPGGA sentence has empty fields while the receiver has no position.   *)
Sentences == {"GPGGA", "GPGGANoPosition", "GPVTG"}
Gpgga == {"GPGGA", "GPGGANoPosition"}

-----------------------------------------------------------------------------
(* The pieces of a sentence: the number of pieces up to and including ...  *)
Dollar == 1
Type == 3
LatitudeBegun == 5
Latitude == 6
LongitudeBegun == 7
Longitude == 8
Pieces == 9

StartOf(k) == Pieces * (k - 1)
StreamLength == Pieces * Len(stream)

(* Sentence k is split off with its type when '$' or the piece behind it   *)
(* is in the chunk; a tail whose type was in the chunk before is unknown.  *)
TypeSeen(k, first, end) ==
    first <= StartOf(k) + Dollar /\ StartOf(k) + Type <= end

DecodedIn(first, end) ==
    {k \in DOMAIN stream : stream[k] \in Gpgga /\ TypeSeen(k, first, end)}

(* A coordinate: the sentence it was read from, whether all its digits     *)
(* were there, and whether it was converted to degrees.                    *)
Zero == [of |-> 0, whole |-> TRUE, degrees |-> TRUE]
NoFix == [latitude |-> Zero, longitude |-> Zero]
FixOf(k) ==
    LET read == [of |-> k, whole |-> TRUE, degrees |-> TRUE]
    IN  [latitude |-> read, longitude |-> read]

(* Sentence k, of which so many pieces are in the chunk: fields.at() and   *)
(* stod throw when a field is missing or empty, and what was assigned up   *)
(* to there remains.                                                       *)
Parsed(old, k, pieces) ==
    IF stream[k] # "GPGGA" \/ pieces < LatitudeBegun THEN old
    ELSE [latitude |-> [of |-> k, whole |-> pieces >= Latitude,
                        degrees |-> pieces >= LongitudeBegun],
          longitude |-> IF pieces < LongitudeBegun THEN old.longitude
                        ELSE [of |-> k, whole |-> pieces >= Longitude,
                              degrees |-> TRUE]]

(* The loop over the sentences of a chunk: a later one overwrites.         *)
DecodedFixSlip(first, end) ==
    LET after[k \in 0 .. Len(stream)] ==
            IF k = 0 THEN NoFix
            ELSE IF k \in DecodedIn(first, end) /\ after[k - 1] = NoFix
                 THEN Parsed(after[k - 1], k, end - StartOf(k))
                 ELSE after[k - 1]
    IN  after[Len(stream)]
DecodedFix(first, end) ==
    LET after[k \in 0 .. Len(stream)] ==
            IF k = 0 THEN NoFix
            ELSE IF k \in DecodedIn(first, end)
                 THEN Parsed(after[k - 1], k, end - StartOf(k))
                 ELSE after[k - 1]
    IN  after[Len(stream)]

Last(numbers) == CHOOSE k \in numbers : \A n \in numbers : n <= k
-----------------------------------------------------------------------------
Init ==
    /\ stream \in [1 .. Length -> Sentences]
    /\ received = 0 /\ chunk = 0
    /\ fix = NoFix
    /\ hasOldWGS84 = FALSE /\ oldWGS84 = NoFix
    /\ delivered = <<>>

(* The first coordinate is never kept for the heading of the second.       *)
NextString ==
    \E n \in Chunks :
        LET end == received + n
            decoded == DecodedIn(received, end)
        IN  /\ end <= StreamLength
            /\ received' = end
            /\ chunk' = received
            /\ fix' = DecodedFix(received, end)
            /\ IF decoded = {}
               THEN UNCHANGED <<hasOldWGS84, oldWGS84, delivered>>
               ELSE /\ oldWGS84' = IF hasOldWGS84 THEN fix' ELSE oldWGS84
                    /\ hasOldWGS84' = TRUE
                    /\ delivered' = Append(delivered, Last(decoded))
            /\ UNCHANGED stream

Next == NextString

Spec == Init /\ [][Next]_vars

-----------------------------------------------------------------------------
(* The types of the variables.                                             *)
Coordinate == [of : 0 .. Length, whole : BOOLEAN, degrees : BOOLEAN]
TypeOK ==
    /\ stream \in [1 .. Length -> Sentences]
    /\ received \in 0 .. StreamLength /\ chunk \in 0 .. received
    /\ fix \in [latitude : Coordinate, longitude : Coordinate]
    /\ oldWGS84 \in [latitude : Coordinate, longitude : Coordinate]
    /\ hasOldWGS84 \in BOOLEAN
    /\ delivered \in Seq(1 .. Length)

(* Each coordinate sent comes from a sentence behind all those before,     *)
(* though a sentence may reach into several chunks and nothing is kept.    *)
Arrived == Cardinality({k \in DOMAIN stream : StartOf(k) + Type <= received})
AsMessages == INSTANCE MessageStream WITH arrived <- Arrived
CoordinatesInOrder == AsMessages!StreamSpec

(* What is sent is the position of the last sentence of the chunk, unless  *)
(* that sentence was cut off inside its coordinates or had none.           *)
OnlyCutSentencesSpoil ==
    LET decoded == DecodedIn(chunk, received)
        k == Last(decoded)
    IN  decoded # {} =>
            \/ fix = FixOf(k)
            \/ stream[k] # "GPGGA"
            \/ received < StartOf(k) + Longitude
=============================================================================
