--------------------------- MODULE MessageStream ----------------------------
(***************************************************************************)
(* What a decoder of a byte stream promises (ApplanixStringDecoder,        *)
(* SickStringDecoder, TrimbleStringDecoder): whatever the boundaries of    *)
(* the chunks, it passes on messages that have arrived, in their order and *)
(* each at most once.  It may miss one.  A message has arrived when all    *)
(* its bytes have, or, for the Trimble, which does not wait for them, when *)
(* its type has.                                                           *)
(***************************************************************************)
EXTENDS Naturals, Sequences

VARIABLES
    arrived,    \* number of messages that have arrived
    delivered   \* the messages passed on, by their number in the stream

messageVars == <<arrived, delivered>>

StreamInit == arrived = 0 /\ delivered = <<>>

Arrive == arrived' >= arrived

LastDelivered == IF delivered = <<>> THEN 0 ELSE delivered[Len(delivered)]

Deliver ==
    \/ UNCHANGED delivered
    \/ \E k \in LastDelivered + 1 .. arrived' : delivered' = Append(delivered, k)

StreamSpec == StreamInit /\ [][Arrive /\ Deliver]_messageVars
=============================================================================
