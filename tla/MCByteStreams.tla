--------------------------- MODULE MCByteStreams ----------------------------
(***************************************************************************)
(* One of the three decoders of byte streams, or a proxy that receives     *)
(* them and is set up and shut down, chosen at the start and kept.  What   *)
(* arrives, what has been received of it and what was delivered are the    *)
(* same variables for the decoders; those of the others stay at Unused.    *)
(***************************************************************************)
EXTENDS ApplanixStringDecoder

CONSTANTS
    HeaderLength, StartLength, PayloadLength, TrailerLength,
    Telegrams, SickLength, SickChunks,  \* SICK
    TrimbleLength, TrimbleChunks,       \* Trimble
    Unused

VARIABLES
    decoder,
    bytes, put, startConfirmed, byteCounter, measurements,      \* SICK
    chunk, fix, hasOldWGS84, oldWGS84,                          \* Trimble
    proxy, stage, step, parts, listener, started, delivering,
    initialised, failed                                         \* a proxy

Sick == INSTANCE SickStringDecoder WITH
    Length <- SickLength, Chunks <- SickChunks,
    line <- stream, buffer <- bytes, header <- foundHeader
Trimble == INSTANCE TrimbleStringDecoder WITH
    Length <- TrimbleLength, Chunks <- TrimbleChunks
Receiving == INSTANCE ReceivingProxies

ASSUME StreamAssumption == Sick!SickAssumption /\ Trimble!TrimbleAssumption

sickVars == <<bytes, put, startConfirmed, byteCounter, measurements>>
trimbleVars == <<chunk, fix, hasOldWGS84, oldWGS84>>
proxyVars ==
    <<proxy, stage, step, parts, listener, started, delivering, initialised, failed>>
streamVars == <<vars, decoder, sickVars, trimbleVars, proxyVars>>

NoApplanix ==
    /\ base = Unused /\ good = Unused /\ size = Unused /\ tellg = Unused
    /\ buffering = Unused /\ payloadSize = Unused /\ toRemove = Unused
    /\ nextMessage = Unused
NoSick ==
    /\ bytes = Unused /\ put = Unused /\ startConfirmed = Unused
    /\ byteCounter = Unused /\ measurements = Unused
NoTrimble ==
    chunk = Unused /\ fix = Unused /\ hasOldWGS84 = Unused /\ oldWGS84 = Unused
NoProxy ==
    /\ proxy = Unused /\ stage = Unused /\ step = Unused /\ parts = Unused
    /\ listener = Unused /\ started = Unused /\ delivering = Unused
    /\ initialised = Unused /\ failed = Unused

StreamsInit ==
    \/ decoder = "Applanix" /\ Init /\ NoSick /\ NoTrimble /\ NoProxy
    \/ decoder = "SICK" /\ Sick!Init /\ NoApplanix /\ NoTrimble /\ NoProxy
    \/ /\ decoder = "Trimble" /\ Trimble!Init /\ NoApplanix /\ NoSick /\ NoProxy
       /\ foundHeader = Unused /\ pc = "idle"
    \/ /\ decoder = "none" /\ Receiving!Init /\ NoApplanix /\ NoSick /\ NoTrimble
       /\ foundHeader = Unused /\ pc = "idle"
       /\ stream = <<>> /\ received = 0 /\ delivered = <<>>

ApplanixNext ==
    /\ decoder = "Applanix" /\ Next
    /\ UNCHANGED <<decoder, sickVars, trimbleVars, proxyVars>>
SickNext ==
    /\ decoder = "SICK" /\ Sick!Next
    /\ UNCHANGED <<decoder, base, good, size, tellg, buffering, payloadSize,
                   nextMessage, toRemove, trimbleVars, proxyVars>>
TrimbleNext ==
    /\ decoder = "Trimble" /\ Trimble!Next
    /\ UNCHANGED <<decoder, buffer, header, toRemove, pc, sickVars, proxyVars>>
ProxyNext ==
    /\ decoder = "none" /\ Receiving!Next
    /\ UNCHANGED <<decoder, vars, sickVars, trimbleVars>>

StreamsSpec ==
    /\ StreamsInit
    /\ [][ApplanixNext \/ SickNext \/ TrimbleNext \/ ProxyNext]_streamVars

-----------------------------------------------------------------------------
(* The types of the variables.                                             *)
StreamsTypeOK ==
    /\ decoder = "Applanix" => TypeOK
    /\ decoder = "SICK" => Sick!TypeOK
    /\ decoder = "Trimble" => Trimble!TypeOK
    /\ decoder = "none" => Receiving!TypeOK

(* The positions in the stringstream of the Applanix decoder.              *)
ApplanixBufferInBounds == decoder = "Applanix" => SeekInBuffer /\ BufferBounded

(* The buffer of the SICK decoder between two calls.                       *)
SickBufferKeepsBytes == decoder = "SICK" => Sick!BufferKeepsBytes

(* A coordinate of the Trimble is spoilt only by the end of a chunk.       *)
TrimbleOnlyCutSentencesSpoil == decoder = "Trimble" => Trimble!OnlyCutSentencesSpoil

(* The parts of a proxy that are used exist.                               *)
ProxyPartsAreThere == decoder = "none" => Receiving!PartsAreThere

(* Every decoder passes on messages that have arrived, in their order and  *)
(* each at most once.                                                      *)
ArrivedOfAny ==
    CASE decoder = "Applanix" -> Arrived
      [] decoder = "SICK" -> Sick!Arrived
      [] decoder = "Trimble" -> Trimble!Arrived
      [] decoder = "none" -> 0
AnyMessages == INSTANCE MessageStream WITH arrived <- ArrivedOfAny
AllPassOnMessages == AnyMessages!StreamSpec

(* What the decoders that keep bytes miss: the Applanix decoder no header  *)
(* while it searches, the SICK decoder split headers only.                 *)
HeadersMissed ==
    [][/\ decoder = "Applanix" => FindsOrExcuses
       /\ decoder = "SICK" => Sick!FindsOrSplit]_streamVars
=============================================================================
