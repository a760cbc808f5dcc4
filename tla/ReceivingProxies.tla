-------------------------- MODULE ReceivingProxies ---------------------------
(***************************************************************************)
(* How the proxies with a receiver are set up and shut down: the Velodyne, *)
(* Applanix, Trimble and V2V proxies.  setUp creates a few parts, in an    *)
(* order of its own in every proxy; tearDown stops the receiver and takes  *)
(* its listener away; then the parts are destroyed.  Meanwhile the thread  *)
(* of the receiver delivers data to the listener as soon as it is started, *)
(* and the thread of the conference delivers containers, of which only V2V *)
(* makes use.                                                              *)
(*                                                                         *)
(* The receiver is OpenDaVINCI's: stop() returns when its thread has       *)
(* ended, a listener is set under a lock.  A definition named ...Slip is a *)
(* plausible mistake in the definition after it.                           *)
(***************************************************************************)
EXTENDS Naturals, Sequences

VARIABLES
    proxy,
    stage, step,    \* what the main thread does, and how far
    parts,          \* the parts that exist
    listener,       \* a listener is set
    started,        \* the receiver is started
    delivering,     \* its thread is in the listener
    initialised,    \* m_initialised of V2V
    failed          \* parts that could not be created (history)

vars == <<proxy, stage, step, parts, listener, started, delivering, initialised, failed>>

Velodynes == {"Velodyne16", "Velodyne32", "Velodyne64"}
Connections == {"Applanix", "Trimble"}
Proxies == Velodynes \cup Connections \cup {"V2V"}
Parts == {"receiver", "memory", "decoder", "sender"}

(* The parts and settings of setUp, in their order.  Velodyne 16 and 32    *)
(* need no memory when they make compact clouds only; they are modelled    *)
(* with it.                                                                *)
StepsSlip(p) ==
    CASE p \in {"Velodyne16", "Velodyne32"} ->
            <<"receiver", "memory", "decoder", "listener", "start">>
      [] p = "Velodyne64" -> <<"memory", "receiver", "decoder", "listener", "start">>
      [] p \in Connections -> <<"decoder", "receiver", "listener", "start">>
      [] p = "V2V" -> <<"receiver", "listener", "start", "initialised", "sender">>
Steps(p) ==
    CASE p \in {"Velodyne16", "Velodyne32"} ->
            <<"receiver", "memory", "decoder", "listener", "start">>
      [] p = "Velodyne64" -> <<"memory", "receiver", "decoder", "listener", "start">>
      [] p \in Connections -> <<"decoder", "receiver", "listener", "start">>
      [] p = "V2V" -> <<"receiver", "listener", "start", "sender", "initialised">>

(* What the listener uses: the decoder, or the V2V proxy itself.           *)
Needs(p) ==
    CASE p \in Velodynes -> {"decoder", "memory"}
      [] p \in Connections -> {"decoder"}
      [] p = "V2V" -> {}

Init ==
    /\ proxy \in Proxies
    /\ stage = "settingUp" /\ step = 1
    /\ parts = {} /\ failed = {}
    /\ listener = FALSE /\ started = FALSE
    /\ delivering = FALSE /\ initialised = FALSE

Step == Steps(proxy)[step]
InSetUp == stage = "settingUp" /\ step <= Len(Steps(proxy))

-----------------------------------------------------------------------------
(* The main thread: setUp.                                                 *)
CreatePart ==
    /\ InSetUp /\ Step \in Parts
    /\ parts' = parts \cup {Step}
    /\ step' = step + 1
    /\ UNCHANGED <<proxy, stage, listener, started, delivering, initialised, failed>>

(* Creating a connection fails, or an option is not valid.  The Velodyne   *)
(* proxies do not catch what is thrown; the others skip what needs the     *)
(* part.                                                                   *)
FailToCreate ==
    /\ InSetUp /\ Step \in {"receiver", "memory", "sender"}
    /\ failed' = failed \cup {Step}
    /\ IF proxy \in Velodynes
       THEN stage' = "destroyed" /\ parts' = {} /\ UNCHANGED step
       ELSE /\ step' = IF Step = "receiver" THEN step + 3 ELSE step + 1
            /\ UNCHANGED <<stage, parts>>
    /\ UNCHANGED <<proxy, listener, started, delivering, initialised>>

Set ==
    /\ InSetUp /\ Step \in {"listener", "start", "initialised"}
    /\ listener' = (listener \/ Step = "listener")
    /\ started' = (started \/ Step = "start")
    /\ initialised' = (initialised \/ Step = "initialised")
    /\ step' = step + 1
    /\ UNCHANGED <<proxy, stage, parts, delivering, failed>>

EndSetUp ==
    /\ stage = "settingUp" /\ step > Len(Steps(proxy))
    /\ stage' = "running"
    /\ UNCHANGED <<proxy, step, parts, listener, started, delivering, initialised, failed>>

(* The main thread: tearDown.  Applanix and Trimble ask first whether they *)
(* have a receiver.                                                        *)
Stopped == ~delivering
StopReceiver ==
    /\ stage = "running" /\ Stopped
    /\ IF "receiver" \in parts \/ proxy \in Connections
       THEN stage' = "stopped" /\ started' = FALSE
       ELSE stage' = "crashed" /\ UNCHANGED started
    /\ UNCHANGED <<proxy, step, parts, listener, delivering, initialised, failed>>

TakeListener ==
    /\ stage = "stopped"
    /\ listener' = FALSE /\ stage' = "tornDown"
    /\ UNCHANGED <<proxy, step, parts, started, delivering, initialised, failed>>

Destroy ==
    /\ stage = "tornDown"
    /\ parts' = {} /\ stage' = "destroyed"
    /\ UNCHANGED <<proxy, step, listener, started, delivering, initialised, failed>>

-----------------------------------------------------------------------------
(* The thread of the receiver: nextString or nextPacket.                   *)
Deliver ==
    /\ stage # "crashed" /\ started /\ listener /\ ~delivering
    /\ delivering' = TRUE
    /\ UNCHANGED <<proxy, stage, step, parts, listener, started, initialised, failed>>

(* It has used what it needs all the time: until its end.                  *)
EndDelivery ==
    /\ stage # "crashed" /\ delivering
    /\ stage' = IF Needs(proxy) \subseteq parts THEN stage ELSE "crashed"
    /\ delivering' = FALSE
    /\ UNCHANGED <<proxy, step, parts, listener, started, initialised, failed>>

(* The thread of the conference: nextContainer of V2V, a V2vRequest.       *)
NextContainer ==
    /\ proxy = "V2V" /\ stage \notin {"crashed", "destroyed"} /\ initialised
    /\ stage' = IF "sender" \in parts THEN stage ELSE "crashed"
    /\ UNCHANGED <<proxy, step, parts, listener, started, delivering, initialised, failed>>

Next ==
    \/ CreatePart \/ FailToCreate \/ Set \/ EndSetUp
    \/ StopReceiver \/ TakeListener \/ Destroy
    \/ Deliver \/ EndDelivery \/ NextContainer

Spec == Init /\ [][Next]_vars

-----------------------------------------------------------------------------
(* The types of the variables.                                             *)
TypeOK ==
    /\ proxy \in Proxies /\ parts \subseteq Parts /\ failed \subseteq Parts
    /\ stage \in {"settingUp", "running", "stopped", "tornDown", "destroyed", "crashed"}
    /\ step \in 1 .. 6
    /\ {listener, started, delivering, initialised} \subseteq BOOLEAN

(* Whatever arrives while a proxy is set up or shut down, every part a     *)
(* thread uses exists then: only V2V crashes, which goes on with a part    *)
(* that could not be created.                                              *)
PartsAreThere == stage = "crashed" => proxy = "V2V" /\ failed # {}
=============================================================================
