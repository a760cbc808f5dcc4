------------------------------ MODULE ProxySick ------------------------------
(***************************************************************************)
(* The command schedule of the SICK proxy (ProxySick.cpp).  The port is    *)
(* opened at 9600 baud; body counts the time slices and sends one command  *)
(* at a time: stop, status, change to 38400 baud, then it opens the port   *)
(* again at 38400, and sends settings mode, centimeters, start.  No answer *)
(* is waited for and no command is repeated.                               *)
(*                                                                         *)
(* The scanner is outside of the program: it hears what is sent at its own *)
(* baud rate, stores its unit, and after a loss of power is at 9600 baud   *)
(* and does not scan.  A crash of the program leaves the scanner as it is. *)
(* Telegrams are decoded while the port is open, started, and has its      *)
(* listener.  A definition named ...Slip is a plausible mistake in the     *)
(* definition after it.                                                    *)
(***************************************************************************)
EXTENDS Integers

CONSTANTS
    MaxTroubles     \* bound: crashes, losses of power, ports that do not open

ProxySickAssumption == MaxTroubles \in Nat

VARIABLES
    pc,
    counter,        \* of body
    port,           \* m_sick: its baud rate, and whether it passes bytes on
    scanner,
    decoded,        \* the unit of the scan decoded last in this run (history)
    troubles,       \* number of troubles (bound only)
    troubled,       \* in this run, power was lost or the port lost (history)
    deafStart       \* a scan was ever started through a stopped port (history)

vars == <<pc, counter, port, scanner, decoded, troubles, troubled, deafStart>>

InitBaudRate == 9600
BaudRate == 38400

Ports == [baud : {InitBaudRate, BaudRate}, listening : BOOLEAN]
NoPort == [baud |-> 0, listening |-> FALSE]
OpenPort(baud) == [baud |-> baud, listening |-> TRUE]

Scanners == [baud : {InitBaudRate, BaudRate}, unit : {"cm", "mm"},
             settings : BOOLEAN, scanning : BOOLEAN]

-----------------------------------------------------------------------------
(* What the scanner makes of a command it hears.                           *)
Obeyed(command) ==
    CASE command = "stop" -> [scanner EXCEPT !.scanning = FALSE]
      [] command = "38400" -> [scanner EXCEPT !.baud = BaudRate]
      [] command = "settings" -> [scanner EXCEPT !.settings = TRUE]
      [] command = "cm" /\ scanner.settings -> [scanner EXCEPT !.unit = "cm"]
      [] command = "start" -> [scanner EXCEPT !.scanning = TRUE, !.settings = FALSE]
      [] OTHER -> scanner
Heard(command) == IF port.baud = scanner.baud THEN Obeyed(command) ELSE scanner

(* The commands of body, by the slice they are sent in.                    *)
ScheduleSlip ==
    [n \in {10, 12, 14, 20, 22, 24} |->
        CASE n = 10 -> "stop" [] n = 12 -> "status" [] n = 14 -> "38400"
          [] n = 20 -> "cm" [] n = 22 -> "settings" [] n = 24 -> "start"]
Schedule ==
    [n \in {10, 12, 14, 20, 22, 24} |->
        CASE n = 10 -> "stop" [] n = 12 -> "status" [] n = 14 -> "38400"
          [] n = 20 -> "settings" [] n = 22 -> "cm" [] n = 24 -> "start"]
ReopenSlip == OpenPort(InitBaudRate)
Reopen == OpenPort(BaudRate)
ReopenAt == 18
Last == 24

Init ==
    /\ pc = "off" /\ counter = 0 /\ port = NoPort
    /\ scanner \in [baud : {InitBaudRate}, unit : {"cm", "mm"},
                    settings : {FALSE}, scanning : {FALSE}]
    /\ decoded = "none" /\ troubles = 0 /\ troubled = FALSE
    /\ deafStart = FALSE

Trouble == troubles < MaxTroubles /\ troubles' = troubles + 1

-----------------------------------------------------------------------------
SetUp ==
    /\ pc = "off"
    /\ pc' = "running" /\ counter' = 0 /\ decoded' = "none" /\ troubled' = FALSE
    /\ \/ port' = OpenPort(InitBaudRate) /\ UNCHANGED troubles
       \/ port' = NoPort /\ Trouble         \* the exception is logged
    /\ UNCHANGED <<scanner, deafStart>>

NextSlice == pc = "running" /\ counter < Last /\ counter' = counter + 1

WaitSlice ==
    /\ NextSlice /\ counter' \notin DOMAIN Schedule \cup {ReopenAt}
    /\ UNCHANGED <<pc, port, scanner, decoded, troubles, troubled, deafStart>>

(* A command without a port is a crash.                                    *)
SendCommand ==
    /\ NextSlice /\ counter' \in DOMAIN Schedule
    /\ pc' = IF port = NoPort THEN "off" ELSE pc
    /\ scanner' = Heard(Schedule[counter'])
    /\ deafStart' = (deafStart \/ (~port.listening /\ ~scanner.scanning /\ scanner'.scanning))
    /\ UNCHANGED <<port, decoded, troubles, troubled>>

ReopenPort ==
    /\ NextSlice /\ counter' = ReopenAt
    /\ port' = Reopen
    /\ UNCHANGED <<pc, scanner, decoded, troubles, troubled, deafStart>>

(* The old port has been stopped, has lost its listener, and stays m_sick. *)
FailReopen ==
    /\ NextSlice /\ counter' = ReopenAt
    /\ port' = [port EXCEPT !.listening = FALSE]
    /\ Trouble /\ troubled' = TRUE
    /\ UNCHANGED <<pc, scanner, decoded, deafStart>>

(* The command in tearDown, and the end of the port.  Without a port it    *)
(* ends as well, with a crash.                                             *)
TearDown ==
    /\ pc = "running"
    /\ scanner' = Heard("stop")
    /\ port' = NoPort /\ pc' = "off"
    /\ UNCHANGED <<counter, decoded, troubles, troubled, deafStart>>

Crash ==
    /\ pc = "running" /\ Trouble
    /\ pc' = "off" /\ port' = NoPort
    /\ UNCHANGED <<counter, scanner, decoded, troubled, deafStart>>

LosePower ==
    /\ Trouble /\ troubled' = TRUE
    /\ scanner' = [baud |-> InitBaudRate, unit |-> scanner.unit,
                   settings |-> FALSE, scanning |-> FALSE]
    /\ UNCHANGED <<pc, counter, port, decoded, deafStart>>

(* A scan arrives.  Bytes of another baud rate are noise, which the        *)
(* decoder skips.                                                          *)
Scan ==
    /\ scanner.scanning /\ port.listening /\ port.baud = scanner.baud
    /\ decoded' = scanner.unit
    /\ UNCHANGED <<pc, counter, port, scanner, troubles, troubled, deafStart>>

Body == SetUp \/ WaitSlice \/ SendCommand \/ ReopenPort

Next ==
    \/ SetUp \/ WaitSlice \/ SendCommand \/ ReopenPort \/ FailReopen
    \/ TearDown \/ Crash \/ LosePower \/ Scan

(* The module is started again, and body runs in every time slice.         *)
Spec == Init /\ [][Next]_vars /\ WF_vars(Body) /\ WF_vars(Scan)

-----------------------------------------------------------------------------
(* The types of the variables.                                             *)
TypeOK ==
    /\ pc \in {"off", "running"} /\ counter \in 0 .. Last
    /\ port \in Ports \cup {NoPort} /\ scanner \in Scanners
    /\ decoded \in {"none", "cm", "mm"}
    /\ troubles \in 0 .. MaxTroubles
    /\ troubled \in BOOLEAN /\ deafStart \in BOOLEAN

(* The decoder takes every distance for centimeters: whatever was sent to  *)
(* which baud rate, and whoever died in between, no scan in another unit   *)
(* is decoded; unless a run that failed to open its port again started the *)
(* scanner through the old one, which takes a loss of power in between.    *)
OnlyCentimeters == decoded = "mm" => deafStart

(* A program that stays up, with its scanner and its port, decodes scans   *)
(* at last, also when its predecessor crashed and left the scanner at      *)
(* 38400 baud, where it does not hear the first commands.                  *)
ScheduleDone == pc = "running" /\ counter = Last
ScansOrTrouble == pc = "off" \/ troubled \/ decoded = "cm"
ScansAtLast == ScheduleDone ~> ScansOrTrouble
=============================================================================
