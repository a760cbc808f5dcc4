--------------------------- MODULE PS3Controller -----------------------------
(***************************************************************************)
(* The PS3 controller (PS3Controller.cpp): in every time slice body drains *)
(* the event queue of the joystick, turns the events in their order into   *)
(* an acceleration and a steering, and sends them; the last request is     *)
(* repeated while no event comes.  Stopping, also because the joystick is  *)
(* gone, ends with a request of zero.                                      *)
(*                                                                         *)
(* The queue is the kernel's (joydev).  A client that opened the device    *)
(* reads an event of every axis first, in ascending order and with the     *)
(* position the axis has then (JS_EVENT_INIT, which the code masks out);   *)
(* nothing is queued for it before it has read them all.  The event that   *)
(* would fill its buffer empties it and starts this over.  Only an axis    *)
(* that changes has an event.  Buttons, which the code ignores, are left   *)
(* out.  Positions are integers up to MaxAxesValue, to both sides.         *)
(* Axes 16 and 18 are alike, and so are 17 and 19.  A definition named     *)
(* ...Slip is a plausible mistake in the definition after it.              *)
(***************************************************************************)
EXTENDS Integers, Sequences

CONSTANTS
    MaxAxesValue,   \* the greatest value of an axis
    AccelerationMin, AccelerationMax, DecelerationMin, DecelerationMax,
    SteeringMax,    \* m_STEERING_MAX, and -m_STEERING_MIN
    QueueSize,      \* events in the buffer of the kernel (64)
    MaxInputs       \* bound: what the driver does

PS3Assumption ==
    /\ MaxAxesValue \in Nat \ {0} /\ MaxInputs \in Nat
    /\ QueueSize \in Nat \ {0}
    /\ AccelerationMin \in Int /\ AccelerationMax \in Int
    /\ DecelerationMin \in Int /\ DecelerationMax \in Int /\ SteeringMax \in Int

VARIABLES
    pc,
    position,       \* where the axes are
    startup,        \* synthetic events read since the device was opened or overflowed
    queue,          \* the events in the kernel's buffer
    plugged,
    command,        \* acceleration and steering, locals of body
    request,        \* the ActuationRequest sent last
    inputs,
    meant,          \* what the events queued since then add up to (history)
    moved           \* sticks moved since the device was opened (history)

history == <<inputs, meant, moved>>
joystick == <<position, startup, queue, plugged>>
vars == <<pc, joystick, command, request, history>>

Commands == {"acceleration", "steering"}
AxisOf == [acceleration |-> 3, steering |-> 0]
KillAxisOf == [acceleration |-> 17, steering |-> 16]
Zero == [acceleration |-> 0, steering |-> 0]
Axes == <<0, 3, 16, 17>>
Event(axis, value, type) == [axis |-> axis, value |-> value, type |-> type]

-----------------------------------------------------------------------------
(* From the percentage of the whole range to the range of the command.     *)
(* The sign of a turn is inverted; braking does not add its minimum.       *)
Steering(value) == -((value * SteeringMax) \div MaxAxesValue)
Acceleration(value) ==
    IF value < 0
    THEN ((-value * (AccelerationMax - AccelerationMin)) \div MaxAxesValue) + AccelerationMin
    ELSE (value * (DecelerationMax - DecelerationMin)) \div MaxAxesValue

(* An event of an axis: a stick, or a button that kills a command, also    *)
(* when it is released.                                                    *)
AppliedSlip(event, old) ==
    CASE event.axis = 0 -> [old EXCEPT !.steering = Steering(event.value)]
      [] event.axis = 3 -> [old EXCEPT !.acceleration = Acceleration(event.value)]
      [] event.axis \in {16, 18} /\ event.value > 0 -> [old EXCEPT !.steering = 0]
      [] event.axis \in {17, 19} /\ event.value > 0 -> [old EXCEPT !.acceleration = 0]
      [] OTHER -> old
Applied(event, old) ==
    CASE event.axis = 0 -> [old EXCEPT !.steering = Steering(event.value)]
      [] event.axis = 3 -> [old EXCEPT !.acceleration = Acceleration(event.value)]
      [] event.axis \in {16, 18} -> [old EXCEPT !.steering = 0]
      [] event.axis \in {17, 19} -> [old EXCEPT !.acceleration = 0]

(* js.type & ~JS_EVENT_INIT; the mistake ignores synthetic events.         *)
IsAxisSlip(event) == event.type = {"axis"}
IsAxis(event) == event.type \ {"init"} = {"axis"}
Handled(event, old) == IF IsAxis(event) THEN Applied(event, old) ELSE old

(* joydev: what the next read returns as long as not every axis was read,  *)
(* and whether an event that comes now is queued, or is the one too many.  *)
Synthetic ==
    LET axis == Axes[startup + 1] IN Event(axis, position[axis], {"axis", "init"})
Reading == startup < Len(Axes)
Kept == ~Reading /\ Len(queue) < QueueSize - 1
Overflow == ~Reading /\ ~Kept

(* What a stick asks for.                                                  *)
Asked(c, value) == IF c = "steering" THEN Steering(value) ELSE Acceleration(value)
Stick(c) == position[AxisOf[c]]

Init ==
    /\ position \in [{0, 3, 16, 17} -> {-MaxAxesValue, 0, MaxAxesValue}]
    /\ position[16] >= 0 /\ position[17] >= 0
    /\ startup = 0 /\ queue = <<>> /\ plugged = TRUE
    /\ pc = "waiting"
    /\ command = Zero /\ request = Zero
    /\ inputs = 0 /\ meant = Zero /\ moved = {}

-----------------------------------------------------------------------------
(* The driver, and the cable.                                              *)
Input(axis, value) ==
    /\ plugged /\ inputs < MaxInputs
    /\ value # position[axis]
    /\ position' = [position EXCEPT ![axis] = value]
    /\ queue' = IF Kept THEN Append(queue, Event(axis, value, {"axis"})) ELSE <<>>
    /\ startup' = IF Overflow THEN 0 ELSE startup
    /\ inputs' = inputs + 1
    /\ UNCHANGED <<pc, plugged, command, request>>

(* What the driver now asks for of a command, if his event is kept; all    *)
(* that he asked for is lost in an overflow.                               *)
Meant(c, value) ==
    CASE Kept -> [meant EXCEPT ![c] = value]
      [] Overflow -> Zero
      [] OTHER -> meant

MoveStick ==
    \E c \in Commands, value \in {-MaxAxesValue, 0, MaxAxesValue} :
       /\ Input(AxisOf[c], value)
       /\ meant' = Meant(c, Asked(c, value))
       /\ moved' = moved \cup {c}

KillButton ==
    \E c \in Commands, value \in {0, MaxAxesValue} :
       /\ Input(KillAxisOf[c], value)
       /\ meant' = Meant(c, 0)
       /\ UNCHANGED moved

Unplug ==
    /\ plugged
    /\ plugged' = FALSE
    /\ UNCHANGED <<pc, position, startup, queue, command, request, history>>

-----------------------------------------------------------------------------
(* The module.                                                             *)
StartCycle ==
    /\ pc = "waiting"
    /\ pc' = "draining"
    /\ UNCHANGED <<joystick, command, request, history>>

ReadEvent ==
    /\ pc = "draining" /\ plugged
    /\ \/ /\ Reading
          /\ command' = Handled(Synthetic, command)
          /\ startup' = startup + 1
          /\ UNCHANGED queue
       \/ /\ ~Reading /\ queue # <<>>
          /\ command' = Handled(Head(queue), command)
          /\ queue' = Tail(queue)
          /\ UNCHANGED startup
    /\ UNCHANGED <<pc, position, plugged, request, history>>

(* There is no event left (EAGAIN).                                        *)
SendActuationRequest ==
    /\ pc = "draining" /\ plugged /\ ~Reading /\ queue = <<>>
    /\ request' = command
    /\ pc' = "waiting"
    /\ UNCHANGED <<joystick, command, history>>

(* Any other error of read: SERIOUS_ERROR.                                 *)
FailRead ==
    /\ pc = "draining" /\ ~plugged
    /\ pc' = "stopping"
    /\ UNCHANGED <<joystick, command, request, history>>

(* The module is no longer RUNNING.                                        *)
Stop ==
    /\ pc = "waiting"
    /\ pc' = "stopping"
    /\ UNCHANGED <<joystick, command, request, history>>

TearDown ==
    /\ pc = "stopping"
    /\ request' = Zero
    /\ pc' = "off"
    /\ UNCHANGED <<joystick, command, history>>

Body == StartCycle \/ ReadEvent \/ SendActuationRequest \/ FailRead \/ TearDown

Next ==
    \/ MoveStick \/ KillButton \/ Unplug
    \/ StartCycle \/ ReadEvent \/ SendActuationRequest \/ FailRead
    \/ Stop \/ TearDown

(* The body runs in every time slice, and tearDown after it.               *)
Spec == Init /\ [][Next]_vars /\ WF_vars(Body)

-----------------------------------------------------------------------------
(* The types of the variables.                                             *)
Requests == [acceleration : Int, steering : Int]
TypeOK ==
    /\ pc \in {"waiting", "draining", "stopping", "off"}
    /\ position \in [{0, 3, 16, 17} -> -MaxAxesValue .. MaxAxesValue]
    /\ startup \in 0 .. Len(Axes) /\ Len(queue) < QueueSize /\ plugged \in BOOLEAN
    /\ command \in Requests /\ request \in Requests /\ meant \in Requests
    /\ inputs \in 0 .. MaxInputs /\ moved \subseteq Commands

(* However the sticks stand when the device is opened, nothing is asked    *)
(* for before they are moved: the kill axes come last in the synthetic     *)
(* events.                                                                 *)
ZeroUntilMoved == \A c \in Commands : c \notin moved => request[c] = 0

(* A joystick that is gone is not obeyed for ever: the module ends, and    *)
(* its last request is zero.                                               *)
Stopped == pc = "off" /\ request = Zero
StopsAtZero == ~plugged ~> Stopped

(* When the driver rests, the requests settle on the sum of his events, in *)
(* their order, since the device was opened or overflowed last: whatever   *)
(* was asked for before is killed, and a stick that was let go among the   *)
(* events that are lost leaves nothing of its old request.                 *)
Settled ==
    \/ pc = "off" \/ ~plugged
    \/ /\ request = meant
       /\ \A c \in Commands : request[c] # 0 => request[c] = Asked(c, Stick(c))
SettlesOnLastEvent == <>[]Settled
=============================================================================
