----------------------- MODULE MCByteStreams_proofs ------------------------
(***************************************************************************)
(* Every property that the run of MCByteStreams checks, for streams and    *)
(* chunks of any number and size, and any lengths of headers and payloads  *)
(* the assumptions allow.                                                  *)
(*                                                                         *)
(* The positions of messages and the coordinate of a Trimble chunk are     *)
(* recursive functions; that such a function exists, and what its values   *)
(* are, is shown by taking the least argument at which it would fail       *)
(* (LeastOf).  The decoders and the proxies then have an inductive         *)
(* invariant each; StreamsInv at the end puts them together:               *)
(*   ProxyInv     which parts exist at which step of setUp and tearDown,   *)
(*                and that the receiver's thread runs only in between;     *)
(*   SickInv      the buffer is the end of what was received, and a        *)
(*                payload that is read is that of one telegram behind all  *)
(*                those delivered;                                         *)
(*   ApplanixInv  where the two positions of the stringstream stand, what  *)
(*                was announced by the header found, how much is kept, and *)
(*                that the search is behind what was delivered;            *)
(*   TrimbleInv   the coordinates sent are of sentences that have begun    *)
(*                before the next chunk.                                   *)
(***************************************************************************)
EXTENDS MCByteStreams, TLAPS, WellFoundedInduction, NaturalsInduction, FiniteSetTheorems

-----------------------------------------------------------------------------
(* Functions defined by recursion, and sets of numbers.                    *)

LEMMA LeastOf ==
    ASSUME NEW S \in SUBSET Nat, S # {}
    PROVE  \E x \in S : \A y \in S : x <= y
  <1>1. PICK x \in S : \A y \in S : <<y, x>> \notin OpToRel(<, Nat)
    BY WFMin, NatLessThanWellFounded, Zenon
  <1>2. \A y \in S : ~(y < x)
    BY <1>1, Zenon DEF OpToRel
  <1> QED
    BY <1>2

(* A function whose values each follow from the one before exists.         *)
StepFunctions(first, last, V) == [first + 1 .. last -> [V -> V]]
Iterates(f, first, last, a, s) ==
    f[first] = a /\ \A k \in first + 1 .. last : f[k] = s[k][f[k - 1]]

LEMMA Iterated ==
    ASSUME NEW first \in Nat, NEW last \in Nat, first <= last, NEW V, NEW a \in V,
           NEW s \in StepFunctions(first, last, V)
    PROVE  \E f \in [first .. last -> V] : Iterates(f, first, last, a, s)
  <1>0. s \in [first + 1 .. last -> [V -> V]]
    BY DEF StepFunctions
  <1> DEFINE Upto(n, f) ==
                f = [k \in first .. n |-> IF k = first THEN a ELSE s[k][f[k - 1]]]
             Missing == {n \in first .. last : ~ \E f \in [first .. n -> V] : Upto(n, f)}
  <1>1. Missing = {}
    <2> SUFFICES ASSUME Missing # {} PROVE FALSE
      OBVIOUS
    <2>1. Missing \in SUBSET Nat
      OBVIOUS
    <2>2. PICK n \in Missing : \A m \in Missing : n <= m
      <3> HIDE DEF Missing
      <3> QED
        BY <2>1, LeastOf
    <2>3. n \in first .. last /\ n \in Nat
      BY <2>2
    <2>4. CASE n = first
      <3>1. [k \in first .. n |-> a] \in [first .. n -> V]
        OBVIOUS
      <3>2. Upto(n, [k \in first .. n |-> a])
        BY <2>4
      <3> QED
        BY <2>2, <3>1, <3>2
    <2>5. CASE n # first
      <3>0. n - 1 \in first .. last /\ ~(n <= n - 1)
        BY <2>3, <2>5
      <3>1. n - 1 \in first .. last /\ n - 1 \notin Missing
        BY <2>2, <3>0, Zenon
      <3>2. PICK f \in [first .. n - 1 -> V] : Upto(n - 1, f)
        BY <3>1
      <3> DEFINE g == [k \in first .. n |-> IF k = n THEN s[n][f[n - 1]] ELSE f[k]]
      <3>3. s[n][f[n - 1]] \in V
        BY <1>0, <2>3, <2>5
      <3>4. g \in [first .. n -> V]
        <4>1. ASSUME NEW k \in first .. n, k # n PROVE f[k] \in V
          BY <2>3, <4>1
        <4> QED
          BY <3>3, <4>1
      <3>5. ASSUME NEW k \in first .. n
            PROVE  g[k] = IF k = first THEN a ELSE s[k][g[k - 1]]
        <4>1. CASE k = n
          <5>1. g[k - 1] = f[n - 1]
            BY <2>3, <2>5, <4>1
          <5> QED
            BY <2>5, <4>1, <5>1
        <4>2. CASE k # n
          <5>1. k \in first .. n - 1 /\ g[k] = f[k]
            BY <2>3, <4>2
          <5>2. f[k] = IF k = first THEN a ELSE s[k][f[k - 1]]
            BY <3>2, <5>1, Zenon
          <5>3. k # first => g[k - 1] = f[k - 1]
            BY <2>3, <4>2
          <5> QED
            BY <5>1, <5>2, <5>3
        <4> QED
          BY <4>1, <4>2
      <3>6. Upto(n, g)
        <4>1. DOMAIN g = first .. n /\ g = [k \in first .. n |-> g[k]]
          OBVIOUS
        <4> HIDE DEF g
        <4> QED
          BY <3>5, <4>1
      <3> QED
        BY <2>2, <3>4, <3>6
    <2> QED
      BY <2>4, <2>5
  <1>2. last \notin Missing /\ last \in first .. last
    BY <1>1
  <1>3. PICK f \in [first .. last -> V] : Upto(last, f)
    BY <1>2
  <1>4. \A k \in first .. last : f[k] = IF k = first THEN a ELSE s[k][f[k - 1]]
    BY <1>3, Zenon
  <1>5. /\ first \in first .. last
        /\ \A k \in first + 1 .. last : k \in first .. last /\ k # first
    OBVIOUS
  <1> QED
    BY <1>4, <1>5 DEF Iterates

-----------------------------------------------------------------------------
(* The proxies with a receiver.                                            *)

(* What of setUp is done already, in its order.                            *)
LEMMA StepsInOrder ==
    ASSUME NEW p \in Receiving!Proxies
    PROVE  /\ p \in Receiving!Velodynes =>
                 /\ Len(Receiving!Steps(p)) = 5
                 /\ {Receiving!Steps(p)[1], Receiving!Steps(p)[2]} = {"receiver", "memory"}
                 /\ Receiving!Steps(p)[3] = "decoder" /\ Receiving!Steps(p)[4] = "listener"
                 /\ Receiving!Steps(p)[5] = "start"
           /\ p \in Receiving!Connections =>
                 /\ Len(Receiving!Steps(p)) = 4
                 /\ Receiving!Steps(p)[1] = "decoder" /\ Receiving!Steps(p)[2] = "receiver"
                 /\ Receiving!Steps(p)[3] = "listener" /\ Receiving!Steps(p)[4] = "start"
           /\ p = "V2V" =>
                 /\ Len(Receiving!Steps(p)) = 5
                 /\ Receiving!Steps(p)[1] = "receiver" /\ Receiving!Steps(p)[2] = "listener"
                 /\ Receiving!Steps(p)[3] = "start" /\ Receiving!Steps(p)[4] = "sender"
                 /\ Receiving!Steps(p)[5] = "initialised"
  BY DEF Receiving!Proxies, Receiving!Velodynes, Receiving!Connections, Receiving!Steps

(* What setUp has done by now.                                             *)
Prepared ==
    stage \in {"settingUp", "running"} =>
        /\ proxy \in Receiving!Velodynes =>
              /\ step >= 2 => Receiving!Steps(proxy)[1] \in parts
              /\ step >= 3 => Receiving!Steps(proxy)[2] \in parts
              /\ step >= 4 => "decoder" \in parts
        /\ proxy \in Receiving!Connections /\ step >= 2 => "decoder" \in parts
        /\ proxy = "V2V" =>
              /\ step >= 2 => "receiver" \in parts \/ failed # {}
              /\ step >= 5 => "sender" \in parts \/ failed # {}
        /\ stage = "running" => step > Len(Receiving!Steps(proxy))

(* Who uses parts at all: the receiver is started last and stopped first.  *)
PartsUsed ==
    /\ started => Receiving!Needs(proxy) \subseteq parts
    /\ delivering => started
    /\ proxy \in Receiving!Velodynes /\ stage = "settingUp" /\ started => step = 6
    /\ stage \in {"stopped", "tornDown", "destroyed"} => ~started
    /\ initialised /\ stage \notin {"destroyed", "crashed"} =>
          "sender" \in parts \/ failed # {}

ProxyInv == Receiving!TypeOK /\ Prepared /\ PartsUsed /\ Receiving!PartsAreThere

-----------------------------------------------------------------------------
LEMMA NeedsOf ==
    ASSUME NEW p \in Receiving!Proxies
    PROVE  /\ p \in Receiving!Velodynes => Receiving!Needs(p) = {"decoder", "memory"}
           /\ p \in Receiving!Connections => Receiving!Needs(p) = {"decoder"}
           /\ p = "V2V" => Receiving!Needs(p) = {}
           /\ p \in Receiving!Velodynes \/ p \in Receiving!Connections \/ p = "V2V"
           /\ ~(p \in Receiving!Velodynes /\ p \in Receiving!Connections)
           /\ "V2V" \notin Receiving!Velodynes \cup Receiving!Connections
  BY DEF Receiving!Proxies, Receiving!Velodynes, Receiving!Connections, Receiving!Needs

LEMMA ProxyInitially ==
    ASSUME Receiving!Init
    PROVE  ProxyInv
  <1>1. Receiving!TypeOK
    <2>1. /\ parts \subseteq Receiving!Parts /\ failed \subseteq Receiving!Parts
          /\ step \in 1 .. 6
      BY DEF Receiving!Init
    <2>2. /\ listener \in BOOLEAN /\ started \in BOOLEAN
          /\ delivering \in BOOLEAN /\ initialised \in BOOLEAN
      BY Zenon DEF Receiving!Init
    <2> QED
      BY <2>1, <2>2, Zenon DEF Receiving!Init, Receiving!TypeOK
  <1>2. Prepared /\ PartsUsed /\ Receiving!PartsAreThere
    BY DEF Receiving!Init, Prepared, PartsUsed, Receiving!PartsAreThere
  <1> QED
    BY <1>1, <1>2 DEF ProxyInv

(* A step of setUp.                                                        *)
LEMMA SetUpSteps ==
    ASSUME ProxyInv, Receiving!CreatePart \/ Receiving!FailToCreate \/ Receiving!Set
    PROVE  ProxyInv'
  <1>0. /\ proxy \in Receiving!Proxies /\ parts \subseteq Receiving!Parts
        /\ failed \subseteq Receiving!Parts /\ step \in 1 .. 5
        /\ stage = "settingUp" /\ step <= Len(Receiving!Steps(proxy))
        /\ Len(Receiving!Steps(proxy)) \in 4 .. 5
    <2>1. /\ proxy \in Receiving!Proxies /\ parts \subseteq Receiving!Parts
          /\ failed \subseteq Receiving!Parts /\ step \in 1 .. 6
      BY DEF ProxyInv, Receiving!TypeOK
    <2>2. stage = "settingUp" /\ step <= Len(Receiving!Steps(proxy))
      BY DEF Receiving!CreatePart, Receiving!FailToCreate, Receiving!Set, Receiving!InSetUp
    <2>3. Len(Receiving!Steps(proxy)) \in 4 .. 5
      BY <2>1, NeedsOf, StepsInOrder
    <2>4. ASSUME NEW l \in 4 .. 5, step <= l PROVE step \in 1 .. 5
      BY <2>1, <2>4
    <2>5. step \in 1 .. 5
      BY <2>2, <2>3, <2>4
    <2> QED
      BY <2>1, <2>2, <2>3, <2>5
  <1>a. /\ listener \in BOOLEAN /\ started \in BOOLEAN
        /\ delivering \in BOOLEAN /\ initialised \in BOOLEAN
    BY Zenon DEF ProxyInv, Receiving!TypeOK
  <1>1. CASE Receiving!CreatePart
    <2>1. /\ Receiving!Step \in Receiving!Parts
          /\ parts' = parts \cup {Receiving!Step} /\ step' = step + 1
          /\ UNCHANGED <<proxy, stage, listener, started, delivering, initialised, failed>>
      BY <1>1 DEF Receiving!CreatePart
    <2>2. parts' \subseteq Receiving!Parts /\ step' \in 1 .. 6
      BY <1>0, <2>1
    <2>3. Receiving!TypeOK'
      BY <1>0, <1>a, <2>1, <2>2, Zenon DEF ProxyInv, Receiving!TypeOK
    <2>4. Prepared'
      BY <1>0, <2>1, StepsInOrder, NeedsOf DEF ProxyInv, Prepared, Receiving!Step
    <2>5. PartsUsed'
      <3>1. ~(proxy \in Receiving!Velodynes /\ started)
        BY <1>0 DEF ProxyInv, PartsUsed
      <3> QED
        BY <1>0, <2>1, <3>1 DEF ProxyInv, PartsUsed
    <2>6. Receiving!PartsAreThere'
      BY <1>0, <2>1 DEF Receiving!PartsAreThere
    <2> QED
      BY <2>3, <2>4, <2>5, <2>6 DEF ProxyInv
  <1>2. CASE Receiving!FailToCreate
    <2>1. /\ Receiving!Step \in {"receiver", "memory", "sender"}
          /\ failed' = failed \cup {Receiving!Step}
          /\ UNCHANGED <<proxy, listener, started, delivering, initialised>>
      BY <1>2 DEF Receiving!FailToCreate
    <2>2. failed' \subseteq Receiving!Parts /\ failed' # {}
      BY <1>0, <2>1 DEF Receiving!Parts
    <2>3. CASE proxy \in Receiving!Velodynes
      <3>1. stage' = "destroyed" /\ parts' = {} /\ step' = step
        BY <1>2, <2>3 DEF Receiving!FailToCreate
      <3>2. ~started
        BY <1>0, <2>3 DEF ProxyInv, PartsUsed
      <3>3. Receiving!TypeOK'
        BY <1>0, <1>a, <2>1, <2>2, <3>1, Zenon DEF ProxyInv, Receiving!TypeOK
      <3>4. Prepared' /\ Receiving!PartsAreThere'
        BY <3>1 DEF Prepared, Receiving!PartsAreThere
      <3>5. PartsUsed'
        BY <2>1, <3>1, <3>2 DEF ProxyInv, PartsUsed
      <3> QED
        BY <3>3, <3>4, <3>5 DEF ProxyInv
    <2>4. CASE proxy \notin Receiving!Velodynes
      <3>1. /\ step' = IF Receiving!Step = "receiver" THEN step + 3 ELSE step + 1
            /\ UNCHANGED <<stage, parts>>
        BY <1>2, <2>4 DEF Receiving!FailToCreate
      <3>2. /\ proxy \in Receiving!Connections => step = 2 /\ step' = 5
            /\ proxy = "V2V" => (step = 1 /\ step' = 4) \/ (step = 4 /\ step' = 5)
            /\ proxy \in Receiving!Connections \/ proxy = "V2V"
        <4>1. Receiving!Step = Receiving!Steps(proxy)[step]
          BY DEF Receiving!Step
        <4>2. step = 1 \/ step = 2 \/ step = 3 \/ step = 4 \/ step = 5
          BY <1>0
        <4>3. proxy \in Receiving!Connections \/ proxy = "V2V"
          BY <1>0, <2>4, NeedsOf
        <4>4. CASE proxy \in Receiving!Connections
          <5>1. proxy # "V2V"
            BY <1>0, <4>4, NeedsOf
          <5>2. step = 2
            BY <1>0, <2>1, <4>1, <4>2, <4>4, StepsInOrder
          <5>3. Receiving!Step = "receiver"
            BY <1>0, <4>1, <4>4, <5>2, StepsInOrder
          <5> QED
            BY <3>1, <4>4, <5>1, <5>2, <5>3
        <4>5. CASE proxy = "V2V"
          <5>1. proxy \notin Receiving!Connections
            BY <1>0, <4>5, NeedsOf
          <5>2. step = 1 \/ step = 4
            BY <1>0, <2>1, <4>1, <4>2, <4>5, StepsInOrder
          <5>3. Receiving!Step = IF step = 1 THEN "receiver" ELSE "sender"
            BY <1>0, <4>1, <4>5, <5>2, StepsInOrder
          <5> QED
            BY <3>1, <4>5, <5>1, <5>2, <5>3
        <4> QED
          BY <4>3, <4>4, <4>5
      <3>3. step' \in 1 .. 6
        BY <3>2
      <3>4. Receiving!TypeOK'
        BY <1>0, <1>a, <2>1, <2>2, <3>1, <3>3, Zenon DEF ProxyInv, Receiving!TypeOK
      <3>5. Prepared'
        BY <1>0, <2>1, <2>2, <2>4, <3>1, <3>2, NeedsOf DEF ProxyInv, Prepared
      <3>6. PartsUsed' /\ Receiving!PartsAreThere'
        BY <1>0, <2>1, <2>2, <2>4, <3>1 DEF ProxyInv, PartsUsed, Receiving!PartsAreThere
      <3> QED
        BY <3>4, <3>5, <3>6 DEF ProxyInv
    <2> QED
      BY <2>3, <2>4
  <1>3. CASE Receiving!Set
    <2>1. /\ Receiving!Step \in {"listener", "start", "initialised"}
          /\ step' = step + 1
          /\ UNCHANGED <<proxy, stage, parts, delivering, failed>>
      BY <1>3 DEF Receiving!Set
    <2>2. /\ listener' = (listener \/ Receiving!Step = "listener")
          /\ started' = (started \/ Receiving!Step = "start")
          /\ initialised' = (initialised \/ Receiving!Step = "initialised")
      BY <1>3 DEF Receiving!Set
    <2>3. /\ listener' \in BOOLEAN /\ started' \in BOOLEAN /\ initialised' \in BOOLEAN
      BY <2>2
    <2>4. step' \in 1 .. 6
      BY <1>0, <2>1
    <2>5. Receiving!TypeOK'
      BY <1>0, <1>a, <2>1, <2>3, <2>4, Zenon DEF ProxyInv, Receiving!TypeOK
    <2>6. /\ proxy \in Receiving!Velodynes => step >= 4
          /\ proxy \in Receiving!Connections => step >= 3
          /\ proxy = "V2V" => step \in {2, 3, 5}
          /\ Receiving!Step = "start" /\ proxy \in Receiving!Velodynes => step' = 6
          /\ Receiving!Step = "initialised" => proxy = "V2V" /\ step = 5
      BY <1>0, <2>1, StepsInOrder, NeedsOf DEF Receiving!Step
    <2>7. Prepared'
      BY <1>0, <2>1, <2>6, NeedsOf DEF ProxyInv, Prepared
    <2>8. Receiving!Needs(proxy) \subseteq parts
      <3>1. proxy \in Receiving!Velodynes => {"decoder", "memory"} \subseteq parts
        BY <1>0, <2>6, StepsInOrder DEF ProxyInv, Prepared
      <3>2. proxy \in Receiving!Connections => {"decoder"} \subseteq parts
        BY <1>0, <2>6 DEF ProxyInv, Prepared
      <3> QED
        BY <1>0, <3>1, <3>2, NeedsOf
    <2>9. Receiving!Step = "initialised" => "sender" \in parts \/ failed # {}
      BY <1>0, <2>6 DEF ProxyInv, Prepared
    <2>10. PartsUsed'
      <3>1. ~(proxy \in Receiving!Velodynes /\ started)
        BY <1>0 DEF ProxyInv, PartsUsed
      <3> QED
        BY <1>0, <2>1, <2>2, <2>6, <2>8, <2>9, <3>1 DEF ProxyInv, PartsUsed
    <2>11. Receiving!PartsAreThere'
      BY <1>0, <2>1 DEF Receiving!PartsAreThere
    <2> QED
      BY <2>5, <2>7, <2>10, <2>11 DEF ProxyInv
  <1> QED
    BY <1>1, <1>2, <1>3

LEMMA TearDownSteps ==
    ASSUME ProxyInv,
           \/ Receiving!EndSetUp \/ Receiving!StopReceiver
           \/ Receiving!TakeListener \/ Receiving!Destroy
    PROVE  ProxyInv'
  <1>a. /\ proxy \in Receiving!Proxies /\ parts \subseteq Receiving!Parts
        /\ failed \subseteq Receiving!Parts /\ step \in 1 .. 6
        /\ listener \in BOOLEAN /\ started \in BOOLEAN
        /\ delivering \in BOOLEAN /\ initialised \in BOOLEAN
    BY Zenon DEF ProxyInv, Receiving!TypeOK
  <1>1. CASE Receiving!EndSetUp
    <2>1. /\ stage = "settingUp" /\ stage' = "running"
          /\ step > Len(Receiving!Steps(proxy))
          /\ UNCHANGED <<proxy, step, parts, listener, started, delivering, initialised,
                         failed>>
      BY <1>1 DEF Receiving!EndSetUp
    <2>2. Receiving!TypeOK'
      BY <1>a, <2>1, Zenon DEF Receiving!TypeOK
    <2>3. Prepared' /\ PartsUsed' /\ Receiving!PartsAreThere'
      BY <2>1 DEF ProxyInv, Prepared, PartsUsed, Receiving!PartsAreThere
    <2> QED
      BY <2>2, <2>3 DEF ProxyInv
  <1>2. CASE Receiving!StopReceiver
    <2>1. /\ stage = "running" /\ ~delivering
          /\ \/ stage' = "stopped" /\ started' = FALSE
             \/ /\ "receiver" \notin parts /\ proxy \notin Receiving!Connections
                /\ stage' = "crashed" /\ started' = started
          /\ UNCHANGED <<proxy, step, parts, listener, delivering, initialised, failed>>
      BY <1>2 DEF Receiving!StopReceiver, Receiving!Stopped
    <2>2. started' \in BOOLEAN /\ stage' \in {"stopped", "crashed"}
      BY <1>a, <2>1, Zenon
    <2>3. Receiving!TypeOK'
      BY <1>a, <2>1, <2>2, Zenon DEF Receiving!TypeOK
    <2>4. step >= 5
      BY <1>a, <2>1, NeedsOf, StepsInOrder DEF ProxyInv, Prepared
    <2>5. stage' = "crashed" => proxy = "V2V" /\ failed # {}
      <3>1. proxy \in Receiving!Velodynes => "receiver" \in parts
        BY <1>a, <2>1, <2>4, StepsInOrder DEF ProxyInv, Prepared
      <3> QED
        BY <1>a, <2>1, <2>4, <3>1, NeedsOf DEF ProxyInv, Prepared
    <2>6. Prepared' /\ PartsUsed' /\ Receiving!PartsAreThere'
      BY <2>1, <2>5 DEF ProxyInv, Prepared, PartsUsed, Receiving!PartsAreThere
    <2> QED
      BY <2>3, <2>6 DEF ProxyInv
  <1>3. CASE Receiving!TakeListener
    <2>1. /\ stage = "stopped" /\ listener' = FALSE /\ stage' = "tornDown"
          /\ UNCHANGED <<proxy, step, parts, started, delivering, initialised, failed>>
      BY <1>3 DEF Receiving!TakeListener
    <2>2. listener' \in BOOLEAN
      BY <2>1, Zenon
    <2>3. Receiving!TypeOK'
      BY <1>a, <2>1, <2>2, Zenon DEF Receiving!TypeOK
    <2>4. Prepared' /\ PartsUsed' /\ Receiving!PartsAreThere'
      BY <2>1 DEF ProxyInv, Prepared, PartsUsed, Receiving!PartsAreThere
    <2> QED
      BY <2>3, <2>4 DEF ProxyInv
  <1>4. CASE Receiving!Destroy
    <2>1. /\ stage = "tornDown" /\ parts' = {} /\ stage' = "destroyed"
          /\ UNCHANGED <<proxy, step, listener, started, delivering, initialised, failed>>
      BY <1>4 DEF Receiving!Destroy
    <2>2. parts' \subseteq Receiving!Parts
      BY <2>1
    <2>3. Receiving!TypeOK'
      BY <1>a, <2>1, <2>2, Zenon DEF Receiving!TypeOK
    <2>4. Prepared' /\ PartsUsed' /\ Receiving!PartsAreThere'
      BY <2>1 DEF ProxyInv, Prepared, PartsUsed, Receiving!PartsAreThere
    <2> QED
      BY <2>3, <2>4 DEF ProxyInv
  <1> QED
    BY <1>1, <1>2, <1>3, <1>4

(* The two threads that deliver.                                           *)
LEMMA DeliverySteps ==
    ASSUME ProxyInv,
           \/ Receiving!Deliver \/ Receiving!EndDelivery \/ Receiving!NextContainer
           \/ UNCHANGED Receiving!vars
    PROVE  ProxyInv'
  <1>a. /\ proxy \in Receiving!Proxies /\ parts \subseteq Receiving!Parts
        /\ failed \subseteq Receiving!Parts /\ step \in 1 .. 6
        /\ stage \in {"settingUp", "running", "stopped", "tornDown", "destroyed",
                      "crashed"}
        /\ listener \in BOOLEAN /\ started \in BOOLEAN
        /\ delivering \in BOOLEAN /\ initialised \in BOOLEAN
    BY Zenon DEF ProxyInv, Receiving!TypeOK
  <1>1. CASE Receiving!Deliver
    <2>1. /\ started /\ delivering' = TRUE
          /\ UNCHANGED <<proxy, stage, step, parts, listener, started, initialised, failed>>
      BY <1>1 DEF Receiving!Deliver
    <2>2. delivering' \in BOOLEAN
      BY <2>1, Zenon
    <2>3. Receiving!TypeOK'
      BY <1>a, <2>1, <2>2, Zenon DEF Receiving!TypeOK
    <2>4. Prepared' /\ PartsUsed' /\ Receiving!PartsAreThere'
      BY <2>1 DEF ProxyInv, Prepared, PartsUsed, Receiving!PartsAreThere
    <2> QED
      BY <2>3, <2>4 DEF ProxyInv
  <1>2. CASE Receiving!EndDelivery
    <2>1. /\ delivering /\ delivering' = FALSE
          /\ stage' = IF Receiving!Needs(proxy) \subseteq parts THEN stage ELSE "crashed"
          /\ UNCHANGED <<proxy, step, parts, listener, started, initialised, failed>>
      BY <1>2 DEF Receiving!EndDelivery
    <2>2. stage' = stage
      BY <2>1 DEF ProxyInv, PartsUsed
    <2>3. delivering' \in BOOLEAN
      BY <2>1, Zenon
    <2>4. Receiving!TypeOK'
      BY <1>a, <2>1, <2>2, <2>3, Zenon DEF Receiving!TypeOK
    <2>5. Prepared' /\ PartsUsed' /\ Receiving!PartsAreThere'
      BY <2>1, <2>2 DEF ProxyInv, Prepared, PartsUsed, Receiving!PartsAreThere
    <2> QED
      BY <2>4, <2>5 DEF ProxyInv
  <1>3. CASE Receiving!NextContainer
    <2>1. /\ proxy = "V2V" /\ initialised /\ stage \notin {"crashed", "destroyed"}
          /\ stage' = IF "sender" \in parts THEN stage ELSE "crashed"
          /\ UNCHANGED <<proxy, step, parts, listener, started, delivering, initialised,
                         failed>>
      BY <1>3 DEF Receiving!NextContainer
    <2>2. stage' = stage \/ (stage' = "crashed" /\ failed # {})
      <3>1. "sender" \in parts \/ failed # {}
        BY <2>1 DEF ProxyInv, PartsUsed
      <3> QED
        BY <2>1, <3>1
    <2>3. Receiving!TypeOK'
      BY <1>a, <2>1, <2>2, Zenon DEF Receiving!TypeOK
    <2>4. Prepared' /\ PartsUsed' /\ Receiving!PartsAreThere'
      BY <2>1, <2>2 DEF ProxyInv, Prepared, PartsUsed, Receiving!PartsAreThere
    <2> QED
      BY <2>3, <2>4 DEF ProxyInv
  <1>4. CASE UNCHANGED Receiving!vars
    <2>1. UNCHANGED <<proxy, stage, step, parts, listener, started, delivering,
                      initialised, failed>>
      BY <1>4 DEF Receiving!vars
    <2>2. Receiving!TypeOK'
      BY <1>a, <2>1, Zenon DEF Receiving!TypeOK
    <2>3. Prepared' /\ PartsUsed' /\ Receiving!PartsAreThere'
      BY <2>1 DEF ProxyInv, Prepared, PartsUsed, Receiving!PartsAreThere
    <2> QED
      BY <2>2, <2>3 DEF ProxyInv
  <1> QED
    BY <1>1, <1>2, <1>3, <1>4

LEMMA ProxyStep == ASSUME ProxyInv, [Receiving!Next]_(Receiving!vars) PROVE ProxyInv'
  BY SetUpSteps, TearDownSteps, DeliverySteps DEF Receiving!Next

-----------------------------------------------------------------------------
(* Positions in a stream of messages, each behind the one before.          *)

LEMMA Increasing ==
    ASSUME NEW n \in Nat, NEW f \in [1 .. n + 1 -> Nat], \A k \in 1 .. n : f[k] < f[k + 1]
    PROVE  \A j, k \in 1 .. n + 1 : j < k => f[j] < f[k]
  <1> DEFINE Bad == {k \in 1 .. n + 1 : \E j \in 1 .. n + 1 : j < k /\ ~(f[j] < f[k])}
  <1>1. Bad = {}
    <2> SUFFICES ASSUME Bad # {} PROVE FALSE
      OBVIOUS
    <2>1. Bad \in SUBSET Nat
      OBVIOUS
    <2>2. PICK k \in Bad : \A m \in Bad : k <= m
      <3> HIDE DEF Bad
      <3> QED
        BY <2>1, LeastOf
    <2>3. PICK j \in 1 .. n + 1 : j < k /\ ~(f[j] < f[k])
      BY <2>2
    <2>4. k \in 1 .. n + 1 /\ k - 1 \in 1 .. n /\ j <= k - 1 /\ ~(k <= k - 1)
      BY <2>2, <2>3
    <2>5. f[k - 1] < f[k] /\ f[k - 1] \in Nat /\ f[k] \in Nat /\ f[j] \in Nat
      <3>1. f[k - 1] < f[(k - 1) + 1] /\ (k - 1) + 1 = k
        BY <2>4
      <3> QED
        BY <2>3, <2>4, <3>1
    <2>6. j # k - 1
      BY <2>3, <2>5
    <2>7. k - 1 \in Bad
      <3>1. k - 1 \in 1 .. n + 1 /\ j < k - 1
        BY <2>3, <2>4, <2>6
      <3>2. ~(f[j] < f[k - 1])
        BY <2>3, <2>5
      <3> QED
        BY <2>3, <3>1, <3>2
    <2> QED
      BY <2>2, <2>4, <2>7, Zenon
  <1> QED
    BY <1>1

(* The messages up to m are among those counted.                           *)
LEMMA CountUpTo ==
    ASSUME NEW n \in Nat, NEW S \in SUBSET (1 .. n)
    PROVE  /\ IsFiniteSet(S) /\ Cardinality(S) \in Nat
           /\ \A m \in Nat : 1 .. m \subseteq S => m <= Cardinality(S)
           /\ \A T \in SUBSET S : Cardinality(T) <= Cardinality(S)
           /\ S = {} => Cardinality(S) = 0
  <1>0. 1 \in Int /\ n \in Int
    OBVIOUS
  <1>1. IsFiniteSet(1 .. n)
    BY <1>0, FS_Interval
  <1>2. IsFiniteSet(S)
    BY <1>1, FS_Subset
  <1>3. Cardinality(S) \in Nat /\ \A T \in SUBSET S : Cardinality(T) <= Cardinality(S)
    BY <1>2, FS_CardinalityType, FS_Subset
  <1>4. ASSUME NEW m \in Nat, 1 .. m \subseteq S PROVE m <= Cardinality(S)
    <2>1. m \in Int
      OBVIOUS
    <2>2. Cardinality(1 .. m) = IF 1 > m THEN 0 ELSE m - 1 + 1
      BY <1>0, <2>1, FS_Interval
    <2>3. Cardinality(1 .. m) <= Cardinality(S)
      BY <1>3, <1>4
    <2>4. Cardinality(1 .. m) = m
      BY <2>2
    <2> QED
      BY <2>3, <2>4
  <1>5. S = {} => Cardinality(S) = 0
    BY FS_EmptySet
  <1> QED
    BY <1>2, <1>3, <1>4, <1>5

LEMMA SequenceOf ==
    ASSUME NEW n \in Nat, NEW T, NEW s \in [1 .. n -> T]
    PROVE  s \in Seq(T) /\ Len(s) = n
  OBVIOUS

(* Where the messages begin: a sum over those before.                      *)
LEMMA PositionsExist ==
    ASSUME NEW n \in Nat, NEW len \in [1 .. n -> Nat \ {0}]
    PROVE  \E g : g = [k \in 1 .. n + 1 |-> IF k = 1 THEN 0 ELSE g[k - 1] + len[k - 1]]
  <1> DEFINE m == n + 1
             s == [k \in 2 .. m |-> [x \in Nat |-> x + len[k - 1]]]
  <1>1. s \in [1 + 1 .. m -> [Nat -> Nat]]
    <2>1. ASSUME NEW k \in 2 .. m, NEW x \in Nat PROVE x + len[k - 1] \in Nat
      <3>1. k - 1 \in 1 .. n
        OBVIOUS
      <3>2. len[k - 1] \in Nat
        BY <3>1
      <3> QED
        BY <3>2
    <2>2. s \in [2 .. m -> [Nat -> Nat]]
      BY <2>1
    <2>3. 1 + 1 = 2
      OBVIOUS
    <2> HIDE DEF s
    <2> QED
      BY <2>2, <2>3
  <1>2. 1 \in Nat /\ m \in Nat /\ 1 <= m /\ 0 \in Nat
    OBVIOUS
  <1>3. \E f \in [1 .. m -> Nat] : Iterates(f, 1, m, 0, s)
    <2>1. s \in StepFunctions(1, m, Nat)
      BY <1>1, Zenon DEF StepFunctions
    <2> HIDE DEF s, m
    <2> QED
      BY <1>2, <2>1, Iterated
  <1>4. PICK f \in [1 .. m -> Nat] :
           f[1] = 0 /\ \A k \in 1 + 1 .. m : f[k] = s[k][f[k - 1]]
    BY <1>3 DEF Iterates
  <1>5. \A k \in 1 .. m : f[k] = IF k = 1 THEN 0 ELSE s[k][f[k - 1]]
    <2> HIDE DEF s
    <2> QED
      BY <1>4
  <1>6. ASSUME NEW k \in 1 .. m, k # 1 PROVE s[k][f[k - 1]] = f[k - 1] + len[k - 1]
    <2>1. k \in 2 .. m /\ k - 1 \in 1 .. m /\ f[k - 1] \in Nat
      BY <1>6
    <2> QED
      BY <2>1
  <1>7. \A k \in 1 .. m : f[k] = IF k = 1 THEN 0 ELSE f[k - 1] + len[k - 1]
    <2> HIDE DEF s, m
    <2> QED
      BY <1>5, <1>6
  <1>8. f = [k \in 1 .. m |-> IF k = 1 THEN 0 ELSE f[k - 1] + len[k - 1]]
    <2>1. f = [k \in 1 .. m |-> f[k]]
      OBVIOUS
    <2> HIDE DEF s, m
    <2> QED
      BY <1>7, <2>1
  <1> QED
    BY <1>8

LEMMA PositionsIncrease ==
    ASSUME NEW n \in Nat, NEW len \in [1 .. n -> Nat \ {0}], NEW g,
           g = [k \in 1 .. n + 1 |-> IF k = 1 THEN 0 ELSE g[k - 1] + len[k - 1]]
    PROVE  /\ g \in [1 .. n + 1 -> Nat] /\ g[1] = 0
           /\ \A k \in 1 .. n : g[k + 1] = g[k] + len[k]
           /\ \A j, k \in 1 .. n + 1 : j < k => g[j] < g[k]
           /\ \A j \in 1 .. n, k \in 1 .. n + 1 : j < k => g[j] + len[j] <= g[k]
  <1>1. \A k \in 1 .. n + 1 : g[k] = IF k = 1 THEN 0 ELSE g[k - 1] + len[k - 1]
    BY Zenon
  <1>2. g[1] = 0
    <2>1. 1 \in 1 .. n + 1
      OBVIOUS
    <2> QED
      BY <1>1, <2>1
  <1>3. ASSUME NEW k \in 1 .. n PROVE g[k + 1] = g[k] + len[k]
    <2>1. k + 1 \in 1 .. n + 1 /\ k + 1 # 1 /\ k + 1 - 1 = k
      OBVIOUS
    <2> QED
      BY <1>1, <2>1
  <1> DEFINE Bad == {k \in 1 .. n + 1 : g[k] \notin Nat}
  <1>4. Bad = {}
    <2> SUFFICES ASSUME Bad # {} PROVE FALSE
      OBVIOUS
    <2>1. Bad \in SUBSET Nat
      OBVIOUS
    <2>2. PICK k \in Bad : \A m \in Bad : k <= m
      <3> HIDE DEF Bad
      <3> QED
        BY <2>1, LeastOf
    <2>3. k \in 1 .. n + 1 /\ g[k] \notin Nat
      BY <2>2
    <2>4. k # 1
      BY <1>2, <2>3
    <2>5. k - 1 \in 1 .. n /\ k - 1 \in 1 .. n + 1 /\ ~(k <= k - 1) /\ (k - 1) + 1 = k
      BY <2>3, <2>4
    <2>6. g[k - 1] \in Nat
      BY <2>2, <2>5
    <2>7. g[k] = g[k - 1] + len[k - 1] /\ len[k - 1] \in Nat
      BY <1>3, <2>5
    <2> QED
      BY <2>3, <2>6, <2>7
  <1>5. g \in [1 .. n + 1 -> Nat]
    <2>1. \A k \in 1 .. n + 1 : g[k] \in Nat
      BY <1>4
    <2>2. g = [k \in 1 .. n + 1 |-> g[k]]
      BY <1>1
    <2> QED
      BY <2>1, <2>2
  <1>6. \A k \in 1 .. n : g[k] < g[k + 1]
    <2> SUFFICES ASSUME NEW k \in 1 .. n PROVE g[k] < g[k + 1]
      OBVIOUS
    <2>1. k \in 1 .. n + 1
      OBVIOUS
    <2>2. g[k] \in Nat /\ len[k] \in Nat \ {0}
      BY <1>5, <2>1
    <2> QED
      BY <1>3, <2>2
  <1>7. \A j, k \in 1 .. n + 1 : j < k => g[j] < g[k]
    BY <1>5, <1>6, Increasing
  <1>8. ASSUME NEW j \in 1 .. n, NEW k \in 1 .. n + 1, j < k PROVE g[j] + len[j] <= g[k]
    <2>1. j + 1 \in 1 .. n + 1 /\ (j + 1 = k \/ j + 1 < k)
      BY <1>8
    <2>2. g[j + 1] \in Nat /\ g[k] \in Nat /\ g[j + 1] = g[j] + len[j]
      BY <1>3, <1>5, <2>1
    <2>4. j + 1 = k => g[j] + len[j] <= g[k]
      BY <2>2
    <2>3. j + 1 < k => g[j + 1] < g[k]
      BY <1>7, <2>1
    <2>5. j + 1 < k => g[j] + len[j] <= g[k]
      BY <2>2, <2>3
    <2> QED
      BY <2>1, <2>4, <2>5, Zenon
  <1> QED
    BY <1>2, <1>3, <1>5, <1>7, <1>8

LEMMA EqualSequences ==
    ASSUME NEW T, NEW s \in Seq(T), NEW t \in Seq(T), Len(s) = Len(t),
           \A k \in 1 .. Len(s) : s[k] = t[k]
    PROVE  s = t
  OBVIOUS

LastOf(s) == s[Len(s)]

LEMMA LastIn ==
    ASSUME NEW T, NEW s \in Seq(T), s # <<>>
    PROVE  LastOf(s) \in T
  <1>1. Len(s) \in 1 .. Len(s)
    OBVIOUS
  <1> QED
    BY <1>1 DEF LastOf

LEMMA AppendedLast ==
    ASSUME NEW T, NEW s \in Seq(T), NEW x \in T
    PROVE  Append(s, x) \in Seq(T) /\ Append(s, x) # <<>> /\ LastOf(Append(s, x)) = x
  <1>1. /\ Append(s, x) \in Seq(T) /\ Len(Append(s, x)) = Len(s) + 1
        /\ Append(s, x) # <<>> /\ Append(s, x)[Len(s) + 1] = x
    OBVIOUS
  <1> QED
    BY <1>1, Zenon DEF LastOf

LEMMA ElementsIn ==
    ASSUME NEW T, NEW s \in Seq(T)
    PROVE  \A q \in 1 .. Len(s) : s[q] \in T
  OBVIOUS

LEMMA JoinedSequences ==
    ASSUME NEW T, NEW s \in Seq(T), NEW t \in Seq(T)
    PROVE  /\ s \o t \in Seq(T) /\ Len(s \o t) = Len(s) + Len(t)
           /\ s \o <<>> = s
           /\ \A k \in 1 .. Len(s) : (s \o t)[k] = s[k]
           /\ \A k \in 1 .. Len(t) : (s \o t)[Len(s) + k] = t[k]
  <1>1. s \o <<>> = s
    OBVIOUS
  <1>2. s \o t \in Seq(T) /\ Len(s \o t) = Len(s) + Len(t)
    OBVIOUS
  <1>3. \A k \in 1 .. Len(s) : (s \o t)[k] = s[k]
    OBVIOUS
  <1>4. ASSUME NEW k \in 1 .. Len(t) PROVE (s \o t)[Len(s) + k] = t[k]
    <2>1. Len(s) \in Nat /\ Len(t) \in Nat
      OBVIOUS
    <2>2. Len(s) + k \in 1 .. Len(s) + Len(t) /\ ~(Len(s) + k <= Len(s)) /\ Len(s) + k - Len(s) = k
      BY <2>1
    <2> QED
      BY <2>2
  <1> QED
    BY <1>1, <1>2, <1>3, <1>4

-----------------------------------------------------------------------------
(* The SICK decoder.                                                       *)

LEMMA SickBytes ==
    ASSUME NEW x \in Int, NEW c \in Nat
    PROVE  /\ Sick!Bytes(x, c) = [k \in 1 .. c |-> x + k - 1]
           /\ Sick!Bytes(x, c) \in Seq(Int) /\ Len(Sick!Bytes(x, c)) = c
           /\ \A k \in 1 .. c : Sick!Bytes(x, c)[k] = x + k - 1
  <1>1. Sick!Bytes(x, c) = [k \in 1 .. c |-> x + k - 1]
    BY DEF Sick!Bytes
  <1>2. [k \in 1 .. c |-> x + k - 1] \in [1 .. c -> Int]
    OBVIOUS
  <1>3. Sick!Bytes(x, c) \in Seq(Int) /\ Len(Sick!Bytes(x, c)) = c
    BY <1>1, <1>2, SequenceOf
  <1> QED
    BY <1>1, <1>3

LEMMA BytesBehind ==
    ASSUME NEW x \in Int, NEW c \in Nat, NEW n \in 0 .. c
    PROVE  SubSeq(Sick!Bytes(x, c), n + 1, c) = Sick!Bytes(x + n, c - n)
  <1> DEFINE s == Sick!Bytes(x, c)
             t == SubSeq(s, n + 1, c)
             u == Sick!Bytes(x + n, c - n)
  <1>1. s \in Seq(Int) /\ Len(s) = c /\ \A k \in 1 .. c : s[k] = x + k - 1
    BY SickBytes
  <1>2. c - n \in Nat /\ x + n \in Int
    OBVIOUS
  <1>3. u \in Seq(Int) /\ Len(u) = c - n /\ \A k \in 1 .. c - n : u[k] = x + n + k - 1
    BY <1>2, SickBytes
  <1> HIDE DEF s, u
  <1>4. t \in Seq(Int) /\ Len(t) = c - n /\ \A k \in 1 .. c - n : t[k] = s[k + n]
    BY <1>1
  <1>5. \A k \in 1 .. c - n : t[k] = u[k]
    BY <1>1, <1>3, <1>4
  <1> HIDE DEF t
  <1>6. t = u
    BY <1>3, <1>4, <1>5
  <1> QED
    BY <1>6 DEF s, t, u

LEMMA BytesWritten ==
    ASSUME NEW x \in Int, NEW c \in Nat, NEW n \in Nat
    PROVE  SubSeq(Sick!Bytes(x, c), 1, c) \o Sick!Bytes(x + c, n)
              \o SubSeq(Sick!Bytes(x, c), c + n + 1, c) = Sick!Bytes(x, c + n)
  <1> DEFINE s == Sick!Bytes(x, c)
             t == Sick!Bytes(x + c, n)
             u == Sick!Bytes(x, c + n)
             w == SubSeq(s, 1, c) \o t \o SubSeq(s, c + n + 1, c)
  <1>1. s \in Seq(Int) /\ Len(s) = c /\ \A k \in 1 .. c : s[k] = x + k - 1
    BY SickBytes
  <1>2. x + c \in Int /\ c + n \in Nat
    OBVIOUS
  <1>3. t \in Seq(Int) /\ Len(t) = n /\ \A k \in 1 .. n : t[k] = x + c + k - 1
    BY <1>2, SickBytes
  <1>4. u \in Seq(Int) /\ Len(u) = c + n /\ \A k \in 1 .. c + n : u[k] = x + k - 1
    BY <1>2, SickBytes
  <1> HIDE DEF s, t, u
  <1>5. SubSeq(s, 1, c) = s
    BY <1>1
  <1>6. SubSeq(s, c + n + 1, c) = <<>>
    BY <1>1
  <1>7. w = (s \o t) \o <<>>
    BY <1>5, <1>6
  <1>8. s \o t \in Seq(Int) /\ Len(s \o t) = c + n /\ (s \o t) \o <<>> = s \o t
    BY <1>1, <1>3, JoinedSequences
  <1>9. ASSUME NEW k \in 1 .. c + n PROVE (s \o t)[k] = u[k]
    <2>1. CASE k <= c
      <3>1. k \in 1 .. c /\ k \in 1 .. Len(s)
        BY <1>1, <2>1
      <3>2. (s \o t)[k] = s[k]
        BY <1>1, <1>3, <3>1, JoinedSequences
      <3> QED
        BY <1>1, <1>4, <3>1, <3>2
    <2>2. CASE k > c
      <3>1. k - c \in 1 .. n /\ k - c \in 1 .. Len(t) /\ Len(s) + (k - c) = k
        BY <1>1, <1>3, <2>2
      <3>2. (s \o t)[Len(s) + (k - c)] = t[k - c]
        BY <1>1, <1>3, <3>1, JoinedSequences
      <3>3. t[k - c] = x + c + (k - c) - 1
        BY <1>3, <3>1
      <3>4. (s \o t)[k] = t[k - c]
        BY <3>1, <3>2, Zenon
      <3>5. t[k - c] = x + k - 1
        BY <3>3
      <3>6. u[k] = x + k - 1
        BY <1>4
      <3> QED
        BY <3>4, <3>5, <3>6, Zenon
    <2>3. k <= c \/ k > c
      OBVIOUS
    <2> QED
      BY <2>1, <2>2, <2>3, Zenon
  <1> DEFINE v == s \o t
  <1>10. v = u
    <2>1. v \in Seq(Int) /\ Len(v) = Len(u) /\ \A k \in 1 .. Len(v) : v[k] = u[k]
      BY <1>4, <1>8, <1>9
    <2> HIDE DEF v
    <2> QED
      BY <1>4, <2>1, EqualSequences
  <1> QED
    BY <1>7, <1>8, <1>10 DEF s, t, u

(* The telegrams on the line, and where each of them begins.               *)
LEMMA SickPositions ==
    ASSUME Sick!SickAssumption, stream \in [1 .. SickLength -> Telegrams]
    PROVE  /\ SickLength \in Nat /\ Len(stream) = SickLength
           /\ Sick!StartOf \in [1 .. SickLength + 1 -> Nat] /\ Sick!StartOf[1] = 0
           /\ \A k \in 1 .. SickLength :
                 /\ Sick!LengthOf(stream[k]) \in Nat \ {0}
                 /\ Sick!StartOf[k + 1] = Sick!StartOf[k] + Sick!LengthOf(stream[k])
           /\ \A j, k \in 1 .. SickLength + 1 : j < k => Sick!StartOf[j] < Sick!StartOf[k]
           /\ \A j \in 1 .. SickLength, k \in 1 .. SickLength + 1 :
                 j < k => Sick!StartOf[j] + Sick!LengthOf(stream[j]) <= Sick!StartOf[k]
  <1> DEFINE len == [k \in 1 .. SickLength |-> Sick!LengthOf(stream[k])]
  <1>1. SickLength \in Nat /\ Len(stream) = SickLength
    BY SequenceOf DEF Sick!SickAssumption
  <1>2. ASSUME NEW k \in 1 .. SickLength
        PROVE  Sick!LengthOf(stream[k]) \in Nat \ {0}
    <2>1. stream[k] \in {"measurement", "confirmation", "other"}
      BY DEF Sick!SickAssumption
    <2> QED
      BY <2>1 DEF Sick!SickAssumption, Sick!LengthOf
  <1>3. len \in [1 .. SickLength -> Nat \ {0}]
    BY <1>2
  <1>4. ASSUME NEW k \in 1 .. SickLength + 1, k # 1
        PROVE  len[k - 1] = Sick!LengthOf(stream[k - 1])
    BY <1>1, <1>4
  <1>5. ASSUME NEW g
        PROVE  [k \in 1 .. SickLength + 1 |-> IF k = 1 THEN 0 ELSE g[k - 1] + len[k - 1]]
                = [k \in 1 .. Len(stream) + 1 |->
                     IF k = 1 THEN 0 ELSE g[k - 1] + Sick!LengthOf(stream[k - 1])]
    <2> HIDE DEF len
    <2> QED
      BY <1>1, <1>4
  <1>6. \E g : g = [k \in 1 .. Len(stream) + 1 |->
                      IF k = 1 THEN 0 ELSE g[k - 1] + Sick!LengthOf(stream[k - 1])]
    <2> HIDE DEF len
    <2>1. PICK g : g = [k \in 1 .. SickLength + 1 |->
                          IF k = 1 THEN 0 ELSE g[k - 1] + len[k - 1]]
      BY <1>1, <1>3, PositionsExist
    <2>2. g = [k \in 1 .. Len(stream) + 1 |->
                 IF k = 1 THEN 0 ELSE g[k - 1] + Sick!LengthOf(stream[k - 1])]
      BY <1>5, <2>1, Zenon
    <2> QED
      BY <2>2
  <1>7. Sick!StartOf = [k \in 1 .. Len(stream) + 1 |->
                IF k = 1 THEN 0 ELSE Sick!StartOf[k - 1] + Sick!LengthOf(stream[k - 1])]
    BY <1>6, Zenon DEF Sick!StartOf
  <1> DEFINE g == Sick!StartOf
  <1>8. g = [k \in 1 .. SickLength + 1 |-> IF k = 1 THEN 0 ELSE g[k - 1] + len[k - 1]]
    <2> HIDE DEF len
    <2> QED
      BY <1>5, <1>7, Zenon
  <1>9. /\ g \in [1 .. SickLength + 1 -> Nat] /\ g[1] = 0
        /\ \A k \in 1 .. SickLength : g[k + 1] = g[k] + len[k]
        /\ \A j, k \in 1 .. SickLength + 1 : j < k => g[j] < g[k]
        /\ \A j \in 1 .. SickLength, k \in 1 .. SickLength + 1 :
              j < k => g[j] + len[j] <= g[k]
    <2> HIDE DEF len, g
    <2> QED
      BY <1>1, <1>3, <1>8, PositionsIncrease
  <1>10. \A k \in 1 .. SickLength : len[k] = Sick!LengthOf(stream[k])
    OBVIOUS
  <1> HIDE DEF len
  <1> QED
    BY <1>1, <1>2, <1>9, <1>10

LEMMA SickFixed ==
    ASSUME stream' = stream
    PROVE  /\ Sick!StartOf' = Sick!StartOf /\ Sick!LineLength' = Sick!LineLength
           /\ Sick!Numbers' = Sick!Numbers /\ Sick!Measurements' = Sick!Measurements
  <1>1. Sick!StartOf' = Sick!StartOf
    BY SMT DEF Sick!StartOf
  <1>2. Sick!LineLength' = Sick!LineLength
    BY <1>1 DEF Sick!LineLength
  <1>3. Sick!Numbers' = Sick!Numbers
    BY DEF Sick!Numbers
  <1>4. Sick!Measurements' = Sick!Measurements
    BY <1>3 DEF Sick!Measurements
  <1> QED
    BY <1>1, <1>2, <1>3, <1>4

LEMMA BytesBefore ==
    ASSUME NEW x \in Int, NEW c \in Nat, NEW n \in 0 .. c
    PROVE  SubSeq(Sick!Bytes(x, c), 1, n) = Sick!Bytes(x, n)
  <1> DEFINE s == Sick!Bytes(x, c)
             t == SubSeq(s, 1, n)
             u == Sick!Bytes(x, n)
  <1>1. s \in Seq(Int) /\ Len(s) = c /\ \A k \in 1 .. c : s[k] = x + k - 1
    BY SickBytes
  <1>2. u \in Seq(Int) /\ Len(u) = n /\ \A k \in 1 .. n : u[k] = x + k - 1
    BY SickBytes
  <1> HIDE DEF s, u
  <1>3. t \in Seq(Int) /\ Len(t) = n /\ \A k \in 1 .. n : t[k] = s[k]
    BY <1>1
  <1>4. \A k \in 1 .. Len(t) : t[k] = u[k]
    BY <1>1, <1>2, <1>3
  <1> HIDE DEF t
  <1>5. t = u
    BY <1>2, <1>3, <1>4, EqualSequences
  <1> QED
    BY <1>5 DEF s, t, u

LEMMA BytesOfLine ==
    ASSUME NEW x \in Nat, NEW c \in Nat, NEW m \in Nat, x + c <= m
    PROVE  Sick!Bytes(x, c) \in Seq(0 .. m - 1)
  <1>1. Sick!Bytes(x, c) = [k \in 1 .. c |-> x + k - 1]
    BY SickBytes
  <1>2. [k \in 1 .. c |-> x + k - 1] \in [1 .. c -> 0 .. m - 1]
    OBVIOUS
  <1> QED
    BY <1>1, <1>2, SequenceOf

(* What holds in every state of the SICK decoder: the buffer holds the last*)
(* bytes received, in their order; while a payload is read, the bytes read *)
(* of it are those behind its header; and no telegram is looked at that is *)
(* before one delivered.                                                   *)
SickFilled == bytes = Sick!Bytes(Sick!Examined, Len(bytes))
SickTurn ==
    /\ pc = "idle" => put = Len(bytes) /\ Len(bytes) < StartLength
    /\ pc = "decode" => bytes # <<>>
SickReads(k) ==
    /\ Sick!Examined = Sick!StartOf[k] + HeaderLength + byteCounter
    /\ \A i \in 1 .. byteCounter :
          measurements[i] = Sick!StartOf[k] + HeaderLength + i - 1
    /\ delivered # <<>> => Sick!StartOf[LastOf(delivered)] < Sick!StartOf[k]
SickReading == foundHeader => \E k \in Sick!Measurements : SickReads(k)
SickPassed == delivered # <<>> => Sick!StartOf[LastOf(delivered)] < Sick!Examined

SickInv ==
    /\ stream \in [1 .. SickLength -> Telegrams]
    /\ Sick!TypeOK /\ delivered \in Seq(1 .. SickLength)
    /\ SickFilled /\ SickTurn /\ SickReading /\ SickPassed

LEMMA SickConstants ==
    ASSUME stream \in [1 .. SickLength -> Telegrams]
    PROVE  /\ SickLength \in Nat /\ Sick!Numbers = 1 .. SickLength
           /\ Sick!LineLength = Sick!StartOf[SickLength + 1] /\ Sick!LineLength \in Nat
           /\ HeaderLength \in Nat \ {0} /\ StartLength \in Nat
           /\ HeaderLength < StartLength
           /\ PayloadLength \in Nat \ {0} /\ TrailerLength \in Nat \ {0}
           /\ SickChunks \subseteq Nat \ {0}
           /\ \A k \in Sick!Measurements :
                 /\ k \in 1 .. SickLength /\ stream[k] = "measurement"
                 /\ Sick!LengthOf(stream[k])
                      = HeaderLength + PayloadLength + TrailerLength
  <1>1. Sick!SickAssumption
    BY StreamAssumption
  <1>2. SickLength \in Nat /\ Len(stream) = SickLength
    BY <1>1, SickPositions
  <1>3. Sick!LineLength \in Nat /\ Sick!LineLength = Sick!StartOf[SickLength + 1]
    <2>1. SickLength + 1 \in 1 .. SickLength + 1
      BY <1>2
    <2> QED
      BY <1>1, <1>2, <2>1, SickPositions DEF Sick!LineLength
  <1>4. Sick!Numbers = 1 .. SickLength
    BY <1>2 DEF Sick!Numbers
  <1>5. /\ HeaderLength \in Nat \ {0} /\ StartLength \in Nat
        /\ HeaderLength < StartLength
        /\ PayloadLength \in Nat \ {0} /\ TrailerLength \in Nat \ {0}
        /\ SickChunks \subseteq Nat \ {0}
    BY <1>1 DEF Sick!SickAssumption
  <1>6. \A k \in Sick!Measurements :
           /\ k \in 1 .. SickLength /\ stream[k] = "measurement"
           /\ Sick!LengthOf(stream[k]) = HeaderLength + PayloadLength + TrailerLength
    BY <1>4 DEF Sick!Measurements, Sick!LengthOf
  <1> QED
    BY <1>2, <1>3, <1>4, <1>5, <1>6

LEMMA SickBuffered ==
    ASSUME SickInv
    PROVE  /\ received \in Nat /\ Len(bytes) \in Nat /\ bytes \in Seq(Int)
           /\ Sick!Examined \in Nat /\ Sick!Examined + Len(bytes) = received
           /\ received <= Sick!LineLength
           /\ \A i \in 1 .. Len(bytes) : bytes[i] = Sick!Examined + i - 1
           /\ (bytes # <<>> => Len(bytes) >= 1)
  <1>1. /\ received \in 0 .. Sick!LineLength /\ Sick!LineLength \in Nat
        /\ bytes \in Seq(0 .. Sick!LineLength - 1)
    BY SickConstants DEF SickInv, Sick!TypeOK
  <1>2. received \in Nat /\ received <= Sick!LineLength /\ Len(bytes) \in Nat
    BY <1>1
  <1>3. Sick!Examined = received - Len(bytes) /\ Sick!Examined \in Int
    BY <1>2 DEF Sick!Examined
  <1>4. bytes = Sick!Bytes(Sick!Examined, Len(bytes))
    BY DEF SickInv, SickFilled
  <1>5. /\ bytes \in Seq(Int)
        /\ \A i \in 1 .. Len(bytes) : bytes[i] = Sick!Examined + i - 1
    <2> DEFINE c == Len(bytes)
               x == Sick!Examined
    <2>1. /\ Sick!Bytes(x, c) \in Seq(Int)
          /\ \A i \in 1 .. c : Sick!Bytes(x, c)[i] = x + i - 1
      BY <1>2, <1>3, SickBytes
    <2>2. bytes = Sick!Bytes(x, c)
      BY <1>4
    <2> HIDE DEF x, c
    <2>3. bytes \in Seq(Int) /\ \A i \in 1 .. c : bytes[i] = x + i - 1
      BY <2>1, <2>2, Zenon
    <2> QED
      BY <2>3 DEF x, c
  <1>6. Len(bytes) # 0 => Sick!Examined \in Nat
    <2> SUFFICES ASSUME Len(bytes) # 0 PROVE Sick!Examined \in Nat
      OBVIOUS
    <2>1. 1 \in 1 .. Len(bytes)
      BY <1>2
    <2>2. bytes[1] = Sick!Examined + 1 - 1 /\ bytes[1] \in 0 .. Sick!LineLength - 1
      BY <1>1, <1>5, <2>1
    <2> QED
      BY <1>1, <1>3, <2>2
  <1>7. Len(bytes) = 0 => Sick!Examined \in Nat
    BY <1>2, <1>3
  <1>8. bytes # <<>> => Len(bytes) >= 1
    BY <1>1, <1>2
  <1> QED
    BY <1>2, <1>3, <1>5, <1>6, <1>7, <1>8

LEMMA SickInitially ==
    ASSUME Sick!Init
    PROVE  SickInv
  <1>1. /\ stream \in [1 .. SickLength -> Telegrams] /\ received = 0
        /\ bytes = <<>> /\ put = 0 /\ byteCounter = 0 /\ pc = "idle"
        /\ measurements = [i \in 1 .. PayloadLength |-> -1] /\ delivered = <<>>
    BY DEF Sick!Init
  <1>2. /\ PayloadLength \in Nat \ {0} /\ Sick!LineLength \in Nat
        /\ StartLength \in Nat /\ StartLength > 0
    BY <1>1, SickConstants
  <1>3. Sick!Examined = 0
    <2>1. Len(bytes) = 0
      BY <1>1
    <2>2. Sick!Examined = 0 - 0
      BY <1>1, <2>1, Zenon DEF Sick!Examined
    <2> QED
      BY <2>2
  <1>4. SickFilled
    <2>1. Sick!Bytes(0, 0) \in Seq(Int) /\ Len(Sick!Bytes(0, 0)) = 0
      BY SickBytes
    <2>2. Sick!Bytes(0, 0) = <<>>
      BY <2>1
    <2>3. Len(<<>>) = 0
      OBVIOUS
    <2> QED
      BY <1>1, <1>3, <2>2, <2>3, Zenon DEF SickFilled
  <1>5. Sick!TypeOK
    <2>1. received \in 0 .. Sick!LineLength /\ put \in 0 .. Len(bytes)
      BY <1>1, <1>2
    <2>2. bytes \in Seq(0 .. Sick!LineLength - 1) /\ delivered \in Seq(0 .. SickLength)
      BY <1>1
    <2>3. foundHeader \in BOOLEAN /\ startConfirmed \in BOOLEAN
      BY Zenon DEF Sick!Init
    <2>4. byteCounter \in 0 .. PayloadLength /\ pc \in {"idle", "decode"}
      BY <1>1, <1>2
    <2>5. measurements \in [1 .. PayloadLength -> -1 .. Sick!LineLength - 1]
      BY <1>1, <1>2
    <2> QED
      BY <2>1, <2>2, <2>3, <2>4, <2>5, Zenon DEF Sick!TypeOK
  <1>6. SickTurn
    BY <1>1, <1>2 DEF SickTurn
  <1>7. SickReading
    BY Zenon DEF Sick!Init, SickReading
  <1>8. SickPassed
    BY <1>1 DEF SickPassed
  <1>9. delivered \in Seq(1 .. SickLength)
    BY <1>1
  <1> QED
    BY <1>1, <1>4, <1>5, <1>6, <1>7, <1>8, <1>9 DEF SickInv

(* What every step of the decoder has in common.                           *)
SickTyped ==
    /\ received \in 0 .. Sick!LineLength
    /\ bytes \in Seq(0 .. Sick!LineLength - 1) /\ put \in 0 .. Len(bytes)
    /\ pc \in {"idle", "decode"}
SickBufferInv == SickTyped /\ SickFilled /\ SickTurn

LEMMA SickConsumes ==
    ASSUME SickInv, NEW n \in 0 .. Len(bytes), Sick!Consume(n)
    PROVE  /\ SickBufferInv' /\ received' = received /\ stream' = stream
           /\ Sick!Examined' = Sick!Examined + n
  <1>1. /\ received \in Nat /\ Len(bytes) \in Nat /\ bytes \in Seq(Int)
        /\ Sick!Examined \in Nat /\ Sick!Examined + Len(bytes) = received
        /\ received <= Sick!LineLength
    BY SickBuffered
  <1>2. Sick!LineLength \in Nat
    BY SickConstants DEF SickInv
  <1>3. /\ stream' = stream /\ received' = received /\ put' = 0
        /\ bytes' = SubSeq(bytes, n + 1, Len(bytes))
        /\ pc' = IF bytes' = <<>> THEN "idle" ELSE "decode"
    BY DEF Sick!Consume, Sick!LoopEnds
  <1>4. Sick!LineLength' = Sick!LineLength
    BY <1>3, SickFixed
  <1>5. Len(bytes') = Len(bytes) - n
    BY <1>1, <1>3
  <1>6. Sick!Examined' = Sick!Examined + n
    <2>1. Sick!Examined' = received' - Len(bytes')
      BY DEF Sick!Examined
    <2>2. Sick!Examined' = received - (Len(bytes) - n)
      BY <1>3, <1>5, <2>1, Zenon
    <2> QED
      BY <1>1, <2>2
  <1>7. bytes' = Sick!Bytes(Sick!Examined + n, Len(bytes) - n)
    <2> DEFINE c == Len(bytes)
               x == Sick!Examined
    <2>0. x \in Int /\ c \in Nat /\ n \in 0 .. c
      BY <1>1
    <2>1. SubSeq(Sick!Bytes(x, c), n + 1, c) = Sick!Bytes(x + n, c - n)
      <3> HIDE DEF x, c
      <3> QED
        BY <2>0, BytesBehind
    <2>2. bytes = Sick!Bytes(x, c)
      BY DEF SickInv, SickFilled
    <2>3. bytes' = SubSeq(bytes, n + 1, c)
      BY <1>3
    <2> HIDE DEF x, c
    <2>4. bytes' = Sick!Bytes(x + n, c - n)
      BY <2>1, <2>2, <2>3, Zenon
    <2> QED
      BY <2>4 DEF x, c
  <1>8. SickFilled'
    BY <1>5, <1>6, <1>7, Zenon DEF SickFilled
  <1>9. bytes' \in Seq(0 .. Sick!LineLength - 1)
    <2>1. /\ Sick!Examined + n \in Nat /\ Len(bytes) - n \in Nat
          /\ (Sick!Examined + n) + (Len(bytes) - n) <= Sick!LineLength
      BY <1>1
    <2>2. Sick!Bytes(Sick!Examined + n, Len(bytes) - n) \in Seq(0 .. Sick!LineLength - 1)
      BY <1>2, <2>1, BytesOfLine
    <2> QED
      BY <1>7, <2>2, Zenon
  <1>10. SickTyped'
    <2>1. received' \in 0 .. Sick!LineLength' /\ put' \in 0 .. Len(bytes')
      BY <1>1, <1>3, <1>4, <1>5
    <2>2. bytes' \in Seq(0 .. Sick!LineLength' - 1)
      BY <1>4, <1>9
    <2>3. pc' \in {"idle", "decode"}
      BY <1>3
    <2> QED
      BY <2>1, <2>2, <2>3, Zenon DEF SickTyped
  <1>11. SickTurn'
    <2>1. /\ pc' = "idle" => put' = Len(bytes') /\ Len(bytes') < StartLength
          /\ pc' = "decode" => bytes' # <<>>
      <3>1. CASE bytes' = <<>>
        <4>1. StartLength \in Nat /\ StartLength > 0 /\ Len(bytes') = 0
          BY <3>1, SickConstants DEF SickInv
        <4> QED
          BY <1>3, <3>1, <4>1
      <3>2. CASE bytes' # <<>>
        BY <1>3, <3>2
      <3> QED
        BY <3>1, <3>2
    <2> QED
      BY <2>1 DEF SickTurn
  <1> QED
    BY <1>3, <1>6, <1>8, <1>10, <1>11 DEF SickBufferInv

LEMMA SickReceives ==
    ASSUME SickInv, Sick!NextString
    PROVE  /\ SickBufferInv' /\ received' \in Nat /\ received' >= received
           /\ Sick!Examined' = Sick!Examined
           /\ stream' = stream /\ UNCHANGED Sick!state /\ delivered' = delivered
  <1>1. /\ received \in Nat /\ Len(bytes) \in Nat /\ bytes \in Seq(Int)
        /\ Sick!Examined \in Nat /\ Sick!Examined + Len(bytes) = received
    BY SickBuffered
  <1>2. pc = "idle" /\ put = Len(bytes)
    BY DEF Sick!NextString, SickInv, SickTurn
  <1>3. PICK n \in SickChunks :
           /\ received + n <= Sick!LineLength /\ received' = received + n
           /\ bytes' = Sick!Written(Sick!Bytes(received, n)) /\ put' = put + n
    BY DEF Sick!NextString
  <1>4. /\ pc' = IF Len(bytes') >= StartLength THEN "decode" ELSE "idle"
        /\ stream' = stream /\ UNCHANGED Sick!state /\ delivered' = delivered
    BY DEF Sick!NextString
  <1>5. /\ n \in Nat \ {0} /\ Sick!LineLength \in Nat
        /\ StartLength \in Nat /\ StartLength > 0
    BY SickConstants DEF SickInv
  <1>6. bytes' = Sick!Bytes(Sick!Examined, Len(bytes) + n)
    <2> DEFINE c == Len(bytes)
               x == Sick!Examined
               t == Sick!Bytes(received, n)
    <2>0. x \in Int /\ c \in Nat /\ n \in Nat
      BY <1>1, <1>5
    <2>1. SubSeq(Sick!Bytes(x, c), 1, c) \o Sick!Bytes(x + c, n)
              \o SubSeq(Sick!Bytes(x, c), c + n + 1, c) = Sick!Bytes(x, c + n)
      <3> HIDE DEF x, c
      <3> QED
        BY <2>0, BytesWritten
    <2>2. bytes = Sick!Bytes(x, c)
      BY DEF SickInv, SickFilled
    <2>3. t = Sick!Bytes(x + c, n) /\ Len(t) = n
      BY <1>1, <1>5, SickBytes
    <2>4. Sick!Written(t) = SubSeq(bytes, 1, put) \o t
                              \o SubSeq(bytes, put + Len(t) + 1, Len(bytes))
      BY DEF Sick!Written
    <2>5. bytes' = SubSeq(bytes, 1, c) \o t \o SubSeq(bytes, c + n + 1, c)
      BY <1>2, <1>3, <2>3, <2>4, Zenon
    <2> HIDE DEF x, c, t
    <2>6. bytes' = Sick!Bytes(x, c + n)
      BY <2>1, <2>2, <2>3, <2>5, Zenon
    <2> QED
      BY <2>6 DEF x, c
  <1>7. Len(bytes') = Len(bytes) + n
    BY <1>1, <1>5, <1>6, SickBytes
  <1>8. Sick!Examined' = Sick!Examined
    BY <1>1, <1>3, <1>5, <1>7 DEF Sick!Examined
  <1>9. SickFilled'
    BY <1>6, <1>7, <1>8, Zenon DEF SickFilled
  <1>10. Sick!LineLength' = Sick!LineLength
    BY <1>4, SickFixed
  <1>11. SickTyped'
    <2>1. bytes' \in Seq(0 .. Sick!LineLength - 1)
      <3>1. /\ Len(bytes) + n \in Nat
            /\ Sick!Examined + (Len(bytes) + n) <= Sick!LineLength
        BY <1>1, <1>3, <1>5
      <3> QED
        BY <1>1, <1>5, <1>6, <3>1, BytesOfLine
    <2>2. bytes' \in Seq(0 .. Sick!LineLength' - 1)
      BY <1>10, <2>1
    <2>3. received' \in 0 .. Sick!LineLength' /\ put' \in 0 .. Len(bytes')
      BY <1>1, <1>2, <1>3, <1>5, <1>7, <1>10
    <2>4. pc' \in {"idle", "decode"}
      BY <1>4
    <2> QED
      BY <2>2, <2>3, <2>4, Zenon DEF SickTyped
  <1>12. SickTurn'
    <2>1. put' = Len(bytes') /\ Len(bytes') \in Nat
      BY <1>1, <1>2, <1>3, <1>5, <1>7
    <2>2. Len(bytes') >= StartLength => bytes' # <<>>
      BY <1>5, <1>7, <1>1
    <2> QED
      BY <1>4, <1>5, <2>1, <2>2 DEF SickTurn
  <1>13. received' \in Nat /\ received' >= received
    BY <1>1, <1>3, <1>5
  <1> QED
    BY <1>4, <1>8, <1>9, <1>11, <1>12, <1>13 DEF SickBufferInv

(* Between its first byte and its last one a telegram has no other.        *)
LEMMA NoStartBetween ==
    ASSUME stream \in [1 .. SickLength -> Telegrams],
           NEW j \in 1 .. SickLength, NEW a \in Nat, NEW b \in Nat,
           Sick!StartOf[j] < a, b <= Sick!StartOf[j] + Sick!LengthOf(stream[j])
    PROVE  \A k \in 1 .. SickLength : ~(a <= Sick!StartOf[k] /\ Sick!StartOf[k] < b)
  <1> SUFFICES ASSUME NEW k \in 1 .. SickLength,
                      a <= Sick!StartOf[k], Sick!StartOf[k] < b
               PROVE  FALSE
    OBVIOUS
  <1>1. Sick!SickAssumption
    BY StreamAssumption
  <1>a. SickLength \in Nat
    BY <1>1, SickPositions
  <1>2. SickLength \in Nat /\ j \in 1 .. SickLength + 1 /\ k \in 1 .. SickLength + 1
    BY <1>a
  <1>3. /\ Sick!StartOf[j] \in Nat /\ Sick!StartOf[k] \in Nat
        /\ Sick!LengthOf(stream[j]) \in Nat
    BY <1>1, <1>2, SickPositions
  <1>4. CASE k = j
    BY <1>3, <1>4
  <1>5. CASE k < j
    <2>1. Sick!StartOf[k] < Sick!StartOf[j]
      BY <1>1, <1>2, <1>5, SickPositions
    <2> QED
      BY <1>3, <2>1
  <1>6. CASE k > j
    <2>1. j < k
      BY <1>2, <1>6
    <2>2. Sick!StartOf[j] + Sick!LengthOf(stream[j]) <= Sick!StartOf[k]
      BY <1>1, <1>2, <2>1, SickPositions
    <2> QED
      BY <1>3, <2>2
  <1> QED
    BY <1>2, <1>4, <1>5, <1>6

LEMMA SickTypes ==
    ASSUME SickInv
    PROVE  /\ foundHeader \in BOOLEAN /\ startConfirmed \in BOOLEAN
           /\ byteCounter \in 0 .. PayloadLength
           /\ measurements \in [1 .. PayloadLength -> -1 .. Sick!LineLength - 1]
           /\ bytes \in Seq(0 .. Sick!LineLength - 1)
           /\ stream \in [1 .. SickLength -> Telegrams]
           /\ delivered \in Seq(1 .. SickLength) /\ delivered \in Seq(0 .. SickLength)
           /\ Sick!StartOf \in [1 .. SickLength + 1 -> Nat]
           /\ \A k \in 1 .. SickLength : Sick!StartOf[k] \in Nat
  <1>1. Sick!StartOf \in [1 .. SickLength + 1 -> Nat] /\ SickLength \in Nat
    BY StreamAssumption, SickPositions DEF SickInv
  <1>2. \A k \in 1 .. SickLength : Sick!StartOf[k] \in Nat
    BY <1>1
  <1> QED
    BY <1>1, <1>2, Zenon DEF SickInv, Sick!TypeOK

LEMMA SickStores ==
    ASSUME SickInv, Sick!StorePayload
    PROVE  /\ SickInv' /\ received' = received /\ delivered' = delivered
           /\ \A k \in Sick!Measurements : ~Sick!PassesHeader(k)
  <1> DEFINE m == Sick!StoredBytes
  <1>1. /\ foundHeader /\ byteCounter < PayloadLength
        /\ measurements' = [i \in 1 .. PayloadLength |->
                              IF i \in byteCounter + 1 .. byteCounter + m
                              THEN bytes[i - byteCounter] ELSE measurements[i]]
        /\ byteCounter' = byteCounter + m /\ Sick!Consume(m)
        /\ foundHeader' = foundHeader /\ startConfirmed' = startConfirmed
        /\ delivered' = delivered
    BY DEF Sick!StorePayload
  <1>2. /\ received \in Nat /\ Len(bytes) \in Nat /\ bytes \in Seq(Int)
        /\ Sick!Examined \in Nat /\ Sick!Examined + Len(bytes) = received
        /\ \A i \in 1 .. Len(bytes) : bytes[i] = Sick!Examined + i - 1
    BY SickBuffered
  <1>3. /\ HeaderLength \in Nat \ {0} /\ PayloadLength \in Nat \ {0}
        /\ TrailerLength \in Nat \ {0}
        /\ SickLength \in Nat /\ Sick!LineLength \in Nat
    BY SickConstants DEF SickInv
  <1>4. byteCounter \in 0 .. PayloadLength
    BY SickTypes
  <1>5. m \in 0 .. Len(bytes) /\ m <= PayloadLength - byteCounter
    BY <1>2, <1>3, <1>4 DEF Sick!StoredBytes, Sick!BytesMissing
  <1> HIDE DEF m
  <1>6. /\ SickBufferInv' /\ received' = received /\ stream' = stream
        /\ Sick!Examined' = Sick!Examined + m
    BY <1>1, <1>5, SickConsumes
  <1>7. /\ Sick!StartOf' = Sick!StartOf /\ Sick!LineLength' = Sick!LineLength
        /\ Sick!Measurements' = Sick!Measurements
    BY <1>6, SickFixed
  <1>8. PICK k \in Sick!Measurements : SickReads(k)
    BY <1>1 DEF SickInv, SickReading
  <1>9. /\ k \in 1 .. SickLength /\ Sick!StartOf[k] \in Nat
        /\ Sick!LengthOf(stream[k]) = HeaderLength + PayloadLength + TrailerLength
    BY SickConstants, SickTypes DEF SickInv
  <1>10. /\ Sick!Examined = Sick!StartOf[k] + HeaderLength + byteCounter
         /\ \A i \in 1 .. byteCounter :
               measurements[i] = Sick!StartOf[k] + HeaderLength + i - 1
         /\ delivered # <<>> => Sick!StartOf[LastOf(delivered)] < Sick!StartOf[k]
    BY <1>8 DEF SickReads
  <1>11. byteCounter' \in 0 .. PayloadLength
    BY <1>1, <1>3, <1>4, <1>5
  <1>12. measurements' \in [1 .. PayloadLength -> -1 .. Sick!LineLength' - 1]
    <2>1. ASSUME NEW i \in 1 .. PayloadLength
          PROVE  (IF i \in byteCounter + 1 .. byteCounter + m
                  THEN bytes[i - byteCounter] ELSE measurements[i])
                   \in -1 .. Sick!LineLength - 1
      <3>1. CASE i \in byteCounter + 1 .. byteCounter + m
        <4>1. i - byteCounter \in 1 .. Len(bytes)
          BY <1>2, <1>4, <1>5, <3>1
        <4>2. \A q \in 1 .. Len(bytes) : bytes[q] \in 0 .. Sick!LineLength - 1
          <5>1. bytes \in Seq(0 .. Sick!LineLength - 1)
            BY SickTypes
          <5> QED
            BY <5>1, ElementsIn, Zenon
        <4>3. bytes[i - byteCounter] \in 0 .. Sick!LineLength - 1
          BY <4>1, <4>2
        <4> QED
          BY <1>3, <3>1, <4>3
      <3>2. CASE i \notin byteCounter + 1 .. byteCounter + m
        BY <3>2, SickTypes
      <3> QED
        BY <3>1, <3>2
    <2> QED
      BY <1>1, <1>7, <2>1
  <1>13. Sick!TypeOK'
    <2>1. foundHeader' \in BOOLEAN /\ startConfirmed' \in BOOLEAN
      BY <1>1, SickTypes, Zenon
    <2>2. delivered' \in Seq(0 .. SickLength)
      BY <1>1, SickTypes
    <2> QED
      BY <1>6, <1>11, <1>12, <2>1, <2>2, Zenon
      DEF SickBufferInv, SickTyped, Sick!TypeOK
  <1>14. SickReads(k)'
    <2>1. Sick!Examined' = Sick!StartOf[k] + HeaderLength + byteCounter'
      BY <1>1, <1>3, <1>4, <1>5, <1>6, <1>9, <1>10
    <2>2. ASSUME NEW i \in 1 .. byteCounter'
          PROVE  measurements'[i] = Sick!StartOf[k] + HeaderLength + i - 1
      <3>1. /\ i \in 1 .. PayloadLength /\ i \in 1 .. byteCounter + m
            /\ byteCounter \in Nat /\ m \in Nat
        BY <1>1, <1>3, <1>4, <1>5, <1>11
      <3>2. CASE i <= byteCounter
        <4>1. measurements'[i] = measurements[i] /\ i \in 1 .. byteCounter
          BY <1>1, <3>1, <3>2
        <4> QED
          BY <1>10, <4>1
      <3>3. CASE i > byteCounter
        <4>1. measurements'[i] = bytes[i - byteCounter]
          BY <1>1, <3>1, <3>3
        <4>2. i - byteCounter \in 1 .. Len(bytes)
          BY <1>2, <1>5, <3>1, <3>3
        <4>3. bytes[i - byteCounter] = Sick!Examined + (i - byteCounter) - 1
          BY <1>2, <4>2
        <4> QED
          BY <1>3, <1>9, <1>10, <3>1, <4>1, <4>3
      <3> QED
        BY <3>1, <3>2, <3>3
    <2> QED
      BY <1>1, <1>7, <1>10, <2>1, <2>2, Zenon DEF SickReads
  <1>15. SickReading'
    BY <1>7, <1>14 DEF SickReading
  <1>16. SickPassed'
    <2>1. delivered # <<>> => Sick!StartOf[LastOf(delivered)] \in Nat
      <3> SUFFICES ASSUME delivered # <<>>
                   PROVE  Sick!StartOf[LastOf(delivered)] \in Nat
        OBVIOUS
      <3>0. delivered \in Seq(1 .. SickLength)
        BY SickTypes
      <3>1. LastOf(delivered) \in 1 .. SickLength
        BY <3>0, LastIn
      <3> QED
        BY <3>1, SickTypes
    <2>2. delivered # <<>> => Sick!StartOf[LastOf(delivered)] < Sick!Examined'
      BY <1>2, <1>5, <1>6, <2>1 DEF SickInv, SickPassed
    <2> QED
      BY <1>1, <1>7, <2>2, Zenon DEF SickPassed
  <1>17. SickInv'
    BY <1>1, <1>6, <1>13, <1>15, <1>16, SickTypes, Zenon DEF SickInv, SickBufferInv
  <1>18. \A i \in Sick!Measurements : ~Sick!PassesHeader(i)
    <2>b. /\ byteCounter \in Nat /\ m \in Nat /\ byteCounter + m <= PayloadLength
          /\ HeaderLength \in Nat /\ HeaderLength > 0 /\ PayloadLength \in Nat
      BY <1>2, <1>3, <1>4, <1>5
    <2>c. Sick!Examined' = Sick!StartOf[k] + HeaderLength + byteCounter + m
      BY <1>6, <1>10
    <2>d. /\ Sick!StartOf[k] \in Nat
          /\ Sick!Examined = Sick!StartOf[k] + HeaderLength + byteCounter
      BY <1>9, <1>10, Zenon
    <2>a. /\ Sick!StartOf[k] < Sick!Examined /\ Sick!Examined' \in Nat
          /\ Sick!Examined' <= Sick!StartOf[k] + HeaderLength + PayloadLength
      BY ONLY <2>b, <2>c, <2>d
    <2>1. /\ Sick!StartOf[k] < Sick!Examined /\ Sick!Examined' \in Nat
          /\ Sick!Examined' <= Sick!StartOf[k] + Sick!LengthOf(stream[k])
      BY <1>3, <1>9, <2>a
    <2>2. \A i \in 1 .. SickLength :
             ~(Sick!Examined <= Sick!StartOf[i] /\ Sick!StartOf[i] < Sick!Examined')
      BY <1>2, <1>9, <2>1, NoStartBetween DEF SickInv
    <2>3. Sick!Measurements \subseteq 1 .. SickLength
      BY SickConstants DEF SickInv
    <2> QED
      BY <2>2, <2>3 DEF Sick!PassesHeader
  <1> QED
    BY <1>1, <1>6, <1>17, <1>18

(* The payload that is complete is that of the telegram it was read from.  *)
LEMMA SickMeasured ==
    ASSUME SickInv, byteCounter = PayloadLength,
           NEW k \in Sick!Measurements, SickReads(k)
    PROVE  Sick!MeasuredTelegram = k
  <1> DEFINE matching == {j \in Sick!Measurements :
                measurements = Sick!Bytes(Sick!StartOf[j] + HeaderLength, PayloadLength)}
  <1>1. /\ PayloadLength \in Nat \ {0} /\ HeaderLength \in Nat
        /\ SickLength \in Nat /\ Sick!LineLength \in Nat
        /\ Sick!Measurements \subseteq 1 .. SickLength
    BY SickConstants DEF SickInv
  <1>2. measurements \in [1 .. PayloadLength -> -1 .. Sick!LineLength - 1]
    BY SickTypes
  <1>3. ASSUME NEW j \in Sick!Measurements
        PROVE  /\ Sick!StartOf[j] \in Nat
               /\ Sick!Bytes(Sick!StartOf[j] + HeaderLength, PayloadLength)
                    = [i \in 1 .. PayloadLength |-> Sick!StartOf[j] + HeaderLength + i - 1]
    <2>1. Sick!StartOf[j] \in Nat
      BY <1>1, SickTypes
    <2>2. Sick!StartOf[j] + HeaderLength \in Int
      BY <1>1, <2>1
    <2> QED
      BY <1>1, <2>1, <2>2, SickBytes
  <1>4. k \in matching
    <2>1. \A i \in 1 .. PayloadLength :
             measurements[i] = Sick!StartOf[k] + HeaderLength + i - 1
      BY DEF SickReads
    <2>2. measurements = [i \in 1 .. PayloadLength |-> measurements[i]]
      BY <1>2
    <2>3. measurements = [i \in 1 .. PayloadLength |->
                            Sick!StartOf[k] + HeaderLength + i - 1]
      BY <2>1, <2>2
    <2>4. measurements = Sick!Bytes(Sick!StartOf[k] + HeaderLength, PayloadLength)
      BY <1>3, <2>3, Zenon
    <2> QED
      BY <2>4
  <1>5. ASSUME NEW j \in matching PROVE j = k
    <2>1. /\ j \in Sick!Measurements
          /\ measurements = Sick!Bytes(Sick!StartOf[j] + HeaderLength, PayloadLength)
          /\ measurements = Sick!Bytes(Sick!StartOf[k] + HeaderLength, PayloadLength)
      BY <1>4
    <2>2. 1 \in 1 .. PayloadLength
      BY <1>1
    <2>3. measurements[1] = Sick!StartOf[j] + HeaderLength + 1 - 1
      <3>1. measurements = [i \in 1 .. PayloadLength |->
                              Sick!StartOf[j] + HeaderLength + i - 1]
        BY <1>3, <2>1, Zenon
      <3> QED
        BY <2>2, <3>1
    <2>4. measurements[1] = Sick!StartOf[k] + HeaderLength + 1 - 1
      <3>1. measurements = [i \in 1 .. PayloadLength |->
                              Sick!StartOf[k] + HeaderLength + i - 1]
        BY <1>3, <2>1, Zenon
      <3> QED
        BY <2>2, <3>1
    <2>5. Sick!StartOf[j] \in Nat /\ Sick!StartOf[k] \in Nat
      BY <1>3, <2>1
    <2>6. Sick!StartOf[j] = Sick!StartOf[k]
      BY <1>1, <2>3, <2>4, <2>5
    <2>7. j \in 1 .. SickLength /\ k \in 1 .. SickLength
      BY <1>1, <2>1
    <2>8. ~(j < k) /\ ~(k < j)
      <3>1. j \in 1 .. SickLength + 1 /\ k \in 1 .. SickLength + 1
        BY <1>1, <2>7
      <3>2. /\ j < k => Sick!StartOf[j] < Sick!StartOf[k]
            /\ k < j => Sick!StartOf[k] < Sick!StartOf[j]
        BY <3>1, StreamAssumption, SickPositions DEF SickInv
      <3> QED
        BY <2>5, <2>6, <3>2
    <2> QED
      BY <2>7, <2>8
  <1>6. Sick!MeasuredTelegram = IF matching = {} THEN 0 ELSE CHOOSE j \in matching : TRUE
    BY DEF Sick!MeasuredTelegram
  <1> HIDE DEF matching
  <1> QED
    BY <1>4, <1>5, <1>6

LEMMA SickCompletes ==
    ASSUME SickInv, Sick!CompletePayload
    PROVE  /\ SickInv' /\ received' = received /\ stream' = stream
           /\ \A k \in Sick!Measurements : ~Sick!PassesHeader(k)
           /\ \E k \in Sick!Measurements :
                 /\ delivered' = Append(delivered, k)
                 /\ Sick!StartOf[k] + HeaderLength + PayloadLength <= received
                 /\ delivered # <<>> => Sick!StartOf[LastOf(delivered)] < Sick!StartOf[k]
  <1>1. /\ foundHeader /\ byteCounter = PayloadLength /\ pc = "decode"
        /\ delivered' = Append(delivered, Sick!MeasuredTelegram)
        /\ Sick!Consume(1)
        /\ startConfirmed' = startConfirmed /\ byteCounter' = byteCounter
        /\ measurements' = measurements
    BY DEF Sick!CompletePayload, Sick!DroppedAtEnd
  <1>2. foundHeader' = FALSE
    BY Zenon DEF Sick!CompletePayload
  <1>3. /\ received \in Nat /\ Len(bytes) \in Nat
        /\ Sick!Examined \in Nat /\ Sick!Examined + Len(bytes) = received
        /\ Len(bytes) >= 1
    BY <1>1, SickBuffered DEF SickInv, SickTurn
  <1>4. 1 \in 0 .. Len(bytes)
    BY <1>3
  <1>5. /\ SickBufferInv' /\ received' = received /\ stream' = stream
        /\ Sick!Examined' = Sick!Examined + 1
    BY <1>1, <1>4, SickConsumes
  <1>6. /\ HeaderLength \in Nat \ {0} /\ PayloadLength \in Nat \ {0}
        /\ TrailerLength \in Nat \ {0} /\ SickLength \in Nat
        /\ Sick!Measurements \subseteq 1 .. SickLength
    BY SickConstants DEF SickInv
  <1>7. /\ Sick!StartOf' = Sick!StartOf /\ Sick!LineLength' = Sick!LineLength
        /\ Sick!Measurements' = Sick!Measurements
    BY <1>5, SickFixed
  <1>8. PICK k \in Sick!Measurements : SickReads(k)
    BY <1>1 DEF SickInv, SickReading
  <1>9. /\ k \in 1 .. SickLength /\ Sick!StartOf[k] \in Nat
        /\ Sick!LengthOf(stream[k]) = HeaderLength + PayloadLength + TrailerLength
    BY SickConstants, SickTypes DEF SickInv
  <1>10. /\ Sick!Examined = Sick!StartOf[k] + HeaderLength + PayloadLength
         /\ delivered # <<>> => Sick!StartOf[LastOf(delivered)] < Sick!StartOf[k]
    BY <1>1, <1>8 DEF SickReads
  <1>11. delivered' = Append(delivered, k)
    BY <1>1, <1>8, SickMeasured
  <1>12. /\ delivered' \in Seq(1 .. SickLength) /\ LastOf(delivered') = k
         /\ delivered' \in Seq(0 .. SickLength)
    <2>1. delivered \in Seq(1 .. SickLength) /\ delivered \in Seq(0 .. SickLength)
      BY SickTypes
    <2>2. Append(delivered, k) \in Seq(1 .. SickLength) /\ LastOf(Append(delivered, k)) = k
      <3>1. k \in 1 .. SickLength
        BY <1>9, Zenon
      <3>2. delivered \in Seq(1 .. SickLength)
        BY <2>1, Zenon
      <3> QED
        BY ONLY <3>1, <3>2, AppendedLast, Zenon
    <2>3. Append(delivered, k) \in Seq(0 .. SickLength)
      BY <1>6, <1>9, <2>1
    <2> QED
      BY <1>11, <2>2, <2>3, Zenon
  <1>13. Sick!TypeOK'
    <2>1. foundHeader' \in BOOLEAN /\ startConfirmed' \in BOOLEAN
      BY <1>1, <1>2, SickTypes, Zenon
    <2>2. byteCounter' \in 0 .. PayloadLength
      BY <1>1, SickTypes
    <2>3. measurements' \in [1 .. PayloadLength -> -1 .. Sick!LineLength' - 1]
      BY <1>1, <1>7, SickTypes, Zenon
    <2> QED
      BY <1>5, <1>12, <2>1, <2>2, <2>3, Zenon DEF SickBufferInv, SickTyped, Sick!TypeOK
  <1>14. SickReading'
    BY <1>2, Zenon DEF SickReading
  <1>a. /\ Sick!StartOf[k] < Sick!Examined /\ Sick!StartOf[k] < Sick!Examined'
        /\ Sick!Examined' \in Nat
    <2>1. /\ Sick!Examined = Sick!StartOf[k] + HeaderLength + PayloadLength
          /\ Sick!Examined' = Sick!Examined + 1 /\ Sick!StartOf[k] \in Nat
      BY <1>5, <1>9, <1>10, Zenon
    <2>2. HeaderLength \in Nat \ {0} /\ PayloadLength \in Nat \ {0}
      BY <1>6, Zenon
    <2> QED
      BY ONLY <2>1, <2>2
  <1>15. SickPassed'
    BY <1>7, <1>12, <1>a, Zenon DEF SickPassed
  <1>16. SickInv'
    BY <1>5, <1>12, <1>13, <1>14, <1>15, SickTypes, Zenon DEF SickInv, SickBufferInv
  <1>17. \A i \in Sick!Measurements : ~Sick!PassesHeader(i)
    <2>a. Sick!StartOf[k] < Sick!Examined /\ Sick!Examined' \in Nat
      BY <1>a, Zenon
    <2>b. Sick!Examined' = Sick!StartOf[k] + HeaderLength + PayloadLength + 1
      BY <1>5, <1>10
    <2>c. Sick!Examined' <= Sick!StartOf[k] + (HeaderLength + PayloadLength + TrailerLength)
      BY <1>6, <1>9, <2>b
    <2>1. /\ Sick!StartOf[k] < Sick!Examined /\ Sick!Examined' \in Nat
          /\ Sick!Examined' <= Sick!StartOf[k] + Sick!LengthOf(stream[k])
      BY <1>9, <2>a, <2>c, Zenon
    <2>2. \A i \in 1 .. SickLength :
             ~(Sick!Examined <= Sick!StartOf[i] /\ Sick!StartOf[i] < Sick!Examined')
      BY <1>3, <1>9, <2>1, NoStartBetween DEF SickInv
    <2> QED
      BY <1>6, <2>2 DEF Sick!PassesHeader
  <1>18. Sick!StartOf[k] + HeaderLength + PayloadLength <= received
    BY <1>3, <1>6, <1>9, <1>10
  <1> QED
    BY <1>5, <1>10, <1>11, <1>16, <1>17, <1>18

LEMMA SickBegins ==
    ASSUME SickInv, NEW kind, NEW n \in Nat \ {0}, Sick!BeginsWith(kind, n)
    PROVE  /\ n \in 0 .. Len(bytes)
           /\ \E k \in 1 .. SickLength : stream[k] = kind /\ Sick!StartOf[k] = Sick!Examined
  <1>1. /\ Len(bytes) \in Nat /\ bytes \in Seq(Int) /\ Sick!Examined \in Nat
        /\ \A i \in 1 .. Len(bytes) : bytes[i] = Sick!Examined + i - 1
    BY SickBuffered
  <1>2. Sick!Numbers = 1 .. SickLength
    BY SickConstants DEF SickInv
  <1>3. Len(bytes) >= n
    BY DEF Sick!BeginsWith
  <1>4. PICK k \in 1 .. SickLength :
           stream[k] = kind /\ SubSeq(bytes, 1, n) = Sick!Bytes(Sick!StartOf[k], n)
    BY <1>2 DEF Sick!BeginsWith
  <1>5. Sick!StartOf[k] \in Nat
    BY SickTypes
  <1>6. SubSeq(bytes, 1, n)[1] = Sick!Examined
    <2>1. 1 \in 1 .. n /\ 1 \in 1 .. Len(bytes)
      BY <1>1, <1>3
    <2>2. SubSeq(bytes, 1, n)[1] = bytes[1]
      BY <1>1, <1>3, <2>1
    <2>3. bytes[1] = Sick!Examined + 1 - 1
      BY <1>1, <2>1
    <2> QED
      BY <1>1, <2>2, <2>3
  <1>7. Sick!Bytes(Sick!StartOf[k], n)[1] = Sick!StartOf[k]
    <2>1. 1 \in 1 .. n /\ Sick!StartOf[k] \in Int
      BY <1>5
    <2>2. Sick!Bytes(Sick!StartOf[k], n)[1] = Sick!StartOf[k] + 1 - 1
      BY <2>1, SickBytes
    <2> QED
      BY <1>5, <2>2
  <1>8. Sick!StartOf[k] = Sick!Examined
    BY <1>4, <1>6, <1>7
  <1> QED
    BY <1>1, <1>3, <1>4, <1>8

LEMMA SickFindsHeader ==
    ASSUME SickInv, Sick!FindHeader
    PROVE  SickInv' /\ received' = received /\ stream' = stream /\ delivered' = delivered
  <1>1. /\ ~foundHeader /\ Sick!BeginsWith("measurement", HeaderLength)
        /\ byteCounter' = 0 /\ Sick!Consume(HeaderLength)
        /\ startConfirmed' = startConfirmed /\ measurements' = measurements
        /\ delivered' = delivered
    BY DEF Sick!FindHeader, Sick!CounterAtHeader
  <1>2. foundHeader' = TRUE
    BY Zenon DEF Sick!FindHeader
  <1>3. HeaderLength \in Nat \ {0} /\ PayloadLength \in Nat /\ SickLength \in Nat
    BY SickConstants DEF SickInv
  <1>4. /\ HeaderLength \in 0 .. Len(bytes)
        /\ \E k \in 1 .. SickLength :
              stream[k] = "measurement" /\ Sick!StartOf[k] = Sick!Examined
    BY <1>1, <1>3, SickBegins
  <1>5. PICK k \in Sick!Measurements : Sick!StartOf[k] = Sick!Examined
    <2>1. Sick!Numbers = 1 .. SickLength
      BY SickConstants DEF SickInv
    <2> QED
      BY <1>4, <2>1 DEF Sick!Measurements
  <1>6. /\ SickBufferInv' /\ received' = received /\ stream' = stream
        /\ Sick!Examined' = Sick!Examined + HeaderLength
    BY <1>1, <1>4, SickConsumes
  <1>7. /\ Sick!StartOf' = Sick!StartOf /\ Sick!LineLength' = Sick!LineLength
        /\ Sick!Measurements' = Sick!Measurements
    BY <1>6, SickFixed
  <1>8. Sick!Examined \in Nat
    BY SickBuffered
  <1>9. Sick!TypeOK'
    <2>1. foundHeader' \in BOOLEAN /\ startConfirmed' \in BOOLEAN
      BY <1>1, <1>2, SickTypes, Zenon
    <2>2. byteCounter' \in 0 .. PayloadLength
      BY <1>1, <1>3
    <2>3. /\ measurements' \in [1 .. PayloadLength -> -1 .. Sick!LineLength' - 1]
          /\ delivered' \in Seq(0 .. SickLength)
      BY <1>1, <1>7, SickTypes, Zenon
    <2> QED
      BY <1>6, <2>1, <2>2, <2>3, Zenon DEF SickBufferInv, SickTyped, Sick!TypeOK
  <1>10. SickReads(k)'
    <2>1. Sick!Examined' = Sick!StartOf[k] + HeaderLength + byteCounter'
      BY <1>1, <1>3, <1>5, <1>6, <1>8
    <2>2. \A i \in 1 .. byteCounter' :
             measurements'[i] = Sick!StartOf[k] + HeaderLength + i - 1
      BY <1>1
    <2>3. delivered # <<>> => Sick!StartOf[LastOf(delivered)] < Sick!StartOf[k]
      BY <1>5, Zenon DEF SickInv, SickPassed
    <2> QED
      BY <1>1, <1>7, <2>1, <2>2, <2>3, Zenon DEF SickReads
  <1>11. SickReading'
    BY <1>7, <1>10 DEF SickReading
  <1>12. SickPassed'
    <2>1. /\ delivered # <<>> => Sick!StartOf[LastOf(delivered)] \in Nat
          /\ delivered # <<>> => Sick!StartOf[LastOf(delivered)] < Sick!Examined
      <3>0. delivered \in Seq(1 .. SickLength)
        BY SickTypes
      <3>1. delivered # <<>> => LastOf(delivered) \in 1 .. SickLength
        BY <3>0, LastIn, Zenon
      <3> QED
        BY <3>1, SickTypes DEF SickInv, SickPassed
    <2>2. delivered # <<>> => Sick!StartOf[LastOf(delivered)] < Sick!Examined'
      BY <1>3, <1>6, <1>8, <2>1
    <2> QED
      BY <1>1, <1>7, <2>2, Zenon DEF SickPassed
  <1>13. SickInv'
    BY <1>1, <1>6, <1>9, <1>11, <1>12, SickTypes, Zenon DEF SickInv, SickBufferInv
  <1> QED
    BY <1>1, <1>6, <1>13

(* The steps without a header: n bytes are dropped.                        *)
LEMMA SickDrops ==
    ASSUME SickInv, NEW n \in 0 .. Len(bytes), Sick!Consume(n), ~foundHeader,
           startConfirmed' \in BOOLEAN,
           UNCHANGED <<foundHeader, byteCounter, measurements, delivered>>
    PROVE  SickInv'
  <1>1. /\ foundHeader' = foundHeader /\ byteCounter' = byteCounter
        /\ measurements' = measurements /\ delivered' = delivered
    OBVIOUS
  <1>2. /\ SickBufferInv' /\ received' = received /\ stream' = stream
        /\ Sick!Examined' = Sick!Examined + n
    BY SickConsumes
  <1>3. /\ Sick!StartOf' = Sick!StartOf /\ Sick!LineLength' = Sick!LineLength
    BY <1>2, SickFixed
  <1>4. Sick!Examined \in Nat /\ n \in Nat
    BY SickBuffered
  <1>5. Sick!TypeOK'
    <2>1. /\ foundHeader' \in BOOLEAN
          /\ byteCounter' \in 0 .. PayloadLength
          /\ measurements' \in [1 .. PayloadLength -> -1 .. Sick!LineLength' - 1]
          /\ delivered' \in Seq(0 .. SickLength)
      BY <1>1, <1>3, SickTypes, Zenon
    <2> QED
      BY <1>2, <2>1, Zenon DEF SickBufferInv, SickTyped, Sick!TypeOK
  <1>6. SickReading'
    <2>1. ~foundHeader'
      BY <1>1
    <2> QED
      BY <2>1 DEF SickReading
  <1>7. SickPassed'
    <2>1. /\ delivered # <<>> => Sick!StartOf[LastOf(delivered)] \in Nat
          /\ delivered # <<>> => Sick!StartOf[LastOf(delivered)] < Sick!Examined
      <3>0. delivered \in Seq(1 .. SickLength)
        BY SickTypes
      <3>1. delivered # <<>> => LastOf(delivered) \in 1 .. SickLength
        BY <3>0, LastIn, Zenon
      <3> QED
        BY <3>1, SickTypes DEF SickInv, SickPassed
    <2>2. delivered # <<>> => Sick!StartOf[LastOf(delivered)] < Sick!Examined'
      BY <1>2, <1>4, <2>1
    <2> QED
      BY <1>1, <1>3, <2>2, Zenon DEF SickPassed
  <1> QED
    BY <1>1, <1>2, <1>5, <1>6, <1>7, SickTypes, Zenon DEF SickInv, SickBufferInv

LEMMA SickFindsConfirmation ==
    ASSUME SickInv, Sick!FindConfirmation
    PROVE  /\ SickInv' /\ received' = received /\ stream' = stream /\ delivered' = delivered
           /\ \A k \in Sick!Measurements : ~Sick!PassesHeader(k)
  <1>1. /\ ~foundHeader /\ Sick!BeginsWith("confirmation", StartLength)
        /\ Sick!Consume(StartLength)
        /\ UNCHANGED <<foundHeader, byteCounter, measurements, delivered>>
        /\ startConfirmed' \in BOOLEAN
    BY Zenon DEF Sick!FindConfirmation
  <1>2. /\ StartLength \in Nat \ {0} /\ SickLength \in Nat
        /\ Sick!Measurements \subseteq 1 .. SickLength
    BY SickConstants DEF SickInv
  <1>3. /\ StartLength \in 0 .. Len(bytes)
        /\ \E k \in 1 .. SickLength :
              stream[k] = "confirmation" /\ Sick!StartOf[k] = Sick!Examined
    BY <1>1, <1>2, SickBegins
  <1>4. PICK k \in 1 .. SickLength :
           stream[k] = "confirmation" /\ Sick!StartOf[k] = Sick!Examined
    BY <1>3
  <1>5. SickInv'
    BY <1>1, <1>3, SickDrops
  <1>6. /\ received' = received /\ stream' = stream /\ delivered' = delivered
        /\ Sick!Examined' = Sick!Examined + StartLength
    BY <1>1, <1>3, SickConsumes
  <1>7. ASSUME NEW i \in Sick!Measurements, Sick!PassesHeader(i) PROVE FALSE
    <2>1. /\ Sick!Examined <= Sick!StartOf[i] /\ Sick!StartOf[i] < Sick!Examined'
          /\ i \in 1 .. SickLength /\ stream[i] = "measurement"
      BY <1>2, <1>7, SickConstants DEF Sick!PassesHeader, SickInv
    <2>2. i # k
      BY <1>4, <2>1
    <2>3. /\ i \in 1 .. SickLength + 1 /\ k \in 1 .. SickLength + 1
          /\ Sick!StartOf[i] \in Nat /\ Sick!StartOf[k] \in Nat
      BY <1>2, <2>1, SickTypes
    <2>4. Sick!LengthOf(stream[k]) = StartLength
      BY <1>4 DEF Sick!LengthOf
    <2>5. /\ i < k => Sick!StartOf[i] < Sick!StartOf[k]
          /\ k < i => Sick!StartOf[k] + Sick!LengthOf(stream[k]) <= Sick!StartOf[i]
      BY <2>1, <2>3, StreamAssumption, SickPositions DEF SickInv
    <2> QED
      BY <1>2, <1>4, <1>6, <2>1, <2>2, <2>3, <2>4, <2>5
  <1> QED
    BY <1>5, <1>6, <1>7

LEMMA SickDropsByte ==
    ASSUME SickInv, Sick!DropByte
    PROVE  /\ SickInv' /\ received' = received /\ stream' = stream /\ delivered' = delivered
           /\ \A k \in Sick!Measurements :
                 Sick!PassesHeader(k) => received < Sick!StartOf[k] + HeaderLength
  <1>1. /\ ~foundHeader /\ ~Sick!BeginsWith("measurement", HeaderLength)
        /\ Sick!Consume(1) /\ pc = "decode"
        /\ UNCHANGED <<foundHeader, byteCounter, measurements, delivered>>
    BY DEF Sick!DropByte, Sick!DroppedBytes
  <1>2. startConfirmed' \in BOOLEAN
    BY Zenon DEF Sick!DropByte
  <1>3. /\ received \in Nat /\ Len(bytes) \in Nat /\ Len(bytes) >= 1
        /\ Sick!Examined \in Nat /\ Sick!Examined + Len(bytes) = received
    BY <1>1, SickBuffered DEF SickInv, SickTurn
  <1>4. 1 \in 0 .. Len(bytes)
    BY <1>3
  <1>5. SickInv'
    BY <1>1, <1>2, <1>4, SickDrops
  <1>6. /\ received' = received /\ stream' = stream /\ delivered' = delivered
        /\ Sick!Examined' = Sick!Examined + 1
    BY <1>1, <1>4, SickConsumes
  <1>7. ASSUME NEW k \in Sick!Measurements, Sick!PassesHeader(k)
        PROVE  received < Sick!StartOf[k] + HeaderLength
    <2>1. /\ HeaderLength \in Nat \ {0} /\ Sick!StartOf[k] \in Nat /\ k \in Sick!Numbers
          /\ stream[k] = "measurement"
      BY SickConstants, SickTypes DEF SickInv
    <2>2. Sick!StartOf[k] = Sick!Examined
      BY <1>3, <1>6, <1>7, <2>1 DEF Sick!PassesHeader
    <2>3. ASSUME HeaderLength <= Len(bytes) PROVE FALSE
      <3> DEFINE c == Len(bytes)
                 x == Sick!Examined
      <3>0. x \in Int /\ c \in Nat /\ HeaderLength \in 0 .. c
        BY <1>3, <2>1, <2>3
      <3>1. SubSeq(Sick!Bytes(x, c), 1, HeaderLength) = Sick!Bytes(x, HeaderLength)
        <4> HIDE DEF x, c
        <4> QED
          BY <3>0, BytesBefore
      <3>2. bytes = Sick!Bytes(x, c)
        BY DEF SickInv, SickFilled
      <3> HIDE DEF x, c
      <3>3. SubSeq(bytes, 1, HeaderLength) = Sick!Bytes(x, HeaderLength)
        BY <3>1, <3>2, Zenon
      <3>4. SubSeq(bytes, 1, HeaderLength) = Sick!Bytes(Sick!StartOf[k], HeaderLength)
        BY <2>2, <3>3, Zenon DEF x
      <3>5. Len(bytes) >= HeaderLength
        BY <1>3, <2>1, <2>3
      <3> QED
        BY <1>1, <2>1, <3>4, <3>5, Zenon DEF Sick!BeginsWith
    <2> QED
      BY <1>3, <2>1, <2>2, <2>3
  <1> QED
    BY <1>5, <1>6, <1>7

LEMMA SickStep ==
    ASSUME SickInv, [Sick!Next]_(Sick!vars)
    PROVE  SickInv' /\ stream' = stream /\ received' \in Nat /\ received' >= received
  <1>0. received \in Nat
    BY SickBuffered
  <1>1. CASE Sick!NextString
    <2>1. /\ SickBufferInv' /\ received' \in Nat /\ received' >= received
          /\ Sick!Examined' = Sick!Examined
          /\ stream' = stream /\ UNCHANGED Sick!state /\ delivered' = delivered
      BY <1>1, SickReceives
    <2>2. /\ foundHeader' = foundHeader /\ startConfirmed' = startConfirmed
          /\ byteCounter' = byteCounter /\ measurements' = measurements
      BY <2>1 DEF Sick!state
    <2>3. /\ Sick!StartOf' = Sick!StartOf /\ Sick!LineLength' = Sick!LineLength
          /\ Sick!Measurements' = Sick!Measurements
      BY <2>1, SickFixed
    <2>4. Sick!TypeOK'
      <3>1. /\ foundHeader' \in BOOLEAN /\ startConfirmed' \in BOOLEAN
            /\ byteCounter' \in 0 .. PayloadLength
            /\ measurements' \in [1 .. PayloadLength -> -1 .. Sick!LineLength' - 1]
            /\ delivered' \in Seq(0 .. SickLength)
        BY <2>1, <2>2, <2>3, SickTypes, Zenon
      <3> QED
        BY <2>1, <3>1, Zenon DEF SickBufferInv, SickTyped, Sick!TypeOK
    <2>5. SickReading'
      <3> SUFFICES ASSUME foundHeader' PROVE SickReading'
        BY DEF SickReading
      <3>1. foundHeader
        BY <2>2
      <3>2. PICK k \in Sick!Measurements : SickReads(k)
        BY <3>1 DEF SickInv, SickReading
      <3>3. SickReads(k)'
        BY <2>1, <2>2, <2>3, <3>2 DEF SickReads
      <3> QED
        BY <2>3, <3>3 DEF SickReading
    <2>6. SickPassed'
      BY <2>1, <2>3 DEF SickPassed, SickInv
    <2> QED
      BY <2>1, <2>4, <2>5, <2>6, SickTypes, Zenon DEF SickInv, SickBufferInv
  <1>2. CASE Sick!StorePayload
    BY <1>0, <1>2, SickStores DEF Sick!StorePayload, Sick!Consume
  <1>3. CASE Sick!CompletePayload
    BY <1>0, <1>3, SickCompletes
  <1>4. CASE Sick!FindHeader
    BY <1>0, <1>4, SickFindsHeader
  <1>5. CASE Sick!FindConfirmation
    BY <1>0, <1>5, SickFindsConfirmation
  <1>6. CASE Sick!DropByte
    BY <1>0, <1>6, SickDropsByte
  <1>7. CASE UNCHANGED Sick!vars
    <2>1. /\ stream' = stream /\ received' = received /\ bytes' = bytes /\ put' = put
          /\ pc' = pc /\ delivered' = delivered
          /\ foundHeader' = foundHeader /\ startConfirmed' = startConfirmed
          /\ byteCounter' = byteCounter /\ measurements' = measurements
      BY <1>7 DEF Sick!vars, Sick!state
    <2>2. /\ Sick!StartOf' = Sick!StartOf /\ Sick!LineLength' = Sick!LineLength
          /\ Sick!Measurements' = Sick!Measurements
      BY <2>1, SickFixed
    <2>3. Sick!Examined' = Sick!Examined
      BY <2>1 DEF Sick!Examined
    <2>4. Sick!TypeOK'
      BY <2>1, <2>2 DEF SickInv, Sick!TypeOK
    <2>5. SickFilled' /\ SickTurn' /\ SickPassed'
      BY <2>1, <2>2, <2>3 DEF SickInv, SickFilled, SickTurn, SickPassed
    <2>6. SickReading'
      BY <2>1, <2>2, <2>3 DEF SickInv, SickReading, SickReads
    <2> QED
      BY <1>0, <2>1, <2>4, <2>5, <2>6 DEF SickInv
  <1> QED
    BY <1>1, <1>2, <1>3, <1>4, <1>5, <1>6, <1>7 DEF Sick!Next

(* What it misses, and what it passes on.                                  *)
LEMMA SickFinds ==
    ASSUME SickInv, [Sick!Next]_(Sick!vars)
    PROVE  Sick!FindsOrSplit
  <1> SUFFICES ASSUME NEW k \in Sick!Measurements, Sick!PassesHeader(k)
               PROVE  Sick!FindHeader \/ received < Sick!StartOf[k] + HeaderLength
    BY DEF Sick!FindsOrSplit
  <1>1. Sick!Examined \in Nat /\ Sick!StartOf[k] \in Nat
    BY SickBuffered, SickTypes, SickConstants DEF SickInv
  <1>2. CASE Sick!NextString
    <2>1. Sick!Examined' = Sick!Examined
      BY <1>2, SickReceives
    <2> QED
      BY <1>1, <2>1 DEF Sick!PassesHeader
  <1>3. CASE UNCHANGED Sick!vars
    <2>1. Sick!Examined' = Sick!Examined
      BY <1>3 DEF Sick!vars, Sick!Examined
    <2> QED
      BY <1>1, <2>1 DEF Sick!PassesHeader
  <1> QED
    BY <1>2, <1>3, SickStores, SickCompletes, SickFindsConfirmation, SickDropsByte
    DEF Sick!Next

LEMMA SickCounts ==
    Sick!Arrived = Cardinality({k \in Sick!Numbers : Sick!LastByteOf(k) <= received})
  BY Zenon DEF Sick!Arrived, Sick!Cardinality, Cardinality

LEMMA SickLastBytes ==
    ASSUME stream \in [1 .. SickLength -> Telegrams], NEW k \in 1 .. SickLength
    PROVE  /\ Sick!LastByteOf(k) \in Nat /\ Sick!LastByteOf(k) > 0
           /\ Sick!LastByteOf(k) <= Sick!StartOf[k] + Sick!LengthOf(stream[k])
           /\ k \in Sick!Measurements =>
                 Sick!LastByteOf(k) = Sick!StartOf[k] + HeaderLength + PayloadLength
  <1>1. /\ SickLength \in Nat /\ Sick!StartOf[k] \in Nat
        /\ Sick!LengthOf(stream[k]) \in Nat \ {0}
    <2>1. SickLength \in Nat
      BY SickConstants
    <2>2. k \in 1 .. SickLength + 1
      BY <2>1
    <2> QED
      BY <2>1, <2>2, StreamAssumption, SickPositions
  <1>2. HeaderLength \in Nat /\ PayloadLength \in Nat \ {0} /\ TrailerLength \in Nat
    BY SickConstants
  <1>3. CASE k \in Sick!Measurements
    <2>1. Sick!LengthOf(stream[k]) = HeaderLength + PayloadLength + TrailerLength
      BY <1>3, SickConstants
    <2>2. Sick!LastByteOf(k) = Sick!StartOf[k] + Sick!LengthOf(stream[k]) - TrailerLength
      BY <1>3 DEF Sick!LastByteOf
    <2> QED
      BY <1>1, <1>2, <2>1, <2>2
  <1>4. CASE k \notin Sick!Measurements
    <2>1. Sick!LastByteOf(k) = Sick!StartOf[k] + Sick!LengthOf(stream[k]) - 0
      BY <1>4 DEF Sick!LastByteOf
    <2> QED
      BY <1>1, <1>4, <2>1
  <1> QED
    BY <1>3, <1>4

LEMMA SickPassesOn ==
    ASSUME SickInv, [Sick!Next]_(Sick!vars)
    PROVE  /\ Sick!Arrived' >= Sick!Arrived
           /\ \/ delivered' = delivered
              \/ \E k \in (IF delivered = <<>> THEN 0 ELSE LastOf(delivered)) + 1
                             .. Sick!Arrived' :
                    delivered' = Append(delivered, k)
  <1>1. /\ stream' = stream /\ received' \in Nat /\ received' >= received
        /\ received \in Nat /\ stream \in [1 .. SickLength -> Telegrams]
    BY SickStep, SickBuffered DEF SickInv
  <1>2. /\ Sick!StartOf' = Sick!StartOf /\ Sick!Numbers' = Sick!Numbers
        /\ Sick!Measurements' = Sick!Measurements
    BY <1>1, SickFixed
  <1>3. SickLength \in Nat /\ Sick!Numbers = 1 .. SickLength
    BY <1>1, SickConstants
  <1> DEFINE A == {k \in 1 .. SickLength : Sick!LastByteOf(k) <= received}
             B == {k \in 1 .. SickLength : Sick!LastByteOf(k) <= received'}
  <1>4. Sick!Arrived = Cardinality(A)
    BY <1>3, SickCounts
  <1>5. Sick!Arrived' = Cardinality(B)
    <2>1. ASSUME NEW k PROVE Sick!LastByteOf(k)' = Sick!LastByteOf(k)
      BY <1>1, <1>2 DEF Sick!LastByteOf
    <2>2. {k \in Sick!Numbers' : Sick!LastByteOf(k)' <= received'} = B
      BY <1>2, <1>3, <2>1
    <2>3. Sick!Arrived' = Cardinality({k \in Sick!Numbers' : Sick!LastByteOf(k)' <= received'})
      BY Zenon DEF Sick!Arrived, Sick!Cardinality, Cardinality
    <2> QED
      BY <2>2, <2>3
  <1>6. A \subseteq B
    BY <1>1, SickLastBytes
  <1>7. /\ Cardinality(A) \in Nat /\ Cardinality(B) \in Nat
        /\ Cardinality(A) <= Cardinality(B)
        /\ \A m \in Nat : 1 .. m \subseteq B => m <= Cardinality(B)
    <2>1. A \in SUBSET (1 .. SickLength) /\ B \in SUBSET (1 .. SickLength)
      OBVIOUS
    <2> HIDE DEF A, B
    <2> QED
      BY <1>3, <1>6, <2>1, CountUpTo
  <1>8. Sick!Arrived' >= Sick!Arrived
    BY <1>4, <1>5, <1>7
  <1>9. CASE Sick!CompletePayload
    <2>1. PICK k \in Sick!Measurements :
             /\ delivered' = Append(delivered, k)
             /\ Sick!StartOf[k] + HeaderLength + PayloadLength <= received
             /\ delivered # <<>> => Sick!StartOf[LastOf(delivered)] < Sick!StartOf[k]
      BY <1>9, SickCompletes
    <2>2. received' = received /\ k \in 1 .. SickLength
      BY <1>1, <1>9, SickCompletes, SickConstants
    <2>3. ASSUME NEW j \in 1 .. k PROVE j \in B
      <3>1. /\ j \in 1 .. SickLength /\ Sick!LastByteOf(j) \in Nat
            /\ Sick!LastByteOf(j) <= Sick!StartOf[j] + Sick!LengthOf(stream[j])
        BY <1>1, <1>3, <2>2, SickLastBytes
      <3>2. /\ Sick!StartOf[k] \in Nat
            /\ HeaderLength \in Nat /\ PayloadLength \in Nat /\ Sick!StartOf[j] \in Nat
        BY <1>1, <2>2, <3>1, SickConstants, SickTypes
      <3>3. CASE j = k
        <4>1. Sick!LastByteOf(j) = Sick!StartOf[k] + HeaderLength + PayloadLength
          BY <1>1, <2>2, <3>3, SickLastBytes
        <4> QED
          BY <2>1, <2>2, <3>1, <4>1
      <3>4. CASE j # k
        <4>1. j < k /\ k \in 1 .. SickLength + 1
          BY <1>3, <2>2, <3>4
        <4>2. Sick!StartOf[j] + Sick!LengthOf(stream[j]) <= Sick!StartOf[k]
          BY <1>1, <3>1, <4>1, StreamAssumption, SickPositions
        <4>3. Sick!LengthOf(stream[j]) \in Nat
          BY <1>1, <3>1, StreamAssumption, SickPositions
        <4>4. Sick!LastByteOf(j) <= received'
          BY <1>1, <2>1, <2>2, <3>1, <3>2, <4>2, <4>3
        <4> QED
          BY <3>1, <4>4
      <3> QED
        BY <3>3, <3>4
    <2>4. k <= Sick!Arrived'
      <3>1. k \in Nat /\ 1 .. k \subseteq B
        BY <1>3, <2>2, <2>3
      <3> QED
        BY <1>5, <1>7, <3>1
    <2>5. delivered # <<>> => LastOf(delivered) \in 1 .. SickLength /\ LastOf(delivered) < k
      <3> SUFFICES ASSUME delivered # <<>>
                   PROVE  LastOf(delivered) \in 1 .. SickLength /\ LastOf(delivered) < k
        OBVIOUS
      <3>1. delivered \in Seq(1 .. SickLength)
        BY SickTypes
      <3>2. LastOf(delivered) \in 1 .. SickLength
        BY <3>1, LastIn, Zenon
      <3> DEFINE l == LastOf(delivered)
      <3>3. l \in 1 .. SickLength + 1 /\ k \in 1 .. SickLength + 1
        BY <1>3, <2>2, <3>2
      <3>4. Sick!StartOf[l] \in Nat /\ Sick!StartOf[k] \in Nat /\ Sick!StartOf[l] < Sick!StartOf[k]
        BY <2>1, <2>2, <3>2, SickTypes
      <3>5. k < l => Sick!StartOf[k] < Sick!StartOf[l]
        BY <1>1, <3>3, StreamAssumption, SickPositions
      <3>6. l < k
        <4>1. l # k /\ ~(k < l)
          BY <3>4, <3>5
        <4> HIDE DEF l
        <4> QED
          BY <1>3, <3>3, <4>1
      <3> QED
        BY <3>2, <3>6
    <2>6. k \in (IF delivered = <<>> THEN 0 ELSE LastOf(delivered)) + 1 .. Sick!Arrived'
      <3>1. Sick!Arrived' \in Nat /\ k \in 1 .. SickLength
        BY <1>5, <1>7, <2>2
      <3>2. CASE delivered = <<>>
        BY <1>3, <2>4, <3>1, <3>2
      <3>3. CASE delivered # <<>>
        BY <1>3, <2>4, <2>5, <3>1, <3>3
      <3> QED
        BY <3>2, <3>3
    <2> QED
      BY <1>8, <2>1, <2>6
  <1>10. CASE ~Sick!CompletePayload
    <2>1. delivered' = delivered
      BY <1>10, SickReceives, SickStores, SickFindsHeader, SickFindsConfirmation,
         SickDropsByte DEF Sick!Next, Sick!vars
    <2> QED
      BY <1>8, <2>1
  <1> QED
    BY <1>9, <1>10

LEMMA SickNothingAtFirst ==
    ASSUME Sick!Init
    PROVE  Sick!Arrived = 0 /\ delivered = <<>>
  <1>1. stream \in [1 .. SickLength -> Telegrams] /\ received = 0 /\ delivered = <<>>
    BY DEF Sick!Init
  <1>2. Sick!Numbers = 1 .. SickLength
    BY <1>1, SickConstants
  <1>3. {k \in Sick!Numbers : Sick!LastByteOf(k) <= received} = {}
    BY <1>1, <1>2, SickLastBytes
  <1> QED
    BY <1>1, <1>3, SickCounts, FS_EmptySet

LEMMA SickKeeps == ASSUME SickInv PROVE Sick!BufferKeepsBytes
  <1>1. bytes = Sick!Bytes(received - Len(bytes), Len(bytes))
    BY DEF SickInv, SickFilled, Sick!Examined
  <1> QED
    BY <1>1, Zenon DEF SickInv, SickTurn, Sick!BufferKeepsBytes

-----------------------------------------------------------------------------
(* The Applanix decoder.                                                   *)

(* Unsigned differences: exact, or wrapped around.                         *)
LEMMA Differences ==
    ASSUME NEW w \in Nat \ {0}, NEW x \in Int
    PROVE  /\ x >= 0 => x % w <= x
           /\ x >= 0 /\ x < w => x % w = x
           /\ x < 0 /\ 0 <= x + w => x % w = x + w
  <1>1. ASSUME x >= 0 PROVE x % w <= x
    <2>1. x \in Nat
      BY <1>1
    <2> QED
      BY <2>1
  <1>2. ASSUME x >= 0, x < w PROVE x % w = x
    BY <1>2
  <1>3. ASSUME x < 0, 0 <= x + w PROVE x % w = x + w
    BY <1>3
  <1> QED
    BY <1>1, <1>2, <1>3

LEMMA Constants ==
    /\ Header = 8 /\ Footer = 4 /\ MaxBuffer \in Nat /\ Word \in Nat /\ Word # 0
    /\ Length \in Nat /\ Header < MaxBuffer
    /\ \A n \in Chunks : n \in Nat /\ n > 0 /\ n <= 2 * MaxBuffer
    /\ \A p \in Payloads :
          p \in Nat /\ p > Footer /\ 4 * MaxBuffer + 2 * Header + p < Word
  <1>1. /\ Header = 8 /\ Footer = 4 /\ MaxBuffer \in Nat /\ Word \in Nat
        /\ Length \in Nat /\ Header < MaxBuffer
        /\ \A n \in Chunks : n \in Nat /\ n > 0 /\ n <= 2 * MaxBuffer
        /\ \A p \in Payloads :
              p \in Nat /\ p > Footer /\ 4 * MaxBuffer + 2 * Header + p < Word
    BY ApplanixAssumption
  <1>2. PICK p \in Payloads : TRUE
    BY ApplanixAssumption
  <1>3. Word # 0
    BY <1>1, <1>2
  <1> QED
    BY <1>1, <1>3

LEMMA LargestOfPayloads ==
    /\ LargestMessage \in Payloads
    /\ \A p \in Payloads : p <= LargestMessage
  <1> DEFINE Left == {Word - p : p \in Payloads}
  <1>1. Left \in SUBSET Nat /\ Left # {}
    <2>1. \A p \in Payloads : Word - p \in Nat
      BY Constants
    <2> QED
      BY <2>1, ApplanixAssumption
  <1>2. PICK x \in Left : \A y \in Left : x <= y
    <2> HIDE DEF Left
    <2> QED
      BY <1>1, LeastOf
  <1>3. PICK p \in Payloads : x = Word - p
    BY <1>2
  <1>4. \A q \in Payloads : q <= p
    <2> SUFFICES ASSUME NEW q \in Payloads PROVE q <= p
      OBVIOUS
    <2>1. Word - p <= Word - q
      BY <1>2, <1>3
    <2> QED
      BY <2>1, Constants
  <1> QED
    BY <1>4 DEF LargestMessage

(* Where the messages begin.                                               *)
LEMMA Positions ==
    ASSUME stream \in [1 .. Length -> Messages]
    PROVE  /\ Len(stream) = Length /\ Numbers = 1 .. Length
           /\ KnownMessages \subseteq 1 .. Length
           /\ \A k \in 1 .. Length : stream[k].payload \in Payloads
           /\ StartOf \in [1 .. Length + 1 -> Nat] /\ StartOf[1] = 0
           /\ StreamLength \in Nat
           /\ \A k \in 1 .. Length :
                 /\ StartOf[k] \in Nat /\ StartOf[k + 1] \in Nat
                 /\ StartOf[k + 1] = StartOf[k] + Header + stream[k].payload
           /\ \A j, k \in 1 .. Length + 1 : j < k => StartOf[j] < StartOf[k]
           /\ \A j \in 1 .. Length, k \in 1 .. Length + 1 :
                 j < k => StartOf[j] + Header + stream[j].payload <= StartOf[k]
  <1> DEFINE len == [k \in 1 .. Length |-> Header + stream[k].payload]
  <1>1. Length \in Nat /\ Len(stream) = Length
    BY SequenceOf, Constants
  <1>2. \A k \in 1 .. Length : stream[k].payload \in Payloads /\ stream[k].known \in BOOLEAN
    BY DEF Messages
  <1>3. len \in [1 .. Length -> Nat \ {0}]
    <2>1. \A k \in 1 .. Length : Header + stream[k].payload \in Nat \ {0}
      BY <1>2, Constants
    <2> QED
      BY <2>1
  <1>4. ASSUME NEW k \in 1 .. Length + 1, k # 1
        PROVE  len[k - 1] = Header + stream[k - 1].payload
    BY <1>1, <1>4
  <1>5. ASSUME NEW g
        PROVE  [k \in 1 .. Length + 1 |-> IF k = 1 THEN 0 ELSE g[k - 1] + len[k - 1]]
                = [k \in 1 .. Len(stream) + 1 |->
                     IF k = 1 THEN 0 ELSE g[k - 1] + (Header + stream[k - 1].payload)]
    <2> HIDE DEF len
    <2> QED
      BY <1>1, <1>4
  <1>6. \E g : g = [k \in 1 .. Len(stream) + 1 |->
                      IF k = 1 THEN 0 ELSE g[k - 1] + (Header + stream[k - 1].payload)]
    <2> HIDE DEF len
    <2>1. PICK g : g = [k \in 1 .. Length + 1 |->
                          IF k = 1 THEN 0 ELSE g[k - 1] + len[k - 1]]
      BY <1>1, <1>3, PositionsExist
    <2>2. g = [k \in 1 .. Len(stream) + 1 |->
                 IF k = 1 THEN 0 ELSE g[k - 1] + (Header + stream[k - 1].payload)]
      BY <1>5, <2>1, Zenon
    <2> QED
      BY <2>2
  <1>7. StartOf = [k \in 1 .. Len(stream) + 1 |->
             IF k = 1 THEN 0 ELSE StartOf[k - 1] + (Header + stream[k - 1].payload)]
    BY <1>6, Zenon DEF StartOf
  <1> DEFINE g == StartOf
  <1>8. g = [k \in 1 .. Length + 1 |-> IF k = 1 THEN 0 ELSE g[k - 1] + len[k - 1]]
    <2> HIDE DEF len
    <2> QED
      BY <1>5, <1>7, Zenon
  <1>9. /\ g \in [1 .. Length + 1 -> Nat] /\ g[1] = 0
        /\ \A k \in 1 .. Length : g[k + 1] = g[k] + len[k]
        /\ \A j, k \in 1 .. Length + 1 : j < k => g[j] < g[k]
        /\ \A j \in 1 .. Length, k \in 1 .. Length + 1 :
              j < k => g[j] + len[j] <= g[k]
    <2> HIDE DEF len, g
    <2> QED
      BY <1>1, <1>3, <1>8, PositionsIncrease
  <1>10. \A k \in 1 .. Length :
            /\ len[k] = Header + stream[k].payload
            /\ g[k] \in Nat /\ g[k + 1] \in Nat /\ stream[k].payload \in Nat
    <2> SUFFICES ASSUME NEW k \in 1 .. Length
                 PROVE  /\ len[k] = Header + stream[k].payload
                        /\ g[k] \in Nat /\ g[k + 1] \in Nat /\ stream[k].payload \in Nat
      OBVIOUS
    <2>1. k \in 1 .. Length + 1 /\ k + 1 \in 1 .. Length + 1
      BY <1>1
    <2>2. g[k] \in Nat /\ g[k + 1] \in Nat
      <3> HIDE DEF g
      <3> QED
        BY <1>9, <2>1
    <2>3. stream[k].payload \in Nat
      BY <1>2, Constants
    <2> QED
      BY <2>2, <2>3
  <1> HIDE DEF len
  <1>11. \A k \in 1 .. Length : StartOf[k + 1] = StartOf[k] + Header + stream[k].payload
    <2> SUFFICES ASSUME NEW k \in 1 .. Length
                 PROVE  StartOf[k + 1] = StartOf[k] + Header + stream[k].payload
      OBVIOUS
    <2>1. StartOf[k + 1] = StartOf[k] + len[k]
      BY <1>9
    <2>2. StartOf[k + 1] = StartOf[k] + (Header + stream[k].payload)
      BY <1>10, <2>1
    <2>3. StartOf[k] \in Nat /\ stream[k].payload \in Nat /\ Header \in Nat
      BY <1>10, Constants
    <2> QED
      BY <2>2, <2>3
  <1>12. \A j \in 1 .. Length, k \in 1 .. Length + 1 :
            j < k => StartOf[j] + Header + stream[j].payload <= StartOf[k]
    <2> SUFFICES ASSUME NEW j \in 1 .. Length, NEW k \in 1 .. Length + 1, j < k
                 PROVE  StartOf[j] + Header + stream[j].payload <= StartOf[k]
      OBVIOUS
    <2>1. StartOf[j] + len[j] <= StartOf[k]
      BY <1>9
    <2>2. StartOf[j] + (Header + stream[j].payload) <= StartOf[k]
      BY <1>10, <2>1
    <2>3. StartOf[j] \in Nat /\ stream[j].payload \in Nat /\ Header \in Nat
      BY <1>10, Constants
    <2> QED
      BY <2>2, <2>3
  <1>13. Numbers = 1 .. Length /\ KnownMessages \subseteq 1 .. Length
    BY <1>1 DEF Numbers, KnownMessages
  <1>14. StreamLength \in Nat
    <2>1. StreamLength = g[Length + 1] /\ Length + 1 \in 1 .. Length + 1
      BY <1>1 DEF StreamLength
    <2> HIDE DEF g
    <2> QED
      BY <1>9, <2>1
  <1> QED
    BY <1>1, <1>2, <1>9, <1>10, <1>11, <1>12, <1>13, <1>14

LEMMA PositionsFixed ==
    ASSUME stream' = stream
    PROVE  /\ StartOf' = StartOf /\ StreamLength' = StreamLength
           /\ Numbers' = Numbers /\ KnownMessages' = KnownMessages
  <1>1. StartOf' = StartOf
    BY SMT DEF StartOf
  <1>2. StreamLength' = StreamLength
    BY <1>1 DEF StreamLength
  <1>3. Numbers' = Numbers
    BY DEF Numbers
  <1>4. KnownMessages' = KnownMessages
    BY <1>3 DEF KnownMessages
  <1> QED
    BY <1>1, <1>2, <1>3, <1>4

(* What holds in every state of the Applanix decoder.  While the stream is *)
(* good, what is read next stands in the buffer and not before what was    *)
(* delivered; a header that was found belongs to the payload examined; the *)
(* seek behind the last byte happens only after a payload that began the   *)
(* buffer, and then the unsigned difference wraps around and the stream    *)
(* fails.                                                                  *)
Bound == 2 * MaxBuffer + 2 * Header + LargestMessage

InBuffer ==
    good =>
        /\ 0 <= tellg /\ tellg <= size
        /\ tellg = toRemove \/ tellg = toRemove + 5 \/ tellg = toRemove - 8
        /\ tellg = 0 => toRemove = 0
        /\ pc # "header" => toRemove <= size
        /\ base + size <= received
Failed == ~good => tellg = -1 /\ ~foundHeader /\ pc # "header"
AfterPayload ==
    pc = "header" =>
        /\ ~foundHeader /\ tellg = toRemove - 8
        /\ size < toRemove + Header => size <= Bound
        /\ size < toRemove => tellg + toRemove - size <= Word - Header
Found ==
    foundHeader =>
        /\ payloadSize = stream[nextMessage].payload
        /\ base + toRemove = StartOf[nextMessage] + Header
        /\ tellg = toRemove /\ (toRemove = 0 \/ toRemove >= Header)
        /\ delivered # <<>> => StartOf[LastOf(delivered)] < StartOf[nextMessage]
Passed ==
    delivered # <<>> =>
        /\ StartOf[LastOf(delivered)] < base + toRemove
        /\ good => StartOf[LastOf(delivered)] < base + tellg
Sizes ==
    /\ pc = "idle" \/ ~good => size <= Bound
    /\ pc # "idle" => size <= Bound + 2 * MaxBuffer

ApplanixInv ==
    /\ stream \in [1 .. Length -> Messages]
    /\ TypeOK /\ delivered \in Seq(1 .. Length)
    /\ InBuffer /\ Failed /\ AfterPayload /\ Found /\ Passed /\ Sizes

LEMMA ApplanixFacts ==
    ASSUME ApplanixInv
    PROVE  /\ received \in Nat /\ received <= StreamLength /\ StreamLength \in Nat
           /\ base \in Nat /\ size \in Nat /\ toRemove \in Nat
           /\ tellg \in Int /\ -1 <= tellg /\ tellg <= size
           /\ Bound \in Nat /\ LargestMessage \in Nat
           /\ Bound = 2 * MaxBuffer + 16 + LargestMessage
           /\ Bound + 2 * MaxBuffer < Word /\ LargestMessage <= Word - Header
           /\ pc # "idle" => size < Word
  <1>1. stream \in [1 .. Length -> Messages]
    BY DEF ApplanixInv
  <1>2. StreamLength \in Nat
    BY <1>1, Positions
  <1>3. /\ received \in 0 .. StreamLength /\ base \in Nat /\ size \in Nat
        /\ toRemove \in Nat /\ tellg \in -1 .. size
    BY DEF ApplanixInv, TypeOK
  <1>4. /\ LargestMessage \in Nat
        /\ 4 * MaxBuffer + 2 * Header + LargestMessage < Word
        /\ MaxBuffer \in Nat /\ Header = 8 /\ Word \in Nat
    BY Constants, LargestOfPayloads
  <1>5. Bound = 2 * MaxBuffer + 16 + LargestMessage
    BY <1>4 DEF Bound
  <1>6. pc # "idle" => size <= Bound + 2 * MaxBuffer
    BY DEF ApplanixInv, Sizes
  <1>7. Bound + 2 * MaxBuffer < Word
    BY <1>4, <1>5
  <1> QED
    BY <1>2, <1>3, <1>4, <1>5, <1>6, <1>7

LEMMA ApplanixHeaderFacts ==
    ASSUME ApplanixInv
    PROVE  /\ good \in BOOLEAN /\ foundHeader \in BOOLEAN
           /\ buffering = foundHeader
           /\ payloadSize \in Payloads \cup {0} /\ payloadSize \in Nat
           /\ nextMessage \in KnownMessages \cup {0}
           /\ foundHeader <=> nextMessage # 0
           /\ foundHeader => /\ nextMessage \in KnownMessages /\ nextMessage \in 1 .. Length
                             /\ payloadSize \in Payloads
                             /\ StartOf[nextMessage] \in Nat
           /\ pc \in {"idle", "loop", "header"}
           /\ delivered \in Seq(1 .. Length) /\ delivered \in Seq(0 .. Length)
           /\ delivered # <<>> => /\ LastOf(delivered) \in 1 .. Length
                                  /\ StartOf[LastOf(delivered)] \in Nat
  <1>1. stream \in [1 .. Length -> Messages]
    BY DEF ApplanixInv
  <1>2. /\ good \in BOOLEAN /\ foundHeader \in BOOLEAN
        /\ buffering = foundHeader
        /\ payloadSize \in Payloads \cup {0}
        /\ nextMessage \in KnownMessages \cup {0}
        /\ pc \in {"idle", "loop", "header"}
        /\ delivered \in Seq(1 .. Length) /\ delivered \in Seq(0 .. Length)
    BY Zenon DEF ApplanixInv, TypeOK
  <1>3. foundHeader <=> nextMessage # 0
    BY Zenon DEF ApplanixInv, TypeOK
  <1>4. payloadSize \in Nat
    BY <1>2, Constants
  <1>5. ASSUME foundHeader
        PROVE  /\ nextMessage \in KnownMessages /\ nextMessage \in 1 .. Length
               /\ payloadSize \in Payloads /\ StartOf[nextMessage] \in Nat
    <2>1. nextMessage \in KnownMessages
      BY <1>2, <1>3, <1>5
    <2>2. nextMessage \in 1 .. Length
      BY <1>1, <2>1, Positions
    <2>3. payloadSize \in Payloads
      BY <1>1, <1>5, <2>2, Positions DEF ApplanixInv, Found
    <2> QED
      BY <1>1, <2>1, <2>2, <2>3, Positions
  <1>6. ASSUME delivered # <<>>
        PROVE  LastOf(delivered) \in 1 .. Length /\ StartOf[LastOf(delivered)] \in Nat
    <2>1. LastOf(delivered) \in 1 .. Length
      BY <1>2, <1>6, LastIn, Zenon
    <2> QED
      BY <1>1, <2>1, Positions
  <1> QED
    BY <1>2, <1>3, <1>4, <1>5, <1>6

LEMMA ApplanixInitially ==
    ASSUME Init
    PROVE  ApplanixInv
  <1>1. /\ stream \in [1 .. Length -> Messages] /\ received = 0 /\ base = 0
        /\ size = 0 /\ tellg = 0 /\ payloadSize = 0 /\ toRemove = 0
        /\ nextMessage = 0 /\ pc = "idle" /\ delivered = <<>>
    BY DEF Init
  <1>2. good = TRUE /\ foundHeader = FALSE /\ buffering = FALSE
    BY Zenon DEF Init
  <1>3. StreamLength \in Nat /\ Bound \in Nat
    BY <1>1, Positions, Constants, LargestOfPayloads DEF Bound
  <1>4. TypeOK
    <2>1. good \in BOOLEAN /\ foundHeader \in BOOLEAN /\ buffering = foundHeader
      BY <1>2, Zenon
    <2>2. buffering <=> nextMessage # 0
      BY <1>1, <1>2
    <2>3. /\ received \in 0 .. StreamLength /\ base \in Nat /\ size \in Nat
          /\ tellg \in -1 .. size /\ toRemove \in Nat
          /\ payloadSize \in Payloads \cup {0} /\ nextMessage \in KnownMessages \cup {0}
          /\ pc \in {"idle", "loop", "header"} /\ delivered \in Seq(0 .. Length)
      BY <1>1, <1>3
    <2> QED
      BY <2>1, <2>2, <2>3, Zenon DEF TypeOK
  <1>5. InBuffer /\ AfterPayload /\ Passed
    BY <1>1 DEF InBuffer, AfterPayload, Passed
  <1>6. Failed /\ Found
    BY <1>2, Zenon DEF Failed, Found
  <1>7. Sizes
    BY <1>1, <1>3 DEF Sizes
  <1>8. delivered \in Seq(1 .. Length)
    BY <1>1
  <1> QED
    BY <1>1, <1>4, <1>5, <1>6, <1>7, <1>8 DEF ApplanixInv

LEMMA ApplanixReceives ==
    ASSUME ApplanixInv, NextString
    PROVE  /\ ApplanixInv' /\ stream' = stream /\ delivered' = delivered
           /\ received' \in Nat /\ received' >= received
           /\ Examined' = Examined
  <1>1. PICK n \in Chunks :
           /\ received + n <= StreamLength /\ received' = received + n
           /\ size' = IF good THEN size + n ELSE size
    BY DEF NextString
  <1>2. /\ pc = "idle" /\ stream' = stream /\ base' = base /\ toRemove' = toRemove
        /\ delivered' = delivered /\ payloadSize' = payloadSize
        /\ nextMessage' = nextMessage /\ pc' = "loop"
        /\ foundHeader' = foundHeader /\ buffering' = buffering
        /\ tellg' = IF good' THEN toRemove ELSE -1
        /\ good' = (good /\ toRemove <= size')
    BY DEF NextString, header
  <1>3. /\ n \in Nat /\ n > 0 /\ n <= 2 * MaxBuffer
        /\ Header = 8 /\ MaxBuffer \in Nat /\ Header < 2 * MaxBuffer
    BY Constants
  <1>4. /\ received \in Nat /\ StreamLength \in Nat
        /\ base \in Nat /\ size \in Nat /\ toRemove \in Nat /\ Bound \in Nat
    BY ApplanixFacts
  <1>5. good => /\ toRemove <= size /\ base + size <= received
                /\ size' = size + n
    BY <1>1, <1>2 DEF ApplanixInv, InBuffer
  <1>6. good' <=> good
    <2>1. good => toRemove <= size'
      BY <1>3, <1>4, <1>5
    <2>2. good' = (good /\ toRemove <= size')
      BY <1>2
    <2>3. good' <=> (good /\ toRemove <= size')
      BY <2>2, Zenon
    <2> QED
      BY <2>1, <2>3, Zenon
  <1>7. ~good => size' = size
    BY <1>1
  <1>8. size' \in Nat /\ tellg' \in -1 .. size' /\ (good => tellg' = toRemove) /\ (~good => tellg' = -1)
    BY <1>1, <1>2, <1>3, <1>4, <1>5, <1>6, <1>7
  <1>9. /\ StartOf' = StartOf /\ StreamLength' = StreamLength
        /\ KnownMessages' = KnownMessages
    BY <1>2, PositionsFixed
  <1>10. TypeOK'
    <2>1. good' \in BOOLEAN
      BY <1>2, Zenon
    <2>2. foundHeader' \in BOOLEAN /\ buffering' = foundHeader'
      BY <1>2, ApplanixHeaderFacts, Zenon
    <2>3. buffering' <=> nextMessage' # 0
      BY <1>2, ApplanixHeaderFacts
    <2>4. /\ payloadSize' \in Payloads \cup {0} /\ nextMessage' \in KnownMessages' \cup {0}
          /\ pc' \in {"idle", "loop", "header"} /\ delivered' \in Seq(0 .. Length)
      BY <1>2, <1>9, ApplanixHeaderFacts
    <2>5. received' \in 0 .. StreamLength' /\ base' \in Nat /\ toRemove' \in Nat
      BY <1>1, <1>2, <1>3, <1>4, <1>9
    <2> QED
      BY <1>8, <2>1, <2>2, <2>3, <2>4, <2>5, Zenon DEF TypeOK
  <1>11. InBuffer'
    <2> SUFFICES ASSUME good'
                 PROVE  /\ 0 <= tellg' /\ tellg' <= size' /\ tellg' = toRemove'
                        /\ tellg' = 0 => toRemove' = 0
                        /\ toRemove' <= size' /\ base' + size' <= received'
      BY DEF InBuffer
    <2>1. good
      BY <1>6
    <2> QED
      BY <1>1, <1>2, <1>3, <1>4, <1>5, <1>8, <2>1
  <1>12. Failed'
    BY <1>2, <1>6, <1>8 DEF ApplanixInv, Failed
  <1>13. AfterPayload'
    BY <1>2 DEF AfterPayload
  <1>14. Found'
    <2> SUFFICES ASSUME foundHeader'
                 PROVE  /\ payloadSize' = stream[nextMessage].payload
                        /\ base + toRemove = StartOf[nextMessage] + Header
                        /\ tellg' = toRemove /\ (toRemove = 0 \/ toRemove >= Header)
                        /\ delivered # <<>> =>
                              StartOf[LastOf(delivered)] < StartOf[nextMessage]
      BY <1>2, <1>9 DEF Found
    <2>1. foundHeader
      BY <1>2
    <2>2. good
      BY <2>1 DEF ApplanixInv, Failed
    <2> QED
      BY <1>2, <1>8, <2>1, <2>2 DEF ApplanixInv, Found
  <1>15. Passed'
    BY <1>2, <1>6, <1>8, <1>9 DEF ApplanixInv, Passed
  <1>16. Sizes'
    <2>1. size <= Bound
      BY <1>2 DEF ApplanixInv, Sizes
    <2>2. size' <= Bound + 2 * MaxBuffer
      BY <1>1, <1>3, <1>4, <2>1
    <2>3. ~good' => size' <= Bound
      BY <1>6, <1>7, <2>1
    <2> QED
      BY <1>2, <2>2, <2>3 DEF Sizes, Bound
  <1>17. stream' \in [1 .. Length -> Messages] /\ delivered' \in Seq(1 .. Length)
    BY <1>2, Zenon DEF ApplanixInv
  <1>18. Examined' = Examined
    BY <1>2 DEF Examined
  <1>19. received' \in Nat /\ received' >= received
    BY <1>1, <1>3, <1>4
  <1> QED
    BY <1>2, <1>10, <1>11, <1>12, <1>13, <1>14, <1>15, <1>16, <1>17, <1>18, <1>19
    DEF ApplanixInv

LEMMA ApplanixDecodes ==
    ASSUME ApplanixInv, DecodePayload
    PROVE  /\ ApplanixInv' /\ stream' = stream /\ received' = received
           /\ nextMessage \in KnownMessages /\ nextMessage \in 1 .. Length
           /\ Examined = StartOf[nextMessage] + Header
           /\ Examined' = StartOf[nextMessage + 1] + Footer
           /\ delivered' = Append(delivered, nextMessage)
           /\ EndOf(nextMessage) <= received
           /\ delivered # <<>> => StartOf[LastOf(delivered)] < StartOf[nextMessage]
  <1> DEFINE k == nextMessage
             p == payloadSize
  <1>1. /\ pc = "loop" /\ MoreToRead /\ buffering /\ PayloadComplete
        /\ delivered' = Append(delivered, DecodedAt(base + toRemove))
        /\ tellg' = toRemove + p - Footer /\ toRemove' = toRemove + p + Footer
        /\ payloadSize' = 0 /\ nextMessage' = 0 /\ pc' = "header"
        /\ stream' = stream /\ received' = received
        /\ base' = base /\ good' = good /\ size' = size
    BY DEF DecodePayload, BehindData, MovePast, NextAfterDecoding, network
  <1>2. buffering' = FALSE /\ foundHeader' = FALSE
    BY Zenon DEF DecodePayload
  <1>3. foundHeader /\ good /\ tellg + toRemove + Header < size
    BY <1>1, ApplanixHeaderFacts, Zenon DEF MoreToRead
  <1>4. /\ received \in Nat /\ received <= StreamLength /\ StreamLength \in Nat
        /\ base \in Nat /\ size \in Nat /\ toRemove \in Nat
        /\ Bound \in Nat /\ LargestMessage \in Nat /\ size < Word
        /\ Bound = 2 * MaxBuffer + 16 + LargestMessage
        /\ LargestMessage <= Word - Header
    BY <1>1, ApplanixFacts
  <1>5. /\ k \in KnownMessages /\ k \in 1 .. Length /\ p \in Payloads /\ p \in Nat
        /\ StartOf[k] \in Nat
    BY <1>3, ApplanixHeaderFacts
  <1>6. /\ p = stream[k].payload /\ base + toRemove = StartOf[k] + Header
        /\ tellg = toRemove /\ (toRemove = 0 \/ toRemove >= Header)
        /\ delivered # <<>> => StartOf[LastOf(delivered)] < StartOf[k]
    BY <1>3 DEF ApplanixInv, Found
  <1>7. /\ Header = 8 /\ Footer = 4 /\ MaxBuffer \in Nat /\ Word \in Nat \ {0}
        /\ p > Footer /\ p <= LargestMessage
    BY <1>5, Constants, LargestOfPayloads
  <1>8. base + size <= received /\ Header < 2 * MaxBuffer
    BY <1>1, <1>3, Constants DEF ApplanixInv, InBuffer
  <1>9. size >= 2 * toRemove + p
    <2> DEFINE x == size - (tellg + toRemove)
    <2>0. /\ tellg + toRemove + 8 < size
          /\ tellg \in Nat /\ toRemove \in Nat /\ size \in Nat
      BY <1>3, <1>4, <1>6, <1>7
    <2>1. x \in Int /\ x >= 0
      BY <2>0
    <2>2. x % Word <= x
      <3> HIDE DEF x
      <3> QED
        BY <1>7, <2>1, Differences
    <2>3. x % Word >= p
      BY <1>1 DEF PayloadComplete, Available
    <2>4. x % Word \in Nat
      <3> HIDE DEF x
      <3> QED
        BY <1>7, <2>1
    <2>5. p <= x
      <3> DEFINE r == x % Word
      <3> HIDE DEF x, r
      <3>1. r <= x /\ r >= p /\ r \in Nat
        BY <2>2, <2>3, <2>4 DEF r
      <3> QED
        BY <1>5, <2>1, <3>1
    <2> QED
      BY <1>5, <1>6, <2>0, <2>5
  <1>10. stream \in [1 .. Length -> Messages]
    BY DEF ApplanixInv
  <1>11. /\ StartOf' = StartOf /\ StreamLength' = StreamLength
         /\ KnownMessages' = KnownMessages
    BY <1>1, PositionsFixed
  <1>12. DecodedAt(base + toRemove) = k
    <2> DEFINE matching == {i \in Numbers : base + toRemove = StartOf[i] + Header}
    <2>1. k \in matching
      BY <1>5, <1>6, <1>10, Positions
    <2>2. DecodedAt(base + toRemove) = IF k \in matching THEN k ELSE 0
      BY DEF DecodedAt
    <2> HIDE DEF matching
    <2> QED
      BY <2>1, <2>2
  <1>13. delivered' = Append(delivered, k)
    BY <1>1, <1>12, Zenon
  <1>14. /\ delivered' \in Seq(1 .. Length) /\ delivered' \in Seq(0 .. Length)
         /\ delivered' # <<>> /\ LastOf(delivered') = k
    <2>1. delivered \in Seq(1 .. Length) /\ delivered \in Seq(0 .. Length)
      BY ApplanixHeaderFacts
    <2>2. /\ Append(delivered, k) \in Seq(1 .. Length) /\ Append(delivered, k) # <<>>
          /\ LastOf(Append(delivered, k)) = k
      <3> HIDE DEF k
      <3>1. k \in 1 .. Length
        BY <1>5, Zenon
      <3>2. delivered \in Seq(1 .. Length)
        BY <2>1, Zenon
      <3> QED
        BY ONLY <3>1, <3>2, AppendedLast, Zenon
    <2>3. k \in 0 .. Length
      BY <1>5, Constants
    <2>4. Append(delivered, k) \in Seq(0 .. Length)
      <3> HIDE DEF k
      <3> QED
        BY <2>1, <2>3, AppendedLast, Zenon
    <2> HIDE DEF k
    <2> QED
      BY <1>13, <2>2, <2>4, Zenon
  <1>15. tellg' \in Nat /\ toRemove' \in Nat /\ tellg' > 0 /\ tellg' = toRemove' - 8
         /\ tellg' <= size'
    BY <1>1, <1>4, <1>5, <1>7, <1>9
  <1>16. TypeOK'
    <2>1. good' \in BOOLEAN
      BY <1>1, ApplanixHeaderFacts, Zenon
    <2>2. foundHeader' \in BOOLEAN /\ buffering' = foundHeader'
      BY <1>2, Zenon
    <2>3. buffering' <=> nextMessage' # 0
      BY <1>1, <1>2
    <2>4. /\ payloadSize' \in Payloads \cup {0} /\ nextMessage' \in KnownMessages' \cup {0}
          /\ pc' \in {"idle", "loop", "header"}
      BY <1>1
    <2>5. /\ received' \in 0 .. StreamLength' /\ base' \in Nat /\ size' \in Nat
          /\ toRemove' \in Nat /\ tellg' \in -1 .. size'
      BY <1>1, <1>4, <1>11, <1>15
    <2> QED
      BY <1>14, <2>1, <2>2, <2>3, <2>4, <2>5, Zenon DEF TypeOK
  <1>17. InBuffer'
    <2>1. base' + size' <= received'
      BY <1>1, <1>8
    <2>2. 0 <= tellg' /\ tellg' <= size' /\ tellg' = toRemove' - 8 /\ tellg' # 0
      <3>1. tellg' \in Nat /\ tellg' > 0 /\ size' \in Nat
        BY <1>1, <1>4, <1>15
      <3>2. 0 <= tellg' /\ tellg' # 0
        BY <3>1
      <3>3. tellg' <= size' /\ tellg' = toRemove' - 8
        BY <1>15
      <3> QED
        BY <3>2, <3>3
    <2> QED
      BY <1>1, <2>1, <2>2 DEF InBuffer
  <1>18. Failed'
    BY <1>1, <1>3 DEF Failed
  <1>19. AfterPayload'
    <2>1. size' < toRemove' + Header => size' <= Bound
      <3>1. CASE toRemove = 0
        BY <1>1, <1>4, <1>5, <1>7, <1>8, <3>1
      <3>2. CASE toRemove >= Header
        BY <1>1, <1>4, <1>5, <1>7, <1>8, <1>9, <3>2
      <3> QED
        BY <1>6, <3>1, <3>2
    <2>2. size' < toRemove' => tellg' + toRemove' - size' <= Word - Header
      BY <1>1, <1>4, <1>5, <1>7, <1>9
    <2> QED
      BY <1>2, <1>15, <2>1, <2>2 DEF AfterPayload, Bound
  <1>20. Found'
    BY <1>2, Zenon DEF Found
  <1>21. Passed'
    <2>a. /\ base \in Nat /\ toRemove \in Nat /\ p \in Nat /\ p > 4
          /\ base + toRemove = StartOf[k] + 8 /\ StartOf[k] \in Nat
      BY <1>4, <1>5, <1>6, <1>7
    <2>b. base' = base /\ toRemove' = toRemove + p + 4 /\ tellg' = toRemove + p - 4
      BY <1>1, <1>7
    <2>1. StartOf[k] < base' + toRemove' /\ StartOf[k] < base' + tellg'
      <3> HIDE DEF p, k
      <3> QED
        BY <2>a, <2>b
    <2> QED
      BY <1>11, <1>14, <2>1 DEF Passed
  <1>22. Sizes'
    BY <1>1, <1>3 DEF ApplanixInv, Sizes, Bound
  <1>23. ApplanixInv'
    <2>1. stream' \in [1 .. Length -> Messages]
      BY <1>1, <1>10
    <2> QED
      BY <1>14, <1>16, <1>17, <1>18, <1>19, <1>20, <1>21, <1>22, <2>1 DEF ApplanixInv
  <1>24. StartOf[k + 1] = StartOf[k] + Header + p /\ StartOf[k + 1] \in Nat
    BY <1>5, <1>6, <1>10, Positions
  <1>25. /\ Examined = StartOf[k] + Header /\ Examined' = StartOf[k + 1] + Footer
         /\ EndOf(k) <= received
    <2>1. EndOf(k) = StartOf[k + 1]
      BY DEF EndOf
    <2>2. Examined = base + toRemove /\ Examined' = base' + toRemove'
      BY DEF Examined
    <2>a. /\ base \in Nat /\ toRemove \in Nat /\ p \in Nat /\ size \in Nat
          /\ base + toRemove = StartOf[k] + 8 /\ StartOf[k] \in Nat
          /\ StartOf[k + 1] = StartOf[k] + 8 + p
          /\ size >= 2 * toRemove + p /\ base + size <= received /\ received \in Nat
      BY <1>4, <1>5, <1>6, <1>7, <1>8, <1>9, <1>24
    <2>b. base' = base /\ toRemove' = toRemove + p + 4 /\ Footer = 4
      BY <1>1, <1>7
    <2>3. Examined' = StartOf[k + 1] + Footer
      <3> HIDE DEF p, k
      <3> QED
        BY <2>a, <2>b, <2>2
    <2>4. EndOf(k) <= received
      <3> HIDE DEF p, k
      <3> QED
        BY <2>a, <2>1
    <2> QED
      BY <1>6, <2>2, <2>3, <2>4
  <1> QED
    BY <1>1, <1>5, <1>6, <1>13, <1>23, <1>25

(* A turn that looks for a header: the stream is good, no payload is       *)
(* awaited, and inside the loop there is more to read.                     *)
LEMMA AtHeaderTurn ==
    ASSUME ApplanixInv, HeaderTurn
    PROVE  /\ good /\ ~foundHeader /\ pc # "idle"
           /\ 0 <= tellg /\ base + size <= received
           /\ pc = "loop" => toRemove + Header < size
  <1>1. CASE pc = "header"
    BY <1>1 DEF ApplanixInv, Failed, AfterPayload, InBuffer
  <1>2. CASE pc = "loop" /\ MoreToRead /\ ~buffering
    <2>1. good /\ tellg + toRemove + Header < size
      BY <1>2 DEF MoreToRead
    <2>2. 0 <= tellg /\ base + size <= received
      BY <2>1 DEF ApplanixInv, InBuffer
    <2>3. ~foundHeader
      BY <1>2, ApplanixHeaderFacts, Zenon
    <2>4. toRemove + Header < size
      BY <2>1, <2>2, ApplanixFacts, Constants
    <2> QED
      BY <1>2, <2>1, <2>2, <2>3, <2>4
  <1> QED
    BY <1>1, <1>2 DEF HeaderTurn

LEMMA ApplanixReadsHeader ==
    ASSUME ApplanixInv, ReadHeader
    PROVE  /\ ApplanixInv' /\ stream' = stream /\ received' = received
           /\ delivered' = delivered
           /\ \A k \in KnownMessages : PassesHeader(k) => nextMessage' = k
  <1>1. PICK k \in HeaderAt(base + toRemove) :
           nextMessage' = k /\ payloadSize' = stream[k].payload
    BY DEF ReadHeader
  <1>2. /\ HeaderTurn /\ toRemove + Header <= size
        /\ tellg' = toRemove + Header /\ toRemove' = toRemove + Header /\ pc' = "loop"
        /\ stream' = stream /\ received' = received
        /\ base' = base /\ good' = good /\ size' = size /\ delivered' = delivered
    BY DEF ReadHeader, BehindHeader, network
  <1>3. foundHeader' = TRUE /\ buffering' = TRUE
    BY Zenon DEF ReadHeader
  <1>4. /\ good /\ ~foundHeader /\ pc # "idle"
        /\ 0 <= tellg /\ base + size <= received
    BY <1>2, AtHeaderTurn
  <1>5. /\ received \in Nat /\ received <= StreamLength /\ StreamLength \in Nat
        /\ base \in Nat /\ size \in Nat /\ toRemove \in Nat /\ Header = 8
    BY ApplanixFacts, Constants
  <1>6. stream \in [1 .. Length -> Messages]
    BY DEF ApplanixInv
  <1>7. k \in KnownMessages /\ k \in 1 .. Length /\ StartOf[k] = base + toRemove
    BY <1>1, <1>6, Positions DEF HeaderAt
  <1>8. stream[k].payload \in Payloads /\ StartOf[k] \in Nat /\ k # 0
    BY <1>6, <1>7, Positions
  <1>9. /\ StartOf' = StartOf /\ StreamLength' = StreamLength
        /\ KnownMessages' = KnownMessages
    BY <1>2, PositionsFixed
  <1>10. TypeOK'
    <2>1. good' \in BOOLEAN
      BY <1>2, ApplanixHeaderFacts, Zenon
    <2>2. foundHeader' \in BOOLEAN /\ buffering' = foundHeader'
      BY <1>3, Zenon
    <2>3. buffering' <=> nextMessage' # 0
      BY <1>1, <1>3, <1>8
    <2>4. /\ payloadSize' \in Payloads \cup {0} /\ nextMessage' \in KnownMessages' \cup {0}
          /\ pc' \in {"idle", "loop", "header"} /\ delivered' \in Seq(0 .. Length)
      BY <1>1, <1>2, <1>7, <1>8, <1>9, ApplanixHeaderFacts
    <2>5. /\ received' \in 0 .. StreamLength' /\ base' \in Nat /\ size' \in Nat
          /\ toRemove' \in Nat /\ tellg' \in -1 .. size'
      BY <1>2, <1>5, <1>9
    <2> QED
      BY <2>1, <2>2, <2>3, <2>4, <2>5, Zenon DEF TypeOK
  <1>11. InBuffer' /\ Failed' /\ AfterPayload'
    <2>1. 0 <= tellg' /\ tellg' <= size' /\ tellg' = toRemove' /\ toRemove' <= size'
      BY <1>2, <1>5
    <2>2. base' + size' <= received'
      BY <1>2, <1>4
    <2> QED
      BY <1>2, <1>4, <2>1, <2>2 DEF InBuffer, Failed, AfterPayload
  <1>12. Found'
    <2>1. base' + toRemove' = StartOf[k] + Header
      BY <1>2, <1>5, <1>7
    <2>2. tellg' = toRemove' /\ toRemove' >= Header
      BY <1>2, <1>5
    <2>3. delivered # <<>> => StartOf[LastOf(delivered)] < StartOf[k]
      BY <1>7 DEF ApplanixInv, Passed
    <2> QED
      BY <1>1, <1>2, <1>9, <2>1, <2>2, <2>3 DEF Found
  <1>13. Passed'
    <2>1. delivered # <<>> => /\ StartOf[LastOf(delivered)] < base + (toRemove + Header)
                              /\ StartOf[LastOf(delivered)] \in Nat
      BY <1>5, ApplanixHeaderFacts DEF ApplanixInv, Passed
    <2> QED
      BY <1>2, <1>9, <2>1 DEF Passed
  <1>14. Sizes'
    BY <1>2, <1>4 DEF ApplanixInv, Sizes, Bound
  <1>15. ApplanixInv'
    <2>1. stream' \in [1 .. Length -> Messages] /\ delivered' \in Seq(1 .. Length)
      BY <1>2, <1>6, ApplanixHeaderFacts, Zenon
    <2> QED
      BY <1>10, <1>11, <1>12, <1>13, <1>14, <2>1 DEF ApplanixInv
  <1>16. ASSUME NEW i \in KnownMessages, PassesHeader(i) PROVE i = k
    <2>1. i \in 1 .. Length /\ StartOf[i] \in Nat
      BY <1>6, Positions
    <2>2. StartOf[k] <= StartOf[i] /\ StartOf[i] < StartOf[k] + 8
      <3>1. Examined = base + toRemove /\ Examined' = base' + toRemove'
        BY DEF Examined
      <3>2. Examined = StartOf[k] /\ Examined' = StartOf[k] + 8
        BY <1>2, <1>5, <1>7, <3>1
      <3> QED
        BY <1>16, <3>2, Zenon DEF PassesHeader
    <2>3. i \in 1 .. Length + 1 /\ k \in 1 .. Length + 1 /\ Length \in Nat
      BY <1>7, <2>1, Constants
    <2>4. i < k => StartOf[i] < StartOf[k]
      BY <1>6, <2>3, Positions
    <2>5. k < i => StartOf[k] + Header + stream[k].payload <= StartOf[i]
      BY <1>6, <1>7, <2>3, Positions
    <2>6. stream[k].payload \in Nat
      BY <1>8, Constants
    <2>7. ~(i < k) /\ ~(k < i)
      BY <1>5, <1>8, <2>1, <2>2, <2>4, <2>5, <2>6
    <2> QED
      BY <2>3, <2>7
  <1> QED
    BY <1>1, <1>2, <1>15, <1>16

(* The steps that keep the message awaited, and what was delivered, and    *)
(* leave the stream good.                                                  *)
LEMMA ApplanixSkips ==
    ASSUME ApplanixInv, SkipByte
    PROVE  /\ ApplanixInv' /\ stream' = stream /\ received' = received
           /\ delivered' = delivered
           /\ \A k \in KnownMessages : ~PassesHeader(k)
  <1>1. /\ HeaderTurn /\ toRemove + 6 <= size /\ HeaderAt(base + toRemove) = {}
        /\ tellg' = toRemove + 6 /\ toRemove' = toRemove + 1 /\ pc' = "loop"
        /\ stream' = stream /\ received' = received
        /\ base' = base /\ good' = good /\ size' = size /\ delivered' = delivered
        /\ foundHeader' = foundHeader /\ buffering' = buffering
        /\ payloadSize' = payloadSize /\ nextMessage' = nextMessage
    BY DEF SkipByte, NextByte, network, header
  <1>2. /\ good /\ ~foundHeader /\ pc # "idle"
        /\ 0 <= tellg /\ base + size <= received
    BY <1>1, AtHeaderTurn
  <1>3. /\ received \in Nat /\ received <= StreamLength /\ StreamLength \in Nat
        /\ base \in Nat /\ size \in Nat /\ toRemove \in Nat
    BY ApplanixFacts
  <1>4. stream \in [1 .. Length -> Messages]
    BY DEF ApplanixInv
  <1>5. /\ StartOf' = StartOf /\ StreamLength' = StreamLength
        /\ KnownMessages' = KnownMessages
    BY <1>1, PositionsFixed
  <1>6. TypeOK'
    <2>1. good' \in BOOLEAN /\ foundHeader' \in BOOLEAN /\ buffering' = foundHeader'
      BY <1>1, ApplanixHeaderFacts, Zenon
    <2>2. buffering' <=> nextMessage' # 0
      BY <1>1, ApplanixHeaderFacts
    <2>3. /\ payloadSize' \in Payloads \cup {0} /\ nextMessage' \in KnownMessages' \cup {0}
          /\ pc' \in {"idle", "loop", "header"} /\ delivered' \in Seq(0 .. Length)
      BY <1>1, <1>5, ApplanixHeaderFacts
    <2>4. /\ received' \in 0 .. StreamLength' /\ base' \in Nat /\ size' \in Nat
          /\ toRemove' \in Nat /\ tellg' \in -1 .. size'
      BY <1>1, <1>3, <1>5
    <2> QED
      BY <2>1, <2>2, <2>3, <2>4, Zenon DEF TypeOK
  <1>7. InBuffer' /\ Failed' /\ AfterPayload' /\ Found'
    <2>1. /\ 0 <= tellg' /\ tellg' <= size' /\ tellg' = toRemove' + 5
          /\ toRemove' <= size' /\ tellg' # 0
      BY <1>1, <1>3
    <2>2. base' + size' <= received' /\ ~foundHeader'
      BY <1>1, <1>2
    <2> QED
      BY <1>1, <1>2, <2>1, <2>2 DEF InBuffer, Failed, AfterPayload, Found
  <1>8. Passed'
    <2>1. delivered # <<>> => /\ StartOf[LastOf(delivered)] < base + (toRemove + 1)
                              /\ StartOf[LastOf(delivered)] < base + (toRemove + 6)
      BY <1>3, ApplanixHeaderFacts DEF ApplanixInv, Passed
    <2> QED
      BY <1>1, <1>5, <2>1 DEF Passed
  <1>9. Sizes'
    BY <1>1, <1>2 DEF ApplanixInv, Sizes, Bound
  <1>10. ApplanixInv'
    <2>1. stream' \in [1 .. Length -> Messages] /\ delivered' \in Seq(1 .. Length)
      BY <1>1, <1>4, ApplanixHeaderFacts, Zenon
    <2> QED
      BY <1>6, <1>7, <1>8, <1>9, <2>1 DEF ApplanixInv
  <1>11. ASSUME NEW k \in KnownMessages, PassesHeader(k) PROVE FALSE
    <2>1. StartOf[k] \in Nat
      BY <1>4, Positions
    <2>2. Examined = base + toRemove /\ Examined' = base + (toRemove + 1)
      BY <1>1 DEF Examined
    <2>3. StartOf[k] = base + toRemove
      BY <1>3, <1>11, <2>1, <2>2 DEF PassesHeader
    <2> QED
      BY <1>1, <2>3 DEF HeaderAt
  <1> QED
    BY <1>1, <1>10, <1>11

(* Only behind a payload the stream can fail.                              *)
LEMMA ApplanixReadsPastEnd ==
    ASSUME ApplanixInv, ReadPastEnd
    PROVE  /\ ApplanixInv' /\ stream' = stream /\ received' = received
           /\ delivered' = delivered /\ Examined' = Examined
  <1>1. /\ HeaderTurn
        /\ IF HeaderAt(base + toRemove) = {}
           THEN toRemove + 6 > size ELSE toRemove + Header > size
        /\ tellg' = -1 /\ pc' = "loop" /\ toRemove' = toRemove
        /\ stream' = stream /\ received' = received
        /\ base' = base /\ size' = size /\ delivered' = delivered
        /\ foundHeader' = foundHeader /\ buffering' = buffering
        /\ payloadSize' = payloadSize /\ nextMessage' = nextMessage
    BY DEF ReadPastEnd, network, header
  <1>2. good' = FALSE
    BY Zenon DEF ReadPastEnd
  <1>3. /\ good /\ ~foundHeader /\ pc # "idle"
        /\ pc = "loop" => toRemove + Header < size
    BY <1>1, AtHeaderTurn
  <1>4. /\ received \in Nat /\ received <= StreamLength /\ StreamLength \in Nat
        /\ base \in Nat /\ size \in Nat /\ toRemove \in Nat /\ Header = 8
    BY ApplanixFacts, Constants
  <1>5. size < toRemove + Header /\ pc = "header"
    <2>1. size < toRemove + Header
      BY <1>1, <1>4
    <2>2. pc # "loop"
      BY <1>3, <1>4, <2>1
    <2> QED
      BY <1>3, <2>1, <2>2, ApplanixHeaderFacts
  <1>6. size <= Bound
    BY <1>5 DEF ApplanixInv, AfterPayload
  <1>7. /\ StartOf' = StartOf /\ StreamLength' = StreamLength
        /\ KnownMessages' = KnownMessages
    BY <1>1, PositionsFixed
  <1>8. TypeOK'
    <2>1. good' \in BOOLEAN /\ foundHeader' \in BOOLEAN /\ buffering' = foundHeader'
      BY <1>1, <1>2, ApplanixHeaderFacts, Zenon
    <2>2. buffering' <=> nextMessage' # 0
      BY <1>1, ApplanixHeaderFacts
    <2>3. /\ payloadSize' \in Payloads \cup {0} /\ nextMessage' \in KnownMessages' \cup {0}
          /\ pc' \in {"idle", "loop", "header"} /\ delivered' \in Seq(0 .. Length)
      BY <1>1, <1>7, ApplanixHeaderFacts
    <2>4. /\ received' \in 0 .. StreamLength' /\ base' \in Nat /\ size' \in Nat
          /\ toRemove' \in Nat /\ tellg' \in -1 .. size'
      BY <1>1, <1>4, <1>7
    <2> QED
      BY <2>1, <2>2, <2>3, <2>4, Zenon DEF TypeOK
  <1>9. InBuffer' /\ Failed' /\ AfterPayload' /\ Found'
    <2>1. ~good' /\ ~foundHeader'
      BY <1>1, <1>2, <1>3
    <2> QED
      BY <1>1, <2>1 DEF InBuffer, Failed, AfterPayload, Found
  <1>10. Passed'
    <2>1. ~good'
      BY <1>2
    <2> QED
      BY <1>1, <1>7, <2>1 DEF ApplanixInv, Passed
  <1>11. Sizes'
    BY <1>1, <1>3, <1>6 DEF ApplanixInv, Sizes, Bound
  <1>12. stream' \in [1 .. Length -> Messages] /\ delivered' \in Seq(1 .. Length)
    BY <1>1, ApplanixHeaderFacts, Zenon DEF ApplanixInv
  <1>13. Examined' = Examined
    BY <1>1 DEF Examined
  <1> QED
    BY <1>1, <1>8, <1>9, <1>10, <1>11, <1>12, <1>13 DEF ApplanixInv

(* The steps that change pc only.                                          *)
LEMMA ApplanixTurns ==
    ASSUME ApplanixInv, NoHeaderYet \/ KeepBuffer
    PROVE  /\ ApplanixInv' /\ stream' = stream /\ received' = received
           /\ delivered' = delivered /\ Examined' = Examined
  <1>1. /\ stream' = stream /\ received' = received
        /\ base' = base /\ good' = good /\ size' = size /\ tellg' = tellg
        /\ foundHeader' = foundHeader /\ buffering' = buffering
        /\ payloadSize' = payloadSize /\ nextMessage' = nextMessage
        /\ toRemove' = toRemove /\ delivered' = delivered
    BY DEF NoHeaderYet, KeepBuffer, network, buffer, header
  <1>2. /\ base \in Nat /\ size \in Nat /\ toRemove \in Nat /\ tellg \in Int
        /\ tellg <= size /\ Header = 8 /\ Word \in Nat \ {0} /\ MaxBuffer \in Nat
        /\ Bound = 2 * MaxBuffer + 16 + LargestMessage /\ LargestMessage \in Nat
        /\ pc # "idle" => size < Word
    BY ApplanixFacts, Constants
  <1>3. /\ StartOf' = StartOf /\ StreamLength' = StreamLength
        /\ KnownMessages' = KnownMessages
    BY <1>1, PositionsFixed
  <1>4. ASSUME NoHeaderYet
        PROVE  /\ pc' = "loop" /\ InBuffer' /\ Failed' /\ AfterPayload'
               /\ Found' /\ Passed' /\ Sizes'
    <2>1. HeaderTurn /\ ~HeaderReadable /\ pc' = "loop"
      BY <1>4 DEF NoHeaderYet
    <2>2. /\ good /\ ~foundHeader /\ pc # "idle" /\ 0 <= tellg
          /\ pc = "loop" => toRemove + Header < size
      BY <2>1, AtHeaderTurn
    <2>3. Available < Header
      <3>1. ~(Available >= Header)
        BY <2>1, <2>2 DEF HeaderReadable
      <3>2. Available \in Nat
        BY <1>2 DEF Available
      <3> QED
        BY <1>2, <3>1, <3>2
    <2>4. toRemove <= size
      <3> SUFFICES ASSUME size < toRemove PROVE FALSE
        BY <1>2
      <3>1. pc = "header"
        BY <1>2, <2>2, ApplanixHeaderFacts
      <3>2. tellg + toRemove - size <= Word - Header
        BY <3>1 DEF ApplanixInv, AfterPayload
      <3> DEFINE x == size - (tellg + toRemove)
      <3>3. x \in Int /\ x < 0 /\ 0 <= x + Word /\ x + Word >= Header
        BY <1>2, <2>2, <3>2
      <3>4. x % Word = x + Word
        <4> HIDE DEF x
        <4> QED
          BY <1>2, <3>3, Differences
      <3> QED
        BY <1>2, <2>3, <3>3, <3>4 DEF Available
    <2>5. InBuffer' /\ Failed' /\ AfterPayload' /\ Found' /\ Passed' /\ Sizes'
      <3>1. InBuffer'
        BY <1>1, <2>1, <2>4 DEF ApplanixInv, InBuffer
      <3>2. Failed' /\ AfterPayload' /\ Found'
        BY <1>1, <1>3, <2>1, <2>2 DEF Failed, AfterPayload, Found
      <3>3. Passed'
        BY <1>1, <1>3 DEF ApplanixInv, Passed
      <3>4. Sizes'
        BY <1>1, <2>1, <2>2 DEF ApplanixInv, Sizes, Bound
      <3> QED
        BY <3>1, <3>2, <3>3, <3>4
    <2> QED
      BY <2>1, <2>5
  <1>5. ASSUME KeepBuffer
        PROVE  /\ pc' = "idle" /\ InBuffer' /\ Failed' /\ AfterPayload'
               /\ Found' /\ Passed' /\ Sizes'
    <2>1. Exhausted /\ ~DiscardDue /\ pc' = "idle" /\ pc = "loop"
      BY <1>5 DEF KeepBuffer, Exhausted
    <2>2. size <= Bound
      <3>1. CASE ~good
        BY <3>1 DEF ApplanixInv, Sizes
      <3>2. CASE good
        <4>1. /\ 0 <= tellg
              /\ tellg = toRemove \/ tellg = toRemove + 5 \/ tellg = toRemove - 8
              /\ tellg = 0 => toRemove = 0
          BY <3>2 DEF ApplanixInv, InBuffer
        <4>2. toRemove <= MaxBuffer
          BY <1>2, <2>1, <4>1 DEF DiscardDue
        <4>3. CASE ~MoreToRead
          <5>1. size <= tellg + toRemove + Header
            BY <1>2, <3>2, <4>3 DEF MoreToRead
          <5> QED
            BY <1>2, <4>1, <4>2, <5>1
        <4>4. CASE MoreToRead /\ buffering /\ ~PayloadComplete
          <5>1. /\ foundHeader /\ payloadSize \in Payloads /\ payloadSize \in Nat
            BY <4>4, ApplanixHeaderFacts, Zenon
          <5>2. tellg = toRemove
            BY <5>1 DEF ApplanixInv, Found
          <5>3. tellg + toRemove + Header < size
            BY <4>4 DEF MoreToRead
          <5> DEFINE x == size - (tellg + toRemove)
          <5>4. x \in Int /\ x >= 0 /\ x < Word
            BY <1>2, <2>1, <4>1, <5>2, <5>3
          <5>5. x % Word = x
            <6> HIDE DEF x
            <6> QED
              BY <1>2, <5>4, Differences
          <5>6. x < payloadSize
            <6>1. ~(x % Word >= payloadSize)
              BY <4>4 DEF PayloadComplete, Available
            <6> HIDE DEF x
            <6> QED
              BY <5>1, <5>4, <5>5, <6>1
          <5>7. payloadSize <= LargestMessage
            BY <5>1, LargestOfPayloads
          <5> QED
            BY <1>2, <4>2, <5>1, <5>2, <5>6, <5>7
        <4> QED
          BY <2>1, <4>3, <4>4 DEF Exhausted
      <3> QED
        BY <3>1, <3>2
    <2>3. InBuffer'
      BY <1>1, <2>1 DEF ApplanixInv, InBuffer
    <2>4. Failed' /\ AfterPayload' /\ Found'
      BY <1>1, <1>3, <2>1 DEF ApplanixInv, Failed, AfterPayload, Found
    <2>5. Passed'
      BY <1>1, <1>3 DEF ApplanixInv, Passed
    <2>6. Sizes'
      BY <1>1, <2>1, <2>2 DEF Sizes, Bound
    <2> QED
      BY <2>1, <2>3, <2>4, <2>5, <2>6
  <1>6. /\ pc' \in {"idle", "loop", "header"} /\ InBuffer' /\ Failed' /\ AfterPayload'
        /\ Found' /\ Passed' /\ Sizes'
    BY <1>4, <1>5
  <1>7. TypeOK'
    <2>1. good' \in BOOLEAN /\ foundHeader' \in BOOLEAN /\ buffering' = foundHeader'
      BY <1>1, ApplanixHeaderFacts, Zenon
    <2>2. buffering' <=> nextMessage' # 0
      BY <1>1, ApplanixHeaderFacts
    <2>3. /\ payloadSize' \in Payloads \cup {0} /\ nextMessage' \in KnownMessages' \cup {0}
          /\ delivered' \in Seq(0 .. Length)
      BY <1>1, <1>3, ApplanixHeaderFacts
    <2>4. /\ received' \in 0 .. StreamLength' /\ base' \in Nat /\ size' \in Nat
          /\ toRemove' \in Nat /\ tellg' \in -1 .. size'
      BY <1>1, <1>3, Zenon DEF ApplanixInv, TypeOK
    <2> QED
      BY <1>6, <2>1, <2>2, <2>3, <2>4, Zenon DEF TypeOK
  <1>8. stream' \in [1 .. Length -> Messages] /\ delivered' \in Seq(1 .. Length)
    BY <1>1, ApplanixHeaderFacts, Zenon DEF ApplanixInv
  <1>9. Examined' = Examined
    BY <1>1 DEF Examined
  <1> QED
    BY <1>1, <1>6, <1>7, <1>8, <1>9 DEF ApplanixInv

LEMMA ApplanixDiscards ==
    ASSUME ApplanixInv, DiscardRead
    PROVE  /\ ApplanixInv' /\ stream' = stream /\ received' = received
           /\ delivered' = delivered
  <1>1. /\ Exhausted /\ DiscardDue /\ pc = "loop" /\ pc' = "idle"
        /\ base' = base + tellg /\ size' = size - tellg /\ tellg' = 0 /\ toRemove' = 0
        /\ stream' = stream /\ received' = received /\ delivered' = delivered
        /\ foundHeader' = foundHeader /\ buffering' = buffering
        /\ payloadSize' = payloadSize /\ nextMessage' = nextMessage
    BY DEF DiscardRead, Exhausted, ResumeAt, network, header
  <1>2. good' = TRUE
    BY Zenon DEF DiscardRead
  <1>3. /\ received \in Nat /\ received <= StreamLength /\ StreamLength \in Nat
        /\ base \in Nat /\ size \in Nat /\ toRemove \in Nat /\ tellg \in Int
        /\ tellg <= size /\ Header = 8 /\ Word \in Nat \ {0} /\ MaxBuffer \in Nat
        /\ Bound = 2 * MaxBuffer + 16 + LargestMessage /\ LargestMessage \in Nat
        /\ size < Word
    BY <1>1, ApplanixFacts, Constants
  <1>4. tellg > 0
    BY <1>1 DEF DiscardDue
  <1>5. good
    BY <1>3, <1>4 DEF ApplanixInv, Failed
  <1>6. /\ tellg = toRemove \/ tellg = toRemove + 5 \/ tellg = toRemove - 8
        /\ toRemove <= size /\ base + size <= received
    BY <1>1, <1>5 DEF ApplanixInv, InBuffer
  <1>7. size <= Bound + 2 * MaxBuffer
    BY <1>1 DEF ApplanixInv, Sizes
  <1>8. size' <= Bound
    <2>1. CASE ~MoreToRead
      <3>1. size <= tellg + toRemove + Header
        BY <1>3, <1>5, <2>1 DEF MoreToRead
      <3>2. size - tellg <= Bound
        BY <1>3, <1>6, <1>7, <3>1
      <3> QED
        BY <1>1, <3>2
    <2>2. CASE MoreToRead /\ buffering /\ ~PayloadComplete
      <3>1. /\ foundHeader /\ payloadSize \in Payloads /\ payloadSize \in Nat
        BY <2>2, ApplanixHeaderFacts, Zenon
      <3>2. tellg = toRemove
        BY <3>1 DEF ApplanixInv, Found
      <3>3. tellg + toRemove + Header < size
        BY <2>2 DEF MoreToRead
      <3> DEFINE x == size - (tellg + toRemove)
      <3>4. x \in Int /\ x >= 0 /\ x < Word
        BY <1>3, <3>2, <3>3
      <3>5. x % Word = x
        <4> HIDE DEF x
        <4> QED
          BY <1>3, <3>4, Differences
      <3>6. x < payloadSize
        <4>1. ~(x % Word >= payloadSize)
          BY <2>2 DEF PayloadComplete, Available
        <4> HIDE DEF x
        <4> QED
          BY <3>1, <3>4, <3>5, <4>1
      <3>7. payloadSize <= LargestMessage
        BY <3>1, LargestOfPayloads
      <3>8. size - tellg <= Bound
        BY <1>3, <1>7, <3>1, <3>2, <3>6, <3>7
      <3> QED
        BY <1>1, <3>8
    <2> QED
      BY <1>1, <2>1, <2>2 DEF Exhausted
  <1>9. /\ StartOf' = StartOf /\ StreamLength' = StreamLength
        /\ KnownMessages' = KnownMessages
    BY <1>1, PositionsFixed
  <1>10. size' \in Nat /\ base' \in Nat
    BY <1>1, <1>3, <1>4
  <1>11. TypeOK'
    <2>1. good' \in BOOLEAN /\ foundHeader' \in BOOLEAN /\ buffering' = foundHeader'
      BY <1>1, <1>2, ApplanixHeaderFacts, Zenon
    <2>2. buffering' <=> nextMessage' # 0
      BY <1>1, ApplanixHeaderFacts
    <2>3. /\ payloadSize' \in Payloads \cup {0} /\ nextMessage' \in KnownMessages' \cup {0}
          /\ pc' \in {"idle", "loop", "header"} /\ delivered' \in Seq(0 .. Length)
      BY <1>1, <1>9, ApplanixHeaderFacts
    <2>4. /\ received' \in 0 .. StreamLength' /\ base' \in Nat /\ size' \in Nat
          /\ toRemove' \in Nat /\ tellg' \in -1 .. size'
      BY <1>1, <1>3, <1>9, <1>10
    <2> QED
      BY <2>1, <2>2, <2>3, <2>4, Zenon DEF TypeOK
  <1>12. InBuffer'
    <2>1. /\ 0 <= tellg' /\ tellg' <= size' /\ tellg' = toRemove' /\ toRemove' <= size'
          /\ toRemove' = 0
      BY <1>1, <1>10
    <2>2. base' + size' <= received'
      BY <1>1, <1>3, <1>6
    <2> QED
      BY <2>1, <2>2 DEF InBuffer
  <1>13. Failed' /\ AfterPayload'
    BY <1>1, <1>2 DEF Failed, AfterPayload
  <1>14. Found'
    <2> SUFFICES ASSUME foundHeader'
                 PROVE  /\ payloadSize' = stream[nextMessage].payload
                        /\ base' + toRemove' = StartOf[nextMessage] + Header
                        /\ delivered # <<>> =>
                              StartOf[LastOf(delivered)] < StartOf[nextMessage]
      BY <1>1, <1>9 DEF Found
    <2>1. /\ payloadSize = stream[nextMessage].payload
          /\ base + toRemove = StartOf[nextMessage] + Header /\ tellg = toRemove
          /\ delivered # <<>> => StartOf[LastOf(delivered)] < StartOf[nextMessage]
      BY <1>1 DEF ApplanixInv, Found
    <2>2. base' + toRemove' = base + toRemove
      BY <1>1, <1>3, <2>1
    <2> QED
      BY <1>1, <2>1, <2>2
  <1>15. Passed'
    <2>1. delivered # <<>> => StartOf[LastOf(delivered)] < base + tellg
      BY <1>5 DEF ApplanixInv, Passed
    <2>2. base' + toRemove' = base + tellg /\ base' + tellg' = base + tellg
      BY <1>1, <1>3
    <2> QED
      BY <1>1, <1>9, <2>1, <2>2 DEF Passed
  <1>16. Sizes'
    BY <1>1, <1>8 DEF Sizes, Bound
  <1>17. stream' \in [1 .. Length -> Messages] /\ delivered' \in Seq(1 .. Length)
    BY <1>1, ApplanixHeaderFacts, Zenon DEF ApplanixInv
  <1> QED
    BY <1>1, <1>11, <1>12, <1>13, <1>14, <1>15, <1>16, <1>17 DEF ApplanixInv

LEMMA ApplanixStep ==
    ASSUME ApplanixInv, [Next]_vars
    PROVE  ApplanixInv' /\ stream' = stream /\ received' \in Nat /\ received' >= received
  <1>0. received \in Nat
    BY ApplanixFacts
  <1>1. CASE UNCHANGED vars
    <2>1. /\ stream' = stream /\ received' = received
          /\ base' = base /\ good' = good /\ size' = size /\ tellg' = tellg
          /\ foundHeader' = foundHeader /\ buffering' = buffering
          /\ payloadSize' = payloadSize /\ nextMessage' = nextMessage
          /\ toRemove' = toRemove /\ delivered' = delivered /\ pc' = pc
      BY <1>1 DEF vars, network, buffer, header
    <2>2. /\ StartOf' = StartOf /\ StreamLength' = StreamLength
          /\ KnownMessages' = KnownMessages
      BY <2>1, PositionsFixed
    <2>3. TypeOK'
      BY <2>1, <2>2 DEF ApplanixInv, TypeOK
    <2>4. InBuffer' /\ Failed'
      BY <2>1 DEF ApplanixInv, InBuffer, Failed
    <2>5. AfterPayload' /\ Found' /\ Passed'
      BY <2>1, <2>2 DEF ApplanixInv, AfterPayload, Found, Passed, Bound
    <2>6. Sizes'
      BY <2>1 DEF ApplanixInv, Sizes, Bound
    <2> QED
      BY <1>0, <2>1, <2>3, <2>4, <2>5, <2>6 DEF ApplanixInv
  <1> QED
    BY <1>0, <1>1, ApplanixReceives, ApplanixDecodes, ApplanixReadsHeader, ApplanixSkips,
       ApplanixReadsPastEnd, ApplanixTurns, ApplanixDiscards DEF Next

LEMMA ApplanixFinds ==
    ASSUME ApplanixInv, [Next]_vars
    PROVE  FindsOrExcuses
  <1> SUFFICES ASSUME NEW k \in KnownMessages, PassesHeader(k)
               PROVE  nextMessage' = k \/ FollowsDecoded(k) \/ DiscardRead
    BY DEF FindsOrExcuses
  <1>1. stream \in [1 .. Length -> Messages]
    BY DEF ApplanixInv
  <1>2. StartOf[k] \in Nat /\ k \in 1 .. Length
    BY <1>1, Positions
  <1>3. Examined \in Nat
    BY ApplanixFacts DEF Examined
  <1>4. Examined' # Examined
    BY <1>2, <1>3 DEF PassesHeader
  <1>5. ~UNCHANGED vars
    <2> SUFFICES ASSUME UNCHANGED vars PROVE FALSE
      OBVIOUS
    <2>1. Examined' = Examined
      BY DEF vars, buffer, Examined
    <2> QED
      BY <1>4, <2>1
  <1>6. CASE DecodePayload
    <2> DEFINE j == nextMessage
    <2>1. /\ j \in 1 .. Length
          /\ Examined = StartOf[j] + Header /\ Examined' = StartOf[j + 1] + Footer
      BY <1>6, ApplanixDecodes
    <2>2. /\ StartOf[j] \in Nat /\ StartOf[j + 1] \in Nat /\ Length \in Nat
          /\ Header = 8 /\ Footer = 4
      BY <1>1, <2>1, Positions, Constants
    <2>3. StartOf[j] + 8 <= StartOf[k] /\ StartOf[k] < StartOf[j + 1] + 4
      BY <2>1, <2>2 DEF PassesHeader
    <2> HIDE DEF j
    <2>4. /\ j \in 1 .. Length + 1 /\ j + 1 \in 1 .. Length + 1
          /\ k \in 1 .. Length + 1
      BY <1>2, <2>1, <2>2
    <2>5. ~(k < j) /\ k # j
      <3>1. k < j => StartOf[k] < StartOf[j]
        BY <1>1, <2>4, Positions
      <3> QED
        BY <1>2, <2>2, <2>3, <3>1
    <2>6. ~(j + 1 < k)
      <3> SUFFICES ASSUME j + 1 < k PROVE FALSE
        OBVIOUS
      <3>1. j + 1 \in 1 .. Length
        BY <1>2, <2>1, <2>2
      <3>2. StartOf[j + 1] + Header + stream[j + 1].payload <= StartOf[k]
        BY <1>1, <2>4, <3>1, Positions
      <3>3. stream[j + 1].payload \in Nat
        BY <1>1, <3>1, Positions, Constants
      <3> QED
        BY <1>2, <2>2, <2>3, <3>2, <3>3
    <2>7. k = j + 1
      BY <1>2, <2>1, <2>5, <2>6
    <2>8. k > 1 /\ j = k - 1
      BY <1>2, <2>1, <2>7
    <2> QED
      BY <1>6, <2>8 DEF FollowsDecoded, j
  <1> QED
    BY <1>4, <1>5, <1>6, ApplanixReceives, ApplanixReadsHeader, ApplanixSkips,
       ApplanixReadsPastEnd, ApplanixTurns DEF Next

LEMMA ApplanixCounts ==
    Arrived = Cardinality({k \in Numbers : EndOf(k) <= received})
  BY DEF Arrived

LEMMA ApplanixPassesOn ==
    ASSUME ApplanixInv, [Next]_vars
    PROVE  /\ Arrived' >= Arrived
           /\ \/ delivered' = delivered
              \/ \E k \in (IF delivered = <<>> THEN 0 ELSE LastOf(delivered)) + 1
                             .. Arrived' :
                    delivered' = Append(delivered, k)
  <1>1. /\ stream' = stream /\ received' \in Nat /\ received' >= received
        /\ received \in Nat /\ stream \in [1 .. Length -> Messages] /\ Length \in Nat
    BY ApplanixStep, ApplanixFacts, Constants DEF ApplanixInv
  <1>2. StartOf' = StartOf /\ Numbers' = Numbers /\ Numbers = 1 .. Length
    BY <1>1, PositionsFixed, Positions
  <1>3. \A k \in 1 .. Length : EndOf(k) \in Nat
    BY <1>1, Positions DEF EndOf
  <1> DEFINE A == {k \in 1 .. Length : EndOf(k) <= received}
             B == {k \in 1 .. Length : EndOf(k) <= received'}
  <1>4. Arrived = Cardinality(A)
    BY <1>2 DEF Arrived
  <1>5. Arrived' = Cardinality(B)
    <2>1. {k \in Numbers' : EndOf(k)' <= received'} = B
      BY <1>2 DEF EndOf
    <2> QED
      BY <2>1 DEF Arrived
  <1>6. A \subseteq B
    BY <1>1, <1>3
  <1>7. /\ Cardinality(A) \in Nat /\ Cardinality(B) \in Nat
        /\ Cardinality(A) <= Cardinality(B)
        /\ \A m \in Nat : 1 .. m \subseteq B => m <= Cardinality(B)
    <2>1. A \in SUBSET (1 .. Length) /\ B \in SUBSET (1 .. Length)
      OBVIOUS
    <2> HIDE DEF A, B
    <2> QED
      BY <1>1, <1>6, <2>1, CountUpTo
  <1>8. Arrived' >= Arrived
    BY <1>4, <1>5, <1>7
  <1>9. CASE DecodePayload
    <2> DEFINE k == nextMessage
    <2>1. /\ k \in 1 .. Length /\ delivered' = Append(delivered, k)
          /\ EndOf(k) <= received /\ received' = received
          /\ delivered # <<>> => StartOf[LastOf(delivered)] < StartOf[k]
      BY <1>9, ApplanixDecodes
    <2>2. delivered # <<>> => /\ LastOf(delivered) \in 1 .. Length
                              /\ StartOf[LastOf(delivered)] \in Nat
      BY ApplanixHeaderFacts
    <2> HIDE DEF k
    <2>3. ASSUME NEW j \in 1 .. k PROVE j \in B
      <3>1. j \in 1 .. Length /\ EndOf(j) \in Nat /\ EndOf(k) \in Nat
        BY <1>1, <1>3, <2>1
      <3>2. CASE j = k
        BY <2>1, <3>1, <3>2
      <3>3. CASE j # k
        <4>1. j + 1 < k + 1 /\ j + 1 \in 1 .. Length + 1 /\ k + 1 \in 1 .. Length + 1
          BY <1>1, <2>1, <3>3
        <4>2. StartOf[j + 1] < StartOf[k + 1]
          BY <1>1, <4>1, Positions
        <4> QED
          BY <1>1, <2>1, <3>1, <4>2 DEF EndOf
      <3> QED
        BY <3>2, <3>3
    <2>4. k <= Arrived'
      <3>1. k \in Nat /\ 1 .. k \subseteq B
        BY <1>1, <2>1, <2>3
      <3> QED
        BY <1>5, <1>7, <3>1
    <2>5. ASSUME delivered # <<>> PROVE LastOf(delivered) < k
      <3> DEFINE l == LastOf(delivered)
      <3>1. l \in 1 .. Length + 1 /\ k \in 1 .. Length + 1
        BY <1>1, <2>1, <2>2, <2>5
      <3>2. StartOf[l] \in Nat /\ StartOf[k] \in Nat /\ StartOf[l] < StartOf[k]
        BY <1>1, <2>1, <2>2, <2>5, Positions
      <3> HIDE DEF l
      <3>3. k < l => StartOf[k] < StartOf[l]
        BY <1>1, <3>1, Positions
      <3>4. l < k
        <4>1. l # k /\ ~(k < l)
          BY <3>2, <3>3
        <4> QED
          BY <1>1, <3>1, <4>1
      <3> QED
        BY <3>4 DEF l
    <2>6. k \in (IF delivered = <<>> THEN 0 ELSE LastOf(delivered)) + 1 .. Arrived'
      <3>1. Arrived' \in Nat
        BY <1>5, <1>7
      <3>2. CASE delivered = <<>>
        BY <1>1, <2>1, <2>4, <3>1, <3>2
      <3>3. CASE delivered # <<>>
        BY <1>1, <2>1, <2>2, <2>4, <2>5, <3>1, <3>3
      <3> QED
        BY <3>2, <3>3
    <2> QED
      BY <1>8, <2>1, <2>6
  <1>10. CASE ~DecodePayload
    <2>1. delivered' = delivered
      BY <1>10, ApplanixReceives, ApplanixReadsHeader, ApplanixSkips,
         ApplanixReadsPastEnd, ApplanixTurns, ApplanixDiscards DEF Next, vars
    <2> QED
      BY <1>8, <2>1
  <1> QED
    BY <1>9, <1>10

LEMMA ApplanixNothingAtFirst ==
    ASSUME Init
    PROVE  Arrived = 0 /\ delivered = <<>>
  <1>1. stream \in [1 .. Length -> Messages] /\ received = 0 /\ delivered = <<>>
    BY DEF Init
  <1>2. \A k \in 1 .. Length : EndOf(k) \in Nat /\ EndOf(k) > 0
    <2> SUFFICES ASSUME NEW k \in 1 .. Length PROVE EndOf(k) \in Nat /\ EndOf(k) > 0
      OBVIOUS
    <2>1. /\ EndOf(k) = StartOf[k] + Header + stream[k].payload
          /\ StartOf[k] \in Nat /\ stream[k].payload \in Payloads
      BY <1>1, Positions DEF EndOf
    <2> QED
      BY <2>1, Constants
  <1>3. {k \in Numbers : EndOf(k) <= received} = {}
    <2>1. Numbers = 1 .. Length
      BY <1>1, Positions
    <2>2. ASSUME NEW k \in Numbers PROVE ~(EndOf(k) <= received)
      <3>1. EndOf(k) \in Nat /\ EndOf(k) > 0
        BY <1>2, <2>1
      <3> QED
        BY <1>1, <3>1
    <2> QED
      BY <2>2
  <1> QED
    BY <1>1, <1>3, FS_EmptySet DEF Arrived

LEMMA ApplanixInBounds == ASSUME ApplanixInv PROVE SeekInBuffer /\ BufferBounded
  BY DEF ApplanixInv, InBuffer, Sizes, Bound, SeekInBuffer, BufferBounded

-----------------------------------------------------------------------------
(* The Trimble decoder.                                                    *)
LEMMA GreatestOf ==
    ASSUME NEW n \in Nat, NEW S \in SUBSET (1 .. n), S # {}
    PROVE  \E x \in S : \A y \in S : y <= x
  <1> DEFINE U == {m \in Nat : \A y \in S : y <= m}
  <1>1. U \in SUBSET Nat /\ U # {}
    <2>1. n \in U
      OBVIOUS
    <2> QED
      BY <2>1
  <1>2. PICK m \in U : \A u \in U : m <= u
    <2> HIDE DEF U
    <2> QED
      BY <1>1, LeastOf
  <1>3. m \in Nat /\ \A y \in S : y <= m
    BY <1>2
  <1>4. m \in S
    <2> SUFFICES ASSUME m \notin S PROVE FALSE
      OBVIOUS
    <2>0. \A y \in S : y \in Nat /\ y >= 1 /\ y <= m /\ y # m
      BY <1>3
    <2>1. PICK y \in S : TRUE
      OBVIOUS
    <2>2. m - 1 \in Nat /\ \A z \in S : z <= m - 1
      BY <1>3, <2>0, <2>1
    <2>3. m - 1 \in U
      BY <2>2
    <2> QED
      BY <1>2, <1>3, <2>3
  <1> QED
    BY <1>3, <1>4

LEMMA TrimbleLast ==
    ASSUME NEW n \in Nat, NEW S \in SUBSET (1 .. n), S # {}
    PROVE  Trimble!Last(S) \in S /\ \A k \in S : k <= Trimble!Last(S)
  <1>1. \E x \in S : \A y \in S : y <= x
    BY GreatestOf
  <1> QED
    BY <1>1, Zenon DEF Trimble!Last

Fixes == [latitude : Trimble!Coordinate, longitude : Trimble!Coordinate]

(* One sentence: what the position was before only shows through when the  *)
(* sentence was cut off inside its coordinates.                            *)
LEMMA TrimbleRead ==
    ASSUME NEW k \in 0 .. TrimbleLength, NEW w \in BOOLEAN, NEW d \in BOOLEAN
    PROVE  [of |-> k, whole |-> w, degrees |-> d] \in Trimble!Coordinate
  BY DEF Trimble!Coordinate

LEMMA TrimbleParsed ==
    ASSUME NEW x \in Fixes, NEW k \in 1 .. TrimbleLength, NEW p \in Int
    PROVE  /\ Trimble!Parsed(x, k, p) \in Fixes
           /\ stream[k] = "GPGGA" /\ p >= Trimble!Longitude
                 => Trimble!Parsed(x, k, p) = Trimble!FixOf(k)
  <1> DEFINE old == x.longitude
             wa == (p >= Trimble!Latitude)
             da == (p >= Trimble!LongitudeBegun)
             wo == (p >= Trimble!Longitude)
             la == [of |-> k, whole |-> wa, degrees |-> da]
             lo == [of |-> k, whole |-> wo, degrees |-> TRUE]
  <1>1. old \in Trimble!Coordinate /\ k \in 0 .. TrimbleLength
    <2>1. TrimbleLength \in Nat
      BY StreamAssumption DEF Trimble!TrimbleAssumption
    <2> QED
      BY <2>1 DEF Fixes
  <1>2. wa \in BOOLEAN /\ da \in BOOLEAN /\ wo \in BOOLEAN /\ TRUE \in BOOLEAN
    <2>1. wa \in BOOLEAN
      BY SMT DEF Trimble!Latitude
    <2>2. da \in BOOLEAN
      BY SMT DEF Trimble!LongitudeBegun
    <2>3. wo \in BOOLEAN
      BY SMT DEF Trimble!Longitude
    <2>4. TRUE \in BOOLEAN
      BY Zenon
    <2> HIDE DEF wa, da, wo
    <2> QED
      BY <2>1, <2>2, <2>3, <2>4, Zenon
  <1>3. la \in Trimble!Coordinate /\ lo \in Trimble!Coordinate
    <2> HIDE DEF wa, da, wo
    <2> QED
      BY <1>1, <1>2, TrimbleRead
  <1>4. Trimble!Parsed(x, k, p) =
           IF stream[k] # "GPGGA" \/ p < Trimble!LatitudeBegun THEN x
           ELSE [latitude |-> la,
                 longitude |-> IF p < Trimble!LongitudeBegun THEN old ELSE lo]
    BY Zenon DEF Trimble!Parsed
  <1>5. Trimble!Parsed(x, k, p) \in Fixes
    <2> HIDE DEF la, lo, old
    <2> QED
      BY <1>1, <1>3, <1>4 DEF Fixes
  <1>6. ASSUME stream[k] = "GPGGA", p >= Trimble!Longitude
        PROVE  Trimble!Parsed(x, k, p) = Trimble!FixOf(k)
    <2>1. ~(p < Trimble!LatitudeBegun) /\ ~(p < Trimble!LongitudeBegun) /\ wa /\ da /\ wo
      BY <1>6 DEF Trimble!LatitudeBegun, Trimble!LongitudeBegun, Trimble!Latitude,
                  Trimble!Longitude
    <2>2. wa = TRUE /\ da = TRUE /\ wo = TRUE
      BY <2>1, Zenon
    <2>3. Trimble!Parsed(x, k, p) = [latitude |-> la, longitude |-> lo]
      <3> HIDE DEF la, lo, old
      <3> QED
        BY <1>4, <1>6, <2>1, Zenon
    <2>4. /\ la = [of |-> k, whole |-> TRUE, degrees |-> TRUE]
          /\ lo = [of |-> k, whole |-> TRUE, degrees |-> TRUE]
      <3> HIDE DEF wa, da, wo
      <3> QED
        BY <2>2, Zenon
    <2> QED
      BY <2>3, <2>4, Zenon DEF Trimble!FixOf
  <1> QED
    BY <1>5, <1>6

(* The sentences decoded from a chunk.                                     *)
LEMMA TrimbleDecoded ==
    ASSUME stream \in [1 .. TrimbleLength -> Trimble!Sentences],
           NEW first \in Nat, NEW end \in Nat
    PROVE  /\ TrimbleLength \in Nat /\ Len(stream) = TrimbleLength
           /\ Trimble!DecodedIn(first, end) \in SUBSET (1 .. TrimbleLength)
           /\ \A k \in Trimble!DecodedIn(first, end) :
                 /\ first <= Trimble!StartOf(k) + 1 /\ Trimble!StartOf(k) + 3 <= end
           /\ \A k \in 1 .. TrimbleLength :
                 Trimble!StartOf(k) = 9 * (k - 1) /\ Trimble!StartOf(k) \in Nat
  <1>1. TrimbleLength \in Nat
    BY StreamAssumption DEF Trimble!TrimbleAssumption
  <1> QED
    BY <1>1 DEF Trimble!DecodedIn, Trimble!TypeSeen, Trimble!Dollar, Trimble!Type,
                Trimble!StartOf, Trimble!Pieces

(* The loop over them: the last sentence decides.                          *)
LEMMA TrimbleFix ==
    ASSUME stream \in [1 .. TrimbleLength -> Trimble!Sentences],
           NEW first \in Nat, NEW end \in Nat
    PROVE  /\ Trimble!DecodedFix(first, end) \in Fixes
           /\ Trimble!DecodedIn(first, end) # {} =>
                 LET k == Trimble!Last(Trimble!DecodedIn(first, end))
                 IN  stream[k] = "GPGGA" /\ end - Trimble!StartOf(k) >= Trimble!Longitude
                        => Trimble!DecodedFix(first, end) = Trimble!FixOf(k)
  <1> DEFINE n == TrimbleLength
             S == Trimble!DecodedIn(first, end)
             read(x, k) == Trimble!Parsed(x, k, end - Trimble!StartOf(k))
             s == [k \in 1 .. n |->
                     [x \in Fixes |-> IF k \in S THEN read(x, k) ELSE x]]
             After(f) == f = [k \in 0 .. Len(stream) |->
                                IF k = 0 THEN Trimble!NoFix
                                ELSE IF k \in S THEN read(f[k - 1], k) ELSE f[k - 1]]
  <1>1. /\ n \in Nat /\ Len(stream) = n /\ S \in SUBSET (1 .. n)
        /\ \A k \in 1 .. n : Trimble!StartOf(k) \in Nat
    BY TrimbleDecoded
  <1>2. ASSUME NEW x \in Fixes, NEW k \in 1 .. n
        PROVE  /\ read(x, k) \in Fixes
               /\ stream[k] = "GPGGA" /\ end - Trimble!StartOf(k) >= Trimble!Longitude
                     => read(x, k) = Trimble!FixOf(k)
    <2>1. end - Trimble!StartOf(k) \in Int
      BY <1>1
    <2> QED
      BY <2>1, TrimbleParsed
  <1>3. s \in StepFunctions(0, n, Fixes)
    <2>1. 0 + 1 .. n = 1 .. n
      OBVIOUS
    <2>2. s \in [1 .. n -> [Fixes -> Fixes]]
      <3> HIDE DEF read, S
      <3> QED
        BY <1>2
    <2> HIDE DEF s, n
    <2> QED
      BY <2>1, <2>2 DEF StepFunctions
  <1>4. Trimble!NoFix \in Fixes
    <2>1. 0 \in 0 .. TrimbleLength /\ TRUE \in BOOLEAN
      BY <1>1
    <2>2. Trimble!Zero \in Trimble!Coordinate
      BY <2>1, TrimbleRead, Zenon DEF Trimble!Zero
    <2> QED
      BY <2>2 DEF Trimble!NoFix, Fixes
  <1>5. PICK f \in [0 .. n -> Fixes] : Iterates(f, 0, n, Trimble!NoFix, s)
    <2>1. 0 \in Nat /\ n \in Nat /\ 0 <= n
      BY <1>1
    <2> HIDE DEF s, n
    <2> QED
      BY <1>3, <1>4, <2>1, Iterated
  <1>6. ASSUME NEW k \in 0 .. n
        PROVE  f[k] = IF k = 0 THEN Trimble!NoFix
                      ELSE IF k \in S THEN read(f[k - 1], k) ELSE f[k - 1]
    <2>1. k = 0 => f[k] = Trimble!NoFix
      BY <1>5, Zenon DEF Iterates
    <2>2. ASSUME k # 0
          PROVE  f[k] = IF k \in S THEN read(f[k - 1], k) ELSE f[k - 1]
      <3>1. k \in 0 + 1 .. n /\ k \in 1 .. n /\ k - 1 \in 0 .. n
        <4> HIDE DEF n
        <4> QED
          BY <1>1, <2>2
      <3>2. f[k] = s[k][f[k - 1]]
        BY <1>5, <3>1, Zenon DEF Iterates
      <3>3. f[k - 1] \in Fixes
        BY <3>1
      <3> HIDE DEF read, S, n
      <3> QED
        BY <3>1, <3>2, <3>3
    <2> QED
      BY <2>1, <2>2
  <1>7. After(f)
    <2>1. f = [k \in 0 .. n |-> f[k]]
      OBVIOUS
    <2> HIDE DEF read, S, n, s
    <2> QED
      BY <1>1, <1>6, <2>1
  <1>8. PICK g : After(g) /\ Trimble!DecodedFix(first, end) = g[Len(stream)]
    <2>1. \E g : After(g)
      BY <1>7, Zenon
    <2> QED
      BY <2>1, Zenon DEF Trimble!DecodedFix
  <1>9. ASSUME NEW k \in 0 .. n
        PROVE  g[k] = IF k = 0 THEN Trimble!NoFix
                      ELSE IF k \in S THEN read(g[k - 1], k) ELSE g[k - 1]
    <2> HIDE DEF read, S
    <2> QED
      BY <1>1, <1>8, Zenon
  <1> DEFINE Bad == {k \in 0 .. n : g[k] \notin Fixes}
  <1>10. Bad = {}
    <2> SUFFICES ASSUME Bad # {} PROVE FALSE
      OBVIOUS
    <2>1. Bad \in SUBSET Nat
      OBVIOUS
    <2>2. PICK k \in Bad : \A m \in Bad : k <= m
      <3> HIDE DEF Bad
      <3> QED
        BY <2>1, LeastOf
    <2>3. k \in 0 .. n /\ g[k] \notin Fixes
      BY <2>2
    <2>4. k # 0
      BY <1>4, <1>9, <2>3
    <2>5. k - 1 \in 0 .. n /\ k \in 1 .. n /\ ~(k <= k - 1)
      <3> HIDE DEF n
      <3> QED
        BY <1>1, <2>3, <2>4
    <2>6. g[k - 1] \in Fixes
      BY <2>2, <2>5
    <2> HIDE DEF read, S, n, Bad
    <2> QED
      BY <1>2, <1>9, <2>3, <2>4, <2>5, <2>6
  <1>11. g[n] \in Fixes
    <2>1. n \in 0 .. n
      BY <1>1
    <2> QED
      BY <1>10, <2>1
  <1>12. ASSUME S # {}, stream[Trimble!Last(S)] = "GPGGA",
                end - Trimble!StartOf(Trimble!Last(S)) >= Trimble!Longitude
         PROVE  g[n] = Trimble!FixOf(Trimble!Last(S))
    <2> DEFINE l == Trimble!Last(S)
               Later == {k \in l .. n : g[k] # g[l]}
    <2>1. l \in S /\ l \in 1 .. n /\ \A k \in S : k <= l
      <3> HIDE DEF S
      <3> QED
        BY <1>1, <1>12, TrimbleLast
    <2>2. g[l] = Trimble!FixOf(l)
      <3>1. l - 1 \in 0 .. n /\ l \in 0 .. n /\ l # 0
        <4> HIDE DEF l, n
        <4> QED
          BY <1>1, <2>1
      <3>2. g[l - 1] \in Fixes
        BY <1>10, <3>1
      <3>3. g[l] = read(g[l - 1], l)
        <4> HIDE DEF read, S, l, n, Bad
        <4> QED
          BY <1>9, <2>1, <3>1
      <3>4. read(g[l - 1], l) = Trimble!FixOf(l)
        <4>1. stream[l] = "GPGGA" /\ end - Trimble!StartOf(l) >= Trimble!Longitude
          BY <1>12
        <4> HIDE DEF read, l, n
        <4> QED
          BY <1>2, <2>1, <3>2, <4>1
      <3> QED
        BY <3>3, <3>4
    <2>3. Later = {}
      <3> SUFFICES ASSUME Later # {} PROVE FALSE
        OBVIOUS
      <3>0. l \in Nat
        BY <2>1
      <3>1. Later \in SUBSET Nat
        <4> HIDE DEF l
        <4> QED
          BY <3>0
      <3>2. PICK k \in Later : \A m \in Later : k <= m
        <4> HIDE DEF Later
        <4> QED
          BY <3>1, LeastOf
      <3>3. k \in l .. n /\ g[k] # g[l]
        BY <3>2
      <3> HIDE DEF l, n
      <3>4. /\ k \in 0 .. n /\ k # 0 /\ k - 1 \in l .. n /\ ~(k <= k - 1)
            /\ ~(k <= l)
        BY <1>1, <3>0, <3>3
      <3>5. k \notin S
        BY <2>1, <3>4
      <3>6. g[k] = g[k - 1]
        <4> HIDE DEF read, S
        <4> QED
          BY <1>9, <3>4, <3>5
      <3>7. g[k - 1] = g[l]
        BY <3>2, <3>4
      <3> QED
        BY <3>3, <3>6, <3>7
    <2>4. n \in l .. n
      <3> HIDE DEF l, n
      <3> QED
        BY <1>1, <2>1
    <2>5. g[n] = g[l]
      BY <2>3, <2>4
    <2> QED
      BY <2>2, <2>5
  <1> QED
    BY <1>1, <1>8, <1>11, <1>12

(* A coordinate was sent of sentences whose type has been received only.   *)
TrimbleOrdered ==
    delivered # <<>> => Trimble!StartOf(LastOf(delivered)) + 3 <= received
TrimbleInv ==
    Trimble!TypeOK /\ TrimbleOrdered /\ Trimble!OnlyCutSentencesSpoil

LEMMA TrimbleFacts ==
    ASSUME TrimbleInv
    PROVE  /\ stream \in [1 .. TrimbleLength -> Trimble!Sentences] /\ TrimbleLength \in Nat
           /\ Trimble!StreamLength = 9 * TrimbleLength
           /\ received \in Nat /\ received <= 9 * TrimbleLength
           /\ chunk \in Nat /\ chunk <= received
           /\ fix \in Fixes /\ oldWGS84 \in Fixes /\ delivered \in Seq(1 .. TrimbleLength)
           /\ delivered # <<>> => LastOf(delivered) \in 1 .. TrimbleLength
  <1>1. stream \in [1 .. TrimbleLength -> Trimble!Sentences]
    BY DEF TrimbleInv, Trimble!TypeOK
  <1>2. TrimbleLength \in Nat /\ Len(stream) = TrimbleLength
    BY <1>1, TrimbleDecoded
  <1>3. Trimble!StreamLength = 9 * TrimbleLength /\ 9 * TrimbleLength \in Nat
    BY <1>2 DEF Trimble!StreamLength, Trimble!Pieces
  <1>4. received \in 0 .. Trimble!StreamLength /\ chunk \in 0 .. received
    BY DEF TrimbleInv, Trimble!TypeOK
  <1>5. received \in Nat /\ received <= 9 * TrimbleLength
    BY <1>3, <1>4
  <1>6. chunk \in Nat /\ chunk <= received
    BY <1>4, <1>5
  <1>7. fix \in Fixes /\ oldWGS84 \in Fixes /\ delivered \in Seq(1 .. TrimbleLength)
    BY Zenon DEF TrimbleInv, Trimble!TypeOK, Fixes
  <1>8. delivered # <<>> => LastOf(delivered) \in 1 .. TrimbleLength
    BY <1>7, LastIn, Zenon
  <1> QED
    BY <1>1, <1>2, <1>3, <1>5, <1>6, <1>7, <1>8

LEMMA TrimbleInitially ==
    ASSUME Trimble!Init
    PROVE  TrimbleInv
  <1>1. /\ stream \in [1 .. TrimbleLength -> Trimble!Sentences] /\ received = 0
        /\ chunk = 0 /\ fix = Trimble!NoFix /\ oldWGS84 = Trimble!NoFix /\ delivered = <<>>
    BY DEF Trimble!Init
  <1>2. TrimbleLength \in Nat /\ Len(stream) = TrimbleLength /\ 0 \in Nat
    BY <1>1, TrimbleDecoded
  <1>3. Trimble!NoFix \in [latitude : Trimble!Coordinate, longitude : Trimble!Coordinate]
    <2>1. 0 \in 0 .. TrimbleLength /\ TRUE \in BOOLEAN
      BY <1>2
    <2>2. Trimble!Zero \in Trimble!Coordinate
      BY <2>1, TrimbleRead, Zenon DEF Trimble!Zero
    <2> QED
      BY <2>2 DEF Trimble!NoFix
  <1>4. Trimble!TypeOK
    <2>1. received \in 0 .. Trimble!StreamLength /\ chunk \in 0 .. received
      BY <1>1, <1>2 DEF Trimble!StreamLength, Trimble!Pieces
    <2>2. hasOldWGS84 \in BOOLEAN
      BY Zenon DEF Trimble!Init
    <2>3. delivered \in Seq(1 .. TrimbleLength)
      BY <1>1
    <2> QED
      BY <1>1, <1>3, <2>1, <2>2, <2>3, Zenon DEF Trimble!TypeOK
  <1>5. TrimbleOrdered
    BY <1>1 DEF TrimbleOrdered
  <1>6. Trimble!DecodedIn(chunk, received) = {}
    BY <1>1, <1>2, TrimbleDecoded
  <1> QED
    BY <1>4, <1>5, <1>6, Zenon DEF TrimbleInv, Trimble!OnlyCutSentencesSpoil

(* A chunk: what it changes.                                               *)
LEMMA TrimbleReceives ==
    ASSUME TrimbleInv, Trimble!NextString
    PROVE  /\ stream' = stream /\ chunk' = received
           /\ received' \in Nat /\ received' > received
           /\ received' <= 9 * TrimbleLength
           /\ fix' = Trimble!DecodedFix(received, received')
           /\ \/ /\ Trimble!DecodedIn(received, received') = {}
                 /\ UNCHANGED <<hasOldWGS84, oldWGS84, delivered>>
              \/ /\ Trimble!DecodedIn(received, received') # {}
                 /\ oldWGS84' = (IF hasOldWGS84 THEN fix' ELSE oldWGS84)
                 /\ hasOldWGS84' = TRUE
                 /\ delivered' = Append(delivered,
                                        Trimble!Last(Trimble!DecodedIn(received, received')))
  <1>1. PICK n \in TrimbleChunks :
           /\ received + n <= Trimble!StreamLength /\ received' = received + n
           /\ chunk' = received /\ fix' = Trimble!DecodedFix(received, received + n)
           /\ IF Trimble!DecodedIn(received, received + n) = {}
              THEN UNCHANGED <<hasOldWGS84, oldWGS84, delivered>>
              ELSE /\ oldWGS84' = IF hasOldWGS84 THEN fix' ELSE oldWGS84
                   /\ hasOldWGS84' = TRUE
                   /\ delivered' = Append(delivered,
                        Trimble!Last(Trimble!DecodedIn(received, received + n)))
           /\ UNCHANGED stream
    BY Zenon DEF Trimble!NextString
  <1>2. n \in Nat /\ n > 0
    BY StreamAssumption DEF Trimble!TrimbleAssumption
  <1>3. received' \in Nat /\ received' > received /\ received' <= 9 * TrimbleLength
    BY <1>1, <1>2, TrimbleFacts
  <1> QED
    BY <1>1, <1>3, Zenon

LEMMA TrimbleStep ==
    ASSUME TrimbleInv, [Trimble!Next]_(Trimble!vars)
    PROVE  TrimbleInv' /\ stream' = stream /\ received' \in Nat /\ received' >= received
  <1>0. /\ stream \in [1 .. TrimbleLength -> Trimble!Sentences] /\ TrimbleLength \in Nat
        /\ Trimble!StreamLength = 9 * TrimbleLength
        /\ received \in Nat /\ oldWGS84 \in Fixes /\ delivered \in Seq(1 .. TrimbleLength)
    BY TrimbleFacts
  <1>1. CASE UNCHANGED Trimble!vars
    <2>1. /\ stream' = stream /\ received' = received /\ chunk' = chunk /\ fix' = fix
          /\ hasOldWGS84' = hasOldWGS84 /\ oldWGS84' = oldWGS84 /\ delivered' = delivered
      BY <1>1 DEF Trimble!vars
    <2>2. Trimble!TypeOK' /\ TrimbleOrdered' /\ Trimble!OnlyCutSentencesSpoil'
      <3>1. Trimble!StreamLength' = Trimble!StreamLength
        BY <2>1 DEF Trimble!StreamLength
      <3>2. Trimble!TypeOK'
        BY <2>1, <3>1 DEF TrimbleInv, Trimble!TypeOK
      <3>3. TrimbleOrdered'
        BY <2>1 DEF TrimbleInv, TrimbleOrdered
      <3>4. Trimble!DecodedIn(chunk, received)' = Trimble!DecodedIn(chunk, received)
        BY <2>1 DEF Trimble!DecodedIn
      <3>5. Trimble!OnlyCutSentencesSpoil'
        BY <2>1, <3>4, Zenon DEF TrimbleInv, Trimble!OnlyCutSentencesSpoil
      <3> QED
        BY <3>2, <3>3, <3>5
    <2> QED
      BY <1>0, <2>1, <2>2 DEF TrimbleInv
  <1>2. CASE Trimble!NextString
    <2> DEFINE S == Trimble!DecodedIn(received, received')
               l == Trimble!Last(S)
    <2>1. /\ stream' = stream /\ chunk' = received
          /\ received' \in Nat /\ received' > received /\ received' <= 9 * TrimbleLength
          /\ fix' = Trimble!DecodedFix(received, received')
      BY <1>2, TrimbleReceives
    <2>2. \/ S = {} /\ UNCHANGED <<hasOldWGS84, oldWGS84, delivered>>
          \/ /\ S # {} /\ oldWGS84' = (IF hasOldWGS84 THEN fix' ELSE oldWGS84)
             /\ hasOldWGS84' = TRUE /\ delivered' = Append(delivered, l)
      BY <1>2, TrimbleReceives
    <2>3. /\ fix' \in Fixes
          /\ S # {} => (stream[l] = "GPGGA"
                          /\ received' - Trimble!StartOf(l) >= Trimble!Longitude
                             => fix' = Trimble!FixOf(l))
      <3> HIDE DEF S
      <3> QED
        BY <1>0, <2>1, TrimbleFix DEF S
    <2>4. S # {} => /\ l \in S /\ l \in 1 .. TrimbleLength
                    /\ received <= Trimble!StartOf(l) + 1
                    /\ Trimble!StartOf(l) + 3 <= received'
                    /\ Trimble!StartOf(l) \in Nat
      <3>1. S \in SUBSET (1 .. TrimbleLength)
        BY <1>0, <2>1, TrimbleDecoded
      <3>2. S # {} => l \in S
        <4> HIDE DEF S
        <4> QED
          BY <1>0, <3>1, TrimbleLast
      <3> QED
        BY <1>0, <2>1, <3>1, <3>2, TrimbleDecoded
    <2>5. S # {} => /\ Append(delivered, l) \in Seq(1 .. TrimbleLength)
                    /\ Append(delivered, l) # <<>>
                    /\ LastOf(Append(delivered, l)) = l
      <3> HIDE DEF S, l
      <3> SUFFICES ASSUME S # {}
                   PROVE  /\ Append(delivered, l) \in Seq(1 .. TrimbleLength)
                          /\ Append(delivered, l) # <<>>
                          /\ LastOf(Append(delivered, l)) = l
        OBVIOUS
      <3>1. l \in 1 .. TrimbleLength
        BY <2>4, Zenon
      <3>2. delivered \in Seq(1 .. TrimbleLength)
        BY <1>0, Zenon
      <3> QED
        BY ONLY <3>1, <3>2, AppendedLast, Zenon
    <2> HIDE DEF S, l
    <2>6. Trimble!TypeOK'
      <3>1. Trimble!StreamLength' = Trimble!StreamLength
        BY <2>1 DEF Trimble!StreamLength
      <3>2. received' \in 0 .. Trimble!StreamLength' /\ chunk' \in 0 .. received'
        BY <1>0, <2>1, <3>1
      <3>3. hasOldWGS84' \in BOOLEAN
        <4>1. CASE S = {}
          BY <2>2, <4>1, Zenon DEF TrimbleInv, Trimble!TypeOK
        <4>2. CASE S # {}
          BY <2>2, <4>2, Zenon
        <4> QED
          BY <4>1, <4>2
      <3>4. oldWGS84' \in Fixes
        <4>1. CASE S = {}
          BY <1>0, <2>2, <4>1
        <4>2. CASE S # {}
          BY <1>0, <2>2, <2>3, <4>2
        <4> QED
          BY <4>1, <4>2
      <3>5. delivered' \in Seq(1 .. TrimbleLength)
        <4>1. CASE S = {}
          BY <1>0, <2>2, <4>1
        <4>2. CASE S # {}
          BY <2>2, <2>5, <4>2
        <4> QED
          BY <4>1, <4>2
      <3>6. stream' \in [1 .. TrimbleLength -> Trimble!Sentences]
        BY <1>0, <2>1
      <3> QED
        BY <2>3, <3>2, <3>3, <3>4, <3>5, <3>6, Zenon DEF Fixes, Trimble!TypeOK
    <2>7. TrimbleOrdered'
      <3>1. CASE S = {}
        <4>1. delivered # <<>> => /\ Trimble!StartOf(LastOf(delivered)) + 3 <= received
                                  /\ Trimble!StartOf(LastOf(delivered)) \in Nat
          BY <1>0, TrimbleFacts, TrimbleDecoded DEF TrimbleInv, TrimbleOrdered
        <4>2. delivered' = delivered
          BY <2>2, <3>1
        <4>3. delivered # <<>> => Trimble!StartOf(LastOf(delivered)) + 3 <= received'
          BY <1>0, <2>1, <4>1
        <4>4. \A q : Trimble!StartOf(q)' = Trimble!StartOf(q)
          BY DEF Trimble!StartOf
        <4> QED
          BY <4>2, <4>3, <4>4 DEF TrimbleOrdered
      <3>2. CASE S # {}
        <4>1. delivered' # <<>> /\ LastOf(delivered') = l
          BY <2>2, <2>5, <3>2
        <4>2. Trimble!StartOf(l) + 3 <= received'
          BY <2>4, <3>2
        <4> QED
          BY <4>1, <4>2 DEF TrimbleOrdered, Trimble!StartOf
      <3> QED
        BY <3>1, <3>2
    <2>8. Trimble!OnlyCutSentencesSpoil'
      <3>1. Trimble!DecodedIn(chunk, received)' = S
        BY <2>1 DEF S, Trimble!DecodedIn, Trimble!TypeSeen, Trimble!StartOf
      <3>2. CASE S = {}
        BY <3>1, <3>2, Zenon DEF Trimble!OnlyCutSentencesSpoil
      <3>3. CASE S # {}
        <4>1. \/ fix' = Trimble!FixOf(l) \/ stream[l] # "GPGGA"
              \/ received' < Trimble!StartOf(l) + Trimble!Longitude
          <5>1. \/ received' - Trimble!StartOf(l) >= Trimble!Longitude
                \/ received' < Trimble!StartOf(l) + Trimble!Longitude
            BY <2>1, <2>4, <3>3 DEF Trimble!Longitude
          <5> QED
            BY <2>3, <3>3, <5>1
        <4>2. Trimble!Last(S) = l
          BY DEF l
        <4> QED
          BY <2>1, <3>1, <4>1, <4>2
             DEF Trimble!OnlyCutSentencesSpoil, Trimble!StartOf, Trimble!FixOf
      <3> QED
        BY <3>2, <3>3
    <2> QED
      BY <1>0, <2>1, <2>6, <2>7, <2>8 DEF TrimbleInv
  <1> QED
    BY <1>1, <1>2 DEF Trimble!Next

LEMMA TrimbleCounts ==
    ASSUME stream \in [1 .. TrimbleLength -> Trimble!Sentences]
    PROVE  Trimble!Arrived
              = Cardinality({k \in 1 .. TrimbleLength : Trimble!StartOf(k) + 3 <= received})
  <1>1. DOMAIN stream = 1 .. TrimbleLength
    OBVIOUS
  <1> QED
    BY <1>1, Zenon DEF Trimble!Arrived, Trimble!Cardinality, Cardinality, Trimble!Type

LEMMA TrimblePassesOn ==
    ASSUME TrimbleInv, [Trimble!Next]_(Trimble!vars)
    PROVE  /\ Trimble!Arrived' >= Trimble!Arrived
           /\ \/ delivered' = delivered
              \/ \E k \in (IF delivered = <<>> THEN 0 ELSE LastOf(delivered)) + 1
                             .. Trimble!Arrived' :
                    delivered' = Append(delivered, k)
  <1>1. /\ stream' = stream /\ received' \in Nat /\ received' >= received
        /\ received \in Nat /\ stream \in [1 .. TrimbleLength -> Trimble!Sentences]
        /\ TrimbleLength \in Nat
    BY TrimbleStep, TrimbleFacts
  <1>2. \A k \in 1 .. TrimbleLength :
           Trimble!StartOf(k) = 9 * (k - 1) /\ Trimble!StartOf(k) \in Nat
    BY <1>1, TrimbleDecoded
  <1> DEFINE A == {k \in 1 .. TrimbleLength : Trimble!StartOf(k) + 3 <= received}
             B == {k \in 1 .. TrimbleLength : Trimble!StartOf(k) + 3 <= received'}
  <1>3. Trimble!Arrived = Cardinality(A)
    BY <1>1, TrimbleCounts
  <1>4. Trimble!Arrived' = Cardinality(B)
    <2>1. DOMAIN stream' = 1 .. TrimbleLength
      BY <1>1
    <2>2. {k \in 1 .. TrimbleLength : Trimble!StartOf(k)' + 3 <= received'} = B
      BY DEF Trimble!StartOf
    <2>3. Trimble!Arrived' =
             Cardinality({k \in 1 .. TrimbleLength : Trimble!StartOf(k)' + 3 <= received'})
      BY <2>1, Zenon DEF Trimble!Arrived, Trimble!Cardinality, Cardinality, Trimble!Type
    <2> QED
      BY <2>2, <2>3
  <1>5. A \subseteq B
    BY <1>1, <1>2
  <1>6. /\ Cardinality(A) \in Nat /\ Cardinality(B) \in Nat
        /\ Cardinality(A) <= Cardinality(B)
        /\ \A m \in Nat : 1 .. m \subseteq B => m <= Cardinality(B)
    <2>1. A \in SUBSET (1 .. TrimbleLength) /\ B \in SUBSET (1 .. TrimbleLength)
      OBVIOUS
    <2> HIDE DEF A, B
    <2> QED
      BY <1>1, <1>5, <2>1, CountUpTo
  <1>7. Trimble!Arrived' >= Trimble!Arrived
    BY <1>3, <1>4, <1>6
  <1>8. CASE Trimble!NextString /\ Trimble!DecodedIn(received, received') # {}
    <2> DEFINE S == Trimble!DecodedIn(received, received')
               k == Trimble!Last(S)
    <2>1. delivered' = Append(delivered, k)
      BY <1>8, TrimbleReceives, Zenon
    <2>2. /\ k \in 1 .. TrimbleLength /\ received <= Trimble!StartOf(k) + 1
          /\ Trimble!StartOf(k) + 3 <= received'
      <3>1. S \in SUBSET (1 .. TrimbleLength) /\ S # {}
        BY <1>1, <1>8, TrimbleDecoded
      <3>2. k \in S
        <4> HIDE DEF S
        <4> QED
          BY <1>1, <3>1, TrimbleLast
      <3> QED
        BY <1>1, <3>1, <3>2, TrimbleDecoded
    <2> HIDE DEF S, k
    <2>3. ASSUME NEW j \in 1 .. k PROVE j \in B
      <3>1. j \in 1 .. TrimbleLength /\ j <= k /\ j \in Nat /\ k \in Nat
        BY <1>1, <2>2
      <3>2. /\ Trimble!StartOf(j) = 9 * (j - 1) /\ Trimble!StartOf(k) = 9 * (k - 1)
        BY <1>2, <2>2, <3>1
      <3>3. Trimble!StartOf(j) + 3 <= received'
        BY <1>1, <2>2, <3>1, <3>2
      <3> QED
        BY <3>1, <3>3
    <2>4. k <= Trimble!Arrived'
      <3>1. k \in Nat /\ 1 .. k \subseteq B
        BY <1>1, <2>2, <2>3
      <3> QED
        BY <1>4, <1>6, <3>1
    <2>5. delivered # <<>> => LastOf(delivered) \in Nat /\ LastOf(delivered) < k
      <3> SUFFICES ASSUME delivered # <<>>
                   PROVE  LastOf(delivered) \in Nat /\ LastOf(delivered) < k
        OBVIOUS
      <3> DEFINE l == LastOf(delivered)
      <3>1. l \in 1 .. TrimbleLength /\ Trimble!StartOf(l) + 3 <= received
        BY TrimbleFacts DEF TrimbleInv, TrimbleOrdered
      <3> HIDE DEF l
      <3>2. Trimble!StartOf(l) = 9 * (l - 1) /\ Trimble!StartOf(k) = 9 * (k - 1)
        BY <1>2, <2>2, <3>1
      <3>3. l \in Nat /\ l < k
        BY <1>1, <2>2, <3>1, <3>2
      <3> QED
        BY <3>3 DEF l
    <2>6. k \in (IF delivered = <<>> THEN 0 ELSE LastOf(delivered)) + 1 .. Trimble!Arrived'
      <3>1. Trimble!Arrived' \in Nat
        BY <1>4, <1>6
      <3>2. CASE delivered = <<>>
        BY <1>1, <2>2, <2>4, <3>1, <3>2
      <3>3. CASE delivered # <<>>
        BY <1>1, <2>2, <2>4, <2>5, <3>1, <3>3
      <3> QED
        BY <3>2, <3>3
    <2> QED
      BY <1>7, <2>1, <2>6
  <1>9. CASE ~(Trimble!NextString /\ Trimble!DecodedIn(received, received') # {})
    <2>1. delivered' = delivered
      BY <1>9, TrimbleReceives DEF Trimble!Next, Trimble!vars
    <2> QED
      BY <1>7, <2>1
  <1> QED
    BY <1>8, <1>9

LEMMA TrimbleNothingAtFirst ==
    ASSUME Trimble!Init
    PROVE  Trimble!Arrived = 0 /\ delivered = <<>>
  <1>1. /\ stream \in [1 .. TrimbleLength -> Trimble!Sentences] /\ received = 0
        /\ delivered = <<>>
    BY DEF Trimble!Init
  <1>2. {k \in 1 .. TrimbleLength : Trimble!StartOf(k) + 3 <= received} = {}
    <2>1. ASSUME NEW k \in 1 .. TrimbleLength PROVE ~(Trimble!StartOf(k) + 3 <= received)
      <3>1. Trimble!StartOf(k) \in Nat
        BY <1>1, TrimbleDecoded
      <3> QED
        BY <1>1, <3>1
    <2> QED
      BY <2>1
  <1> QED
    BY <1>1, <1>2, TrimbleCounts, FS_EmptySet

-----------------------------------------------------------------------------
(* The four together: whichever was chosen keeps its own invariant.        *)

StreamsInv ==
    /\ decoder \in {"Applanix", "SICK", "Trimble", "none"}
    /\ decoder = "Applanix" => ApplanixInv
    /\ decoder = "SICK" => SickInv
    /\ decoder = "Trimble" => TrimbleInv
    /\ decoder = "none" => ProxyInv

AnyNext == ApplanixNext \/ SickNext \/ TrimbleNext \/ ProxyNext

LEMMA StreamsInitially ==
    ASSUME StreamsInit
    PROVE  StreamsInv
  <1>1. CASE decoder = "Applanix"
    BY <1>1, ApplanixInitially DEF StreamsInit, StreamsInv
  <1>2. CASE decoder = "SICK"
    BY <1>2, SickInitially DEF StreamsInit, StreamsInv
  <1>3. CASE decoder = "Trimble"
    BY <1>3, TrimbleInitially DEF StreamsInit, StreamsInv
  <1>4. CASE decoder = "none"
    BY <1>4, ProxyInitially DEF StreamsInit, StreamsInv
  <1> QED
    BY <1>1, <1>2, <1>3, <1>4 DEF StreamsInit

(* A step is one of the decoder chosen, which stays chosen.                *)
LEMMA StepOfChosen ==
    ASSUME [AnyNext]_streamVars
    PROVE  /\ decoder' = decoder
           /\ decoder = "Applanix" => [Next]_vars
           /\ decoder = "SICK" => [Sick!Next]_(Sick!vars)
           /\ decoder = "Trimble" => [Trimble!Next]_(Trimble!vars)
           /\ decoder = "none" =>
                 [Receiving!Next]_(Receiving!vars) /\ delivered' = delivered
  <1>1. CASE UNCHANGED streamVars
    <2>1. UNCHANGED <<vars, decoder, sickVars, trimbleVars, proxyVars>>
      BY <1>1 DEF streamVars
    <2>2. /\ UNCHANGED <<stream, received, base, good, size, tellg, foundHeader, buffering>>
          /\ UNCHANGED <<payloadSize, nextMessage, toRemove, pc, delivered>>
      BY <2>1 DEF vars, network, buffer, header
    <2>3. UNCHANGED Sick!vars
      BY <2>1, <2>2 DEF sickVars, Sick!vars, Sick!state
    <2>4. UNCHANGED Trimble!vars
      BY <2>1, <2>2 DEF trimbleVars, Trimble!vars
    <2>5. UNCHANGED Receiving!vars
      BY <2>1 DEF proxyVars, Receiving!vars
    <2> QED
      BY <2>1, <2>2, <2>3, <2>4, <2>5
  <1>2. CASE ApplanixNext
    BY <1>2 DEF ApplanixNext
  <1>3. CASE SickNext
    BY <1>3 DEF SickNext
  <1>4. CASE TrimbleNext
    BY <1>4 DEF TrimbleNext
  <1>5. CASE ProxyNext
    <2>1. decoder = "none" /\ Receiving!Next /\ UNCHANGED <<decoder, vars>>
      BY <1>5 DEF ProxyNext
    <2> QED
      BY <2>1 DEF vars
  <1> QED
    BY <1>1, <1>2, <1>3, <1>4, <1>5 DEF AnyNext

LEMMA StreamsStep ==
    ASSUME StreamsInv, [AnyNext]_streamVars
    PROVE  StreamsInv'
  BY StepOfChosen, ApplanixStep, SickStep, TrimbleStep, ProxyStep DEF StreamsInv

LEMMA StreamsInvariance == StreamsSpec => []StreamsInv
  <1>1. StreamsInit => StreamsInv
    BY StreamsInitially
  <1>2. StreamsInv /\ [AnyNext]_streamVars => StreamsInv'
    BY StreamsStep
  <1> QED
    BY <1>1, <1>2, PTL DEF StreamsSpec, AnyNext

-----------------------------------------------------------------------------
(* Whichever decoder runs keeps its types: the positions of a stringstream *)
(* stay inside it, a header found is one that was sent.                    *)
THEOREM StreamsTyped == StreamsSpec => []StreamsTypeOK
  <1>1. StreamsInv => StreamsTypeOK
    <2>1. ApplanixInv => TypeOK
      BY DEF ApplanixInv
    <2>2. SickInv => Sick!TypeOK
      BY DEF SickInv
    <2>3. TrimbleInv => Trimble!TypeOK
      BY DEF TrimbleInv
    <2>4. ProxyInv => Receiving!TypeOK
      BY DEF ProxyInv
    <2> QED
      BY <2>1, <2>2, <2>3, <2>4 DEF StreamsInv, StreamsTypeOK
  <1> QED
    BY <1>1, StreamsInvariance, PTL

(* The Applanix decoder never seeks in front of its stringstream, and      *)
(* holds at most two thresholds, a header and a message of data between    *)
(* two calls, for every list of payload sizes and of chunks.               *)
THEOREM ApplanixBounded == StreamsSpec => []ApplanixBufferInBounds
  <1>1. StreamsInv => ApplanixBufferInBounds
    BY ApplanixInBounds DEF StreamsInv, ApplanixBufferInBounds
  <1> QED
    BY <1>1, StreamsInvariance, PTL

(* Between two calls the SICK decoder holds the last bytes of the line and *)
(* writes behind them, although str() puts its write position to the front.*)
THEOREM SickKeepsBytes == StreamsSpec => []SickBufferKeepsBytes
  <1>1. StreamsInv => SickBufferKeepsBytes
    BY SickKeeps DEF StreamsInv, SickBufferKeepsBytes
  <1> QED
    BY <1>1, StreamsInvariance, PTL

(* The Trimble decoder sends the position of the last sentence of a chunk, *)
(* unless the chunk ends inside its coordinates or it had none: what the   *)
(* sentences before left in latitude and longitude never shows.            *)
THEOREM LastSentenceCounts == StreamsSpec => []TrimbleOnlyCutSentencesSpoil
  <1>1. StreamsInv => TrimbleOnlyCutSentencesSpoil
    BY DEF StreamsInv, TrimbleInv, TrimbleOnlyCutSentencesSpoil
  <1> QED
    BY <1>1, StreamsInvariance, PTL

(* A proxy with a receiver uses no part before it is created or after it   *)
(* is destroyed, whatever arrives meanwhile; only V2V, which goes on when  *)
(* a part could not be created, crashes.                                   *)
THEOREM PartsExist == StreamsSpec => []ProxyPartsAreThere
  <1>1. StreamsInv => ProxyPartsAreThere
    BY DEF StreamsInv, ProxyInv, ProxyPartsAreThere
  <1> QED
    BY <1>1, StreamsInvariance, PTL

(* The three decoders implement MessageStream: what they pass on has       *)
(* arrived, and comes in the order it was sent and at most once, wherever  *)
(* TCP or the serial line cut the stream.                                  *)
THEOREM MessagesPassedOn == StreamsSpec => AllPassOnMessages
  <1>1. StreamsInit => AnyMessages!StreamInit
    <2> SUFFICES ASSUME StreamsInit PROVE ArrivedOfAny = 0 /\ delivered = <<>>
      BY DEF AnyMessages!StreamInit
    <2>1. CASE decoder = "Applanix"
      BY <2>1, ApplanixNothingAtFirst DEF StreamsInit, ArrivedOfAny
    <2>2. CASE decoder = "SICK"
      BY <2>2, SickNothingAtFirst DEF StreamsInit, ArrivedOfAny
    <2>3. CASE decoder = "Trimble"
      BY <2>3, TrimbleNothingAtFirst DEF StreamsInit, ArrivedOfAny
    <2>4. CASE decoder = "none"
      BY <2>4 DEF StreamsInit, ArrivedOfAny
    <2> QED
      BY <2>1, <2>2, <2>3, <2>4 DEF StreamsInit
  <1>2. ASSUME StreamsInv, [AnyNext]_streamVars
        PROVE  [AnyMessages!Arrive /\ AnyMessages!Deliver]_(AnyMessages!messageVars)
    <2>1. decoder' = decoder /\ decoder \in {"Applanix", "SICK", "Trimble", "none"}
      BY <1>2, StepOfChosen DEF StreamsInv
    <2>2. /\ ArrivedOfAny' >= ArrivedOfAny
          /\ \/ delivered' = delivered
             \/ \E k \in (IF delivered = <<>> THEN 0 ELSE LastOf(delivered)) + 1
                            .. ArrivedOfAny' :
                   delivered' = Append(delivered, k)
      <3>1. CASE decoder = "Applanix"
        <4>1. ArrivedOfAny = Arrived /\ ArrivedOfAny' = Arrived'
          BY <2>1, <3>1 DEF ArrivedOfAny
        <4> QED
          BY <1>2, <3>1, <4>1, StepOfChosen, ApplanixPassesOn DEF StreamsInv
      <3>2. CASE decoder = "SICK"
        <4>1. ArrivedOfAny = Sick!Arrived /\ ArrivedOfAny' = Sick!Arrived'
          BY <2>1, <3>2 DEF ArrivedOfAny
        <4> QED
          BY <1>2, <3>2, <4>1, StepOfChosen, SickPassesOn DEF StreamsInv
      <3>3. CASE decoder = "Trimble"
        <4>1. ArrivedOfAny = Trimble!Arrived /\ ArrivedOfAny' = Trimble!Arrived'
          BY <2>1, <3>3 DEF ArrivedOfAny
        <4> QED
          BY <1>2, <3>3, <4>1, StepOfChosen, TrimblePassesOn DEF StreamsInv
      <3>4. CASE decoder = "none"
        <4>1. ArrivedOfAny = 0 /\ ArrivedOfAny' = 0
          BY <2>1, <3>4 DEF ArrivedOfAny
        <4> QED
          BY <1>2, <2>1, <3>4, <4>1, StepOfChosen
      <3> QED
        BY <2>1, <3>1, <3>2, <3>3, <3>4
    <2> QED
      BY <2>2 DEF AnyMessages!Arrive, AnyMessages!Deliver, AnyMessages!LastDelivered, LastOf
  <1> QED
    BY <1>1, <1>2, StreamsInvariance, PTL
       DEF StreamsSpec, AnyNext, AllPassOnMessages, AnyMessages!StreamSpec

(* While it searches, the Applanix decoder passes over no header but for   *)
(* the two reasons FindsOrExcuses names; the SICK decoder passes over a    *)
(* header only when the rest of it had not arrived.                        *)
THEOREM HeadersFound == StreamsSpec => HeadersMissed
  <1>1. ASSUME StreamsInv, [AnyNext]_streamVars
        PROVE  [/\ decoder = "Applanix" => FindsOrExcuses
                /\ decoder = "SICK" => Sick!FindsOrSplit]_streamVars
    <2>1. decoder = "Applanix" => FindsOrExcuses
      BY <1>1, StepOfChosen, ApplanixFinds DEF StreamsInv
    <2>2. decoder = "SICK" => Sick!FindsOrSplit
      BY <1>1, StepOfChosen, SickFinds DEF StreamsInv
    <2> QED
      BY <2>1, <2>2
  <1> QED
    BY <1>1, StreamsInvariance, PTL DEF StreamsSpec, AnyNext, HeadersMissed
=============================================================================
