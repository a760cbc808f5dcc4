---------------------- MODULE MCTimeTriggered_proofs -----------------------
(***************************************************************************)
(* Every invariant that the run of MCTimeTriggered checks, for all angles, *)
(* ranges and queues, and any number of inputs, troubles and frames.       *)
(*                                                                         *)
(* The LED strip, the PS3 controller, the schedule of the SICK proxy and   *)
(* the camera with its reader have an inductive invariant each; ModuleInv  *)
(* at the end puts them together.  Each adds to the types what its steps   *)
(* rely on:                                                                *)
(*   LedInv    a pass that reached its end has an angle below the cap, or  *)
(*             was disturbed;                                              *)
(*   PS3Inv    as long as a stick was not moved, its command is zero, but  *)
(*             between its synthetic event and the one that kills it;      *)
(*   SickInv   which commands a scanner at the new baud rate has heard, by *)
(*             the slice body is in;                                       *)
(*   ImageInv  who holds the lock when, and the order of the frames in the *)
(*             camera, the memory, the announcements and the reader.       *)
(***************************************************************************)
EXTENDS MCTimeTriggered, TLAPS, FiniteSetTheorems

-----------------------------------------------------------------------------
(* The LED strip.                                                          *)

(* What a pass has read is what it sends, unless it was disturbed.         *)
PassCaps == pc = "send" /\ ~disturbed => angle \in -Cap .. Cap

LedInv == TypeOK /\ PassCaps /\ UndisturbedPercentage /\ ChecksumOfFrame

(* The bits of the orange color are spread over its three bytes, each in   *)
(* one of them only; the module's own color has all its bits in the second.*)
LEMMA OrangeBits ==
    ASSUME NEW w \in Weights
    PROVE  \/ /\ (200 \div w) % 2 = 1 /\ (50 \div w) % 2 # 1 /\ (5 \div w) % 2 # 1
           \/ /\ (200 \div w) % 2 # 1 /\ (50 \div w) % 2 = 1 /\ (5 \div w) % 2 # 1
           \/ /\ (200 \div w) % 2 # 1 /\ (50 \div w) % 2 # 1 /\ (5 \div w) % 2 = 1
  <1>1. \/ w = 1 \/ w = 2 \/ w = 4 \/ w = 8 \/ w = 16 \/ w = 32 \/ w = 64 \/ w = 128
    BY DEF Weights
  <1> QED
    BY <1>1

LEMMA OwnBits ==
    ASSUME NEW w \in Weights
    PROVE  (255 \div w) % 2 = 1 /\ (0 \div w) % 2 # 1
  <1>1. \/ w = 1 \/ w = 2 \/ w = 4 \/ w = 8 \/ w = 16 \/ w = 32 \/ w = 64 \/ w = 128
    BY DEF Weights
  <1> QED
    BY <1>1

LEMMA UpToIsFinite == ASSUME NEW n \in Nat PROVE IsFiniteSet(1 .. n)
  BY FS_Interval

(* The bits of focus, size and fade that have this weight.                 *)
LEMMA OneMoreBit ==
    ASSUME NEW S, NEW T \in SUBSET {1, 2, 3}, NEW j \in {4, 5, 6}, S = T \cup {j}
    PROVE  Cardinality(S) = Cardinality(T) + 1 /\ Cardinality(S) \in Nat
  <1>1. IsFiniteSet({1, 2, 3})
    <2>1. IsFiniteSet(1 .. 3)
      BY UpToIsFinite
    <2>2. 1 .. 3 = {1, 2, 3}
      OBVIOUS
    <2> QED
      BY <2>1, <2>2
  <1>2. IsFiniteSet(T) /\ Cardinality(T) \in Nat
    BY <1>1, FS_Subset, FS_CardinalityType
  <1>3. j \notin T
    OBVIOUS
  <1>4. Cardinality(T \cup {j}) = Cardinality(T) + 1
    BY <1>2, <1>3, FS_AddElement
  <1> QED
    BY <1>2, <1>4

LEMMA SameXor ==
    ASSUME NEW focus
    PROVE  PayloadXor(focus, Orange) = PayloadXor(focus, OwnColor)
  <1> DEFINE Bytes(color) == <<focus, SectionSize, Fade, color.R, color.G, color.B>>
             Have(color, w) == {j \in DOMAIN Bytes(color) : (Bytes(color)[j] \div w) % 2 = 1}
             Common(w) == {j \in {1, 2, 3} : (Bytes(OwnColor)[j] \div w) % 2 = 1}
  <1>1. ASSUME NEW w \in Weights
        PROVE  Cardinality(Have(Orange, w)) = Cardinality(Have(OwnColor, w))
    <2>1. /\ DOMAIN Bytes(OwnColor) = {1, 2, 3} \cup {4, 5, 6}
          /\ DOMAIN Bytes(Orange) = {1, 2, 3} \cup {4, 5, 6}
      OBVIOUS
    <2>2. /\ Bytes(OwnColor)[4] = 0 /\ Bytes(OwnColor)[5] = 255 /\ Bytes(OwnColor)[6] = 0
          /\ Bytes(Orange)[4] = 200 /\ Bytes(Orange)[5] = 50 /\ Bytes(Orange)[6] = 5
      BY DEF OwnColor, Orange
    <2>3. \A j \in {1, 2, 3} : Bytes(Orange)[j] = Bytes(OwnColor)[j]
      OBVIOUS
    <2> HIDE DEF Bytes
    <2>4. Have(OwnColor, w) = Common(w) \cup {5}
      BY <2>1, <2>2, OwnBits
    <2>5. \E j \in {4, 5, 6} : Have(Orange, w) = Common(w) \cup {j}
      BY <2>1, <2>2, <2>3, OrangeBits
    <2>6. Common(w) \in SUBSET {1, 2, 3}
      OBVIOUS
    <2> HIDE DEF Have, Common
    <2> QED
      BY <2>4, <2>5, <2>6, OneMoreBit
  <1>2. /\ PayloadXor(focus, Orange) =
              [w \in Weights |-> Cardinality(Have(Orange, w)) % 2]
        /\ PayloadXor(focus, OwnColor) =
              [w \in Weights |-> Cardinality(Have(OwnColor, w)) % 2]
    BY Zenon DEF PayloadXor
  <1> HIDE DEF Have
  <1> QED
    BY <1>1, <1>2

LEMMA XorIsBits ==
    ASSUME NEW focus
    PROVE  PayloadXor(focus, OwnColor) \in Bits
  <1> DEFINE payload == <<focus, SectionSize, Fade, OwnColor.R, OwnColor.G, OwnColor.B>>
             Have(w) == {j \in DOMAIN payload : (payload[j] \div w) % 2 = 1}
  <1>1. ASSUME NEW w \in Weights
        PROVE  Cardinality(Have(w)) % 2 \in 0 .. 1
    <2>1. IsFiniteSet(1 .. 6)
      BY UpToIsFinite
    <2>2. Have(w) \in SUBSET (1 .. 6)
      OBVIOUS
    <2> HIDE DEF Have
    <2>3. Cardinality(Have(w)) \in Nat
      BY <2>1, <2>2, FS_Subset, FS_CardinalityType
    <2> QED
      BY <2>3
  <1>2. PayloadXor(focus, OwnColor) = [w \in Weights |-> Cardinality(Have(w)) % 2]
    BY Zenon DEF PayloadXor
  <1> HIDE DEF Have
  <1> QED
    BY <1>1, <1>2 DEF Bits

(* Whatever byte is sent, its check sum is right.                          *)
LEMMA FramesAreSound ==
    ASSUME NEW focus \in Byte
    PROVE  /\ FrameOf(focus) \in [focus : Byte, color : Color, checksum : Bits]
           /\ FrameOf(focus).focus = focus
           /\ FrameOf(focus).checksum = PayloadXor(focus, FrameOf(focus).color)
  <1>1. Green \in Color /\ Orange \in Color /\ Green = OwnColor
    BY DEF Green, Orange, OwnColor, Color, Byte
  <1>2. FrameOf(focus).color \in {Green, Orange}
    BY DEF FrameOf
  <1>3. PayloadXor(focus, FrameOf(focus).color) = PayloadXor(focus, OwnColor)
    BY <1>1, <1>2, SameXor
  <1> QED
    BY <1>1, <1>3, XorIsBits DEF FrameOf

LEMMA BytesSent ==
    ASSUME NEW n \in Int, NEW b \in AsByte(n)
    PROVE  b \in Byte /\ (n \in 0 .. 100 => b = n)
  BY DEF AsByte, Byte

-----------------------------------------------------------------------------
LEMMA LedInitially ==
    ASSUME Init
    PROVE  LedInv
  <1>1. 50 \in Byte
    BY DEF Byte
  <1>2. frame = FrameOf(50)
    BY DEF Init
  <1>3. TypeOK
    <2>1. angle \in Int /\ seen \in Int /\ pc \in {"wait", "cap", "send"}
      BY DEF Init
    <2>2. aimPoints \in 0 .. MaxAimPoints
      BY LEDStripAssumption DEF Init
    <2>3. disturbed \in BOOLEAN /\ overwritten \in BOOLEAN
      BY DEF Init
    <2>4. aimed \in Int
      BY DEF Init
    <2> QED
      BY <1>1, <1>2, <2>1, <2>2, <2>3, <2>4, FramesAreSound DEF TypeOK
  <1>4. PassCaps
    BY DEF Init, PassCaps
  <1>5. UndisturbedPercentage
    BY <1>1, <1>2, FramesAreSound DEF UndisturbedPercentage, Percentage
  <1>6. ChecksumOfFrame
    BY <1>1, <1>2, FramesAreSound DEF ChecksumOfFrame
  <1> QED
    BY <1>3, <1>4, <1>5, <1>6 DEF LedInv

LEMMA LedStep ==
    ASSUME LedInv, [Next]_vars
    PROVE  LedInv'
  <1> USE DEF LedInv
  <1>1. CASE NextContainer
    <2>1. /\ angle' \in Int /\ aimed' \in Int /\ overwritten' \in BOOLEAN
          /\ aimPoints' \in 0 .. MaxAimPoints
      BY <1>1, LEDStripAssumption DEF NextContainer, TypeOK
    <2>2. disturbed' = TRUE /\ UNCHANGED <<pc, seen, frame>>
      BY <1>1 DEF NextContainer
    <2>3. TypeOK'
      BY <2>1, <2>2 DEF TypeOK
    <2> QED
      BY <2>2, <2>3 DEF PassCaps, UndisturbedPercentage, ChecksumOfFrame
  <1>2. CASE StartPass
    <2>1. /\ seen' = angle /\ pc' \in {"cap", "send"} /\ disturbed' = FALSE
          /\ UNCHANGED <<angle, frame, aimPoints, aims>>
      BY <1>2 DEF StartPass
    <2>2. TypeOK'
      BY <2>1 DEF TypeOK, aims
    <2>3. PassCaps'
      <3>1. pc' = "send" => ~(Magnitude(angle) >= Cap)
        BY <1>2 DEF StartPass, TooLarge
      <3>2. angle \in Int
        BY DEF TypeOK
      <3> QED
        BY <2>1, <3>1, <3>2, LEDStripAssumption DEF PassCaps, Magnitude
    <2> QED
      BY <2>1, <2>2, <2>3 DEF UndisturbedPercentage, ChecksumOfFrame
  <1>3. CASE CapAngle
    <2>1. /\ angle' \in {Cap, -Cap} /\ pc' = "send"
          /\ UNCHANGED <<seen, frame, aimPoints, disturbed, aims>>
      BY <1>3 DEF CapAngle
    <2>2. TypeOK' /\ PassCaps'
      BY <2>1, LEDStripAssumption DEF TypeOK, PassCaps, aims
    <2> QED
      BY <2>1, <2>2 DEF UndisturbedPercentage, ChecksumOfFrame
  <1>4. CASE SendFrame
    <2>1. /\ pc = "send" /\ pc' = "wait"
          /\ UNCHANGED <<angle, seen, aimPoints, disturbed, aims>>
      BY <1>4 DEF SendFrame
    <2>2. PICK focus \in AsByte(50 - angle) : frame' = FrameOf(focus)
      BY <1>4 DEF SendFrame
    <2>3. 50 - angle \in Int
      BY DEF TypeOK
    <2>4. focus \in Byte /\ (50 - angle \in 0 .. 100 => focus = 50 - angle)
      BY <2>2, <2>3, BytesSent
    <2>5. TypeOK'
      BY <2>1, <2>2, <2>4, FramesAreSound DEF TypeOK, aims
    <2>6. PassCaps'
      BY <2>1 DEF PassCaps
    <2>7. UndisturbedPercentage'
      <3>1. ~disturbed => 50 - angle \in 0 .. 100
        BY <2>1, LEDStripAssumption DEF PassCaps, TypeOK
      <3> QED
        BY <2>1, <2>2, <2>4, <3>1, FramesAreSound DEF UndisturbedPercentage, Percentage
    <2>8. ChecksumOfFrame'
      BY <2>2, <2>4, FramesAreSound DEF ChecksumOfFrame
    <2> QED
      BY <2>5, <2>6, <2>7, <2>8
  <1>5. CASE UNCHANGED vars
    BY <1>5 DEF vars, aims, TypeOK, PassCaps, UndisturbedPercentage, Percentage, ChecksumOfFrame
  <1> QED
    BY <1>1, <1>2, <1>3, <1>4, <1>5 DEF Next

-----------------------------------------------------------------------------
(* The schedule of the SICK proxy.                                         *)

(* A port that still listens after the sixteenth slice has been opened at  *)
(* the new baud rate; there is none while the module is off.               *)
PortFollows ==
    /\ pc = "off" => port = Sick!NoPort
    /\ port.listening /\ counter >= Sick!ReopenAt => port.baud = Sick!BaudRate

(* A scanner that hears the commands after that has heard all of them: if  *)
(* it had lost its power meanwhile, it would be at the old baud rate.      *)
ScannerFollows ==
    port.listening /\ scanner.baud = Sick!BaudRate =>
        /\ counter \in 20 .. 23 => scanner.settings
        /\ counter >= 22 => scanner.unit = "cm"

ScansCentimeters ==
    /\ scanner.scanning /\ scanner.unit = "mm" => deafStart
    /\ Sick!OnlyCentimeters

SickInv == Sick!TypeOK /\ PortFollows /\ ScannerFollows /\ ScansCentimeters

-----------------------------------------------------------------------------
LEMMA SickInitially ==
    ASSUME Sick!ProxySickAssumption, Sick!Init
    PROVE  SickInv
  <1>1. Sick!TypeOK
    <2>1. scanner \in Sick!Scanners
      BY Zenon DEF Sick!Init, Sick!Scanners
    <2>2. /\ pc = "off" /\ counter = 0 /\ port = Sick!NoPort /\ decoded = "none"
          /\ troubles = 0 /\ troubled = FALSE /\ deafStart = FALSE
      BY DEF Sick!Init
    <2>3. counter \in 0 .. Sick!Last /\ troubles \in 0 .. MaxTroubles
      BY <2>2 DEF Sick!ProxySickAssumption, Sick!Last
    <2> QED
      BY <2>1, <2>2, <2>3 DEF Sick!TypeOK
  <1>2. PortFollows /\ ScannerFollows /\ ScansCentimeters
    BY DEF Sick!Init, PortFollows, ScannerFollows, ScansCentimeters, Sick!NoPort,
           Sick!OnlyCentimeters
  <1> QED
    BY <1>1, <1>2 DEF SickInv

LEMMA ScannerFields ==
    ASSUME NEW s \in Sick!Scanners
    PROVE  /\ s.baud \in {Sick!InitBaudRate, Sick!BaudRate} /\ s.unit \in {"cm", "mm"}
           /\ s.settings \in BOOLEAN /\ s.scanning \in BOOLEAN
  BY DEF Sick!Scanners

(* What a command changes in a scanner that hears it.                      *)
LEMMA CommandObeyed ==
    ASSUME scanner \in Sick!Scanners,
           NEW c \in {"stop", "status", "38400", "settings", "cm", "start"}
    PROVE  /\ Sick!Obeyed(c) \in Sick!Scanners
           /\ Sick!Obeyed(c).baud = IF c = "38400" THEN Sick!BaudRate ELSE scanner.baud
           /\ Sick!Obeyed(c).unit = IF c = "cm" /\ scanner.settings THEN "cm"
                                    ELSE scanner.unit
           /\ c # "start" => (Sick!Obeyed(c).settings <=> scanner.settings \/ c = "settings")
           /\ Sick!Obeyed(c).scanning => c = "start" \/ scanner.scanning
           /\ c = "start" => Sick!Obeyed(c).scanning
  <1>0. /\ TRUE \in BOOLEAN /\ FALSE \in BOOLEAN
        /\ Sick!BaudRate \in {Sick!InitBaudRate, Sick!BaudRate} /\ "cm" \in {"cm", "mm"}
    OBVIOUS
  <1>1. CASE c = "stop"
    <2>1. Sick!Obeyed(c) = [scanner EXCEPT !.scanning = FALSE]
      BY <1>1, Zenon DEF Sick!Obeyed
    <2>2. Sick!Obeyed(c) \in Sick!Scanners
      BY <1>0, <2>1, Zenon DEF Sick!Scanners
    <2>3. /\ Sick!Obeyed(c).baud = scanner.baud
          /\ Sick!Obeyed(c).unit = scanner.unit
          /\ Sick!Obeyed(c).settings = scanner.settings
          /\ Sick!Obeyed(c).scanning = FALSE
      BY <1>0, <2>1, Zenon DEF Sick!Scanners
    <2> QED
      BY <1>1, <2>2, <2>3, Zenon
  <1>2. CASE c = "status"
    BY <1>2 DEF Sick!Obeyed
  <1>3. CASE c = "38400"
    <2>1. Sick!Obeyed(c) = [scanner EXCEPT !.baud = Sick!BaudRate]
      BY <1>3, Zenon DEF Sick!Obeyed
    <2>2. Sick!Obeyed(c) \in Sick!Scanners
      BY <1>0, <2>1, Zenon DEF Sick!Scanners
    <2>3. /\ Sick!Obeyed(c).baud = Sick!BaudRate
          /\ Sick!Obeyed(c).unit = scanner.unit
          /\ Sick!Obeyed(c).settings = scanner.settings
          /\ Sick!Obeyed(c).scanning = scanner.scanning
      BY <1>0, <2>1, Zenon DEF Sick!Scanners
    <2> QED
      BY <1>3, <2>2, <2>3, Zenon
  <1>4. CASE c = "settings"
    <2>1. Sick!Obeyed(c) = [scanner EXCEPT !.settings = TRUE]
      BY <1>4, Zenon DEF Sick!Obeyed
    <2>2. Sick!Obeyed(c) \in Sick!Scanners
      BY <1>0, <2>1, Zenon DEF Sick!Scanners
    <2>3. /\ Sick!Obeyed(c).baud = scanner.baud
          /\ Sick!Obeyed(c).unit = scanner.unit
          /\ Sick!Obeyed(c).settings = TRUE
          /\ Sick!Obeyed(c).scanning = scanner.scanning
      BY <1>0, <2>1, Zenon DEF Sick!Scanners
    <2> QED
      BY <1>4, <2>2, <2>3, Zenon
  <1>5. CASE c = "cm" /\ scanner.settings
    <2>1. Sick!Obeyed(c) = [scanner EXCEPT !.unit = "cm"]
      BY <1>5, Zenon DEF Sick!Obeyed
    <2>2. Sick!Obeyed(c) \in Sick!Scanners
      BY <1>0, <2>1, Zenon DEF Sick!Scanners
    <2>3. /\ Sick!Obeyed(c).baud = scanner.baud
          /\ Sick!Obeyed(c).unit = "cm"
          /\ Sick!Obeyed(c).settings = scanner.settings
          /\ Sick!Obeyed(c).scanning = scanner.scanning
      BY <1>0, <2>1, Zenon DEF Sick!Scanners
    <2> QED
      BY <1>5, <2>2, <2>3, Zenon
  <1>6. CASE c = "cm" /\ ~scanner.settings
    <2>1. Sick!Obeyed(c) = scanner
      BY <1>6, Zenon DEF Sick!Obeyed
    <2> QED
      BY <1>6, <2>1, Zenon
  <1>7. CASE c = "start"
    <2>1. Sick!Obeyed(c) = [scanner EXCEPT !.scanning = TRUE, !.settings = FALSE]
      BY <1>7, Zenon DEF Sick!Obeyed
    <2>2. Sick!Obeyed(c) \in Sick!Scanners
      BY <1>0, <2>1, Zenon DEF Sick!Scanners
    <2>3. /\ Sick!Obeyed(c).baud = scanner.baud
          /\ Sick!Obeyed(c).unit = scanner.unit
          /\ Sick!Obeyed(c).scanning = TRUE
      BY <1>0, <2>1, Zenon DEF Sick!Scanners
    <2> QED
      BY <1>7, <2>2, <2>3, Zenon
  <1> QED
    BY <1>1, <1>2, <1>3, <1>4, <1>5, <1>6, <1>7

LEMMA Scheduled ==
    /\ DOMAIN Sick!Schedule = {10, 12, 14, 20, 22, 24}
    /\ Sick!Schedule[10] = "stop" /\ Sick!Schedule[12] = "status"
    /\ Sick!Schedule[14] = "38400" /\ Sick!Schedule[20] = "settings"
    /\ Sick!Schedule[22] = "cm" /\ Sick!Schedule[24] = "start"
  BY DEF Sick!Schedule

(* A command that is heard or not, in the slice it is sent in.             *)
LEMMA SendKeeps ==
    ASSUME SickInv, Sick!SendCommand
    PROVE  SickInv'
  <1> DEFINE c == Sick!Schedule[counter']
  <1>1. /\ pc = "running" /\ counter \in 0 .. 24 /\ counter < 24 /\ counter' = counter + 1
        /\ counter' \in {10, 12, 14, 20, 22, 24}
        /\ pc' = IF port = Sick!NoPort THEN "off" ELSE pc
        /\ scanner' = IF port.baud = scanner.baud THEN Sick!Obeyed(c) ELSE scanner
        /\ UNCHANGED <<port, decoded, troubles, troubled>>
    BY Scheduled DEF Sick!SendCommand, Sick!NextSlice, Sick!Heard, Sick!Last, SickInv,
       Sick!TypeOK
  <1>2. deafStart' =
           (deafStart \/ (~port.listening /\ ~scanner.scanning /\ scanner'.scanning))
    BY DEF Sick!SendCommand
  <1>3. /\ c \in {"stop", "status", "38400", "settings", "cm", "start"}
        /\ c = "start" <=> counter' = 24
        /\ c = "38400" <=> counter' = 14
        /\ c = "settings" <=> counter' = 20
        /\ c = "cm" <=> counter' = 22
    BY <1>1, Scheduled
  <1> HIDE DEF c
  <1>4. scanner \in Sick!Scanners /\ port \in Sick!Ports \cup {Sick!NoPort}
    BY DEF SickInv, Sick!TypeOK
  <1>a. /\ Sick!Obeyed(c) \in Sick!Scanners
        /\ Sick!Obeyed(c).baud = IF c = "38400" THEN Sick!BaudRate ELSE scanner.baud
        /\ Sick!Obeyed(c).unit = IF c = "cm" /\ scanner.settings THEN "cm"
                                 ELSE scanner.unit
        /\ c # "start" => (Sick!Obeyed(c).settings <=> scanner.settings \/ c = "settings")
        /\ Sick!Obeyed(c).scanning => c = "start" \/ scanner.scanning
        /\ c = "start" => Sick!Obeyed(c).scanning
    BY <1>3, <1>4, CommandObeyed
  <1>5. Sick!TypeOK'
    <2>1. scanner' \in Sick!Scanners
      BY <1>1, <1>4, <1>a
    <2>2. pc' \in {"off", "running"}
      BY <1>1
    <2>3. counter' \in 0 .. Sick!Last
      BY <1>1 DEF Sick!Last
    <2>4. deafStart' \in BOOLEAN
      BY <1>2
    <2> QED
      BY <1>1, <2>1, <2>2, <2>3, <2>4 DEF SickInv, Sick!TypeOK
  <1>6. PortFollows'
    <2>1. counter' >= 18 => counter >= 18
      BY <1>1
    <2> QED
      BY <1>1, <2>1 DEF SickInv, PortFollows, Sick!ReopenAt, Sick!TypeOK
  <1>7. port.listening /\ counter' >= 20 /\ scanner'.baud = Sick!BaudRate =>
           port.baud = scanner.baud /\ scanner.baud = Sick!BaudRate
    <2>1. port.listening /\ counter' >= 20 => port.baud = Sick!BaudRate
      BY <1>1 DEF SickInv, PortFollows, Sick!ReopenAt
    <2>2. counter' >= 20 => c # "38400"
      BY <1>3
    <2> QED
      BY <1>1, <1>a, <2>1, <2>2
  <1>8. ScannerFollows'
    <2> SUFFICES ASSUME port.listening, scanner'.baud = Sick!BaudRate, counter' >= 20
                 PROVE  /\ counter' \in 20 .. 23 => scanner'.settings
                        /\ counter' >= 22 => scanner'.unit = "cm"
      BY <1>1 DEF ScannerFollows
    <2>1. scanner' = Sick!Obeyed(c) /\ scanner.baud = Sick!BaudRate
      BY <1>1, <1>7
    <2>2. CASE counter' = 20
      BY <1>3, <1>a, <2>1, <2>2
    <2>3. CASE counter' = 22
      <3>1. scanner.settings
        BY <1>1, <2>1, <2>3 DEF SickInv, ScannerFollows
      <3> QED
        BY <1>3, <1>a, <2>1, <2>3, <3>1
    <2>4. CASE counter' = 24
      <3>1. scanner.unit = "cm"
        BY <1>1, <2>1, <2>4 DEF SickInv, ScannerFollows
      <3> QED
        BY <1>3, <1>a, <2>1, <2>4, <3>1
    <2> QED
      BY <1>1, <2>2, <2>3, <2>4
  <1>9. scanner'.scanning /\ scanner'.unit = "mm" => deafStart'
    <2> SUFFICES ASSUME scanner'.scanning, scanner'.unit = "mm", ~deafStart
                 PROVE  ~port.listening /\ ~scanner.scanning
      BY <1>2
    <2>1. scanner.unit = "mm"
      BY <1>1, <1>4, <1>a
    <2>2. ~scanner.scanning
      BY <2>1 DEF SickInv, ScansCentimeters
    <2>3. c = "start" /\ port.baud = scanner.baud
      BY <1>1, <1>a, <2>2
    <2>4. counter' = 24 /\ counter = 23
      BY <1>1, <1>3, <2>3
    <2>5. ASSUME port.listening PROVE FALSE
      <3>1. scanner.baud = Sick!BaudRate
        BY <2>3, <2>4, <2>5 DEF SickInv, PortFollows, Sick!ReopenAt
      <3> QED
        BY <2>1, <2>4, <2>5, <3>1 DEF SickInv, ScannerFollows
    <2> QED
      BY <2>2, <2>5
  <1>10. ScansCentimeters'
    BY <1>1, <1>2, <1>9 DEF SickInv, ScansCentimeters, Sick!OnlyCentimeters
  <1> QED
    BY <1>5, <1>6, <1>8, <1>10 DEF SickInv

LEMMA SickStep ==
    ASSUME Sick!ProxySickAssumption, SickInv, [Sick!Next]_(Sick!vars)
    PROVE  SickInv'
  <1>0. /\ pc \in {"off", "running"} /\ counter \in 0 .. 24
        /\ port \in Sick!Ports \cup {Sick!NoPort} /\ scanner \in Sick!Scanners
        /\ decoded \in {"none", "cm", "mm"} /\ troubles \in 0 .. MaxTroubles
        /\ troubled \in BOOLEAN /\ deafStart \in BOOLEAN /\ MaxTroubles \in Nat
    BY DEF SickInv, Sick!TypeOK, Sick!Last, Sick!ProxySickAssumption
  <1>a. Sick!Trouble => troubles' \in 0 .. MaxTroubles
    BY <1>0 DEF Sick!Trouble
  <1>1. CASE Sick!SetUp
    <2>1. /\ pc' = "running" /\ counter' = 0 /\ decoded' = "none" /\ troubled' = FALSE
          /\ port' \in {Sick!OpenPort(Sick!InitBaudRate), Sick!NoPort}
          /\ UNCHANGED <<scanner, deafStart>>
          /\ troubles' \in 0 .. MaxTroubles
      BY <1>0, <1>1, <1>a DEF Sick!SetUp
    <2>2. Sick!OpenPort(Sick!InitBaudRate) \in Sick!Ports
      BY DEF Sick!OpenPort, Sick!Ports
    <2>6. /\ port' \in Sick!Ports \cup {Sick!NoPort} /\ scanner' \in Sick!Scanners
          /\ deafStart' \in BOOLEAN
      BY <1>0, <2>1, <2>2
    <2>3. Sick!TypeOK'
      <3>1. /\ pc' \in {"off", "running"} /\ counter' \in 0 .. Sick!Last
            /\ decoded' \in {"none", "cm", "mm"}
        BY <2>1 DEF Sick!Last
      <3>2. troubled' \in BOOLEAN
        BY <2>1, Zenon
      <3> QED
        BY <2>1, <2>6, <3>1, <3>2, Zenon DEF Sick!TypeOK
    <2>4. PortFollows' /\ ScannerFollows'
      BY <2>1 DEF PortFollows, ScannerFollows, Sick!ReopenAt
    <2>5. ScansCentimeters'
      BY <2>1 DEF SickInv, ScansCentimeters, Sick!OnlyCentimeters
    <2> QED
      BY <2>3, <2>4, <2>5 DEF SickInv
  <1>2. CASE Sick!WaitSlice
    <2>1. /\ pc = "running" /\ counter' = counter + 1 /\ counter < 24
          /\ counter' \notin {10, 12, 14, 18, 20, 22, 24}
          /\ UNCHANGED <<pc, port, scanner, decoded, troubles, troubled, deafStart>>
      BY <1>2, Scheduled DEF Sick!WaitSlice, Sick!NextSlice, Sick!Last, Sick!ReopenAt
    <2>2. Sick!TypeOK'
      BY <1>0, <2>1 DEF Sick!TypeOK, Sick!Last
    <2>3. PortFollows'
      BY <1>0, <2>1 DEF SickInv, PortFollows, Sick!ReopenAt
    <2>4. ScannerFollows'
      BY <1>0, <2>1 DEF SickInv, ScannerFollows
    <2>5. ScansCentimeters'
      BY <2>1 DEF SickInv, ScansCentimeters, Sick!OnlyCentimeters
    <2> QED
      BY <2>2, <2>3, <2>4, <2>5 DEF SickInv
  <1>3. CASE Sick!SendCommand
    BY <1>3, SendKeeps
  <1>4. CASE Sick!ReopenPort
    <2>1. /\ pc = "running" /\ counter' = 18
          /\ port' = Sick!OpenPort(Sick!BaudRate)
          /\ UNCHANGED <<pc, scanner, decoded, troubles, troubled, deafStart>>
      BY <1>4 DEF Sick!ReopenPort, Sick!NextSlice, Sick!ReopenAt, Sick!Reopen
    <2>2. port' \in Sick!Ports /\ port'.baud = Sick!BaudRate
      BY <2>1 DEF Sick!OpenPort, Sick!Ports
    <2>3. Sick!TypeOK'
      BY <1>0, <2>1, <2>2 DEF Sick!TypeOK, Sick!Last
    <2>4. PortFollows' /\ ScannerFollows'
      BY <2>1, <2>2 DEF PortFollows, ScannerFollows
    <2>5. ScansCentimeters'
      BY <2>1 DEF SickInv, ScansCentimeters, Sick!OnlyCentimeters
    <2> QED
      BY <2>3, <2>4, <2>5 DEF SickInv
  <1>5. CASE Sick!FailReopen
    <2>1. /\ pc = "running" /\ counter' = 18
          /\ port' = [port EXCEPT !.listening = FALSE]
          /\ Sick!Trouble /\ troubled' = TRUE
          /\ UNCHANGED <<pc, scanner, decoded, deafStart>>
      BY <1>5 DEF Sick!FailReopen, Sick!NextSlice, Sick!ReopenAt
    <2>2. port' \in Sick!Ports \cup {Sick!NoPort} /\ ~port'.listening
      <3>1. CASE port = Sick!NoPort
        <4>1. ASSUME NEW p, NEW b, NEW x, p = [baud |-> b, listening |-> x]
              PROVE  [p EXCEPT !.listening = x] = p /\ p.listening = x
          BY <4>1
        <4>2. Sick!NoPort = [baud |-> 0, listening |-> FALSE]
          BY DEF Sick!NoPort
        <4>3. port' = [Sick!NoPort EXCEPT !.listening = FALSE]
          BY <2>1, <3>1
        <4> QED
          BY <4>1, <4>2, <4>3, Zenon
      <3>2. CASE port \in Sick!Ports
        <4>1. [port EXCEPT !.listening = FALSE] \in Sick!Ports
          BY <3>2, Zenon DEF Sick!Ports
        <4>2. [port EXCEPT !.listening = FALSE].listening = FALSE
          BY <3>2, Zenon DEF Sick!Ports
        <4> QED
          BY <2>1, <4>1, <4>2
      <3> QED
        BY <1>0, <3>1, <3>2
    <2>3. Sick!TypeOK'
      BY <1>0, <1>a, <2>1, <2>2 DEF Sick!TypeOK, Sick!Last
    <2>4. PortFollows' /\ ScannerFollows'
      BY <2>1, <2>2 DEF PortFollows, ScannerFollows
    <2>5. ScansCentimeters'
      BY <2>1 DEF SickInv, ScansCentimeters, Sick!OnlyCentimeters
    <2> QED
      BY <2>3, <2>4, <2>5 DEF SickInv
  <1>6. CASE Sick!TearDown \/ Sick!Crash
    <2>1. /\ pc' = "off" /\ port' = Sick!NoPort
          /\ UNCHANGED <<counter, decoded, troubled, deafStart>>
      BY <1>6 DEF Sick!TearDown, Sick!Crash
    <2>2. troubles' \in 0 .. MaxTroubles
      BY <1>0, <1>6, <1>a DEF Sick!TearDown, Sick!Crash
    <2>3. /\ scanner' \in Sick!Scanners /\ scanner'.unit = scanner.unit
          /\ scanner'.scanning => scanner.scanning
      <3>1. /\ Sick!Obeyed("stop") \in Sick!Scanners
            /\ Sick!Obeyed("stop").unit = scanner.unit
            /\ Sick!Obeyed("stop").scanning => scanner.scanning
        BY <1>0, CommandObeyed
      <3>2. scanner' \in {scanner, Sick!Obeyed("stop")}
        BY <1>6 DEF Sick!TearDown, Sick!Crash, Sick!Heard
      <3> QED
        BY <1>0, <3>1, <3>2
    <2>4. Sick!TypeOK'
      BY <1>0, <2>1, <2>2, <2>3 DEF Sick!TypeOK, Sick!Last
    <2>5. PortFollows' /\ ScannerFollows'
      BY <2>1 DEF PortFollows, ScannerFollows, Sick!NoPort
    <2>6. ScansCentimeters'
      BY <2>1, <2>3 DEF SickInv, ScansCentimeters, Sick!OnlyCentimeters
    <2> QED
      BY <2>4, <2>5, <2>6 DEF SickInv
  <1>7. CASE Sick!LosePower
    <2>1. /\ scanner' = [baud |-> Sick!InitBaudRate, unit |-> scanner.unit,
                         settings |-> FALSE, scanning |-> FALSE]
          /\ Sick!Trouble /\ troubled' = TRUE
          /\ UNCHANGED <<pc, counter, port, decoded, deafStart>>
      BY <1>7 DEF Sick!LosePower
    <2>2. scanner' \in Sick!Scanners
      BY <1>0, <2>1, ScannerFields, Zenon DEF Sick!Scanners
    <2>3. Sick!TypeOK'
      BY <1>0, <1>a, <2>1, <2>2 DEF Sick!TypeOK, Sick!Last
    <2>4. PortFollows' /\ ScannerFollows'
      BY <2>1 DEF SickInv, PortFollows, ScannerFollows, Sick!BaudRate, Sick!InitBaudRate
    <2>5. ScansCentimeters'
      BY <2>1 DEF SickInv, ScansCentimeters, Sick!OnlyCentimeters
    <2> QED
      BY <2>3, <2>4, <2>5 DEF SickInv
  <1>8. CASE Sick!Scan
    <2>1. /\ scanner.scanning /\ decoded' = scanner.unit
          /\ UNCHANGED <<pc, counter, port, scanner, troubles, troubled, deafStart>>
      BY <1>8 DEF Sick!Scan
    <2>2. Sick!TypeOK'
      BY <1>0, <2>1, ScannerFields DEF Sick!TypeOK, Sick!Last
    <2>3. PortFollows' /\ ScannerFollows'
      BY <2>1 DEF SickInv, PortFollows, ScannerFollows
    <2>4. ScansCentimeters'
      BY <2>1 DEF SickInv, ScansCentimeters, Sick!OnlyCentimeters
    <2> QED
      BY <2>2, <2>3, <2>4 DEF SickInv
  <1>9. CASE UNCHANGED Sick!vars
    <2>1. UNCHANGED <<pc, counter, port, scanner, decoded, troubles, troubled, deafStart>>
      BY <1>9 DEF Sick!vars
    <2> QED
      BY <2>1 DEF SickInv, Sick!TypeOK, PortFollows, ScannerFollows, ScansCentimeters,
         Sick!OnlyCentimeters
  <1> QED
    BY <1>1, <1>2, <1>3, <1>4, <1>5, <1>6, <1>7, <1>8, <1>9 DEF Sick!Next

-----------------------------------------------------------------------------
(* The PS3 controller.                                                     *)

Events == [axis : {0, 3, 16, 17}, value : Int, type : {{"axis"}, {"axis", "init"}}]

(* The synthetic event of its stick has been read, that of the axis that   *)
(* kills it has not.                                                       *)
BetweenSynthetic(c) == startup \in IF c = "steering" THEN {1, 2} ELSE {2, 3}

(* A command whose stick was not moved is zero whenever it can be sent:    *)
(* no event of the stick is queued, and a synthetic one is killed by a     *)
(* later one.                                                              *)
PS3Inv ==
    /\ PS3!TypeOK /\ queue \in Seq(Events)
    /\ startup < 4 => queue = <<>>
    /\ \A c \in PS3!Commands : c \notin moved =>
          /\ request[c] = 0
          /\ command[c] = 0 \/ BetweenSynthetic(c)
          /\ \A j \in 1 .. Len(queue) : queue[j].axis # PS3!AxisOf[c]

-----------------------------------------------------------------------------
LEMMA Axes ==
    /\ PS3!Commands = {"acceleration", "steering"}
    /\ PS3!AxisOf["acceleration"] = 3 /\ PS3!AxisOf["steering"] = 0
    /\ PS3!KillAxisOf["acceleration"] = 17 /\ PS3!KillAxisOf["steering"] = 16
  BY DEF PS3!Commands, PS3!AxisOf, PS3!KillAxisOf

LEMMA Quotient ==
    ASSUME NEW a \in Int, NEW b \in Nat, b # 0
    PROVE  a \div b \in Int
  OBVIOUS

LEMMA AskedIsInteger ==
    ASSUME PS3!PS3Assumption, NEW value \in Int
    PROVE  /\ PS3!Steering(value) \in Int
           /\ PS3!Acceleration(value) \in Int
  <1>0. /\ MaxAxesValue \in Nat /\ MaxAxesValue # 0 /\ SteeringMax \in Int
        /\ AccelerationMin \in Int /\ AccelerationMax \in Int
        /\ DecelerationMin \in Int /\ DecelerationMax \in Int
    BY DEF PS3!PS3Assumption
  <1>1. /\ value * SteeringMax \in Int
        /\ -value * (AccelerationMax - AccelerationMin) \in Int
        /\ value * (DecelerationMax - DecelerationMin) \in Int
    BY <1>0
  <1>2. ASSUME NEW a \in Int
        PROVE  a \div MaxAxesValue \in Int
    BY <1>0, Quotient
  <1> QED
    BY <1>0, <1>1, <1>2 DEF PS3!Steering, PS3!Acceleration

(* What an event makes of the commands.                                    *)
LEMMA EventHandled ==
    ASSUME PS3!PS3Assumption, NEW e \in Events, NEW r \in PS3!Requests,
           NEW c \in PS3!Commands
    PROVE  /\ PS3!Handled(e, r) \in PS3!Requests
           /\ e.axis = PS3!KillAxisOf[c] => PS3!Handled(e, r)[c] = 0
           /\ e.axis \notin {PS3!AxisOf[c], PS3!KillAxisOf[c]} =>
                 PS3!Handled(e, r)[c] = r[c]
  <1>0. /\ PS3!Steering(e.value) \in Int /\ PS3!Acceleration(e.value) \in Int
        /\ e.axis \in {0, 3, 16, 17}
    BY AskedIsInteger DEF Events
  <1>a. PS3!Handled(e, r) = PS3!Applied(e, r)
    <2>1. e.type = {"axis"} \/ e.type = {"axis", "init"}
      BY DEF Events
    <2>2. e.type \ {"init"} = {"axis"}
      BY <2>1
    <2> QED
      BY <2>2, Zenon DEF PS3!Handled, PS3!IsAxis
  <1>1. CASE e.axis = 0
    <2>1. PS3!Applied(e, r) = [r EXCEPT !.steering = PS3!Steering(e.value)]
      BY <1>1 DEF PS3!Applied
    <2> QED
      BY <1>0, <1>a, <1>1, <2>1, Axes DEF PS3!Requests
  <1>2. CASE e.axis = 3
    <2>1. PS3!Applied(e, r) = [r EXCEPT !.acceleration = PS3!Acceleration(e.value)]
      BY <1>2 DEF PS3!Applied
    <2> QED
      BY <1>0, <1>a, <1>2, <2>1, Axes DEF PS3!Requests
  <1>3. CASE e.axis = 16
    <2>1. PS3!Applied(e, r) = [r EXCEPT !.steering = 0]
      BY <1>3 DEF PS3!Applied
    <2> QED
      BY <1>a, <1>3, <2>1, Axes DEF PS3!Requests
  <1>4. CASE e.axis = 17
    <2>1. PS3!Applied(e, r) = [r EXCEPT !.acceleration = 0]
      BY <1>4 DEF PS3!Applied
    <2> QED
      BY <1>a, <1>4, <2>1, Axes DEF PS3!Requests
  <1> QED
    BY <1>0, <1>1, <1>2, <1>3, <1>4

LEMMA SyntheticOfAxis ==
    ASSUME PS3!PS3Assumption, PS3Inv, PS3!Reading
    PROVE  /\ PS3!Synthetic \in Events
           /\ startup \in {0, 1, 2, 3}
           /\ startup = 0 => PS3!Synthetic.axis = 0
           /\ startup = 1 => PS3!Synthetic.axis = 3
           /\ startup = 2 => PS3!Synthetic.axis = 16
           /\ startup = 3 => PS3!Synthetic.axis = 17
  <1> DEFINE axis == PS3!Axes[startup + 1]
             event == PS3!Event(axis, position[axis], {"axis", "init"})
  <1>1. /\ startup \in 0 .. 4 /\ startup < 4 /\ MaxAxesValue \in Nat
        /\ position \in [{0, 3, 16, 17} -> -MaxAxesValue .. MaxAxesValue]
    BY DEF PS3!PS3Assumption, PS3Inv, PS3!TypeOK, PS3!Reading, PS3!Axes
  <1>2. startup \in {0, 1, 2, 3}
    BY <1>1
  <1>3. /\ startup = 0 => axis = 0
        /\ startup = 1 => axis = 3
        /\ startup = 2 => axis = 16
        /\ startup = 3 => axis = 17
    BY DEF PS3!Axes
  <1>4. PS3!Synthetic = event
    BY Zenon DEF PS3!Synthetic
  <1> HIDE DEF axis
  <1>5. axis \in {0, 3, 16, 17} /\ position[axis] \in Int
    BY <1>1, <1>2, <1>3
  <1>6. event \in Events /\ event.axis = axis
    BY <1>5 DEF PS3!Event, Events
  <1> HIDE DEF event
  <1> QED
    BY <1>2, <1>3, <1>4, <1>6

-----------------------------------------------------------------------------
LEMMA PS3Initially ==
    ASSUME PS3!PS3Assumption, PS3!Init
    PROVE  PS3Inv
  <1>0. /\ MaxAxesValue \in Nat /\ QueueSize \in Nat /\ QueueSize > 0 /\ MaxInputs \in Nat
        /\ Len(PS3!Axes) = 4
    BY DEF PS3!PS3Assumption, PS3!Axes
  <1>1. position \in [{0, 3, 16, 17} -> -MaxAxesValue .. MaxAxesValue]
    BY <1>0 DEF PS3!Init
  <1>2. queue \in Seq(Events) /\ Len(queue) = 0 /\ queue = <<>> /\ startup = 0
    BY DEF PS3!Init
  <1>3. PS3!Zero \in PS3!Requests /\ \A c \in PS3!Commands : PS3!Zero[c] = 0
    BY Axes DEF PS3!Zero, PS3!Requests
  <1>4. PS3!TypeOK
    BY <1>0, <1>1, <1>2, <1>3 DEF PS3!Init, PS3!TypeOK
  <1> QED
    BY <1>2, <1>3, <1>4 DEF PS3!Init, PS3Inv

(* An input, and an event that is queued, or is none, or starts everything *)
(* over.                                                                   *)
LEMMA InputKeeps ==
    ASSUME PS3!PS3Assumption, PS3Inv, NEW a \in {0, 3, 16, 17},
           NEW value \in {-MaxAxesValue, 0, MaxAxesValue}, PS3!Input(a, value)
    PROVE  /\ position' \in [{0, 3, 16, 17} -> -MaxAxesValue .. MaxAxesValue]
           /\ startup' \in 0 .. 4 /\ startup' \in {startup, 0}
           /\ startup' # startup => startup = 4
           /\ queue' \in Seq(Events) /\ Len(queue') < QueueSize
           /\ startup' < 4 => queue' = <<>>
           /\ inputs' \in 0 .. MaxInputs
           /\ UNCHANGED <<pc, plugged, command, request>>
           /\ \A b \in {0, 3, 16, 17} :
                 b # a /\ (\A j \in 1 .. Len(queue) : queue[j].axis # b) =>
                    \A j \in 1 .. Len(queue') : queue'[j].axis # b
  <1> DEFINE event == PS3!Event(a, value, {"axis"})
  <1>0. /\ QueueSize \in Nat /\ QueueSize > 0 /\ queue \in Seq(Events) /\ MaxAxesValue \in Nat
        /\ position \in [{0, 3, 16, 17} -> -MaxAxesValue .. MaxAxesValue]
        /\ startup \in 0 .. 4 /\ inputs \in 0 .. MaxInputs /\ MaxInputs \in Nat
        /\ startup < 4 => queue = <<>>
    BY DEF PS3!PS3Assumption, PS3Inv, PS3!TypeOK, PS3!Axes
  <1>1. /\ position' = [position EXCEPT ![a] = value]
        /\ queue' = IF PS3!Kept THEN Append(queue, event) ELSE <<>>
        /\ startup' = IF PS3!Overflow THEN 0 ELSE startup
        /\ inputs < MaxInputs /\ inputs' = inputs + 1
        /\ UNCHANGED <<pc, plugged, command, request>>
    BY DEF PS3!Input
  <1>2. value \in Int /\ value \in -MaxAxesValue .. MaxAxesValue
    BY <1>0
  <1>3. event \in Events /\ event.axis = a
    BY <1>2 DEF PS3!Event, Events
  <1> HIDE DEF event
  <1>4. position' \in [{0, 3, 16, 17} -> -MaxAxesValue .. MaxAxesValue]
    BY <1>0, <1>1, <1>2
  <1>5. inputs' \in 0 .. MaxInputs
    BY <1>0, <1>1
  <1>6. CASE PS3!Kept
    <2>1. startup = 4 /\ Len(queue) < QueueSize - 1 /\ ~PS3!Overflow
      BY <1>0, <1>6 DEF PS3!Kept, PS3!Overflow, PS3!Reading, PS3!Axes
    <2>2. queue' = Append(queue, event) /\ startup' = startup
      BY <1>1, <1>6, <2>1
    <2>3. /\ queue' \in Seq(Events) /\ Len(queue') = Len(queue) + 1 /\ Len(queue) \in Nat
          /\ queue'[Len(queue) + 1] = event
          /\ \A j \in 1 .. Len(queue) : queue'[j] = queue[j]
      BY <1>0, <1>3, <2>2
    <2>4. Len(queue') < QueueSize
      BY <1>0, <2>1, <2>3
    <2>5. ASSUME NEW b \in {0, 3, 16, 17}, b # a,
                 \A j \in 1 .. Len(queue) : queue[j].axis # b,
                 NEW j \in 1 .. Len(queue')
          PROVE  queue'[j].axis # b
      BY <1>3, <2>3, <2>5
    <2> QED
      BY <1>0, <1>1, <1>4, <1>5, <2>1, <2>2, <2>3, <2>4, <2>5
  <1>7. CASE ~PS3!Kept
    <2>1. queue' = <<>> /\ queue' \in Seq(Events) /\ Len(queue') = 0
      BY <1>1, <1>7
    <2>2. startup' \in {startup, 0} /\ (startup' # startup => startup = 4)
      BY <1>0, <1>1 DEF PS3!Overflow, PS3!Reading, PS3!Axes
    <2> QED
      BY <1>0, <1>1, <1>4, <1>5, <2>1, <2>2
  <1> QED
    BY <1>6, <1>7

LEMMA MeantIsRequest ==
    ASSUME PS3Inv, NEW c \in PS3!Commands, NEW value \in Int
    PROVE  PS3!Meant(c, value) \in PS3!Requests
  <1>1. meant \in PS3!Requests
    BY DEF PS3Inv, PS3!TypeOK
  <1>2. /\ [meant EXCEPT ![c] = value] \in PS3!Requests
        /\ PS3!Zero \in PS3!Requests
    BY <1>1, Axes DEF PS3!Requests, PS3!Zero
  <1>3. \/ PS3!Meant(c, value) = [meant EXCEPT ![c] = value]
        \/ PS3!Meant(c, value) = PS3!Zero
        \/ PS3!Meant(c, value) = meant
    BY DEF PS3!Meant, PS3!Overflow
  <1> QED
    BY <1>1, <1>2, <1>3

LEMMA PS3Step ==
    ASSUME PS3!PS3Assumption, PS3Inv, [PS3!Next]_(PS3!vars)
    PROVE  PS3Inv'
  <1>0. /\ MaxAxesValue \in Nat /\ QueueSize \in Nat /\ MaxInputs \in Nat
        /\ pc \in {"waiting", "draining", "stopping", "off"}
        /\ position \in [{0, 3, 16, 17} -> -MaxAxesValue .. MaxAxesValue]
        /\ startup \in 0 .. 4 /\ Len(PS3!Axes) = 4
        /\ Len(queue) < QueueSize /\ plugged \in BOOLEAN
        /\ command \in PS3!Requests /\ request \in PS3!Requests
        /\ meant \in PS3!Requests /\ inputs \in 0 .. MaxInputs
        /\ moved \subseteq PS3!Commands /\ queue \in Seq(Events)
        /\ startup < 4 => queue = <<>>
        /\ \A c \in PS3!Commands : c \notin moved =>
              /\ request[c] = 0
              /\ command[c] = 0 \/ BetweenSynthetic(c)
              /\ \A j \in 1 .. Len(queue) : queue[j].axis # PS3!AxisOf[c]
    BY DEF PS3!PS3Assumption, PS3Inv, PS3!TypeOK, PS3!Axes
  <1>a. ASSUME NEW a \in {0, 3, 16, 17}, NEW value \in {-MaxAxesValue, 0, MaxAxesValue},
               PS3!Input(a, value), meant' \in PS3!Requests,
               moved' \in SUBSET PS3!Commands, moved \subseteq moved',
               \A c \in PS3!Commands : c \notin moved' => PS3!AxisOf[c] # a
        PROVE  PS3Inv'
    <2>1. /\ position' \in [{0, 3, 16, 17} -> -MaxAxesValue .. MaxAxesValue]
          /\ startup' \in 0 .. 4 /\ startup' \in {startup, 0}
          /\ startup' # startup => startup = 4
          /\ queue' \in Seq(Events) /\ Len(queue') < QueueSize
          /\ startup' < 4 => queue' = <<>>
          /\ inputs' \in 0 .. MaxInputs
          /\ UNCHANGED <<pc, plugged, command, request>>
      BY <1>a, InputKeeps
    <2>2. ASSUME NEW c \in PS3!Commands, c \notin moved'
          PROVE  /\ request'[c] = 0
                 /\ command'[c] = 0 \/ BetweenSynthetic(c)'
                 /\ \A j \in 1 .. Len(queue') : queue'[j].axis # PS3!AxisOf[c]
      <3>1. PS3!AxisOf[c] \in {0, 3, 16, 17} /\ PS3!AxisOf[c] # a /\ c \notin moved
        BY <1>a, <2>2, Axes
      <3>2. \A j \in 1 .. Len(queue') : queue'[j].axis # PS3!AxisOf[c]
        BY <1>0, <1>a, <3>1, InputKeeps
      <3>3. command[c] = 0 \/ BetweenSynthetic(c)'
        <4>1. command[c] = 0 \/ BetweenSynthetic(c)
          BY <1>0, <3>1
        <4>2. CASE startup' = startup
          BY <4>1, <4>2 DEF BetweenSynthetic
        <4>3. CASE startup = 4
          BY <4>1, <4>3 DEF BetweenSynthetic
        <4> QED
          BY <2>1, <4>2, <4>3
      <3> QED
        BY <1>0, <2>1, <3>1, <3>2, <3>3
    <2>3. PS3!TypeOK'
      BY <1>0, <1>a, <2>1 DEF PS3!TypeOK, PS3!Axes
    <2> QED
      BY <2>1, <2>2, <2>3 DEF PS3Inv
  <1>1. CASE PS3!MoveStick
    <2>1. PICK c \in PS3!Commands, value \in {-MaxAxesValue, 0, MaxAxesValue} :
             /\ PS3!Input(PS3!AxisOf[c], value)
             /\ meant' = PS3!Meant(c, PS3!Asked(c, value))
             /\ moved' = moved \cup {c}
      BY <1>1 DEF PS3!MoveStick
    <2>a. value \in Int
      BY <1>0
    <2>2. PS3!Asked(c, value) \in Int
      BY <2>a, AskedIsInteger DEF PS3!Asked
    <2>3. meant' \in PS3!Requests
      BY <2>1, <2>2, MeantIsRequest
    <2>4. /\ PS3!AxisOf[c] \in {0, 3, 16, 17}
          /\ \A d \in PS3!Commands : d \notin moved' => PS3!AxisOf[d] # PS3!AxisOf[c]
      BY <2>1, Axes
    <2> QED
      BY <1>0, <1>a, <2>1, <2>3, <2>4
  <1>2. CASE PS3!KillButton
    <2>1. PICK c \in PS3!Commands, value \in {0, MaxAxesValue} :
             /\ PS3!Input(PS3!KillAxisOf[c], value)
             /\ meant' = PS3!Meant(c, 0)
             /\ moved' = moved
      BY <1>2 DEF PS3!KillButton
    <2>2. meant' \in PS3!Requests
      BY <2>1, MeantIsRequest
    <2>3. /\ PS3!KillAxisOf[c] \in {0, 3, 16, 17}
          /\ \A d \in PS3!Commands : PS3!AxisOf[d] # PS3!KillAxisOf[c]
      BY Axes
    <2> QED
      BY <1>0, <1>a, <2>1, <2>2, <2>3
  <1>3. CASE PS3!ReadEvent /\ PS3!Reading
    <2>1. /\ command' = PS3!Handled(PS3!Synthetic, command) /\ startup' = startup + 1
          /\ UNCHANGED <<pc, position, queue, plugged, request, inputs, meant, moved>>
      BY <1>3 DEF PS3!ReadEvent, PS3!history
    <2>2. /\ PS3!Synthetic \in Events
          /\ startup \in {0, 1, 2, 3}
          /\ startup = 0 => PS3!Synthetic.axis = 0
          /\ startup = 1 => PS3!Synthetic.axis = 3
          /\ startup = 2 => PS3!Synthetic.axis = 16
          /\ startup = 3 => PS3!Synthetic.axis = 17
      BY <1>3, SyntheticOfAxis
    <2>3. command' \in PS3!Requests
      BY <1>0, <2>1, <2>2, EventHandled, Axes
    <2>4. PS3!TypeOK'
      BY <1>0, <2>1, <2>2, <2>3 DEF PS3!TypeOK, PS3!Axes
    <2>5. ASSUME NEW c \in PS3!Commands, c \notin moved
          PROVE  command'[c] = 0 \/ BetweenSynthetic(c)'
      <3>1. /\ PS3!Synthetic.axis = PS3!KillAxisOf[c] => command'[c] = 0
            /\ PS3!Synthetic.axis \notin {PS3!AxisOf[c], PS3!KillAxisOf[c]} =>
                  command'[c] = command[c]
        BY <1>0, <2>1, <2>2, EventHandled
      <3>2. CASE c = "steering"
        BY <1>0, <2>1, <2>2, <2>5, <3>1, <3>2, Axes DEF BetweenSynthetic
      <3>3. CASE c = "acceleration"
        BY <1>0, <2>1, <2>2, <2>5, <3>1, <3>3, Axes DEF BetweenSynthetic
      <3> QED
        BY <3>2, <3>3, Axes
    <2>6. queue = <<>>
      BY <1>0, <2>2
    <2> QED
      BY <1>0, <2>1, <2>4, <2>5, <2>6 DEF PS3Inv
  <1>4. CASE PS3!ReadEvent /\ ~PS3!Reading
    <2>1. /\ queue # <<>> /\ queue' = Tail(queue)
          /\ command' = PS3!Handled(Head(queue), command)
          /\ UNCHANGED <<pc, position, startup, plugged, request, inputs, meant, moved>>
      BY <1>4 DEF PS3!ReadEvent, PS3!history
    <2>2. startup = 4
      BY <1>0, <1>4 DEF PS3!Reading
    <2>3. /\ queue' \in Seq(Events) /\ Len(queue') < QueueSize
          /\ Head(queue) \in Events /\ Head(queue) = queue[1] /\ 1 \in 1 .. Len(queue)
          /\ \A j \in 1 .. Len(queue') : j + 1 \in 1 .. Len(queue) /\ queue'[j] = queue[j + 1]
      BY <1>0, <2>1
    <2>4. command' \in PS3!Requests
      BY <1>0, <2>1, <2>3, EventHandled, Axes
    <2>5. PS3!TypeOK'
      BY <1>0, <2>1, <2>3, <2>4 DEF PS3!TypeOK
    <2>6. ASSUME NEW c \in PS3!Commands, c \notin moved
          PROVE  command'[c] = 0 /\ \A j \in 1 .. Len(queue') : queue'[j].axis # PS3!AxisOf[c]
      <3>1. command[c] = 0
        BY <1>0, <2>2, <2>6 DEF BetweenSynthetic
      <3>2. Head(queue).axis # PS3!AxisOf[c]
        BY <1>0, <2>3, <2>6
      <3>3. command'[c] = 0
        BY <1>0, <2>1, <2>3, <3>1, <3>2, EventHandled
      <3>4. \A j \in 1 .. Len(queue) : queue[j].axis # PS3!AxisOf[c]
        BY <1>0, <2>6
      <3>5. \A j \in 1 .. Len(queue') : queue'[j].axis # PS3!AxisOf[c]
        BY <2>3, <3>4
      <3> QED
        BY <3>3, <3>5
    <2> QED
      BY <1>0, <2>1, <2>2, <2>3, <2>5, <2>6 DEF PS3Inv
  <1>5. CASE PS3!SendActuationRequest
    <2>1. /\ ~PS3!Reading /\ request' = command /\ pc' = "waiting"
          /\ UNCHANGED <<position, startup, queue, plugged, command, inputs, meant, moved>>
      BY <1>5 DEF PS3!SendActuationRequest, PS3!history, PS3!joystick
    <2>2. startup = 4
      BY <1>0, <2>1 DEF PS3!Reading
    <2>3. \A c \in PS3!Commands : c \notin moved => command[c] = 0
      BY <1>0, <2>2 DEF BetweenSynthetic
    <2>4. PS3!TypeOK'
      BY <1>0, <2>1 DEF PS3!TypeOK
    <2> QED
      BY <1>0, <2>1, <2>2, <2>3, <2>4 DEF PS3Inv
  <1>6. CASE PS3!TearDown
    <2>1. /\ request' = PS3!Zero /\ pc' = "off"
          /\ UNCHANGED <<position, startup, queue, plugged, command, inputs, meant, moved>>
      BY <1>6 DEF PS3!TearDown, PS3!history, PS3!joystick
    <2>2. PS3!Zero \in PS3!Requests /\ \A c \in PS3!Commands : PS3!Zero[c] = 0
      BY Axes DEF PS3!Zero, PS3!Requests
    <2>3. PS3!TypeOK'
      BY <1>0, <2>1, <2>2 DEF PS3!TypeOK
    <2>4. \A c \in PS3!Commands : BetweenSynthetic(c)' = BetweenSynthetic(c)
      BY <2>1 DEF BetweenSynthetic
    <2> QED
      BY <1>0, <2>1, <2>2, <2>3, <2>4 DEF PS3Inv
  <1>7. CASE \/ PS3!Unplug \/ PS3!StartCycle \/ PS3!FailRead \/ PS3!Stop
             \/ UNCHANGED PS3!vars
    <2>1. /\ pc' \in {"waiting", "draining", "stopping", "off"} /\ plugged' \in BOOLEAN
          /\ UNCHANGED <<position, startup, queue, command, request, inputs, meant, moved>>
      BY <1>0, <1>7 DEF PS3!Unplug, PS3!StartCycle, PS3!FailRead, PS3!Stop, PS3!vars,
         PS3!history, PS3!joystick
    <2>2. PS3!TypeOK'
      BY <1>0, <2>1 DEF PS3!TypeOK
    <2>3. \A c \in PS3!Commands : BetweenSynthetic(c)' = BetweenSynthetic(c)
      BY <2>1 DEF BetweenSynthetic
    <2> QED
      BY <1>0, <2>1, <2>2, <2>3 DEF PS3Inv
  <1> QED
    BY <1>1, <1>2, <1>3, <1>4, <1>5, <1>6, <1>7 DEF PS3!Next

-----------------------------------------------------------------------------
Camera == {"waiting", "locking", "copying", "captured"}
Stages == {"starting", "idle", "locking", "copying", "halfway"}

ImageTyped ==
    /\ memory \in Image!Frames \X Image!Frames /\ copy \in Image!Frames \X Image!Frames
    /\ valid \in BOOLEAN /\ lock \in {"free", "camera", "reader"}
    /\ camera \in Camera /\ image \in Image!Frames
    /\ reader \in Stages /\ expected \in Image!Frames
    /\ announced \in Seq(Image!Frames) /\ Len(announced) <= MaxAnnounced
    /\ lost \in 0 .. MaxLost

LockHeld ==
    /\ lock = "camera" <=> camera = "copying"
    /\ lock = "reader" <=> reader \in {"copying", "halfway"}

Newest ==
    /\ memory[2] <= memory[1] /\ memory[1] <= image
    /\ camera # "copying" => memory[1] = memory[2]

AnnouncedInMemory == \A k \in 1 .. Len(announced) : announced[k] <= memory[2]

ReaderFollows ==
    /\ expected <= memory[2]
    /\ reader = "starting" => expected = 0
    /\ reader \in {"starting", "idle", "locking"} => copy[1] = copy[2]
    /\ reader = "halfway" => copy[1] = memory[1]
    /\ reader = "idle" => copy[1] >= expected

ImageInv == ImageTyped /\ LockHeld /\ Newest /\ AnnouncedInMemory /\ ReaderFollows

-----------------------------------------------------------------------------
LEMMA PairParts ==
    ASSUME NEW S, NEW p \in S \X S
    PROVE  p[1] \in S /\ p[2] \in S
  OBVIOUS

LEMMA FirstReplaced ==
    ASSUME NEW S, NEW p \in S \X S, NEW v \in S, NEW q, q = [p EXCEPT ![1] = v]
    PROVE  q \in S \X S /\ q[1] = v /\ q[2] = p[2]
  OBVIOUS

LEMMA SecondReplaced ==
    ASSUME NEW S, NEW p \in S \X S, NEW v \in S, NEW q, q = [p EXCEPT ![2] = v]
    PROVE  q \in S \X S /\ q[1] = p[1] /\ q[2] = v
  OBVIOUS

LEMMA FramesAreNumbers ==
    ASSUME Image!SharedImageAssumption
    PROVE  Image!Frames \subseteq Nat /\ 0 \in Image!Frames
  BY DEF Image!SharedImageAssumption, Image!Frames

-----------------------------------------------------------------------------
LEMMA ImageInitially ==
    ASSUME Image!SharedImageAssumption, Image!Init
    PROVE  ImageInv
  <1>1. memory = <<0, 0>> /\ copy = <<0, 0>> /\ announced = <<>>
    BY DEF Image!Init, Image!Whole
  <1>2. memory \in Image!Frames \X Image!Frames /\ copy \in Image!Frames \X Image!Frames
    BY <1>1, FramesAreNumbers
  <1>3. memory[1] = 0 /\ memory[2] = 0 /\ copy[1] = 0 /\ copy[2] = 0
    BY <1>1
  <1>4. announced \in Seq(Image!Frames) /\ Len(announced) = 0
    BY <1>1
  <1>a. /\ valid \in BOOLEAN /\ lock = "free" /\ camera = "waiting" /\ image = 0
        /\ reader = "starting" /\ expected = 0 /\ lost = 0
    BY DEF Image!Init
  <1>5. ImageTyped
    <2>1. Len(announced) <= MaxAnnounced /\ lost \in 0 .. MaxLost
      BY <1>4, <1>a DEF Image!SharedImageAssumption
    <2> QED
      BY <1>2, <1>4, <1>a, <2>1, FramesAreNumbers DEF ImageTyped, Camera, Stages
  <1>6. LockHeld /\ Newest
    BY <1>3, <1>a DEF LockHeld, Newest
  <1>7. AnnouncedInMemory
    BY <1>4 DEF AnnouncedInMemory
  <1>8. ReaderFollows
    BY <1>3, <1>a DEF ReaderFollows
  <1> QED
    BY <1>5, <1>6, <1>7, <1>8 DEF ImageInv

LEMMA PartsAreNumbers ==
    ASSUME Image!SharedImageAssumption, ImageInv
    PROVE  /\ memory[1] \in Nat /\ memory[2] \in Nat /\ image \in Nat
           /\ expected \in Nat /\ copy[1] \in Nat /\ copy[2] \in Nat
  <1>1. memory[1] \in Image!Frames /\ memory[2] \in Image!Frames /\ copy[1] \in Image!Frames /\ copy[2] \in Image!Frames
    BY PairParts DEF ImageInv, ImageTyped
  <1>2. image \in Image!Frames /\ expected \in Image!Frames
    BY DEF ImageInv, ImageTyped
  <1> QED
    BY <1>1, <1>2, FramesAreNumbers

(* The steps of the camera up to its copy change no image.                 *)
LEMMA CameraSteps ==
    ASSUME Image!SharedImageAssumption, ImageInv, Image!CaptureFrame \/ Image!FailCapture \/ Image!LockMemory
    PROVE  ImageInv'
  <1>1. /\ camera \in {"waiting", "locking"} /\ camera' \in Camera
        /\ UNCHANGED <<memory, valid, announced, reader, copy, expected, lost>>
    BY DEF Image!CaptureFrame, Image!FailCapture, Image!LockMemory, Image!AfterFailure,
       Camera
  <1>2. image' \in Image!Frames /\ image' >= image
    BY PartsAreNumbers DEF Image!CaptureFrame, Image!FailCapture, Image!LockMemory,
       ImageInv, ImageTyped, Image!Frames, Image!SharedImageAssumption
  <1>3. \/ camera' # "copying" /\ lock' = lock
        \/ camera' = "copying" /\ lock' = "camera" /\ lock = "free"
    BY DEF Image!CaptureFrame, Image!FailCapture, Image!LockMemory, Image!AfterFailure,
       Image!MayCopy
  <1>4. ImageTyped'
    BY <1>1, <1>2, <1>3 DEF ImageInv, ImageTyped
  <1>5. LockHeld'
    BY <1>1, <1>3 DEF ImageInv, LockHeld
  <1>6. Newest'
    <2>1. memory[1] = memory[2] /\ memory[1] <= image
      BY <1>1 DEF ImageInv, Newest
    <2>2. image' \in Nat
      BY <1>2, FramesAreNumbers
    <2> QED
      BY <1>1, <1>2, <2>1, <2>2, PartsAreNumbers DEF Newest
  <1>7. AnnouncedInMemory'
    BY <1>1 DEF ImageInv, AnnouncedInMemory
  <1>8. ReaderFollows'
    BY <1>1 DEF ImageInv, ReaderFollows
  <1> QED
    BY <1>4, <1>5, <1>6, <1>7, <1>8 DEF ImageInv

(* The copy: the halves grow one after the other, while nobody reads.      *)
LEMMA CopySteps ==
    ASSUME Image!SharedImageAssumption, ImageInv, Image!CopyImageTo
    PROVE  ImageInv'
  <1>1. /\ camera = "copying" /\ lock = "camera"
        /\ reader \notin {"copying", "halfway"}
        /\ UNCHANGED <<valid, image, announced, reader, copy, expected, lost>>
    BY DEF Image!CopyImageTo, ImageInv, LockHeld
  <1>2. \/ camera' = "copying" /\ lock' = "camera"
        \/ camera' = "captured" /\ lock' = "free"
    BY <1>1 DEF Image!CopyImageTo
  <1>3. /\ memory' \in Image!Frames \X Image!Frames /\ memory'[1] = image
        /\ memory'[2] = IF memory[1] # image THEN memory[2] ELSE image
    <2>1. memory \in Image!Frames \X Image!Frames /\ image \in Image!Frames
      BY DEF ImageInv, ImageTyped
    <2>2. CASE memory[1] # image
      <3>1. memory' = [memory EXCEPT ![1] = image]
        BY <2>2 DEF Image!CopyImageTo
      <3> QED
        BY <2>1, <2>2, <3>1, FirstReplaced
    <2>3. CASE memory[1] = image
      <3>1. memory' = [memory EXCEPT ![2] = image]
        BY <2>3 DEF Image!CopyImageTo
      <3> QED
        BY <2>1, <2>3, <3>1, SecondReplaced
    <2> QED
      BY <2>2, <2>3
  <1>4. memory'[2] \in Nat /\ memory'[2] >= memory[2] /\ memory'[2] <= image
    BY <1>3, PartsAreNumbers DEF ImageInv, Newest
  <1>5. ImageTyped'
    BY <1>1, <1>2, <1>3 DEF ImageInv, ImageTyped, Camera
  <1>6. LockHeld'
    BY <1>1, <1>2 DEF LockHeld
  <1>7. Newest'
    <2>1. camera' # "copying" => memory[1] = image
      BY <1>1 DEF Image!CopyImageTo
    <2>2. memory'[2] <= memory'[1] /\ memory'[1] <= image
      BY <1>3, <1>4, PartsAreNumbers
    <2>3. camera' # "copying" => memory'[1] = memory'[2]
      BY <1>3, <2>1
    <2> QED
      BY <1>1, <2>2, <2>3 DEF Newest
  <1>8. AnnouncedInMemory'
    <2> SUFFICES ASSUME NEW k \in 1 .. Len(announced)
                 PROVE  announced[k] <= memory'[2]
      BY <1>1 DEF AnnouncedInMemory
    <2>1. announced[k] <= memory[2]
      BY DEF ImageInv, AnnouncedInMemory
    <2>2. announced[k] \in Nat
      BY FramesAreNumbers DEF ImageInv, ImageTyped
    <2> QED
      BY <1>4, <2>1, <2>2, PartsAreNumbers
  <1>9. ReaderFollows'
    <2>a. expected <= memory[2]
      BY DEF ImageInv, ReaderFollows
    <2>1. expected <= memory'[2]
      BY <1>4, <2>a, PartsAreNumbers
    <2> QED
      BY <1>1, <2>1 DEF ImageInv, ReaderFollows
  <1> QED
    BY <1>5, <1>6, <1>7, <1>8, <1>9 DEF ImageInv

(* What leaves or joins the queue of announcements.                        *)
LEMMA QueueSteps ==
    ASSUME NEW S, NEW s \in Seq(S), NEW e \in S
    PROVE  /\ Append(s, e) \in Seq(S) /\ Len(Append(s, e)) = Len(s) + 1
           /\ \A k \in 1 .. Len(s) + 1 :
                Append(s, e)[k] = IF k = Len(s) + 1 THEN e ELSE s[k]
           /\ s # <<>> =>
                /\ Tail(s) \in Seq(S) /\ Len(Tail(s)) = Len(s) - 1
                /\ Len(s) \in Nat \ {0} /\ Head(s) = s[1] /\ Head(s) \in S
                /\ \A k \in 1 .. Len(s) - 1 : Tail(s)[k] = s[k + 1]
  OBVIOUS

(* What is announced is in the memory already, in both halves.             *)
LEMMA SendStep ==
    ASSUME Image!SharedImageAssumption, ImageInv, Image!Send
    PROVE  ImageInv'
  <1>1. /\ camera = "captured" /\ camera' = "waiting"
        /\ announced' = Append(announced, memory[1]) /\ Len(announced) < MaxAnnounced
        /\ UNCHANGED <<memory, valid, lock, image, reader, copy, expected, lost>>
    BY DEF Image!Send
  <1>2. memory[1] = memory[2] /\ memory[1] \in Image!Frames /\ announced \in Seq(Image!Frames)
    BY <1>1, PairParts DEF ImageInv, ImageTyped, Newest
  <1>3. /\ announced' \in Seq(Image!Frames) /\ Len(announced') = Len(announced) + 1
        /\ \A k \in 1 .. Len(announced) + 1 :
             announced'[k] = IF k = Len(announced) + 1 THEN memory[1] ELSE announced[k]
    BY <1>1, <1>2, QueueSteps
  <1>4. ImageTyped'
    <2>1. Len(announced') <= MaxAnnounced
      BY <1>1, <1>2, <1>3 DEF Image!SharedImageAssumption
    <2> QED
      BY <1>1, <1>3, <2>1 DEF ImageInv, ImageTyped, Camera
  <1>5. LockHeld'
    BY <1>1 DEF ImageInv, LockHeld
  <1>6. Newest'
    BY <1>1, <1>2 DEF ImageInv, Newest
  <1>7. AnnouncedInMemory'
    <2>1. \A k \in 1 .. Len(announced) : announced[k] <= memory[2]
      BY DEF ImageInv, AnnouncedInMemory
    <2> SUFFICES ASSUME NEW k \in 1 .. Len(announced) + 1
                 PROVE  announced'[k] <= memory[2]
      BY <1>1, <1>3 DEF AnnouncedInMemory
    <2>2. announced'[k] = IF k = Len(announced) + 1 THEN memory[1] ELSE announced[k]
      BY <1>3
    <2>3. CASE k = Len(announced) + 1
      BY <1>2, <2>2, <2>3, PartsAreNumbers
    <2>4. CASE k \in 1 .. Len(announced)
      BY <2>1, <2>2, <2>4, <1>2
    <2>5. Len(announced) \in Nat
      BY <1>2
    <2> QED
      BY <2>3, <2>4, <2>5
  <1>8. ReaderFollows'
    BY <1>1 DEF ImageInv, ReaderFollows
  <1> QED
    BY <1>4, <1>5, <1>6, <1>7, <1>8 DEF ImageInv

(* An announcement is taken out: lost, ignored or obeyed.                  *)
LEMMA ReceiveSteps ==
    ASSUME Image!SharedImageAssumption, ImageInv, Image!Lose \/ Image!NextContainer
    PROVE  ImageInv'
  <1>1. /\ announced # <<>> /\ announced' = Tail(announced)
        /\ UNCHANGED <<memory, valid, lock, camera, image, copy>>
    BY DEF Image!Lose, Image!NextContainer
  <1>2. \/ UNCHANGED <<reader, expected>>
        \/ reader = "idle" /\ reader' = "locking" /\ expected' = Head(announced)
    BY DEF Image!Lose, Image!NextContainer
  <1>3. announced \in Seq(Image!Frames) /\ memory[2] \in Image!Frames
    BY PairParts DEF ImageInv, ImageTyped
  <1>4. /\ announced' \in Seq(Image!Frames) /\ Len(announced') = Len(announced) - 1
        /\ Len(announced) \in Nat \ {0} /\ Head(announced) = announced[1]
        /\ Head(announced) \in Image!Frames
        /\ \A k \in 1 .. Len(announced) - 1 : announced'[k] = announced[k + 1]
    BY <1>1, <1>3, QueueSteps
  <1>5. \A k \in 1 .. Len(announced) : announced[k] <= memory[2]
    BY DEF ImageInv, AnnouncedInMemory
  <1>6. ImageTyped'
    <2>1. Len(announced') <= MaxAnnounced
      BY <1>4 DEF ImageInv, ImageTyped, Image!SharedImageAssumption
    <2>a. lost \in 0 .. MaxLost
      BY DEF ImageInv, ImageTyped
    <2>b. \/ lost' = lost
          \/ lost < MaxLost /\ lost' = lost + 1
      BY DEF Image!Lose, Image!NextContainer
    <2>2. lost' \in 0 .. MaxLost
      BY <2>a, <2>b DEF Image!SharedImageAssumption
    <2>3. reader' \in Stages /\ expected' \in Image!Frames
      BY <1>2, <1>4 DEF ImageInv, ImageTyped, Stages
    <2> QED
      BY <1>1, <1>4, <2>1, <2>2, <2>3 DEF ImageInv, ImageTyped
  <1>7. LockHeld'
    BY <1>1, <1>2 DEF ImageInv, LockHeld
  <1>8. Newest'
    BY <1>1 DEF ImageInv, Newest
  <1>9. AnnouncedInMemory'
    <2> SUFFICES ASSUME NEW k \in 1 .. Len(announced) - 1
                 PROVE  announced[k + 1] <= memory[2]
      BY <1>1, <1>4 DEF AnnouncedInMemory
    <2> QED
      BY <1>4, <1>5
  <1>10. ReaderFollows'
    <2>a. expected <= memory[2]
      BY DEF ImageInv, ReaderFollows
    <2>b. Head(announced) <= memory[2]
      BY <1>4, <1>5
    <2>1. expected' <= memory[2]
      BY <1>2, <2>a, <2>b
    <2> QED
      BY <1>1, <1>2, <2>1 DEF ImageInv, ReaderFollows
  <1> QED
    BY <1>6, <1>7, <1>8, <1>9, <1>10 DEF ImageInv

(* The reader gets ready, or gets the lock.                                *)
LEMMA ReaderSteps ==
    ASSUME Image!SharedImageAssumption, ImageInv, Image!SetUpReader \/ Image!LockForReading
    PROVE  ImageInv'
  <1>1. UNCHANGED <<memory, valid, camera, image, announced, copy, expected, lost>>
    BY DEF Image!SetUpReader, Image!LockForReading
  <1>2. \/ reader = "starting" /\ reader' = "idle" /\ lock' = lock
        \/ reader = "locking" /\ reader' = "copying" /\ lock = "free" /\ lock' = "reader"
    BY DEF Image!SetUpReader, Image!LockForReading, Image!MayCopy
  <1>3. ImageTyped'
    BY <1>1, <1>2 DEF ImageInv, ImageTyped, Stages
  <1>4. LockHeld'
    BY <1>1, <1>2 DEF ImageInv, LockHeld
  <1>5. Newest'
    BY <1>1 DEF ImageInv, Newest
  <1>6. AnnouncedInMemory'
    BY <1>1 DEF ImageInv, AnnouncedInMemory
  <1>7. ReaderFollows'
    <2>1. reader = "starting" => copy[1] >= expected
      <3>1. reader = "starting" => expected = 0
        BY DEF ImageInv, ReaderFollows
      <3> QED
        BY <3>1, PartsAreNumbers
    <2> QED
      BY <1>1, <1>2, <2>1 DEF ImageInv, ReaderFollows
  <1> QED
    BY <1>3, <1>4, <1>5, <1>6, <1>7 DEF ImageInv

(* Both halves are copied under the lock, so from the same memory.         *)
LEMMA ReadSteps ==
    ASSUME Image!SharedImageAssumption, ImageInv, Image!CopyFirstHalf \/ Image!CopySecondHalf
    PROVE  ImageInv'
  <1>1. /\ camera # "copying" /\ lock = "reader" /\ memory[1] = memory[2]
        /\ UNCHANGED <<memory, valid, camera, image, announced, expected, lost>>
    BY DEF Image!CopyFirstHalf, Image!CopySecondHalf, ImageInv, LockHeld, Newest
  <1>2. \/ reader' = "halfway" /\ lock' = "reader" /\ copy' = [copy EXCEPT ![1] = memory[1]]
        \/ /\ reader = "halfway" /\ reader' = "idle" /\ lock' = "free"
           /\ copy' = [copy EXCEPT ![2] = memory[2]]
    BY <1>1 DEF Image!CopyFirstHalf, Image!CopySecondHalf
  <1>3. copy \in Image!Frames \X Image!Frames /\ memory[1] \in Image!Frames /\ memory[2] \in Image!Frames
    BY PairParts DEF ImageInv, ImageTyped
  <1>4. /\ copy' \in Image!Frames \X Image!Frames
        /\ reader' = "halfway" => copy'[1] = memory[1]
        /\ reader' = "idle" => copy'[1] = copy[1] /\ copy'[2] = memory[2]
    <2>1. CASE copy' = [copy EXCEPT ![1] = memory[1]] /\ reader' = "halfway"
      <3>1. copy' \in Image!Frames \X Image!Frames /\ copy'[1] = memory[1]
        BY <1>3, <2>1, FirstReplaced
      <3> QED
        BY <2>1, <3>1
    <2>2. CASE copy' = [copy EXCEPT ![2] = memory[2]] /\ reader' = "idle"
      <3>1. /\ copy' \in Image!Frames \X Image!Frames
            /\ copy'[1] = copy[1] /\ copy'[2] = memory[2]
        BY <1>3, <2>2, SecondReplaced
      <3> QED
        BY <2>2, <3>1
    <2> QED
      BY <1>2, <2>1, <2>2
  <1>5. ImageTyped'
    BY <1>1, <1>2, <1>4 DEF ImageInv, ImageTyped, Stages
  <1>6. LockHeld'
    BY <1>1, <1>2 DEF LockHeld
  <1>7. Newest'
    BY <1>1 DEF ImageInv, Newest
  <1>8. AnnouncedInMemory'
    BY <1>1 DEF ImageInv, AnnouncedInMemory
  <1>9. ReaderFollows'
    <2>1. expected <= memory[2]
      BY DEF ImageInv, ReaderFollows
    <2>2. reader = "halfway" => copy[1] = memory[1]
      BY DEF ImageInv, ReaderFollows
    <2>3. reader' = "idle" => copy'[1] = memory[1] /\ copy'[2] = memory[1]
      BY <1>1, <1>2, <1>4, <2>2
    <2> QED
      BY <1>1, <1>2, <1>4, <2>1, <2>3, PartsAreNumbers DEF ReaderFollows
  <1> QED
    BY <1>5, <1>6, <1>7, <1>8, <1>9 DEF ImageInv

LEMMA ImageStep ==
    ASSUME Image!SharedImageAssumption, ImageInv, [Image!Next]_(Image!vars)
    PROVE  ImageInv'
  <1>1. CASE Image!Next
    BY <1>1, CameraSteps, CopySteps, SendStep, ReceiveSteps, ReaderSteps, ReadSteps
       DEF Image!Next
  <1>2. CASE UNCHANGED Image!vars
    <2>1. UNCHANGED <<memory, valid, lock, camera, image, announced, reader, copy,
                      expected, lost>>
      BY <1>2 DEF Image!vars
    <2>2. ImageTyped'
      BY <2>1 DEF ImageInv, ImageTyped
    <2>3. LockHeld' /\ Newest'
      BY <2>1 DEF ImageInv, LockHeld, Newest
    <2>4. AnnouncedInMemory' /\ ReaderFollows'
      BY <2>1 DEF ImageInv, AnnouncedInMemory, ReaderFollows
    <2> QED
      BY <2>2, <2>3, <2>4 DEF ImageInv
  <1> QED
    BY <1>1, <1>2

-----------------------------------------------------------------------------
(* The four together: whichever was chosen keeps its own invariant.        *)

ModuleInv ==
    /\ module \in {"LED strip", "PS3 controller", "SICK", "camera"}
    /\ module = "LED strip" => LedInv
    /\ module = "PS3 controller" => PS3Inv
    /\ module = "SICK" => SickInv
    /\ module = "camera" => ImageInv

LEMMA ModuleInitially ==
    ASSUME ModuleInit
    PROVE  ModuleInv
  <1>1. CASE module = "LED strip"
    BY <1>1, LedInitially DEF ModuleInit, ModuleInv
  <1>2. CASE module = "PS3 controller"
    BY <1>2, PS3Initially, TimeTriggeredAssumption DEF ModuleInit, ModuleInv
  <1>3. CASE module = "SICK"
    BY <1>3, SickInitially, TimeTriggeredAssumption DEF ModuleInit, ModuleInv
  <1>4. CASE module = "camera"
    BY <1>4, ImageInitially, TimeTriggeredAssumption DEF ModuleInit, ModuleInv
  <1> QED
    BY <1>1, <1>2, <1>3, <1>4 DEF ModuleInit

LEMMA ModuleStep ==
    ASSUME ModuleInv, [LedNext \/ PS3Next \/ SickNext \/ ImageNext]_moduleVars
    PROVE  ModuleInv'
  <1>1. CASE LedNext
    BY <1>1, LedStep DEF LedNext, OfLed, ModuleInv
  <1>2. CASE PS3Next
    BY <1>2, PS3Step, TimeTriggeredAssumption DEF PS3Next, OfPS3, ModuleInv
  <1>3. CASE SickNext
    BY <1>3, SickStep, TimeTriggeredAssumption DEF SickNext, OfSick, ModuleInv
  <1>4. CASE ImageNext
    BY <1>4, ImageStep, TimeTriggeredAssumption DEF ImageNext, OfImage, ModuleInv
  <1>5. CASE UNCHANGED moduleVars
    <2>1. UNCHANGED <<module, pc, ledVars, ps3Vars, sickVars, imageVars>>
      BY <1>5 DEF moduleVars
    <2>2. UNCHANGED vars
      BY <2>1 DEF vars, ledVars
    <2>3. UNCHANGED PS3!vars
      BY <2>1 DEF PS3!vars, PS3!history, PS3!joystick, ps3Vars
    <2>4. UNCHANGED Sick!vars
      BY <2>1 DEF Sick!vars, sickVars
    <2>5. UNCHANGED Image!vars
      BY <2>1 DEF Image!vars, imageVars
    <2>6. CASE module = "LED strip"
      BY <2>1, <2>2, <2>6, LedStep DEF ModuleInv
    <2>7. CASE module = "PS3 controller"
      BY <2>1, <2>3, <2>7, PS3Step, TimeTriggeredAssumption DEF ModuleInv
    <2>8. CASE module = "SICK"
      BY <2>1, <2>4, <2>8, SickStep, TimeTriggeredAssumption DEF ModuleInv
    <2>9. CASE module = "camera"
      BY <2>1, <2>5, <2>9, ImageStep, TimeTriggeredAssumption DEF ModuleInv
    <2> QED
      BY <2>6, <2>7, <2>8, <2>9 DEF ModuleInv
  <1> QED
    BY <1>1, <1>2, <1>3, <1>4, <1>5

LEMMA ModuleInvariance == ModuleSpec => []ModuleInv
  <1>1. ModuleInit => ModuleInv
    BY ModuleInitially
  <1>2. ModuleInv /\ [LedNext \/ PS3Next \/ SickNext \/ ImageNext]_moduleVars
           => ModuleInv'
    BY ModuleStep
  <1> QED
    BY <1>1, <1>2, PTL DEF ModuleSpec

-----------------------------------------------------------------------------
(* Whichever module runs keeps its types: a byte is a byte, the buffer of  *)
(* the joystick never fills, announcements are at most MaxAnnounced.       *)
THEOREM ModuleTyped == ModuleSpec => []ModuleTypeOK
  <1>1. ModuleInv => ModuleTypeOK
    <2>1. LedInv => TypeOK
      BY DEF LedInv
    <2>2. PS3Inv => PS3!TypeOK
      BY DEF PS3Inv
    <2>3. SickInv => Sick!TypeOK
      BY DEF SickInv
    <2>4. ImageInv => Image!TypeOK
      BY DEF ImageInv, ImageTyped, Image!TypeOK, Camera, Stages
    <2> QED
      BY <2>1, <2>2, <2>3, <2>4 DEF ModuleInv, ModuleTypeOK
  <1> QED
    BY <1>1, ModuleInvariance, PTL

(* A pass of the LED strip that no container came into sends a percentage, *)
(* whatever the angle: the cap of 50 is enough.                            *)
THEOREM UndisturbedIsPercentage == ModuleSpec => []LedUndisturbedPercentage
  <1>1. ModuleInv => LedUndisturbedPercentage
    BY DEF ModuleInv, LedInv, LedUndisturbedPercentage
  <1> QED
    BY <1>1, ModuleInvariance, PTL

(* Disturbed or not, the fifth byte is the exclusive or of the other four. *)
THEOREM FramesChecked == ModuleSpec => []LedChecksumOfFrame
  <1>1. ModuleInv => LedChecksumOfFrame
    BY DEF ModuleInv, LedInv, LedChecksumOfFrame
  <1> QED
    BY <1>1, ModuleInvariance, PTL

(* Nothing is asked for before a stick is moved, wherever the sticks       *)
(* stand, however often the queue of the joystick overflows.               *)
THEOREM NothingBeforeMoved == ModuleSpec => []PS3ZeroUntilMoved
  <1>1. PS3Inv => PS3!ZeroUntilMoved
    BY DEF PS3Inv, PS3!ZeroUntilMoved
  <1>2. ModuleInv => PS3ZeroUntilMoved
    BY <1>1 DEF ModuleInv, PS3ZeroUntilMoved
  <1> QED
    BY <1>2, ModuleInvariance, PTL

(* Over any number of crashes, losses of power and restarts, scans in      *)
(* millimeters are decoded only after a start through a stopped port.      *)
THEOREM CentimetersOnly == ModuleSpec => []SickOnlyCentimeters
  <1>1. ModuleInv => SickOnlyCentimeters
    BY DEF ModuleInv, SickInv, ScansCentimeters, SickOnlyCentimeters
  <1> QED
    BY <1>1, ModuleInvariance, PTL

(* What the reader shows is one frame, no older than the one announced:    *)
(* copy and lock of the camera, announcement and copy of the reader work   *)
(* together, for any number of frames, announcements and losses.           *)
THEOREM ImageSafe == ModuleSpec => []ImageShownAsAnnounced
  <1>1. ImageInv => Image!ShownAsAnnounced
    BY DEF ImageInv, ImageTyped, ReaderFollows, Image!ShownAsAnnounced
  <1>2. ModuleInv => ImageShownAsAnnounced
    BY <1>1 DEF ModuleInv, ImageShownAsAnnounced
  <1> QED
    BY <1>2, ModuleInvariance, PTL
=============================================================================
