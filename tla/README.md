# A TLA+ verification of OpenDLV.core

OpenDLV.core is a collection of small programs ("proxies") that connect the
sensors and actuators of a vehicle to the OpenDaVINCI conference, a message bus
between processes. This directory holds TLA+ models of the proxies whose logic
is hard to get right and hard to test, the TLC configurations that check them on
small instances, and theorems that the TLA+ proof system (TLAPS) checks for
every instance.

Run, in this directory:

    tlc -config Velodyne16_full.cfg Velodyne16Decoder.tla     (see the table of runs)
    tlapm Velodyne16Decoder_proofs.tla                        (and the other *_proofs.tla)


## 1. The system

Paths are below `src/code/core/system` unless they say otherwise. Every program
is an OpenDaVINCI client module: `setUp` reads the configuration and opens the
device, `body` runs until the module is told to stop (for most in time slices),
`tearDown` closes the device. A receiver thread of OpenDaVINCI (UDP, TCP or
serial line) calls `nextString` or `nextPacket` of a listener, and the
conference's thread calls `nextContainer`.

| component | state it keeps | operations | what makes it hard |
|---|---|---|---|
| VLP-16 decoder (`proxy-velodyne16/src/velodyne16Decoder.cpp`) | azimuths (current, previous, read ahead, difference), segment of points with index and write position, two streams of distances, row counter | `nextString`, `sendPointCloud` | frames cut at 360 degrees, azimuths interpolated and taken over from block to block, frames that become full in the middle of a block, lost packets, two clouds cut together |
| HDL-32E decoder (`proxy-velodyne32/src/velodyne32Decoder.cpp`) | the same without interpolation, three streams per cloud | `nextString`, `sendPointCloud`, `sendCPC` | one row spread over three messages; the capacity is no multiple of a row |
| HDL-64E decoder (`proxy-velodyne64/src/velodyne64Decoder.cpp`) | segment, azimuth, upper or lower block | `nextString`, `sendSharedPointCloud` | a firing comes as two blocks |
| Velodyne modules (`proxy-velodyne*/src/ProxyVelodyne*.cpp`) | receiver, decoder, shared memory | `setUp`, `tearDown` | order of creation, sizes from the configuration |
| Applanix decoder (`proxy-applanix/src/ApplanixStringDecoder.cpp`) | stringstream with two positions, `m_toRemove`, the header found | `nextString` | TCP splits messages anywhere; unsigned differences of positions; trimming |
| SICK decoder (`proxy-sick/src/SickStringDecoder.cpp`) | stringstream, header flag, a static byte counter, 1000 bytes of measurements | `nextString`, `tryDecode` | the serial line splits telegrams anywhere; leftovers |
| SICK module (`proxy-sick/src/ProxySick.cpp`) | cycle counter, port, baud rate | `setUp`, `body`, `tearDown` | commands sent at fixed cycles, unconfirmed; two baud rates; the scanner outlives the program |
| Trimble decoder (`proxy-trimble/src/TrimbleStringDecoder.cpp`) | the last position | `nextString` | every TCP chunk is decoded alone |
| LED strip (`proxy-ledstrip/src/ProxyLEDStrip.cpp`) | the angle, shared by two threads without a lock | `nextContainer`, `body` | the angle changes between its reads |
| IMU (`proxy-imu/src/Pololualtimu10device.cpp`, `ProxyIMU.cpp`) | calibration in memory and in a file | constructor, `Read...`, `saveCalibrationFile` | crashes during a save, failed reads, restarts |
| Angle sensor (`proxy-anglesensor/src/ProxyAnglesensor.cpp`) | calibration in memory and in a file | `Calibrate`, `LoadCalibration`, `SaveCalibration`, `body` | the same; exceptions in `tearDown` |
| PS3 controller (`ps3controller/src/PS3Controller.cpp`) | the last command | `body`, `tearDown` | the kernel's queue overflows; a silent or unplugged stick |
| V2V (`proxy-v2v/src/ProxyV2V.cpp`) | sender, receiver | `nextPacket`, `nextContainer` | start-up and shut-down order |
| Cameras (`proxy-camera`, `proxy-camera-axis`, `src/code/tool/camera-replay`) | image in shared memory | `capture`, `body` | readers of the shared memory, failed captures, lost announcements |
| Camera projection (`src/code/tool/camera-projection`) | image, menu, text typed, corners clicked, matrices and their file | `nextContainer`, `body`, mouse callback | clicks, keys and time slices without a key in any order |
| Health (`health/src/Health.cpp`) | none | `body` | - |
| OpenDaVINCI | external library | conference, shared memory and lock, receivers | - |

The components talk only through the conference and, for point clouds and
images, through a shared memory whose descriptor is sent on the conference. No
component waits for an answer of another one; only the lock of a shared memory
makes one wait.

What makes each of them correct:

- *Velodyne*: the points of a frame are those of one turn of the sensor, each
  with the azimuth it was fired at; a frame is sent when the turn is complete;
  nothing is written outside the segment or read off the fields of a packet.
- *Applanix, SICK, Trimble*: what is sent are messages the device sent, whole,
  in order and once, wherever the stream was split; no message is missed but for
  stated reasons; the buffer stays bounded.
- *LED strip*: a frame lights a part of the strip, and in the end the part the
  last aim point asks for.
- *IMU, angle sensor*: a restart finds the calibration that was saved, and
  nothing is sent that the calibration does not bear out.
- *PS3*: nothing is asked for before the driver moves a stick; the requests settle
  on the events the kernel kept, and nothing is left of what came before events
  were lost; a joystick that is gone leaves a request of zero.
- *Proxies with a receiver*: nothing is used before it is created or after it is
  destroyed.
- *SICK module*: what is decoded was scanned in centimeters, and scans come at last.
- *Cameras*: a reader shows one whole image, at least as new as the one announced,
  and in the end the last one.
- *Projection tool*: the configuration is what was typed, a matrix is computed
  from corners of one round of clicks.

The list `hazards` in `PROJECT.json` names, line by line, what can go wrong in
ways a test would hardly reach. The properties below are aimed at that list.


## 2. The modules

A definition whose name ends in `Slip` is a plausible mistake in the definition
behind it (a lost guard, an index off by one, a missing reset). Each property was
checked against such a mistake: with it, the property fails.

| module | what it is |
|---|---|
| `ScanFrames` | abstract: what a Velodyne decoder promises |
| `Velodyne16Decoder`, `Velodyne32Decoder`, `Velodyne64Decoder` | the three decoders |
| `MessageStream` | abstract: what a decoder of a byte stream promises |
| `ApplanixStringDecoder`, `SickStringDecoder`, `TrimbleStringDecoder` | the three decoders |
| `ReceivingProxies` | set-up and shut-down of the six proxies with a receiver |
| `ProxyLEDStrip`, `PS3Controller`, `ProxySick`, `SharedImage` | modules that work in time slices, each with what interferes with it |
| `PololuAltImu10Device`, `ProxyAnglesensor`, `CameraProjection` | what is calibrated, with its file, over restarts |
| `MCVelodyneHDL`, `MCByteStreams`, `MCTimeTriggered`, `MCCalibration` | instances for TLC |
| `*_proofs` | theorems, section 4 |

The four MC modules put related components next to each other: a variable
(`decoder`, `module` or `sensor`) is chosen by the initial state and kept, and
Next is that of the component chosen. Variables with the same meaning are
shared; those of the others keep a value `Unused`. Nothing is composed by this:
the run asks each component its question, and a question that several of them
answer (`AllPassOnMessages`, `SensorsFindWhatWasSaved`) is stated once.

### Velodyne

`ScanFrames`: while the sensor makes one turn, points of this turn with their
true azimuths are collected in the order of firing; they are published together
when a later turn begins. A point may be left out (no echo, full frame), never
moved to another turn.

`Velodyne16Decoder` has one action per decision of the loop of `nextString`:

| action | code (velodyne16Decoder.cpp) |
|---|---|
| `LosePacket`, `ReceivePacket` | a UDP packet is lost, or `nextString` is called with it (267-275) |
| `ContinueScan`, `CompleteScan` | azimuth of the block, and `sendPointCloud` where it falls (276-295) |
| `EnterBlock`, `SkipBlock` | the frame has room, or not (298, 424-426) |
| `ContinueHalf`, `CompleteHalf` | the azimuth of the second firing, with the read-ahead and the wrap (302-323) |
| `DecodeBeam` | point, row, capacity, next beam (325-423) |

`SendPointCloud` stands for `sendPointCloud` (220-265) and is part of the
actions that call it. `firedAt` is a history variable that says where the head
really stood; only properties read it. Points are records of the position of the
head when they were fired, the beam, and the azimuth the decoder gave them, so
that "the right azimuth" and "the right turn" can be stated.

`Velodyne32Decoder` and `Velodyne64Decoder` follow the same plan without
interpolation (and, for the 64, without a compact cloud). In the 32 the rows go
into three streams by the rule on the layer (`PartOf`), and a row is known by the
instant it was stored at, so that the parts can be compared. In the 64 an upper
block and the lower block behind it are one firing. `MCVelodyneHDL` states the
refinement for both: a frame holds what the decoder that runs has room for
(`HDLCollect`; 70000 points in the 32, 101000 in the 64).

Assumptions: the shared memory is valid (`setUp` created it). Packets arrive in
order, and less than a turn is lost at once: the decoder cannot tell a reordered
packet or a lost turn from a new turn. The sensors fire at a constant rate of
`Step` units per block and `Turn` is even; azimuths are integers (the code has
hundredths of degrees as floats).

### Byte streams

`MessageStream`: the decoder passes on messages that have arrived completely, in
order, each at most once. It may miss one.

`ApplanixStringDecoder`: `NextString` (472-478), then the loop: `DecodePayload`
(491-571), `ReadHeader`, `SkipByte`, `ReadPastEnd` (573-655), `NoHeaderYet` and
`Exhausted` (480-489), and the trimming `DiscardRead` or `KeepBuffer` (658-668).
Bytes are named by their number in the stream; the stringstream is what its
members do: `tellp`, `tellg`, seeking and reading past the end set the fail bit,
after which nothing is read or written until `clear()`. The unsigned differences
are taken modulo `Word`. Assumption: no payload contains `$GRP` and a known
number by chance, and the sizes of the device include the footer, as in the dump
`proxy-applanix/testsuites`.

`SickStringDecoder`: `NextString` (256-266), and per call of `tryDecode`
`StorePayload` (174-185), `CompletePayload` (187-194), `FindHeader` (196-211),
`FindConfirmation` (232-248), `DropByte` (270-273). Telegrams are measurements,
confirmations of the start, or other ones.

`TrimbleStringDecoder`: one action, `NextString` (53-213), as a call keeps
nothing but the old position: the chunk is split at `$`, every GPGGA sentence in
it replaces the coordinate, and one coordinate is sent. All sentences are cut
into the same nine pieces, in the middle of the type, of the latitude and of the
longitude too; a coordinate says which sentence it is from, whether its digits
were whole and whether they were converted to degrees.

`ReceivingProxies`: `Steps` lists, for each of the six proxies, what `setUp`
creates and sets in which order, `Needs` what the receiver's thread uses.
`CreatePart`, `FailToCreate`, `Set`, `EndSetUp` are `setUp`; `StopReceiver` and
`TakeListener` are `tearDown`, `Destroy` is the destruction of the members;
`Deliver`, `EndDelivery` (the receiver's thread) and `NextContainer` (the
conference's) come between any two. A thread that needs a part that is not there
ends in "crashed".

### Modules in time slices

`ProxyLEDStrip`: `NextContainer` is the conference's thread, `StartPass`,
`CapAngle` and `SendFrame` are the parts of one pass of `body` between which it
may run, since `m_angle` is read again in each. That is a data race; the model
lets every read return the value of that moment or, where the compiler may have
kept it in a register, the one read before. The conversion of a float outside
0..255 to a byte is undefined: it truncates or yields 0. `FramesSettle` is
about the last aim point (`aimed`): its frame is what stays, unless it came after
the comparison with the cap (102) and before the cap was written (104, 109).
That one the code loses, and an end of the strip stays lit (`overwritten`).

`PS3Controller`: `StartCycle`, `ReadEvent` for each event of the queue,
`SendActuationRequest` or `FailRead`, and `Stop` are `body` (134-281);
`TearDown` sends the last request. `MoveStick`, `KillButton` and `Unplug` are the
driver. The device is joydev of the kernel. A read returns a synthetic event of
each axis first, in ascending order, with the position it has at that moment
(`Synthetic`); an event is put into the buffer (`Kept`) only when all of these
have been read, and is lost otherwise. The event that would fill the buffer
empties it, and the synthetic events start over (`Overflow`). `meant` is what the
events that were kept add up to, and zero after an overflow; `Settled` says that
the requests are that in the end, and that a request that is not zero is what its
stick asks for where it stands.

`ProxySick`: `SetUp`, then in every slice `WaitSlice`, `SendCommand` or
`ReopenPort`/`FailReopen` according to `Schedule` (87-119), `TearDown`. `Crash`
ends the program and leaves the scanner as it is, `LosePower` puts the scanner
back to 9600 baud. The scanner obeys a command only at its own baud rate
(`Heard`); `Scan` is a scan that reaches the port.

`SharedImage`: `CaptureFrame` or `FailCapture`, `LockMemory`, `CopyImageTo`,
`Send` are a time slice of the camera module; the image is copied in two halves,
since only the lock makes it one. `SetUpReader`, `NextContainer`,
`LockForReading`, `CopyFirstHalf`, `CopySecondHalf` are the projection tool.
SharedImages travel in a queue and may be lost (`Lose`).

### Calibrations

`PololuAltImu10Device`: `StartFromFile`, `StartFresh` and `StartWithoutBus` are
the constructor; `ReadAccelerometer` and `ReadMagnetometer` a pass of `body`;
`OpenToSave`, `SaveLine` for each line that `std::endl` flushes, and
`CloseSaved` are `tearDown`, and `StopWithoutSaving` one that writes nothing;
`Crash` may come between any two. Writing a float and reading it back keeps six
digits (`Rounded`). A failed read of the bus may yield any reading. `saved` is
what the save begun last has to write, `cut` whether it was cut short.

`ProxyAnglesensor`: `StartCalibrating`, `StartFromFile`, `StartFromTorn` are
`setUp` and the decision of `body` whether to calibrate (57-65, 129-160);
`Calibrate`, `FinishCalibration`, `StopCalibration` the loop of `Calibrate`;
`SendReading`, `FailReading` (an exception), `Stop` the rest of `body`;
`StopWithoutSaving`, `OpenToSave`, `SaveValues`, `FailToSave` are
`SaveCalibration`, which truncates the file before it looks for the values;
`Crash` may come anywhere. The angle is a fraction.

`CameraProjection`: `EnterCalibration`, `EnterConfiguration`, `Save`,
`EnterProjection`, `Quit` are the menu; `TypeCharacter`, `Backspace`,
`EnterValues` the configuration, with the character -1 that `waitKey` returns
when no key was pressed; `LeftClick`, `RightClick` the mouse callback;
`EndCalibration`, `EndProjection` a key that ends them; `Restart` the next run,
which finds the file (`Save` may fail to open it). Matrices are known by what
they were computed from.


## 3. The runs

| run | what it asks | answer |
|---|---|---|
| `velodyne16_scan` | Does the decoder implement `ScanFrames`, for the points of the shared and the rows of the compact cloud? Is a firing left out at a cut, does the header of a compact cloud fit its rows, are the two clouds of a turn of the same firings? | yes, while no frame overflows |
| `velodyne16_full` | With frames that overflow anywhere in a block: positions in segment and packet, rows and counters, rising azimuths | hold |
| `velodyne16_cut` | Is a frame sent only when a scan is complete, also after an overflow? | no: finding 1 |
| `velodyne_hdl` | HDL-32E and HDL-64E, overflowing or not: `ScanFrames`, positions, and for the 32 whether the three parts of a compact cloud belong together and to the announced interval | hold |
| `byte_streams` | Three decoders: `MessageStream`; which messages may be missed or spoilt; buffers and positions. Six proxies: are the parts there that a thread uses? | hold, but for the V2V proxy when a part could not be created, which the property excepts |
| `applanix_skip` | Are only bytes skipped in which nothing known begins? | no: finding 2 |
| `applanix_deaf` | Does every byte that arrives get into the buffer? | no: finding 3 |
| `time_triggered` | LED strip: check sum, percentages of undisturbed passes, frames settle on the last aim point. PS3: zero until moved, requests settle on the events that were kept, ends at zero. SICK: only centimeters, scans at last. Camera: whole images, as new as announced, and the last one at last | hold |
| `ledstrip_percentage` | Is the focus always a percentage? | no: finding 4 |
| `calibration` | IMU and angle sensor: does a start find what was saved, also after a save that was cut off, is what is sent borne out by readings, do bounds of a torn file heal? Camera: corners of one round | yes; of an IMU's save that was cut off its first lines are found, and nothing of the one before |
| `anglesensor_extremes` | Does a calibration cover the readings it took? | no: finding 5 |
| `projection_entry` | Is what is typed what is configured? | no: finding 6 |

They take from a second to about a minute (`calibration`, two million states).

The findings:

1. *Velodyne16, stale azimuth.* `m_nextAzimuth` is read ahead in the middle of a
   block (line 308). When the frame becomes full before that point (419-422),
   the next block takes its azimuth from a value of an older block (286), finds
   it smaller than the last, and sends the frame in the middle of a turn.
   `NothingSkipped` (section 4) says when this cannot happen.
2. *Applanix, footer.* The announced size includes the footer (lines 376 and 418
   subtract it), but line 568 adds it once more. The message directly behind a
   decoded one loses its first four bytes, and is lost.
3. *Applanix, deaf.* When a message is decoded with little behind it, the
   difference at line 576 wraps around; the header is read past the end, the
   stream's fail bit is set, and everything that arrives later is dropped.
4. *LED strip, cap.* An aim point that arrives between the cap (102-113) and the
   computation of the focus (126) is used uncapped.
5. *Angle sensor, first readings.* `Calibrate` takes its first reading for the
   minimum and its second for the maximum (111-112), and compares a reading below
   the minimum with nothing else (117-121). The greatest reading is lost when it
   comes first; later readings are then sent as angles outside of the range.
6. *Projection tool, idle slices.* `waitKey(1)` returns -1 when no key was
   pressed, and that is added to the text of the configuration (256). `stod`
   then throws `std::invalid_argument`, which line 245 does not catch.

Findings 2 and 3 were reproduced with the compiled decoder: with chunks of one
byte it decodes the first message only, and of the GRP1 messages in the first
part of the recorded dump most are skipped.

Behaviours worth knowing that hold no line of the code to its word and are no
findings:

- A fresh IMU divides by zero until a sensor has given two different readings
  (`SentInRange` speaks of bounds that are apart). An IMU whose bus could not be
  opened saves arbitrary readings over a good calibration, and the 0 it starts
  from (`NothingInvented` allows that 0).
- A save of the IMU that is cut off loses the calibration: the file is emptied
  first (217), and a start takes the lines that were written, and 0 for the others
  (`FoundAsSaved` says just that).
- With both clouds and a compact frame of the VLP-16 that is full, each further
  block is entered while the shared one has room (298), and stores one beam in it:
  `CloudsAgree` is about frames that do not overflow.
- An aim point that reaches the LED strip while a cap is written is lost.
- The Trimble decoder never sets `oldWGS84`, so that its heading is always taken
  from the zero point; nothing uses it. A coordinate that was cut in its digits
  is sent like any other (`OnlyCutSentencesSpoil` says which may be).
- `ProxyV2V::setUp` goes on with a null sender or receiver
  (`PartsAreThere` excepts it).
- The PS3's synthetic events act like the driver's. They do no harm, and take
  back what was lost in an overflow, only because the kill axes have higher
  numbers than the sticks, and come last. A stick that is moved while they are
  read is not obeyed until it is moved again. Braking
  scales by the maximal deceleration alone; `DECELERATION_MIN` is left out.
- The SICK module sends its commands once. A scanner that loses power after the
  schedule stays silent; a run that could not open its port again starts the
  scanner through the old one, and may do so in millimeters
  (`OnlyCentimeters` excepts it).

### Bounds, and why they are enough

- *Velodyne*: a turn of 8 units, 2 per block, 2 or 3 blocks per packet (in the
  64, two pairs). The sensor starts anywhere in its turn, so that the boundary of
  two turns comes between packets, between blocks and in the middle of one.
  `MaxPosition` is between two and a half and nearly four turns, so that two
  cuts or more are seen, one of them after a frame that was cut. `MaxPoints` 9
  (of 16 in a turn) makes frames overflow in the first and the second half of a
  block; 20 never lets one overflow. One lost packet is a gap of less than a
  turn. Two sensors tell the last of a row from the others. The 32 keeps its 32
  layers, as the rule for the parts is about their numbers, and 80 points are two
  rows and a half. Both `EchoPatterns` (all sensors, half of them) matter for the
  shared cloud only.
- *Applanix*: header and footer as in the code; payloads of 6 and 13 bytes, five
  messages, chunks of 1 and 11 bytes put a boundary of chunks at every byte of a
  message; `MaxBuffer` 30 is passed several times, as 32768 is in a long run.
- *SICK decoder*: header and lengths as in the code but for the payload (5 for
  722); four telegrams; chunks of 1, 4, 13 and 20 bytes are shorter than a
  header, than ten bytes, and longer than a telegram.
- *Trimble*: four sentences, chunks of a piece, of half a sentence, of one
  and a bit, and of two and a bit.
- *Proxies*: all six, with any part missing that can fail; no bound.
- *LED strip*: angles at, within and beyond the cap on both sides, four aim
  points.
- *PS3*: the third event overflows a buffer of 3. Six inputs are a stick that is
  pushed, three that overflow the buffer, the stick let go among them, one while
  the synthetic events are read and one that is kept after them. The axes start
  anywhere.
- *SICK module*: four troubles are a loss of power and a port that does not open
  in one run, a crash, and one more. The cycles are those of the code.
- *Camera*: three frames, two announcements under way, three lost: all of the
  last ones can be.
- *IMU*: readings on both sides of 0, two of them below it so that bounds of
  which one line was lost cross; none a multiple of `Grain`; three starts let a
  torn file be saved again and loaded.
- *Angle sensor*: three raw values, a calibration of four readings for 400; two
  starts after the first.
- *Projection tool*: three corners and six clicks begin a round twice; in
  `calibration` a configuration has two numbers of up to three characters, in
  `projection_entry` four numbers and up to eight characters.

`CHECK_DEADLOCK FALSE` everywhere: the streams, packets, aim points, inputs and
starts are bounded, and the system rests when they are used up.

### Fairness

- `body` of the LED strip, the IMU, the PS3 controller, the SICK module and the
  camera: weak fairness, because
  `getModuleStateAndWaitForRemainingTimeInTimeslice` runs it in every slice. For
  the PS3 and the SICK it covers `tearDown` or the next `setUp`, which OpenDaVINCI
  and the operator's restart run after it.
- a save of the IMU that was begun goes on; a crash may still end it.
- a scan of a SICK that scans comes; a SharedImage that arrives is given to its
  listener, and the reader goes on with its copy.
- the lock of the shared memory: strong fairness for both sides, as each gives it
  back between two slices. Weak fairness is not enough: the camera could always
  be the one to get it.

Nothing assumes that a stop, a packet, a chunk, an input or an announcement
must come. That aim points, inputs and losses end is a bound of the runs, and
the liveness properties are about what follows: frames, requests and images
settle on the last of them.


## 4. The theorems

TLAPS proves them for all values of the constants; `tlapm` checks every leaf.

### VLP-16

`Velodyne16Decoder_proofs`, from `VelodyneAssumption` alone, for any losses:

- `TypeCorrect`: `Spec => []TypeOK`;
- `SegmentSafe`: `Spec => []SegmentBounds`, no write outside the segment;
- `CursorSafe`: `Spec => []CursorAligned`, no read off the fields of a packet;
- `AscendSafe`: `Spec => []AzimuthsAscend`, no frame of either cloud spans the
  boundary of two turns, whatever was cut, full or lost.

None of these is inductive. The invariant `IInv` adds what the loop relies on:
`LoopInv` (which values counter and azimuths have at each point of the loop; in
particular that the azimuth of the current firing is `previousAzimuth`, and
that the read-ahead and the difference are within a turn), `DisabledEmpty` (a
cloud that is not configured stays empty), `SegmentAscends` and `RowsAscend`
(azimuths rise within the segment and the rows, and the last is at most
`previousAzimuth`, which is what lets the next point be appended). The proof has
a lemma per action, built on lemmas about the operators (`ReportedRange`,
`BlockEnd`, `PointTyped`, the effect of `SendPointCloud`).

It ends with `RowsSafe`: `Spec => []RowAccounting`, a compact point cloud has one
row for every `Sensors` distances counted, wherever a frame is cut or becomes
full. `RowAccounting` forgets the
position in the row begun; `RowInv` ties it to the counter of beams (`Column`)
while the frame has room, and says of a full frame only that less than a row is
left over, since `counter` restarts there and the index does not.

`Velodyne16Scan_proofs` proves the refinement, under `ScanAssumption`:

- `ImplementsSPC`, `ImplementsCPC`: `Spec => SPCRefinesScan` and `Spec =>
  CPCRefinesScan`, both clouds publish turns of the sensor as `ScanFrames` does;
- `NothingSkipped`: `Spec => [][~SkipBlock]_vars`, no block is passed over for
  lack of room.

The assumptions are three. `Blocks > 1`: the last block of a packet has nothing
to read ahead and takes the difference of the one before. `ShortLosses`: the
packets lost in a row, and the half block of an interpolation, make less than a
turn. `FrameFits`: a turn and half a block have fewer beams than the frame has
points. They hold for the sensor (12 blocks of 40 hundredths of a degree,
`16 * (36000 + 20) < 30000 * 20`, up to 74 packets lost in a row) and for the
constants of the run `velodyne16_scan`. Without `FrameFits` the refinement is
false, as finding 1 shows.

`ScanInv` strengthens `IInv` by: `OnTrack`, the azimuth handed out is the one the
head had (before a block is entered, of the block to come; the difference is that
of two blocks, also over a turn); `RoomInv`, the frame has no more beams than were
fired since its turn began, which keeps it from becoming full, and therefore
keeps `SkipBlock` and the early end of a block from happening; `LastPoint` and
`LastRow`, what was collected was fired before what comes next; `NeverSent`, a
cloud that is not configured is never sent. Each step is then a step of
`ScanFrames` or a stutter.

`Velodyne16Frames_proofs` says what is in the clouds, under the same assumptions:

- `NoFiringIsMissing`: `Spec => []NoFiringMissing`, from row to row and from the
  last row of a frame to the first of the next one, only lost packets are between;
- `HeaderIsRight`: `Spec => []HeaderMatchesRows`, the announced azimuths;
- `CloudsShowTheSame`: `Spec => []CloudsAgree`, if every block has an echo
  (`EveryBlockEchoes`): the two clouds show the same firings.

`FramesInv` adds to `ScanInv` that between two firings the last row is the firing
decoded last, and that otherwise the firing being decoded follows the last row
(`Follows`, modulo a packet). `PairInv` adds that the shared cloud has the
firings of the rows, and in the middle of a firing at most the one begun
(`Agreed`).

### The others

- `Velodyne64Decoder_proofs`: `Type64Correct`, `Segment64Safe` and `Cursor64Safe`
  from `Velodyne64Assumption` alone, and `Implements` (`Spec => RefinesScan`) for
  losses shorter than a turn (`ShortLosses`); here frames may become
  full. `IInv` ties the read position to the block, the azimuths to where the head
  stood, and the last point to the firing that comes next.
- `MCVelodyneHDL_proofs`, over `HDLSpec`, whatever overflows or is lost:
  `HDLTyped`, `HDLCursorSafe`, `RowsInInterval`; `PartsBelong` for `Sensors = 32`, as
  the entries announced are fixed in `sendCPC`; and `HDLScans` (`HDLSpec =>
  HDLRefinesScan`) under the `ShortLosses` of both decoders. For the HDL-32E,
  `CloudInv` says that three parts under way, and three parts sent, are the same
  firings row by row, each with the entries of its layers, and within the
  interval: an azimuth that does not fall widens it (`PartsWiden`), one that falls
  ends it, and a row is appended to all three at once (`PartsGrow`). That the layers of
  the parts are 12, 11 and 9 is proved by numbering them (`LayersAnnounced`).
  The rest of `IInv` is as for the HDL-64E, and `SharedOff` says that a shared cloud
  that is not configured stays empty. The HDL-64E's part is
  `Velodyne64Decoder_proofs` by instance (`P64`).
- `MCByteStreams_proofs`, over `StreamsSpec`, for streams and chunks of any number
  and size: `StreamsTyped`, `ApplanixBounded`, `SickKeepsBytes`,
  `LastSentenceCounts`, `PartsExist` (every invariant of the run),
  `MessagesPassedOn` (`AllPassOnMessages`: the three decoders implement
  `MessageStream`) and `HeadersFound` (`HeadersMissed`: which headers the search
  passes over). `ApplanixInv` says where the two positions of the stringstream
  stand at each point of the loop, that what was announced is a message that was
  sent, that the bytes kept are the end of what arrived before the fail bit was
  set, and that the search is behind the message delivered last. `SickInv` says
  that the buffer is the end of what was received, and that a payload being read
  is that of one telegram, behind all those delivered. `TrimbleInv`
  needs that the coordinates sent are of sentences that began before the chunk;
  `ProxyInv` names the parts that exist at each step of `setUp` and `tearDown`, and
  that the receiver's thread runs in between only.
- `MCTimeTriggered_proofs`, over `ModuleSpec`, for any inputs, troubles, frames and
  losses: `ModuleTyped`, `UndisturbedIsPercentage` and `FramesChecked` (LED strip),
  `NothingBeforeMoved` (PS3), `CentimetersOnly` (SICK), `ImageSafe` (camera).
  `LedInv`: a pass at its end has an angle within the cap or was disturbed.
  `PS3Inv`: while the driver has not moved a stick, its command is zero but between
  its synthetic event and that of its kill axis, and no event of it is in the
  buffer. `SickInv`: what a
  scanner at the new baud rate has heard, by slice of `body` (`PortFollows`,
  `ScannerFollows`); it has been told to scan in centimeters before it is told to
  scan. `ImageInv` follows a frame from the camera through the halves of the
  memory to the reader: each is at least as new as the next, and the halves
  differ only while the camera holds the lock.
- `MCCalibration_proofs`, over `CalibrationSpec`, over any number of restarts,
  crashes and clicks: `CalibrationTyped`, `ReadingsInRange`, `BoundsAreReadings`
  (IMU), `CalibrationFresh`, `FileUsable` (angle sensor), `CornersSafe` (camera),
  and `SavedIsFound` (`SensorsFindWhatWasSaved`). `ImuInv`: a bound is a reading or
  a reading rounded once (`Measured`), because rounding a rounded value changes
  nothing, or the 0 of a torn save or a missing bus (`Sources`); and the lines of
  the file are the first of the save begun last, and all of them unless it was cut
  off (`OnDisk`), which while it goes on are those of the memory (`Writing`). `AngleInv`: which values
  the module has at each stage, and what the file is worth: torn only after a failure
  or in the middle of a save. `CameraInv`: the corners of a calibration that is
  going on follow each other too.

These theorems (but for those of `Velodyne64Decoder_proofs`) are about the
specifications of the MC modules, and name the properties their runs check. As
the initial state chooses the component, the invariant of each of the four
modules is a conjunction of "if this component was chosen, then its invariant",
in the last three with the others' variables at `Unused`.

Two kinds of facts about data needed care. The positions of Applanix and SICK
messages in the stream, and the coordinate that a Trimble chunk leaves, are
recursive functions. That such a function exists, and is increasing,
is shown without induction over an operator: if a number had no such function (or
value), there would be a least one, and the one before leads to a contradiction
(`LeastOf`, `Iterated`). And the bits of the LED strip's bytes are numbered by
their weights, so that the exclusive or of five bytes is proved for one bit at a
time.

The assumptions on constants are those the modules name: for Applanix that the
threshold is longer than a header, that TCP hands over chunks of at most twice
the threshold (the receiver's buffer has 64 kB), and that what can be kept is
less than `Word`, so that a difference of positions wraps around only where
finding 3 says; for the PS3 that the buffer of the kernel has a place (it has 64).

### Only model-checked

Every invariant, action property and refinement that a passing run checks is a
theorem. Out of the prover's reach is liveness: that frames, requests,
scans and images settle (`LedFramesSettle`, `PS3Settles`, `SickScansAtLast`,
`ImageCatchesUp`), and that a file that was torn heals (`ImuBoundsHeal`).


## 5. Not modelled

- The geometry, intensities and encodings of points, the fields of Applanix
  messages, the conversion of SICK bytes to coordinates, colours beyond those
  sent, I2C addresses and registers, pixels: data, without influence on control.
- UDP reordering and duplication, and losses of a turn: the Velodyne decoders
  document no behaviour for them.
- The point clouds' shared memory has no reader in this repository; the same
  protocol is checked for images. `send` is called with its lock held, which is
  harmless as long as no listener of the same process takes the lock; none does.
- IMU: altitude, temperature and gyroscope readings, which keep no state, the
  rotation of the mount, configurations without a driver or with a file that
  cannot be read.
- Projection tool: the texts drawn into the image and the data race on them
  (`nextContainer` draws strings that `body` changes), the printing of projected
  points, the matrix read from the file, which is assigned to a local variable.
- Health: it samples and sends, and keeps nothing from one cycle to the next.
- OpenDaVINCI, message generators, build, deployment, the vendored test
  framework: external or without behaviour.

The map of `PROJECT.json` names the lines every definition stands for. They are
about half of the sources under `src/code`, and a sixth of the
repository as counted with its tests, headers and the vendored test framework,
which hold no behaviour to model. What is left of the sources is reading the
configuration, printing, filling in messages and drawing.


## 6. What is left

- Models: a reader of the point clouds, when there is one; an abstract
  calibration that IMU and angle sensor both implement, once the IMU's file is
  saved as a whole.
- If a finding is repaired, its run becomes a passing one: `CutOnlyAtTurn`,
  `KnownHeadersNotSkipped`, `EveryByteStored`, `Percentage`,
  `CalibrationCoversReadings`, `EnteredIsConfigured`.
