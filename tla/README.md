# OpenMT in TLA+

OpenMT splits a digital voice repeater into programs: a *modem host* that has the
radio modem to itself, one *protocol service* per mode (DMR, YSF, D-STAR, P25,
NXDN, M17, FM), *gateways* between services and networks, one *bridge* per kind of
modem between host and hardware, the modem *firmware* with its *boot loader*, and a
*service manager* that carries out what the dashboard asks for. This directory
models the parts in which threads, interrupts, lost bytes and messages, timeouts and
restarts meet; checks them with TLC on small instances; and proves with TLAPS what
does not depend on the size of the instance.

Paths below are relative to the root of the repository.

Contents: 1 the system, 2 the modules and the code they model, 3 the runs,
4 assumptions and fairness, 5 the proofs, 6 what the models show about the code,
7 what is not modelled, 8 the plan.

## 1. The system

```
 dashboard --(service_commands, services)--> service manager --> systemd
 network --UDP--> gateway --TCP--> protocol service --TCP--> Modem_Host
 Modem_Host --control + relay frames--> bridge --serial--> modem (firmware, boot loader)
 Modem_Host, services <--> database (activeModes, status active_mode, settings)
```

| Part | State it keeps | Operations | Hard behaviour |
|---|---|---|---|
| Ring buffer, `tools/RingBuffer.c` | storage, two indices | add, get, peek, clear, sizes | full and empty look alike; a block that does not fit empties the ring |
| Modem_Host, service connections, `modem/Modem_Host.c` | slot table `hostClient[]`/`mode[]`, the bridge's modes, the modem's mode table, `activeModes` | accept, register, refuse, clean up | two threads per slot and no lock; slots reused while their threads still run; thread starts that fail |
| Modem_Host, credit pacing | credit, outstanding requests, `isModemSpace`, the modem's buffer | send a sample frame, ask for status, take a reply, resynchronise | replies are matched by counting and get lost; two threads share the credit |
| Modem_Host, sharing of a SAMPLE modem, with the services' part in `protocols/*/…_host.c` | `currentMode`, `txOn`, `rxModeBuffer`, `active_mode` in the database, the services' `modeHeld` | SET_MODE, SET_IDLE, samples, EOT, time out, disconnect | test-then-set; four copies of who has the radio; a timer that takes it away; services that crash |
| Modem_Host, reading the modem | `modemRxBuf`, `modemHunting` | find the next frame | lost bytes, no check sum, payloads that look like headers |
| MMDVM bridge, `modem/mmdvm-bridge/mmdvm_bridge.c` | enabled modes, connections, owner, queue, delayed commands, watchdog | control frames, SET_MODE, SET_IDLE, queue, pace, time out, reset | mode commands that fire a second later; the host restarts without a word; a modem that stays keyed |
| Sample modem firmware, `modem/OPENMT_SAMPLE_STM32FXXX/engine.c` | sample rings, engine state, EOT flag, PTT pin, stall counter, timing note, parser state | the sample interrupt; frames from the host; housekeeping | interrupt and main loop share everything without masking; lost bytes while the transmission goes on |
| Boot loader, `modem/OPENMT_SAMPLE_STM32FXXX/loader/` and `openmt_flash.sh` | flash, completion marker, boot flag, command under way | auto-baud, Get, Read, Write, Erase, Go | power failures in the middle of a flash operation; a tool that is started again and completes the command the last one left |
| DMR gateway, `protocols/DMR/gateway/dmrgateway.c` | login state, salt, `frame_started[]`, `curr_stream_id[]`, queue | login, keep-alive, calls both ways | lost requests, lost and late answers; one set of variables for the calls of both directions; a look at the queue outside its mutex |
| Service manager, `tools/service_manager/service_manager.c` | the request table, unit states, its batch | expire, fetch, carry out, answer, copy states | crashes between two SQL statements, a restart it causes itself, a lost connection |
| OpenMT, OpenMT_HS, HackRF and SX1255 bridges | mode table, settings, serial state | relay, configure | reconnects; section 7 |
| Other gateways, frame coding, hotspot firmware, flasher, calibration, dashboard, OpenMT Radio, FEC and DSP tools | | | section 7 |

How the parts interact. A service connects to Modem_Host over TCP and names its
mode. Modem_Host refuses a mode that is taken, tells the bridge (`MODE_ON`,
`MODE_CONN`), enters the mode in the modem's table (`ADD_MODE`) and in the
database list `activeModes`; on disconnection it undoes all of this. A service
takes the modem with `SET_MODE`, sends frames and gives it back with `SET_IDLE`;
for an MMDVM modem the bridge decides who owns it, for SAMPLE and BIT modems
Modem_Host does, and the other services learn of it from the database. Samples to the
modem are paced by the free space it reports; samples from the modem come as frames,
with a timing report for each downlink. The service manager has no link to the
others but the database and systemd.

What makes each part correct:

* ring buffer: it is a bounded byte queue, whatever the calls;
* connections: one service per mode; a served mode is on everywhere and a mode
  nobody serves is on nowhere; slots and sockets are not lost;
* pacing: the modem never has to refuse a frame, and a stall ends;
* sharing: only the service with the radio transmits; host, database and modem agree
  on who that is; the radio is given back, by a crashed service too;
* serial line: both ends take exactly the frames that were sent, a lost byte does
  only local damage, and the transmission keeps its timeline;
* MMDVM bridge: only the owner's frames reach the modem; the modem is in the
  owner's mode during a call and at rest between calls; a stray transmission ends;
* firmware: PTT follows the engine, no sample is lost or reordered in either
  direction, a gap does not shift the slots, timing reports name the right sample,
  a host that disappears does not leave the transmitter on;
* boot loader: a half-written image is never started, and an update gets through;
* gateway: it is logged in when it believes so, logs in again, and its call state
  follows the calls;
* service manager: every request is answered, in order, never after it was
  marked expired; a power request is not repeated by a crash or a restart.

The file `PROJECT.json` lists the components, the hazards with the line where
each bites and the properties aimed at it, and, definition by definition, the
lines of source a definition stands for.

## 2. The modules

| Module | Models | Extended by |
|---|---|---|
| `ByteQueue` | what callers of the ring buffer may rely on (abstract) | |
| `RingBuffer` | `tools/RingBuffer.c` | `MCRingBuffer`, `BufferProofs` |
| `HostConnections` | `startTCPServer()`, `processClientSocket()`, the slot handling of `modeRxThread()`, `addMode()`, `delMode()` | `MCHostConnections`, `HostConnectionsProofs` |
| `CreditPacing` | `modeTxThread()` and `processSerial()` with `creditPacing`, and the modem's answers | `MCCreditPacing`, `BufferProofs` |
| `RadioSharing` | SET_MODE, SET_IDLE, samples and EOT in `processClientSocket()`, `timerThread()`, and the request and release of the radio in `ysf_host.c` | `MCRadioSharing`, `ModemHostProofs` |
| `FrameParsers` | `modemGetFrame()` of the host, `parseUart()` and `endResync()` of the firmware, on a line that loses bytes | `MCFrameParsers`, `ModemHostProofs` |
| `MmdvmBridge` | `mmdvm_bridge.c`, with Modem_Host and the modem as its environment | `MCMmdvmBridge`, `RelayProofs` |
| `EngineTx` | transmit side of `engine.c` | `MCEngineTx`, `EngineTxProofs` |
| `EngineRx` | receive side of `engine.c` and its timing reports | `MCEngineRx`, `EngineRxProofs` |
| `BootLoader` | `loader_core.c`, `loader_hw.c` and the update by `openmt_flash.sh` and stm32flash | `MCBootLoader`, `BootLoaderProofs` |
| `DmrGateway` | `dmrgateway.c`, with the network master as its environment | `MCDmrGateway`, `RelayProofs` |
| `ServiceManager` | `service_manager.c`, with dashboard, database, systemd and the Pi as its environment | `MCServiceManager`, `ServiceManagerProofs` |

Three proof modules hold the theorems of two components each: `BufferProofs` (the two
buffers whose counts must not lie), `RelayProofs` (the two programs that relay frames
and keep track of calls) and `ModemHostProofs` (what Modem_Host promises of its modem).
So that such a pair can be extended together, `RingBuffer`, `DmrGateway` and
`FrameParsers` name their specification after the component (`RingBuffer_Spec`,
`GatewaySpec`, `ParserSpec`, and likewise the initial states, steps and types); in the
other modules they are `Init`, `Next`, `Spec` and `TypeOK`.

**RingBuffer.** The variables are the fields of the C structure and the result
of the last call. A call is one step: all callers hold a mutex. `addData` on a
block that does not fit clears the ring, as the code does. The refinement
mapping to `ByteQueue` takes the bytes between the read and the write index.

**HostConnections.** A step is one access to shared state, so that the threads
interleave wherever the code lets them: the check of `modeInUse()` and the store
of the name are two steps, and so are the read and the write of `activeModes`
in `addMode()` and `delMode()`. `serve[c]` and `rx[c]` say where the two threads
of a connection are; `slotOf[c]` is the slot number they were given, which may
meanwhile belong to somebody else. A failed `pthread_create()` takes the exits
the code has for it; a connection for which all slots are taken is accepted and
left alone ("leaked").

**CreditPacing.** `since` abstracts `openmtReqSnap` and `openmtSampQueued` to
their difference, which is all the code uses. `line` is everything between
`modeTxThread()` and the modem. The code gives credit in two atomic stores after
it has released the mutex under which it computed it. The time is not in the
model: `Resync` may happen at any moment of a stall and requests may follow one
another as fast as the line takes them, so that the list of records overflows, and is
emptied, with replies still to come. The history variable `doubtful` records that
the credit cannot be vouched for: its reply was taken while fewer records were kept
than requests unanswered, or a frame was sent while it was being stored. The next
reply taken with a record for each clears it. `blind` records that a frame was sent on
such a credit. A damaged reply keeps its place in the stream, since it takes the time
of a reply to go by.

**RadioSharing.** A step is one access to shared state: a hold of a mutex, an atomic
variable, a database statement, a write to a socket. `handler[s]` says where the
service's thread in Modem_Host is in the frame it handles, `timer` where
`timerThread()` is in taking the radio away, `releasing[s]` where the service's own
timer thread is between its look at the call ("look", or "late" if a call has begun
since) and the end of `releaseMode()`. Nothing in Modem_Host checks a sample frame
against `currentMode`; that only the owner sends is up to the services, which is why
their part belongs in this module. `mishaps` records how the turns went wrong: the
answer of `isActiveMode()` was old when it was used ("hasty"), the radio was taken
while `timerThread()` took it away ("race"), the service gave the radio back while a
call of its own began ("slip"): the call began during `releaseMode()`, or it began
between the look at the call, under the mutex, and the test of the hang time outside
it, a transmission was timed out ("timeout"), the owner went away
between transmissions ("orphan").

**FrameParsers.** One line, read by the host or by the modem; `reader` is chosen at
the start. A byte carries, as history, the frame it was sent in and its place there,
so that "taken whole" can be said; the readers see its value only. Lengths, types
and payload bytes share one range of values, so that any byte may be mistaken for
another. The timeouts (20 ms and 1 s of the host, 8 ms and 20 ms of the modem) may
fire only between frames: inside a frame the bytes follow each other faster. The modem
plays what it takes only within a transmission: the first sample frame begins one, and
an EOT or the end of the audio ends it (`idle`). `insertSilenceFrame()` does nothing
while the transmitter is idle, so a sample frame lost in front of a transmission gets
no silence. The history `first` is the frame that began the transmission, `played` what
was played in it. A hunt may begin before a transmission and end in
it; its bytes are then counted to the transmission ("carried").

**MmdvmBridge.** The bridge is one thread, so a step is a whole handler.
Time is a choice: a timeout is possible as soon as its condition lasts. A delayed
command carries its slot, because late commands are sent in slot order. The modem
is a mode and the reason it is keyed: it sends what it was given, or it has a
fault that a mode command ends ("soft") or only a reset does ("hard"). The history
variable `orderly` records whether services came and went only at rest, and the
modem changed hands only while no delayed command waited.

**EngineTx.** The interrupt `engine_sample_tick()` is one step; it may come
between any two accesses of the main loop to shared state, and `pc` says where
the main loop is. Samples carry a number instead of a level. `stallCount` and
the history variable `gap` are kept modulo the cycle length, which is the only
way the code looks at the counter.

**EngineRx.** The same interrupt seen from the receive side, against
`sendRxFrames()` and `sendTimingReport()`. A sample is the tick at which it was taken.
The frame counters are the code's unsigned counters with a small width, `Word`, and
`off` is the signed difference the code computes from them. What a transmission does
is reduced to whether it plays, has run dry or ends.

**BootLoader.** A command travels in parts (command byte, address, data), and the
tool waits for the answer to each; a part arrives whole, garbled or cut off. `cpu` is
the application or the place in the loader, named after the part it waits for. Flash
is a content per block: of the old image, of the new one, erased, or torn by an
interrupted operation; a torn vector table may or may not look plausible.
`ld_autobaud()` may take anything but the BOOT frame for a 0x7F, of the right bit rate
or of a wrong one; after that the chip understands nothing until it is reset ("deaf").

**DmrGateway.** A step is one part of a round of `startDMRNetwork()`: read, look at the
queue of local frames, take one, keep-alive, read again. Every request has three
outcomes: the master acts on it and its answer comes; the master acts on it and the
answer is lost; the request is lost. Answers wait in `inbox` as long as they like, so
that a request may be repeated while the answer to its first copy is still to come, or
after that was lost, also the first request of all. An RPTACK is named after the
request it answers, which the gateway cannot see; of the salts in them only that of the
last one counts, so an id says whether it is that one. The look at `bmTxBuffer` (1062)
is a step of its own, since it is made without the mutex; if `startClient()` empties
the buffer before the frame is taken, the thread goes on with what is left in `buf[]`.
Stream ids tell the calls apart. `disturbed` records that calls overlapped or were cut
off, `doubtful` that an RPTACK was taken for the answer to another request, or the
master restarted, since the login began (section 6).

**ServiceManager.** A step is one SQL statement or one `systemctl` call. Crashes
and lost connections happen between any two. Requests age in the order in which
they were made. `shown` compares the copy of a unit's state with the real one.

**History variables.** `mishaps`, `troubles`, `doubtful`, `blind`, `disturbed`, `orderly`,
`overflowed` and
the counters of faults never guard a step of the code; they let a property say in
which behaviours it holds, and so where it stops holding. Every mishap a premise names
is needed: without it TLC finds the property violated in its run, so the premises state
facts about the code (section 6).

**Mutants.** Definitions whose name ends in an underscore and a word, each
under a comment that begins with "Mutant", are the code with one plausible
mistake. No specification uses them; each one, put in place of its original,
makes one property fail (`PROJECT.json`, "mutants").

## 3. The runs

Run one with `tlc -config <cfg> <module>`.

| Run (cfg) | Checks | Shows |
|---|---|---|
| ring_buffer (`MCRingBuffer`) | `ImplementsByteQueue` | all call sequences on a ring of five bytes are those of a byte queue |
| connections_calm (`MCConnectionsCalm`) | `TypeOK`, `OneServicePerMode`, `ServedModeIsOn`, `NoGhostMode` | services come one at a time: refusal, registration and clean-up are right in bridge, modem and database |
| connections_overlap (`MCConnectionsOverlap`) | `NoOrphanSlot`, `EverySocketCloses` | any overlap, failing threads, late exits: no slot and no socket with a thread is lost |
| pacing (`MCPacing`) | `NeverOverfilled`, `StallEnds` | lost replies, late replies, a full request list and a resynchronisation do not stop the flow, and the modem is overfilled only by frames sent on a credit whose reply had lost its record or was being stored |
| radio (`MCRadioSharing`) | `StatusAgrees`, `OnlyOwnerTransmits`, `RadioIsGivenBack` | two services take turns, with crashes, restarts, timeouts and calls within the hang time |
| serial_line (`MCFrameParsers`) | `InStepIsExact`, `DamageIsLocal`, `TimelineIsKept`, `HostReadsOn` | both readers, frames of every kind, chunks of any size, up to two lost bytes |
| bridge (`MCBridge`) | `OnlyOwnersFrames`, `OwnerHasItsMode`, `RestsBetweenCalls`, `StrayTxEnds` | any order of registrations, calls, timeouts, resets and host restarts |
| engine_tx (`MCEngineTx`) | `PttFollowsState`, `NoSampleLost`, `StallKeepsCycle`, `HostGonePttOff` | the interrupt at any point of the main loop, transmit side |
| engine_rx (`MCEngineRx`) | `StreamIsWhole`, `ReportsAreRight`, `DownlinkIsReported`, `ReportGetsOut` | the interrupt at any point of the main loop, receive side, across the wrap of the counters |
| boot (`MCBootLoader`) | `TypeOK`, `StartsWholeImage`, `MarkedBeforeTouched`, `UpdateGetsThrough` | an update with damaged bytes, flash errors, power failures and a tool that stops anywhere |
| gateway (`MCDmrGateway`) | `CallsAgree`, `RunningIsKnown`, `LoggedInAgain` | login and calls both ways while requests or their answers are late or lost, from the first one on, and the master restarts |
| manager (`MCManager`) | `PowerRepeatsOnlyByLoss`, `ExpiredIsNeverRun`, `InOrder`, `ReportedStateIsStored`, `EveryRequestAnswered` | a crash, a lost connection and restarts of the Pi, at any step |

Every module states its types in `TypeOK` (`RingBuffer_TypeOK`, `GatewayTypeOK`,
`ParserTypeOK`). TLC checks it where types are at stake (a
list that is edited as text in HostConnections, page numbers from the line in
BootLoader). It is proved, as a theorem or as a part of an inductive invariant, for
every module but `DmrGateway` and `FrameParsers`, whose inductive invariants state only
the types their proofs use (`Shape`, `LineTypes`).

Bounds, and why they are enough to meet the interesting cases:

* *ring_buffer*: five bytes of storage and blocks of up to five bytes: the ring
  wraps within two calls, blocks wrap at every place, exactly fit, and are one
  byte too long. Two byte values tell reordered contents apart.
* *connections*: two slots, three connections, two of which want one mode: slots
  are reused, the table is full, a mode is asked for twice. The overlap run has
  one slot and two connections so that liveness stays cheap: both threads of the
  first connection can still be running when its slot goes to the second.
* *pacing*: a modem buffer of three frames behind a line of two, so that frames
  on their way are most of what the modem holds; a request list of two entries,
  which overflows while three requests are unanswered, two on the line and one whose
  reply waits to be read (`ReplyMax`, the bound of the port). With `SampMax = 1` TLC
  finds no overfilling by a late reply, with 2 it does. Frames waiting in `rxModeBuffer` matter only as none or some.
* *radio*: two services and two calls, so that the radio changes hands or is taken
  again within the hang time; two frames in each connection and in `rxModeBuffer`,
  which fill up; one crash. The state constraint `Followed` ends a behaviour at the
  first "hasty", "race" or "slip", where all three properties hold by their premises; the
  states up to that point are all explored.
* *serial_line*: frames of 3, 5 and 7 bytes, three of them: one that is damaged, one
  that a wrong length reaches, one behind it. Two lost bytes, so that the second may
  hit a reader that is hunting already. The start byte is a length that reaches
  furthest and may be a payload byte.
* *bridge*: two connections and two modes (one of them buffered before it starts), so
  that no, one and several modes are enabled; one delayed command and a queue of two
  frames, which both fill up. One fault, which is soft or hard.
* *engine_tx*: a ring of eight samples with frames of three: frames begin at
  every place, wrap, and fill the ring to the last place but one. Four samples
  start the audio, so one frame is not enough. Cycle of three samples.
* *engine_rx*: a ring of two frames of two samples, which overflows; counters of 32
  values that start just before their wrap; seven ticks, in which the ring goes round
  nearly twice; two downlinks, so that a note may be taken for the wrong one.
* *boot*: an image of three blocks on two pages, so that a page holds written and
  unwritten blocks and the vector table can be in place while later blocks are not.
  Four faults of any kind in one behaviour: a stop of the tool, a second one in what
  the next run sends, and two more.
* *gateway*: two network calls, one local call, two lost packets and, apart from
  them, one restart of the master: calls follow each other and cross, a request and the
  answer to its repetition are both lost, the first request of the login is lost, and a
  packet is lost before or after a restart. Two packets on their way, so that a request
  is repeated before the answer to its first copy is read; one frame in `bmTxBuffer`,
  which overflows at the second and is emptied between look and take.
* *manager*: four requests and batches of two: a start and a stop of the same
  unit around a restart of the Pi, and a unit that is not listed. One crash and
  one lost connection, restarts of the Pi as often as it is told.

No run uses symmetry: the connections want different modes and the requests are
ordered, and a liveness property is checked in most. Deadlock is checked except in
three runs whose behaviours may end: *radio* (all calls are made, all services closed
or idle), *serial_line* (all frames sent and read) and *boot* (the update is done).

## 4. Assumptions and fairness

* `Overlap = FALSE` (connections_calm): a connection is accepted or goes only
  while no other one is being registered or cleaned up. Nothing in Modem_Host
  enforces it, which is why the other run drops it; it is the case in which
  the properties of this run are to be expected.
* In RadioSharing a service that crashes is started again only after the host has
  closed its connection, which it notices at its next read.
* In EngineRx the run is shorter than half the range of the counters
  (`RunAssumption`): the code takes the difference of two counters for a signed
  number, which with 32 bits and 24000 samples a second is unambiguous for a day.
  That the range is a multiple of the ring (`RxAssumption`) is so because both are
  powers of two.
* In BootLoader a marker that is torn by a power failure afterwards reads as one
  value; a power failure outlasts what is on the line; the BOOT frame is sent at a bit
  rate too high to be measured as 0x7F; stray bytes are not read as a Go command with
  its complement and a valid address and check sum; stm32flash sends Go only after it
  has verified every block it wrote, as the options `-v -g` ask of it.
* In DmrGateway packets of the master that are not lost arrive in the order in which
  they were sent. UDP does not promise it; the answers that can be mistaken for each
  other come seconds apart.
* The environment of a component (service, host, modem, clock, database, systemd,
  network master, operator) does what the code on this side can see of it, in any
  order; such definitions are marked external in `PROJECT.json`.

Fairness, where a liveness property is checked:

* *connections_overlap*: every thread is scheduled (weak fairness of
  `processClientSocket` and `modeRxThread`); services are not forced to do
  anything, and the poll of the `active` flag is not needed.
* *pacing*: both host threads and the modem run. Strong fairness of an answered
  status request says that not every reply is lost; strong fairness of a request
  that is not forced says that the rate limit, which is a time, lets one through
  when asked again and again, as `modeTxThread()` does.
* *radio*: all threads run; a burst ends (its service sends EOT when it has no more
  frames), the hang time passes, and a transmission that stays on is timed out.
* *serial_line*: the bytes of a frame arrive and the host reads. Nothing is assumed
  of the sender: a frame may be the last one.
* *bridge*: the main loop runs, the modem reports its status (it is asked
  twice a second) and ends what it was given to send. `StrayTxEnds` further
  assumes a wired reset line and that services and radios are silent from some
  point on: a busy modem is allowed to be keyed.
* *engine_tx*: the interrupt comes, the main loop runs, time passes.
* *engine_rx*: the main loop runs; strong fairness of the two sends says that the
  UART has room again and again.
* *boot*: the chip and the tool run, and the tool is started again after a failure.
  Strong fairness of `PowerCycle` is the operator, who after failed runs takes the
  power away now and then; without it a chip that has locked on a wrong bit rate
  stays deaf.
* *gateway*: the network thread runs; strong fairness of reading a packet, of the
  10 s repetition of a request or a ping and of the end of a call: each is a time or an
  arrival that comes again and again. Nothing is assumed of the losses but their bound.
* *manager*: systemd restarts the manager (`Restart=always` in its unit file)
  and a Pi that was told to go down comes back.

## 5. The proofs

For all values of the constants, under the assumptions each module names in its
ASSUME:

* `BufferProofs!RingTypeCorrect`, `BufferProofs!Refinement`: a ring of any
  size, with any bytes and blocks, implements `ByteQueue`. The type invariant is inductive
  as it stands. Under it the contents of the ring are a sequence (the bytes at
  the read index and on, wrapped); one lemma each shows that storing appends to
  it, getting takes a prefix away and clearing empties it. Those lemmas carry the
  arithmetic of the wrap, in which a block may lie across the end of the storage;
  the refinement only combines them.
* `BufferProofs!NothingRefused`, `BufferProofs!CreditIsRightAgain`: for any sizes of
  the modem's buffer, of the line, of the request list and of the reported nibble, any
  number of lost or late replies and any resynchronisation. `overrun` says nothing of
  how it comes about, so the invariant is about `Room`, the frames the modem can still
  take once everything on the line has arrived. `AllWillFit`: it is not negative
  unless a frame was sent blindly. `CreditIsRoom`: while the credit is not doubtful,
  neither it nor the value about to be stored exceeds `Room`, and the host sees space
  only while a frame would fit. A fresh credit is right only if the frames subtracted
  from a reply are at least those that followed its request, and that is `Books`. The
  records kept are always those of the newest requests. If the record of a request on
  the line is kept, it is the number of frames behind that request (`RequestsKnown`); a
  reply on its way, less its record if that is kept, is no more than `Room`
  (`RepliesKnown`). A lost reply leaves a record too many, so that a later reply is
  matched with an older record than its own; this is harmless because an older record
  has counted every frame a newer one has (`Descending`). A dropped record, with its
  reply still to come, makes the next replies meet newer records than their own; that is
  the case `doubtful` is about. Nothing in `Books` depends on the past, which is why one
  reply taken with enough records puts credit and space right, whatever happened before
  (the second theorem). The proof needs `MIN_FREE > 0` (`OPENMT_MIN_FREE` is 2): with 0
  the host would see space in a full modem.
* `HostConnectionsProofs!TypeCorrect`, `HostConnectionsProofs!SlotsAreNotLost`:
  for any number of slots and connections, with overlap and failing threads, an
  active slot belongs to a connection whose `processClientSocket()` has still to
  free it. The inductive invariant adds to `TypeOK` and `NoOrphanSlot` that a
  connection not yet accepted has no thread. Without it, accepting a connection
  could move one that already holds a slot to another. The argument: a slot is
  claimed only while inactive; a late `modeRxThread()` can only clear `active`,
  never set it; a thread passes its freeing step before it ends.
* `HostConnectionsProofs!ModeHasOneService`, `!ServiceIsNotDisturbed`,
  `!CleanUpIsComplete`: for any number of slots and connections, when registrations
  and clean-ups do not overlap and threads start (`Calm`). None of the three
  properties is inductive, since each speaks of connections that are being served and
  every one of them has a past in which it was being registered. `Shape` says who has
  which slot: two connections with running threads have different ones, the slot of
  each still carries its socket, a connection that is being registered is the only
  one that is busy, and its name is in the table from the store on. `Books` says what
  the bridge, the modem and the database hold for it at each place of the thread, and
  in the other direction which connection accounts for an entry found there. The
  copy of `activeModes` that `addMode()` and `delMode()` work on is up to date
  (`Fresh`) because of `Calm` and of the mutex around the clean-up; this is where
  the argument ends for services that overlap.
* `EngineTxProofs!PttIsRight`: the pin agrees with the engine between two frames.
  The property says nothing of the main loop in the middle of a frame, so it is
  not inductive. `PttInv` gives the relation at every place: between
  `txState = TX_PRIME` and `hw_ptt(true)` the engine is not idle and `txEot` is
  clear, so the interrupt cannot key down there. This is where the order of the
  statements in `handleSampData()` matters.
* `EngineTxProofs!TypeCorrect`, `EngineTxProofs!NoFullForEmpty`: for any sizes of
  ring and frame the indices stay in range and the ring counts exactly the
  samples that were accepted and neither played nor dropped. `RingInv` adds that
  a frame found to fit still fits when it is stored.
* `EngineTxProofs!SamplesAreKept`: the ring counts right, and `Contents` says which
  sample each place between tail and head holds. A frame is stored in the free places,
  which lie outside, also when it wraps; the interrupt only moves the tail.
* `EngineTxProofs!GapsAreWholeCycles`, an action property: `GapInv` says that
  there is no silence while the engine plays and that, while it waits for the end of a
  cycle, the stall counter is the length of the silence; a counter left over from a
  transmission that ended is set anew before it is looked at.
* `EngineRxProofs!StreamIsNotBroken`, `!ReportsLeadToTheirSample`,
  `!EveryDownlinkIsReported`, `!TypeCorrect`: for any sizes of ring and frame and any
  width of the counters. The properties speak of what the host got; the invariant has
  to say what is still on its way. `RingInv` bounds the frames in the ring, as a true
  number and not modulo `Word`, and `Done` is the number of the tick up to which the
  main loop has worked. `Stored` gives the tick of every place of the ring in terms of
  these, `FrameInv` that of the copy in `sendRxFrames()`, `HeardInv` that of what was
  sent. A store by the interrupt goes to a slot no waiting frame has, because fewer
  than `RX_FRAMES` slots are taken and remainders so close differ (`ModApart`);
  the wrap of the counters does not move a frame to another slot, because `Word` is a
  multiple of the ring (`SameSlot`). For the reports `NoteInv` says that the position
  in a note fits its tick modulo `Word`, and `OffsetIsRight` that the difference
  computed from it, as a signed number, is the true one. That a copy is of one note
  is `SeqInv`: `tmSeq` only grows during the run, so that an unchanged number means an
  unchanged note. That it is of the present downlink is `DownInv`: a downlink
  begins in the same loop that reports, never between the copy and its report, and
  clears what was noted for the last one.
* `RelayProofs!FramesAreTheOwners`, `!OwnersModeIsSet`, `!ModemRests`,
  `!TypeCorrect`: for any connections, modes and sizes of the queue and of the table of
  delayed commands. `OnlyOwnersFrames` is inductive with the types. The other two speak
  of a modem with no command on its way and rest on `Hold`, which speaks of the
  commands: in an orderly behaviour every delayed command is for the mode the modem
  belongs in, and without one it is in that mode; and nobody has the modem while a
  registration is half done. It needs that two waiting commands never have the same
  slot (`SlotsDiffer`), so that sending one leaves the others, and that only services
  with a mode are announced (`Announced`).
* `RelayProofs!SharedCallState`: for any number of calls, packets and losses.
  `CallsAgree` is inductive but for the local frames that are still queued: that a
  "head" opens a call and an "end" closes it needs that the queue, read from the open
  call on, alternates as the DMR host sends it (`WellSpoken`), which holds until the ring
  of local frames overflows; and that a frame of the network has a stream number that is
  not 0, the value that stands for no call.
* `RelayProofs!LoginIsReal`: for any number of lost requests and answers, repetitions,
  calls and packets on their way. The gateway does not see what an RPTACK acknowledges, so
  the invariant says it for the packets on their way. `InSequence` holds always: no RPTACK
  of the password or the configuration comes behind one with a salt, and none with a salt
  is on its way when the gateway has the last one or the master knows the gateway.
  `Believed` holds while no RPTACK was mistaken and the master has not restarted since the
  login began: the master is as far as the gateway believes, and what the gateway is about
  to take for the answer to its request is one. It says nothing of a gateway that waits
  for a salt, so that it holds again, whatever earlier logins left on the way, as soon
  as a MSTNAK is read.
* `ModemHostProofs!HostStatusModemAgree`, `!OwnerAloneTransmits` (an action
  property), `!TypeCorrect`: for any number of services, calls, crashes and any sizes.
  As long as no mishap a premise names has happened, the services work one at a time
  (`OneAtATime`: of any two, one is quiet, with no thread in Modem_Host at work for
  it and nothing of it on the way), and the owner is the one that is not quiet
  (`NobodyElse`). `Agreement` says for each place of the thread that changes the owner
  which of host, modem and database it has reached. `SamplesAreCovered` carries
  the transmission: a sample on its way has, in front of it or already carried out,
  the SET_MODE of its service, and no SET_IDLE in between.
* `ModemHostProofs!NothingLostNothingMissed`: for any lengths, types and payloads (with
  start bytes too), any backlog and any pieces in which bytes arrive. The bytes that have
  arrived and those still to be sent are seen as one stream. While nothing is lost each
  byte marked as a first one begins a frame that is there to its last byte, with the next
  frame behind it (`WholeFrame`), and the stream begins with the first frame not yet
  passed on (`Stream`). So a reader at the front finds a start, a length and a known
  type, and behind the length a start: every branch that skips a byte is closed.
* `ModemHostProofs!LossesDoNotSpread`: for any number of lost bytes at any places, any
  lengths, types and backlog, on payloads without a start byte. `far` holds the frames
  that had a whole `Reach` of undisturbed bytes in front of them and have no loss in
  themselves or in the next start byte; `Reach` is the largest value a length byte can
  have, which exists because the backlog bounds them all (the one place where
  well-foundedness of the numbers is used). The invariant has three parts.
  `Recognisable`: a start byte is the first byte of a frame. `DamageEnds`: a frame of
  which bytes are missing begins at least `Reach` in front of every far frame of the
  stream, and as far in front of the end of the line as bytes have been carried since
  the last loss, so that it will be out of reach of the next far frame as well.
  `FarFramesCome`: a far frame was passed on, or is in the stream, whole. A reader jumps
  by the length it reads at a start byte: if that frame is all there it jumps to its end,
  and if not, by no more than `Reach`; neither gets inside a far frame (`FarIsAhead`).
  What is thrown away is never the first byte of one (`FarFrameInFront`).
* `ServiceManagerProofs!PowerOnlyByLoss`, `!ExpiredStaysExpired`,
  `!RequestsRunInOrder`, `!StateComesFirst`, `!TypeCorrect`: for any requests, crashes,
  losses, restarts and sizes of the batch. The middle three are action properties.
  `BatchIsOpen` and `Checked` say that the manager's batch is made of requests without
  an answer, in their order, with nothing open before the one in hand; only the
  manager gives answers, so that what was fetched stays open until it is taken.
  `Behind` says that a batch skips no open request while there is a connection; after
  a loss it may (an answer was not stored), but then no further request passes the
  checks. `Repeats` bounds how often a power request has been carried out by the
  connections lost so far, at each place of `smDoCommand()`: once it is marked it is
  not fetched again, and only a loss keeps it from being marked.
* `BootLoaderProofs!MarkerComesFirst`, `BootLoaderProofs!NeverStartsHalfAnImage`,
  `BootLoaderProofs!TypeCorrect`: for any size of image and page and any number of
  faults. That a running application is whole rests on one fact about the marker: when
  it says complete, the flash holds one whole image (`Marked`). Erase and Write keep
  it by invalidating the marker first; only Go sets it, so Go must not be carried out
  on a half-written image. The loader itself checks no more than the vector table;
  the fact comes from the tool, and `GoIsRight` says that a Go on the line or in the
  loader means that every block is new. That in turn needs `Written` (what the tool
  has verified is in the flash), which needs `InStep`: from the answer to Get on, tool
  and loader are at the same part, so that an answer read as "same" is the one for
  this block; and `Handshaken`: the answer to Get is the last of the answers under
  way, so that those an earlier run left behind cannot bring the two out of step.

The invariants were checked with TLC on the small instances before they were proved.
One attempt failed for a good reason: `StatusAgrees` did not exclude a "slip", and the
case of the proof that could not be closed is a behaviour of the code with three calls,
one more than the run makes. A service that is called while it gives the radio back
asks for it a second time, later, across another service that has just taken it
(section 6, 5). The property now has the premise.

Only model-checked:

* all liveness properties (`EverySocketCloses`, `StallEnds`, `RadioIsGivenBack`,
  `HostReadsOn`, `StrayTxEnds`, `HostGonePttOff`, `ReportGetsOut`, `UpdateGetsThrough`,
  `LoggedInAgain`, `EveryRequestAnswered`): fairness and ENABLED are out of the
  prover's reach;
* `TimelineIsKept` of `FrameParsers`, the one invariant without a theorem. It adds up
  the bytes skipped in one hunt, over any number of damaged frames, and such a sum over
  the stream takes induction. It cannot hold without a bound on the losses: `endResync()`
  rounds the bytes skipped to whole frames. With sample frames of seven bytes TLC finds a
  counterexample at four lost bytes and none at three, so the property has the premise
  that no more than half a frame is lost; the real frames are 196 bytes long.

## 6. What the models show about the code

Where a comment or a document says more than the code does. The premise in the
property (or the constant of the run) is exactly what is needed to make it true.

1. *Two services of one mode.* docs/BRIDGES.md:131: "Modem_Host refuses a second
   service that registers a mode another connected service already holds".
   `modeInUse()` (`Modem_Host.c:1832`) is asked before the name is stored and nothing
   holds the two together; two services that register at the same moment both get
   the mode (`OneServicePerMode` with `Overlap = TRUE`).
2. *Credit computed, then stored.* The comment at `Modem_Host.c:317` says the modem
   is not overfilled. Frames sent between the computation (2517) and the store (2521)
   are counted by nobody. And the oldest record is dropped from a full list "since its
   reply must have been lost" (`Modem_Host.c:409`), all records after 250 ms of stall:
   if the replies are only late, they are matched with the records of later requests,
   too few frames are subtracted, and the modem is overfilled without any other mishap.
   The error does not last longer than until a reply is taken with a record for every
   request unanswered (`NeverOverfilled`, `doubtful`).
3. *A registration during a call.* Its delayed command is not cancelled and takes the
   modem out of its resting mode later (`mmdvm_bridge.c:1048`, docs/BRIDGES.md:67;
   `RestsBetweenCalls`, `orderly`).
4. *A restart carried out twice.* `service_manager.c:579` says a power request "can
   never run a second time after the restart". When the connection is lost before the
   request is marked (589), the Pi is restarted all the same, and again after it is
   back.
   `PowerRepeatsOnlyByLoss` shows that nothing else repeats it.
5. *Two talkers.* README.md:29: "Only one service will be enabled for transmit at any
   given time." Modem_Host queues the samples of any service; it holds only as far as
   the services wait for each other (`OnlyOwnerTransmits`): `isActiveMode()` may be
   200 ms old, a service whose transmission was timed out is not told and goes on
   under the next owner, and `releaseMode()` (`ysf_host.c:541`) may send SET_IDLE for
   a call that has just begun: the service's timer thread looks whether there is a call
   under the mutex (1907), but tests the hang time and acts outside it (1920). The clock
   it uses was read before the look, so that `now - lastActivityMs` is huge, not small,
   if the call began in between. After such a "slip" host, modem and database may also
   disagree on the owner (`StatusAgrees`), since two threads of Modem_Host
   then change it at the same time.
6. *An owner that dies between transmissions* keeps the radio: neither the clean-up
   (`Modem_Host.c:2028`) nor `timerThread()`, which looks at `txOn`, gives it back
   (`RadioIsGivenBack`, "orphan").
7. *Boot loader.* `ld_autobaud()` returns to the application after 10 s of silence
   only; once any byte came it waits for ever, and a stray byte can lock it on a wrong
   bit rate until the next reset (`UpdateGetsThrough` needs the power cycle).
8. *Gateway, login.* RPTACK does not say what it acknowledges. After a request that was
   repeated although its answer was only late, the gateway may take the second answer
   for that to the next request and believe it is logged in when it is not
   (`RunningIsKnown`, `doubtful`); two requests can then stay under way, each one's answer
   taken for the other's, for ever (`LoggedInAgain`, `Misread`). And
   `dmr_network_recv()` reads and drops a MSTNAK: it runs first in every round, so in a
   running gateway that is the usual fate of one. A gateway the master has forgotten
   goes on pinging, and no pong is waited for; it learns of it only from a MSTNAK that
   the keep-alive reads. The property leaves out only that every one is dropped for
   ever, which nothing in the code prevents. The comment "Data packet - handled by
   dmr_network_recv" in the keep-alive is not so: the packet has been read and is dropped.
9. *Gateway, calls.* Calls of both directions share one stream id and one flag: a
   local terminator ends a network call. A lost network terminator leaves the flag set,
   and the header of the next call is dropped. A full `bmTxBuffer` empties itself. It may
   do so between the look at its size (`dmrgateway.c:1062`, outside `bmTxBufMutex`)
   and the peek (1067), which then leaves `buf[]` as it was: an earlier frame is sent
   again, or, if the bytes name no slot, the mutex is never unlocked and the gateway
   takes no local frame any more (`CallsAgree`, `disturbed`; `stuck`).
10. *Firmware parser.* A lost length byte of a sample frame makes the parser count
    the wrong number of lost frames ("misread"); frames of an unusual length are
    dropped while it hunts ("dropped"); silence for frames lost before a transmission is
    played in it if the hunt ends only then ("carried"); it waits without a limit for the rest of a
    frame, where the host does not (`HostReadsOn`).
11. *Receive ring of the firmware.* A frame that began while the ring was full is
    completed behind stale samples if the main loop drains the ring meanwhile
    (`StreamIsWhole`, `overflowed`).

Met while modelling, outside the properties:

12. `addMode()` and `delMode()` read and write `activeModes` in two statements:
    with `Overlap = TRUE`, `ServedModeIsOn` fails because one update is lost.
13. On `HOST_UP` the bridge does not clear the enabled modes, though
    `tools/bridge_common.h` says it forgets the modes of the old host.
14. The service manager checks the age of a request when it fetches the batch; one
    that waits behind slow calls is carried out after its two minutes.
15. `insertSilenceFrame()` "does nothing if not transmitting", but looks once: when
    the interrupt ends the transmission right after, the frame of silence keys the
    transmitter again, until the underrun timeout (`HostGonePttOff` covers this).
    Silence inserted after EOT clears the pending EOT.
16. BIT_DATA never sets `txOn` and BIT_EOT has no case, so that the timer described at
    `Modem_Host.c:869` does not run for BIT modems.
17. In the gateway `(seq - 2) % 6` is wrong after 256 packets, and the keep-alive
    waits as long as local frames do.
18. A frame that exactly fills `rxModeBuffer` empties it: `addData()` keeps one byte
    free, the check in front of it does not. It takes about a hundred queued EOT
    frames to get there.

Hazards seen in reading that no property here covers, since they end in a resource
that is not modelled or in undefined behaviour: the socket accepted when all slots are
taken is neither served nor closed (`Modem_Host.c:2181`; "leaked" in
HostConnections); `commandThread()` unlocks a mutex a second time after a failed write
(1533); `modeTxThread()` looks at `rxModeBuffer` before it takes the mutex (1194);
`hostWrite()` gives up on a host that does not read, and a service is not told it has
the modem (`mmdvm_bridge.c:821`); `sigintHandler()` locks a mutex the interrupted
thread may hold (`Modem_Host.c:265`).

## 7. What is not modelled

* The content of frames: `mmdvm_frames.c`, FEC and DSP tools, vocoders, the
  protocol hosts' coders. Arithmetic on long bit vectors and samples, without
  state between calls; unit tests reach it and enumeration does not. With the headers
  of the chip vendors this is by far the largest part of the repository.
* Logging, statistics, LEDs, levels and the settings that are passed through.
* Bit frames of BIT modems, and the settings sent with `ADD_MODE`.
* Hotspot firmware (`modem/OPENMT_HS`): register sequences of a radio chip and
  vendor libraries.
* The boot loader's build for a fixed bit rate and its access to RAM; the modes of
  `openmt_flash.sh` that use the chip's own loader.
* Interactive one-shot tools (flasher, calibration), the pages of the dashboard
  and the OpenMT Radio client, which appear as sources of requests and as one
  more service.
* Shutdown of Modem_Host (`sigintHandler()`) and its `commandThread()`.
* Parts that are planned but not there yet: section 8.

## 8. Plan

The first group proves more of what is there, the second extends the model.

1. Proofs: `TimelineIsKept` of `FrameParsers`, from the balance between the bytes of
   sample frames sent, played, skipped and lost.
2. Composition of `HostConnections` with `MmdvmBridge`: the control frames of the
   first are the environment of the second, which removes `wanted` and `told`
   as free choices.
3. The other gateways (reflector links with the same shape of login and keep-alive),
   the bridges of the OpenMT and OpenMT_HS modems, and the transmit state machine of
   the SDR bridges.
