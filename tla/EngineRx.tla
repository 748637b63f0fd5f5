------------------------------- MODULE EngineRx ------------------------------
(***************************************************************************)
(* engine.c, receive side of the sample modem's firmware.  The sample      *)
(* interrupt stores the received samples in the frame ring rxBuf, the main *)
(* loop sends whole frames to the host.  While a transmission plays, the   *)
(* interrupt notes now and then which receive sample was taken together    *)
(* with which transmit sample; the main loop reads the note under a        *)
(* sequence number and reports it, relative to the stream the host gets.   *)
(* The DMR host places bursts in their time slots by these reports.        *)
(*                                                                         *)
(* The interrupt is one step and may come between any two accesses of the  *)
(* main loop to shared state.  A sample is the number of its tick.         *)
(***************************************************************************)
EXTENDS Integers, Sequences

CONSTANTS RX_FRAMES,          \* frames in rxBuf, a power of two
          SAMPLES_PER_FRAME,
          TX_TIMING_REFRESH,  \* transmit samples between two notes
          Word,               \* 2^w for the w-bit counters, a multiple of RX_FRAMES
          Start,              \* counts at which the run may begin
          MaxTicks,           \* bound: ticks of the sample timer
          MaxDownlinks        \* bound: downlinks

ASSUME RxAssumption ==
    /\ {RX_FRAMES, SAMPLES_PER_FRAME, TX_TIMING_REFRESH} \subseteq Nat \ {0}
    /\ Word \in Nat /\ Word % RX_FRAMES = 0 /\ Word > RX_FRAMES
    /\ Start \subseteq 0 .. Word - 1
    /\ MaxTicks \in Nat /\ MaxDownlinks \in Nat

\* The run is shorter than half the range of the counters: with 32 bits and
\* 24000 samples a second, a day.
ASSUME RunAssumption == MaxTicks < Word \div 2

VARIABLES rxBuf, rxIdx, rxWrCount, rxRdCount,
          txOn,        \* txState # TX_IDLE
          playIdx,     \* playIdx, modulo TX_TIMING_REFRESH
          tmPending, tmReady, tmSeq,
          tmK, tmR,    \* the note; tmK as the tick and the downlink of that transmit sample
          configured,  \* configured
          pc,          \* where the main loop is
          frame,       \* local variable f of sendRxFrames()
          s1, k, r,    \* local variables of sendTimingReport()
          now,         \* ticks so far
          downlink,    \* history: the downlinks so far
          heard,       \* history: the samples the host got
          report,      \* history: what the host was told last
          answered,    \* history: has this downlink been reported?
          overflowed   \* history: has a sample been dropped?

ring    == <<rxBuf, rxIdx, rxWrCount>>
note    == <<tmPending, tmReady, tmSeq, tmK, tmR>>
tx      == <<txOn, playIdx>>
local   == <<frame, s1, k, r>>
history == <<now, downlink, heard, report, answered, overflowed>>
vars    == <<ring, rxRdCount, note, tx, configured, pc, local, history>>

Count == 0 .. Word - 1
Place == 0 .. SAMPLES_PER_FRAME - 1
Samples == [Place -> 0 .. MaxTicks]

Notes == [tick : 0 .. MaxTicks, downlink : 0 .. MaxDownlinks]

NoNote == [tick |-> 0, downlink |-> 0]

Blank == [i \in Place |-> 0]

NoReport == [pos |-> 0, tick |-> 0, fresh |-> TRUE]

\* After any time without a transmission the ring is empty somewhere on its way.
Init ==
    /\ rxBuf = [n \in 0 .. RX_FRAMES - 1 |-> Blank]
    /\ rxIdx = 0
    /\ rxWrCount \in Start
    /\ rxRdCount = rxWrCount
    /\ txOn = FALSE
    /\ playIdx = 0
    /\ tmPending = FALSE /\ tmReady = FALSE
    /\ tmSeq = 0
    /\ tmK = NoNote /\ tmR = 0
    /\ configured = FALSE
    /\ pc = "parse"
    /\ frame = Blank
    /\ s1 = 0 /\ k = NoNote /\ r = 0
    /\ now = 0
    /\ downlink = 0
    /\ heard = <<>>
    /\ report = NoReport
    /\ answered = TRUE
    /\ overflowed = FALSE

------------------------------------------------------------------------------
(* The sample interrupt: engine_sample_tick() *)

rxPos == (rxWrCount * SAMPLES_PER_FRAME + rxIdx) % Word

Waiting == (rxWrCount - rxRdCount) % Word

\* Mutant: one frame more.
Full_late == Waiting > RX_FRAMES

Full == Waiting >= RX_FRAMES

NextPlace == IF rxIdx + 1 >= SAMPLES_PER_FRAME THEN 0 ELSE rxIdx + 1

\* The place in the frame moves on even when samples are dropped.
RxSample ==
    /\ rxIdx' = NextPlace
    /\ rxBuf' = IF Full THEN rxBuf ELSE [rxBuf EXCEPT ![rxWrCount % RX_FRAMES][rxIdx] = now + 1]
    /\ rxWrCount' = IF ~ Full /\ rxIdx' = 0 THEN (rxWrCount + 1) % Word ELSE rxWrCount
    /\ overflowed' = (overflowed \/ Full)
    /\ now' = now + 1
    /\ now < MaxTicks

TakeNote ==
    IF tmPending
    THEN /\ tmSeq' = (tmSeq + 2) % Word
         /\ tmK' = [tick |-> now + 1, downlink |-> downlink]
         /\ tmR' = rxPos
         /\ tmReady' = TRUE
    ELSE UNCHANGED <<tmSeq, tmK, tmR, tmReady>>

TickPlays ==
    /\ txOn
    /\ RxSample
    /\ TakeNote
    /\ playIdx' = (playIdx + 1) % TX_TIMING_REFRESH
    /\ tmPending' = (playIdx' = 0)
    /\ UNCHANGED <<rxRdCount, txOn, configured, pc, local, downlink, heard, report, answered>>

\* Nothing to play: the transmission waits, has run dry (a new note is due) or ends.
TickSilent(dry, ends) ==
    /\ dry \/ ends => txOn
    /\ RxSample
    /\ tmPending' = (tmPending \/ dry)
    /\ txOn' = (txOn /\ ~ ends)
    /\ UNCHANGED <<rxRdCount, tmReady, tmSeq, tmK, tmR, playIdx, configured, pc, local,
                   downlink, heard, report, answered>>

engine_sample_tick == TickPlays \/ TickSilent(FALSE, FALSE) \/ TickSilent(TRUE, FALSE) \/ TickSilent(FALSE, TRUE)

------------------------------------------------------------------------------
(* The main loop: parseUart() *)

At(from, to) == pc = from /\ pc' = to

NothingToParse ==
    /\ At("parse", "rx")
    /\ UNCHANGED <<ring, rxRdCount, note, tx, configured, local, history>>

\* handleSetConfig()
Configure ==
    /\ ~ configured
    /\ At("parse", "rx")
    /\ configured' = TRUE
    /\ UNCHANGED <<ring, rxRdCount, note, tx, local, history>>

\* handleSampData() with the transmitter off: a downlink begins.
KeyUp ==
    /\ ~ txOn
    /\ downlink < MaxDownlinks
    /\ At("parse", "rx")
    /\ playIdx' = 0
    /\ tmReady' = FALSE
    /\ tmPending' = TRUE
    /\ txOn' = TRUE
    /\ downlink' = downlink + 1
    /\ answered' = FALSE
    /\ UNCHANGED <<ring, rxRdCount, tmSeq, tmK, tmR, configured, local, now, heard, report, overflowed>>

\* keyDown(), on an idle command or a timeout
KeyDown ==
    /\ txOn
    /\ At("parse", "rx")
    /\ txOn' = FALSE
    /\ UNCHANGED <<ring, rxRdCount, note, playIdx, configured, local, history>>

------------------------------------------------------------------------------
(* sendRxFrames() *)

RxLook ==
    /\ pc = "rx"
    /\ pc' = CASE Waiting = 0 -> "tm" [] Waiting # 0 /\ configured -> "copy" [] OTHER -> "next"
    /\ UNCHANGED <<ring, rxRdCount, note, tx, configured, local, history>>

RxCopy ==
    /\ At("copy", "send")
    /\ frame' = rxBuf[rxRdCount % RX_FRAMES]
    /\ UNCHANGED <<ring, rxRdCount, note, tx, configured, s1, k, r, history>>

RxSend ==
    /\ At("send", "next")
    /\ heard' = heard \o [i \in 1 .. SAMPLES_PER_FRAME |-> frame[i - 1]]
    /\ frame' = Blank
    /\ UNCHANGED <<ring, rxRdCount, note, tx, configured, s1, k, r, now, downlink, report, answered, overflowed>>

UartBusy ==
    /\ At("send", "tm")
    /\ frame' = Blank
    /\ UNCHANGED <<ring, rxRdCount, note, tx, configured, s1, k, r, history>>

RxNext ==
    /\ At("next", "rx")
    /\ rxRdCount' = (rxRdCount + 1) % Word
    /\ UNCHANGED <<ring, note, tx, configured, local, history>>

------------------------------------------------------------------------------
(* sendTimingReport() *)

\* The end of the local variables.
Forget == s1' = 0 /\ k' = NoNote /\ r' = 0

TmLook ==
    /\ pc = "tm"
    /\ pc' = IF tmReady /\ configured THEN "seq1" ELSE "parse"
    /\ UNCHANGED <<ring, rxRdCount, note, tx, configured, local, history>>

TmSeq1 ==
    /\ At("seq1", "k")
    /\ s1' = tmSeq
    /\ UNCHANGED <<ring, rxRdCount, note, tx, configured, frame, k, r, history>>

TmReadK ==
    /\ At("k", "r")
    /\ k' = tmK
    /\ UNCHANGED <<ring, rxRdCount, note, tx, configured, frame, s1, r, history>>

TmReadR ==
    /\ At("r", "seq2")
    /\ r' = tmR
    /\ UNCHANGED <<ring, rxRdCount, note, tx, configured, frame, s1, k, history>>

\* Mutant: the sequence number is not looked at again.
TmSeq2_trusts ==
    /\ At("seq2", "report")
    /\ UNCHANGED <<ring, rxRdCount, note, tx, configured, local, history>>

\* Mutant: an even number is taken for a note being written.
TmSeq2_parity ==
    /\ At("seq2", IF s1 = tmSeq /\ s1 % 2 = 1 THEN "report" ELSE "parse")
    /\ UNCHANGED <<ring, rxRdCount, note, tx, configured, local, history>>

\* The number is never odd here: the interrupt runs to its end.
TmSeq2 ==
    \/ /\ s1 = tmSeq
       /\ At("seq2", "report")
       /\ UNCHANGED <<ring, rxRdCount, note, tx, configured, local, history>>
    \/ /\ s1 # tmSeq
       /\ At("seq2", "parse")
       /\ Forget
       /\ UNCHANGED <<ring, rxRdCount, note, tx, configured, frame, history>>

Signed(n) == IF n < Word \div 2 THEN n ELSE n - Word

off == Signed((r - rxRdCount * SAMPLES_PER_FRAME) % Word)

TmSend ==
    /\ At("report", "clear")
    /\ report' = [pos |-> Len(heard) + 1 + off, tick |-> k.tick, fresh |-> k.downlink = downlink]
    /\ answered' = TRUE
    /\ Forget
    /\ UNCHANGED <<ring, rxRdCount, note, tx, configured, frame, now, downlink, heard, overflowed>>

\* Mutant: cleared whether or not there was room.
TmUartBusy_clears ==
    /\ At("report", "parse")
    /\ tmReady' = FALSE
    /\ Forget
    /\ UNCHANGED <<ring, rxRdCount, tmPending, tmSeq, tmK, tmR, tx, configured, frame, history>>

TmUartBusy ==
    /\ At("report", "parse")
    /\ Forget
    /\ UNCHANGED <<ring, rxRdCount, note, tx, configured, frame, history>>

TmClear ==
    /\ At("clear", "parse")
    /\ tmReady' = FALSE
    /\ UNCHANGED <<ring, rxRdCount, tmPending, tmSeq, tmK, tmR, tx, configured, local, history>>

------------------------------------------------------------------------------
parseUart == NothingToParse \/ Configure \/ KeyUp \/ KeyDown

sendRxFrames == RxLook \/ RxCopy \/ RxSend \/ UartBusy \/ RxNext

sendTimingReport == TmLook \/ TmSeq1 \/ TmReadK \/ TmReadR \/ TmSeq2 \/ TmSend \/ TmUartBusy \/ TmClear

engine_poll == parseUart \/ sendRxFrames \/ sendTimingReport

Next == engine_sample_tick \/ engine_poll

Spec == Init /\ [][Next]_vars

\* The main loop runs, and the UART has room again and again.
Fairness == WF_vars(engine_poll) /\ SF_vars(RxSend) /\ SF_vars(TmSend)

FairSpec == Spec /\ Fairness

------------------------------------------------------------------------------
\* The state is well formed; the interrupt stores inside the ring.
TypeOK ==
    /\ rxBuf \in [0 .. RX_FRAMES - 1 -> Samples]
    /\ rxIdx \in Place
    /\ rxWrCount \in Count /\ rxRdCount \in Count
    /\ txOn \in BOOLEAN /\ playIdx \in 0 .. TX_TIMING_REFRESH - 1
    /\ tmPending \in BOOLEAN /\ tmReady \in BOOLEAN
    /\ tmSeq \in Count /\ tmR \in Count /\ s1 \in Count /\ r \in Count
    /\ tmK \in Notes /\ k \in Notes
    /\ configured \in BOOLEAN
    /\ pc \in {"parse", "rx", "copy", "send", "next", "tm", "seq1", "k", "r", "seq2", "report", "clear"}
    /\ frame \in Samples
    /\ now \in 0 .. MaxTicks
    /\ downlink \in 0 .. MaxDownlinks
    /\ heard \in Seq(0 .. MaxTicks)
    /\ report \in [pos : Int, tick : 0 .. MaxTicks, fresh : BOOLEAN]
    /\ answered \in BOOLEAN /\ overflowed \in BOOLEAN

(* The interrupt and the main loop share rxBuf without a lock: the host gets *)
(* every sample once and in order, whenever the interrupt comes and however  *)
(* often the UART is busy, until the ring overflows.  After an overflow the  *)
(* first frame may begin with old samples: the ring is drained in the middle *)
(* of a frame, and the interrupt stores the rest of it.                      *)
StreamIsWhole ==
    ~ overflowed => \A i \in 1 .. Len(heard) - 1 : heard[i + 1] = heard[i] + 1

(* README.md of the firmware: a report says "which RX sample was being       *)
(* captured when TX sample 0 went on air".  No report mixes two notes or is  *)
(* about an earlier downlink, and its offset leads to the right sample of    *)
(* the stream the host gets, counters that wrap around included.             *)
ReportsAreRight ==
    /\ report.fresh
    /\ ~ overflowed /\ report # NoReport /\ report.pos \in DOMAIN heard
           => heard[report.pos] = report.tick

(* "... each time a downlink starts playing": the interrupt may take a new   *)
(* note while the main loop sends the last one, and the new one is then      *)
(* dropped, but no downlink is left without a report.                        *)
DownlinkIsReported ==
    tmK.downlink = downlink /\ downlink # 0 /\ ~ tmReady => answered

(* A note is reported in the end, or the next downlink begins.               *)
ReportGetsOut == tmReady /\ configured ~> ~ tmReady
==============================================================================
