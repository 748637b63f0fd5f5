------------------------------- MODULE EngineTx ------------------------------
(***************************************************************************)
(* engine.c, transmit side of the sample modem's firmware.  The main loop  *)
(* takes frames from the host and fills the ring txBuf; the sample         *)
(* interrupt engine_sample_tick() plays it, switches the transmitter off   *)
(* after the end of a transmission and waits when it runs dry.  They share *)
(* txHead, txTail, txState and txEot without masking the interrupt.        *)
(*                                                                         *)
(* The interrupt is one step and may come between any two accesses of the  *)
(* main loop to shared state.  Elapsed time is a choice.                   *)
(***************************************************************************)
EXTENDS Naturals

CONSTANTS TX_BUF_SAMPLES,     \* size of txBuf
          SAMPLES_PER_FRAME,
          TX_PRIME_SAMPLES,   \* samples needed to start playing
          TX_CYCLE_SAMPLES,   \* a silent gap is a multiple of this
          TagMax              \* samples are told apart by their number, counted to this

ASSUME EngineAssumption ==
    /\ TX_BUF_SAMPLES \in Nat \ {0, 1}
    /\ SAMPLES_PER_FRAME \in 1 .. TX_BUF_SAMPLES - 1
    /\ TX_PRIME_SAMPLES \in 1 .. TX_BUF_SAMPLES - 1
    /\ TX_CYCLE_SAMPLES \in Nat \ {0}
    /\ TagMax \in Nat /\ TagMax > TX_BUF_SAMPLES

Index == 0 .. TX_BUF_SAMPLES - 1
Tag   == 0 .. TagMax - 1

VARIABLES txBuf,       \* txBuf: the samples, by tag
          txHead, txTail, txState, txEot,
          stallAlign,  \* stallAlign
          stallCount,  \* stallCount, modulo TX_CYCLE_SAMPLES
          ptt,         \* the PTT pin
          dataIsOld,   \* more than TX_UNDERRUN_TIMEOUT_MS since lastDataMs
          pc,          \* where the main loop is
          lost,        \* frames of silence that endResync() has still to insert
          host,        \* does the host still send?
          tag,         \* tag of the next sample accepted from the host
          owed,        \* samples accepted and neither played nor dropped by keyDown()
          gap          \* silent samples since the last one played, modulo TX_CYCLE_SAMPLES

ring    == <<txBuf, txHead, txTail>>
stall   == <<stallAlign, stallCount>>
history == <<tag, owed, gap>>
vars    == <<ring, txState, txEot, stall, ptt, dataIsOld, pc, lost, host, history>>

Pc == {"loop", "store", "clearEot", "keyUp", "pttOn", "setEot", "silence", "idle", "drop", "pttOff",
       "heal"}

Init ==
    /\ txBuf = [i \in Index |-> 0]
    /\ txHead = 0
    /\ txTail = 0
    /\ txState = "IDLE"
    /\ txEot = FALSE
    /\ stallAlign = FALSE
    /\ stallCount = 0
    /\ ptt = FALSE
    /\ dataIsOld = FALSE
    /\ pc = "loop"
    /\ lost = 0
    /\ host = TRUE
    /\ tag = 0
    /\ owed = 0
    /\ gap = 0

------------------------------------------------------------------------------
\* An index moved on by up to the size of the ring: & TX_MASK.
Wrap(i) == IF i >= TX_BUF_SAMPLES THEN i - TX_BUF_SAMPLES ELSE i

txCount == IF txHead >= txTail THEN txHead - txTail ELSE txHead + TX_BUF_SAMPLES - txTail

NextInCycle(n) == IF n + 1 = TX_CYCLE_SAMPLES THEN 0 ELSE n + 1

------------------------------------------------------------------------------
(* The sample interrupt: engine_sample_tick() *)

\* A transmission starts to play when enough is there, after a stall only at
\* a whole number of cycles; at the end of a transmission at once.
Primed == txEot \/ (txCount >= TX_PRIME_SAMPLES /\ (stallAlign => stallCount = 0))

Starts == txState = "PRIME" /\ Primed

Playing == txState = "PLAY" \/ Starts

PlaySample ==
    /\ Playing
    /\ txCount # 0
    /\ txTail' = Wrap(txTail + 1)
    /\ txState' = "PLAY"
    /\ stallAlign' = (stallAlign /\ ~ Starts)
    /\ owed' = owed - 1
    /\ gap' = 0
    /\ UNCHANGED <<txBuf, txHead, txEot, stallCount, ptt, dataIsOld, pc, lost, host, tag>>

\* Everything the host sent has been played.
KeyDownAtEnd ==
    /\ Playing
    /\ txCount = 0
    /\ txEot
    /\ txState' = "IDLE"
    /\ ptt' = FALSE
    /\ stallAlign' = (stallAlign /\ ~ Starts)
    /\ UNCHANGED <<ring, txEot, stallCount, dataIsOld, pc, lost, host, history>>

\* Mutant: the silent sample of the underrun itself is not counted.
RunDry_notCounted ==
    /\ Playing
    /\ txCount = 0
    /\ ~ txEot
    /\ txState' = "PRIME"
    /\ stallAlign' = TRUE
    /\ stallCount' = 0
    /\ gap' = NextInCycle(gap)
    /\ UNCHANGED <<ring, txEot, ptt, dataIsOld, pc, lost, host, tag, owed>>

RunDry ==
    /\ Playing
    /\ txCount = 0
    /\ ~ txEot
    /\ txState' = "PRIME"
    /\ stallAlign' = TRUE
    /\ stallCount' = NextInCycle(0)
    /\ gap' = NextInCycle(gap)
    /\ UNCHANGED <<ring, txEot, ptt, dataIsOld, pc, lost, host, tag, owed>>

StaySilent ==
    /\ txState = "PRIME"
    /\ ~ Primed
    /\ stallCount' = IF stallAlign THEN NextInCycle(stallCount) ELSE stallCount
    /\ gap' = NextInCycle(gap)
    /\ UNCHANGED <<ring, txState, txEot, stallAlign, ptt, dataIsOld, pc, lost, host, tag, owed>>

engine_sample_tick == PlaySample \/ KeyDownAtEnd \/ RunDry \/ StaySilent

------------------------------------------------------------------------------
(* The main loop: handleSampData() *)

\* Mutant: the last place of the ring is used as well.
Fits_lastPlace == SAMPLES_PER_FRAME <= TX_BUF_SAMPLES - txCount

Fits == SAMPLES_PER_FRAME <= (TX_BUF_SAMPLES - 1) - txCount

\* A frame that does not fit is refused.
TakeSamples(next) == pc' = IF Fits THEN "store" ELSE next

ReceiveSamples ==
    /\ pc = "loop"
    /\ lost = 0
    /\ host
    /\ TakeSamples("loop")
    /\ UNCHANGED <<ring, txState, txEot, stall, ptt, dataIsOld, lost, host, history>>

\* The samples are stored and then made visible by moving txHead.
Store ==
    /\ pc = "store"
    /\ LET at(k) == Wrap(txHead + k)
           no(k) == IF tag + k >= TagMax THEN tag + k - TagMax ELSE tag + k
       IN  /\ txBuf' = [i \in Index |->
                 IF \E k \in 0 .. SAMPLES_PER_FRAME - 1 : at(k) = i
                 THEN no(CHOOSE k \in 0 .. SAMPLES_PER_FRAME - 1 : at(k) = i)
                 ELSE txBuf[i]]
           /\ txHead' = at(SAMPLES_PER_FRAME)
           /\ tag' = no(SAMPLES_PER_FRAME)
    /\ owed' = owed + SAMPLES_PER_FRAME
    /\ pc' = "clearEot"
    /\ UNCHANGED <<txTail, txState, txEot, stall, ptt, dataIsOld, lost, host, gap>>

\* Mutant: an old end of transmission stays set for the new one.
ClearEot_kept ==
    /\ pc = "clearEot"
    /\ dataIsOld' = FALSE
    /\ pc' = "keyUp"
    /\ UNCHANGED <<ring, txState, txEot, stall, ptt, lost, host, history>>

ClearEot ==
    /\ pc = "clearEot"
    /\ txEot' = FALSE
    /\ dataIsOld' = FALSE
    /\ pc' = "keyUp"
    /\ UNCHANGED <<ring, txState, stall, ptt, lost, host, history>>

\* The first samples of a transmission
KeyUp ==
    /\ pc = "keyUp"
    /\ \/ /\ txState = "IDLE"
          /\ stallAlign' = FALSE
          /\ txState' = "PRIME"
          /\ pc' = "pttOn"
       \/ /\ txState # "IDLE"
          /\ pc' = "loop"
          /\ UNCHANGED <<stallAlign, txState>>
    /\ UNCHANGED <<ring, txEot, stallCount, ptt, dataIsOld, lost, host, history>>

PttOn ==
    /\ pc = "pttOn"
    /\ ptt' = TRUE
    /\ pc' = "loop"
    /\ UNCHANGED <<ring, txState, txEot, stall, dataIsOld, lost, host, history>>

------------------------------------------------------------------------------
(* The main loop: handleFrame(), endResync() *)

\* SAMP_EOT, or SET_MODE to idle: requestEot()
ReceiveEot ==
    /\ pc = "loop"
    /\ lost = 0
    /\ host
    /\ txState # "IDLE"
    /\ pc' = "setEot"
    /\ UNCHANGED <<ring, txState, txEot, stall, ptt, dataIsOld, lost, host, history>>

SetEot ==
    /\ pc = "setEot"
    /\ txEot' = TRUE
    /\ pc' = "loop"
    /\ UNCHANGED <<ring, txState, stall, ptt, dataIsOld, lost, host, history>>

\* Bytes were lost: endResync() has a frame, or two, to make up for.
Damage ==
    /\ pc = "loop"
    /\ lost = 0
    /\ host
    /\ lost' \in {1, 2}
    /\ UNCHANGED <<ring, txState, txEot, stall, ptt, dataIsOld, pc, host, history>>

\* insertSilenceFrame(): only in a transmission
InsertSilence ==
    /\ pc = "loop"
    /\ lost > 0
    /\ lost' = lost - 1
    /\ pc' = IF txState = "IDLE" THEN "loop" ELSE "silence"
    /\ UNCHANGED <<ring, txState, txEot, stall, ptt, dataIsOld, host, history>>

Silence ==
    /\ pc = "silence"
    /\ TakeSamples("loop")
    /\ UNCHANGED <<ring, txState, txEot, stall, ptt, dataIsOld, lost, host, history>>

------------------------------------------------------------------------------
(* The main loop: housekeeping() and keyDown() *)

\* Mutant: the timer is looked at while the engine plays only.
Timeout_playingOnly ==
    /\ pc = "loop"
    /\ lost = 0
    /\ txState = "PLAY"
    /\ dataIsOld
    /\ pc' = "idle"
    /\ UNCHANGED <<ring, txState, txEot, stall, ptt, dataIsOld, lost, host, history>>

Timeout ==
    /\ pc = "loop"
    /\ lost = 0
    /\ txState # "IDLE"
    /\ dataIsOld
    /\ pc' = "idle"
    /\ UNCHANGED <<ring, txState, txEot, stall, ptt, dataIsOld, lost, host, history>>

GoIdle ==
    /\ pc = "idle"
    /\ txState' = "IDLE"
    /\ pc' = "drop"
    /\ UNCHANGED <<ring, txEot, stall, ptt, dataIsOld, lost, host, history>>

Drop ==
    /\ pc = "drop"
    /\ txTail' = txHead
    /\ owed' = 0
    /\ pc' = "pttOff"
    /\ UNCHANGED <<txBuf, txHead, txState, txEot, stall, ptt, dataIsOld, lost, host, tag, gap>>

PttOff ==
    /\ pc = "pttOff"
    /\ ptt' = FALSE
    /\ pc' = "heal"
    /\ UNCHANGED <<ring, txState, txEot, stall, dataIsOld, lost, host, history>>

\* Every pass over an idle engine switches the pin off again.
SelfHeal ==
    /\ pc \in {"loop", "heal"}
    /\ lost = 0
    /\ txState = "IDLE"
    /\ ptt' = FALSE
    /\ pc' = "loop"
    /\ UNCHANGED <<ring, txState, txEot, stall, dataIsOld, lost, host, history>>

------------------------------------------------------------------------------
(* The host and the clock *)

HostStops ==
    /\ host
    /\ host' = FALSE
    /\ UNCHANGED <<ring, txState, txEot, stall, ptt, dataIsOld, pc, lost, history>>

TimePasses ==
    /\ ~ dataIsOld
    /\ dataIsOld' = TRUE
    /\ UNCHANGED <<ring, txState, txEot, stall, ptt, pc, lost, host, history>>

------------------------------------------------------------------------------
EngineLoop ==
    \/ Store \/ ClearEot \/ KeyUp \/ PttOn \/ SetEot \/ InsertSilence \/ Silence
    \/ Timeout \/ GoIdle \/ Drop \/ PttOff \/ SelfHeal

HostFrame == ReceiveSamples \/ ReceiveEot \/ Damage

Next == engine_sample_tick \/ EngineLoop \/ HostFrame \/ HostStops \/ TimePasses

Spec == Init /\ [][Next]_vars

\* The interrupt comes, the main loop runs and time passes.
FairSpec == Spec /\ WF_vars(engine_sample_tick) /\ WF_vars(EngineLoop) /\ WF_vars(TimePasses)

------------------------------------------------------------------------------
\* The state is well formed; indices stay inside the ring and the stall counter inside the cycle.
TypeOK ==
    /\ txBuf \in [Index -> Tag]
    /\ txHead \in Index
    /\ txTail \in Index
    /\ txState \in {"IDLE", "PRIME", "PLAY"}
    /\ txEot \in BOOLEAN
    /\ stallAlign \in BOOLEAN
    /\ stallCount \in 0 .. TX_CYCLE_SAMPLES - 1
    /\ ptt \in BOOLEAN
    /\ dataIsOld \in BOOLEAN
    /\ pc \in Pc
    /\ lost \in 0 .. 2
    /\ host \in BOOLEAN
    /\ tag \in Tag
    /\ owed \in Nat
    /\ gap \in 0 .. TX_CYCLE_SAMPLES - 1

(* "PTT off", "PTT on" at the states of txState: whenever the main loop is   *)
(* between two frames the transmitter is keyed exactly if the engine is not  *)
(* idle, although the interrupt switches it off at any instant, also while a *)
(* new frame is being stored.                                                *)
PttFollowsState == pc = "loop" => (ptt <=> txState # "IDLE")

(* As many samples are in the ring as were accepted and neither played nor   *)
(* dropped by keyDown(): full is never taken for empty.                      *)
AllAreThere == owed = txCount

(* The ring holds the samples accepted last from the host, all of them and   *)
(* in their order, until they are played or dropped by keyDown(): a frame    *)
(* stored while the interrupt plays never wraps onto what is still to play.  *)
NoSampleLost ==
    /\ AllAreThere
    /\ \A k \in 0 .. txCount - 1 :
           (txBuf[Wrap(txTail + k)] + (txCount - k)) % TagMax = tag

(* config.h on TX_STALL_CYCLE_ALIGN: after an underrun the audio restarts    *)
(* "only once the silent gap is a whole number of DMR TDMA cycles", unless   *)
(* the transmission has ended and only its rest is played.                   *)
StallKeepsCycle ==
    [][Starts /\ stallAlign /\ ~ txEot /\ txState' = "PLAY" => gap = 0]_vars

(* README.md: "If the host disappears without EOT, PTT drops" after the      *)
(* underrun timeout, in whatever state the frame that came last left the     *)
(* engine.                                                                   *)
HostGonePttOff == ~ host ~> [](~ ptt)
==============================================================================
