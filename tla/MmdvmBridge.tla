----------------------------- MODULE MmdvmBridge -----------------------------
(***************************************************************************)
(* mmdvm_bridge.c: the bridge between Modem_Host and an MMDVM modem.  One  *)
(* thread handles the frames of the host and of the modem, sends delayed   *)
(* mode commands (runPending) and the transmit queue (pace).               *)
(*                                                                         *)
(* A step is one handler run to its end.  Elapsed time is a choice: a      *)
(* timeout may happen whenever the state it watches lasts.                 *)
(***************************************************************************)
EXTENDS Naturals, Sequences, FiniteSets, Functions

CONSTANTS Conn,        \* connection ids of the host
          Mode,        \* mode names
          DMR,         \* the one mode with un-key commands of its own
          Buffered,    \* modes that start sending at a filled queue (D-STAR, M17)
          Idle,        \* the modem's idle mode, in which it scans
          NoMode, NoConn,
          PendingMax,  \* slots of pending[] (8)
          TxqMax,      \* frames that fit in txq
          StartAt,     \* queued frames at which a mode of Buffered starts sending
          MaxFaults,   \* bound: times the modem stays keyed by a fault
          HostRestarts \* may Modem_Host stop and be started again?

ASSUME BridgeAssumption ==
    /\ DMR \in Mode /\ Buffered \subseteq Mode \ {DMR}
    /\ Idle \notin Mode /\ NoMode \notin Mode /\ NoConn \notin Conn
    /\ PendingMax \in Nat \ {0} /\ TxqMax \in Nat \ {0} /\ StartAt \in Nat
    /\ MaxFaults \in Nat
    /\ HostRestarts \in BOOLEAN

VARIABLES hostRuns,    \* host: is Modem_Host running?
          wanted,      \* host: the mode switched on for each connection
          told,        \* host: connections announced with MODE_CONN
          enabled,     \* enabled
          connName,    \* conns[].name, NoMode when not used
          activeConn,  \* activeConn
          txq,         \* frames in txq: [from, eot]
          bufReady,    \* bufReady
          txOn,        \* txOn
          pending,     \* delayed mode commands, the first due first
          modemKeyed,  \* modemKeyed: what the modem last reported
          modemRx,     \* modemRx: likewise
          strayStage,  \* strayStage
          resetGpio,   \* cfg.resetGpio: is the modem's reset wired to a GPIO line?
          modemMode,   \* the modem: its mode
          keyed,       \* the modem: why its transmitter is on, "no" when it is off
          faults,      \* faults of the modem so far
          orderly      \* history: have services come and gone only while nobody had the
                       \* modem, and has it changed hands only while no command waited?

hostVars  == <<hostRuns, wanted, told>>
owner     == <<enabled, connName, activeConn>>
txState   == <<txq, bufReady, txOn>>
watch     == <<modemKeyed, modemRx, strayStage, resetGpio>>
modemVars == <<modemMode, keyed, faults>>
vars      == <<hostVars, owner, txState, pending, watch, modemVars, orderly>>

Frame == [from : Conn, eot : BOOLEAN]

Slot == 1 .. PendingMax
Command == [slot : Slot, mode : Mode \cup {Idle}]

Init ==
    /\ hostRuns = TRUE
    /\ wanted = [c \in Conn |-> NoMode]
    /\ told = {}
    /\ enabled = {}
    /\ connName = [c \in Conn |-> NoMode]
    /\ activeConn = NoConn
    /\ txq = <<>>
    /\ bufReady = FALSE
    /\ txOn = FALSE
    /\ pending = <<>>
    /\ modemKeyed = FALSE
    /\ modemRx = FALSE
    /\ strayStage = 0
    /\ resetGpio \in BOOLEAN
    /\ modemMode = Idle
    /\ keyed = "no"
    /\ faults = 0
    /\ orderly = TRUE

------------------------------------------------------------------------------
(* Commands to the modem *)

restingMode(modes) == IF Cardinality(modes) = 1 THEN CHOOSE m \in modes : TRUE ELSE Idle

\* A command that ends what the modem sends; a fault may need a reset.
Unkeyed == IF keyed = "hard" THEN "hard" ELSE "no"

\* writeModeFrame(): into DMR it clears the DMR start flag as well.
writeModeFrame(m) == modemMode' = m /\ keyed' = Unkeyed

\* sendConfig(): the configuration names the mode to rest in.
sendConfig == modemMode' = restingMode(enabled') /\ UNCHANGED keyed

FreeSlots == Slot \ {pending[i].slot : i \in DOMAIN pending}

\* Puts a command in the first slot that is not used.
Delay(m) ==
    \E s \in FreeSlots :
        /\ \A t \in FreeSlots : s <= t
        /\ pending' = Append(pending, [slot |-> s, mode |-> m])

\* sendConfig() and queueModeCommand(code, 1000); without a free slot the
\* command is sent at once.
queueModeCommand(m) ==
    \/ /\ Delay(m)
       /\ sendConfig
    \/ /\ FreeSlots = {}
       /\ writeModeFrame(m)
       /\ UNCHANGED pending

setMode(m, on) ==
    \/ /\ on /\ m \notin enabled
       /\ enabled' = enabled \cup {m}
       /\ queueModeCommand(m)
    \/ /\ on /\ m \in enabled
       /\ writeModeFrame(m)
       /\ UNCHANGED <<enabled, pending>>
    \/ /\ ~ on
       /\ enabled' = enabled \ {m}
       /\ queueModeCommand(restingMode(enabled'))

DropQueue == txq' = <<>> /\ bufReady' = FALSE /\ txOn' = FALSE

\* goIdle(true)
goIdle ==
    /\ activeConn' = NoConn
    /\ DropQueue
    /\ writeModeFrame(restingMode(enabled))

\* unkeyDmr(): the owner keeps the modem.
unkeyDmr ==
    /\ DropQueue
    /\ keyed' = Unkeyed
    /\ UNCHANGED <<activeConn, modemMode>>

------------------------------------------------------------------------------
(* handleControl(): control frames of the host *)

OwnedBy(m) == activeConn # NoConn /\ connName[activeConn] = m

\* No registration is half done, no command is waiting.
Settled == pending = <<>> /\ \A c \in Conn : wanted[c] # NoMode => c \in told

AtRest == activeConn = NoConn /\ Settled

OrderlyIf(fact) == orderly' = (orderly /\ fact)

\* MODE_ON; Modem_Host lets one service register a mode.
ModeOn(c, m) ==
    /\ hostRuns
    /\ wanted[c] = NoMode
    /\ \A d \in Conn : wanted[d] # m
    /\ OrderlyIf(AtRest)
    /\ wanted' = [wanted EXCEPT ![c] = m]
    /\ setMode(m, TRUE)
    /\ UNCHANGED <<hostRuns, told, connName, activeConn, txState, watch, faults>>

\* Mutant: the delayed commands of the registration are left alone.
ModeConn_keepsPending(c) ==
    /\ wanted[c] # NoMode
    /\ c \notin told
    /\ told' = told \cup {c}
    /\ connName' = [connName EXCEPT ![c] = wanted[c]]
    /\ \/ activeConn \in {NoConn, c} /\ goIdle
       \/ activeConn \notin {NoConn, c} /\ UNCHANGED <<activeConn, txState, modemMode, keyed>>
    /\ UNCHANGED <<hostRuns, wanted, enabled, pending, watch, faults, orderly>>

\* MODE_CONN: registerConn()
ModeConn(c) ==
    /\ wanted[c] # NoMode
    /\ c \notin told
    /\ told' = told \cup {c}
    /\ connName' = [connName EXCEPT ![c] = wanted[c]]
    /\ \/ activeConn \in {NoConn, c} /\ pending' = <<>> /\ goIdle
       \/ activeConn \notin {NoConn, c} /\ UNCHANGED <<pending, activeConn, txState, modemMode, keyed>>
    /\ UNCHANGED <<hostRuns, wanted, enabled, watch, faults, orderly>>

\* Mutant: the owner's queue is kept when its mode goes.
ModeOff_keepsQueue(c) ==
    LET m == wanted[c] IN
    /\ c \in told
    /\ OrderlyIf(AtRest)
    /\ wanted' = [wanted EXCEPT ![c] = NoMode]
    /\ told' = told \ {c}
    /\ connName' = [d \in Conn |-> IF connName[d] = m THEN NoMode ELSE connName[d]]
    /\ activeConn' = IF OwnedBy(m) THEN NoConn ELSE activeConn
    /\ setMode(m, FALSE)
    /\ UNCHANGED <<hostRuns, txState, watch, faults>>

\* MODE_OFF: unregisterMode(), with goIdle(false) if the mode has the modem, and setMode()
ModeOff(c) ==
    LET m == wanted[c] IN
    /\ c \in told
    /\ OrderlyIf(AtRest)
    /\ wanted' = [wanted EXCEPT ![c] = NoMode]
    /\ told' = told \ {c}
    /\ connName' = [d \in Conn |-> IF connName[d] = m THEN NoMode ELSE connName[d]]
    /\ \/ OwnedBy(m) /\ activeConn' = NoConn /\ DropQueue
       \/ ~ OwnedBy(m) /\ UNCHANGED <<activeConn, txState>>
    /\ setMode(m, FALSE)
    /\ UNCHANGED <<hostRuns, watch, faults>>

\* RELOAD: startModem()
Reload ==
    /\ hostRuns
    /\ OrderlyIf(AtRest)
    /\ UNCHANGED enabled
    /\ sendConfig
    /\ UNCHANGED <<hostVars, connName, activeConn, txState, pending, watch, faults>>

\* Modem_Host stops, and its services with it, without a word to the bridge.
HostDown ==
    /\ HostRestarts
    /\ hostRuns
    /\ OrderlyIf(AtRest)
    /\ hostRuns' = FALSE
    /\ wanted' = [c \in Conn |-> NoMode]
    /\ told' = {}
    /\ UNCHANGED <<owner, txState, pending, watch, modemVars>>

\* HOST_UP: Modem_Host has started again.
HostUp ==
    /\ ~ hostRuns
    /\ hostRuns' = TRUE
    /\ connName' = [c \in Conn |-> NoMode]
    /\ activeConn' = NoConn
    /\ DropQueue
    /\ UNCHANGED enabled
    /\ sendConfig
    /\ UNCHANGED <<wanted, told, pending, watch, faults, orderly>>

------------------------------------------------------------------------------
(* handleRelay(): frames of the services *)

\* Mutant: a mode that is enabled already is not commanded again.
SetMode_onlyEnables(c) ==
    /\ hostRuns
    /\ connName[c] # NoMode
    /\ activeConn = NoConn
    /\ OrderlyIf(AtRest)
    /\ activeConn' = c
    /\ enabled' = enabled \cup {connName[c]}
    /\ sendConfig
    /\ UNCHANGED <<hostVars, connName, txState, pending, watch, faults>>

SetMode(c) ==
    /\ hostRuns
    /\ connName[c] # NoMode
    /\ activeConn = NoConn
    /\ OrderlyIf(AtRest)
    /\ activeConn' = c
    /\ setMode(connName[c], TRUE)
    /\ UNCHANGED <<hostVars, connName, txState, watch, faults>>

SetIdle(c) ==
    /\ hostRuns
    /\ activeConn = c
    /\ OrderlyIf(pending = <<>>)
    /\ goIdle
    /\ UNCHANGED <<hostVars, enabled, connName, pending, watch, faults>>

\* A 2MOD frame that turns the DMR start flag of the modem on or off.
RawDmrStart(c, on) ==
    /\ hostRuns
    /\ connName[c] = DMR
    /\ keyed' = CASE modemMode # DMR -> keyed
                  [] on /\ keyed = "no" -> "sending"
                  [] on -> keyed
                  [] OTHER -> Unkeyed
    /\ txOn' = (txOn /\ ~ (~ on /\ activeConn = c /\ txq = <<>>))
    /\ UNCHANGED <<hostVars, owner, txq, bufReady, pending, watch, modemMode, faults, orderly>>

\* queueTx(): a full queue is emptied.
queueTx(f) == txq' = Append(IF Len(txq) = TxqMax THEN <<>> ELSE txq, f)

\* A frame to transmit: only the owner's is taken, and no end of nothing.
TxFrame(c, eot) ==
    /\ hostRuns
    /\ connName[c] # NoMode
    /\ activeConn = c
    /\ ~ (eot /\ connName[c] # DMR /\ ~ txOn /\ txq = <<>>)
    /\ bufReady' = (bufReady \/ eot \/ connName[c] \notin Buffered \/ Len(txq) >= StartAt)
    /\ queueTx([from |-> c, eot |-> eot])
    /\ txOn' = ~ eot
    /\ UNCHANGED <<hostVars, owner, pending, watch, modemVars, orderly>>

------------------------------------------------------------------------------
(* The rest of the main loop: runPending() and pace() *)

\* All delays are the same, so the commands become due in the order queued,
\* but the ones due in the same pass go out in the order of their slots.
\* Modem_Host sends MODE_CONN right after MODE_ON, well within the delay.
runPending ==
    /\ \A c \in Conn : wanted[c] # NoMode => c \in told
    /\ \E n \in DOMAIN pending :
           LET due == Range(SubSeq(pending, 1, n)) IN
           /\ pending' = SubSeq(pending, n + 1, Len(pending))
           /\ \E last \in due :
                  /\ \A p \in due : p.slot <= last.slot
                  /\ writeModeFrame(last.mode)
    /\ UNCHANGED <<hostVars, owner, txState, watch, faults, orderly>>

\* The modem refuses a frame that is not of its mode.
SendFrame ==
    /\ txq # <<>>
    /\ bufReady
    /\ txq' = Tail(txq)
    /\ keyed' = IF keyed = "no" /\ modemMode = connName[Head(txq).from] THEN "sending" ELSE keyed
    /\ UNCHANGED <<hostVars, owner, bufReady, txOn, pending, watch, modemMode, faults, orderly>>

QueueRunsDry ==
    /\ txq = <<>>
    /\ bufReady
    /\ bufReady' = FALSE
    /\ UNCHANGED <<hostVars, owner, txq, txOn, pending, watch, modemVars, orderly>>

\* TX_TIMEOUT_MS, long after a command queued before the transmission is sent
TxTimeout ==
    /\ txOn
    /\ OrderlyIf(pending = <<>>)
    /\ goIdle
    /\ UNCHANGED <<hostVars, enabled, connName, pending, watch, faults>>

\* DMR_FRAME_TIMEOUT_MS
DmrTimeout ==
    /\ txOn
    /\ txq = <<>>
    /\ OwnedBy(DMR)
    /\ unkeyDmr
    /\ UNCHANGED <<hostVars, enabled, connName, pending, watch, faults, orderly>>

Stray == modemKeyed /\ ~ txOn /\ txq = <<>> /\ ~ modemRx

\* STRAY_TX_MS after the modem was first seen keyed for no reason
StrayIdle ==
    /\ Stray
    /\ OrderlyIf(pending = <<>>)
    /\ strayStage = 0
    /\ strayStage' = 1
    /\ \/ OwnedBy(DMR) /\ unkeyDmr
       \/ ~ OwnedBy(DMR) /\ goIdle
    /\ UNCHANGED <<hostVars, enabled, connName, pending, modemKeyed, modemRx, resetGpio, faults>>

\* Mutant: no stage after the first.
StrayReset_never ==
    /\ Stray
    /\ strayStage = 1
    /\ strayStage' = 2
    /\ UNCHANGED <<hostVars, owner, txState, pending, modemKeyed, modemRx, resetGpio, modemVars, orderly>>

\* ... and STRAY_TX_MS later: the modem is reset, configured and put back.
StrayReset ==
    /\ Stray
    /\ strayStage = 1
    /\ strayStage' = 2
    /\ \/ /\ resetGpio
          /\ modemKeyed' = FALSE
          /\ DropQueue
          /\ keyed' = "no"
          /\ LET m == IF activeConn # NoConn THEN connName[activeConn] ELSE restingMode(enabled)
             IN  \/ Delay(m) /\ modemMode' = restingMode(enabled)
                 \/ FreeSlots = {} /\ modemMode' = m /\ UNCHANGED pending
       \/ ~ resetGpio /\ UNCHANGED <<modemKeyed, txState, keyed, modemMode, pending>>
    /\ UNCHANGED <<hostVars, owner, modemRx, resetGpio, faults, orderly>>

StrayOver ==
    /\ ~ Stray
    /\ strayStage # 0
    /\ strayStage' = 0
    /\ UNCHANGED <<hostVars, owner, txState, pending, modemKeyed, modemRx, resetGpio, modemVars, orderly>>

------------------------------------------------------------------------------
(* The modem *)

\* handleModemFrame(): a status report.  pace() has run since the last one.
Status(receiving) ==
    /\ Stray \/ strayStage = 0
    /\ modemKeyed' = (keyed # "no")
    /\ modemRx' = receiving
    /\ UNCHANGED <<hostVars, owner, txState, pending, strayStage, resetGpio, modemVars, orderly>>

\* What was sent has gone out.
ModemUnkeys ==
    /\ keyed = "sending"
    /\ keyed' = "no"
    /\ UNCHANGED <<hostVars, owner, txState, pending, watch, modemMode, faults, orderly>>

\* The end of a transmission is lost, or the firmware hangs: the modem stays
\* keyed until it is told otherwise, or until it is reset.
ModemFault(kind) ==
    /\ keyed = "sending"
    /\ faults < MaxFaults
    /\ keyed' = kind
    /\ faults' = faults + 1
    /\ UNCHANGED <<hostVars, owner, txState, pending, watch, modemMode, orderly>>

------------------------------------------------------------------------------
handleControl ==
    \/ \E c \in Conn : ModeConn(c) \/ ModeOff(c) \/ \E m \in Mode : ModeOn(c, m)
    \/ Reload \/ HostDown \/ HostUp

handleRelay ==
    \E c \in Conn : \/ SetMode(c) \/ SetIdle(c)
                    \/ \E b \in BOOLEAN : RawDmrStart(c, b) \/ TxFrame(c, b)

pace == \/ SendFrame \/ QueueRunsDry \/ TxTimeout \/ DmrTimeout
        \/ StrayIdle \/ StrayReset \/ StrayOver

ModemNext ==
    \/ \E b \in BOOLEAN : Status(b)
    \/ ModemUnkeys
    \/ \E kind \in {"soft", "hard"} : ModemFault(kind)

Next == handleControl \/ handleRelay \/ runPending \/ pace \/ ModemNext

Spec == Init /\ [][Next]_vars

\* The host completes a registration, the main loop runs, the modem reports
\* its status and ends what it sends unless a fault keeps it keyed.
Fairness ==
    /\ \A c \in Conn : WF_vars(ModeConn(c))
    /\ WF_vars(runPending)
    /\ WF_vars(SendFrame)
    /\ WF_vars(TxTimeout)
    /\ WF_vars(StrayIdle) /\ WF_vars(StrayReset) /\ WF_vars(StrayOver)
    /\ WF_vars(Status(FALSE))
    /\ WF_vars(ModemUnkeys)

FairSpec == Spec /\ Fairness

------------------------------------------------------------------------------
\* The state is well formed; the queue and the delayed commands keep to their sizes.
TypeOK ==
    /\ hostRuns \in BOOLEAN
    /\ wanted \in [Conn -> Mode \cup {NoMode}]
    /\ told \subseteq Conn
    /\ enabled \subseteq Mode
    /\ connName \in [Conn -> Mode \cup {NoMode}]
    /\ activeConn \in Conn \cup {NoConn}
    /\ txq \in Seq(Frame) /\ Len(txq) <= TxqMax
    /\ bufReady \in BOOLEAN
    /\ txOn \in BOOLEAN
    /\ pending \in Seq(Command) /\ Len(pending) <= PendingMax
    /\ modemKeyed \in BOOLEAN
    /\ modemRx \in BOOLEAN
    /\ strayStage \in 0 .. 2
    /\ resetGpio \in BOOLEAN
    /\ modemMode \in Mode \cup {Idle}
    /\ keyed \in {"no", "sending", "soft", "hard"}
    /\ faults \in 0 .. MaxFaults
    /\ orderly \in BOOLEAN

(* docs/BRIDGES.md: the bridge "gives the modem the frames of the owner      *)
(* only".  Whatever way the modem changes hands, no frame of an earlier      *)
(* owner is left in the queue, the owner is a registered service, and no     *)
(* transmission is under way without one.                                    *)
OnlyOwnersFrames ==
    /\ activeConn # NoConn => connName[activeConn] # NoMode
    /\ \A i \in DOMAIN txq : txq[i].from = activeConn
    /\ txOn => activeConn # NoConn

(* The modem is in the mode of the service that owns it, once the commands   *)
(* on their way have been sent.  The premise is needed: a command delayed by *)
(* a second is not taken back when the modem changes hands meanwhile.        *)
OwnerHasItsMode ==
    orderly /\ activeConn # NoConn /\ Settled => modemMode = connName[activeConn]

(* docs/BRIDGES.md: the bridge "keeps the modem at rest between calls: in    *)
(* the idle mode, which scans, when several modes are enabled, but in the    *)
(* mode itself when only one is enabled".  It does when services come and go *)
(* between calls; one that registers during a call leaves a delayed command  *)
(* behind that takes the modem out of its resting mode after the call.       *)
RestsBetweenCalls ==
    orderly /\ AtRest => modemMode = restingMode(enabled)

(* The comment on STRAY_TX_MS: a modem keyed by a fault is put in its idle   *)
(* mode and, if that does not help, reset.  With a reset line, when the      *)
(* services have stopped transmitting and nothing is received, the modem     *)
(* does not stay keyed.                                                      *)
StrayTxEnds ==
    resetGpio /\ <>[](~ txOn /\ txq = <<>> /\ ~ modemRx) => []<>(keyed = "no")
==============================================================================
