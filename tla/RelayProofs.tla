---------------------------- MODULE RelayProofs ------------------------------
(***************************************************************************)
(* The two programs that relay frames to something with a state of its     *)
(* own: the bridge to an MMDVM modem and the DMR gateway to a network      *)
(* master.                                                                 *)
(*                                                                         *)
(* MmdvmBridge: for any connections and modes, any sizes of the queue and  *)
(* of pending[], and any faults of the modem, the queue holds frames of    *)
(* the owner only, and in orderly behaviours the modem is in the owner's   *)
(* mode or, without an owner, in its resting mode.                         *)
(*                                                                         *)
(* DmrGateway: for any number of calls and losses and any sizes of the     *)
(* buffers, the variables that both directions share agree with what the   *)
(* DMR host was told, and the gateway believes it is logged in only when   *)
(* it is, in behaviours without the mishaps that the properties exclude.   *)
(***************************************************************************)
EXTENDS MmdvmBridge, DmrGateway, SequenceTheorems, FiniteSetTheorems, TLAPS

\* No two delayed commands are in the same slot of pending[].
SlotsDiffer ==
    \A i, j \in 1 .. Len(pending) : pending[i].slot = pending[j].slot => i = j

Registered == \A c \in Conn : wanted[c] # NoMode => c \in told

\* MODE_CONN is sent only for a mode that is switched on.
Announced == \A c \in told : wanted[c] # NoMode

\* The mode the modem belongs in.
Proper == IF activeConn # NoConn THEN connName[activeConn] ELSE restingMode(enabled)

\* In an orderly behaviour nobody has the modem while the host is down or a registration is half
\* done, every delayed command is for the mode the modem belongs in, and without one the modem is
\* in that mode.
Hold ==
    orderly =>
        /\ activeConn # NoConn => hostRuns /\ Registered
        /\ Registered => /\ \A i \in 1 .. Len(pending) : pending[i].mode = Proper
                         /\ pending = <<>> => modemMode = Proper

Inv ==
    /\ TypeOK
    /\ SlotsDiffer
    /\ OnlyOwnersFrames
    /\ Announced
    /\ Hold

USE BridgeAssumption

------------------------------------------------------------------------------
\* The modem can rest in the mode restingMode() names.
LEMMA RestingType ==
    ASSUME NEW modes \in SUBSET Mode
    PROVE  restingMode(modes) \in Mode \cup {Idle}
<1>1. Cardinality(modes) = 1 => modes # {}
  BY FS_EmptySet
<1> QED BY <1>1 DEF restingMode

\* Empty sequences.
LEMMA NoneLeft ==
    ASSUME NEW S, NEW s \in Seq(S)
    PROVE  s = <<>> <=> Len(s) = 0
<1>1. Len(<<>>) = 0 /\ (s # <<>> => Len(s) \in Nat \ {0})
  BY EmptySeq
<1>2. s = <<>> => Len(s) = 0
  BY <1>1, Zenon
<1> QED BY <1>1, <1>2

\* The room in pending[]: with a free slot there is room for one more.
LEMMA FreeSlotFacts ==
    ASSUME pending \in Seq(Command), Len(pending) <= PendingMax, SlotsDiffer
    PROVE  /\ FreeSlots # {} => Len(pending) < PendingMax
           /\ pending = <<>> => FreeSlots # {}
<1> DEFINE n == Len(pending)
           f == [i \in 1 .. n |-> pending[i].slot]
<1>1. n \in Nat /\ DOMAIN pending = 1 .. n
  OBVIOUS
<1>2. \A i \in 1 .. n : pending[i] \in Command
  OBVIOUS
<1>3. \A i \in 1 .. n : pending[i].slot \in Slot
  BY <1>2 DEF Command
<1>4. f \in Injection(1 .. n, Slot)
  <2>1. f \in [1 .. n -> Slot] /\ \A i, j \in 1 .. n : f[i] = f[j] => i = j
    BY <1>3 DEF SlotsDiffer
  <2> QED BY <2>1 DEF Injection, IsInjective
<1>5. IsFiniteSet(Slot) /\ Cardinality(Slot) = PendingMax /\ Cardinality(1 .. n) = n
  <2>1. \A k \in Nat : IsFiniteSet(1 .. k) /\ Cardinality(1 .. k) = IF 1 > k THEN 0 ELSE k - 1 + 1
    BY FS_Interval
  <2> HIDE DEF n
  <2> QED BY <1>1, <2>1 DEF Slot
<1>6. n = PendingMax => FreeSlots = {}
  <2> SUFFICES ASSUME n = PendingMax PROVE FreeSlots = {}
    OBVIOUS
  <2>1. f \in Surjection(1 .. n, Slot)
    BY <1>4, <1>5, FS_Injection
  <2> QED BY <1>1, <2>1 DEF Surjection, FreeSlots
<1>7. pending = <<>> => FreeSlots # {}
  <2>1. pending = <<>> => n = 0
    BY NoneLeft
  <2>2. 1 \in Slot
    BY DEF Slot
  <2> QED BY <1>1, <2>1, <2>2 DEF FreeSlots
<1>8. FreeSlots # {} => n # PendingMax
  BY <1>6
<1> HIDE DEF n
<1>9. n <= PendingMax
  BY DEF n
<1>10. n # PendingMax => n < PendingMax
  BY <1>1, <1>9
<1> QED BY <1>7, <1>8, <1>10 DEF n

\* A command is delayed: it becomes the last one, in a slot of its own.
LEMMA DelayFacts ==
    ASSUME pending \in Seq(Command), Len(pending) <= PendingMax, SlotsDiffer,
           NEW m \in Mode \cup {Idle}, Delay(m)
    PROVE  /\ pending' \in Seq(Command) /\ Len(pending') <= PendingMax
           /\ SlotsDiffer'
           /\ pending' # <<>>
           /\ \A i \in 1 .. Len(pending') :
                pending'[i].mode = m \/ (i \in 1 .. Len(pending) /\ pending'[i].mode = pending[i].mode)
<1>1. PICK s \in FreeSlots : pending' = Append(pending, [slot |-> s, mode |-> m])
  BY DEF Delay
<1> DEFINE k == [slot |-> s, mode |-> m]
<1>2. k \in Command /\ s \in Slot /\ Len(pending) \in Nat /\ DOMAIN pending = 1 .. Len(pending)
  BY DEF Command, FreeSlots
<1>3. /\ pending' \in Seq(Command) /\ pending' # <<>> /\ Len(pending') = Len(pending) + 1
      /\ \A i \in 1 .. Len(pending) : pending'[i] = pending[i]
      /\ pending'[Len(pending) + 1] = k
  BY <1>1, <1>2, AppendProperties
<1>4. Len(pending') <= PendingMax
  BY <1>1, <1>2, <1>3, FreeSlotFacts
<1>5. \A i \in 1 .. Len(pending) : pending[i].slot # s
  BY <1>2 DEF FreeSlots
<1>6. SlotsDiffer'
  <2> SUFFICES ASSUME NEW i \in 1 .. Len(pending'), NEW j \in 1 .. Len(pending'),
                      pending'[i].slot = pending'[j].slot
               PROVE  i = j
    BY DEF SlotsDiffer
  <2>1. k.slot = s
    OBVIOUS
  <2>2. CASE i \in 1 .. Len(pending) /\ j \in 1 .. Len(pending)
    BY <1>3, <2>2 DEF SlotsDiffer
  <2>3. CASE i = Len(pending) + 1 \/ j = Len(pending) + 1
    BY <1>2, <1>3, <1>5, <2>1, <2>3
  <2> QED BY <1>2, <1>3, <2>2, <2>3
<1>7. k.mode = m
  OBVIOUS
<1> QED BY <1>2, <1>3, <1>4, <1>6, <1>7

\* What mode commands do.
CommandsFit ==
    /\ pending' \in Seq(Command) /\ Len(pending') <= PendingMax
    /\ SlotsDiffer'
    /\ modemMode' \in Mode \cup {Idle}
    /\ keyed' \in {"no", "sending", "soft", "hard"}

\* After them the modem is in mode m, or will be when the delayed ones have been sent.
Heads(m) ==
    /\ \A i \in 1 .. Len(pending') : pending'[i].mode = m
    /\ pending' = <<>> => modemMode' = m

LEMMA QueueModeCommandFacts ==
    ASSUME Inv, NEW m \in Mode \cup {Idle}, enabled' \in SUBSET Mode, queueModeCommand(m)
    PROVE  CommandsFit /\ (pending = <<>> => Heads(m))
<1>1. pending \in Seq(Command) /\ Len(pending) <= PendingMax /\ SlotsDiffer
  BY DEF Inv, TypeOK
<1>2. modemMode \in Mode \cup {Idle} /\ keyed \in {"no", "sending", "soft", "hard"}
  BY DEF Inv, TypeOK
<1>3. pending = <<>> => Len(pending) = 0
  BY <1>1, NoneLeft
<1>4. CASE Delay(m) /\ sendConfig
  <2>1. modemMode' \in Mode \cup {Idle} /\ keyed' = keyed
    BY <1>4, RestingType DEF sendConfig
  <2>2. CommandsFit
    BY <1>1, <1>2, <1>4, <2>1, DelayFacts DEF CommandsFit
  <2> QED BY <1>1, <1>3, <1>4, <2>2, DelayFacts DEF Heads
<1>5. CASE FreeSlots = {} /\ writeModeFrame(m) /\ UNCHANGED pending
  <2>1. CommandsFit
    BY <1>1, <1>2, <1>5 DEF CommandsFit, writeModeFrame, Unkeyed, SlotsDiffer
  <2> QED BY <1>1, <1>5, <2>1, FreeSlotFacts
<1> QED BY <1>4, <1>5 DEF queueModeCommand

LEMMA setModeFacts ==
    ASSUME Inv, NEW m \in Mode \cup {NoMode}, NEW on \in BOOLEAN, on => m \in Mode, setMode(m, on)
    PROVE  /\ enabled' \in SUBSET Mode
           /\ CommandsFit
           /\ pending = <<>> => Heads(IF on THEN m ELSE restingMode(enabled'))
<1>1. enabled \in SUBSET Mode /\ pending \in Seq(Command)
  BY DEF Inv, TypeOK
<1>2. enabled' \in SUBSET Mode
  BY <1>1 DEF setMode
<1>3. CASE on /\ m \notin enabled
  <2>1. queueModeCommand(m)
    BY <1>3 DEF setMode
  <2> QED BY <1>2, <1>3, <2>1, QueueModeCommandFacts
<1>4. CASE on /\ m \in enabled
  <2>1. writeModeFrame(m) /\ UNCHANGED pending
    BY <1>4 DEF setMode
  <2>2. CommandsFit
    BY <1>4, <2>1 DEF Inv, TypeOK, CommandsFit, writeModeFrame, Unkeyed, SlotsDiffer
  <2>3. pending = <<>> => Len(pending) = 0
    BY <1>1, NoneLeft
  <2>4. pending = <<>> => Heads(m)
    BY <2>1, <2>3 DEF Heads, writeModeFrame
  <2> QED BY <1>2, <1>4, <2>2, <2>4
<1>5. CASE ~ on
  <2>1. queueModeCommand(restingMode(enabled'))
    BY <1>5 DEF setMode
  <2>2. restingMode(enabled') \in Mode \cup {Idle}
    BY <1>2, RestingType
  <2> QED BY <1>2, <1>5, <2>1, <2>2, QueueModeCommandFacts
<1> QED BY <1>3, <1>4, <1>5

------------------------------------------------------------------------------
USE DEF hostVars, owner, txState, watch, modemVars

\* An empty queue and no transmission: nothing is left of an earlier owner.
LEMMA DroppedFacts ==
    ASSUME txq' = <<>>, txOn' = FALSE, bufReady' = FALSE,
           activeConn' # NoConn => connName'[activeConn'] # NoMode
    PROVE  /\ txq' \in Seq(Frame) /\ Len(txq') <= TxqMax
           /\ txOn' \in BOOLEAN /\ bufReady' \in BOOLEAN
           /\ OnlyOwnersFrames'
<1>1. txq' \in Seq(Frame) /\ Len(txq') = 0
  BY EmptySeq
<1>2. DOMAIN txq' = {}
  BY <1>1
<1>3. Len(txq') <= TxqMax
  BY <1>1
<1>4. OnlyOwnersFrames'
  BY <1>2 DEF OnlyOwnersFrames
<1> QED BY <1>1, <1>3, <1>4

LEMMA goIdleFacts ==
    ASSUME Inv, goIdle
    PROVE  /\ activeConn' = NoConn
           /\ txq' \in Seq(Frame) /\ Len(txq') <= TxqMax
           /\ txOn' \in BOOLEAN /\ bufReady' \in BOOLEAN
           /\ OnlyOwnersFrames'
           /\ modemMode' = restingMode(enabled) /\ modemMode' \in Mode \cup {Idle}
           /\ keyed' \in {"no", "sending", "soft", "hard"}
<1>1. activeConn' = NoConn /\ modemMode' = restingMode(enabled)
  BY DEF goIdle, writeModeFrame
<1>2. txq' = <<>> /\ txOn' = FALSE /\ bufReady' = FALSE
  BY DEF goIdle, DropQueue
<1>3. keyed' \in {"no", "sending", "soft", "hard"}
  BY DEF goIdle, writeModeFrame, Unkeyed
<1>4. enabled \in SUBSET Mode
  BY DEF Inv, TypeOK
<1> QED BY <1>1, <1>2, <1>3, <1>4, DroppedFacts, RestingType

\* An owner's frames are in the queue only while there is an owner.
LEMMA NoOwnerNoFrames ==
    ASSUME Inv, activeConn = NoConn
    PROVE  txq = <<>> /\ ~ txOn
<1>1. txq \in Seq(Frame) /\ Len(txq) \in Nat /\ DOMAIN txq = 1 .. Len(txq)
  BY DEF Inv, TypeOK
<1>2. \A i \in 1 .. Len(txq) : txq[i].from \in Conn
  <2>1. \A i \in 1 .. Len(txq) : txq[i] \in Frame
    BY <1>1
  <2> QED BY <2>1 DEF Frame
<1>3. Len(txq) = 0
  BY <1>1, <1>2 DEF Inv, OnlyOwnersFrames
<1> QED BY <1>1, <1>3, NoneLeft DEF Inv, OnlyOwnersFrames

LEMMA ModeOnStep ==
    ASSUME Inv, NEW c \in Conn, NEW m \in Mode, ModeOn(c, m)
    PROVE  Inv'
<1>1. enabled' \in SUBSET Mode /\ CommandsFit
  BY setModeFacts DEF ModeOn
<1>2. UNCHANGED <<hostRuns, told, connName, activeConn, txq, bufReady, txOn, watch, faults>>
  BY DEF ModeOn
<1>3. wanted' = [wanted EXCEPT ![c] = m] /\ orderly' = (orderly /\ AtRest) /\ wanted[c] = NoMode
  BY DEF ModeOn, OrderlyIf
<1>4. TypeOK'
  BY <1>1, <1>2, <1>3 DEF Inv, TypeOK, CommandsFit
<1>5. OnlyOwnersFrames' /\ Announced'
  BY <1>2, <1>3 DEF Inv, TypeOK, OnlyOwnersFrames, Announced
<1>6. c \notin told' /\ wanted'[c] # NoMode
  BY <1>2, <1>3 DEF Inv, TypeOK, Announced
<1>7. Hold'
  BY <1>2, <1>3, <1>6 DEF Hold, AtRest, Registered
<1> QED BY <1>1, <1>4, <1>5, <1>7 DEF Inv, CommandsFit

\* The registration is complete and the modem at rest, unless it has an owner.
LEMMA ModeConnStep ==
    ASSUME Inv, NEW c \in Conn, ModeConn(c)
    PROVE  Inv'
<1>1. /\ UNCHANGED <<hostRuns, wanted, enabled, watch, faults, orderly>>
      /\ wanted[c] # NoMode /\ c \notin told /\ told' = told \cup {c}
      /\ connName' = [connName EXCEPT ![c] = wanted[c]]
  BY DEF ModeConn
<1>2. Announced' /\ told' \subseteq Conn /\ connName' \in [Conn -> Mode \cup {NoMode}]
  BY <1>1 DEF Inv, TypeOK, Announced
<1>3. CASE pending' = <<>> /\ goIdle
  <2>1. pending' \in Seq(Command) /\ Len(pending') = 0
    BY <1>3, EmptySeq
  <2>2. TypeOK' /\ OnlyOwnersFrames'
    BY <1>1, <1>2, <1>3, <2>1, goIdleFacts DEF Inv, TypeOK
  <2>3. SlotsDiffer'
    BY <2>1 DEF SlotsDiffer
  <2>4. Hold'
    BY <1>1, <1>3, <2>1, goIdleFacts DEF Hold, Proper
  <2> QED BY <1>2, <2>2, <2>3, <2>4 DEF Inv
<1>4. CASE activeConn \notin {NoConn, c} /\ UNCHANGED <<pending, activeConn, txState, modemMode, keyed>>
  <2>1. TypeOK' /\ SlotsDiffer'
    BY <1>1, <1>2, <1>4 DEF Inv, TypeOK, SlotsDiffer
  <2>2. OnlyOwnersFrames'
    BY <1>1, <1>4 DEF Inv, TypeOK, OnlyOwnersFrames
  <2>3. ~ orderly'
    BY <1>1, <1>4 DEF Inv, Hold, Registered
  <2> QED BY <1>2, <2>1, <2>2, <2>3 DEF Inv, Hold
<1> QED BY <1>3, <1>4 DEF ModeConn

\* The mode goes, and the owner with it if it has that mode.
LEMMA ModeOffStep ==
    ASSUME Inv, NEW c \in Conn, ModeOff(c)
    PROVE  Inv'
<1> DEFINE m == wanted[c]
<1>1. m \in Mode \cup {NoMode}
  BY DEF Inv, TypeOK
<1>2. /\ enabled' \in SUBSET Mode /\ CommandsFit
      /\ pending = <<>> => Heads(restingMode(enabled'))
  BY <1>1, setModeFacts DEF ModeOff
<1>3. /\ UNCHANGED <<hostRuns, watch, faults>>
      /\ orderly' = (orderly /\ AtRest)
      /\ wanted' = [wanted EXCEPT ![c] = NoMode] /\ told' = told \ {c}
      /\ connName' = [d \in Conn |-> IF connName[d] = m THEN NoMode ELSE connName[d]]
  BY DEF ModeOff, OrderlyIf
<1>4. connName' \in [Conn -> Mode \cup {NoMode}] /\ wanted' \in [Conn -> Mode \cup {NoMode}] /\ told' \subseteq Conn
  BY <1>3 DEF Inv, TypeOK
<1>5. /\ activeConn' \in Conn \cup {NoConn}
      /\ txq' \in Seq(Frame) /\ Len(txq') <= TxqMax /\ bufReady' \in BOOLEAN /\ txOn' \in BOOLEAN
      /\ OnlyOwnersFrames'
  <2>1. CASE OwnedBy(m) /\ activeConn' = NoConn /\ DropQueue
    BY <2>1, DroppedFacts DEF DropQueue
  <2>2. CASE ~ OwnedBy(m) /\ UNCHANGED <<activeConn, txState>>
    <3>1. OnlyOwnersFrames'
      BY <1>3, <2>2 DEF Inv, TypeOK, OnlyOwnersFrames, OwnedBy
    <3> QED BY <2>2, <3>1 DEF Inv, TypeOK
  <2> QED BY <2>1, <2>2 DEF ModeOff
<1>6. TypeOK'
  BY <1>2, <1>3, <1>4, <1>5 DEF Inv, TypeOK, CommandsFit
<1>7. Announced'
  BY <1>3 DEF Inv, TypeOK, Announced
<1>8. Hold'
  <2> SUFFICES ASSUME orderly' PROVE Hold'
    BY DEF Hold
  <2>1. AtRest
    BY <1>3
  <2>2. activeConn' = NoConn
    BY <2>1 DEF ModeOff, AtRest, OwnedBy
  <2>3. Heads(restingMode(enabled'))
    BY <1>2, <2>1 DEF AtRest, Settled
  <2> QED BY <2>2, <2>3 DEF Hold, Proper, Heads
<1> QED BY <1>2, <1>5, <1>6, <1>7, <1>8 DEF Inv, CommandsFit

\* The configuration is sent again, to a modem without an owner if the behaviour is orderly.
LEMMA ConfigStep == Inv /\ (Reload \/ HostUp) => Inv'
<1> SUFFICES ASSUME Inv, Reload \/ HostUp PROVE Inv'
  OBVIOUS
<1>1. UNCHANGED <<wanted, told, enabled, pending, watch, faults, keyed>> /\ modemMode' = restingMode(enabled)
  BY DEF Reload, HostUp, sendConfig
<1>2. modemMode' \in Mode \cup {Idle}
  BY <1>1, RestingType DEF Inv, TypeOK
<1>3. SlotsDiffer' /\ Announced'
  BY <1>1 DEF Inv, SlotsDiffer, Announced
<1>4. CASE Reload
  <2>1. UNCHANGED <<hostRuns, connName, activeConn, txq, bufReady, txOn>> /\ orderly' = (orderly /\ AtRest)
    BY <1>4 DEF Reload, OrderlyIf
  <2>2. TypeOK' /\ OnlyOwnersFrames'
    BY <1>1, <1>2, <2>1 DEF Inv, TypeOK, OnlyOwnersFrames
  <2>3. Hold'
    BY <1>1, <2>1 DEF Inv, Hold, AtRest, Settled, Registered, Proper
  <2> QED BY <1>3, <2>2, <2>3 DEF Inv
<1>5. CASE HostUp
  <2>1. /\ hostRuns' = TRUE /\ connName' = [c \in Conn |-> NoMode] /\ activeConn' = NoConn
        /\ txq' = <<>> /\ bufReady' = FALSE /\ txOn' = FALSE /\ orderly' = orderly
    BY <1>5 DEF HostUp, DropQueue
  <2>2. TypeOK' /\ OnlyOwnersFrames'
    BY <1>1, <1>2, <2>1, DroppedFacts DEF Inv, TypeOK
  <2>3. Hold'
    BY <1>1, <1>5, <2>1 DEF Inv, Hold, Registered, Proper, HostUp
  <2> QED BY <1>3, <2>2, <2>3 DEF Inv
<1> QED BY <1>4, <1>5

\* The host takes its registrations with it; in an orderly behaviour nobody has the modem then.
LEMMA HostDownStep == Inv /\ HostDown => Inv'
<1> SUFFICES ASSUME Inv, HostDown PROVE Inv'
  OBVIOUS
<1>1. /\ UNCHANGED <<owner, txState, pending, watch, modemVars>>
      /\ hostRuns' = FALSE /\ wanted' = [c \in Conn |-> NoMode] /\ told' = {}
      /\ orderly' = (orderly /\ AtRest)
  BY DEF HostDown, OrderlyIf
<1>2. TypeOK' /\ SlotsDiffer' /\ OnlyOwnersFrames' /\ Announced'
  BY <1>1 DEF Inv, TypeOK, SlotsDiffer, OnlyOwnersFrames, Announced
<1>3. Hold'
  BY <1>1 DEF Inv, Hold, AtRest, Settled, Registered, Proper
<1> QED BY <1>2, <1>3 DEF Inv

\* The modem gets an owner only when it has none, so the queue is empty.
LEMMA SetModeStep ==
    ASSUME Inv, NEW c \in Conn, SetMode(c)
    PROVE  Inv'
<1>1. /\ UNCHANGED <<hostVars, connName, txState, watch, faults>>
      /\ hostRuns /\ connName[c] # NoMode /\ activeConn = NoConn /\ activeConn' = c
      /\ orderly' = (orderly /\ AtRest)
      /\ setMode(connName[c], TRUE)
  BY DEF SetMode, OrderlyIf
<1>2. connName[c] \in Mode
  BY <1>1 DEF Inv, TypeOK
<1>3. /\ enabled' \in SUBSET Mode /\ CommandsFit
      /\ pending = <<>> => Heads(connName[c])
  BY <1>1, <1>2, setModeFacts
<1>4. TypeOK' /\ Announced'
  BY <1>1, <1>3 DEF Inv, TypeOK, CommandsFit, Announced
<1>5. OnlyOwnersFrames'
  <2>1. txq' = <<>> /\ txOn' = FALSE
    BY <1>1, NoOwnerNoFrames DEF Inv, TypeOK
  <2>2. DOMAIN txq' = {}
    BY <2>1
  <2> QED BY <1>1, <2>1, <2>2 DEF OnlyOwnersFrames
<1>6. Hold'
  <2> SUFFICES ASSUME orderly' PROVE Hold'
    BY DEF Hold
  <2>1. AtRest
    BY <1>1
  <2>2. Heads(connName[c]) /\ Registered
    BY <1>3, <2>1 DEF AtRest, Settled, Registered
  <2> QED BY <1>1, <2>2 DEF Hold, Proper, Heads, Registered
<1> QED BY <1>3, <1>4, <1>5, <1>6 DEF Inv, CommandsFit

\* The modem goes to its resting mode; in an orderly behaviour no command is on its way then.
LEMMA goIdleStep ==
    ASSUME Inv, goIdle, orderly' \in BOOLEAN, orderly' => pending = <<>>,
           UNCHANGED <<hostVars, enabled, connName, pending, modemKeyed, modemRx, resetGpio, faults>>,
           strayStage' \in 0 .. 2
    PROVE  Inv'
<1>1. TypeOK' /\ OnlyOwnersFrames'
  BY goIdleFacts DEF Inv, TypeOK
<1>2. SlotsDiffer' /\ Announced'
  BY DEF Inv, SlotsDiffer, Announced
<1>3. Hold'
  <2> SUFFICES ASSUME orderly' PROVE Hold'
    BY DEF Hold
  <2>1. pending = <<>> /\ Len(pending') = 0
    BY NoneLeft DEF Inv, TypeOK
  <2>2. Proper' = restingMode(enabled) /\ activeConn' = NoConn /\ modemMode' = restingMode(enabled)
    BY goIdleFacts DEF Proper
  <2> QED BY <2>1, <2>2 DEF Hold
<1> QED BY <1>1, <1>2, <1>3 DEF Inv

\* The queue is dropped; the owner keeps the modem.
LEMMA unkeyDmrStep ==
    ASSUME Inv, unkeyDmr, orderly' \in BOOLEAN, orderly' => orderly,
           UNCHANGED <<hostVars, enabled, connName, pending, modemKeyed, modemRx, resetGpio, faults>>,
           strayStage' \in 0 .. 2
    PROVE  Inv'
<1>1. /\ txq' = <<>> /\ txOn' = FALSE /\ bufReady' = FALSE
      /\ UNCHANGED <<activeConn, modemMode>> /\ keyed' \in {"no", "sending", "soft", "hard"}
  BY DEF unkeyDmr, DropQueue, Unkeyed
<1>2. activeConn' # NoConn => connName'[activeConn'] # NoMode
  BY <1>1 DEF Inv, OnlyOwnersFrames
<1>3. TypeOK' /\ OnlyOwnersFrames'
  BY <1>1, <1>2, DroppedFacts DEF Inv, TypeOK
<1>4. SlotsDiffer' /\ Announced'
  BY DEF Inv, SlotsDiffer, Announced
<1>5. (orderly' => orderly) /\ Proper' = Proper /\ Registered' = Registered
  BY <1>1 DEF Proper, Registered
<1>6. Hold'
  BY <1>1, <1>5 DEF Inv, Hold
<1> QED BY <1>3, <1>4, <1>6 DEF Inv

LEMMA IdleStep ==
    ASSUME Inv, (\E c \in Conn : SetIdle(c)) \/ TxTimeout \/ DmrTimeout \/ StrayIdle
    PROVE  Inv'
<1>1. ASSUME NEW c \in Conn, SetIdle(c) PROVE Inv'
  BY <1>1, goIdleStep DEF SetIdle, OrderlyIf, Inv, TypeOK
<1>2. CASE TxTimeout
  BY <1>2, goIdleStep DEF TxTimeout, OrderlyIf, Inv, TypeOK
<1>3. CASE DmrTimeout
  BY <1>3, unkeyDmrStep DEF DmrTimeout, Inv, TypeOK
<1>4. CASE StrayIdle
  <2>0. /\ UNCHANGED <<hostVars, enabled, connName, pending, modemKeyed, modemRx, resetGpio, faults>>
        /\ orderly' = (orderly /\ pending = <<>>) /\ strayStage' = 1
    BY <1>4, Zenon DEF StrayIdle, OrderlyIf
  <2>1. orderly' \in BOOLEAN /\ (orderly' => orderly) /\ (orderly' => pending = <<>>)
    BY <2>0, Zenon
  <2>2. strayStage' \in 0 .. 2
    BY <2>0
  <2>3. CASE unkeyDmr
    BY <2>0, <2>1, <2>2, <2>3, unkeyDmrStep
  <2>4. CASE goIdle
    BY <2>0, <2>1, <2>2, <2>4, goIdleStep
  <2> QED BY <1>4, <2>3, <2>4 DEF StrayIdle
<1> QED BY <1>1, <1>2, <1>3, <1>4

\* A frame of the owner joins the owner's frames.
LEMMA TxFrameStep ==
    ASSUME Inv, NEW c \in Conn, NEW eot \in BOOLEAN, TxFrame(c, eot)
    PROVE  Inv'
<1> DEFINE f == [from |-> c, eot |-> eot]
           q == IF Len(txq) = TxqMax THEN <<>> ELSE txq
<1>1. /\ UNCHANGED <<hostVars, owner, pending, watch, modemVars, orderly>>
      /\ activeConn = c /\ txq' = Append(q, f)
      /\ bufReady' \in BOOLEAN /\ txOn' \in BOOLEAN
  BY DEF TxFrame, queueTx
<1>2. f \in Frame /\ txq \in Seq(Frame) /\ Len(txq) <= TxqMax /\ Len(txq) \in Nat
  BY DEF Frame, Inv, TypeOK
<1>3. /\ q \in Seq(Frame) /\ Len(q) \in Nat /\ Len(q) < TxqMax
      /\ \A i \in 1 .. Len(q) : q[i].from = c
  <2>1. CASE Len(txq) = TxqMax
    <3>1. q = <<>> /\ q \in Seq(Frame) /\ Len(q) = 0
      BY <2>1, EmptySeq
    <3> HIDE DEF q
    <3> QED BY <3>1
  <2>2. CASE Len(txq) # TxqMax
    BY <1>1, <1>2, <2>2 DEF Inv, OnlyOwnersFrames
  <2> QED BY <2>1, <2>2
<1> HIDE DEF q
<1>4. /\ txq' \in Seq(Frame) /\ Len(txq') = Len(q) + 1
      /\ \A i \in 1 .. Len(q) : txq'[i] = q[i]
      /\ txq'[Len(q) + 1] = f
  BY <1>1, <1>2, <1>3, AppendProperties
<1>5. \A i \in 1 .. Len(txq') : txq'[i].from = c
  BY <1>3, <1>4
<1>6. TypeOK'
  BY <1>1, <1>3, <1>4 DEF Inv, TypeOK
<1>7. OnlyOwnersFrames'
  BY <1>1, <1>4, <1>5 DEF Inv, OnlyOwnersFrames
<1>8. SlotsDiffer' /\ Announced' /\ Hold'
  BY <1>1 DEF Inv, SlotsDiffer, Announced, Hold, Proper, Registered
<1> QED BY <1>6, <1>7, <1>8 DEF Inv

\* Delayed commands are sent: in an orderly behaviour all are for the mode the modem belongs in.
LEMMA runPendingStep == Inv /\ runPending => Inv'
<1> SUFFICES ASSUME Inv, runPending PROVE Inv'
  OBVIOUS
<1>1. UNCHANGED <<hostVars, owner, txState, watch, faults, orderly>>
  BY DEF runPending
<1>2. /\ pending \in Seq(Command) /\ Len(pending) \in Nat /\ Len(pending) <= PendingMax
      /\ DOMAIN pending = 1 .. Len(pending)
  BY DEF Inv, TypeOK
<1>3. PICK n \in 1 .. Len(pending) :
        /\ pending' = SubSeq(pending, n + 1, Len(pending))
        /\ \E last \in Range(SubSeq(pending, 1, n)) : writeModeFrame(last.mode)
  BY <1>2, Zenon DEF runPending
<1>4. PICK k \in 1 .. n : writeModeFrame(pending[k].mode)
  <2>1. \A i \in 1 .. n : pending[i] \in Command
    BY <1>2
  <2>2. /\ SubSeq(pending, 1, n) \in Seq(Command) /\ Len(SubSeq(pending, 1, n)) = n
        /\ \A i \in 1 .. n : SubSeq(pending, 1, n)[i] = pending[i]
    BY <2>1, SubSeqProperties
  <2> QED BY <1>3, <2>2 DEF Range
<1>5. /\ pending' \in Seq(Command) /\ Len(pending') = Len(pending) - n
      /\ \A i \in 1 .. Len(pending') : pending'[i] = pending[n + i] /\ n + i \in 1 .. Len(pending)
  <2>1. \A i \in n + 1 .. Len(pending) : pending[i] \in Command
    BY <1>2
  <2>2. /\ pending' \in Seq(Command)
        /\ Len(pending') = IF n + 1 <= Len(pending) THEN Len(pending) - (n + 1) + 1 ELSE 0
        /\ \A i \in 1 .. Len(pending) - (n + 1) + 1 : pending'[i] = pending[n + 1 + i - 1]
    BY <1>2, <1>3, <2>1, SubSeqProperties
  <2>3. n \in 1 .. Len(pending) /\ Len(pending') = Len(pending) - n
    <3>1. \A a \in Nat : \A b \in 1 .. a : (IF b + 1 <= a THEN a - (b + 1) + 1 ELSE 0) = a - b
      OBVIOUS
    <3> QED BY <1>2, <2>2, <3>1, Zenon
  <2>4. ASSUME NEW i \in 1 .. Len(pending')
        PROVE  n + 1 + i - 1 = n + i /\ n + i \in 1 .. Len(pending) /\ i \in 1 .. Len(pending) - (n + 1) + 1
    BY <1>2, <2>3
  <2> QED BY <2>2, <2>3, <2>4
<1>6. SlotsDiffer'
  <2> SUFFICES ASSUME NEW i \in 1 .. Len(pending'), NEW j \in 1 .. Len(pending'),
                      pending'[i].slot = pending'[j].slot
               PROVE  i = j
    BY DEF SlotsDiffer
  <2>1. /\ pending[n + i].slot = pending[n + j].slot
        /\ n + i \in 1 .. Len(pending) /\ n + j \in 1 .. Len(pending)
    BY <1>5
  <2>2. n + i = n + j
    BY <2>1 DEF Inv, SlotsDiffer
  <2>3. n \in Int /\ i \in Int /\ j \in Int
    BY <1>5
  <2> QED BY <2>2, <2>3
<1>7. k \in 1 .. Len(pending) /\ pending[k].mode \in Mode \cup {Idle} /\ modemMode' = pending[k].mode
  <2>1. k \in 1 .. Len(pending) /\ pending[k] \in Command
    BY <1>2
  <2> QED BY <1>4, <2>1 DEF Command, writeModeFrame
<1>8. TypeOK'
  BY <1>1, <1>2, <1>4, <1>5, <1>7 DEF Inv, TypeOK, writeModeFrame, Unkeyed
<1>9. OnlyOwnersFrames' /\ Announced'
  BY <1>1 DEF Inv, OnlyOwnersFrames, Announced
<1>10. Hold'
  <2>1. Proper' = Proper /\ Registered' = Registered
    BY <1>1 DEF Proper, Registered
  <2> QED BY <1>1, <1>5, <1>7, <2>1 DEF Inv, Hold
<1> QED BY <1>6, <1>8, <1>9, <1>10 DEF Inv

\* The modem is reset and told the mode it belongs in once more.
LEMMA StrayResetStep == Inv /\ StrayReset => Inv'
<1> SUFFICES ASSUME Inv, StrayReset PROVE Inv'
  OBVIOUS
<1>1. UNCHANGED <<hostVars, owner, modemRx, resetGpio, faults, orderly>> /\ strayStage' = 2
  BY DEF StrayReset
<1>2. Announced' /\ Proper' = Proper /\ Registered' = Registered
  BY <1>1 DEF Inv, Announced, Proper, Registered
<1>3. CASE UNCHANGED <<modemKeyed, txState, keyed, modemMode, pending>>
  BY <1>1, <1>2, <1>3 DEF Inv, TypeOK, SlotsDiffer, OnlyOwnersFrames, Hold
<1>4. CASE /\ modemKeyed' = FALSE /\ DropQueue /\ keyed' = "no"
           /\ \/ Delay(Proper) /\ modemMode' = restingMode(enabled)
              \/ FreeSlots = {} /\ modemMode' = Proper /\ UNCHANGED pending
  <2>1. restingMode(enabled) \in Mode \cup {Idle}
    BY RestingType DEF Inv, TypeOK
  <2>2. Proper \in Mode \cup {Idle}
    BY <2>1 DEF Inv, TypeOK, OnlyOwnersFrames, Proper
  <2>3. pending \in Seq(Command) /\ Len(pending) <= PendingMax /\ SlotsDiffer
    BY DEF Inv, TypeOK
  <2>4. /\ pending' \in Seq(Command) /\ Len(pending') <= PendingMax /\ SlotsDiffer'
        /\ \A i \in 1 .. Len(pending') :
             pending'[i].mode = Proper \/ (i \in 1 .. Len(pending) /\ pending'[i].mode = pending[i].mode)
        /\ pending' = <<>> => modemMode' = Proper
        /\ modemMode' \in Mode \cup {Idle}
    BY <1>4, <2>1, <2>2, <2>3, DelayFacts DEF SlotsDiffer
  <2>5. TypeOK' /\ OnlyOwnersFrames'
    <3>1. activeConn' # NoConn => connName'[activeConn'] # NoMode
      BY <1>1 DEF Inv, OnlyOwnersFrames
    <3>2. /\ txq' \in Seq(Frame) /\ Len(txq') <= TxqMax
          /\ txOn' \in BOOLEAN /\ bufReady' \in BOOLEAN
          /\ OnlyOwnersFrames'
      BY <1>4, <3>1, DroppedFacts DEF DropQueue
    <3>3. modemKeyed' \in BOOLEAN /\ keyed' = "no"
      BY <1>4
    <3> QED BY <1>1, <2>4, <3>2, <3>3 DEF Inv, TypeOK
  <2>6. Hold'
    BY <1>1, <1>2, <2>4 DEF Inv, Hold
  <2> QED BY <1>2, <2>4, <2>5, <2>6 DEF Inv
<1> QED BY <1>3, <1>4 DEF StrayReset, Proper

LEMMA SendFrameStep == Inv /\ SendFrame => Inv'
<1> SUFFICES ASSUME Inv, SendFrame PROVE Inv'
  OBVIOUS
<1>1. /\ UNCHANGED <<hostVars, owner, bufReady, txOn, pending, watch, modemMode, faults, orderly>>
      /\ txq # <<>> /\ txq' = Tail(txq) /\ keyed' \in {"sending", keyed}
  BY DEF SendFrame
<1>2. txq \in Seq(Frame) /\ Len(txq) \in Nat /\ Len(txq) <= TxqMax
  BY DEF Inv, TypeOK
<1>3. /\ txq' \in Seq(Frame) /\ Len(txq') = Len(txq) - 1
      /\ \A i \in 1 .. Len(txq') : txq'[i] = txq[i + 1]
  BY <1>1, <1>2, HeadTailProperties
<1>4. TypeOK'
  BY <1>1, <1>2, <1>3 DEF Inv, TypeOK
<1>5. OnlyOwnersFrames'
  <2>1. \A i \in 1 .. Len(txq') : txq'[i].from = activeConn
    BY <1>2, <1>3 DEF Inv, OnlyOwnersFrames
  <2> QED BY <1>1, <1>3, <2>1 DEF Inv, OnlyOwnersFrames
<1>6. SlotsDiffer' /\ Announced' /\ Hold'
  BY <1>1 DEF Inv, SlotsDiffer, Announced, Hold, Proper, Registered
<1> QED BY <1>4, <1>5, <1>6 DEF Inv

\* Steps that leave the registrations, the owner, the queue and the modem's mode alone.
LEMMA OtherStep ==
    ASSUME Inv,
           \/ \E c \in Conn, on \in BOOLEAN : RawDmrStart(c, on)
           \/ QueueRunsDry \/ StrayOver \/ ModemNext \/ UNCHANGED vars
    PROVE  Inv'
<1>1. /\ UNCHANGED <<hostVars, owner, txq, pending, modemMode, orderly, resetGpio>>
      /\ keyed' \in {"no", "sending", "soft", "hard"}
      /\ txOn' \in BOOLEAN /\ (txOn' => txOn) /\ bufReady' \in BOOLEAN
      /\ modemKeyed' \in BOOLEAN /\ modemRx' \in BOOLEAN
      /\ strayStage' \in 0 .. 2 /\ faults' \in 0 .. MaxFaults
  <2>0. /\ keyed \in {"no", "sending", "soft", "hard"} /\ txOn \in BOOLEAN /\ bufReady \in BOOLEAN
        /\ modemKeyed \in BOOLEAN /\ modemRx \in BOOLEAN
        /\ strayStage \in 0 .. 2 /\ faults \in 0 .. MaxFaults
    BY DEF Inv, TypeOK
  <2>1. ASSUME NEW c \in Conn, NEW on \in BOOLEAN, RawDmrStart(c, on) PROVE <1>1!:
    BY <2>0, <2>1 DEF RawDmrStart, Unkeyed
  <2>2. CASE QueueRunsDry
    BY <2>0, <2>2 DEF QueueRunsDry
  <2>3. CASE StrayOver
    BY <2>0, <2>3 DEF StrayOver
  <2>4. CASE UNCHANGED vars
    BY <2>0, <2>4 DEF vars
  <2>5. ASSUME NEW b \in BOOLEAN, Status(b) PROVE <1>1!:
    BY <2>0, <2>5 DEF Status
  <2>6. CASE ModemUnkeys
    BY <2>0, <2>6 DEF ModemUnkeys
  <2>7. ASSUME NEW kind \in {"soft", "hard"}, ModemFault(kind) PROVE <1>1!:
    BY <2>0, <2>7 DEF ModemFault
  <2> QED BY <2>1, <2>2, <2>3, <2>4, <2>5, <2>6, <2>7 DEF ModemNext
<1>2. TypeOK'
  BY <1>1 DEF Inv, TypeOK
<1>3. SlotsDiffer' /\ OnlyOwnersFrames' /\ Announced' /\ Hold'
  BY <1>1 DEF Inv, SlotsDiffer, OnlyOwnersFrames, Announced, Hold, Proper, Registered
<1> QED BY <1>2, <1>3 DEF Inv

LEMMA InitInv == Init => Inv
<1> SUFFICES ASSUME Init PROVE Inv
  OBVIOUS
<1>1. /\ txq = <<>> /\ txq \in Seq(Frame) /\ Len(txq) = 0
      /\ pending = <<>> /\ pending \in Seq(Command) /\ Len(pending) = 0
  BY EmptySeq DEF Init
<1>2. TypeOK
  <2>1. Len(txq) <= TxqMax /\ Len(pending) <= PendingMax
    BY <1>1
  <2>2. /\ {hostRuns, bufReady, txOn, modemKeyed, modemRx, resetGpio, orderly} \subseteq BOOLEAN
        /\ wanted \in [Conn -> Mode \cup {NoMode}] /\ connName \in [Conn -> Mode \cup {NoMode}]
        /\ told \subseteq Conn /\ enabled \subseteq Mode /\ activeConn = NoConn
        /\ strayStage = 0 /\ faults = 0 /\ modemMode = Idle /\ keyed = "no"
    BY DEF Init
  <2> QED BY <1>1, <2>1, <2>2 DEF TypeOK
<1>3. DOMAIN txq = {}
  BY <1>1
<1>4. SlotsDiffer /\ OnlyOwnersFrames /\ Announced
  BY <1>1, <1>3 DEF Init, SlotsDiffer, OnlyOwnersFrames, Announced
<1>5. Hold
  <2>1. Cardinality(enabled) # 1
    BY FS_EmptySet DEF Init
  <2> QED BY <1>1, <2>1 DEF Init, Hold, Proper, restingMode
<1> QED BY <1>2, <1>4, <1>5 DEF Inv

LEMMA StepInv == Inv /\ [Next]_vars => Inv'
<1> SUFFICES ASSUME Inv, [Next]_vars PROVE Inv'
  OBVIOUS
<1>1. CASE handleControl
  BY <1>1, ModeOnStep, ModeConnStep, ModeOffStep, ConfigStep, HostDownStep DEF handleControl
<1>2. CASE handleRelay
  BY <1>2, SetModeStep, IdleStep, TxFrameStep, OtherStep DEF handleRelay
<1>3. CASE runPending
  BY <1>3, runPendingStep
<1>4. CASE pace
  BY <1>4, SendFrameStep, IdleStep, StrayResetStep, OtherStep DEF pace
<1>5. CASE ModemNext \/ UNCHANGED vars
  BY <1>5, OtherStep
<1> QED BY <1>1, <1>2, <1>3, <1>4, <1>5 DEF Next

------------------------------------------------------------------------------
(* The bridge keeps to its invariant, whatever the host, the services and    *)
(* the modem do.                                                             *)
THEOREM Invariance == Spec => []Inv
BY InitInv, StepInv, PTL DEF Spec

(* The state of mmdvm_bridge.c is well formed; txq and pending[] keep to     *)
(* their sizes.                                                              *)
THEOREM TypeCorrect == Spec => []TypeOK
<1>1. Inv => TypeOK
  BY DEF Inv
<1> QED BY <1>1, Invariance, PTL

(* docs/BRIDGES.md, "gives the modem the frames of the owner only": holds    *)
(* through every change of hands, reset of the modem and restart of the host.*)
THEOREM FramesAreTheOwners == Spec => []OnlyOwnersFrames
<1>1. Inv => OnlyOwnersFrames
  BY DEF Inv
<1> QED BY <1>1, Invariance, PTL

(* handleRelay() and runPending(): when services come and go only between    *)
(* calls, the modem is in its owner's mode once no command is on its way.    *)
THEOREM OwnersModeIsSet == Spec => []OwnerHasItsMode
<1>1. Inv => OwnerHasItsMode
  BY DEF Inv, Hold, OwnerHasItsMode, Settled, Registered, Proper
<1> QED BY <1>1, Invariance, PTL

(* goIdle() and restingMode(): when services come and go only between calls, *)
(* a modem without an owner is in the one enabled mode, or else idle.        *)
THEOREM ModemRests == Spec => []RestsBetweenCalls
<1>1. Inv => RestsBetweenCalls
  BY DEF Inv, Hold, RestsBetweenCalls, AtRest, Settled, Registered, Proper
<1> QED BY <1>1, Invariance, PTL

------------------------------------------------------------------------------
(* DmrGateway: the shape of its state *)

Msg == [kind : Acks \cup {"nak", "pong"} \cup FrameKind, id : Nat]

\* What the proofs below need of the types.
Shape ==
    /\ status \in {"login", "auth", "config", "running"}
    /\ started \in BOOLEAN /\ ownOpen \in BOOLEAN /\ localTalk \in BOOLEAN
    /\ bmTx \in Seq(FrameKind) /\ Len(bmTx) <= BufMax
    /\ inbox \in Seq(Msg)
    /\ netTalk \in Nat /\ netCalls \in Nat /\ ownCalls \in Nat

Requests == {"login", "auth", "config", "ping"}

LEMMA MsgType ==
    ASSUME NEW k \in Acks \cup {"nak", "pong"} \cup FrameKind, NEW i \in Nat
    PROVE  Pkt(k, i) \in Msg /\ Pkt(k, i).kind = k /\ Pkt(k, i).id = i
  BY DEF Pkt, Msg

(* A request changes nothing in the packets on their way but the salts.      *)
LEMMA OutdatedFacts ==
    ASSUME NEW q \in Seq(Msg), NEW r
    PROVE  /\ Outdated(r, q) \in Seq(Msg) /\ DOMAIN Outdated(r, q) = DOMAIN q
           /\ \A i \in DOMAIN q :
                 /\ Outdated(r, q)[i].kind = q[i].kind
                 /\ r # "login" \/ q[i].kind # "login" => Outdated(r, q)[i] = q[i]
                 /\ r = "login" /\ q[i].kind = "login" => Outdated(r, q)[i].id = 0
  <1>1. Pkt("login", 0) \in Msg /\ Pkt("login", 0).kind = "login" /\ Pkt("login", 0).id = 0
    BY MsgType DEF Acks
  <1>2. DOMAIN q = 1 .. Len(q) /\ Len(q) \in Nat /\ \A i \in DOMAIN q : q[i] \in Msg
    OBVIOUS
  <1>3. /\ DOMAIN Outdated(r, q) = 1 .. Len(q)
        /\ \A i \in 1 .. Len(q) :
              Outdated(r, q)[i] = IF r = "login" /\ q[i].kind = "login" THEN Pkt("login", 0) ELSE q[i]
    BY <1>2 DEF Outdated
  <1>4. Outdated(r, q) = [i \in 1 .. Len(q) |-> Outdated(r, q)[i]]
    BY <1>2 DEF Outdated
  <1>5. \A i \in 1 .. Len(q) : Outdated(r, q)[i] \in Msg
    BY <1>1, <1>2, <1>3
  <1>6. Outdated(r, q) \in Seq(Msg)
    BY <1>2, <1>4, <1>5
  <1> QED
    BY <1>1, <1>2, <1>3, <1>6

LEMMA ReplyType ==
    ASSUME NEW r \in Requests, NEW fresh
    PROVE  /\ Reply(r, fresh) \in Msg /\ Reply(r, fresh).kind \in Acks \cup {"nak", "pong"}
           /\ ~Known(r, fresh) => Reply(r, fresh).kind = "nak"
           /\ Known(r, fresh) /\ r = "ping" => Reply(r, fresh).kind = "pong"
           /\ Known(r, fresh) /\ r # "ping" => Reply(r, fresh).kind = r
           /\ Reply(r, fresh).kind \in {"auth", "config"} => Reply(r, fresh).id = 0
  <1>1. CASE ~Known(r, fresh)
    <2>1. Reply(r, fresh) = Pkt("nak", 0)
      BY <1>1 DEF Reply
    <2> QED
      BY <1>1, <2>1, MsgType
  <1>2. CASE Known(r, fresh) /\ r = "ping"
    <2>1. Reply(r, fresh) = Pkt("pong", 0)
      BY <1>2 DEF Reply
    <2> QED
      BY <1>2, <2>1, MsgType
  <1>3. CASE Known(r, fresh) /\ r # "ping"
    <2>1. r \in Acks
      BY <1>3 DEF Requests, Acks
    <2>2. Reply(r, fresh) = Pkt(r, IF r = "login" THEN 1 ELSE 0)
      BY <1>3 DEF Reply
    <2>3. PICK n \in Nat : n = (IF r = "login" THEN 1 ELSE 0)
      OBVIOUS
    <2>4. /\ Reply(r, fresh) \in Msg /\ Reply(r, fresh).kind = r /\ Reply(r, fresh).id = n
      BY <2>1, <2>2, <2>3, MsgType
    <2>5. r \in {"auth", "config"} => n = 0
      BY <2>3
    <2> QED
      BY <1>3, <2>1, <2>4, <2>5
  <1> QED
    BY <1>1, <1>2, <1>3

(* What a request does, whichever it is: the packets stay as they are but    *)
(* for the salts, or one answer is put behind them.                          *)
LEMMA RequestShape ==
    ASSUME NEW q \in Seq(Msg), NEW r \in Requests, NEW fresh, Request(r, fresh, q)
    PROVE  /\ inbox' \in Seq(Msg)
           /\ \/ inbox' = q
              \/ inbox' = Outdated(r, q)
              \/ \E e \in Msg : /\ e.kind \in Acks \cup {"nak", "pong"}
                                /\ inbox' = Append(Outdated(r, q), e)
  BY OutdatedFacts, ReplyType DEF Request

LEMMA QueueShape ==
    ASSUME bmTx \in Seq(FrameKind), NEW f \in FrameKind, Queue(f)
    PROVE  bmTx' \in Seq(FrameKind) /\ Len(bmTx') <= BufMax
  <1>1. CASE bmTx' = <<>>
    BY <1>1, GatewayAssumption
  <1>2. CASE Len(bmTx) < BufMax /\ bmTx' = Append(bmTx, f)
    BY <1>2, GatewayAssumption
  <1> QED
    BY <1>1, <1>2 DEF Queue

LEMMA SendShape ==
    ASSUME started \in BOOLEAN, ownCalls \in Nat, NEW f, Send(f)
    PROVE  started' \in BOOLEAN /\ ownOpen' \in BOOLEAN /\ ownCalls' \in Nat
  <1>1. started' \in BOOLEAN
    BY DEF Send
  <1>2. ownOpen' \in BOOLEAN
    BY Zenon DEF Send
  <1>3. ownCalls' \in Nat
    BY DEF Send
  <1> QED
    BY <1>1, <1>2, <1>3

LEMMA ShapeStep ==
    ASSUME Shape, [GatewayNext]_gateway
    PROVE  Shape'
  <1> USE DEF Shape
  <1>1. CASE RecvNothing \/ FrameWaits \/ ForwardNothing \/ UNCHANGED gateway
    BY <1>1 DEF RecvNothing, FrameWaits, ForwardNothing, gateway, login, calls, queue, talkers, seen
  <1>2. CASE RecvPacket
    <2>1. started' \in BOOLEAN
      BY <1>2 DEF RecvPacket, Give, calls
    <2>2. inbox' \in Seq(Msg)
      BY <1>2 DEF RecvPacket
    <2> QED
      BY <1>2, <2>1, <2>2 DEF RecvPacket, login, queue, talkers
  <1>3. CASE Forward
    <2>1. bmTx' \in Seq(FrameKind) /\ Len(bmTx') <= BufMax
      <3>1. bmTx # <<>> /\ bmTx' = Tail(bmTx)
        BY <1>3 DEF Forward
      <3>2. Len(bmTx') = Len(bmTx) - 1 /\ Len(bmTx) \in Nat /\ bmTx' \in Seq(FrameKind)
        BY <3>1
      <3> QED
        BY <3>2, GatewayAssumption
    <2>2. PICK f : Send(f)
      BY <1>3 DEF Forward
    <2> QED
      BY <1>3, <2>1, <2>2, SendShape DEF Forward, login, talkers
  <1>10. CASE ForwardStale
    <2>1. started' \in BOOLEAN /\ ownOpen' \in BOOLEAN /\ ownCalls' \in Nat
      BY <1>10, SendShape DEF ForwardStale, calls
    <2> QED
      BY <1>10, <2>1 DEF ForwardStale, login, talkers
  <1>4. CASE Retry \/ Ping
    <2>1. PICK r \in Requests : Request(r, salt, inbox)
      BY <1>4 DEF Retry, Ping, Requests
    <2>2. inbox' \in Seq(Msg)
      BY <2>1, RequestShape
    <2> QED
      BY <1>4, <2>2 DEF Retry, Ping, calls, queue, talkers, seen
  <1>5. CASE KeepaliveNothing
    BY <1>5 DEF KeepaliveNothing, RoundEnds, login, queue, talkers, seen
  <1>6. CASE KeepalivePacket
    <2>1. inbox # <<>> /\ Tail(inbox) \in Seq(Msg) /\ RoundEnds
      BY <1>6 DEF KeepalivePacket
    <2>2. \/ Acknowledged(Head(inbox))
          \/ Refused
          \/ Dropped
      BY <1>6 DEF KeepalivePacket
    <2>3. inbox' \in Seq(Msg)
      BY <2>1, <2>2, RequestShape DEF Acknowledged, Refused, Dropped, Requests
    <2>4. status' \in {"login", "auth", "config", "running"}
      BY <2>2 DEF Acknowledged, Refused, Dropped, login
    <2> QED
      BY <2>1, <2>3, <2>4 DEF RoundEnds, queue, talkers, seen
  <1>7. CASE NetCall
    <2>1. PICK k \in FrameKind, n \in Nat : Arrives(Pkt(k, n))
      BY <1>7 DEF NetCall, FrameKind
    <2>2. Pkt(k, n) \in Msg
      BY MsgType
    <2>3. inbox' \in Seq(Msg)
      BY <2>1, <2>2 DEF Arrives
    <2>4. netTalk' \in Nat /\ netCalls' \in Nat
      BY <1>7 DEF NetCall
    <2> QED
      BY <1>7, <2>3, <2>4 DEF NetCall, login, calls, queue, seen
  <1>8. CASE startClient
    <2>1. PICK f \in FrameKind : localTalk' = (f # "end") /\ Queue(f)
      BY <1>8 DEF startClient
    <2>2. bmTx' \in Seq(FrameKind) /\ Len(bmTx') <= BufMax
      BY <2>1, QueueShape
    <2>3. localTalk' \in BOOLEAN
      BY <2>1, Zenon
    <2> QED
      BY <1>8, <2>2, <2>3 DEF startClient, login, calls, seen
  <1>9. CASE MasterForgets
    BY <1>9 DEF MasterForgets, login, calls, queue, seen
  <1> QED
    BY <1>1, <1>2, <1>3, <1>4, <1>5, <1>6, <1>7, <1>8, <1>9, <1>10
    DEF GatewayNext, startDMRNetwork, Takes

LEMMA ShapeInit == GatewayInit => Shape
  <1> SUFFICES ASSUME GatewayInit PROVE Shape
    OBVIOUS
  <1>1. Pkt("login", 1) \in Msg
    BY MsgType DEF Acks
  <1>2. inbox \in Seq(Msg) /\ bmTx \in Seq(FrameKind) /\ Len(bmTx) = 0
    <2>1. inbox = <<>> \/ inbox = <<Pkt("login", 1)>>
      BY DEF GatewayInit
    <2>2. <<>> \in Seq(Msg) /\ \A m \in Msg : <<m>> \in Seq(Msg)
      OBVIOUS
    <2>3. inbox \in Seq(Msg)
      BY <1>1, <2>1, <2>2, Zenon
    <2> QED
      BY <2>3 DEF GatewayInit
  <1>3. started \in BOOLEAN /\ ownOpen \in BOOLEAN /\ localTalk \in BOOLEAN
    BY Zenon DEF GatewayInit
  <1>4. Len(bmTx) <= BufMax
    BY <1>2, GatewayAssumption
  <1> QED
    BY <1>2, <1>3, <1>4 DEF GatewayInit, Shape

------------------------------------------------------------------------------
(* DmrGateway: calls of both directions *)

\* A frame of the network belongs to a stream.
FramesHaveStreams == \A i \in DOMAIN inbox : inbox[i].kind \in FrameKind => inbox[i].id # 0

\* The frames q of local calls follow each other as the DMR host sends them: those already gone
\* leave a call open or not, those queued too.
WellSpoken(q, open, talk) ==
    /\ q = <<>> => (open <=> talk)
    /\ q # <<>> => /\ q[1] = "head" <=> ~open
                   /\ q[Len(q)] # "end" <=> talk
    /\ \A i \in 1 .. Len(q) - 1 : q[i + 1] = "head" <=> q[i] = "end"

InOrder == ~disturbed => WellSpoken(bmTx, ownOpen, localTalk)

\* A frame that was there when the loop looked is there when it takes one.
StillThere == pc = "take" /\ ~disturbed => bmTx # <<>>

CallsInv == Shape /\ FramesHaveStreams /\ InOrder /\ StillThere /\ CallsAgree

(* What disturbs the calls is noted for good. *)
LEMMA NotDisturbed ==
    ASSUME NEW fact, DisturbedIf(fact), ~disturbed'
    PROVE  ~disturbed /\ ~fact
  BY Zenon DEF DisturbedIf

LEMMA OnceDisturbed ==
    ASSUME [GatewayNext]_gateway, ~disturbed'
    PROVE  ~disturbed
  <1>1. CASE UNCHANGED disturbed
    BY <1>1
  <1>2. CASE RecvPacket \/ Forward \/ ForwardStale \/ startClient
    BY <1>1, <1>2, NotDisturbed DEF RecvPacket, Forward, ForwardStale, Send, startClient
  <1>3. CASE KeepaliveNothing \/ KeepalivePacket
    BY <1>1, <1>3, NotDisturbed DEF KeepaliveNothing, KeepalivePacket
  <1> QED
    BY <1>1, <1>2, <1>3
    DEF GatewayNext, startDMRNetwork, Takes, RecvNothing, FrameWaits, ForwardNothing, Retry, Ping,
        NetCall, MasterForgets, gateway

LEMMA FrameStreamsStep ==
    ASSUME Shape, FramesHaveStreams, [GatewayNext]_gateway
    PROVE  FramesHaveStreams'
  <1> DEFINE Fine(q) == \A i \in DOMAIN q : q[i].kind \in FrameKind => q[i].id # 0
  <1>1. ASSUME NEW q \in Seq(Msg), Fine(q), NEW e \in Msg, e.kind \in FrameKind => e.id # 0
        PROVE  Fine(Append(q, e))
    BY <1>1
  <1>2. ASSUME NEW q \in Seq(Msg), Fine(q), q # <<>>
        PROVE  Tail(q) \in Seq(Msg) /\ Fine(Tail(q))
    <2>1. \A i \in 1 .. Len(q) - 1 : Tail(q)[i] = q[i + 1] /\ i + 1 \in DOMAIN q
      BY <1>2
    <2>2. DOMAIN Tail(q) = 1 .. Len(q) - 1
      BY <1>2
    <2> QED
      BY <1>2, <2>1, <2>2
  <1>3. inbox \in Seq(Msg) /\ Fine(inbox)
    BY DEF Shape, FramesHaveStreams
  <1> SUFFICES Fine(inbox')
    BY DEF FramesHaveStreams
  <1> HIDE DEF Fine
  <1>4. ASSUME NEW q \in Seq(Msg), Fine(q), NEW r \in Requests, NEW fresh, Request(r, fresh, q)
        PROVE  Fine(inbox')
    <2>1. CASE inbox' = q
      BY <1>4, <2>1
    <2>2. Outdated(r, q) \in Seq(Msg) /\ Fine(Outdated(r, q))
      <3>1. \A i \in DOMAIN q : q[i].kind \in FrameKind => Outdated(r, q)[i] = q[i]
        BY <1>4, OutdatedFacts DEF FrameKind
      <3> QED
        BY <1>4, <3>1, OutdatedFacts DEF Fine
    <2>3. ASSUME NEW e \in Msg, e.kind \in Acks \cup {"nak", "pong"},
                 inbox' = Append(Outdated(r, q), e)
          PROVE  Fine(inbox')
      <3>1. e.kind \notin FrameKind
        BY <2>3 DEF FrameKind, Acks
      <3> QED
        BY <1>1, <2>2, <2>3, <3>1
    <2> QED
      BY <1>4, <2>1, <2>2, <2>3, RequestShape
  <1>5. CASE UNCHANGED inbox
    BY <1>3, <1>5
  <1>6. CASE RecvPacket
    BY <1>2, <1>3, <1>6 DEF RecvPacket
  <1>7. CASE Retry \/ Ping
    <2>1. PICK r \in Requests : Request(r, salt, inbox)
      BY <1>7 DEF Retry, Ping, Shape, Requests
    <2> QED
      BY <1>3, <1>4, <2>1
  <1>8. CASE KeepalivePacket
    <2>1. inbox # <<>>
      BY <1>8 DEF KeepalivePacket
    <2>2. Tail(inbox) \in Seq(Msg) /\ Fine(Tail(inbox))
      BY <1>2, <1>3, <2>1
    <2>3. Acknowledged(Head(inbox)) \/ Refused \/ Dropped
      BY <1>8 DEF KeepalivePacket
    <2> QED
      BY <1>4, <2>2, <2>3 DEF Acknowledged, Refused, Dropped, Requests
  <1>9. CASE NetCall
    <2>1. PICK k \in FrameKind, n \in Nat \ {0} : Arrives(Pkt(k, n))
      BY <1>9 DEF NetCall, FrameKind, Shape
    <2>2. Pkt(k, n) \in Msg /\ Pkt(k, n).id # 0
      BY MsgType
    <2> QED
      BY <1>1, <1>3, <2>1, <2>2 DEF Arrives
  <1> QED
    BY <1>5, <1>6, <1>7, <1>8, <1>9
    DEF GatewayNext, startDMRNetwork, Takes, RecvNothing, FrameWaits, ForwardNothing, Forward,
        ForwardStale, KeepaliveNothing, startClient, MasterForgets, gateway

(* The oldest frame goes out: what is left follows from it. *)
LEMMA SpokenTail ==
    ASSUME NEW q \in Seq(FrameKind), q # <<>>, NEW open \in BOOLEAN, NEW talk \in BOOLEAN,
           WellSpoken(q, open, talk)
    PROVE  WellSpoken(Tail(q), Head(q) # "end", talk)
  <1>1. /\ Len(q) \in Nat \ {0} /\ Head(q) = q[1] /\ Len(Tail(q)) = Len(q) - 1
        /\ \A i \in 1 .. Len(q) - 1 : Tail(q)[i] = q[i + 1]
        /\ Tail(q) \in Seq(FrameKind)
    OBVIOUS
  <1>2. CASE Len(q) = 1
    <2>0. Len(Tail(q)) = 0
      BY <1>1, <1>2
    <2>1. Tail(q) = <<>>
      BY <1>1, <2>0, EmptySeq, Zenon
    <2>2. q[1] # "end" <=> talk
      BY <1>2 DEF WellSpoken
    <2>3. WellSpoken(<<>>, Head(q) # "end", talk)
      BY <1>1, <2>2 DEF WellSpoken
    <2> QED
      BY <2>1, <2>3, Zenon
  <1>3. CASE Len(q) # 1
    <2>0. Len(Tail(q)) # 0
      BY <1>1, <1>3
    <2>1. Tail(q) # <<>> /\ 1 \in 1 .. Len(q) - 1 /\ Len(q) - 1 \in 1 .. Len(q) - 1
      <3>1. Tail(q) # <<>>
        BY <1>1, <2>0, EmptySeq, Zenon
      <3> QED
        BY <1>1, <1>3, <3>1
    <2>2. Tail(q)[1] = q[2] /\ Tail(q)[Len(Tail(q))] = q[Len(q)]
      BY <1>1, <2>1
    <2>3. q[2] = "head" <=> q[1] = "end"
      BY <2>1 DEF WellSpoken
    <2>4. q[Len(q)] # "end" <=> talk
      BY DEF WellSpoken
    <2>5. \A i \in 1 .. Len(Tail(q)) - 1 : Tail(q)[i + 1] = "head" <=> Tail(q)[i] = "end"
      <3> SUFFICES ASSUME NEW i \in 1 .. Len(q) - 2
                   PROVE  Tail(q)[i + 1] = "head" <=> Tail(q)[i] = "end"
        BY <1>1
      <3>1. Tail(q)[i + 1] = q[(i + 1) + 1] /\ Tail(q)[i] = q[i + 1]
        BY <1>1
      <3>2. i + 1 \in 1 .. Len(q) - 1
        BY <1>1
      <3>3. q[(i + 1) + 1] = "head" <=> q[i + 1] = "end"
        BY <3>2 DEF WellSpoken
      <3> QED
        BY <3>1, <3>3
    <2> QED
      BY <1>1, <2>1, <2>2, <2>3, <2>4, <2>5 DEF WellSpoken
  <1> QED
    BY <1>2, <1>3

(* The DMR host's next frame follows from the last one. *)
LEMMA SpokenAppend ==
    ASSUME NEW q \in Seq(FrameKind), NEW open \in BOOLEAN, NEW talk \in BOOLEAN,
           WellSpoken(q, open, talk), NEW f \in FrameKind, f = "head" <=> ~talk
    PROVE  WellSpoken(Append(q, f), open, f # "end")
  <1>1. /\ Len(q) \in Nat /\ Len(Append(q, f)) = Len(q) + 1
        /\ \A i \in 1 .. Len(q) : Append(q, f)[i] = q[i]
        /\ Append(q, f)[Len(q) + 1] = f
        /\ Append(q, f) # <<>>
    OBVIOUS
  <1>2. CASE q = <<>>
    <2>1. Len(q) = 0
      BY <1>2
    <2> QED
      BY <1>1, <1>2, <2>1 DEF WellSpoken
  <1>3. CASE q # <<>>
    <2>1. Len(q) \in Nat \ {0}
      BY <1>1, <1>3
    <2>2. \A i \in 1 .. Len(Append(q, f)) - 1 :
             Append(q, f)[i + 1] = "head" <=> Append(q, f)[i] = "end"
      <3> SUFFICES ASSUME NEW i \in 1 .. Len(q)
                   PROVE  Append(q, f)[i + 1] = "head" <=> Append(q, f)[i] = "end"
        BY <1>1
      <3>1. CASE i = Len(q)
        BY <1>1, <1>3, <3>1 DEF WellSpoken
      <3>2. CASE i # Len(q)
        <4>1. i \in 1 .. Len(q) - 1 /\ i + 1 \in 1 .. Len(q)
          BY <1>1, <3>2
        <4>2. q[i + 1] = "head" <=> q[i] = "end"
          BY <4>1 DEF WellSpoken
        <4> QED
          BY <1>1, <4>1, <4>2
      <3> QED
        BY <3>1, <3>2
    <2>3. Append(q, f)[1] = q[1]
      BY <1>1, <2>1
    <2> QED
      BY <1>1, <1>3, <2>2, <2>3 DEF WellSpoken
  <1> QED
    BY <1>2, <1>3

(* startClient() lets no frame disappear but with a disturbance. *)
LEMMA StillThereStep ==
    ASSUME Shape, StillThere, [GatewayNext]_gateway
    PROVE  StillThere'
  <1> SUFFICES ASSUME pc' = "take", ~disturbed'
               PROVE  bmTx' # <<>>
    BY DEF StillThere
  <1>1. ~disturbed
    BY OnceDisturbed
  <1>2. CASE FrameWaits
    BY <1>2 DEF FrameWaits, queue
  <1>3. CASE UNCHANGED <<pc, bmTx>>
    BY <1>1, <1>3 DEF StillThere
  <1>4. CASE startClient
    <2>1. PICK f \in FrameKind : Queue(f)
      BY <1>4 DEF startClient
    <2>2. Len(bmTx) # BufMax
      BY <1>4, NotDisturbed DEF startClient
    <2>3. bmTx' = Append(bmTx, f)
      BY <2>1, <2>2, GatewayAssumption DEF Queue, Shape
    <2> QED
      BY <2>3 DEF Shape
  <1> QED
    BY <1>2, <1>3, <1>4
    DEF GatewayNext, startDMRNetwork, Takes, RecvNothing, RecvPacket, Forward, ForwardStale,
        ForwardNothing, Retry, Ping, KeepaliveNothing, KeepalivePacket, RoundEnds, NetCall,
        MasterForgets, gateway, loop, queue

LEMMA InOrderStep ==
    ASSUME Shape, InOrder, StillThere, [GatewayNext]_gateway
    PROVE  InOrder'
  <1> SUFFICES ASSUME ~disturbed'
               PROVE  WellSpoken(bmTx', ownOpen', localTalk')
    BY DEF InOrder
  <1>1. ~disturbed
    BY OnceDisturbed
  <1>2. WellSpoken(bmTx, ownOpen, localTalk)
    BY <1>1 DEF InOrder
  <1>3. CASE UNCHANGED <<bmTx, ownOpen, localTalk>>
    BY <1>2, <1>3
  <1>4. CASE Forward
    <2>1. bmTx # <<>> /\ bmTx' = Tail(bmTx) /\ localTalk' = localTalk
      BY <1>4 DEF Forward, talkers
    <2>2. ownOpen' = (Head(bmTx) # "end")
      BY <1>4, Zenon DEF Forward, Send
    <2>3. WellSpoken(Tail(bmTx), Head(bmTx) # "end", localTalk)
      BY <1>2, <2>1, SpokenTail DEF Shape
    <2> QED
      BY <2>1, <2>2, <2>3, Zenon
  <1>5. CASE startClient
    <2>1. PICK f \in FrameKind : /\ f = "head" <=> ~localTalk
                                 /\ localTalk' = (f # "end") /\ Queue(f)
      BY <1>5 DEF startClient
    <2>2. Len(bmTx) # BufMax /\ ownOpen' = ownOpen
      BY <1>5, NotDisturbed DEF startClient, seen
    <2>3. WellSpoken(Append(bmTx, f), ownOpen, f # "end")
      BY <1>2, <2>1, SpokenAppend DEF Shape
    <2>4. Len(bmTx) < BufMax
      BY <2>2, GatewayAssumption DEF Shape
    <2>5. bmTx' = Append(bmTx, f)
      BY <2>1, <2>4 DEF Queue
    <2> QED
      BY <2>1, <2>2, <2>3, <2>5, Zenon
  <1>6. CASE ForwardStale
    BY <1>1, <1>6 DEF ForwardStale, StillThere
  <1> QED
    BY <1>3, <1>4, <1>5, <1>6
    DEF GatewayNext, startDMRNetwork, Takes, RecvNothing, RecvPacket, FrameWaits, ForwardNothing,
        Retry, Ping, KeepaliveNothing, KeepalivePacket, RoundEnds, NetCall, MasterForgets, gateway,
        queue, talkers, seen

LEMMA CallsAgreeStep ==
    ASSUME CallsInv, [GatewayNext]_gateway
    PROVE  CallsAgree'
  <1> DEFINE Agree == /\ started <=> hostCall # 0 \/ ownOpen
                      /\ hostCall # 0 => stream = hostCall
                      /\ ownOpen => stream = OwnId(ownCalls)
  <1> SUFFICES ASSUME ~disturbed'
               PROVE  Agree'
    BY DEF CallsAgree, OwnId
  <1>1. ~disturbed
    BY OnceDisturbed
  <1>2. Agree /\ WellSpoken(bmTx, ownOpen, localTalk) /\ Shape /\ FramesHaveStreams
    BY <1>1 DEF CallsInv, CallsAgree, InOrder
  <1>3. CASE UNCHANGED <<calls, seen>>
    BY <1>2, <1>3 DEF calls, seen, OwnId
  <1>4. CASE RecvPacket
    <2>1. inbox # <<>> /\ ownOpen' = ownOpen /\ ownCalls' = ownCalls
      BY <1>4 DEF RecvPacket
    <2>2. 1 \in DOMAIN inbox /\ Head(inbox) = inbox[1]
      BY <1>2, <2>1 DEF Shape
    <2>3. PICK p : p = Head(inbox)
      OBVIOUS
    <2>4. p.kind \in FrameKind => p.id # 0
      BY <1>2, <2>2, <2>3 DEF FramesHaveStreams
    <2>5. CASE p.kind \in FrameKind
      <3>1. DisturbedIf(ownOpen) /\ IF Wanted(p) THEN Give(p) ELSE UNCHANGED <<calls, hostCall>>
        BY <1>4, <2>3, <2>5 DEF RecvPacket
      <3>2. ~ ownOpen
        BY <3>1, NotDisturbed
      <3>3. CASE Wanted(p)
        <4>1. CASE p.kind = "head"
          <5>1. hostCall' = p.id /\ started' = TRUE /\ stream' = p.id
            BY <3>1, <3>3, <4>1 DEF Give
          <5> QED
            BY <2>1, <2>4, <2>5, <3>2, <5>1
        <4>2. CASE p.kind = "end"
          <5>1. hostCall' = 0 /\ started' = FALSE
            BY <3>1, <3>3, <4>2 DEF Give
          <5> QED
            BY <2>1, <3>2, <5>1
        <4>3. CASE p.kind \notin {"head", "end"}
          <5>1. hostCall' = hostCall /\ started' = started /\ stream' = stream
            BY <3>1, <3>3, <4>3 DEF Give
          <5> QED
            BY <1>2, <2>1, <3>2, <5>1
        <4> QED
          BY <4>1, <4>2, <4>3
      <3>4. CASE ~ Wanted(p)
        BY <1>2, <2>1, <3>1, <3>4 DEF calls, OwnId
      <3> QED
        BY <3>3, <3>4
    <2>6. CASE p.kind \notin FrameKind
      <3>1. UNCHANGED <<calls, hostCall>>
        BY <1>4, <2>3, <2>6 DEF RecvPacket
      <3> QED
        BY <1>2, <2>1, <3>1 DEF calls, OwnId
    <2> QED
      BY <2>5, <2>6
  <1>5. CASE Forward
    <2>1. bmTx # <<>> /\ hostCall' = hostCall
      BY <1>5 DEF Forward
    <2>2. hostCall = 0
      BY <1>5, NotDisturbed DEF Forward, Send
    <2>3. PICK f : f = Head(bmTx)
      OBVIOUS
    <2>4. f = bmTx[1] /\ (f = "head" <=> ~ ownOpen)
      BY <1>2, <2>1, <2>3 DEF WellSpoken, Shape
    <2>5. ownOpen' <=> f # "end"
      BY <1>5, <2>3, Zenon DEF Forward, Send
    <2>6. /\ ownCalls' = IF f = "head" /\ ~started THEN ownCalls + 1 ELSE ownCalls
          /\ started' = CASE f = "head" -> TRUE
                          [] f = "end" -> FALSE
                          [] OTHER -> started
          /\ stream' = CASE f = "head" /\ ~started -> OwnId(ownCalls')
                         [] f = "end" -> 0
                         [] OTHER -> stream
      BY <1>5, <2>3 DEF Forward, Send
    <2>7. started <=> ownOpen
      BY <1>2, <2>2
    <2>8. CASE f = "head"
      <3>1. started' /\ stream' = OwnId(ownCalls') /\ ownOpen'
        BY <2>4, <2>5, <2>6, <2>7, <2>8
      <3> QED
        BY <2>1, <2>2, <3>1 DEF OwnId
    <2>9. CASE f = "end"
      <3>1. ~ started' /\ ~ ownOpen'
        BY <2>5, <2>6, <2>9
      <3> QED
        BY <2>1, <2>2, <3>1
    <2>10. CASE f \notin {"head", "end"}
      <3>1. started' = started /\ stream' = stream /\ ownCalls' = ownCalls
        BY <2>6, <2>10
      <3>2. ownOpen' /\ ownOpen
        BY <2>4, <2>5, <2>10
      <3> QED
        BY <1>2, <2>1, <2>2, <2>7, <3>1, <3>2 DEF OwnId
    <2> QED
      BY <2>8, <2>9, <2>10
  <1>6. CASE KeepaliveNothing \/ KeepalivePacket
    <2>1. UNCHANGED <<stream, ownCalls, ownOpen, hostCall>>
      BY <1>6 DEF KeepaliveNothing, KeepalivePacket, RoundEnds, seen
    <2>2. started' = IF result = "down" THEN FALSE ELSE started
      BY <1>6 DEF KeepaliveNothing, KeepalivePacket, RoundEnds
    <2>3. ~ (result = "down" /\ InCall)
      BY <1>6, NotDisturbed DEF KeepaliveNothing, KeepalivePacket
    <2>4. result = "down" => ~ started
      BY <1>2, <2>3 DEF InCall
    <2>5. started' <=> started
      BY <2>2, <2>4
    <2> QED
      BY <1>2, <2>1, <2>5 DEF OwnId
  <1>7. ~ ForwardStale
    BY <1>1 DEF ForwardStale, CallsInv, StillThere
  <1> QED
    BY <1>3, <1>4, <1>5, <1>6, <1>7
    DEF GatewayNext, startDMRNetwork, Takes, RecvNothing, FrameWaits, ForwardNothing, Retry, Ping,
        NetCall, startClient, MasterForgets, gateway

LEMMA CallsInit == GatewayInit => CallsInv
  <1> SUFFICES ASSUME GatewayInit PROVE CallsInv
    OBVIOUS
  <1>1. inbox \in {<<>>, <<Pkt("login", 1)>>} /\ Pkt("login", 1).kind = "login"
    BY MsgType DEF GatewayInit, Acks
  <1>2. FramesHaveStreams
    BY <1>1 DEF FramesHaveStreams, FrameKind
  <1>3. WellSpoken(<<>>, ownOpen, localTalk)
    BY DEF GatewayInit, WellSpoken
  <1>4. InOrder
    BY <1>3 DEF GatewayInit, InOrder
  <1>5. CallsAgree /\ StillThere
    BY DEF GatewayInit, CallsAgree, StillThere
  <1> QED
    BY <1>2, <1>4, <1>5, ShapeInit DEF CallsInv

(* As long as the calls of the two directions of dmrgateway.c do not overlap *)
(* and neither the connection nor a local frame is lost, frame_started[] and *)
(* curr_stream_id[] tell the call the DMR host knows of or the local call    *)
(* that is open, for any number of calls, lost packets and restarts.         *)
THEOREM SharedCallState == GatewaySpec => []CallsAgree
  <1>1. CallsInv /\ [GatewayNext]_gateway => CallsInv'
    BY ShapeStep, FrameStreamsStep, InOrderStep, StillThereStep, CallsAgreeStep DEF CallsInv
  <1>2. CallsInv => CallsAgree
    BY DEF CallsInv
  <1> QED
    BY <1>1, <1>2, CallsInit, PTL DEF GatewaySpec

------------------------------------------------------------------------------
(* DmrGateway: the login *)

\* The packets q are in the order in which the login goes on: no RPTACK of the password or of the
\* configuration comes behind one with a salt, the salt the master gave last comes last, and none is
\* on its way when the gateway has it (sa) or the master knows the gateway already.
NoSalt(q) == \A i \in DOMAIN q : q[i].kind # "login"

InSequence(q, sa, ma) ==
    /\ \A i, j \in DOMAIN q :
          i < j /\ q[i].kind = "login" =>
             q[j].kind \notin {"auth", "config"} /\ (q[i].id = 1 => q[j].kind # "login")
    /\ \A i \in DOMAIN q : q[i].kind \in {"auth", "config"} => q[i].id = 0
    /\ sa => NoSalt(q)
    /\ ma \in {"known", "up"} => NoSalt(q)

\* The master is as far as the gateway believes, and what the gateway is about to take for an
\* acknowledgement of its request is one.
Believed(q, st, sa, ma) ==
    /\ st = "auth" => \A i \in DOMAIN q :
                         /\ q[i].kind # "config"
                         /\ q[i].kind = "auth" => sa /\ ma \in {"known", "up"}
    /\ st = "config" => /\ ma \in {"known", "up"}
                        /\ \A i \in DOMAIN q : q[i].kind = "config" => ma = "up"
    /\ st = "running" => ma = "up"

LoginInv ==
    /\ InSequence(inbox, salt, master)
    /\ ~doubtful => Believed(inbox, status, salt, master)

(* The packets behind the oldest one. *)
LEMMA TailFacts ==
    ASSUME NEW q \in Seq(Msg), q # <<>>
    PROVE  /\ Tail(q) \in Seq(Msg) /\ Head(q) = q[1] /\ 1 \in DOMAIN q /\ Head(q) \in Msg
           /\ \A i \in DOMAIN Tail(q) : i + 1 \in DOMAIN q /\ Tail(q)[i] = q[i + 1] /\ 1 < i + 1
           /\ \A i, j \in DOMAIN Tail(q) : i < j => i + 1 < j + 1
  <1>1. /\ Len(q) \in Nat \ {0} /\ DOMAIN q = 1 .. Len(q)
        /\ DOMAIN Tail(q) = 1 .. Len(q) - 1
        /\ \A i \in 1 .. Len(q) - 1 : Tail(q)[i] = q[i + 1]
        /\ Tail(q) \in Seq(Msg) /\ Head(q) = q[1] /\ Head(q) \in Msg
    OBVIOUS
  <1> QED
    BY <1>1

LEMMA TailKeeps ==
    ASSUME NEW q \in Seq(Msg), q # <<>>, NEW st, NEW sa, NEW ma
    PROVE  /\ InSequence(q, sa, ma) => InSequence(Tail(q), sa, ma)
           /\ Believed(q, st, sa, ma) => Believed(Tail(q), st, sa, ma)
  <1>1. InSequence(q, sa, ma) => InSequence(Tail(q), sa, ma)
    BY TailFacts DEF InSequence, NoSalt
  <1>2. Believed(q, st, sa, ma) => Believed(Tail(q), st, sa, ma)
    BY TailFacts DEF Believed
  <1> QED
    BY <1>1, <1>2

\* What may come behind the packets q.
MayFollow(e, q, sa, ma) ==
    /\ e.kind \in {"auth", "config"} => e.id = 0 /\ NoSalt(q)
    /\ e.kind = "login" => /\ \A i \in DOMAIN q : q[i].kind = "login" => q[i].id # 1
                           /\ ~sa /\ ma \notin {"known", "up"}

LEMMA AppendKeeps ==
    ASSUME NEW q \in Seq(Msg), NEW e \in Msg, NEW sa, NEW ma,
           InSequence(q, sa, ma), MayFollow(e, q, sa, ma)
    PROVE  InSequence(Append(q, e), sa, ma)
  <1>1. /\ Len(q) \in Nat /\ DOMAIN q = 1 .. Len(q) /\ DOMAIN Append(q, e) = 1 .. Len(q) + 1
        /\ \A i \in 1 .. Len(q) : Append(q, e)[i] = q[i]
        /\ Append(q, e)[Len(q) + 1] = e
    OBVIOUS
  <1>2. \A i \in 1 .. Len(q) + 1 : i \in 1 .. Len(q) \/ i = Len(q) + 1
    BY <1>1
  <1>3. ASSUME NEW i \in 1 .. Len(q) + 1, NEW j \in 1 .. Len(q) + 1, i < j,
               Append(q, e)[i].kind = "login"
        PROVE  /\ Append(q, e)[j].kind \notin {"auth", "config"}
               /\ Append(q, e)[i].id = 1 => Append(q, e)[j].kind # "login"
    <2>1. i \in 1 .. Len(q)
      BY <1>1, <1>3
    <2>2. CASE j \in 1 .. Len(q)
      BY <1>1, <1>3, <2>1, <2>2 DEF InSequence
    <2>3. CASE j = Len(q) + 1
      BY <1>1, <1>3, <2>1, <2>3 DEF MayFollow, NoSalt
    <2> QED
      BY <1>2, <2>2, <2>3
  <1>4. \A i \in 1 .. Len(q) + 1 :
           Append(q, e)[i].kind \in {"auth", "config"} => Append(q, e)[i].id = 0
    BY <1>1, <1>2 DEF InSequence, MayFollow
  <1>5. (sa => NoSalt(Append(q, e))) /\ (ma \in {"known", "up"} => NoSalt(Append(q, e)))
    BY <1>1, <1>2 DEF InSequence, MayFollow, NoSalt
  <1> QED
    BY <1>1, <1>3, <1>4, <1>5 DEF InSequence

(* What the master makes of a request. *)
LEMMA ArrivedFacts ==
    ASSUME NEW r \in Requests, NEW fresh, Arrived(r, fresh)
    PROVE  /\ salt' => fresh /\ r # "login"
           /\ fresh /\ r # "login" => salt'
           /\ r = "login" => Known(r, fresh) /\ master' = "challenged"
           /\ ~Known(r, fresh) => master' = "none"
           /\ r = "auth" /\ Known(r, fresh) => fresh /\ master' \in {"known", "up"}
           /\ r \in {"config", "ping"} /\ Known(r, fresh) =>
                 master \in {"known", "up"} /\ master' = "up"
  <1>1. (salt' => fresh /\ r # "login") /\ (fresh /\ r # "login" => salt')
    BY Zenon DEF Arrived
  <1>2. /\ Stage["login"] = "challenged" /\ Stage["auth"] = "known"
        /\ Stage["config"] = "up" /\ Stage["ping"] = "up"
    BY DEF Stage
  <1>3. master' = IF ~Known(r, fresh) THEN "none"
                  ELSE IF r = "auth" /\ master # "challenged" THEN master ELSE Stage[r]
    BY DEF Arrived
  <1>4. CASE r = "login"
    BY <1>1, <1>2, <1>3, <1>4 DEF Known
  <1>5. CASE r = "auth"
    BY <1>1, <1>2, <1>3, <1>5 DEF Known
  <1>6. CASE r = "config" \/ r = "ping"
    BY <1>1, <1>2, <1>3, <1>6 DEF Known
  <1> QED
    BY <1>4, <1>5, <1>6 DEF Requests

(* Whatever becomes of a request, the packets stay in sequence. *)
LEMMA RequestInSequence ==
    ASSUME NEW q \in Seq(Msg), NEW r \in Requests, NEW fresh, Request(r, fresh, q),
           InSequence(q, fresh, master)
    PROVE  InSequence(inbox', salt', master')
  <1> DEFINE o == Outdated(r, q)
             e == Reply(r, fresh)
  <1>1. CASE UNCHANGED master /\ salt' = fresh /\ inbox' = q
    BY <1>1
  <1>2. ASSUME Arrived(r, fresh)
        PROVE  InSequence(o, salt', master')
    <2>1. /\ o \in Seq(Msg) /\ DOMAIN o = DOMAIN q
          /\ \A i \in DOMAIN q :
                /\ o[i].kind = q[i].kind
                /\ r # "login" \/ q[i].kind # "login" => o[i] = q[i]
                /\ r = "login" /\ q[i].kind = "login" => o[i].id = 0
      BY OutdatedFacts
    <2>2. NoSalt(q) => NoSalt(o)
      BY <2>1 DEF NoSalt
    <2>3. salt' => NoSalt(o)
      BY <1>2, <2>2, ArrivedFacts DEF InSequence
    <2>4. master' \in {"known", "up"} => NoSalt(o)
      <3>1. CASE r = "login" \/ ~Known(r, fresh)
        BY <1>2, <3>1, ArrivedFacts
      <3>2. CASE r = "auth" /\ Known(r, fresh)
        BY <1>2, <2>2, <3>2, ArrivedFacts DEF InSequence
      <3>3. CASE r \in {"config", "ping"} /\ Known(r, fresh)
        BY <1>2, <2>2, <3>3, ArrivedFacts DEF InSequence
      <3> QED
        BY <3>1, <3>2, <3>3 DEF Requests
    <2>5. ASSUME NEW i \in DOMAIN o, NEW j \in DOMAIN o, i < j, o[i].kind = "login"
          PROVE  o[j].kind \notin {"auth", "config"} /\ (o[i].id = 1 => o[j].kind # "login")
      <3>1. q[i].kind = "login" /\ q[j].kind = o[j].kind /\ (o[i].id = 1 => q[i].id = 1)
        BY <2>1, <2>5
      <3> QED
        BY <2>1, <2>5, <3>1 DEF InSequence
    <2>6. \A i \in DOMAIN o : o[i].kind \in {"auth", "config"} => o[i].id = 0
      BY <2>1 DEF InSequence
    <2> HIDE DEF o
    <2> QED
      BY <2>3, <2>4, <2>5, <2>6 DEF InSequence
  <1>3. ASSUME Arrived(r, fresh)
        PROVE  MayFollow(e, o, salt', master')
    <2>1. \A i \in DOMAIN o : r = "login" /\ o[i].kind = "login" => o[i].id = 0
      BY OutdatedFacts
    <2>2. NoSalt(q) => NoSalt(o)
      BY OutdatedFacts DEF NoSalt
    <2>3. CASE r = "login"
      <3>1. e.kind = "login" /\ ~salt' /\ master' = "challenged"
        BY <1>3, <2>3, ReplyType, ArrivedFacts
      <3> HIDE DEF e, o
      <3> QED
        BY <2>1, <2>3, <3>1 DEF MayFollow
    <2>4. CASE ~Known(r, fresh) \/ r = "ping"
      <3>1. e.kind \in {"nak", "pong"}
        BY <2>4, ReplyType
      <3> HIDE DEF e, o
      <3> QED
        BY <3>1 DEF MayFollow
    <2>5. CASE r \in {"auth", "config"} /\ Known(r, fresh)
      <3>1. e.kind \in {"auth", "config"} /\ e.id = 0
        BY <2>5, ReplyType
      <3>2. fresh \/ master \in {"known", "up"}
        BY <1>3, <2>5, ArrivedFacts
      <3>3. NoSalt(o)
        BY <2>2, <3>2 DEF InSequence
      <3> HIDE DEF e, o
      <3> QED
        BY <3>1, <3>3 DEF MayFollow
    <2> QED
      BY <2>3, <2>4, <2>5 DEF Requests
  <1>4. o \in Seq(Msg) /\ e \in Msg
    BY OutdatedFacts, ReplyType
  <1>5. CASE Arrived(r, fresh) /\ inbox' = Append(o, e)
    <2> HIDE DEF o, e
    <2> QED
      BY <1>2, <1>3, <1>4, <1>5, AppendKeeps
  <1>6. CASE Arrived(r, fresh) /\ inbox' = o
    BY <1>2, <1>6
  <1> QED
    BY <1>1, <1>5, <1>6 DEF Request

(* Whatever becomes of the request the gateway makes in status st, the       *)
(* master stays as far as the gateway believes, and an RPTACK that answers   *)
(* the request says so.                                                      *)
LEMMA RequestBelieved ==
    ASSUME NEW q \in Seq(Msg), NEW r \in Requests, NEW fresh, Request(r, fresh, q),
           NEW st, st = (IF r = "ping" THEN "running" ELSE r), Believed(q, st, fresh, master)
    PROVE  Believed(inbox', st, salt', master')
  <1> DEFINE o == Outdated(r, q)
             e == Reply(r, fresh)
  <1>1. CASE UNCHANGED master /\ salt' = fresh /\ inbox' = q
    BY <1>1 DEF Believed
  <1>2. /\ o \in Seq(Msg) /\ DOMAIN o = DOMAIN q /\ \A i \in DOMAIN q : o[i].kind = q[i].kind
        /\ e \in Msg
    BY OutdatedFacts, ReplyType
  <1>3. ASSUME Arrived(r, fresh)
        PROVE  Believed(o, st, salt', master')
    <2>1. CASE r = "login"
      BY <2>1 DEF Believed
    <2>2. CASE r = "auth"
      <3>1. \A i \in DOMAIN o :
               o[i].kind # "config" /\ (o[i].kind = "auth" => fresh /\ master \in {"known", "up"})
        BY <1>2, <2>2 DEF Believed
      <3>2. fresh /\ master \in {"known", "up"} => salt' /\ master' \in {"known", "up"}
        BY <1>3, <2>2, ArrivedFacts DEF Known
      <3> HIDE DEF o
      <3> QED
        BY <2>2, <3>1, <3>2 DEF Believed
    <2>3. CASE r \in {"config", "ping"}
      <3>1. Known(r, fresh)
        BY <2>3 DEF Believed, Known
      <3>2. master' = "up"
        BY <1>3, <2>3, <3>1, ArrivedFacts
      <3> QED
        BY <2>3, <3>2 DEF Believed
    <2> QED
      BY <2>1, <2>2, <2>3 DEF Requests
  <1>4. ASSUME Arrived(r, fresh)
        PROVE  /\ e.kind = "auth" => st = "auth" /\ salt' /\ master' \in {"known", "up"}
               /\ e.kind = "config" => st = "config" /\ master' = "up"
    <2>1. e.kind \in {"auth", "config"} => Known(r, fresh) /\ e.kind = r
      BY ReplyType DEF Requests
    <2> HIDE DEF e
    <2> QED
      BY <1>4, <2>1, ArrivedFacts
  <1>5. CASE Arrived(r, fresh) /\ inbox' = Append(o, e)
    <2>1. /\ \A i \in DOMAIN inbox' :
                inbox'[i] = e \/ (i \in DOMAIN o /\ inbox'[i] = o[i])
      <3> HIDE DEF o, e
      <3> QED
        BY <1>2, <1>5
    <2> HIDE DEF o, e
    <2> QED
      BY <1>3, <1>4, <1>5, <2>1 DEF Believed
  <1>6. CASE Arrived(r, fresh) /\ inbox' = o
    BY <1>3, <1>6
  <1> QED
    BY <1>1, <1>5, <1>6 DEF Request

LEMMA LoginStep ==
    ASSUME Shape, LoginInv, [GatewayNext]_gateway
    PROVE  LoginInv'
  <1>1. /\ inbox \in Seq(Msg) /\ InSequence(inbox, salt, master)
        /\ ~doubtful => Believed(inbox, status, salt, master)
    BY DEF Shape, LoginInv
  <1>2. CASE UNCHANGED <<inbox, login, master, doubtful>>
    BY <1>1, <1>2 DEF login, LoginInv
  <1>3. CASE RecvPacket
    <2>1. inbox # <<>> /\ inbox' = Tail(inbox) /\ UNCHANGED <<status, salt, master, doubtful>>
      BY <1>3 DEF RecvPacket, login
    <2> QED
      BY <1>1, <2>1, TailKeeps DEF LoginInv
  <1>4. CASE Retry \/ Ping
    <2>1. UNCHANGED <<status, doubtful>>
      BY <1>4 DEF Retry, Ping
    <2>2. PICK r \in Requests : Request(r, salt, inbox) /\ status = (IF r = "ping" THEN "running" ELSE r)
      BY <1>4 DEF Retry, Ping, Requests, Shape
    <2>3. InSequence(inbox', salt', master')
      BY <1>1, <2>2, RequestInSequence
    <2>4. ~doubtful => Believed(inbox', status, salt', master')
      BY <1>1, <2>2, RequestBelieved
    <2> QED
      BY <2>1, <2>3, <2>4 DEF LoginInv
  <1>5. CASE KeepalivePacket
    <2>1. inbox # <<>>
      BY <1>5 DEF KeepalivePacket
    <2>2. PICK p : p = Head(inbox)
      OBVIOUS
    <2>3. PICK q : q = Tail(inbox)
      OBVIOUS
    <2>4. /\ q \in Seq(Msg) /\ InSequence(q, salt, master)
          /\ ~doubtful => Believed(q, status, salt, master)
          /\ p = inbox[1] /\ 1 \in DOMAIN inbox
          /\ \A i \in DOMAIN q : i + 1 \in DOMAIN inbox /\ q[i] = inbox[i + 1] /\ 1 < i + 1
      BY <1>1, <2>1, <2>2, <2>3, TailKeeps, TailFacts
    <2>5. doubtful' = (Mistaken(p) \/ (doubtful /\ ~LoginBegins(p)))
      BY <1>5, <2>2 DEF KeepalivePacket
    <2>6. CASE p.kind \in Acks
      <3>1. Acknowledged(p)
        BY <1>5, <2>2, <2>6 DEF KeepalivePacket, Acks
      <3>2. ~LoginBegins(p)
        BY <2>6 DEF LoginBegins, Acks
      <3>3. ~doubtful' => ~doubtful /\ (status = "running" \/ p.kind = status)
        BY <2>5, <2>6, <3>2, Zenon DEF Mistaken
      <3>4. CASE status = "login" /\ status' = "auth" /\ Request("auth", p.id = 1, q)
        <4> DEFINE fresh == p.id = 1
        <4>1. fresh => NoSalt(q)
          <5>1. fresh => p.kind = "login"
            BY <1>1, <2>4, <2>6 DEF InSequence, Acks
          <5> QED
            BY <1>1, <2>4, <5>1 DEF InSequence, NoSalt
        <4>2. InSequence(q, fresh, master)
          BY <2>4, <4>1 DEF InSequence
        <4>3. p.kind = "login" => Believed(q, "auth", fresh, master)
          BY <1>1, <2>4 DEF InSequence, Believed
        <4>4. Request("auth", fresh, q) /\ "auth" \in Requests
          BY <3>4 DEF Requests
        <4> HIDE DEF fresh
        <4>5. InSequence(inbox', salt', master')
          BY <2>4, <4>2, <4>4, RequestInSequence
        <4>6. p.kind = "login" => Believed(inbox', "auth", salt', master')
          BY <2>4, <4>3, <4>4, RequestBelieved
        <4> QED
          BY <3>3, <3>4, <4>5, <4>6 DEF LoginInv
      <3>5. CASE status = "auth" /\ status' = "config" /\ Request("config", salt, q)
        <4>1. "config" \in Requests
          BY DEF Requests
        <4>2. InSequence(inbox', salt', master')
          BY <2>4, <3>5, <4>1, RequestInSequence
        <4>3. ~doubtful /\ p.kind = "auth" => Believed(q, "config", salt, master)
          BY <1>1, <2>4, <3>5 DEF Believed
        <4>4. ~doubtful /\ p.kind = "auth" => Believed(inbox', "config", salt', master')
          BY <2>4, <3>5, <4>1, <4>3, RequestBelieved
        <4> QED
          BY <3>3, <3>5, <4>2, <4>4 DEF LoginInv
      <3>6. CASE status = "config" /\ status' = "running" /\ inbox' = q /\ UNCHANGED <<salt, master>>
        <4>1. ~doubtful /\ p.kind = "config" => master = "up"
          BY <1>1, <2>4, <3>6 DEF Believed
        <4> QED
          BY <2>4, <3>3, <3>6, <4>1 DEF LoginInv, Believed
      <3>7. CASE status = "running" /\ inbox' = q /\ UNCHANGED <<login, master>>
        BY <2>4, <3>3, <3>7 DEF LoginInv, login
      <3> QED
        BY <2>3, <3>1, <3>4, <3>5, <3>6, <3>7 DEF Acknowledged
    <2>7. CASE p.kind = "nak"
      <3>1. status' = "login" /\ Request("login", salt, q) /\ "login" \in Requests
        BY <1>5, <2>2, <2>3, <2>7 DEF KeepalivePacket, Refused, Acks, Requests
      <3>2. InSequence(inbox', salt', master')
        BY <2>4, <3>1, RequestInSequence
      <3> QED
        BY <3>1, <3>2 DEF LoginInv, Believed
    <2>8. CASE p.kind \notin Acks \cup {"nak"}
      <3>1. inbox' = q /\ UNCHANGED <<status, salt, master>>
        BY <1>5, <2>2, <2>3, <2>8 DEF KeepalivePacket, Dropped, login
      <3>2. ~doubtful' => ~doubtful
        BY <2>5, <2>8, Zenon DEF LoginBegins
      <3> QED
        BY <2>4, <3>1, <3>2 DEF LoginInv
    <2> QED
      BY <2>6, <2>7, <2>8
  <1>6. CASE NetCall
    <2>1. PICK k \in FrameKind, n \in Nat : Arrives(Pkt(k, n))
      BY <1>6 DEF NetCall, FrameKind, Shape
    <2>2. UNCHANGED <<status, salt, master, doubtful>>
      BY <1>6 DEF NetCall, login
    <2>3. PICK e : e = Pkt(k, n)
      OBVIOUS
    <2>4. e \in Msg /\ e.kind \in FrameKind
      BY <2>3, MsgType
    <2>5. CASE inbox' = inbox
      BY <1>1, <2>2, <2>5 DEF LoginInv
    <2>6. CASE inbox' = Append(inbox, e)
      <3>1. MayFollow(e, inbox, salt, master)
        BY <2>4 DEF MayFollow, FrameKind
      <3>2. InSequence(inbox', salt, master)
        BY <1>1, <2>4, <2>6, <3>1, AppendKeeps
      <3>3. \A i \in DOMAIN inbox' : inbox'[i] = e \/ (i \in DOMAIN inbox /\ inbox'[i] = inbox[i])
        BY <1>1, <2>4, <2>6
      <3>4. ~doubtful => Believed(inbox', status, salt, master)
        BY <1>1, <2>4, <3>3 DEF Believed, FrameKind
      <3> QED
        BY <2>2, <3>2, <3>4 DEF LoginInv
    <2> QED
      BY <2>1, <2>3, <2>5, <2>6 DEF Arrives
  <1>7. CASE MasterForgets
    <2>1. UNCHANGED <<inbox, salt>> /\ master' = "none" /\ doubtful' = TRUE
      BY <1>7 DEF MasterForgets, login
    <2> QED
      BY <1>1, <2>1 DEF LoginInv, InSequence
  <1> QED
    BY <1>2, <1>3, <1>4, <1>5, <1>6, <1>7
    DEF GatewayNext, startDMRNetwork, Takes, RecvNothing, FrameWaits, Forward, ForwardStale,
        ForwardNothing, KeepaliveNothing, startClient, gateway

(* Requests and answers may be lost, repeated and late, and an earlier login *)
(* may have left anything on the way: as long as no RPTACK has been taken    *)
(* for the answer to another request and the master has not restarted since  *)
(* the login began, the status of dmrgateway.c is "running" only while the   *)
(* master knows the gateway.                                                 *)
THEOREM LoginIsReal == GatewaySpec => []RunningIsKnown
  <1>1. GatewayInit => Shape /\ LoginInv
    <2> SUFFICES ASSUME GatewayInit PROVE LoginInv
      BY ShapeInit
    <2>1. Pkt("login", 1).kind = "login"
      BY MsgType DEF Acks
    <2>2. CASE inbox = <<Pkt("login", 1)>>
      <3>1. DOMAIN inbox = {1} /\ inbox[1].kind = "login"
        BY <2>1, <2>2
      <3>2. master \notin {"known", "up"} /\ ~salt
        BY Zenon DEF GatewayInit
      <3>3. InSequence(inbox, salt, master)
        BY <3>1, <3>2 DEF InSequence
      <3> QED
        BY <3>3 DEF GatewayInit, LoginInv, Believed
    <2>3. CASE inbox = <<>>
      <3>1. DOMAIN inbox = {}
        BY <2>3
      <3>2. InSequence(inbox, salt, master)
        BY <3>1 DEF InSequence, NoSalt
      <3> QED
        BY <3>2 DEF GatewayInit, LoginInv, Believed
    <2> QED
      BY <2>2, <2>3 DEF GatewayInit
  <1>2. Shape /\ LoginInv /\ [GatewayNext]_gateway => Shape' /\ LoginInv'
    BY ShapeStep, LoginStep
  <1>3. Shape /\ LoginInv => RunningIsKnown
    BY DEF LoginInv, Believed, RunningIsKnown
  <1> QED
    BY <1>1, <1>2, <1>3, PTL DEF GatewaySpec
==============================================================================
