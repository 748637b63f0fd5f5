---------------------------- MODULE RadioSharing -----------------------------
(***************************************************************************)
(* Who may use the radio of a SAMPLE modem.  Modem_Host.c keeps the        *)
(* current mode: a service takes the radio with SET_MODE and gives it back *)
(* with SET_IDLE, timerThread() takes it away when a transmission lasts    *)
(* too long.  Sample frames are not checked against the current mode: the  *)
(* services themselves look at the database first (isActiveMode()) and     *)
(* keep the radio until their hang time is over (here: ysf_host.c).        *)
(*                                                                         *)
(* A step is one access to shared state: a hold of a mutex, an atomic      *)
(* variable, a database statement, a write to a socket.                    *)
(***************************************************************************)
EXTENDS Naturals, Sequences, SequencesExt

CONSTANTS Svc,         \* protocol services, one per mode
          Idle,        \* the mode name "idle"
          OutMax,      \* frames that fit in a connection from service to host
          BufMax,      \* frames that fit in rxModeBuffer
          MaxCalls,    \* bound: calls of all services
          MaxCrashes   \* bound: services that stop without a word

ASSUME SharingAssumption ==
    /\ Idle \notin Svc
    /\ OutMax \in Nat /\ OutMax >= 2
    /\ BufMax \in Nat \ {0}
    /\ MaxCalls \in Nat /\ MaxCrashes \in Nat

VARIABLES up,           \* service: "up", "gone" (not yet noticed by the host) or "closed"
          call,         \* service: "none", "may" (isActiveMode() said yes), "start" (mode requested)
                        \* or "talk" (burst)
          modeHeld,     \* service: modeHeld
          releasing,    \* service: where timerThread() is: "look" (no call is under way), "late" (one
                        \* has begun since that look), then in releaseMode() "go" and "sent"
          out,          \* frames written to the host and not yet read
          handler,      \* host: where processClientSocket() is in the frame it handles
          currentMode,  \* host: currentMode
          txOn,         \* host: txOn
          rxModeBuffer, \* host: rxModeBuffer, the service of each frame
          timer,        \* host: where timerThread() is
          activeMode,   \* database: status active_mode
          modemMode,    \* modem: the last SET_MODE command queued for it
          calls,        \* calls so far
          crashes,      \* crashes so far
          mishaps       \* history: what has gone wrong so far, see Mishap

service == <<up, call, modeHeld, releasing, calls, crashes>>
owner   == <<currentMode, txOn, activeMode, modemMode>>
vars    == <<service, out, handler, owner, rxModeBuffer, timer, mishaps>>

\* "hasty":   a call began on an old answer of the database, before the radio was free
\* "race":    the radio was taken at the very moment that timerThread() took it away
\* "slip":    the service gives the radio back at the very moment that it begins a call
\* "timeout": a transmission was ended by timerThread()
\* "orphan":  the service with the radio went away between transmissions
Mishap == {"hasty", "race", "slip", "timeout", "orphan"}

Noted(kind, fact) == {k \in {kind} : fact}
Note(kind, fact) == mishaps' = mishaps \cup Noted(kind, fact)

Init ==
    /\ up = [s \in Svc |-> "up"]
    /\ call = [s \in Svc |-> "none"]
    /\ modeHeld = [s \in Svc |-> FALSE]
    /\ releasing = [s \in Svc |-> "no"]
    /\ calls = 0
    /\ crashes = 0
    /\ out = [s \in Svc |-> <<>>]
    /\ handler = [s \in Svc |-> "read"]
    /\ currentMode = Idle
    /\ txOn = FALSE
    /\ rxModeBuffer = <<>>
    /\ timer = "rest"
    /\ activeMode = Idle
    /\ modemMode = Idle
    /\ mishaps = {}

------------------------------------------------------------------------------
(* The services *)

IsAllowed(s) == activeMode \in {s, Idle}

\* isActiveMode(): its answer may be 200 ms old when it is used.
isActiveMode(s) ==
    /\ up[s] = "up" /\ call[s] = "none"
    /\ calls < MaxCalls
    /\ IsAllowed(s)
    /\ call' = [call EXCEPT ![s] = "may"]
    /\ UNCHANGED <<up, modeHeld, releasing, calls, crashes, out, handler, owner,
                   rxModeBuffer, timer, mishaps>>

modemWrite(s, frames) ==
    /\ Len(out[s]) + Len(frames) <= OutMax
    /\ out' = [out EXCEPT ![s] = @ \o frames]

\* Service t has nothing to do with the radio any more.
Quiet(t) == ~ modeHeld[t] /\ releasing[t] \in {"no", "look"} /\ out[t] = <<>> /\ handler[t] = "read"

RadioIsFreeFor(s) ==
    /\ IsAllowed(s)
    /\ timer = "rest"
    /\ \A t \in Svc \ {s} : Quiet(t)

\* onEvent(), at the start of a call: requestMode()
StartCall(s) ==
    /\ up[s] = "up" /\ call[s] = "may"
    /\ calls < MaxCalls
    /\ modemWrite(s, <<"SET_MODE">>)
    /\ modeHeld' = [modeHeld EXCEPT ![s] = TRUE]
    /\ call' = [call EXCEPT ![s] = "start"]
    /\ calls' = calls + 1
    /\ releasing' = [releasing EXCEPT ![s] = IF @ = "look" THEN "late" ELSE @]
    /\ mishaps' = mishaps \cup Noted("slip", releasing[s] \in {"go", "sent"})
                           \cup Noted("hasty", ~ RadioIsFreeFor(s))
    /\ UNCHANGED <<up, crashes, handler, owner, rxModeBuffer, timer>>

\* txThread(), first frame: the mode is requested again if it is not held by now.
StartBurst(s) ==
    /\ up[s] = "up" /\ call[s] = "start"
    /\ modemWrite(s, IF modeHeld[s] THEN <<"DATA">> ELSE <<"SET_MODE", "DATA">>)
    /\ modeHeld' = [modeHeld EXCEPT ![s] = TRUE]
    /\ call' = [call EXCEPT ![s] = "talk"]
    /\ UNCHANGED <<up, releasing, calls, crashes, handler, owner, rxModeBuffer, timer,
                   mishaps>>

\* txThread(): more samples, and the end of the burst or an underrun
SendBurst(s, frame) ==
    /\ up[s] = "up" /\ call[s] = "talk"
    /\ modemWrite(s, <<frame>>)
    /\ call' = [call EXCEPT ![s] = IF frame = "EOT" THEN "none" ELSE "talk"]
    /\ UNCHANGED <<up, modeHeld, releasing, calls, crashes, handler, owner, rxModeBuffer,
                   timer, mishaps>>

\* Mutant: a call under way does not restart the hang time.
HangTimeLook_inCall(s) ==
    /\ up[s] = "up" /\ releasing[s] = "no"
    /\ modeHeld[s] \/ call[s] = "may"
    /\ releasing' = [releasing EXCEPT ![s] = "look"]
    /\ UNCHANGED <<up, call, modeHeld, calls, crashes, out, handler, owner, rxModeBuffer,
                   timer, mishaps>>

\* timerThread() of the service, under the mutex of the call: no call and no burst.  (Nothing
\* comes of a look while the mode is not held and no call is about to begin.)
HangTimeLook(s) ==
    /\ up[s] = "up" /\ releasing[s] = "no"
    /\ modeHeld[s] \/ call[s] = "may"
    /\ call[s] \in {"none", "may"}
    /\ releasing' = [releasing EXCEPT ![s] = "look"]
    /\ UNCHANGED <<up, call, modeHeld, calls, crashes, out, handler, owner, rxModeBuffer,
                   timer, mishaps>>

\* After the mutex: the mode is held and the hang time is over.  lastActivityMs of a call
\* that has begun since may be later than the clock read before the look: the unsigned
\* difference is then huge.
HangTimeOver(s) ==
    /\ up[s] = "up" /\ releasing[s] \in {"look", "late"}
    /\ \E over \in {modeHeld[s]} \cup {b \in {FALSE} : releasing[s] = "late"} :
           /\ releasing' = [releasing EXCEPT ![s] = IF over THEN "go" ELSE "no"]
           /\ Note("slip", over /\ releasing[s] = "late")
    /\ UNCHANGED <<up, call, modeHeld, calls, crashes, out, handler, owner, rxModeBuffer, timer>>

\* releaseMode(), which runs outside the mutex of the call
ReleaseWrite(s) ==
    /\ up[s] = "up" /\ releasing[s] = "go"
    /\ modemWrite(s, <<"SET_IDLE">>)
    /\ releasing' = [releasing EXCEPT ![s] = "sent"]
    /\ UNCHANGED <<up, call, modeHeld, calls, crashes, handler, owner, rxModeBuffer,
                   timer, mishaps>>

ReleaseDone(s) ==
    /\ up[s] = "up" /\ releasing[s] = "sent"
    /\ modeHeld' = [modeHeld EXCEPT ![s] = FALSE]
    /\ releasing' = [releasing EXCEPT ![s] = "no"]
    /\ UNCHANGED <<up, call, calls, crashes, out, handler, owner, rxModeBuffer, timer,
                   mishaps>>

Crash(s) ==
    /\ up[s] = "up"
    /\ crashes < MaxCrashes
    /\ crashes' = crashes + 1
    /\ up' = [up EXCEPT ![s] = "gone"]
    /\ call' = [call EXCEPT ![s] = "none"]
    /\ modeHeld' = [modeHeld EXCEPT ![s] = FALSE]
    /\ releasing' = [releasing EXCEPT ![s] = "no"]
    /\ UNCHANGED <<calls, out, handler, owner, rxModeBuffer, timer, mishaps>>

\* A new process registers the mode again.
Restart(s) ==
    /\ up[s] = "closed"
    /\ up' = [up EXCEPT ![s] = "up"]
    /\ UNCHANGED <<call, modeHeld, releasing, calls, crashes, out, handler, owner, rxModeBuffer,
                   timer, mishaps>>

------------------------------------------------------------------------------
(* processClientSocket(), one thread per service *)

At(s, from, to) == handler[s] = from /\ handler' = [handler EXCEPT ![s] = to]

Reads(s, frame) ==
    /\ out[s] # <<>> /\ Head(out[s]) = frame
    /\ out' = [out EXCEPT ![s] = Tail(@)]

\* A frame that is not a sample frame empties rxModeBuffer if that has less room than its length.
MakeRoom == rxModeBuffer' \in {rxModeBuffer} \cup {b \in {<<>>} : Len(rxModeBuffer) = BufMax}

\* COMM_SET_MODE: isCurrentModeIdle()
SetModeTest(s) ==
    /\ Reads(s, "SET_MODE")
    /\ At(s, "read", IF currentMode = Idle THEN "mode" ELSE "read")
    /\ MakeRoom
    /\ UNCHANGED <<service, owner, timer, mishaps>>

SetModeTake(s) ==
    /\ At(s, "mode", "modeModem")
    /\ currentMode' = s
    /\ Note("race", timer # "rest")
    /\ UNCHANGED <<service, out, txOn, activeMode, modemMode, rxModeBuffer, timer>>

SetModeModem(s) ==
    /\ At(s, "modeModem", "modeStatus")
    /\ modemMode' = s
    /\ UNCHANGED <<service, out, currentMode, txOn, activeMode, rxModeBuffer, timer, mishaps>>

SetModeStatus(s) ==
    /\ At(s, "modeStatus", "read")
    /\ activeMode' = s
    /\ UNCHANGED <<service, out, currentMode, txOn, modemMode, rxModeBuffer, timer, mishaps>>

\* Mutant: nothing is done when no transmission is on.
SetIdleTest_onAir(s) ==
    /\ Reads(s, "SET_IDLE")
    /\ At(s, "read", IF currentMode = s /\ txOn THEN "idleTx" ELSE "read")
    /\ MakeRoom
    /\ UNCHANGED <<service, owner, timer, mishaps>>

\* COMM_SET_IDLE: isCurrentModeIdle(), isCurrentMode()
SetIdleTest(s) ==
    /\ Reads(s, "SET_IDLE")
    /\ At(s, "read", IF currentMode = s THEN "idleTx" ELSE "read")
    /\ MakeRoom
    /\ UNCHANGED <<service, owner, timer, mishaps>>

SetIdleTx(s) ==
    /\ At(s, "idleTx", "idle")
    /\ txOn' = FALSE
    /\ UNCHANGED <<service, out, currentMode, activeMode, modemMode, rxModeBuffer, timer, mishaps>>

SetIdleGive(s) ==
    /\ At(s, "idle", "idleClear")
    /\ currentMode' = Idle
    /\ UNCHANGED <<service, out, txOn, activeMode, modemMode, rxModeBuffer, timer, mishaps>>

SetIdleClear(s) ==
    /\ At(s, "idleClear", "idleModem")
    /\ rxModeBuffer' = <<>>
    /\ UNCHANGED <<service, out, owner, timer, mishaps>>

\* Mutant: the modem keeps the mode.
SetIdleModem_kept(s) ==
    /\ At(s, "idleModem", "idleStatus")
    /\ UNCHANGED <<service, out, currentMode, txOn, activeMode, modemMode, rxModeBuffer, timer, mishaps>>

SetIdleModem(s) ==
    /\ At(s, "idleModem", "idleStatus")
    /\ modemMode' = Idle
    /\ UNCHANGED <<service, out, currentMode, txOn, activeMode, rxModeBuffer, timer, mishaps>>

SetIdleStatus(s) ==
    /\ At(s, "idleStatus", "read")
    /\ activeMode' = Idle
    /\ UNCHANGED <<service, out, currentMode, txOn, modemMode, rxModeBuffer, timer, mishaps>>

\* OPENMT_SAMP_DATA
SampOn(s) ==
    /\ Reads(s, "DATA")
    /\ At(s, "read", "samp")
    /\ txOn' = TRUE
    /\ UNCHANGED <<service, currentMode, activeMode, modemMode, rxModeBuffer, timer, mishaps>>

\* A frame that does not fit is dropped.  (A frame that fits exactly, which addData() answers by
\* emptying the buffer, needs about a hundred queued EOT frames and is left out.)
Queue(s) == rxModeBuffer' = IF Len(rxModeBuffer) < BufMax THEN Append(rxModeBuffer, s) ELSE rxModeBuffer

SampQueue(s) ==
    /\ At(s, "samp", "read")
    /\ Queue(s)
    /\ UNCHANGED <<service, out, owner, timer, mishaps>>

\* OPENMT_SAMP_EOT
EotQueue(s) ==
    /\ Reads(s, "EOT")
    /\ At(s, "read", "eot")
    /\ Queue(s)
    /\ UNCHANGED <<service, owner, timer, mishaps>>

EotOff(s) ==
    /\ At(s, "eot", "read")
    /\ txOn' = FALSE
    /\ UNCHANGED <<service, out, currentMode, activeMode, modemMode, rxModeBuffer, timer, mishaps>>

\* The connection ends.  The radio is not given back.
Disconnect(s) ==
    /\ up[s] = "gone" /\ out[s] = <<>>
    /\ At(s, "read", "read")
    /\ up' = [up EXCEPT ![s] = "closed"]
    /\ Note("orphan", currentMode = s /\ ~ txOn)
    /\ UNCHANGED <<call, modeHeld, releasing, calls, crashes, out, owner, rxModeBuffer,
                   timer>>

------------------------------------------------------------------------------
Taking(s) == handler[s] \in {"mode", "modeModem", "modeStatus"}

(* timerThread() of Modem_Host: txTimeout fires while a transmission is on *)

Tick(from, to) == timer = from /\ timer' = to

TimeoutFires ==
    /\ txOn
    /\ Tick("rest", "tx")
    /\ mishaps' = mishaps \cup {"timeout"} \cup Noted("race", \E s \in Svc : Taking(s))
    /\ UNCHANGED <<service, out, handler, owner, rxModeBuffer>>

TimeoutTx ==
    /\ Tick("tx", "idle")
    /\ txOn' = FALSE
    /\ UNCHANGED <<service, out, handler, currentMode, activeMode, modemMode, rxModeBuffer, mishaps>>

TimeoutIdle ==
    /\ Tick("idle", "status")
    /\ currentMode' = Idle
    /\ UNCHANGED <<service, out, handler, txOn, activeMode, modemMode, rxModeBuffer, mishaps>>

TimeoutStatus ==
    /\ Tick("status", "clear")
    /\ activeMode' = Idle
    /\ UNCHANGED <<service, out, handler, currentMode, txOn, modemMode, rxModeBuffer, mishaps>>

TimeoutClear ==
    /\ Tick("clear", "modem")
    /\ rxModeBuffer' = <<>>
    /\ UNCHANGED <<service, out, handler, owner, mishaps>>

TimeoutModem ==
    /\ Tick("modem", "rest")
    /\ modemMode' = Idle
    /\ UNCHANGED <<service, out, handler, currentMode, txOn, activeMode, rxModeBuffer, mishaps>>

------------------------------------------------------------------------------
\* modeTxThread() sends a frame on.
modeTxThread ==
    /\ rxModeBuffer # <<>>
    /\ rxModeBuffer' = Tail(rxModeBuffer)
    /\ UNCHANGED <<service, out, handler, owner, timer, mishaps>>

------------------------------------------------------------------------------
SetMode(s) == SetModeTest(s) \/ SetModeTake(s) \/ SetModeModem(s) \/ SetModeStatus(s)

SetIdle(s) == SetIdleTest(s) \/ SetIdleTx(s) \/ SetIdleGive(s) \/ SetIdleClear(s)
              \/ SetIdleModem(s) \/ SetIdleStatus(s)

Samples(s) == SampOn(s) \/ SampQueue(s) \/ EotQueue(s) \/ EotOff(s)

processClientSocket(s) == SetMode(s) \/ SetIdle(s) \/ Samples(s) \/ Disconnect(s)

Release(s) == HangTimeLook(s) \/ HangTimeOver(s) \/ ReleaseWrite(s) \/ ReleaseDone(s)

EndBurst(s) == SendBurst(s, "EOT")

timerThread == TimeoutFires \/ TimeoutTx \/ TimeoutIdle \/ TimeoutStatus \/ TimeoutClear \/ TimeoutModem

Next ==
    \/ \E s \in Svc :
           \/ isActiveMode(s) \/ StartCall(s) \/ StartBurst(s) \/ SendBurst(s, "DATA") \/ EndBurst(s)
           \/ Release(s) \/ Crash(s) \/ Restart(s) \/ processClientSocket(s)
    \/ timerThread \/ modeTxThread

Spec == Init /\ [][Next]_vars

\* Threads run; a burst that has no more frames is ended by its service; the
\* hang time passes; a transmission that stays on is timed out.
Fairness ==
    /\ \A s \in Svc : /\ WF_vars(processClientSocket(s))
                      /\ WF_vars(StartBurst(s))
                      /\ WF_vars(EndBurst(s))
                      /\ WF_vars(Release(s))
    /\ WF_vars(timerThread)
    /\ WF_vars(modeTxThread)

FairSpec == Spec /\ Fairness

------------------------------------------------------------------------------
\* The state is well formed; the buffer and the connections hold no more than fits.
TypeOK ==
    /\ up \in [Svc -> {"up", "gone", "closed"}]
    /\ call \in [Svc -> {"none", "may", "start", "talk"}]
    /\ modeHeld \in [Svc -> BOOLEAN]
    /\ releasing \in [Svc -> {"no", "look", "late", "go", "sent"}]
    /\ calls \in 0 .. MaxCalls
    /\ crashes \in 0 .. MaxCrashes
    /\ out \in [Svc -> Seq({"SET_MODE", "SET_IDLE", "DATA", "EOT"})]
    /\ \A s \in Svc : Len(out[s]) <= OutMax
    /\ handler \in [Svc -> {"read", "mode", "modeModem", "modeStatus", "idleTx", "idle", "idleClear",
                            "idleModem", "idleStatus", "samp", "eot"}]
    /\ {currentMode, activeMode, modemMode} \subseteq Svc \cup {Idle}
    /\ txOn \in BOOLEAN
    /\ rxModeBuffer \in Seq(Svc) /\ Len(rxModeBuffer) <= BufMax
    /\ timer \in {"rest", "tx", "idle", "status", "clear", "modem"}
    /\ mishaps \subseteq Mishap

None(kinds) == mishaps \cap kinds = {}

\* Nobody has taken the radio while it changed hands.
Orderly == None({"hasty", "race"})

(* README.md: "Only one service will be enabled for transmit at any given    *)
(* time."  processClientSocket() queues the samples of any service, so this  *)
(* rests on the services: it holds across hang times, crashes and restarts   *)
(* as long as no call begins before the radio is free and no transmission is *)
(* timed out (its service is not told, and goes on).                         *)
OnlyOwnerTransmits ==
    [][Len(rxModeBuffer') > Len(rxModeBuffer) /\ Orderly /\ None({"slip", "timeout"})
           => Last(rxModeBuffer') = currentMode]_vars

(* The database, which the services ask, and the modem agree with the host   *)
(* on who has the radio whenever no thread is in the middle of a change, as  *)
(* long as two threads have not been in the middle of one together.  (After  *)
(* a slip they can be: the service then asks for the radio a second time     *)
(* when it has given it back, and another may be taking it.)                 *)
StatusAgrees ==
    Orderly /\ None({"slip"}) /\ timer = "rest" /\ (\A s \in Svc : handler[s] = "read")
        => activeMode = currentMode /\ modemMode = currentMode

(* A service that has taken the radio does not keep it for ever, even if it  *)
(* crashes in the middle of a transmission.  Excluded are a service that     *)
(* goes away between two transmissions, one that begins a call while its     *)
(* other thread gives the radio back, and what is not orderly.               *)
RadioIsGivenBack ==
    \A s \in Svc :
        currentMode = s ~> currentMode # s \/ ~ Orderly \/ ~ None({"slip", "orphan"})
==============================================================================
