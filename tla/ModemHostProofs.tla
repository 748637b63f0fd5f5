-------------------------- MODULE ModemHostProofs ----------------------------
(***************************************************************************)
(* What Modem_Host.c promises of its modem: who has the radio, and what is *)
(* read from the serial line.                                              *)
(*                                                                         *)
(* RadioSharing: for any number of services, calls and crashes and any     *)
(* sizes of the buffers, the host, the database and the modem agree on who *)
(* has the radio, and only its owner's samples are queued, in behaviours   *)
(* without the mishaps that the two properties exclude.                    *)
(*                                                                         *)
(* FrameParsers: for any lengths, types and payloads and any backlog, both *)
(* ends of a line that loses nothing take exactly the frames sent, and     *)
(* lost bytes cost no frame farther off than a wrong length reaches.       *)
(***************************************************************************)
EXTENDS RadioSharing, FrameParsers, SequenceTheorems, WellFoundedInduction, TLAPS

Word == {"SET_MODE", "SET_IDLE", "DATA", "EOT"}

\* No call has begun too early, none while its service was giving the radio back.
InTurn == Orderly /\ None({"slip"})

\* A service in a call holds the mode and is not giving it back.
CallHolds ==
    InTurn => \A s \in Svc : call[s] \in {"start", "talk"} => modeHeld[s] /\ releasing[s] \in {"no", "late"}

\* At most one service at a time has anything to do with the radio.
OneAtATime == InTurn => \A s, t \in Svc : s # t => Quiet(s) \/ Quiet(t)

Equal == activeMode = currentMode /\ modemMode = currentMode

Changing == {"modeModem", "modeStatus", "idleClear", "idleModem", "idleStatus"}

\* How far a change of hands has got: who has the radio, for every place of the two threads that
\* change it.
Agreement ==
    InTurn =>
        /\ timer \in {"rest", "tx", "idle"} /\ (\A s \in Svc : handler[s] \notin Changing) => Equal
        /\ timer \in {"status", "clear", "modem"} => currentMode = Idle
        /\ timer \in {"clear", "modem"} => activeMode = Idle
        /\ \A s \in Svc :
             /\ handler[s] = "mode" => currentMode = Idle
             /\ handler[s] \in {"modeModem", "modeStatus"} => timer = "rest" /\ currentMode = s
             /\ handler[s] = "modeStatus" => modemMode = s
             /\ handler[s] \in {"idleClear", "idleModem", "idleStatus"} => currentMode = Idle
             /\ handler[s] = "idleStatus" => modemMode = Idle

\* Nobody but the service that uses the radio can have it.
NobodyElse == InTurn => \A s \in Svc : ~ Quiet(s) => currentMode \in {s, Idle}

\* No transmission has been timed out either.
Untimed == InTurn /\ None({"timeout"})

\* The service has the radio, or its handler is about to take it ...
Has(s) == Taking(s) \/ (currentMode = s /\ handler[s] \in {"read", "samp", "eot"})

\* ... or will have it when the first i of its frames have been handled.
WillHave(s, i) ==
    \/ Has(s) /\ \A k \in 1 .. i : out[s][k] # "SET_IDLE"
    \/ \E j \in 1 .. i : out[s][j] = "SET_MODE" /\ \A k \in j + 1 .. i : out[s][k] # "SET_IDLE"

\* Samples follow a SET_MODE with no SET_IDLE in between.
SamplesAreCovered ==
    Untimed =>
        /\ timer = "rest"
        /\ \A s \in Svc :
             /\ handler[s] = "samp" => currentMode = s
             /\ \A i \in 1 .. Len(out[s]) : out[s][i] \in {"DATA", "EOT"} => WillHave(s, i - 1)
             /\ call[s] \in {"start", "talk"} => WillHave(s, Len(out[s]))

Inv ==
    /\ TypeOK
    /\ CallHolds
    /\ OneAtATime
    /\ Agreement
    /\ NobodyElse
    /\ SamplesAreCovered

USE SharingAssumption

------------------------------------------------------------------------------
USE DEF service, owner

\* The steps of a service; they leave the host alone.
ServiceStep(s) ==
    \/ isActiveMode(s) \/ StartCall(s) \/ StartBurst(s) \/ SendBurst(s, "DATA") \/ SendBurst(s, "EOT")
    \/ HangTimeLook(s) \/ HangTimeOver(s) \/ ReleaseWrite(s) \/ ReleaseDone(s) \/ Crash(s) \/ Restart(s)

\* The ways a step can go.
LEMMA StepCases ==
    ASSUME Next
    PROVE  \/ \E s \in Svc : ServiceStep(s) \/ SetMode(s) \/ SetIdle(s) \/ Samples(s) \/ Disconnect(s)
           \/ timerThread \/ modeTxThread
BY DEF Next, ServiceStep, EndBurst, Release, processClientSocket

\* What has gone wrong stays on record.
LEMMA MishapsStay ==
    ASSUME [Next]_vars
    PROVE  mishaps \subseteq mishaps'
<1>1. ASSUME NEW s \in Svc, ServiceStep(s) PROVE mishaps \subseteq mishaps'
  BY <1>1 DEF ServiceStep, isActiveMode, StartCall, StartBurst, SendBurst, HangTimeLook, HangTimeOver,
              ReleaseWrite, ReleaseDone, Crash, Restart, Note
<1>2. ASSUME NEW s \in Svc, SetMode(s) \/ SetIdle(s) \/ Samples(s) \/ Disconnect(s)
      PROVE  mishaps \subseteq mishaps'
  BY <1>2 DEF SetMode, SetModeTest, SetModeTake, SetModeModem, SetModeStatus, SetIdle, SetIdleTest,
              SetIdleTx, SetIdleGive, SetIdleClear, SetIdleModem, SetIdleStatus, Samples, SampOn,
              SampQueue, EotQueue, EotOff, Disconnect, Note
<1>3. CASE timerThread
  BY <1>3 DEF timerThread, TimeoutFires, TimeoutTx, TimeoutIdle, TimeoutStatus, TimeoutClear, TimeoutModem
<1>4. CASE modeTxThread
  BY <1>4 DEF modeTxThread
<1>5. CASE UNCHANGED vars
  BY <1>5 DEF vars
<1> QED BY <1>1, <1>2, <1>3, <1>4, <1>5, StepCases

LEMMA TurnStays ==
    ASSUME [Next]_vars
    PROVE  (InTurn' => InTurn) /\ (Untimed' => Untimed)
BY MishapsStay DEF InTurn, Untimed, Orderly, None

\* What the record says of a step.
LEMMA MishapFacts ==
    /\ \A s \in Svc : StartCall(s) /\ InTurn' => releasing[s] \notin {"go", "sent"} /\ RadioIsFreeFor(s)
    /\ \A s \in Svc : SetModeTake(s) /\ InTurn' => timer = "rest"
    /\ TimeoutFires => ~ Untimed' /\ (InTurn' => \A s \in Svc : ~ Taking(s))
    /\ \A s \in Svc : TypeOK /\ HangTimeOver(s) /\ InTurn' /\ releasing[s] = "late" => releasing'[s] = "no"
<1>1. ASSUME NEW s \in Svc, StartCall(s), InTurn'
      PROVE  releasing[s] \notin {"go", "sent"} /\ RadioIsFreeFor(s)
  BY <1>1 DEF StartCall, InTurn, Orderly, None, Noted
<1>2. ASSUME NEW s \in Svc, SetModeTake(s), InTurn' PROVE timer = "rest"
  BY <1>2 DEF SetModeTake, InTurn, Orderly, None, Noted, Note
<1>3. TimeoutFires => ~ Untimed'
  BY DEF TimeoutFires, Untimed, None
<1>4. TimeoutFires /\ InTurn' => \A s \in Svc : ~ Taking(s)
  BY DEF TimeoutFires, InTurn, Orderly, None, Noted
<1>5. ASSUME NEW s \in Svc, TypeOK, HangTimeOver(s), InTurn', releasing[s] = "late"
      PROVE  releasing'[s] = "no"
  <2>1. PICK over \in BOOLEAN : /\ releasing' = [releasing EXCEPT ![s] = IF over THEN "go" ELSE "no"]
                                /\ Note("slip", over /\ releasing[s] = "late")
    BY <1>5 DEF TypeOK, HangTimeOver
  <2>2. ~ over
    BY <1>5, <2>1 DEF InTurn, None, Note, Noted
  <2> QED BY <1>5, <2>1, <2>2 DEF TypeOK
<1> QED BY <1>1, <1>2, <1>3, <1>4, <1>5

------------------------------------------------------------------------------
\* Frames are written to and read from the connection of one service.
LEMMA WriteFacts ==
    ASSUME TypeOK, NEW s \in Svc, NEW frames \in Seq(Word), modemWrite(s, frames)
    PROVE  /\ out' \in [Svc -> Seq(Word)] /\ \A t \in Svc : Len(out'[t]) <= OutMax
           /\ \A t \in Svc : t # s => out'[t] = out[t]
           /\ Len(out'[s]) = Len(out[s]) + Len(frames)
           /\ \A i \in 1 .. Len(out[s]) : out'[s][i] = out[s][i]
           /\ \A i \in 1 .. Len(frames) : out'[s][Len(out[s]) + i] = frames[i]
<1>1. out \in [Svc -> Seq(Word)] /\ \A t \in Svc : Len(out[t]) <= OutMax
  BY DEF TypeOK, Word
<1>2. out' = [out EXCEPT ![s] = out[s] \o frames] /\ Len(out[s]) + Len(frames) <= OutMax
  BY DEF modemWrite
<1> DEFINE q == out[s]
<1>3. q \in Seq(Word)
  BY <1>1
<1>4. /\ q \o frames \in Seq(Word) /\ Len(q \o frames) = Len(q) + Len(frames)
      /\ \A i \in 1 .. Len(q) : (q \o frames)[i] = q[i]
      /\ \A i \in 1 .. Len(frames) : (q \o frames)[Len(q) + i] = frames[i]
  BY <1>3
<1>5. out'[s] = q \o frames /\ out' \in [Svc -> Seq(Word)] /\ \A t \in Svc : t # s => out'[t] = out[t]
  BY <1>1, <1>2, <1>4
<1> QED BY <1>1, <1>2, <1>4, <1>5

LEMMA ReadFacts ==
    ASSUME TypeOK, NEW s \in Svc, NEW frame, Reads(s, frame)
    PROVE  /\ out' \in [Svc -> Seq(Word)] /\ \A t \in Svc : Len(out'[t]) <= OutMax
           /\ \A t \in Svc : t # s => out'[t] = out[t]
           /\ out[s] # <<>> /\ Len(out[s]) \in Nat \ {0} /\ out[s][1] = frame
           /\ Len(out'[s]) = Len(out[s]) - 1
           /\ \A i \in 1 .. Len(out'[s]) : out'[s][i] = out[s][i + 1] /\ i + 1 \in 1 .. Len(out[s])
<1>1. out \in [Svc -> Seq(Word)] /\ \A t \in Svc : Len(out[t]) <= OutMax
  BY DEF TypeOK, Word
<1>2. out' = [out EXCEPT ![s] = Tail(out[s])] /\ out[s] # <<>> /\ Head(out[s]) = frame
  BY DEF Reads
<1> DEFINE q == out[s]
<1>3. q \in Seq(Word) /\ q # <<>>
  BY <1>1, <1>2
<1>4. /\ Tail(q) \in Seq(Word) /\ Len(Tail(q)) = Len(q) - 1 /\ Len(q) \in Nat \ {0} /\ q[1] = frame
      /\ \A i \in 1 .. Len(Tail(q)) : Tail(q)[i] = q[i + 1] /\ i + 1 \in 1 .. Len(q)
  <2>1. Tail(q) \in Seq(Word) /\ Len(Tail(q)) = Len(q) - 1 /\ Len(q) \in Nat \ {0}
    BY <1>3
  <2>2. Head(q) = q[1]
    BY <1>3
  <2>3. \A i \in 1 .. Len(Tail(q)) : Tail(q)[i] = q[i + 1]
    BY <1>3, HeadTailProperties
  <2> QED BY <1>2, <2>1, <2>2, <2>3
<1>5. out'[s] = Tail(q) /\ out' \in [Svc -> Seq(Word)] /\ \A t \in Svc : t # s => out'[t] = out[t]
  BY <1>1, <1>2, <1>4
<1>6. \A t \in Svc : Len(out'[t]) <= OutMax
  <2>1. Len(Tail(q)) <= OutMax
    BY <1>1, <1>4
  <2> QED BY <1>1, <1>5, <2>1
<1> QED BY <1>3, <1>4, <1>5, <1>6

\* The buffer, emptied or with one frame more.
LEMMA BufferFacts ==
    ASSUME TypeOK, NEW s \in Svc,
           MakeRoom \/ Queue(s) \/ rxModeBuffer' = <<>> \/ rxModeBuffer' = rxModeBuffer
    PROVE  rxModeBuffer' \in Seq(Svc) /\ Len(rxModeBuffer') <= BufMax
<1>1. rxModeBuffer \in Seq(Svc) /\ Len(rxModeBuffer) \in Nat /\ Len(rxModeBuffer) <= BufMax
  BY DEF TypeOK
<1>2. CASE rxModeBuffer' = <<>>
  <2>1. rxModeBuffer' \in Seq(Svc) /\ Len(rxModeBuffer') = 0
    BY <1>2, EmptySeq
  <2> QED BY <2>1
<1>3. CASE rxModeBuffer' = rxModeBuffer
  BY <1>1, <1>3
<1>4. CASE Queue(s)
  BY <1>1, <1>4, AppendProperties DEF Queue
<1> QED BY <1>2, <1>3, <1>4 DEF MakeRoom

LEMMA TypeService ==
    ASSUME TypeOK, NEW s \in Svc, ServiceStep(s)
    PROVE  TypeOK'
<1>0. <<"SET_MODE">> \in Seq(Word) /\ <<"DATA">> \in Seq(Word) /\ <<"EOT">> \in Seq(Word)
      /\ <<"SET_IDLE">> \in Seq(Word) /\ <<"SET_MODE", "DATA">> \in Seq(Word)
  BY DEF Word
<1>1. CASE isActiveMode(s)
  BY <1>1 DEF TypeOK, isActiveMode
<1>2. CASE StartCall(s)
  <2>1. out' \in [Svc -> Seq(Word)] /\ \A t \in Svc : Len(out'[t]) <= OutMax
    BY <1>0, <1>2, WriteFacts DEF StartCall
  <2>2. mishaps' \subseteq Mishap
    BY <1>2 DEF TypeOK, StartCall, Mishap, Noted
  <2>3. /\ modeHeld' = [modeHeld EXCEPT ![s] = TRUE] /\ call' = [call EXCEPT ![s] = "start"]
        /\ calls < MaxCalls /\ calls' = calls + 1
        /\ releasing' = [releasing EXCEPT ![s] = IF @ = "look" THEN "late" ELSE @]
        /\ UNCHANGED <<up, crashes, handler, owner, rxModeBuffer, timer>>
    BY <1>2 DEF StartCall
  <2> QED BY <2>1, <2>2, <2>3 DEF TypeOK, Word
<1>3. CASE StartBurst(s)
  <2>1. out' \in [Svc -> Seq(Word)] /\ \A t \in Svc : Len(out'[t]) <= OutMax
    BY <1>0, <1>3, WriteFacts DEF StartBurst
  <2> QED BY <1>3, <2>1 DEF TypeOK, StartBurst, Word
<1>4. ASSUME NEW frame \in {"DATA", "EOT"}, SendBurst(s, frame) PROVE TypeOK'
  <2>1. out' \in [Svc -> Seq(Word)] /\ \A t \in Svc : Len(out'[t]) <= OutMax
    BY <1>0, <1>4, WriteFacts DEF SendBurst
  <2> QED BY <1>4, <2>1 DEF TypeOK, SendBurst, Word
<1>5. CASE ReleaseWrite(s)
  <2>1. out' \in [Svc -> Seq(Word)] /\ \A t \in Svc : Len(out'[t]) <= OutMax
    BY <1>0, <1>5, WriteFacts DEF ReleaseWrite
  <2> QED BY <1>5, <2>1 DEF TypeOK, ReleaseWrite, Word
<1>6. CASE HangTimeLook(s) \/ ReleaseDone(s) \/ Restart(s)
  BY <1>6 DEF TypeOK, HangTimeLook, ReleaseDone, Restart
<1>7. CASE Crash(s)
  BY <1>7 DEF TypeOK, Crash
<1>8. CASE HangTimeOver(s)
  <2>1. mishaps' \subseteq Mishap
    BY <1>8 DEF TypeOK, HangTimeOver, Mishap, Note, Noted
  <2>2. releasing' \in [Svc -> {"no", "look", "late", "go", "sent"}]
    BY <1>8 DEF TypeOK, HangTimeOver
  <2>3. UNCHANGED <<up, call, modeHeld, calls, crashes, out, handler, owner, rxModeBuffer, timer>>
    BY <1>8 DEF HangTimeOver
  <2> QED BY <2>1, <2>2, <2>3 DEF TypeOK
<1> QED BY <1>1, <1>2, <1>3, <1>4, <1>5, <1>6, <1>7, <1>8 DEF ServiceStep

Place == {"read", "mode", "modeModem", "modeStatus", "idleTx", "idle", "idleClear", "idleModem",
          "idleStatus", "samp", "eot"}

\* The handler of one service moves.
LEMMA AtFacts ==
    ASSUME TypeOK, NEW s \in Svc, NEW from, NEW to \in Place, At(s, from, to)
    PROVE  /\ handler' \in [Svc -> Place]
           /\ handler[s] = from /\ handler'[s] = to
           /\ \A t \in Svc : t # s => handler'[t] = handler[t]
BY DEF TypeOK, At, Place

LEMMA TypeHost ==
    ASSUME TypeOK, NEW s \in Svc, SetMode(s) \/ SetIdle(s) \/ Samples(s) \/ Disconnect(s)
    PROVE  TypeOK'
<1>1. ASSUME Reads(s, "SET_MODE") \/ Reads(s, "SET_IDLE") \/ Reads(s, "DATA") \/ Reads(s, "EOT")
      PROVE  out' \in [Svc -> Seq(Word)] /\ \A t \in Svc : Len(out'[t]) <= OutMax
  BY <1>1, ReadFacts
<1>2. CASE SetModeTest(s) \/ SetIdleTest(s)
  <2>1. out' \in [Svc -> Seq(Word)] /\ \A t \in Svc : Len(out'[t]) <= OutMax
    BY <1>1, <1>2 DEF SetModeTest, SetIdleTest
  <2>2. rxModeBuffer' \in Seq(Svc) /\ Len(rxModeBuffer') <= BufMax
    BY <1>2, BufferFacts DEF SetModeTest, SetIdleTest
  <2>3. handler' \in [Svc -> Place] /\ UNCHANGED <<service, owner, timer, mishaps>>
    BY <1>2, AtFacts DEF SetModeTest, SetIdleTest, Place
  <2> QED BY <2>1, <2>2, <2>3 DEF TypeOK, Word, Place
<1>3. CASE SetModeTake(s)
  <2>1. mishaps' \subseteq Mishap
    BY <1>3 DEF TypeOK, SetModeTake, Note, Noted, Mishap
  <2>2. /\ currentMode' = s /\ At(s, "mode", "modeModem")
        /\ UNCHANGED <<service, out, txOn, activeMode, modemMode, rxModeBuffer, timer>>
    BY <1>3 DEF SetModeTake
  <2> QED BY <2>1, <2>2 DEF TypeOK, At
<1>4. CASE SetModeModem(s)
  BY <1>4 DEF TypeOK, SetModeModem, At
<1>5. CASE SetModeStatus(s)
  BY <1>5 DEF TypeOK, SetModeStatus, At
<1>6. CASE SetIdleTx(s)
  BY <1>6 DEF TypeOK, SetIdleTx, At
<1>7. CASE SetIdleGive(s)
  BY <1>7 DEF TypeOK, SetIdleGive, At
<1>8. CASE SetIdleClear(s)
  <2>1. rxModeBuffer' \in Seq(Svc) /\ Len(rxModeBuffer') <= BufMax
    BY <1>8, BufferFacts DEF SetIdleClear
  <2>2. At(s, "idleClear", "idleModem") /\ UNCHANGED <<service, out, owner, timer, mishaps>>
    BY <1>8 DEF SetIdleClear
  <2> QED BY <2>1, <2>2 DEF TypeOK, At
<1>9. CASE SetIdleModem(s)
  BY <1>9 DEF TypeOK, SetIdleModem, At
<1>10. CASE SetIdleStatus(s)
  BY <1>10 DEF TypeOK, SetIdleStatus, At
<1>11. CASE SampOn(s)
  BY <1>1, <1>11 DEF TypeOK, SampOn, At, Word
<1>12. CASE SampQueue(s) \/ EotQueue(s)
  <2>1. out' \in [Svc -> Seq(Word)] /\ \A t \in Svc : Len(out'[t]) <= OutMax
    BY <1>1, <1>12 DEF SampQueue, EotQueue, TypeOK, Word
  <2>2. rxModeBuffer' \in Seq(Svc) /\ Len(rxModeBuffer') <= BufMax
    BY <1>12, BufferFacts DEF SampQueue, EotQueue
  <2>3. handler' \in [Svc -> Place] /\ UNCHANGED <<service, owner, timer, mishaps>>
    BY <1>12, AtFacts DEF SampQueue, EotQueue, Place
  <2> QED BY <2>1, <2>2, <2>3 DEF TypeOK, Word, Place
<1>13. CASE EotOff(s)
  BY <1>13 DEF TypeOK, EotOff, At
<1>14. CASE Disconnect(s)
  <2>1. mishaps' \subseteq Mishap
    BY <1>14 DEF TypeOK, Disconnect, Note, Noted, Mishap
  <2> QED BY <1>14, <2>1 DEF TypeOK, Disconnect, At
<1> QED
  BY <1>2, <1>3, <1>4, <1>5, <1>6, <1>7, <1>8, <1>9, <1>10, <1>11, <1>12, <1>13, <1>14
  DEF SetMode, SetIdle, Samples

LEMMA TypeTimer ==
    ASSUME TypeOK, timerThread \/ modeTxThread \/ UNCHANGED vars
    PROVE  TypeOK'
<1>1. CASE TimeoutFires
  <2>1. mishaps' \subseteq Mishap
    BY <1>1 DEF TypeOK, TimeoutFires, Noted, Mishap
  <2>2. timer' = "tx" /\ UNCHANGED <<service, out, handler, owner, rxModeBuffer>>
    BY <1>1 DEF TimeoutFires, Tick
  <2> QED BY <2>1, <2>2 DEF TypeOK
<1>2. CASE TimeoutTx \/ TimeoutIdle \/ TimeoutStatus \/ TimeoutModem
  BY <1>2 DEF TypeOK, TimeoutTx, TimeoutIdle, TimeoutStatus, TimeoutModem, Tick
<1>3. CASE TimeoutClear
  <2>1. rxModeBuffer' \in Seq(Svc) /\ Len(rxModeBuffer') <= BufMax
    BY <1>3, EmptySeq DEF TimeoutClear
  <2>2. timer' = "modem" /\ UNCHANGED <<service, out, handler, owner, mishaps>>
    BY <1>3 DEF TimeoutClear, Tick
  <2> QED BY <2>1, <2>2 DEF TypeOK
<1>4. CASE modeTxThread
  <2>1. rxModeBuffer' \in Seq(Svc) /\ Len(rxModeBuffer') <= BufMax
    BY <1>4, HeadTailProperties DEF modeTxThread, TypeOK
  <2>2. UNCHANGED <<service, out, handler, owner, timer, mishaps>>
    BY <1>4 DEF modeTxThread
  <2> QED BY <2>1, <2>2 DEF TypeOK
<1>5. CASE UNCHANGED vars
  BY <1>5 DEF TypeOK, vars
<1> QED BY <1>1, <1>2, <1>3, <1>4, <1>5 DEF timerThread

LEMMA TypeStep == TypeOK /\ [Next]_vars => TypeOK'
BY TypeService, TypeHost, TypeTimer, StepCases

------------------------------------------------------------------------------
\* The steps of the host for a service; they leave the services alone.
HostStep(s) == SetMode(s) \/ SetIdle(s) \/ Samples(s)

LEMMA ServiceFrame ==
    ASSUME TypeOK, NEW s \in Svc, ServiceStep(s)
    PROVE  /\ UNCHANGED <<handler, owner, rxModeBuffer, timer>>
           /\ \A t \in Svc : t # s => /\ call'[t] = call[t] /\ modeHeld'[t] = modeHeld[t]
                                      /\ releasing'[t] = releasing[t] /\ out'[t] = out[t]
<1>1. UNCHANGED <<handler, owner, rxModeBuffer, timer>>
  BY DEF ServiceStep, isActiveMode, StartCall, StartBurst, SendBurst, HangTimeLook, HangTimeOver,
         ReleaseWrite, ReleaseDone, Crash, Restart
<1> SUFFICES ASSUME NEW t \in Svc, t # s
             PROVE  /\ call'[t] = call[t] /\ modeHeld'[t] = modeHeld[t]
                    /\ releasing'[t] = releasing[t] /\ out'[t] = out[t]
  BY <1>1
<1>2. CASE isActiveMode(s)
  BY <1>2 DEF TypeOK, isActiveMode
<1>3. CASE StartCall(s)
  BY <1>3 DEF TypeOK, StartCall, modemWrite
<1>4. CASE StartBurst(s)
  BY <1>4 DEF TypeOK, StartBurst, modemWrite
<1>5. ASSUME NEW frame, SendBurst(s, frame)
      PROVE  /\ call'[t] = call[t] /\ modeHeld'[t] = modeHeld[t]
             /\ releasing'[t] = releasing[t] /\ out'[t] = out[t]
  BY <1>5 DEF TypeOK, SendBurst, modemWrite
<1>6. CASE HangTimeLook(s) \/ HangTimeOver(s) \/ ReleaseDone(s) \/ Crash(s) \/ Restart(s)
  BY <1>6 DEF TypeOK, HangTimeLook, HangTimeOver, ReleaseDone, Crash, Restart
<1>7. CASE ReleaseWrite(s)
  BY <1>7 DEF TypeOK, ReleaseWrite, modemWrite
<1> QED BY <1>2, <1>3, <1>4, <1>5, <1>6, <1>7 DEF ServiceStep

LEMMA HostFrame ==
    ASSUME TypeOK, NEW s \in Svc, HostStep(s)
    PROVE  /\ UNCHANGED <<call, modeHeld, releasing, timer>>
           /\ out[s] # <<>> \/ handler[s] # "read"
           /\ \A t \in Svc : t # s => out'[t] = out[t] /\ handler'[t] = handler[t]
<1>1. UNCHANGED <<call, modeHeld, releasing, timer>>
  BY DEF HostStep, SetMode, SetModeTest, SetModeTake, SetModeModem, SetModeStatus, SetIdle, SetIdleTest,
         SetIdleTx, SetIdleGive, SetIdleClear, SetIdleModem, SetIdleStatus, Samples, SampOn,
         SampQueue, EotQueue, EotOff
<1>2. PICK from, to : At(s, from, to) /\ ((out' = out /\ from # "read") \/ \E frame : Reads(s, frame))
  BY DEF HostStep, SetMode, SetModeTest, SetModeTake, SetModeModem, SetModeStatus, SetIdle, SetIdleTest,
         SetIdleTx, SetIdleGive, SetIdleClear, SetIdleModem, SetIdleStatus, Samples, SampOn,
         SampQueue, EotQueue, EotOff
<1>3. out[s] # <<>> \/ handler[s] # "read"
  BY <1>2 DEF At, Reads
<1>4. \A t \in Svc : t # s => handler'[t] = handler[t]
  BY <1>2 DEF TypeOK, At
<1>5. \A t \in Svc : t # s => out'[t] = out[t]
  BY <1>2 DEF TypeOK, Reads
<1> QED BY <1>1, <1>3, <1>4, <1>5

LEMMA TimerFrame ==
    ASSUME timerThread \/ modeTxThread
    PROVE  UNCHANGED <<call, modeHeld, releasing, out, handler>>
BY DEF timerThread, modeTxThread, TimeoutFires, TimeoutTx, TimeoutIdle, TimeoutStatus, TimeoutClear,
       TimeoutModem

LEMMA DisconnectFrame ==
    ASSUME TypeOK, NEW s \in Svc, Disconnect(s)
    PROVE  UNCHANGED <<call, modeHeld, releasing, out, handler, owner, rxModeBuffer, timer>>
BY DEF TypeOK, Disconnect, At

LEMMA CallHoldsStep == Inv /\ [Next]_vars => CallHolds'
<1> SUFFICES ASSUME Inv, [Next]_vars, InTurn', NEW s \in Svc, call'[s] \in {"start", "talk"}
             PROVE  modeHeld'[s] /\ releasing'[s] \in {"no", "late"}
  BY DEF CallHolds
<1>1. /\ TypeOK
      /\ call[s] \in {"start", "talk"} => modeHeld[s] /\ releasing[s] \in {"no", "late"}
  BY TurnStays DEF Inv, CallHolds
<1>2. CASE UNCHANGED <<call, modeHeld, releasing>>
  BY <1>1, <1>2
<1>3. ASSUME NEW t \in Svc, ServiceStep(t), t # s PROVE modeHeld'[s] /\ releasing'[s] \in {"no", "late"}
  BY <1>1, <1>3, ServiceFrame
<1>4. CASE ServiceStep(s)
  <2>1. CASE isActiveMode(s)
    BY <1>1, <2>1 DEF TypeOK, isActiveMode
  <2>2. CASE StartCall(s)
    <3>1. releasing[s] \in {"no", "look", "late"}
      BY <1>1, <2>2, MishapFacts DEF TypeOK
    <3> QED BY <1>1, <2>2, <3>1 DEF TypeOK, StartCall
  <2>3. CASE StartBurst(s)
    BY <1>1, <2>3 DEF TypeOK, StartBurst
  <2>4. ASSUME NEW frame, SendBurst(s, frame) PROVE modeHeld'[s] /\ releasing'[s] \in {"no", "late"}
    BY <1>1, <2>4 DEF TypeOK, SendBurst
  <2>5. CASE HangTimeLook(s) \/ HangTimeOver(s)
    <3>1. HangTimeOver(s) /\ releasing[s] = "late" => releasing'[s] = "no"
      BY <1>1, MishapFacts DEF TypeOK, HangTimeOver
    <3> QED BY <1>1, <2>5, <3>1 DEF TypeOK, HangTimeLook, HangTimeOver
  <2>6. CASE ReleaseWrite(s)
    BY <1>1, <2>6 DEF TypeOK, ReleaseWrite
  <2>7. CASE ReleaseDone(s)
    BY <1>1, <2>7 DEF TypeOK, ReleaseDone
  <2>8. CASE Crash(s)
    BY <1>1, <2>8 DEF TypeOK, Crash
  <2>9. CASE Restart(s)
    BY <1>1, <2>9 DEF Restart
  <2> QED BY <1>4, <2>1, <2>2, <2>3, <2>4, <2>5, <2>6, <2>7, <2>8, <2>9 DEF ServiceStep
<1>5. CASE UNCHANGED vars
  BY <1>2, <1>5 DEF vars
<1> QED BY <1>1, <1>2, <1>3, <1>4, <1>5, StepCases, HostFrame, TimerFrame, DisconnectFrame DEF HostStep

\* Only the start of a call makes a service use the radio.
LEMMA QuietStays ==
    ASSUME Inv, [Next]_vars, InTurn', NEW t \in Svc, Quiet(t)
    PROVE  Quiet(t)' \/ StartCall(t)
<1>1. TypeOK /\ call[t] \notin {"start", "talk"}
  BY TurnStays DEF Inv, CallHolds, Quiet
<1>2. CASE UNCHANGED <<modeHeld, releasing, out, handler>>
  BY <1>2 DEF Quiet
<1>3. ASSUME NEW s \in Svc, ServiceStep(s) PROVE Quiet(t)' \/ StartCall(t)
  <2>1. CASE s # t
    BY <1>1, <1>3, <2>1, ServiceFrame DEF Quiet
  <2>2. CASE s = t
    <3>1. CASE isActiveMode(t) \/ Restart(t)
      BY <1>2, <3>1 DEF isActiveMode, Restart
    <3>2. CASE Crash(t)
      BY <1>1, <3>2 DEF TypeOK, Crash, Quiet
    <3>3. ~ StartBurst(t) /\ ~ SendBurst(t, "DATA") /\ ~ SendBurst(t, "EOT")
      BY <1>1 DEF StartBurst, SendBurst
    <3>4. ~ ReleaseWrite(t) /\ ~ ReleaseDone(t)
      BY DEF Quiet, ReleaseWrite, ReleaseDone
    <3>5. CASE HangTimeLook(t)
      BY <1>1, <3>5 DEF TypeOK, HangTimeLook, Quiet
    <3>6. CASE HangTimeOver(t)
      BY <1>1, <3>6 DEF TypeOK, HangTimeOver, Quiet
    <3> QED BY <1>3, <2>2, <3>1, <3>2, <3>3, <3>4, <3>5, <3>6 DEF ServiceStep
  <2> QED BY <2>1, <2>2
<1>4. ASSUME NEW s \in Svc, HostStep(s) PROVE Quiet(t)'
  <2>1. s # t
    BY <1>1, <1>4, HostFrame DEF Quiet
  <2> QED BY <1>1, <1>4, <2>1, HostFrame DEF Quiet
<1>5. CASE UNCHANGED vars
  BY <1>2, <1>5 DEF vars
<1> QED BY <1>1, <1>2, <1>3, <1>4, <1>5, StepCases, TimerFrame, DisconnectFrame DEF HostStep

LEMMA OneAtATimeStep == Inv /\ [Next]_vars => OneAtATime'
<1> SUFFICES ASSUME Inv, [Next]_vars, InTurn', NEW s \in Svc, NEW t \in Svc, s # t
             PROVE  Quiet(s)' \/ Quiet(t)'
  BY DEF OneAtATime
<1>1. Quiet(s) \/ Quiet(t)
  BY TurnStays DEF Inv, OneAtATime
<1>2. StartCall(s) => Quiet(t)'
  <2>1. StartCall(s) => Quiet(t) /\ ~ StartCall(t)
    <3>1. StartCall(s) => Quiet(t)
      BY MishapFacts DEF RadioIsFreeFor
    <3>2. StartCall(s) => ~ StartCall(t)
      <4>1. StartCall(s) => call'[s] = "start" /\ call[s] = "may"
        BY DEF StartCall, Inv, TypeOK
      <4>2. StartCall(t) => call'[s] = call[s]
        BY DEF StartCall, Inv, TypeOK
      <4> QED BY <4>1, <4>2
    <3> QED BY <3>1, <3>2
  <2> QED BY <2>1, QuietStays
<1>3. StartCall(t) => Quiet(s)'
  <2>1. StartCall(t) => Quiet(s) /\ ~ StartCall(s)
    <3>1. StartCall(t) => Quiet(s)
      BY MishapFacts DEF RadioIsFreeFor
    <3>2. StartCall(t) => ~ StartCall(s)
      <4>1. StartCall(t) => call'[t] = "start" /\ call[t] = "may"
        BY DEF StartCall, Inv, TypeOK
      <4>2. StartCall(s) => call'[t] = call[t]
        BY DEF StartCall, Inv, TypeOK
      <4> QED BY <4>1, <4>2
    <3> QED BY <3>1, <3>2
  <2> QED BY <2>1, QuietStays
<1> QED BY <1>1, <1>2, <1>3, QuietStays

\* While the host works for one service, the other services are quiet.
LEMMA OthersQuiet ==
    ASSUME Inv, InTurn, NEW s \in Svc, HostStep(s)
    PROVE  /\ ~ Quiet(s)
           /\ \A t \in Svc : t # s => Quiet(t) /\ handler[t] = "read" /\ handler'[t] = "read"
<1>1. ~ Quiet(s)
  BY HostFrame DEF Inv, Quiet
<1> QED BY <1>1, HostFrame DEF Inv, OneAtATime, Quiet

LEMMA AgreementHost ==
    ASSUME Inv, InTurn, InTurn', NEW s \in Svc, HostStep(s)
    PROVE  Agreement'
<1> USE DEF Inv
<1>1. TypeOK /\ Agreement /\ timer' = timer
  BY HostFrame
<1>2. \A t \in Svc : t # s => handler[t] = "read" /\ handler'[t] = "read"
  BY OthersQuiet
<1>3. CASE SetModeTest(s)
  <2>1. /\ UNCHANGED owner /\ handler[s] = "read" /\ handler'[s] = IF currentMode = Idle THEN "mode" ELSE "read"
    BY <1>3, AtFacts DEF SetModeTest, Place
  <2> QED BY <1>1, <1>2, <2>1 DEF Agreement, Changing, Equal
<1>4. CASE SetModeTake(s)
  <2>1. /\ currentMode' = s /\ UNCHANGED <<activeMode, modemMode>>
        /\ handler[s] = "mode" /\ handler'[s] = "modeModem" /\ timer = "rest"
    BY <1>4, AtFacts, MishapFacts DEF SetModeTake, Place
  <2> QED BY <1>1, <1>2, <2>1 DEF Agreement, Changing, Equal
<1>5. CASE SetModeModem(s)
  <2>1. /\ modemMode' = s /\ UNCHANGED <<activeMode, currentMode>>
        /\ handler[s] = "modeModem" /\ handler'[s] = "modeStatus"
    BY <1>5, AtFacts DEF SetModeModem, Place
  <2> QED BY <1>1, <1>2, <2>1 DEF Agreement, Changing, Equal
<1>6. CASE SetModeStatus(s)
  <2>1. /\ activeMode' = s /\ UNCHANGED <<modemMode, currentMode>>
        /\ handler[s] = "modeStatus" /\ handler'[s] = "read"
    BY <1>6, AtFacts DEF SetModeStatus, Place
  <2> QED BY <1>1, <1>2, <2>1 DEF Agreement, Changing, Equal
<1>7. CASE SetIdleTest(s)
  <2>1. /\ UNCHANGED owner /\ handler[s] = "read" /\ handler'[s] \in {"idleTx", "read"}
    BY <1>7, AtFacts DEF SetIdleTest, Place
  <2> QED BY <1>1, <1>2, <2>1 DEF Agreement, Changing, Equal
<1>8. CASE SetIdleTx(s)
  <2>1. /\ UNCHANGED <<currentMode, activeMode, modemMode>> /\ handler[s] = "idleTx" /\ handler'[s] = "idle"
    BY <1>8, AtFacts DEF SetIdleTx, Place
  <2> QED BY <1>1, <1>2, <2>1 DEF Agreement, Changing, Equal
<1>9. CASE SetIdleGive(s)
  <2>1. /\ currentMode' = Idle /\ UNCHANGED <<activeMode, modemMode>>
        /\ handler[s] = "idle" /\ handler'[s] = "idleClear"
    BY <1>9, AtFacts DEF SetIdleGive, Place
  <2> QED BY <1>1, <1>2, <2>1 DEF Agreement, Changing, Equal
<1>10. CASE SetIdleClear(s)
  <2>1. /\ UNCHANGED owner /\ handler[s] = "idleClear" /\ handler'[s] = "idleModem"
    BY <1>10, AtFacts DEF SetIdleClear, Place
  <2> QED BY <1>1, <1>2, <2>1 DEF Agreement, Changing, Equal
<1>11. CASE SetIdleModem(s)
  <2>1. /\ modemMode' = Idle /\ UNCHANGED <<activeMode, currentMode>>
        /\ handler[s] = "idleModem" /\ handler'[s] = "idleStatus"
    BY <1>11, AtFacts DEF SetIdleModem, Place
  <2> QED BY <1>1, <1>2, <2>1 DEF Agreement, Changing, Equal
<1>12. CASE SetIdleStatus(s)
  <2>1. /\ activeMode' = Idle /\ UNCHANGED <<modemMode, currentMode>>
        /\ handler[s] = "idleStatus" /\ handler'[s] = "read"
    BY <1>12, AtFacts DEF SetIdleStatus, Place
  <2> QED BY <1>1, <1>2, <2>1 DEF Agreement, Changing, Equal
<1>13. CASE Samples(s)
  <2>1. /\ UNCHANGED <<currentMode, activeMode, modemMode>>
        /\ handler[s] \in {"read", "samp", "eot"} /\ handler'[s] \in {"read", "samp", "eot"}
    BY <1>13, AtFacts DEF Samples, SampOn, SampQueue, EotQueue, EotOff, Place
  <2> QED BY <1>1, <1>2, <2>1 DEF Agreement, Changing, Equal
<1> QED
  BY <1>3, <1>4, <1>5, <1>6, <1>7, <1>8, <1>9, <1>10, <1>11, <1>12, <1>13 DEF HostStep, SetMode, SetIdle

LEMMA AgreementTimer ==
    ASSUME Inv, InTurn, InTurn', timerThread
    PROVE  Agreement'
<1>1. Agreement /\ handler' = handler
  BY TimerFrame DEF Inv
<1>2. CASE TimeoutFires
  <2>1. timer = "rest" /\ timer' = "tx" /\ UNCHANGED owner /\ \A s \in Svc : ~ Taking(s)
    BY <1>2, MishapFacts DEF TimeoutFires, Tick
  <2> QED BY <1>1, <2>1 DEF Agreement, Changing, Equal, Taking
<1>3. CASE TimeoutTx
  BY <1>1, <1>3 DEF Agreement, Changing, Equal, TimeoutTx, Tick
<1>4. CASE TimeoutIdle
  BY <1>1, <1>4 DEF Agreement, Changing, Equal, TimeoutIdle, Tick
<1>5. CASE TimeoutStatus
  BY <1>1, <1>5 DEF Agreement, Changing, Equal, TimeoutStatus, Tick
<1>6. CASE TimeoutClear
  BY <1>1, <1>6 DEF Agreement, Changing, Equal, TimeoutClear, Tick
<1>7. CASE TimeoutModem
  BY <1>1, <1>7 DEF Agreement, Changing, Equal, TimeoutModem, Tick
<1> QED BY <1>2, <1>3, <1>4, <1>5, <1>6, <1>7 DEF timerThread

LEMMA AgreementStep == Inv /\ [Next]_vars => Agreement'
<1> SUFFICES ASSUME Inv, [Next]_vars, InTurn' PROVE Agreement'
  BY DEF Agreement
<1>1. InTurn /\ TypeOK /\ Agreement
  BY TurnStays DEF Inv
<1>2. CASE UNCHANGED <<handler, owner, timer>>
  BY <1>1, <1>2 DEF Agreement, Changing, Equal
<1>3. ASSUME NEW s \in Svc, ServiceStep(s) \/ Disconnect(s) PROVE Agreement'
  BY <1>1, <1>2, <1>3, ServiceFrame, DisconnectFrame
<1>4. CASE modeTxThread \/ UNCHANGED vars
  BY <1>2, <1>4 DEF modeTxThread, vars
<1> QED BY <1>1, <1>3, <1>4, AgreementHost, AgreementTimer, StepCases DEF HostStep

\* Who may have the radio when a call begins.
LEMMA FreeRadio ==
    ASSUME Inv, InTurn, NEW s \in Svc, RadioIsFreeFor(s)
    PROVE  currentMode \in {s, Idle}
<1>1. timer = "rest" /\ activeMode \in {s, Idle} /\ \A t \in Svc : t # s => handler[t] = "read"
  BY DEF RadioIsFreeFor, IsAllowed, Quiet
<1>2. CASE handler[s] \in Changing
  BY <1>2 DEF Inv, Agreement, Changing
<1>3. CASE handler[s] \notin Changing
  <2>1. \A t \in Svc : handler[t] \notin Changing
    BY <1>1, <1>3 DEF Changing
  <2> QED BY <1>1, <2>1 DEF Inv, Agreement, Equal
<1> QED BY <1>2, <1>3

LEMMA NobodyElseStep == Inv /\ [Next]_vars => NobodyElse'
<1> SUFFICES ASSUME Inv, [Next]_vars, InTurn', NEW s \in Svc, ~ Quiet(s)'
             PROVE  currentMode' \in {s, Idle}
  BY DEF NobodyElse
<1>1. InTurn /\ TypeOK
  BY TurnStays DEF Inv
<1>2. currentMode \in {s, Idle}
  <2>1. CASE StartCall(s)
    BY <1>1, <2>1, MishapFacts, FreeRadio
  <2>2. CASE ~ Quiet(s)
    BY <1>1, <2>2 DEF Inv, NobodyElse
  <2> QED BY <2>1, <2>2, QuietStays
<1>3. currentMode' = currentMode \/ currentMode' = Idle \/ \E t \in Svc : SetModeTake(t) /\ currentMode' = t
  <2>1. ASSUME NEW t \in Svc, ServiceStep(t) \/ Disconnect(t) PROVE currentMode' = currentMode
    BY <1>1, <2>1, ServiceFrame, DisconnectFrame
  <2>2. ASSUME NEW t \in Svc, HostStep(t)
        PROVE  currentMode' = currentMode \/ currentMode' = Idle \/ (SetModeTake(t) /\ currentMode' = t)
    BY <2>2 DEF HostStep, SetMode, SetModeTest, SetModeTake, SetModeModem, SetModeStatus, SetIdle,
                SetIdleTest, SetIdleTx, SetIdleGive, SetIdleClear, SetIdleModem, SetIdleStatus, Samples,
                SampOn, SampQueue, EotQueue, EotOff
  <2>3. CASE timerThread \/ modeTxThread \/ UNCHANGED vars
    BY <2>3 DEF timerThread, modeTxThread, TimeoutFires, TimeoutTx, TimeoutIdle, TimeoutStatus,
                TimeoutClear, TimeoutModem, vars
  <2> QED BY <2>1, <2>2, <2>3, StepCases DEF HostStep
<1>4. ASSUME NEW t \in Svc, SetModeTake(t) PROVE t = s
  <2>1. HostStep(t)
    BY <1>4 DEF HostStep, SetMode
  <2>2. \A q \in Svc : q # t => Quiet(q) /\ ~ StartCall(q)
    BY <1>1, <1>4, <2>1, OthersQuiet, HostFrame DEF StartCall, SetModeTake, TypeOK
  <2> QED BY <2>2, QuietStays
<1> QED BY <1>2, <1>3, <1>4

------------------------------------------------------------------------------
\* Frames written behind do not change what those before them lead to.
LEMMA WillHaveKeeps ==
    ASSUME NEW s \in Svc, NEW n \in Nat, NEW i \in 0 .. n, Has(s) => Has(s)',
           \A k \in 1 .. n : out'[s][k] = out[s][k],
           WillHave(s, i)
    PROVE  WillHave(s, i)'
<1>1. \A k \in 1 .. i : out'[s][k] = out[s][k]
  OBVIOUS
<1>2. CASE Has(s) /\ \A k \in 1 .. i : out[s][k] # "SET_IDLE"
  BY <1>1, <1>2 DEF WillHave
<1>3. CASE \E j \in 1 .. i : out[s][j] = "SET_MODE" /\ \A k \in j + 1 .. i : out[s][k] # "SET_IDLE"
  <2>1. PICK j \in 1 .. i : out[s][j] = "SET_MODE" /\ \A k \in j + 1 .. i : out[s][k] # "SET_IDLE"
    BY <1>3
  <2>2. out'[s][j] = "SET_MODE" /\ \A k \in j + 1 .. i : out'[s][k] # "SET_IDLE"
    BY <1>1, <2>1
  <2> QED BY <2>2 DEF WillHave
<1> QED BY <1>2, <1>3 DEF WillHave

\* The same when the first frame has been read.
LEMMA WillHaveShifts ==
    ASSUME NEW s \in Svc, NEW n \in Nat, NEW i \in 1 .. n, out[s][1] # "SET_IDLE" => Has(s)',
           \A k \in 1 .. n - 1 : out'[s][k] = out[s][k + 1],
           WillHave(s, i)
    PROVE  WillHave(s, i - 1)'
<1>1. \A k \in 1 .. i - 1 : out'[s][k] = out[s][k + 1] /\ k + 1 \in 2 .. i
  OBVIOUS
<1>2. CASE \A k \in 1 .. i : out[s][k] # "SET_IDLE"
  <2>1. \A k \in 1 .. i - 1 : out'[s][k] # "SET_IDLE"
    BY <1>1, <1>2
  <2>2. 1 \in 1 .. i
    OBVIOUS
  <2> QED BY <1>2, <2>1, <2>2 DEF WillHave
<1>3. CASE ~ \A k \in 1 .. i : out[s][k] # "SET_IDLE"
  <2>1. PICK j \in 1 .. i : out[s][j] = "SET_MODE" /\ \A k \in j + 1 .. i : out[s][k] # "SET_IDLE"
    BY <1>3 DEF WillHave
  <2>2. CASE j = 1
    <3>1. out[s][1] # "SET_IDLE" /\ \A k \in 1 .. i - 1 : out'[s][k] # "SET_IDLE"
      BY <1>1, <2>1, <2>2
    <3> QED BY <3>1 DEF WillHave
  <2>3. CASE j # 1
    <3>1. j - 1 \in 1 .. i - 1 /\ (j - 1) + 1 = j
      BY <2>3
    <3>2. out'[s][j - 1] = "SET_MODE"
      BY <1>1, <2>1, <3>1
    <3>3. \A k \in (j - 1) + 1 .. i - 1 : out'[s][k] # "SET_IDLE"
      <4> TAKE k \in (j - 1) + 1 .. i - 1
      <4>1. k \in 1 .. i - 1 /\ k + 1 \in j + 1 .. i
        BY <3>1
      <4> QED BY <1>1, <2>1, <4>1
    <3> QED BY <3>1, <3>2, <3>3 DEF WillHave
  <2> QED BY <2>2, <2>3
<1> QED BY <1>2, <1>3

\* What the invariant says of one service.
Covered(s) ==
    /\ handler[s] = "samp" => currentMode = s
    /\ \A i \in 1 .. Len(out[s]) : out[s][i] \in {"DATA", "EOT"} => WillHave(s, i - 1)
    /\ call[s] \in {"start", "talk"} => WillHave(s, Len(out[s]))

\* A service that is not in a call, or goes on with one, adds no frame that changes anything.
LEMMA CoveredSame ==
    ASSUME TypeOK, NEW s \in Svc, Covered(s), out'[s] = out[s], Has(s) => Has(s)',
           handler'[s] = "samp" => currentMode' = s,
           call'[s] \in {"start", "talk"} => call[s] \in {"start", "talk"}
    PROVE  Covered(s)'
<1> DEFINE n == Len(out[s])
<1>1. n \in Nat
  BY DEF TypeOK
<1>2. \A i \in 0 .. n : WillHave(s, i) => WillHave(s, i)'
  BY <1>1, WillHaveKeeps
<1>3. \A i \in 1 .. n : out'[s][i] \in {"DATA", "EOT"} => WillHave(s, i - 1)'
  <2> TAKE i \in 1 .. n
  <2>1. i - 1 \in 0 .. n
    BY <1>1
  <2> QED BY <1>2, <2>1 DEF Covered
<1>4. call'[s] \in {"start", "talk"} => WillHave(s, n)'
  BY <1>1, <1>2 DEF Covered
<1> QED BY <1>3, <1>4 DEF Covered

\* A frame is added: one that asks for the radio, or a sample that follows the request.
LEMMA CoveredMore ==
    ASSUME TypeOK, NEW s \in Svc, Covered(s), NEW frame \in Word, modemWrite(s, <<frame>>),
           UNCHANGED <<handler, currentMode>>,
           frame \in {"DATA", "EOT"} => call[s] \in {"start", "talk"},
           call'[s] \in {"start", "talk"} =>
               frame = "SET_MODE" \/ (frame # "SET_IDLE" /\ call[s] \in {"start", "talk"})
    PROVE  Covered(s)'
<1> PICK n \in Nat : n = Len(out[s])
  BY DEF TypeOK
<1>0. <<frame>> \in Seq(Word) /\ Len(<<frame>>) = 1 /\ <<frame>>[1] = frame
  OBVIOUS
<1>1. n \in Nat
  OBVIOUS
<1>2. /\ Len(out'[s]) = n + 1
      /\ \A k \in 1 .. n : out'[s][k] = out[s][k]
      /\ out'[s][n + 1] = frame
  <2>1. 1 \in 1 .. Len(<<frame>>)
    BY <1>0
  <2> QED BY <1>0, <2>1, WriteFacts
<1>3. Has(s)' = Has(s)
  BY DEF Has, Taking
<1>4. \A i \in 0 .. n : WillHave(s, i) => WillHave(s, i)'
  BY <1>1, <1>2, <1>3, WillHaveKeeps
<1>5. call[s] \in {"start", "talk"} => WillHave(s, n)'
  BY <1>1, <1>4 DEF Covered
<1>6. \A i \in 1 .. n + 1 : out'[s][i] \in {"DATA", "EOT"} => WillHave(s, i - 1)'
  <2> TAKE i \in 1 .. n + 1
  <2>1. CASE i = n + 1
    <3>1. i - 1 = n
      BY <1>1, <2>1
    <3> QED BY <1>2, <1>5, <2>1, <3>1
  <2>2. CASE i \in 1 .. n
    <3>1. i - 1 \in 0 .. n
      BY <1>1, <2>2
    <3> QED BY <1>2, <1>4, <2>2, <3>1 DEF Covered
  <2> QED BY <1>1, <2>1, <2>2
<1>7. call'[s] \in {"start", "talk"} => WillHave(s, n + 1)'
  <2>1. CASE frame = "SET_MODE"
    <3>1. n + 1 \in 1 .. n + 1 /\ out'[s][n + 1] = "SET_MODE" /\ \A k \in n + 1 + 1 .. n + 1 : FALSE
      BY <1>1, <1>2, <2>1
    <3> QED BY <3>1 DEF WillHave
  <2>2. CASE frame # "SET_IDLE" /\ WillHave(s, n)'
    <3>1. out'[s][n + 1] # "SET_IDLE" /\ n + 1 \in Int
      BY <1>1, <1>2, <2>2
    <3>2. CASE Has(s)' /\ \A k \in 1 .. n : out'[s][k] # "SET_IDLE"
      <4>1. \A k \in 1 .. n + 1 : out'[s][k] # "SET_IDLE"
        BY <1>1, <3>1, <3>2
      <4> QED BY <3>2, <4>1 DEF WillHave
    <3>3. CASE \E j \in 1 .. n : out'[s][j] = "SET_MODE" /\ \A k \in j + 1 .. n : out'[s][k] # "SET_IDLE"
      <4>1. PICK j \in 1 .. n : out'[s][j] = "SET_MODE" /\ \A k \in j + 1 .. n : out'[s][k] # "SET_IDLE"
        BY <3>3
      <4>2. j \in 1 .. n + 1 /\ \A k \in j + 1 .. n + 1 : out'[s][k] # "SET_IDLE"
        BY <1>1, <3>1, <4>1
      <4> QED BY <4>1, <4>2 DEF WillHave
    <3> QED BY <2>2, <3>2, <3>3 DEF WillHave
  <2> QED BY <1>5, <2>1, <2>2
<1>8. (handler[s] = "samp" => currentMode = s)'
  BY DEF Covered
<1> QED BY <1>2, <1>6, <1>7, <1>8 DEF Covered

\* The first frame is read.
LEMMA CoveredLess ==
    ASSUME TypeOK, NEW s \in Svc, Covered(s), NEW frame, Reads(s, frame),
           frame # "SET_IDLE" => Has(s)', handler'[s] = "samp" => currentMode' = s, call' = call
    PROVE  Covered(s)'
<1> PICK n \in Nat : n = Len(out[s])
  BY DEF TypeOK
<1>1. /\ n \in Nat \ {0} /\ out[s][1] = frame /\ Len(out'[s]) = n - 1
      /\ \A k \in 1 .. n - 1 : out'[s][k] = out[s][k + 1]
  BY ReadFacts
<1>2. \A i \in 1 .. n : WillHave(s, i) => WillHave(s, i - 1)'
  BY <1>1, WillHaveShifts
<1>3. \A i \in 1 .. n - 1 : out'[s][i] \in {"DATA", "EOT"} => WillHave(s, i - 1)'
  <2> TAKE i \in 1 .. n - 1
  <2>1. i + 1 \in 1 .. n /\ i \in 1 .. n /\ (i + 1) - 1 = i
    BY <1>1
  <2>2. out[s][i + 1] \in {"DATA", "EOT"} => WillHave(s, (i + 1) - 1)
    BY <2>1 DEF Covered
  <2> QED BY <1>1, <1>2, <2>1, <2>2
<1>4. call[s] \in {"start", "talk"} => WillHave(s, n - 1)'
  <2>1. n \in 1 .. n
    BY <1>1
  <2> QED BY <1>2, <2>1 DEF Covered
<1> QED BY <1>1, <1>3, <1>4 DEF Covered

LEMMA CoveredService ==
    ASSUME Inv, Untimed, InTurn, NEW s \in Svc, ServiceStep(s)
    PROVE  Covered(s)'
<1>1. /\ TypeOK /\ Covered(s)
      /\ call[s] \in {"start", "talk"} => modeHeld[s] /\ releasing[s] \in {"no", "late"}
      /\ call \in [Svc -> {"none", "may", "start", "talk"}]
  BY DEF Inv, SamplesAreCovered, Covered, CallHolds, TypeOK
<1>2. UNCHANGED <<handler, currentMode>>
  BY <1>1, ServiceFrame
<1>3. Has(s)' = Has(s)
  BY <1>2 DEF Has, Taking
<1>4. (handler[s] = "samp" => currentMode = s)'
  BY <1>1, <1>2 DEF Covered
<1>5. CASE isActiveMode(s) \/ HangTimeLook(s) \/ HangTimeOver(s) \/ ReleaseDone(s) \/ Crash(s) \/ Restart(s)
  <2>1. out' = out /\ (call'[s] \in {"start", "talk"} => call[s] \in {"start", "talk"})
    BY <1>1, <1>5 DEF isActiveMode, HangTimeLook, HangTimeOver, ReleaseDone, Crash, Restart
  <2> QED BY <1>1, <1>3, <1>4, <2>1, CoveredSame
<1>6. CASE StartCall(s)
  <2>1. modemWrite(s, <<"SET_MODE">>) /\ "SET_MODE" \in Word
    BY <1>6 DEF StartCall, Word
  <2> QED BY <1>1, <1>2, <2>1, CoveredMore
<1>7. CASE StartBurst(s)
  <2>1. modemWrite(s, <<"DATA">>) /\ "DATA" \in Word /\ call[s] = "start"
    BY <1>1, <1>7 DEF StartBurst, Word
  <2> QED BY <1>1, <1>2, <2>1, CoveredMore
<1>8. ASSUME NEW frame \in {"DATA", "EOT"}, SendBurst(s, frame) PROVE Covered(s)'
  <2>1. modemWrite(s, <<frame>>) /\ frame \in Word /\ frame # "SET_IDLE" /\ call[s] = "talk"
    BY <1>8 DEF SendBurst, Word
  <2> QED BY <1>1, <1>2, <2>1, CoveredMore
<1>9. CASE ReleaseWrite(s)
  <2>1. /\ modemWrite(s, <<"SET_IDLE">>) /\ "SET_IDLE" \in Word /\ call' = call
        /\ call[s] \notin {"start", "talk"}
    BY <1>1, <1>9 DEF ReleaseWrite, Word
  <2> QED BY <1>1, <1>2, <2>1, CoveredMore
<1> QED BY <1>5, <1>6, <1>7, <1>8, <1>9 DEF ServiceStep

LEMMA CoveredHost ==
    ASSUME Inv, Untimed, InTurn, NEW s \in Svc, HostStep(s)
    PROVE  Covered(s)'
<1>1. TypeOK /\ Covered(s) /\ Agreement /\ UNCHANGED call
  BY HostFrame DEF Inv, SamplesAreCovered, Covered
<1>2. currentMode \in {s, Idle}
  BY OthersQuiet DEF Inv, NobodyElse
<1>3. ASSUME NEW frame \in {"DATA", "EOT"}, Reads(s, frame) PROVE Has(s)
  <2>1. 1 \in 1 .. Len(out[s]) /\ out[s][1] = frame
    BY <1>1, <1>3, ReadFacts
  <2>2. WillHave(s, 1 - 1)
    BY <1>1, <2>1 DEF Covered
  <2> QED BY <2>2 DEF WillHave
<1>4. CASE SetModeTest(s)
  <2>1. /\ Reads(s, "SET_MODE") /\ currentMode' = currentMode
        /\ handler'[s] = IF currentMode = Idle THEN "mode" ELSE "read"
    BY <1>1, <1>4, AtFacts DEF SetModeTest, Place
  <2>2. Has(s)'
    BY <1>2, <2>1 DEF Has, Taking
  <2> QED BY <1>1, <2>1, <2>2, CoveredLess
<1>5. CASE SetModeTake(s) \/ SetModeModem(s) \/ SetModeStatus(s)
  <2>1. CASE SetModeTake(s)
    <3>1. out' = out /\ handler'[s] = "modeModem"
      BY <1>1, <2>1, AtFacts DEF SetModeTake, Place
    <3> QED BY <1>1, <3>1, CoveredSame DEF Has, Taking
  <2>2. CASE SetModeModem(s)
    <3>1. out' = out /\ handler'[s] = "modeStatus"
      BY <1>1, <2>2, AtFacts DEF SetModeModem, Place
    <3> QED BY <1>1, <3>1, CoveredSame DEF Has, Taking
  <2>3. CASE SetModeStatus(s)
    <3>1. out' = out /\ handler[s] = "modeStatus" /\ handler'[s] = "read" /\ currentMode' = currentMode
      BY <1>1, <2>3, AtFacts DEF SetModeStatus, Place
    <3>2. Has(s)'
      BY <1>1, <3>1 DEF Has, Agreement
    <3> QED BY <1>1, <3>1, <3>2, CoveredSame
  <2> QED BY <1>5, <2>1, <2>2, <2>3
<1>6. CASE SetIdleTest(s)
  <2>1. Reads(s, "SET_IDLE") /\ handler'[s] \in {"idleTx", "read"}
    BY <1>1, <1>6, AtFacts DEF SetIdleTest, Place
  <2> QED BY <1>1, <2>1, CoveredLess
<1>7. CASE SetIdleTx(s) \/ SetIdleGive(s) \/ SetIdleClear(s) \/ SetIdleModem(s) \/ SetIdleStatus(s)
  <2>1. /\ out' = out /\ handler'[s] # "samp"
        /\ handler[s] \in {"idleTx", "idle", "idleClear", "idleModem", "idleStatus"}
    BY <1>1, <1>7, AtFacts DEF SetIdleTx, SetIdleGive, SetIdleClear, SetIdleModem, SetIdleStatus, Place
  <2>2. ~ Has(s)
    BY <2>1 DEF Has, Taking
  <2> QED BY <1>1, <2>1, <2>2, CoveredSame
<1>8. CASE SampOn(s)
  <2>1. Reads(s, "DATA") /\ handler[s] = "read" /\ handler'[s] = "samp" /\ currentMode' = currentMode
    BY <1>1, <1>8, AtFacts DEF SampOn, Place
  <2>2. Has(s)' /\ currentMode' = s
    BY <1>3, <2>1 DEF Has, Taking
  <2> QED BY <1>1, <2>1, <2>2, CoveredLess
<1>9. CASE EotQueue(s)
  <2>1. Reads(s, "EOT") /\ handler[s] = "read" /\ handler'[s] = "eot" /\ currentMode' = currentMode
    BY <1>1, <1>9, AtFacts DEF EotQueue, Place
  <2>2. Has(s)'
    BY <1>3, <2>1 DEF Has, Taking
  <2> QED BY <1>1, <2>1, <2>2, CoveredLess
<1>10. CASE SampQueue(s) \/ EotOff(s)
  <2>1. out' = out /\ handler[s] \in {"samp", "eot"} /\ handler'[s] = "read" /\ currentMode' = currentMode
    BY <1>1, <1>10, AtFacts DEF SampQueue, EotOff, Place
  <2>2. Has(s) => Has(s)'
    BY <2>1 DEF Has, Taking
  <2> QED BY <1>1, <2>1, <2>2, CoveredSame
<1> QED BY <1>4, <1>5, <1>6, <1>7, <1>8, <1>9, <1>10 DEF HostStep, SetMode, SetIdle, Samples

LEMMA SamplesAreCoveredStep == Inv /\ [Next]_vars => SamplesAreCovered'
<1> SUFFICES ASSUME Inv, [Next]_vars, Untimed' PROVE timer' = "rest" /\ \A s \in Svc : Covered(s)'
  BY DEF SamplesAreCovered, Covered
<1>1. TypeOK /\ Untimed /\ InTurn /\ InTurn' /\ timer = "rest"
  BY TurnStays DEF Inv, SamplesAreCovered, Untimed
<1>2. ~ timerThread
  BY <1>1, MishapFacts DEF timerThread, TimeoutTx, TimeoutIdle, TimeoutStatus, TimeoutClear, TimeoutModem, Tick
<1>3. timer' = "rest"
  <2>1. ASSUME NEW t \in Svc, ServiceStep(t) \/ HostStep(t) \/ Disconnect(t) PROVE timer' = timer
    BY <1>1, <2>1, ServiceFrame, HostFrame, DisconnectFrame
  <2>2. modeTxThread \/ UNCHANGED vars => timer' = timer
    BY DEF modeTxThread, vars
  <2> QED BY <1>1, <1>2, <2>1, <2>2, StepCases DEF HostStep
<1>4. ASSUME NEW s \in Svc PROVE Covered(s)'
  <2>1. Covered(s)
    BY <1>1 DEF Inv, SamplesAreCovered, Covered
  <2>2. CASE UNCHANGED <<call, out, handler, currentMode>>
    <3>1. Has(s)' = Has(s)
      BY <2>2 DEF Has, Taking
    <3> QED BY <1>1, <2>1, <2>2, <3>1, CoveredSame DEF Covered
  <2>3. ASSUME NEW t \in Svc, ServiceStep(t) PROVE Covered(s)'
    <3>1. CASE t = s
      BY <1>1, <2>3, <3>1, CoveredService
    <3>2. CASE t # s
      <4>1. UNCHANGED <<handler, currentMode>> /\ call'[s] = call[s] /\ out'[s] = out[s]
        BY <1>1, <2>3, <3>2, ServiceFrame
      <4>2. Has(s)' = Has(s)
        BY <4>1 DEF Has, Taking
      <4> QED BY <1>1, <2>1, <4>1, <4>2, CoveredSame DEF Covered
    <3> QED BY <3>1, <3>2
  <2>4. ASSUME NEW t \in Svc, HostStep(t) PROVE Covered(s)'
    <3>1. CASE t = s
      BY <1>1, <2>4, <3>1, CoveredHost
    <3>2. CASE t # s
      <4>1. Quiet(s) /\ out'[s] = out[s] /\ handler'[s] = handler[s] /\ call'[s] = call[s]
        BY <1>1, <2>4, <3>2, OthersQuiet, HostFrame
      <4>2. out'[s] = <<>> /\ handler'[s] = "read" /\ call'[s] \notin {"start", "talk"}
        BY <1>1, <4>1 DEF Quiet, Inv, CallHolds
      <4>3. Len(out'[s]) = 0
        BY <4>2, EmptySeq
      <4> QED BY <4>2, <4>3 DEF Covered
    <3> QED BY <3>1, <3>2
  <2>5. ASSUME NEW t \in Svc, Disconnect(t) PROVE Covered(s)'
    BY <1>1, <2>2, <2>5, DisconnectFrame
  <2>6. CASE modeTxThread \/ UNCHANGED vars
    BY <2>2, <2>6 DEF modeTxThread, vars
  <2> QED BY <1>2, <2>3, <2>4, <2>5, <2>6, StepCases DEF HostStep
<1> QED BY <1>3, <1>4

------------------------------------------------------------------------------
LEMMA InitInv == Init => Inv
<1> SUFFICES ASSUME Init PROVE Inv
  OBVIOUS
<1>1. \A s \in Svc : out[s] = <<>> /\ Len(out[s]) = 0
  BY EmptySeq DEF Init
<1>2. TypeOK
  <2>1. rxModeBuffer \in Seq(Svc) /\ Len(rxModeBuffer) = 0
    BY EmptySeq DEF Init
  <2>2. out \in [Svc -> Seq(Word)]
    BY EmptySeq DEF Init
  <2>3. \A s \in Svc : Len(out[s]) <= OutMax
    BY <1>1
  <2>4. Len(rxModeBuffer) <= BufMax
    BY <2>1
  <2>5. /\ up \in [Svc -> {"up", "gone", "closed"}] /\ call \in [Svc -> {"none", "may", "start", "talk"}]
        /\ modeHeld \in [Svc -> BOOLEAN] /\ releasing \in [Svc -> {"no", "look", "late", "go", "sent"}]
        /\ handler \in [Svc -> Place]
    BY DEF Init, Place
  <2>6. /\ calls = 0 /\ crashes = 0 /\ currentMode = Idle /\ activeMode = Idle /\ modemMode = Idle
        /\ txOn \in BOOLEAN /\ timer = "rest" /\ mishaps = {}
    BY DEF Init
  <2> QED BY <2>1, <2>2, <2>3, <2>4, <2>5, <2>6 DEF TypeOK, Word, Place
<1>3. CallHolds /\ Agreement
  BY DEF Init, CallHolds, Agreement, Equal
<1>4. OneAtATime /\ NobodyElse
  BY DEF Init, OneAtATime, NobodyElse, Quiet
<1>5. SamplesAreCovered
  BY <1>1 DEF Init, SamplesAreCovered
<1> QED BY <1>2, <1>3, <1>4, <1>5 DEF Inv

LEMMA StepInv == Inv /\ [Next]_vars => Inv'
BY TypeStep, CallHoldsStep, OneAtATimeStep, AgreementStep, NobodyElseStep, SamplesAreCoveredStep DEF Inv

(* Modem_Host and the services keep to the invariant: the services use the   *)
(* radio one at a time, in every place of the threads that hand it over.     *)
THEOREM Invariance == Spec => []Inv
BY InitInv, StepInv, PTL DEF Spec

(* The state is well formed; rxModeBuffer and the connections hold no more   *)
(* than fits.                                                                *)
THEOREM TypeCorrect == Spec => []TypeOK
<1>1. Inv => TypeOK
  BY DEF Inv
<1> QED BY <1>1, Invariance, PTL

(* processClientSocket() and timerThread() change the current mode, the      *)
(* modem and the status one after the other: when neither is at it, the      *)
(* three agree, unless a mishap let two of them work together.               *)
THEOREM HostStatusModemAgree == Spec => []StatusAgrees
<1>1. Inv => StatusAgrees
  BY DEF Inv, StatusAgrees, Agreement, InTurn, Equal, Changing
<1> QED BY <1>1, Invariance, PTL

(* README.md, "Only one service will be enabled for transmit at any given    *)
(* time": every sample frame that processClientSocket() queues is of the     *)
(* service with the radio, however the services crash, restart and take      *)
(* turns, unless a mishap preceded.                                          *)
THEOREM OwnerAloneTransmits == Spec => OnlyOwnerTransmits
<1>1. ASSUME Inv, [Next]_vars, Len(rxModeBuffer') > Len(rxModeBuffer), Untimed
      PROVE  Last(rxModeBuffer') = currentMode
  <2>1. rxModeBuffer \in Seq(Svc) /\ Len(rxModeBuffer) \in Nat /\ TypeOK /\ InTurn
    BY <1>1 DEF Inv, TypeOK, Untimed
  <2>2. rxModeBuffer' # rxModeBuffer /\ rxModeBuffer' # <<>>
    <3>1. rxModeBuffer' = rxModeBuffer => Len(rxModeBuffer') = Len(rxModeBuffer)
      OBVIOUS
    <3>2. rxModeBuffer' = <<>> => Len(rxModeBuffer') = 0
      BY EmptySeq
    <3> QED BY <1>1, <2>1, <3>1, <3>2
  <2>3. ASSUME NEW s \in Svc, SampQueue(s) \/ EotQueue(s) PROVE Last(rxModeBuffer') = currentMode
    <3>1. rxModeBuffer' = Append(rxModeBuffer, s)
      BY <2>2, <2>3 DEF SampQueue, EotQueue, Queue
    <3>2. Last(rxModeBuffer') = s
      BY <2>1, <3>1, AppendProperties DEF Last
    <3>3. CASE SampQueue(s)
      BY <1>1, <3>2, <3>3 DEF SampQueue, At, Inv, SamplesAreCovered
    <3>4. CASE EotQueue(s)
      <4>1. handler[s] = "read" /\ 1 \in 1 .. Len(out[s]) /\ out[s][1] = "EOT"
        BY <2>1, <3>4, ReadFacts DEF EotQueue, At
      <4>2. WillHave(s, 1 - 1)
        BY <1>1, <4>1 DEF Inv, SamplesAreCovered
      <4>3. currentMode = s
        BY <4>1, <4>2 DEF WillHave, Has, Taking
      <4> QED BY <3>2, <4>3
    <3> QED BY <2>3, <3>3, <3>4
  <2>4. ASSUME NEW s \in Svc, ServiceStep(s) \/ Disconnect(s) PROVE FALSE
    BY <2>1, <2>2, <2>4, ServiceFrame, DisconnectFrame
  <2>5. ASSUME NEW s \in Svc, SetMode(s) \/ SetIdle(s) \/ SampOn(s) \/ EotOff(s) PROVE FALSE
    BY <2>2, <2>5 DEF SetMode, SetModeTest, SetModeTake, SetModeModem, SetModeStatus, SetIdle,
         SetIdleTest, SetIdleTx, SetIdleGive, SetIdleClear, SetIdleModem, SetIdleStatus, SampOn, EotOff, MakeRoom
  <2>6. ~ timerThread /\ ~ UNCHANGED vars
    BY <2>2 DEF timerThread, TimeoutFires, TimeoutTx, TimeoutIdle, TimeoutStatus, TimeoutClear, TimeoutModem, vars
  <2>7. ~ modeTxThread
    BY <1>1, <2>1, HeadTailProperties DEF modeTxThread
  <2> QED BY <1>1, <2>3, <2>4, <2>5, <2>6, <2>7, StepCases DEF Samples
<1>2. Inv /\ [Next]_vars =>
        [Len(rxModeBuffer') > Len(rxModeBuffer) /\ Orderly /\ None({"slip", "timeout"})
             => Last(rxModeBuffer') = currentMode]_vars
  <2>1. Orderly /\ None({"slip", "timeout"}) => Untimed
    BY DEF Untimed, InTurn, None
  <2> QED BY <1>1, <2>1
<1> QED BY <1>2, Invariance, PTL DEF Spec, OnlyOwnerTransmits

------------------------------------------------------------------------------
(* FrameParsers: the bytes between sender and reader *)

LineByte == [v : Nat, f : Nat, i : Nat, n : Nat]

\* The bytes that have arrived and those still to be sent, as one stream.
Total == Len(rx) + Len(cur)
ByteAt(k) == IF k <= Len(rx) THEN rx[k] ELSE cur[k - Len(rx)]

\* Byte b is the i-th one of frame k, which has n of them.
IsByte(b, k, n, i) ==
    /\ b.f = k /\ b.n = n /\ b.i = i
    /\ i = 1 => b.v = Start
    /\ i = 2 => b.v = n
    /\ i = 3 => b.v \in {Samp, Cmd}

\* A frame begins at s: all of it is there.
AllThere(s) ==
    /\ ByteAt(s).n \in Lengths /\ s + ByteAt(s).n <= Total + 1
    /\ \A j \in 1 .. ByteAt(s).n : IsByte(ByteAt((s - 1) + j), ByteAt(s).f, ByteAt(s).n, j)

\* Behind it is the next frame or, if it is the last one sent, nothing.
WholeFrame(s) ==
    /\ AllThere(s)
    /\ s + ByteAt(s).n <= Total => ByteAt(s + ByteAt(s).n).i = 1 /\ ByteAt(s + ByteAt(s).n).f = ByteAt(s).f + 1
    /\ s + ByteAt(s).n = Total + 1 => ByteAt(s).f = sent

\* The stream consists of the frames sent and not yet passed on.
Stream ==
    /\ \A s \in 1 .. Total : ByteAt(s).i = 1 => WholeFrame(s)
    /\ Total > 0 => ByteAt(1).i = 1 /\ ByteAt(1).f = Len(got) + 1
    /\ Total = 0 => Len(got) = sent

LineTypes ==
    /\ rx \in Seq(LineByte) /\ cur \in Seq(LineByte)
    /\ got \in Seq(Nat) /\ sent \in Nat
    /\ count \in Nat /\ count <= Len(rx)

LEMMA LengthFacts ==
    /\ \A n \in Lengths : n \in Nat /\ n >= 3
    /\ Start \in Nat /\ Samp \in Nat /\ Cmd \in Nat /\ Long \in Nat
    /\ \A p \in Filler : p \in Nat
  <1>1. /\ Lengths \subseteq Value /\ Filler \subseteq Value
        /\ Start \in Value /\ Samp \in Value /\ Cmd \in Value /\ Long \in Value
    BY DEF Value, Lengths, Usual
  <1>2. Value \subseteq Nat /\ Short = 3 /\ Long > Short /\ \A n \in Other : n > Short
    BY ParserAssumption
  <1>3. \A n \in Lengths : n = Short \/ n = Long \/ n \in Other
    BY DEF Lengths, Usual
  <1> QED
    BY <1>1, <1>2, <1>3

LEMMA AtType ==
    ASSUME LineTypes
    PROVE  /\ Total \in Nat /\ Len(rx) \in Nat /\ Len(cur) \in Nat
           /\ \A k \in 1 .. Total : ByteAt(k) \in LineByte
           /\ \A k \in 1 .. Len(rx) : ByteAt(k) = rx[k]
  BY DEF LineTypes, Total, ByteAt

(* What the reader finds when a whole frame is at the front of the stream. *)
LEMMA FrameInFront ==
    ASSUME LineTypes, rx # <<>>, WholeFrame(1)
    PROVE  /\ rx[1].v = Start /\ rx[1].n \in Lengths /\ rx[1].n \in Nat /\ rx[1].n >= 3
           /\ rx[1].n <= Total /\ ByteAt(1) = rx[1] /\ rx[1].f \in Nat
           /\ Len(rx) >= 2 => rx[2].v = rx[1].n
           /\ Len(rx) >= 3 => rx[3].v \in {Samp, Cmd}
           /\ Len(rx) > rx[1].n => rx[rx[1].n + 1].i = 1
           /\ Len(rx) >= rx[1].n => WhatWasSent(rx[1].n) = rx[1].f
           /\ cur = <<>> => Len(rx) >= rx[1].n
  <1>1. Len(rx) \in Nat \ {0} /\ Len(cur) \in Nat /\ Total \in Nat \ {0} /\ Total = Len(rx) + Len(cur)
    BY DEF LineTypes, Total
  <1>2. ByteAt(1) = rx[1] /\ rx[1] \in LineByte
    BY <1>1, AtType DEF LineTypes
  <1>3. rx[1].n \in Lengths /\ rx[1].n \in Nat /\ rx[1].n >= 3 /\ rx[1].f \in Nat
    BY <1>2, LengthFacts DEF WholeFrame, AllThere, LineByte
  <1>4. 1 + rx[1].n <= Total + 1
    BY <1>2 DEF WholeFrame, AllThere
  <1>5. rx[1].n <= Total
    BY <1>1, <1>3, <1>4
  <1>6. ASSUME NEW j \in 1 .. rx[1].n, j <= Len(rx)
        PROVE  IsByte(rx[j], rx[1].f, rx[1].n, j)
    <2>1. IsByte(ByteAt((1 - 1) + j), rx[1].f, rx[1].n, j)
      BY <1>2 DEF WholeFrame, AllThere
    <2>2. (1 - 1) + j = j /\ ByteAt(j) = rx[j]
      BY <1>1, <1>3, <1>6, AtType
    <2> QED
      BY <2>1, <2>2
  <1>7. rx[1].v = Start
    BY <1>1, <1>3, <1>6 DEF IsByte
  <1>8. Len(rx) >= 2 => rx[2].v = rx[1].n
    BY <1>3, <1>6 DEF IsByte
  <1>9. Len(rx) >= 3 => rx[3].v \in {Samp, Cmd}
    BY <1>3, <1>6 DEF IsByte
  <1>10. Len(rx) > rx[1].n => rx[rx[1].n + 1].i = 1
    <2> SUFFICES ASSUME Len(rx) > rx[1].n PROVE rx[rx[1].n + 1].i = 1
      OBVIOUS
    <2>1. PICK s : s = rx[1].n + 1
      OBVIOUS
    <2>2. s \in 1 .. Len(rx) /\ s = 1 + rx[1].n /\ 1 + rx[1].n <= Total
      BY <1>1, <1>3, <2>1
    <2>3. ByteAt(s) = rx[s]
      BY <2>2, AtType
    <2>4. ByteAt(s).i = 1
      BY <1>2, <2>2 DEF WholeFrame
    <2> QED
      BY <2>1, <2>3, <2>4
  <1>11. Len(rx) >= rx[1].n => WhatWasSent(rx[1].n) = rx[1].f
    <2> SUFFICES ASSUME Len(rx) >= rx[1].n PROVE WhatWasSent(rx[1].n) = rx[1].f
      OBVIOUS
    <2>1. \A j \in 1 .. rx[1].n : rx[j].f = rx[1].f /\ rx[j].i = j
      BY <1>1, <1>3, <1>6 DEF IsByte
    <2> QED
      BY <2>1 DEF WhatWasSent
  <1>12. cur = <<>> => Len(rx) >= rx[1].n
    <2>1. cur = <<>> => Len(cur) = 0
      OBVIOUS
    <2> QED
      BY <1>1, <1>3, <1>5, <2>1
  <1> QED
    BY <1>2, <1>3, <1>5, <1>7, <1>8, <1>9, <1>10, <1>11, <1>12

(* In a stream of whole frames there is one in front, and a start byte       *)
(* behind it.                                                                *)
LEMMA FirstFrame ==
    ASSUME LineTypes, Stream, rx # <<>>
    PROVE  /\ rx[1].v = Start /\ rx[1].n \in Lengths /\ rx[1].n \in Nat /\ rx[1].n >= 3
           /\ rx[1].i = 1 /\ rx[1].f = Len(got) + 1
           /\ rx[1].n <= Total /\ WholeFrame(1) /\ ByteAt(1) = rx[1]
           /\ Len(rx) >= 2 => rx[2].v = rx[1].n
           /\ Len(rx) >= 3 => rx[3].v \in {Samp, Cmd}
           /\ Len(rx) > rx[1].n => rx[rx[1].n + 1].v = Start
           /\ Len(rx) >= rx[1].n => WhatWasSent(rx[1].n) = Len(got) + 1
           /\ cur = <<>> => Len(rx) >= rx[1].n
  <1>1. Len(rx) \in Nat \ {0} /\ Len(cur) \in Nat /\ Total \in Nat \ {0} /\ Total = Len(rx) + Len(cur)
    BY DEF LineTypes, Total
  <1>2. ByteAt(1) = rx[1]
    BY <1>1, AtType
  <1>3. WholeFrame(1) /\ rx[1].i = 1 /\ rx[1].f = Len(got) + 1
    BY <1>1, <1>2 DEF Stream
  <1>4. Len(rx) > rx[1].n => rx[rx[1].n + 1].v = Start
    <2> SUFFICES ASSUME Len(rx) > rx[1].n PROVE rx[rx[1].n + 1].v = Start
      OBVIOUS
    <2>1. PICK s : s = rx[1].n + 1
      OBVIOUS
    <2>2. s \in 1 .. Len(rx) /\ s \in 1 .. Total
      BY <1>1, <1>3, <2>1, FrameInFront
    <2>3. ByteAt(s) = rx[s] /\ rx[s].i = 1
      BY <1>3, <2>1, <2>2, AtType, FrameInFront
    <2>4. AllThere(s)
      BY <2>2, <2>3 DEF Stream, WholeFrame
    <2>5. 1 \in 1 .. ByteAt(s).n
      BY <2>4, LengthFacts DEF AllThere
    <2>6. IsByte(ByteAt((s - 1) + 1), ByteAt(s).f, ByteAt(s).n, 1)
      BY <2>4, <2>5 DEF AllThere
    <2>7. (s - 1) + 1 = s
      BY <2>2
    <2>8. ByteAt(s).v = Start
      BY <2>6, <2>7 DEF IsByte
    <2> QED
      BY <2>1, <2>3, <2>8
  <1> QED
    BY <1>2, <1>3, <1>4, FrameInFront

(* A frame further back in the stream moves up by n places as a whole. *)
LEMMA FrameMovesUp ==
    ASSUME NEW n \in Nat, Total \in Nat, Total' = Total - n, sent' = sent,
           \A k \in Nat : k > 0 /\ k + n <= Total => ByteAt(k)' = ByteAt(k + n),
           NEW s \in Nat, s > 0, s + n <= Total, WholeFrame(s + n)
    PROVE  WholeFrame(s)'
  <1>1. PICK t : t = s + n
    OBVIOUS
  <1>2. PICK m : m = ByteAt(t).n
    OBVIOUS
  <1>3. ByteAt(s)' = ByteAt(t) /\ WholeFrame(t)
    BY <1>1
  <1>4. m \in Lengths /\ m \in Nat /\ t + m <= Total + 1
    BY <1>2, <1>3, LengthFacts DEF WholeFrame, AllThere
  <1>5. s + m <= Total' + 1
    BY <1>1, <1>4
  <1>6. ASSUME NEW j \in 1 .. m
        PROVE  IsByte(ByteAt((s - 1) + j)', ByteAt(t).f, m, j)
    <2>1. IsByte(ByteAt((t - 1) + j), ByteAt(t).f, m, j)
      BY <1>2, <1>3 DEF WholeFrame, AllThere
    <2>2. PICK k : k = (s - 1) + j
      OBVIOUS
    <2>3. k \in Nat /\ k > 0 /\ k + n <= Total /\ k + n = (t - 1) + j
      BY <1>1, <1>4, <2>2
    <2>4. ByteAt(k)' = ByteAt(k + n)
      BY <2>3
    <2> QED
      BY <2>1, <2>2, <2>3, <2>4
  <1>7. s + m <= Total' => ByteAt(s + m)'.i = 1 /\ ByteAt(s + m)'.f = ByteAt(t).f + 1
    <2> SUFFICES ASSUME s + m <= Total'
                 PROVE  ByteAt(s + m)'.i = 1 /\ ByteAt(s + m)'.f = ByteAt(t).f + 1
      OBVIOUS
    <2>1. PICK k : k = s + m
      OBVIOUS
    <2>2. k \in Nat /\ k > 0 /\ k + n <= Total /\ k + n = t + m
      BY <1>1, <1>4, <2>1
    <2>3. ByteAt(k)' = ByteAt(t + m)
      BY <2>2
    <2>4. ByteAt(t + m).i = 1 /\ ByteAt(t + m).f = ByteAt(t).f + 1
      BY <1>2, <1>3, <2>2 DEF WholeFrame, AllThere
    <2> QED
      BY <2>1, <2>3, <2>4
  <1>8. s + m = Total' + 1 => ByteAt(t).f = sent'
    <2>1. s + m = Total' + 1 => t + m = Total + 1
      BY <1>1, <1>4
    <2> QED
      BY <1>2, <1>3, <2>1 DEF WholeFrame, AllThere
  <1> QED
    BY <1>2, <1>3, <1>4, <1>5, <1>6, <1>7, <1>8 DEF WholeFrame, AllThere

(* The reader takes n bytes: those behind them move up. *)
LEMMA ConsumeBytes ==
    ASSUME LineTypes, NEW n \in Nat, n <= Len(rx), Consume(n), UNCHANGED cur
    PROVE  /\ rx' \in Seq(LineByte) /\ Len(rx') = Len(rx) - n /\ Len(rx') \in Nat
           /\ Total \in Nat /\ Total' = Total - n
           /\ \A k \in Nat : k > 0 /\ k + n <= Total => ByteAt(k)' = ByteAt(k + n)
  <1>1. Len(rx) \in Nat /\ Len(cur) \in Nat /\ Total = Len(rx) + Len(cur)
    BY DEF LineTypes, Total
  <1>2. /\ rx' \in Seq(LineByte) /\ Len(rx') = Len(rx) - n
        /\ \A k \in 1 .. Len(rx) - n : rx'[k] = rx[k + n]
    <2>1. rx' = SubSeq(rx, n + 1, Len(rx))
      BY DEF Consume
    <2>2. n + 1 \in Int /\ Len(rx) \in Int /\ \A k \in n + 1 .. Len(rx) : rx[k] \in LineByte
      BY <1>1 DEF LineTypes
    <2>3. /\ rx' \in Seq(LineByte)
          /\ Len(rx') = IF n + 1 <= Len(rx) THEN Len(rx) - (n + 1) + 1 ELSE 0
          /\ \A k \in 1 .. Len(rx) - (n + 1) + 1 : rx'[k] = rx[(n + 1) + k - 1]
      BY <2>1, <2>2, SubSeqProperties
    <2>4. Len(rx') = Len(rx) - n
      BY <1>1, <2>3
    <2>5. Len(rx) - (n + 1) + 1 = Len(rx) - n
      BY <1>1
    <2>6. \A k \in 1 .. Len(rx) - n : (n + 1) + k - 1 = k + n
      BY <1>1
    <2> QED
      BY <2>3, <2>4, <2>5, <2>6
  <1>3. Total' = Total - n /\ Len(rx') \in Nat
    BY <1>1, <1>2 DEF Total
  <1>4. ASSUME NEW k \in Nat, k > 0, k + n <= Total
        PROVE  ByteAt(k)' = ByteAt(k + n)
    <2>1. CASE k <= Len(rx) - n
      BY <1>1, <1>2, <1>4, <2>1 DEF ByteAt
    <2>2. CASE ~ (k <= Len(rx) - n)
      <3>1. (k + n) - Len(rx) = k - Len(rx') /\ ~ (k + n <= Len(rx)) /\ ~ (k <= Len(rx'))
        BY <1>1, <1>2, <1>4, <2>2
      <3> QED
        BY <3>1 DEF ByteAt
    <2> QED
      BY <2>1, <2>2
  <1> QED
    BY <1>1, <1>2, <1>3, <1>4

(* A frame is passed on: the stream begins with the next one. *)
LEMMA ConsumeKeepsStream ==
    ASSUME LineTypes, Stream, rx # <<>>, NEW n, n = rx[1].n, Len(rx) >= n,
           Consume(n), PassOn(n), UNCHANGED <<cur, sent>>
    PROVE  /\ Stream' /\ rx' \in Seq(LineByte) /\ Len(rx') = Len(rx) - n
           /\ got' = Append(got, Len(got) + 1)
  <1>1. n \in Nat /\ n >= 3 /\ n <= Total /\ WholeFrame(1) /\ ByteAt(1) = rx[1] /\ rx[1].f = Len(got) + 1
    BY FirstFrame
  <1>2. Len(rx) \in Nat /\ Len(cur) \in Nat /\ Total = Len(rx) + Len(cur) /\ Len(got) \in Nat
    BY DEF LineTypes, Total
  <1>3. n <= Len(rx)
    BY <1>1, <1>2
  <1>4. rx' \in Seq(LineByte) /\ Len(rx') = Len(rx) - n /\ Total \in Nat /\ Total' = Total - n
    BY <1>1, <1>3, ConsumeBytes
  <1>5. \A k \in Nat : k > 0 /\ k + n <= Total => ByteAt(k)' = ByteAt(k + n)
    BY <1>1, <1>3, ConsumeBytes
  <1>6. got' = Append(got, Len(got) + 1) /\ Len(got') = Len(got) + 1
    <2>1. WhatWasSent(n) = Len(got) + 1
      BY FirstFrame
    <2>2. got' = Append(got, Len(got) + 1)
      BY <2>1 DEF PassOn
    <2> QED
      BY <1>2, <2>2 DEF LineTypes
  <1>7. ASSUME NEW s \in 1 .. Total', ByteAt(s)'.i = 1
        PROVE  WholeFrame(s)'
    <2>1. s \in Nat /\ s > 0 /\ s + n <= Total /\ s + n \in 1 .. Total
      <3>1. s \in 1 .. Total - n
        BY <1>4
      <3>2. PICK T \in Nat : T = Total
        BY <1>4
      <3>3. s \in 1 .. T - n
        BY <3>1, <3>2
      <3>4. s \in Nat /\ s > 0 /\ s + n <= T /\ s + n \in 1 .. T
        BY <1>1, <3>3
      <3> QED
        BY <3>2, <3>4
    <2>2. ByteAt(s)' = ByteAt(s + n)
      BY <1>5, <2>1
    <2>3. WholeFrame(s + n)
      BY <1>7, <2>1, <2>2 DEF Stream
    <2>4. \A k \in Nat : k > 0 /\ k + n <= Total => ByteAt(k)' = ByteAt(k + n)
      BY <1>5
    <2>5. n \in Nat /\ Total \in Nat /\ Total' = Total - n /\ sent' = sent
      BY <1>1, <1>2, <1>4
    <2> QED
      BY <2>1, <2>3, <2>4, <2>5, FrameMovesUp, Zenon
  <1>8. Total' > 0 => ByteAt(1)'.i = 1 /\ ByteAt(1)'.f = Len(got') + 1
    <2> SUFFICES ASSUME Total' > 0 PROVE ByteAt(1)'.i = 1 /\ ByteAt(1)'.f = Len(got') + 1
      OBVIOUS
    <2>1. 1 + n <= Total
      BY <1>1, <1>2, <1>4
    <2>2. ByteAt(1)' = ByteAt(1 + n)
      BY <1>5, <2>1
    <2>3. ByteAt(1 + n).i = 1 /\ ByteAt(1 + n).f = rx[1].f + 1
      BY <1>1, <2>1 DEF WholeFrame, AllThere
    <2> QED
      BY <1>1, <1>6, <2>2, <2>3
  <1>9. Total' = 0 => Len(got') = sent'
    <2>1. Total' = 0 => 1 + n = Total + 1
      BY <1>1, <1>2, <1>4
    <2>2. Total' = 0 => rx[1].f = sent
      BY <1>1, <2>1 DEF WholeFrame, AllThere
    <2> QED
      BY <1>1, <1>6, <2>2
  <1> QED
    BY <1>4, <1>6, <1>7, <1>8, <1>9 DEF Stream

(* A byte goes from the sender to the reader: the stream is the same. *)
LEMMA CarryBytes ==
    ASSUME LineTypes, Carry
    PROVE  /\ rx' \in Seq(LineByte) /\ cur' \in Seq(LineByte)
           /\ Len(rx') = Len(rx) + 1 /\ Total' = Total /\ Total \in Nat
           /\ \A k \in Nat : k > 0 /\ k <= Total => ByteAt(k)' = ByteAt(k)
           /\ Len(cur') = Len(cur) - 1 /\ Len(cur) \in Nat
           /\ \A k \in 1 .. Len(cur) - 1 : cur'[k] = cur[k + 1]
  <1>1. cur # <<>> /\ cur' = Tail(cur) /\ rx' = Append(rx, Head(cur)) /\ UNCHANGED <<got, sent>>
    BY DEF Carry
  <1>2. Len(rx) \in Nat /\ Len(cur) \in Nat \ {0} /\ Head(cur) = cur[1] /\ cur[1] \in LineByte
    BY <1>1 DEF LineTypes
  <1>3. /\ rx' \in Seq(LineByte) /\ Len(rx') = Len(rx) + 1
        /\ \A k \in 1 .. Len(rx) : rx'[k] = rx[k]
        /\ rx'[Len(rx) + 1] = cur[1]
    BY <1>1, <1>2 DEF LineTypes
  <1>4. /\ cur' \in Seq(LineByte) /\ Len(cur') = Len(cur) - 1
        /\ \A k \in 1 .. Len(cur) - 1 : cur'[k] = cur[k + 1]
    BY <1>1, <1>2 DEF LineTypes
  <1>5. Total' = Total /\ Total \in Nat /\ Total = Len(rx) + Len(cur)
    BY <1>2, <1>3, <1>4 DEF Total
  <1>6. ASSUME NEW k \in Nat, k > 0, k <= Total
        PROVE  ByteAt(k)' = ByteAt(k)
    <2>1. CASE k <= Len(rx)
      BY <1>2, <1>3, <1>6, <2>1 DEF ByteAt
    <2>2. CASE k = Len(rx) + 1
      <3>1. k <= Len(rx') /\ ~ (k <= Len(rx)) /\ k - Len(rx) = 1
        BY <1>2, <1>3, <2>2
      <3> QED
        BY <1>3, <2>2, <3>1 DEF ByteAt
    <2>3. CASE k > Len(rx) + 1
      <3>1. /\ ~ (k <= Len(rx')) /\ ~ (k <= Len(rx))
            /\ k - Len(rx') \in 1 .. Len(cur) - 1 /\ (k - Len(rx')) + 1 = k - Len(rx)
        BY <1>2, <1>3, <1>5, <1>6, <2>3
      <3> QED
        BY <1>4, <3>1 DEF ByteAt
    <2> QED
      BY <1>2, <2>1, <2>2, <2>3
  <1> QED
    BY <1>2, <1>3, <1>4, <1>5, <1>6

(* A frame stays as it is while one of its bytes or of another's is carried. *)
LEMMA CarryKeepsFrame ==
    ASSUME LineTypes, Carry, NEW s \in 1 .. Total, WholeFrame(s)
    PROVE  WholeFrame(s)'
  <1>1. sent' = sent
    BY DEF Carry
  <1>2. Total' = Total /\ Total \in Nat
    BY CarryBytes
  <1>3. \A k \in Nat : k > 0 /\ k <= Total => ByteAt(k)' = ByteAt(k)
    BY CarryBytes
  <1>4. s \in Nat /\ s > 0 /\ ByteAt(s)' = ByteAt(s)
    BY <1>2, <1>3
  <1>5. PICK m : m = ByteAt(s).n
    OBVIOUS
  <1>6. m \in Nat /\ s + m <= Total + 1
    BY <1>5, LengthFacts DEF WholeFrame, AllThere
  <1>7. \A j \in 1 .. m : ByteAt((s - 1) + j)' = ByteAt((s - 1) + j)
    <2> SUFFICES ASSUME NEW j \in 1 .. m PROVE ByteAt((s - 1) + j)' = ByteAt((s - 1) + j)
      OBVIOUS
    <2>1. (s - 1) + j \in Nat /\ (s - 1) + j > 0 /\ (s - 1) + j <= Total
      BY <1>2, <1>4, <1>6
    <2> QED
      BY <1>3, <2>1
  <1>8. s + m <= Total => ByteAt(s + m)' = ByteAt(s + m)
    <2>1. s + m \in Nat /\ s + m > 0
      BY <1>4, <1>6
    <2> QED
      BY <1>3, <2>1
  <1> QED
    BY <1>1, <1>2, <1>4, <1>5, <1>7, <1>8 DEF WholeFrame, AllThere

LEMMA CarryKeepsStream ==
    ASSUME LineTypes, Stream, Carry
    PROVE  /\ Stream' /\ rx' \in Seq(LineByte) /\ cur' \in Seq(LineByte)
           /\ Len(rx') = Len(rx) + 1
  <1>1. UNCHANGED <<got, sent>>
    BY DEF Carry
  <1>2. /\ Total' = Total /\ Total \in Nat
        /\ \A k \in Nat : k > 0 /\ k <= Total => ByteAt(k)' = ByteAt(k)
    BY CarryBytes
  <1>3. ASSUME NEW s \in 1 .. Total, ByteAt(s)'.i = 1
        PROVE  WholeFrame(s)'
    <2>1. ByteAt(s)' = ByteAt(s)
      BY <1>2
    <2> QED
      BY <1>3, <2>1, CarryKeepsFrame DEF Stream
  <1>4. Total > 0 => ByteAt(1)' = ByteAt(1)
    BY <1>2
  <1> QED
    BY <1>1, <1>2, <1>3, <1>4, CarryBytes DEF Stream

(* What the sender puts on the line is a frame. *)
LEMMA FrameBytes ==
    ASSUME NEW k \in Nat, NEW n \in Lengths, NEW t \in {Samp, Cmd}, NEW p \in Filler
    PROVE  /\ Frame(k, n, t, p) \in Seq(LineByte) /\ Len(Frame(k, n, t, p)) = n
           /\ \A j \in 1 .. n : IsByte(Frame(k, n, t, p)[j], k, n, j)
  <1>1. n \in Nat /\ Start \in Nat /\ t \in Nat /\ p \in Nat
    BY LengthFacts
  <1> DEFINE b(j) == [v |-> IF j = 1 THEN Start ELSE IF j = 2 THEN n ELSE IF j = 3 THEN t ELSE p,
                      f |-> k, i |-> j, n |-> n]
  <1>2. Frame(k, n, t, p) = [j \in 1 .. n |-> b(j)]
    BY DEF Frame
  <1>3. \A j \in 1 .. n : b(j) \in LineByte
    BY <1>1 DEF LineByte
  <1>4. \A j \in 1 .. n : IsByte(b(j), k, n, j)
    BY DEF IsByte
  <1> HIDE DEF b
  <1> QED
    BY <1>1, <1>2, <1>3, <1>4

(* A frame is begun: its bytes follow those that are there. *)
LEMMA SendBytes ==
    ASSUME LineTypes, SendFrame
    PROVE  \E n \in Lengths, p \in Filler, T \in Nat :
             /\ n \in Nat /\ n >= 3 /\ cur = <<>> /\ T = Total /\ Total = Len(rx) /\ Total' = T + n
             /\ cur' = Frame(sent + 1, n, IF n = Long THEN Samp ELSE Cmd, p)
             /\ far' = IF since = Reach /\ (reader = "host" \/ n \in Usual) THEN far \cup {sent + 1} ELSE far
             /\ NoteIf(p = Start /\ n > Short, "lookalike")
             /\ cur' \in Seq(LineByte) /\ Len(cur') = n
             /\ \A k \in Nat : k <= T => ByteAt(k)' = ByteAt(k)
             /\ \A j \in 1 .. n : ByteAt(T + j)' = cur'[j] /\ IsByte(cur'[j], sent + 1, n, j)
  <1>1. cur = <<>> /\ UNCHANGED rx
    BY DEF SendFrame
  <1>2. PICK n \in Lengths, p \in Filler :
             /\ cur' = Frame(sent + 1, n, IF n = Long THEN Samp ELSE Cmd, p)
             /\ far' = IF since = Reach /\ (reader = "host" \/ n \in Usual) THEN far \cup {sent + 1} ELSE far
             /\ NoteIf(p = Start /\ n > Short, "lookalike")
    BY DEF SendFrame
  <1>3. /\ sent \in Nat /\ n \in Nat /\ n >= 3 /\ Len(rx) \in Nat
    BY LengthFacts DEF LineTypes
  <1>4. /\ cur' \in Seq(LineByte) /\ Len(cur') = n
        /\ \A j \in 1 .. n : IsByte(cur'[j], sent + 1, n, j)
    <2>1. PICK t \in {Samp, Cmd} : t = IF n = Long THEN Samp ELSE Cmd
      OBVIOUS
    <2>2. cur' = Frame(sent + 1, n, t, p)
      BY <1>2, <2>1
    <2> QED
      BY <1>3, <2>2, FrameBytes
  <1>5. Total = Len(rx) /\ Total \in Nat /\ Total' = Total + n
    <2>1. Len(cur) = 0
      BY <1>1
    <2> QED
      BY <1>1, <1>3, <1>4, <2>1 DEF Total
  <1>6. \A k \in Nat : k <= Total => ByteAt(k)' = ByteAt(k)
    BY <1>1, <1>3, <1>5 DEF ByteAt
  <1>7. PICK T \in Nat : T = Total
    BY <1>5
  <1>8. ASSUME NEW j \in 1 .. n
        PROVE  ByteAt(T + j)' = cur'[j]
    <2>1. PICK k : k = T + j
      OBVIOUS
    <2>2. ~ (k <= Len(rx')) /\ k - Len(rx') = j
      BY <1>1, <1>3, <1>5, <1>7, <2>1
    <2>3. ByteAt(k)' = cur'[j]
      BY <2>2 DEF ByteAt
    <2> QED
      BY <2>1, <2>3
  <1> QED
    BY <1>1, <1>2, <1>3, <1>4, <1>5, <1>6, <1>7, <1>8

(* The new frame is the last one of the stream. *)
LEMMA SendAddsFrame ==
    ASSUME LineTypes, SendFrame, NEW T \in Nat, T = Total
    PROVE  WholeFrame(T + 1)' /\ ByteAt(T + 1)'.i = 1 /\ ByteAt(T + 1)'.f = sent + 1
  <1>1. sent' = sent + 1
    BY DEF SendFrame
  <1>2. PICK n \in Lengths : /\ n \in Nat /\ n >= 3 /\ Total' = T + n
                             /\ \A j \in 1 .. n : IsByte(ByteAt(T + j)', sent + 1, n, j)
    BY SendBytes
  <1>3. ByteAt(T + 1)'.i = 1 /\ ByteAt(T + 1)'.f = sent + 1 /\ ByteAt(T + 1)'.n = n
    BY <1>2 DEF IsByte
  <1>4. \A j \in 1 .. n : IsByte(ByteAt(((T + 1) - 1) + j)', sent + 1, n, j)
    <2> SUFFICES ASSUME NEW j \in 1 .. n PROVE IsByte(ByteAt(((T + 1) - 1) + j)', sent + 1, n, j)
      OBVIOUS
    <2>1. ((T + 1) - 1) + j = T + j
      BY <1>2
    <2> QED
      BY <1>2, <2>1
  <1>5. (T + 1) + n <= Total' + 1 /\ ~ ((T + 1) + n <= Total')
    BY <1>2
  <1> QED
    BY <1>1, <1>3, <1>4, <1>5 DEF WholeFrame, AllThere

(* A frame that was there is whole still, and the last one now has the new   *)
(* one behind it.                                                            *)
LEMMA SendKeepsFrame ==
    ASSUME LineTypes, SendFrame, NEW s \in 1 .. Total, WholeFrame(s)
    PROVE  WholeFrame(s)'
  <1>1. PICK T \in Nat, n \in Nat : /\ T = Total /\ n >= 3 /\ Total' = T + n
                                    /\ \A k \in Nat : k <= T => ByteAt(k)' = ByteAt(k)
    BY SendBytes
  <1>2. s \in Nat /\ s > 0 /\ s <= T /\ ByteAt(s)' = ByteAt(s)
    BY <1>1
  <1>3. PICK m : m = ByteAt(s).n
    OBVIOUS
  <1>4. m \in Lengths /\ m \in Nat /\ m >= 3 /\ s + m <= T + 1
    BY <1>1, <1>3, LengthFacts DEF WholeFrame, AllThere
  <1>5. \A j \in 1 .. m : IsByte(ByteAt((s - 1) + j)', ByteAt(s).f, m, j)
    <2> SUFFICES ASSUME NEW j \in 1 .. m PROVE IsByte(ByteAt((s - 1) + j)', ByteAt(s).f, m, j)
      OBVIOUS
    <2>1. (s - 1) + j \in Nat /\ (s - 1) + j <= T
      BY <1>2, <1>4
    <2>2. ByteAt((s - 1) + j)' = ByteAt((s - 1) + j)
      BY <1>1, <2>1
    <2>3. IsByte(ByteAt((s - 1) + j), ByteAt(s).f, m, j)
      BY <1>3 DEF WholeFrame, AllThere
    <2> QED
      BY <2>2, <2>3
  <1>6. ByteAt(s + m)'.i = 1 /\ ByteAt(s + m)'.f = ByteAt(s).f + 1
    <2>1. CASE s + m <= T
      <3>1. ByteAt(s + m)' = ByteAt(s + m)
        BY <1>1, <1>2, <1>4, <2>1
      <3> QED
        BY <1>1, <1>3, <2>1, <3>1 DEF WholeFrame
    <2>2. CASE s + m = T + 1
      <3>1. ByteAt(s).f = sent
        BY <1>1, <1>3, <2>2 DEF WholeFrame
      <3> QED
        BY <1>1, <2>2, <3>1, SendAddsFrame
    <2> QED
      BY <1>2, <1>4, <2>1, <2>2
  <1>7. s + m <= Total' + 1 /\ s + m # Total' + 1
    BY <1>1, <1>2, <1>4
  <1> QED
    BY <1>2, <1>3, <1>4, <1>5, <1>6, <1>7 DEF WholeFrame, AllThere

LEMMA SendKeepsStream ==
    ASSUME LineTypes, Stream, SendFrame
    PROVE  Stream' /\ cur' \in Seq(LineByte) /\ sent' \in Nat
  <1>1. sent' = sent + 1 /\ UNCHANGED <<rx, got>> /\ sent \in Nat /\ Len(got) \in Nat
    BY DEF SendFrame, LineTypes
  <1>2. PICK n \in Lengths, T \in Nat :
             /\ n \in Nat /\ n >= 3 /\ T = Total /\ Total' = T + n /\ cur' \in Seq(LineByte)
             /\ \A k \in Nat : k <= T => ByteAt(k)' = ByteAt(k)
             /\ \A j \in 1 .. n : ByteAt(T + j)' = cur'[j] /\ IsByte(cur'[j], sent + 1, n, j)
    BY SendBytes
  <1>3. WholeFrame(T + 1)' /\ ByteAt(T + 1)'.i = 1 /\ ByteAt(T + 1)'.f = sent + 1
    BY <1>2, SendAddsFrame
  <1>4. ASSUME NEW s \in 1 .. Total', ByteAt(s)'.i = 1
        PROVE  WholeFrame(s)'
    <2>1. CASE s <= T
      <3>1. s \in 1 .. Total /\ ByteAt(s)' = ByteAt(s)
        BY <1>2, <2>1
      <3> QED
        BY <1>4, <3>1, SendKeepsFrame DEF Stream
    <2>2. CASE s = T + 1
      BY <1>3, <2>2
    <2>3. CASE s > T + 1
      <3>1. PICK j : j = s - T
        OBVIOUS
      <3>2. j \in 1 .. n /\ j # 1 /\ s = T + j
        BY <1>2, <2>3, <3>1
      <3>3. ByteAt(s)'.i = j
        BY <1>2, <3>2 DEF IsByte
      <3> QED
        BY <1>4, <3>2, <3>3
    <2> QED
      BY <1>2, <2>1, <2>2, <2>3
  <1>5. ByteAt(1)'.i = 1 /\ ByteAt(1)'.f = Len(got) + 1
    <2>1. CASE T = 0
      <3>1. Len(got) = sent
        BY <1>2, <2>1 DEF Stream
      <3> QED
        BY <1>3, <2>1, <3>1
    <2>2. CASE T > 0
      <3>1. ByteAt(1)' = ByteAt(1)
        BY <1>2, <2>2
      <3> QED
        BY <1>2, <2>2, <3>1 DEF Stream
    <2> QED
      BY <1>2, <2>1, <2>2
  <1>6. Total' > 0
    BY <1>2
  <1> QED
    BY <1>1, <1>2, <1>4, <1>5, <1>6 DEF Stream

------------------------------------------------------------------------------
(* FrameParsers: neither reader loses step *)

\* Every frame passed on is the next one sent, and nothing made the reader hunt.
Undisturbed ==
    /\ LineTypes /\ Stream
    /\ \A k \in DOMAIN got : got[k] = k
    /\ hunting = FALSE /\ silence = 0
    /\ reader = "modem" => count = 0

InStepInv == losses \in Nat /\ (losses = 0 => Undisturbed)

(* The next frame is passed on whole. *)
LEMMA PassOnKeeps ==
    ASSUME LineTypes, Stream, \A k \in DOMAIN got : got[k] = k,
           rx # <<>>, NEW n, n = rx[1].n, Len(rx) >= n, Consume(n), PassOn(n),
           UNCHANGED <<cur, sent>>, count' \in Nat, count' <= Len(rx) - n
    PROVE  LineTypes' /\ Stream' /\ \A k \in DOMAIN got' : got'[k] = k
  <1>1. /\ Stream' /\ rx' \in Seq(LineByte) /\ Len(rx') = Len(rx) - n
        /\ got' = Append(got, Len(got) + 1)
    BY ConsumeKeepsStream
  <1>2. got \in Seq(Nat) /\ Len(got) \in Nat /\ DOMAIN got = 1 .. Len(got)
    BY DEF LineTypes
  <1>3. /\ got' \in Seq(Nat) /\ DOMAIN got' = 1 .. Len(got) + 1
        /\ \A k \in 1 .. Len(got) : got'[k] = got[k]
        /\ got'[Len(got) + 1] = Len(got) + 1
    BY <1>1, <1>2
  <1>4. \A k \in DOMAIN got' : got'[k] = k
    <2>1. \A k \in 1 .. Len(got) + 1 : k \in 1 .. Len(got) \/ k = Len(got) + 1
      BY <1>2
    <2>2. \A k \in 1 .. Len(got) : got[k] = k
      BY <1>2
    <2> QED
      BY <1>3, <2>1, <2>2
  <1> QED
    BY <1>1, <1>3, <1>4 DEF LineTypes

(* As long as nothing is lost each step of the line and of the two readers   *)
(* leaves the stream in step: no byte is skipped, no frame refused.          *)
LEMMA UndisturbedStep ==
    ASSUME Undisturbed, [ParserNext]_parser, ~ Lose
    PROVE  Undisturbed'
  <1> USE DEF Undisturbed
  <1>1. rx = <<>> \/ (Len(rx) \in Nat \ {0} /\ Head1 = Start)
    BY FirstFrame DEF LineTypes, Head1
  <1>2. Len(rx) \in Nat /\ count \in Nat /\ count <= Len(rx)
    BY DEF LineTypes
  <1>3. Len(rx) >= 1 => rx # <<>>
    BY <1>2
  <1>4. Len(rx) >= 3 => /\ LengthByte = rx[1].n /\ LengthByte \in Nat /\ LengthByte >= 3
                        /\ knownType(TypeByte)
                        /\ Len(rx) > LengthByte => rx[LengthByte + 1].v = Start
    BY <1>2, <1>3, FirstFrame, ParserAssumption DEF LengthByte, TypeByte, knownType
  <1>5. CASE UNCHANGED parser
    <2>1. UNCHANGED <<reader, rx, cur, got, sent, count, hunting, silence>>
      BY <1>5 DEF parser, line, host, modem, radio
    <2> QED
      BY <2>1 DEF LineTypes, Stream, WholeFrame, AllThere, ByteAt, Total
  <1>6. CASE SendFrame
    <2>1. UNCHANGED <<reader, rx, got, count, hunting, silence>>
      BY <1>6 DEF SendFrame, host, modem, radio
    <2>2. Stream' /\ cur' \in Seq(LineByte) /\ sent' \in Nat
      BY <1>6, SendKeepsStream
    <2> QED
      BY <2>1, <2>2 DEF LineTypes
  <1>7. CASE Carry
    <2>1. UNCHANGED <<reader, got, sent, count, hunting, silence>>
      BY <1>7 DEF Carry, host, modem, radio
    <2>2. Stream' /\ rx' \in Seq(LineByte) /\ cur' \in Seq(LineByte) /\ Len(rx') = Len(rx) + 1
      BY <1>7, CarryKeepsStream
    <2>3. count <= Len(rx')
      BY <1>2, <2>2
    <2> QED
      BY <2>1, <2>2, <2>3 DEF LineTypes
  <1>8. CASE modemRxFill
    <2>1. UNCHANGED <<reader, rx, cur, got, sent, hunting, silence>> /\ reader = "host"
      BY <1>8 DEF modemRxFill, line, modem, radio
    <2>2. count' \in Nat /\ count' <= Len(rx)
      BY <1>2, <1>8 DEF modemRxFill
    <2> QED
      BY <2>1, <2>2 DEF LineTypes, Stream, WholeFrame, AllThere, ByteAt, Total
  <1>9. CASE TimePasses
    <2>1. UNCHANGED <<reader, rx, cur, got, sent, count, hunting, silence>>
      BY <1>9 DEF TimePasses, line, host, radio
    <2> QED
      BY <2>1 DEF LineTypes, Stream, WholeFrame, AllThere, ByteAt, Total
  <1>10. ~ SkipToStart
    BY <1>1, <1>2 DEF SkipToStart, LineTypes
  <1>11. ~ NoFrameHere
    <2> SUFFICES ASSUME NoFrameHere PROVE FALSE
      OBVIOUS
    <2>1. count > 0 /\ rx # <<>>
      BY <1>2 DEF NoFrameHere
    <2>2. CASE count = Len(rx) /\ Pause /\ ~(count >= 3 /\ count >= LengthByte)
      <3>1. Len(rx) >= rx[1].n /\ rx[1].n >= 3 /\ rx[1].n \in Nat
        BY <2>1, <2>2, FirstFrame DEF Pause
      <3> QED
        BY <1>2, <1>4, <2>2, <3>1
    <2>3. CASE count >= 3 /\ LengthByte < 3
      BY <1>2, <1>4, <2>3
    <2> QED
      BY <2>2, <2>3 DEF NoFrameHere
  <1>12. ~ FalseFrame
    <2> SUFFICES ASSUME FalseFrame PROVE FALSE
      OBVIOUS
    <2>1. count >= 3 /\ count > LengthByte /\ rx[LengthByte + 1].v # Start
      BY DEF FalseFrame, Complete
    <2> QED
      BY <1>2, <1>4, <2>1
  <1>13. CASE TakeFrame
    <2>1. /\ count >= 3 /\ count >= LengthByte /\ PassOn(LengthByte) /\ Consume(LengthByte)
          /\ count' = count - LengthByte /\ hunting' = FALSE /\ UNCHANGED <<cur, sent, silence>>
          /\ reader' = reader /\ reader = "host"
      BY <1>13 DEF TakeFrame, Complete, line, modem, radio
    <2>2. PICK n : n = LengthByte
      OBVIOUS
    <2>3. n = rx[1].n /\ n \in Nat /\ rx # <<>> /\ Len(rx) >= n
      BY <1>2, <1>3, <1>4, <2>1, <2>2
    <2>4. count' \in Nat /\ count' <= Len(rx) - n
      BY <1>2, <2>1, <2>2, <2>3
    <2>5. Consume(n) /\ PassOn(n)
      BY <2>1, <2>2
    <2> QED
      BY <2>1, <2>3, <2>4, <2>5, PassOnKeeps
  <1>14. ~ BadHeader
    <2> SUFFICES ASSUME BadHeader PROVE FALSE
      OBVIOUS
    <2>1. rx # <<>> /\ (Head1 # Start \/ (HasHeader /\ (LengthByte < 3 \/ ~knownType(TypeByte))))
      BY DEF BadHeader
    <2>2. Len(rx) >= 3 /\ (LengthByte < 3 \/ ~knownType(TypeByte))
      BY <1>1, <2>1 DEF HasHeader
    <2> QED
      BY <1>4, <2>2
  <1>15. ~ UnlikelyFrame /\ ~ HuntOver
    BY DEF UnlikelyFrame, HuntOver, Hunting
  <1>16. ~ DamagedFrame
    <2> SUFFICES ASSUME DamagedFrame PROVE FALSE
      OBVIOUS
    <2>1. Len(rx) >= 3 /\ Len(rx) > LengthByte /\ rx[LengthByte + 1].v # Start
      BY DEF DamagedFrame, Whole, Believed, Usable, HasHeader
    <2> QED
      BY <1>4, <2>1
  <1>17. CASE HandleSamples \/ HandleCommand
    <2>1. /\ Len(rx) >= 3 /\ Len(rx) >= LengthByte /\ PassOn(LengthByte) /\ Consume(LengthByte)
          /\ UNCHANGED <<reader, cur, sent, count>> /\ count = 0
      BY <1>17 DEF HandleSamples, HandleCommand, Whole, Believed, Usable, HasHeader, line, host
    <2>2. hunting' = FALSE
      BY <1>17, Zenon DEF HandleSamples, HandleCommand
    <2>3. silence' = 0
      BY <1>17 DEF HandleSamples, BeginOrGoOn, HandleCommand, radio
    <2>4. PICK n : n = LengthByte
      OBVIOUS
    <2>5. n = rx[1].n /\ n \in Nat /\ rx # <<>> /\ Len(rx) >= n
      BY <1>2, <1>3, <1>4, <2>1, <2>4
    <2>6. Consume(n) /\ PassOn(n)
      BY <2>1, <2>4
    <2>7. count' \in Nat /\ count' <= Len(rx) - n
      BY <1>2, <2>1, <2>5
    <2> QED
      BY <2>1, <2>2, <2>3, <2>5, <2>6, <2>7, PassOnKeeps
  <1>18. CASE TransmissionEnds
    <2>1. UNCHANGED <<reader, rx, cur, got, sent, count, hunting, silence>>
      BY <1>18 DEF TransmissionEnds, line, host
    <2> QED
      BY <2>1 DEF LineTypes, Stream, WholeFrame, AllThere, ByteAt, Total
  <1> QED
    BY <1>5, <1>6, <1>7, <1>8, <1>9, <1>10, <1>11, <1>12, <1>13, <1>14, <1>15, <1>16, <1>17, <1>18
    DEF ParserNext, modemGetFrame, parseUart

LEMMA InStepInit == ParserInit => InStepInv
  <1> SUFFICES ASSUME ParserInit PROVE InStepInv
    OBVIOUS
  <1>1. rx = <<>> /\ cur = <<>> /\ got = <<>> /\ sent = 0 /\ count = 0
    BY DEF ParserInit
  <1>2. /\ rx \in Seq(LineByte) /\ cur \in Seq(LineByte) /\ got \in Seq(Nat)
        /\ Len(rx) = 0 /\ Len(cur) = 0 /\ Len(got) = 0 /\ DOMAIN got = {}
    BY <1>1
  <1>3. LineTypes
    BY <1>1, <1>2 DEF LineTypes
  <1>4. Total = 0
    BY <1>2 DEF Total
  <1>5. Stream
    BY <1>1, <1>2, <1>4 DEF Stream
  <1> QED
    BY <1>2, <1>3, <1>5 DEF ParserInit, InStepInv, Undisturbed

(* On a line that loses nothing modemGetFrame() and parseUart() pass on      *)
(* exactly the frames that were sent, in their order, and never hunt,        *)
(* whatever lengths frames have, whichever bytes their payloads are made of  *)
(* (start bytes too) and in whatever pieces the bytes arrive.                *)
THEOREM NothingLostNothingMissed == ParserSpec => []InStepIsExact
  <1>1. InStepInv /\ [ParserNext]_parser => InStepInv'
    <2> SUFFICES ASSUME InStepInv, [ParserNext]_parser PROVE InStepInv'
      OBVIOUS
    <2>1. CASE Lose
      BY <2>1 DEF InStepInv, Lose
    <2>2. CASE ~ Lose
      <3>1. losses' = losses
        BY <2>2 DEF ParserNext, SendFrame, Carry, modemGetFrame, modemRxFill, SkipToStart,
                    NoFrameHere, FalseFrame, TakeFrame, modemDiscard, TimePasses, parseUart,
                    BadHeader, UnlikelyFrame, HuntOver, DamagedFrame, HandleSamples, HandleCommand,
                    SkipByte, TransmissionEnds, parser, line
      <3> QED
        BY <2>2, <3>1, UndisturbedStep DEF InStepInv
    <2> QED
      BY <2>1, <2>2
  <1>2. InStepInv => InStepIsExact
    <2> SUFFICES ASSUME InStepInv, losses = 0
                 PROVE  /\ got = [k \in 1 .. Len(got) |-> k]
                        /\ ~hunting /\ silence = 0
                        /\ Drained => Len(got) = sent
      BY DEF InStepIsExact
    <2>1. Undisturbed
      BY DEF InStepInv
    <2>2. got = [k \in 1 .. Len(got) |-> k]
      BY <2>1 DEF Undisturbed, LineTypes
    <2>3. Drained => Len(got) = sent
      <3> SUFFICES ASSUME Drained PROVE Len(got) = sent
        OBVIOUS
      <3>1. Len(rx) = 0 /\ Len(cur) = 0
        BY DEF Drained
      <3>2. Total = 0
        BY <3>1 DEF Total
      <3> QED
        BY <2>1, <3>2 DEF Undisturbed, Stream
    <2> QED
      BY <2>1, <2>2, <2>3 DEF Undisturbed
  <1> QED
    BY <1>1, <1>2, InStepInit, PTL DEF ParserSpec

------------------------------------------------------------------------------
(* FrameParsers: damage does not reach far *)

\* Without lookalikes a start byte is the first byte of a frame, and what is being sent is the rest of
\* one frame.
Recognisable ==
    /\ \A k \in 1 .. Total : /\ ByteAt(k).v \in Value
                             /\ ByteAt(k).v = Start <=> ByteAt(k).i = 1
                             /\ ByteAt(k).f <= sent
    /\ \A j \in 1 .. Len(cur) : cur[j].f = sent /\ (j > 1 => cur[j].i # 1)
    /\ far \subseteq 1 .. sent

\* The frame at s has lost bytes; whatever length is read there, it does not reach a frame that is far
\* from damage, and will not reach the next one to be sent if that is far.
OutOfReach(s) ==
    /\ s + since <= Len(rx)
    /\ \A p \in 1 .. Total : p > s /\ ByteAt(p).i = 1 /\ ByteAt(p).f \in far => s + Reach <= p

DamageEnds == \A s \in 1 .. Total : ByteAt(s).i = 1 => AllThere(s) \/ OutOfReach(s)

\* Frame k is in the stream at p, whole, with nothing but the start of the next frame behind it.
PlaceOf(k, p) ==
    /\ ByteAt(p).i = 1 /\ ByteAt(p).f = k /\ WholeFrame(p)
    /\ reader = "modem" => ByteAt(p).n \in Usual
OnItsWay(k) == \E p \in 1 .. Total : PlaceOf(k, p)
Taken(k) == \E i \in DOMAIN got : got[i] = k

FarFramesCome == \A k \in far : Taken(k) \/ OnItsWay(k)

Located == Recognisable /\ DamageEnds /\ FarFramesCome

LocalInv ==
    /\ LineTypes /\ since \in Nat
    /\ reader = "modem" => count = 0
    /\ Without({"lookalike"}) => Located

(* No byte read as a length is larger than Reach: there is a largest one     *)
(* because the backlog is larger than all of them.                           *)
LEMMA ReachIsLargest == Reach \in Nat /\ \A v \in Value : v <= Reach
  <1>1. Value \subseteq Nat /\ Start \in Value /\ Backlog \in Nat /\ \A v \in Value : Backlog > v
    BY ParserAssumption DEF Value
  <1>2. PICK T : T = {Backlog - v : v \in Value}
    OBVIOUS
  <1>3. T \subseteq Nat /\ T # {}
    BY <1>1, <1>2
  <1>4. PICK x \in T : \A y \in T : ~ (<<y, x>> \in OpToRel(<, Nat))
    BY <1>3, NatLessThanWellFounded, WFMin
  <1>5. PICK v \in Value : x = Backlog - v
    BY <1>2
  <1>6. ASSUME NEW w \in Value
        PROVE  w <= v
    <2>1. Backlog - w \in T /\ Backlog - w \in Nat /\ x \in Nat
      BY <1>2, <1>3
    <2>2. ~ (<<Backlog - w, x>> \in OpToRel(<, Nat))
      BY <1>4, <2>1
    <2>3. ~ (Backlog - w < x)
      BY <2>1, <2>2 DEF OpToRel
    <2> QED
      BY <1>1, <1>5, <2>3
  <1>7. \E r \in Value : \A w \in Value : w <= r
    BY <1>6
  <1>8. Reach \in Value /\ \A w \in Value : w <= Reach
    BY <1>7 DEF Reach
  <1> QED
    BY <1>1, <1>8

(* The same bytes at another place are the same frame. *)
LEMMA SameFrame ==
    ASSUME NEW s \in Nat, AllThere(s), NEW u \in Nat, u > 0, NEW m \in Nat, m = ByteAt(s).n,
           u + m <= Total' + 1,
           \A j \in 1 .. m : ByteAt((u - 1) + j)' = ByteAt((s - 1) + j)
    PROVE  AllThere(u)' /\ ByteAt(u)'.i = 1 /\ ByteAt(u)'.n = m /\ ByteAt(u)'.f = ByteAt(s).f
  <1>1. m \in Lengths /\ m >= 3
    BY LengthFacts DEF AllThere
  <1>2. \A j \in 1 .. m : IsByte(ByteAt((u - 1) + j)', ByteAt(s).f, m, j)
    BY DEF AllThere
  <1>3. (u - 1) + 1 = u /\ 1 \in 1 .. m
    BY <1>1
  <1>4. ByteAt(u)'.i = 1 /\ ByteAt(u)'.n = m /\ ByteAt(u)'.f = ByteAt(s).f
    BY <1>2, <1>3 DEF IsByte
  <1> QED
    BY <1>1, <1>2, <1>4 DEF AllThere

(* The bytes of one frame, at whatever place, and a frame that begins behind *)
(* its first byte do not overlap.                                            *)
LEMMA BehindFrame ==
    ASSUME NEW s \in Nat, AllThere(s), NEW p \in Nat, p > s, ByteAt(p).i = 1
    PROVE  s + ByteAt(s).n <= p
  <1>1. PICK m : m = ByteAt(s).n
    OBVIOUS
  <1>2. m \in Nat
    BY <1>1, LengthFacts DEF AllThere
  <1>3. ASSUME p < s + m
        PROVE  FALSE
    <2>1. PICK j : j = (p - s) + 1
      OBVIOUS
    <2>2. j \in 1 .. m /\ j # 1 /\ (s - 1) + j = p
      BY <1>2, <1>3, <2>1
    <2>3. IsByte(ByteAt((s - 1) + j), ByteAt(s).f, m, j)
      BY <1>1, <2>2 DEF AllThere
    <2> QED
      BY <2>2, <2>3 DEF IsByte
  <1> QED
    BY <1>1, <1>2, <1>3

(* The length that is read at a start byte does not reach into a frame that  *)
(* is far from damage.                                                       *)
LEMMA FarIsAhead ==
    ASSUME LineTypes, Located, Len(rx) >= 3, Head1 = Start,
           NEW p \in 1 .. Total, p > 1, ByteAt(p).i = 1, ByteAt(p).f \in far
    PROVE  LengthByte \in Nat /\ LengthByte < p
  <1>1. Len(rx) \in Nat /\ Len(cur) \in Nat /\ Total \in Nat /\ Total >= 3 /\ p \in Nat
    BY DEF LineTypes, Total
  <1>2. ByteAt(1) = rx[1] /\ ByteAt(2) = rx[2]
    BY <1>1, AtType
  <1>3. ByteAt(1).i = 1 /\ LengthByte \in Value
    BY <1>1, <1>2 DEF Located, Recognisable, Head1, LengthByte
  <1>4. LengthByte \in Nat /\ LengthByte <= Reach /\ Reach \in Nat
    BY <1>3, ReachIsLargest, ParserAssumption
  <1>5. CASE AllThere(1)
    <2>1. 1 + ByteAt(1).n <= p
      BY <1>1, <1>5, BehindFrame
    <2>2. ByteAt(1).n \in Nat /\ ByteAt(1).n >= 3
      BY <1>5, LengthFacts DEF AllThere
    <2>3. IsByte(ByteAt((1 - 1) + 2), ByteAt(1).f, ByteAt(1).n, 2)
      BY <1>5, <2>2 DEF AllThere
    <2>4. (1 - 1) + 2 = 2
      OBVIOUS
    <2>5. LengthByte = ByteAt(1).n
      BY <1>2, <2>3, <2>4 DEF IsByte, LengthByte
    <2> QED
      BY <1>1, <1>4, <2>1, <2>2, <2>5
  <1>6. CASE OutOfReach(1)
    <2>1. 1 + Reach <= p
      BY <1>6 DEF OutOfReach
    <2> QED
      BY <1>1, <1>4, <2>1
  <1> QED
    BY <1>1, <1>3, <1>5, <1>6 DEF Located, DamageEnds

(* The reader takes n bytes, and if a whole frame that is far from damage is *)
(* among them it has passed it on.                                           *)
LEMMA ConsumeKeepsLocated ==
    ASSUME LineTypes, Located, since \in Nat, NEW n \in Nat, n <= Len(rx), Consume(n),
           UNCHANGED <<cur, sent, since, far, reader>>,
           \A k : Taken(k) => Taken(k)',
           \A k \in far : Taken(k)' \/ \A p \in 1 .. n : ~ PlaceOf(k, p)
    PROVE  Located'
  <1>1. /\ Len(rx') = Len(rx) - n /\ Len(rx') \in Nat /\ Len(rx) \in Nat
        /\ Total \in Nat /\ Total' = Total - n
    BY ConsumeBytes DEF LineTypes
  <1>2. \A k \in Nat : k > 0 /\ k + n <= Total => ByteAt(k)' = ByteAt(k + n)
    BY ConsumeBytes
  <1>3. \A k \in 1 .. Total' : k \in Nat /\ k > 0 /\ k + n \in 1 .. Total /\ ByteAt(k)' = ByteAt(k + n)
    BY <1>1, <1>2
  <1>4. Recognisable'
    BY <1>3 DEF Located, Recognisable
  <1>5. ASSUME NEW s \in 1 .. Total', ByteAt(s)'.i = 1
        PROVE  (AllThere(s) \/ OutOfReach(s))'
    <2>1. PICK t \in 1 .. Total : t = s + n
      BY <1>3
    <2>2. s \in Nat /\ s > 0 /\ t \in Nat /\ ByteAt(t).i = 1
      BY <1>3, <1>5, <2>1
    <2>3. CASE AllThere(t)
      <3>1. PICK m : m = ByteAt(t).n
        OBVIOUS
      <3>2. m \in Nat /\ t + m <= Total + 1
        BY <2>3, <3>1, LengthFacts DEF AllThere
      <3>3. s + m <= Total' + 1
        BY <1>1, <2>1, <2>2, <3>2
      <3>4. ASSUME NEW j \in 1 .. m
            PROVE  ByteAt((s - 1) + j)' = ByteAt((t - 1) + j)
        <4>1. PICK k \in Nat : k = (s - 1) + j
          BY <2>2, <3>2
        <4>2. k > 0 /\ k + n <= Total /\ k + n = (t - 1) + j
          BY <1>1, <2>1, <2>2, <3>2, <4>1
        <4>3. ByteAt(k)' = ByteAt(k + n)
          BY <1>2, <4>2
        <4> QED
          BY <4>1, <4>2, <4>3
      <3> QED
        BY <2>2, <2>3, <3>1, <3>2, <3>3, <3>4, SameFrame
    <2>4. CASE OutOfReach(t)
      <3>1. since' = since /\ t + since <= Len(rx)
        BY <2>4 DEF OutOfReach
      <3>2. s + since' <= Len(rx')
        BY <1>1, <2>1, <2>2, <3>1
      <3>3. ASSUME NEW p \in 1 .. Total', p > s, ByteAt(p)'.i = 1, ByteAt(p)'.f \in far'
            PROVE  s + Reach <= p
        <4>1. PICK q \in 1 .. Total : q = p + n
          BY <1>3
        <4>2. ByteAt(q) = ByteAt(p)' /\ q > t
          BY <1>1, <1>3, <2>1, <2>2, <3>3, <4>1
        <4>3. t + Reach <= q
          BY <2>4, <3>3, <4>2 DEF OutOfReach
        <4> QED
          BY <1>1, <2>1, <2>2, <4>1, <4>3, ReachIsLargest
      <3> QED
        BY <3>2, <3>3 DEF OutOfReach
    <2> QED
      BY <2>2, <2>3, <2>4 DEF Located, DamageEnds
  <1>6. ASSUME NEW k \in far
        PROVE  (Taken(k) \/ OnItsWay(k))'
    <2>1. CASE Taken(k)
      BY <2>1
    <2>2. CASE OnItsWay(k)
      <3>1. PICK p \in 1 .. Total : PlaceOf(k, p)
        BY <2>2 DEF OnItsWay
      <3>2. CASE p > n
        <4>1. PICK s \in 1 .. Total' : p = s + n
          <5>1. p - n \in 1 .. Total' /\ p = (p - n) + n
            BY <1>1, <3>2
          <5> QED
            BY <5>1
        <4>2. s \in Nat /\ s > 0 /\ s + n <= Total /\ ByteAt(s)' = ByteAt(p)
          BY <1>1, <1>3, <4>1
        <4>3. WholeFrame(s)'
          <5>1. WholeFrame(s + n)
            BY <3>1, <4>1 DEF PlaceOf
          <5> QED
            BY <1>1, <1>2, <4>2, <5>1, FrameMovesUp, Zenon
        <4> QED
          BY <3>1, <4>2, <4>3 DEF OnItsWay, PlaceOf
      <3>3. CASE ~ (p > n)
        <4>1. p \in 1 .. n
          BY <1>1, <3>3
        <4> QED
          BY <3>1, <4>1
      <3> QED
        BY <3>2, <3>3
    <2> QED
      BY <2>1, <2>2 DEF Located, FarFramesCome
  <1> QED
    BY <1>4, <1>5, <1>6 DEF Located, DamageEnds, FarFramesCome

LEMMA PassOnAdds ==
    ASSUME LineTypes, rx # <<>>, NEW n, PassOn(n)
    PROVE  /\ got' \in Seq(Nat)
           /\ \A k : Taken(k) => Taken(k)'
           /\ \A k : k = WhatWasSent(n) => Taken(k)'
  <1>1. PICK w : w = WhatWasSent(n)
    OBVIOUS
  <1>2. rx[1] \in LineByte
    BY DEF LineTypes
  <1>3. w \in Nat /\ got' = Append(got, w) /\ got \in Seq(Nat)
    BY <1>1, <1>2 DEF WhatWasSent, PassOn, LineTypes, LineByte
  <1>4. /\ got' \in Seq(Nat) /\ DOMAIN got = 1 .. Len(got) /\ DOMAIN got' = 1 .. Len(got) + 1
        /\ \A i \in 1 .. Len(got) : got'[i] = got[i]
        /\ got'[Len(got) + 1] = w /\ Len(got) \in Nat
    BY <1>3
  <1>5. \A i \in DOMAIN got : i \in DOMAIN got' /\ got'[i] = got[i]
    BY <1>4
  <1>6. Len(got) + 1 \in DOMAIN got'
    BY <1>4
  <1> QED
    BY <1>1, <1>4, <1>5, <1>6 DEF Taken

(* A frame in front that is far from damage looks like a frame to both       *)
(* readers.                                                                  *)
LEMMA FarFrameInFront ==
    ASSUME LineTypes, Located, rx # <<>>, NEW k, PlaceOf(k, 1)
    PROVE  /\ Head1 = Start /\ rx[1].n \in Nat /\ rx[1].n >= 3
           /\ Len(rx) >= 3 => /\ LengthByte = rx[1].n /\ TypeByte \in {Samp, Cmd}
                              /\ reader = "modem" => LengthByte \in Usual
           /\ Len(rx) > rx[1].n => rx[rx[1].n + 1].v = Start
           /\ Len(rx) >= rx[1].n => WhatWasSent(rx[1].n) = k
           /\ cur = <<>> => Len(rx) >= rx[1].n
  <1>1. WholeFrame(1) /\ ByteAt(1).f = k /\ (reader = "modem" => ByteAt(1).n \in Usual)
    BY DEF PlaceOf
  <1>2. Len(rx) \in Nat /\ Len(cur) \in Nat /\ Total \in Nat /\ Total = Len(rx) + Len(cur)
    BY DEF LineTypes, Total
  <1>3. Len(rx) > rx[1].n => rx[rx[1].n + 1].v = Start
    <2> SUFFICES ASSUME Len(rx) > rx[1].n PROVE rx[rx[1].n + 1].v = Start
      OBVIOUS
    <2>1. PICK s : s = rx[1].n + 1
      OBVIOUS
    <2>2. s \in 1 .. Len(rx) /\ s \in 1 .. Total
      BY <1>1, <1>2, <2>1, FrameInFront
    <2>3. ByteAt(s) = rx[s] /\ rx[s].i = 1
      BY <1>1, <2>1, <2>2, AtType, FrameInFront
    <2> QED
      BY <2>1, <2>2, <2>3 DEF Located, Recognisable
  <1>4. rx[1].n \in Nat /\ rx[1].n >= 3 /\ ByteAt(1) = rx[1] /\ Head1 = Start
    BY <1>1, FrameInFront DEF Head1
  <1>5. Len(rx) >= 3 => LengthByte = rx[1].n /\ TypeByte \in {Samp, Cmd}
    BY <1>1, <1>2, FrameInFront DEF LengthByte, TypeByte
  <1>6. /\ Len(rx) >= rx[1].n => WhatWasSent(rx[1].n) = k
        /\ cur = <<>> => Len(rx) >= rx[1].n
    BY <1>1, <1>4, FrameInFront
  <1> QED
    BY <1>1, <1>3, <1>4, <1>5, <1>6

(* A reader that drops a byte which is not the first one of such a frame     *)
(* loses none.                                                               *)
LEMMA SkipKeepsLocated ==
    ASSUME LineTypes, Located, since \in Nat, rx # <<>>, Consume(1),
           UNCHANGED <<cur, sent, since, far, reader, got>>,
           \A k \in far : ~ PlaceOf(k, 1)
    PROVE  Located'
  <1>1. 1 \in Nat /\ 1 <= Len(rx)
    BY DEF LineTypes
  <1>2. \A k : Taken(k) => Taken(k)'
    BY DEF Taken
  <1>3. \A k \in far : \A p \in 1 .. 1 : ~ PlaceOf(k, p)
    OBVIOUS
  <1> QED
    BY <1>1, <1>2, <1>3, ConsumeKeepsLocated

(* What a reader takes for a frame is one that was sent, or ends in front of *)
(* the next one that is far from damage.                                     *)
LEMMA TakeKeepsLocated ==
    ASSUME LineTypes, Located, since \in Nat, Len(rx) >= 3, Head1 = Start,
           LengthByte \in Nat, LengthByte <= Len(rx), Consume(LengthByte), PassOn(LengthByte),
           UNCHANGED <<cur, sent, since, far, reader>>
    PROVE  Located'
  <1>1. PICK n \in Nat : n = LengthByte
    OBVIOUS
  <1>2. Len(rx) \in Nat /\ rx # <<>> /\ Total \in Nat /\ Len(rx) <= Total
    BY DEF LineTypes, Total
  <1>3. \A k : Taken(k) => Taken(k)'
    BY <1>1, <1>2, PassOnAdds
  <1>4. ASSUME NEW k \in far, NEW p \in 1 .. n, PlaceOf(k, p)
        PROVE  Taken(k)'
    <2>1. p \in 1 .. Total /\ ByteAt(p).i = 1 /\ ByteAt(p).f \in far
      BY <1>1, <1>2, <1>4 DEF PlaceOf
    <2>2. ~ (p > 1)
      BY <1>1, <2>1, FarIsAhead
    <2>3. p = 1
      BY <2>1, <2>2
    <2>4. n = rx[1].n /\ WhatWasSent(n) = k
      BY <1>1, <1>2, <1>4, <2>3, FarFrameInFront
    <2> QED
      BY <1>1, <1>2, <2>4, PassOnAdds
  <1> QED
    BY <1>1, <1>3, <1>4, ConsumeKeepsLocated

LEMMA CarryKeepsLocated ==
    ASSUME LineTypes, Located, since \in Nat, Carry
    PROVE  Located'
  <1>1. /\ UNCHANGED <<reader, got, sent, far>>
        /\ since' \in Nat /\ since' <= since + 1
    BY DEF Carry
  <1>2. /\ Len(rx') = Len(rx) + 1 /\ Len(rx) \in Nat /\ Total' = Total /\ Total \in Nat
        /\ Len(cur') = Len(cur) - 1 /\ Len(cur) \in Nat
        /\ \A k \in 1 .. Len(cur) - 1 : cur'[k] = cur[k + 1]
    BY CarryBytes DEF LineTypes
  <1>3. \A k \in 1 .. Total : k \in Nat /\ k > 0 /\ ByteAt(k)' = ByteAt(k)
    BY <1>2, CarryBytes
  <1>4. Recognisable'
    <2>1. \A j \in 1 .. Len(cur') : j + 1 \in 1 .. Len(cur) /\ j + 1 > 1 /\ cur'[j] = cur[j + 1]
      BY <1>2
    <2> QED
      BY <1>1, <1>2, <1>3, <2>1 DEF Located, Recognisable
  <1>5. ASSUME NEW s \in 1 .. Total, ByteAt(s).i = 1
        PROVE  (AllThere(s) \/ OutOfReach(s))'
    <2>1. CASE AllThere(s)
      <3>1. PICK m : m = ByteAt(s).n
        OBVIOUS
      <3>2. m \in Nat /\ s + m <= Total' + 1 /\ s \in Nat /\ s > 0
        BY <1>2, <1>3, <2>1, <3>1, LengthFacts DEF AllThere
      <3>3. \A j \in 1 .. m : (s - 1) + j \in 1 .. Total
        BY <1>2, <3>2
      <3> QED
        BY <1>3, <2>1, <3>1, <3>2, <3>3, SameFrame
    <2>2. CASE OutOfReach(s)
      <3>1. s + since' <= Len(rx')
        BY <1>1, <1>2, <2>2 DEF OutOfReach
      <3> QED
        BY <1>1, <1>2, <1>3, <2>2, <3>1 DEF OutOfReach
    <2> QED
      BY <1>5, <2>1, <2>2 DEF Located, DamageEnds
  <1>6. ASSUME NEW k \in far
        PROVE  (Taken(k) \/ OnItsWay(k))'
    <2>1. CASE Taken(k)
      BY <1>1, <2>1 DEF Taken
    <2>2. CASE OnItsWay(k)
      <3>1. PICK p \in 1 .. Total : PlaceOf(k, p)
        BY <2>2 DEF OnItsWay
      <3>2. WholeFrame(p)'
        BY <3>1, CarryKeepsFrame DEF PlaceOf
      <3>3. PlaceOf(k, p)'
        BY <1>1, <1>3, <3>1, <3>2 DEF PlaceOf
      <3> QED
        BY <1>2, <3>3 DEF OnItsWay
    <2> QED
      BY <2>1, <2>2 DEF Located, FarFramesCome
  <1> QED
    BY <1>1, <1>2, <1>3, <1>4, <1>5, <1>6 DEF Located, DamageEnds, FarFramesCome

(* A frame is begun whose payload has no start byte.  It is far from damage  *)
(* only if a whole reach of bytes has been carried since the last loss.      *)
LEMMA SendKeepsLocated ==
    ASSUME LineTypes, Located, since \in Nat, SendFrame, "lookalike" \notin troubles'
    PROVE  Located'
  <1>1. /\ UNCHANGED <<reader, rx, got, since>> /\ sent' = sent + 1 /\ sent \in Nat /\ Len(rx) \in Nat
    BY DEF SendFrame, LineTypes
  <1>2. PICK n \in Lengths, p \in Filler, T \in Nat :
             /\ n \in Nat /\ n >= 3 /\ cur = <<>> /\ T = Total /\ Total = Len(rx) /\ Total' = T + n
             /\ cur' = Frame(sent + 1, n, IF n = Long THEN Samp ELSE Cmd, p)
             /\ far' = IF since = Reach /\ (reader = "host" \/ n \in Usual) THEN far \cup {sent + 1} ELSE far
             /\ NoteIf(p = Start /\ n > Short, "lookalike")
             /\ cur' \in Seq(LineByte) /\ Len(cur') = n
             /\ \A k \in Nat : k <= T => ByteAt(k)' = ByteAt(k)
             /\ \A j \in 1 .. n : ByteAt(T + j)' = cur'[j] /\ IsByte(cur'[j], sent + 1, n, j)
    BY SendBytes
  <1>3. ASSUME NEW j \in 1 .. n
        PROVE  /\ cur'[j].v \in Value /\ (cur'[j].v = Start <=> j = 1)
               /\ cur'[j].f = sent' /\ cur'[j].i = j /\ cur'[j].n = n
    <2>1. ~ (p = Start /\ n > Short)
      BY <1>2 DEF NoteIf
    <2>2. cur'[j].v = IF j = 1 THEN Start ELSE IF j = 2 THEN n
                      ELSE IF j = 3 THEN (IF n = Long THEN Samp ELSE Cmd) ELSE p
      BY <1>2 DEF Frame
    <2>3. n \in Value /\ Start \in Value /\ Samp \in Value /\ Cmd \in Value /\ p \in Value
      BY DEF Value
    <2>4. n # Start /\ Samp # Start /\ Cmd # Start /\ Short = 3
      BY ParserAssumption
    <2>5. j > 3 => p # Start
      BY <1>2, <2>1, <2>4
    <2>6. cur'[j].v \in Value
      BY <2>2, <2>3
    <2>7. cur'[j].v = Start <=> j = 1
      BY <1>2, <2>2, <2>4, <2>5
    <2>8. cur'[j].f = sent' /\ cur'[j].i = j /\ cur'[j].n = n
      BY <1>1, <1>2 DEF IsByte
    <2> QED
      BY <2>6, <2>7, <2>8
  <1>4. ASSUME NEW k \in 1 .. Total'
        PROVE  \/ k \in 1 .. Total /\ ByteAt(k)' = ByteAt(k)
               \/ \E j \in 1 .. n : k = T + j /\ ByteAt(k)' = cur'[j]
    <2>1. CASE k <= T
      BY <1>2, <2>1
    <2>2. CASE k > T
      <3>1. PICK j : j = k - T
        OBVIOUS
      <3>2. k \in 1 .. T + n /\ n \in Nat
        BY <1>2
      <3>3. j \in 1 .. n /\ k = T + j
        BY <2>2, <3>1, <3>2
      <3> QED
        BY <1>2, <3>3
    <2> QED
      BY <1>2, <2>1, <2>2
  <1>5. Recognisable'
    <2>1. ASSUME NEW k \in 1 .. Total'
          PROVE  /\ ByteAt(k)'.v \in Value /\ (ByteAt(k)'.v = Start <=> ByteAt(k)'.i = 1)
                 /\ ByteAt(k)'.f <= sent'
      <3>1. CASE k \in 1 .. Total /\ ByteAt(k)' = ByteAt(k)
        <4>1. ByteAt(k) \in LineByte /\ ByteAt(k).f \in Nat
          BY <3>1, AtType DEF LineByte
        <4> QED
          BY <1>1, <3>1, <4>1 DEF Located, Recognisable
      <3>2. CASE \E j \in 1 .. n : k = T + j /\ ByteAt(k)' = cur'[j]
        BY <1>1, <1>3, <3>2
      <3> QED
        BY <1>4, <3>1, <3>2
    <2>2. \A j \in 1 .. Len(cur') : cur'[j].f = sent' /\ (j > 1 => cur'[j].i # 1)
      BY <1>2, <1>3
    <2>3. far' \subseteq 1 .. sent'
      BY <1>1, <1>2 DEF Located, Recognisable
    <2> QED
      BY <2>1, <2>2, <2>3 DEF Recognisable
  <1>6. WholeFrame(T + 1)' /\ ByteAt(T + 1)'.i = 1 /\ ByteAt(T + 1)'.f = sent + 1
    BY <1>2, SendAddsFrame
  <1>7. ASSUME NEW s \in 1 .. Total', ByteAt(s)'.i = 1
        PROVE  (AllThere(s) \/ OutOfReach(s))'
    <2>1. CASE s = T + 1
      <3>1. WholeFrame(s)'
        BY <1>6, <2>1
      <3> QED
        BY <3>1 DEF WholeFrame
    <2>2. CASE s # T + 1
      <3>1. s \in 1 .. Total /\ ByteAt(s)' = ByteAt(s) /\ s \in Nat /\ s > 0
        <4>1. ~ \E j \in 1 .. n : s = T + j /\ ByteAt(s)' = cur'[j]
          BY <1>3, <1>7, <2>2
        <4> QED
          BY <1>4, <4>1
      <3>2. CASE AllThere(s)
        <4>1. PICK m : m = ByteAt(s).n
          OBVIOUS
        <4>2. m \in Nat /\ s + m <= Total + 1
          BY <3>2, <4>1, LengthFacts DEF AllThere
        <4>3. s + m <= Total' + 1
          BY <1>2, <3>1, <4>2
        <4>4. \A j \in 1 .. m : (s - 1) + j \in Nat /\ (s - 1) + j <= T
          BY <1>2, <3>1, <4>2
        <4>5. \A j \in 1 .. m : ByteAt((s - 1) + j)' = ByteAt((s - 1) + j)
          BY <1>2, <4>4
        <4> QED
          BY <3>1, <3>2, <4>1, <4>2, <4>3, <4>5, SameFrame
      <3>3. CASE OutOfReach(s)
        <4>1. s + since <= Len(rx)
          BY <3>3 DEF OutOfReach
        <4>2. ASSUME NEW q \in 1 .. Total', q > s, ByteAt(q)'.i = 1, ByteAt(q)'.f \in far'
              PROVE  s + Reach <= q
          <5>1. CASE q \in 1 .. Total /\ ByteAt(q)' = ByteAt(q)
            <6>1. ByteAt(q) \in LineByte /\ ByteAt(q).f \in Nat /\ ByteAt(q).f <= sent
              BY <5>1, AtType DEF LineByte, Located, Recognisable
            <6>2. ByteAt(q).f # sent + 1
              BY <1>1, <6>1
            <6>3. ByteAt(q).f \in far
              BY <1>2, <4>2, <5>1, <6>2
            <6> QED
              BY <3>3, <4>2, <5>1, <6>3 DEF OutOfReach
          <5>2. CASE \E j \in 1 .. n : q = T + j /\ ByteAt(q)' = cur'[j]
            <6>1. q = T + 1 /\ ByteAt(q)'.f = sent + 1
              BY <1>1, <1>3, <4>2, <5>2
            <6>2. CASE since = Reach
              BY <1>1, <1>2, <3>1, <4>1, <6>1, <6>2
            <6>3. CASE since # Reach
              <7>1. sent + 1 \in far
                BY <1>2, <4>2, <6>1, <6>3
              <7> QED
                BY <1>1, <7>1 DEF Located, Recognisable
            <6> QED
              BY <6>2, <6>3
          <5> QED
            BY <1>4, <5>1, <5>2
        <4> QED
          BY <1>1, <4>1, <4>2 DEF OutOfReach
      <3> QED
        BY <1>7, <3>1, <3>2, <3>3 DEF Located, DamageEnds
    <2> QED
      BY <2>1, <2>2
  <1>8. ASSUME NEW k \in far'
        PROVE  (Taken(k) \/ OnItsWay(k))'
    <2>1. CASE k \in far
      <3>1. CASE Taken(k)
        BY <1>1, <3>1 DEF Taken
      <3>2. CASE OnItsWay(k)
        <4>1. PICK q \in 1 .. Total : PlaceOf(k, q)
          BY <3>2 DEF OnItsWay
        <4>2. WholeFrame(q)'
          BY <4>1, SendKeepsFrame DEF PlaceOf
        <4>3. ByteAt(q)' = ByteAt(q) /\ q \in 1 .. Total'
          BY <1>2
        <4>4. PlaceOf(k, q)'
          BY <1>1, <4>1, <4>2, <4>3 DEF PlaceOf
        <4> QED
          BY <4>3, <4>4 DEF OnItsWay
      <3> QED
        BY <2>1, <3>1, <3>2 DEF Located, FarFramesCome
    <2>2. CASE k \notin far
      <3>1. k = sent + 1 /\ (reader = "host" \/ n \in Usual)
        BY <1>2, <1>8, <2>2
      <3>2. ByteAt(T + 1)'.n = n /\ T + 1 \in 1 .. Total'
        BY <1>2, <1>3
      <3>3. PICK q : q = T + 1
        OBVIOUS
      <3>4. PlaceOf(k, q)'
        BY <1>1, <1>6, <3>1, <3>2, <3>3 DEF PlaceOf
      <3> QED
        BY <3>2, <3>3, <3>4 DEF OnItsWay
    <2> QED
      BY <2>1, <2>2
  <1> QED
    BY <1>5, <1>7, <1>8 DEF Located, DamageEnds, FarFramesCome

(* A byte is lost: bytes that have arrived stay, and no frame begins behind  *)
(* them.                                                                     *)
LEMMA LoseBytes ==
    ASSUME LineTypes, Located, Lose
    PROVE  /\ cur' \in Seq(LineByte) /\ Len(cur) \in Nat /\ Len(cur) > 0 /\ Len(rx) \in Nat
           /\ Total \in Nat /\ Total' = Total - 1 /\ Total = Len(rx) + Len(cur)
           /\ \A k \in Nat : k <= Len(rx) => ByteAt(k)' = ByteAt(k)
           /\ \A k \in 1 .. Total' : k > Len(rx) => /\ k + 1 \in 1 .. Total /\ ByteAt(k)' = ByteAt(k + 1)
                                                    /\ ByteAt(k)'.i # 1
           /\ \A k \in 1 .. Total : k > Len(rx) => ByteAt(k).f = sent
           /\ Recognisable'
  <1>1. cur # <<>> /\ cur' = Tail(cur) /\ UNCHANGED <<rx, sent>> /\ far' \subseteq far
    BY DEF Lose
  <1>2. /\ Len(cur) \in Nat /\ Len(cur) > 0 /\ Len(rx) \in Nat
        /\ cur' \in Seq(LineByte) /\ Len(cur') = Len(cur) - 1
        /\ \A k \in 1 .. Len(cur) - 1 : cur'[k] = cur[k + 1]
    BY <1>1 DEF LineTypes
  <1>3. Total \in Nat /\ Total' = Total - 1 /\ Total = Len(rx) + Len(cur)
    BY <1>1, <1>2 DEF Total
  <1>4. \A k \in Nat : k <= Len(rx) => ByteAt(k)' = ByteAt(k)
    BY <1>1 DEF ByteAt
  <1>5. ASSUME NEW k \in 1 .. Total, k > Len(rx)
        PROVE  ByteAt(k).f = sent /\ k - Len(rx) \in 1 .. Len(cur) /\ ByteAt(k) = cur[k - Len(rx)]
    <2>1. k - Len(rx) \in 1 .. Len(cur) /\ ~ (k <= Len(rx))
      BY <1>2, <1>3, <1>5
    <2>2. ByteAt(k) = cur[k - Len(rx)]
      BY <2>1 DEF ByteAt
    <2> QED
      BY <2>1, <2>2 DEF Located, Recognisable
  <1>6. ASSUME NEW k \in 1 .. Total', k > Len(rx)
        PROVE  k + 1 \in 1 .. Total /\ ByteAt(k)' = ByteAt(k + 1) /\ ByteAt(k)'.i # 1
    <2>1. PICK j : j = k - Len(rx)
      OBVIOUS
    <2>2. /\ j \in 1 .. Len(cur) - 1 /\ j + 1 \in 1 .. Len(cur) /\ j + 1 > 1
          /\ ~ (k <= Len(rx)) /\ ~ (k + 1 <= Len(rx)) /\ (k + 1) - Len(rx) = j + 1
          /\ k + 1 \in 1 .. Total
      BY <1>2, <1>3, <1>6, <2>1
    <2>3. ByteAt(k)' = cur'[j]
      BY <1>1, <2>1, <2>2 DEF ByteAt
    <2>4. ByteAt(k + 1) = cur[j + 1]
      BY <2>2 DEF ByteAt
    <2>5. cur[j + 1].i # 1
      BY <2>2 DEF Located, Recognisable
    <2> QED
      BY <1>2, <2>2, <2>3, <2>4, <2>5
  <1>7. Recognisable'
    <2>1. ASSUME NEW k \in 1 .. Total'
          PROVE  \E m \in 1 .. Total : ByteAt(k)' = ByteAt(m)
      <3>1. CASE k <= Len(rx)
        BY <1>2, <1>3, <1>4, <3>1
      <3>2. CASE k > Len(rx)
        BY <1>6, <3>2
      <3> QED
        BY <1>2, <1>3, <3>1, <3>2
    <2>2. \A j \in 1 .. Len(cur') : j + 1 \in 1 .. Len(cur) /\ j + 1 > 1 /\ cur'[j] = cur[j + 1]
      BY <1>2
    <2> QED
      BY <1>1, <2>1, <2>2 DEF Located, Recognisable
  <1> QED
    BY <1>2, <1>3, <1>4, <1>5, <1>6, <1>7

(* The frame of the lost byte is out of reach of what will be far, and all   *)
(* the frames that are far still have arrived, with the start of the next.   *)
LEMMA LoseKeepsLocated ==
    ASSUME LineTypes, Located, Lose
    PROVE  Located'
  <1>1. /\ UNCHANGED <<rx, sent, got, reader>> /\ since' = 0 /\ cur # <<>> /\ sent \in Nat
        /\ far' = far \ {Head(cur).f, IF Head(cur).i = 1 THEN Head(cur).f - 1 ELSE Head(cur).f}
    BY DEF Lose, LineTypes
  <1>2. /\ Len(cur) \in Nat /\ Len(cur) > 0 /\ Len(rx) \in Nat
        /\ Total \in Nat /\ Total' = Total - 1 /\ Total = Len(rx) + Len(cur)
    BY LoseBytes
  <1>3. \A k \in Nat : k <= Len(rx) => ByteAt(k)' = ByteAt(k)
    BY LoseBytes
  <1>4. \A k \in 1 .. Total' : ByteAt(k)'.i = 1 => k <= Len(rx) /\ k \in 1 .. Total /\ ByteAt(k)' = ByteAt(k)
    BY <1>2, <1>3, LoseBytes
  <1>5. Head(cur) = ByteAt(Len(rx) + 1) /\ Head(cur).f = sent
    <2>1. Head(cur) = cur[1] /\ cur[1].f = sent
      BY <1>1, <1>2 DEF Located, Recognisable
    <2>2. ~ (Len(rx) + 1 <= Len(rx)) /\ (Len(rx) + 1) - Len(rx) = 1
      BY <1>2
    <2> QED
      BY <2>1, <2>2 DEF ByteAt
  <1>6. far' \subseteq far /\ sent \notin far' /\ (Head(cur).i = 1 => sent - 1 \notin far')
    BY <1>1, <1>5
  <1>7. ASSUME NEW s \in 1 .. Total', ByteAt(s)'.i = 1
        PROVE  (AllThere(s) \/ OutOfReach(s))'
    <2>1. s \in Nat /\ s > 0 /\ s <= Len(rx) /\ s \in 1 .. Total /\ ByteAt(s)' = ByteAt(s)
      BY <1>4, <1>7
    <2>2. s + since' <= Len(rx')
      BY <1>1, <1>2, <2>1
    <2>3. CASE AllThere(s)
      <3>1. PICK m : m = ByteAt(s).n
        OBVIOUS
      <3>2. m \in Nat
        BY <2>3, <3>1, LengthFacts DEF AllThere
      <3>3. CASE s + m <= Len(rx) + 1
        <4>1. s + m <= Total' + 1
          BY <1>2, <2>1, <3>2, <3>3
        <4>2. \A j \in 1 .. m : (s - 1) + j \in Nat /\ (s - 1) + j <= Len(rx)
          BY <1>2, <2>1, <3>2, <3>3
        <4>3. \A j \in 1 .. m : ByteAt((s - 1) + j)' = ByteAt((s - 1) + j)
          BY <1>3, <4>2
        <4> QED
          BY <2>1, <2>3, <3>1, <3>2, <4>1, <4>3, SameFrame
      <3>4. CASE s + m > Len(rx) + 1
        <4>1. ASSUME NEW p \in 1 .. Total', p > s, ByteAt(p)'.i = 1
              PROVE  FALSE
          <5>1. p \in Nat /\ p <= Len(rx) /\ ByteAt(p).i = 1
            BY <1>4, <4>1
          <5>2. s + m <= p
            BY <2>1, <2>3, <3>1, <4>1, <5>1, BehindFrame
          <5> QED
            BY <1>2, <2>1, <3>2, <3>4, <5>1, <5>2
        <4> QED
          BY <2>2, <4>1 DEF OutOfReach
      <3> QED
        BY <1>2, <2>1, <3>2, <3>3, <3>4
    <2>4. CASE OutOfReach(s)
      <3>1. ASSUME NEW p \in 1 .. Total', p > s, ByteAt(p)'.i = 1, ByteAt(p)'.f \in far'
            PROVE  s + Reach <= p
        <4>1. p \in 1 .. Total /\ ByteAt(p) = ByteAt(p)' /\ ByteAt(p).f \in far
          BY <1>4, <1>6, <3>1
        <4> QED
          BY <2>4, <3>1, <4>1 DEF OutOfReach
      <3> QED
        BY <2>2, <3>1 DEF OutOfReach
    <2> QED
      BY <1>7, <2>1, <2>3, <2>4 DEF Located, DamageEnds
  <1>8. ASSUME NEW k \in far'
        PROVE  (Taken(k) \/ OnItsWay(k))'
    <2>1. k \in far /\ k # sent /\ k \in Nat
      BY <1>1, <1>6, <1>8 DEF Located, Recognisable
    <2>2. CASE Taken(k)
      BY <1>1, <2>2 DEF Taken
    <2>3. CASE OnItsWay(k)
      <3>1. PICK p \in 1 .. Total : PlaceOf(k, p)
        BY <2>3 DEF OnItsWay
      <3>2. PICK m : m = ByteAt(p).n
        OBVIOUS
      <3>3. /\ m \in Nat /\ m >= 3 /\ p \in Nat /\ p > 0 /\ p + m <= Total + 1 /\ AllThere(p)
            /\ ByteAt(p).f = k
        BY <1>2, <3>1, <3>2, LengthFacts DEF PlaceOf, WholeFrame, AllThere
      <3>4. p + m <= Len(rx) + 1
        <4> SUFFICES ASSUME p + m > Len(rx) + 1 PROVE FALSE
          BY <1>2, <3>3
        <4>1. PICK q \in 1 .. Total : q = (p - 1) + m
          BY <1>2, <3>3
        <4>2. IsByte(ByteAt((p - 1) + m), k, m, m)
          BY <3>2, <3>3 DEF AllThere
        <4>3. ByteAt(q).f = k /\ q > Len(rx)
          BY <1>2, <3>3, <4>1, <4>2 DEF IsByte
        <4>4. ByteAt(q).f = sent
          BY <4>3, LoseBytes
        <4> QED
          BY <2>1, <4>3, <4>4
      <3>5. p + m # Total + 1
        BY <2>1, <3>1, <3>2, <3>3 DEF PlaceOf, WholeFrame
      <3>6. p + m \in 1 .. Total /\ ByteAt(p + m).i = 1 /\ ByteAt(p + m).f = k + 1
        BY <1>2, <3>1, <3>2, <3>3, <3>5 DEF PlaceOf, WholeFrame
      <3>7. p + m <= Len(rx)
        <4> SUFFICES ASSUME p + m = Len(rx) + 1 PROVE FALSE
          BY <1>2, <3>3, <3>4
        <4>1. Head(cur).i = 1 /\ k + 1 = sent
          BY <1>5, <3>6
        <4>2. k = sent - 1
          BY <1>1, <2>1, <4>1
        <4> QED
          BY <1>6, <1>8, <4>1, <4>2
      <3>8. \A j \in 1 .. m : (p - 1) + j \in Nat /\ (p - 1) + j <= Len(rx)
        BY <1>2, <3>3, <3>7
      <3>9. \A j \in 1 .. m : ByteAt((p - 1) + j)' = ByteAt((p - 1) + j)
        BY <1>3, <3>8
      <3>10. p + m <= Total' + 1 /\ p + m # Total' + 1
        BY <1>2, <3>3, <3>7
      <3>11. AllThere(p)' /\ ByteAt(p)'.i = 1 /\ ByteAt(p)'.n = m /\ ByteAt(p)'.f = k
        <4>1. m \in Lengths /\ \A j \in 1 .. m : IsByte(ByteAt((p - 1) + j), k, m, j)
          BY <3>2, <3>3 DEF AllThere
        <4>2. \A j \in 1 .. m : IsByte(ByteAt((p - 1) + j)', k, m, j)
          BY <3>9, <4>1
        <4>3. (p - 1) + 1 = p /\ 1 \in 1 .. m
          BY <3>3
        <4>4. ByteAt(p)'.i = 1 /\ ByteAt(p)'.n = m /\ ByteAt(p)'.f = k
          BY <4>2, <4>3 DEF IsByte
        <4> QED
          BY <3>10, <4>1, <4>2, <4>4 DEF AllThere
      <3>12. ByteAt(p + m)' = ByteAt(p + m)
        BY <1>3, <3>3, <3>7
      <3>13. WholeFrame(p)'
        BY <3>6, <3>10, <3>11, <3>12 DEF WholeFrame
      <3>14. PlaceOf(k, p)' /\ p \in 1 .. Total'
        BY <1>1, <1>2, <3>1, <3>2, <3>3, <3>7, <3>11, <3>13 DEF PlaceOf
      <3> QED
        BY <3>14 DEF OnItsWay
    <2> QED
      BY <2>1, <2>2, <2>3 DEF Located, FarFramesCome
  <1> QED
    BY <1>7, <1>8, LoseBytes DEF Located, DamageEnds, FarFramesCome

(* The bytes stay well formed whatever the line and the readers do. *)
LEMMA LineTypesStep ==
    ASSUME LocalInv, [ParserNext]_parser
    PROVE  LineTypes' /\ since' \in Nat /\ (reader = "modem" => count = 0)'
  <1> USE DEF LocalInv
  <1>1. /\ rx \in Seq(LineByte) /\ cur \in Seq(LineByte) /\ got \in Seq(Nat) /\ sent \in Nat
        /\ count \in Nat /\ count <= Len(rx) /\ Len(rx) \in Nat
    BY DEF LineTypes
  <1>2. ASSUME NEW n \in Nat, n <= Len(rx), Consume(n), UNCHANGED <<cur, sent, since>>,
               got' \in Seq(Nat), UNCHANGED reader,
               (reader = "host" /\ n <= count /\ count' = count - n)
               \/ (reader = "modem" /\ count' = count)
        PROVE  LineTypes' /\ since' \in Nat /\ (reader = "modem" => count = 0)'
    <2>1. rx' \in Seq(LineByte) /\ Len(rx') = Len(rx) - n
      BY <1>2, ConsumeBytes
    <2>2. count' \in Nat /\ count' <= Len(rx')
      BY <1>1, <1>2, <2>1
    <2> QED
      BY <1>1, <1>2, <2>1, <2>2 DEF LineTypes
  <1>3. ASSUME NEW n \in Nat, n > 0, n <= Len(rx), PassOn(n)
        PROVE  got' \in Seq(Nat)
    <2>1. rx # <<>>
      BY <1>1, <1>3
    <2> QED
      BY <1>3, <2>1, PassOnAdds
  <1>4. ASSUME Len(rx) >= 3, NEW n, n = LengthByte
        PROVE  n \in Nat
    <2>1. rx[2] \in LineByte
      BY <1>1, <1>4
    <2> QED
      BY <1>4, <2>1 DEF LengthByte, LineByte
  <1>5. CASE UNCHANGED parser
    <2>1. UNCHANGED <<reader, rx, cur, got, sent, count, since>>
      BY <1>5 DEF parser, line, host
    <2> QED
      BY <2>1 DEF LineTypes
  <1>6. CASE SendFrame
    <2>1. UNCHANGED <<reader, rx, got, count, since>> /\ sent' = sent + 1
      BY <1>6 DEF SendFrame, host
    <2>2. cur' \in Seq(LineByte)
      BY <1>6, SendBytes
    <2> QED
      BY <1>1, <2>1, <2>2 DEF LineTypes
  <1>7. CASE Carry
    <2>1. UNCHANGED <<reader, got, sent, count>> /\ since' \in Nat
      BY <1>7 DEF Carry, host
    <2>2. rx' \in Seq(LineByte) /\ cur' \in Seq(LineByte) /\ Len(rx') = Len(rx) + 1
      BY <1>7, CarryBytes
    <2> QED
      BY <1>1, <2>1, <2>2 DEF LineTypes
  <1>8. CASE Lose
    <2>1. UNCHANGED <<reader, rx, got, sent, count>> /\ since' = 0 /\ cur # <<>> /\ cur' = Tail(cur)
      BY <1>8 DEF Lose, host
    <2>2. cur' \in Seq(LineByte)
      BY <1>1, <2>1
    <2> QED
      BY <1>1, <2>1, <2>2 DEF LineTypes
  <1>9. CASE modemRxFill
    <2>1. UNCHANGED <<reader, rx, cur, got, sent, since>> /\ reader = "host"
      BY <1>9 DEF modemRxFill, line
    <2>2. count' \in Nat /\ count' <= Len(rx)
      BY <1>1, <1>9 DEF modemRxFill
    <2> QED
      BY <1>1, <2>1, <2>2 DEF LineTypes
  <1>10. CASE SkipToStart
    <2>1. PICK n \in 1 .. count : modemDiscard(n) /\ reader = "host"
      BY <1>10 DEF SkipToStart
    <2>2. n \in Nat /\ n <= Len(rx) /\ n <= count
      BY <1>1
    <2>3. UNCHANGED <<cur, sent, since, got, reader>> /\ Consume(n) /\ count' = count - n
      BY <2>1 DEF modemDiscard, line
    <2> QED
      BY <1>1, <1>2, <2>1, <2>2, <2>3
  <1>11. CASE NoFrameHere \/ FalseFrame
    <2>1. modemDiscard(1) /\ reader = "host" /\ 1 <= count
      BY <1>1, <1>11 DEF NoFrameHere, FalseFrame, Complete
    <2>2. 1 \in Nat /\ 1 <= Len(rx)
      BY <1>1, <2>1
    <2>3. UNCHANGED <<cur, sent, since, got, reader>> /\ Consume(1) /\ count' = count - 1
      BY <2>1 DEF modemDiscard, line
    <2> QED
      BY <1>1, <1>2, <2>1, <2>2, <2>3
  <1>12. CASE TakeFrame
    <2>1. /\ count >= 3 /\ LengthByte >= 3 /\ count >= LengthByte /\ PassOn(LengthByte)
          /\ Consume(LengthByte) /\ count' = count - LengthByte /\ UNCHANGED <<reader, cur, sent, since>>
          /\ reader = "host"
      BY <1>12 DEF TakeFrame, Complete, line
    <2>2. PICK n : n = LengthByte
      OBVIOUS
    <2>3. n \in Nat /\ n > 0 /\ n <= count /\ n <= Len(rx)
      BY <1>1, <1>4, <2>1, <2>2
    <2>4. Consume(n) /\ PassOn(n) /\ count' = count - n
      BY <2>1, <2>2
    <2> QED
      BY <1>2, <1>3, <2>1, <2>3, <2>4
  <1>13. CASE TimePasses \/ HuntOver \/ TransmissionEnds
    <2>1. UNCHANGED <<reader, rx, cur, got, sent, count, since>>
      BY <1>13 DEF TimePasses, HuntOver, TransmissionEnds, line, host
    <2> QED
      BY <2>1 DEF LineTypes
  <1>14. CASE BadHeader \/ UnlikelyFrame \/ DamagedFrame
    <2>1. /\ Consume(1) /\ UNCHANGED <<reader, cur, sent, since, count, got>> /\ reader = "modem"
      BY <1>14 DEF BadHeader, UnlikelyFrame, DamagedFrame, SkipByte, line, host
    <2>2. rx # <<>> \/ Len(rx) >= 3
      BY <1>14 DEF BadHeader, UnlikelyFrame, DamagedFrame, Whole, Believed, Usable, HasHeader
    <2>3. 1 \in Nat /\ 1 <= Len(rx)
      BY <1>1, <2>2
    <2> QED
      BY <1>1, <1>2, <2>1, <2>3
  <1>15. CASE HandleSamples \/ HandleCommand
    <2>1. /\ Len(rx) >= 3 /\ LengthByte >= 3 /\ Len(rx) >= LengthByte /\ PassOn(LengthByte)
          /\ Consume(LengthByte) /\ UNCHANGED <<reader, cur, sent, since, count>> /\ reader = "modem"
      BY <1>15 DEF HandleSamples, HandleCommand, Whole, Believed, Usable, HasHeader, line, host
    <2>2. PICK n : n = LengthByte
      OBVIOUS
    <2>3. n \in Nat /\ n > 0 /\ n <= Len(rx)
      BY <1>1, <1>4, <2>1, <2>2
    <2>4. Consume(n) /\ PassOn(n)
      BY <2>1, <2>2
    <2> QED
      BY <1>2, <1>3, <2>1, <2>3, <2>4
  <1> QED
    BY <1>5, <1>6, <1>7, <1>8, <1>9, <1>10, <1>11, <1>12, <1>13, <1>14, <1>15
    DEF ParserNext, modemGetFrame, parseUart

LEMMA LocatedSame ==
    ASSUME Located, UNCHANGED <<reader, rx, cur, got, sent, since, far>>
    PROVE  Located'
  <1>1. Total' = Total
    BY DEF Total
  <1>2. \A k : ByteAt(k)' = ByteAt(k)
    BY DEF ByteAt
  <1>3. \A s : AllThere(s)' <=> AllThere(s)
    BY <1>1, <1>2 DEF AllThere
  <1>4. \A s : OutOfReach(s)' <=> OutOfReach(s)
    BY <1>1, <1>2 DEF OutOfReach
  <1>5. \A s : WholeFrame(s)' <=> WholeFrame(s)
    BY <1>1, <1>2, <1>3 DEF WholeFrame
  <1>6. \A k : (OnItsWay(k)' <=> OnItsWay(k)) /\ (Taken(k)' <=> Taken(k))
    BY <1>1, <1>2, <1>5 DEF OnItsWay, PlaceOf, Taken
  <1>7. Recognisable'
    BY <1>1, <1>2 DEF Located, Recognisable
  <1>8. DamageEnds'
    BY <1>1, <1>2, <1>3, <1>4 DEF Located, DamageEnds
  <1>9. FarFramesCome'
    BY <1>6 DEF Located, FarFramesCome
  <1> QED
    BY <1>7, <1>8, <1>9 DEF Located

(* modemGetFrame(): what it throws away is never the first byte of a frame   *)
(* that is far from damage.                                                  *)
LEMMA HostKeepsLocated ==
    ASSUME LineTypes, Located, since \in Nat, modemGetFrame
    PROVE  Located'
  <1>1. count \in Nat /\ count <= Len(rx) /\ Len(rx) \in Nat /\ Total \in Nat /\ Len(rx) <= Total
    BY DEF LineTypes, Total
  <1>2. count > 0 => rx # <<>>
    BY <1>1
  <1>3. CASE modemRxFill
    <2>1. UNCHANGED <<reader, rx, cur, got, sent, since, far>>
      BY <1>3 DEF modemRxFill, line
    <2> QED
      BY <2>1, LocatedSame
  <1>4. CASE SkipToStart
    <2>1. PICK n \in 1 .. count : modemDiscard(n) /\ \A i \in 1 .. n : rx[i].v # Start
      BY <1>4 DEF SkipToStart
    <2>2. n \in Nat /\ n <= Len(rx)
      BY <1>1
    <2>3. UNCHANGED <<cur, sent, since, far, got, reader>> /\ Consume(n)
      BY <2>1 DEF modemDiscard, line
    <2>4. \A k : Taken(k) => Taken(k)'
      BY <2>3 DEF Taken
    <2>5. ASSUME NEW k \in far, NEW p \in 1 .. n, PlaceOf(k, p)
          PROVE  FALSE
      <3>1. p \in 1 .. Len(rx) /\ p \in 1 .. Total
        BY <1>1, <2>2
      <3>2. ByteAt(p) = rx[p] /\ ByteAt(p).i = 1
        BY <2>5, <3>1, AtType DEF PlaceOf
      <3> QED
        BY <2>1, <3>1, <3>2 DEF Located, Recognisable
    <2> QED
      BY <2>2, <2>3, <2>4, <2>5, ConsumeKeepsLocated
  <1>5. CASE NoFrameHere
    <2>1. count > 0 /\ rx # <<>> /\ modemDiscard(1)
      BY <1>1, <1>2, <1>5 DEF NoFrameHere
    <2>2. UNCHANGED <<cur, sent, since, far, got, reader>> /\ Consume(1)
      BY <2>1 DEF modemDiscard, line
    <2>3. ASSUME NEW k \in far, PlaceOf(k, 1)
          PROVE  FALSE
      <3>1. /\ rx[1].n \in Nat /\ rx[1].n >= 3
            /\ Len(rx) >= 3 => LengthByte = rx[1].n
            /\ cur = <<>> => Len(rx) >= rx[1].n
        BY <2>1, <2>3, FarFrameInFront
      <3> QED
        BY <1>1, <1>5, <3>1 DEF NoFrameHere, Pause
    <2> QED
      BY <2>1, <2>2, <2>3, SkipKeepsLocated
  <1>6. CASE FalseFrame
    <2>1. /\ count >= 3 /\ count > LengthByte /\ rx[LengthByte + 1].v # Start /\ modemDiscard(1)
      BY <1>6 DEF FalseFrame, Complete
    <2>2. UNCHANGED <<cur, sent, since, far, got, reader>> /\ Consume(1) /\ rx # <<>>
      BY <1>1, <1>2, <2>1 DEF modemDiscard, line
    <2>3. ASSUME NEW k \in far, PlaceOf(k, 1)
          PROVE  FALSE
      <3>1. /\ rx[1].n \in Nat
            /\ Len(rx) >= 3 => LengthByte = rx[1].n
            /\ Len(rx) > rx[1].n => rx[rx[1].n + 1].v = Start
        BY <2>2, <2>3, FarFrameInFront
      <3> QED
        BY <1>1, <2>1, <3>1
    <2> QED
      BY <2>2, <2>3, SkipKeepsLocated
  <1>7. CASE TakeFrame
    <2>1. /\ count >= 3 /\ Head1 = Start /\ count >= LengthByte
          /\ PassOn(LengthByte) /\ Consume(LengthByte) /\ UNCHANGED <<cur, sent, since, far, reader>>
      BY <1>7 DEF TakeFrame, Complete, line
    <2>2. Len(rx) >= 3 /\ rx[2] \in LineByte
      BY <1>1, <2>1 DEF LineTypes
    <2>3. LengthByte \in Nat /\ LengthByte <= Len(rx)
      BY <1>1, <2>1, <2>2 DEF LengthByte, LineByte
    <2> QED
      BY <2>1, <2>2, <2>3, TakeKeepsLocated
  <1> QED
    BY <1>3, <1>4, <1>5, <1>6, <1>7 DEF modemGetFrame

(* parseUart(): the same; while it hunts it believes the usual lengths, and  *)
(* a frame of another length is not called far.                              *)
LEMMA ModemKeepsLocated ==
    ASSUME LineTypes, Located, since \in Nat, parseUart
    PROVE  Located'
  <1>1. Len(rx) \in Nat /\ (Len(rx) >= 1 => rx # <<>>)
    BY DEF LineTypes
  <1>2. ASSUME SkipByte(TRUE) \/ SkipByte(FALSE), rx # <<>>, \A k \in far : ~ PlaceOf(k, 1)
        PROVE  Located'
    <2>1. UNCHANGED <<cur, sent, since, far, got, reader>> /\ Consume(1)
      BY <1>2 DEF SkipByte, line
    <2> QED
      BY <1>2, <2>1, SkipKeepsLocated
  <1>3. ASSUME rx # <<>>, NEW k \in far, PlaceOf(k, 1)
        PROVE  /\ Head1 = Start /\ rx[1].n \in Nat /\ rx[1].n >= 3
               /\ Len(rx) >= 3 => /\ LengthByte = rx[1].n /\ knownType(TypeByte)
                                  /\ reader = "modem" => LengthByte \in Usual
               /\ Len(rx) > rx[1].n => rx[rx[1].n + 1].v = Start
    BY <1>3, FarFrameInFront, ParserAssumption DEF knownType
  <1>4. CASE BadHeader
    <2>1. rx # <<>> /\ SkipByte(FALSE)
      BY <1>4 DEF BadHeader
    <2>2. ASSUME NEW k \in far, PlaceOf(k, 1)
          PROVE  FALSE
      <3>1. Head1 # Start \/ (HasHeader /\ (LengthByte < 3 \/ ~knownType(TypeByte)))
        BY <1>4 DEF BadHeader
      <3> QED
        BY <1>3, <2>1, <2>2, <3>1 DEF HasHeader
    <2> QED
      BY <1>2, <2>1, <2>2
  <1>5. CASE UnlikelyFrame
    <2>1. Len(rx) >= 3 /\ LengthByte \notin Usual /\ reader = "modem" /\ SkipByte(FALSE)
      BY <1>5 DEF UnlikelyFrame, Usable, HasHeader
    <2>2. rx # <<>>
      BY <1>1, <2>1
    <2> QED
      BY <1>2, <1>3, <2>1, <2>2
  <1>6. CASE HuntOver
    <2>1. UNCHANGED <<reader, rx, cur, got, sent, since, far>>
      BY <1>6 DEF HuntOver, line
    <2> QED
      BY <2>1, LocatedSame
  <1>7. CASE DamagedFrame
    <2>1. Len(rx) >= 3 /\ Len(rx) > LengthByte /\ rx[LengthByte + 1].v # Start
      BY <1>7 DEF DamagedFrame, Whole, Believed, Usable, HasHeader
    <2>2. rx # <<>>
      BY <1>1, <2>1
    <2>3. SkipByte(TRUE) \/ SkipByte(FALSE)
      <3>1. Consume(1) /\ UNCHANGED <<reader, line, got>>
        BY <1>7 DEF DamagedFrame, SkipByte
      <3> QED
        BY <1>7, <3>1 DEF DamagedFrame, SkipByte
    <2> QED
      BY <1>2, <1>3, <2>1, <2>2, <2>3
  <1>8. CASE HandleSamples \/ HandleCommand
    <2>1. /\ Len(rx) >= 3 /\ Head1 = Start /\ Len(rx) >= LengthByte
          /\ PassOn(LengthByte) /\ Consume(LengthByte) /\ UNCHANGED <<cur, sent, since, far, reader>>
      BY <1>8 DEF HandleSamples, HandleCommand, Whole, Believed, Usable, HasHeader, line
    <2>2. rx[2] \in LineByte
      BY <1>1, <2>1 DEF LineTypes
    <2>3. LengthByte \in Nat /\ LengthByte <= Len(rx)
      BY <1>1, <2>1, <2>2 DEF LengthByte, LineByte
    <2> QED
      BY <2>1, <2>3, TakeKeepsLocated
  <1> QED
    BY <1>4, <1>5, <1>6, <1>7, <1>8 DEF parseUart

LEMMA LocalStep ==
    ASSUME LocalInv, [ParserNext]_parser
    PROVE  LocalInv'
  <1>1. "lookalike" \in troubles => "lookalike" \in troubles'
    BY DEF ParserNext, SendFrame, Carry, Lose, modemGetFrame, modemRxFill, SkipToStart,
           NoFrameHere, FalseFrame, TakeFrame, modemDiscard, TimePasses, parseUart,
           BadHeader, UnlikelyFrame, HuntOver, DamagedFrame, HandleSamples, BeginOrGoOn,
           HandleCommand, TransmissionEnds, parser, NoteIf
  <1>2. ASSUME Without({"lookalike"})'
        PROVE  Located'
    <2>1. "lookalike" \notin troubles' /\ "lookalike" \notin troubles
      BY <1>1, <1>2 DEF Without
    <2>2. LineTypes /\ since \in Nat /\ Located
      BY <2>1 DEF LocalInv, Without
    <2>3. CASE UNCHANGED parser \/ TimePasses \/ TransmissionEnds
      <3>1. UNCHANGED <<reader, rx, cur, got, sent, since, far>>
        BY <2>3 DEF parser, TimePasses, TransmissionEnds, line
      <3> QED
        BY <2>2, <3>1, LocatedSame
    <2> QED
      BY <2>1, <2>2, <2>3, SendKeepsLocated, CarryKeepsLocated, LoseKeepsLocated,
         HostKeepsLocated, ModemKeepsLocated DEF ParserNext
  <1> QED
    BY <1>2, LineTypesStep DEF LocalInv

LEMMA LocalInit == ParserInit => LocalInv
  <1> SUFFICES ASSUME ParserInit PROVE LocalInv
    OBVIOUS
  <1>1. rx = <<>> /\ cur = <<>> /\ got = <<>> /\ sent = 0 /\ count = 0 /\ since = Reach /\ far = {}
    BY DEF ParserInit
  <1>2. /\ rx \in Seq(LineByte) /\ cur \in Seq(LineByte) /\ got \in Seq(Nat)
        /\ Len(rx) = 0 /\ Len(cur) = 0
    BY <1>1
  <1>3. LineTypes
    BY <1>1, <1>2 DEF LineTypes
  <1>4. Total = 0
    BY <1>2 DEF Total
  <1>5. Located
    BY <1>1, <1>2, <1>4 DEF Located, Recognisable, DamageEnds, FarFramesCome
  <1> QED
    BY <1>1, <1>3, <1>5, ReachIsLargest DEF LocalInv

(* However many bytes are lost, and wherever: a frame in front of which a    *)
(* whole reach of bytes arrived undisturbed, and that is itself undisturbed, *)
(* is passed on whole by modemGetFrame() and by parseUart(), for any lengths *)
(* and types, as long as no payload has a start byte.                        *)
THEOREM LossesDoNotSpread == ParserSpec => []DamageIsLocal
  <1>1. LocalInv => DamageIsLocal
    <2> SUFFICES ASSUME LocalInv, Drained, Without({"lookalike"}), NEW k \in far
                 PROVE  \E i \in DOMAIN got : got[i] = k
      BY DEF DamageIsLocal
    <2>1. Len(rx) = 0 /\ Len(cur) = 0
      BY DEF Drained
    <2>2. Total = 0
      BY <2>1 DEF Total
    <2>3. ~ OnItsWay(k)
      BY <2>2 DEF OnItsWay
    <2> QED
      BY <2>3 DEF LocalInv, Located, FarFramesCome, Taken
  <1> QED
    BY <1>1, LocalInit, LocalStep, PTL DEF ParserSpec
==============================================================================
