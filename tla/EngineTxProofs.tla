--------------------------- MODULE EngineTxProofs ----------------------------
(***************************************************************************)
(* For every size of the ring, of a frame and of a cycle: the transmit     *)
(* side of engine.c keeps its types, the transmitter is keyed between two  *)
(* frames exactly if the engine is not idle, no sample is lost, and a gap  *)
(* in the transmission is a whole number of cycles.                        *)
(***************************************************************************)
EXTENDS EngineTx, TLAPS

(***************************************************************************)
(* The pin at every place of the main loop.  Between txState = TX_PRIME    *)
(* and hw_ptt(true) the interrupt must not key down: it does so only if    *)
(* txEot is set, which handleSampData() has cleared before.                *)
(***************************************************************************)
PttInv ==
    /\ pc \in {"loop", "store", "clearEot", "keyUp", "setEot", "silence", "idle"} =>
           (ptt <=> txState # "IDLE")
    /\ pc = "keyUp" => ~ txEot
    /\ pc = "pttOn" => txState # "IDLE" /\ ~ txEot
    /\ pc \in {"drop", "pttOff", "heal"} => txState = "IDLE"
    /\ pc = "heal" => ~ ptt

(* The places of the main loop and the states of the engine, which is all    *)
(* that the argument needs of the types.                                     *)
Control ==
    /\ pc \in Pc
    /\ txState \in {"IDLE", "PRIME", "PLAY"}
    /\ txEot \in BOOLEAN
    /\ ptt \in BOOLEAN

(* The engine is idle and un-keyed at the start.                             *)
LEMMA PttInit == Init => Control /\ PttInv
  BY DEF Init, Control, PttInv, Pc

(* Neither a step of the main loop nor the interrupt, at whatever point it   *)
(* comes, breaks the relation between pin and state.                         *)
LEMMA PttStep == Control /\ PttInv /\ [Next]_vars => Control' /\ PttInv'
  <1> SUFFICES ASSUME Control, PttInv, [Next]_vars
               PROVE  Control' /\ PttInv'
    OBVIOUS
  <1> USE DEF Control, PttInv, Pc
  <1>1. CASE PlaySample
    BY <1>1 DEF PlaySample, Playing, Starts
  <1>2. CASE KeyDownAtEnd
    BY <1>2 DEF KeyDownAtEnd, Playing, Starts
  <1>3. CASE RunDry
    BY <1>3 DEF RunDry, Playing, Starts
  <1>4. CASE StaySilent
    BY <1>4 DEF StaySilent
  <1>5. CASE Store
    BY <1>5 DEF Store
  <1>6. CASE ClearEot
    BY <1>6 DEF ClearEot
  <1>7. CASE KeyUp
    BY <1>7 DEF KeyUp
  <1>8. CASE PttOn
    BY <1>8 DEF PttOn
  <1>9. CASE SetEot
    BY <1>9 DEF SetEot
  <1>10. CASE InsertSilence
    BY <1>10 DEF InsertSilence
  <1>11. CASE Silence
    BY <1>11 DEF Silence, TakeSamples
  <1>12. CASE Timeout
    BY <1>12 DEF Timeout
  <1>13. CASE GoIdle
    BY <1>13 DEF GoIdle
  <1>14. CASE Drop
    BY <1>14 DEF Drop
  <1>15. CASE PttOff
    BY <1>15 DEF PttOff
  <1>16. CASE SelfHeal
    BY <1>16 DEF SelfHeal
  <1>17. CASE ReceiveSamples
    BY <1>17 DEF ReceiveSamples, TakeSamples
  <1>18. CASE ReceiveEot
    BY <1>18 DEF ReceiveEot
  <1>19. CASE Damage
    BY <1>19 DEF Damage
  <1>20. CASE HostStops
    BY <1>20 DEF HostStops
  <1>21. CASE TimePasses
    BY <1>21 DEF TimePasses
  <1>22. CASE UNCHANGED vars
    BY <1>22 DEF vars
  <1> QED
    BY <1>1, <1>2, <1>3, <1>4, <1>5, <1>6, <1>7, <1>8, <1>9, <1>10, <1>11, <1>12, <1>13,
       <1>14, <1>15, <1>16, <1>17, <1>18, <1>19, <1>20, <1>21, <1>22
       DEF Next, engine_sample_tick, EngineLoop, HostFrame

(* Between two frames the pin shows whether the engine is idle: hw_ptt() and *)
(* txState agree although the interrupt changes both at any instant.         *)
THEOREM PttIsRight == Spec => []PttFollowsState
  <1>1. Control /\ PttInv => PttFollowsState
    BY DEF PttInv, PttFollowsState
  <1> QED
    BY <1>1, PttInit, PttStep, PTL DEF Spec

------------------------------------------------------------------------------
(***************************************************************************)
(* The ring: a frame that was found to fit still fits when it is stored,   *)
(* as the interrupt only takes samples out in between.                     *)
(***************************************************************************)
RingInv ==
    /\ TypeOK
    /\ AllAreThere
    /\ pc = "store" => Fits

(* The ring is empty at the start.                                           *)
LEMMA RingInit == Init => RingInv
  <1> SUFFICES ASSUME Init PROVE RingInv
    OBVIOUS
  <1>1. 0 \in Index /\ 0 \in Tag /\ 0 \in 0 .. TX_CYCLE_SAMPLES - 1
    BY EngineAssumption DEF Index, Tag
  <1>2. AllAreThere
    BY EngineAssumption DEF Init, AllAreThere, txCount
  <1>3. txBuf \in [Index -> Tag]
    BY <1>1 DEF Init
  <1>4. lost \in 0 .. 2 /\ owed \in Nat
    BY DEF Init
  <1>5. /\ txHead \in Index /\ txTail \in Index /\ tag \in Tag
        /\ stallCount \in 0 .. TX_CYCLE_SAMPLES - 1
        /\ gap \in 0 .. TX_CYCLE_SAMPLES - 1
    BY <1>1, Zenon DEF Init
  <1>6. /\ txEot \in BOOLEAN /\ stallAlign \in BOOLEAN /\ ptt \in BOOLEAN
        /\ dataIsOld \in BOOLEAN /\ host \in BOOLEAN
    BY Zenon DEF Init
  <1>7. pc \in Pc /\ txState \in {"IDLE", "PRIME", "PLAY"} /\ pc # "store"
    BY DEF Init, Pc
  <1> QED
    BY <1>2, <1>3, <1>4, <1>5, <1>6, <1>7, Zenon DEF RingInv, TypeOK

(* Storing a frame adds its samples to the count and nothing else: head does *)
(* not catch up with the tail, wherever the frame wraps.                     *)
LEMMA StoreStep == RingInv /\ Store => RingInv'
  <1> SUFFICES ASSUME RingInv, Store PROVE RingInv'
    OBVIOUS
  <1>1. txHead' \in Index /\ tag' \in Tag
    BY EngineAssumption DEF RingInv, TypeOK, Store, Wrap, Index, Tag
  <1>2. txBuf' \in [Index -> Tag]
    <2> SUFFICES ASSUME NEW i \in Index PROVE txBuf'[i] \in Tag
      BY DEF Store
    <2> DEFINE K     == 0 .. SAMPLES_PER_FRAME - 1
               at(k) == Wrap(txHead + k)
               no(k) == IF tag + k >= TagMax THEN tag + k - TagMax ELSE tag + k
    <2>1. \A k \in K : no(k) \in Tag
      BY EngineAssumption DEF RingInv, TypeOK, Tag
    <2>2. txBuf[i] \in Tag
      BY DEF RingInv, TypeOK
    <2>3. txBuf'[i] = IF \E k \in K : at(k) = i THEN no(CHOOSE k \in K : at(k) = i) ELSE txBuf[i]
      BY DEF Store
    <2>4. (\E k \in K : at(k) = i) => (CHOOSE k \in K : at(k) = i) \in K
      OBVIOUS
    <2> HIDE DEF K, at, no
    <2> QED
      BY <2>1, <2>2, <2>3, <2>4
  <1>3. owed' \in Nat /\ AllAreThere'
    BY EngineAssumption DEF RingInv, TypeOK, AllAreThere, Store, Fits, txCount, Wrap, Index
  <1> QED
    BY <1>1, <1>2, <1>3 DEF RingInv, TypeOK, Store, stall, Pc

(* Playing a sample takes one out of the count.                              *)
LEMMA PlayStep == RingInv /\ PlaySample => RingInv'
  <1> SUFFICES ASSUME RingInv, PlaySample PROVE RingInv'
    OBVIOUS
  <1>1. txTail' \in Index /\ owed' \in Nat /\ AllAreThere' /\ (pc' = "store" => Fits')
    BY EngineAssumption
       DEF RingInv, TypeOK, AllAreThere, PlaySample, Fits, txCount, Wrap, Index
  <1>2. stallAlign' \in BOOLEAN
    BY Zenon DEF PlaySample
  <1>3. /\ UNCHANGED <<txBuf, txHead, txEot, stallCount, ptt, dataIsOld, pc, lost, host, tag>>
        /\ txState' = "PLAY"
        /\ gap' = 0
    BY DEF PlaySample
  <1>4. 0 \in 0 .. TX_CYCLE_SAMPLES - 1
    BY EngineAssumption
  <1> QED
    BY <1>1, <1>2, <1>3, <1>4 DEF RingInv, TypeOK

(* No other step moves head or tail, but for keyDown(), which empties the    *)
(* ring.                                                                     *)
LEMMA RingStep == RingInv /\ [Next]_vars => RingInv'
  <1> SUFFICES ASSUME RingInv, [Next]_vars PROVE RingInv'
    OBVIOUS
  <1>0. /\ \A n \in 0 .. TX_CYCLE_SAMPLES - 1 : NextInCycle(n) \in 0 .. TX_CYCLE_SAMPLES - 1
        /\ NextInCycle(0) \in 0 .. TX_CYCLE_SAMPLES - 1
    BY EngineAssumption DEF NextInCycle
  <1> USE DEF RingInv, TypeOK, AllAreThere, Fits, txCount, Pc
  <1>1. CASE PlaySample
    BY <1>1, PlayStep
  <1>2. CASE KeyDownAtEnd
    <2>1. stallAlign' \in BOOLEAN
      BY <1>2, Zenon DEF KeyDownAtEnd
    <2> QED
      BY <1>2, <2>1 DEF KeyDownAtEnd, ring, history
  <1>3. CASE RunDry
    BY <1>0, <1>3 DEF RunDry, ring
  <1>4. CASE StaySilent
    BY <1>0, <1>4 DEF StaySilent, ring
  <1>5. CASE Store
    BY <1>5, StoreStep
  <1>6. CASE ClearEot
    BY <1>6 DEF ClearEot, ring, stall, history
  <1>7. CASE KeyUp
    BY <1>7 DEF KeyUp, ring, history
  <1>8. CASE PttOn
    BY <1>8 DEF PttOn, ring, stall, history
  <1>9. CASE SetEot
    BY <1>9 DEF SetEot, ring, stall, history
  <1>10. CASE InsertSilence
    BY <1>10 DEF InsertSilence, ring, stall, history
  <1>11. CASE Silence
    BY <1>11 DEF Silence, TakeSamples, ring, stall, history
  <1>12. CASE Timeout
    BY <1>12 DEF Timeout, ring, stall, history
  <1>13. CASE GoIdle
    BY <1>13 DEF GoIdle, ring, stall, history
  <1>14. CASE Drop
    BY <1>14, EngineAssumption DEF Drop, stall, Index
  <1>15. CASE PttOff
    BY <1>15 DEF PttOff, ring, stall, history
  <1>16. CASE SelfHeal
    BY <1>16 DEF SelfHeal, ring, stall, history
  <1>17. CASE ReceiveSamples
    BY <1>17 DEF ReceiveSamples, TakeSamples, ring, stall, history
  <1>18. CASE ReceiveEot
    BY <1>18 DEF ReceiveEot, ring, stall, history
  <1>19. CASE Damage
    BY <1>19 DEF Damage, ring, stall, history
  <1>20. CASE HostStops
    BY <1>20 DEF HostStops, ring, stall, history
  <1>21. CASE TimePasses
    BY <1>21 DEF TimePasses, ring, stall, history
  <1>22. CASE UNCHANGED vars
    BY <1>22 DEF vars, ring, stall, history
  <1> QED
    BY <1>1, <1>2, <1>3, <1>4, <1>5, <1>6, <1>7, <1>8, <1>9, <1>10, <1>11, <1>12, <1>13,
       <1>14, <1>15, <1>16, <1>17, <1>18, <1>19, <1>20, <1>21, <1>22
       DEF Next, engine_sample_tick, EngineLoop, HostFrame

(* The transmit side of engine.c keeps its types: head and tail stay inside  *)
(* txBuf and the stall counter inside its cycle.                             *)
THEOREM TypeCorrect == Spec => []TypeOK
  <1>1. RingInv => TypeOK
    BY DEF RingInv
  <1> QED
    BY <1>1, RingInit, RingStep, PTL DEF Spec

(* As many samples are in the ring as were accepted and not yet played or    *)
(* dropped: handleSampData() never fills the ring up to where full looks     *)
(* like empty.                                                               *)
THEOREM NoFullForEmpty == Spec => []AllAreThere
  <1>1. RingInv => AllAreThere
    BY DEF RingInv
  <1> QED
    BY <1>1, RingInit, RingStep, PTL DEF Spec

------------------------------------------------------------------------------
(***************************************************************************)
(* What the ring holds: the sample n places before the next one to be      *)
(* stored is the one accepted n samples ago.                               *)
(***************************************************************************)
Ago(n) == IF tag >= n THEN tag - n ELSE tag - n + TagMax

Contents == \A k \in 0 .. txCount - 1 : txBuf[Wrap(txTail + k)] = Ago(txCount - k)

HoldsInv == RingInv /\ Contents

(* Numbers of samples count round at TagMax.                                 *)
LEMMA CountsRound ==
    ASSUME NEW t \in Tag, NEW n \in 1 .. TagMax - 1
    PROVE  ((IF t >= n THEN t - n ELSE t - n + TagMax) + n) % TagMax = t
  <1>1. t \in Nat /\ t < TagMax /\ TagMax \in Nat
    BY EngineAssumption DEF Tag
  <1>2. t % TagMax = t
    BY <1>1
  <1>3. (t + TagMax) % TagMax = t
    BY <1>1
  <1>4. CASE t >= n
    BY <1>1, <1>2, <1>4
  <1>5. CASE ~ (t >= n)
    <2>1. t - n + TagMax + n = t + TagMax
      BY <1>1
    <2> QED
      BY <2>1, <1>3, <1>5
  <1> QED
    BY <1>4, <1>5

(* The ring holds at most all places but one.                                *)
LEMMA CountRange ==
    ASSUME TypeOK
    PROVE  /\ txCount \in 0 .. TX_BUF_SAMPLES - 1
           /\ Wrap(txTail + txCount) = txHead
           /\ \A k \in 0 .. TX_BUF_SAMPLES - 1 : Wrap(txTail + k) \in Index
  BY EngineAssumption DEF TypeOK, txCount, Wrap, Index

LEMMA HoldsNoLoss == HoldsInv => NoSampleLost
  <1> SUFFICES ASSUME HoldsInv, NEW k \in 0 .. txCount - 1
               PROVE  (txBuf[Wrap(txTail + k)] + (txCount - k)) % TagMax = tag
    BY DEF HoldsInv, RingInv, NoSampleLost
  <1>1. txBuf[Wrap(txTail + k)] = Ago(txCount - k)
    BY DEF HoldsInv, Contents
  <1>2. txCount - k \in 1 .. TagMax - 1 /\ tag \in Tag
    BY CountRange, EngineAssumption DEF HoldsInv, RingInv, TypeOK
  <1> QED
    BY <1>1, <1>2, CountsRound DEF Ago

(* A frame is stored behind the samples that wait, onto none of them, in its *)
(* order.                                                                    *)
LEMMA StoreHolds == HoldsInv /\ Store => Contents'
  <1> SUFFICES ASSUME HoldsInv, Store, NEW k \in 0 .. txCount' - 1
               PROVE  txBuf'[Wrap(txTail' + k)] = (IF tag' >= txCount' - k THEN tag' - (txCount' - k)
                                                   ELSE tag' - (txCount' - k) + TagMax)
    BY DEF Contents, Ago, Wrap
  <1> DEFINE S     == SAMPLES_PER_FRAME
             K     == 0 .. S - 1
             at(j) == Wrap(txHead + j)
             no(j) == IF tag + j >= TagMax THEN tag + j - TagMax ELSE tag + j
             i     == Wrap(txTail + k)
  <1>1. /\ txTail' = txTail /\ txHead' = at(S) /\ tag' = no(S)
        /\ \A x \in Index : txBuf'[x] = IF \E j \in K : at(j) = x
                                        THEN no(CHOOSE j \in K : at(j) = x) ELSE txBuf[x]
    BY DEF Store
  <1>2. TypeOK /\ S <= (TX_BUF_SAMPLES - 1) - txCount
    BY DEF HoldsInv, RingInv, Store, Fits
  <1>3. /\ txHead \in Index /\ txTail \in Index /\ tag \in Tag
        /\ S \in 1 .. TX_BUF_SAMPLES - 1 /\ TX_BUF_SAMPLES \in Nat /\ TagMax \in Nat
        /\ TagMax > TX_BUF_SAMPLES
    BY <1>2, EngineAssumption DEF TypeOK
  <1>4. txCount \in 0 .. TX_BUF_SAMPLES - 1 /\ txCount' = txCount + S
    BY <1>1, <1>2, <1>3 DEF txCount, Wrap, Index
  <1>5. i \in Index /\ k \in 0 .. txCount + S - 1
    BY <1>2, <1>3, <1>4 DEF Wrap, Index
  <1>6. CASE k < txCount
    <2>1. \A j \in K : at(j) # i
      BY <1>2, <1>3, <1>5, <1>6 DEF txCount, Wrap, Index
    <2>2. txBuf'[i] = txBuf[i]
      BY <1>1, <1>5, <2>1
    <2>3. txBuf[i] = IF tag >= txCount - k THEN tag - (txCount - k) ELSE tag - (txCount - k) + TagMax
      BY <1>4, <1>5, <1>6 DEF HoldsInv, Contents, Ago
    <2>4. txCount - k \in 1 .. TX_BUF_SAMPLES - 1 /\ txCount' - k = (txCount - k) + S
          /\ (txCount - k) + S <= TX_BUF_SAMPLES - 1
      BY <1>2, <1>3, <1>4, <1>5, <1>6
    <2>5. Wrap(txTail' + k) = i /\ tag' = no(S)
      BY <1>1
    <2> DEFINE n == txCount - k
    <2>6. /\ txBuf'[i] = IF tag >= n THEN tag - n ELSE tag - n + TagMax
          /\ n \in 1 .. TX_BUF_SAMPLES - 1 /\ n + S <= TX_BUF_SAMPLES - 1 /\ txCount' - k = n + S
      BY <2>2, <2>3, <2>4
    <2> HIDE DEF i, at, n, S
    <2>7. txBuf'[i] = IF tag' >= n + S THEN tag' - (n + S) ELSE tag' - (n + S) + TagMax
      BY <1>3, <2>5, <2>6 DEF Tag
    <2> QED
      BY <2>5, <2>6, <2>7
  <1>7. CASE k >= txCount
    <2> DEFINE j == k - txCount
    <2>1. j \in K
      BY <1>3, <1>4, <1>5, <1>7
    <2>2. at(j) = i
      BY <1>3, <1>4, <1>5, <1>7, <2>1 DEF txCount, Wrap, Index
    <2>3. \A h \in K : at(h) = i => h = j
      BY <1>2, <1>3, <2>1, <2>2 DEF Wrap, Index
    <2>4. (CHOOSE h \in K : at(h) = i) = j
      BY <2>1, <2>2, <2>3
    <2>5. txBuf'[i] = no(j)
      BY <1>1, <1>5, <2>1, <2>2, <2>4
    <2>6. txCount' - k = S - j
      BY <1>3, <1>4, <1>5
    <2>7. Wrap(txTail' + k) = i /\ tag' = no(S)
      BY <1>1
    <2> HIDE DEF i, j, at, S
    <2>8. txBuf'[i] = IF tag' >= S - j THEN tag' - (S - j) ELSE tag' - (S - j) + TagMax
      BY <1>3, <2>1, <2>5, <2>7 DEF Tag
    <2> QED
      BY <2>6, <2>7, <2>8
  <1> QED
    BY <1>1, <1>3, <1>4, <1>5, <1>6, <1>7

(* The interrupt takes the oldest sample, and the others move up.            *)
LEMMA PlayHolds == HoldsInv /\ PlaySample => Contents'
  <1> SUFFICES ASSUME HoldsInv, PlaySample, NEW k \in 0 .. txCount' - 1
               PROVE  txBuf'[Wrap(txTail' + k)] = (IF tag' >= txCount' - k THEN tag' - (txCount' - k)
                                                   ELSE tag' - (txCount' - k) + TagMax)
    BY DEF Contents, Ago, Wrap
  <1>1. UNCHANGED <<txBuf, txHead, tag>> /\ txCount # 0 /\ txTail' = Wrap(txTail + 1)
    BY DEF PlaySample
  <1>2. /\ txHead \in Index /\ txTail \in Index /\ TX_BUF_SAMPLES \in Nat /\ TX_BUF_SAMPLES > 1
    BY EngineAssumption DEF HoldsInv, RingInv, TypeOK
  <1>3. txCount \in 1 .. TX_BUF_SAMPLES - 1 /\ txCount' = txCount - 1
    BY <1>1, <1>2 DEF txCount, Wrap, Index
  <1>4. k + 1 \in 0 .. txCount - 1 /\ txCount' - k = txCount - (k + 1)
    BY <1>3
  <1>5. Wrap(txTail' + k) = Wrap(txTail + (k + 1))
    BY <1>1, <1>2, <1>3, <1>4 DEF Wrap, Index
  <1>6. txBuf[Wrap(txTail + (k + 1))] = Ago(txCount - (k + 1))
    BY <1>4 DEF HoldsInv, Contents
  <1> QED
    BY <1>1, <1>4, <1>5, <1>6 DEF Ago

(* No other step touches the samples that wait.                              *)
LEMMA HoldsStep == HoldsInv /\ [Next]_vars => HoldsInv'
  <1> SUFFICES ASSUME HoldsInv, [Next]_vars PROVE Contents'
    BY RingStep DEF HoldsInv
  <1>1. CASE Store
    BY <1>1, StoreHolds
  <1>2. CASE PlaySample
    BY <1>2, PlayHolds
  <1>3. CASE Drop
    <2>1. txCount' = 0
      BY <1>3, EngineAssumption DEF Drop, HoldsInv, RingInv, TypeOK, txCount, Index
    <2> QED
      BY <2>1 DEF Contents
  <1>4. CASE UNCHANGED <<txBuf, txHead, txTail, tag>>
    BY <1>4 DEF HoldsInv, Contents, Ago, Wrap, txCount
  <1>5. \/ Store \/ PlaySample \/ Drop
        \/ UNCHANGED <<txBuf, txHead, txTail, tag>>
    BY DEF Next, engine_sample_tick, KeyDownAtEnd, RunDry, StaySilent, EngineLoop, ClearEot, KeyUp,
           PttOn, SetEot, InsertSilence, Silence, Timeout, GoIdle, PttOff, SelfHeal, HostFrame,
           ReceiveSamples, ReceiveEot, Damage, HostStops, TimePasses, vars, ring, history
  <1> QED
    BY <1>1, <1>2, <1>3, <1>4, <1>5

(* For every size of ring and frame, and wherever the interrupt comes: the   *)
(* samples engine_sample_tick() has still to play are those handleSampData() *)
(* accepted last, all of them and in their order.                            *)
THEOREM SamplesAreKept == Spec => []NoSampleLost
  <1>1. Init => HoldsInv
    <2>1. Init => txCount = 0
      BY EngineAssumption DEF Init, txCount
    <2> QED
      BY <2>1, RingInit DEF HoldsInv, Contents
  <1> QED
    BY <1>1, HoldsStep, HoldsNoLoss, PTL DEF Spec

------------------------------------------------------------------------------
(***************************************************************************)
(* The gap after an underrun.  While the engine plays there is none; in a  *)
(* stall stallCount is the gap, the sample of the underrun included.  A    *)
(* start after the end of a transmission has been asked for needs no gap,  *)
(* and leaves stallCount behind.                                           *)
(***************************************************************************)
GapInv ==
    /\ txState = "PLAY" => gap = 0
    /\ txState = "PRIME" /\ stallAlign => gap = stallCount

LEMMA GapStep == RingInv /\ GapInv /\ [Next]_vars => GapInv'
  <1> SUFFICES ASSUME RingInv, GapInv, [Next]_vars PROVE GapInv'
    OBVIOUS
  <1>1. CASE PlaySample
    BY <1>1 DEF PlaySample, GapInv
  <1>2. CASE KeyDownAtEnd
    BY <1>2 DEF KeyDownAtEnd, GapInv
  <1>3. CASE RunDry
    <2>1. txState = "PLAY"
      BY <1>3, EngineAssumption DEF RunDry, Playing, Starts, Primed
    <2> QED
      BY <1>3, <2>1 DEF RunDry, GapInv
  <1>4. CASE StaySilent
    BY <1>4 DEF StaySilent, GapInv
  <1>5. CASE KeyUp
    BY <1>5 DEF KeyUp, GapInv, history
  <1>6. CASE GoIdle
    BY <1>6 DEF GoIdle, GapInv
  <1>7. CASE UNCHANGED <<txState, stallAlign, stallCount, gap>>
    BY <1>7 DEF GapInv
  <1>8. \/ PlaySample \/ KeyDownAtEnd \/ RunDry \/ StaySilent \/ KeyUp \/ GoIdle
        \/ UNCHANGED <<txState, stallAlign, stallCount, gap>>
    BY DEF Next, engine_sample_tick, EngineLoop, Store, ClearEot, PttOn, SetEot, InsertSilence, Silence,
           Timeout, Drop, PttOff, SelfHeal, HostFrame, ReceiveSamples, ReceiveEot, Damage, HostStops,
           TimePasses, vars, stall, history
  <1> QED
    BY <1>1, <1>2, <1>3, <1>4, <1>5, <1>6, <1>7, <1>8

(* For every length of a cycle: after an underrun engine_sample_tick()       *)
(* starts to play again only when the silent gap is a whole number of        *)
(* cycles, however often it runs dry and whatever comes in between.          *)
THEOREM GapsAreWholeCycles == Spec => StallKeepsCycle
  <1>1. Init => GapInv
    BY DEF Init, GapInv
  <1>2. GapInv => [Starts /\ stallAlign /\ ~ txEot /\ txState' = "PLAY" => gap = 0]_vars
    BY DEF GapInv, Starts, Primed
  <1> QED
    BY <1>1, <1>2, RingInit, RingStep, GapStep, PTL DEF Spec, StallKeepsCycle
==============================================================================
