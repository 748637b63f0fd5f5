--------------------------- MODULE EngineRxProofs ----------------------------
(***************************************************************************)
(* For every size of the frame ring, of a frame and of the counters: the   *)
(* receive stream and the timing reports of engine.c.                      *)
(***************************************************************************)
EXTENDS EngineRx, SequenceTheorems, TLAPS

------------------------------------------------------------------------------
(* Arithmetic of counters that wrap around *)

\* The remainder is determined by its range.
LEMMA ModUnique ==
    ASSUME NEW n \in Nat \ {0}, NEW q \in Int, NEW m \in 0 .. n - 1
    PROVE  (q * n + m) % n = m
<1> DEFINE x == q * n + m
<1>1. x \in Int
  OBVIOUS
<1> HIDE DEF x
<1>2. PICK p \in Int, y \in 0 .. n - 1 : x = p * n + y /\ y = x % n
  <2>1. x = (x \div n) * n + (x % n) /\ x \div n \in Int /\ x % n \in 0 .. n - 1
    BY <1>1
  <2> QED BY <2>1
<1> DEFINE d == q - p
<1>3. d \in Int /\ d * n = y - m
  BY <1>1, <1>2 DEF x
<1> HIDE DEF d
<1>4. ~ (d >= 1)
  <2>1. d >= 1 => d * n >= n
    BY <1>3
  <2> QED BY <2>1, <1>2, <1>3
<1>5. ~ (d <= 0 - 1)
  <2>1. d <= 0 - 1 => d * n <= 0 - n
    BY <1>3
  <2> QED BY <2>1, <1>2, <1>3
<1>6. d = 0
  BY <1>3, <1>4, <1>5
<1>7. y = m
  BY <1>2, <1>3, <1>6
<1> QED BY <1>2, <1>7 DEF x

\* Adding whole turns does not change the remainder.
LEMMA ModTurns ==
    ASSUME NEW n \in Nat \ {0}, NEW x \in Int, NEW q \in Int
    PROVE  (x + q * n) % n = x % n
<1>1. x = (x \div n) * n + (x % n) /\ x \div n \in Int /\ x % n \in 0 .. n - 1
  OBVIOUS
<1>2. x + q * n = ((x \div n) + q) * n + (x % n)
  BY <1>1
<1>3. (x \div n) + q \in Int
  BY <1>1
<1> QED BY <1>1, <1>2, <1>3, ModUnique

\* Two places fewer than n apart have different remainders.
LEMMA ModApart ==
    ASSUME NEW n \in Nat \ {0}, NEW x \in Int, NEW d \in 1 .. n - 1
    PROVE  (x - d) % n # x % n
<1>1. PICK q \in Int, m \in 0 .. n - 1 : x = q * n + m /\ m = x % n
  <2>1. x = (x \div n) * n + (x % n) /\ x \div n \in Int /\ x % n \in 0 .. n - 1
    OBVIOUS
  <2> QED BY <2>1
<1>2. CASE m >= d
  <2>1. x - d = q * n + (m - d) /\ m - d \in 0 .. n - 1
    BY <1>1, <1>2
  <2>2. (q * n + (m - d)) % n = m - d
    BY <2>1, ModUnique
  <2> QED BY <1>1, <2>1, <2>2
<1>3. CASE m < d
  <2>1. x - d = (q - 1) * n + (m - d + n) /\ m - d + n \in 0 .. n - 1 /\ q - 1 \in Int
    BY <1>1, <1>3
  <2>2. ((q - 1) * n + (m - d + n)) % n = m - d + n
    BY <2>1, ModUnique
  <2> QED BY <1>1, <2>1, <2>2
<1> QED BY <1>1, <1>2, <1>3

\* Frames in the ring.
Ahead == IF rxWrCount >= rxRdCount THEN rxWrCount - rxRdCount ELSE rxWrCount - rxRdCount + Word

LEMMA WaitingIsAhead ==
    ASSUME rxWrCount \in Count, rxRdCount \in Count
    PROVE  Waiting = Ahead /\ Ahead \in Count
<1>1. Word \in Nat \ {0}
  BY RxAssumption
<1>2. Ahead \in Count
  BY <1>1 DEF Ahead, Count
<1>3. rxWrCount - rxRdCount = 0 * Word + Ahead \/ rxWrCount - rxRdCount = (0 - 1) * Word + Ahead
  BY <1>1 DEF Ahead, Count
<1>4. (0 * Word + Ahead) % Word = Ahead /\ ((0 - 1) * Word + Ahead) % Word = Ahead
  BY <1>1, <1>2, ModUnique DEF Count
<1> QED BY <1>2, <1>3, <1>4 DEF Waiting

\* The next count.
LEMMA CountOn ==
    ASSUME NEW n \in Count
    PROVE  /\ (n + 1) % Word = IF n + 1 = Word THEN 0 ELSE n + 1
           /\ (n + 1) % Word \in Count
<1>1. Word \in Nat \ {0}
  BY RxAssumption
<1>2. CASE n + 1 = Word
  <2>1. (1 * Word + 0) % Word = 0
    BY <1>1, ModUnique
  <2> QED BY <1>1, <1>2, <2>1 DEF Count
<1>3. CASE n + 1 # Word
  <2>1. (0 * Word + (n + 1)) % Word = n + 1 /\ n + 1 \in Count
    BY <1>1, <1>3, ModUnique DEF Count
  <2> QED BY <1>1, <1>3, <2>1 DEF Count
<1> QED BY <1>2, <1>3

\* A turn of the counters is a whole number of turns of the ring.
LEMMA SameSlot ==
    ASSUME NEW x \in Int
    PROVE  (x + Word) % RX_FRAMES = x % RX_FRAMES
<1>1. RX_FRAMES \in Nat \ {0} /\ Word \in Nat /\ Word % RX_FRAMES = 0
  BY RxAssumption
<1>2. Word = RX_FRAMES * (Word \div RX_FRAMES) + (Word % RX_FRAMES) /\ Word \div RX_FRAMES \in Int
  BY <1>1
<1>3. Word = (Word \div RX_FRAMES) * RX_FRAMES
  BY <1>1, <1>2
<1> QED BY <1>1, <1>2, <1>3, ModTurns

------------------------------------------------------------------------------
(* The inductive invariant *)

\* The ring holds at most RX_FRAMES frames, one at least while the main loop
\* works on it.  A full ring has just been filled.
RingInv ==
    /\ Ahead \in 0 .. RX_FRAMES
    /\ pc \in {"copy", "send", "next"} => Ahead >= 1
    /\ ~ overflowed /\ Ahead = RX_FRAMES => rxIdx = 0

\* Ticks whose samples the main loop is through with.
Done == now - rxIdx - Ahead * SAMPLES_PER_FRAME

\* The sample at place i of the frame n behind the one being filled.
Stored ==
    /\ \A n \in 1 .. RX_FRAMES : \A i \in Place : n <= Ahead =>
           rxBuf[(rxWrCount - n) % RX_FRAMES][i] = now - rxIdx - n * SAMPLES_PER_FRAME + i + 1
    /\ \A i \in Place : i < rxIdx => rxBuf[rxWrCount % RX_FRAMES][i] = now - rxIdx + i + 1

\* The frame in sendRxFrames() is the oldest one.
FrameInv == pc = "send" => \A i \in Place : frame[i] = Done + i + 1

\* The last tick whose sample the host has, if it has any.
Last == Done + (IF pc = "next" THEN SAMPLES_PER_FRAME ELSE 0)

HeardInv == \A i \in 1 .. Len(heard) : heard[i] = Last - Len(heard) + i

\* Nothing is sent before the host has configured the modem.
ConfigInv ==
    /\ heard # <<>> => configured
    /\ pc \in {"copy", "send", "seq1", "k", "r", "seq2", "report", "clear"} => configured
    /\ report # NoReport => configured

\* Position p of the stream is that of tick t, all counts modulo Word.
Fits(p, t) == \E q \in Int :
                  p = (rxWrCount * SAMPLES_PER_FRAME + rxIdx) - (now - (t - 1)) + q * Word

\* The note is right, and so is the copy of it that is going to be reported.
NoteInv ==
    /\ tmReady => tmK.tick \in 1 .. now
    /\ pc = "report" => k.tick \in 1 .. now
    /\ ~ overflowed => /\ tmReady => Fits(tmR, tmK.tick)
                       /\ pc = "report" => Fits(r, k.tick)

\* tmSeq only grows, so that an unchanged number stands for an unchanged note.
SeqInv ==
    /\ tmSeq <= 2 * now
    /\ pc \in {"k", "r", "seq2"} => s1 <= tmSeq
    /\ pc \in {"r", "seq2"} /\ s1 = tmSeq => k = tmK
    /\ pc = "seq2" /\ s1 = tmSeq => r = tmR

\* A note that waits, and one that is being read, is about the present downlink.
DownInv ==
    /\ tmK.downlink <= downlink
    /\ tmReady => tmK.downlink = downlink
    /\ pc \in {"seq1", "k", "r", "seq2", "report"} => tmReady
    /\ pc \in {"r", "seq2", "report"} => k.downlink = downlink
    /\ pc = "clear" => answered
    /\ DownlinkIsReported
    /\ report.fresh

\* The last report stays right while the stream goes on.
ReportInv == report # NoReport => report.pos = Len(heard) + report.tick - Last

StreamInv ==
    ~ overflowed => Done \in Nat /\ Stored /\ FrameInv /\ HeardInv /\ ReportInv

Inv == TypeOK /\ RingInv /\ ConfigInv /\ NoteInv /\ SeqInv /\ DownInv /\ StreamInv

------------------------------------------------------------------------------
(* Types *)

LEMMA Sizes ==
    /\ RX_FRAMES \in Nat /\ RX_FRAMES >= 1
    /\ SAMPLES_PER_FRAME \in Nat /\ SAMPLES_PER_FRAME >= 1
    /\ TX_TIMING_REFRESH \in Nat /\ TX_TIMING_REFRESH >= 1
    /\ Word \in Nat /\ Word > RX_FRAMES
    /\ MaxTicks \in Nat /\ MaxDownlinks \in Nat
    /\ 2 * MaxTicks < Word
    /\ 0 \in Place /\ 0 \in Count
<1>1. /\ RX_FRAMES \in Nat \ {0} /\ SAMPLES_PER_FRAME \in Nat \ {0} /\ TX_TIMING_REFRESH \in Nat \ {0}
      /\ Word \in Nat /\ Word > RX_FRAMES /\ MaxTicks \in Nat /\ MaxDownlinks \in Nat
  BY RxAssumption
<1>2. 2 * MaxTicks < Word
  BY <1>1, RunAssumption
<1> QED BY <1>1, <1>2 DEF Place, Count

\* What the interrupt does to the ring.
LEMMA RxSampleStep ==
    ASSUME TypeOK, Ahead \in 0 .. RX_FRAMES, RxSample, UNCHANGED rxRdCount
    PROVE  /\ now' = now + 1 /\ now' \in 0 .. MaxTicks
           /\ rxIdx' \in Place /\ rxWrCount' \in Count
           /\ rxBuf' \in [0 .. RX_FRAMES - 1 -> Samples]
           /\ overflowed' \in BOOLEAN
           /\ ~ overflowed' => ~ overflowed /\ Ahead < RX_FRAMES
           /\ Ahead = RX_FRAMES => rxWrCount' = rxWrCount /\ Ahead' = Ahead
           /\ Ahead < RX_FRAMES =>
                  /\ rxBuf' = [rxBuf EXCEPT ![rxWrCount % RX_FRAMES][rxIdx] = now + 1]
                  /\ \/ /\ rxIdx + 1 < SAMPLES_PER_FRAME
                        /\ rxIdx' = rxIdx + 1
                        /\ rxWrCount' = rxWrCount
                        /\ Ahead' = Ahead
                     \/ /\ rxIdx + 1 = SAMPLES_PER_FRAME
                        /\ rxIdx' = 0
                        /\ rxWrCount' = IF rxWrCount + 1 = Word THEN 0 ELSE rxWrCount + 1
                        /\ Ahead' = Ahead + 1
<1>1. Waiting = Ahead /\ (Full <=> Ahead = RX_FRAMES)
  BY WaitingIsAhead, Sizes DEF TypeOK, Full
<1>2. /\ rxWrCount \in Count /\ rxRdCount \in Count /\ rxIdx \in Place /\ now \in 0 .. MaxTicks
      /\ rxBuf \in [0 .. RX_FRAMES - 1 -> Samples]
  BY DEF TypeOK
<1>3. now' = now + 1 /\ now' \in 0 .. MaxTicks
  BY <1>2, Sizes DEF RxSample
<1>4. \/ rxIdx + 1 < SAMPLES_PER_FRAME /\ rxIdx' = rxIdx + 1
      \/ rxIdx + 1 = SAMPLES_PER_FRAME /\ rxIdx' = 0
  BY <1>2, Sizes DEF RxSample, NextPlace, Place
<1>5. rxIdx' \in Place
  BY <1>2, <1>4, Sizes DEF Place
<1>6. rxWrCount' = IF Ahead # RX_FRAMES /\ rxIdx' = 0 THEN (rxWrCount + 1) % Word ELSE rxWrCount
  BY <1>1 DEF RxSample
<1>7. (rxWrCount + 1) % Word = (IF rxWrCount + 1 = Word THEN 0 ELSE rxWrCount + 1)
  BY <1>2, CountOn
<1>8. rxWrCount' \in Count
  BY <1>2, <1>6, <1>7, Sizes DEF Count
<1>9. rxWrCount % RX_FRAMES \in 0 .. RX_FRAMES - 1
  BY <1>2, Sizes DEF Count
<1>10. rxBuf' \in [0 .. RX_FRAMES - 1 -> Samples]
  <2>1. now + 1 \in 0 .. MaxTicks
    BY <1>3
  <2>2. [rxBuf[rxWrCount % RX_FRAMES] EXCEPT ![rxIdx] = now + 1] \in Samples
    BY <1>2, <1>9, <2>1 DEF Samples
  <2> QED BY <1>2, <1>9, <2>2 DEF RxSample
<1>11. /\ overflowed' \in BOOLEAN
       /\ ~ overflowed' => ~ overflowed /\ ~ Full
  BY Zenon DEF RxSample
<1>12. ~ overflowed' => ~ overflowed /\ Ahead < RX_FRAMES
  BY <1>1, <1>11, Sizes
<1>13. Ahead = RX_FRAMES => rxWrCount' = rxWrCount /\ Ahead' = Ahead
  BY <1>6 DEF Ahead
<1>14. Ahead < RX_FRAMES => rxBuf' = [rxBuf EXCEPT ![rxWrCount % RX_FRAMES][rxIdx] = now + 1]
  BY <1>1, Sizes DEF RxSample
<1>15. ASSUME Ahead < RX_FRAMES, rxIdx' = 0
       PROVE  /\ rxWrCount' = IF rxWrCount + 1 = Word THEN 0 ELSE rxWrCount + 1
              /\ Ahead' = Ahead + 1
  <2>1. rxWrCount' = IF rxWrCount + 1 = Word THEN 0 ELSE rxWrCount + 1
    BY <1>6, <1>7, <1>15, Sizes
  <2> QED BY <2>1, <1>2, <1>15, Sizes DEF Ahead, Count
<1>16. ASSUME rxIdx' # 0 PROVE rxWrCount' = rxWrCount /\ Ahead' = Ahead
  BY <1>6, <1>16 DEF Ahead
<1>17. rxIdx \in Nat
  BY <1>2, Sizes DEF Place
<1> QED BY <1>3, <1>4, <1>5, <1>8, <1>10, <1>11, <1>12, <1>13, <1>14, <1>15, <1>16, <1>17

\* What else the interrupt does: it takes a note, or leaves the last one.
Noted ==
    /\ tmSeq' = (tmSeq + 2) % Word
    /\ tmK' = [tick |-> now + 1, downlink |-> downlink]
    /\ tmR' = rxPos
    /\ tmReady' = TRUE

LEMMA TickStep ==
    ASSUME TypeOK, engine_sample_tick
    PROVE  /\ RxSample
           /\ UNCHANGED <<rxRdCount, configured, pc, frame, s1, k, r, downlink, heard, report, answered>>
           /\ Noted \/ UNCHANGED <<tmReady, tmSeq, tmK, tmR>>
           /\ txOn' \in BOOLEAN /\ tmPending' \in BOOLEAN
           /\ playIdx' \in 0 .. TX_TIMING_REFRESH - 1
<1>1. CASE TickPlays
  <2>1. /\ RxSample
        /\ UNCHANGED <<rxRdCount, configured, pc, frame, s1, k, r, downlink, heard, report, answered, txOn>>
    BY <1>1 DEF TickPlays, local
  <2>2. Noted \/ UNCHANGED <<tmReady, tmSeq, tmK, tmR>>
    BY <1>1 DEF TickPlays, TakeNote, Noted
  <2>3. tmPending' \in BOOLEAN
    BY <1>1, Zenon DEF TickPlays
  <2>4. playIdx' \in 0 .. TX_TIMING_REFRESH - 1
    BY <1>1, Sizes DEF TickPlays, TypeOK
  <2> QED BY <2>1, <2>2, <2>3, <2>4 DEF TypeOK
<1>2. ASSUME NEW dry \in BOOLEAN, NEW ends \in BOOLEAN, TickSilent(dry, ends)
      PROVE  /\ RxSample
             /\ UNCHANGED <<rxRdCount, configured, pc, frame, s1, k, r, downlink, heard, report, answered>>
             /\ UNCHANGED <<tmReady, tmSeq, tmK, tmR, playIdx>>
             /\ txOn' \in BOOLEAN /\ tmPending' \in BOOLEAN
  <2>1. txOn' \in BOOLEAN /\ tmPending' \in BOOLEAN
    BY <1>2, Zenon DEF TickSilent
  <2> QED BY <1>2, <2>1 DEF TickSilent, local
<1> QED BY <1>1, <1>2 DEF engine_sample_tick, TypeOK

LEMMA TickType ==
    ASSUME TypeOK, RingInv, engine_sample_tick
    PROVE  TypeOK'
<1>1. /\ now' \in 0 .. MaxTicks /\ rxIdx' \in Place /\ rxWrCount' \in Count
      /\ rxBuf' \in [0 .. RX_FRAMES - 1 -> Samples] /\ overflowed' \in BOOLEAN /\ now' = now + 1
  BY TickStep, RxSampleStep DEF RingInv
<1>2. CASE Noted
  <2>1. tmSeq' \in Count
    BY <1>2, Sizes DEF Noted, TypeOK, Count
  <2>2. tmR' \in Count
    BY <1>2, Sizes DEF Noted, rxPos, TypeOK, Count, Place
  <2>3. tmK' \in Notes
    BY <1>1, <1>2 DEF Noted, Notes, TypeOK
  <2> QED BY <1>1, <1>2, <2>1, <2>2, <2>3, TickStep DEF TypeOK, Noted
<1>3. CASE UNCHANGED <<tmReady, tmSeq, tmK, tmR>>
  BY <1>1, <1>3, TickStep DEF TypeOK
<1> QED BY <1>2, <1>3, TickStep

\* The samples of a frame, as they are sent.
LEMMA SentFrame ==
    ASSUME TypeOK, RxSend
    PROVE  /\ heard' \in Seq(0 .. MaxTicks)
           /\ Len(heard) \in Nat
           /\ Len(heard') = Len(heard) + SAMPLES_PER_FRAME
           /\ \A i \in 1 .. Len(heard) : heard'[i] = heard[i]
           /\ \A i \in Place : heard'[Len(heard) + i + 1] = frame[i]
<1> DEFINE piece == [i \in 1 .. SAMPLES_PER_FRAME |-> frame[i - 1]]
<1>1. frame \in [Place -> 0 .. MaxTicks] /\ heard \in Seq(0 .. MaxTicks)
  BY DEF TypeOK, Samples
<1>2. piece \in Seq(0 .. MaxTicks) /\ Len(piece) = SAMPLES_PER_FRAME
  BY <1>1, Sizes DEF Place
<1>3. heard' = heard \o piece
  BY DEF RxSend
<1>4. \A i \in Place : i + 1 \in 1 .. SAMPLES_PER_FRAME /\ piece[i + 1] = frame[i]
  BY Sizes DEF Place
<1>5. Len(heard) \in Nat
  BY <1>1
<1> HIDE DEF piece
<1>6. /\ heard \o piece \in Seq(0 .. MaxTicks)
      /\ Len(heard \o piece) = Len(heard) + Len(piece)
      /\ \A i \in 1 .. Len(heard) + Len(piece) : (heard \o piece)[i] =
             IF i <= Len(heard) THEN heard[i] ELSE piece[i - Len(heard)]
  BY <1>1, <1>2, ConcatProperties
<1>7. \A i \in Place : heard'[Len(heard) + i + 1] = frame[i]
  <2> SUFFICES ASSUME NEW i \in Place PROVE heard'[Len(heard) + i + 1] = frame[i]
    OBVIOUS
  <2> DEFINE at == Len(heard) + i + 1
  <2>1. at \in 1 .. Len(heard) + Len(piece) /\ ~ (at <= Len(heard)) /\ at - Len(heard) = i + 1
    BY <1>2, <1>4, <1>5, Sizes DEF Place
  <2> HIDE DEF at
  <2>2. (heard \o piece)[at] = piece[at - Len(heard)]
    BY <1>6, <2>1
  <2>3. heard'[at] = frame[i]
    BY <1>3, <1>4, <2>1, <2>2
  <2> QED BY <2>3 DEF at
<1>8. \A i \in 1 .. Len(heard) : heard'[i] = heard[i]
  BY <1>2, <1>3, <1>5, <1>6, Sizes
<1> QED BY <1>2, <1>3, <1>5, <1>6, <1>7, <1>8

LEMMA PollType ==
    ASSUME TypeOK, RingInv, engine_poll
    PROVE  TypeOK'
<1> USE DEF TypeOK
<1>1. CASE NothingToParse
  BY <1>1 DEF NothingToParse, At, ring, note, tx, local, history
<1>2. CASE Configure
  BY <1>2 DEF Configure, At, ring, note, tx, local, history
<1>3. CASE KeyUp
  <2>1. playIdx' \in 0 .. TX_TIMING_REFRESH - 1 /\ downlink' \in 0 .. MaxDownlinks
    BY <1>3, Sizes DEF KeyUp
  <2> QED BY <1>3, <2>1 DEF KeyUp, At, ring, local
<1>4. CASE KeyDown
  BY <1>4 DEF KeyDown, At, ring, note, local, history
<1>5. CASE RxLook
  BY <1>5 DEF RxLook, ring, note, tx, local, history
<1>6. CASE RxCopy
  <2>1. rxRdCount % RX_FRAMES \in 0 .. RX_FRAMES - 1
    BY Sizes DEF Count
  <2>2. frame' \in Samples
    BY <1>6, <2>1 DEF RxCopy
  <2> QED BY <1>6, <2>2 DEF RxCopy, At, ring, note, tx, history
<1>7. Blank \in Samples
  BY Sizes DEF Blank, Samples
<1>8. CASE RxSend
  BY <1>7, <1>8, SentFrame DEF RxSend, At, ring, note, tx
<1>9. CASE UartBusy
  BY <1>7, <1>9 DEF UartBusy, At, ring, note, tx, history
<1>10. CASE RxNext
  <2>1. rxRdCount' \in Count
    BY <1>10, CountOn DEF RxNext
  <2> QED BY <1>10, <2>1 DEF RxNext, At, ring, note, tx, local, history
<1>11. CASE TmLook
  BY <1>11 DEF TmLook, ring, note, tx, local, history
<1>12. CASE TmSeq1
  BY <1>12 DEF TmSeq1, At, ring, note, tx, history
<1>13. CASE TmReadK
  BY <1>13 DEF TmReadK, At, ring, note, tx, history
<1>14. CASE TmReadR
  BY <1>14 DEF TmReadR, At, ring, note, tx, history
<1>15. Forget => s1' \in Count /\ k' \in Notes /\ r' \in Count
  BY Sizes DEF Forget, NoNote, Notes
<1>16. CASE TmSeq2
  BY <1>15, <1>16 DEF TmSeq2, At, ring, note, tx, local, history
<1>17. CASE TmSend
  <2>1. off \in Int
    <3>1. r - rxRdCount * SAMPLES_PER_FRAME \in Int
      BY Sizes DEF Count
    <3>2. (r - rxRdCount * SAMPLES_PER_FRAME) % Word \in 0 .. Word - 1
      BY <3>1, Sizes
    <3> QED BY <3>2, Sizes DEF off, Signed
  <2>2. Len(heard) \in Nat /\ k.tick \in 0 .. MaxTicks
    BY DEF Notes
  <2>3. (k.downlink = downlink) \in BOOLEAN
    OBVIOUS
  <2>4. report' \in [pos : Int, tick : 0 .. MaxTicks, fresh : BOOLEAN]
    BY <1>17, <2>1, <2>2, <2>3 DEF TmSend
  <2> QED BY <1>15, <1>17, <2>4 DEF TmSend, At, ring, note, tx
<1>18. CASE TmUartBusy
  BY <1>15, <1>18 DEF TmUartBusy, At, ring, note, tx, history
<1>19. CASE TmClear
  BY <1>19 DEF TmClear, At, ring, tx, local, history
<1> QED BY <1>1, <1>2, <1>3, <1>4, <1>5, <1>6, <1>8, <1>9, <1>10, <1>11, <1>12, <1>13, <1>14,
           <1>16, <1>17, <1>18, <1>19
        DEF engine_poll, parseUart, sendRxFrames, sendTimingReport

------------------------------------------------------------------------------
(* The interrupt *)

LEMMA TickRing ==
    ASSUME TypeOK, RingInv, engine_sample_tick
    PROVE  RingInv'
<1>1. Ahead \in 0 .. RX_FRAMES /\ RxSample /\ UNCHANGED <<rxRdCount, pc>>
  BY TickStep DEF RingInv
<1>2. /\ ~ overflowed' => ~ overflowed /\ Ahead < RX_FRAMES
      /\ Ahead = RX_FRAMES => Ahead' = Ahead
      /\ Ahead < RX_FRAMES => Ahead' = Ahead \/ (Ahead' = Ahead + 1 /\ rxIdx' = 0)
  BY <1>1, RxSampleStep
<1>3. Ahead' \in 0 .. RX_FRAMES /\ Ahead' >= Ahead
  BY <1>1, <1>2, Sizes
<1>4. pc' \in {"copy", "send", "next"} => Ahead' >= 1
  BY <1>1, <1>3, Sizes DEF RingInv
<1>5. ~ overflowed' /\ Ahead' = RX_FRAMES => rxIdx' = 0
  BY <1>1, <1>2, Sizes
<1> QED BY <1>3, <1>4, <1>5 DEF RingInv

LEMMA TickSeqDown ==
    ASSUME TypeOK, RingInv, SeqInv, DownInv, engine_sample_tick
    PROVE  SeqInv' /\ DownInv'
<1>1. now' = now + 1 /\ now \in 0 .. MaxTicks /\ now' \in 0 .. MaxTicks
  BY TickStep, RxSampleStep DEF RingInv, TypeOK
<1>2. UNCHANGED <<pc, s1, k, r, downlink, report, answered>>
  BY TickStep
<1>3. CASE Noted
  <2>1. tmSeq + 2 \in Count /\ tmSeq + 2 <= 2 * now'
    BY <1>1, Sizes DEF TypeOK, SeqInv, Count
  <2>2. (0 * Word + (tmSeq + 2)) % Word = tmSeq + 2
    BY <2>1, Sizes, ModUnique DEF Count
  <2>3. tmSeq' = tmSeq + 2
    BY <1>3, <2>1, <2>2, Sizes DEF Noted, Count
  <2>4. tmSeq \in Nat /\ s1 \in Nat
    BY Sizes DEF TypeOK, Count
  <2>5. SeqInv'
    BY <1>1, <1>2, <2>1, <2>3, <2>4 DEF SeqInv
  <2>6. tmK'.downlink = downlink /\ tmReady' /\ downlink <= downlink
    BY <1>3 DEF Noted, TypeOK
  <2>7. DownInv'
    BY <1>2, <2>6 DEF DownInv, DownlinkIsReported
  <2> QED BY <2>5, <2>7
<1>4. CASE UNCHANGED <<tmReady, tmSeq, tmK, tmR>>
  <2>1. tmSeq' <= 2 * now'
    BY <1>1, <1>4, Sizes DEF SeqInv, TypeOK, Count
  <2> QED BY <1>2, <1>4, <2>1 DEF SeqInv, DownInv, DownlinkIsReported
<1> QED BY <1>3, <1>4, TickStep

\* The position of the stream moves on with every sample that is stored.
LEMMA PositionOn ==
    ASSUME TypeOK, Ahead \in 0 .. RX_FRAMES, RxSample, UNCHANGED rxRdCount, ~ overflowed'
    PROVE  \E z \in Int : rxWrCount' * SAMPLES_PER_FRAME + rxIdx'
                            = rxWrCount * SAMPLES_PER_FRAME + rxIdx + 1 + z * Word
<1>1. /\ rxWrCount \in Nat /\ rxIdx \in Nat /\ SAMPLES_PER_FRAME \in Nat /\ Word \in Nat
      /\ rxIdx' \in Nat /\ rxWrCount' \in Nat
  BY RxSampleStep, Sizes DEF TypeOK, Count, Place
<1>2. \/ rxIdx' = rxIdx + 1 /\ rxWrCount' = rxWrCount
      \/ /\ rxIdx + 1 = SAMPLES_PER_FRAME /\ rxIdx' = 0
         /\ rxWrCount' = IF rxWrCount + 1 = Word THEN 0 ELSE rxWrCount + 1
  BY RxSampleStep
<1>3. CASE rxIdx' = rxIdx + 1 /\ rxWrCount' = rxWrCount
  <2>1. rxWrCount' * SAMPLES_PER_FRAME + rxIdx' = rxWrCount * SAMPLES_PER_FRAME + rxIdx + 1 + 0 * Word
    BY <1>1, <1>3
  <2> QED BY <2>1
<1>4. CASE rxIdx + 1 = SAMPLES_PER_FRAME /\ rxIdx' = 0 /\ rxWrCount' = rxWrCount + 1
  <2>1. (rxWrCount + 1) * SAMPLES_PER_FRAME = rxWrCount * SAMPLES_PER_FRAME + SAMPLES_PER_FRAME
    BY <1>1
  <2>2. rxWrCount' * SAMPLES_PER_FRAME + rxIdx' = rxWrCount * SAMPLES_PER_FRAME + rxIdx + 1 + 0 * Word
    BY <1>1, <1>4, <2>1
  <2> QED BY <2>2
<1>5. CASE rxIdx + 1 = SAMPLES_PER_FRAME /\ rxIdx' = 0 /\ rxWrCount + 1 = Word /\ rxWrCount' = 0
  <2>1. rxWrCount * SAMPLES_PER_FRAME + SAMPLES_PER_FRAME = SAMPLES_PER_FRAME * Word
    <3>1. (rxWrCount + 1) * SAMPLES_PER_FRAME = rxWrCount * SAMPLES_PER_FRAME + SAMPLES_PER_FRAME
      BY <1>1
    <3> QED BY <1>1, <1>5, <3>1
  <2>2. rxWrCount' * SAMPLES_PER_FRAME + rxIdx' = 0
    BY <1>1, <1>5
  <2>3. (0 - SAMPLES_PER_FRAME) * Word = 0 - (SAMPLES_PER_FRAME * Word)
    BY <1>1
  <2>4. rxWrCount * SAMPLES_PER_FRAME + rxIdx + 1 + (0 - SAMPLES_PER_FRAME) * Word = 0
    BY <1>1, <1>5, <2>1, <2>3
  <2>5. 0 - SAMPLES_PER_FRAME \in Int
    BY <1>1
  <2> QED BY <2>2, <2>4, <2>5
<1> QED BY <1>2, <1>3, <1>4, <1>5

LEMMA TickNote ==
    ASSUME TypeOK, RingInv, NoteInv, engine_sample_tick
    PROVE  NoteInv'
<1>1. Ahead \in 0 .. RX_FRAMES /\ RxSample /\ UNCHANGED <<rxRdCount, pc, k, r>>
  BY TickStep DEF RingInv
<1>2. /\ now' = now + 1 /\ now \in Nat /\ now' \in Nat
      /\ ~ overflowed' => ~ overflowed
  BY <1>1, RxSampleStep, Sizes DEF TypeOK
<1>3. /\ rxWrCount * SAMPLES_PER_FRAME + rxIdx \in Int
      /\ (rxWrCount * SAMPLES_PER_FRAME + rxIdx)' \in Int
      /\ tmR \in Int /\ r \in Int
  BY <1>1, RxSampleStep, Sizes DEF TypeOK, Count, Place
<1> DEFINE P == rxWrCount * SAMPLES_PER_FRAME + rxIdx
           Q == rxWrCount' * SAMPLES_PER_FRAME + rxIdx'
<1>4. ASSUME NEW p \in Int, NEW t \in Int, Fits(p, t), ~ overflowed'
      PROVE  Fits(p, t)'
  <2>1. PICK z \in Int : Q = P + 1 + z * Word
    BY <1>1, <1>4, PositionOn
  <2>2. PICK q \in Int : p = P - (now - (t - 1)) + q * Word
    BY <1>4, Zenon DEF Fits
  <2>3. q - z \in Int /\ (q - z) * Word = q * Word - z * Word /\ q * Word \in Int /\ z * Word \in Int
    BY Sizes
  <2>4. P \in Int /\ Q \in Int
    BY <1>3
  <2> HIDE DEF P, Q
  <2>5. p = Q - (now' - (t - 1)) + (q - z) * Word
    BY <1>2, <1>4, <2>1, <2>2, <2>3, <2>4
  <2> QED BY <2>3, <2>5, Zenon DEF Fits, Q
<1>5. ASSUME pc = "report" PROVE k.tick \in 1 .. now' /\ (~ overflowed' => Fits(r, k.tick)')
  <2>1. PICK p \in Int, t \in 1 .. now : p = r /\ t = k.tick
    BY <1>3, <1>5 DEF NoteInv
  <2>2. ~ overflowed' => Fits(p, t)
    BY <1>2, <1>5, <2>1 DEF NoteInv
  <2>3. ~ overflowed' => Fits(p, t)'
    BY <1>2, <1>4, <2>1, <2>2
  <2> QED BY <1>1, <1>2, <2>1, <2>3 DEF Fits
<1>6. CASE Noted
  <2>1. tmK'.tick = now + 1 /\ tmK'.tick \in 1 .. now'
    BY <1>2, <1>6 DEF Noted
  <2>2. ASSUME ~ overflowed' PROVE Fits(tmR, tmK.tick)'
    <3>1. PICK z \in Int : Q = P + 1 + z * Word
      BY <1>1, <2>2, PositionOn
    <3>2. P \in Int /\ Q \in Int /\ tmR' = P % Word
      BY <1>3, <1>6 DEF Noted, rxPos
    <3>3. P = (P \div Word) * Word + (P % Word) /\ P \div Word \in Int /\ P % Word \in Int
      <4> HIDE DEF P
      <4> QED BY <3>2, Sizes
    <3> DEFINE w == 0 - (P \div Word) - z
    <3>4. w \in Int /\ w * Word = 0 - ((P \div Word) * Word) - z * Word
      <4> HIDE DEF P
      <4> QED BY <3>3, Sizes
    <3>5. z * Word \in Int /\ (P \div Word) * Word \in Int
      <4> HIDE DEF P
      <4> QED BY <3>3, Sizes
    <3> HIDE DEF P, Q, w
    <3>6. tmR' = Q - (now' - (tmK'.tick - 1)) + w * Word
      BY <1>2, <2>1, <3>1, <3>2, <3>3, <3>4, <3>5
    <3> QED BY <3>4, <3>6, Zenon DEF Fits, Q
  <2> QED BY <1>1, <1>5, <2>1, <2>2 DEF NoteInv
<1>7. CASE UNCHANGED <<tmReady, tmSeq, tmK, tmR>>
  <2>1. ASSUME tmReady PROVE tmK.tick \in 1 .. now' /\ (~ overflowed' => Fits(tmR, tmK.tick)')
    <3>1. PICK p \in Int, t \in 1 .. now : p = tmR /\ t = tmK.tick
      BY <1>3, <2>1 DEF NoteInv
    <3>2. ~ overflowed' => Fits(p, t)
      BY <1>2, <2>1, <3>1 DEF NoteInv
    <3>3. ~ overflowed' => Fits(p, t)'
      BY <1>2, <1>4, <3>1, <3>2
    <3> QED BY <1>2, <1>7, <3>1, <3>3 DEF Fits
  <2> QED BY <1>1, <1>5, <1>7, <2>1 DEF NoteInv
<1> QED BY <1>6, <1>7, TickStep

\* A sample goes to a place that no frame in the ring uses.
LEMMA TickStored ==
    ASSUME TypeOK, Ahead \in 0 .. RX_FRAMES, Stored, RxSample, UNCHANGED rxRdCount, ~ overflowed'
    PROVE  Stored' /\ Done' = Done
<1> DEFINE S == SAMPLES_PER_FRAME
           w == rxWrCount % RX_FRAMES
<1>1. /\ S \in Nat /\ S >= 1 /\ RX_FRAMES \in Nat /\ RX_FRAMES >= 1 /\ now \in Nat /\ rxIdx \in Place
      /\ rxWrCount \in Count /\ Word \in Nat /\ Ahead \in Nat /\ now' = now + 1
      /\ rxBuf \in [0 .. RX_FRAMES - 1 -> Samples]
  BY Sizes, RxSampleStep DEF TypeOK
<1>2. /\ Ahead < RX_FRAMES
      /\ rxBuf' = [rxBuf EXCEPT ![w][rxIdx] = now + 1]
      /\ \/ rxIdx + 1 < S /\ rxIdx' = rxIdx + 1 /\ rxWrCount' = rxWrCount /\ Ahead' = Ahead
         \/ /\ rxIdx + 1 = S /\ rxIdx' = 0 /\ Ahead' = Ahead + 1
            /\ rxWrCount' = IF rxWrCount + 1 = Word THEN 0 ELSE rxWrCount + 1
  BY RxSampleStep
<1>3. /\ rxWrCount \in Int /\ w \in 0 .. RX_FRAMES - 1
      /\ \A n \in Int : (rxWrCount - n) % RX_FRAMES \in 0 .. RX_FRAMES - 1
  BY <1>1 DEF Count
<1>4. \A n \in 1 .. RX_FRAMES : n <= Ahead => (rxWrCount - n) % RX_FRAMES # w
  <2> SUFFICES ASSUME NEW n \in 1 .. RX_FRAMES, n <= Ahead
               PROVE  (rxWrCount - n) % RX_FRAMES # rxWrCount % RX_FRAMES
    OBVIOUS
  <2>1. n \in 1 .. RX_FRAMES - 1 /\ RX_FRAMES \in Nat \ {0}
    BY <1>1, <1>2
  <2> QED BY <1>3, <2>1, ModApart
<1>5. \A i \in Place : rxBuf'[w][i] = IF i = rxIdx THEN now + 1 ELSE rxBuf[w][i]
  BY <1>1, <1>2, <1>3 DEF Samples
<1>6. \A x \in 0 .. RX_FRAMES - 1 : x # w => rxBuf'[x] = rxBuf[x]
  BY <1>1, <1>2, <1>3
<1> HIDE DEF w
<1>7. \A n \in 1 .. RX_FRAMES : n * S \in Int
  BY <1>1
<1>8. CASE rxIdx + 1 < S /\ rxIdx' = rxIdx + 1 /\ rxWrCount' = rxWrCount /\ Ahead' = Ahead
  <2>1. now' - rxIdx' = now - rxIdx
    BY <1>1, <1>8 DEF Place
  <2>2. Done' = Done
    BY <1>8, <2>1 DEF Done
  <2>3. ASSUME NEW n \in 1 .. RX_FRAMES, NEW i \in Place, n <= Ahead
        PROVE  rxBuf'[(rxWrCount - n) % RX_FRAMES][i] = now' - rxIdx' - n * S + i + 1
    <3>1. rxBuf[(rxWrCount - n) % RX_FRAMES][i] = now - rxIdx - n * S + i + 1
      BY <2>3 DEF Stored
    <3>2. (rxWrCount - n) % RX_FRAMES \in 0 .. RX_FRAMES - 1 /\ (rxWrCount - n) % RX_FRAMES # w
      BY <1>3, <1>4, <2>3
    <3> QED BY <1>6, <2>1, <3>1, <3>2
  <2>4. ASSUME NEW i \in Place, i < rxIdx'
        PROVE  rxBuf'[rxWrCount % RX_FRAMES][i] = now' - rxIdx' + i + 1
    <3>1. CASE i = rxIdx
      BY <1>1, <1>5, <1>8, <2>1, <3>1 DEF w, Place
    <3>2. CASE i # rxIdx
      <4>1. i < rxIdx
        BY <1>1, <1>8, <2>4, <3>2 DEF Place
      <4>2. rxBuf[w][i] = now - rxIdx + i + 1
        BY <4>1 DEF Stored, w
      <4>3. rxBuf'[w][i] = rxBuf[w][i]
        BY <1>5, <3>2
      <4> QED BY <4>2, <4>3, <2>1 DEF w
    <3> QED BY <3>1, <3>2
  <2> QED BY <1>8, <2>2, <2>3, <2>4 DEF Stored
<1>9. CASE /\ rxIdx + 1 = S /\ rxIdx' = 0 /\ Ahead' = Ahead + 1
           /\ rxWrCount' = IF rxWrCount + 1 = Word THEN 0 ELSE rxWrCount + 1
  <2>1. now' - rxIdx' = now - rxIdx + S
    BY <1>1, <1>9 DEF Place
  <2>2. (Ahead + 1) * S = Ahead * S + S /\ Ahead * S \in Int
    BY <1>1
  <2>3. Done' = Done
    BY <1>1, <1>9, <2>1, <2>2 DEF Done, Place
  <2>4. \A m \in Int : (rxWrCount' - (m + 1)) % RX_FRAMES = (rxWrCount - m) % RX_FRAMES
    <3> SUFFICES ASSUME NEW m \in Int
                 PROVE  (rxWrCount' - (m + 1)) % RX_FRAMES = (rxWrCount - m) % RX_FRAMES
      OBVIOUS
    <3>1. CASE rxWrCount + 1 = Word
      <4>1. rxWrCount' - (m + 1) \in Int /\ (rxWrCount' - (m + 1)) + Word = rxWrCount - m
        BY <1>1, <1>3, <1>9, <3>1
      <4> QED BY <4>1, SameSlot
    <3>2. CASE rxWrCount + 1 # Word
      <4>1. rxWrCount' - (m + 1) = rxWrCount - m
        BY <1>1, <1>3, <1>9, <3>2
      <4> QED BY <4>1
    <3> QED BY <3>1, <3>2
  <2>5. ASSUME NEW n \in 1 .. RX_FRAMES, NEW i \in Place, n <= Ahead + 1
        PROVE  rxBuf'[(rxWrCount' - n) % RX_FRAMES][i] = now' - rxIdx' - n * S + i + 1
    <3>1. CASE n = 1
      <4>1. (rxWrCount' - 1) % RX_FRAMES = w
        <5>1. (rxWrCount' - (0 + 1)) % RX_FRAMES = (rxWrCount - 0) % RX_FRAMES
          BY <2>4
        <5>2. 0 + 1 = 1 /\ rxWrCount - 0 = rxWrCount
          BY <1>3
        <5> QED BY <5>1, <5>2 DEF w
      <4>2. rxBuf'[w][i] = now - rxIdx + i + 1
        <5>1. CASE i = rxIdx
          BY <1>1, <1>5, <5>1 DEF Place
        <5>2. CASE i # rxIdx
          <6>1. i < rxIdx
            BY <1>1, <1>9, <5>2 DEF Place
          <6> QED BY <1>5, <5>2, <6>1 DEF Stored, w
        <5> QED BY <5>1, <5>2
      <4> QED BY <1>1, <2>1, <3>1, <4>1, <4>2 DEF Place
    <3>2. CASE n # 1
      <4>1. n - 1 \in 1 .. RX_FRAMES /\ n - 1 <= Ahead /\ (n - 1) + 1 = n /\ (n - 1) * S = n * S - S
        BY <1>1, <2>5, <3>2
      <4>2. (rxWrCount' - n) % RX_FRAMES = (rxWrCount - (n - 1)) % RX_FRAMES
        BY <2>4, <4>1
      <4>3. rxBuf[(rxWrCount - (n - 1)) % RX_FRAMES][i] = now - rxIdx - (n - 1) * S + i + 1
        BY <4>1 DEF Stored
      <4>4. (rxWrCount - (n - 1)) % RX_FRAMES \in 0 .. RX_FRAMES - 1
            /\ (rxWrCount - (n - 1)) % RX_FRAMES # w
        BY <1>3, <1>4, <4>1
      <4>5. rxBuf'[(rxWrCount' - n) % RX_FRAMES][i] = now - rxIdx - (n - 1) * S + i + 1
        BY <1>6, <4>2, <4>3, <4>4
      <4> QED BY <1>1, <1>7, <2>1, <4>1, <4>5 DEF Place
    <3> QED BY <3>1, <3>2
  <2>6. \A i \in Place : ~ (i < rxIdx')
    BY <1>1, <1>9 DEF Place
  <2> QED BY <1>9, <2>3, <2>5, <2>6 DEF Stored
<1> QED BY <1>2, <1>8, <1>9

LEMMA TickStream ==
    ASSUME TypeOK, RingInv, StreamInv, engine_sample_tick
    PROVE  StreamInv'
<1> SUFFICES ASSUME ~ overflowed'
             PROVE  (Done \in Nat /\ Stored /\ FrameInv /\ HeardInv /\ ReportInv)'
  BY DEF StreamInv
<1>1. Ahead \in 0 .. RX_FRAMES /\ RxSample /\ UNCHANGED <<rxRdCount, pc, frame, heard, report>>
  BY TickStep DEF RingInv
<1>2. Done \in Nat /\ Stored /\ FrameInv /\ HeardInv /\ ReportInv
  BY <1>1, RxSampleStep DEF StreamInv
<1>3. Stored' /\ Done' = Done
  BY <1>1, <1>2, TickStored
<1>4. Last' = Last
  BY <1>1, <1>3 DEF Last
<1>5. FrameInv' /\ HeardInv' /\ ReportInv'
  BY <1>1, <1>2, <1>3, <1>4 DEF FrameInv, HeardInv, ReportInv
<1> QED BY <1>2, <1>3, <1>5

------------------------------------------------------------------------------
(* The main loop *)

\* A step of the main loop that does not touch the ring.
LEMMA KeepRing ==
    ASSUME RingInv, UNCHANGED <<rxWrCount, rxRdCount, rxIdx, now, overflowed>>,
           pc' \in {"copy", "send", "next"} => Ahead >= 1
    PROVE  RingInv' /\ Ahead' = Ahead /\ Done' = Done
BY DEF RingInv, Ahead, Done

\* The main loop takes a frame out of the ring.
LEMMA NextFrame ==
    ASSUME TypeOK, RingInv, RxNext
    PROVE  Ahead' = Ahead - 1 /\ Ahead >= 1 /\ RingInv' /\ Done' = Done + SAMPLES_PER_FRAME
<1>1. /\ rxRdCount' = (rxRdCount + 1) % Word /\ pc = "next" /\ pc' = "rx"
      /\ UNCHANGED <<rxWrCount, rxIdx, now, overflowed>>
  BY DEF RxNext, At, ring, history
<1>2. rxRdCount' = IF rxRdCount + 1 = Word THEN 0 ELSE rxRdCount + 1
  BY <1>1, CountOn DEF TypeOK
<1>3. Ahead >= 1 /\ Ahead \in 0 .. RX_FRAMES
  BY <1>1 DEF RingInv
<1>4. Ahead' = Ahead - 1
  BY <1>1, <1>2, <1>3, Sizes DEF Ahead, TypeOK, Count
<1>5. RingInv'
  BY <1>1, <1>3, <1>4, Sizes DEF RingInv
<1>6. (Ahead - 1) * SAMPLES_PER_FRAME = Ahead * SAMPLES_PER_FRAME - SAMPLES_PER_FRAME
      /\ Ahead * SAMPLES_PER_FRAME \in Int /\ now \in Int /\ rxIdx \in Int /\ SAMPLES_PER_FRAME \in Int
  BY <1>3, Sizes DEF TypeOK, Place
<1>7. Done' = now - rxIdx - (Ahead - 1) * SAMPLES_PER_FRAME
  BY <1>1, <1>4 DEF Done
<1>8. Done' = Done + SAMPLES_PER_FRAME
  BY <1>6, <1>7 DEF Done
<1> QED BY <1>3, <1>4, <1>5, <1>8

Control == RingInv /\ ConfigInv /\ SeqInv /\ DownInv

LEMMA ParseControl ==
    ASSUME TypeOK, Control, parseUart
    PROVE  Control'
<1> USE DEF Control
<1>0. pc = "parse" /\ pc' = "rx" /\ UNCHANGED <<rxWrCount, rxRdCount, rxIdx, now, overflowed>>
  BY DEF parseUart, NothingToParse, Configure, KeyUp, KeyDown, At, ring, history
<1>1. RingInv'
  BY <1>0, KeepRing
<1>2. SeqInv' /\ ConfigInv'
  <2>1. UNCHANGED <<heard, report, tmSeq, tmK, tmR, k, r, s1>> /\ (configured => configured')
    BY DEF parseUart, NothingToParse, Configure, KeyUp, KeyDown, note, local, history
  <2> QED BY <1>0, <2>1 DEF SeqInv, ConfigInv
<1>3. DownInv'
  <2>1. CASE KeyUp
    <3>1. downlink' = downlink + 1 /\ ~ tmReady' /\ ~ answered' /\ UNCHANGED <<tmK, report>>
      BY <2>1 DEF KeyUp
    <3>2. tmK.downlink \in Nat /\ downlink \in Nat
      BY Sizes DEF TypeOK, Notes
    <3>3. tmK.downlink <= downlink' /\ tmK.downlink # downlink'
      BY <3>1, <3>2 DEF DownInv
    <3> QED BY <1>0, <3>1, <3>3 DEF DownInv, DownlinkIsReported
  <2>2. CASE NothingToParse \/ Configure \/ KeyDown
    BY <1>0, <2>2 DEF NothingToParse, Configure, KeyDown, note, history, DownInv, DownlinkIsReported
  <2> QED BY <2>1, <2>2 DEF parseUart
<1> QED BY <1>1, <1>2, <1>3

LEMMA FramesControl ==
    ASSUME TypeOK, Control, sendRxFrames
    PROVE  Control'
<1> USE DEF Control
<1>1. UNCHANGED <<rxWrCount, rxIdx, now, overflowed, tmReady, tmSeq, tmK, tmR, configured, s1, k, r,
                  downlink, report, answered>>
  BY DEF sendRxFrames, RxLook, RxCopy, RxSend, UartBusy, RxNext, ring, note, local, history
<1>2. pc \in {"rx", "copy", "send", "next"} /\ pc' \in {"rx", "copy", "send", "next", "tm"}
  BY DEF sendRxFrames, RxLook, RxCopy, RxSend, UartBusy, RxNext, At
<1>3. SeqInv' /\ DownInv'
  BY <1>1, <1>2 DEF SeqInv, DownInv, DownlinkIsReported
<1>4. CASE RxNext
  <2>1. RingInv'
    BY <1>4, NextFrame
  <2>2. pc' = "rx" /\ UNCHANGED heard
    BY <1>4 DEF RxNext, At, history
  <2>3. ConfigInv'
    BY <1>1, <2>2 DEF ConfigInv
  <2> QED BY <1>3, <2>1, <2>3
<1>5. CASE RxLook \/ RxCopy \/ RxSend \/ UartBusy
  <2>1. UNCHANGED rxRdCount
    BY <1>5 DEF RxLook, RxCopy, RxSend, UartBusy
  <2>2. Waiting = Ahead /\ Ahead \in Nat
    BY WaitingIsAhead, Sizes DEF TypeOK, Count
  <2>3. pc' \in {"copy", "send", "next"} => Ahead >= 1
    <3>1. CASE RxLook
      BY <3>1, <2>2 DEF RxLook
    <3>2. CASE RxCopy \/ RxSend \/ UartBusy
      BY <3>2 DEF RxCopy, RxSend, UartBusy, At, RingInv
    <3> QED BY <1>5, <3>1, <3>2
  <2>4. RingInv'
    BY <1>1, <2>1, <2>3, KeepRing
  <2>5. pc' \in {"copy", "send"} => configured
    BY <1>5 DEF RxLook, RxCopy, RxSend, UartBusy, At, ConfigInv
  <2>6. heard' # heard => configured
    BY <1>5 DEF RxLook, RxCopy, RxSend, UartBusy, At, ConfigInv, history
  <2>7. ConfigInv'
    BY <1>1, <1>2, <2>5, <2>6 DEF ConfigInv
  <2> QED BY <1>3, <2>4, <2>7
<1> QED BY <1>4, <1>5 DEF sendRxFrames

LEMMA ReportControl ==
    ASSUME TypeOK, Control, sendTimingReport
    PROVE  Control'
<1> USE DEF Control
<1>1. UNCHANGED <<rxWrCount, rxRdCount, rxIdx, now, overflowed, tmSeq, tmK, tmR, configured, downlink, heard>>
  BY DEF sendTimingReport, TmLook, TmSeq1, TmReadK, TmReadR, TmSeq2, TmSend, TmUartBusy, TmClear,
         ring, note, history
<1>2. pc' \in {"parse", "seq1", "k", "r", "seq2", "report", "clear"}
  BY DEF sendTimingReport, TmLook, TmSeq1, TmReadK, TmReadR, TmSeq2, TmSend, TmUartBusy, TmClear, At
<1>3. RingInv'
  BY <1>1, <1>2, KeepRing
<1>4. tmSeq \in Nat /\ tmSeq <= tmSeq
  BY Sizes DEF TypeOK, Count
<1>5. CASE TmLook
  BY <1>1, <1>3, <1>5 DEF TmLook, note, local, history, ConfigInv, SeqInv, DownInv, DownlinkIsReported
<1>6. CASE TmSeq1
  BY <1>1, <1>3, <1>4, <1>6
     DEF TmSeq1, At, note, history, ConfigInv, SeqInv, DownInv, DownlinkIsReported
<1>7. CASE TmReadK
  BY <1>1, <1>3, <1>7 DEF TmReadK, At, note, history, ConfigInv, SeqInv, DownInv, DownlinkIsReported
<1>8. CASE TmReadR
  BY <1>1, <1>3, <1>8 DEF TmReadR, At, note, history, ConfigInv, SeqInv, DownInv, DownlinkIsReported
<1>9. CASE TmSeq2
  BY <1>1, <1>3, <1>9
     DEF TmSeq2, At, note, local, history, ConfigInv, SeqInv, DownInv, DownlinkIsReported
<1>10. CASE TmSend
  <2>1. pc = "report" /\ pc' = "clear" /\ answered' /\ UNCHANGED tmReady
    BY <1>10 DEF TmSend, At, note
  <2>2. report'.fresh
    BY <1>10, <2>1 DEF TmSend, DownInv
  <2> QED BY <1>1, <1>3, <2>1, <2>2 DEF ConfigInv, SeqInv, DownInv, DownlinkIsReported
<1>11. CASE TmUartBusy
  BY <1>1, <1>3, <1>11 DEF TmUartBusy, At, note, history, ConfigInv, SeqInv, DownInv, DownlinkIsReported
<1>12. CASE TmClear
  BY <1>1, <1>3, <1>12 DEF TmClear, At, local, history, ConfigInv, SeqInv, DownInv, DownlinkIsReported
<1> QED BY <1>5, <1>6, <1>7, <1>8, <1>9, <1>10, <1>11, <1>12 DEF sendTimingReport

LEMMA PollControl ==
    ASSUME TypeOK, Control, engine_poll
    PROVE  Control'
BY ParseControl, FramesControl, ReportControl DEF engine_poll

\* A copy is reported only if the note is still the one that was copied.
LEMMA PollNote ==
    ASSUME TypeOK, NoteInv, SeqInv, DownInv, engine_poll
    PROVE  NoteInv'
<1>1. /\ UNCHANGED <<rxWrCount, rxIdx, now, overflowed, tmK, tmR>>
      /\ tmReady' => tmReady
      /\ pc' = "report" => UNCHANGED <<k, r>> /\ k = tmK /\ r = tmR /\ tmReady
  <2>1. CASE parseUart
    BY <2>1 DEF parseUart, NothingToParse, Configure, KeyUp, KeyDown, At, ring, note, history
  <2>2. CASE sendRxFrames
    BY <2>2 DEF sendRxFrames, RxLook, RxCopy, RxSend, UartBusy, RxNext, At, ring, note, history
  <2>3. CASE TmSeq2
    <3>1. UNCHANGED <<rxWrCount, rxIdx, now, overflowed, tmK, tmR, tmReady>>
      BY <2>3 DEF TmSeq2, ring, note, history
    <3>2. pc' = "report" => pc = "seq2" /\ s1 = tmSeq /\ UNCHANGED <<k, r>>
      BY <2>3 DEF TmSeq2, At, local
    <3> QED BY <3>1, <3>2 DEF SeqInv, DownInv
  <2>4. CASE TmLook \/ TmSeq1 \/ TmReadK \/ TmReadR \/ TmSend \/ TmUartBusy \/ TmClear
    <3>1. UNCHANGED <<rxWrCount, rxIdx, now, overflowed, tmK, tmR>> /\ (tmReady' => tmReady)
      BY <2>4 DEF TmLook, TmSeq1, TmReadK, TmReadR, TmSend, TmUartBusy, TmClear, ring, note, history
    <3>2. pc' # "report"
      BY <2>4 DEF TmLook, TmSeq1, TmReadK, TmReadR, TmSend, TmUartBusy, TmClear, At
    <3> QED BY <3>1, <3>2
  <2> QED BY <2>1, <2>2, <2>3, <2>4 DEF engine_poll, sendTimingReport
<1>2. ASSUME tmReady PROVE tmK'.tick \in 1 .. now' /\ (~ overflowed' => Fits(tmR, tmK.tick)')
  BY <1>1, <1>2 DEF NoteInv, Fits
<1>3. ASSUME pc' = "report" PROVE k'.tick \in 1 .. now' /\ (~ overflowed' => Fits(r, k.tick)')
  BY <1>1, <1>3 DEF NoteInv, Fits
<1> QED BY <1>1, <1>2, <1>3 DEF NoteInv

------------------------------------------------------------------------------
(* The stream and the reports *)

\* A step of the main loop that leaves what has been sent, and the ring.
LEMMA KeepStream ==
    ASSUME RingInv, StreamInv,
           UNCHANGED <<rxBuf, rxWrCount, rxRdCount, rxIdx, now, overflowed, heard, report>>,
           pc # "next", pc' \notin {"send", "next"}
    PROVE  StreamInv'
<1> SUFFICES ASSUME ~ overflowed
             PROVE  (Done \in Nat /\ Stored /\ FrameInv /\ HeardInv /\ ReportInv)'
  BY DEF StreamInv
<1>1. Done \in Nat /\ Stored /\ FrameInv /\ HeardInv /\ ReportInv
  BY DEF StreamInv
<1>2. Ahead' = Ahead /\ Done' = Done
  BY DEF Ahead, Done
<1>3. Last' = Last
  BY <1>2 DEF Last
<1>4. Stored'
  BY <1>1, <1>2 DEF Stored
<1> QED BY <1>1, <1>2, <1>3, <1>4 DEF FrameInv, HeardInv, ReportInv

\* The slot the main loop reads is that of the oldest frame.
LEMMA OldestSlot ==
    ASSUME rxWrCount \in Count, rxRdCount \in Count
    PROVE  rxRdCount % RX_FRAMES = (rxWrCount - Ahead) % RX_FRAMES
<1>1. rxWrCount \in Int /\ rxRdCount \in Int /\ Word \in Nat
  BY Sizes DEF Count
<1>2. CASE rxWrCount >= rxRdCount
  <2>1. rxWrCount - Ahead = rxRdCount
    BY <1>1, <1>2 DEF Ahead
  <2> QED BY <2>1
<1>3. CASE ~ (rxWrCount >= rxRdCount)
  <2>1. (rxWrCount - Ahead) + Word = rxRdCount /\ rxWrCount - Ahead \in Int
    BY <1>1, <1>3 DEF Ahead
  <2> QED BY <2>1, SameSlot
<1> QED BY <1>2, <1>3

LEMMA CopyStream ==
    ASSUME TypeOK, RingInv, StreamInv, RxCopy
    PROVE  StreamInv'
<1> SUFFICES ASSUME ~ overflowed
             PROVE  (Done \in Nat /\ Stored /\ FrameInv /\ HeardInv /\ ReportInv)'
  BY DEF StreamInv, RxCopy, history
<1>1. Done \in Nat /\ Stored /\ HeardInv /\ ReportInv
  BY DEF StreamInv
<1>2. /\ pc = "copy" /\ pc' = "send" /\ frame' = rxBuf[rxRdCount % RX_FRAMES]
      /\ UNCHANGED <<rxBuf, rxWrCount, rxRdCount, rxIdx, now, heard, report>>
  BY DEF RxCopy, At, ring, history
<1>3. Ahead' = Ahead /\ Done' = Done
  BY <1>2 DEF Ahead, Done
<1>4. Last' = Last
  BY <1>2, <1>3 DEF Last
<1>5. Stored' /\ HeardInv' /\ ReportInv'
  BY <1>1, <1>2, <1>3, <1>4 DEF Stored, HeardInv, ReportInv
<1>6. Ahead \in 1 .. RX_FRAMES
  BY <1>2, Sizes DEF RingInv
<1>7. ASSUME NEW i \in Place PROVE frame'[i] = Done + i + 1
  <2>1. PICK n \in 1 .. RX_FRAMES : n = Ahead
    BY <1>6
  <2>2. rxRdCount % RX_FRAMES = (rxWrCount - n) % RX_FRAMES
    BY <2>1, OldestSlot DEF TypeOK
  <2>3. n <= Ahead
    BY <2>1, Sizes
  <2>4. rxBuf[(rxWrCount - n) % RX_FRAMES][i] = now - rxIdx - n * SAMPLES_PER_FRAME + i + 1
    BY <1>1, <2>3 DEF Stored
  <2> QED BY <1>2, <2>1, <2>2, <2>4 DEF Done
<1>8. FrameInv'
  BY <1>3, <1>7 DEF FrameInv
<1> QED BY <1>1, <1>3, <1>5, <1>8

LEMMA SendStream ==
    ASSUME TypeOK, RingInv, StreamInv, RxSend
    PROVE  StreamInv'
<1> SUFFICES ASSUME ~ overflowed
             PROVE  (Done \in Nat /\ Stored /\ FrameInv /\ HeardInv /\ ReportInv)'
  BY DEF StreamInv, RxSend
<1> DEFINE S == SAMPLES_PER_FRAME
           n == Len(heard)
<1>1. Done \in Nat /\ Stored /\ FrameInv /\ HeardInv /\ ReportInv
  BY DEF StreamInv
<1>2. /\ pc = "send" /\ pc' = "next"
      /\ UNCHANGED <<rxBuf, rxWrCount, rxRdCount, rxIdx, now, report>>
  BY DEF RxSend, At, ring
<1>3. Ahead' = Ahead /\ Done' = Done
  BY <1>2 DEF Ahead, Done
<1>4. Last = Done /\ Last' = Done + S
  BY <1>1, <1>2, <1>3 DEF Last
<1>5. Stored' /\ FrameInv'
  BY <1>1, <1>2, <1>3 DEF Stored, FrameInv
<1>6. /\ n \in Nat /\ Len(heard') = n + S
      /\ \A i \in 1 .. n : heard'[i] = heard[i]
      /\ \A i \in Place : heard'[n + i + 1] = frame[i]
  BY SentFrame
<1>7. S \in Nat /\ S >= 1
  BY Sizes
<1> HIDE DEF n, S
<1>8. ASSUME NEW i \in 1 .. n + S PROVE heard'[i] = Last' - (n + S) + i
  <2>1. CASE i <= n
    <3>1. i \in 1 .. n
      BY <1>6, <1>7, <2>1
    <3>2. heard[i] = Done - n + i
      BY <1>1, <1>4, <3>1 DEF HeardInv, n
    <3> QED BY <1>1, <1>4, <1>6, <1>7, <3>1, <3>2
  <2>2. CASE ~ (i <= n)
    <3>1. PICK j \in Place : i = n + j + 1
      <4>1. i - n - 1 \in Place /\ i = n + (i - n - 1) + 1
        BY <1>6, <1>7, <2>2 DEF Place, S
      <4> QED BY <4>1
    <3>2. heard'[i] = frame[j]
      BY <1>6, <3>1
    <3>3. frame[j] = Done + j + 1
      BY <1>1, <1>2 DEF FrameInv
    <3>4. j \in Int
      BY <1>7 DEF Place, S
    <3> QED BY <1>1, <1>4, <1>6, <1>7, <3>1, <3>2, <3>3, <3>4
  <2> QED BY <2>1, <2>2
<1>9. HeardInv'
  BY <1>6, <1>8 DEF HeardInv
<1>10. ReportInv'
  <2>1. report.tick \in Int /\ report.pos \in Int
    BY DEF TypeOK
  <2>2. report # NoReport => report.pos = n + report.tick - Done
    BY <1>1, <1>4 DEF ReportInv, n
  <2>3. report # NoReport => report.pos = (n + S) + report.tick - (Done + S)
    BY <1>1, <1>6, <1>7, <2>1, <2>2
  <2> QED BY <1>2, <1>4, <1>6, <2>3 DEF ReportInv
<1> QED BY <1>1, <1>3, <1>5, <1>9, <1>10

LEMMA NextStream ==
    ASSUME TypeOK, RingInv, StreamInv, RxNext
    PROVE  StreamInv'
<1> SUFFICES ASSUME ~ overflowed
             PROVE  (Done \in Nat /\ Stored /\ FrameInv /\ HeardInv /\ ReportInv)'
  BY DEF StreamInv, RxNext, history
<1>1. Done \in Nat /\ Stored /\ FrameInv /\ HeardInv /\ ReportInv
  BY DEF StreamInv
<1>2. /\ pc = "next" /\ pc' = "rx"
      /\ UNCHANGED <<rxBuf, rxWrCount, rxIdx, now, heard, report>>
  BY DEF RxNext, At, ring, history
<1>3. Ahead' = Ahead - 1 /\ Ahead \in 0 .. RX_FRAMES /\ Done' = Done + SAMPLES_PER_FRAME
  BY NextFrame DEF RingInv
<1>4. Last' = Last /\ Done' \in Nat
  BY <1>1, <1>2, <1>3, Sizes DEF Last
<1>5. Stored'
  <2>1. \A n \in 1 .. RX_FRAMES : n <= Ahead' => n <= Ahead
    BY <1>3, Sizes
  <2> QED BY <1>1, <1>2, <2>1 DEF Stored
<1>6. FrameInv' /\ HeardInv' /\ ReportInv'
  BY <1>1, <1>2, <1>4 DEF FrameInv, HeardInv, ReportInv
<1> QED BY <1>4, <1>5, <1>6

\* Frames are passed over only while nothing has been sent.
LEMMA LookStream ==
    ASSUME TypeOK, RingInv, ConfigInv, StreamInv, RxLook
    PROVE  StreamInv'
<1>1. /\ pc = "rx" /\ pc' \in {"tm", "copy", "next"} /\ (pc' = "next" => ~ configured)
      /\ UNCHANGED <<rxBuf, rxWrCount, rxRdCount, rxIdx, now, overflowed, heard, report>>
  BY DEF RxLook, ring, history
<1>2. CASE pc' # "next"
  BY <1>1, <1>2, KeepStream
<1>3. CASE pc' = "next"
  <2> SUFFICES ASSUME ~ overflowed
               PROVE  (Done \in Nat /\ Stored /\ FrameInv /\ HeardInv /\ ReportInv)'
    BY <1>1 DEF StreamInv
  <2>1. Done \in Nat /\ Stored
    BY DEF StreamInv
  <2>2. Ahead' = Ahead /\ Done' = Done
    BY <1>1 DEF Ahead, Done
  <2>3. heard' = <<>> /\ report' = NoReport
    BY <1>1, <1>3 DEF ConfigInv
  <2>4. \A i \in 1 .. Len(heard') : FALSE
    <3>1. Len(heard') = 0
      BY <2>3, EmptySeq, Zenon
    <3> QED BY <3>1
  <2>5. HeardInv' /\ ReportInv' /\ FrameInv'
    BY <1>3, <2>3, <2>4 DEF HeardInv, ReportInv, FrameInv
  <2>6. Stored'
    BY <1>1, <2>1, <2>2 DEF Stored
  <2> QED BY <2>1, <2>2, <2>5, <2>6
<1> QED BY <1>2, <1>3

\* The offset of a report leads from the frame the main loop is at to the
\* sample of the note, whichever of the counters has wrapped around.
LEMMA OffsetIsRight ==
    ASSUME TypeOK, RingInv, NoteInv, Done \in Nat, pc = "report", ~ overflowed
    PROVE  off = k.tick - 1 - Done
<1> DEFINE S == SAMPLES_PER_FRAME
           D == k.tick - 1 - Done
           H == Word \div 2
<1>1. /\ S \in Nat /\ Word \in Nat \ {0} /\ now \in 0 .. MaxTicks /\ MaxTicks \in Nat /\ rxIdx \in Nat
      /\ rxWrCount \in Int /\ rxRdCount \in Int /\ r \in Int /\ k.tick \in 1 .. now /\ Ahead \in Nat
  BY Sizes DEF TypeOK, RingInv, NoteInv, Place, Count
<1>2. H \in Nat /\ MaxTicks < H /\ H + H <= Word
  <2>1. H \in Nat /\ H + H <= Word
    BY <1>1
  <2> QED BY <2>1, RunAssumption
<1>3. PICK q \in Int : r = (rxWrCount * S + rxIdx) - (now - (k.tick - 1)) + q * Word
  BY DEF NoteInv, Fits
<1>4. PICK e \in Int : rxWrCount = rxRdCount + Ahead + e * Word
  <2>1. CASE rxWrCount >= rxRdCount
    <3>1. rxWrCount = rxRdCount + Ahead + 0 * Word
      BY <1>1, <2>1 DEF Ahead
    <3> QED BY <3>1
  <2>2. CASE ~ (rxWrCount >= rxRdCount)
    <3>1. rxWrCount = rxRdCount + Ahead + (0 - 1) * Word
      BY <1>1, <2>2 DEF Ahead
    <3> QED BY <3>1
  <2> QED BY <2>1, <2>2
<1>5. Ahead * S \in Int /\ rxRdCount * S \in Int /\ rxWrCount * S \in Int /\ q * Word \in Int
      /\ (e * S) * Word \in Int
  BY <1>1
<1>6. rxWrCount * S = rxRdCount * S + Ahead * S + (e * S) * Word
  <2>1. (rxRdCount + Ahead + e * Word) * S = rxRdCount * S + Ahead * S + (e * S) * Word
    BY <1>1
  <2> QED BY <1>4, <2>1
<1>7. D \in 0 - MaxTicks .. MaxTicks - 1
  <2>1. Done <= now
    <3>1. Ahead * S >= 0
      BY <1>1
    <3> QED BY <1>1, <1>5, <3>1 DEF Done
  <2> QED BY <1>1, <2>1
<1> DEFINE z == q + e * S
<1>8. z \in Int /\ z * Word = q * Word + (e * S) * Word
  BY <1>1
<1>9. r - rxRdCount * S = z * Word + D
  <2>1. Done = now - rxIdx - Ahead * S
    BY DEF Done
  <2> HIDE DEF z
  <2> QED BY <1>1, <1>3, <1>5, <1>6, <1>8, <2>1
<1> HIDE DEF z, D, H
<1>10. CASE D >= 0
  <2>1. D \in 0 .. Word - 1 /\ D < H
    BY <1>1, <1>2, <1>7, <1>10
  <2>2. (z * Word + D) % Word = D
    BY <1>1, <1>8, <2>1, ModUnique
  <2>3. off = D
    BY <1>9, <2>1, <2>2 DEF off, Signed, S, H
  <2> QED BY <2>3 DEF D
<1>11. CASE D < 0
  <2>1. D + Word \in 0 .. Word - 1 /\ ~ (D + Word < H) /\ (D + Word) - Word = D
    BY <1>1, <1>2, <1>7, <1>11
  <2>2. z - 1 \in Int /\ z * Word + D = (z - 1) * Word + (D + Word)
    BY <1>1, <1>7, <1>8
  <2>3. ((z - 1) * Word + (D + Word)) % Word = D + Word
    BY <1>1, <2>1, <2>2, ModUnique
  <2>4. off = D
    BY <1>9, <2>1, <2>2, <2>3 DEF off, Signed, S, H
  <2> QED BY <2>4 DEF D
<1>12. D \in Int
  BY <1>1, <1>7
<1> QED BY <1>10, <1>11, <1>12

LEMMA ReportStream ==
    ASSUME TypeOK, RingInv, NoteInv, StreamInv, TmSend
    PROVE  StreamInv'
<1> SUFFICES ASSUME ~ overflowed
             PROVE  (Done \in Nat /\ Stored /\ FrameInv /\ HeardInv /\ ReportInv)'
  BY DEF StreamInv, TmSend
<1>1. Done \in Nat /\ Stored /\ FrameInv /\ HeardInv
  BY DEF StreamInv
<1>2. /\ pc = "report" /\ pc' = "clear"
      /\ UNCHANGED <<rxBuf, rxWrCount, rxRdCount, rxIdx, now, heard>>
      /\ report'.pos = Len(heard) + 1 + off /\ report'.tick = k.tick
  BY DEF TmSend, At, ring
<1>3. Ahead' = Ahead /\ Done' = Done
  BY <1>2 DEF Ahead, Done
<1>4. Last = Done /\ Last' = Done
  BY <1>1, <1>2, <1>3 DEF Last
<1>5. Stored' /\ FrameInv' /\ HeardInv'
  BY <1>1, <1>2, <1>3, <1>4 DEF Stored, FrameInv, HeardInv
<1>6. off = k.tick - 1 - Done
  BY <1>1, <1>2, OffsetIsRight
<1>7. Len(heard) \in Nat /\ k.tick \in Int
  BY DEF TypeOK, Notes
<1>8. report'.pos = Len(heard') + report'.tick - Last'
  BY <1>1, <1>2, <1>4, <1>6, <1>7
<1> QED BY <1>1, <1>3, <1>5, <1>8 DEF ReportInv

LEMMA PollStream ==
    ASSUME TypeOK, RingInv, ConfigInv, NoteInv, StreamInv, engine_poll
    PROVE  StreamInv'
<1>1. CASE parseUart
  <2>1. /\ UNCHANGED <<rxBuf, rxWrCount, rxRdCount, rxIdx, now, overflowed, heard, report>>
        /\ pc = "parse" /\ pc' = "rx"
    BY <1>1 DEF parseUart, NothingToParse, Configure, KeyUp, KeyDown, At, ring, history
  <2> QED BY <2>1, KeepStream
<1>2. CASE sendRxFrames
  <2>1. CASE UartBusy
    <3>1. /\ UNCHANGED <<rxBuf, rxWrCount, rxRdCount, rxIdx, now, overflowed, heard, report>>
          /\ pc = "send" /\ pc' = "tm"
      BY <2>1 DEF UartBusy, At, ring, history
    <3> QED BY <3>1, KeepStream
  <2> QED BY <1>2, <2>1, LookStream, CopyStream, SendStream, NextStream DEF sendRxFrames
<1>3. CASE sendTimingReport
  <2>1. CASE TmLook \/ TmSeq1 \/ TmReadK \/ TmReadR \/ TmSeq2 \/ TmUartBusy \/ TmClear
    <3>1. UNCHANGED <<rxBuf, rxWrCount, rxRdCount, rxIdx, now, overflowed, heard, report>>
      BY <2>1 DEF TmLook, TmSeq1, TmReadK, TmReadR, TmSeq2, TmUartBusy, TmClear, ring, history
    <3>2. pc # "next" /\ pc' \notin {"send", "next"}
      BY <2>1 DEF TmLook, TmSeq1, TmReadK, TmReadR, TmSeq2, TmUartBusy, TmClear, At
    <3> QED BY <3>1, <3>2, KeepStream
  <2> QED BY <1>3, <2>1, ReportStream DEF sendTimingReport
<1> QED BY <1>1, <1>2, <1>3 DEF engine_poll

------------------------------------------------------------------------------
(* The theorems *)

LEMMA InitInv == Init => Inv
<1> SUFFICES ASSUME Init PROVE Inv
  OBVIOUS
<1>1. Blank \in Samples /\ NoNote \in Notes
  BY Sizes DEF Blank, Samples, NoNote, Notes
<1>2. rxWrCount \in Count
  BY RxAssumption DEF Init, Count
<1>3. heard = <<>> /\ Len(heard) = 0 /\ heard \in Seq(0 .. MaxTicks)
  <2>1. heard = <<>>
    BY DEF Init
  <2>2. Len(heard) = 0 /\ heard \in Seq(0 .. MaxTicks)
    BY <2>1, EmptySeq, Zenon
  <2> QED BY <2>1, <2>2
<1>4. NoReport \in [pos : Int, tick : 0 .. MaxTicks, fresh : BOOLEAN]
  BY Sizes DEF NoReport
<1>5. TypeOK
  BY <1>1, <1>2, <1>3, <1>4, Sizes DEF Init, TypeOK
<1>6. Ahead = 0 /\ rxWrCount \in Nat
  BY <1>2, Sizes DEF Init, Ahead, Count
<1>7. Done = 0
  <2>1. Ahead * SAMPLES_PER_FRAME = 0
    BY <1>6, Sizes
  <2> QED BY <2>1 DEF Init, Done
<1>8. RingInv
  BY <1>6, Sizes DEF Init, RingInv
<1>9. ConfigInv /\ NoteInv
  BY DEF Init, ConfigInv, NoteInv
<1>10. SeqInv /\ DownInv
  BY DEF Init, SeqInv, DownInv, DownlinkIsReported, NoReport, NoNote
<1>11. Stored /\ FrameInv /\ HeardInv /\ ReportInv
  <2>1. Stored
    BY <1>6, Sizes DEF Init, Stored, Place
  <2> QED BY <1>3, <2>1 DEF Init, FrameInv, HeardInv, ReportInv
<1> QED BY <1>5, <1>7, <1>8, <1>9, <1>10, <1>11 DEF Inv, StreamInv

LEMMA NextInv == Inv /\ [Next]_vars => Inv'
<1> SUFFICES ASSUME Inv, [Next]_vars PROVE Inv'
  OBVIOUS
<1>0. TypeOK /\ RingInv /\ ConfigInv /\ NoteInv /\ SeqInv /\ DownInv /\ StreamInv
  BY DEF Inv
<1>1. CASE engine_sample_tick
  <2>1. TypeOK' /\ RingInv' /\ NoteInv' /\ StreamInv'
    BY <1>0, <1>1, TickType, TickRing, TickNote, TickStream
  <2>2. SeqInv' /\ DownInv'
    BY <1>0, <1>1, TickSeqDown
  <2>3. ConfigInv'
    BY <1>0, <1>1, TickStep DEF ConfigInv
  <2> QED BY <2>1, <2>2, <2>3 DEF Inv
<1>2. CASE engine_poll
  <2>1. TypeOK' /\ Control'
    BY <1>0, <1>2, PollType, PollControl DEF Control
  <2>2. NoteInv' /\ StreamInv'
    BY <1>0, <1>2, PollNote, PollStream
  <2> QED BY <2>1, <2>2 DEF Inv, Control
<1>3. CASE UNCHANGED vars
  BY <1>0, <1>3 DEF vars, ring, note, tx, local, history, Inv, TypeOK, RingInv, ConfigInv, NoteInv,
     SeqInv, DownInv, StreamInv, Ahead, Done, Stored, FrameInv, Last, HeardInv, ReportInv, Fits,
     DownlinkIsReported
<1> QED BY <1>1, <1>2, <1>3 DEF Next

\* Every reachable state of the receive side satisfies the invariant.
THEOREM Invariance == Spec => []Inv
BY InitInv, NextInv, PTL DEF Spec

\* The interrupt stores inside the ring, for every size of it.
THEOREM TypeCorrect == Spec => []TypeOK
<1>1. Inv => TypeOK
  BY DEF Inv
<1> QED BY <1>1, Invariance, PTL

\* engine_sample_tick() and sendRxFrames() share the frame ring without a lock
\* and without losing, repeating or reordering a sample, until it overflows.
THEOREM StreamIsNotBroken == Spec => []StreamIsWhole
<1>1. Inv => StreamIsWhole
  <2> SUFFICES ASSUME Inv, ~ overflowed, NEW i \in 1 .. Len(heard) - 1
               PROVE  heard[i + 1] = heard[i] + 1
    BY DEF StreamIsWhole
  <2>1. HeardInv /\ Done \in Nat /\ Len(heard) \in Nat
    BY DEF Inv, StreamInv, TypeOK
  <2>2. Last \in Int
    BY <2>1, Sizes DEF Last
  <2>3. i \in 1 .. Len(heard) /\ i + 1 \in 1 .. Len(heard)
    BY <2>1
  <2>4. heard[i] = Last - Len(heard) + i /\ heard[i + 1] = Last - Len(heard) + (i + 1)
    BY <2>1, <2>3 DEF HeardInv
  <2> QED BY <2>1, <2>2, <2>3, <2>4
<1> QED BY <1>1, Invariance, PTL

\* What sendTimingReport() tells the host is of one note and of the present
\* downlink, and names the sample of the stream that was taken with it.
THEOREM ReportsLeadToTheirSample == Spec => []ReportsAreRight
<1>1. Inv => ReportsAreRight
  <2> SUFFICES ASSUME Inv PROVE ReportsAreRight
    OBVIOUS
  <2>1. report.fresh
    BY DEF Inv, DownInv
  <2>2. ASSUME ~ overflowed, report # NoReport, report.pos \in DOMAIN heard
        PROVE  heard[report.pos] = report.tick
    <3>1. HeardInv /\ ReportInv /\ Done \in Nat
      BY <2>2 DEF Inv, StreamInv
    <3>2. Last \in Int /\ Len(heard) \in Nat /\ report.tick \in Int /\ DOMAIN heard = 1 .. Len(heard)
      BY <3>1, Sizes DEF Last, Inv, TypeOK
    <3>3. report.pos = Len(heard) + report.tick - Last
      BY <2>2, <3>1 DEF ReportInv
    <3>4. heard[report.pos] = Last - Len(heard) + report.pos
      BY <2>2, <3>1, <3>2 DEF HeardInv
    <3> QED BY <3>2, <3>3, <3>4
  <2> QED BY <2>1, <2>2 DEF ReportsAreRight
<1> QED BY <1>1, Invariance, PTL

\* A note of the present downlink that is dropped had a report before it.
THEOREM EveryDownlinkIsReported == Spec => []DownlinkIsReported
<1>1. Inv => DownlinkIsReported
  BY DEF Inv, DownInv
<1> QED BY <1>1, Invariance, PTL
==============================================================================
