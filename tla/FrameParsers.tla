---------------------------- MODULE FrameParsers -----------------------------
(***************************************************************************)
(* How the two ends of the serial line find the frames in the stream of    *)
(* bytes: modemGetFrame() of Modem_Host.c and parseUart() of engine.c.  A  *)
(* frame is a start byte, its length, a type and a payload; there is no    *)
(* check sum, bytes may be lost, and any byte of a frame may look like a   *)
(* start byte, a length or a type.                                         *)
(*                                                                         *)
(* The line is modelled in one direction; reader is the end that reads.    *)
(* A byte carries the frame it comes from and its place there: history     *)
(* that the readers do not look at.                                        *)
(***************************************************************************)
EXTENDS Naturals, Sequences, FiniteSets

CONSTANTS Start,      \* the start byte, 0x61
          Short,      \* length of a frame without payload
          Long,       \* length of a sample frame
          Other,      \* lengths of other frames
          Samp,       \* type of a sample frame
          Cmd,        \* type of every other frame
          Unknown,    \* a byte that is neither a length nor a known type
          Filler,     \* bytes of which a payload is made
          MaxFrames,  \* bound: frames sent
          MaxLosses,  \* bound: bytes lost
          Backlog     \* bound: bytes waiting for the reader

Usual == {Short, Long}
Lengths == Usual \cup Other
Value == Lengths \cup {Start, Samp, Cmd, Unknown} \cup Filler

ASSUME ParserAssumption ==
    /\ Value \subseteq Nat /\ Short = 3 /\ Unknown < 3
    /\ \A n \in Other : n > Short /\ n # Long
    /\ Long > Short /\ Samp # Cmd /\ Samp # Unknown /\ Cmd # Unknown
    /\ Start \notin Lengths \cup {Samp, Cmd}
    /\ MaxFrames \in Nat /\ MaxLosses \in Nat
    /\ Backlog \in Nat /\ \A v \in Value : Backlog > v

VARIABLES reader,    \* "host" or "modem"
          cur,       \* bytes of the frame being sent that are not yet on the line
          rx,        \* bytes that have arrived and are not consumed
          count,     \* host: how many of them are in modemRxBuf (modemRxCount)
          hunting,   \* out of step: modemHunting, resync
          skipped,   \* modem: resyncBytes
          damaged,   \* modem: resyncFrame
          quiet,     \* modem: more than 20 ms since a byte was skipped
          sent,      \* frames sent
          got,       \* frames passed on: their numbers, 0 for what was never sent like that
          sampled,   \* numbers of the sample frames sent
          idle,      \* modem: txState = TX_IDLE
          first,     \* modem: number of the frame that began the transmission
          played,    \* modem: sample frames passed on in it, and frames of silence for lost ones
          silence,   \* modem: frames of silence among them
          since,     \* bytes carried since one was lost
          far,       \* frames far from any loss
          losses,    \* bytes lost
          troubles   \* history, see Trouble

host  == <<count>>
radio == <<idle, first, played, silence>>
modem == <<skipped, damaged, quiet, radio>>
line  == <<cur, sent, sampled, since, far, losses>>
parser == <<reader, line, rx, host, hunting, modem, got, troubles>>

\* "lookalike": a payload had a start byte
\* "misread":   a length, a type or a byte of another than a sample frame was lost
\* "dropped":   the modem dropped a frame of an unusual length while it hunted
\* "carried":   a transmission began while the modem was hunting and went on hunting
Trouble == {"lookalike", "misread", "dropped", "carried"}
Without(ts) == troubles \cap ts = {}
NoteIf(fact, t) == troubles' = IF fact THEN troubles \cup {t} ELSE troubles

\* As far as a wrong length can reach.
Reach == CHOOSE v \in Value : \A w \in Value : w <= v

ParserInit ==
    /\ reader \in {"host", "modem"}
    /\ cur = <<>> /\ rx = <<>>
    /\ count = 0
    /\ hunting = FALSE
    /\ skipped = 0 /\ damaged = FALSE /\ quiet = FALSE
    /\ sent = 0 /\ got = <<>>
    /\ sampled = {} /\ idle = TRUE /\ first = 0 /\ played = 0 /\ silence = 0
    /\ since = Reach /\ far = {}
    /\ losses = 0 /\ troubles = {}

------------------------------------------------------------------------------
\* The line (external)

\* Frame k: length n, type t, a payload of bytes p
Frame(k, n, t, p) ==
    [i \in 1 .. n |-> [v |-> IF i = 1 THEN Start ELSE IF i = 2 THEN n ELSE IF i = 3 THEN t ELSE p,
                       f |-> k, i |-> i, n |-> n]]

\* The sender begins a frame; its bytes follow each other without a pause.
SendFrame ==
    /\ cur = <<>> /\ sent < MaxFrames
    /\ sent' = sent + 1
    /\ \E n \in Lengths, p \in Filler :
         /\ cur' = Frame(sent + 1, n, IF n = Long THEN Samp ELSE Cmd, p)
         /\ sampled' = IF n = Long THEN sampled \cup {sent + 1} ELSE sampled
         /\ far' = IF since = Reach /\ (reader = "host" \/ n \in Usual) THEN far \cup {sent + 1} ELSE far
         /\ NoteIf(p = Start /\ n > Short, "lookalike")
    /\ UNCHANGED <<reader, rx, host, hunting, modem, got, since, losses>>

Carry ==
    /\ cur # <<>> /\ Len(rx) < Backlog
    /\ cur' = Tail(cur)
    /\ rx' = Append(rx, Head(cur))
    /\ since' = IF since < Reach THEN since + 1 ELSE since
    /\ UNCHANGED <<reader, host, hunting, modem, got, sent, sampled, far, losses, troubles>>

\* A byte is lost: its frame, and the one in front of it if it is the first, are not far from damage.
Lose ==
    /\ cur # <<>> /\ losses < MaxLosses
    /\ losses' = losses + 1
    /\ cur' = Tail(cur)
    /\ since' = 0
    /\ far' = far \ {Head(cur).f, IF Head(cur).i = 1 THEN Head(cur).f - 1 ELSE Head(cur).f}
    /\ NoteIf(Head(cur).n # Long \/ Head(cur).i \in {2, 3}, "misread")
    /\ UNCHANGED <<reader, rx, host, hunting, modem, got, sent, sampled>>

\* Between two frames any time may pass: more than the 20 ms or 1 s of the host, the 8 ms of the modem.
Pause == cur = <<>>

------------------------------------------------------------------------------
\* What both readers do

Head1 == rx[1].v
LengthByte == rx[2].v
TypeByte == rx[3].v

Consume(n) == rx' = SubSeq(rx, n + 1, Len(rx))

\* The first n bytes are passed on as a frame.
WhatWasSent(n) ==
    IF rx[1].n = n /\ \A i \in 1 .. n : rx[i].f = rx[1].f /\ rx[i].i = i THEN rx[1].f ELSE 0
PassOn(n) == got' = Append(got, WhatWasSent(n))

------------------------------------------------------------------------------
\* Modem_Host: modemGetFrame()

\* modemRxNeed(): the bytes that the next step waits for.
Need ==
    CASE count = 0 -> 1
      [] count > 0 /\ Head1 # Start -> 0
      [] count \in {1, 2} /\ Head1 = Start -> 3
      [] count >= 3 /\ Head1 = Start /\ LengthByte < 3 -> 0
      [] count >= 3 /\ Head1 = Start /\ LengthByte >= 3 ->
             IF hunting /\ count >= LengthByte THEN LengthByte + 1 ELSE LengthByte

\* modemRxFill(): one read() takes some of what has arrived.
modemRxFill ==
    /\ reader = "host" /\ count < Need
    /\ \E n \in count + 1 .. Len(rx) : count' = n
    /\ UNCHANGED <<reader, line, rx, hunting, modem, got, troubles>>

modemDiscard(n) ==
    /\ Consume(n) /\ count' = count - n
    /\ hunting' = TRUE
    /\ UNCHANGED <<reader, line, modem, got, troubles>>

\* Mutant: everything that was read is thrown away.
SkipToStart_all ==
    /\ reader = "host" /\ count > 0 /\ Head1 # Start
    /\ modemDiscard(count)

\* What is not the start of a frame is thrown away up to the next start byte.
SkipToStart ==
    /\ reader = "host" /\ count > 0 /\ Head1 # Start
    /\ \E n \in 1 .. count :
         /\ \A i \in 1 .. n : rx[i].v # Start
         /\ n < count => rx[n + 1].v = Start
         /\ modemDiscard(n)

\* Mutant: the rest of a frame is waited for without a limit.
NoFrameHere_waits ==
    /\ reader = "host" /\ count >= 3 /\ Head1 = Start
    /\ LengthByte < 3
    /\ modemDiscard(1)

\* The header or the frame is never completed, or the length is impossible.
NoFrameHere ==
    /\ reader = "host" /\ count > 0 /\ Head1 = Start
    /\ \/ count = Len(rx) /\ Pause /\ ~(count >= 3 /\ count >= LengthByte)
       \/ count >= 3 /\ LengthByte < 3
    /\ modemDiscard(1)

\* The frame is complete, and the byte behind it has been waited for if it has to be.
Complete ==
    /\ count >= 3 /\ Head1 = Start /\ LengthByte >= 3 /\ count >= LengthByte
    /\ hunting => count > LengthByte \/ (count = Len(rx) /\ Pause)

\* Mutant: the last byte of the frame is looked at, not the one behind it.
FalseFrame_lastByte ==
    /\ reader = "host" /\ Complete
    /\ count > LengthByte /\ rx[LengthByte].v # Start
    /\ modemDiscard(1)

FalseFrame ==
    /\ reader = "host" /\ Complete
    /\ count > LengthByte /\ rx[LengthByte + 1].v # Start
    /\ modemDiscard(1)

TakeFrame ==
    /\ reader = "host" /\ Complete
    /\ count > LengthByte => rx[LengthByte + 1].v = Start
    /\ PassOn(LengthByte)
    /\ Consume(LengthByte) /\ count' = count - LengthByte
    /\ hunting' = FALSE
    /\ UNCHANGED <<reader, line, modem, troubles>>

modemGetFrame == modemRxFill \/ SkipToStart \/ NoFrameHere \/ FalseFrame \/ TakeFrame

------------------------------------------------------------------------------
\* Modem: parseUart(), one round of its loop

knownType(t) == t # Unknown

\* 20 ms pass; the modem has nothing to do meanwhile but to wait for bytes.
TimePasses ==
    /\ reader = "modem" /\ Pause /\ ~quiet
    /\ quiet' = TRUE
    /\ UNCHANGED <<reader, line, rx, host, hunting, skipped, damaged, radio, got, troubles>>

\* NOTE_SKIP(): a byte is skipped.
SkipByte(badFrame) ==
    /\ Consume(1)
    /\ skipped' = skipped + 1
    /\ damaged' = (damaged \/ badFrame)
    /\ hunting' = TRUE /\ quiet' = FALSE
    /\ UNCHANGED <<reader, line, host, radio, got>>

\* Mutant: half a frame or more is not counted as one.
LostFrames_whole == LET n == skipped \div Long IN IF damaged /\ n = 0 THEN 1 ELSE n

\* endResync(): the frames of silence for the bytes skipped
LostFrames == LET n == (skipped + Long \div 2) \div Long IN IF damaged /\ n = 0 THEN 1 ELSE n

\* endResync(): n times insertSilenceFrame(), which does nothing outside a transmission.
Insert(n) ==
    /\ silence' = IF idle THEN silence ELSE silence + n
    /\ played' = IF idle THEN played ELSE played + n

\* The hunt is over when 20 ms have passed without a skipped byte.
Hunting == hunting /\ ~quiet

HasHeader == Len(rx) >= 3 /\ Head1 = Start

IsSamp == LengthByte = Long /\ TypeByte = Samp

BadHeader ==
    /\ reader = "modem" /\ rx # <<>>
    /\ \/ Head1 # Start
       \/ HasHeader /\ (LengthByte < 3 \/ ~knownType(TypeByte))
    /\ SkipByte(FALSE)
    /\ UNCHANGED troubles

Usable == HasHeader /\ LengthByte >= 3 /\ knownType(TypeByte)

\* While hunting only the two usual lengths are believed.
UnlikelyFrame ==
    /\ reader = "modem" /\ Usable
    /\ Hunting /\ LengthByte \notin Usual
    /\ SkipByte(FALSE)
    /\ NoteIf(rx[1].i = 1 /\ rx[1].n = LengthByte, "dropped")

\* The hunt ends by time even if the frame is not complete yet.
HuntOver ==
    /\ reader = "modem" /\ Usable /\ hunting /\ quiet
    /\ hunting' = FALSE /\ skipped' = 0 /\ damaged' = FALSE
    /\ Insert(LostFrames)
    /\ UNCHANGED <<reader, line, rx, host, quiet, idle, first, got, troubles>>

Believed == Usable /\ ~(hunting /\ quiet) /\ (Hunting => LengthByte \in Usual)
Whole == Believed /\ Len(rx) >= LengthByte

\* The byte behind a sample frame is not the start of the next one.
DamagedFrame ==
    /\ reader = "modem" /\ Whole /\ IsSamp
    /\ Len(rx) > LengthByte /\ rx[LengthByte + 1].v # Start
    /\ SkipByte(~hunting)
    /\ UNCHANGED troubles

\* handleSampData(), with room for the frame: the first one of a transmission keys the transmitter.
BeginOrGoOn(lost) ==
    IF idle THEN /\ idle' = FALSE /\ first' = rx[1].f /\ played' = 1
                 /\ UNCHANGED silence
                 /\ NoteIf(hunting', "carried")
            ELSE /\ played' = played + lost + 1 /\ silence' = silence + lost
                 /\ UNCHANGED <<idle, first, troubles>>

\* The frame goes to handleFrame(): a sample frame once the next start byte shows that it is whole,
\* which also ends a hunt, or when none has come for 8 ms.
HandleSamples ==
    /\ reader = "modem" /\ Whole /\ IsSamp
    /\ IF Len(rx) = LengthByte THEN Pause ELSE rx[LengthByte + 1].v = Start
    /\ LET ends == hunting /\ Len(rx) > LengthByte IN
         /\ hunting' = (hunting /\ ~ends)
         /\ skipped' = IF ends THEN 0 ELSE skipped
         /\ damaged' = (damaged /\ ~ends)
         /\ BeginOrGoOn(IF ends THEN LostFrames ELSE 0)
    /\ PassOn(LengthByte)
    /\ Consume(LengthByte)
    /\ UNCHANGED <<reader, line, host, quiet>>

\* Another frame.  What is taken for samples of another length is played too.
HandleCommand ==
    /\ reader = "modem" /\ Whole /\ ~IsSamp
    /\ UNCHANGED <<reader, line, host, hunting, skipped, damaged, quiet>>
    /\ IF TypeByte = Samp /\ LengthByte > Short THEN BeginOrGoOn(0) ELSE UNCHANGED <<radio, troubles>>
    /\ PassOn(LengthByte)
    /\ Consume(LengthByte)

\* All is played after EOT or SET_MODE idle, or no sample frame has come for TX_UNDERRUN_TIMEOUT_MS.
TransmissionEnds ==
    /\ reader = "modem" /\ ~idle
    /\ idle' = TRUE /\ first' = 0 /\ played' = 0 /\ silence' = 0
    /\ UNCHANGED <<reader, line, rx, host, hunting, skipped, damaged, quiet, got, troubles>>

parseUart == BadHeader \/ UnlikelyFrame \/ HuntOver \/ DamagedFrame \/ HandleSamples \/ HandleCommand

------------------------------------------------------------------------------
ParserNext == SendFrame \/ Carry \/ Lose \/ modemGetFrame \/ TimePasses \/ parseUart \/ TransmissionEnds

ParserSpec == ParserInit /\ [][ParserNext]_parser

\* The bytes of a frame come, and the host reads them.
ParserFairSpec == ParserSpec /\ WF_parser(Carry) /\ WF_parser(modemGetFrame)

------------------------------------------------------------------------------
\* The state is well formed.
ParserTypeOK ==
    /\ reader \in {"host", "modem"}
    /\ \A q \in {cur, rx} : \A i \in DOMAIN q : q[i].v \in Value
    /\ Len(rx) <= Backlog /\ count \in 0 .. Len(rx)
    /\ {hunting, damaged, quiet, idle} \subseteq BOOLEAN
    /\ sent \in 0 .. MaxFrames /\ sampled \subseteq 1 .. sent
    /\ got \in Seq(0 .. MaxFrames)
    /\ first \in 0 .. sent /\ played \in Nat /\ silence \in 0 .. played
    /\ since \in 0 .. Reach /\ far \subseteq 1 .. MaxFrames
    /\ losses \in 0 .. MaxLosses /\ troubles \subseteq Trouble

Drained == cur = <<>> /\ rx = <<>>

\* As long as no byte is lost both ends take exactly the frames that were sent, one after the other,
\* whatever the payload looks like and however the bytes arrive.
InStepIsExact ==
    losses = 0 => /\ got = [k \in 1 .. Len(got) |-> k]
                  /\ ~hunting /\ silence = 0
                  /\ Drained => Len(got) = sent

\* A lost byte costs frames only as far as a wrong length reaches: every frame behind that, up to
\* the next lost byte, is taken whole.  (The modem believes only the usual lengths while it hunts.)
DamageIsLocal ==
    Drained /\ Without({"lookalike"}) => \A k \in far : \E i \in DOMAIN got : got[i] = k

\* Once a transmission has begun the modem replaces every sample frame it loses by one of silence:
\* when it is back in step as many have been played as were sent, the one that began the transmission
\* included.  What was lost in front of that one is not replaced (insertSilenceFrame()), unless the
\* hunt for it ends only in the transmission ("carried").  (endResync() rounds to whole frames, so
\* that it counts right while no more than half a frame of bytes is lost.)
TimelineIsKept ==
    reader = "modem" /\ ~idle /\ Drained /\ ~hunting /\ Without(Trouble) /\ losses <= Long \div 2
        => played = Cardinality({k \in sampled : k >= first})

\* However bytes are lost the host gets through all that it receives: it does not wait for ever for
\* the rest of a frame that was none.  (The modem does, until more bytes come.)
HostReadsOn == [](reader = "host" => <>(rx = <<>>))
==============================================================================
