---------------------------- MODULE CreditPacing -----------------------------
(***************************************************************************)
(* Flow control between Modem_Host.c and a SAMPLE modem with a fixed       *)
(* transmit buffer (bridge setting creditPacing).  modeTxThread() sends    *)
(* sample frames while it has credit and asks for the modem's free space;  *)
(* the serial reader, processSerial(), turns each GET_STATUS reply into    *)
(* fresh credit.  The reply tells the free space at the moment the modem   *)
(* read the request, so the frames sent since then are subtracted.  The    *)
(* host matches replies to requests by counting; a reply can get lost.     *)
(*                                                                         *)
(* A step is one atomic access: an atomic_*() call or one hold of          *)
(* modemTxBufMutex.                                                        *)
(***************************************************************************)
EXTENDS Integers, Sequences, FiniteSets

CONSTANTS TxFrames,     \* sample frames the modem's transmit buffer holds
          NibbleMax,    \* largest free count a reply can tell (15)
          MIN_FREE,     \* OPENMT_MIN_FREE
          REQ_FIFO,     \* OPENMT_REQ_FIFO
          LineMax,      \* frames that fit in modemTxBuffer and the port behind it
          SampMax,      \* ... below which a sample frame is added (the 600 byte test)
          WaitMax,      \* bound: sample frames waiting in rxModeBuffer
          ReplyMax      \* bound: replies that the port and its driver hold for the host

ASSUME PacingAssumption ==
    /\ TxFrames \in Nat /\ NibbleMax \in Nat /\ MIN_FREE \in Nat \ {0}
    /\ MIN_FREE <= NibbleMax /\ MIN_FREE <= TxFrames
    /\ REQ_FIFO \in Nat \ {0}
    /\ SampMax \in Nat /\ LineMax \in Nat /\ SampMax <= LineMax
    /\ WaitMax \in Nat /\ ReplyMax \in Nat

Lost == -1      \* a reply damaged on its way

VARIABLES waiting,   \* sample frames in rxModeBuffer
          line,      \* modemTxBuffer and everything behind it, up to the modem
          since,     \* openmtReqSnap: for each outstanding request, openmtSampQueued - snapshot
          credit,    \* openmtCredit
          space,     \* isModemSpace
          stalled,   \* openmtStalled
          tx,        \* where modeTxThread() is
          rx,        \* where processSerial() is
          fresh,     \* local variable credit of processSerial()
          fill,      \* frames in the modem's transmit buffer
          replies,   \* GET_STATUS replies on their way to the host
          overrun,   \* has the modem refused a sample frame for lack of space?
          doubtful,  \* history: has the reply that gave the credit been matched with a record
                     \* newer than its request, or a frame been sent that it has not counted?
          blind      \* history: has a frame been sent on a credit of that kind?

history == <<doubtful, blind>>
host  == <<waiting, since, credit, space, stalled, tx, rx, fresh, history>>
modem == <<fill, overrun>>
vars  == <<host, line, modem, replies>>

Min2(a, b) == IF a <= b THEN a ELSE b

Init ==
    /\ waiting = 0
    /\ line = <<>>
    /\ since = <<>>
    /\ credit = 0
    /\ space = TRUE
    /\ stalled = FALSE
    /\ tx = "look"
    /\ rx = "read"
    /\ fresh = 0
    /\ fill = 0
    /\ replies = <<>>
    /\ overrun = FALSE
    /\ doubtful = FALSE
    /\ blind = FALSE

\* Requests the modem has still to read and replies still on their way.
Outstanding == Cardinality({i \in DOMAIN line : line[i] = "STATUS"}) + Len(replies)

------------------------------------------------------------------------------
(* The services and the other threads fill and empty rxModeBuffer. *)

Arrive ==
    /\ waiting < WaitMax
    /\ waiting' = waiting + 1
    /\ UNCHANGED <<line, since, credit, space, stalled, tx, rx, fresh, modem, replies, history>>

\* SET_IDLE and the transmit timeout clear rxModeBuffer.
Clear ==
    /\ waiting > 0
    /\ waiting' = 0
    /\ UNCHANGED <<line, since, credit, space, stalled, tx, rx, fresh, modem, replies, history>>

------------------------------------------------------------------------------
(* modeTxThread() *)

SendSample ==
    /\ tx = "look"
    /\ waiting > 0
    /\ space
    /\ Len(line) < SampMax
    /\ waiting' = waiting - 1
    /\ stalled' = FALSE
    /\ line' = Append(line, "SAMP")
    /\ since' = [i \in DOMAIN since |-> since[i] + 1]
    /\ tx' = "spend"
    /\ doubtful' = (doubtful \/ rx # "read")
    /\ blind' = (blind \/ doubtful')
    /\ UNCHANGED <<credit, space, rx, fresh, modem, replies>>

Spend ==
    /\ tx = "spend"
    /\ credit' = credit - 1
    /\ tx' = IF credit - 1 <= MIN_FREE THEN "hold" ELSE "mayAsk"
    /\ UNCHANGED <<waiting, since, space, stalled, rx, fresh, line, modem, replies, history>>

Hold ==
    /\ tx = "hold"
    /\ space' = FALSE
    /\ tx' = "mustAsk"
    /\ UNCHANGED <<waiting, since, credit, stalled, rx, fresh, line, modem, replies, history>>

\* Mutant: the thread waits without asking again.
Stall_noPoll ==
    /\ tx = "look"
    /\ waiting > 0
    /\ ~ space
    /\ stalled' = TRUE
    /\ UNCHANGED <<waiting, since, credit, space, tx, rx, fresh, line, modem, replies, history>>

\* Waiting for credit: the watchdog is started.
Stall ==
    /\ tx = "look"
    /\ waiting > 0
    /\ ~ space
    /\ stalled' = TRUE
    /\ tx' = "mayAsk"
    /\ UNCHANGED <<waiting, since, credit, space, rx, fresh, line, modem, replies, history>>

\* openmtResyncPacing(), 250 ms into a stall, whatever is still under way: a
\* reply to a request made before it finds the record of a later one, or none.
Resync ==
    /\ tx = "look"
    /\ waiting > 0
    /\ ~ space
    /\ stalled
    /\ since' = <<>>
    /\ tx' = "mayAsk"
    /\ UNCHANGED <<waiting, credit, space, stalled, rx, fresh, line, modem, replies, history>>

\* The record of a new request; a full list drops its oldest one.
Record == Append(IF Len(since) = REQ_FIFO THEN Tail(since) ELSE since, 0)

requestModemStatus ==
    /\ tx \in {"mustAsk", "mayAsk"}
    /\ \/ /\ Len(line) < LineMax
          /\ line' = Append(line, "STATUS")
          /\ since' = Record
       \/ /\ Len(line) = LineMax
          /\ UNCHANGED <<line, since>>
    /\ tx' = "look"
    /\ UNCHANGED <<waiting, credit, space, stalled, rx, fresh, modem, replies, history>>

\* A request that is not forced is skipped within OPENMT_POLL_MS of the last one.
SkipRequest ==
    /\ tx = "mayAsk"
    /\ tx' = "look"
    /\ UNCHANGED <<waiting, since, credit, space, stalled, rx, fresh, line, modem, replies, history>>

------------------------------------------------------------------------------
(* processSerial() *)

\* Mutant: the free count is taken as it stands.
openmtCreditFromStatus_raw(freeFrames) ==
    /\ fresh' = freeFrames
    /\ since' = IF since = <<>> THEN since ELSE Tail(since)

openmtCreditFromStatus(freeFrames) ==
    /\ fresh' = freeFrames - (IF since = <<>> THEN 0 ELSE Head(since))
    /\ since' = IF since = <<>> THEN since ELSE Tail(since)

TakeReply ==
    /\ rx = "read"
    /\ replies # <<>>
    /\ Head(replies) # Lost
    /\ openmtCreditFromStatus(Head(replies))
    /\ replies' = Tail(replies)
    /\ rx' = "credit"
    /\ doubtful' = (Len(since) < Outstanding)
    /\ UNCHANGED <<waiting, credit, space, stalled, tx, line, modem, blind>>

StoreCredit ==
    /\ rx = "credit"
    /\ credit' = fresh
    /\ rx' = "space"
    /\ UNCHANGED <<waiting, since, space, stalled, tx, fresh, line, modem, replies, history>>

\* setSpace()
StoreSpace ==
    /\ rx = "space"
    /\ space' = (fresh >= MIN_FREE)
    /\ rx' = "read"
    /\ UNCHANGED <<waiting, since, credit, stalled, tx, fresh, line, modem, replies, history>>

\* The place of a damaged reply in the stream goes by.
PassLost ==
    /\ rx = "read"
    /\ replies # <<>>
    /\ Head(replies) = Lost
    /\ replies' = Tail(replies)
    /\ UNCHANGED <<host, line, modem>>

------------------------------------------------------------------------------
(* The modem: handleFrame() of engine.c *)

\* handleSampData(): a frame that does not fit is refused.
ModemSample ==
    /\ line # <<>>
    /\ Head(line) = "SAMP"
    /\ line' = Tail(line)
    /\ fill' = IF fill < TxFrames THEN fill + 1 ELSE fill
    /\ overrun' = (overrun \/ fill = TxFrames)
    /\ UNCHANGED <<host, replies>>

freeSpaceNibble == Min2(TxFrames - fill, NibbleMax)

ModemStatus(answer) ==
    /\ line # <<>>
    /\ Head(line) = "STATUS"
    /\ Len(replies) < ReplyMax
    /\ line' = Tail(line)
    /\ replies' = Append(replies, answer)
    /\ UNCHANGED <<host, modem>>

ModemAnswers == ModemStatus(freeSpaceNibble)

AnswerIsLost == ModemStatus(Lost)

\* The sample interrupt has played a frame out.
ModemPlays ==
    /\ fill > 0
    /\ fill' = fill - 1
    /\ UNCHANGED <<host, line, replies, overrun>>

\* keyDown() discards what is queued.
ModemKeyDown ==
    /\ fill > 0
    /\ fill' = 0
    /\ UNCHANGED <<host, line, replies, overrun>>

------------------------------------------------------------------------------
modeTxThread ==
    SendSample \/ Spend \/ Hold \/ Stall \/ Resync \/ requestModemStatus \/ SkipRequest

processSerial == TakeReply \/ StoreCredit \/ StoreSpace \/ PassLost

ModemNext == ModemSample \/ ModemAnswers \/ AnswerIsLost \/ ModemPlays \/ ModemKeyDown

Next == Arrive \/ Clear \/ modeTxThread \/ processSerial \/ ModemNext

Spec == Init /\ [][Next]_vars

\* The threads and the modem run; not every reply is lost; requests are
\* asked for again and again and the rate limit lets some of them through.
Fairness ==
    /\ WF_vars(SendSample \/ Spend \/ Hold \/ Stall)
    /\ WF_vars(tx = "mustAsk" /\ requestModemStatus)
    /\ SF_vars(tx = "mayAsk" /\ requestModemStatus)
    /\ WF_vars(processSerial)
    /\ WF_vars(ModemSample \/ ModemAnswers \/ AnswerIsLost)
    /\ SF_vars(ModemAnswers)
    /\ WF_vars(ModemPlays)

FairSpec == Spec /\ Fairness

------------------------------------------------------------------------------
\* The state is well formed; the list of requests and the modem's buffer keep to their sizes.
TypeOK ==
    /\ waiting \in 0 .. WaitMax
    /\ line \in Seq({"SAMP", "STATUS"})
    /\ since \in Seq(Nat) /\ Len(since) <= REQ_FIFO
    /\ credit \in Int
    /\ space \in BOOLEAN
    /\ stalled \in BOOLEAN
    /\ tx \in {"look", "spend", "hold", "mustAsk", "mayAsk"}
    /\ rx \in {"read", "credit", "space"}
    /\ fresh \in Int
    /\ fill \in 0 .. TxFrames
    /\ replies \in Seq(0 .. NibbleMax \cup {Lost})
    /\ overrun \in BOOLEAN
    /\ doubtful \in BOOLEAN
    /\ blind \in BOOLEAN

(* The comment on openmtSampQueued: without the subtraction "the host        *)
(* overfills the modem and it NAKs (error 6) the frames that do not fit".    *)
(* With it the modem refuses a sample frame only if one was sent on a credit *)
(* nobody can vouch for: the reply behind it was taken while fewer records   *)
(* were kept than requests were unanswered (after a resynchronisation or an  *)
(* overflow of the list with replies still to come), or modeTxThread() sent  *)
(* a frame between processSerial()'s computation of the credit and its       *)
(* stores.  Lost replies, leftover records and a resynchronisation with      *)
(* nothing under way are harmless, and the next reply that finds its own     *)
(* record, or an older one, puts the credit right again.                     *)
NeverOverfilled == overrun => blind

(* modeTxThread() "waits for a status reply from the modem, which gives      *)
(* fresh credit": a wait for space comes to an end, lost replies or not.     *)
StallEnds == (waiting > 0 /\ ~ space) ~> (space \/ waiting = 0)
==============================================================================
