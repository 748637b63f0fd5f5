----------------------------- MODULE DmrGateway ------------------------------
(***************************************************************************)
(* dmrgateway.c: the DMR gateway between the DMR host service (TCP) and a  *)
(* network master (UDP, Homebrew protocol).  The network thread            *)
(* startDMRNetwork() logs in, keeps the login alive, and carries calls     *)
(* both ways; the client thread queues the frames of local calls for it.   *)
(* One time slot is modelled: the other has the same variables of its own. *)
(*                                                                         *)
(* A packet to the master arrives at once or is lost; its answer is lost,  *)
(* or waits in inbox for an arbitrary time, in order with what else the    *)
(* master sends.                                                           *)
(***************************************************************************)
EXTENDS Naturals, Sequences

CONSTANTS MaxStreams,   \* bound on calls that come from the network
          MaxLocal,     \* bound on calls that come from the DMR host
          MaxLosses,    \* bound on lost packets
          MaxRestarts,  \* bound on restarts of the master
          InboxMax,     \* bound on packets on their way from the master
          BufMax        \* frames that fit into bmTxBuffer

ASSUME GatewayAssumption ==
    /\ MaxStreams \in Nat /\ MaxLocal \in Nat /\ MaxLosses \in Nat /\ MaxRestarts \in Nat
    /\ InboxMax \in Nat \ {0} /\ BufMax \in Nat \ {0}

VARIABLES pc,         \* where startDMRNetwork() is in its loop
          result,     \* what dmr_network_recv() returned, until the loop needs it no more
          status,     \* net->status
          salt,       \* net->salt is the one the master gave last
          started,    \* frame_started[]
          stream,     \* curr_stream_id[]
          bmTx,       \* bmTxBuffer
          stuck,      \* bmTxBufMutex is locked for good
          inbox,      \* packets from the master that the gateway has not read
          master,     \* what the master knows of the gateway
          netTalk,    \* the call the master is sending
          netCalls,   \* calls the master has sent so far
          localTalk,  \* the DMR host is in the middle of a call
          localCalls, \* calls of the DMR host so far
          ownCalls,   \* local calls begun at the gateway so far
          ownOpen,    \* a local call has begun at the gateway and not ended
          hostCall,   \* the call the DMR host was told of and that has not ended
          disturbed,  \* calls have overlapped or lost the connection, or a local frame was dropped
          doubtful,   \* since the login began, an RPTACK was mistaken or the master restarted
          losses,     \* losses so far
          restarts    \* restarts of the master so far

loop    == <<pc, result>>
login   == <<status, salt>>
calls   == <<started, stream>>
queue   == <<bmTx, stuck>>
bad     == <<losses, restarts>>
talkers == <<netTalk, netCalls, localTalk, localCalls>>
seen    == <<ownCalls, ownOpen, hostCall>>
gateway == <<loop, login, calls, queue, inbox, master, talkers, seen, disturbed, doubtful, bad>>

FrameKind == {"head", "voice", "end"}

\* Stream ids: 0 for none, those of the network, then the ones the gateway chooses itself.
NetIds == 1 .. MaxStreams
OwnId(k) == MaxStreams + k
Ids == 0 .. MaxStreams + MaxLocal

\* RPTACKs, by the request they answer.  The gateway sees only that they are RPTACKs.
Acks == {"login", "auth", "config"}

\* A packet from the master; id is the stream, or 1 in an RPTACK with the salt the master gave last.
Packet == [kind : Acks \cup {"nak", "pong"} \cup FrameKind, id : Ids \cup {1}]
Pkt(k, i) == [kind |-> k, id |-> i]

\* dmr_network_open() has sent the login request: it, or its answer, is lost or not.
GatewayInit ==
    /\ pc = "recv" /\ result = "none"
    /\ status = "login" /\ salt = FALSE
    /\ started = FALSE /\ stream = 0
    /\ bmTx = <<>> /\ stuck = FALSE
    /\ \/ master = "challenged" /\ inbox = <<Pkt("login", 1)>> /\ losses = 0
       \/ master \in {"none", "challenged"} /\ inbox = <<>> /\ losses = 1
    /\ losses <= MaxLosses
    /\ netTalk = 0 /\ netCalls = 0 /\ localTalk = FALSE /\ localCalls = 0
    /\ ownCalls = 0 /\ ownOpen = FALSE /\ hostCall = 0
    /\ disturbed = FALSE /\ doubtful = FALSE
    /\ restarts = 0

DisturbedIf(fact) == disturbed' = (disturbed \/ fact)

------------------------------------------------------------------------------
\* The master (external): whether it accepts request r, made with its last salt or not.
Known(r, fresh) ==
    CASE r = "login" -> TRUE
      [] r = "auth" -> master \in {"challenged", "known", "up"} /\ fresh
      [] r = "config" -> master \in {"known", "up"}
      [] r = "ping" -> master = "up"

Stage == [login |-> "challenged", auth |-> "known", config |-> "up", ping |-> "up"]

\* Request r arrives.  A new salt makes the earlier ones useless.
Arrived(r, fresh) ==
    /\ master' = IF ~Known(r, fresh) THEN "none"
                 ELSE IF r = "auth" /\ master # "challenged" THEN master ELSE Stage[r]
    /\ salt' = (fresh /\ r # "login")

Outdated(r, q) ==
    [i \in DOMAIN q |-> IF r = "login" /\ q[i].kind = "login" THEN Pkt("login", 0) ELSE q[i]]

Reply(r, fresh) ==
    IF Known(r, fresh)
    THEN Pkt(IF r = "ping" THEN "pong" ELSE r, IF r = "login" THEN 1 ELSE 0)
    ELSE Pkt("nak", 0)

OneLost == losses < MaxLosses /\ losses' = losses + 1 /\ UNCHANGED restarts

\* Request r is made with the packets q on their way: it is answered, its answer is lost, or it is.
Request(r, fresh, q) ==
    \/ Arrived(r, fresh) /\ inbox' = Append(Outdated(r, q), Reply(r, fresh)) /\ UNCHANGED bad
    \/ Arrived(r, fresh) /\ inbox' = Outdated(r, q) /\ OneLost
    \/ UNCHANGED master /\ salt' = fresh /\ inbox' = q /\ OneLost

------------------------------------------------------------------------------
\* startDMRNetwork(), one round of its loop: recv, forward, take, keepalive, kaRecv.

\* dmr_network_recv(): nothing has arrived, or the connection is not running.
RecvNothing ==
    /\ pc = "recv" /\ pc' = "forward"
    /\ result' = IF status = "running" THEN "none" ELSE "down"
    /\ UNCHANGED <<login, calls, queue, inbox, master, talkers, seen, disturbed, doubtful, bad>>

\* Mutant: the terminator of a network call does not end it.
Give_keepsStarted(p) ==
    /\ hostCall' = CASE p.kind = "head" -> p.id
                     [] p.kind = "end" -> 0
                     [] OTHER -> hostCall
    /\ started' = (started \/ p.kind = "head")
    /\ stream' = CASE p.kind = "head" -> p.id
                   [] p.kind = "end" -> 0
                   [] OTHER -> stream

\* A frame for the DMR host is put into txBuffer.  It is told of a call with the header, of its end
\* with the terminator.
Give(p) ==
    /\ hostCall' = CASE p.kind = "head" -> p.id
                     [] p.kind = "end" -> 0
                     [] OTHER -> hostCall
    /\ started' = CASE p.kind = "head" -> TRUE
                    [] p.kind = "end" -> FALSE
                    [] OTHER -> started
    /\ stream' = CASE p.kind = "head" -> p.id
                   [] p.kind = "end" -> 0
                   [] OTHER -> stream

\* What startDMRNetwork() takes of the frames it reads: a header only between calls, a terminator
\* only in a call, voice only of the call it is in.
Wanted(p) ==
    CASE p.kind = "head" -> ~started
      [] p.kind = "end" -> started
      [] OTHER -> started /\ stream = p.id

\* dmr_network_recv() reads a packet; anything but a data packet is dropped.
RecvPacket ==
    /\ pc = "recv" /\ status = "running" /\ inbox # <<>>
    /\ pc' = "forward"
    /\ inbox' = Tail(inbox)
    /\ LET p == Head(inbox) IN
         \/ /\ p.kind \in FrameKind
            /\ result' = "frame"
            /\ IF Wanted(p) THEN Give(p) ELSE UNCHANGED <<calls, hostCall>>
            /\ DisturbedIf(ownOpen)
         \/ /\ p.kind \notin FrameKind
            /\ result' = "none"
            /\ UNCHANGED <<calls, hostCall, disturbed>>
    /\ UNCHANGED <<login, queue, master, talkers, ownCalls, ownOpen, doubtful, bad>>

\* A local frame is waiting, as far as a look at bmTxBuffer without its mutex tells ...
FrameWaits ==
    /\ pc = "forward" /\ bmTx # <<>>
    /\ pc' = "take" /\ result' = "none"
    /\ UNCHANGED <<login, calls, queue, inbox, master, talkers, seen, disturbed, doubtful, bad>>

\* ... or none is: after a frame from the network the loop begins again at once.
ForwardNothing ==
    /\ pc = "forward" /\ bmTx = <<>>
    /\ \/ result = "frame" /\ pc' = "recv" /\ result' = "none"
       \/ result # "frame" /\ pc' = "keepalive" /\ UNCHANGED result
    /\ UNCHANGED <<login, calls, queue, inbox, master, talkers, seen, disturbed, doubtful, bad>>

\* A header begins a stream, unless one is under way: then it is dropped.  dmr_network_send() sends
\* under the current stream, if the connection is running.
Send(f) ==
    /\ ownCalls' = IF f = "head" /\ ~started THEN ownCalls + 1 ELSE ownCalls
    /\ ownOpen' = (f # "end")
    /\ started' = CASE f = "head" -> TRUE
                    [] f = "end" -> FALSE
                    [] OTHER -> started
    /\ stream' = CASE f = "head" /\ ~started -> OwnId(ownCalls')
                   [] f = "end" -> 0
                   [] OTHER -> stream
    /\ DisturbedIf(hostCall # 0)

\* The oldest local frame is taken under the mutex.
Forward ==
    /\ pc = "take" /\ bmTx # <<>>
    /\ pc' = "recv"
    /\ bmTx' = Tail(bmTx)
    /\ Send(Head(bmTx))
    /\ UNCHANGED <<result, login, stuck, inbox, master, talkers, hostCall, doubtful, bad>>

\* startClient() has emptied bmTxBuffer since the look at it: RingBuffer_peek() leaves buf[] as it
\* was.  That may be an earlier frame, of this slot or of the other, or neither: then the mutex is
\* not unlocked.  The bound on own calls bounds what a stale header can begin.
ForwardStale ==
    /\ pc = "take" /\ bmTx = <<>>
    /\ pc' = "recv"
    /\ \/ /\ \E f \in FrameKind :
               /\ f = "head" /\ ~started => ownCalls < MaxLocal
               /\ Send(f)
          /\ UNCHANGED stuck
       \/ stuck' \in BOOLEAN /\ UNCHANGED <<calls, ownCalls, ownOpen, disturbed>>
    /\ UNCHANGED <<result, login, bmTx, inbox, master, talkers, hostCall, doubtful, bad>>

\* dmr_network_keepalive(): after 10 s the request of the current state is sent again ...
Retry ==
    /\ pc = "keepalive" /\ status # "running"
    /\ Len(inbox) < InboxMax
    /\ pc' = "kaRecv"
    /\ Request(status, salt, inbox)
    /\ UNCHANGED <<result, status, calls, queue, talkers, seen, disturbed, doubtful>>

\* ... or a ping.  Then, in every round, a packet is read.
Ping ==
    /\ pc = "keepalive" /\ status = "running"
    /\ Len(inbox) < InboxMax
    /\ pc' = "kaRecv"
    /\ Request("ping", salt, inbox)
    /\ UNCHANGED <<result, status, calls, queue, talkers, seen, disturbed, doubtful>>

\* The end of a round; a round without a connection ends the calls of both directions.
RoundEnds ==
    /\ pc' = "recv" /\ result' = "none"
    /\ started' = IF result = "down" THEN FALSE ELSE started
    /\ UNCHANGED <<stream, queue, talkers, seen>>

InCall == hostCall # 0 \/ ownOpen

KeepaliveNothing ==
    /\ pc \in {"keepalive", "kaRecv"}
    /\ RoundEnds
    /\ DisturbedIf(result = "down" /\ InCall)
    /\ UNCHANGED <<login, inbox, master, doubtful, bad>>

\* Mutant: the acknowledgement of the password is taken for that of the configuration.
Acknowledged_noConfig(p) ==
    \/ status = "login" /\ status' = "auth" /\ Request("auth", p.id = 1, Tail(inbox))
    \/ status # "login" /\ status' = "running"
       /\ inbox' = Tail(inbox) /\ UNCHANGED <<salt, master, bad>>

\* An acknowledgement moves the login on, whichever request it answers.
Acknowledged(p) ==
    \/ status = "login" /\ status' = "auth" /\ Request("auth", p.id = 1, Tail(inbox))
    \/ status = "auth" /\ status' = "config" /\ Request("config", salt, Tail(inbox))
    \/ status = "config" /\ status' = "running"
       /\ inbox' = Tail(inbox) /\ UNCHANGED <<salt, master, bad>>
    \/ status = "running"
       /\ inbox' = Tail(inbox) /\ UNCHANGED <<login, master, bad>>

\* Mutant: a MSTNAK is only reported.
Refused_reported ==
    /\ inbox' = Tail(inbox)
    /\ UNCHANGED <<login, master, bad>>

\* MSTNAK: the login starts again.
Refused == status' = "login" /\ Request("login", salt, Tail(inbox))

\* A pong, and a data packet: read and done with.
Dropped == inbox' = Tail(inbox) /\ UNCHANGED <<login, master, bad>>

\* The RPTACK p is taken for the answer to another request than it answers.
Mistaken(p) == p.kind \in Acks /\ status # "running" /\ p.kind # status

LoginBegins(p) == p.kind = "nak" /\ status' = "login"

KeepalivePacket ==
    /\ pc \in {"keepalive", "kaRecv"} /\ inbox # <<>>
    /\ LET p == Head(inbox) IN
         /\ CASE p.kind \in Acks -> Acknowledged(p)
              [] p.kind = "nak" -> Refused
              [] OTHER -> Dropped
         /\ doubtful' = (Mistaken(p) \/ (doubtful /\ ~LoginBegins(p)))
    /\ RoundEnds
    /\ DisturbedIf((result = "down" \/ status' = "login") /\ InCall)

------------------------------------------------------------------------------
\* Outside: calls of the network, calls of the DMR host, losses.

Arrives(p) ==
    /\ Len(inbox) < InboxMax
    /\ \/ inbox' = Append(inbox, p) /\ UNCHANGED bad
       \/ UNCHANGED inbox /\ OneLost

\* External: the master sends a call, header to terminator.
NetCall ==
    /\ master = "up"
    /\ \/ /\ netTalk = 0 /\ netCalls < MaxStreams
          /\ netCalls' = netCalls + 1 /\ netTalk' = netCalls + 1
          /\ Arrives(Pkt("head", netCalls + 1))
       \/ /\ netTalk # 0 /\ UNCHANGED <<netTalk, netCalls>>
          /\ Arrives(Pkt("voice", netTalk))
       \/ /\ netTalk # 0 /\ netTalk' = 0 /\ UNCHANGED netCalls
          /\ Arrives(Pkt("end", netTalk))
    /\ UNCHANGED <<loop, login, calls, queue, master, localTalk, localCalls, seen, disturbed,
                   doubtful>>

\* RingBuffer_addData() on bmTxBuffer: a frame that does not fit is dropped and empties the buffer.
Queue(f) == bmTx' = IF Len(bmTx) < BufMax THEN Append(bmTx, f) ELSE <<>>

\* startClient(): a frame from the DMR host is put into bmTxBuffer, if the mutex can be locked.
startClient ==
    /\ ~stuck
    /\ \E f \in FrameKind :
         /\ f = "head" <=> ~localTalk
         /\ f = "head" => localCalls < MaxLocal
         /\ localCalls' = IF f = "head" THEN localCalls + 1 ELSE localCalls
         /\ localTalk' = (f # "end")
         /\ Queue(f)
    /\ DisturbedIf(Len(bmTx) = BufMax)
    /\ UNCHANGED <<loop, login, calls, stuck, inbox, master, netTalk, netCalls, seen, doubtful,
                   bad>>

\* External: the master restarts, or drops a gateway it has not heard of.
MasterForgets ==
    /\ restarts < MaxRestarts /\ restarts' = restarts + 1
    /\ master' = "none" /\ netTalk' = 0
    /\ doubtful' = TRUE
    /\ UNCHANGED <<loop, login, calls, queue, inbox, netCalls, localTalk, localCalls, seen,
                   disturbed, losses>>

Takes == RecvPacket \/ KeepalivePacket

startDMRNetwork ==
    \/ RecvNothing \/ FrameWaits \/ Forward \/ ForwardStale \/ ForwardNothing
    \/ Retry \/ Ping \/ KeepaliveNothing \/ Takes

GatewayNext == startDMRNetwork \/ NetCall \/ startClient \/ MasterForgets

GatewaySpec == GatewayInit /\ [][GatewayNext]_gateway

CallEnds == \/ NetCall /\ netTalk' = 0
            \/ startClient /\ ~localTalk'

\* The thread runs, what is not lost arrives, 10 s pass again and again, and nobody talks forever.
GatewayFairSpec == /\ GatewaySpec
                   /\ WF_gateway(startDMRNetwork)
                   /\ SF_gateway(Takes)
                   /\ SF_gateway(Retry \/ Ping)
                   /\ SF_gateway(CallEnds)

------------------------------------------------------------------------------
\* The state is well formed.
GatewayTypeOK ==
    /\ pc \in {"recv", "forward", "take", "keepalive", "kaRecv"}
    /\ result \in {"frame", "none", "down"}
    /\ status \in {"login", "auth", "config", "running"}
    /\ salt \in BOOLEAN
    /\ started \in BOOLEAN /\ ownOpen \in BOOLEAN /\ localTalk \in BOOLEAN /\ stuck \in BOOLEAN
    /\ stream \in Ids /\ hostCall \in 0 .. MaxStreams
    /\ bmTx \in Seq(FrameKind) /\ Len(bmTx) <= BufMax
    /\ inbox \in Seq(Packet) /\ Len(inbox) <= InboxMax
    /\ master \in {"none", "challenged", "known", "up"}
    /\ netTalk \in 0 .. MaxStreams /\ netCalls \in 0 .. MaxStreams
    /\ localCalls \in 0 .. MaxLocal /\ ownCalls \in 0 .. MaxLocal
    /\ disturbed \in BOOLEAN /\ doubtful \in BOOLEAN
    /\ losses \in 0 .. MaxLosses /\ restarts \in 0 .. MaxRestarts

\* frame_started[] and curr_stream_id[] serve the calls of both directions.  As long as these do not
\* overlap, the connection holds and no local frame is dropped, they say what the DMR host was told:
\* a call it knows of has its own stream and its end will reach it, and local frames go out under the
\* stream of their call; a lost header or terminator of the network does not break this.
CallsAgree ==
    ~disturbed =>
        /\ started <=> hostCall # 0 \/ ownOpen
        /\ hostCall # 0 => stream = hostCall
        /\ ownOpen => stream = OwnId(ownCalls)

\* The gateway believes it is logged in only when it is, whichever requests and answers were lost,
\* however late an answer is, and whatever earlier logins have left on the way.  An RPTACK does not
\* say what it acknowledges: this holds while none has been taken for the answer to another request,
\* and the master has not restarted, since the login began.
RunningIsKnown ==
    status = "running" /\ ~doubtful => master = "up"

\* An RPTACK is taken for the answer to another request, or dmr_network_recv() reads a MSTNAK, and
\* drops it.
Misread == \/ KeepalivePacket /\ Mistaken(Head(inbox))
           \/ RecvPacket /\ Head(inbox).kind = "nak"

\* Requests and answers may be lost or late, a MSTNAK dropped, an RPTACK mistaken, and the master may
\* forget the gateway: it is logged in for good in the end, unless that goes on for ever: either two
\* requests stay on their way, and each one's answer is taken for the other's, or every MSTNAK is
\* dropped.
LoggedInAgain ==
    \/ <>[](status = "running" /\ master = "up")
    \/ []<><<Misread>>_gateway
==============================================================================
