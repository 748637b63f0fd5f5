--------------------------- MODULE HostConnections ---------------------------
(***************************************************************************)
(* Modem_Host.c, service side: the table of protocol service connections.  *)
(* startTCPServer() gives an accepted connection a slot and two threads,   *)
(* processClientSocket() and modeRxThread(), that share the slot's fields  *)
(* without a lock.  A step below is one access to shared state: a slot     *)
(* field, a control frame queued for the bridge, a database statement, the *)
(* shutDownMutex.                                                          *)
(***************************************************************************)
EXTENDS Naturals, FiniteSets

CONSTANTS MaxClients,   \* MAX_CLIENT_CONNECTIONS
          Conn,         \* TCP connections made during the run
          Mode,         \* mode names
          Wants,        \* Wants[c]: the mode named in the MODE frame of connection c
          NoMode,       \* the empty name
          NoConn,       \* no connection
          FrameStream,  \* streamType == STREAM_FRAME: the modem keeps no mode table
          Overlap,      \* may services come and go while another is being registered or cleaned up?
          ThreadsFail   \* may pthread_create() fail?

ASSUME ConnectionAssumption ==
    /\ MaxClients \in Nat \ {0}
    /\ Wants \in [Conn -> Mode]
    /\ NoMode \notin Mode
    /\ NoConn \notin Conn
    /\ FrameStream \in BOOLEAN
    /\ Overlap \in BOOLEAN
    /\ ThreadsFail \in BOOLEAN

Slot == 0 .. MaxClients - 1

VARIABLES active,       \* hostClient[].active
          name,         \* mode[].name
          sockfd,       \* hostClient[].sockfd
          peer,         \* the service's end of each connection
          slotOf,       \* conn_id argument of a connection's threads
          serve,        \* where processClientSocket() of a connection is
          rx,           \* where modeRxThread() of a connection is
          snap,         \* the activeModes list a thread has read and will write back
          modeOn,       \* modes the bridge has been told are wanted (MODE_ON, MODE_OFF)
          block,        \* the modem's mode table (ADD_MODE, DEL_MODE)
          activeModes,  \* database setting activeModes
          shutDown      \* holder of shutDownMutex

slots   == <<active, name, sockfd>>
threads == <<slotOf, serve, rx, snap>>
outside == <<modeOn, block, activeModes>>
vars    == <<slots, peer, threads, outside, shutDown>>

\* Where processClientSocket() can be.  "leaked": accepted, but no thread was started.
ServePc == {"none", "reading", "checked", "addRead", "addWrite", "turnOn", "connect", "serving",
            "closing", "turnOff", "lock", "delRead", "delWrite", "delBlock", "closeSock",
            "done", "leaked"}

Registering == {"reading", "checked", "addRead", "addWrite", "turnOn", "connect"}
Closing     == {"closing", "turnOff", "lock", "delRead", "delWrite", "delBlock", "closeSock"}

\* processClientSocket() runs and has not yet freed its slot.
Holding == Registering \cup {"serving", "closing"}

Named(m) == {m} \ {NoMode}

------------------------------------------------------------------------------
Init ==
    /\ active = [s \in Slot |-> FALSE]
    /\ name = [s \in Slot |-> NoMode]
    /\ sockfd = [s \in Slot |-> NoConn]
    /\ peer = [c \in Conn |-> "new"]
    /\ slotOf = [c \in Conn |-> 0]
    /\ serve = [c \in Conn |-> "none"]
    /\ rx = [c \in Conn |-> "none"]
    /\ snap = [c \in Conn |-> {}]
    /\ modeOn = {}
    /\ block = [s \in Slot |-> NoMode]
    /\ activeModes = {}
    /\ shutDown = NoConn

Goto(c, pc) == serve' = [serve EXCEPT ![c] = pc]

\* Nobody is in the middle of coming or going.
Settled == \A c \in Conn : /\ serve[c] \notin Registering \cup Closing
                           /\ serve[c] = "done" => rx[c] \in {"none", "done"}
                           /\ peer[c] = "gone" => serve[c] \in {"done", "leaked"}

------------------------------------------------------------------------------
(* startTCPServer() *)

\* accept() is reached: the last connection has been dealt with.
Accepting == \A c \in Conn : rx[c] # "failed"

FirstFree(s) == ~ active[s] /\ \A t \in 0 .. s - 1 : active[t]

\* The slot is claimed; what becomes of the two threads differs.
Claim(c, isActive, servePc, rxPc) ==
    /\ peer[c] = "new"
    /\ Accepting
    /\ Overlap \/ Settled
    /\ \E s \in Slot :
         /\ FirstFree(s)
         /\ name' = [name EXCEPT ![s] = NoMode]
         /\ sockfd' = [sockfd EXCEPT ![s] = c]
         /\ active' = [active EXCEPT ![s] = isActive]
         /\ slotOf' = [slotOf EXCEPT ![c] = s]
    /\ peer' = [peer EXCEPT ![c] = "open"]
    /\ serve' = [serve EXCEPT ![c] = servePc]
    /\ rx' = [rx EXCEPT ![c] = rxPc]
    /\ UNCHANGED <<snap, outside, shutDown>>

Accept(c) == Claim(c, TRUE, "reading", "running")

\* pthread_create() of processClientSocket() failed: the socket is never closed.
AcceptNoThread(c) == ThreadsFail /\ Claim(c, FALSE, "leaked", "none")

\* pthread_create() of modeRxThread() fails: processClientSocket() runs already
\* when the slot is marked free again.
AcceptNoRxThread(c) == ThreadsFail /\ Claim(c, TRUE, "reading", "failed")

RxNotStarted(c) ==
    /\ rx[c] = "failed"
    /\ active' = [active EXCEPT ![slotOf[c]] = FALSE]
    /\ rx' = [rx EXCEPT ![c] = "none"]
    /\ UNCHANGED <<name, sockfd, peer, slotOf, serve, snap, outside, shutDown>>

\* Every slot is taken: the accepted socket is forgotten.
AcceptFull(c) ==
    /\ peer[c] = "new"
    /\ Accepting
    /\ Overlap \/ Settled
    /\ \A s \in Slot : active[s]
    /\ peer' = [peer EXCEPT ![c] = "open"]
    /\ Goto(c, "leaked")
    /\ UNCHANGED <<slots, slotOf, rx, snap, outside, shutDown>>

\* The service closes its connection, restarts or crashes.
PeerCloses(c) ==
    /\ peer[c] = "open"
    /\ Overlap \/ (\A d \in Conn \ {c} : serve[d] \notin Registering)
    /\ peer' = [peer EXCEPT ![c] = "gone"]
    /\ UNCHANGED <<slots, threads, outside, shutDown>>

------------------------------------------------------------------------------
(* processClientSocket(): registration *)

modeInUse(c, m) == \E s \in Slot : s # slotOf[c] /\ active[s] /\ name[s] = m

\* Mutant: a second service of a mode is let in.
ReadMode_noRefusal(c) ==
    /\ serve[c] = "reading"
    /\ Goto(c, "checked")
    /\ UNCHANGED <<slots, peer, slotOf, rx, snap, outside, shutDown>>

\* The MODE frame is read and the mode looked up.
ReadMode(c) ==
    /\ serve[c] = "reading"
    /\ Goto(c, IF modeInUse(c, Wants[c]) THEN "closing" ELSE "checked")
    /\ UNCHANGED <<slots, peer, slotOf, rx, snap, outside, shutDown>>

StoreName(c) ==
    /\ serve[c] = "checked"
    /\ name' = [name EXCEPT ![slotOf[c]] = Wants[c]]
    /\ Goto(c, "addRead")
    /\ UNCHANGED <<active, sockfd, peer, slotOf, rx, snap, outside, shutDown>>

\* addMode() reads the list and writes it back with the mode added.
AddModeRead(c) ==
    /\ serve[c] = "addRead"
    /\ snap' = [snap EXCEPT ![c] = activeModes]
    /\ Goto(c, "addWrite")
    /\ UNCHANGED <<slots, peer, slotOf, rx, outside, shutDown>>

AddModeWrite(c) ==
    /\ serve[c] = "addWrite"
    /\ activeModes' = IF name[slotOf[c]] \in snap[c] THEN activeModes
                      ELSE snap[c] \cup Named(name[slotOf[c]])
    /\ Goto(c, "turnOn")
    /\ UNCHANGED <<slots, peer, slotOf, rx, snap, modeOn, block, shutDown>>

\* setProtocol(name, true)
TurnOn(c) ==
    /\ serve[c] = "turnOn"
    /\ modeOn' = modeOn \cup Named(name[slotOf[c]])
    /\ Goto(c, "connect")
    /\ UNCHANGED <<slots, peer, slotOf, rx, snap, block, activeModes, shutDown>>

\* MODE_CONN and, for a modem that holds a block per mode, ADD_MODE.
Connect(c) ==
    /\ serve[c] = "connect"
    /\ block' = IF FrameStream THEN block ELSE [block EXCEPT ![slotOf[c]] = Wants[c]]
    /\ Goto(c, "serving")
    /\ UNCHANGED <<slots, peer, slotOf, rx, snap, modeOn, activeModes, shutDown>>

------------------------------------------------------------------------------
(* processClientSocket(): clean-up *)

\* read() reports that the service has gone.
SeesClosed(c) ==
    /\ serve[c] \in {"reading", "serving"}
    /\ peer[c] = "gone"
    /\ Goto(c, "closing")
    /\ UNCHANGED <<slots, peer, slotOf, rx, snap, outside, shutDown>>

\* After another frame the loop condition finds the slot no longer active.
SeesInactive(c) ==
    /\ serve[c] \in {"reading", "serving"}
    /\ peer[c] = "open"
    /\ ~ active[slotOf[c]]
    /\ Goto(c, "closing")
    /\ UNCHANGED <<slots, peer, slotOf, rx, snap, outside, shutDown>>

\* Mutant: the slot stays marked in use.
Deactivate_staysActive(c) ==
    /\ serve[c] = "closing"
    /\ Goto(c, "turnOff")
    /\ UNCHANGED <<slots, peer, slotOf, rx, snap, outside, shutDown>>

Deactivate(c) ==
    /\ serve[c] = "closing"
    /\ active' = [active EXCEPT ![slotOf[c]] = FALSE]
    /\ Goto(c, "turnOff")
    /\ UNCHANGED <<name, sockfd, peer, slotOf, rx, snap, outside, shutDown>>

\* Mutant: the bridge is told only while the slot is still marked in use.
TurnOff_ifActive(c) ==
    /\ serve[c] = "turnOff"
    /\ modeOn' = IF active[slotOf[c]] THEN modeOn \ {name[slotOf[c]]} ELSE modeOn
    /\ Goto(c, "lock")
    /\ UNCHANGED <<slots, peer, slotOf, rx, snap, block, activeModes, shutDown>>

\* Mutant: the mode of the MODE frame is switched off, stored or not.
TurnOff_asked(c) ==
    /\ serve[c] = "turnOff"
    /\ modeOn' = modeOn \ {Wants[c]}
    /\ Goto(c, "lock")
    /\ UNCHANGED <<slots, peer, slotOf, rx, snap, block, activeModes, shutDown>>

\* setProtocol(name, false), unless the name is empty
TurnOff(c) ==
    /\ serve[c] = "turnOff"
    /\ modeOn' = modeOn \ {name[slotOf[c]]}
    /\ Goto(c, "lock")
    /\ UNCHANGED <<slots, peer, slotOf, rx, snap, block, activeModes, shutDown>>

Lock(c) ==
    /\ serve[c] = "lock"
    /\ shutDown = NoConn
    /\ shutDown' = c
    /\ Goto(c, IF name[slotOf[c]] = NoMode THEN "delBlock" ELSE "delRead")
    /\ UNCHANGED <<slots, peer, slotOf, rx, snap, outside>>

\* delGateway() and delMode(): the latter reads the list and writes it back.
DelModeRead(c) ==
    /\ serve[c] = "delRead"
    /\ snap' = [snap EXCEPT ![c] = activeModes]
    /\ Goto(c, IF activeModes = {} THEN "delBlock" ELSE "delWrite")
    /\ UNCHANGED <<slots, peer, slotOf, rx, outside, shutDown>>

\* Mutant: taking the name out leaves an empty item in the list.
DelModeWrite_leavesEmptyItem(c) ==
    /\ serve[c] = "delWrite"
    /\ activeModes' = (snap[c] \ {name[slotOf[c]]}) \cup {NoMode}
    /\ Goto(c, "delBlock")
    /\ UNCHANGED <<slots, peer, slotOf, rx, snap, modeOn, block, shutDown>>

DelModeWrite(c) ==
    /\ serve[c] = "delWrite"
    /\ activeModes' = snap[c] \ {name[slotOf[c]]}
    /\ Goto(c, "delBlock")
    /\ UNCHANGED <<slots, peer, slotOf, rx, snap, modeOn, block, shutDown>>

\* DEL_MODE for the slot
DelBlock(c) ==
    /\ serve[c] = "delBlock"
    /\ block' = IF FrameStream \/ name[slotOf[c]] = NoMode THEN block
                ELSE [block EXCEPT ![slotOf[c]] = NoMode]
    /\ Goto(c, "closeSock")
    /\ UNCHANGED <<slots, peer, slotOf, rx, snap, modeOn, activeModes, shutDown>>

\* Mutant: the thread polls, with shutDownMutex locked, for the end of a
\* modeRxThread() that may never have started.
CloseSock_waitsForRx(c) ==
    /\ serve[c] = "closeSock"
    /\ \/ /\ rx[c] = "done"
          /\ shutDown' = NoConn
          /\ Goto(c, "done")
          /\ UNCHANGED <<slots, peer, slotOf, rx, snap, outside>>
       \/ rx[c] # "done" /\ UNCHANGED vars

\* close() and the release of shutDownMutex
CloseSock(c) ==
    /\ serve[c] = "closeSock"
    /\ shutDown' = NoConn
    /\ Goto(c, "done")
    /\ UNCHANGED <<slots, peer, slotOf, rx, snap, outside>>

------------------------------------------------------------------------------
(* modeRxThread(), as far as it touches the slot *)

\* write() to the service failed, or the loop condition found the slot inactive.
RxStops(c) ==
    /\ rx[c] = "running"
    /\ \/ peer[c] = "gone"
       \/ serve[c] = "done"
       \/ ~ active[slotOf[c]]
    /\ rx' = [rx EXCEPT ![c] = "leaving"]
    /\ UNCHANGED <<slots, peer, slotOf, serve, snap, outside, shutDown>>

RxLeaves(c) ==
    /\ rx[c] = "leaving"
    /\ active' = [active EXCEPT ![slotOf[c]] = FALSE]
    /\ rx' = [rx EXCEPT ![c] = "done"]
    /\ UNCHANGED <<name, sockfd, peer, slotOf, serve, snap, outside, shutDown>>

------------------------------------------------------------------------------
TCPServer(c) ==
    Accept(c) \/ AcceptNoThread(c) \/ AcceptNoRxThread(c) \/ RxNotStarted(c) \/ AcceptFull(c)

processClientSocket(c) ==
    \/ ReadMode(c) \/ StoreName(c) \/ AddModeRead(c) \/ AddModeWrite(c) \/ TurnOn(c) \/ Connect(c)
    \/ SeesClosed(c) \/ Deactivate(c) \/ TurnOff(c) \/ Lock(c)
    \/ DelModeRead(c) \/ DelModeWrite(c) \/ DelBlock(c) \/ CloseSock(c)

modeRxThread(c) == RxStops(c) \/ RxLeaves(c)

\* Every connection has come and gone.
Finished ==
    /\ \A c \in Conn : peer[c] = "gone" /\ serve[c] \in {"done", "leaked"}
                                        /\ rx[c] \in {"none", "done"}
    /\ UNCHANGED vars

Next ==
    \/ \E c \in Conn : \/ TCPServer(c)
                       \/ PeerCloses(c)
                       \/ processClientSocket(c)
                       \/ SeesInactive(c)
                       \/ modeRxThread(c)
    \/ Finished

Spec == Init /\ [][Next]_vars

\* Threads are scheduled; a service's own steps are not forced.
FairSpec == Spec /\ \A c \in Conn : /\ WF_vars(processClientSocket(c))
                                    /\ WF_vars(modeRxThread(c))

------------------------------------------------------------------------------
\* The state is well formed; the list activeModes has no empty item.
TypeOK ==
    /\ active \in [Slot -> BOOLEAN]
    /\ name \in [Slot -> Mode \cup {NoMode}]
    /\ sockfd \in [Slot -> Conn \cup {NoConn}]
    /\ peer \in [Conn -> {"new", "open", "gone"}]
    /\ slotOf \in [Conn -> Slot]
    /\ serve \in [Conn -> ServePc]
    /\ rx \in [Conn -> {"none", "running", "leaving", "done", "failed"}]
    /\ snap \in [Conn -> SUBSET Mode]
    /\ modeOn \subseteq Mode
    /\ block \in [Slot -> Mode \cup {NoMode}]
    /\ activeModes \subseteq Mode
    /\ shutDown \in Conn \cup {NoConn}

(* A slot marked in use belongs to the connection whose socket it names and  *)
(* that connection's processClientSocket() is still going to free it.  No    *)
(* order of accepts, failed writes and late thread exits leaves one of the   *)
(* few slots taken for good.                                                 *)
NoOrphanSlot ==
    \A s \in Slot : active[s] => /\ sockfd[s] \in Conn
                                 /\ slotOf[sockfd[s]] = s
                                 /\ serve[sockfd[s]] \in Holding

(* docs/BRIDGES.md, "One service per mode": a second service for a mode that *)
(* a connected service holds is refused.                                     *)
OneServicePerMode ==
    \A s, t \in Slot : active[s] /\ active[t] /\ name[s] = name[t] /\ s # t => name[s] = NoMode

Serving(c) == serve[c] = "serving" /\ peer[c] = "open" /\ active[slotOf[c]]

(* "The first service is not affected": whatever other connections come,     *)
(* are refused and go, the mode of a service that is being served stays      *)
(* switched on in the bridge and in the modem's table, and stays listed for  *)
(* the dashboard, and its slot stays its own.                                *)
ServedModeIsOn ==
    \A c \in Conn : Serving(c) => /\ sockfd[slotOf[c]] = c
                                  /\ name[slotOf[c]] = Wants[c]
                                  /\ Wants[c] \in modeOn \cap activeModes
                                  /\ FrameStream \/ block[slotOf[c]] = Wants[c]

(* A mode that is switched on in the bridge, listed for the dashboard or     *)
(* held in the modem's table is that of a connection still being served,     *)
(* registered or cleaned up: clean-up forgets nothing.                       *)
NoGhostMode ==
    LET held == {Wants[c] : c \in {d \in Conn : serve[d] \in Registering \cup {"serving"} \cup Closing}}
    IN  /\ modeOn \subseteq held
        /\ activeModes \subseteq held
        /\ \A s \in Slot : block[s] \in held \cup {NoMode}

(* When a service goes away, the thread that served it comes to an end and   *)
(* closes the socket, even if many leave at once and queue for the           *)
(* shutDownMutex.                                                            *)
EverySocketCloses ==
    \A c \in Conn : (peer[c] = "gone") ~> (serve[c] \in {"done", "leaked"})
==============================================================================
