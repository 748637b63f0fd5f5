------------------------ MODULE HostConnectionsProofs ------------------------
(***************************************************************************)
(* Proofs about HostConnections, for any number of slots, connections and  *)
(* modes: the slots with and without overlap and thread failures, the      *)
(* modes announced for them without.                                       *)
(***************************************************************************)
EXTENDS HostConnections, TLAPS

\* The inductive invariant.  The last part keeps a connection that is being
\* accepted apart from those that hold a slot.
Inv ==
    /\ TypeOK
    /\ NoOrphanSlot
    /\ \A c \in Conn : peer[c] = "new" => serve[c] = "none"

\* What a step of the thread of connection c does to serve.
LEMMA GotoType ==
    ASSUME TypeOK, NEW c \in Conn, NEW pc \in ServePc, Goto(c, pc)
    PROVE  /\ serve' \in [Conn -> ServePc]
           /\ serve'[c] = pc
           /\ \A d \in Conn : d # c => serve'[d] = serve[d]
BY DEF TypeOK, Goto

LEMMA InitInv == Init => Inv
BY ConnectionAssumption DEF Init, Inv, TypeOK, NoOrphanSlot, ServePc, Slot

\* startTCPServer() puts a connection into a slot no one else holds.
LEMMA ClaimInv ==
    ASSUME Inv, NEW c \in Conn, NEW a \in BOOLEAN, NEW p \in ServePc,
           NEW r \in {"none", "running", "leaving", "done", "failed"},
           Claim(c, a, p, r), a => p = "reading", p # "none"
    PROVE  Inv'
<1>1. PICK s \in Slot :
          /\ name' = [name EXCEPT ![s] = NoMode]
          /\ sockfd' = [sockfd EXCEPT ![s] = c]
          /\ active' = [active EXCEPT ![s] = a]
          /\ slotOf' = [slotOf EXCEPT ![c] = s]
  BY DEF Claim
<1>2. /\ serve[c] = "none"
      /\ peer' = [peer EXCEPT ![c] = "open"]
      /\ serve' = [serve EXCEPT ![c] = p]
      /\ rx' = [rx EXCEPT ![c] = r]
      /\ UNCHANGED <<snap, modeOn, block, activeModes, shutDown>>
  BY DEF Claim, Inv, outside
<1>3. TypeOK'
  BY <1>1, <1>2 DEF Inv, TypeOK
<1>4. ASSUME NEW t \in Slot, active'[t]
      PROVE  /\ sockfd'[t] \in Conn
             /\ slotOf'[sockfd'[t]] = t
             /\ serve'[sockfd'[t]] \in Holding
  <2>1. CASE t = s
    <3>1. sockfd'[t] = c /\ slotOf'[c] = t /\ serve'[c] = p /\ a
      BY <1>1, <1>2, <1>4, <2>1 DEF Inv, TypeOK
    <3> QED BY <3>1 DEF Holding, Registering
  <2>2. CASE t # s
    <3>1. active[t] /\ sockfd'[t] = sockfd[t]
      BY <1>1, <1>4, <2>2 DEF Inv, TypeOK
    <3>2. sockfd[t] \in Conn /\ slotOf[sockfd[t]] = t /\ serve[sockfd[t]] \in Holding
      BY <3>1 DEF Inv, NoOrphanSlot
    <3>3. sockfd[t] # c
      BY <3>2, <1>2 DEF Holding, Registering
    <3>4. slotOf'[sockfd[t]] = t /\ serve'[sockfd[t]] = serve[sockfd[t]]
      BY <3>2, <3>3, <1>1, <1>2 DEF Inv, TypeOK
    <3> QED BY <3>1, <3>2, <3>4
  <2> QED BY <2>1, <2>2
<1>5. \A d \in Conn : peer'[d] = "new" => serve'[d] = "none"
  BY <1>2 DEF Inv, TypeOK
<1> QED BY <1>3, <1>4, <1>5 DEF Inv, NoOrphanSlot

\* A step of processClientSocket() that keeps the slot keeps the invariant;
\* so does one that comes after the slot has been given up.
LEMMA ServeStepInv ==
    ASSUME Inv, NEW c \in Conn, NEW pc \in ServePc, Goto(c, pc), TypeOK',
           UNCHANGED <<active, sockfd, peer, slotOf>>,
           serve[c] # "none", serve[c] \in Holding => pc \in Holding
    PROVE  Inv'
<1>1. /\ serve'[c] = pc
      /\ \A d \in Conn : d # c => serve'[d] = serve[d]
  BY GotoType DEF Inv
<1>2. ASSUME NEW t \in Slot, active'[t]
      PROVE  /\ sockfd'[t] \in Conn
             /\ slotOf'[sockfd'[t]] = t
             /\ serve'[sockfd'[t]] \in Holding
  <2>1. sockfd[t] \in Conn /\ slotOf[sockfd[t]] = t /\ serve[sockfd[t]] \in Holding
    BY <1>2 DEF Inv, NoOrphanSlot
  <2>2. serve'[sockfd[t]] \in Holding
    BY <1>1, <2>1
  <2> QED BY <2>1, <2>2
<1>3. \A d \in Conn : peer'[d] = "new" => serve'[d] = "none"
  BY <1>1 DEF Inv
<1> QED BY <1>2, <1>3 DEF Inv, NoOrphanSlot

\* Steps of the main loop and of registration.
LEMMA RegisterInv ==
    ASSUME Inv, NEW c \in Conn,
           \/ ReadMode(c) \/ StoreName(c) \/ AddModeRead(c) \/ AddModeWrite(c)
           \/ TurnOn(c) \/ Connect(c) \/ SeesClosed(c) \/ SeesInactive(c)
    PROVE  Inv'
<1>1. CASE ReadMode(c)
  <2> DEFINE pc == IF modeInUse(c, Wants[c]) THEN "closing" ELSE "checked"
  <2>1. Goto(c, pc) /\ UNCHANGED <<slots, peer, slotOf, rx, snap, outside, shutDown>>
        /\ serve[c] = "reading"
    BY <1>1 DEF ReadMode
  <2>2. pc \in ServePc /\ pc \in Holding
    BY DEF ServePc, Holding, Registering
  <2> HIDE DEF pc
  <2>3. TypeOK'
    BY <2>1, <2>2, GotoType DEF Inv, TypeOK, slots, outside
  <2> QED BY <2>1, <2>2, <2>3, ServeStepInv DEF slots
<1>2. CASE StoreName(c)
  <2>1. TypeOK'
    BY <1>2, ConnectionAssumption DEF StoreName, Goto, Inv, TypeOK, outside, ServePc
  <2> QED BY <1>2, <2>1, ServeStepInv DEF StoreName, ServePc, Holding, Registering
<1>3. CASE AddModeRead(c)
  <2>1. TypeOK'
    BY <1>3 DEF AddModeRead, Goto, Inv, TypeOK, outside, slots, ServePc
  <2> QED BY <1>3, <2>1, ServeStepInv DEF AddModeRead, slots, ServePc, Holding, Registering
<1>4. CASE AddModeWrite(c)
  <2>1. name[slotOf[c]] \in Mode \cup {NoMode} /\ snap[c] \subseteq Mode
    BY DEF Inv, TypeOK
  <2>2. activeModes' \subseteq Mode
    BY <1>4, <2>1 DEF AddModeWrite, Named, Inv, TypeOK
  <2>3. TypeOK'
    BY <1>4, <2>2 DEF AddModeWrite, Goto, Inv, TypeOK, slots, ServePc
  <2> QED BY <1>4, <2>3, ServeStepInv DEF AddModeWrite, slots, ServePc, Holding, Registering
<1>5. CASE TurnOn(c)
  <2>1. name[slotOf[c]] \in Mode \cup {NoMode}
    BY DEF Inv, TypeOK
  <2>2. modeOn' \subseteq Mode
    BY <1>5, <2>1 DEF TurnOn, Named, Inv, TypeOK
  <2>3. TypeOK'
    BY <1>5, <2>2 DEF TurnOn, Goto, Inv, TypeOK, slots, ServePc
  <2> QED BY <1>5, <2>3, ServeStepInv DEF TurnOn, slots, ServePc, Holding, Registering
<1>6. CASE Connect(c)
  <2>1. TypeOK'
    BY <1>6, ConnectionAssumption DEF Connect, Goto, Inv, TypeOK, slots, ServePc
  <2> QED BY <1>6, <2>1, ServeStepInv DEF Connect, slots, ServePc, Holding, Registering
<1>7. CASE SeesClosed(c)
  <2>1. TypeOK'
    BY <1>7 DEF SeesClosed, Goto, Inv, TypeOK, slots, outside, ServePc
  <2> QED BY <1>7, <2>1, ServeStepInv DEF SeesClosed, slots, ServePc, Holding, Registering
<1>8. CASE SeesInactive(c)
  <2>1. TypeOK'
    BY <1>8 DEF SeesInactive, Goto, Inv, TypeOK, slots, outside, ServePc
  <2> QED BY <1>8, <2>1, ServeStepInv DEF SeesInactive, slots, ServePc, Holding, Registering
<1> QED BY <1>1, <1>2, <1>3, <1>4, <1>5, <1>6, <1>7, <1>8

\* Giving up the slot: the only step that takes a thread out of Holding.
LEMMA DeactivateInv ==
    ASSUME Inv, NEW c \in Conn, Deactivate(c)
    PROVE  Inv'
<1>1. /\ serve[c] = "closing"
      /\ active' = [active EXCEPT ![slotOf[c]] = FALSE]
      /\ Goto(c, "turnOff")
      /\ UNCHANGED <<name, sockfd, peer, slotOf, rx, snap, outside, shutDown>>
  BY DEF Deactivate
<1>2. TypeOK'
  BY <1>1 DEF Inv, TypeOK, Goto, outside, ServePc
<1>3. \A d \in Conn : d # c => serve'[d] = serve[d]
  BY <1>1, GotoType DEF Inv, ServePc
<1>4. ASSUME NEW t \in Slot, active'[t]
      PROVE  /\ sockfd'[t] \in Conn
             /\ slotOf'[sockfd'[t]] = t
             /\ serve'[sockfd'[t]] \in Holding
  <2>1. active[t] /\ t # slotOf[c]
    BY <1>1, <1>4 DEF Inv, TypeOK
  <2>2. sockfd[t] \in Conn /\ slotOf[sockfd[t]] = t /\ serve[sockfd[t]] \in Holding
    BY <2>1 DEF Inv, NoOrphanSlot
  <2>3. serve'[sockfd[t]] = serve[sockfd[t]]
    BY <2>1, <2>2, <1>3
  <2> QED BY <1>1, <2>2, <2>3
<1>5. \A d \in Conn : peer'[d] = "new" => serve'[d] = "none"
  BY <1>1, <1>3 DEF Inv
<1> QED BY <1>2, <1>4, <1>5 DEF Inv, NoOrphanSlot

\* The clean-up after the slot has been given up.
LEMMA CleanUpInv ==
    ASSUME Inv, NEW c \in Conn,
           \/ TurnOff(c) \/ Lock(c) \/ DelModeRead(c) \/ DelModeWrite(c)
           \/ DelBlock(c) \/ CloseSock(c)
    PROVE  Inv'
<1>1. CASE TurnOff(c)
  <2>1. TypeOK'
    BY <1>1 DEF TurnOff, Goto, Inv, TypeOK, slots, ServePc
  <2> QED BY <1>1, <2>1, ServeStepInv DEF TurnOff, slots, ServePc, Holding, Registering
<1>2. CASE Lock(c)
  <2> DEFINE pc == IF name[slotOf[c]] = NoMode THEN "delBlock" ELSE "delRead"
  <2>1. /\ Goto(c, pc) /\ serve[c] = "lock" /\ shutDown' = c
        /\ UNCHANGED <<slots, peer, slotOf, rx, snap, outside>>
    BY <1>2 DEF Lock
  <2>2. pc \in ServePc
    BY DEF ServePc
  <2> HIDE DEF pc
  <2>3. TypeOK'
    BY <2>1, <2>2, GotoType DEF Inv, TypeOK, slots, outside
  <2> QED BY <2>1, <2>2, <2>3, ServeStepInv DEF slots, Holding, Registering
<1>3. CASE DelModeRead(c)
  <2> DEFINE pc == IF activeModes = {} THEN "delBlock" ELSE "delWrite"
  <2>1. /\ Goto(c, pc) /\ serve[c] = "delRead"
        /\ snap' = [snap EXCEPT ![c] = activeModes]
        /\ UNCHANGED <<slots, peer, slotOf, rx, outside, shutDown>>
    BY <1>3 DEF DelModeRead
  <2>2. pc \in ServePc
    BY DEF ServePc
  <2> HIDE DEF pc
  <2>3. TypeOK'
    BY <2>1, <2>2, GotoType DEF Inv, TypeOK, slots, outside
  <2> QED BY <2>1, <2>2, <2>3, ServeStepInv DEF slots, Holding, Registering
<1>4. CASE DelModeWrite(c)
  <2>1. snap[c] \subseteq Mode
    BY DEF Inv, TypeOK
  <2>2. TypeOK'
    BY <1>4, <2>1 DEF DelModeWrite, Goto, Inv, TypeOK, slots, ServePc
  <2> QED BY <1>4, <2>2, ServeStepInv DEF DelModeWrite, slots, ServePc, Holding, Registering
<1>5. CASE DelBlock(c)
  <2>1. TypeOK'
    BY <1>5 DEF DelBlock, Goto, Inv, TypeOK, slots, ServePc
  <2> QED BY <1>5, <2>1, ServeStepInv DEF DelBlock, slots, ServePc, Holding, Registering
<1>6. CASE CloseSock(c)
  <2>1. TypeOK'
    BY <1>6 DEF CloseSock, Goto, Inv, TypeOK, slots, outside, ServePc
  <2> QED BY <1>6, <2>1, ServeStepInv DEF CloseSock, slots, outside, ServePc, Holding, Registering
<1> QED BY <1>1, <1>2, <1>3, <1>4, <1>5, <1>6

\* startTCPServer() refuses or forgets a connection; the service goes away.
LEMMA ServiceInv ==
    ASSUME Inv, NEW c \in Conn, AcceptFull(c) \/ PeerCloses(c)
    PROVE  Inv'
<1>1. CASE AcceptFull(c)
  <2>1. /\ serve[c] = "none"
        /\ peer' = [peer EXCEPT ![c] = "open"]
        /\ Goto(c, "leaked")
        /\ UNCHANGED <<slots, slotOf, rx, snap, outside, shutDown>>
    BY <1>1 DEF AcceptFull, Inv
  <2>2. TypeOK'
    BY <2>1 DEF Inv, TypeOK, Goto, slots, outside, ServePc
  <2>3. \A d \in Conn : d # c => serve'[d] = serve[d]
    BY <2>1, GotoType DEF Inv, ServePc
  <2>4. NoOrphanSlot'
    BY <2>1, <2>3 DEF Inv, NoOrphanSlot, slots, Holding, Registering
  <2>5. \A d \in Conn : peer'[d] = "new" => serve'[d] = "none"
    BY <2>1, <2>3 DEF Inv, TypeOK
  <2> QED BY <2>2, <2>4, <2>5 DEF Inv
<1>2. CASE PeerCloses(c)
  <2>1. /\ peer' = [peer EXCEPT ![c] = "gone"]
        /\ UNCHANGED <<slots, threads, outside, shutDown>>
    BY <1>2 DEF PeerCloses
  <2>2. TypeOK'
    BY <2>1 DEF Inv, TypeOK, slots, threads, outside
  <2>3. NoOrphanSlot'
    BY <2>1 DEF Inv, NoOrphanSlot, slots, threads
  <2>4. \A d \in Conn : peer'[d] = "new" => serve'[d] = "none"
    BY <2>1 DEF Inv, TypeOK, threads
  <2> QED BY <2>2, <2>3, <2>4 DEF Inv
<1> QED BY <1>1, <1>2

\* A slot that is marked free can only make the invariant easier to keep.
LEMMA FreeInv ==
    ASSUME Inv, NEW c \in Conn, NEW r \in {"none", "done"},
           active' = [active EXCEPT ![slotOf[c]] = FALSE],
           rx' = [rx EXCEPT ![c] = r],
           UNCHANGED <<name, sockfd, peer, slotOf, serve, snap, outside, shutDown>>
    PROVE  Inv'
<1>1. TypeOK'
  BY DEF Inv, TypeOK, outside
<1>2. \A t \in Slot : active'[t] => active[t]
  BY DEF Inv, TypeOK
<1> QED BY <1>1, <1>2 DEF Inv, NoOrphanSlot

\* modeRxThread() only frees slots, even one that is no longer its own.
LEMMA RxInv ==
    ASSUME Inv, NEW c \in Conn, modeRxThread(c)
    PROVE  Inv'
<1>1. CASE RxStops(c)
  <2>1. /\ rx' = [rx EXCEPT ![c] = "leaving"]
        /\ UNCHANGED <<slots, peer, slotOf, serve, snap, outside, shutDown>>
    BY <1>1 DEF RxStops
  <2>2. TypeOK'
    BY <2>1 DEF Inv, TypeOK, slots, outside
  <2> QED BY <2>1, <2>2 DEF Inv, NoOrphanSlot, slots
<1>2. CASE RxLeaves(c)
  BY <1>2, FreeInv DEF RxLeaves
<1> QED BY <1>1, <1>2 DEF modeRxThread

LEMMA NextInv == Inv /\ [Next]_vars => Inv'
<1> SUFFICES ASSUME Inv, [Next]_vars PROVE Inv'
  OBVIOUS
<1>1. ASSUME NEW c \in Conn, TCPServer(c) PROVE Inv'
  <2>1. CASE Accept(c)
    BY <2>1, ClaimInv DEF Accept, ServePc
  <2>2. CASE AcceptNoThread(c)
    BY <2>2, ClaimInv DEF AcceptNoThread, ServePc
  <2>3. CASE AcceptNoRxThread(c)
    BY <2>3, ClaimInv DEF AcceptNoRxThread, ServePc
  <2>4. CASE AcceptFull(c)
    BY <2>4, ServiceInv
  <2>5. CASE RxNotStarted(c)
    BY <2>5, FreeInv DEF RxNotStarted
  <2> QED BY <1>1, <2>1, <2>2, <2>3, <2>4, <2>5 DEF TCPServer
<1>2. ASSUME NEW c \in Conn, PeerCloses(c) PROVE Inv'
  BY <1>2, ServiceInv
<1>3. ASSUME NEW c \in Conn, processClientSocket(c) \/ SeesInactive(c) PROVE Inv'
  BY <1>3, RegisterInv, DeactivateInv, CleanUpInv DEF processClientSocket
<1>4. ASSUME NEW c \in Conn, modeRxThread(c) PROVE Inv'
  BY <1>4, RxInv
<1>5. CASE UNCHANGED vars
  BY <1>5 DEF vars, slots, threads, outside, Inv, TypeOK, NoOrphanSlot
<1>6. CASE Finished
  BY <1>5, <1>6 DEF Finished
<1> QED BY <1>1, <1>2, <1>3, <1>4, <1>5, <1>6 DEF Next

(* Every field of the connection table, of the threads and of what the table *)
(* stands for keeps its type: a slot number is always within hostClient[].   *)
THEOREM TypeCorrect == Spec => []TypeOK
<1>1. Inv => TypeOK
  BY DEF Inv
<1> QED BY <1>1, InitInv, NextInv, PTL DEF Spec

(* For any number of slots and connections, and in every order of accepts,   *)
(* failed thread starts, failed writes and late exits of modeRxThread(): a   *)
(* slot startTCPServer() would skip is held by a running                     *)
(* processClientSocket() that is still going to free it.                     *)
THEOREM SlotsAreNotLost == Spec => []NoOrphanSlot
<1>1. Inv => NoOrphanSlot
  BY DEF Inv
<1> QED BY <1>1, InitInv, NextInv, PTL DEF Spec

------------------------------------------------------------------------------
(* Without overlap and thread failures: services still come, are refused and *)
(* go in every order, several leave at once, and modeRxThread() exits late,  *)
(* but nobody is accepted or lost while another one is being registered.     *)

Calm == ~ Overlap /\ ~ ThreadsFail

\* A thread of connection c still uses its slot.
Live(c) == serve[c] \notin {"none", "done", "leaked"} \/ rx[c] \in {"running", "leaving"}

\* The name is in the slot.
Stored == {"addRead", "addWrite", "turnOn", "connect", "serving"}

\* Connection c has been let in for its mode and has not been cleaned up.
Claims(c) == \/ serve[c] \in {"checked"} \cup Stored
             \/ serve[c] \in Closing /\ name[slotOf[c]] = Wants[c]

\* A connection that has not been accepted, or has found no slot, has no threads.
Untouched == \A c \in Conn : /\ peer[c] = "new" => serve[c] = "none"
                             /\ serve[c] \in {"none", "leaked"} => rx[c] = "none"

\* No start of modeRxThread() has failed.
Started == \A c \in Conn : rx[c] # "failed"

\* No two connections whose threads are alive share a slot.
Apart == \A c, d \in Conn : c # d /\ Live(c) /\ Live(d) => slotOf[c] # slotOf[d]

OwnSlot == \A c \in Conn : Live(c) => sockfd[slotOf[c]] = c

\* A service that is still there keeps its slot and both threads.
Kept == \A c \in Conn : serve[c] \in Registering \cup {"serving"} /\ peer[c] = "open"
                            => active[slotOf[c]] /\ rx[c] = "running"

\* While one connection is being registered, all others are served or gone.
Alone == \A c, d \in Conn : c # d /\ serve[c] \in Registering
                               => /\ serve[d] \notin Registering \cup Closing
                                  /\ serve[d] = "serving" => peer[d] = "open"

Names == \A c \in Conn : /\ serve[c] \in {"reading", "checked"} => name[slotOf[c]] = NoMode
                         /\ serve[c] \in Stored => name[slotOf[c]] = Wants[c]
                         /\ serve[c] \in Closing => name[slotOf[c]] \in {NoMode, Wants[c]}

\* The modes of connections that have been let in differ.
Distinct == \A c, d \in Conn : c # d /\ Claims(c) /\ Claims(d) => Wants[c] # Wants[d]

Shape == Untouched /\ Started /\ Apart /\ OwnSlot /\ Kept /\ Alone /\ Names /\ Distinct

\* The list a thread will write back is still the one in the database.
Fresh == \A c \in Conn : serve[c] \in {"addWrite", "delWrite"} => snap[c] = activeModes

\* Clean-up is done by one thread at a time.
Critical == {"delRead", "delWrite", "delBlock", "closeSock"}

Mutex == \A c \in Conn : serve[c] \in Critical => shutDown = c

\* What has been announced for a connection stays so while it is served.
Announced == \A c \in Conn :
    /\ serve[c] \in {"connect", "serving"} => Wants[c] \in modeOn
    /\ serve[c] \in {"turnOn", "connect", "serving"} => Wants[c] \in activeModes
    /\ serve[c] = "serving" => FrameStream \/ block[slotOf[c]] = Wants[c]

\* Connection c named its slot m and has not come past the places in pcs.
Answers(c, m, pcs) == serve[c] \in pcs /\ Wants[c] = m /\ name[slotOf[c]] = m

OnPcs    == {"connect", "serving", "closing", "turnOff"}
ListPcs  == {"turnOn", "connect", "serving", "closing", "turnOff", "lock", "delRead", "delWrite"}
BlockPcs == {"serving"} \cup (Closing \ {"closeSock"})

\* Whatever is announced has a connection that will take it back.
OnBacked    == \A m \in modeOn : \E c \in Conn : Answers(c, m, OnPcs)
ListBacked  == \A m \in activeModes : \E c \in Conn : Answers(c, m, ListPcs)
BlockBacked == \A s \in Slot : block[s] # NoMode =>
                   ~ FrameStream /\ \E c \in Conn : slotOf[c] = s /\ Answers(c, block[s], BlockPcs)

Books == Fresh /\ Mutex /\ Announced /\ OnBacked /\ ListBacked /\ BlockBacked

\* The inductive invariant of the calm system.
CalmInv == Inv /\ Shape /\ Books

LEMMA InitCalm == Init => CalmInv
<1> SUFFICES ASSUME Init PROVE Shape /\ Books
  BY InitInv DEF CalmInv
<1>1. \A c \in Conn : serve[c] = "none" /\ rx[c] = "none" /\ ~ Live(c) /\ ~ Claims(c)
  BY DEF Init, Live, Claims, Stored, Closing
<1>2. Shape
  BY <1>1 DEF Shape, Untouched, Started, Apart, OwnSlot, Kept, Alone, Names, Distinct, Stored, Closing, Registering
<1>3. Books
  BY <1>1 DEF Init, Books, Fresh, Mutex, Critical, Announced, OnBacked, ListBacked, BlockBacked
<1> QED BY <1>2, <1>3

\* Where the thread of a connection may go, as far as slots are concerned.
\* The step may change the name in the connection's own slot, and give it up.
LEMMA ShapeStep ==
    ASSUME Inv, Inv', Shape, NEW c \in Conn, NEW pc \in ServePc, Goto(c, pc),
           UNCHANGED <<sockfd, peer, slotOf, rx>>,
           \A s \in Slot : s # slotOf[c] => name'[s] = name[s] /\ active'[s] = active[s],
           pc \in Registering \cup {"serving"} => active'[slotOf[c]] = active[slotOf[c]],
           serve[c] \notin {"none", "done", "leaked"}, pc \notin {"none", "leaked"},
           pc \in Registering => serve[c] \in Registering,
           pc = "serving" => serve[c] \in Registering,
           pc \in Closing => \/ serve[c] \in Closing
                            \/ \A d \in Conn : d # c => serve[d] \notin Registering,
           /\ pc \in {"reading", "checked"} => name'[slotOf[c]] = NoMode
           /\ pc \in Stored => name'[slotOf[c]] = Wants[c]
           /\ pc \in Closing => name'[slotOf[c]] \in {NoMode, Wants[c]},
           \A d \in Conn : d # c /\ Claims(c)' /\ Claims(d) => Wants[c] # Wants[d]
    PROVE  Shape'
<1>1. /\ serve'[c] = pc
      /\ \A d \in Conn : d # c => serve'[d] = serve[d]
  BY GotoType DEF Inv
<1>2. \A d \in Conn : slotOf[d] \in Slot
  BY DEF Inv, TypeOK
<1>3. \A d \in Conn : Live(d)' => Live(d)
  BY <1>1 DEF Live
<1>4. Live(c)
  BY DEF Live
<1>5. \A d \in Conn : d # c /\ Live(d) => name'[slotOf[d]] = name[slotOf[d]]
  BY <1>2, <1>4 DEF Shape, Apart
<1>6. \A d \in Conn : d # c => (Claims(d)' <=> Claims(d))
  <2> SUFFICES ASSUME NEW d \in Conn, d # c PROVE Claims(d)' <=> Claims(d)
    OBVIOUS
  <2>1. serve'[d] = serve[d]
    BY <1>1
  <2>2. serve[d] \in Closing => name'[slotOf[d]] = name[slotOf[d]]
    BY <1>5 DEF Live, Closing
  <2> QED BY <2>1, <2>2 DEF Claims
<1>7. Untouched' /\ Started'
  BY <1>1 DEF Shape, Untouched, Started
<1>8. Apart' /\ OwnSlot'
  BY <1>3 DEF Shape, Apart, OwnSlot
<1>9. Kept'
  <2> SUFFICES ASSUME NEW d \in Conn, serve'[d] \in Registering \cup {"serving"}, peer[d] = "open"
               PROVE  active'[slotOf[d]] /\ rx[d] = "running"
    BY DEF Kept
  <2>1. CASE d = c
    <3>1. serve[c] \in Registering \cup {"serving"} /\ active'[slotOf[c]] = active[slotOf[c]]
      BY <2>1, <1>1
    <3> QED BY <2>1, <3>1 DEF Shape, Kept
  <2>2. CASE d # c
    <3>1. serve[d] \in Registering \cup {"serving"} /\ Live(d)
      BY <2>2, <1>1 DEF Live, Registering
    <3>2. active'[slotOf[d]] = active[slotOf[d]]
      BY <2>2, <3>1, <1>2, <1>4 DEF Shape, Apart
    <3> QED BY <3>1, <3>2 DEF Shape, Kept
  <2> QED BY <2>1, <2>2
<1>10. Alone'
  <2> SUFFICES ASSUME NEW e \in Conn, NEW d \in Conn, e # d, serve'[e] \in Registering
               PROVE  /\ serve'[d] \notin Registering \cup Closing
                      /\ serve'[d] = "serving" => peer[d] = "open"
    BY DEF Alone
  <2>1. CASE e = c
    BY <2>1, <1>1 DEF Shape, Alone
  <2>2. CASE d = c
    <3>1. serve[e] \in Registering /\ serve[c] \notin Registering \cup Closing
      BY <2>2, <1>1 DEF Shape, Alone
    <3> QED BY <3>1, <2>2, <1>1 DEF Registering, Closing
  <2>3. CASE e # c /\ d # c
    BY <2>3, <1>1 DEF Shape, Alone
  <2> QED BY <2>1, <2>2, <2>3
<1>11. Names'
  <2> SUFFICES ASSUME NEW d \in Conn
               PROVE  /\ serve'[d] \in {"reading", "checked"} => name'[slotOf[d]] = NoMode
                      /\ serve'[d] \in Stored => name'[slotOf[d]] = Wants[d]
                      /\ serve'[d] \in Closing => name'[slotOf[d]] \in {NoMode, Wants[d]}
    BY DEF Names
  <2>1. CASE d = c
    BY <2>1, <1>1
  <2>2. CASE d # c
    BY <2>2, <1>1, <1>5 DEF Shape, Names, Live, Stored, Closing
  <2> QED BY <2>1, <2>2
<1>12. Distinct'
  <2> SUFFICES ASSUME NEW e \in Conn, NEW d \in Conn, e # d, Claims(e)', Claims(d)'
               PROVE  Wants[e] # Wants[d]
    BY DEF Distinct
  <2>1. CASE e = c
    BY <2>1, <1>6
  <2>2. CASE d = c
    BY <2>2, <1>6
  <2>3. CASE e # c /\ d # c
    BY <2>3, <1>6 DEF Shape, Distinct
  <2> QED BY <2>1, <2>2, <2>3
<1> QED BY <1>7, <1>8, <1>9, <1>10, <1>11, <1>12 DEF Shape

\* processClientSocket() keeps the slots in order.
LEMMA RegisterShape ==
    ASSUME Inv, Inv', Shape, NEW c \in Conn,
           \/ ReadMode(c) \/ StoreName(c) \/ AddModeRead(c) \/ AddModeWrite(c)
           \/ TurnOn(c) \/ Connect(c) \/ SeesClosed(c) \/ SeesInactive(c)
    PROVE  Shape'
<1>1. CASE ReadMode(c)
  <2> DEFINE pc == IF modeInUse(c, Wants[c]) THEN "closing" ELSE "checked"
  <2>1. Goto(c, pc) /\ UNCHANGED <<slots, peer, slotOf, rx, snap, outside, shutDown>>
        /\ serve[c] = "reading"
    BY <1>1 DEF ReadMode
  <2>2. pc \in {"checked", "closing"} /\ pc \in ServePc
    BY DEF ServePc
  <2>3. name[slotOf[c]] = NoMode /\ NoMode # Wants[c]
    BY <2>1, ConnectionAssumption DEF Shape, Names
  <2>4. \A d \in Conn : d # c => serve[d] \notin Registering \cup Closing
                                 /\ (serve[d] = "serving" => peer[d] = "open")
    BY <2>1 DEF Shape, Alone, Registering
  <2>5. ASSUME NEW d \in Conn, d # c, pc = "checked", Claims(d)
        PROVE  Wants[c] # Wants[d]
    <3>1. serve[d] = "serving" /\ peer[d] = "open"
      BY <2>4, <2>5 DEF Claims, Registering, Closing, Stored
    <3>2. active[slotOf[d]] /\ name[slotOf[d]] = Wants[d]
      BY <3>1 DEF Shape, Kept, Names, Stored
    <3>3. slotOf[d] \in Slot /\ slotOf[d] # slotOf[c]
      BY <3>1, <2>1, <2>5 DEF Shape, Apart, Live, Inv, TypeOK
    <3>4. ~ modeInUse(c, Wants[c])
      BY <2>5
    <3> QED BY <3>2, <3>3, <3>4 DEF modeInUse
  <2> HIDE DEF pc
  <2>6. serve'[c] = pc
    BY <2>1, <2>2, GotoType DEF Inv
  <2>7. Claims(c)' => pc = "checked"
    BY <2>1, <2>2, <2>3, <2>6 DEF Claims, Stored, slots
  <2> QED BY <2>1, <2>2, <2>3, <2>4, <2>5, <2>7, ShapeStep DEF slots, Registering, Closing, Stored
<1>2. CASE StoreName(c)
  <2>1. /\ Goto(c, "addRead") /\ serve[c] = "checked"
        /\ name' = [name EXCEPT ![slotOf[c]] = Wants[c]]
        /\ UNCHANGED <<active, sockfd, peer, slotOf, rx>>
    BY <1>2 DEF StoreName
  <2>2. name'[slotOf[c]] = Wants[c] /\ \A s \in Slot : s # slotOf[c] => name'[s] = name[s]
    BY <2>1 DEF Inv, TypeOK
  <2>3. Claims(c)
    BY <2>1 DEF Claims
  <2> QED BY <2>1, <2>2, <2>3, ShapeStep
          DEF Shape, Distinct, Registering, Closing, Stored, ServePc
<1>3. ASSUME NEW pc \in ServePc, Goto(c, pc), UNCHANGED <<slots, peer, slotOf, rx>>,
             serve[c] \in Stored, serve[c] \in Registering,
             pc \in Stored
      PROVE  Shape'
  <2>1. name[slotOf[c]] = Wants[c] /\ Claims(c)
    BY <1>3 DEF Shape, Names, Claims
  <2>2. serve[c] \notin {"none", "done", "leaked"} /\ pc \notin {"none", "leaked"}
        /\ pc \notin {"reading", "checked"} /\ pc \notin Closing
    BY <1>3 DEF Stored, Closing
  <2> QED BY <1>3, <2>1, <2>2, ShapeStep DEF Shape, Distinct, slots
<1>4. CASE AddModeRead(c)
  BY <1>3, <1>4 DEF AddModeRead, Stored, Registering, ServePc
<1>5. CASE AddModeWrite(c)
  BY <1>3, <1>5 DEF AddModeWrite, Stored, Registering, ServePc
<1>6. CASE TurnOn(c)
  BY <1>3, <1>6 DEF TurnOn, Stored, Registering, ServePc
<1>7. CASE Connect(c)
  BY <1>3, <1>7 DEF Connect, Stored, Registering, ServePc
<1>8. CASE SeesClosed(c)
  <2>1. /\ serve[c] \in {"reading", "serving"} /\ peer[c] = "gone" /\ Goto(c, "closing")
        /\ UNCHANGED <<slots, peer, slotOf, rx>>
    BY <1>8 DEF SeesClosed
  <2>2. \A d \in Conn : d # c => serve[d] \notin Registering
    BY <2>1 DEF Shape, Alone, Registering
  <2>3. name[slotOf[c]] \in {NoMode, Wants[c]}
    BY <2>1 DEF Shape, Names, Stored
  <2>4. serve'[c] = "closing"
    BY <2>1, GotoType DEF Inv, ServePc
  <2>5. Claims(c)' => Claims(c)
    BY <2>1, <2>4, ConnectionAssumption DEF Shape, Names, Claims, Stored, slots
  <2> QED BY <2>1, <2>2, <2>3, <2>5, ShapeStep
          DEF Shape, Distinct, Registering, Closing, Stored, ServePc, slots
<1>9. CASE SeesInactive(c)
  BY <1>9 DEF SeesInactive, Shape, Kept, Registering
<1> QED BY <1>1, <1>2, <1>4, <1>5, <1>6, <1>7, <1>8, <1>9

LEMMA CleanUpShape ==
    ASSUME Inv, Inv', Shape, NEW c \in Conn,
           \/ Deactivate(c) \/ TurnOff(c) \/ Lock(c) \/ DelModeRead(c) \/ DelModeWrite(c)
           \/ DelBlock(c) \/ CloseSock(c)
    PROVE  Shape'
<1>1. PICK pc \in (Closing \ {"closing"}) \cup {"done"} :
          Goto(c, pc) /\ UNCHANGED <<name, sockfd, peer, slotOf, rx>>
  BY DEF Deactivate, TurnOff, Lock, DelModeRead, DelModeWrite, DelBlock, CloseSock, Closing, slots
<1>2. serve[c] \in Closing
  BY DEF Deactivate, TurnOff, Lock, DelModeRead, DelModeWrite, DelBlock, CloseSock, Closing
<1>3. \A s \in Slot : s # slotOf[c] => active'[s] = active[s]
  BY DEF Deactivate, TurnOff, Lock, DelModeRead, DelModeWrite, DelBlock, CloseSock, slots, Inv, TypeOK
<1>4. pc \in ServePc /\ pc \notin Registering \cup Stored \cup {"reading", "checked", "none", "leaked"}
  BY <1>1 DEF ServePc, Closing, Registering, Stored
<1>5. serve'[c] = pc
  BY <1>1, <1>4, GotoType DEF Inv
<1>6. name[slotOf[c]] \in {NoMode, Wants[c]}
  BY <1>2 DEF Shape, Names
<1>7. Claims(c)' => Claims(c)
  BY <1>1, <1>2, <1>4, <1>5 DEF Claims
<1>8. pc # "serving" /\ serve[c] \notin {"none", "done", "leaked"}
  BY <1>2, <1>4 DEF Stored, Closing
<1> QED BY <1>1, <1>2, <1>3, <1>4, <1>6, <1>7, <1>8, ShapeStep DEF Shape, Distinct

\* modeRxThread() frees only a slot its own connection has finished with.
LEMMA RxShape ==
    ASSUME Inv, Inv', Shape, NEW c \in Conn, modeRxThread(c)
    PROVE  Shape'
<1>1. PICK r \in {"leaving", "done"} :
          /\ rx' = [rx EXCEPT ![c] = r]
          /\ UNCHANGED <<name, sockfd, peer, slotOf, serve>>
  BY DEF modeRxThread, RxStops, RxLeaves, slots
<1>2. /\ rx[c] \in {"running", "leaving"}
      /\ \A s \in Slot : s # slotOf[c] => active'[s] = active[s]
  BY DEF modeRxThread, RxStops, RxLeaves, slots, Inv, TypeOK
<1>3. ~ (serve[c] \in Registering \cup {"serving"} /\ peer[c] = "open")
  <2>1. CASE RxStops(c)
    BY <2>1 DEF RxStops, Shape, Kept, Registering
  <2>2. CASE RxLeaves(c)
    BY <2>2 DEF RxLeaves, Shape, Kept
  <2> QED BY <2>1, <2>2 DEF modeRxThread
<1>4. /\ rx'[c] = r
      /\ \A d \in Conn : d # c => rx'[d] = rx[d]
      /\ \A d \in Conn : slotOf[d] \in Slot
  BY <1>1 DEF Inv, TypeOK
<1>5. Live(c) /\ \A d \in Conn : (Live(d)' => Live(d)) /\ (Claims(d)' <=> Claims(d))
  BY <1>1, <1>2, <1>4 DEF Live, Claims
<1>6. Untouched' /\ Started'
  BY <1>1, <1>2, <1>4 DEF Shape, Untouched, Started
<1>7. Apart' /\ OwnSlot'
  BY <1>1, <1>5 DEF Shape, Apart, OwnSlot
<1>8. Kept'
  <2> SUFFICES ASSUME NEW d \in Conn, serve[d] \in Registering \cup {"serving"}, peer[d] = "open"
               PROVE  active'[slotOf[d]] /\ rx'[d] = "running"
    BY <1>1 DEF Kept
  <2>1. d # c /\ Live(d)
    BY <1>3 DEF Live, Registering
  <2>2. active'[slotOf[d]] = active[slotOf[d]]
    BY <2>1, <1>2, <1>4, <1>5 DEF Shape, Apart
  <2> QED BY <2>1, <2>2, <1>4 DEF Shape, Kept
<1>9. Alone' /\ Names'
  BY <1>1 DEF Shape, Alone, Names
<1>10. Distinct'
  BY <1>5 DEF Shape, Distinct
<1> QED BY <1>6, <1>7, <1>8, <1>9, <1>10 DEF Shape

\* A service goes, or comes and finds no slot.
LEMMA ServiceShape ==
    ASSUME Calm, Inv, Inv', Shape, NEW c \in Conn, AcceptFull(c) \/ PeerCloses(c)
    PROVE  Shape'
<1>1. CASE AcceptFull(c)
  <2>1. /\ peer' = [peer EXCEPT ![c] = "open"] /\ peer[c] = "new" /\ Goto(c, "leaked")
        /\ UNCHANGED <<active, name, sockfd, slotOf, rx>>
    BY <1>1 DEF AcceptFull, slots
  <2>2. /\ serve'[c] = "leaked" /\ serve[c] = "none" /\ rx[c] = "none"
        /\ \A d \in Conn : d # c => serve'[d] = serve[d] /\ peer'[d] = peer[d]
    BY <2>1, GotoType DEF Inv, TypeOK, Shape, Untouched, ServePc
  <2>3. \A d \in Conn : (Live(d)' => Live(d)) /\ (Claims(d)' => Claims(d))
    BY <2>1, <2>2 DEF Live, Claims, Stored, Closing
  <2>4. Untouched' /\ Started'
    BY <2>1, <2>2 DEF Shape, Untouched, Started, Inv, TypeOK
  <2>5. Apart' /\ OwnSlot' /\ Distinct'
    BY <2>1, <2>3 DEF Shape, Apart, OwnSlot, Distinct
  <2>6. Kept' /\ Alone' /\ Names'
    BY <2>1, <2>2 DEF Shape, Kept, Alone, Names, Registering, Closing, Stored
  <2> QED BY <2>4, <2>5, <2>6 DEF Shape
<1>2. CASE PeerCloses(c)
  <2>1. /\ peer' = [peer EXCEPT ![c] = "gone"]
        /\ UNCHANGED <<active, name, sockfd, slotOf, serve, rx>>
        /\ \A d \in Conn : d # c => serve[d] \notin Registering
    BY <1>2 DEF PeerCloses, slots, threads, Calm
  <2>2. peer'[c] = "gone" /\ \A d \in Conn : d # c => peer'[d] = peer[d]
    BY <2>1 DEF Inv, TypeOK
  <2>3. Untouched' /\ Started' /\ Kept' /\ Alone'
    BY <2>1, <2>2 DEF Shape, Untouched, Started, Kept, Alone
  <2>4. Apart' /\ OwnSlot' /\ Names' /\ Distinct'
    BY <2>1 DEF Shape, Apart, OwnSlot, Names, Distinct, Live, Claims
  <2> QED BY <2>3, <2>4 DEF Shape
<1> QED BY <1>1, <1>2

\* A connection accepted while all others are served or gone gets a slot that
\* no thread uses any more.
LEMMA AcceptShape ==
    ASSUME Calm, Inv, Inv', Shape, NEW c \in Conn, Accept(c)
    PROVE  Shape'
<1>1. PICK s \in Slot : /\ ~ active[s]
                        /\ name' = [name EXCEPT ![s] = NoMode]
                        /\ sockfd' = [sockfd EXCEPT ![s] = c]
                        /\ active' = [active EXCEPT ![s] = TRUE]
                        /\ slotOf' = [slotOf EXCEPT ![c] = s]
  BY DEF Accept, Claim, FirstFree
<1>2. /\ Settled /\ peer[c] = "new"
      /\ peer' = [peer EXCEPT ![c] = "open"]
      /\ serve' = [serve EXCEPT ![c] = "reading"]
      /\ rx' = [rx EXCEPT ![c] = "running"]
  BY DEF Accept, Claim, Calm
<1>3. /\ name'[s] = NoMode /\ sockfd'[s] = c /\ active'[s] /\ slotOf'[c] = s
      /\ peer'[c] = "open" /\ serve'[c] = "reading" /\ rx'[c] = "running"
      /\ \A t \in Slot : t # s => /\ name'[t] = name[t] /\ sockfd'[t] = sockfd[t]
                                  /\ active'[t] = active[t]
      /\ \A d \in Conn : d # c => /\ slotOf'[d] = slotOf[d] /\ peer'[d] = peer[d]
                                  /\ serve'[d] = serve[d] /\ rx'[d] = rx[d]
  BY <1>1, <1>2 DEF Inv, TypeOK
<1>4. \A d \in Conn : slotOf[d] \in Slot
  BY DEF Inv, TypeOK
<1>5. \A d \in Conn : d # c => serve[d] \notin Registering \cup Closing
  BY <1>2 DEF Settled
<1>6. ASSUME NEW d \in Conn, Live(d)
      PROVE  d # c /\ serve[d] = "serving" /\ peer[d] = "open" /\ slotOf[d] # s
  <2>1. serve[d] \in ServePc /\ peer[d] \in {"new", "open", "gone"}
    BY DEF Inv, TypeOK
  <2>2. serve[d] = "serving"
    BY <1>2, <1>6, <2>1 DEF Settled, Live, Shape, Untouched, ServePc, Registering, Closing
  <2>3. peer[d] = "open"
    BY <1>2, <2>1, <2>2 DEF Settled, Shape, Untouched
  <2>4. active[slotOf[d]]
    BY <2>2, <2>3 DEF Shape, Kept
  <2> QED BY <1>1, <1>2, <2>2, <2>3, <2>4
<1>7. \A d \in Conn : d # c => (Live(d)' <=> Live(d))
  BY <1>3 DEF Live
<1>8. \A d \in Conn : d # c /\ Live(d) => /\ name'[slotOf[d]] = name[slotOf[d]]
                                         /\ sockfd'[slotOf[d]] = sockfd[slotOf[d]]
                                         /\ active'[slotOf[d]] = active[slotOf[d]]
  BY <1>3, <1>4, <1>6
<1>9. ~ Claims(c)' /\ \A d \in Conn : d # c => (Claims(d)' => Claims(d))
  <2>1. ~ Claims(c)'
    BY <1>3 DEF Claims, Stored, Closing
  <2>2. ASSUME NEW d \in Conn, d # c, Claims(d)' PROVE Claims(d)
    BY <2>2, <1>3, <1>5 DEF Claims
  <2> QED BY <2>1, <2>2
<1>10. Untouched' /\ Started'
  BY <1>3 DEF Shape, Untouched, Started
<1>11. Apart'
  <2> SUFFICES ASSUME NEW e \in Conn, NEW d \in Conn, e # d, Live(e)', Live(d)'
               PROVE  slotOf'[e] # slotOf'[d]
    BY DEF Apart
  <2>1. CASE e = c
    BY <2>1, <1>3, <1>6, <1>7
  <2>2. CASE d = c
    BY <2>2, <1>3, <1>6, <1>7
  <2>3. CASE e # c /\ d # c
    BY <2>3, <1>3, <1>7 DEF Shape, Apart
  <2> QED BY <2>1, <2>2, <2>3
<1>12. OwnSlot'
  BY <1>3, <1>7, <1>8 DEF Shape, OwnSlot
<1>13. Kept'
  <2> SUFFICES ASSUME NEW d \in Conn, serve'[d] \in Registering \cup {"serving"}, peer'[d] = "open"
               PROVE  active'[slotOf'[d]] /\ rx'[d] = "running"
    BY DEF Kept
  <2>1. CASE d = c
    BY <2>1, <1>3
  <2>2. CASE d # c
    <3>1. serve[d] \in Registering \cup {"serving"} /\ peer[d] = "open" /\ Live(d)
      BY <2>2, <1>3 DEF Live, Registering
    <3> QED BY <2>2, <3>1, <1>3, <1>8 DEF Shape, Kept
  <2> QED BY <2>1, <2>2
<1>14. Alone'
  <2> SUFFICES ASSUME NEW e \in Conn, NEW d \in Conn, e # d, serve'[e] \in Registering
               PROVE  /\ serve'[d] \notin Registering \cup Closing
                      /\ serve'[d] = "serving" => peer'[d] = "open"
    BY DEF Alone
  <2>1. e = c /\ d # c
    BY <1>3, <1>5
  <2>2. serve[d] = "serving" => Live(d)
    BY DEF Live
  <2> QED BY <2>1, <2>2, <1>3, <1>5, <1>6
<1>15. Names'
  <2> SUFFICES ASSUME NEW d \in Conn
               PROVE  /\ serve'[d] \in {"reading", "checked"} => name'[slotOf'[d]] = NoMode
                      /\ serve'[d] \in Stored => name'[slotOf'[d]] = Wants[d]
                      /\ serve'[d] \in Closing => name'[slotOf'[d]] \in {NoMode, Wants[d]}
    BY DEF Names
  <2>1. CASE d = c
    BY <2>1, <1>3 DEF Stored, Closing
  <2>2. CASE d # c
    <3>1. serve[d] \in {"reading", "checked"} \cup Stored \cup Closing => Live(d)
      BY DEF Live, Stored, Closing
    <3> QED BY <2>2, <3>1, <1>3, <1>8 DEF Shape, Names
  <2> QED BY <2>1, <2>2
<1>16. Distinct'
  BY <1>9 DEF Shape, Distinct
<1> QED BY <1>10, <1>11, <1>12, <1>13, <1>14, <1>15, <1>16 DEF Shape

LEMMA NextShape == Calm /\ Inv /\ Shape /\ [Next]_vars => Shape'
<1> SUFFICES ASSUME Calm, Inv, Shape, [Next]_vars PROVE Shape'
  OBVIOUS
<1>0. Inv'
  BY NextInv
<1>1. ASSUME NEW c \in Conn, TCPServer(c) PROVE Shape'
  <2>1. CASE Accept(c)
    BY <2>1, <1>0, AcceptShape
  <2>2. CASE AcceptNoThread(c) \/ AcceptNoRxThread(c)
    BY <2>2 DEF AcceptNoThread, AcceptNoRxThread, Calm
  <2>3. CASE AcceptFull(c)
    BY <2>3, <1>0, ServiceShape
  <2>4. CASE RxNotStarted(c)
    BY <2>4 DEF RxNotStarted, Shape, Started
  <2> QED BY <1>1, <2>1, <2>2, <2>3, <2>4 DEF TCPServer
<1>2. ASSUME NEW c \in Conn, PeerCloses(c) PROVE Shape'
  BY <1>2, <1>0, ServiceShape
<1>3. ASSUME NEW c \in Conn, processClientSocket(c) \/ SeesInactive(c) PROVE Shape'
  BY <1>3, <1>0, RegisterShape, CleanUpShape DEF processClientSocket
<1>4. ASSUME NEW c \in Conn, modeRxThread(c) PROVE Shape'
  BY <1>4, <1>0, RxShape
<1>5. CASE UNCHANGED vars
  BY <1>5 DEF vars, slots, threads, Shape, Untouched, Started, Apart, OwnSlot, Kept, Alone, Names,
              Distinct, Live, Claims
<1>6. CASE Finished
  BY <1>5, <1>6 DEF Finished
<1> QED BY <1>1, <1>2, <1>3, <1>4, <1>5, <1>6 DEF Next

\* A step of one connection's thread leaves alone what the others stand for.
LEMMA OthersStay ==
    ASSUME Inv, Shape, NEW c \in Conn, NEW pc \in ServePc, Goto(c, pc), UNCHANGED slotOf,
           \A s \in Slot : s # slotOf[c] => name'[s] = name[s],
           serve[c] \notin {"none", "done", "leaked"}
    PROVE  /\ serve'[c] = pc
           /\ \A d \in Conn : d # c => serve'[d] = serve[d]
           /\ \A d \in Conn : d # c /\ Live(d) => slotOf[d] # slotOf[c]
           /\ \A d \in Conn, m \in Mode : d # c =>
                  /\ Answers(d, m, OnPcs) => Answers(d, m, OnPcs)'
                  /\ Answers(d, m, ListPcs) => Answers(d, m, ListPcs)'
                  /\ Answers(d, m, BlockPcs) => Answers(d, m, BlockPcs)'
<1>1. /\ serve'[c] = pc
      /\ \A d \in Conn : d # c => serve'[d] = serve[d]
      /\ \A d \in Conn : slotOf[d] \in Slot
  BY GotoType DEF Inv, TypeOK
<1>2. \A d \in Conn : d # c /\ Live(d) => slotOf[d] # slotOf[c]
  BY DEF Shape, Apart, Live
<1>3. \A d \in Conn : d # c /\ Live(d) => name'[slotOf[d]] = name[slotOf[d]]
  BY <1>1, <1>2
<1>4. \A d \in Conn : serve[d] \in OnPcs \cup ListPcs \cup BlockPcs => Live(d)
  BY DEF Live, OnPcs, ListPcs, BlockPcs, Closing
<1>5. ASSUME NEW d \in Conn, NEW m \in Mode, d # c
      PROVE  /\ Answers(d, m, OnPcs) => Answers(d, m, OnPcs)'
             /\ Answers(d, m, ListPcs) => Answers(d, m, ListPcs)'
             /\ Answers(d, m, BlockPcs) => Answers(d, m, BlockPcs)'
  BY <1>1, <1>3, <1>4, <1>5 DEF Answers, OnPcs, ListPcs, BlockPcs
<1> QED BY <1>1, <1>2, <1>5

\* Steps that change nothing outside the table and the threads.
LEMMA QuietBooks ==
    ASSUME Inv, Shape, Books, NEW c \in Conn, NEW pc \in ServePc, Goto(c, pc),
           UNCHANGED <<slotOf, modeOn, block, activeModes>>,
           \A s \in Slot : s # slotOf[c] => name'[s] = name[s],
           serve[c] \notin {"none", "done", "leaked"},
           \A d \in Conn : d # c => snap'[d] = snap[d],
           pc \in {"addWrite", "delWrite"} => snap'[c] = activeModes,
           \A d \in Conn : d # c /\ serve[d] \in Critical => shutDown' = d,
           pc \in Critical => shutDown' = c,
           pc \notin {"turnOn", "connect", "serving"},
           serve[c] \in OnPcs => pc \in OnPcs,
           serve[c] \in OnPcs \cup ListPcs \cup BlockPcs => name'[slotOf[c]] = name[slotOf[c]],
           serve[c] \in ListPcs /\ activeModes # {} /\ name[slotOf[c]] # NoMode => pc \in ListPcs,
           serve[c] \in BlockPcs => pc \in BlockPcs
    PROVE  Books'
<1>1. /\ serve'[c] = pc
      /\ \A d \in Conn : d # c => serve'[d] = serve[d]
      /\ \A d \in Conn, m \in Mode : d # c =>
             /\ Answers(d, m, OnPcs) => Answers(d, m, OnPcs)'
             /\ Answers(d, m, ListPcs) => Answers(d, m, ListPcs)'
             /\ Answers(d, m, BlockPcs) => Answers(d, m, BlockPcs)'
  BY OthersStay
<1>2. ASSUME NEW m \in Mode
      PROVE  /\ Answers(c, m, OnPcs) => Answers(c, m, OnPcs)'
             /\ m \in activeModes /\ Answers(c, m, ListPcs) => Answers(c, m, ListPcs)'
             /\ Answers(c, m, BlockPcs) => Answers(c, m, BlockPcs)'
  BY <1>1, ConnectionAssumption DEF Answers
<1>3. modeOn \subseteq Mode /\ activeModes \subseteq Mode /\ \A s \in Slot : block[s] \in Mode \cup {NoMode}
  BY DEF Inv, TypeOK
<1>4. Fresh' /\ Mutex' /\ Announced'
  BY <1>1 DEF Books, Fresh, Mutex, Announced
<1>5. OnBacked' /\ ListBacked'
  BY <1>1, <1>2, <1>3 DEF Books, OnBacked, ListBacked
<1>6. BlockBacked'
  BY <1>1, <1>2, <1>3 DEF Books, BlockBacked
<1> QED BY <1>4, <1>5, <1>6 DEF Books

LEMMA RegisterBooks ==
    ASSUME Inv, Inv', Shape, Books, NEW c \in Conn,
           \/ ReadMode(c) \/ StoreName(c) \/ AddModeRead(c) \/ SeesClosed(c) \/ SeesInactive(c)
           \/ AddModeWrite(c) \/ TurnOn(c) \/ Connect(c)
    PROVE  Books'
<1>1. CASE ReadMode(c)
  <2>1. PICK pc \in {"closing", "checked"} : Goto(c, pc)
    BY <1>1 DEF ReadMode
  <2>2. /\ serve[c] = "reading" /\ pc \in ServePc
        /\ UNCHANGED <<name, slotOf, snap, modeOn, block, activeModes, shutDown>>
    BY <1>1, <2>1 DEF ReadMode, ServePc, slots, outside
  <2> QED BY <2>1, <2>2, QuietBooks
          DEF Books, Mutex, Critical, OnPcs, ListPcs, BlockPcs, Closing
<1>2. CASE StoreName(c)
  <2>1. /\ serve[c] = "checked" /\ Goto(c, "addRead")
        /\ UNCHANGED <<slotOf, snap, modeOn, block, activeModes, shutDown>>
        /\ \A s \in Slot : s # slotOf[c] => name'[s] = name[s]
    BY <1>2 DEF StoreName, outside, Inv, TypeOK
  <2> QED BY <2>1, QuietBooks
          DEF Books, Mutex, Critical, OnPcs, ListPcs, BlockPcs, Closing, ServePc
<1>3. CASE AddModeRead(c)
  <2>1. /\ serve[c] = "addRead" /\ Goto(c, "addWrite")
        /\ UNCHANGED <<name, slotOf, modeOn, block, activeModes, shutDown>>
        /\ snap'[c] = activeModes /\ \A d \in Conn : d # c => snap'[d] = snap[d]
    BY <1>3 DEF AddModeRead, slots, outside, Inv, TypeOK
  <2> QED BY <2>1, QuietBooks
          DEF Books, Mutex, Critical, OnPcs, ListPcs, BlockPcs, Closing, ServePc
<1>4. CASE SeesClosed(c) \/ SeesInactive(c)
  <2>1. /\ serve[c] \in {"reading", "serving"} /\ Goto(c, "closing")
        /\ UNCHANGED <<name, slotOf, snap, modeOn, block, activeModes, shutDown>>
    BY <1>4 DEF SeesClosed, SeesInactive, slots, outside
  <2> QED BY <2>1, QuietBooks
          DEF Books, Mutex, Critical, OnPcs, ListPcs, BlockPcs, Closing, ServePc
<1>5. ASSUME NEW pc \in ServePc, Goto(c, pc), UNCHANGED <<name, slotOf, snap, shutDown>>,
             serve[c] \in Registering
      PROVE  /\ serve'[c] = pc
             /\ \A d \in Conn : d # c => /\ serve'[d] = serve[d]
                                         /\ serve[d] \notin Registering \cup Closing
                                         /\ Live(d) => slotOf[d] # slotOf[c]
             /\ \A d \in Conn, m \in Mode : d # c =>
                    /\ Answers(d, m, OnPcs) => Answers(d, m, OnPcs)'
                    /\ Answers(d, m, ListPcs) => Answers(d, m, ListPcs)'
                    /\ Answers(d, m, BlockPcs) => Answers(d, m, BlockPcs)'
  <2>1. serve[c] \notin {"none", "done", "leaked"}
    BY <1>5 DEF Registering
  <2>2. \A d \in Conn : d # c => serve[d] \notin Registering \cup Closing
    BY <1>5 DEF Shape, Alone
  <2> QED BY <1>5, <2>1, <2>2, OthersStay
<1>6. /\ modeOn \subseteq Mode /\ activeModes \subseteq Mode /\ Wants[c] \in Mode /\ NoMode \notin Mode
      /\ \A s \in Slot : block[s] \in Mode \cup {NoMode}
      /\ slotOf[c] \in Slot
  BY ConnectionAssumption DEF Inv, TypeOK
<1>7. CASE AddModeWrite(c)
  <2>1. /\ serve[c] = "addWrite" /\ Goto(c, "turnOn")
        /\ UNCHANGED <<name, slotOf, snap, modeOn, block, shutDown>>
    BY <1>7 DEF AddModeWrite, slots
  <2>2. snap[c] = activeModes /\ name[slotOf[c]] = Wants[c]
    BY <2>1 DEF Books, Fresh, Shape, Names, Stored
  <2>3. activeModes' = activeModes \cup {Wants[c]}
    BY <1>6, <1>7, <2>2 DEF AddModeWrite, Named
  <2>4. /\ serve'[c] = "turnOn"
        /\ \A d \in Conn : d # c => /\ serve'[d] = serve[d]
                                    /\ serve[d] \notin Registering \cup Closing
        /\ \A d \in Conn, m \in Mode : d # c =>
               /\ Answers(d, m, OnPcs) => Answers(d, m, OnPcs)'
               /\ Answers(d, m, ListPcs) => Answers(d, m, ListPcs)'
               /\ Answers(d, m, BlockPcs) => Answers(d, m, BlockPcs)'
    BY <2>1, <1>5 DEF ServePc, Registering
  <2>5. \A m \in Mode : ~ Answers(c, m, OnPcs) /\ ~ Answers(c, m, ListPcs) /\ ~ Answers(c, m, BlockPcs)
    BY <2>1 DEF Answers, OnPcs, ListPcs, BlockPcs, Closing
  <2>6. Answers(c, Wants[c], ListPcs)'
    BY <2>1, <2>2, <2>4 DEF Answers, ListPcs
  <2>7. Fresh' /\ Mutex'
    BY <2>1, <2>4 DEF Books, Fresh, Mutex, Critical, Registering, Closing
  <2>8. Announced'
    BY <2>1, <2>3, <2>4 DEF Books, Announced
  <2>9. OnBacked'
    BY <2>1, <2>4, <2>5, <1>6 DEF Books, OnBacked
  <2>10. ListBacked'
    BY <2>3, <2>4, <2>5, <2>6, <1>6 DEF Books, ListBacked
  <2>11. BlockBacked'
    BY <2>1, <2>4, <2>5, <1>6 DEF Books, BlockBacked
  <2> QED BY <2>7, <2>8, <2>9, <2>10, <2>11 DEF Books
<1>8. CASE TurnOn(c)
  <2>1. /\ serve[c] = "turnOn" /\ Goto(c, "connect")
        /\ UNCHANGED <<name, slotOf, snap, block, activeModes, shutDown>>
    BY <1>8 DEF TurnOn, slots
  <2>2. name[slotOf[c]] = Wants[c]
    BY <2>1 DEF Shape, Names, Stored
  <2>3. modeOn' = modeOn \cup {Wants[c]}
    BY <1>6, <1>8, <2>2 DEF TurnOn, Named
  <2>4. /\ serve'[c] = "connect"
        /\ \A d \in Conn : d # c => /\ serve'[d] = serve[d]
                                    /\ serve[d] \notin Registering \cup Closing
        /\ \A d \in Conn, m \in Mode : d # c =>
               /\ Answers(d, m, OnPcs) => Answers(d, m, OnPcs)'
               /\ Answers(d, m, ListPcs) => Answers(d, m, ListPcs)'
               /\ Answers(d, m, BlockPcs) => Answers(d, m, BlockPcs)'
    BY <2>1, <1>5 DEF ServePc, Registering
  <2>5. \A m \in Mode : ~ Answers(c, m, OnPcs) /\ ~ Answers(c, m, BlockPcs)
    BY <2>1 DEF Answers, OnPcs, BlockPcs, Closing
  <2>6. /\ Answers(c, Wants[c], OnPcs)'
        /\ \A m \in Mode : Answers(c, m, ListPcs) => Answers(c, m, ListPcs)'
    BY <2>1, <2>2, <2>4 DEF Answers, ListPcs, OnPcs
  <2>7. Fresh' /\ Mutex'
    BY <2>1, <2>4 DEF Books, Fresh, Mutex, Critical, Registering, Closing
  <2>8. Announced'
    BY <2>1, <2>3, <2>4 DEF Books, Announced
  <2>9. OnBacked'
    BY <2>3, <2>4, <2>5, <2>6, <1>6 DEF Books, OnBacked
  <2>10. ListBacked'
    BY <2>1, <2>4, <2>6, <1>6 DEF Books, ListBacked
  <2>11. BlockBacked'
    BY <2>1, <2>4, <2>5, <1>6 DEF Books, BlockBacked
  <2> QED BY <2>7, <2>8, <2>9, <2>10, <2>11 DEF Books
<1>9. CASE Connect(c)
  <2>1. /\ serve[c] = "connect" /\ Goto(c, "serving")
        /\ UNCHANGED <<name, slotOf, snap, modeOn, activeModes, shutDown>>
    BY <1>9 DEF Connect, slots
  <2>2. name[slotOf[c]] = Wants[c]
    BY <2>1 DEF Shape, Names, Stored
  <2>3. /\ FrameStream => block' = block
        /\ ~ FrameStream => block'[slotOf[c]] = Wants[c]
        /\ \A s \in Slot : s # slotOf[c] => block'[s] = block[s]
    BY <1>6, <1>9 DEF Connect, Inv, TypeOK
  <2>4. /\ serve'[c] = "serving"
        /\ \A d \in Conn : d # c => /\ serve'[d] = serve[d]
                                    /\ serve[d] \notin Registering \cup Closing
                                    /\ Live(d) => slotOf[d] # slotOf[c]
        /\ \A d \in Conn, m \in Mode : d # c =>
               /\ Answers(d, m, OnPcs) => Answers(d, m, OnPcs)'
               /\ Answers(d, m, ListPcs) => Answers(d, m, ListPcs)'
               /\ Answers(d, m, BlockPcs) => Answers(d, m, BlockPcs)'
    BY <2>1, <1>5 DEF ServePc, Registering
  <2>5. \A m \in Mode : ~ Answers(c, m, BlockPcs)
    BY <2>1 DEF Answers, BlockPcs, Closing
  <2>6. /\ Answers(c, Wants[c], BlockPcs)'
        /\ \A m \in Mode : Answers(c, m, OnPcs) => Answers(c, m, OnPcs)'
        /\ \A m \in Mode : Answers(c, m, ListPcs) => Answers(c, m, ListPcs)'
    BY <2>1, <2>2, <2>4 DEF Answers, ListPcs, OnPcs, BlockPcs
  <2>7. Fresh' /\ Mutex'
    BY <2>1, <2>4 DEF Books, Fresh, Mutex, Critical, Registering, Closing
  <2>8. Announced'
    <3> SUFFICES ASSUME NEW d \in Conn
                 PROVE  /\ serve'[d] \in {"connect", "serving"} => Wants[d] \in modeOn
                        /\ serve'[d] \in {"turnOn", "connect", "serving"} => Wants[d] \in activeModes
                        /\ serve'[d] = "serving" => FrameStream \/ block'[slotOf[d]] = Wants[d]
      BY <2>1 DEF Announced
    <3>1. CASE d = c
      BY <3>1, <2>1, <2>3, <2>4 DEF Books, Announced
    <3>2. CASE d # c
      <4>1. serve'[d] = serve[d] /\ slotOf[d] \in Slot
        BY <3>2, <2>4 DEF Inv, TypeOK
      <4>2. serve[d] = "serving" => block'[slotOf[d]] = block[slotOf[d]]
        BY <3>2, <4>1, <2>3, <2>4 DEF Live
      <4> QED BY <4>1, <4>2 DEF Books, Announced
    <3> QED BY <3>1, <3>2
  <2>9. OnBacked' /\ ListBacked'
    BY <2>1, <2>4, <2>6, <1>6 DEF Books, OnBacked, ListBacked
  <2>10. BlockBacked'
    <3> SUFFICES ASSUME NEW s \in Slot, NEW b, b = block'[s], b # NoMode
                 PROVE  ~ FrameStream /\ \E d \in Conn : slotOf[d] = s /\ Answers(d, b, BlockPcs)'
      BY <2>1 DEF BlockBacked, Answers
    <3>1. CASE b = block[s]
      BY <3>1, <2>4, <2>5, <1>6 DEF Books, BlockBacked
    <3>2. CASE b # block[s]
      <4>1. s = slotOf[c] /\ b = Wants[c] /\ ~ FrameStream
        BY <3>2, <2>3
      <4> QED BY <4>1, <2>6
    <3> QED BY <3>1, <3>2
  <2> QED BY <2>7, <2>8, <2>9, <2>10 DEF Books
<1> QED BY <1>1, <1>2, <1>3, <1>4, <1>7, <1>8, <1>9

LEMMA CleanUpBooks ==
    ASSUME Inv, Inv', Shape, Books, NEW c \in Conn,
           \/ Deactivate(c) \/ Lock(c) \/ DelModeRead(c) \/ CloseSock(c)
           \/ TurnOff(c) \/ DelModeWrite(c) \/ DelBlock(c)
    PROVE  Books'
<1>1. CASE Deactivate(c)
  <2>1. /\ serve[c] = "closing" /\ Goto(c, "turnOff")
        /\ UNCHANGED <<name, slotOf, snap, modeOn, block, activeModes, shutDown>>
    BY <1>1 DEF Deactivate, outside
  <2> QED BY <2>1, QuietBooks
          DEF Books, Mutex, Critical, OnPcs, ListPcs, BlockPcs, Closing, ServePc
<1>2. CASE Lock(c)
  <2>1. PICK pc \in {"delBlock", "delRead"} :
            Goto(c, pc) /\ (name[slotOf[c]] # NoMode => pc = "delRead")
    BY <1>2 DEF Lock
  <2>2. /\ serve[c] = "lock" /\ shutDown = NoConn /\ shutDown' = c /\ pc \in ServePc
        /\ UNCHANGED <<name, slotOf, snap, modeOn, block, activeModes>>
    BY <1>2, <2>1 DEF Lock, ServePc, slots, outside
  <2>3. \A d \in Conn : serve[d] \notin Critical
    BY <2>2, ConnectionAssumption DEF Books, Mutex
  <2> QED BY <2>1, <2>2, <2>3, QuietBooks DEF OnPcs, ListPcs, BlockPcs, Closing
<1>3. CASE DelModeRead(c)
  <2>1. PICK pc \in {"delBlock", "delWrite"} : Goto(c, pc) /\ (activeModes # {} => pc = "delWrite")
    BY <1>3 DEF DelModeRead
  <2>2. /\ serve[c] = "delRead" /\ pc \in ServePc
        /\ UNCHANGED <<name, slotOf, modeOn, block, activeModes, shutDown>>
        /\ snap'[c] = activeModes /\ \A d \in Conn : d # c => snap'[d] = snap[d]
    BY <1>3, <2>1 DEF DelModeRead, ServePc, slots, outside, Inv, TypeOK
  <2>3. shutDown = c /\ \A d \in Conn : serve[d] \in Critical => shutDown = d
    BY <2>2 DEF Books, Mutex, Critical
  <2> QED BY <2>1, <2>2, <2>3, QuietBooks DEF OnPcs, ListPcs, BlockPcs, Closing
<1>4. \A d \in Conn : serve[c] \in Critical /\ d # c => serve[d] \notin Critical
  BY DEF Books, Mutex
<1>5. CASE CloseSock(c)
  <2>1. /\ serve[c] = "closeSock" /\ Goto(c, "done")
        /\ UNCHANGED <<name, slotOf, snap, modeOn, block, activeModes>>
    BY <1>5 DEF CloseSock, slots, outside
  <2>2. \A d \in Conn : d # c => serve[d] \notin Critical
    BY <2>1, <1>4 DEF Critical
  <2> QED BY <2>1, <2>2, QuietBooks DEF Critical, OnPcs, ListPcs, BlockPcs, Closing, ServePc
<1>6. /\ modeOn \subseteq Mode /\ activeModes \subseteq Mode /\ Wants[c] \in Mode /\ NoMode \notin Mode
      /\ \A s \in Slot : block[s] \in Mode \cup {NoMode}
      /\ \A d \in Conn : slotOf[d] \in Slot
  BY ConnectionAssumption DEF Inv, TypeOK
<1>7. ASSUME NEW pc \in ServePc, Goto(c, pc), UNCHANGED <<name, slotOf, snap, shutDown>>,
             serve[c] \in Closing
      PROVE  /\ serve'[c] = pc
             /\ \A d \in Conn : d # c => /\ serve'[d] = serve[d]
                                         /\ serve[d] \notin Registering
                                         /\ Live(d) => slotOf[d] # slotOf[c]
             /\ \A d \in Conn, m \in Mode : d # c =>
                    /\ Answers(d, m, OnPcs) => Answers(d, m, OnPcs)'
                    /\ Answers(d, m, ListPcs) => Answers(d, m, ListPcs)'
                    /\ Answers(d, m, BlockPcs) => Answers(d, m, BlockPcs)'
             /\ \A d \in Conn : d # c /\ Claims(d) => Wants[d] # name[slotOf[c]]
  <2>1. serve[c] \notin {"none", "done", "leaked"}
    BY <1>7 DEF Closing
  <2>2. \A d \in Conn : d # c => serve[d] \notin Registering
    BY <1>7 DEF Shape, Alone
  <2>3. name[slotOf[c]] = NoMode \/ (name[slotOf[c]] = Wants[c] /\ Claims(c))
    BY <1>7 DEF Shape, Names, Claims
  <2>4. \A d \in Conn : d # c /\ Claims(d) => Wants[d] # name[slotOf[c]]
    BY <2>3, ConnectionAssumption DEF Shape, Distinct
  <2> QED BY <1>7, <2>1, <2>2, <2>4, OthersStay
<1>8. CASE TurnOff(c)
  <2>1. /\ serve[c] = "turnOff" /\ Goto(c, "lock") /\ modeOn' = modeOn \ {name[slotOf[c]]}
        /\ UNCHANGED <<name, slotOf, snap, block, activeModes, shutDown>>
    BY <1>8 DEF TurnOff, slots
  <2>2. /\ serve'[c] = "lock"
        /\ \A d \in Conn : d # c => serve'[d] = serve[d]
        /\ \A d \in Conn, m \in Mode : d # c =>
               /\ Answers(d, m, OnPcs) => Answers(d, m, OnPcs)'
               /\ Answers(d, m, ListPcs) => Answers(d, m, ListPcs)'
               /\ Answers(d, m, BlockPcs) => Answers(d, m, BlockPcs)'
        /\ \A d \in Conn : d # c /\ Claims(d) => Wants[d] # name[slotOf[c]]
    BY <2>1, <1>7 DEF ServePc, Closing
  <2>3. \A m \in Mode : /\ m \in modeOn' => ~ Answers(c, m, OnPcs)
                        /\ Answers(c, m, ListPcs) => Answers(c, m, ListPcs)'
                        /\ Answers(c, m, BlockPcs) => Answers(c, m, BlockPcs)'
    BY <2>1, <2>2 DEF Answers, ListPcs, BlockPcs, Closing
  <2>4. Fresh' /\ Mutex'
    BY <2>1, <2>2 DEF Books, Fresh, Mutex, Critical
  <2>5. Announced'
    <3>1. \A d \in Conn : serve[d] \in {"connect", "serving"} => Claims(d)
      BY DEF Claims, Stored
    <3> QED BY <2>1, <2>2, <3>1 DEF Books, Announced
  <2>6. OnBacked'
    BY <2>1, <2>2, <2>3, <1>6 DEF Books, OnBacked
  <2>7. ListBacked'
    BY <2>1, <2>2, <2>3, <1>6 DEF Books, ListBacked
  <2>8. BlockBacked'
    BY <2>1, <2>2, <2>3, <1>6 DEF Books, BlockBacked
  <2> QED BY <2>4, <2>5, <2>6, <2>7, <2>8 DEF Books
<1>9. CASE DelModeWrite(c)
  <2>1. /\ serve[c] = "delWrite" /\ Goto(c, "delBlock")
        /\ UNCHANGED <<name, slotOf, snap, modeOn, block, shutDown>>
        /\ activeModes' = snap[c] \ {name[slotOf[c]]}
    BY <1>9 DEF DelModeWrite, slots
  <2>2. activeModes' = activeModes \ {name[slotOf[c]]}
    BY <2>1 DEF Books, Fresh
  <2>3. /\ serve'[c] = "delBlock"
        /\ \A d \in Conn : d # c => serve'[d] = serve[d] /\ serve[d] \notin Registering
        /\ \A d \in Conn, m \in Mode : d # c =>
               /\ Answers(d, m, OnPcs) => Answers(d, m, OnPcs)'
               /\ Answers(d, m, ListPcs) => Answers(d, m, ListPcs)'
               /\ Answers(d, m, BlockPcs) => Answers(d, m, BlockPcs)'
        /\ \A d \in Conn : d # c /\ Claims(d) => Wants[d] # name[slotOf[c]]
    BY <2>1, <1>7 DEF ServePc, Closing
  <2>4. \A m \in Mode : /\ m \in activeModes' => ~ Answers(c, m, ListPcs)
                        /\ ~ Answers(c, m, OnPcs)
                        /\ Answers(c, m, BlockPcs) => Answers(c, m, BlockPcs)'
    BY <2>1, <2>2, <2>3 DEF Answers, OnPcs, BlockPcs, Closing
  <2>5. \A d \in Conn : d # c => serve[d] \notin Critical
    BY <2>1, <1>4 DEF Critical
  <2>6. Fresh' /\ Mutex'
    BY <2>1, <2>3, <2>5 DEF Books, Fresh, Mutex, Critical, Registering
  <2>7. Announced'
    <3>1. \A d \in Conn : serve[d] \in {"turnOn", "connect", "serving"} => Claims(d)
      BY DEF Claims, Stored
    <3> QED BY <2>1, <2>2, <2>3, <3>1 DEF Books, Announced
  <2>8. OnBacked'
    BY <2>1, <2>3, <2>4, <1>6 DEF Books, OnBacked
  <2>9. ListBacked'
    BY <2>2, <2>3, <2>4, <1>6 DEF Books, ListBacked
  <2>10. BlockBacked'
    BY <2>1, <2>3, <2>4, <1>6 DEF Books, BlockBacked
  <2> QED BY <2>6, <2>7, <2>8, <2>9, <2>10 DEF Books
<1>10. CASE DelBlock(c)
  <2>1. /\ serve[c] = "delBlock" /\ Goto(c, "closeSock")
        /\ UNCHANGED <<name, slotOf, snap, modeOn, activeModes, shutDown>>
    BY <1>10 DEF DelBlock, slots
  <2>2. /\ \A s \in Slot : s # slotOf[c] => block'[s] = block[s]
        /\ \A s \in Slot : block'[s] \in {block[s], NoMode}
        /\ ~ FrameStream /\ name[slotOf[c]] # NoMode => block'[slotOf[c]] = NoMode
        /\ FrameStream \/ name[slotOf[c]] = NoMode => block' = block
    BY <1>6, <1>10 DEF DelBlock, Inv, TypeOK
  <2>3. /\ serve'[c] = "closeSock"
        /\ \A d \in Conn : d # c => /\ serve'[d] = serve[d]
                                    /\ Live(d) => slotOf[d] # slotOf[c]
        /\ \A d \in Conn, m \in Mode : d # c =>
               /\ Answers(d, m, OnPcs) => Answers(d, m, OnPcs)'
               /\ Answers(d, m, ListPcs) => Answers(d, m, ListPcs)'
               /\ Answers(d, m, BlockPcs) => Answers(d, m, BlockPcs)'
    BY <2>1, <1>7 DEF ServePc, Closing
  <2>4. \A m \in Mode : ~ Answers(c, m, OnPcs) /\ ~ Answers(c, m, ListPcs)
    BY <2>1 DEF Answers, OnPcs, ListPcs
  <2>5. Fresh' /\ Mutex'
    BY <2>1, <2>3 DEF Books, Fresh, Mutex, Critical
  <2>6. Announced'
    <3> SUFFICES ASSUME NEW d \in Conn
                 PROVE  /\ serve'[d] \in {"connect", "serving"} => Wants[d] \in modeOn
                        /\ serve'[d] \in {"turnOn", "connect", "serving"} => Wants[d] \in activeModes
                        /\ serve'[d] = "serving" => FrameStream \/ block'[slotOf[d]] = Wants[d]
      BY <2>1 DEF Announced
    <3>1. CASE d = c
      BY <3>1, <2>3
    <3>2. CASE d # c
      <4>1. serve'[d] = serve[d]
        BY <3>2, <2>3
      <4>2. serve[d] = "serving" => block'[slotOf[d]] = block[slotOf[d]]
        BY <3>2, <1>6, <2>2, <2>3 DEF Live
      <4> QED BY <4>1, <4>2 DEF Books, Announced
    <3> QED BY <3>1, <3>2
  <2>7. OnBacked' /\ ListBacked'
    BY <2>1, <2>3, <2>4, <1>6 DEF Books, OnBacked, ListBacked
  <2>8. BlockBacked'
    <3> SUFFICES ASSUME NEW s \in Slot, NEW b, b = block'[s], b # NoMode
                 PROVE  ~ FrameStream /\ \E d \in Conn : slotOf[d] = s /\ Answers(d, b, BlockPcs)'
      BY <2>1 DEF BlockBacked, Answers
    <3>1. b = block[s]
      BY <2>2
    <3>2. ~ FrameStream
      BY <3>1 DEF Books, BlockBacked
    <3>3. PICK d \in Conn : slotOf[d] = s /\ Answers(d, b, BlockPcs)
      BY <3>1 DEF Books, BlockBacked
    <3>4. d # c
      BY <3>2, <3>3, <2>2 DEF Answers
    <3> QED BY <3>1, <3>2, <3>3, <3>4, <2>3, <1>6
  <2> QED BY <2>5, <2>6, <2>7, <2>8 DEF Books
<1> QED BY <1>1, <1>2, <1>3, <1>5, <1>8, <1>9, <1>10

\* Accepting, refusing and losing a service, and modeRxThread(), leave the
\* books as they are.
LEMMA TableBooks ==
    ASSUME Calm, Inv, Inv', Shape, Books, NEW c \in Conn,
           Accept(c) \/ AcceptFull(c) \/ PeerCloses(c) \/ modeRxThread(c)
    PROVE  Books'
<1>1. UNCHANGED <<snap, modeOn, block, activeModes, shutDown>>
  BY DEF Accept, Claim, AcceptFull, PeerCloses, modeRxThread, RxStops, RxLeaves, threads, outside
<1>2. /\ modeOn \subseteq Mode /\ activeModes \subseteq Mode
      /\ \A s \in Slot : block[s] \in Mode \cup {NoMode}
  BY DEF Inv, TypeOK
<1>3. CASE UNCHANGED <<serve, name, slotOf>>
  BY <1>1, <1>3 DEF Books, Fresh, Mutex, Announced, OnBacked, ListBacked, BlockBacked, Answers
<1>4. CASE PeerCloses(c) \/ modeRxThread(c)
  BY <1>3, <1>4 DEF PeerCloses, modeRxThread, RxStops, RxLeaves, slots, threads
<1>5. CASE AcceptFull(c) \/ Accept(c)
  <2>1. /\ serve[c] = "none" /\ serve'[c] \in {"leaked", "reading"}
        /\ \A d \in Conn : d # c => serve'[d] = serve[d] /\ slotOf'[d] = slotOf[d]
    BY <1>5 DEF AcceptFull, Accept, Claim, Goto, Inv, TypeOK
  <2>2. \A d \in Conn : d # c /\ serve[d] \in OnPcs \cup ListPcs \cup BlockPcs
                          => name'[slotOf[d]] = name[slotOf[d]]
    <3>1. CASE AcceptFull(c)
      BY <3>1 DEF AcceptFull, slots
    <3>2. CASE Accept(c)
      <4>1. PICK s \in Slot : ~ active[s] /\ name' = [name EXCEPT ![s] = NoMode]
        BY <3>2 DEF Accept, Claim, FirstFree
      <4>2. ASSUME NEW d \in Conn, d # c, serve[d] \in OnPcs \cup ListPcs \cup BlockPcs
            PROVE  name'[slotOf[d]] = name[slotOf[d]]
        <5>1. Settled
          BY <3>2 DEF Accept, Claim, Calm
        <5>2. serve[d] = "serving"
          BY <4>2, <5>1 DEF Settled, OnPcs, ListPcs, BlockPcs, Registering, Closing
        <5>3. peer[d] \in {"new", "open", "gone"} /\ slotOf[d] \in Slot
          BY DEF Inv, TypeOK
        <5>4. peer[d] = "open"
          BY <5>1, <5>2, <5>3 DEF Settled, Shape, Untouched
        <5>5. active[slotOf[d]]
          BY <5>2, <5>4 DEF Shape, Kept
        <5> QED BY <4>1, <5>3, <5>5 DEF Inv, TypeOK
      <4> QED BY <4>2
    <3> QED BY <1>5, <3>1, <3>2
  <2>3. ASSUME NEW d \in Conn, NEW m \in Mode
        PROVE  /\ Answers(d, m, OnPcs) => d # c /\ Answers(d, m, OnPcs)'
               /\ Answers(d, m, ListPcs) => d # c /\ Answers(d, m, ListPcs)'
               /\ Answers(d, m, BlockPcs) => d # c /\ Answers(d, m, BlockPcs)'
    <3>1. CASE d = c
      BY <3>1, <2>1 DEF Answers, OnPcs, ListPcs, BlockPcs, Closing
    <3>2. CASE d # c
      BY <3>2, <2>1, <2>2 DEF Answers, OnPcs, ListPcs, BlockPcs
    <3> QED BY <3>1, <3>2
  <2>4. Fresh' /\ Mutex' /\ Announced'
    BY <1>1, <2>1 DEF Books, Fresh, Mutex, Critical, Announced
  <2>5. OnBacked' /\ ListBacked'
    BY <1>1, <1>2, <2>3 DEF Books, OnBacked, ListBacked
  <2>6. BlockBacked'
    <3> SUFFICES ASSUME NEW s \in Slot, NEW b \in Mode, b = block[s]
                 PROVE  ~ FrameStream /\ \E d \in Conn : slotOf'[d] = s /\ Answers(d, b, BlockPcs)'
      BY <1>1, <1>2 DEF BlockBacked, Answers
    <3>1. b # NoMode
      BY ConnectionAssumption
    <3>2. ~ FrameStream
      BY <3>1 DEF Books, BlockBacked
    <3>3. PICK d \in Conn : slotOf[d] = s /\ Answers(d, b, BlockPcs)
      BY <3>1 DEF Books, BlockBacked
    <3> QED BY <3>2, <3>3, <2>1, <2>3
  <2> QED BY <2>4, <2>5, <2>6 DEF Books
<1> QED BY <1>4, <1>5

LEMMA NextCalm == Calm /\ CalmInv /\ [Next]_vars => CalmInv'
<1> SUFFICES ASSUME Calm, CalmInv, [Next]_vars PROVE Books'
  BY NextInv, NextShape DEF CalmInv
<1>0. Inv /\ Inv' /\ Shape /\ Books
  BY NextInv DEF CalmInv
<1>1. ASSUME NEW c \in Conn, TCPServer(c) PROVE Books'
  <2>1. CASE Accept(c) \/ AcceptFull(c)
    BY <2>1, <1>0, TableBooks
  <2>2. CASE AcceptNoThread(c) \/ AcceptNoRxThread(c)
    BY <2>2 DEF AcceptNoThread, AcceptNoRxThread, Calm
  <2>3. CASE RxNotStarted(c)
    BY <2>3, <1>0 DEF RxNotStarted, Shape, Started
  <2> QED BY <1>1, <2>1, <2>2, <2>3 DEF TCPServer
<1>2. ASSUME NEW c \in Conn, PeerCloses(c) \/ modeRxThread(c) PROVE Books'
  BY <1>2, <1>0, TableBooks
<1>3. ASSUME NEW c \in Conn, processClientSocket(c) \/ SeesInactive(c) PROVE Books'
  BY <1>3, <1>0, RegisterBooks, CleanUpBooks DEF processClientSocket
<1>4. CASE UNCHANGED vars
  BY <1>4, <1>0 DEF vars, slots, threads, outside, Books, Fresh, Mutex, Announced, OnBacked,
                    ListBacked, BlockBacked, Answers
<1>5. CASE Finished
  BY <1>4, <1>5 DEF Finished
<1> QED BY <1>1, <1>2, <1>3, <1>4, <1>5 DEF Next

\* The invariant of the calm system holds throughout.
LEMMA CalmInvariance == Spec => [](Calm => CalmInv)
<1>1. Init => (Calm => CalmInv)
  BY InitCalm
<1>2. (Calm => CalmInv) /\ [Next]_vars => (Calm => CalmInv)'
  BY NextCalm DEF Calm
<1> QED BY <1>1, <1>2, PTL DEF Spec

(* docs/BRIDGES.md, "One service per mode", for any number of services and   *)
(* slots: while registrations do not overlap, processClientSocket() refuses  *)
(* every second service of a mode, also when the first one is just leaving.  *)
THEOREM ModeHasOneService == Spec => [](Calm => OneServicePerMode)
<1>1. CalmInv => OneServicePerMode
  <2> SUFFICES ASSUME CalmInv, NEW s \in Slot, NEW t \in Slot, s # t, active[s], active[t],
                      name[s] = name[t], name[s] # NoMode
               PROVE  FALSE
    BY DEF OneServicePerMode
  <2>1. /\ sockfd[s] \in Conn /\ slotOf[sockfd[s]] = s /\ serve[sockfd[s]] \in Holding
        /\ sockfd[t] \in Conn /\ slotOf[sockfd[t]] = t /\ serve[sockfd[t]] \in Holding
    BY DEF CalmInv, Inv, NoOrphanSlot
  <2>2. \A c \in Conn : serve[c] \in Holding /\ name[slotOf[c]] # NoMode
                            => Claims(c) /\ name[slotOf[c]] = Wants[c]
    BY DEF CalmInv, Shape, Names, Claims, Holding, Registering, Closing, Stored
  <2> QED BY <2>1, <2>2 DEF CalmInv, Shape, Distinct
<1>2. (Calm => CalmInv) => (Calm => OneServicePerMode)
  BY <1>1
<1> QED BY <1>2, CalmInvariance, PTL

(* "The first service is not affected": for any number of services, none     *)
(* that comes, is refused or leaves takes away the slot, the mode or the     *)
(* block of a service that is being served, or its line on the dashboard.    *)
THEOREM ServiceIsNotDisturbed == Spec => [](Calm => ServedModeIsOn)
<1>1. CalmInv => ServedModeIsOn
  <2> SUFFICES ASSUME CalmInv, NEW c \in Conn, serve[c] = "serving"
               PROVE  /\ sockfd[slotOf[c]] = c
                      /\ name[slotOf[c]] = Wants[c]
                      /\ Wants[c] \in modeOn \cap activeModes
                      /\ FrameStream \/ block[slotOf[c]] = Wants[c]
    BY DEF ServedModeIsOn, Serving
  <2>1. sockfd[slotOf[c]] = c /\ name[slotOf[c]] = Wants[c]
    BY DEF CalmInv, Shape, OwnSlot, Names, Live, Stored
  <2> QED BY <2>1 DEF CalmInv, Books, Announced
<1>2. (Calm => CalmInv) => (Calm => ServedModeIsOn)
  BY <1>1
<1> QED BY <1>2, CalmInvariance, PTL

(* Clean-up forgets nothing: for any number of services, a mode that is on   *)
(* in the bridge, listed in the database or held by the modem has a          *)
(* connection that is being registered, served or cleaned up.                *)
THEOREM CleanUpIsComplete == Spec => [](Calm => NoGhostMode)
<1>1. CalmInv => NoGhostMode
  <2> DEFINE pcs == Registering \cup {"serving"} \cup Closing
             held == {Wants[c] : c \in {d \in Conn : serve[d] \in pcs}}
  <2> SUFFICES ASSUME CalmInv
               PROVE  /\ modeOn \subseteq held
                      /\ activeModes \subseteq held
                      /\ \A s \in Slot : block[s] \in held \cup {NoMode}
    BY DEF NoGhostMode
  <2>1. OnPcs \subseteq pcs /\ ListPcs \subseteq pcs /\ BlockPcs \subseteq pcs
    BY DEF OnPcs, ListPcs, BlockPcs, Registering, Closing
  <2>2. \A m : (\E c \in Conn : serve[c] \in pcs /\ Wants[c] = m) => m \in held
    OBVIOUS
  <2> HIDE DEF held, pcs
  <2>3. modeOn \subseteq held
    BY <2>1, <2>2 DEF CalmInv, Books, OnBacked, Answers
  <2>4. activeModes \subseteq held
    BY <2>1, <2>2 DEF CalmInv, Books, ListBacked, Answers
  <2>5. \A s \in Slot : block[s] \in held \cup {NoMode}
    BY <2>1, <2>2 DEF CalmInv, Books, BlockBacked, Answers
  <2> QED BY <2>3, <2>4, <2>5
<1>2. (Calm => CalmInv) => (Calm => NoGhostMode)
  BY <1>1
<1> QED BY <1>2, CalmInvariance, PTL
==============================================================================
