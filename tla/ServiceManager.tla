--------------------------- MODULE ServiceManager ----------------------------
(***************************************************************************)
(* service_manager.c: the root process that carries out what the dashboard *)
(* asks for.  The dashboard appends requests to the table                  *)
(* service_commands; a request without a result is open.  The manager      *)
(* marks old requests expired, fetches a batch of open ones and works      *)
(* through it, and copies the state of the units into the table services.  *)
(*                                                                         *)
(* A step is one SQL statement or one systemctl call.  The process can be  *)
(* killed between any two steps and its connection to the database can be  *)
(* lost; smQuery() then fails until the next smConnect().                  *)
(***************************************************************************)
EXTENDS Naturals, Sequences, FiniteSets, SequencesExt

CONSTANTS Asks,          \* the requests, in order of their id: [action, unit]
          Listed,        \* units in services, all with a name smValidUnit() accepts
          PowerListed,   \* actions in system_actions
          BatchMax,      \* LIMIT of the query (10)
          MaxFaults,     \* bound: crashes, and lost connections
          CrashMayHappen,
          DbMayFail

UnitAction  == {"start", "stop", "restart", "enable", "disable"}
PowerAction == {"reboot", "poweroff"}

Id == 1 .. Len(Asks)

ASSUME ManagerAssumption ==
    /\ Asks \in Seq([action : STRING, unit : STRING])
    /\ Listed \subseteq STRING
    /\ PowerListed \subseteq PowerAction
    /\ BatchMax \in Nat \ {0}
    /\ MaxFaults \in Nat
    /\ CrashMayHappen \in BOOLEAN
    /\ DbMayFail \in BOOLEAN

VARIABLES posted,   \* requests 1 .. posted are in service_commands
          aged,     \* requests 1 .. aged were made more than two minutes ago
          result,   \* column result
          shown,    \* columns active and enabled of each unit, compared with systemd
          pc,       \* where the manager is
          db,       \* its connection
          batch,    \* the ids it has fetched
          outcome,  \* local variable result of smDoCommand()
          calls,    \* systemctl calls made for each request
          pi,       \* has systemd been told to take the Pi down?
          crashes,  \* crashes so far
          losses    \* lost connections so far

table   == <<posted, aged, result>>
process == <<pc, db, batch, outcome>>
faults  == <<crashes, losses>>
vars    == <<table, shown, process, calls, pi, faults>>

Result == {"none", "ok", "failed", "refused", "expired"}

Pc == {"down", "connect", "expire", "select", "take", "powerSet", "powerRun",
       "unitRun", "unitRefresh", "setResult", "refresh"}

Init ==
    /\ posted = 0
    /\ aged = 0
    /\ result = [r \in Id |-> "none"]
    /\ shown = [u \in Listed |-> "unknown"]
    /\ pc = "down"
    /\ db = "none"
    /\ batch = <<>>
    /\ outcome = "none"
    /\ calls = [r \in Id |-> 0]
    /\ pi = "up"
    /\ crashes = 0
    /\ losses = 0

Open == {r \in 1 .. posted : result[r] = "none"}

------------------------------------------------------------------------------
(* The dashboard and the clock *)

Post ==
    /\ posted < Len(Asks)
    /\ posted' = posted + 1
    /\ UNCHANGED <<aged, result, shown, process, calls, pi, faults>>

TwoMinutesPass ==
    /\ aged < posted
    /\ aged' = aged + 1
    /\ UNCHANGED <<posted, result, shown, process, calls, pi, faults>>

------------------------------------------------------------------------------
(* main() *)

Start ==
    /\ pc = "down"
    /\ pc' = "connect"
    /\ UNCHANGED <<table, shown, db, batch, outcome, calls, pi, faults>>

smConnect ==
    /\ pc = "connect"
    /\ db' = "up"
    /\ pc' = "expire"
    /\ UNCHANGED <<table, shown, batch, outcome, calls, pi, faults>>

\* Mutant: main() goes on with the connection it has.
CycleFails_keepsConnection ==
    /\ pc \in {"expire", "select", "refresh"}
    /\ db = "lost"
    /\ pc' = "expire"
    /\ UNCHANGED <<table, shown, db, batch, outcome, calls, pi, faults>>

\* smCycle() returned false: main() closes the connection and connects again.
CycleFails ==
    /\ pc \in {"expire", "select", "refresh"}
    /\ db = "lost"
    /\ pc' = "connect"
    /\ db' = "none"
    /\ UNCHANGED <<table, shown, batch, outcome, calls, pi, faults>>

------------------------------------------------------------------------------
(* smCycle() *)

Expire ==
    /\ pc = "expire"
    /\ db = "up"
    /\ result' = [r \in Id |-> IF r \in Open /\ r <= aged THEN "expired" ELSE result[r]]
    /\ pc' = "select"
    /\ UNCHANGED <<posted, aged, shown, db, batch, outcome, calls, pi, faults>>

Ascending(b) == \A i, j \in DOMAIN b : i < j => b[i] < b[j]

\* WHERE result IS NULL ORDER BY id LIMIT BatchMax: only if the batch is full are any left, and
\* then later ones.  (A set with this one sequence.)
Oldest(S) ==
    {b \in BoundedSeq(S, BatchMax) :
        /\ Ascending(b)
        /\ \A r \in S \ Range(b) : Len(b) = BatchMax /\ \A i \in DOMAIN b : b[i] < r}

\* Mutant: without ORDER BY the newest come first.
Select_newestFirst ==
    /\ pc = "select"
    /\ db = "up"
    /\ batch' \in {Reverse(b) : b \in Oldest(Open)}
    /\ \/ batch' # <<>> /\ pc' = "take"
       \/ batch' = <<>> /\ pc' \in {"refresh", "expire"}
    /\ UNCHANGED <<table, shown, db, outcome, calls, pi, faults>>

\* Mutant: without WHERE result IS NULL.
Select_all ==
    /\ pc = "select"
    /\ db = "up"
    /\ batch' \in Oldest(1 .. posted)
    /\ \/ batch' # <<>> /\ pc' = "take"
       \/ batch' = <<>> /\ pc' \in {"refresh", "expire"}
    /\ UNCHANGED <<table, shown, db, outcome, calls, pi, faults>>

\* With nothing to do, the states are refreshed only when it is time for that.
Select ==
    /\ pc = "select"
    /\ db = "up"
    /\ batch' \in Oldest(Open)
    /\ \/ batch' # <<>> /\ pc' = "take"
       \/ batch' = <<>> /\ pc' \in {"refresh", "expire"}
    /\ UNCHANGED <<table, shown, db, outcome, calls, pi, faults>>

------------------------------------------------------------------------------
(* smDoCommand(), for the request at the head of the batch *)

Now == Head(batch)

IsPower(r) == Asks[r].action \in PowerAction

\* The checks.  Those that ask the database say no when it cannot be asked.
PowerAllowed(r) == Asks[r].unit = "system" /\ Asks[r].action \in PowerListed /\ db = "up"
UnitAllowed(r)  == Asks[r].action \in UnitAction /\ Asks[r].unit \in Listed /\ db = "up"

Take ==
    /\ pc = "take"
    /\ \/ IsPower(Now) /\ PowerAllowed(Now) /\ pc' = "powerSet" /\ outcome' = "ok"
       \/ ~ IsPower(Now) /\ UnitAllowed(Now) /\ pc' = "unitRun" /\ outcome' = "none"
       \/ /\ ~ (IF IsPower(Now) THEN PowerAllowed(Now) ELSE UnitAllowed(Now))
          /\ pc' = "setResult"
          /\ outcome' = "refused"
    /\ UNCHANGED <<table, shown, db, batch, calls, pi, faults>>

\* Where smCycle() goes on after a request.
NextInBatch ==
    /\ batch' = Tail(batch)
    /\ pc' = IF Len(batch) = 1 THEN "refresh" ELSE "take"

\* smSetResult(): what the database answers is not looked at.
smSetResult(r, value) ==
    result' = IF db = "up" THEN [result EXCEPT ![r] = value] ELSE result

Systemctl(r) == calls' = [calls EXCEPT ![r] = @ + 1]

\* Mutant: the Pi is taken down, the rest of the batch given up, and the
\* request not marked.
PowerSet_notMarked ==
    /\ pc = "powerSet"
    /\ pc' = "powerRun"
    /\ batch' = <<Now>>
    /\ UNCHANGED <<table, shown, db, outcome, calls, pi, faults>>

PowerSet ==
    /\ pc = "powerSet"
    /\ smSetResult(Now, "ok")
    /\ pc' = "powerRun"
    /\ UNCHANGED <<posted, aged, shown, db, batch, outcome, calls, pi, faults>>

\* systemctl returns at once; the Pi goes down a moment later.
PowerRun ==
    /\ pc = "powerRun"
    /\ Systemctl(Now)
    /\ pi' = "goingDown"
    /\ NextInBatch
    /\ UNCHANGED <<table, shown, db, outcome, faults>>

\* Mutant: the result is stored before the states are copied.
UnitRun_reportsFirst ==
    /\ pc = "unitRun"
    /\ Systemctl(Now)
    /\ outcome' = "ok"
    /\ shown' = [shown EXCEPT ![Asks[Now].unit] = "outdated"]
    /\ pc' = "setResult"
    /\ UNCHANGED <<table, db, batch, pi, faults>>

UnitRun ==
    /\ pc = "unitRun"
    /\ Systemctl(Now)
    /\ outcome' \in {"ok", "failed"}
    /\ shown' = [shown EXCEPT ![Asks[Now].unit] = "outdated"]
    /\ pc' = "unitRefresh"
    /\ UNCHANGED <<table, db, batch, pi, faults>>

\* smRefreshStatus(): every unit gets its state, or "unknown" when systemctl
\* show fails; nothing is stored when the connection is lost.
smRefreshStatus ==
    \/ db = "up" /\ \E state \in {"current", "unknown"} : shown' = [u \in Listed |-> state]
    \/ db = "lost" /\ UNCHANGED shown

UnitRefresh ==
    /\ pc = "unitRefresh"
    /\ smRefreshStatus
    /\ pc' = "setResult"
    /\ UNCHANGED <<table, db, batch, outcome, calls, pi, faults>>

SetResult ==
    /\ pc = "setResult"
    /\ smSetResult(Now, outcome)
    /\ NextInBatch
    /\ UNCHANGED <<posted, aged, shown, db, outcome, calls, pi, faults>>

\* The refresh at the end of smCycle().
Refresh ==
    /\ pc = "refresh"
    /\ db = "up"
    /\ smRefreshStatus
    /\ pc' = "expire"
    /\ UNCHANGED <<table, db, batch, outcome, calls, pi, faults>>

------------------------------------------------------------------------------
(* What goes wrong *)

ProcessEnds ==
    /\ pc' = "down"
    /\ db' = "none"
    /\ batch' = <<>>
    /\ outcome' = "none"

Crash ==
    /\ CrashMayHappen
    /\ crashes < MaxFaults
    /\ pc # "down"
    /\ ProcessEnds
    /\ crashes' = crashes + 1
    /\ UNCHANGED <<table, shown, calls, pi, losses>>

\* The Pi restarts, or is switched off and on again.
PiRestarts ==
    /\ pi = "goingDown"
    /\ ProcessEnds
    /\ pi' = "up"
    /\ UNCHANGED <<table, shown, calls, faults>>

\* Some units may have been updated already when it happens.
LoseConnection ==
    /\ DbMayFail
    /\ losses < MaxFaults
    /\ db = "up"
    /\ db' = "lost"
    /\ \/ UNCHANGED shown
       \/ /\ pc \in {"unitRefresh", "refresh"}
          /\ \E stored \in SUBSET Listed :
               shown' = [u \in Listed |-> IF u \in stored THEN "current" ELSE shown[u]]
    /\ losses' = losses + 1
    /\ UNCHANGED <<table, pc, batch, outcome, calls, pi, crashes>>

------------------------------------------------------------------------------
smDoCommand == Take \/ PowerSet \/ PowerRun \/ UnitRun \/ UnitRefresh \/ SetResult

smCycle == Expire \/ Select \/ smDoCommand \/ Refresh

Manager == Start \/ smConnect \/ smCycle \/ CycleFails

Next ==
    \/ Post \/ TwoMinutesPass
    \/ Manager
    \/ Crash \/ PiRestarts \/ LoseConnection

Spec == Init /\ [][Next]_vars

\* systemd starts the manager again (Restart=always) and the manager runs;
\* a Pi that was told to go down comes back.
FairSpec == Spec /\ WF_vars(Manager) /\ WF_vars(PiRestarts)

------------------------------------------------------------------------------
\* The state is well formed; a batch keeps to the limit of the query.
TypeOK ==
    /\ posted \in 0 .. Len(Asks)
    /\ aged \in 0 .. posted
    /\ result \in [Id -> Result]
    /\ shown \in [Listed -> {"current", "outdated", "unknown"}]
    /\ pc \in Pc
    /\ db \in {"none", "up", "lost"}
    /\ batch \in Seq(Id) /\ Len(batch) <= BatchMax
    /\ outcome \in Result
    /\ calls \in [Id -> Nat]
    /\ pi \in {"up", "goingDown"}
    /\ {crashes, losses} \subseteq 0 .. MaxFaults

(* service_manager.c: a power request is "marked done before the Pi goes     *)
(* down, so it can never run a second time after the restart".  Crashes of   *)
(* the manager, and the restart of the Pi that ends it, never repeat one;    *)
(* only a connection lost with the mark does, once each.                     *)
PowerRepeatsOnlyByLoss == \A r \in Id : IsPower(r) => calls[r] <= 1 + losses

(* What the dashboard has been told is expired is not done after all, not    *)
(* even by a batch fetched before it expired or by a restarted manager.      *)
ExpiredIsNeverRun ==
    [][\A r \in Id : result[r] = "expired" => calls'[r] = calls[r] /\ result'[r] = "expired"]_vars

(* A request is carried out only after every earlier one has been answered:  *)
(* a stop asked for after a start is not overtaken by it, even when answers  *)
(* are lost and requests are fetched a second time.                          *)
InOrder ==
    [][\A r \in Id : calls'[r] # calls[r] => \A q \in 1 .. r - 1 : result[q] # "none"]_vars

(* smDoCommand(): "the new state is stored before the request is reported as *)
(* done", so that the dashboard, which reads the states when it sees the     *)
(* result, does not show the old one.                                        *)
ReportedStateIsStored ==
    [][\A r \in Id : result[r] = "none" /\ result'[r] \in {"ok", "failed"} /\ ~ IsPower(r)
                     => shown[Asks[r].unit] # "outdated"]_vars

(* Every request gets an answer, whatever crashes and losses it meets.       *)
EveryRequestAnswered == \A r \in Id : (r <= posted) ~> (result[r] # "none")
==============================================================================
