------------------------ MODULE ServiceManagerProofs -------------------------
(***************************************************************************)
(* Proofs for ServiceManager: for any list of requests, any limit of the   *)
(* query and any number of crashes and lost connections, a power request   *)
(* is repeated only by lost connections, requests are carried out in their *)
(* order and never after they have expired, and a unit's new state is      *)
(* stored before its request is answered.                                  *)
(***************************************************************************)
EXTENDS ServiceManager, SequenceTheorems, TLAPS

\* Places in smDoCommand(), and those in which the request at the head has passed the checks.
InBatch == {"take", "powerSet", "powerRun", "unitRun", "unitRefresh", "setResult"}
Doing   == {"powerSet", "powerRun", "unitRun", "unitRefresh"}

\* There is a connection exactly from smConnect() on.
Connected == db = "none" <=> pc \in {"down", "connect"}

\* The batch: ascending ids of requests that are open, but for a power request that is marked.
BatchIsOpen ==
    /\ pc \in InBatch <=> batch # <<>>
    /\ Ascending(batch)
    /\ \A i \in 1 .. Len(batch) :
         /\ batch[i] <= posted
         /\ result[batch[i]] = "none" \/ (i = 1 /\ pc = "powerRun" /\ result[batch[i]] = "ok")

\* What smDoCommand() knows of the request at the head.
Checked ==
    /\ pc \in {"powerSet", "powerRun"} => IsPower(Now)
    /\ pc \in {"unitRun", "unitRefresh"} => ~ IsPower(Now) /\ Asks[Now].unit \in Listed
    /\ pc = "unitRefresh" => outcome \in {"ok", "failed"}
    /\ pc = "setResult" /\ outcome # "refused" =>
         ~ IsPower(Now) /\ Asks[Now].unit \in Listed /\ outcome \in {"ok", "failed"}
    /\ pc = "powerRun" /\ result[Now] = "none" => db = "lost"

\* While there is a connection no open request is skipped by the batch; a request that has passed the
\* checks was preceded by answers to all earlier ones, even if the connection is lost by now.
Behind ==
    /\ db = "up" /\ pc \in InBatch =>
         \A i \in 1 .. Len(batch), q \in Id :
             q < batch[i] /\ result[q] = "none" => \E j \in 1 .. i - 1 : batch[j] = q
    /\ pc \in Doing => \A q \in Id : q < Now => result[q] # "none"

\* A power request that is still open was carried out at most once for each lost connection, and
\* not yet for the present loss while the batch still has it.
Repeats ==
    \A r \in Id : IsPower(r) =>
        /\ calls[r] <= 1 + losses
        /\ result[r] = "none" => calls[r] <= losses
        /\ result[r] = "none" /\ db = "lost" /\ (\E i \in 1 .. Len(batch) : batch[i] = r)
               => calls[r] + 1 <= losses
        /\ pc = "powerRun" /\ Now = r => calls[r] <= losses

\* The states are stored when an answer will be.
Stored ==
    pc = "setResult" /\ db = "up" /\ outcome # "refused" => \A u \in Listed : shown[u] # "outdated"

Inv ==
    /\ TypeOK
    /\ Connected
    /\ BatchIsOpen
    /\ Checked
    /\ Behind
    /\ Repeats
    /\ Stored

USE ManagerAssumption

------------------------------------------------------------------------------
\* The requests the query returns: open ones, ascending, and none is skipped.
LEMMA OldestFacts ==
    ASSUME NEW S \in SUBSET Id, NEW b \in Oldest(S)
    PROVE  /\ b \in Seq(Id) /\ Len(b) <= BatchMax
           /\ Ascending(b)
           /\ \A i \in 1 .. Len(b) : b[i] \in S
           /\ \A i \in 1 .. Len(b), q \in S : q < b[i] => \E j \in 1 .. i - 1 : b[j] = q
<1>1. PICK n \in 0 .. BatchMax : b \in [1 .. n -> S]
  BY DEF Oldest, BoundedSeq, SeqOf
<1>2. b \in Seq(Id) /\ Len(b) = n /\ DOMAIN b = 1 .. n
  BY <1>1
<1>3. Ascending(b)
  BY DEF Oldest
<1>4. ASSUME NEW i \in 1 .. Len(b), NEW q \in S, q < b[i] PROVE \E j \in 1 .. i - 1 : b[j] = q
  <2>1. q \in Range(b)
    <3>1. \A r \in S \ Range(b) : \A k \in DOMAIN b : b[k] < r
      BY DEF Oldest
    <3> QED BY <1>1, <1>2, <1>4, <3>1 DEF Id
  <2>2. PICK j \in 1 .. n : b[j] = q
    BY <2>1, <1>2 DEF Range
  <2>3. j < i
    BY <1>1, <1>2, <1>3, <1>4, <2>2 DEF Ascending, Id
  <2> QED BY <2>2, <2>3
<1> QED BY <1>1, <1>2, <1>3, <1>4

\* The batch after a request is done with.
LEMMA TailFacts ==
    ASSUME NEW b \in Seq(Id), b # <<>>, Ascending(b)
    PROVE  /\ Head(b) = b[1] /\ Head(b) \in Id /\ 1 \in 1 .. Len(b)
           /\ Tail(b) \in Seq(Id) /\ Len(Tail(b)) = Len(b) - 1
           /\ \A i \in 1 .. Len(Tail(b)) : Tail(b)[i] = b[i + 1] /\ i + 1 \in 1 .. Len(b)
           /\ \A i \in 1 .. Len(Tail(b)) : Head(b) < Tail(b)[i]
           /\ Ascending(Tail(b))
           /\ Tail(b) = <<>> <=> Len(b) = 1
<1>1. Len(b) \in Nat \ {0} /\ DOMAIN b = 1 .. Len(b) /\ DOMAIN Tail(b) = 1 .. Len(b) - 1
  OBVIOUS
<1>2. \A i \in 1 .. Len(b) : b[i] \in Id
  OBVIOUS
<1>3. \A i \in 1 .. Len(b) - 1 : Tail(b)[i] = b[i + 1]
  OBVIOUS
<1>4. Ascending(Tail(b))
  BY <1>1, <1>2, <1>3 DEF Ascending, Id
<1>5. \A i \in 1 .. Len(b) - 1 : b[1] < b[i + 1]
  BY <1>1 DEF Ascending
<1>6. Tail(b) = <<>> <=> Len(b) = 1
  <2>1. Tail(b) \in Seq(Id) /\ Len(Tail(b)) = Len(b) - 1
    OBVIOUS
  <2>2. Len(<<>>) = 0 /\ (Tail(b) # <<>> => Len(Tail(b)) \in Nat \ {0})
    BY <2>1, EmptySeq
  <2>3. Tail(b) = <<>> => Len(Tail(b)) = 0
    BY <2>2, Zenon
  <2> QED BY <1>1, <2>1, <2>2, <2>3
<1> QED BY <1>1, <1>2, <1>3, <1>4, <1>5, <1>6

------------------------------------------------------------------------------
USE DEF table, process, faults

\* The dashboard and the clock touch nothing the invariant speaks of but the number of requests.
LEMMA PostStep == Inv /\ (Post \/ TwoMinutesPass) => Inv'
<1> SUFFICES ASSUME Inv, Post \/ TwoMinutesPass PROVE Inv'
  OBVIOUS
<1>1. TypeOK'
  BY DEF Inv, TypeOK, Post, TwoMinutesPass
<1>2. UNCHANGED <<result, shown, process, calls, pi, faults>> /\ posted' >= posted
  BY DEF Inv, TypeOK, Post, TwoMinutesPass
<1>3. Connected' /\ Checked' /\ Behind' /\ Repeats' /\ Stored'
  BY <1>2 DEF Inv, Connected, Checked, Behind, Repeats, Stored, Now, IsPower
<1>4. BatchIsOpen'
  BY <1>1, <1>2 DEF Inv, TypeOK, BatchIsOpen, Id, Ascending
<1> QED BY <1>1, <1>3, <1>4 DEF Inv

LEMMA StartStep == Inv /\ (Start \/ smConnect \/ CycleFails) => Inv'
<1> SUFFICES ASSUME Inv, Start \/ smConnect \/ CycleFails PROVE Inv'
  OBVIOUS
<1>1. TypeOK'
  BY DEF Inv, TypeOK, Start, smConnect, CycleFails, Pc
<1>2. /\ UNCHANGED <<table, shown, batch, outcome, calls, pi, faults>>
      /\ batch = <<>> /\ pc \notin InBatch /\ pc' \notin InBatch
      /\ Connected'
  BY DEF Inv, Start, smConnect, CycleFails, Connected, BatchIsOpen, InBatch
<1>3. Checked' /\ Behind' /\ Stored' /\ BatchIsOpen'
  BY <1>2 DEF Inv, Checked, Behind, Stored, BatchIsOpen, InBatch, Doing, Ascending
<1>4. Repeats'
  BY <1>2 DEF Inv, Repeats, IsPower, InBatch
<1> QED BY <1>1, <1>2, <1>3, <1>4 DEF Inv

\* Requests expire only between two batches.
LEMMA ExpireStep == Inv /\ Expire => Inv'
<1> SUFFICES ASSUME Inv, Expire PROVE Inv'
  OBVIOUS
<1>1. TypeOK'
  BY DEF Inv, TypeOK, Expire, Pc, Result
<1>2. /\ UNCHANGED <<shown, db, batch, outcome, calls, losses>>
      /\ batch = <<>> /\ pc' = "select" /\ db = "up"
      /\ \A r \in Id : result'[r] = "none" => result[r] = "none"
  BY DEF Inv, Expire, BatchIsOpen, InBatch
<1>3. Connected' /\ Checked' /\ Behind' /\ Stored' /\ BatchIsOpen'
  BY <1>2 DEF Inv, Connected, Checked, Behind, Stored, BatchIsOpen, InBatch, Doing, Ascending
<1>4. Repeats'
  BY <1>2 DEF Inv, Repeats, IsPower
<1> QED BY <1>1, <1>3, <1>4 DEF Inv

LEMMA SelectStep == Inv /\ Select => Inv'
<1> SUFFICES ASSUME Inv, Select PROVE Inv'
  OBVIOUS
<1>1. Open \in SUBSET Id
  BY DEF Inv, TypeOK, Open, Id
<1>2. /\ batch' \in Seq(Id) /\ Len(batch') <= BatchMax
      /\ Ascending(batch')
      /\ \A i \in 1 .. Len(batch') : batch'[i] \in Open
      /\ \A i \in 1 .. Len(batch'), q \in Open : q < batch'[i] => \E j \in 1 .. i - 1 : batch'[j] = q
  BY <1>1, OldestFacts DEF Select
<1>3. TypeOK'
  BY <1>2 DEF Inv, TypeOK, Select, Pc
<1>4. /\ UNCHANGED <<posted, result, shown, db, outcome, calls, losses>>
      /\ db = "up" /\ pc = "select"
      /\ \/ batch' # <<>> /\ pc' = "take"
         \/ batch' = <<>> /\ pc' \in {"refresh", "expire"}
  BY Zenon DEF Select
<1>5. Connected' /\ Checked' /\ Stored' /\ Repeats'
  BY <1>4 DEF Inv, Connected, Checked, Stored, Repeats, IsPower
<1>6. BatchIsOpen'
  BY <1>2, <1>4 DEF BatchIsOpen, InBatch, Open
<1>7. Behind'
  <2>1. \A i \in 1 .. Len(batch'), q \in Id : q < batch'[i] /\ result'[q] = "none" => q \in Open
    BY <1>2, <1>4 DEF Open, Id, Inv, TypeOK
  <2> QED BY <1>2, <1>4, <2>1 DEF Behind, Doing
<1> QED BY <1>3, <1>5, <1>6, <1>7 DEF Inv

\* What holds of the head of the batch in smDoCommand().
LEMMA HeadFacts ==
    ASSUME Inv, pc \in InBatch
    PROVE  /\ batch \in Seq(Id) /\ batch # <<>> /\ Ascending(batch)
           /\ Now = batch[1] /\ Now \in Id /\ 1 \in 1 .. Len(batch)
           /\ db \in {"up", "lost"}
           /\ result[Now] \in {"none", "ok"}
           /\ pc # "powerRun" => result[Now] = "none"
<1>1. batch \in Seq(Id) /\ batch # <<>> /\ Ascending(batch)
  BY DEF Inv, TypeOK, BatchIsOpen
<1>2. Now = batch[1] /\ Now \in Id /\ 1 \in 1 .. Len(batch)
  BY <1>1, TailFacts DEF Now
<1>3. db \in {"up", "lost"}
  BY DEF Inv, TypeOK, Connected, InBatch
<1> QED BY <1>1, <1>2, <1>3 DEF Inv, BatchIsOpen

LEMMA TakeStep == Inv /\ Take => Inv'
<1> SUFFICES ASSUME Inv, Take PROVE Inv'
  OBVIOUS
<1>1. pc \in InBatch /\ pc = "take"
  BY DEF Take, InBatch
<1>2. /\ UNCHANGED <<posted, result, shown, db, batch, calls, losses>>
      /\ pc' \in {"powerSet", "unitRun", "setResult"}
  BY DEF Take
<1>3. TypeOK'
  BY DEF Inv, TypeOK, Take, Pc, Result
<1>4. Connected' /\ Stored' /\ BatchIsOpen'
  BY <1>1, <1>2 DEF Inv, Connected, Stored, BatchIsOpen, InBatch, Take
<1>5. Checked'
  BY <1>2 DEF Take, Checked, Now, IsPower, UnitAllowed
<1>6. Behind'
  <2>1. pc' \in Doing => db = "up"
    BY DEF Take, Doing, PowerAllowed, UnitAllowed
  <2>2. db = "up" => \A q \in Id : q < Now => result[q] # "none"
    BY <1>1, HeadFacts DEF Inv, Behind, Id
  <2> QED BY <1>1, <1>2, <2>1, <2>2 DEF Inv, Behind, InBatch, Now
<1>7. Repeats'
  BY <1>1, <1>2 DEF Inv, Repeats, IsPower, Now
<1> QED BY <1>3, <1>4, <1>5, <1>6, <1>7 DEF Inv

\* The mark comes before the call.
LEMMA PowerSetStep == Inv /\ PowerSet => Inv'
<1> SUFFICES ASSUME Inv, PowerSet PROVE Inv'
  OBVIOUS
<1>1. pc = "powerSet" /\ pc' = "powerRun" /\ pc \in InBatch /\ pc' \in InBatch
  BY DEF PowerSet, InBatch
<1>2. UNCHANGED <<posted, aged, shown, db, batch, outcome, calls, pi, faults>>
  BY DEF PowerSet
<1>3. result' = IF db = "up" THEN [result EXCEPT ![Now] = "ok"] ELSE result
  BY DEF PowerSet, smSetResult
<1>4. /\ Now' = Now /\ Now = batch[1] /\ Now \in Id /\ db \in {"up", "lost"}
      /\ batch \in Seq(Id) /\ batch # <<>> /\ Ascending(batch) /\ 1 \in 1 .. Len(batch)
      /\ result[Now] = "none"
  BY <1>1, <1>2, HeadFacts DEF Now
<1>5. TypeOK'
  BY <1>1, <1>2, <1>3, <1>4 DEF Inv, TypeOK, Pc, Result
<1>6. result \in [Id -> Result]
  BY DEF Inv, TypeOK
<1>7. Connected' /\ Stored'
  BY <1>1, <1>2 DEF Inv, Connected, Stored
<1>8. Checked'
  BY <1>1, <1>2, <1>3, <1>4, <1>6 DEF Inv, Checked, IsPower
<1>9. BatchIsOpen'
  <2>1. \A i \in 1 .. Len(batch) : i # 1 => batch[i] # Now
    BY <1>4 DEF Ascending, Id
  <2>2. \A i \in 1 .. Len(batch) : batch[i] \in Id /\ batch[i] <= posted /\ result[batch[i]] = "none"
    BY <1>1, <1>4 DEF Inv, BatchIsOpen
  <2>3. ASSUME NEW i \in 1 .. Len(batch)
        PROVE  result'[batch[i]] = "none" \/ (i = 1 /\ result'[batch[i]] = "ok")
    BY <1>3, <1>4, <1>6, <2>1, <2>2
  <2> QED BY <1>1, <1>2, <1>4, <2>2, <2>3 DEF BatchIsOpen
<1>10. \A q \in Id : result'[q] = "none" => result[q] = "none"
  BY <1>3, <1>4, <1>6
<1>11. Behind'
  BY <1>1, <1>2, <1>4, <1>10 DEF Inv, Behind, Doing
<1>12. Repeats'
  <2>1. calls[Now] <= losses
    BY <1>1, <1>4 DEF Inv, Repeats, Checked
  <2> QED BY <1>1, <1>2, <1>4, <1>10, <2>1 DEF Inv, Repeats, IsPower
<1> QED BY <1>5, <1>7, <1>8, <1>9, <1>11, <1>12 DEF Inv

\* The rest of a batch, after its head has been done with and results have only been added.
LEMMA NextStep ==
    ASSUME Inv, pc \in InBatch, NextInBatch, posted' = posted,
           db = "lost" => result' = result,
           db = "up" => result'[Now] # "none",
           \A r \in Id : r # Now => result'[r] = result[r]
    PROVE  /\ batch' \in Seq(Id) /\ Len(batch') <= BatchMax
           /\ pc' \in {"refresh", "take"}
           /\ BatchIsOpen'
           /\ db' = db => Behind' /\ Connected'
<1> DEFINE b == batch
<1>1. /\ b \in Seq(Id) /\ b # <<>> /\ Ascending(b)
      /\ Now = b[1] /\ Now \in Id /\ db \in {"up", "lost"}
  BY HeadFacts
<1>2. batch' = Tail(b) /\ pc' = IF Len(b) = 1 THEN "refresh" ELSE "take"
  BY DEF NextInBatch
<1>3. /\ Tail(b) \in Seq(Id) /\ Len(Tail(b)) = Len(b) - 1
      /\ \A i \in 1 .. Len(Tail(b)) : Tail(b)[i] = b[i + 1] /\ i + 1 \in 1 .. Len(b)
      /\ \A i \in 1 .. Len(Tail(b)) : Now < Tail(b)[i]
      /\ Ascending(Tail(b))
      /\ Tail(b) = <<>> <=> Len(b) = 1
  BY <1>1, TailFacts DEF Now
<1>4. Len(b) \in Nat /\ Len(b) <= BatchMax
  BY <1>1 DEF Inv, TypeOK
<1>5. \A i \in 1 .. Len(Tail(b)) : Tail(b)[i] \in Id /\ result'[Tail(b)[i]] = result[Tail(b)[i]]
  <2> TAKE i \in 1 .. Len(Tail(b))
  <2>1. Tail(b)[i] \in Id
    BY <1>3
  <2>2. Tail(b)[i] # Now
    BY <1>1, <1>3, <2>1 DEF Id
  <2> QED BY <2>1, <2>2
<1>6. BatchIsOpen'
  <2>1. \A i \in 1 .. Len(b) : i # 1 => b[i] <= posted /\ result[b[i]] = "none"
    BY DEF Inv, BatchIsOpen
  <2>2. \A i \in 1 .. Len(Tail(b)) : Tail(b)[i] <= posted /\ result'[Tail(b)[i]] = "none"
    BY <1>3, <1>4, <1>5, <2>1
  <2>3. pc' \in InBatch <=> Tail(b) # <<>>
    BY <1>2, <1>3 DEF InBatch
  <2> QED BY <1>2, <1>3, <2>2, <2>3 DEF BatchIsOpen
<1>7. ASSUME db' = db PROVE Behind' /\ Connected'
  <2>1. Connected'
    BY <1>1, <1>2, <1>7 DEF Connected
  <2>2. ASSUME db = "up", NEW i \in 1 .. Len(Tail(b)), NEW q \in Id, q < Tail(b)[i], result'[q] = "none"
        PROVE  \E j \in 1 .. i - 1 : Tail(b)[j] = q
    <3>1. q # Now /\ result[q] = "none"
      BY <1>1, <2>2
    <3>2. PICK j \in 1 .. i : b[j] = q
      BY <1>3, <1>4, <2>2, <3>1 DEF Inv, Behind
    <3>3. j # 1
      BY <1>1, <3>1, <3>2
    <3>4. j - 1 \in 1 .. i - 1 /\ j - 1 \in 1 .. Len(Tail(b)) /\ Tail(b)[j - 1] = b[j]
      BY <1>3, <1>4, <3>2, <3>3
    <3> QED BY <3>2, <3>4
  <2> QED BY <1>2, <1>7, <2>1, <2>2 DEF Behind, Doing
<1> QED BY <1>2, <1>3, <1>4, <1>6, <1>7

LEMMA PowerRunStep == Inv /\ PowerRun => Inv'
<1> SUFFICES ASSUME Inv, PowerRun PROVE Inv'
  OBVIOUS
<1>1. pc = "powerRun" /\ pc \in InBatch
  BY DEF PowerRun, InBatch
<1>2. /\ UNCHANGED <<posted, aged, result, shown, db, outcome, faults>>
      /\ calls' = [calls EXCEPT ![Now] = @ + 1] /\ pi' = "goingDown" /\ NextInBatch
  BY DEF PowerRun, Systemctl
<1>3. /\ Now = batch[1] /\ Now \in Id /\ 1 \in 1 .. Len(batch)
      /\ batch \in Seq(Id) /\ batch # <<>> /\ Ascending(batch) /\ db \in {"up", "lost"}
  BY <1>1, HeadFacts
<1>4. db = "up" => result'[Now] # "none"
  BY <1>1, <1>2 DEF Inv, Checked
<1>5. /\ batch' \in Seq(Id) /\ Len(batch') <= BatchMax
      /\ pc' \in {"refresh", "take"}
      /\ BatchIsOpen' /\ Behind' /\ Connected'
  BY <1>1, <1>2, <1>4, NextStep
<1>6. TypeOK'
  BY <1>2, <1>3, <1>5 DEF Inv, TypeOK, Pc
<1>7. Checked' /\ Stored'
  BY <1>5 DEF Checked, Stored
<1>8. Repeats'
  <2>1. /\ \A i \in 1 .. Len(batch') : batch'[i] # Now
        /\ \A i \in 1 .. Len(batch') : \E j \in 1 .. Len(batch) : batch'[i] = batch[j]
    <3>1. batch' = Tail(batch)
      BY <1>2 DEF NextInBatch
    <3>2. \A i \in 1 .. Len(batch') : batch'[i] = batch[i + 1] /\ i + 1 \in 1 .. Len(batch) /\ Now < batch'[i]
      BY <1>3, <3>1, TailFacts DEF Now
    <3> QED BY <1>3, <1>5, <3>2 DEF Id
  <2>2. calls[Now] <= losses /\ (result[Now] = "none" => calls[Now] + 1 <= losses)
    BY <1>1, <1>3 DEF Inv, Repeats, Checked
  <2>3. calls \in [Id -> Nat] /\ losses \in Nat
    BY DEF Inv, TypeOK
  <2>4. ASSUME NEW r \in Id, IsPower(r)
        PROVE  /\ calls'[r] <= 1 + losses
               /\ result[r] = "none" => calls'[r] <= losses
               /\ result[r] = "none" /\ db = "lost" /\ (\E i \in 1 .. Len(batch') : batch'[i] = r)
                      => calls'[r] + 1 <= losses
    <3>1. CASE r = Now
      BY <1>2, <1>3, <2>1, <2>2, <2>3, <3>1
    <3>2. CASE r # Now
      <4>1. calls'[r] = calls[r]
        BY <1>2, <2>3, <3>2
      <4>2. (\E i \in 1 .. Len(batch') : batch'[i] = r) => \E i \in 1 .. Len(batch) : batch[i] = r
        BY <2>1
      <4> QED BY <2>4, <4>1, <4>2 DEF Inv, Repeats
    <3> QED BY <3>1, <3>2
  <2> QED BY <1>2, <1>5, <2>4 DEF Repeats, IsPower
<1> QED BY <1>5, <1>6, <1>7, <1>8 DEF Inv

LEMMA UnitRunStep == Inv /\ UnitRun => Inv'
<1> SUFFICES ASSUME Inv, UnitRun PROVE Inv'
  OBVIOUS
<1>1. pc = "unitRun" /\ pc' = "unitRefresh" /\ pc \in InBatch /\ pc' \in InBatch
  BY DEF UnitRun, InBatch
<1>2. /\ UNCHANGED <<posted, aged, result, db, batch, pi, faults>>
      /\ calls' = [calls EXCEPT ![Now] = @ + 1] /\ outcome' \in {"ok", "failed"}
      /\ shown' = [shown EXCEPT ![Asks[Now].unit] = "outdated"]
  BY DEF UnitRun, Systemctl
<1>3. /\ Now' = Now /\ Now = batch[1] /\ Now \in Id /\ ~ IsPower(Now) /\ Asks[Now].unit \in Listed
  BY <1>1, <1>2, HeadFacts DEF Now, Inv, Checked
<1>4. TypeOK'
  BY <1>1, <1>2, <1>3 DEF Inv, TypeOK, Pc, Result
<1>5. Connected' /\ Stored' /\ BatchIsOpen' /\ Behind'
  BY <1>1, <1>2, <1>3 DEF Inv, Connected, Stored, BatchIsOpen, Behind, Doing
<1>6. Checked'
  BY <1>1, <1>2, <1>3 DEF Checked, IsPower
<1>7. Repeats'
  <2>1. \A r \in Id : IsPower(r) => calls'[r] = calls[r]
    BY <1>2, <1>3 DEF Inv, TypeOK
  <2> QED BY <1>1, <1>2, <2>1 DEF Inv, Repeats, IsPower
<1> QED BY <1>4, <1>5, <1>6, <1>7 DEF Inv

\* The copies of the states are made new, or the connection is gone.
LEMMA RefreshFacts ==
    ASSUME Inv, smRefreshStatus
    PROVE  /\ shown' \in [Listed -> {"current", "outdated", "unknown"}]
           /\ db = "up" => \A u \in Listed : shown'[u] # "outdated"
BY DEF Inv, TypeOK, smRefreshStatus

LEMMA UnitRefreshStep == Inv /\ UnitRefresh => Inv'
<1> SUFFICES ASSUME Inv, UnitRefresh PROVE Inv'
  OBVIOUS
<1>1. pc = "unitRefresh" /\ pc' = "setResult" /\ pc \in InBatch /\ pc' \in InBatch
  BY DEF UnitRefresh, InBatch
<1>2. /\ UNCHANGED <<posted, aged, result, db, batch, outcome, calls, pi, faults>>
      /\ smRefreshStatus
  BY DEF UnitRefresh
<1>3. Now' = Now /\ ~ IsPower(Now) /\ Asks[Now].unit \in Listed /\ outcome \in {"ok", "failed"}
  BY <1>1, <1>2 DEF Now, Inv, Checked
<1>4. TypeOK' /\ Stored'
  BY <1>1, <1>2, RefreshFacts DEF Inv, TypeOK, Pc, Stored
<1>5. Connected' /\ BatchIsOpen' /\ Behind' /\ Checked'
  BY <1>1, <1>2, <1>3 DEF Inv, Connected, BatchIsOpen, Behind, Doing, Checked, IsPower
<1>6. Repeats'
  BY <1>1, <1>2 DEF Inv, Repeats, IsPower
<1> QED BY <1>4, <1>5, <1>6 DEF Inv

LEMMA SetResultStep == Inv /\ SetResult => Inv'
<1> SUFFICES ASSUME Inv, SetResult PROVE Inv'
  OBVIOUS
<1>1. pc = "setResult" /\ pc \in InBatch
  BY DEF SetResult, InBatch
<1>2. /\ UNCHANGED <<posted, aged, shown, db, outcome, calls, pi, faults>>
      /\ result' = IF db = "up" THEN [result EXCEPT ![Now] = outcome] ELSE result
      /\ NextInBatch
  BY DEF SetResult, smSetResult
<1>3. /\ Now \in Id /\ result[Now] = "none" /\ result \in [Id -> Result]
      /\ outcome \in {"ok", "failed", "refused"} /\ db \in {"up", "lost"}
      /\ batch \in Seq(Id) /\ batch # <<>> /\ Ascending(batch)
  BY <1>1, HeadFacts DEF Inv, TypeOK, Checked
<1>4. /\ db = "lost" => result' = result
      /\ db = "up" => result'[Now] # "none"
      /\ \A r \in Id : r # Now => result'[r] = result[r]
  BY <1>2, <1>3
<1>5. /\ batch' \in Seq(Id) /\ Len(batch') <= BatchMax
      /\ pc' \in {"refresh", "take"}
      /\ BatchIsOpen' /\ Behind' /\ Connected'
  BY <1>1, <1>2, <1>4, NextStep
<1>6. TypeOK'
  BY <1>2, <1>3, <1>5 DEF Inv, TypeOK, Pc, Result
<1>7. Checked' /\ Stored'
  BY <1>5 DEF Checked, Stored
<1>8. Repeats'
  <2>1. \A i \in 1 .. Len(batch') : \E j \in 1 .. Len(batch) : batch'[i] = batch[j]
    BY <1>2, <1>3, TailFacts DEF NextInBatch
  <2>2. \A r \in Id : result'[r] = "none" => result[r] = "none"
    BY <1>3, <1>4
  <2> QED BY <1>2, <1>5, <2>1, <2>2 DEF Inv, Repeats, IsPower
<1> QED BY <1>5, <1>6, <1>7, <1>8 DEF Inv

LEMMA RefreshStep == Inv /\ Refresh => Inv'
<1> SUFFICES ASSUME Inv, Refresh PROVE Inv'
  OBVIOUS
<1>1. pc = "refresh" /\ pc' = "expire" /\ batch = <<>>
  BY DEF Refresh, Inv, BatchIsOpen, InBatch
<1>2. /\ UNCHANGED <<posted, aged, result, db, batch, outcome, calls, pi, faults>>
      /\ smRefreshStatus
  BY DEF Refresh
<1>3. TypeOK'
  BY <1>1, <1>2, RefreshFacts DEF Inv, TypeOK, Pc
<1>4. Connected' /\ BatchIsOpen' /\ Behind' /\ Checked' /\ Stored'
  BY <1>1, <1>2 DEF Inv, Connected, BatchIsOpen, InBatch, Behind, Doing, Checked, Stored
<1>5. Repeats'
  BY <1>1, <1>2 DEF Inv, Repeats, IsPower
<1> QED BY <1>3, <1>4, <1>5 DEF Inv

\* Whatever the process knew is forgotten; the table keeps what the invariant needs of it.
LEMMA EndStep == Inv /\ (Crash \/ PiRestarts) => Inv'
<1> SUFFICES ASSUME Inv, Crash \/ PiRestarts PROVE Inv'
  OBVIOUS
<1>1. /\ pc' = "down" /\ db' = "none" /\ batch' = <<>> /\ outcome' = "none"
      /\ UNCHANGED <<posted, aged, result, shown, calls, losses>>
  BY DEF Crash, PiRestarts, ProcessEnds
<1>2. Len(batch') = 0
  BY <1>1, EmptySeq
<1>3. TypeOK'
  <2>1. batch' \in Seq(Id) /\ Len(batch') <= BatchMax
    BY <1>1, <1>2
  <2>2. pi' \in {"up", "goingDown"} /\ {crashes', losses'} \subseteq 0 .. MaxFaults
    BY DEF Inv, TypeOK, Crash, PiRestarts
  <2> QED BY <1>1, <2>1, <2>2 DEF Inv, TypeOK, Pc, Result
<1>4. BatchIsOpen'
  BY <1>1, <1>2 DEF BatchIsOpen, InBatch, Ascending
<1>5. Connected' /\ Behind' /\ Checked' /\ Stored'
  BY <1>1 DEF Connected, Behind, Doing, Checked, Stored
<1>6. Repeats'
  BY <1>1 DEF Inv, Repeats, IsPower
<1> QED BY <1>3, <1>4, <1>5, <1>6 DEF Inv

\* The loss that is counted pays for the one more call a power request may get.
LEMMA LoseConnectionStep == Inv /\ LoseConnection => Inv'
<1> SUFFICES ASSUME Inv, LoseConnection PROVE Inv'
  OBVIOUS
<1>1. /\ UNCHANGED <<posted, aged, result, pc, batch, outcome, calls, pi, crashes>>
      /\ db = "up" /\ db' = "lost" /\ losses < MaxFaults /\ losses' = losses + 1
  BY DEF LoseConnection
<1>2. shown' \in [Listed -> {"current", "outdated", "unknown"}]
  BY DEF LoseConnection, Inv, TypeOK
<1>3. TypeOK'
  BY <1>1, <1>2 DEF Inv, TypeOK
<1>4. Connected' /\ BatchIsOpen' /\ Behind' /\ Checked' /\ Stored'
  BY <1>1 DEF Inv, Connected, BatchIsOpen, Behind, Checked, Stored, IsPower, Now
<1>5. Repeats'
  <2>1. calls \in [Id -> Nat] /\ losses \in Nat
    BY DEF Inv, TypeOK
  <2> QED BY <1>1, <2>1 DEF Inv, Repeats, IsPower, Now
<1> QED BY <1>3, <1>4, <1>5 DEF Inv

LEMMA InitInv == Init => Inv
<1> SUFFICES ASSUME Init PROVE Inv
  OBVIOUS
<1>1. batch = <<>> /\ Len(batch) = 0
  BY EmptySeq DEF Init
<1>2. TypeOK
  <2>1. batch \in Seq(Id) /\ Len(batch) <= BatchMax
    BY <1>1
  <2>2. Len(Asks) \in Nat
    OBVIOUS
  <2> QED BY <2>1, <2>2 DEF Init, TypeOK, Pc, Result
<1>3. BatchIsOpen
  BY <1>1 DEF Init, BatchIsOpen, InBatch, Ascending
<1> QED BY <1>2, <1>3 DEF Init, Inv, Connected, Checked, Behind, Doing, Repeats, Stored

LEMMA StepInv == Inv /\ [Next]_vars => Inv'
<1> SUFFICES ASSUME Inv, [Next]_vars PROVE Inv'
  OBVIOUS
<1>1. CASE UNCHANGED vars
  BY <1>1 DEF vars, Inv, TypeOK, Connected, BatchIsOpen, Checked, Behind, Repeats, Stored, Now, IsPower
<1> QED
  BY <1>1, PostStep, StartStep, ExpireStep, SelectStep, TakeStep, PowerSetStep, PowerRunStep, UnitRunStep,
     UnitRefreshStep, SetResultStep, RefreshStep, EndStep, LoseConnectionStep
  DEF Next, Manager, smCycle, smDoCommand

------------------------------------------------------------------------------
(* service_manager.c keeps to its invariant: batches hold open requests in   *)
(* their order, checked requests have no open predecessor, and losses bound  *)
(* the repetitions.                                                          *)
THEOREM Invariance == Spec => []Inv
BY InitInv, StepInv, PTL DEF Spec

(* The state of the manager and of its table is always well formed, and a    *)
(* batch keeps to the LIMIT of the query.                                    *)
THEOREM TypeCorrect == Spec => []TypeOK
<1>1. Inv => TypeOK
  BY DEF Inv
<1> QED BY <1>1, Invariance, PTL

(* smDoCommand() marks a power request before it runs it: however often the  *)
(* manager crashes and the Pi restarts, a request is run at most once more   *)
(* than connections were lost.                                               *)
THEOREM PowerOnlyByLoss == Spec => []PowerRepeatsOnlyByLoss
<1>1. Inv => PowerRepeatsOnlyByLoss
  BY DEF Inv, Repeats, PowerRepeatsOnlyByLoss
<1> QED BY <1>1, Invariance, PTL

\* What a step may do to the calls and the results: only the request at the head of the batch is
\* run or answered, but for those the query expires.
LEMMA StepFacts ==
    ASSUME Inv, [Next]_vars, NEW r \in Id
    PROVE  /\ calls'[r] # calls[r] => r = Now /\ (PowerRun \/ UnitRun)
           /\ result'[r] # result[r] =>
                \/ Expire /\ result[r] = "none" /\ result'[r] = "expired"
                \/ PowerSet /\ r = Now
                \/ SetResult /\ r = Now /\ result'[r] = outcome /\ db = "up"
<1>1. calls \in [Id -> Nat] /\ result \in [Id -> Result]
  BY DEF Inv, TypeOK
<1>2. CASE PowerRun
  BY <1>1, <1>2 DEF PowerRun, Systemctl
<1>3. CASE UnitRun
  BY <1>1, <1>3 DEF UnitRun, Systemctl
<1>4. CASE Expire
  BY <1>1, <1>4 DEF Expire, Open
<1>5. CASE PowerSet
  BY <1>1, <1>5 DEF PowerSet, smSetResult
<1>6. CASE SetResult
  BY <1>1, <1>6 DEF SetResult, smSetResult
<1>7. CASE Select
  <2>1. UNCHANGED <<calls, result>>
    BY <1>7, Zenon DEF Select
  <2> QED BY <2>1
<1>8. CASE Post \/ TwoMinutesPass \/ Start \/ smConnect \/ CycleFails
           \/ Take \/ UnitRefresh \/ Refresh \/ Crash \/ PiRestarts \/ LoseConnection \/ UNCHANGED vars
  BY <1>8 DEF Post, TwoMinutesPass, Start, smConnect, CycleFails, Take, UnitRefresh, Refresh,
              Crash, PiRestarts, LoseConnection, vars
<1> QED
  BY <1>2, <1>3, <1>4, <1>5, <1>6, <1>7, <1>8 DEF Next, Manager, smCycle, smDoCommand

(* A request smCycle() has expired is neither run nor answered again, by any *)
(* batch of any incarnation of the manager.                                  *)
THEOREM ExpiredStaysExpired == Spec => ExpiredIsNeverRun
<1>1. ASSUME Inv, [Next]_vars, NEW r \in Id, result[r] = "expired"
      PROVE  calls'[r] = calls[r] /\ result'[r] = "expired"
  <2>1. pc \in InBatch => result[Now] # "expired"
    BY <1>1, HeadFacts
  <2>2. PowerRun \/ UnitRun \/ PowerSet \/ SetResult => pc \in InBatch
    BY DEF PowerRun, UnitRun, PowerSet, SetResult, InBatch
  <2> QED BY <1>1, <2>1, <2>2, StepFacts
<1>2. Inv /\ [Next]_vars =>
        [\A r \in Id : result[r] = "expired" => calls'[r] = calls[r] /\ result'[r] = "expired"]_vars
  BY <1>1
<1> QED BY <1>2, Invariance, PTL DEF Spec, ExpiredIsNeverRun

(* smCycle() fetches the oldest requests and smDoCommand() runs none whose   *)
(* answer it could not store: when a request is run, every earlier one has   *)
(* been answered, after any crashes, losses and repeated batches.            *)
THEOREM RequestsRunInOrder == Spec => InOrder
<1>1. ASSUME Inv, [Next]_vars, NEW r \in Id, calls'[r] # calls[r], NEW q \in 1 .. r - 1
      PROVE  result[q] # "none"
  <2>1. r = Now /\ pc \in Doing
    BY <1>1, StepFacts DEF PowerRun, UnitRun, Doing
  <2>2. q \in Id /\ q < r
    BY DEF Id
  <2> QED BY <1>1, <2>1, <2>2 DEF Inv, Behind
<1>2. Inv /\ [Next]_vars =>
        [\A r \in Id : calls'[r] # calls[r] => \A q \in 1 .. r - 1 : result[q] # "none"]_vars
  BY <1>1
<1> QED BY <1>2, Invariance, PTL DEF Spec, InOrder

(* smDoCommand() stores the new states before it answers: no answer to a     *)
(* unit's request is stored while the table shows the unit's old state.      *)
THEOREM StateComesFirst == Spec => ReportedStateIsStored
<1>1. ASSUME Inv, [Next]_vars, NEW r \in Id, result[r] = "none", result'[r] \in {"ok", "failed"}, ~ IsPower(r)
      PROVE  shown[Asks[r].unit] # "outdated"
  <2>1. ~ (PowerSet /\ r = Now)
    BY <1>1 DEF PowerSet, Inv, Checked
  <2>2. SetResult /\ r = Now /\ outcome \in {"ok", "failed"} /\ db = "up"
    BY <1>1, <2>1, StepFacts
  <2>3. pc = "setResult" /\ Asks[r].unit \in Listed
    BY <1>1, <2>2 DEF SetResult, Inv, Checked
  <2> QED BY <1>1, <2>2, <2>3 DEF Inv, Stored
<1>2. Inv /\ [Next]_vars =>
        [\A r \in Id : result[r] = "none" /\ result'[r] \in {"ok", "failed"} /\ ~ IsPower(r)
                       => shown[Asks[r].unit] # "outdated"]_vars
  BY <1>1
<1> QED BY <1>2, Invariance, PTL DEF Spec, ReportedStateIsStored
==============================================================================
