----------------------------- MODULE BootLoader ------------------------------
(***************************************************************************)
(* The serial loader of the sample modem (loader_core.c, loader_hw.c) and  *)
(* the tool that updates the modem through it (openmt_flash.sh, which runs *)
(* stm32flash -w -v -g).  Flash and the completion marker survive a power  *)
(* failure; the boot flag survives a reset only.  Power may fail in the    *)
(* middle of any flash operation, bytes may arrive damaged, and the tool   *)
(* may stop anywhere, in the middle of what it sends too, and be started   *)
(* again.                                                                  *)
(*                                                                         *)
(* A command travels in parts; the tool waits for the answer to each one.  *)
(* Flash is seen as the blocks the tool writes, one Write Memory each.     *)
(***************************************************************************)
EXTENDS Naturals, Sequences, FiniteSets

CONSTANTS LastBlock,     \* the image is blocks 1 .. LastBlock; block 1 holds the vector table
          PageBlocks,    \* blocks in a flash page
          MaxFaults      \* bound on damaged parts, flash errors, stops of the tool and power failures

ASSUME LoaderAssumption ==
    /\ LastBlock \in Nat \ {0}
    /\ PageBlocks \in Nat \ {0}
    /\ MaxFaults \in Nat

Block == 1 .. LastBlock
PageOf(b) == (b - 1) \div PageBlocks
Page == {PageOf(b) : b \in Block}

VARIABLES flash,     \* contents of each block of the application area
          marker,    \* the completion marker: "complete" (FFFF) or "updating"
          flag,      \* the boot flag at the end of RAM: "magic" or "clear"
          cpu,       \* where the chip is: the application, or a place in the loader
          got,       \* has the loader read something of the part it waits for? "nothing" or "piece"
          blk,       \* the address received last
          data,      \* contents of buf[]
          todo,      \* pages still to be erased
          line,      \* the part on its way to the chip
          replies,   \* answers on their way to the tool
          tool,      \* the part the tool waits to be answered
          at,        \* the block the tool is writing
          faults     \* faults so far

chip == <<flash, marker, flag, cpu, got, blk, data, todo>>
host == <<tool, at>>
vars == <<chip, line, replies, host, faults>>

Content == {"old", "new", "erased", "torn"}
Answer == {"ack", "nack", "info", "same", "differs", "noise"}

\* Parts the loader waits for inside a command; the place is named after the part.
Inner == {"pages", "writeAddr", "writeData", "readAddr", "readLen", "goAddr"}

\* Parts that begin a command, and the place each one leads to.
Opens == [erase |-> "pages", write |-> "writeAddr", read |-> "readAddr", go |-> "goAddr"]

Part == {"boot", "init", "get"} \cup DOMAIN Opens \cup Inner

\* Places where the flash controller works.
Working == {"eraseMark", "erase", "writeMark", "program", "commit"}

Place == {"reset", "app", "autobaud", "deaf", "command"} \cup Inner \cup Working

NoPart == [part |-> "none", form |-> "whole", block |-> 1]
PartOf(p, f, b) == [part |-> p, form |-> f, block |-> b]

Init ==
    /\ flash = [b \in Block |-> "old"]
    /\ marker = "complete"
    /\ flag = "clear"
    /\ cpu = "app"
    /\ got = "nothing"
    /\ blk = 1
    /\ data = "torn"
    /\ todo = {}
    /\ line = NoPart
    /\ replies = <<>>
    /\ tool = "idle"
    /\ at = 1
    /\ faults = 0

\* Every block is of the same image.
Whole(f) == \/ \A b \in Block : f[b] = "old"
            \/ \A b \in Block : f[b] = "new"

Fault == faults < MaxFaults /\ faults' = faults + 1

------------------------------------------------------------------------------
\* The loader.  An answer goes to the tool if one waits; Reply is the last thing a command does.
Reply(r) == replies' = Append(replies, r)

\* The check of the vector table, on whatever block 1 holds.
Plausible(ok) ==
    \/ flash[1] \in {"old", "new"} /\ ok
    \/ flash[1] = "erased" /\ ~ok
    \/ flash[1] = "torn"

\* Mutant: the marker is not looked at.
ld_app_valid_vectorsOnly(ok) == Plausible(ok)

\* ld_app_valid(): the marker first, then the vector table.
ld_app_valid(ok) == IF marker = "complete" THEN Plausible(ok) ELSE ~ok

\* Mutant: the flag is left set.
Reset_Handler_keepsFlag ==
    /\ cpu = "reset"
    /\ \E ok \in BOOLEAN :
         /\ ld_app_valid(ok)
         /\ cpu' = IF flag = "clear" /\ ok THEN "app" ELSE "autobaud"
    /\ got' = "nothing"
    /\ UNCHANGED <<flash, marker, flag, blk, data, todo, line, replies, host, faults>>

\* Reset_Handler(): the flag is good for one reset.
Reset_Handler ==
    /\ cpu = "reset"
    /\ flag' = "clear"
    /\ \E ok \in BOOLEAN :
         /\ ld_app_valid(ok)
         /\ cpu' = IF flag = "clear" /\ ok THEN "app" ELSE "autobaud"
    /\ got' = "nothing"
    /\ UNCHANGED <<flash, marker, blk, data, todo, line, replies, host, faults>>

\* The application: the BOOT frame sets the flag and resets; it ignores anything else.
App ==
    /\ cpu = "app" /\ line.part # "none"
    /\ line' = NoPart
    /\ IF line.part = "boot" /\ line.form = "whole"
         THEN flag' = "magic" /\ cpu' = "reset"
         ELSE UNCHANGED <<flag, cpu>>
    /\ UNCHANGED <<flash, marker, got, blk, data, todo, replies, host, faults>>

\* ld_autobaud(): waits for 0x7F, measures it and ld_run() answers.  Anything else is skipped, or some
\* of it looks like a 0x7F, of the right bit rate or of another one; the BOOT frame is too fast for it.
Autobaud ==
    /\ cpu = "autobaud" /\ line.part # "none"
    /\ line' = NoPart
    /\ LET clean == line.form = "whole" IN
         \/ /\ clean => line.part # "boot"
            /\ cpu' = "command" /\ got' = "nothing" /\ Reply("ack")
         \/ /\ clean => line.part \notin {"boot", "init"}
            /\ cpu' = "deaf" /\ got' = "nothing" /\ Reply("noise")
         \/ /\ clean => line.part # "init"
            /\ got' = "piece" /\ UNCHANGED <<cpu, replies>>
    /\ UNCHANGED <<flash, marker, flag, blk, data, todo, host, faults>>

\* At a wrong bit rate the loader understands nothing and is not understood.
Deaf ==
    /\ cpu = "deaf" /\ line.part # "none"
    /\ line' = NoPart
    /\ Reply("noise")
    /\ UNCHANGED <<flash, marker, flag, cpu, got, blk, data, todo, host, faults>>

\* ld_autobaud(): nobody comes within 10 s; ld_launch() if there is an application.  Once a byte has
\* come this is not looked at any more.  A tool that has sent the BOOT frame comes after 0.5 s.
NobodyComes ==
    /\ cpu = "autobaud" /\ got = "nothing" /\ line.part = "none" /\ tool # "boot"
    /\ ld_app_valid(TRUE)
    /\ cpu' = "reset"
    /\ UNCHANGED <<flash, marker, flag, got, blk, data, todo, line, replies, host, faults>>

\* ld_run(): the command byte and its complement; a 0x7F, and anything else, gets NACK.  cmdGet(),
\* cmdGvr() and cmdGid() answer at once.
ld_run ==
    /\ cpu = "command" /\ line.part # "none"
    /\ line' = NoPart
    /\ \/ /\ line.form = "whole" /\ line.part = "get"
          /\ Reply("info")
          /\ UNCHANGED cpu
       \/ /\ line.form = "whole" /\ line.part \in DOMAIN Opens
          /\ cpu' = Opens[line.part]
          /\ Reply("ack")
       \/ /\ line.form # "whole" \/ line.part \notin DOMAIN Opens \cup {"get"}
          /\ Reply("nack")
          /\ UNCHANGED cpu
    /\ UNCHANGED <<flash, marker, flag, got, blk, data, todo, host, faults>>

\* The part the loader waits for has come, whole.
Comes(p) == cpu = p /\ got = "nothing" /\ line.part = p /\ line.form = "whole" /\ line' = NoPart

\* The loader has read something else as the part it waits for: what a later run of the tool sends
\* completes what an earlier one began.  It fits only by accident, which is allowed.
Stray(p) ==
    /\ cpu = p /\ line.part # "none" /\ line.form # "cut"
    /\ got = "piece" \/ line.part # p
    /\ line' = NoPart /\ got' = "nothing"

\* A part with a line error, or put together by accident that does not fit, is refused.
Refuse ==
    \E p \in Inner :
      /\ \/ Stray(p)
         \/ /\ cpu = p /\ got = "nothing" /\ line.part = p /\ line.form = "garbled"
            /\ line' = NoPart /\ UNCHANGED got
      /\ cpu' = "command"
      /\ Reply("nack")
      /\ UNCHANGED <<flash, marker, flag, blk, data, todo, host, faults>>

\* Too few bytes: rx() goes on waiting.
Wait ==
    /\ cpu \in Inner /\ line.part # "none"
    /\ line.form = "cut" \/ got = "piece" \/ line.part # cpu
    /\ line' = NoPart /\ got' = "piece"
    /\ UNCHANGED <<flash, marker, flag, cpu, blk, data, todo, replies, host, faults>>

\* cmdRead(): the address is only looked at, then block blk is sent.
ReadAddr ==
    /\ \/ Comes("readAddr") /\ blk' = line.block /\ UNCHANGED got
       \/ Stray("readAddr") /\ blk' \in Block
    /\ cpu' = "readLen" /\ Reply("ack")
    /\ UNCHANGED <<flash, marker, flag, data, todo, host, faults>>

ReadLen ==
    /\ \/ Comes("readLen") /\ UNCHANGED got
       \/ Stray("readLen")
    /\ cpu' = "command" /\ Reply(IF flash[blk] = "new" THEN "same" ELSE "differs")
    /\ UNCHANGED <<flash, marker, flag, blk, data, todo, host, faults>>

\* cmdWrite(): a good address leads to ld_marker_invalidate() ...
WriteAddr ==
    /\ \/ Comes("writeAddr") /\ blk' = line.block /\ UNCHANGED got
       \/ Stray("writeAddr") /\ blk' \in Block
    /\ cpu' = "writeMark"
    /\ UNCHANGED <<flash, marker, flag, data, todo, replies, host, faults>>

\* ... which leaves a marker alone that is not valid ...
WriteMark ==
    /\ cpu = "writeMark"
    /\ marker' = "updating"
    /\ cpu' = "writeData" /\ Reply("ack")
    /\ UNCHANGED <<flash, flag, got, blk, data, todo, line, host, faults>>

\* ... then the data are received ...
WriteData ==
    /\ \/ Comes("writeData") /\ data' = "new" /\ UNCHANGED got
       \/ Stray("writeData") /\ data' = "torn"
    /\ cpu' = "program"
    /\ UNCHANGED <<flash, marker, flag, blk, todo, replies, host, faults>>

\* ... and programmed; flash that is not erased gives an error.
Program ==
    /\ cpu = "program"
    /\ IF flash[blk] = "erased"
         THEN flash' = [flash EXCEPT ![blk] = data] /\ Reply("ack")
         ELSE UNCHANGED flash /\ Reply("nack")
    /\ cpu' = "command"
    /\ UNCHANGED <<marker, flag, got, blk, data, todo, line, host, faults>>

\* Mutant: the number of a page is not checked.
ErasePages_anyPage ==
    /\ \/ Comes("pages") /\ todo' = Page /\ UNCHANGED got
       \/ Stray("pages") /\ todo' \in SUBSET (Page \cup {PageOf(LastBlock) + 1})
    /\ cpu' = "eraseMark"
    /\ UNCHANGED <<flash, marker, flag, blk, data, replies, host, faults>>

\* cmdErase(): the list of pages, or the global erase, ...
ErasePages ==
    /\ \/ Comes("pages") /\ todo' = Page /\ UNCHANGED got
       \/ Stray("pages") /\ todo' \in SUBSET Page
    /\ cpu' = "eraseMark"
    /\ UNCHANGED <<flash, marker, flag, blk, data, replies, host, faults>>

\* Mutant: only Write Memory marks the application as incomplete.
EraseMark_leftForWrite ==
    /\ cpu = "eraseMark"
    /\ cpu' = "erase"
    /\ UNCHANGED <<flash, marker, flag, got, blk, data, todo, line, replies, host, faults>>

\* ... ld_marker_invalidate() ...
EraseMark ==
    /\ cpu = "eraseMark"
    /\ marker' = "updating"
    /\ cpu' = "erase"
    /\ UNCHANGED <<flash, flag, got, blk, data, todo, line, replies, host, faults>>

\* Page g becomes c in flash f.
Fill(f, g, c) == [b \in Block |-> IF PageOf(b) = g THEN c ELSE f[b]]

\* ... then one page after the other.
ErasePage ==
    /\ cpu = "erase"
    /\ \E g \in todo : /\ flash' = Fill(flash, g, "erased")
                       /\ todo' = todo \ {g}
    /\ UNCHANGED <<marker, flag, cpu, got, blk, data, line, replies, host, faults>>

EraseDone ==
    /\ cpu = "erase" /\ todo = {}
    /\ cpu' = "command" /\ Reply("ack")
    /\ UNCHANGED <<flash, marker, flag, got, blk, data, todo, line, host, faults>>

\* cmdGo(): the vector table is checked before the marker page is erased; a bad one is refused.
GoAddr ==
    /\ \/ Comes("goAddr") /\ UNCHANGED got
       \/ Stray("goAddr")
    /\ \/ Plausible(TRUE) /\ cpu' = "commit" /\ UNCHANGED replies
       \/ Plausible(FALSE) /\ cpu' = "command" /\ Reply("nack")
    /\ UNCHANGED <<flash, marker, flag, blk, data, todo, host, faults>>

\* ld_marker_commit(), the answer, and ld_launch().
Commit ==
    /\ cpu = "commit"
    /\ marker' = "complete"
    /\ cpu' = "reset" /\ Reply("ack")
    /\ UNCHANGED <<flash, flag, got, blk, data, todo, line, host, faults>>

\* The flash controller reports an error: the command is refused half done.
FlashError ==
    /\ Fault
    /\ cpu \in Working
    /\ cpu = "erase" => todo # {}
    /\ cpu \in {"eraseMark", "writeMark"} => marker = "complete"
    /\ cpu = "commit" => marker = "updating"
    /\ cpu' = "command" /\ Reply("nack")
    /\ \/ UNCHANGED flash
       \/ cpu = "program" /\ flash' = [flash EXCEPT ![blk] = "torn"]
       \/ cpu = "erase" /\ \E g \in todo : flash' = Fill(flash, g, "torn")
    /\ UNCHANGED <<marker, flag, got, blk, data, todo, line, host>>

\* Power fails, or comes back after the operator took it away: a flash operation stops in the middle.
PowerLost ==
    /\ cpu' = "reset" /\ flag' = "clear" /\ got' = "nothing"
    /\ line' = NoPart /\ replies' = <<>>
    /\ \/ UNCHANGED <<flash, marker>>
       \/ cpu = "program" /\ flash' = [flash EXCEPT ![blk] = "torn"] /\ UNCHANGED marker
       \/ cpu = "erase" /\ (\E g \in todo : flash' = Fill(flash, g, "torn")) /\ UNCHANGED marker
       \/ cpu \in {"eraseMark", "writeMark"} /\ marker' = "updating" /\ UNCHANGED flash
       \/ cpu = "commit" /\ marker' = "complete" /\ UNCHANGED flash
    /\ UNCHANGED <<blk, data, todo, host>>

PowerFails == Fault /\ PowerLost

------------------------------------------------------------------------------
\* openmt_flash.sh and stm32flash: one part after the other, each after the answer to the one before.
\* What is sent while an earlier part was not read yet damages it.
Send(p, b) == line' = PartOf(p, IF line.part = "none" THEN "whole" ELSE "garbled", b)

Answered == [get |-> "info", readLen |-> "same"]
Wanted(p) == IF p \in DOMAIN Answered THEN Answered[p] ELSE "ack"

\* The part that follows part p, for block b.
After(p) ==
    CASE p = "init" -> "get"
      [] p = "get" -> "erase"
      [] p = "erase" -> "pages"
      [] p = "pages" -> "write"
      [] p = "write" -> "writeAddr"
      [] p = "writeAddr" -> "writeData"
      [] p = "writeData" -> "read"
      [] p = "read" -> "readAddr"
      [] p = "readAddr" -> "readLen"
      [] p = "readLen" -> IF at < LastBlock THEN "write" ELSE "go"
      [] p = "go" -> "goAddr"

\* openmt_flash.sh: a run begins, the port is flushed and the BOOT frame sent.
Start ==
    /\ tool \in {"idle", "failed"}
    /\ tool' = "boot" /\ at' = 1
    /\ Send("boot", 1)
    /\ replies' = <<>>
    /\ UNCHANGED <<chip, faults>>

\* 0.5 s later stm32flash opens the port and sends 0x7F.
Handshake ==
    /\ tool = "boot"
    /\ line.part = "none" \/ cpu \in Working
    /\ cpu # "reset"
    /\ tool' = "init"
    /\ Send("init", 1)
    /\ replies' = <<>>
    /\ UNCHANGED <<chip, at, faults>>

\* stm32flash takes NACK as the answer of a loader that was already in step.
Proceed ==
    /\ replies # <<>> /\ tool \in Part \ {"boot", "goAddr"}
    /\ \/ Head(replies) = Wanted(tool)
       \/ tool = "init" /\ Head(replies) = "nack"
    /\ replies' = Tail(replies)
    /\ tool' = After(tool)
    /\ at' = IF tool = "readLen" /\ at < LastBlock THEN at + 1 ELSE at
    /\ Send(After(tool), at')
    /\ UNCHANGED <<chip, faults>>

Finish ==
    /\ tool = "goAddr" /\ replies # <<>> /\ Head(replies) = "ack"
    /\ tool' = "done"
    /\ replies' = Tail(replies)
    /\ UNCHANGED <<chip, line, at, faults>>

\* Any other answer ends the run.
GiveUp ==
    /\ replies # <<>> /\ tool \in Part \ {"boot"}
    /\ Head(replies) # Wanted(tool)
    /\ ~(tool = "init" /\ Head(replies) = "nack")
    /\ tool' = "failed"
    /\ replies' = Tail(replies)
    /\ UNCHANGED <<chip, line, at, faults>>

\* No answer comes any more.
TimeOut ==
    /\ tool \in Part \ {"boot"} /\ replies = <<>> /\ line.part = "none"
    /\ cpu \notin Working \cup {"reset"}
    /\ tool' = "failed"
    /\ UNCHANGED <<chip, line, replies, at, faults>>

\* The tool is stopped, or gives up too early; what it was sending may be cut off.
Stopped ==
    /\ Fault
    /\ tool \in Part
    /\ tool' = "failed"
    /\ \/ UNCHANGED line
       \/ line.part # "none" /\ line' = [line EXCEPT !.form = "cut"]
    /\ UNCHANGED <<chip, replies, at>>

\* A byte of the part, or of the answer, is damaged on the line.
LineError ==
    /\ Fault
    /\ \/ line.part # "none" /\ line' = [line EXCEPT !.form = "garbled"] /\ UNCHANGED replies
       \/ replies # <<>> /\ replies' = <<"noise">> \o Tail(replies) /\ UNCHANGED line
    /\ UNCHANGED <<chip, host>>

\* After a failed run the operator may take the power away.
PowerCycle ==
    /\ tool = "failed" /\ cpu # "app"
    /\ PowerLost
    /\ UNCHANGED faults

Loader == \/ Reset_Handler \/ App \/ Autobaud \/ Deaf \/ NobodyComes \/ ld_run
          \/ Refuse \/ Wait \/ ReadAddr \/ ReadLen
          \/ WriteAddr \/ WriteMark \/ WriteData \/ Program
          \/ ErasePages \/ EraseMark \/ ErasePage \/ EraseDone \/ GoAddr \/ Commit

Tool == Start \/ Handshake \/ Proceed \/ Finish \/ GiveUp \/ TimeOut

Next == \/ Loader \/ Tool \/ PowerCycle
        \/ FlashError \/ PowerFails \/ Stopped \/ LineError

Spec == Init /\ [][Next]_vars

\* The chip runs, the tool goes on and is started again until it succeeds, and the operator takes
\* the power away now and then when it does not.
FairSpec == Spec /\ WF_vars(Loader) /\ WF_vars(Tool) /\ SF_vars(PowerCycle)

------------------------------------------------------------------------------
\* The state is well formed.
TypeOK ==
    /\ flash \in [Block -> Content]
    /\ marker \in {"complete", "updating"}
    /\ flag \in {"magic", "clear"}
    /\ cpu \in Place
    /\ got \in {"nothing", "piece"}
    /\ blk \in Block
    /\ data \in {"new", "torn"}
    /\ todo \in SUBSET Page
    /\ line \in [part : Part \cup {"none"}, form : {"whole", "garbled", "cut"}, block : Block]
    /\ replies \in Seq(Answer)
    /\ tool \in Part \cup {"idle", "failed", "done"}
    /\ at \in Block
    /\ faults \in 0 .. MaxFaults

\* "A failed or interrupted update leaves the loader waiting for a new image": the application that
\* runs is the old image or the new one, never a mixture and never a half-erased one (ld_app_valid(),
\* Reset_Handler()).
StartsWholeImage == cpu = "app" => Whole(flash)

\* cmdErase() and cmdWrite() touch no block of the application while the marker calls it complete.
MarkedBeforeTouched == [][flash' # flash => marker = "updating"]_vars

\* "The board cannot be bricked": with the tool run again, and the power cycled, the new image is
\* started in the end, whatever happened before.
UpdateGetsThrough == <>[](cpu = "app" /\ \A b \in Block : flash[b] = "new")
==============================================================================
