-------------------------- MODULE BootLoaderProofs ---------------------------
(***************************************************************************)
(* Proofs for BootLoader: for every size of the image and of a page, and   *)
(* any number of faults, no block is touched while the marker calls the    *)
(* image complete, and the application that runs is one whole image.       *)
(***************************************************************************)
EXTENDS BootLoader, SequenceTheorems, TLAPS

AllNew == \A b \in Block : flash[b] = "new"

\* The steps of an update after the loader has told the tool what it is.
Update == {"erase", "pages", "write", "writeAddr", "writeData", "read", "readAddr", "readLen",
           "go", "goAddr"}

Off == {"reset", "app", "autobaud"}

\* The tool has sent a part of the update and the loader waits for just that part.
Asked ==
    /\ line.part = tool /\ line.form # "cut" /\ line.block = at
    /\ replies = <<>>
    /\ cpu = IF tool \in {"erase", "write", "read", "go"} THEN "command" ELSE tool
    /\ got = "nothing"
    /\ tool \in {"writeData", "readLen"} => blk = at

\* The loader is at work on the part.
Busy ==
    /\ line.part = "none" /\ replies = <<>>
    /\ \/ tool = "pages" /\ cpu \in {"eraseMark", "erase"}
       \/ tool = "writeAddr" /\ cpu = "writeMark" /\ blk = at
       \/ tool = "writeData" /\ cpu = "program" /\ blk = at
       \/ tool = "goAddr" /\ cpu = "commit"

\* Where the loader is after the answer the tool hopes for.
Ready ==
    /\ tool \in {"pages", "writeData", "readLen"} => cpu = "command"
    /\ tool = "readLen" => flash[at] = "new"
    /\ tool = "erase" => cpu = "pages"
    /\ tool = "write" => cpu = "writeAddr"
    /\ tool = "writeAddr" => cpu = "writeData" /\ blk = at
    /\ tool = "read" => cpu = "readAddr"
    /\ tool = "readAddr" => cpu = "readLen" /\ blk = at
    /\ tool = "go" => cpu = "goAddr"

\* The part is answered and the answer not yet read.
Replied ==
    /\ line.part = "none" /\ Len(replies) = 1
    /\ cpu \notin Working
    /\ got = "nothing"
    /\ replies[1] = Wanted(tool) => Ready

\* The chip was reset under the tool.
Gone == line.part = "none" /\ replies = <<>> /\ cpu \in Off

\* From the answer to Get on, tool and loader are in step.
InStep == tool \in Update => Asked \/ Busy \/ Replied \/ Gone

\* A Get is answered last: the answers of an earlier run come before.
Handshaken ==
    /\ tool = "init" => /\ line.part \in {"init", "none"}
                        /\ \A i \in 1 .. Len(replies) : replies[i] # "info"
    /\ tool = "get" => /\ line.part \in {"get", "none"}
                       /\ \A i \in 1 .. Len(replies) :
                            replies[i] = "info" => /\ i = Len(replies)
                                                   /\ line.part = "none" /\ cpu = "command"

\* What the tool has verified is in the flash.
Written ==
    /\ tool \in {"boot", "init", "get", "erase", "pages"} => at = 1
    /\ tool \in {"write", "writeAddr", "writeData", "read", "readAddr", "readLen"} =>
         \A b \in Block : b < at => flash[b] = "new"
    /\ tool \in {"go", "goAddr"} => AllNew

\* A Go is only sent, received and carried out for a complete image.
GoIsRight ==
    /\ line.part = "go" => cpu = "command" /\ AllNew
    /\ cpu \in {"goAddr", "commit"} => AllNew

\* The marker.
Marked ==
    /\ marker = "complete" => Whole(flash)
    /\ cpu \in {"erase", "writeData", "program"} => marker = "updating"
    /\ cpu = "app" => marker = "complete"

Inv ==
    /\ TypeOK
    /\ Marked
    /\ GoIsRight
    /\ Written
    /\ InStep
    /\ Handshaken
    /\ cpu \notin Inner \cup {"autobaud"} => got = "nothing"

USE LoaderAssumption DEF Inner, Working, Part, Opens, Place, NoPart, PartOf, Content, Answer

------------------------------------------------------------------------------
\* What ack(), nack() and the other answers add to the answers on their way.
LEMMA ReplyFacts ==
    ASSUME TypeOK, NEW r \in Answer, Reply(r)
    PROVE  /\ replies' \in Seq(Answer)
           /\ Len(replies') = Len(replies) + 1
           /\ \A i \in 1 .. Len(replies) : replies'[i] = replies[i]
           /\ replies'[Len(replies) + 1] = r
BY DEF TypeOK, Reply

\* No part is a part.
LEMMA NoPartType ==
    NoPart \in [part : Part \cup {"none"}, form : {"whole", "garbled", "cut"}, block : Block]
BY DEF Block

\* Losing power leaves the flash and the marker of their types.
LEMMA PowerLostType ==
    ASSUME TypeOK, PowerLost
    PROVE  flash' \in [Block -> Content] /\ marker' \in {"complete", "updating"}
BY DEF TypeOK, PowerLost, Fill

\* A step, whoever takes it, keeps the state well formed.
LEMMA TypeStep == TypeOK /\ [Next]_vars => TypeOK'
<1> SUFFICES ASSUME TypeOK, [Next]_vars PROVE TypeOK' OBVIOUS
<1> USE DEF TypeOK, chip, host
<1>1. CASE Reset_Handler BY <1>1 DEF Reset_Handler, ld_app_valid, Plausible
<1>2. CASE App BY <1>2 DEF App
<1>3. CASE Autobaud
  <2>1. replies' \in Seq(Answer) BY <1>3, ReplyFacts DEF Autobaud
  <2>2. cpu' \in Place /\ got' \in {"nothing", "piece"} /\ line' = NoPart BY <1>3 DEF Autobaud
  <2>3. UNCHANGED <<flash, marker, flag, blk, data, todo, tool, at, faults>> BY <1>3 DEF Autobaud
  <2> QED BY <2>1, <2>2, <2>3, NoPartType
<1>d. CASE Deaf
  <2>1. replies' \in Seq(Answer) BY <1>d, ReplyFacts DEF Deaf
  <2> QED BY <1>d, <2>1, NoPartType DEF Deaf
<1>4. CASE NobodyComes BY <1>4 DEF NobodyComes, ld_app_valid, Plausible
<1>5. CASE ld_run
  <2>1. replies' \in Seq(Answer) BY <1>5, ReplyFacts DEF ld_run
  <2>2. cpu' \in Place BY <1>5 DEF ld_run
  <2>3. UNCHANGED <<flash, marker, flag, got, blk, data, todo, tool, at, faults>> /\ line' =
      NoPart BY <1>5 DEF ld_run
  <2> QED BY <2>1, <2>2, <2>3, NoPartType
<1>6. CASE Refuse
  <2>1. replies' \in Seq(Answer) BY <1>6, ReplyFacts DEF Refuse
  <2>2. got' \in {"nothing", "piece"} /\ line' = NoPart BY <1>6 DEF Refuse, Stray
  <2>3. UNCHANGED <<flash, marker, flag, blk, data, todo, tool, at, faults>> /\ cpu' = "command"
      BY <1>6 DEF Refuse
  <2> QED BY <2>1, <2>2, <2>3, NoPartType
<1>7. CASE Wait BY <1>7 DEF Wait
<1>8. CASE ReadAddr
  <2>1. replies' \in Seq(Answer) BY <1>8, ReplyFacts DEF ReadAddr
  <2>2. got' \in {"nothing", "piece"} /\ line' = NoPart /\ blk' \in Block BY <1>8 DEF ReadAddr,
      Comes, Stray
  <2>3. UNCHANGED <<flash, marker, flag, data, todo, tool, at, faults>> /\ cpu' = "readLen" BY
      <1>8 DEF ReadAddr
  <2> QED BY <2>1, <2>2, <2>3, NoPartType
<1>9. CASE ReadLen
  <2>1. replies' \in Seq(Answer) BY <1>9, ReplyFacts DEF ReadLen
  <2>2. got' \in {"nothing", "piece"} /\ line' = NoPart BY <1>9 DEF ReadLen, Comes, Stray
  <2>3. UNCHANGED <<flash, marker, flag, blk, data, todo, tool, at, faults>> /\ cpu' = "command"
      BY <1>9 DEF ReadLen
  <2> QED BY <2>1, <2>2, <2>3, NoPartType
<1>10. CASE WriteAddr BY <1>10 DEF WriteAddr, Comes, Stray
<1>11. CASE WriteMark BY <1>11 DEF WriteMark, Reply
<1>12. CASE WriteData BY <1>12 DEF WriteData, Comes, Stray
<1>13. CASE Program BY <1>13 DEF Program, Reply
<1>14. CASE ErasePages BY <1>14 DEF ErasePages, Comes, Stray
<1>15. CASE EraseMark BY <1>15 DEF EraseMark
<1>16. CASE ErasePage BY <1>16 DEF ErasePage, Fill
<1>17. CASE EraseDone BY <1>17 DEF EraseDone, Reply
<1>18. CASE GoAddr
  <2>1. replies' \in Seq(Answer) /\ cpu' \in Place BY <1>18, ReplyFacts DEF GoAddr
  <2>2. got' \in {"nothing", "piece"} /\ line' = NoPart BY <1>18 DEF GoAddr, Comes, Stray
  <2>3. UNCHANGED <<flash, marker, flag, blk, data, todo, tool, at, faults>> BY <1>18 DEF GoAddr
  <2> QED BY <2>1, <2>2, <2>3, NoPartType
<1>19. CASE Commit BY <1>19 DEF Commit, Reply
<1>20. CASE Start BY <1>20 DEF Start, Send
<1>21. CASE Handshake BY <1>21 DEF Handshake, Send
<1>22. CASE Proceed
  <2>1. replies' \in Seq(Answer) BY <1>22 DEF Proceed
  <2>2. tool' \in Part BY <1>22 DEF Proceed, After
  <2>3. at' \in Block BY <1>22 DEF Proceed, Block
  <2>4. line' \in [part : Part \cup {"none"}, form : {"whole", "garbled", "cut"}, block : Block]
    BY <1>22, <2>2, <2>3 DEF Proceed, Send
  <2> QED BY <1>22, <2>1, <2>2, <2>3, <2>4 DEF Proceed
<1>23. CASE Finish BY <1>23 DEF Finish
<1>24. CASE GiveUp BY <1>24 DEF GiveUp
<1>25. CASE TimeOut BY <1>25 DEF TimeOut
<1>26. CASE PowerCycle
  <2>1. PowerLost /\ faults' \in 0 .. MaxFaults BY <1>26 DEF PowerCycle
  <2>2. /\ cpu' = "reset" /\ flag' = "clear" /\ got' = "nothing"
        /\ line' = NoPart /\ replies' = <<>>
        /\ UNCHANGED <<blk, data, todo, tool, at>>
    BY <2>1 DEF PowerLost
  <2> QED BY <2>1, <2>2, PowerLostType, NoPartType
<1>27. CASE FlashError BY <1>27 DEF FlashError, Fault, Reply, Fill
<1>28. CASE PowerFails
  <2>1. PowerLost /\ faults' \in 0 .. MaxFaults BY <1>28 DEF PowerFails, Fault
  <2>2. /\ cpu' = "reset" /\ flag' = "clear" /\ got' = "nothing"
        /\ line' = NoPart /\ replies' = <<>>
        /\ UNCHANGED <<blk, data, todo, tool, at>>
    BY <2>1 DEF PowerLost
  <2> QED BY <2>1, <2>2, PowerLostType, NoPartType
<1>29. CASE Stopped BY <1>29 DEF Stopped, Fault
<1>30. CASE LineError
  <2>1. replies' \in Seq(Answer) BY <1>30 DEF LineError
  <2>2. line' \in [part : Part \cup {"none"}, form : {"whole", "garbled", "cut"}, block : Block]
    BY <1>30 DEF LineError
  <2> QED BY <1>30, <2>1, <2>2 DEF LineError, Fault
<1>s. CASE UNCHANGED vars BY <1>s DEF vars
<1> QED BY <1>1, <1>2, <1>3, <1>d, <1>4, <1>5, <1>6, <1>7, <1>8, <1>9, <1>10, <1>11, <1>12, <1>13,
    <1>14, <1>15, <1>16, <1>17, <1>18, <1>19, <1>20, <1>21, <1>22, <1>23, <1>24, <1>25, <1>26,
    <1>27, <1>28, <1>29, <1>30, <1>s DEF Next, Loader, Tool

\* Everything the invariant says beyond types.
Rest ==
    /\ Marked /\ GoIsRight /\ Written /\ InStep /\ Handshaken
    /\ cpu \notin Inner \cup {"autobaud"} => got = "nothing"

\* Something comes while the loader listens for a 0x7F, or at a wrong bit rate: no update is under way.
LEMMA UnheardStep ==
    ASSUME Inv, TypeOK', cpu \in {"autobaud", "deaf"}, line.part # "none", line' = NoPart,
           cpu' \in {"autobaud", "deaf", "command"},
           UNCHANGED <<flash, marker, blk, tool, at>>,
           cpu' \notin {"autobaud"} => got' = "nothing",
           UNCHANGED replies \/ \E r \in {"ack", "noise"} : Reply(r)
    PROVE  Rest'
<1> USE DEF Inv, TypeOK
<1>1. tool \notin Update BY DEF InStep, Asked, Busy, Replied, Gone, Update
<1>2. Marked' /\ GoIsRight' BY DEF Marked, Whole, GoIsRight, AllNew
<1>3. Written' BY DEF Written, AllNew
<1>4. InStep' BY <1>1 DEF InStep
<1>5. tool \in {"init", "get"} => \A i \in 1 .. Len(replies) : replies[i] # "info" BY DEF Handshaken
<1>6. tool \in {"init", "get"} => \A i \in 1 .. Len(replies') : replies'[i] # "info"
  <2>1. CASE UNCHANGED replies BY <2>1, <1>5
  <2>2. ASSUME NEW r \in {"ack", "noise"}, Reply(r)
        PROVE  tool \in {"init", "get"} => \A i \in 1 .. Len(replies') : replies'[i] # "info"
    BY <2>2, <1>5, ReplyFacts
  <2> QED BY <2>1, <2>2
<1>7. Handshaken' BY <1>6 DEF Handshaken
<1> QED BY <1>2, <1>3, <1>4, <1>7 DEF Rest

\* ld_autobaud() keeps the invariant, whatever it takes for a 0x7F.
LEMMA AutobaudStep == ASSUME Inv, TypeOK', Autobaud PROVE Rest'
<1>1. UNCHANGED replies \/ \E r \in {"ack", "noise"} : Reply(r) BY DEF Autobaud
<1> QED BY <1>1, UnheardStep DEF Autobaud, host

\* So does a loader that listens at a wrong bit rate.
LEMMA DeafStep == ASSUME Inv, TypeOK', Deaf PROVE Rest'
<1>1. \E r \in {"ack", "noise"} : Reply(r) BY DEF Deaf
<1>2. got' = "nothing" BY DEF Deaf, Inv
<1> QED BY <1>1, <1>2, UnheardStep DEF Deaf, host

\* ld_run() takes a command: it was the one the tool asked for, or the tool is not in an update.
LEMMA ld_runStep == ASSUME Inv, TypeOK', ld_run PROVE Rest'
<1> USE DEF Inv, TypeOK, host
<1>1. /\ line.part \in {"get", "init", "boot", "erase", "write", "read", "go"} \cup Inner
      /\ cpu = "command"
  BY DEF ld_run
<1>2. ~Busy /\ ~Replied /\ ~Gone BY <1>1 DEF Busy, Replied, Gone, Off
<1>3. tool \in Update => Asked BY <1>2 DEF InStep
<1>4. Len(replies') = Len(replies) + 1 /\ \A i \in 1 .. Len(replies) : replies'[i] = replies[i]
  BY ReplyFacts DEF ld_run
<1>5. /\ line' = NoPart /\ flash' = flash /\ marker' = marker /\ got' = got /\ tool' = tool
      /\ at' = at /\ blk' = blk
      /\ cpu' \in {"command", "pages", "writeAddr", "readAddr", "goAddr"}
  BY <1>1 DEF ld_run
<1>6. Marked' BY <1>5, <1>1 DEF Marked, Whole
<1>7. GoIsRight' BY <1>5, <1>1 DEF GoIsRight, AllNew, ld_run
<1>8. Written' BY <1>5 DEF Written, AllNew
<1>9. InStep'
  <2>1. CASE tool \in Update
    <3>1. replies = <<>> BY <2>1, <1>3 DEF Asked
    <3>2. Len(replies') = 1 /\ replies'[1] = Wanted(tool) => Ready'
      BY <2>1, <1>1, <1>3, <1>4, <1>5, <3>1, ReplyFacts DEF Asked, Ready, ld_run, Update, Wanted,
          Answered
    <3> QED BY <2>1, <1>1, <1>4, <1>5, <3>1, <3>2 DEF InStep, Replied, Wanted, Answered
  <2> QED BY <2>1, <1>5 DEF InStep
<1>10. Handshaken'
  <2>1. tool \in {"init", "get"} => \A i \in 1 .. Len(replies) : replies'[i] # "info"
    BY <1>1, <1>4 DEF Handshaken
  <2>2. CASE replies'[Len(replies')] = "info"
    <3>1. replies'[Len(replies')] # "ack" /\ replies'[Len(replies')] # "nack" BY <2>2
    <3>2. line.part = "get" /\ cpu' = "command" BY <1>1, <1>4, <3>1, ReplyFacts DEF ld_run
    <3> QED BY <1>4, <1>5, <2>1, <3>2 DEF Handshaken
  <2>3. CASE replies'[Len(replies')] # "info" BY <1>4, <1>5, <2>1, <2>3 DEF Handshaken
  <2> QED BY <2>2, <2>3
<1> QED BY <1>1, <1>5, <1>6, <1>7, <1>8, <1>9, <1>10 DEF Rest

\* cmdRead() answers: "same" means that the block the tool wrote is in the flash.
LEMMA ReadLenStep == ASSUME Inv, TypeOK', ReadLen PROVE Rest'
<1> USE DEF Inv, TypeOK, host
<1>1. cpu = "readLen" /\ line.part # "none" BY DEF ReadLen, Comes, Stray
<1>2. ~Busy /\ ~Replied /\ ~Gone BY <1>1 DEF Busy, Replied, Gone, Off
<1>3. tool \in Update => Asked /\ tool = "readLen" BY <1>1, <1>2 DEF InStep, Asked, Update
<1>4. /\ line' = NoPart /\ cpu' = "command" /\ got' = "nothing"
      /\ UNCHANGED <<flash, marker, blk, tool, at>>
  BY DEF ReadLen, Comes, Stray
<1>5. /\ Len(replies') = Len(replies) + 1
      /\ \A i \in 1 .. Len(replies) : replies'[i] = replies[i]
      /\ replies'[Len(replies) + 1] = IF flash[blk] = "new" THEN "same" ELSE "differs"
  BY ReplyFacts DEF ReadLen
<1>6. Marked' /\ GoIsRight' /\ Written' BY <1>1, <1>4 DEF Marked, Whole, GoIsRight, Written, AllNew
<1>7. InStep'
  <2>1. CASE tool \in Update
    <3>1. replies = <<>> BY <2>1, <1>3 DEF Asked
    <3>2. Len(replies') = 1 /\ (replies'[1] = Wanted(tool) => flash[blk] = "new")
      BY <1>3, <2>1, <1>5, <3>1 DEF Wanted, Answered
    <3>3. flash[blk] = "new" => Ready' BY <1>3, <1>4, <2>1 DEF Asked, Ready
    <3> QED BY <1>4, <3>2, <3>3 DEF InStep, Replied, Wanted, Answered
  <2> QED BY <2>1, <1>4 DEF InStep
<1>8. Handshaken' BY <1>1, <1>4, <1>5 DEF Handshaken
<1> QED BY <1>4, <1>6, <1>7, <1>8 DEF Rest

\* The tool goes on: after the answer to Get it is in step with the loader, and it stays so.
LEMMA ProceedStep == ASSUME Inv, TypeOK', Proceed PROVE Rest'
<1> USE DEF Inv, TypeOK, chip
<1>1. /\ UNCHANGED <<flash, marker, cpu, got, blk>>
      /\ replies # <<>> /\ replies' = Tail(replies)
      /\ tool' = After(tool)
      /\ line' = PartOf(After(tool), IF line.part = "none" THEN "whole" ELSE "garbled", at')
  BY DEF Proceed, Send
<1>2. Marked' BY <1>1 DEF Marked, Whole
<1>3. CASE tool = "init"
  <2>1. tool' = "get" /\ line'.part = "get" /\ at' = 1 BY <1>1, <1>3 DEF After, Proceed, Written
  <2>2. \A i \in 1 .. Len(replies') : replies'[i] # "info" BY <1>1, <1>3 DEF Handshaken
  <2> QED BY <1>1, <1>2, <2>1, <2>2 DEF Rest, GoIsRight, Written, InStep, Update, Handshaken, AllNew
<1>4. CASE tool = "get"
  <2>1. replies[1] = "info" BY <1>1, <1>4 DEF Proceed, Wanted, Answered
  <2>2. Len(replies) = 1 /\ line.part = "none" /\ cpu = "command"
    <3>1. 1 \in 1 .. Len(replies) BY <1>1
    <3> QED BY <1>4, <2>1, <3>1 DEF Handshaken
  <2>3. tool' = "erase" /\ at' = 1 /\ line' = PartOf("erase", "whole", 1)
    BY <1>1, <1>4, <2>2 DEF After, Proceed, Written
  <2>4. replies' = <<>> BY <1>1, <2>2
  <2>5. Asked' BY <1>1, <2>2, <2>3, <2>4 DEF Asked
  <2> QED BY <1>1, <1>2, <2>2, <2>3, <2>5 DEF Rest, GoIsRight, Written, InStep, Handshaken, AllNew
<1>5. CASE tool \in Update
  <2>1. Replied BY <1>1, <1>5 DEF InStep, Asked, Busy, Gone
  <2>2. replies[1] = Wanted(tool) /\ tool # "goAddr" BY <1>5 DEF Proceed, Update
  <2>3. Ready /\ line.part = "none" /\ replies' = <<>> BY <1>1, <2>1, <2>2 DEF Replied
  <2>4. line' = PartOf(tool', "whole", at') BY <1>1, <2>3
  <2>5. at' = IF tool = "readLen" /\ at < LastBlock THEN at + 1 ELSE at BY DEF Proceed
  <2>6. tool' \in Update BY <1>1, <1>5, <2>2 DEF After, Update
  <2>7. Asked' BY <1>1, <1>5, <2>1, <2>2, <2>3, <2>4, <2>5 DEF Asked, Ready, Replied, After, Update
  <2>8. Written'
    <3>1. CASE tool = "readLen"
      <4>1. \A b \in Block : b <= at => flash[b] = "new" BY <3>1, <2>3 DEF Written, Ready, Block
      <4> QED BY <1>1, <2>5, <3>1, <4>1 DEF Written, After, AllNew, Block
    <3>2. CASE tool \in {"erase", "pages"}
      <4>1. at' = 1 /\ tool' \in {"pages", "write"} BY <1>1, <2>5, <3>2 DEF Written, After
      <4> QED BY <4>1 DEF Written, Block
    <3>3. CASE tool \in Update \ {"erase", "pages", "readLen"}
      <4>1. at' = at /\ tool' \in {"writeAddr", "writeData", "read", "readAddr", "readLen",
          "goAddr"}
        BY <1>1, <2>2, <2>5, <3>3 DEF Update, After
      <4>2. tool' = "goAddr" => tool = "go" BY <1>1, <2>2, <3>3 DEF Update, After
      <4> QED BY <1>1, <2>2, <3>3, <4>1, <4>2 DEF Written, Update, AllNew
    <3> QED BY <1>5, <3>1, <3>2, <3>3
  <2>9. GoIsRight' BY <1>1, <1>5, <2>2, <2>3, <2>4, <2>8 DEF GoIsRight, Written, After, Ready,
      Update, AllNew
  <2> QED BY <1>1, <1>2, <2>6, <2>7, <2>8, <2>9 DEF Rest, InStep, Handshaken, Update
<1> QED BY <1>3, <1>4, <1>5 DEF Proceed, Update

\* cmdWrite() programs the block the tool is writing, and no other.
LEMMA ProgramStep == ASSUME Inv, TypeOK', Program PROVE Rest'
<1> USE DEF Inv, TypeOK, host
<1>1. cpu = "program" /\ marker = "updating" BY DEF Program, Marked
<1>2. /\ UNCHANGED <<marker, got, blk, line, tool, at>> /\ cpu' = "command"
      /\ \A b \in Block \ {blk} : flash'[b] = flash[b]
      /\ got = "nothing"
  BY <1>1 DEF Program
<1>3. tool \in Update => tool = "writeData" /\ blk = at /\ replies = <<>> /\ line.part = "none"
  BY <1>1 DEF InStep, Asked, Busy, Replied, Gone, Off, Update
<1>4. line.part # "go" BY <1>1 DEF GoIsRight
<1>5. /\ Len(replies') = Len(replies) + 1
      /\ \A i \in 1 .. Len(replies) : replies'[i] = replies[i]
      /\ replies'[Len(replies) + 1] # "info"
  BY ReplyFacts DEF Program
<1>6. Marked' /\ GoIsRight' BY <1>1, <1>2, <1>4 DEF Marked, GoIsRight
<1>7. Written' BY <1>2, <1>3 DEF Written, Update, Block
<1>8. InStep'
  <2>1. tool \in Update => Ready' BY <1>2, <1>3 DEF Ready
  <2>2. tool \in Update => Len(replies') = 1 BY <1>3, <1>5
  <2> QED BY <1>2, <1>3, <2>1, <2>2 DEF InStep, Replied
<1>9. Handshaken'
  <2>1. tool \in {"init", "get"} => \A i \in 1 .. Len(replies) : replies[i] # "info"
    BY <1>1 DEF Handshaken
  <2>2. tool \in {"init", "get"} => \A i \in 1 .. Len(replies') : replies'[i] # "info"
    BY <1>5, <2>1
  <2> QED BY <1>2, <2>2 DEF Handshaken
<1> QED BY <1>2, <1>6, <1>7, <1>8, <1>9 DEF Rest

\* The other steps; most of them leave the tool, the flash or the marker alone.
LEMMA RestStep == ASSUME Inv, TypeOK', [Next]_vars PROVE Rest'
<1> USE DEF Inv, Rest, TypeOK, chip, host, Marked, Whole, GoIsRight, AllNew, InStep, Asked, Busy,
    Replied, Gone, Ready, Update, Off, Written, Handshaken, Wanted, Answered
<1>1. CASE Reset_Handler BY <1>1, SMTT(30) DEF Reset_Handler, ld_app_valid, Plausible
<1>2. CASE App BY <1>2, SMTT(30) DEF App
<1>3. CASE Autobaud BY <1>3, AutobaudStep
<1>d. CASE Deaf BY <1>d, DeafStep
<1>4. CASE NobodyComes BY <1>4, SMTT(30) DEF NobodyComes, ld_app_valid, Plausible
<1>5. CASE ld_run BY <1>5, ld_runStep
<1>6. CASE Refuse BY <1>6, SMTT(30) DEF Refuse, Stray, Reply
<1>7. CASE Wait BY <1>7, SMTT(30) DEF Wait
<1>8. CASE ReadAddr BY <1>8, SMTT(30) DEF ReadAddr, Comes, Stray, Reply
<1>9. CASE ReadLen BY <1>9, ReadLenStep
<1>10. CASE WriteAddr BY <1>10, SMTT(30) DEF WriteAddr, Comes, Stray
<1>11. CASE WriteMark BY <1>11, SMTT(30) DEF WriteMark, Reply
<1>12. CASE WriteData BY <1>12, SMTT(30) DEF WriteData, Comes, Stray
<1>13. CASE Program BY <1>13, ProgramStep
<1>14. CASE ErasePages BY <1>14, SMTT(30) DEF ErasePages, Comes, Stray
<1>15. CASE EraseMark BY <1>15, SMTT(30) DEF EraseMark
<1>16. CASE ErasePage BY <1>16, SMTT(30) DEF ErasePage, Fill
<1>17. CASE EraseDone BY <1>17, SMTT(30) DEF EraseDone, Reply
<1>18. CASE GoAddr BY <1>18, SMTT(30) DEF GoAddr, Comes, Stray, Reply, Plausible
<1>19. CASE Commit BY <1>19, SMTT(30) DEF Commit, Reply
<1>20. CASE Start BY <1>20, SMTT(30) DEF Start, Send
<1>21. CASE Handshake BY <1>21, SMTT(30) DEF Handshake, Send
<1>22. CASE Proceed BY <1>22, ProceedStep
<1>23. CASE Finish BY <1>23, SMTT(30) DEF Finish
<1>24. CASE GiveUp BY <1>24, SMTT(30) DEF GiveUp
<1>25. CASE TimeOut BY <1>25, SMTT(30) DEF TimeOut
<1>26. CASE PowerCycle BY <1>26, SMTT(30) DEF PowerCycle, PowerLost, Fill
<1>27. CASE FlashError BY <1>27, SMTT(30) DEF FlashError, Fault, Reply, Fill
<1>28. CASE PowerFails BY <1>28, SMTT(30) DEF PowerFails, PowerLost, Fill, Fault
<1>29. CASE Stopped BY <1>29, SMTT(30) DEF Stopped, Fault
<1>30. CASE LineError BY <1>30, SMTT(30) DEF LineError, Fault
<1>31. CASE UNCHANGED vars BY <1>31 DEF vars
<1> QED BY <1>1, <1>2, <1>3, <1>d, <1>4, <1>5, <1>6, <1>7, <1>8, <1>9, <1>10, <1>11, <1>12, <1>13,
    <1>14, <1>15, <1>16, <1>17, <1>18, <1>19, <1>20, <1>21, <1>22, <1>23, <1>24, <1>25, <1>26,
    <1>27, <1>28, <1>29, <1>30, <1>31 DEF Next, Loader, Tool

------------------------------------------------------------------------------
\* The loader's and the tool's variables keep their types (BootLoader.TypeOK), in every step of the
\* loader, of the tool and of the faults.
THEOREM TypeCorrect == Spec => []TypeOK
<1>1. Init => TypeOK BY DEF Init, TypeOK, Block
<1> QED BY <1>1, TypeStep, PTL DEF Spec

\* The inductive invariant: marker, tool and loader agree about how far the update is.
THEOREM Invariance == Spec => []Inv
<1>1. Init => Inv
  <2> SUFFICES ASSUME Init PROVE Inv OBVIOUS
  <2>1. TypeOK BY DEF Init, TypeOK, Block
  <2> QED
    BY <2>1 DEF Init, Inv, Marked, Whole, GoIsRight, Written, InStep, Update, Handshaken
<1>2. Inv /\ [Next]_vars => Inv'
  <2> SUFFICES ASSUME Inv, [Next]_vars PROVE Inv' OBVIOUS
  <2>1. TypeOK' BY TypeStep DEF Inv
  <2>2. Rest' BY <2>1, RestStep
  <2> QED BY <2>1, <2>2 DEF Inv, Rest
<1> QED BY <1>1, <1>2, PTL DEF Spec

\* cmdErase() and cmdWrite() invalidate the marker before they touch the application, whatever the
\* host sends (BootLoader.MarkedBeforeTouched).
THEOREM MarkerComesFirst == Spec => MarkedBeforeTouched
<1>1. Inv /\ [Next]_vars => [flash' # flash => marker = "updating"]_vars
  <2> SUFFICES ASSUME Inv, Next, flash' # flash PROVE marker = "updating"
    OBVIOUS
  <2>1. cpu \in {"erase", "program"}
    BY DEF Next, Loader, Tool, Reset_Handler, App, Autobaud, Deaf, NobodyComes, ld_run, Refuse, Wait,
           ReadAddr, ReadLen, WriteAddr, WriteMark, WriteData, Program, ErasePages, EraseMark,
           ErasePage, EraseDone, GoAddr, Commit, Start, Handshake, Proceed, Finish, GiveUp, TimeOut,
           PowerCycle, FlashError, PowerFails, PowerLost, Stopped, LineError, chip
  <2> QED BY <2>1 DEF Inv, Marked
<1> QED BY <1>1, Invariance, PTL DEF Spec, MarkedBeforeTouched

\* Whatever fails during an update, and however often it is tried again, the application that
\* Reset_Handler() starts is one whole image (BootLoader.StartsWholeImage).
THEOREM NeverStartsHalfAnImage == Spec => []StartsWholeImage
<1>1. Inv => StartsWholeImage BY DEF Inv, Marked, StartsWholeImage
<1> QED BY <1>1, Invariance, PTL

==============================================================================
