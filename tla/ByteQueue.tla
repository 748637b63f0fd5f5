------------------------------ MODULE ByteQueue ------------------------------
(***************************************************************************)
(* What a caller of tools/RingBuffer.c may rely on: a bounded first-in     *)
(* first-out queue of bytes.  A block is stored whole or, when it does not *)
(* fit, the WHOLE queue is emptied ("old data never blocks new data").     *)
(* Nothing is ever removed in part.                                        *)
(***************************************************************************)
EXTENDS Integers, Sequences

CONSTANTS Byte,       \* values of one rb_sample_t
          Block,      \* the blocks callers pass to RingBuffer_addData
          Request,    \* the byte counts callers pass to getData and peek
          m_length    \* size of the storage; one byte of it stays unused

VARIABLES queue,      \* the bytes waiting
          ret         \* what the last call returned: [ok, data]

vars == <<queue, ret>>

Refused == [ok |-> FALSE, data |-> <<>>]

Init ==
    /\ queue = <<>>
    /\ ret = [ok |-> TRUE, data |-> <<>>]

Add(block) ==
    \/ /\ Len(queue) + Len(block) < m_length
       /\ queue' = queue \o block
       /\ ret' = [ok |-> TRUE, data |-> <<>>]
    \/ /\ Len(queue) + Len(block) >= m_length
       /\ queue' = <<>>
       /\ ret' = Refused

Get(n) ==
    \/ /\ n <= Len(queue)
       /\ ret' = [ok |-> TRUE, data |-> SubSeq(queue, 1, n)]
       /\ queue' = SubSeq(queue, n + 1, Len(queue))
    \/ /\ n > Len(queue)
       /\ ret' = Refused
       /\ queue' = queue

Peek(n) ==
    /\ queue' = queue
    /\ ret' = IF n <= Len(queue) THEN [ok |-> TRUE, data |-> SubSeq(queue, 1, n)]
                                 ELSE Refused

Clear ==
    /\ queue' = <<>>
    /\ ret' = ret

Next ==
    \/ \E block \in Block : Add(block)
    \/ \E n \in Request : Get(n) \/ Peek(n)
    \/ Clear

Spec == Init /\ [][Next]_vars
==============================================================================
