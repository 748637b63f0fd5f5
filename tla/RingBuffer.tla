----------------------------- MODULE RingBuffer ------------------------------
(***************************************************************************)
(* tools/RingBuffer.c: the byte ring every program of the suite uses       *)
(* between its threads.  Two indices run around the storage; they are      *)
(* equal when the ring is empty, so the ring must never be filled to its   *)
(* last byte.  The callers hold a mutex around each call, so a call is one *)
(* step here.                                                              *)
(***************************************************************************)
EXTENDS Integers, Sequences

CONSTANTS Byte, Block, Request, m_length

ASSUME RingAssumption ==
    /\ m_length \in Nat \ {0}
    /\ 0 \in Byte                      \* the storage is zeroed
    /\ Block \subseteq Seq(Byte)
    /\ Request \subseteq Nat

VARIABLES m_buffer,   \* the storage
          m_iPtr,     \* where the next byte is written
          m_oPtr,     \* where the next byte is read
          ret         \* what the last call gave its caller

ring == <<m_buffer, m_iPtr, m_oPtr, ret>>

Index == 0 .. m_length - 1

\* ptr++; if (ptr == m_length) ptr = 0, taken n < m_length times.
Wrap(p) == IF p >= m_length THEN p - m_length ELSE p

\* Steps from one index to another in the direction the indices run.
Ahead(from, to) == IF to >= from THEN to - from ELSE to - from + m_length

RingBuffer_freeSpace ==
    IF m_oPtr > m_iPtr THEN m_oPtr - m_iPtr
    ELSE IF m_iPtr > m_oPtr THEN m_length - (m_iPtr - m_oPtr)
    ELSE m_length

RingBuffer_dataSize == m_length - RingBuffer_freeSpace

\* The n bytes a reader finds from the read index on.
Oldest(n) == [k \in 1 .. n |-> m_buffer[Wrap(m_oPtr + k - 1)]]

Zeroed == [i \in Index |-> 0]

RingBuffer_Init ==
    /\ m_buffer = Zeroed
    /\ m_iPtr = 0
    /\ m_oPtr = 0
    /\ ret = [ok |-> TRUE, data |-> <<>>]

RingBuffer_clear ==
    /\ m_buffer' = Zeroed
    /\ m_iPtr' = 0
    /\ m_oPtr' = 0

\* Copies the block in at the write index.
Store(block) ==
    /\ m_buffer' = [i \in Index |->
                       IF Ahead(m_iPtr, i) < Len(block) THEN block[Ahead(m_iPtr, i) + 1]
                                                        ELSE m_buffer[i]]
    /\ m_iPtr' = Wrap(m_iPtr + Len(block))
    /\ m_oPtr' = m_oPtr

RingBuffer_addData_fillsToLastByte(block) ==
    IF Len(block) > RingBuffer_freeSpace
    THEN RingBuffer_clear /\ ret' = [ok |-> FALSE, data |-> <<>>]
    ELSE Store(block)     /\ ret' = [ok |-> TRUE,  data |-> <<>>]

RingBuffer_addData(block) ==
    IF Len(block) >= RingBuffer_freeSpace
    THEN RingBuffer_clear /\ ret' = [ok |-> FALSE, data |-> <<>>]
    ELSE Store(block)     /\ ret' = [ok |-> TRUE,  data |-> <<>>]

RingBuffer_getData(n) ==
    \/ /\ n <= RingBuffer_dataSize
       /\ ret' = [ok |-> TRUE, data |-> Oldest(n)]
       /\ m_oPtr' = Wrap(m_oPtr + n)
       /\ UNCHANGED <<m_buffer, m_iPtr>>
    \/ /\ n > RingBuffer_dataSize
       /\ ret' = [ok |-> FALSE, data |-> <<>>]
       /\ UNCHANGED <<m_buffer, m_iPtr, m_oPtr>>

RingBuffer_peek(n) ==
    /\ ret' = IF n <= RingBuffer_dataSize THEN [ok |-> TRUE, data |-> Oldest(n)]
                                          ELSE [ok |-> FALSE, data |-> <<>>]
    /\ UNCHANGED <<m_buffer, m_iPtr, m_oPtr>>

RingBuffer_Next ==
    \/ \E block \in Block : RingBuffer_addData(block)
    \/ \E n \in Request : RingBuffer_getData(n) \/ RingBuffer_peek(n)
    \/ RingBuffer_clear /\ UNCHANGED ret

RingBuffer_Spec == RingBuffer_Init /\ [][RingBuffer_Next]_ring

------------------------------------------------------------------------------
\* A call's outcome and the bytes it handed over.
Return == [ok : BOOLEAN, data : Seq(Byte)]

(* The indices stay inside the storage that RingBuffer_Init allocated, and  *)
(* every byte handed to a caller is a byte.                                 *)
RingBuffer_TypeOK ==
    /\ m_buffer \in [Index -> Byte]
    /\ m_iPtr \in Index
    /\ m_oPtr \in Index
    /\ ret \in Return

\* The bytes the ring holds, oldest first.
Contents == Oldest(RingBuffer_dataSize)

Abstract == INSTANCE ByteQueue WITH queue <- Contents

(* Every call of RingBuffer.c is a call of the abstract byte queue: bytes   *)
(* come out once, in order and unaltered, across any number of laps around  *)
(* the storage, and a block that does not fit empties the ring.             *)
ImplementsByteQueue == Abstract!Spec
==============================================================================
