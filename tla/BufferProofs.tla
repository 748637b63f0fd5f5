---------------------------- MODULE BufferProofs -----------------------------
(***************************************************************************)
(* The two buffers between a program and the modem: the byte ring inside   *)
(* the host, and the modem's transmit buffer at the far end of the line.   *)
(* For every storage size, byte set and set of calls the ring's indices    *)
(* stay in its storage and the ring implements the byte queue.  For every  *)
(* size of the modem's buffer, of the line and of the list of requests,    *)
(* credit pacing never sends a frame the modem has to refuse, unless a     *)
(* frame leaves while a reply is being turned into credit.                 *)
(***************************************************************************)
EXTENDS RingBuffer, CreditPacing, SequenceTheorems, FiniteSetTheorems, TLAPS

------------------------------------------------------------------------------
(* Index arithmetic *)

LEMMA SizeRange ==
    ASSUME m_iPtr \in Index, m_oPtr \in Index
    PROVE  /\ RingBuffer_dataSize \in 0 .. m_length - 1
           /\ RingBuffer_freeSpace \in 1 .. m_length
           /\ RingBuffer_dataSize = Ahead(m_oPtr, m_iPtr)
           /\ RingBuffer_freeSpace = m_length - Ahead(m_oPtr, m_iPtr)
  BY RingAssumption DEF RingBuffer_dataSize, RingBuffer_freeSpace, Index, Ahead

LEMMA WrapRange ==
    ASSUME NEW p \in Index, NEW n \in 0 .. m_length
    PROVE  Wrap(p + n) \in Index
  BY RingAssumption DEF Wrap, Index

LEMMA OldestIsSequence ==
    ASSUME m_buffer \in [Index -> Byte], m_oPtr \in Index, NEW n \in 0 .. m_length
    PROVE  /\ Oldest(n) \in Seq(Byte)
           /\ Len(Oldest(n)) = n
  <1>1. \A k \in 1 .. n : Wrap(m_oPtr + k - 1) \in Index
    BY RingAssumption DEF Wrap, Index
  <1>2. Oldest(n) \in [1 .. n -> Byte]
    BY <1>1 DEF Oldest
  <1>3. n \in Nat
    BY RingAssumption
  <1> QED
    BY <1>2, <1>3

(* What a call returns: an outcome and the bytes handed over. *)
LEMMA ReturnType ==
    ASSUME NEW s \in Seq(Byte)
    PROVE  /\ [ok |-> TRUE, data |-> s] \in Return
           /\ [ok |-> FALSE, data |-> <<>>] \in Return
           /\ [ok |-> TRUE, data |-> <<>>] \in Return
  <1>1. <<>> \in Seq(Byte)
    OBVIOUS
  <1>2. TRUE \in BOOLEAN /\ FALSE \in BOOLEAN
    OBVIOUS
  <1> QED
    BY <1>1, <1>2, Zenon DEF Return

LEMMA ZeroedType == Zeroed \in [Index -> Byte] /\ 0 \in Index
  BY RingAssumption DEF Zeroed, Index

LEMMA ReturnTypes ==
    /\ [ok |-> FALSE, data |-> <<>>] \in Return
    /\ [ok |-> TRUE, data |-> <<>>] \in Return
  <1>1. <<>> \in Seq(Byte)
    OBVIOUS
  <1> QED
    BY <1>1, ReturnType

------------------------------------------------------------------------------
(* The type invariant *)

LEMMA AddKeepsType ==
    ASSUME RingBuffer_TypeOK, NEW block \in Block, RingBuffer_addData(block)
    PROVE  RingBuffer_TypeOK'
  <1>1. block \in Seq(Byte) /\ Len(block) \in Nat
    BY RingAssumption
  <1>2. CASE Len(block) >= RingBuffer_freeSpace
    BY <1>2, ReturnTypes, ZeroedType DEF RingBuffer_addData, RingBuffer_clear, RingBuffer_TypeOK
  <1>3. CASE ~ (Len(block) >= RingBuffer_freeSpace)
    <2>1. Len(block) \in 0 .. m_length
      BY <1>1, <1>3, SizeRange, RingAssumption DEF RingBuffer_TypeOK
    <2>2. Store(block) /\ ret' = [ok |-> TRUE, data |-> <<>>]
      BY <1>3 DEF RingBuffer_addData
    <2>3. m_iPtr' \in Index /\ m_oPtr' \in Index
      BY <2>1, <2>2, WrapRange DEF Store, RingBuffer_TypeOK
    <2>4. \A i \in Index : Ahead(m_iPtr, i) \in Nat
      BY RingAssumption DEF RingBuffer_TypeOK, Ahead, Index
    <2>5. m_buffer' \in [Index -> Byte]
      BY <1>1, <2>2, <2>4 DEF Store, RingBuffer_TypeOK
    <2> QED
      BY <2>2, <2>3, <2>5, ReturnTypes DEF RingBuffer_TypeOK
  <1> QED
    BY <1>2, <1>3

LEMMA GetKeepsType ==
    ASSUME RingBuffer_TypeOK, NEW n \in Request, RingBuffer_getData(n) \/ RingBuffer_peek(n)
    PROVE  RingBuffer_TypeOK'
  <1>1. n \in Nat
    BY RingAssumption
  <1>2. n <= RingBuffer_dataSize => n \in 0 .. m_length
    BY <1>1, SizeRange, RingAssumption DEF RingBuffer_TypeOK
  <1>3. n <= RingBuffer_dataSize => Oldest(n) \in Seq(Byte)
    BY <1>2, OldestIsSequence DEF RingBuffer_TypeOK
  <1>4. ret' \in Return
    BY <1>3, ReturnType, ReturnTypes DEF RingBuffer_getData, RingBuffer_peek, RingBuffer_TypeOK
  <1>5. m_buffer' = m_buffer /\ m_iPtr' = m_iPtr
    BY DEF RingBuffer_getData, RingBuffer_peek
  <1>6. m_oPtr' \in Index
    BY <1>1, <1>2, WrapRange DEF RingBuffer_getData, RingBuffer_peek, RingBuffer_TypeOK
  <1> QED
    BY <1>4, <1>5, <1>6 DEF RingBuffer_TypeOK

(* The write and read indices of RingBuffer.c never leave the allocated      *)
(* storage, whatever its size and whatever the calls.                        *)
THEOREM RingTypeCorrect == RingBuffer_Spec => []RingBuffer_TypeOK
  <1>1. RingBuffer_Init => RingBuffer_TypeOK
    BY ReturnTypes, ZeroedType DEF RingBuffer_Init, RingBuffer_TypeOK
  <1>2. RingBuffer_TypeOK /\ [RingBuffer_Next]_ring => RingBuffer_TypeOK'
    <2> SUFFICES ASSUME RingBuffer_TypeOK, [RingBuffer_Next]_ring PROVE RingBuffer_TypeOK'
      OBVIOUS
    <2>1. ASSUME NEW block \in Block, RingBuffer_addData(block) PROVE RingBuffer_TypeOK'
      BY <2>1, AddKeepsType
    <2>2. ASSUME NEW n \in Request, RingBuffer_getData(n) \/ RingBuffer_peek(n)
          PROVE RingBuffer_TypeOK'
      BY <2>2, GetKeepsType
    <2>3. CASE RingBuffer_clear /\ UNCHANGED ret
      BY <2>3, ZeroedType DEF RingBuffer_clear, RingBuffer_TypeOK
    <2>4. CASE UNCHANGED ring
      BY <2>4 DEF ring, RingBuffer_TypeOK
    <2> QED
      BY <2>1, <2>2, <2>3, <2>4 DEF RingBuffer_Next
  <1> QED
    BY <1>1, <1>2, PTL DEF RingBuffer_Spec

------------------------------------------------------------------------------
(* Refinement *)

LEMMA ContentsIsSequence ==
    ASSUME RingBuffer_TypeOK
    PROVE  Contents \in Seq(Byte) /\ Len(Contents) = RingBuffer_dataSize
  <1>1. RingBuffer_dataSize \in 0 .. m_length
    BY SizeRange, RingAssumption DEF RingBuffer_TypeOK
  <1> QED
    BY <1>1, OldestIsSequence DEF Contents, RingBuffer_TypeOK

LEMMA OldestIsPrefix ==
    ASSUME RingBuffer_TypeOK, NEW n \in Nat, n <= RingBuffer_dataSize
    PROVE  Oldest(n) = SubSeq(Contents, 1, n)
  <1>1. RingBuffer_dataSize \in 0 .. m_length /\ n \in 0 .. m_length
    BY SizeRange, RingAssumption DEF RingBuffer_TypeOK
  <1>2. /\ Oldest(n) \in Seq(Byte)
        /\ Len(Oldest(n)) = n
    BY <1>1, OldestIsSequence DEF RingBuffer_TypeOK
  <1>3. /\ SubSeq(Contents, 1, n) \in Seq(Byte)
        /\ Len(SubSeq(Contents, 1, n)) = n
        /\ \A k \in 1 .. n : SubSeq(Contents, 1, n)[k] = Contents[k]
    BY <1>1, ContentsIsSequence, SubSeqProperties
  <1>4. \A k \in 1 .. n : Oldest(n)[k] = Contents[k]
    BY <1>1 DEF Oldest, Contents
  <1> QED
    BY <1>2, <1>3, <1>4, SeqEqual

LEMMA ClearEmpties ==
    ASSUME RingBuffer_clear
    PROVE  Contents' = <<>>
  <1>1. m_iPtr' = 0 /\ m_oPtr' = 0 /\ m_length \in Nat
    BY RingAssumption DEF RingBuffer_clear
  <1>2. RingBuffer_dataSize' = 0
    BY <1>1 DEF RingBuffer_dataSize, RingBuffer_freeSpace
  <1> QED
    BY <1>2 DEF Contents, Oldest

LEMMA StoreAppends ==
    ASSUME RingBuffer_TypeOK, RingBuffer_TypeOK', NEW block \in Seq(Byte),
           Len(block) < RingBuffer_freeSpace, Store(block)
    PROVE  Contents' = Contents \o block
  <1> DEFINE d == RingBuffer_dataSize
             L == Len(block)
  <1>1. /\ m_iPtr \in Index /\ m_oPtr \in Index /\ m_iPtr' \in Index /\ m_oPtr' = m_oPtr
        /\ m_iPtr' = Wrap(m_iPtr + L) /\ L \in Nat
        /\ m_length \in Nat \ {0}
    BY RingAssumption DEF RingBuffer_TypeOK, Store
  <1>2. d = Ahead(m_oPtr, m_iPtr) /\ RingBuffer_freeSpace = m_length - Ahead(m_oPtr, m_iPtr)
    BY <1>1, SizeRange
  <1>3. RingBuffer_dataSize' = Ahead(m_oPtr, m_iPtr')
    BY <1>1 DEF RingBuffer_dataSize, RingBuffer_freeSpace, Index, Ahead
  <1>4. RingBuffer_dataSize' = d + L /\ d \in Nat
    BY <1>1, <1>2, <1>3 DEF Index, Ahead, Wrap
  <1>5. Contents' \in Seq(Byte) /\ Len(Contents') = d + L
    <2>1. RingBuffer_dataSize' \in 0 .. m_length
      BY <1>1, <1>2, <1>4 DEF Index, Ahead
    <2>2. \A k \in 1 .. RingBuffer_dataSize' : Wrap(m_oPtr' + k - 1) \in Index
      BY <1>1, <2>1 DEF Wrap, Index
    <2>3. Contents' \in [1 .. RingBuffer_dataSize' -> Byte]
      BY <2>2 DEF Contents, Oldest, RingBuffer_TypeOK, Wrap
    <2> QED
      BY <1>4, <2>1, <2>3
  <1>6. /\ Contents \o block \in Seq(Byte)
        /\ Len(Contents \o block) = d + L
        /\ \A k \in 1 .. d + L : (Contents \o block)[k] = IF k <= d THEN Contents[k] ELSE block[k - d]
    <2>1. Contents \in Seq(Byte) /\ Len(Contents) = d
      BY ContentsIsSequence
    <2> HIDE DEF d
    <2> QED
      BY <2>1, ConcatProperties
  <1>7. ASSUME NEW k \in 1 .. d + L
        PROVE  Contents'[k] = IF k <= d THEN Contents[k] ELSE block[k - d]
    <2> DEFINE i == Wrap(m_oPtr + k - 1)
    <2>1. i \in Index
      BY <1>1, <1>2, <1>4 DEF Index, Wrap, Ahead
    <2>2. Contents'[k] = m_buffer'[i]
      BY <1>1, <1>4 DEF Contents, Oldest, Wrap
    <2>3. m_buffer'[i] = IF Ahead(m_iPtr, i) < L THEN block[Ahead(m_iPtr, i) + 1] ELSE m_buffer[i]
      BY <2>1 DEF Store
    <2>4. CASE k <= d
      <3>1. ~ (Ahead(m_iPtr, i) < L)
        BY <1>1, <1>2, <2>1, <2>4 DEF Index, Ahead, Wrap
      <3>2. Contents[k] = m_buffer[i]
        BY <1>4, <2>4 DEF Contents, Oldest
      <3> QED
        BY <2>2, <2>3, <2>4, <3>1, <3>2
    <2>5. CASE ~ (k <= d)
      <3>1. Ahead(m_iPtr, i) = k - d - 1
        BY <1>1, <1>2, <2>1, <2>5 DEF Index, Ahead, Wrap
      <3>2. Ahead(m_iPtr, i) < L /\ Ahead(m_iPtr, i) + 1 = k - d
        BY <1>1, <1>4, <3>1
      <3> QED
        BY <2>2, <2>3, <2>5, <3>2
    <2> QED
      BY <2>4, <2>5
  <1> QED
    BY <1>5, <1>6, <1>7, SeqEqual

LEMMA GetAdvances ==
    ASSUME RingBuffer_TypeOK, RingBuffer_TypeOK', NEW n \in Nat, n <= RingBuffer_dataSize,
           m_oPtr' = Wrap(m_oPtr + n), UNCHANGED <<m_buffer, m_iPtr>>
    PROVE  Contents' = SubSeq(Contents, n + 1, Len(Contents))
  <1> DEFINE d == RingBuffer_dataSize
  <1>1. /\ m_iPtr \in Index /\ m_oPtr \in Index /\ m_oPtr' \in Index
        /\ m_length \in Nat \ {0}
    BY RingAssumption DEF RingBuffer_TypeOK
  <1>2. d = Ahead(m_oPtr, m_iPtr) /\ d \in 0 .. m_length - 1
    BY <1>1, SizeRange
  <1>3. RingBuffer_dataSize' = Ahead(m_oPtr', m_iPtr)
    BY <1>1 DEF RingBuffer_dataSize, RingBuffer_freeSpace, Index, Ahead
  <1>4. RingBuffer_dataSize' = d - n
    BY <1>1, <1>2, <1>3 DEF Index, Ahead, Wrap
  <1>5. Contents \in Seq(Byte) /\ Len(Contents) = d
    BY ContentsIsSequence
  <1>6. Contents' \in Seq(Byte) /\ Len(Contents') = d - n
    <2>1. RingBuffer_dataSize' \in 0 .. m_length
      BY <1>1, <1>2, <1>4 DEF Index, Ahead
    <2>2. \A k \in 1 .. RingBuffer_dataSize' : Wrap(m_oPtr' + k - 1) \in Index
      BY <1>1, <2>1 DEF Wrap, Index
    <2>3. Contents' \in [1 .. RingBuffer_dataSize' -> Byte]
      BY <2>2 DEF Contents, Oldest, RingBuffer_TypeOK, Wrap
    <2> QED
      BY <1>4, <2>1, <2>3
  <1>7. /\ SubSeq(Contents, n + 1, d) \in Seq(Byte)
        /\ Len(SubSeq(Contents, n + 1, d)) = d - n
        /\ \A k \in 1 .. d - n : SubSeq(Contents, n + 1, d)[k] = Contents[n + k]
    <2>1. d \in Nat /\ n <= d
      BY <1>2
    <2> HIDE DEF d
    <2>2. \A i \in n + 1 .. d : Contents[i] \in Byte
      BY <1>5, <2>1, ElementOfSeq
    <2>3. /\ SubSeq(Contents, n + 1, d) \in Seq(Byte)
          /\ Len(SubSeq(Contents, n + 1, d)) = IF n + 1 <= d THEN d - (n + 1) + 1 ELSE 0
          /\ \A k \in 1 .. d - (n + 1) + 1 :
                SubSeq(Contents, n + 1, d)[k] = Contents[(n + 1) + k - 1]
      <3>1. n + 1 \in Int /\ d \in Int
        BY <2>1
      <3> QED
        BY <2>2, <3>1, SubSeqProperties
    <2> QED
      BY <2>1, <2>3
  <1>8. ASSUME NEW k \in 1 .. d - n
        PROVE  Contents'[k] = Contents[n + k]
    <2>1. Contents'[k] = m_buffer[Wrap(m_oPtr' + k - 1)]
      BY <1>4 DEF Contents, Oldest, Wrap
    <2>2. Contents[n + k] = m_buffer[Wrap(m_oPtr + (n + k) - 1)]
      BY <1>2 DEF Contents, Oldest
    <2>3. Wrap(m_oPtr' + k - 1) = Wrap(m_oPtr + (n + k) - 1)
      BY <1>1, <1>2 DEF Wrap, Index
    <2> QED
      BY <2>1, <2>2, <2>3
  <1> QED
    BY <1>5, <1>6, <1>7, <1>8, SeqEqual

LEMMA AddRefines ==
    ASSUME RingBuffer_TypeOK, RingBuffer_TypeOK', NEW block \in Block, RingBuffer_addData(block)
    PROVE  Abstract!Add(block)
  <1>1. block \in Seq(Byte) /\ Len(block) \in Nat /\ m_length \in Nat
    BY RingAssumption
  <1>2. /\ RingBuffer_freeSpace = m_length - Len(Contents)
        /\ Len(Contents) \in 0 .. m_length - 1
    BY <1>1, SizeRange, ContentsIsSequence DEF RingBuffer_TypeOK
  <1>3. CASE Len(block) >= RingBuffer_freeSpace
    <2>1. Len(Contents) + Len(block) >= m_length
      BY <1>1, <1>2, <1>3
    <2>2. Contents' = <<>> /\ ret' = [ok |-> FALSE, data |-> <<>>]
      BY <1>3, ClearEmpties DEF RingBuffer_addData
    <2> QED
      BY <2>1, <2>2 DEF Abstract!Add, Abstract!Refused
  <1>4. CASE ~ (Len(block) >= RingBuffer_freeSpace)
    <2>1. Len(Contents) + Len(block) < m_length /\ Len(block) < RingBuffer_freeSpace
      BY <1>1, <1>2, <1>4
    <2>2. Store(block) /\ ret' = [ok |-> TRUE, data |-> <<>>]
      BY <1>4 DEF RingBuffer_addData
    <2>3. Contents' = Contents \o block
      BY <1>1, <2>1, <2>2, StoreAppends
    <2> QED
      BY <2>1, <2>2, <2>3 DEF Abstract!Add
  <1> QED
    BY <1>3, <1>4

LEMMA GetRefines ==
    ASSUME RingBuffer_TypeOK, RingBuffer_TypeOK', NEW n \in Request, RingBuffer_getData(n)
    PROVE  Abstract!Get(n)
  <1>1. n \in Nat /\ Len(Contents) = RingBuffer_dataSize
    BY RingAssumption, ContentsIsSequence
  <1>2. CASE n <= RingBuffer_dataSize
    <2>1. /\ ret' = [ok |-> TRUE, data |-> Oldest(n)]
          /\ m_oPtr' = Wrap(m_oPtr + n)
          /\ UNCHANGED <<m_buffer, m_iPtr>>
      BY <1>1, <1>2, SizeRange DEF RingBuffer_getData, RingBuffer_TypeOK
    <2> QED
      BY <1>1, <1>2, <2>1, OldestIsPrefix, GetAdvances DEF Abstract!Get
  <1>3. CASE ~ (n <= RingBuffer_dataSize)
    <2>1. /\ n > RingBuffer_dataSize
          /\ ret' = [ok |-> FALSE, data |-> <<>>]
          /\ UNCHANGED <<m_buffer, m_iPtr, m_oPtr>>
      BY <1>1, <1>3 DEF RingBuffer_getData
    <2>2. Contents' = Contents
      BY <2>1 DEF Contents, Oldest, RingBuffer_dataSize, RingBuffer_freeSpace, Wrap
    <2> QED
      BY <1>1, <2>1, <2>2 DEF Abstract!Get, Abstract!Refused
  <1> QED
    BY <1>2, <1>3

LEMMA PeekRefines ==
    ASSUME RingBuffer_TypeOK, NEW n \in Request, RingBuffer_peek(n)
    PROVE  Abstract!Peek(n)
  <1>1. n \in Nat /\ Len(Contents) = RingBuffer_dataSize
    BY RingAssumption, ContentsIsSequence
  <1>2. Contents' = Contents
    BY DEF RingBuffer_peek, Contents, Oldest, RingBuffer_dataSize, RingBuffer_freeSpace, Wrap
  <1> QED
    BY <1>1, <1>2, OldestIsPrefix DEF RingBuffer_peek, Abstract!Peek, Abstract!Refused

(* Every call of RingBuffer.c does to the bytes it holds what the abstract   *)
(* byte queue does: no byte is lost, repeated, reordered or altered unless a *)
(* block that does not fit empties the ring, for every storage size.         *)
THEOREM Refinement == RingBuffer_Spec => ImplementsByteQueue
  <1>1. RingBuffer_Init => Abstract!Init
    <2> SUFFICES ASSUME RingBuffer_Init PROVE Abstract!Init
      OBVIOUS
    <2>1. m_iPtr = 0 /\ m_oPtr = 0 /\ m_length \in Nat
      BY RingAssumption DEF RingBuffer_Init
    <2>2. RingBuffer_dataSize = 0
      BY <2>1 DEF RingBuffer_dataSize, RingBuffer_freeSpace
    <2>3. Contents = <<>>
      BY <2>2 DEF Contents, Oldest
    <2> QED
      BY <2>3 DEF RingBuffer_Init, Abstract!Init
  <1>2. RingBuffer_TypeOK /\ RingBuffer_TypeOK' /\ [RingBuffer_Next]_ring => [Abstract!Next]_(Abstract!vars)
    <2> SUFFICES ASSUME RingBuffer_TypeOK, RingBuffer_TypeOK', [RingBuffer_Next]_ring
                 PROVE  [Abstract!Next]_(Abstract!vars)
      OBVIOUS
    <2>1. ASSUME NEW block \in Block, RingBuffer_addData(block)
          PROVE  Abstract!Next
      BY <2>1, AddRefines DEF Abstract!Next
    <2>2. ASSUME NEW n \in Request, RingBuffer_getData(n) PROVE Abstract!Next
      BY <2>2, GetRefines DEF Abstract!Next
    <2>3. ASSUME NEW n \in Request, RingBuffer_peek(n) PROVE Abstract!Next
      BY <2>3, PeekRefines DEF Abstract!Next
    <2>4. CASE RingBuffer_clear /\ UNCHANGED ret
      BY <2>4, ClearEmpties DEF Abstract!Next, Abstract!Clear
    <2>5. CASE UNCHANGED ring
      BY <2>5 DEF ring, Abstract!vars, Contents, Oldest, RingBuffer_dataSize,
                  RingBuffer_freeSpace, Wrap
    <2> QED
      BY <2>1, <2>2, <2>3, <2>4, <2>5 DEF RingBuffer_Next
  <1> QED
    BY <1>1, <1>2, RingTypeCorrect, PTL DEF RingBuffer_Spec, ImplementsByteQueue, Abstract!Spec

------------------------------------------------------------------------------
(* Counting the frames of one kind on the line *)

\* The places from p on at which a sequence holds one kind of frame.
Places(s, kind, p) == {i \in p .. Len(s) : s[i] = kind}

\* How many frames of a kind are on the line from place p on.
HowMany(kind, p) == Cardinality(Places(line, kind, p))

LEMMA PlacesCount ==
    ASSUME NEW S, NEW s \in Seq(S), NEW kind, NEW p \in Nat
    PROVE  IsFiniteSet(Places(s, kind, p)) /\ Cardinality(Places(s, kind, p)) \in Nat
  <1>1. Len(s) \in Int /\ p \in Int
    OBVIOUS
  <1>2. IsFiniteSet(p .. Len(s))
    BY <1>1, FS_Interval
  <1>3. Places(s, kind, p) \subseteq p .. Len(s)
    BY DEF Places
  <1> QED
    BY <1>2, <1>3, FS_Subset, FS_CardinalityType

(* A frame added to the line counts from every place on. *)
LEMMA CountAppend ==
    ASSUME NEW S, NEW s \in Seq(S), NEW e \in S, NEW kind, NEW p \in 1 .. Len(s) + 1
    PROVE  Cardinality(Places(Append(s, e), kind, p))
             = Cardinality(Places(s, kind, p)) + (IF e = kind THEN 1 ELSE 0)
  <1>1. Len(Append(s, e)) = Len(s) + 1 /\ Len(s) \in Nat /\ p \in Nat
    OBVIOUS
  <1>2. \A i \in 1 .. Len(s) : Append(s, e)[i] = s[i]
    OBVIOUS
  <1>3. Append(s, e)[Len(s) + 1] = e
    OBVIOUS
  <1>4. IsFiniteSet(Places(s, kind, p)) /\ Cardinality(Places(s, kind, p)) \in Nat
    BY <1>1, PlacesCount
  <1>5. CASE e = kind
    <2>1. Places(Append(s, e), kind, p) = Places(s, kind, p) \cup {Len(s) + 1}
      BY <1>1, <1>2, <1>3, <1>5 DEF Places
    <2>2. Len(s) + 1 \notin Places(s, kind, p)
      BY <1>1 DEF Places
    <2> QED
      BY <1>4, <1>5, <2>1, <2>2, FS_AddElement
  <1>6. CASE e # kind
    <2>1. Places(Append(s, e), kind, p) = Places(s, kind, p)
      BY <1>1, <1>2, <1>3, <1>6 DEF Places
    <2> QED
      BY <1>4, <1>6, <2>1
  <1> QED
    BY <1>5, <1>6

(* When the first frame leaves, every other moves up one place. *)
LEMMA CountTail ==
    ASSUME NEW S, NEW s \in Seq(S), s # <<>>, NEW kind, NEW p \in Nat \ {0}
    PROVE  Cardinality(Places(Tail(s), kind, p)) = Cardinality(Places(s, kind, p + 1))
  <1> DEFINE Old == Places(s, kind, p + 1)
             New == Places(Tail(s), kind, p)
             f == [i \in Old |-> i - 1]
  <1>1. Len(s) \in Nat \ {0} /\ Len(Tail(s)) = Len(s) - 1
    OBVIOUS
  <1>2. \A i \in 1 .. Len(s) - 1 : Tail(s)[i] = s[i + 1]
    OBVIOUS
  <1>3. Old \subseteq Int /\ New \subseteq Int
    BY <1>1 DEF Places
  <1>4. \A i \in Old : i - 1 \in New
    BY <1>1, <1>2 DEF Places
  <1>5. \A i \in New : i + 1 \in Old /\ (i + 1) - 1 = i
    BY <1>1, <1>2 DEF Places
  <1>6. f \in Bijection(Old, New)
    <2>1. f \in [Old -> New]
      BY <1>4
    <2>2. \A a, b \in Old : f[a] = f[b] => a = b
      BY <1>3
    <2>3. \A i \in New : \E a \in Old : f[a] = i
      BY <1>5
    <2> HIDE DEF f, Old, New
    <2>4. f \in Injection(Old, New)
      BY <2>1, <2>2 DEF Injection, IsInjective
    <2>5. f \in Surjection(Old, New)
      BY <2>1, <2>3, Zenon DEF Surjection
    <2> QED
      BY <2>4, <2>5 DEF Bijection
  <1>7. IsFiniteSet(Old)
    BY <1>1, PlacesCount
  <1> HIDE DEF f, Old, New
  <1>8. ExistsBijection(Old, New)
    BY <1>6 DEF ExistsBijection
  <1>9. Cardinality(Old) = Cardinality(New)
    BY <1>7, <1>8, FS_Bijection
  <1> QED
    BY <1>9 DEF Old, New

(* The first frame counts itself and those behind it. *)
LEMMA CountHead ==
    ASSUME NEW S, NEW s \in Seq(S), s # <<>>, NEW kind
    PROVE  Cardinality(Places(s, kind, 1))
             = Cardinality(Places(s, kind, 2)) + (IF Head(s) = kind THEN 1 ELSE 0)
  <1>1. Len(s) \in Nat \ {0} /\ Head(s) = s[1]
    OBVIOUS
  <1>2. IsFiniteSet(Places(s, kind, 2)) /\ Cardinality(Places(s, kind, 2)) \in Nat
    BY PlacesCount
  <1>3. 1 \notin Places(s, kind, 2)
    BY DEF Places
  <1>4. CASE Head(s) = kind
    <2>1. Places(s, kind, 1) = Places(s, kind, 2) \cup {1}
      BY <1>1, <1>4 DEF Places
    <2> QED
      BY <1>2, <1>3, <1>4, <2>1, FS_AddElement
  <1>5. CASE Head(s) # kind
    <2>1. Places(s, kind, 1) = Places(s, kind, 2)
      BY <1>1, <1>5 DEF Places
    <2> QED
      BY <1>2, <1>5, <2>1
  <1> QED
    BY <1>4, <1>5

------------------------------------------------------------------------------
(* The type invariant of credit pacing *)

LEMMA FreeSpaceIsCount ==
    ASSUME fill \in 0 .. TxFrames
    PROVE  freeSpaceNibble \in 0 .. NibbleMax /\ freeSpaceNibble <= TxFrames - fill
  BY PacingAssumption DEF freeSpaceNibble, Min2

LEMMA RecordType ==
    ASSUME since \in Seq(Nat), Len(since) <= REQ_FIFO
    PROVE  Record \in Seq(Nat) /\ Len(Record) <= REQ_FIFO
  <1>1. Len(since) \in Nat /\ REQ_FIFO \in Nat \ {0}
    BY PacingAssumption
  <1>2. CASE Len(since) = REQ_FIFO
    <2>1. since # <<>>
      BY <1>1, <1>2
    <2>2. Tail(since) \in Seq(Nat) /\ Len(Tail(since)) = Len(since) - 1
      BY <2>1
    <2> QED
      BY <1>1, <1>2, <2>2 DEF Record
  <1>3. CASE Len(since) # REQ_FIFO
    BY <1>1, <1>3 DEF Record
  <1> QED
    BY <1>2, <1>3

\* Frames the modem can still take once every frame on the line has arrived.
Room == TxFrames - (fill + HowMany("SAMP", 1))

Kind == {"SAMP", "STATUS"}

LEMMA OutstandingCount ==
    ASSUME TypeOK
    PROVE  /\ Outstanding = HowMany("STATUS", 1) + Len(replies)
           /\ Len(replies) \in Nat /\ Len(since) \in Nat /\ Len(line) \in Nat
           /\ Outstanding \in Nat
           /\ \A kind \in Kind, p \in Nat : HowMany(kind, p) \in Nat
           /\ HowMany("STATUS", 1) \in Nat /\ HowMany("SAMP", 1) \in Nat
           /\ Room \in Int
  <1>1. DOMAIN line = 1 .. Len(line) /\ Len(line) \in Nat
    BY DEF TypeOK
  <1>2. {i \in DOMAIN line : line[i] = "STATUS"} = Places(line, "STATUS", 1)
    BY <1>1 DEF Places
  <1>3. \A kind \in Kind, p \in Nat : HowMany(kind, p) \in Nat
    BY PlacesCount DEF TypeOK, HowMany
  <1>4. Outstanding = HowMany("STATUS", 1) + Len(replies)
    BY <1>2 DEF Outstanding, HowMany
  <1>5. Len(replies) \in Nat /\ Len(since) \in Nat
    BY DEF TypeOK
  <1>6. "STATUS" \in Kind /\ "SAMP" \in Kind
    BY DEF Kind
  <1>7. HowMany("STATUS", 1) \in Nat /\ HowMany("SAMP", 1) \in Nat
    BY <1>3, <1>6
  <1>8. Room \in Int
    BY <1>7, PacingAssumption DEF Room, TypeOK
  <1> QED
    BY <1>1, <1>3, <1>4, <1>5, <1>7, <1>8

LEMMA PacingStepType ==
    ASSUME TypeOK, [Next]_vars
    PROVE  TypeOK'
  <1> USE DEF TypeOK, history
  <1>1. CASE Arrive \/ Clear
    BY <1>1, PacingAssumption DEF Arrive, Clear, modem
  <1>2. CASE SendSample
    <2>1. line' \in Seq({"SAMP", "STATUS"})
      BY <1>2 DEF SendSample
    <2>2. since' \in Seq(Nat) /\ Len(since') <= REQ_FIFO
      <3>1. DOMAIN since = 1 .. Len(since) /\ Len(since) \in Nat
        OBVIOUS
      <3>2. since' = [i \in 1 .. Len(since) |-> since[i] + 1]
        BY <1>2, <3>1 DEF SendSample
      <3>3. \A i \in 1 .. Len(since) : since[i] + 1 \in Nat
        OBVIOUS
      <3>4. since' \in Seq(Nat) /\ Len(since') = Len(since)
        BY <3>1, <3>2, <3>3
      <3> QED
        BY <3>4
    <2>3. waiting' \in 0 .. WaitMax
      BY <1>2, PacingAssumption DEF SendSample
    <2>4. doubtful' \in BOOLEAN /\ blind' \in BOOLEAN
      BY <1>2, Zenon DEF SendSample
    <2> QED
      BY <1>2, <2>1, <2>2, <2>3, <2>4 DEF SendSample, modem
  <1>3. CASE Spend \/ Hold \/ Stall \/ SkipRequest
    <2>1. CASE Spend
      BY <2>1 DEF Spend, modem
    <2>2. CASE Hold
      BY <2>2 DEF Hold, modem
    <2>3. CASE Stall
      BY <2>3 DEF Stall, modem
    <2>4. CASE SkipRequest
      BY <2>4 DEF SkipRequest, modem
    <2> QED
      BY <1>3, <2>1, <2>2, <2>3, <2>4
  <1>4. CASE Resync
    BY <1>4, PacingAssumption DEF Resync, modem
  <1>5. CASE requestModemStatus
    <2>1. line' \in Seq({"SAMP", "STATUS"})
      <3>1. CASE line' = line
        BY <3>1
      <3>2. CASE line' = Append(line, "STATUS")
        BY <3>2
      <3> QED
        BY <1>5, <3>1, <3>2 DEF requestModemStatus
    <2>2. since' \in Seq(Nat) /\ Len(since') <= REQ_FIFO
      BY <1>5, RecordType DEF requestModemStatus
    <2> QED
      BY <1>5, <2>1, <2>2 DEF requestModemStatus, modem
  <1>6. CASE TakeReply
    <2>1. since' \in Seq(Nat) /\ Len(since') <= REQ_FIFO
      <3>1. CASE since = <<>>
        BY <1>6, <3>1 DEF TakeReply, openmtCreditFromStatus
      <3>2. CASE since # <<>>
        <4>1. Tail(since) \in Seq(Nat) /\ Len(Tail(since)) = Len(since) - 1
          BY <3>2
        <4> QED
          BY <1>6, <3>2, <4>1, PacingAssumption DEF TakeReply, openmtCreditFromStatus
      <3> QED
        BY <3>1, <3>2
    <2>2. replies' \in Seq(0 .. NibbleMax \cup {Lost})
      BY <1>6 DEF TakeReply
    <2>3. Head(replies) \in Int
      BY <1>6 DEF TakeReply, Lost
    <2>4. since # <<>> => Head(since) \in Int
      OBVIOUS
    <2>5. fresh' \in Int
      BY <1>6, <2>3, <2>4 DEF TakeReply, openmtCreditFromStatus
    <2>6. doubtful' \in BOOLEAN
      <3>1. (Len(since) < Outstanding) \in BOOLEAN
        BY OutstandingCount
      <3> QED
        BY <1>6, <3>1, Zenon DEF TakeReply
    <2> QED
      BY <1>6, <2>1, <2>2, <2>5, <2>6 DEF TakeReply, modem
  <1>7. CASE StoreCredit
    BY <1>7 DEF StoreCredit, modem
  <1>8. CASE StoreSpace
    <2>1. (fresh >= MIN_FREE) \in BOOLEAN
      BY PacingAssumption
    <2>2. space' \in BOOLEAN
      BY <1>8, <2>1, Zenon DEF StoreSpace
    <2> QED
      BY <1>8, <2>2 DEF StoreSpace, modem
  <1>9. CASE PassLost
    BY <1>9 DEF PassLost, host, modem
  <1>10. CASE ModemSample
    <2>1. overrun' \in BOOLEAN
      BY <1>10, Zenon DEF ModemSample
    <2>2. fill' \in 0 .. TxFrames
      BY <1>10, PacingAssumption DEF ModemSample
    <2> QED
      BY <1>10, <2>1, <2>2 DEF ModemSample, host
  <1>11. CASE ModemAnswers \/ AnswerIsLost
    <2>1. PICK answer \in 0 .. NibbleMax \cup {Lost} : ModemStatus(answer)
      BY <1>11, FreeSpaceIsCount DEF ModemAnswers, AnswerIsLost
    <2>2. replies' \in Seq(0 .. NibbleMax \cup {Lost})
      BY <2>1 DEF ModemStatus
    <2> QED
      BY <2>1, <2>2 DEF ModemStatus, host, modem
  <1>12. CASE ModemPlays \/ ModemKeyDown
    BY <1>12, PacingAssumption DEF ModemPlays, ModemKeyDown, host
  <1>13. CASE UNCHANGED vars
    BY <1>13 DEF vars, host, modem
  <1> QED
    BY <1>1, <1>2, <1>3, <1>4, <1>5, <1>6, <1>7, <1>8, <1>9, <1>10, <1>11, <1>12, <1>13
    DEF Next, modeTxThread, processSerial, ModemNext

LEMMA PacingInitType == Init => TypeOK
  <1> SUFFICES ASSUME Init PROVE TypeOK
    OBVIOUS
  <1>1. line = <<>> /\ since = <<>> /\ replies = <<>>
    BY DEF Init
  <1>2. line \in Seq({"SAMP", "STATUS"}) /\ replies \in Seq(0 .. NibbleMax \cup {Lost})
    BY <1>1
  <1>3. since \in Seq(Nat) /\ Len(since) = 0
    BY <1>1
  <1>4. space \in BOOLEAN /\ stalled \in BOOLEAN /\ overrun \in BOOLEAN /\ doubtful \in BOOLEAN /\ blind \in BOOLEAN
    BY Zenon DEF Init
  <1> QED
    BY <1>2, <1>3, <1>4, PacingAssumption DEF Init, TypeOK

------------------------------------------------------------------------------
(* The books of credit pacing: why the count of a reply can be trusted *)

\* An older record has counted every frame a newer one has.
Descending == \A i, j \in DOMAIN since : i <= j => since[i] >= since[j]

\* The records kept are those of the newest requests.  The record of a request
\* on the line, if it is kept, tells the frames that follow it on the line.
RequestsKnown ==
    \A p \in DOMAIN line : (line[p] = "STATUS" /\ HowMany("STATUS", p) <= Len(since)) =>
        since[Len(since) + 1 - HowMany("STATUS", p)] = HowMany("SAMP", p)

\* A reply on its way, less the frames of its record, if that is kept, is
\* still there to be used.
RepliesKnown ==
    \A j \in DOMAIN replies : (replies[j] # Lost /\ Outstanding - j < Len(since)) =>
        replies[j] - since[Len(since) - Outstanding + j] <= Room

Books == Descending /\ RequestsKnown /\ RepliesKnown

\* A credit that is vouched for never exceeds the room there is, and the host
\* sees space only while a frame would fit.
CreditIsRoom ==
    ~ doubtful =>
        /\ rx # "read" => fresh <= Room
        /\ (rx # "credit" /\ tx # "spend") => credit <= Room
        /\ (rx # "credit" /\ tx = "spend") => credit - 1 <= Room
        /\ (rx = "read" /\ space /\ tx \notin {"spend", "hold"}) => Room >= 1

\* As long as no frame was sent on another credit, every frame on the line will fit.
AllWillFit == ~ blind => (Room >= 0 /\ ~ overrun)

PacingInv == TypeOK /\ Books /\ CreditIsRoom /\ AllWillFit

(* A request on the line is one of those that Outstanding counts. *)
LEMMA RequestCounted ==
    ASSUME TypeOK, NEW p \in DOMAIN line, line[p] = "STATUS"
    PROVE  HowMany("STATUS", p) \in 1 .. HowMany("STATUS", 1)
  <1>1. DOMAIN line = 1 .. Len(line) /\ Len(line) \in Nat /\ p \in Nat \ {0}
    BY DEF TypeOK
  <1>2. /\ IsFiniteSet(Places(line, "STATUS", 1)) /\ IsFiniteSet(Places(line, "STATUS", p))
        /\ HowMany("STATUS", 1) \in Nat /\ HowMany("STATUS", p) \in Nat
    BY <1>1, PlacesCount DEF TypeOK, HowMany
  <1>3. Places(line, "STATUS", p) \subseteq Places(line, "STATUS", 1)
    BY <1>1 DEF Places
  <1>4. HowMany("STATUS", p) <= HowMany("STATUS", 1)
    BY <1>2, <1>3, FS_Subset DEF HowMany
  <1>5. p \in Places(line, "STATUS", p)
    BY <1>1 DEF Places
  <1>6. HowMany("STATUS", p) # 0
    BY <1>2, <1>5, FS_EmptySet DEF HowMany
  <1> QED
    BY <1>2, <1>4, <1>6

(* Where the record of a request on the line or of a reply on its way is kept. *)
LEMMA RecordFound ==
    ASSUME TypeOK
    PROVE  /\ \A p \in DOMAIN line : (line[p] = "STATUS" /\ HowMany("STATUS", p) <= Len(since)) =>
                 /\ Len(since) + 1 - HowMany("STATUS", p) \in DOMAIN since
                 /\ since[Len(since) + 1 - HowMany("STATUS", p)] \in Nat
           /\ \A j \in DOMAIN replies :
                 /\ j \in 1 .. Len(replies) /\ replies[j] \in Int
                 /\ Outstanding - j \in Nat
                 /\ Outstanding - j < Len(since) =>
                       /\ Len(since) - Outstanding + j \in DOMAIN since
                       /\ since[Len(since) - Outstanding + j] \in Nat
  <1>1. DOMAIN since = 1 .. Len(since) /\ DOMAIN replies = 1 .. Len(replies)
    BY DEF TypeOK
  <1>2. \A i \in DOMAIN since : since[i] \in Nat
    BY DEF TypeOK
  <1>3. \A j \in DOMAIN replies : replies[j] \in Int
    BY DEF TypeOK, Lost
  <1>4. ASSUME NEW p \in DOMAIN line, line[p] = "STATUS", HowMany("STATUS", p) <= Len(since)
        PROVE  Len(since) + 1 - HowMany("STATUS", p) \in DOMAIN since
    <2>1. HowMany("STATUS", p) \in 1 .. HowMany("STATUS", 1)
      BY <1>4, RequestCounted
    <2> QED
      BY <1>1, <1>4, <2>1, OutstandingCount
  <1>5. ASSUME NEW j \in DOMAIN replies
        PROVE  /\ Outstanding - j \in Nat
               /\ Outstanding - j < Len(since) => Len(since) - Outstanding + j \in DOMAIN since
    BY <1>1, OutstandingCount
  <1> QED
    BY <1>1, <1>2, <1>3, <1>4, <1>5

LEMMA LineAppend ==
    ASSUME TypeOK, NEW e \in Kind, line' = Append(line, e)
    PROVE  /\ DOMAIN line' = 1 .. Len(line) + 1
           /\ \A p \in 1 .. Len(line) : line'[p] = line[p]
           /\ line'[Len(line) + 1] = e
           /\ \A kind \in Kind, p \in 1 .. Len(line) + 1 :
                 HowMany(kind, p)' = HowMany(kind, p) + (IF e = kind THEN 1 ELSE 0)
           /\ \A kind \in Kind : HowMany(kind, Len(line) + 1) = 0
  <1>1. line \in Seq(Kind) /\ Len(line) \in Nat
    BY DEF TypeOK, Kind
  <1>2. \A kind \in Kind, p \in 1 .. Len(line) + 1 :
           HowMany(kind, p)' = HowMany(kind, p) + (IF e = kind THEN 1 ELSE 0)
    BY <1>1, CountAppend DEF HowMany
  <1>3. \A kind : Places(line, kind, Len(line) + 1) = {}
    BY <1>1 DEF Places
  <1>4. \A kind : HowMany(kind, Len(line) + 1) = 0
    BY <1>3, FS_EmptySet DEF HowMany
  <1>5. /\ DOMAIN line' = 1 .. Len(line) + 1
        /\ \A p \in 1 .. Len(line) : line'[p] = line[p]
        /\ line'[Len(line) + 1] = e
    BY <1>1
  <1> QED
    BY <1>2, <1>4, <1>5

LEMMA LineTail ==
    ASSUME TypeOK, line # <<>>, line' = Tail(line)
    PROVE  /\ DOMAIN line' = 1 .. Len(line) - 1
           /\ DOMAIN line = 1 .. Len(line) /\ Len(line) \in Nat \ {0}
           /\ \A p \in 1 .. Len(line) - 1 : line'[p] = line[p + 1]
           /\ Head(line) = line[1]
           /\ \A kind \in Kind, p \in Nat \ {0} : HowMany(kind, p)' = HowMany(kind, p + 1)
           /\ \A kind \in Kind :
                 HowMany(kind, 1) = HowMany(kind, 2) + (IF Head(line) = kind THEN 1 ELSE 0)
  <1>1. line \in Seq(Kind) /\ Len(line) \in Nat \ {0}
    BY DEF TypeOK, Kind
  <1>2. \A kind \in Kind, p \in Nat \ {0} : HowMany(kind, p)' = HowMany(kind, p + 1)
    BY <1>1, CountTail DEF HowMany
  <1>3. \A kind \in Kind :
           HowMany(kind, 1) = HowMany(kind, 2) + (IF Head(line) = kind THEN 1 ELSE 0)
    BY <1>1, CountHead DEF HowMany
  <1>4. /\ DOMAIN line' = 1 .. Len(line) - 1
        /\ DOMAIN line = 1 .. Len(line)
        /\ \A p \in 1 .. Len(line) - 1 : line'[p] = line[p + 1]
        /\ Head(line) = line[1]
    BY <1>1
  <1> QED
    BY <1>1, <1>2, <1>3, <1>4

(* Where neither the line nor the records nor the replies change, the books  *)
(* stay right as long as the room does not shrink.                           *)
LEMMA BooksStay ==
    ASSUME TypeOK, TypeOK', Books, UNCHANGED <<line, since, replies>>, Room' >= Room
    PROVE  Books'
  <1>1. Outstanding' = Outstanding /\ \A kind, p : HowMany(kind, p)' = HowMany(kind, p)
    BY DEF Outstanding, HowMany, Places
  <1>2. Descending'
    BY DEF Books, Descending
  <1>3. RequestsKnown'
    BY <1>1 DEF Books, RequestsKnown
  <1>4. Room \in Int /\ Room' \in Int
    <2>1. HowMany("SAMP", 1)' = HowMany("SAMP", 1)
      BY <1>1
    <2>2. HowMany("SAMP", 1) \in Nat /\ fill' \in Nat /\ Room \in Int
      BY OutstandingCount DEF TypeOK
    <2> QED
      BY <2>1, <2>2, PacingAssumption DEF Room
  <1>5. RepliesKnown'
    <2> SUFFICES ASSUME NEW j \in DOMAIN replies, replies[j] # Lost, Outstanding - j < Len(since)
                 PROVE  replies[j] - since[Len(since) - Outstanding + j] <= Room'
      BY <1>1 DEF RepliesKnown
    <2>1. replies[j] - since[Len(since) - Outstanding + j] <= Room
      BY DEF Books, RepliesKnown
    <2>2. replies[j] \in Int /\ since[Len(since) - Outstanding + j] \in Nat
      BY RecordFound
    <2> QED
      BY <1>4, <2>1, <2>2
  <1> QED
    BY <1>2, <1>3, <1>5 DEF Books

(* A sample frame sent is counted in every record and taken from the room. *)
LEMMA SendKeepsBooks ==
    ASSUME TypeOK, Books, SendSample
    PROVE  Books' /\ Room' = Room - 1
  <1>1. /\ line' = Append(line, "SAMP") /\ replies' = replies /\ fill' = fill
        /\ since' = [i \in DOMAIN since |-> since[i] + 1]
    BY DEF SendSample, modem
  <1>2. /\ DOMAIN since = 1 .. Len(since) /\ Len(since) \in Nat
        /\ \A i \in DOMAIN since : since[i] \in Nat
        /\ DOMAIN line = 1 .. Len(line) /\ Len(line) \in Nat
    BY DEF TypeOK
  <1>3. DOMAIN since' = DOMAIN since /\ Len(since') = Len(since)
    <2>1. since' = [i \in 1 .. Len(since) |-> since[i] + 1]
      BY <1>1, <1>2
    <2> QED
      BY <1>2, <2>1
  <1>4. \A i \in DOMAIN since : since'[i] = since[i] + 1
    BY <1>1
  <1>5. /\ DOMAIN line' = 1 .. Len(line) + 1
        /\ \A p \in 1 .. Len(line) : line'[p] = line[p]
        /\ line'[Len(line) + 1] = "SAMP"
        /\ \A p \in 1 .. Len(line) + 1 : /\ HowMany("SAMP", p)' = HowMany("SAMP", p) + 1
                                         /\ HowMany("STATUS", p)' = HowMany("STATUS", p) + 0
        /\ \A p \in Nat : HowMany("STATUS", p) \in Nat
    <2>1. "SAMP" \in Kind /\ "STATUS" \in Kind
      BY DEF Kind
    <2>2. \A kind \in Kind, p \in 1 .. Len(line) + 1 :
             HowMany(kind, p)' = HowMany(kind, p) + (IF "SAMP" = kind THEN 1 ELSE 0)
      BY <1>1, <2>1, LineAppend
    <2> QED
      BY <1>1, <2>1, <2>2, LineAppend, OutstandingCount
  <1>6. /\ HowMany("SAMP", 1)' = HowMany("SAMP", 1) + 1
        /\ \A p \in 1 .. Len(line) + 1 : HowMany("STATUS", p)' = HowMany("STATUS", p)
    <2>1. HowMany("SAMP", 1)' = HowMany("SAMP", 1) + 1
      BY <1>2, <1>5
    <2>2. ASSUME NEW p \in 1 .. Len(line) + 1 PROVE HowMany("STATUS", p)' = HowMany("STATUS", p)
      <3>1. p \in Nat
        BY <1>2
      <3>2. HowMany("STATUS", p) \in Nat /\ HowMany("STATUS", p)' = HowMany("STATUS", p) + 0
        BY <1>5, <3>1
      <3> QED
        BY <3>2
    <2> QED
      BY <2>1, <2>2
  <1>7. HowMany("STATUS", 1)' = HowMany("STATUS", 1)
    BY <1>2, <1>6
  <1>8. Outstanding' = Outstanding
    <2>1. DOMAIN line' = 1 .. Len(line')
      BY <1>1 DEF TypeOK
    <2>2. {i \in DOMAIN line' : line'[i] = "STATUS"} = Places(line', "STATUS", 1)
      BY <2>1 DEF Places
    <2>3. Outstanding' = HowMany("STATUS", 1)' + Len(replies)
      BY <1>1, <2>2 DEF Outstanding, HowMany
    <2> QED
      BY <1>7, <2>3, OutstandingCount
  <1>9. Room' = Room - 1
    BY <1>1, <1>6, OutstandingCount, PacingAssumption DEF Room, TypeOK
  <1>11. Descending'
    BY <1>2, <1>3, <1>4 DEF Books, Descending
  <1>12. RequestsKnown'
    <2> SUFFICES ASSUME NEW p \in 1 .. Len(line) + 1, line'[p] = "STATUS",
                        HowMany("STATUS", p)' <= Len(since)
                 PROVE  since'[Len(since) + 1 - HowMany("STATUS", p)'] = HowMany("SAMP", p)'
      BY <1>3, <1>5 DEF RequestsKnown
    <2>1. p \in DOMAIN line /\ line[p] = "STATUS"
      <3>1. p # Len(line) + 1
        BY <1>5
      <3>2. p \in 1 .. Len(line)
        BY <1>2, <3>1
      <3> QED
        BY <1>2, <1>5, <3>2
    <2>m. HowMany("STATUS", p) <= Len(since)
      BY <1>6
    <2>2. since[Len(since) + 1 - HowMany("STATUS", p)] = HowMany("SAMP", p)
      BY <2>1, <2>m DEF Books, RequestsKnown
    <2>3. Len(since) + 1 - HowMany("STATUS", p) \in DOMAIN since
      BY <2>1, <2>m, RecordFound
    <2> QED
      BY <1>4, <1>5, <1>6, <2>2, <2>3
  <1>13. RepliesKnown'
    <2> SUFFICES ASSUME NEW j \in DOMAIN replies, replies[j] # Lost, Outstanding - j < Len(since)
                 PROVE  replies[j] - since'[Len(since) - Outstanding + j] <= Room'
      BY <1>1, <1>3, <1>8 DEF RepliesKnown
    <2>1. replies[j] - since[Len(since) - Outstanding + j] <= Room
      BY DEF Books, RepliesKnown
    <2>2. /\ replies[j] \in Int /\ since[Len(since) - Outstanding + j] \in Nat
          /\ Len(since) - Outstanding + j \in DOMAIN since
      BY RecordFound
    <2>3. since'[Len(since) - Outstanding + j] = since[Len(since) - Outstanding + j] + 1
      BY <1>4, <2>2
    <2> QED
      BY <1>9, <2>1, <2>2, <2>3, OutstandingCount
  <1> QED
    BY <1>9, <1>11, <1>12, <1>13 DEF Books

(* A new request starts with a record of its own; in a full list the oldest  *)
(* one is dropped for it.                                                    *)
LEMMA RecordKeepsNewest ==
    ASSUME TypeOK, since' = Record
    PROVE  \E k \in {0, 1} :
              /\ Len(since') = (Len(since) - k) + 1
              /\ Len(since) - k \in Nat
              /\ \A i \in 1 .. Len(since) - k : since'[i] = since[i + k]
              /\ since'[(Len(since) - k) + 1] = 0
              /\ DOMAIN since' = 1 .. (Len(since) - k) + 1
              /\ DOMAIN since = 1 .. Len(since)
  <1>1. since \in Seq(Nat) /\ Len(since) \in Nat /\ DOMAIN since = 1 .. Len(since)
    BY DEF TypeOK
  <1>2. REQ_FIFO \in Nat \ {0}
    BY PacingAssumption
  <1>3. CASE Len(since) = REQ_FIFO
    <2>1. since # <<>>
      BY <1>1, <1>2, <1>3
    <2> DEFINE t == Tail(since)
    <2>2. t \in Seq(Nat) /\ Len(t) = Len(since) - 1 /\ \A i \in 1 .. Len(since) - 1 : t[i] = since[i + 1]
      BY <1>1, <2>1
    <2>3. since' = Append(t, 0)
      BY <1>3 DEF Record
    <2> HIDE DEF t
    <2>4. /\ Len(since') = Len(t) + 1 /\ DOMAIN since' = 1 .. Len(t) + 1
          /\ \A i \in 1 .. Len(t) : since'[i] = t[i]
          /\ since'[Len(t) + 1] = 0
      BY <2>2, <2>3
    <2>5. Len(since) - 1 \in Nat
      BY <1>2, <1>3
    <2> QED
      BY <1>1, <2>2, <2>4, <2>5
  <1>4. CASE Len(since) # REQ_FIFO
    <2>1. since' = Append(since, 0)
      BY <1>4 DEF Record
    <2>2. /\ Len(since') = Len(since) + 1 /\ DOMAIN since' = 1 .. Len(since) + 1
          /\ \A i \in 1 .. Len(since) : since'[i] = since[i]
          /\ since'[Len(since) + 1] = 0
      BY <1>1, <2>1
    <2> WITNESS 0 \in {0, 1}
    <2> QED
      BY <1>1, <1>2, <2>2
  <1> QED
    BY <1>3, <1>4

LEMMA RequestKeepsBooks ==
    ASSUME TypeOK, Books, requestModemStatus
    PROVE  Books' /\ Room' = Room
  <1>1. replies' = replies /\ fill' = fill
    BY DEF requestModemStatus, modem
  <1>2. CASE UNCHANGED <<line, since>>
    <2>1. Outstanding' = Outstanding /\ \A kind, p : HowMany(kind, p)' = HowMany(kind, p)
      BY <1>1, <1>2 DEF Outstanding, HowMany, Places
    <2>2. Room' = Room
      BY <1>1, <2>1 DEF Room
    <2>3. Descending' /\ RequestsKnown' /\ RepliesKnown'
      BY <1>1, <1>2, <2>1, <2>2
      DEF Books, Descending, RequestsKnown, RepliesKnown
    <2> QED
      BY <2>2, <2>3 DEF Books
  <1>3. CASE line' = Append(line, "STATUS") /\ since' = Record
    <2>1. PICK k \in {0, 1} :
              /\ Len(since') = (Len(since) - k) + 1
              /\ Len(since) - k \in Nat
              /\ \A i \in 1 .. Len(since) - k : since'[i] = since[i + k]
              /\ since'[(Len(since) - k) + 1] = 0
              /\ DOMAIN since' = 1 .. (Len(since) - k) + 1
              /\ DOMAIN since = 1 .. Len(since)
      BY <1>1, <1>3, RecordKeepsNewest
    <2>2. /\ Len(since) \in Nat /\ \A i \in DOMAIN since : since[i] \in Nat
          /\ DOMAIN line = 1 .. Len(line) /\ Len(line) \in Nat
      BY DEF TypeOK
    <2>k. k \in 0 .. 1 /\ Len(since) - k \in Nat /\ Outstanding \in Nat
      BY <2>1, <2>2, OutstandingCount
    <2>3. "SAMP" \in Kind /\ "STATUS" \in Kind
      BY DEF Kind
    <2>4. \A kind \in Kind, p \in 1 .. Len(line) + 1 :
             HowMany(kind, p)' = HowMany(kind, p) + (IF "STATUS" = kind THEN 1 ELSE 0)
      BY <1>3, <2>3, LineAppend
    <2>5. ASSUME NEW p \in 1 .. Len(line) + 1
          PROVE  /\ HowMany("STATUS", p)' = HowMany("STATUS", p) + 1
                 /\ HowMany("SAMP", p)' = HowMany("SAMP", p)
                 /\ HowMany("STATUS", p) \in Nat
      <3>1. p \in Nat
        BY <2>2
      <3>2. HowMany("SAMP", p) \in Nat /\ HowMany("STATUS", p) \in Nat
        BY <2>3, <3>1, OutstandingCount
      <3>3. HowMany("SAMP", p)' = HowMany("SAMP", p) + 0
        BY <2>3, <2>4
      <3>4. HowMany("STATUS", p)' = HowMany("STATUS", p) + 1
        BY <2>3, <2>4
      <3> QED
        BY <3>2, <3>3, <3>4
    <2>6. /\ DOMAIN line' = 1 .. Len(line) + 1
          /\ \A p \in 1 .. Len(line) : line'[p] = line[p]
          /\ HowMany("SAMP", Len(line) + 1) = 0 /\ HowMany("STATUS", Len(line) + 1) = 0
      BY <1>3, <2>3, LineAppend
    <2>7. HowMany("STATUS", 1)' = HowMany("STATUS", 1) + 1 /\ HowMany("SAMP", 1)' = HowMany("SAMP", 1)
      BY <2>2, <2>5
    <2>8. Outstanding' = Outstanding + 1
      <3>1. DOMAIN line' = 1 .. Len(line')
        BY <1>3 DEF TypeOK
      <3>2. {i \in DOMAIN line' : line'[i] = "STATUS"} = Places(line', "STATUS", 1)
        BY <3>1 DEF Places
      <3>3. Outstanding' = HowMany("STATUS", 1)' + Len(replies)
        BY <1>1, <3>2 DEF Outstanding, HowMany
      <3> QED
        BY <2>7, <3>3, OutstandingCount
    <2>9. Room' = Room
      BY <1>1, <2>7 DEF Room
    <2>11. Descending'
      <3> SUFFICES ASSUME NEW i \in DOMAIN since', NEW j \in DOMAIN since', i <= j
                   PROVE  since'[i] >= since'[j]
        BY DEF Descending
      <3>1. CASE j = (Len(since) - k) + 1 /\ i = j
        BY <2>1, <3>1
      <3>2. CASE j = (Len(since) - k) + 1 /\ i # j
        <4>1. i \in 1 .. Len(since) - k /\ i + k \in DOMAIN since
          BY <2>1, <2>2, <3>2
        <4> QED
          BY <2>1, <2>2, <3>2, <4>1
      <3>3. CASE j # (Len(since) - k) + 1
        <4>1. i \in 1 .. Len(since) - k /\ j \in 1 .. Len(since) - k
          <5>1. i \in 1 .. (Len(since) - k) + 1 /\ j \in 1 .. (Len(since) - k) + 1
            BY <2>1
          <5> QED
            BY <2>2, <2>k, <3>3, <5>1
        <4>2. i + k \in DOMAIN since /\ j + k \in DOMAIN since /\ i + k <= j + k
          BY <2>1, <2>2, <4>1
        <4>3. since[i + k] >= since[j + k]
          BY <4>2 DEF Books, Descending
        <4> QED
          BY <2>1, <4>1, <4>3
      <3> QED
        BY <3>1, <3>2, <3>3
    <2>12. RequestsKnown'
      <3> SUFFICES ASSUME NEW p \in 1 .. Len(line) + 1, line'[p] = "STATUS",
                          HowMany("STATUS", p)' <= Len(since')
                   PROVE  since'[Len(since') + 1 - HowMany("STATUS", p)'] = HowMany("SAMP", p)'
        BY <2>6 DEF RequestsKnown
      <3>1. CASE p = Len(line) + 1
        <4>1. HowMany("STATUS", p)' = 1 /\ HowMany("SAMP", p)' = 0
          BY <2>5, <2>6, <3>1
        <4>2. Len(since') + 1 - 1 = (Len(since) - k) + 1
          BY <2>1, <2>2
        <4> QED
          BY <2>1, <4>1, <4>2
      <3>2. CASE p # Len(line) + 1
        <4>1. p \in DOMAIN line /\ line[p] = "STATUS"
          BY <2>2, <2>6, <3>2
        <4>3. HowMany("STATUS", p) \in 1 .. HowMany("STATUS", 1)
          BY <4>1, RequestCounted
        <4>m. HowMany("STATUS", p) \in Nat \ {0} /\ Len(since) \in Nat
          BY <2>2, <2>5, <4>3
        <4>4. HowMany("STATUS", p) <= Len(since) - k /\ HowMany("STATUS", p) <= Len(since)
          <5>1. HowMany("STATUS", p) + 1 <= (Len(since) - k) + 1
            BY <2>1, <2>5
          <5> QED
            BY <2>k, <4>m, <5>1
        <4>2. since[Len(since) + 1 - HowMany("STATUS", p)] = HowMany("SAMP", p)
          BY <4>1, <4>4 DEF Books, RequestsKnown
        <4>5. (Len(since) + 1 - HowMany("STATUS", p)) - k \in 1 .. Len(since) - k
          BY <2>k, <4>4, <4>m
        <4>6. since'[(Len(since) + 1 - HowMany("STATUS", p)) - k]
                 = since[((Len(since) + 1 - HowMany("STATUS", p)) - k) + k]
          BY <2>1, <4>5
        <4>7. ((Len(since) + 1 - HowMany("STATUS", p)) - k) + k = Len(since) + 1 - HowMany("STATUS", p)
          BY <2>k, <4>m
        <4>8. Len(since') + 1 - HowMany("STATUS", p)' = (Len(since) + 1 - HowMany("STATUS", p)) - k
          <5>1. Len(since') = (Len(since) - k) + 1 /\ HowMany("STATUS", p)' = HowMany("STATUS", p) + 1
            BY <2>1, <2>5
          <5> QED
            BY <2>k, <4>m, <5>1
        <4> QED
          BY <2>5, <4>2, <4>6, <4>7, <4>8
      <3> QED
        BY <3>1, <3>2
    <2>13. RepliesKnown'
      <3> SUFFICES ASSUME NEW j \in DOMAIN replies, replies[j] # Lost,
                          Outstanding' - j < Len(since')
                   PROVE  replies[j] - since'[Len(since') - Outstanding' + j] <= Room
        BY <1>1, <2>9 DEF RepliesKnown
      <3>2. j \in 1 .. Len(replies) /\ j \in Nat \ {0} /\ Outstanding - j \in Nat
        BY RecordFound
      <3>m. Outstanding - j < Len(since) - k /\ Outstanding - j < Len(since)
        BY <2>1, <2>2, <2>k, <2>8, <3>2
      <3>1. replies[j] - since[Len(since) - Outstanding + j] <= Room
        BY <3>m DEF Books, RepliesKnown
      <3>3. (Len(since) - Outstanding + j) - k \in 1 .. Len(since) - k
        BY <2>2, <2>k, <3>2, <3>m
      <3>4. since'[(Len(since) - Outstanding + j) - k] = since[((Len(since) - Outstanding + j) - k) + k]
        BY <2>1, <3>3
      <3>5. /\ ((Len(since) - Outstanding + j) - k) + k = Len(since) - Outstanding + j
            /\ Len(since') - Outstanding' + j = (Len(since) - Outstanding + j) - k
        <4>1. Len(since') = (Len(since) - k) + 1 /\ j \in Nat /\ Len(since) \in Nat
          BY <2>1, <2>2, <3>2
        <4> QED
          BY <2>k, <2>8, <4>1
      <3> QED
        BY <3>1, <3>4, <3>5
    <2> QED
      BY <2>9, <2>11, <2>12, <2>13 DEF Books
  <1> QED
    BY <1>2, <1>3 DEF requestModemStatus

(* The oldest reply is met with the oldest record kept.  With a record for   *)
(* every request unanswered that one has counted at least as many frames as  *)
(* the reply's own.                                                          *)
LEMMA TakeKeepsBooks ==
    ASSUME TypeOK, Books, TakeReply
    PROVE  Books' /\ Room' = Room /\ (Outstanding <= Len(since) => fresh' <= Room)
  <1>1. /\ replies # <<>> /\ Head(replies) # Lost /\ replies' = Tail(replies)
        /\ UNCHANGED <<line, fill>>
        /\ openmtCreditFromStatus(Head(replies))
    BY DEF TakeReply, modem
  <1>2. /\ Len(replies) \in Nat \ {0} /\ Len(replies') = Len(replies) - 1
        /\ DOMAIN replies' = 1 .. Len(replies) - 1 /\ DOMAIN replies = 1 .. Len(replies)
        /\ \A j \in 1 .. Len(replies) - 1 : replies'[j] = replies[j + 1]
        /\ Head(replies) = replies[1]
    BY <1>1 DEF TypeOK
  <1>3. /\ Outstanding \in Nat \ {0} /\ Len(since) \in Nat
        /\ Outstanding = HowMany("STATUS", 1) + Len(replies) /\ HowMany("STATUS", 1) \in Nat
    BY <1>2, OutstandingCount
  <1>7. \A kind, p : HowMany(kind, p)' = HowMany(kind, p)
    BY <1>1 DEF HowMany, Places
  <1>8. Room' = Room /\ Room \in Int
    BY <1>1, <1>7, OutstandingCount DEF Room
  <1>9. Outstanding' = Outstanding - 1
    <2>1. Outstanding' = Cardinality({i \in DOMAIN line : line[i] = "STATUS"}) + Len(replies')
      BY <1>1 DEF Outstanding
    <2>2. {i \in DOMAIN line : line[i] = "STATUS"} = Places(line, "STATUS", 1)
      BY DEF Places, TypeOK
    <2>3. Outstanding' = HowMany("STATUS", 1) + Len(replies')
      BY <2>1, <2>2 DEF HowMany
    <2> QED
      BY <1>2, <1>3, <2>3
  <1>a. CASE since = <<>>
    <2>1. since' = <<>> /\ Len(since') = 0 /\ DOMAIN since' = {} /\ Len(since) = 0
      BY <1>1, <1>a DEF openmtCreditFromStatus
    <2>2. Descending'
      BY <2>1 DEF Descending
    <2>3. RequestsKnown'
      <3> SUFFICES ASSUME NEW p \in DOMAIN line, line[p] = "STATUS", HowMany("STATUS", p) <= 0
                   PROVE  FALSE
        BY <1>1, <1>7, <2>1 DEF RequestsKnown
      <3> QED
        BY <1>3, RequestCounted
    <2>4. RepliesKnown'
      <3> SUFFICES ASSUME NEW j \in 1 .. Len(replies) - 1, Outstanding' - j < 0
                   PROVE  FALSE
        BY <1>2, <2>1 DEF RepliesKnown
      <3> QED
        BY <1>2, <1>3, <1>9
    <2>5. ~ (Outstanding <= Len(since))
      BY <1>3, <2>1
    <2> QED
      BY <1>8, <2>2, <2>3, <2>4, <2>5 DEF Books
  <1>b. CASE since # <<>>
    <2>0. Len(since) \in Nat \ {0}
      BY <1>b DEF TypeOK
    <2>1. since' = Tail(since) /\ fresh' = Head(replies) - Head(since)
      BY <1>1, <1>b DEF openmtCreditFromStatus
    <2>2. /\ Len(since') = Len(since) - 1
          /\ DOMAIN since' = 1 .. Len(since) - 1 /\ DOMAIN since = 1 .. Len(since)
          /\ \A i \in 1 .. Len(since) - 1 : since'[i] = since[i + 1]
          /\ Head(since) = since[1]
          /\ \A i \in DOMAIN since : since[i] \in Nat
      BY <1>b, <2>1 DEF TypeOK
    <2>3. Descending'
      <3> SUFFICES ASSUME NEW i \in 1 .. Len(since) - 1, NEW j \in 1 .. Len(since) - 1, i <= j
                   PROVE  since'[i] >= since'[j]
        BY <2>2 DEF Descending
      <3>1. i + 1 \in DOMAIN since /\ j + 1 \in DOMAIN since /\ i + 1 <= j + 1
        BY <2>0, <2>2
      <3>2. since[i + 1] >= since[j + 1]
        BY <3>1 DEF Books, Descending
      <3> QED
        BY <2>2, <3>2
    <2>4. RequestsKnown'
      <3> SUFFICES ASSUME NEW p \in DOMAIN line, line[p] = "STATUS",
                          HowMany("STATUS", p) <= Len(since')
                   PROVE  since'[Len(since') + 1 - HowMany("STATUS", p)] = HowMany("SAMP", p)
        BY <1>1, <1>7 DEF RequestsKnown
      <3>1. HowMany("STATUS", p) \in 1 .. HowMany("STATUS", 1)
        BY RequestCounted
      <3>2. /\ HowMany("STATUS", p) \in Nat \ {0}
            /\ HowMany("STATUS", p) <= Len(since) - 1 /\ HowMany("STATUS", p) <= Len(since)
        BY <1>3, <2>0, <2>2, <3>1
      <3>3. since[Len(since) + 1 - HowMany("STATUS", p)] = HowMany("SAMP", p)
        BY <3>2 DEF Books, RequestsKnown
      <3>4. /\ Len(since') + 1 - HowMany("STATUS", p) \in 1 .. Len(since) - 1
            /\ (Len(since') + 1 - HowMany("STATUS", p)) + 1 = Len(since) + 1 - HowMany("STATUS", p)
        BY <2>0, <2>2, <3>2
      <3> QED
        BY <2>2, <3>3, <3>4
    <2>5. RepliesKnown'
      <3> SUFFICES ASSUME NEW j \in 1 .. Len(replies) - 1, replies'[j] # Lost,
                          Outstanding' - j < Len(since')
                   PROVE  replies'[j] - since'[Len(since') - Outstanding' + j] <= Room
        BY <1>2, <1>8 DEF RepliesKnown
      <3>1. /\ j + 1 \in DOMAIN replies /\ replies'[j] = replies[j + 1] /\ j \in Nat \ {0}
            /\ j + 1 <= Outstanding
        BY <1>2, <1>3
      <3>2. Outstanding - (j + 1) < Len(since)
        BY <1>3, <1>9, <2>0, <2>2, <3>1
      <3>3. replies[j + 1] - since[Len(since) - Outstanding + (j + 1)] <= Room
        BY <3>1, <3>2 DEF Books, RepliesKnown
      <3>4. /\ Len(since') - Outstanding' + j \in 1 .. Len(since) - 1
            /\ (Len(since') - Outstanding' + j) + 1 = Len(since) - Outstanding + (j + 1)
        <4>1. Len(since') = Len(since) - 1
          BY <2>2
        <4>2. Outstanding - j < Len(since)
          BY <1>3, <1>9, <2>0, <3>1, <4>1
        <4>3. Len(since') - Outstanding' + j = Len(since) - Outstanding + j
          BY <1>3, <1>9, <3>1, <4>1
        <4>4. Outstanding \in Int /\ Len(since) \in Int /\ j \in Int
          BY <1>3, <3>1
        <4>5. Len(since) - Outstanding + j \in 1 .. Len(since) - 1
          BY <3>1, <4>2, <4>4
        <4>6. (Len(since) - Outstanding + j) + 1 = Len(since) - Outstanding + (j + 1)
          BY <4>4
        <4> QED
          BY <4>3, <4>5, <4>6
      <3> QED
        BY <2>2, <3>1, <3>3, <3>4
    <2>6. ASSUME Outstanding <= Len(since) PROVE fresh' <= Room
      <3>1. 1 \in DOMAIN replies /\ replies[1] # Lost /\ Outstanding - 1 < Len(since)
        BY <1>1, <1>2, <1>3, <2>6
      <3>2. replies[1] - since[Len(since) - Outstanding + 1] <= Room
        BY <3>1 DEF Books, RepliesKnown
      <3>3. /\ Len(since) - Outstanding + 1 \in DOMAIN since /\ 1 \in DOMAIN since
            /\ 1 <= Len(since) - Outstanding + 1
        BY <1>3, <2>0, <2>2, <2>6
      <3>4. since[1] >= since[Len(since) - Outstanding + 1]
        BY <3>3 DEF Books, Descending
      <3>5. replies[1] \in Int /\ since[1] \in Nat /\ since[Len(since) - Outstanding + 1] \in Nat
        BY <2>2, <3>1, <3>3, RecordFound
      <3> QED
        BY <1>2, <2>1, <2>2, <1>8, <3>2, <3>4, <3>5
    <2> QED
      BY <1>8, <2>3, <2>4, <2>5, <2>6 DEF Books
  <1> QED
    BY <1>a, <1>b

(* A lost reply leaves its record behind, as the oldest. *)
LEMMA LostKeepsBooks ==
    ASSUME TypeOK, Books, PassLost
    PROVE  Books' /\ Room' = Room
  <1>1. replies # <<>> /\ replies' = Tail(replies) /\ UNCHANGED <<line, fill, since>>
    BY DEF PassLost, host, modem
  <1>2. /\ Len(replies) \in Nat \ {0} /\ Len(replies') = Len(replies) - 1
        /\ DOMAIN replies' = 1 .. Len(replies) - 1 /\ DOMAIN replies = 1 .. Len(replies)
        /\ \A j \in 1 .. Len(replies) - 1 : replies'[j] = replies[j + 1]
    BY <1>1 DEF TypeOK
  <1>3. /\ Outstanding \in Nat \ {0} /\ Len(since) \in Nat
        /\ Outstanding = HowMany("STATUS", 1) + Len(replies) /\ HowMany("STATUS", 1) \in Nat
    BY <1>2, OutstandingCount
  <1>4. \A kind, p : HowMany(kind, p)' = HowMany(kind, p)
    BY <1>1 DEF HowMany, Places
  <1>5. Room' = Room
    BY <1>1, <1>4 DEF Room
  <1>6. Outstanding' = Outstanding - 1
    <2>1. Outstanding' = Cardinality({i \in DOMAIN line : line[i] = "STATUS"}) + Len(replies')
      BY <1>1 DEF Outstanding
    <2>2. {i \in DOMAIN line : line[i] = "STATUS"} = Places(line, "STATUS", 1)
      BY DEF Places, TypeOK
    <2>3. Outstanding' = HowMany("STATUS", 1) + Len(replies')
      BY <2>1, <2>2 DEF HowMany
    <2> QED
      BY <1>2, <1>3, <2>3
  <1>8. Descending' /\ RequestsKnown'
    BY <1>1, <1>4 DEF Books, Descending, RequestsKnown
  <1>9. RepliesKnown'
    <2> SUFFICES ASSUME NEW j \in 1 .. Len(replies) - 1, replies'[j] # Lost,
                        Outstanding' - j < Len(since)
                 PROVE  replies'[j] - since[Len(since) - Outstanding' + j] <= Room
      BY <1>1, <1>2, <1>5 DEF RepliesKnown
    <2>1. j + 1 \in DOMAIN replies /\ replies'[j] = replies[j + 1] /\ j \in Nat
      BY <1>2
    <2>2. Outstanding - (j + 1) < Len(since)
      BY <1>3, <1>6, <2>1
    <2>3. replies[j + 1] - since[Len(since) - Outstanding + (j + 1)] <= Room
      BY <2>1, <2>2 DEF Books, RepliesKnown
    <2>4. Len(since) - Outstanding' + j = Len(since) - Outstanding + (j + 1)
      BY <1>3, <1>6, <2>1
    <2> QED
      BY <2>1, <2>3, <2>4
  <1> QED
    BY <1>5, <1>8, <1>9 DEF Books

(* Without records there is nothing to be wrong about. *)
LEMMA ResyncKeepsBooks ==
    ASSUME TypeOK, Books, Resync
    PROVE  Books' /\ Room' = Room
  <1>1. since' = <<>> /\ UNCHANGED <<line, fill, replies>>
    BY DEF Resync, modem
  <1>2. \A kind, p : HowMany(kind, p)' = HowMany(kind, p)
    BY <1>1 DEF HowMany, Places
  <1>3. Room' = Room
    BY <1>1, <1>2 DEF Room
  <1>4. Outstanding' = Outstanding
    BY <1>1 DEF Outstanding
  <1>5. Len(since') = 0 /\ DOMAIN since' = {}
    BY <1>1
  <1>6. Descending'
    BY <1>5 DEF Descending
  <1>7. RepliesKnown'
    <2> SUFFICES ASSUME NEW j \in DOMAIN replies, Outstanding - j < 0
                 PROVE  FALSE
      BY <1>1, <1>4, <1>5 DEF RepliesKnown
    <2> QED
      BY RecordFound
  <1>8. RequestsKnown'
    <2> SUFFICES ASSUME NEW p \in DOMAIN line, line[p] = "STATUS", HowMany("STATUS", p) <= 0
                 PROVE  FALSE
      BY <1>1, <1>2, <1>5 DEF RequestsKnown
    <2> QED
      BY RequestCounted, OutstandingCount
  <1> QED
    BY <1>3, <1>6, <1>7, <1>8 DEF Books

(* A sample frame goes from the line into the modem's buffer. *)
LEMMA SampleKeepsBooks ==
    ASSUME TypeOK, Books, ModemSample
    PROVE  Books' /\ Room' \in Int /\ Room' >= Room /\ (Room >= 0 => Room' = Room /\ overrun' = overrun)
  <1>1. /\ line # <<>> /\ Head(line) = "SAMP" /\ line' = Tail(line)
        /\ UNCHANGED <<since, replies>>
    BY DEF ModemSample, host
  <1>2. fill' = (IF fill < TxFrames THEN fill + 1 ELSE fill)
    BY DEF ModemSample
  <1>3. /\ DOMAIN line' = 1 .. Len(line) - 1 /\ DOMAIN line = 1 .. Len(line)
        /\ Len(line) \in Nat \ {0}
        /\ \A p \in 1 .. Len(line) - 1 : line'[p] = line[p + 1]
        /\ \A kind \in Kind, p \in Nat \ {0} : HowMany(kind, p)' = HowMany(kind, p + 1)
        /\ \A kind \in Kind :
              HowMany(kind, 1) = HowMany(kind, 2) + (IF Head(line) = kind THEN 1 ELSE 0)
    BY <1>1, LineTail
  <1>4. "SAMP" \in Kind /\ "STATUS" \in Kind
    BY DEF Kind
  <1>5. \A p \in Nat \ {0} : /\ HowMany("SAMP", p)' = HowMany("SAMP", p + 1)
                             /\ HowMany("STATUS", p)' = HowMany("STATUS", p + 1)
    BY <1>3, <1>4
  <1>6. /\ HowMany("SAMP", 2) \in Nat /\ HowMany("STATUS", 2) \in Nat
        /\ HowMany("SAMP", 1) = HowMany("SAMP", 2) + 1
        /\ HowMany("STATUS", 1) = HowMany("STATUS", 2) + 0
    <2>1. HowMany("SAMP", 2) \in Nat /\ HowMany("STATUS", 2) \in Nat
      BY <1>4, OutstandingCount
    <2> QED
      BY <1>1, <1>3, <1>4, <2>1
  <1>7. HowMany("SAMP", 1)' = HowMany("SAMP", 1) - 1 /\ HowMany("STATUS", 1)' = HowMany("STATUS", 1)
    BY <1>5, <1>6
  <1>8. Outstanding' = Outstanding
    <2>1. DOMAIN line' = 1 .. Len(line')
      BY <1>1 DEF TypeOK
    <2>2. {i \in DOMAIN line' : line'[i] = "STATUS"} = Places(line', "STATUS", 1)
      BY <2>1 DEF Places
    <2>3. Outstanding' = HowMany("STATUS", 1)' + Len(replies)
      BY <1>1, <2>2 DEF Outstanding, HowMany
    <2> QED
      BY <1>7, <2>3, OutstandingCount
  <1>9. /\ fill \in Nat /\ fill <= TxFrames /\ TxFrames \in Nat
        /\ HowMany("SAMP", 1) \in Nat \ {0}
    BY <1>6, PacingAssumption DEF TypeOK
  <1>10. Room' >= Room /\ Room \in Int /\ Room' \in Int
    BY <1>2, <1>7, <1>9 DEF Room
  <1>11. Room >= 0 => fill < TxFrames
    BY <1>9 DEF Room
  <1>12. Room >= 0 => Room' = Room
    BY <1>2, <1>7, <1>9, <1>11 DEF Room
  <1>13. Room >= 0 => overrun' = overrun
    <2>1. fill < TxFrames => fill # TxFrames
      BY <1>9
    <2>2. overrun' = (overrun \/ fill = TxFrames) /\ overrun \in BOOLEAN
      BY DEF ModemSample, TypeOK
    <2> QED
      BY <1>11, <2>1, <2>2, Zenon
  <1>14. Descending'
    BY <1>1 DEF Books, Descending
  <1>15. RequestsKnown'
    <2> SUFFICES ASSUME NEW p \in 1 .. Len(line) - 1, line'[p] = "STATUS",
                        HowMany("STATUS", p)' <= Len(since)
                 PROVE  since[Len(since) + 1 - HowMany("STATUS", p)'] = HowMany("SAMP", p)'
      BY <1>1, <1>3 DEF RequestsKnown
    <2>1. p \in Nat \ {0} /\ p + 1 \in DOMAIN line /\ line[p + 1] = "STATUS"
      BY <1>3
    <2>2. HowMany("STATUS", p + 1) <= Len(since)
      BY <1>5, <2>1
    <2>3. since[Len(since) + 1 - HowMany("STATUS", p + 1)] = HowMany("SAMP", p + 1)
      BY <2>1, <2>2 DEF Books, RequestsKnown
    <2> QED
      BY <1>5, <2>1, <2>3
  <1>16. RepliesKnown'
    <2> SUFFICES ASSUME NEW j \in DOMAIN replies, replies[j] # Lost, Outstanding - j < Len(since)
                 PROVE  replies[j] - since[Len(since) - Outstanding + j] <= Room'
      BY <1>1, <1>8 DEF RepliesKnown
    <2>1. replies[j] - since[Len(since) - Outstanding + j] <= Room
      BY DEF Books, RepliesKnown
    <2>2. replies[j] \in Int /\ since[Len(since) - Outstanding + j] \in Nat
      BY RecordFound
    <2> QED
      BY <1>10, <2>1, <2>2
  <1> QED
    BY <1>10, <1>12, <1>13, <1>14, <1>15, <1>16 DEF Books

(* The modem's answer, less the frames behind the request on the line, is    *)
(* the room there is.                                                        *)
LEMMA AnswerKeepsBooks ==
    ASSUME TypeOK, Books, NEW answer \in Int, ModemStatus(answer),
           answer # Lost => answer <= TxFrames - fill
    PROVE  Books' /\ Room' = Room
  <1>1. /\ line # <<>> /\ Head(line) = "STATUS" /\ line' = Tail(line)
        /\ replies' = Append(replies, answer)
        /\ UNCHANGED <<since, fill>>
    BY DEF ModemStatus, host, modem
  <1>2. /\ DOMAIN line' = 1 .. Len(line) - 1 /\ DOMAIN line = 1 .. Len(line)
        /\ Len(line) \in Nat \ {0} /\ line[1] = "STATUS"
        /\ \A p \in 1 .. Len(line) - 1 : line'[p] = line[p + 1]
        /\ \A kind \in Kind, p \in Nat \ {0} : HowMany(kind, p)' = HowMany(kind, p + 1)
        /\ \A kind \in Kind :
              HowMany(kind, 1) = HowMany(kind, 2) + (IF Head(line) = kind THEN 1 ELSE 0)
    BY <1>1, LineTail
  <1>3. "SAMP" \in Kind /\ "STATUS" \in Kind
    BY DEF Kind
  <1>4. \A p \in Nat \ {0} : /\ HowMany("SAMP", p)' = HowMany("SAMP", p + 1)
                             /\ HowMany("STATUS", p)' = HowMany("STATUS", p + 1)
    BY <1>2, <1>3
  <1>5. /\ HowMany("SAMP", 2) \in Nat /\ HowMany("STATUS", 2) \in Nat
        /\ HowMany("SAMP", 1) = HowMany("SAMP", 2) + 0
        /\ HowMany("STATUS", 1) = HowMany("STATUS", 2) + 1
    <2>1. HowMany("SAMP", 2) \in Nat /\ HowMany("STATUS", 2) \in Nat
      BY <1>3, OutstandingCount
    <2> QED
      BY <1>1, <1>2, <1>3, <2>1
  <1>6. HowMany("SAMP", 1)' = HowMany("SAMP", 1) /\ HowMany("STATUS", 1)' = HowMany("STATUS", 1) - 1
    BY <1>4, <1>5
  <1>7. /\ Len(replies) \in Nat /\ Len(replies') = Len(replies) + 1
        /\ DOMAIN replies' = 1 .. Len(replies) + 1 /\ DOMAIN replies = 1 .. Len(replies)
        /\ \A j \in 1 .. Len(replies) : replies'[j] = replies[j]
        /\ replies'[Len(replies) + 1] = answer
    BY <1>1 DEF TypeOK
  <1>8. Outstanding' = Outstanding
    <2>1. DOMAIN line' = 1 .. Len(line')
      BY <1>1 DEF TypeOK
    <2>2. {i \in DOMAIN line' : line'[i] = "STATUS"} = Places(line', "STATUS", 1)
      BY <2>1 DEF Places
    <2>3. Outstanding' = HowMany("STATUS", 1)' + Len(replies')
      BY <1>1, <2>2 DEF Outstanding, HowMany
    <2> QED
      BY <1>5, <1>6, <1>7, <2>3, OutstandingCount
  <1>9. Room' = Room
    BY <1>1, <1>6 DEF Room
  <1>10. Descending'
    BY <1>1 DEF Books, Descending
  <1>11. RequestsKnown'
    <2> SUFFICES ASSUME NEW p \in 1 .. Len(line) - 1, line'[p] = "STATUS",
                        HowMany("STATUS", p)' <= Len(since)
                 PROVE  since[Len(since) + 1 - HowMany("STATUS", p)'] = HowMany("SAMP", p)'
      BY <1>1, <1>2 DEF RequestsKnown
    <2>1. p \in Nat \ {0} /\ p + 1 \in DOMAIN line /\ line[p + 1] = "STATUS"
      BY <1>2
    <2>2. HowMany("STATUS", p + 1) <= Len(since)
      BY <1>4, <2>1
    <2>3. since[Len(since) + 1 - HowMany("STATUS", p + 1)] = HowMany("SAMP", p + 1)
      BY <2>1, <2>2 DEF Books, RequestsKnown
    <2> QED
      BY <1>4, <2>1, <2>3
  <1>12. RepliesKnown'
    <2> SUFFICES ASSUME NEW j \in 1 .. Len(replies) + 1, replies'[j] # Lost,
                        Outstanding - j < Len(since)
                 PROVE  replies'[j] - since[Len(since) - Outstanding + j] <= Room
      BY <1>1, <1>7, <1>8, <1>9 DEF RepliesKnown
    <2>1. CASE j \in 1 .. Len(replies)
      <3>1. replies[j] - since[Len(since) - Outstanding + j] <= Room
        BY <1>7, <2>1 DEF Books, RepliesKnown
      <3> QED
        BY <1>7, <2>1, <3>1
    <2>2. CASE j = Len(replies) + 1
      <3>1. 1 \in DOMAIN line /\ line[1] = "STATUS"
        BY <1>2
      <3>m. HowMany("STATUS", 1) <= Len(since)
        BY <2>2, OutstandingCount
      <3>2. since[Len(since) + 1 - HowMany("STATUS", 1)] = HowMany("SAMP", 1)
        BY <3>1, <3>m DEF Books, RequestsKnown
      <3>3. Len(since) - Outstanding + j = Len(since) + 1 - HowMany("STATUS", 1)
        <4>1. /\ Outstanding = HowMany("STATUS", 1) + Len(replies)
              /\ Len(replies) \in Nat /\ Len(since) \in Nat /\ HowMany("STATUS", 1) \in Nat
          BY OutstandingCount
        <4> QED
          BY <2>2, <4>1
      <3>4. answer <= TxFrames - fill
        BY <1>7, <2>2
      <3>5. answer - HowMany("SAMP", 1) <= Room
        <4>1. HowMany("SAMP", 1) \in Nat /\ fill \in Nat /\ TxFrames \in Nat
          BY OutstandingCount, PacingAssumption DEF TypeOK
        <4> QED
          BY <3>4, <4>1 DEF Room
      <3> QED
        BY <1>7, <2>2, <3>2, <3>3, <3>5
    <2> QED
      BY <1>7, <2>1, <2>2
  <1> QED
    BY <1>9, <1>10, <1>11, <1>12 DEF Books

LEMMA PacingInit == Init => PacingInv
  <1> SUFFICES ASSUME Init PROVE PacingInv
    OBVIOUS
  <1>1. TypeOK
    BY PacingInitType
  <1>2. line = <<>> /\ since = <<>> /\ replies = <<>> /\ fill = 0
    BY DEF Init
  <1>3. \A kind : Places(line, kind, 1) = {}
    BY <1>2 DEF Places
  <1>4. HowMany("SAMP", 1) = 0 /\ HowMany("STATUS", 1) = 0
    BY <1>3, FS_EmptySet DEF HowMany
  <1>5. DOMAIN line = {} /\ DOMAIN since = {} /\ DOMAIN replies = {}
    BY <1>2
  <1>6. Len(since) = 0 /\ Len(replies) = 0
    BY <1>2
  <1>7. Outstanding = 0
    BY <1>1, <1>4, <1>6, OutstandingCount
  <1>8. Books
    BY <1>5, <1>6, <1>7 DEF Books, Descending, RequestsKnown, RepliesKnown
  <1>9. Room = TxFrames /\ TxFrames >= 1 /\ TxFrames \in Nat
    BY <1>2, <1>4, PacingAssumption DEF Room
  <1>10. CreditIsRoom /\ AllWillFit
    BY <1>9 DEF Init, CreditIsRoom, AllWillFit
  <1> QED
    BY <1>1, <1>8, <1>10 DEF PacingInv

(* A step that changes neither the line nor the modem's buffer leaves the    *)
(* room as it is.                                                            *)
LEMMA RoomStays ==
    ASSUME UNCHANGED <<line, fill>>
    PROVE  Room' = Room
  BY DEF Room, HowMany, Places

LEMMA PacingStep ==
    ASSUME PacingInv, [Next]_vars
    PROVE  PacingInv'
  <1>1. TypeOK /\ TypeOK' /\ Books /\ CreditIsRoom /\ AllWillFit /\ Room \in Int
    BY PacingStepType, OutstandingCount DEF PacingInv
  <1>2. MIN_FREE \in Nat \ {0} /\ credit \in Int /\ fresh \in Int
    BY <1>1, PacingAssumption DEF TypeOK
  <1>3. CASE Arrive \/ Clear \/ Stall \/ SkipRequest \/ UNCHANGED vars
    <2>1. /\ UNCHANGED <<line, since, replies, fill>>
          /\ UNCHANGED <<credit, space, rx, fresh, overrun, history>>
          /\ tx' = tx \/ (tx \in {"look", "mayAsk"} /\ tx' \in {"look", "mayAsk"})
      BY <1>3 DEF Arrive, Clear, Stall, SkipRequest, vars, host, modem
    <2>2. Room' = Room
      BY <2>1, RoomStays
    <2>3. Books'
      BY <1>1, <2>1, <2>2, BooksStay
    <2>4. CreditIsRoom' /\ AllWillFit'
      BY <1>1, <2>1, <2>2 DEF CreditIsRoom, AllWillFit, history
    <2> QED
      BY <1>1, <2>3, <2>4 DEF PacingInv
  <1>4. CASE SendSample
    <2>1. Books' /\ Room' = Room - 1
      BY <1>1, <1>4, SendKeepsBooks
    <2>2. /\ tx = "look" /\ tx' = "spend" /\ space
          /\ UNCHANGED <<credit, space, rx, fresh, overrun>>
      BY <1>4 DEF SendSample, modem
    <2>3. /\ ~ doubtful' => ~ doubtful /\ rx = "read"
          /\ ~ blind' => ~ blind /\ ~ doubtful'
      BY <1>4, Zenon DEF SendSample
    <2>4. CreditIsRoom' /\ AllWillFit'
      BY <1>1, <1>2, <2>1, <2>2, <2>3 DEF CreditIsRoom, AllWillFit, history
    <2> QED
      BY <1>1, <2>1, <2>4 DEF PacingInv
  <1>5. CASE Spend
    <2>1. /\ UNCHANGED <<line, since, replies, fill>>
          /\ UNCHANGED <<space, rx, fresh, overrun, history>>
          /\ tx = "spend" /\ credit' = credit - 1
          /\ tx' = IF credit - 1 <= MIN_FREE THEN "hold" ELSE "mayAsk"
      BY <1>5 DEF Spend, modem
    <2>2. Room' = Room
      BY <2>1, RoomStays
    <2>3. Books'
      BY <1>1, <2>1, <2>2, BooksStay
    <2>4. CreditIsRoom' /\ AllWillFit'
      BY <1>1, <1>2, <2>1, <2>2 DEF CreditIsRoom, AllWillFit, history
    <2> QED
      BY <1>1, <2>3, <2>4 DEF PacingInv
  <1>6. CASE Hold
    <2>1. /\ UNCHANGED <<line, since, replies, fill>>
          /\ UNCHANGED <<credit, rx, fresh, overrun, history>>
          /\ tx = "hold" /\ tx' = "mustAsk" /\ space' = FALSE
      BY <1>6 DEF Hold, modem
    <2>2. Room' = Room
      BY <2>1, RoomStays
    <2>3. Books'
      BY <1>1, <2>1, <2>2, BooksStay
    <2>4. CreditIsRoom' /\ AllWillFit'
      BY <1>1, <2>1, <2>2 DEF CreditIsRoom, AllWillFit, history
    <2> QED
      BY <1>1, <2>3, <2>4 DEF PacingInv
  <1>7. CASE Resync
    <2>1. Books' /\ Room' = Room
      BY <1>1, <1>7, ResyncKeepsBooks
    <2>2. /\ UNCHANGED <<credit, space, rx, fresh, overrun, history>>
          /\ tx = "look" /\ tx' = "mayAsk"
      BY <1>7 DEF Resync, modem
    <2>3. CreditIsRoom' /\ AllWillFit'
      BY <1>1, <2>1, <2>2 DEF CreditIsRoom, AllWillFit, history
    <2> QED
      BY <1>1, <2>1, <2>3 DEF PacingInv
  <1>8. CASE requestModemStatus
    <2>1. Books' /\ Room' = Room
      BY <1>1, <1>8, RequestKeepsBooks
    <2>2. /\ UNCHANGED <<credit, space, rx, fresh, overrun, history>>
          /\ tx \in {"mustAsk", "mayAsk"} /\ tx' = "look"
      BY <1>8 DEF requestModemStatus, modem
    <2>3. CreditIsRoom' /\ AllWillFit'
      BY <1>1, <2>1, <2>2 DEF CreditIsRoom, AllWillFit, history
    <2> QED
      BY <1>1, <2>1, <2>3 DEF PacingInv
  <1>9. CASE TakeReply
    <2>1. Books' /\ Room' = Room /\ (Outstanding <= Len(since) => fresh' <= Room)
      BY <1>1, <1>9, TakeKeepsBooks
    <2>2. UNCHANGED <<credit, space, tx, overrun, blind>> /\ rx' = "credit"
      BY <1>9 DEF TakeReply, modem
    <2>m. ~ doubtful' => Outstanding <= Len(since)
      <3>1. Outstanding \in Nat /\ Len(since) \in Nat
        BY <1>1, OutstandingCount
      <3>2. doubtful' \/ ~ (Len(since) < Outstanding)
        BY <1>9, Zenon DEF TakeReply
      <3> QED
        BY <3>1, <3>2
    <2>3. CreditIsRoom' /\ AllWillFit'
      BY <1>1, <2>1, <2>2, <2>m DEF CreditIsRoom, AllWillFit, history
    <2> QED
      BY <1>1, <2>1, <2>3 DEF PacingInv
  <1>10. CASE StoreCredit
    <2>1. /\ UNCHANGED <<line, since, replies, fill>>
          /\ UNCHANGED <<space, tx, fresh, overrun, history>>
          /\ rx = "credit" /\ rx' = "space" /\ credit' = fresh
      BY <1>10 DEF StoreCredit, modem
    <2>2. Room' = Room
      BY <2>1, RoomStays
    <2>3. Books'
      BY <1>1, <2>1, <2>2, BooksStay
    <2>4. CreditIsRoom' /\ AllWillFit'
      BY <1>1, <1>2, <2>1, <2>2 DEF CreditIsRoom, AllWillFit, history
    <2> QED
      BY <1>1, <2>3, <2>4 DEF PacingInv
  <1>11. CASE StoreSpace
    <2>1. /\ UNCHANGED <<line, since, replies, fill>>
          /\ UNCHANGED <<credit, tx, fresh, overrun, history>>
          /\ rx = "space" /\ rx' = "read"
      BY <1>11 DEF StoreSpace, modem
    <2>2. space' => fresh >= MIN_FREE
      BY <1>11, Zenon DEF StoreSpace
    <2>3. Room' = Room
      BY <2>1, RoomStays
    <2>4. Books'
      BY <1>1, <2>1, <2>3, BooksStay
    <2>5. CreditIsRoom' /\ AllWillFit'
      BY <1>1, <1>2, <2>1, <2>2, <2>3 DEF CreditIsRoom, AllWillFit, history
    <2> QED
      BY <1>1, <2>4, <2>5 DEF PacingInv
  <1>12. CASE PassLost
    <2>1. Books' /\ Room' = Room
      BY <1>1, <1>12, LostKeepsBooks
    <2>2. UNCHANGED <<credit, space, tx, rx, fresh, overrun, history>>
      BY <1>12 DEF PassLost, host, modem
    <2>3. CreditIsRoom' /\ AllWillFit'
      BY <1>1, <2>1, <2>2 DEF CreditIsRoom, AllWillFit, history
    <2> QED
      BY <1>1, <2>1, <2>3 DEF PacingInv
  <1>13. CASE ModemSample
    <2>1. Books' /\ Room' >= Room /\ Room' \in Int /\ (Room >= 0 => Room' = Room /\ overrun' = overrun)
      BY <1>1, <1>13, SampleKeepsBooks
    <2>2. UNCHANGED <<credit, space, tx, rx, fresh, history>>
      BY <1>13 DEF ModemSample, host
    <2>3. CreditIsRoom'
      BY <1>1, <1>2, <2>1, <2>2 DEF CreditIsRoom, history
    <2>4. Room >= 0 => Room' >= 0
      BY <1>1, <2>1
    <2>5. AllWillFit'
      BY <1>1, <2>1, <2>2, <2>4, Zenon DEF AllWillFit, history
    <2> QED
      BY <1>1, <2>1, <2>3, <2>5 DEF PacingInv
  <1>14. CASE ModemAnswers \/ AnswerIsLost
    <2>1. PICK answer \in Int : ModemStatus(answer) /\ (answer # Lost => answer <= TxFrames - fill)
      BY <1>1, <1>14, FreeSpaceIsCount DEF ModemAnswers, AnswerIsLost, TypeOK, Lost
    <2>2. Books' /\ Room' = Room
      BY <1>1, <2>1, AnswerKeepsBooks
    <2>3. UNCHANGED <<credit, space, tx, rx, fresh, overrun, history>>
      BY <2>1 DEF ModemStatus, host, modem
    <2>4. CreditIsRoom' /\ AllWillFit'
      BY <1>1, <2>2, <2>3 DEF CreditIsRoom, AllWillFit, history
    <2> QED
      BY <1>1, <2>2, <2>4 DEF PacingInv
  <1>15. CASE ModemPlays \/ ModemKeyDown
    <2>1. /\ UNCHANGED <<line, since, replies>>
          /\ UNCHANGED <<credit, space, tx, rx, fresh, overrun, history>>
          /\ fill \in Nat /\ fill' \in Nat /\ fill' <= fill
      BY <1>1, <1>15, PacingAssumption DEF ModemPlays, ModemKeyDown, host, TypeOK
    <2>2. HowMany("SAMP", 1)' = HowMany("SAMP", 1) /\ HowMany("SAMP", 1) \in Nat
      BY <1>1, <2>1, OutstandingCount DEF HowMany, Places
    <2>3. Room' >= Room /\ Room' \in Int
      BY <2>1, <2>2, PacingAssumption DEF Room
    <2>4. Books'
      BY <1>1, <2>1, <2>3, BooksStay
    <2>5. CreditIsRoom' /\ AllWillFit'
      BY <1>1, <1>2, <2>1, <2>3 DEF CreditIsRoom, AllWillFit, history
    <2> QED
      BY <1>1, <2>4, <2>5 DEF PacingInv
  <1> QED
    BY <1>3, <1>4, <1>5, <1>6, <1>7, <1>8, <1>9, <1>10, <1>11, <1>12, <1>13, <1>14, <1>15
    DEF Next, modeTxThread, processSerial, ModemNext

(* The modem refuses a sample frame only if one was sent on a credit that    *)
(* openmtCreditFromStatus() could not get right, whatever the modem's buffer *)
(* holds, however long the line and the list of requests are, whichever      *)
(* replies are lost and whenever the host resynchronises: a reply was taken  *)
(* with fewer records kept than requests unanswered, or modeTxThread() sent  *)
(* while processSerial() was storing the credit it had computed.             *)
THEOREM NothingRefused == Spec => []NeverOverfilled
  <1>1. PacingInv => NeverOverfilled
    BY DEF PacingInv, AllWillFit, NeverOverfilled
  <1>2. PacingInv /\ [Next]_vars => PacingInv'
    BY PacingStep
  <1> QED
    BY <1>1, <1>2, PacingInit, PTL DEF Spec

(* When both threads are between two operations, what the host believes is true. *)
HostIsRight ==
    (rx = "read" /\ tx = "look" /\ ~ doubtful) =>
        /\ credit <= Room
        /\ space => Room >= 1

(* openmtResyncPacing() and the dropping of old records lose no more than    *)
(* the replies then under way: one reply taken with a record for every       *)
(* request unanswered, and openmtCredit and isModemSpace are right again,    *)
(* for every OPENMT_REQ_FIFO, although the modem may already have refused    *)
(* frames and there may be more of them on the line than it has room for.    *)
THEOREM CreditIsRightAgain == Spec => []HostIsRight
  <1>1. PacingInv => HostIsRight
    BY DEF PacingInv, CreditIsRoom, HostIsRight
  <1>2. PacingInv /\ [Next]_vars => PacingInv'
    BY PacingStep
  <1> QED
    BY <1>1, <1>2, PacingInit, PTL DEF Spec
==============================================================================
