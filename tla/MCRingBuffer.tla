---------------------------- MODULE MCRingBuffer -----------------------------
(* A five byte ring, so that it wraps in two or three calls, two byte        *)
(* values, and blocks up to one byte more than the ring can hold.            *)
EXTENDS RingBuffer, SequencesExt

MCByte == {0, 1}
MCLength == 5
MCBlock == BoundedSeq(MCByte, 3) \cup {<<1, 0, 1, 1>>, <<1, 1, 0, 0, 1>>}
MCRequest == 0 .. 5
==============================================================================
