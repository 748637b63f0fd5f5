----------------------------- MODULE MCEngineRx ------------------------------
(* A ring of two frames of two samples, which overflows, and counters of 32  *)
(* values that begin shortly before they wrap around; seven ticks, in which  *)
(* the ring goes round nearly twice, and two downlinks.                      *)
EXTENDS EngineRx

MCStart == {Word - 1}
==============================================================================
