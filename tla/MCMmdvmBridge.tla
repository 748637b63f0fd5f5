--------------------------- MODULE MCMmdvmBridge -----------------------------
(* Two connections and two modes, one of them buffered, so that one, several *)
(* or no modes are enabled and the modem changes hands; one delayed command  *)
(* and a queue of two frames, so that both fill up.                          *)
EXTENDS MmdvmBridge

CONSTANTS c1, c2, DSTAR

MCConn == {c1, c2}
MCMode == {DMR, DSTAR}
MCBuffered == {DSTAR}
==============================================================================
