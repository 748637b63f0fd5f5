----------------------------- MODULE MCEngineTx ------------------------------
(* Frames of three samples in a ring of eight, so that frames begin at every *)
(* place of the ring, wrap and fill it up.  Four samples start the audio: a  *)
(* second frame is needed.  A cycle is three samples.                        *)
EXTENDS EngineTx
==============================================================================
