--------------------------- MODULE MCFrameParsers ----------------------------
(* Frames of 3, 5 and 7 bytes, the last with samples.  A type may be taken   *)
(* for a length or a length for a type, and so may the start byte.  Three    *)
(* frames are enough for damage, the frame that a wrong length reaches, and  *)
(* one behind it.                                                            *)
EXTENDS FrameParsers

MCOther == {5}
MCFiller == {0, 8}
==============================================================================
