---------------------------- MODULE MCBootLoader -----------------------------
(* An image of three blocks on two pages: a page holds written and unwritten *)
(* blocks, and the vector table can be in place while later blocks are not.  *)
EXTENDS BootLoader
==============================================================================
