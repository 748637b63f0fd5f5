--------------------------- MODULE MCCreditPacing ----------------------------
(* A modem buffer of three frames behind a line of two, so that frames in    *)
(* flight can be most of what the modem holds, and a request list of two     *)
(* entries, so that it overflows with replies still to come: two requests    *)
(* are on the line and one is answered when the list has to drop a record.   *)
EXTENDS CreditPacing
==============================================================================
