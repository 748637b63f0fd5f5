---------------------------- MODULE MCDmrGateway -----------------------------
(* Two calls from the network, one from the DMR host, two lost packets and a *)
(* restart of the master.                                                    *)
EXTENDS DmrGateway
==============================================================================
