------------------------- MODULE MCHostConnections ---------------------------
(* Three connections, of which two want the same mode, on one or two slots:  *)
(* slots are reused, the table fills up, and a mode is asked for twice.      *)
EXTENDS HostConnections, TLC

CONSTANTS c1, c2, c3, DMR, YSF

MCConn == {c1, c2, c3}
MCMode == {DMR, YSF}
MCPair == {c1, c3}
MCPairWants == (c1 :> DMR) @@ (c3 :> YSF)
MCWants == (c1 :> DMR) @@ (c2 :> DMR) @@ (c3 :> YSF)
==============================================================================
