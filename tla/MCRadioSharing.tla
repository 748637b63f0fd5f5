--------------------------- MODULE MCRadioSharing ----------------------------
(* Two services with one or two calls each, so that the radio changes hands  *)
(* and is taken again within the hang time; two frames in each buffer, so    *)
(* that both fill up.                                                        *)
EXTENDS RadioSharing

CONSTANTS s1, s2

MCSvc == {s1, s2}

\* What follows a hasty call, a race or a slip, which every property leaves out, is not explored.
Followed == Orderly /\ None({"slip"})
==============================================================================
