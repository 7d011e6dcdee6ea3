------------------------------ MODULE MCPpcMmu ------------------------------
(* Constants for the runs of PpcMmu with a guest that writes anything.      *)
EXTENDS PpcMmu

(* One real page in RAM and one in the SoC region.                          *)
MCRpns == {<<0, 1>>, <<2, 0>>}

(* No set, each of two sets that are not adjacent, and both: either of the  *)
(* two can be valid alone when both are written, so that a write stops      *)
(* before its first set, or with the first set written.                     *)
MCSetMasks == {{}, {0}, {2}, {0, 2}}
=============================================================================
