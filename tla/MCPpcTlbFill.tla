---------------------------- MODULE MCPpcTlbFill ----------------------------
(* Constants for the runs of PpcTlbFill: as many pages as there are TLB     *)
(* entries, so the last miss takes the last entry.                          *)
EXTENDS PpcTlbFill

MCPages == 0 .. 3

(* Pages 0 and 3 are swapped, 1 maps to itself and 2 into the SoC region.   *)
MCPageTable ==
    [v \in MCPages |-> CASE v = 0 -> <<0, 3>>
                         [] v = 2 -> <<2, 1>>
                         [] v = 3 -> <<0, 0>>
                         [] OTHER -> <<0, v>>]

MCRpns == {<<0, 3>>, <<0, 1>>, <<2, 1>>, <<0, 0>>}

MCSetMasks == {{0}, {1}, {2}, {3}}
=============================================================================
