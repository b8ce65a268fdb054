----------------------------- MODULE MCPcmRing -----------------------------
(* PcmRing on a ring of four frames whose indices wrap every eight, so     *)
(* that both indices pass the wrap inside the bound.                       *)
EXTENDS PcmRing

=============================================================================
