--------------------------- MODULE MCPowerPolicy ---------------------------
(* PowerPolicy with the thresholds in the order and about the ratio of the  *)
(* code's (2 s held, 5 s to dim, 20 s to off).                              *)
EXTENDS PowerPolicy
=============================================================================
