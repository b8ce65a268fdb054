----------------------------- MODULE MCReadPipe -----------------------------
(* ReadPipe on a file of seven bytes, two clusters, through a ring of four. *)
EXTENDS ReadPipe
MCReads == {1, 3}
MCTargets == {0, 5, 8}
=============================================================================
