---- MODULE MCPlayer ----
(* Files: a short one that may fail to open, one longer than the ring, one  *)
(* at another rate, one at a rate the DAC cannot do and one that never opens*)
EXTENDS Player

MCFiles == {"short", "long", "other", "odd", "broken"}
MCQueues == {<<<<"long", "other", "short">>, FALSE>>, <<<<"short", "folder", "odd", "broken">>, TRUE>>}
MCModes == {<<FALSE, "off">>, <<FALSE, "one">>, <<TRUE, "all">>}
MCFrames == [f \in MCFiles |-> CASE f = "short" -> 1 [] f = "long" -> 3 [] OTHER -> 2]
MCRate == [f \in MCFiles |-> CASE f = "other" -> 2 [] f = "odd" -> 3 [] OTHER -> 1]
====
