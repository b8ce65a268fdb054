---------------------------- MODULE MCAudioHal -----------------------------
(* AudioHal with buffers of three frames, a source that may answer short,   *)
(* and a foreground that is gentle or stops whenever it likes.              *)
EXTENDS AudioHal

MCPulls == {0, B - 1, B}
MCPatterns == {Gentle, [perKick |-> 2, atEnd |-> TRUE, again |-> TRUE]}
=============================================================================
