------------------------------- MODULE MCDuty -------------------------------
(* Duty with one track to resume, and ticks as long as the debounce *)
EXTENDS Duty
MCTracks == {"track"}
=============================================================================
