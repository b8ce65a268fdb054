----------------------------- MODULE FrameFifo -----------------------------
(***************************************************************************)
(* What core/kernel/pcm_ring.h promises its two callers, with nothing of   *)
(* how it is done: a bounded first-in first-out stream of frames.  A block *)
(* of frames becomes available all at once, and only if it fits; frames    *)
(* come out one by one, in the order they went in.                         *)
(***************************************************************************)
EXTENDS Integers, Sequences

CONSTANT Cap      \* frames the stream may hold

VARIABLES
    sent,         \* frames accepted so far
    heard         \* the frames delivered so far

vars == <<sent, heard>>

Init == sent = 0 /\ heard = <<>>

Accept ==
    /\ \E n \in 0 .. Cap - (sent - Len(heard)) : sent' = sent + n
    /\ UNCHANGED heard

Deliver ==
    /\ Len(heard) < sent
    /\ heard' = Append(heard, Len(heard))
    /\ UNCHANGED sent

Clear == sent' = 0 /\ heard' = <<>>

Next == Accept \/ Deliver \/ Clear

Spec == Init /\ [][Next]_vars
=============================================================================
