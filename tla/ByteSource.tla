----------------------------- MODULE ByteSource -----------------------------
(* What codecs/decoder.h promises of a decoder_source_t, said of the whole  *)
(* chain a codec reads a file through: a read delivers the bytes at the     *)
(* cursor, and fewer than were asked for only at the end of the file or     *)
(* once the source says that the disk has failed.                           *)
(*                                                                          *)
(* A byte is its offset in the file.  `sound' turns FALSE at most once:     *)
(* from then on nothing is promised.                                        *)
EXTENDS Integers, Sequences

CONSTANTS FileLen, Reads, Targets

VARIABLES cursor, asked, out, failed, sound
vars == <<cursor, asked, out, failed, sound>>

Bytes(from, n) == [i \in 1 .. n |-> from + i - 1]

Init == cursor = 0 /\ asked = 0 /\ out = <<>> /\ failed = FALSE /\ sound = TRUE

Ask(n) ==
    /\ asked = 0
    /\ asked' = n /\ out' = <<>>
    /\ UNCHANGED <<cursor, failed, sound>>

Answer ==
    /\ asked > 0 /\ asked' = 0
    /\ sound => \E k \in 0 .. asked :
                    /\ out' = Bytes(cursor, k)
                    /\ cursor' = cursor + k
                    /\ k < asked => failed \/ cursor' >= FileLen
    /\ UNCHANGED <<failed, sound>>

Seek(t) == asked = 0 /\ cursor' = t /\ UNCHANGED <<asked, out, failed, sound>>

(* A source fails, or breaks, in the middle of a step of its own. *)
Fail == failed' = TRUE /\ UNCHANGED <<cursor, asked, out, sound>>
Break == sound' = FALSE /\ failed' \in {failed, TRUE} /\ UNCHANGED <<cursor, asked, out>>

Next ==
    \/ \E n \in Reads : Ask(n)
    \/ \E t \in Targets : Seek(t)
    \/ Answer \/ Fail \/ Break

Spec == Init /\ [][Next]_vars
=============================================================================
