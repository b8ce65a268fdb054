------------------------------- MODULE MCAta -------------------------------
(* Six sectors in physical ones of two, which is also the longest command.  *)
(* Reads: aligned and of two commands, with a head and a tail around a      *)
(* whole one, with an odd buffer, past the end, and of nothing.  Writes: of *)
(* one and of two commands, and each kind that is refused.                  *)
EXTENDS Ata

Range(lba, count) == [lba |-> lba, count |-> count, odd |-> FALSE]
Odd(r) == [r EXCEPT !.odd = TRUE]

MCReads == {Range(0, 4), Range(1, 4), Odd(Range(2, 2)), Range(4, 3), Range(3, 0)}
MCWrites == {Range(2, 2), Range(0, 4), Range(1, 2), Range(2, 1), Odd(Range(2, 2))}
=============================================================================
