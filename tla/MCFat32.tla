------------------------------ MODULE MCFat32 ------------------------------
(* Every FAT of a volume of four clusters, and boot sectors of many shapes, *)
(* some of which no formatter would write, in words of eight bits.          *)
EXTENDS Fat32

MCSmall == [part |-> 5, rsvd |-> 1, nfats |-> 1, fatsz |-> 3, spc |-> 2, ratio |-> 1,
            tot |-> 13, root |-> 2]
MCEmpty == [c \in 2 .. ClusCap - 1 |-> 0]

MCVolumes ==
    [part : {0, 3, 200}, rsvd : {0, 4}, nfats : {0, 1, 2}, fatsz : {1, 3, 130},
     spc : {1, 3}, ratio : {1, 4}, tot : {0, 12, 60, 255}, root : {2}]

MCDisks ==
    {[vol |-> MCSmall, fat |-> f] : f \in [2 .. 5 -> {0, 2, 3, 4, 5}]}
    \cup {[vol |-> v, fat |-> MCEmpty] : v \in MCVolumes}
MCNamed == {0, 2, 3, 6, 14, 15}
MCStarts == {2, 15}
MCStops == {0, 4}
MCLens == {1, 4, 14}
MCSizes == {0, 3, 14}
=============================================================================
