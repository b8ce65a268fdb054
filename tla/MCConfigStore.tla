--------------------------- MODULE MCConfigStore ---------------------------
(* ConfigStore with an eight-value sequence word, so that it wraps, and    *)
(* five places the file can be: two good ones, one in a cluster too short  *)
(* for both slots, one off the drive's physical sectors, one truncated.    *)
EXTENDS ConfigStore

At(base, run, size, ok) ==
    [resolves |-> ok, base |-> base, run |-> run, part_lba |-> 2, size |-> size]
MCGeometries ==
    {At(8, 4, 2048, TRUE), At(16, 8, 4096, TRUE),
     At(8, 2, 2048, TRUE), At(9, 8, 4096, TRUE), At(8, 4, 2047, TRUE)}
=============================================================================
