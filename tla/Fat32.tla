------------------------------- MODULE Fat32 -------------------------------
(* The FAT32 reader (fs/fat32.c): the geometry it takes from a boot sector, *)
(* the walks along a cluster chain (a directory, a file in one go, a        *)
(* stream), and the one call that turns a cluster into an address to write  *)
(* to.  The chain is whatever the disk holds: sound, cut short by an entry  *)
(* that names no cluster, or a cycle; any access to the disk may fail.      *)
(*                                                                          *)
(* A stream's cursor outlives a call; the other calls are made while none   *)
(* is open, as nothing but the caches is shared with them.                  *)
(*                                                                          *)
(* The unit of data is an FS-sector, that of addresses 512 bytes; ReadPipe  *)
(* is about reads that begin or end inside a sector.  A lookup may fail     *)
(* here also when the sector of the FAT is in the cache.                    *)
EXTENDS Integers, Sequences, FiniteSets

CONSTANTS
    Word,          \* 2^32
    ClusCap,       \* FAT_MAX_CLUS_CAP
    PerUnit,       \* the FAT entries in 512 bytes
    DirUnits,      \* FAT_DIR_MAX_BYTES, in 512 bytes
    DirClus,       \* FAT_DIR_MAX_CLUS
    Disks,         \* the boot sectors and FATs there may be
    Named,         \* clusters a file to be written may be said to begin at ...
    Starts,        \* ... first clusters, as a directory entry holds them ...
    Stops,         \* ... where a listing stops, or 0 ...
    Lens, Sizes    \* ... lengths asked for, and sizes of files

(* The fields of a boot sector that are used; ratio is the sector size, one *)
(* of 512 to 4096 bytes, in units of 512.                                   *)
BootSectors ==
    [part : 0 .. Word - 1, rsvd : Nat, nfats : Nat, fatsz : Nat, spc : Nat,
     ratio : Nat \ {0}, tot : Nat, root : Nat]

ASSUME FatAssumption ==
    /\ Word \in Nat /\ ClusCap \in 3 .. Word - 9 /\ PerUnit \in Nat \ {0}
    /\ DirUnits \in Nat /\ DirClus \in Nat \ {0}
    /\ \A d \in Disks :
           /\ d.vol \in BootSectors
           /\ \A c \in 2 .. ClusCap - 1 :
                  c < d.vol.fatsz * PerUnit * d.vol.ratio => d.fat[c] \in Nat
    /\ Named \cup Starts \cup Stops \cup Lens \cup Sizes \subseteq Nat

VARIABLES
    medium,  \* the disk: [vol: the boot sector, fat: the table]
    fs,      \* fat32_t
    op,      \* the call under way, and what it has returned
    st       \* fat32_stream_t, with the sectors it went over

fatVars == <<medium, fs, op, st>>

Lesser(a, b) == IF a < b THEN a ELSE b
Eoc == ClusCap + 8
Fails == 0                      \* next_cluster's answer to a read error
Eio == -2                       \* FAT32_EIO, and the -1 of the reads
Ecorrupt == -3                  \* FAT32_ECORRUPT
Pending == -9                   \* no answer yet

-----------------------------------------------------------------------------
(* fat32_mount: the geometry, and the exclusive ceiling of cluster numbers. *)
Unmounted == [part |-> 0, fat |-> 0, data |-> 0, spc |-> 0, ratio |-> 0,
              perSec |-> 0, total |-> 0, max |-> 0]

Geometry(v) ==
    LET data == (v.rsvd + v.nfats * v.fatsz) % Word
        perSec == PerUnit * v.ratio
        total == IF v.tot > data THEN (v.tot - data) \div v.spc ELSE 0
        byFat == IF v.fatsz > ClusCap \div perSec THEN ClusCap ELSE v.fatsz * perSec
    IN  [part |-> v.part, fat |-> v.rsvd, data |-> data, spc |-> v.spc,
         ratio |-> v.ratio, perSec |-> perSec, total |-> total,
         max |-> IF total # 0 /\ total < ClusCap - 2 THEN Lesser(total + 2, byFat)
                 ELSE byFat]

(* cluster_valid: a number below the ceiling whose sector does not wrap.    *)
Valid(f, c) ==
    /\ 2 <= c /\ c < f.max
    /\ c - 2 <= (Word - 1 - f.data) \div f.spc

FsSector(f, c) == (f.data + (c - 2) * f.spc) % Word

Mountable(v) ==
    /\ v.spc # 0 /\ v.fatsz # 0 /\ v.nfats # 0 /\ v.root >= 2
    /\ Valid(Geometry(v), v.root)

(* next_cluster: an entry that names no data cluster ends the chain.        *)
Lookups(c) ==
    IF ~Valid(fs, c) \/ fs.fat + (c \div fs.perSec) >= fs.data THEN {Eoc}
    ELSE {Fails, IF Valid(fs, medium.fat[c]) THEN medium.fat[c] ELSE Eoc}

-----------------------------------------------------------------------------
(* fat32_file_lba: refused, or the address and length of one cluster.       *)
Refused == [lba |-> 0, run |-> 0]

FileLbaInSectors(f, c) ==   \* mistake: FS-sectors taken for 512-byte ones
    IF f.ratio = 0 \/ f.spc = 0 THEN Refused
    ELSE IF ~Valid(f, c) \/ FsSector(f, c) > Word - 1 - f.part THEN Refused
    ELSE [lba |-> f.part + FsSector(f, c), run |-> f.spc * f.ratio]

FileLba(f, c) ==
    IF f.ratio = 0 \/ f.spc = 0 THEN Refused
    ELSE LET sec == FsSector(f, c)
             rel == (sec * f.ratio) % Word
             lba == (f.part + rel) % Word
             run == f.spc * f.ratio
             end == f.part + (f.data + f.total * f.spc) * f.ratio
         IN  IF \/ ~Valid(f, c)
                \/ sec > (Word - 1) \div f.ratio
                \/ rel > Word - 1 - f.part
                \/ lba <= f.part
                \/ run > Word - 1 - lba
                \/ f.total # 0 /\ end < Word /\ lba + run > end
             THEN Refused ELSE [lba |-> lba, run |-> run]

-----------------------------------------------------------------------------
Idle == [kind |-> "idle"]
Start(call) == op.kind = "idle" /\ op' = call /\ UNCHANGED <<medium, fs, st>>
Running(k) == op.kind = k /\ op.rc = Pending
Returns(o, rc) == op' = [o EXCEPT !.rc = rc]

(* The caller takes the result. *)
Returned ==
    /\ op.kind # "idle" /\ op.rc # Pending
    /\ op' = Idle
    /\ UNCHANGED <<medium, fs, st>>

Closed == [clus |-> 0, off |-> 0, left |-> 0, start |-> 0, size |-> 0, over |-> <<>>]

Mount ==
    /\ op.kind = "idle" /\ fs = Unmounted
    /\ Mountable(medium.vol)
    /\ fs' = Geometry(medium.vol)
    /\ UNCHANGED <<medium, op, st>>

Resolve(c) ==
    /\ st = Closed
    /\ Start([kind |-> "lba", clus |-> c, addr |-> FileLba(fs, c), rc |-> 0])

-----------------------------------------------------------------------------
(* fat32_readdir: one cluster of entries a turn.  A tortoise follows at     *)
(* half the speed, and meets the walk on a cycle.                           *)
DirLimit == Lesser(DirUnits \div (fs.spc * fs.ratio) + 1, DirClus)

ReadDir(c, stop) ==
    /\ fs # Unmounted /\ st = Closed
    /\ Start([kind |-> "dir", start |-> c, stop |-> stop, clus |-> c, slow |-> c,
              odd |-> FALSE, guard |-> DirLimit, seen |-> <<>>, rc |-> Pending])

TortoiseKeepsUp(odd, slow) == Lookups(slow)   \* mistake: at full speed
Tortoise(odd, slow) == IF odd THEN Lookups(slow) ELSE {slow}

DirFollow(o) ==
    \E next \in Lookups(o.clus), slow \in Tortoise(o.odd, o.slow) :
        IF next = Fails \/ slow = Fails THEN Returns(o, Eio)
        ELSE IF Valid(fs, next) /\ next = slow THEN Returns(o, Ecorrupt)
        ELSE op' = [o EXCEPT !.clus = next, !.slow = slow, !.odd = ~@]

DirTurn ==
    /\ Running("dir")
    /\ LET read == [op EXCEPT !.seen = Append(@, op.clus), !.guard = @ - 1]
       IN  IF ~Valid(fs, op.clus) THEN Returns(op, 0)
           ELSE IF op.guard = 0 THEN Returns(op, Ecorrupt)
           ELSE \/ Returns(op, Eio)
                \/ op.clus = op.stop /\ Returns(read, 0)
                \/ op.clus # op.stop /\ DirFollow(read)
    /\ UNCHANGED <<medium, fs, st>>

-----------------------------------------------------------------------------
(* fat32_read_file: one cluster a turn, and no lookup after the last byte.  *)
Sectors(c, from, n) == [i \in 1 .. n |-> <<c, from + i - 1>>]

ReadFile(c, n) ==
    /\ fs # Unmounted /\ st = Closed
    /\ Start([kind |-> "file", start |-> c, len |-> n, clus |-> c, guard |-> fs.max,
              seen |-> <<>>, rc |-> IF Valid(fs, c) THEN Pending ELSE Ecorrupt])

FileFollow(o) ==
    \E next \in Lookups(o.clus) :
        IF next = Fails THEN Returns(o, Eio) ELSE op' = [o EXCEPT !.clus = next]

FileNext(o) ==
    IF Len(o.seen) = o.len THEN Returns(o, o.len) ELSE FileFollow(o)

FileTurn ==
    /\ Running("file")
    /\ LET n == Lesser(op.len - Len(op.seen), fs.spc)
           read == [op EXCEPT !.seen = @ \o Sectors(op.clus, 0, n), !.guard = @ - 1]
       IN  IF n = 0 \/ ~Valid(fs, op.clus) THEN Returns(op, Len(op.seen))
           ELSE IF op.guard = 0 THEN Returns(op, Ecorrupt)
           ELSE Returns(op, Eio) \/ FileNext(read)
    /\ UNCHANGED <<medium, fs, st>>

-----------------------------------------------------------------------------
(* fat32_stream_open, _read and _skip: the cursor outlives the call.        *)
StreamOpen(c, size) ==
    /\ op.kind = "idle" /\ fs # Unmounted
    /\ st' = [Closed EXCEPT !.clus = IF size = 0 THEN 0 ELSE c, !.left = size,
                            !.start = c, !.size = size]
    /\ UNCHANGED <<medium, fs, op>>

StreamCall(kind, n) ==
    /\ fs # Unmounted /\ st # Closed
    /\ Start([kind |-> kind, len |-> n, got |-> 0, from |-> Len(st.over), rc |-> Pending,
              guard |-> fs.max])

Moved(n) ==
    [st EXCEPT !.off = @ + n, !.left = @ - n,
               !.over = @ \o Sectors(st.clus, st.off, n)]

(* What a read answers to an error; a skip just reports how far it came.    *)
Stuck(o, err) == Returns(o, IF o.kind = "read" THEN err ELSE o.got)

StreamAdvance(o, s) ==
    IF s.off < fs.spc \/ s.left = 0 THEN st' = s /\ op' = o
    ELSE \E next \in Lookups(s.clus) :
            /\ st' = [s EXCEPT !.clus = next, !.off = 0]
            /\ IF next = Fails THEN Stuck(o, Eio) ELSE op' = o

StreamTurn ==
    /\ Running("read") \/ Running("skip")
    /\ LET n == Lesser(Lesser(op.len - op.got, st.left), fs.spc - st.off)
           moved == [op EXCEPT !.got = @ + n, !.guard = @ - 1]
       IN  IF n = 0 \/ ~Valid(fs, st.clus) THEN Returns(op, op.got) /\ st' = st
           ELSE IF op.guard = 0 THEN Stuck(op, Ecorrupt) /\ st' = st
           ELSE \/ op.kind = "read" /\ Returns(op, Eio) /\ st' = st
                \/ StreamAdvance(moved, Moved(n))
    /\ UNCHANGED <<medium, fs>>

-----------------------------------------------------------------------------
FatInit ==
    /\ medium \in Disks
    /\ fs = Unmounted /\ op = Idle /\ st = Closed

FatNext ==
    \/ Mount \/ Returned \/ DirTurn \/ FileTurn \/ StreamTurn
    \/ \E c \in Named : Resolve(c)
    \/ \E c \in Starts : \/ \E stop \in Stops : ReadDir(c, stop)
                         \/ \E n \in Lens : ReadFile(c, n)
                         \/ \E n \in Sizes : StreamOpen(c, n)
    \/ \E n \in Lens : StreamCall("read", n) \/ StreamCall("skip", n)

FatSpec == FatInit /\ [][FatNext]_fatVars

-----------------------------------------------------------------------------
(* What the disk really holds: the clusters that have both an entry in the  *)
(* FAT and a place in the data area, and the chain from one of them.        *)
TrueData(v) == v.rsvd + v.nfats * v.fatsz
Room(v) == IF v.tot > TrueData(v) THEN (v.tot - TrueData(v)) \div v.spc ELSE 0

DataCluster(v, c) ==
    /\ 2 <= c /\ c < ClusCap /\ c < v.fatsz * PerUnit * v.ratio
    /\ Room(v) # 0 => c - 2 < Room(v)
    /\ TrueData(v) + (c - 2) * v.spc < Word

OnDisk(c) == DataCluster(medium.vol, c)
Link(c) == IF OnDisk(c) THEN medium.fat[c] ELSE Eoc
Walk(start) == LET walk[i \in Nat] == IF i = 0 THEN start ELSE Link(walk[i - 1]) IN walk

(* A walk over more clusters than there are comes back to one of them.      *)
Cyclic(start) == \A i \in 0 .. ClusCap : OnDisk(Walk(start)[i])
Reach(start) == Cardinality({Walk(start)[i] : i \in 0 .. ClusCap})

(* A directory is listed in the order of its chain, whole unless an error   *)
(* or the caller ends the listing; a sound one within the limit is never    *)
(* called corrupt; a cyclic one never passes for listed, and no more than   *)
(* twice its clusters are read before that is noticed.                      *)
DirFaithful(o) ==
    LET chain == Walk(o.start)
        n == Len(o.seen)
    IN  /\ \A i \in 1 .. n : o.seen[i] = chain[i - 1] /\ OnDisk(chain[i - 1])
        /\ \A i \in 1 .. n - 1 : o.seen[i] # o.stop
        /\ o.rc = 0 => \/ n > 0 /\ o.seen[n] = o.stop
                       \/ ~OnDisk(chain[n]) /\ ~Cyclic(o.start)
        /\ o.rc = Ecorrupt => Cyclic(o.start) \/ OnDisk(chain[DirLimit])
        /\ Cyclic(o.start) => n < 2 * Reach(o.start)

(* The first sectors of a file, by the chain, and how many of them exist.   *)
Content(start, n) ==
    [i \in 1 .. n |-> <<Walk(start)[(i - 1) \div medium.vol.spc], (i - 1) % medium.vol.spc>>]
There(start, n) ==
    Cardinality({i \in 1 .. n : OnDisk(Walk(start)[(i - 1) \div medium.vol.spc])})

(* A read in one go and a stream deliver the sectors of the chain in order, *)
(* none twice and none left out, across calls, skips and errors.  A call    *)
(* comes up short of what there is only with an error, and an error means   *)
(* there was more to deliver; only a cycle, or a bad first cluster, is      *)
(* called corrupt.                                                          *)
FileFaithful(o) ==
    /\ o.seen = Content(o.start, Len(o.seen))
    /\ Len(o.seen) <= There(o.start, o.len)
    /\ o.rc >= 0 => o.rc = Len(o.seen) /\ o.rc = There(o.start, o.len)
    /\ o.rc = Eio => Len(o.seen) < o.len
    /\ o.rc = Ecorrupt => Cyclic(o.start) \/ ~OnDisk(o.start)

StreamFaithful(s, o) ==
    /\ s.over = Content(s.start, Len(s.over)) /\ Len(s.over) + s.left = s.size
    /\ Len(s.over) <= There(s.start, s.size)
    /\ o.kind \in {"read", "skip"} =>
           /\ Len(s.over) = o.from + o.got
           /\ o.rc >= 0 /\ s.clus # Fails =>
                  \/ o.rc = Lesser(o.len, There(s.start, s.size) - o.from)
                  \/ o.kind = "skip" /\ Cyclic(s.start)
           /\ o.rc = Ecorrupt => Cyclic(s.start)

ChainsFaithful ==
    TrueData(medium.vol) < Word =>
        /\ op.kind = "dir" => DirFaithful(op)
        /\ op.kind = "file" => FileFaithful(op)
        /\ st # Closed => StreamFaithful(st, op)

(* fat32_file_lba: exactly the address a cluster has, computed without a    *)
(* word size, and the whole run inside the volume when its size is known;   *)
(* every cluster the volume has is resolved as long as its run can be       *)
(* addressed, and before a mount none is.                                   *)
LbaExact ==
    op.kind = "lba" =>
        LET v == medium.vol
            first == v.part + (TrueData(v) + (op.clus - 2) * v.spc) * v.ratio
            run == v.spc * v.ratio
        IN  IF fs = Unmounted THEN op.addr = Refused
            ELSE TrueData(v) < Word =>
                    /\ IF DataCluster(v, op.clus) /\ first + run < Word
                       THEN op.addr = [lba |-> first, run |-> run]
                       ELSE op.addr = Refused
                    /\ op.addr # Refused /\ Room(v) # 0 =>
                           op.addr.lba + op.addr.run <= v.part + v.tot * v.ratio
=============================================================================
