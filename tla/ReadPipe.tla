------------------------------ MODULE ReadPipe ------------------------------
(* The chain a codec reads a file through: the read-ahead shim over the     *)
(* anti-skip buffer over a forward-only FAT32 stream with checkpoints       *)
(* (codecs/readahead.c, codecs/diskbuf.c, fat_src_* of player/player.c,     *)
(* fat32_stream_* of fs/fat32.c).  Everything runs on the main thread; what *)
(* makes it hard is that each layer keeps its own idea of where the layer   *)
(* below stands, moves lazily, and that the disk may fail at any of the     *)
(* accesses one read is made of.                                            *)
(*                                                                          *)
(* A byte is its offset in the file, so a byte delivered at the wrong place *)
(* shows.  The file's chain is sound here; Fat32 is about those that are    *)
(* not.                                                                     *)
EXTENDS Integers, Sequences, FiniteSetsExt

CONSTANTS
    FileLen, Sector, Cluster,       \* the file, and the volume's geometry
    Cap, Low, High,                 \* DISK_BUF_BYTES, DISK_LOW, DISK_HIGH
    Chunk, SyncChunk, RaCap,        \* DISK_CHUNK, DISKBUF_SYNC_CHUNK, RA_BYTES
    CkptMax, CkptStride,            \* FSRC_CKPT_MAX, ck_stride
    ErrRetries,                     \* DISKBUF_ERR_RETRIES
    Reads, Targets,                 \* what the codec asks for, where it seeks
    MaxFaults, MaxSeeks             \* bounds

ASSUME PipeAssumption ==
    /\ FileLen \in Nat \ {0} /\ Sector \in Nat \ {0} /\ Cap \in Nat \ {0}
    /\ Cluster \in Nat \ {0} /\ Cluster % Sector = 0
    /\ Low < High /\ High <= Cap /\ {Low, High} \subseteq Nat \ {0}
    /\ {Chunk, SyncChunk, RaCap} \subseteq 1 .. Cap
    /\ {CkptMax, CkptStride, ErrRetries} \subseteq Nat \ {0}
    /\ Reads \subseteq Nat \ {0} /\ Targets \subseteq Nat
    /\ MaxFaults \in Nat /\ MaxSeeks \in Nat

VARIABLES
    src,     \* g_fsrc: [pos, phys, st, err, ck]
    db,      \* g_dbuf: [lo, wr, rd, inner_pos, filling, eos, err, streak]
    buf,     \* disk_buf, slot by slot
    ra,      \* g_ra: [pos, data, cursor, inner_pos]
    call,    \* the codec's read under way: [at, start, left, got, want, blk]
    slipped, \* history: a failure below has been lost on the way up
    faults,  \* how many accesses have failed ...
    dead,    \* ... and whether every later one will
    seeks

pipe == <<src, db, buf, ra>>
history == <<slipped, faults, dead, seeks>>
vars == <<pipe, call, history>>

Bytes(from, n) == [i \in 1 .. n |-> from + i - 1]
Lesser(a, b) == IF a < b THEN a ELSE b
Dead == -1          \* a stream whose cluster could not be followed: clus = 0
Unknown == -1       \* inner_pos of a layer that has not been positioned

-----------------------------------------------------------------------------
(* fat32_stream_t and fat_src_t.  st is where the stream really stands.     *)
Remaining(st) == IF st = Dead THEN 0 ELSE FileLen - st

(* The offsets, from at, where a read of n bytes goes to the disk: an       *)
(* unaligned head, whole sectors up to the end of the cluster, the tail.    *)
(* Each is one access, and what was moved before a failed one stays moved.  *)
PieceStarts(at, n) ==
    {k \in 0 .. n - 1 :
        \/ k = 0 \/ (at + k) % Cluster = 0
        \/ (at + k) % Sector = 0 /\ (k < Sector \/ n - k < Sector)}

(* ... and where it goes to the FAT: a cluster used up, and file left.      *)
ClusterEnds(at, n) ==
    {k \in 1 .. n : (at + k) % Cluster = 0 /\ at + k < FileLen}

(* fat_src_sync: back to the newest checkpoint that is early enough ...     *)
RewoundToNewest(s) ==   \* mistake: the newest checkpoint of all
    IF s.pos >= s.phys THEN s
    ELSE IF s.ck = <<>> THEN [s EXCEPT !.phys = 0, !.st = 0]
         ELSE [s EXCEPT !.phys = s.ck[Len(s.ck)].phys, !.st = s.ck[Len(s.ck)].st]
Rewound(s) ==
    LET early == {i \in DOMAIN s.ck : s.ck[i].phys <= s.pos}
    IN  IF s.pos >= s.phys THEN s
        ELSE IF early = {} THEN [s EXCEPT !.phys = 0, !.st = 0]
        ELSE [s EXCEPT !.phys = s.ck[Max(early)].phys, !.st = s.ck[Max(early)].st]

(* ... and forward along the chain.  A FAT read that fails only stops it.   *)
Synced(s) ==
    LET back == Rewound(s)
        d == IF back.pos <= back.phys THEN 0
             ELSE Lesser(back.pos - back.phys, Remaining(back.st))
    IN  {[src |-> [back EXCEPT !.phys = @ + d, !.st = IF d = 0 THEN @ ELSE @ + d],
          bad |-> FALSE]}
        \cup
        {[src |-> [back EXCEPT !.phys = @ + k, !.st = Dead], bad |-> TRUE] :
            k \in IF d = 0 THEN {} ELSE ClusterEnds(back.st, d)}

Checkpointed(s) ==
    LET next == CkptStride + (IF s.ck = <<>> THEN 0 ELSE s.ck[Len(s.ck)].phys)
    IN  IF Len(s.ck) >= CkptMax \/ s.phys < next THEN s
        ELSE [s EXCEPT !.ck = Append(@, [phys |-> s.phys, st |-> s.st])]

(* fat_src_read(n): what it may leave behind and return.  slip: a failure   *)
(* that the caller is not told of, or that has moved the stream.            *)
SrcRead(s, n) ==
    UNION {
        LET t == r.src
            m == Lesser(n, Remaining(t.st))
        IN  {[src |-> IF m = 0 THEN t
                      ELSE Checkpointed([t EXCEPT !.err = FALSE, !.st = @ + m,
                                                  !.phys = @ + m, !.pos = @ + m]),
              got |-> IF m = 0 THEN <<>> ELSE Bytes(t.st, m),
              bad |-> r.bad, slip |-> r.bad]}
            \cup
            {[src |-> [t EXCEPT !.err = TRUE, !.st = @ + k], got |-> <<>>,
              bad |-> TRUE, slip |-> r.bad \/ k > 0] :
                k \in IF m = 0 THEN {} ELSE PieceStarts(t.st, m)}
            \cup
            {[src |-> [t EXCEPT !.err = TRUE, !.st = Dead], got |-> <<>>,
              bad |-> TRUE, slip |-> r.bad] :
                k \in IF m = 0 THEN {} ELSE ClusterEnds(t.st, m)}
        : r \in Synced(s)}

-----------------------------------------------------------------------------
(* diskbuf_t.  Making room drops what has been read, never what has not.    *)
EvictedAnything(d, want) ==   \* mistake: drops unread bytes too
    [d EXCEPT !.lo = IF Cap - (d.wr - @) >= want THEN @ ELSE d.wr + want - Cap]
Evicted(d, want) ==
    LET need == want - (Cap - (d.wr - d.lo))
    IN  IF need <= 0 THEN d ELSE [d EXCEPT !.lo = @ + Lesser(need, d.rd - @)]

Stored(b, at, bytes) ==
    [i \in 0 .. Cap - 1 |->
        IF \E j \in 1 .. Len(bytes) : (at + j - 1) % Cap = i
        THEN bytes[CHOOSE j \in 1 .. Len(bytes) : (at + j - 1) % Cap = i]
        ELSE b[i]]

(* diskbuf_fetch(want): every way it may go, as records of what it leaves.  *)
Fetched(want) ==
    LET d == Evicted(db, want)
        room == Cap - (d.wr - d.lo)
        n == Lesser(Lesser(want, room), Cap - (d.wr % Cap))
        seen == [d EXCEPT !.inner_pos = d.wr]
    IN  IF room = 0 \/ (d.inner_pos # d.wr /\ d.wr > FileLen)
        THEN {[db |-> d, src |-> src, buf |-> buf, n |-> 0, bad |-> FALSE, slip |-> FALSE]}
        ELSE {[db |-> IF r.got # <<>>
                      THEN [seen EXCEPT !.streak = 0, !.wr = @ + Len(r.got),
                                        !.inner_pos = @ + Len(r.got)]
                      ELSE IF r.src.err THEN [seen EXCEPT !.streak = Lesser(@ + 1, ErrRetries)]
                      ELSE [seen EXCEPT !.eos = TRUE],
               src |-> r.src, buf |-> Stored(buf, d.wr, r.got), n |-> Len(r.got),
               bad |-> r.bad, slip |-> r.slip]
              : r \in SrcRead([src EXCEPT !.pos = d.wr], n)}

(* A disk fails now and then, or for good. *)
Takes(r, all) ==
    /\ r.bad => dead \/ faults < MaxFaults
    /\ dead => r.bad \/ \A q \in all : ~q.bad
    /\ faults' = IF r.bad THEN Lesser(faults + 1, MaxFaults) ELSE faults
    /\ src' = r.src /\ buf' = r.buf

(* diskbuf_seek(t, SET) *)
Sought(d, t) ==
    IF d.lo <= t /\ t <= d.wr THEN [d EXCEPT !.rd = t]
    ELSE [d EXCEPT !.lo = t, !.wr = t, !.rd = t, !.eos = FALSE]

-----------------------------------------------------------------------------
(* A read by the codec, one turn of a loop at a time: at "ra" the shim      *)
(* serves or asks below, at "db" the buffer serves or fetches, at "back"    *)
(* the shim takes what the buffer returned.                                 *)
InWindow == ra.data # <<>> /\ ra.pos <= ra.cursor /\ ra.cursor < ra.pos + Len(ra.data)

Ask(n) ==
    /\ call.at = "idle"
    /\ call' = [at |-> "ra", start |-> ra.cursor, left |-> n, got |-> <<>>,
                want |-> 0, blk |-> <<>>]
    /\ UNCHANGED <<pipe, history>>

RaServe ==
    /\ call.at = "ra" /\ call.left > 0 /\ InWindow
    /\ LET off == ra.cursor - ra.pos
           n == Lesser(call.left, Len(ra.data) - off)
       IN  /\ call' = [call EXCEPT !.left = @ - n,
                                   !.got = @ \o SubSeq(ra.data, off + 1, off + n)]
           /\ ra' = [ra EXCEPT !.cursor = @ + n]
    /\ UNCHANGED <<src, db, buf, history>>

(* A large request bypasses the shim's block, a small one refills it.       *)
Bulk == call.left >= RaCap

RaAsk ==
    /\ call.at = "ra" /\ call.left > 0 /\ ~InWindow
    /\ db' = IF ra.inner_pos = ra.cursor THEN db ELSE Sought(db, ra.cursor)
    /\ ra' = [ra EXCEPT !.inner_pos = ra.cursor]
    /\ call' = [call EXCEPT !.at = "db", !.want = IF Bulk THEN call.left ELSE RaCap,
                            !.blk = <<>>]
    /\ UNCHANGED <<src, buf, history>>

DbServe ==
    /\ call.at = "db" /\ db.rd < db.wr /\ Len(call.blk) < call.want
    /\ LET n == Lesser(call.want - Len(call.blk), db.wr - db.rd)
       IN  /\ call' = [call EXCEPT !.blk =
                          @ \o [i \in 1 .. n |-> buf[(db.rd + i - 1) % Cap]]]
           /\ db' = [db EXCEPT !.rd = @ + n]
    /\ UNCHANGED <<src, buf, ra, history>>

(* A drained buffer fetches on the spot, and a failure is latched at once.  *)
DbFetch ==
    /\ call.at = "db" /\ db.rd = db.wr /\ Len(call.blk) < call.want
    /\ \E r \in Fetched(SyncChunk) :
        LET ends == r.n = 0 /\ ~r.db.eos
        IN  /\ Takes(r, Fetched(SyncChunk))
            /\ db' = IF ends THEN [r.db EXCEPT !.err = TRUE] ELSE r.db
            /\ slipped' = (slipped \/ r.slip \/ (r.bad /\ r.n = 0 /\ r.db.eos))
            /\ call' = IF r.n = 0 THEN [call EXCEPT !.at = "back"] ELSE call
    /\ UNCHANGED <<ra, dead, seeks>>

DbDone ==
    /\ call.at = "db" /\ Len(call.blk) = call.want
    /\ call' = [call EXCEPT !.at = "back"]
    /\ UNCHANGED <<pipe, history>>

RaTake ==
    /\ call.at = "back"
    /\ LET n == Len(call.blk) IN
       IF Bulk
       THEN /\ ra' = [ra EXCEPT !.inner_pos = @ + n, !.cursor = @ + n]
            /\ call' = [call EXCEPT !.at = IF n = 0 THEN "done" ELSE "ra",
                                    !.left = @ - n, !.got = @ \o call.blk]
       ELSE /\ ra' = [ra EXCEPT !.pos = ra.cursor, !.data = call.blk,
                                !.inner_pos = @ + n]
            /\ call' = [call EXCEPT !.at = IF n = 0 THEN "done" ELSE "ra"]
    /\ UNCHANGED <<src, db, buf, history>>

Idle == [at |-> "idle", start |-> 0, left |-> 0, got |-> <<>>, want |-> 0, blk |-> <<>>]

RaDone ==
    /\ call.at = "done" \/ (call.at = "ra" /\ call.left = 0)
    /\ call' = [Idle EXCEPT !.got = call.got]
    /\ UNCHANGED <<pipe, history>>

-----------------------------------------------------------------------------
(* Seeks by the codec.  Only one from the end moves the layers below; it    *)
(* resets the buffer's window but not what it knows of the end of file.     *)
SeekSet(t) ==
    /\ call.at = "idle" /\ seeks < MaxSeeks
    /\ seeks' = seeks + 1
    /\ ra' = [ra EXCEPT !.cursor = t]
    /\ UNCHANGED <<src, db, buf, call, slipped, faults, dead>>

SeekEnd(t) ==
    /\ call.at = "idle" /\ seeks < MaxSeeks /\ t <= FileLen
    /\ seeks' = seeks + 1
    /\ src' = [src EXCEPT !.pos = t]
    /\ db' = [db EXCEPT !.inner_pos = t, !.lo = t, !.wr = t, !.rd = t]
    /\ ra' = [ra EXCEPT !.cursor = t, !.inner_pos = t]
    /\ UNCHANGED <<buf, call, slipped, faults, dead>>

(* diskbuf_pump: a burst goes on to the high watermark, a rest to the low   *)
(* one; a burst that fails on and on gives up.                              *)
Ahead == db.wr - db.rd
BurstOverUnlessFailed == db.eos \/ Ahead >= High   \* mistake: a latched error forgotten
BurstOver == db.eos \/ db.err \/ Ahead >= High

PumpRest ==
    /\ call.at = "idle" /\ db.filling /\ BurstOver
    /\ db' = [db EXCEPT !.filling = FALSE]
    /\ UNCHANGED <<src, buf, ra, call, history>>

GivesUp(r) ==
    IF r.n = 0 /\ ~r.db.eos /\ r.db.streak >= ErrRetries
    THEN [r.db EXCEPT !.err = TRUE, !.filling = FALSE] ELSE r.db

PumpBurst ==
    /\ call.at = "idle" /\ db.filling /\ ~BurstOver
    /\ \E r \in Fetched(Chunk) :
        Takes(r, Fetched(Chunk)) /\ db' = GivesUp(r) /\ slipped' = (slipped \/ r.slip)
    /\ UNCHANGED <<ra, call, dead, seeks>>

PumpWake ==
    /\ call.at = "idle" /\ ~db.filling /\ ~db.eos /\ ~db.err /\ Ahead < Low
    /\ \E r \in Fetched(Chunk) :
        Takes(r, Fetched(Chunk)) /\ db' = [r.db EXCEPT !.filling = TRUE]
        /\ slipped' = (slipped \/ r.slip)
    /\ UNCHANGED <<ra, call, dead, seeks>>

-----------------------------------------------------------------------------
(* track_open: the tags have been read through a shim of their own, which   *)
(* leaves the stream wherever they ended.                                   *)
Init ==
    /\ \E p \in Targets : p <= FileLen /\
           src = [pos |-> p, phys |-> p, st |-> p, err |-> FALSE, ck |-> <<>>]
    /\ db = [lo |-> 0, wr |-> 0, rd |-> 0, inner_pos |-> Unknown, filling |-> TRUE,
             eos |-> FALSE, err |-> FALSE, streak |-> 0]
    /\ buf = [i \in 0 .. Cap - 1 |-> 0]
    /\ ra = [pos |-> Unknown, data |-> <<>>, cursor |-> 0, inner_pos |-> Unknown]
    /\ call = Idle
    /\ slipped = FALSE /\ faults = 0 /\ dead = FALSE /\ seeks = 0

(* The disk stops answering. *)
Dies ==
    /\ ~dead /\ MaxFaults > 0 /\ dead' = TRUE
    /\ UNCHANGED <<pipe, call, slipped, faults, seeks>>

Pump == PumpRest \/ PumpBurst \/ PumpWake
Reading == RaServe \/ RaAsk \/ DbServe \/ DbFetch \/ DbDone \/ RaTake \/ RaDone
Asking == \E n \in Reads : Ask(n)

Next ==
    \/ Pump \/ Reading \/ Asking \/ Dies
    \/ \E t \in Targets : SeekSet(t) \/ SeekEnd(t)

(* The player decodes and pumps in every pass of the main loop.             *)
Spec == Init /\ [][Next]_vars /\ WF_vars(Reading) /\ SF_vars(Pump) /\ SF_vars(Asking)

-----------------------------------------------------------------------------
(* diskbuf.h: "Bytes [win_lo, wr) live in the ring at buf[offset % cap]".   *)
WindowIsFile == \A o \in db.lo .. db.wr - 1 : buf[o % Cap] = o

(* The buffer's window lies in the ring and round the cursor, every slot of *)
(* it holds the byte of its own offset, and the shim's idea of where the    *)
(* buffer stands is right: across wraps, evictions, seeks, short reads and  *)
(* failures, until a failure slips through.                                 *)
WindowSound ==
    /\ db.lo <= db.rd /\ db.rd <= db.wr /\ db.wr <= db.lo + Cap
    /\ ~slipped => /\ WindowIsFile
                   /\ src.st # Dead => src.st = src.phys
    /\ call.at # "db" /\ call.at # "back" /\ ra.inner_pos # Unknown =>
           ra.inner_pos = db.rd

(* The chain keeps the promise of decoder.h, whatever the lazy seeks, the   *)
(* failures and the retries are, until a failure slips through.             *)
Source == INSTANCE ByteSource WITH
    cursor <- IF call.at = "idle" THEN ra.cursor ELSE call.start,
    asked <- IF call.at = "idle" THEN 0 ELSE call.left + Len(call.got),
    out <- IF call.at = "idle" THEN call.got ELSE <<>>,
    failed <- db.err,
    sound <- ~slipped
ImplementsSource == Source!Spec

(* A burst comes to its end, and the drive to rest, even on a disk that     *)
(* goes on failing: player.c parks the drive only when the buffer rests.    *)
BurstEnds == db.filling ~> ~db.filling

(* player.c: "a disk error, NOT end of file. Collapsing the two ... is what *)
(* made one unreadable sector three minutes into a track look exactly like  *)
(* the track ending".  When the chain could not be followed, a read that    *)
(* falls short is at the end of the file or comes with an error latched.    *)
ShortIsEnd ==
    call.at = "done" /\ src.st = Dead => ra.cursor >= FileLen \/ db.err

=============================================================================
