---------------------------- MODULE ConfigStore ----------------------------
(***************************************************************************)
(* core/kernel/config.c: the settings record kept in two slots of a file   *)
(* the host created (tools/make_config.py), the only thing the firmware    *)
(* ever writes to the disk, over the two-step write of hal/hw/ata.c        *)
(* (WRITE SECTORS into the drive's volatile cache, then FLUSH CACHE).      *)
(*                                                                         *)
(* The power can fail between any two steps; a command can fail with       *)
(* nothing, half or all of the slot changed; the drive writes its cache    *)
(* back whenever it likes.  A slot that does not hold one whole record     *)
(* (torn, zeroed, or any other bytes) fails the CRC or the magic: Torn.    *)
(* Sequence numbers are machine words.                                     *)
(***************************************************************************)
EXTENDS Integers

CONSTANTS
    Values,       \* settings values, as config_encode packs them
    Default,      \* settings_defaults
    NoValue,      \* no save in progress
    Torn,         \* a slot that holds no whole record
    Clean,        \* a slot the drive has nothing cached for
    SeqMod,       \* the sequence word holds 0 .. SeqMod - 1 (2^32 in the code)
    Geometries,   \* what the root scan and fat32_file_lba can find
    ReadErrors    \* whether a read at boot may fail and later work again

ASSUME ValuesAssumption   == Default \in Values /\ NoValue \notin Values
ASSUME SeqModAssumption   == SeqMod \in Nat /\ SeqMod > 3
ASSUME SlotAssumption     ==
    /\ Torn # Clean
    /\ {Torn, Clean} \cap [seq : 0 .. SeqMod - 1, val : Values] = {}
ASSUME GeometryAssumption ==
    Geometries \subseteq [resolves : BOOLEAN, base : Nat, run : Nat,
                          part_lba : Nat, size : Nat]
ASSUME ReadErrorsAssumption == ReadErrors \in BOOLEAN

VARIABLES
    disk,     \* what is on the platter, per slot
    cache,    \* what the drive holds and has not written back, per slot
    geo,      \* where CORECFG.DAT lies
    power,    \* "off", "on"
    g_cfg,    \* [found, seq, slot]
    loaded,   \* the settings config_load left in g_settings
    save,     \* the config_save in progress: [at, slot, rec]
    written,  \* history: the LBAs WRITE SECTORS has been issued for
    good,     \* history: [slot, rec] of the newest record loaded or acknowledged
    may       \* history: the values the next boot may rightly load

vars == <<disk, cache, geo, power, g_cfg, loaded, save, written, good, may>>
ram  == <<g_cfg, loaded>>
file == <<geo, written>>

Slots      == {0, 1}
SlotSectors == 2                     \* ATA_PHYS_LOG: one physical sector
FileSectors == 4                     \* CONFIG_SECTORS
MinBytes   == 2048                   \* CONFIG_MIN_BYTES
SeqNos     == 0 .. SeqMod - 1
Records    == [seq : SeqNos, val : Values]
NoLba      == -1
NoSlot     == 2

NoSave       == [at |-> "none", slot |-> 0, rec |-> Torn]
Forgotten    == [found |-> FALSE, seq |-> 0, slot |-> 0]
NoGood       == [slot |-> NoSlot, rec |-> Torn]
Cached(c, d) == [s \in Slots |-> IF c[s] = Clean THEN d[s] ELSE c[s]]
AllClean     == [s \in Slots |-> Clean]

-----------------------------------------------------------------------------
(* The helpers, each with the mutants of it that the runs must tell apart. *)

SeqGreater(a, b) == a > b
SeqNewer(a, b) == LET d == (a - b) % SeqMod IN d # 0 /\ 2 * d < SeqMod

NextSeq(n) == (n + 1) % SeqMod

SameSlot(s) == s
Spare(s) == 1 - s                    \* (slot ^ 1) & 1

\* fat32_file_lba and the validation config_slot_lba adds to it.
SlotLbaUnaligned(g, s) ==
    IF /\ g.size >= MinBytes /\ g.resolves /\ g.run >= FileSectors
       /\ g.base + s * SlotSectors > g.part_lba
    THEN g.base + s * SlotSectors ELSE NoLba
SlotLba(g, s) ==
    LET lba == g.base + s * SlotSectors
    IN  IF /\ g.size >= MinBytes
           /\ g.resolves
           /\ g.run >= FileSectors
           /\ g.base % SlotSectors = 0
           /\ lba # 0 /\ lba > g.part_lba
           /\ s * SlotSectors + SlotSectors <= g.run
           /\ lba % SlotSectors = 0
        THEN lba ELSE NoLba

\* The slot config_load believes: NoSlot if neither of those it could read
\* holds a valid record.
Best(d, readable) ==
    LET valid == {s \in readable : d[s] # Torn}
    IN  IF valid = {} THEN NoSlot
        ELSE IF 1 \in valid /\ (0 \in valid => SeqNewer(d[1].seq, d[0].seq))
             THEN 1 ELSE 0

Usable(g) == SlotLba(g, 0) # NoLba
Found(g, d, readable) == IF Usable(g) THEN Best(d, readable) ELSE NoSlot
ValueAt(d, s) == IF s = NoSlot THEN Default ELSE d[s].val
GoodAt(d, s) == IF s = NoSlot THEN NoGood ELSE [slot |-> s, rec |-> d[s]]

-----------------------------------------------------------------------------
\* make_config.py --create: defaults with sequence 1 in slot 0, zeros in 1.
Fresh == [s \in Slots |-> IF s = 0 THEN [seq |-> 1, val |-> Default] ELSE Torn]
\* A file big enough that nobody wrote a record to.
Blank == [s \in Slots |-> Torn]

\* The device is off, and the file freshly made on the host.
MadeByHost(d, g) ==
    /\ geo' = g /\ disk' = d /\ written' = {}
    /\ good' = GoodAt(d, Found(g, d, Slots))
    /\ may' = {ValueAt(d, Found(g, d, Slots))}

Init ==
    /\ geo \in Geometries /\ disk \in {Fresh, Blank} /\ written = {}
    /\ good = GoodAt(disk, Found(geo, disk, Slots))
    /\ may = {ValueAt(disk, Found(geo, disk, Slots))}
    /\ cache = AllClean
    /\ power = "off" /\ g_cfg = Forgotten /\ loaded = Default /\ save = NoSave

HostCreate ==
    /\ power = "off"
    /\ \E d \in {Fresh, Blank}, g \in Geometries : MadeByHost(d, g)
    /\ UNCHANGED <<cache, power, ram, save>>

\* A full config_load: scan, resolve, read both slots, keep the newest valid
\* one; on every other path the caller's defaults stay and, when nothing
\* resolved, so do the zeroed g_cfg fields that refuse every save.
Loaded(readable) ==
    LET s == Found(geo, disk, readable)
    IN  /\ g_cfg' = [found |-> Usable(geo),
                     seq   |-> IF s = NoSlot THEN 0 ELSE disk[s].seq,
                     slot  |-> IF s = NoSlot THEN 0 ELSE s]
        /\ loaded' = ValueAt(disk, s)

Boot ==
    /\ power = "off"
    /\ \/ \E readable \in (IF ReadErrors THEN SUBSET Slots ELSE {Slots}) : Loaded(readable)
       \/ ReadErrors /\ g_cfg' = Forgotten /\ loaded' = Default   \* fat32_readdir fails
    /\ power' = "on"
    /\ good' = GoodAt(disk, Found(geo, disk, Slots))
    /\ may' = {ValueAt(disk, Found(geo, disk, Slots))}
    /\ UNCHANGED <<disk, cache, file, save>>

-----------------------------------------------------------------------------
(* config_save.  The refusals return before anything changes and are not   *)
(* steps: the file was not found, or its slot no longer resolves.          *)

SaveBegin(v) ==
    LET s == Spare(g_cfg.slot)
    IN  /\ power = "on" /\ save = NoSave
        /\ g_cfg.found
        /\ SlotLba(geo, s) # NoLba
        /\ save' = [at |-> "write", slot |-> s,
                    rec |-> [seq |-> NextSeq(g_cfg.seq), val |-> v]]
        /\ may' = may \cup {v}
        /\ UNCHANGED <<disk, cache, file, power, ram, good>>

Issue == written' = written \cup
    {SlotLba(geo, save.slot) + i : i \in 0 .. SlotSectors - 1}

\* ata_write_raw: the drive takes both logical sectors of the slot.
WriteDone ==
    /\ save.at = "write"
    /\ Issue
    /\ cache' = [cache EXCEPT ![save.slot] = save.rec]
    /\ save' = [save EXCEPT !.at = "flush"]
    /\ UNCHANGED <<disk, geo, power, ram, good, may>>

\* Any other return leaves g_cfg.seq and g_cfg.slot alone.
KeepOnError == UNCHANGED g_cfg

\* ... or it reports an error, having kept nothing, half or all of it.
WriteFails ==
    /\ save.at = "write"
    /\ Issue
    /\ \E c \in {cache[save.slot], Torn, save.rec} :
           cache' = [cache EXCEPT ![save.slot] = c]
    /\ save' = NoSave
    /\ KeepOnError
    /\ UNCHANGED <<disk, geo, power, loaded, good, may>>

\* The drive empties its cache and config_save records the new slot.
FlushSkipped ==
    /\ save.at = "flush"
    /\ g_cfg' = [g_cfg EXCEPT !.seq = save.rec.seq, !.slot = save.slot]
    /\ good' = [slot |-> save.slot, rec |-> save.rec]
    /\ may' = {save.rec.val}
    /\ save' = NoSave
    /\ UNCHANGED <<disk, cache, file, power, loaded>>
FlushDone ==
    /\ save.at = "flush"
    /\ disk' = Cached(cache, disk) /\ cache' = AllClean
    /\ g_cfg' = [g_cfg EXCEPT !.seq = save.rec.seq, !.slot = save.slot]
    /\ good' = [slot |-> save.slot, rec |-> save.rec]
    /\ may' = {save.rec.val}
    /\ save' = NoSave
    /\ UNCHANGED <<file, power, loaded>>

\* FLUSH CACHE times out or errors: the data is still in the cache, or the
\* platter write went wrong.
FlushFails ==
    /\ save.at = "flush"
    /\ \/ UNCHANGED <<disk, cache>>
       \/ disk' = [disk EXCEPT ![save.slot] = Torn] /\ cache' = AllClean
    /\ save' = NoSave
    /\ KeepOnError
    /\ UNCHANGED <<file, power, loaded, good, may>>

(* The drive and the battery. *)

WriteBack(s) ==
    /\ cache[s] # Clean
    /\ disk' = [disk EXCEPT ![s] = cache[s]]
    /\ cache' = [cache EXCEPT ![s] = Clean]
    /\ UNCHANGED <<file, power, ram, save, good, may>>

\* A slot with cached data, or one a command was just being written to, comes
\* back with its old content, its new one, or half of each.
AfterCut(s) ==
    {disk[s]} \cup (IF cache[s] # Clean THEN {Torn, cache[s]} ELSE {})
              \cup (IF save.at = "write" /\ save.slot = s THEN {Torn} ELSE {})

PowerLoss ==
    /\ power = "on"
    /\ power' = "off"
    /\ \E a \in AfterCut(0), b \in AfterCut(1) :
           disk' = [s \in Slots |-> IF s = 0 THEN a ELSE b]
    /\ cache' = AllClean
    /\ save' = NoSave /\ g_cfg' = Forgotten
    /\ UNCHANGED <<file, loaded, good, may>>

Next ==
    \/ HostCreate \/ Boot \/ PowerLoss
    \/ \E v \in Values : SaveBegin(v)
    \/ WriteDone \/ WriteFails \/ FlushDone \/ FlushFails
    \/ \E s \in Slots : WriteBack(s)

Spec == Init /\ [][Next]_vars

-----------------------------------------------------------------------------
\* Every slot holds one record or a torn one, on the platter and in the cache.
TypeOK ==
    /\ disk \in [Slots -> Records \cup {Torn}]
    /\ cache \in [Slots -> Records \cup {Torn, Clean}]
    /\ geo \in Geometries /\ power \in {"off", "on"}
    /\ g_cfg \in [found : BOOLEAN, seq : SeqNos, slot : Slots]
    /\ loaded \in Values /\ may \subseteq Values
    /\ save \in [at : {"write", "flush"}, slot : Slots, rec : Records] \cup {NoSave}
    /\ good \in [slot : Slots, rec : Records] \cup {NoGood}
    /\ written \subseteq Nat

\* Whenever the power fails, what is on the platter is either the settings
\* last acknowledged or loaded, or those of a save begun since: never older
\* ones, never the defaults instead of a record, whatever failed in between
\* and wherever the sequence word has wrapped.
Durable == ValueAt(disk, Found(geo, disk, Slots)) \in may

\* The newest record loaded or acknowledged stays whole on the platter until
\* a newer one is acknowledged: a save damages only the other slot ("always a
\* good record to fall back to").
GoodSurvives == good.slot # NoSlot => disk[good.slot] = good.rec

\* The firmware writes whole physical sectors of the file's first cluster and
\* nothing else on the disk, wherever the host put the file this time.
WritesInsideFile ==
    \A lba \in written :
        /\ geo.base <= lba /\ lba < geo.base + FileSectors
        /\ lba < geo.base + geo.run /\ lba > geo.part_lba
        /\ lba % SlotSectors = 0 => lba + 1 \in written
        /\ lba % SlotSectors = 1 => lba - 1 \in written

\* What a save may touch, and nothing beyond.
StoreSafe == TypeOK /\ WritesInsideFile

\* Two slots, a write cache and a flush make one settings value that survives
\* power loss: what config.h promises its caller.
Reg == INSTANCE SettingsRegister WITH
           Idle <- NoValue, saving <- IF save = NoSave THEN NoValue ELSE save.rec.val
ImplementsRegister == Reg!Spec

\* The inductive invariant.  Seen from the slot holding the newest record,
\* the other one is torn, one step older, or one step newer and not yet
\* acknowledged; only that other slot is ever cached or being written.
Home   == IF good.slot = NoSlot THEN 0 ELSE good.slot
HomeNo == IF good.slot = NoSlot THEN 0 ELSE good.rec.seq
Ahead  == {[seq |-> NextSeq(HomeNo), val |-> v] : v \in may}
Behind == {r \in Records : good.slot # NoSlot /\ NextSeq(r.seq) = HomeNo}

NoFile ==
    ~Usable(geo) => /\ cache = AllClean /\ save = NoSave /\ ~g_cfg.found
                    /\ may = {Default} /\ good = NoGood
SlotShapes ==
    Usable(geo) =>
        /\ disk[Home] = good.rec /\ cache[Home] = Clean
        /\ disk[Spare(Home)] \in {Torn} \cup Ahead \cup Behind
        /\ cache[Spare(Home)] \in {Clean, Torn} \cup Ahead
GoodValue == (IF good.slot = NoSlot THEN Default ELSE good.rec.val) \in may
Ram ==
    /\ power = "off" => cache = AllClean /\ save = NoSave /\ g_cfg = Forgotten
    /\ power = "on" /\ Usable(geo) => g_cfg = [found |-> TRUE, seq |-> HomeNo, slot |-> Home]
Saving ==
    save # NoSave =>
        /\ save.slot = Spare(Home) /\ save.rec \in Ahead
        /\ save.at = "flush" => Cached(cache, disk)[save.slot] = save.rec

IndInv == TypeOK /\ NoFile /\ SlotShapes /\ GoodValue /\ Ram /\ Saving /\ WritesInsideFile
=============================================================================
