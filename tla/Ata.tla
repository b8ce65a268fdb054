-------------------------------- MODULE Ata --------------------------------
(* The ATA driver (hal/hw/ata.c) and the drive it polls.  The driver issues *)
(* a command, waits for each block of it with a bound on the time, and      *)
(* moves the block; the drive answers when it likes, with data, an error or *)
(* never.  One block is one sector, so the data port moves sectors.         *)
(*                                                                          *)
(* A call's inside is split wherever the drive may change its status between*)
(* two looks at it.  The clock hold is counted, as every exit has to give   *)
(* it back; ata_identify has no caller and is left out.                     *)
EXTENDS Integers, Sequences

CONSTANTS
    PhysLog,      \* ATA_PHYS_LOG
    MaxCount,     \* sectors of one command: 256
    Last,         \* the drive's last sector
    Reads,        \* what is read: records [lba, count, odd]
    Writes,       \* what is written, likewise; odd: the buffer's address is
    MaxWrites     \* bound

ASSUME AtaAssumption ==
    /\ PhysLog \in Nat \ {0} /\ MaxCount \in Nat \ {0} /\ MaxCount % PhysLog = 0
    /\ Last \in Nat /\ (Last + 1) % PhysLog = 0 /\ MaxWrites \in Nat
    /\ Reads \cup Writes \subseteq [lba : Nat, count : Nat, odd : BOOLEAN]

VARIABLES
    pc,        \* where in a call the driver is
    call,      \* the call: [op, lba, count, odd, got, rc]
    raw,       \* the command of it under way: [at, n, blk], blk moved so far
    hold,      \* what the driver holds of the CPU clock
    parked,    \* g_ata_parked
    dr,        \* the drive: [cmd, at, left, out, busy, err]
    medium,    \* the platters
    cache,     \* the drive's write cache
    version,   \* history: how many writes have been asked for
    mixed      \* history: a command was issued in the middle of a write

driver == <<pc, call, raw, hold, parked>>
store == <<medium, cache>>
history == <<version, mixed>>
vars == <<driver, dr, store, history>>

Lesser(a, b) == IF a < b THEN a ELSE b
Lbas == 0 .. Last
Sector(l, v) == [of |-> l, version |-> v]      \* what is written to l by write v
Junk == Sector(-1, 0)                          \* what a port without data gives
NotCached == Sector(-2, 0)
Held(l) == IF cache[l] # NotCached THEN cache[l] ELSE medium[l]

-----------------------------------------------------------------------------
(* The drive.  It offers or wants a block while it is not busy; an error is *)
(* shown with nothing on offer, or with a block that is not to be trusted.  *)
NoCommand == [cmd |-> "none", at |-> 0, left |-> 0, out |-> <<>>, in |-> NotCached,
              busy |-> FALSE, err |-> "none", aligned |-> TRUE]
Wants == dr.cmd = "write" /\ dr.left > 0
Drq == ~dr.busy /\ (dr.out # <<>> \/ Wants)
Err == ~dr.busy /\ dr.err # "none"
MidCommand == dr.cmd \in {"read", "write"}

(* A command written while the drive is in another: it goes on top of what  *)
(* is left to be fetched, and a drive that waits for data may ignore it.    *)
Commanded(cmd, at, n) ==
    /\ \/ dr' = [NoCommand EXCEPT !.cmd = cmd, !.at = at, !.left = n, !.out = dr.out, !.busy = TRUE,
                                  !.aligned = (at % PhysLog = 0 /\ n % PhysLog = 0)]
       \/ Wants /\ dr' = dr
    /\ mixed' = (mixed \/ dr.cmd = "write")

Fetched ==
    LET rest == Tail(dr.out)
        more == dr.left > 0
    IN  [dr EXCEPT !.out = rest, !.busy = (rest = <<>> /\ more),
                   !.cmd = IF rest = <<>> /\ ~more THEN "none" ELSE dr.cmd]
Put(block) == [dr EXCEPT !.in = block, !.busy = TRUE]

Drive(cmd) == dr.busy /\ dr.cmd = cmd /\ UNCHANGED <<driver, history>>
Refuses == ~dr.aligned \/ dr.at > Last

Serve ==
    /\ Drive("read") /\ ~Refuses
    /\ dr' = [dr EXCEPT !.out = Append(dr.out, Held(dr.at)), !.at = @ + 1, !.left = @ - 1, !.busy = FALSE]
    /\ UNCHANGED store
ServeFails ==
    /\ Drive("read")
    /\ \/ dr' = [NoCommand EXCEPT !.err = IF Refuses THEN "idnf" ELSE "unc"]
       \/ /\ ~Refuses
          /\ dr' = [dr EXCEPT !.out = Append(dr.out, Junk), !.at = @ + 1, !.left = @ - 1,
                              !.busy = FALSE, !.err = "unc"]
    /\ UNCHANGED store

(* A write's first block is asked for, and each one put is taken.           *)
Ask ==
    /\ Drive("write") /\ dr.in = NotCached /\ ~Refuses
    /\ dr' = [dr EXCEPT !.busy = FALSE]
    /\ UNCHANGED store
Absorb ==
    /\ Drive("write") /\ dr.in # NotCached
    /\ cache' = [cache EXCEPT ![dr.at] = dr.in]
    /\ dr' = IF dr.left = 1 THEN NoCommand
             ELSE [dr EXCEPT !.in = NotCached, !.at = @ + 1, !.left = @ - 1, !.busy = (dr.at = Last)]
    /\ UNCHANGED medium
WriteFails ==
    /\ Drive("write")
    /\ dr' = [NoCommand EXCEPT !.err = IF Refuses THEN "idnf" ELSE "unc"]
    /\ UNCHANGED store

(* The cache is written back when the drive likes, and whole by a flush or  *)
(* before the platters stop.                                                *)
WriteBack(l) ==
    /\ cache[l] # NotCached
    /\ medium' = [medium EXCEPT ![l] = cache[l]]
    /\ cache' = [cache EXCEPT ![l] = NotCached]
    /\ UNCHANGED <<driver, history, dr>>
Flushed ==
    /\ Drive("flush") \/ Drive("standby")
    /\ medium' = [l \in Lbas |-> Held(l)]
    /\ cache' = [l \in Lbas |-> NotCached]
    /\ dr' = NoCommand
FlushFails ==
    /\ Drive("flush")
    /\ dr' = [NoCommand EXCEPT !.err = "unc"]
    /\ UNCHANGED store
ResetDone ==
    /\ Drive("reset")
    /\ dr' = NoCommand
    /\ UNCHANGED store

DriveNext ==
    \/ Serve \/ ServeFails \/ Ask \/ Absorb \/ WriteFails
    \/ \E l \in Lbas : WriteBack(l)
    \/ Flushed \/ FlushFails \/ ResetDone

-----------------------------------------------------------------------------
(* Calls.  Moved is what the whole commands before this one have done.      *)
Moved == Len(call.got)
At == call.lba + Moved
Rest == call.count - Moved
IsRead == call.op \in {"read", "wake"}
NoRaw == [at |-> 0, n |-> 0, blk |-> <<>>]

Begins(op, r) == call' = [op |-> op, lba |-> r.lba, count |-> r.count, odd |-> r.odd, got |-> <<>>, rc |-> 1]

(* ata_read_raw and ata_write_sectors give the clock back on the way out.   *)
ExitsHeld(rc) ==      \* mistake: a return without the release
    /\ pc' = "idle" /\ call' = [call EXCEPT !.rc = rc] /\ raw' = NoRaw
    /\ hold' = hold
    /\ parked' = IF call.op = "wake" THEN FALSE ELSE parked
Exits(rc) ==
    /\ pc' = "idle" /\ call' = [call EXCEPT !.rc = rc] /\ raw' = NoRaw
    /\ hold' = hold - 1
    /\ parked' = IF call.op = "wake" THEN FALSE ELSE parked

Read(r) ==
    /\ pc = "idle" /\ Begins("read", r) /\ pc' = "split"
    /\ UNCHANGED <<raw, hold, parked, dr, store, history>>
Wakeup ==
    /\ pc = "idle" /\ Begins("wake", [lba |-> 0, count |-> PhysLog, odd |-> FALSE]) /\ pc' = "split"
    /\ UNCHANGED <<raw, hold, parked, dr, store, history>>

(* A request is for whole physical sectors from an aligned buffer, or       *)
(* refused.                                                                 *)
Write(w) ==
    /\ pc = "idle" /\ version < MaxWrites
    /\ IF w.count = 0 \/ w.lba % PhysLog # 0 \/ w.count % PhysLog # 0 \/ w.odd
       THEN /\ call' = [op |-> "refused", lba |-> 0, count |-> 0, odd |-> FALSE, got |-> <<>>, rc |-> -1]
            /\ UNCHANGED <<pc, hold, version>>
       ELSE /\ Begins("write", w) /\ pc' = "split" /\ hold' = hold + 1
            /\ version' = version + 1
    /\ UNCHANGED <<raw, parked, dr, store, mixed>>
Standby ==
    /\ pc = "idle" /\ Begins("standby", [lba |-> 0, count |-> 0, odd |-> FALSE])
    /\ pc' = "ready" /\ hold' = hold + 1
    /\ UNCHANGED <<raw, parked, dr, store, history>>

(* ata_read_sectors: whole physical sectors go straight to the buffer, a    *)
(* head or tail of one, or an odd buffer, by way of ata_bounce.             *)
Off == At % PhysLog
Direct == Off = 0 /\ Rest >= PhysLog /\ ~call.odd
Piece ==
    IF Direct THEN [at |-> At, n |-> Lesser(Rest - (Rest % PhysLog), MaxCount), blk |-> <<>>]
              ELSE [at |-> At - Off, n |-> PhysLog, blk |-> <<>>]
Kept(blk) ==
    IF Direct THEN blk ELSE SubSeq(blk, Off + 1, Off + Lesser(Rest, PhysLog - Off))

ReadSplit ==
    /\ pc = "split" /\ IsRead
    /\ IF Rest = 0 THEN /\ pc' = "idle" /\ call' = [call EXCEPT !.rc = 0]
                        /\ parked' = IF call.op = "wake" THEN FALSE ELSE parked
                        /\ UNCHANGED <<raw, hold>>
                   ELSE /\ raw' = Piece /\ pc' = "ready" /\ hold' = hold + 1
                        /\ UNCHANGED <<call, parked>>
    /\ UNCHANGED <<dr, store, history>>
WriteSplit ==
    /\ pc = "split" /\ call.op = "write"
    /\ IF Rest = 0 THEN pc' = "flushing" /\ UNCHANGED raw
       ELSE /\ raw' = [at |-> At, n |-> Lesser(Rest, MaxCount), blk |-> <<>>]
            /\ pc' = "ready"
    /\ UNCHANGED <<call, hold, parked, dr, store, history>>

-----------------------------------------------------------------------------
(* Commands.  Every wait is bounded: it ends when the drive answers or, the *)
(* drive being silent, at any time.                                         *)
Ready == ~dr.busy
Issue ==
    /\ pc \in {"ready", "flushing"} /\ Ready
    /\ IF pc = "flushing" THEN Commanded("flush", 0, 0) /\ pc' = "flush"
       ELSE IF call.op = "standby" THEN Commanded("standby", 0, 0) /\ pc' = "standby"
       ELSE Commanded(IF IsRead THEN "read" ELSE "write", raw.at, raw.n) /\ pc' = "data"
    /\ parked' = (parked /\ ~(pc = "ready" /\ IsRead))
    /\ UNCHANGED <<call, raw, hold, store, version>>
NeverReady ==
    /\ pc \in {"ready", "flushing"} /\ ~Ready
    /\ Exits(-1)
    /\ UNCHANGED <<dr, store, history>>

Recovers(cause) == pc' = "recover" /\ call' = [call EXCEPT !.rc = cause]

(* A block is moved, then the status looked at: an error found there makes  *)
(* the block, and the command, worth nothing.                               *)
ReadBlock ==
    LET blk == Append(raw.blk, IF dr.out = <<>> THEN Junk ELSE Head(dr.out))
    IN  /\ pc = "data" /\ IsRead /\ Drq
        /\ dr' = IF dr.out = <<>> THEN dr ELSE Fetched
        /\ IF dr.err # "none" THEN Recovers(-3) /\ UNCHANGED <<raw, hold>>
           ELSE IF Len(blk) < raw.n THEN raw' = [raw EXCEPT !.blk = blk] /\ UNCHANGED <<pc, call, hold>>
           ELSE /\ call' = [call EXCEPT !.got = @ \o Kept(blk)] /\ raw' = NoRaw
                /\ hold' = hold - 1 /\ pc' = "split"
        /\ UNCHANGED <<parked, store, history>>
WriteBlock ==
    LET block == Sector(raw.at + Len(raw.blk), version)
    IN  /\ pc = "data" /\ call.op = "write" /\ Drq
        /\ dr' = IF Wants THEN Put(block) ELSE Fetched
        /\ raw' = [raw EXCEPT !.blk = Append(@, block)]
        /\ pc' = IF Len(raw.blk) + 1 = raw.n THEN "commit" ELSE "data"
        /\ UNCHANGED <<call, hold, parked, store, history>>

(* No block comes: an error, or the four seconds of ATA_SPINUP_US are over. *)
DataFailsAwake ==     \* mistake: the bound is tested only once BSY is clear
    /\ pc = "data" /\ ~Drq /\ ~dr.busy
    /\ IF IsRead THEN Recovers(IF Err THEN -3 ELSE -2) /\ UNCHANGED <<raw, hold, parked>>
                 ELSE Exits(IF Err THEN -3 ELSE -2)
    /\ UNCHANGED <<dr, store, history>>
DataFails ==
    /\ pc = "data" /\ ~Drq
    /\ IF IsRead THEN Recovers(IF Err THEN -3 ELSE -2) /\ UNCHANGED <<raw, hold, parked>>
                 ELSE Exits(IF Err THEN -3 ELSE -2)
    /\ UNCHANGED <<dr, store, history>>

(* ata_recover: the error register first, then what is still offered is     *)
(* drained and the channel reset, so that the next command starts clean.    *)
LatchError ==
    /\ pc = "recover" /\ pc' = "drain"
    /\ call' = IF dr.err = "idnf" THEN [call EXCEPT !.rc = -4] ELSE call
    /\ UNCHANGED <<raw, hold, parked, dr, store, history>>
Drain ==
    /\ pc = "drain" /\ Drq /\ dr.out # <<>>
    /\ dr' = Fetched
    /\ UNCHANGED <<driver, store, history>>
ResetSkipped ==      \* mistake: the retry finds what this command has left
    /\ pc = "drain" /\ pc' = "settle"
    /\ UNCHANGED <<call, raw, hold, parked, dr, store, history>>
Reset ==
    /\ pc = "drain" /\ ~(Drq /\ dr.out # <<>>) /\ pc' = "settle"
    /\ dr' = [NoCommand EXCEPT !.cmd = "reset", !.busy = TRUE]
    /\ UNCHANGED <<call, raw, hold, parked, store, history>>
Settle ==
    /\ pc = "settle"
    /\ Exits(call.rc)
    /\ UNCHANGED <<dr, store, history>>

(* A write's command is over when the drive is no longer busy, the request  *)
(* when its cache is flushed.                                               *)
Commit ==
    /\ pc = "commit"
    /\ IF Ready /\ ~Err
       THEN /\ call' = [call EXCEPT !.got = @ \o raw.blk] /\ raw' = NoRaw /\ pc' = "split"
            /\ UNCHANGED <<hold, parked>>
       ELSE Exits(IF Err THEN -3 ELSE -2)
    /\ UNCHANGED <<dr, store, history>>
FlushEnds ==
    /\ pc = "flush"
    /\ Exits(IF Err THEN -3 ELSE IF Ready THEN 0 ELSE -2)
    /\ UNCHANGED <<dr, store, history>>

StandbyEnds ==
    /\ pc = "standby" /\ pc' = "idle"
    /\ call' = [call EXCEPT !.rc = IF Ready THEN 0 ELSE -1]
    /\ hold' = hold - 1 /\ parked' = (parked \/ Ready)
    /\ UNCHANGED <<raw, dr, store, history>>

-----------------------------------------------------------------------------
(* The kernel starts with ata_init's reset behind it. *)
Init ==
    /\ pc = "idle" /\ raw = NoRaw /\ hold = 0 /\ parked = FALSE
    /\ call = [op |-> "init", lba |-> 0, count |-> 0, odd |-> FALSE, got |-> <<>>, rc |-> 0]
    /\ dr = NoCommand
    /\ medium = [l \in Lbas |-> Sector(l, 0)] /\ cache = [l \in Lbas |-> NotCached]
    /\ version = 0 /\ mixed = FALSE

Calls ==
    \/ \E r \in Reads : Read(r)
    \/ \E w \in Writes : Write(w)
    \/ Wakeup \/ Standby
Proceeds ==
    \/ ReadSplit \/ WriteSplit \/ Issue \/ NeverReady
    \/ ReadBlock \/ WriteBlock \/ DataFails
    \/ LatchError \/ Drain \/ Reset \/ Settle
    \/ Commit \/ FlushEnds \/ StandbyEnds

Next == Calls \/ Proceeds \/ DriveNext

(* The processor runs; of the drive nothing is assumed. *)
Spec == Init /\ [][Next]_vars /\ WF_vars(Proceeds)

-----------------------------------------------------------------------------
Codes == {1, 0, -1, -2, -3, -4}
TypeOK ==
    /\ pc \in {"idle", "split", "ready", "data", "recover", "drain", "settle",
               "commit", "flushing", "flush", "standby"}
    /\ call.rc \in Codes /\ hold \in 0 .. 1 /\ parked \in BOOLEAN
    /\ {medium, cache} \subseteq [Lbas -> [of : Nat \cup {-1, -2}, version : 0 .. version]]

(* A call that returns success has done what it was asked: what was read is *)
(* what the disk held, sector by sector, whatever the alignment and however *)
(* many commands failed before it; what was written is on the platters; and *)
(* no sector ever holds what was meant for another.  As long, that is, as   *)
(* no command is issued in the middle of a write: LeftClean.                *)
Done(op) == pc = "idle" /\ call.op = op /\ call.rc = 0
Asked == call.lba .. call.lba + call.count - 1
TransfersExact ==
    mixed \/
    /\ Done("read") => call.got = [i \in 1 .. call.count |-> Held(call.lba + i - 1)]
    /\ Done("write") => \A l \in Asked : medium[l] = Sector(l, version)
    /\ \A l \in Lbas : Held(l).of = l /\ medium[l].of = l

(* Every way out of a call gives the clock hold back, which no command runs *)
(* without; a read that has issued a command does not leave the drive in    *)
(* the middle of it; and the drive refuses an address only when it has none *)
(* such: an unaligned request is served like any other.                     *)
ExitsSound ==
    /\ TypeOK
    /\ hold = IF pc = "idle" \/ (pc = "split" /\ IsRead) THEN 0 ELSE 1
    /\ ~mixed /\ pc = "idle" /\ IsRead /\ call.count > 0 /\ call.rc \in {0, -2, -3, -4} =>
           ~MidCommand
    /\ pc = "idle" /\ call.rc = -4 => call.lba + call.count > Last + 1

(* A drive that goes silent cannot hang the kernel: every call returns.     *)
CallsReturn == (pc # "idle") ~> (pc = "idle")

(* "On any of the failure codes the driver has already run the documented   *)
(* recovery ... so the drive is NOT left mid-command" (ata.h:33).  The      *)
(* write path runs none.                                                    *)
LeftClean == pc = "idle" /\ call.rc \in {-2, -3, -4} => ~MidCommand
=============================================================================
