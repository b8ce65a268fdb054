-------------------------------- MODULE Duty --------------------------------
(* What the main loop does besides the screens: it keeps the settings and   *)
(* the place in the queue on the disk, and the platters at rest while       *)
(* nothing needs them (kernel/main.c, with the disk's part of player_pump   *)
(* and the parked flag of hal/hw/ata.c).                                    *)
(*                                                                          *)
(* One pass of the loop is four steps in order: the pump, the edges of the  *)
(* transport, the input, the duties.  A save is one step here and whole or  *)
(* void: ConfigStore is about its inside.  The queue is behind Player.      *)
EXTENDS Integers

CONSTANTS
    Tracks,      \* what a locator (resume_hash) can name
    None,        \* the empty locator
    Debounce,    \* CFG_SAVE_DEBOUNCE_US, in ticks
    IdleTime,    \* disk_idle_us, in ticks
    High         \* DISK_HIGH in bursts; DISK_LOW is 1

ASSUME DutyAssumption ==
    /\ None \notin Tracks
    /\ {Debounce, IdleTime, High} \subseteq Nat \ {0} /\ High > 1

VARIABLES
    pc,        \* where in its pass the loop is, or "asleep", or "off"
    tr,        \* the transport: [mode, track]
    opened,    \* player_open_seq() has moved since g_resume_open_seq was set
    ended,     \* player_end_seq() has moved since g_resume_end_seq was set
    was,       \* was_active, g_resume_was_paused and was_playing
    ram,       \* g_settings, g_cfg_dirty and the time since g_cfg_dirty_us
    disk,      \* the settings of the newest good record
    lost,      \* history: the last save failed, so the record is behind
    drive,     \* the platters, g_ata_parked and g_drive_parked
    buf,       \* g_dbuf: [filling, ahead]
    idle,      \* the time since the last input
    over       \* history: the queue has come to its end, nothing since

player == <<tr, opened, ended, over>>
vars == <<pc, player, was, ram, disk, lost, drive, buf, idle>>

Active(t) == t.mode # "none"
Stopped == [mode |-> "none", track |-> None]
Content(c) == [resume |-> c.resume, loc |-> c.loc]

-----------------------------------------------------------------------------
(* The drive.  A read spins the platters up and takes the flag back; a      *)
(* write spins them up and leaves the flag; STANDBY is accepted or not.     *)
Reads(d) == [d EXCEPT !.up = TRUE, !.flag = FALSE]
Wrote(d) == [d EXCEPT !.up = TRUE]
StandbyUnnoticed(d) == {d, [d EXCEPT !.up = FALSE]}   \* mistake: only the player knows
Standby(d) == {d, [d EXCEPT !.up = FALSE, !.flag = TRUE]}

(* settings_touch *)
Touched(c) == [c EXCEPT !.dirty = TRUE, !.age = 0]

(* Only a locator that is there has to be dropped. *)
Dropped(c) == IF c.loc = None THEN c ELSE Touched([c EXCEPT !.loc = None])

(* resume_capture *)
Captured(c, t) ==
    IF ~c.resume THEN Dropped(c)
    ELSE IF ~Active(t) \/ t.track = c.loc THEN c
    ELSE Touched([c EXCEPT !.loc = t.track])

(* settings_commit: no save is due, or one that succeeds or does not.       *)
NotDueWhilePlaying(c, t) ==   \* mistake: never while a track is loaded
    c.age < Debounce \/ Active(t)
NotDue(c, t) == c.age < Debounce \/ (drive.flag /\ Active(t))

Committed(c, t, force) ==
    LET clean == [c EXCEPT !.dirty = FALSE]
    IN  IF ~c.dirty \/ (~force /\ NotDue(c, t))
        THEN {[ram |-> c, disk |-> disk, lost |-> lost, drive |-> drive]}
        ELSE {[ram |-> clean, disk |-> Content(c), lost |-> FALSE, drive |-> Wrote(drive)]}
             \cup
             {[ram |-> clean, disk |-> disk, lost |-> TRUE, drive |-> d]
              : d \in {drive, Wrote(drive)}}

Takes(s) == ram' = s.ram /\ disk' = s.disk /\ lost' = s.lost /\ drive' = s.drive

-----------------------------------------------------------------------------
(* player_pump.  What it does to the transport ...                          *)
Fresh == [filling |-> TRUE, ahead |-> 0]
Playing == pc = "pump" /\ tr.mode = "play"

Advance(t) ==
    /\ Playing
    /\ tr' = [tr EXCEPT !.track = t] /\ opened' = TRUE /\ over' = FALSE
    /\ buf' = Fresh /\ drive' = Reads(drive)
    /\ pc' = "edges"
    /\ UNCHANGED <<ended, was, ram, disk, lost, idle>>

QueueEnds ==
    /\ Playing
    /\ tr' = Stopped /\ ended' = TRUE /\ over' = was.active /\ pc' = "edges"
    /\ UNCHANGED <<opened, was, ram, disk, lost, drive, buf, idle>>

ReadError ==
    /\ Playing
    /\ tr' = Stopped /\ drive' = Reads(drive) /\ pc' = "edges"
    /\ UNCHANGED <<opened, ended, over, was, ram, disk, lost, buf, idle>>

(* ... and to the disk.  Decoding empties the buffer, and fetches by itself *)
(* from an empty one.                                                       *)
Decode ==
    /\ Playing
    /\ buf' = [buf EXCEPT !.ahead = IF @ = 0 THEN 0 ELSE @ - 1]
    /\ drive' = IF buf.ahead = 0 THEN Reads(drive) ELSE drive
    /\ UNCHANGED <<pc, player, was, ram, disk, lost, idle>>

(* diskbuf_pump: [buf, drive] after it. *)
Pumped ==
    LET burst == [buf |-> [filling |-> TRUE, ahead |-> buf.ahead + 1],
                  drive |-> [Reads(drive) EXCEPT !.knows = FALSE]]
    IN  IF buf.filling /\ buf.ahead < High THEN burst
        ELSE IF ~buf.filling /\ buf.ahead = 0 THEN burst
        ELSE [buf |-> [buf EXCEPT !.filling = FALSE],
              drive |-> [drive EXCEPT !.knows = FALSE]]

(* The drive is parked when the buffer rests above its low watermark.       *)
Parked(b, d) ==
    IF b.filling \/ d.knows \/ b.ahead <= 1 THEN {d}
    ELSE {[e EXCEPT !.knows = TRUE] : e \in Standby(d)}

PumpServes ==   \* the PCM ring is above the gate
    /\ Playing
    /\ buf' = Pumped.buf
    /\ drive' \in Parked(Pumped.buf, Pumped.drive)
    /\ pc' = "edges"
    /\ UNCHANGED <<player, was, ram, disk, lost, idle>>

PumpHolds ==    \* it is below
    /\ Playing
    /\ drive' \in Parked(buf, [drive EXCEPT !.knows = @ /\ ~buf.filling])
    /\ pc' = "edges"
    /\ UNCHANGED <<player, was, ram, disk, lost, buf, idle>>

PumpNothing ==
    /\ pc = "pump" /\ tr.mode # "play" /\ pc' = "edges"
    /\ UNCHANGED <<player, was, ram, disk, lost, drive, buf, idle>>

-----------------------------------------------------------------------------
(* The edges of the transport, once per pass: the place is captured, and    *)
(* dropped when the queue has ended by itself.                              *)
EdgesWithCapture ==   \* mistake: the end counter is taken along with the others
    /\ pc = "edges"
    /\ LET edge == Active(tr) # was.active \/ opened \/ (tr.mode = "pause") # was.paused
       IN  /\ ram' = IF edge THEN Captured(ram, tr) ELSE ram
           /\ opened' = FALSE /\ ended' = (ended /\ ~edge)
    /\ was' = [was EXCEPT !.active = Active(tr), !.paused = tr.mode = "pause"]
    /\ pc' = "input"
    /\ UNCHANGED <<tr, over, disk, lost, drive, buf, idle>>

Edges ==
    /\ pc = "edges"
    /\ LET edge == Active(tr) # was.active \/ opened \/ (tr.mode = "pause") # was.paused
           kept == IF edge THEN Captured(ram, tr) ELSE ram
           stops == was.active /\ ~Active(tr)
       IN  /\ ram' = IF stops /\ ended THEN Dropped(kept) ELSE kept
           /\ opened' = FALSE /\ ended' = (ended /\ ~stops)
    /\ was' = [was EXCEPT !.active = Active(tr), !.paused = tr.mode = "pause"]
    /\ pc' = "input"
    /\ UNCHANGED <<tr, over, disk, lost, drive, buf, idle>>

-----------------------------------------------------------------------------
(* The input of a pass: an event at most, whose transport buttons act first *)
(* and whose button for the screen ends the input.                          *)
Input == pc = "input" /\ idle' = 0
Screen == Input /\ pc' = "duty"
NoInput ==
    /\ pc = "input" /\ pc' = "duty"
    /\ UNCHANGED <<player, was, ram, disk, lost, drive, buf, idle>>

ToggleResume ==
    /\ Screen
    /\ ram' = Touched([ram EXCEPT !.resume = ~@])
    /\ UNCHANGED <<player, was, disk, lost, drive, buf>>

LeaveSettings ==
    /\ Screen
    /\ \E s \in Committed(Captured(ram, tr), tr, TRUE) : Takes(s)
    /\ UNCHANGED <<player, was, buf>>

(* A new queue, from its first track that opens.  When none does, the       *)
(* queue counts as ended though nothing of it was heard.                    *)
Play(t) ==
    /\ Screen
    /\ tr' = [mode |-> "play", track |-> t] /\ opened' = TRUE /\ over' = FALSE
    /\ buf' = Fresh /\ drive' = Reads(drive)
    /\ UNCHANGED <<ended, was, ram, disk, lost>>

PlayNothing ==
    /\ Screen
    /\ tr' = Stopped /\ ended' = TRUE /\ over' = FALSE /\ drive' = Reads(drive)
    /\ UNCHANGED <<opened, was, ram, disk, lost, buf>>

TogglePause ==
    /\ Input /\ Active(tr)
    /\ tr' = [tr EXCEPT !.mode = IF @ = "play" THEN "pause" ELSE "play"]
    /\ UNCHANGED <<pc, opened, ended, over, was, ram, disk, lost, drive, buf>>

Skip(t) ==
    /\ Input /\ Active(tr)
    /\ tr' = [tr EXCEPT !.track = t] /\ opened' = TRUE /\ over' = FALSE
    /\ buf' = Fresh /\ drive' = Reads(drive)
    /\ UNCHANGED <<pc, ended, was, ram, disk, lost>>

SkipPastEnd ==
    /\ Input /\ Active(tr)
    /\ tr' = Stopped /\ ended' = TRUE /\ over' = TRUE
    /\ UNCHANGED <<pc, opened, was, ram, disk, lost, drive, buf>>

(* suspend_to_ram up to the sleep, and from it. *)
Suspend ==
    /\ Input
    /\ was' = [was EXCEPT !.playing = tr.mode = "play"]
    /\ tr' = [tr EXCEPT !.mode = IF @ = "play" THEN "pause" ELSE @]
    /\ \E s \in Committed(Captured(ram, tr), tr, TRUE) :
           /\ ram' = s.ram /\ disk' = s.disk /\ lost' = s.lost
           /\ drive' \in Standby(s.drive)
    /\ pc' = "asleep"
    /\ UNCHANGED <<opened, ended, over, buf>>

Wake ==
    /\ pc = "asleep" /\ pc' = "input" /\ idle' = 0
    /\ drive' = Reads(drive)
    /\ tr' = [tr EXCEPT !.mode = IF was.playing THEN "play" ELSE @]
    /\ was' = [was EXCEPT !.playing = FALSE]
    /\ UNCHANGED <<opened, ended, over, ram, disk, lost, buf>>

(* enter_standby, from a hold that goes on; a place is taken before the     *)
(* player stops.                                                            *)
EnterStandby ==
    /\ pc = "asleep" /\ pc' = "off"
    /\ \E s \in Committed(Captured(ram, tr), Stopped, TRUE) : Takes(s)
    /\ tr' = Stopped
    /\ UNCHANGED <<opened, ended, over, was, buf, idle>>

(* "Disk Mode" of the settings: the player stops, and the ROM takes over.   *)
DiskMode ==
    /\ Input
    /\ tr' = Stopped /\ pc' = "off"
    /\ UNCHANGED <<opened, ended, over, was, ram, disk, lost, drive, buf>>

(* The battery is pulled. *)
PowerFails ==
    /\ pc # "off" /\ pc' = "off"
    /\ UNCHANGED <<player, was, ram, disk, lost, drive, buf, idle>>

-----------------------------------------------------------------------------
(* The duties: a save that is due goes before the spin-down.                *)
IdleParkStopped(t, d) ==   \* mistake: a paused track keeps the platters turning
    ~Active(t) /\ ~d.flag /\ idle = IdleTime
IdlePark(t, d) == t.mode # "play" /\ ~d.flag /\ idle = IdleTime

Duties ==
    /\ pc = "duty" /\ pc' = "pump"
    /\ \E s \in Committed(ram, tr, FALSE) :
           /\ ram' = s.ram /\ disk' = s.disk /\ lost' = s.lost
           /\ drive' \in IF IdlePark(tr, s.drive) THEN Standby(s.drive) ELSE {s.drive}
    /\ UNCHANGED <<player, was, buf, idle>>

(* Time goes by during a pass; a tick is at least the debounce.             *)
Later(t, bound) == IF t = bound THEN t ELSE t + 1
Tick ==
    /\ pc = "pump"
    /\ ram' = [ram EXCEPT !.age = Later(@, Debounce)]
    /\ idle' = Later(idle, IdleTime)
    /\ UNCHANGED <<pc, player, was, disk, lost, drive, buf>>

(* core_main: the settings are read back, and the place is restored, paused *)
(* and cued, if its track is there and opens.                               *)
Init ==
    /\ pc = "off" /\ tr = Stopped
    /\ disk = [resume |-> TRUE, loc |-> None]
    /\ opened = FALSE /\ ended = FALSE /\ over = FALSE /\ lost = FALSE
    /\ was = [active |-> FALSE, paused |-> FALSE, playing |-> FALSE]
    /\ ram = [resume |-> TRUE, loc |-> None, dirty |-> FALSE, age |-> 0]
    /\ drive = [up |-> TRUE, flag |-> FALSE, knows |-> FALSE]
    /\ buf = Fresh /\ idle = 0

Restored ==
    {Stopped} \cup {[mode |-> "pause", track |-> t] :
                        t \in {l \in {disk.loc} \ {None} : disk.resume}}

Boot ==
    /\ pc = "off" /\ pc' = "pump"
    /\ tr' \in Restored
    /\ opened' = FALSE /\ ended' = FALSE /\ over' = FALSE
    /\ was' = [active |-> Active(tr'), paused |-> Active(tr'), playing |-> FALSE]
    /\ ram' = [resume |-> disk.resume, loc |-> disk.loc, dirty |-> FALSE, age |-> 0]
    /\ lost' = FALSE /\ disk' = disk
    /\ drive' = [up |-> TRUE, flag |-> FALSE, knows |-> FALSE]
    /\ buf' = Fresh /\ idle' = 0

Pump == PumpServes \/ PumpHolds \/ PumpNothing
UserAction ==
    \/ ToggleResume \/ LeaveSettings \/ PlayNothing \/ TogglePause \/ SkipPastEnd
    \/ \E t \in Tracks : Play(t) \/ Skip(t)
    \/ Suspend \/ DiskMode

Next ==
    \/ Pump \/ Edges \/ NoInput \/ UserAction \/ Duties \/ Tick \/ Decode
    \/ (\E t \in Tracks : Advance(t)) \/ QueueEnds \/ ReadError
    \/ Wake \/ EnterStandby \/ PowerFails \/ Boot

(* The loop never stops passing, and time goes by; a track that plays is    *)
(* decoded faster than it is heard, so its ring reaches the gate; a drive   *)
(* told to rest over and over obeys in the end.  Nothing is assumed of the  *)
(* user, nor of the saves.                                                  *)
Spec ==
    /\ Init /\ [][Next]_vars
    /\ WF_vars(Pump \/ Edges \/ NoInput \/ Duties)
    /\ SF_vars(Tick) /\ SF_vars(Decode) /\ SF_vars(PumpServes)
    /\ SF_vars(Duties /\ ~drive'.up)

-----------------------------------------------------------------------------
(* The types, and what the flag of ata_is_parked() is worth: it lies in one *)
(* direction only.  A drive that is not said to be parked is turning.       *)
TypeOK ==
    /\ pc \in {"pump", "edges", "input", "duty", "asleep", "off"}
    /\ tr \in [mode : {"play", "pause"}, track : Tracks] \cup {Stopped}
    /\ {opened, ended, lost, over} \subseteq BOOLEAN
    /\ was \in [active : BOOLEAN, paused : BOOLEAN, playing : BOOLEAN]
    /\ ram \in [resume : BOOLEAN, loc : Tracks \cup {None}, dirty : BOOLEAN,
                age : 0 .. Debounce]
    /\ disk \in [resume : BOOLEAN, loc : Tracks \cup {None}]
    /\ drive \in [up : BOOLEAN, flag : BOOLEAN, knows : BOOLEAN]
    /\ buf \in [filling : BOOLEAN, ahead : 0 .. High]
    /\ idle \in 0 .. IdleTime
    /\ ~drive.flag => drive.up

(* Settings with no save pending are those of the record, whichever of the  *)
(* many places changed them last (settings_touch: "call it there too"),     *)
(* unless a save has failed.                                                *)
CleanIsSaved == ~ram.dirty /\ ~lost => disk = Content(ram)
DutySound == TypeOK /\ CleanIsSaved

(* A queue that was heard to its end is not restored at the next boot: once *)
(* the loop has seen the end, neither the settings nor, with nothing        *)
(* pending, the record name a track of it.                                  *)
EndIsForgotten ==
    over /\ ~was.active => /\ ram.loc = None
                           /\ ~ram.dirty /\ ~lost => disk.loc = None

(* A change does not stay in RAM: left alone it is saved, also under        *)
(* continuous playback with the drive parked most of the time; only a       *)
(* paused track may hold it back.                                           *)
SavedEventually ==
    []<>(~ram.dirty \/ ram.age = 0 \/ tr.mode = "pause" \/ pc \in {"asleep", "off"})

(* With nothing playing and no input the platters come to rest, unless a    *)
(* write has spun them up behind the flag.                                  *)
Rests ==
    []<>(\/ ~drive.up \/ tr.mode = "play" \/ idle < IdleTime \/ pc \in {"asleep", "off"}
         \/ drive.flag)

(* settings_commit: "the only thing at risk is a battery pull, and the      *)
(* forced paths cover every graceful exit".                                 *)
ExitsSave ==
    [][EnterStandby \/ DiskMode => lost' \/ disk' = Content(ram')]_vars
=============================================================================
