---------------------------- MODULE PowerPolicy ----------------------------
(* The clock driver under the code that calls it: one pass of the main loop *)
(* of kernel/main.c (player pump, long press, Hold edge, input, backlight   *)
(* timeout, boost, commit), suspend_to_ram, the hold every ATA command      *)
(* takes, and the audio HAL's word on the DMA.  The boost is counted across *)
(* all of them, and a switch is refused while audio plays: whoever gets the *)
(* order wrong leaves the core at the wrong clock, for a whole track or     *)
(* until the next reboot.                                                   *)
(*                                                                          *)
(* The driver is also run under callers that keep to no order at all, from  *)
(* the state the loader leaves (phase "any"): its own properties are to     *)
(* hold whoever calls.                                                      *)
(*                                                                          *)
(* Time is counted in units of PLAY's two-second threshold.  Every stretch  *)
(* of a pass that may wait for the drive takes up to Slow units.            *)
EXTENDS Clock

CONSTANTS
    HoldTime,   \* the PLAY hold that suspends
    DimTime,    \* quiet before the backlight dims
    OffTime,    \* quiet before it goes off
    Slow        \* the longest a stretch of a pass may block on the drive

ASSUME TimeAssumption ==
    /\ HoldTime \in Nat /\ DimTime \in Nat /\ OffTime \in Nat /\ Slow \in Nat
    /\ HoldTime < DimTime /\ DimTime < OffTime
ASSUME HoldersAssumption == MaxBoost > 1     \* the main loop's and a command's

VARIABLES
    phase,      \* where the main thread is
    drive,      \* an ATA command is under way (ata_clock_hold taken)
    player,     \* "none", "opening" (stopped, reading), "playing", "paused"
    bl_state,   \* the backlight: "off", "dim", "full"
    cpu_idled,  \* the main loop has given its boost back
    g_locked,   \* the Hold switch, as the main loop last saw it
    play,       \* clickwheel_buttons() & PLAY: the live state
    press,      \* a press is latched in the wheel driver
    held,       \* units since play_down_us, -1 when play_held is 0
    quiet,      \* units since last_input
    was_playing \* suspend_to_ram's

loop == <<bl_state, cpu_idled, g_locked, held, quiet, was_playing>>
buttons == <<play, press>>
allVars == <<vars, phase, drive, player, loop, buttons>>

Awake == {"pump", "longpress", "holdedge", "input", "handle", "idle", "boost", "commit"}
Suspending == {"pausing", "saving", "unboost", "park"}
Suspended == {"release", "sleep", "swallow"}
Waking == {"reboost", "wakeup", "resume"}
DriveUsed == {"pump", "handle", "commit", "saving", "park", "wakeup"}

PolicyTypeOK ==
    /\ TypeOK
    /\ phase \in Awake \cup Suspending \cup Suspended \cup Waking \cup {"standby", "any"}
    /\ drive \in BOOLEAN
    /\ player \in {"none", "opening", "playing", "paused"}
    /\ bl_state \in {"off", "dim", "full"}
    /\ cpu_idled \in BOOLEAN /\ g_locked \in BOOLEAN
    /\ play \in BOOLEAN /\ press \in BOOLEAN /\ was_playing \in BOOLEAN
    /\ held \in -1..(HoldTime + 1)
    /\ quiet \in 0..(OffTime + 1)

-----------------------------------------------------------------------------
(* The main thread runs when no frequency switch and no command is under way*)
At(p) == phase = p /\ step = "idle" /\ ~drive
Go(p, q) == At(p) /\ phase' = q

Capped(n, cap) == IF n > cap THEN cap ELSE n
Takes(d) ==
    /\ quiet' = Capped(quiet + d, OffTime + 1)
    /\ held' = IF held = -1 THEN -1 ELSE Capped(held + d, HoldTime + 1)

(* Every ATA command is bracketed in a hold of the clock.                   *)
AtaHold ==
    /\ CpuBoost
    /\ drive' = TRUE

AtaBegin ==
    /\ phase \in DriveUsed
    /\ step = "idle" /\ ~drive
    /\ AtaHold
    /\ UNCHANGED <<phase, player, loop, buttons>>

(* Mistake: an error path returns without the release.                      *)
HoldLeaked ==
    /\ drive /\ step = "idle"
    /\ drive' = FALSE
    /\ UNCHANGED <<vars, phase, player, loop, buttons>>
AtaRelease ==
    /\ drive /\ step = "idle"
    /\ drive' = FALSE
    /\ CpuUnboost
    /\ UNCHANGED <<phase, player, loop, buttons>>

-----------------------------------------------------------------------------
(* The transport, as the pump, the event handlers and a seek drive it:      *)
(* hal_audio_stop before the reads, hal_audio_start after them.             *)
Reopen ==
    /\ At(phase) /\ phase \in {"pump", "handle", "commit"}
    /\ player # "opening"
    /\ phase = "pump" => player = "playing"
    /\ phase = "commit" => player # "none"
    /\ player' = "opening"
    /\ DmaInactive
    /\ UNCHANGED <<phase, drive, loop, buttons>>

Opened ==
    /\ At(phase) /\ player = "opening"
    /\ \/ player' = "playing" /\ DmaActive
       \/ player' \in {"paused", "none"} /\ UNCHANGED vars
    /\ UNCHANGED <<phase, drive, loop, buttons>>

TogglePause ==
    /\ At("handle")
    /\ \/ player = "playing" /\ player' = "paused" /\ DmaInactive
       \/ player = "paused" /\ player' = "playing" /\ DmaActive
    /\ UNCHANGED <<phase, drive, loop, buttons>>

(* The queue ends, or is skipped past its end, or playback is stopped.      *)
PlayerStops ==
    /\ At(phase) /\ phase \in {"pump", "handle"}
    /\ player = "playing" \/ (player = "paused" /\ phase = "handle")
    /\ player' = "none"
    /\ DmaInactive
    /\ UNCHANGED <<phase, drive, loop, buttons>>

-----------------------------------------------------------------------------
(* One pass. *)
PumpDone ==
    /\ Go("pump", "longpress") /\ player # "opening"
    /\ \E d \in 0..Slow : Takes(d)
    /\ UNCHANGED <<vars, drive, player, buttons, bl_state, cpu_idled, g_locked, was_playing>>

PlayDown == play /\ ~g_locked

LongPress ==
    /\ At("longpress")
    /\ phase' = IF PlayDown /\ held > HoldTime THEN "pausing" ELSE "holdedge"
    /\ held' = IF ~PlayDown THEN -1 ELSE IF held = -1 THEN 0 ELSE held
    /\ was_playing' = (player = "playing")
    /\ UNCHANGED <<vars, drive, player, buttons, bl_state, cpu_idled, g_locked, quiet>>

NoHoldEdge ==
    /\ Go("holdedge", "input")
    /\ UNCHANGED <<vars, drive, player, buttons, loop>>

(* The wheel driver drops what it has latched on either edge, and the one   *)
(* drain left in this pass reports the edge and no buttons.                 *)
HoldEdge ==
    /\ Go("holdedge", "idle")
    /\ g_locked' = ~g_locked
    /\ play' = FALSE /\ press' = FALSE
    /\ bl_state' = "full" /\ quiet' = 0
    /\ UNCHANGED <<vars, drive, player, cpu_idled, held, was_playing>>

NoEvent ==
    /\ Go("input", "idle")
    /\ ~press \/ g_locked
    /\ UNCHANGED <<vars, drive, player, buttons, loop>>

(* The press that lights a dark screen is swallowed.  Mistake: it is not.   *)
EventUnswallowed ==
    /\ At("input") /\ press /\ ~g_locked
    /\ phase' = "handle"
    /\ press' = FALSE /\ quiet' = 0 /\ bl_state' = "full"
    /\ UNCHANGED <<vars, drive, player, play, cpu_idled, g_locked, held, was_playing>>
Event ==
    /\ At("input") /\ press /\ ~g_locked
    /\ phase' = IF bl_state = "off" THEN "idle" ELSE "handle"
    /\ press' = FALSE /\ quiet' = 0 /\ bl_state' = "full"
    /\ UNCHANGED <<vars, drive, player, play, cpu_idled, g_locked, held, was_playing>>

HandleDone ==
    /\ Go("handle", "idle") /\ player # "opening"
    /\ \E d \in 0..Slow : Takes(d)
    /\ UNCHANGED <<vars, drive, player, buttons, bl_state, cpu_idled, g_locked, was_playing>>

Backlight ==
    /\ Go("idle", "boost")
    /\ bl_state' = IF bl_state = "full" /\ quiet > DimTime THEN "dim"
                   ELSE IF bl_state = "dim" /\ quiet > OffTime THEN "off"
                   ELSE bl_state
    /\ UNCHANGED <<vars, drive, player, buttons, cpu_idled, g_locked, held, quiet, was_playing>>

Live == bl_state # "off" \/ player # "none"
Boost ==
    /\ Go("boost", "commit")
    /\ \/ cpu_idled /\ Live /\ CpuBoost /\ cpu_idled' = FALSE
       \/ ~cpu_idled /\ ~Live /\ CpuUnboost /\ cpu_idled' = TRUE
       \/ cpu_idled # Live /\ UNCHANGED <<vars, cpu_idled>>
    /\ UNCHANGED <<drive, player, buttons, bl_state, g_locked, held, quiet, was_playing>>

(* settings_commit, the spin-down and a deferred seek end the pass.         *)
CommitDone ==
    /\ Go("commit", "pump") /\ player # "opening"
    /\ \E d \in 0..Slow : Takes(d)
    /\ UNCHANGED <<vars, drive, player, buttons, bl_state, cpu_idled, g_locked, was_playing>>

-----------------------------------------------------------------------------
(* suspend_to_ram *)
Pause ==
    /\ Go("pausing", "saving")
    /\ IF was_playing THEN player' = "paused" /\ DmaInactive
                      ELSE UNCHANGED <<vars, player>>
    /\ UNCHANGED <<drive, loop, buttons>>

Saved ==
    /\ Go("saving", "unboost")
    /\ UNCHANGED <<vars, drive, player, loop, buttons>>

(* Mistake: the boost is kept for the whole suspend.                        *)
SuspendBoosted ==
    /\ Go("unboost", "park")
    /\ UNCHANGED <<vars, drive, player, loop, buttons>>
SuspendUnboost ==
    /\ Go("unboost", "park")
    /\ CpuUnboost
    /\ UNCHANGED <<drive, player, loop, buttons>>

Parked ==
    /\ Go("park", "release")
    /\ UNCHANGED <<vars, drive, player, loop, buttons>>

(* PLAY held on to five seconds is a real power-down.                       *)
Released ==
    /\ Go("release", "sleep") /\ ~play
    /\ press' = FALSE
    /\ UNCHANGED <<vars, drive, player, loop, play>>
Standby ==
    /\ Go("release", "standby") /\ play
    /\ UNCHANGED <<vars, drive, player, loop, buttons>>

WakePress ==
    /\ Go("sleep", "swallow") /\ play
    /\ UNCHANGED <<vars, drive, player, loop, buttons>>
Swallowed ==
    /\ Go("swallow", "reboost") /\ ~play
    /\ press' = FALSE
    /\ UNCHANGED <<vars, drive, player, loop, play>>

Reboost ==
    /\ Go("reboost", "wakeup")
    /\ CpuBoost
    /\ UNCHANGED <<drive, player, loop, buttons>>

Awakened ==
    /\ Go("wakeup", "resume")
    /\ UNCHANGED <<vars, drive, player, loop, buttons>>

Resume ==
    /\ Go("resume", "holdedge")
    /\ IF was_playing THEN player' = "playing" /\ DmaActive
                      ELSE UNCHANGED <<vars, player>>
    /\ held' = -1 /\ quiet' = 0 /\ bl_state' = "full"
    /\ UNCHANGED <<drive, buttons, cpu_idled, g_locked, was_playing>>

-----------------------------------------------------------------------------
(* The wheel, sampled by the tick at any time the Hold switch is off.  Here *)
(* PLAY stands for any button: all of them wake a suspended device.         *)
Press ==
    /\ ~g_locked /\ phase \notin {"standby", "any"}
    /\ \/ ~play /\ play' = TRUE
       \/ UNCHANGED play
    /\ press' = TRUE
    /\ UNCHANGED <<vars, phase, drive, player, loop>>

Unpress ==
    /\ play /\ phase # "standby"
    /\ play' = FALSE
    /\ UNCHANGED <<vars, phase, drive, player, loop, press>>

Switching ==
    /\ SwitchStep
    /\ UNCHANGED <<phase, drive, player, loop, buttons>>

AnyCall ==
    /\ phase = "any" /\ Next
    /\ UNCHANGED <<phase, drive, player, loop, buttons>>

(* run_ui's loop starts with main's boost taken and a track perhaps loaded, *)
(* paused, by resume_restore.                                               *)
LoopStarts ==
    /\ source \in {"xtal", "pll"}
    /\ pll = CPUFREQ_MAX
    /\ locked = (source = "pll")
    /\ timing = IF locked THEN "fast" ELSE "slow"
    /\ freq = IF locked THEN CPUFREQ_MAX ELSE CPUFREQ_DEFAULT
    /\ boost = 1 /\ dma = FALSE /\ pending = 0 /\ step = "idle" /\ target = CPUFREQ_MAX
    /\ phase = "pump" /\ player \in {"none", "paused"} /\ g_locked \in BOOLEAN

PolicyInit ==
    /\ LoopStarts \/ (Init /\ phase = "any" /\ player = "none" /\ g_locked = FALSE)
    /\ drive = FALSE /\ bl_state = "full" /\ cpu_idled = FALSE
    /\ play = FALSE /\ press = FALSE
    /\ held = -1 /\ quiet = 0 /\ was_playing = FALSE

Pass ==
    \/ PumpDone \/ LongPress \/ NoHoldEdge \/ HoldEdge \/ NoEvent \/ Event
    \/ HandleDone \/ Backlight \/ Boost \/ CommitDone
    \/ Pause \/ Saved \/ SuspendUnboost \/ Parked \/ Released \/ Standby
    \/ WakePress \/ Swallowed \/ Reboost \/ Awakened \/ Resume

PolicyNext ==
    \/ Pass
    \/ AtaRelease \/ Switching \/ Opened
    \/ AtaBegin \/ Reopen \/ TogglePause \/ PlayerStops
    \/ Press \/ Unpress
    \/ AnyCall

(* Commands and switches end (both are bounded spins), and a stretch of a   *)
(* pass issues finitely many of them: the pass goes on.                     *)
Fairness ==
    /\ WF_allVars(AtaRelease) /\ WF_allVars(Switching) /\ WF_allVars(Opened)
    /\ SF_allVars(Pass)

PolicySpec == PolicyInit /\ [][PolicyNext]_allVars /\ Fairness

-----------------------------------------------------------------------------
(* What ata.c asks of every command: no command is on the bus at the 30 MHz *)
(* the strobes were not calibrated for (only a dead PLL leaves 24).         *)
CommandsAtFullSpeed == drive /\ step = "idle" => freq # CPUFREQ_NORMAL

(* What clock.c's deferral is afraid of: music never starts, and so never   *)
(* plays a whole track, with the core held at 30 MHz.                       *)
StreamsAtFullSpeed == dma /\ phase # "any" => freq # CPUFREQ_NORMAL /\ boost > 0

(* Neither the drive nor the music ever runs at the idle clock. *)
PolicySafe == PolicyTypeOK /\ CommandsAtFullSpeed /\ StreamsAtFullSpeed

(* The count is the number of holders: the main loop, unless idled or       *)
(* suspended, and the command under way.  One hold lost or leaked would put *)
(* every later edge in the wrong place.                                     *)
Holders ==
    (IF cpu_idled \/ phase \in {"park", "reboost"} \cup Suspended THEN 0 ELSE 1)
        + (IF drive THEN 1 ELSE 0)
BoostCounts == phase \notin {"standby", "any"} => boost = Holders

(* A device left dark and silent ends up off 80 MHz, whatever the last      *)
(* thing it did was.                                                        *)
DarkAndSilent == bl_state = "off" /\ player = "none"
IdlesSlow == DarkAndSilent ~> (freq # CPUFREQ_MAX \/ ~DarkAndSilent)
=============================================================================
