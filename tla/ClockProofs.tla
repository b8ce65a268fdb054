---------------------------- MODULE ClockProofs ----------------------------
(***************************************************************************)
(* Proofs about the clock driver, for every bound on the boost count; then *)
(* about the main loop that calls it, for any thresholds.                  *)
(***************************************************************************)
EXTENDS PowerPolicy, TLAPS

USE DEF CPUFREQ_DEFAULT, CPUFREQ_NORMAL, CPUFREQ_MAX, OperatingTiming, Steps

\* The state the loader hands over, with clock_init called, satisfies IndInv.
LEMMA InitIndInv == Init => IndInv
<1> SUFFICES ASSUME Init PROVE IndInv
  OBVIOUS
<1>1. TypeOK
  <2>1. boost \in 0..MaxBoost
    BY BoostAssumption DEF Init
  <2> QED
    BY <2>1 DEF Init, TypeOK
<1>2. SwitchUnderWay /\ OnCrystal /\ Prepared /\ FreqTrue /\ LatestRequestKept
  BY DEF Init, SwitchUnderWay, OnCrystal, Prepared, FreqTrue, LatestRequestKept, Wanted
<1>3. BusSound
  BY DEF Init, BusSound, Sound
<1> QED
  BY <1>1, <1>2, <1>3 DEF IndInv

\* Each register write of a switch preserves IndInv.
LEMMA SwitchStepIndInv == IndInv /\ SwitchStep => IndInv'
<1> SUFFICES ASSUME IndInv, SwitchStep PROVE IndInv'
  OBVIOUS
<1> USE DEF IndInv, TypeOK, SwitchUnderWay, OnCrystal, Prepared, BusSound, Sound,
            FreqTrue, LatestRequestKept, Wanted, Step, registers
<1>1. CASE PowerUp
  BY <1>1 DEF PowerUp
<1>2. CASE Detour
  BY <1>2 DEF Detour
<1>3. CASE Relax
  BY <1>3 DEF Relax
<1>4. CASE Program
  BY <1>4 DEF Program
<1>5. CASE Locks
  BY <1>5 DEF Locks
<1>6. CASE NeverLocks
  BY <1>6 DEF NeverLocks
<1>7. CASE ApplyTiming
  BY <1>7 DEF ApplyTiming
<1>8. CASE Route
  BY <1>8 DEF Route
<1> QED
  BY <1>1, <1>2, <1>3, <1>4, <1>5, <1>6, <1>7, <1>8 DEF SwitchStep

\* Each call preserves IndInv.
LEMMA CallIndInv ==
    ASSUME IndInv,
           (boost < MaxBoost /\ CpuBoost) \/ CpuUnboost \/ DmaActive \/ DmaInactive
    PROVE  IndInv'
<1> USE DEF IndInv, TypeOK, SwitchUnderWay, OnCrystal, Prepared, BusSound, Sound,
            FreqTrue, LatestRequestKept, Wanted, registers
<1>1. CASE boost < MaxBoost /\ CpuBoost
  <2>1. boost' = boost + 1 /\ boost \in 0..MaxBoost /\ boost' \in 1..MaxBoost
    BY <1>1, BoostAssumption DEF CpuBoost
  <2>2. CASE boost = 0
    BY <1>1, <2>1, <2>2 DEF CpuBoost, SetCpuFrequency
  <2>3. CASE boost # 0
    BY <1>1, <2>1, <2>3, BoostAssumption DEF CpuBoost
  <2> QED
    BY <2>2, <2>3
<1>2. CASE CpuUnboost
  <2>1. CASE boost = 1
    <3>1. boost' = 0
      BY <1>2, <2>1 DEF CpuUnboost
    <3> QED
      BY <1>2, <2>1, <3>1, BoostAssumption DEF CpuUnboost, SetCpuFrequency
  <2>2. CASE boost # 1
    <3>1. boost' \in 0..MaxBoost /\ (boost' > 0 <=> boost > 0)
      BY <1>2, <2>2, BoostAssumption DEF CpuUnboost
    <3>2. Wanted' = Wanted
      BY <3>1
    <3> QED
      BY <1>2, <2>2, <3>1, <3>2, BoostAssumption DEF CpuUnboost
  <2> QED
    BY <2>1, <2>2
<1>3. CASE DmaActive
  BY <1>3 DEF DmaActive
<1>4. CASE DmaInactive
  <2>1. CASE pending = 0
    <3>1. /\ step = "idle" /\ step' = "idle" /\ pending' = 0 /\ dma' = FALSE
          /\ UNCHANGED <<source, timing, pll, locked, freq, boost, target>>
      BY <1>4, <2>1 DEF DmaInactive
    <3>2. freq \in {Wanted, 24}
      BY <3>1, <2>1
    <3>3. TypeOK'
      BY <3>1
    <3>4. SwitchUnderWay' /\ OnCrystal' /\ Prepared' /\ FreqTrue' /\ LatestRequestKept'
      BY <3>1, <3>2
    <3>5. BusSound'
      BY <3>1
    <3> QED
      BY <3>3, <3>4, <3>5
  <2>2. CASE pending # 0
    <3>1. pending = Wanted /\ pending \in {30, 80}
      BY <1>4, <2>2 DEF DmaInactive
    <3>2. /\ step' = "power" /\ target' = Wanted' /\ pending' = 0 /\ dma' = FALSE
          /\ UNCHANGED <<source, timing, pll, locked, freq, boost>>
      BY <1>4, <2>2, <3>1 DEF DmaInactive
    <3>3. TypeOK'
      BY <3>1, <3>2
    <3>4. SwitchUnderWay' /\ OnCrystal' /\ Prepared' /\ FreqTrue' /\ LatestRequestKept'
      BY <3>2
    <3>5. BusSound'
      BY <3>2
    <3> QED
      BY <3>3, <3>4, <3>5
  <2> QED
    BY <2>1, <2>2
<1> QED
  BY <1>1, <1>2, <1>3, <1>4

LEMMA StepIndInv == IndInv /\ [Next]_vars => IndInv'
<1>1. IndInv /\ UNCHANGED vars => IndInv'
  BY DEF vars, registers, IndInv, TypeOK, SwitchUnderWay, OnCrystal, Prepared,
         BusSound, Sound, FreqTrue, LatestRequestKept, Wanted
<1> QED
  BY <1>1, SwitchStepIndInv, CallIndInv DEF Next

\* Every write of every switch finds the clock tree as the sequence assumes.
THEOREM Invariance == Spec => []IndInv
<1> QED
  BY InitIndInv, StepIndInv, PTL DEF Spec

\* Every variable keeps its type.
THEOREM TypeCorrect == Spec => []TypeOK
<1>1. IndInv => TypeOK
  BY DEF IndInv
<1> QED
  BY <1>1, Invariance, PTL

\* The core and the bus are never clocked by a PLL that is unlocked or too
\* fast for the bus timing, at any point of any switch.
THEOREM BusAlwaysSound == Spec => []BusSound
<1>1. IndInv => BusSound
  BY DEF IndInv
<1> QED
  BY <1>1, Invariance, PTL

\* cpu_frequency() is the truth between calls.
THEOREM FrequencyIsTrue == Spec => []FreqTrue
<1>1. IndInv => FreqTrue
  BY DEF IndInv
<1> QED
  BY <1>1, Invariance, PTL

\* A switch refused under the DMA is neither dropped nor overtaken.
THEOREM RequestsKept == Spec => []LatestRequestKept
<1>1. IndInv => LatestRequestKept
  BY DEF IndInv
<1> QED
  BY <1>1, Invariance, PTL

LEMMA RegistersFrozenStep == IndInv /\ [Next]_vars => [dma => UNCHANGED registers]_vars
<1> SUFFICES ASSUME IndInv, Next, dma PROVE UNCHANGED registers
  OBVIOUS
<1>1. step = "idle"
  BY DEF IndInv, SwitchUnderWay
<1>2. ~SwitchStep
  BY <1>1 DEF SwitchStep, Step, PowerUp, Detour, Relax, Program, Locks,
              NeverLocks, ApplyTiming, Route
<1> QED
  BY <1>2 DEF Next, CpuBoost, CpuUnboost, DmaActive, DmaInactive, registers

\* No register of the clock tree moves while the DMA reads SDRAM.
THEOREM RegistersFrozen == Spec => FrozenUnderDma
<1> QED
  BY RegistersFrozenStep, Invariance, PTL DEF Spec, FrozenUnderDma

-----------------------------------------------------------------------------
(***************************************************************************)
(* The loop and its callers.                                               *)
(***************************************************************************)

(* The boost is given back only by a loop with nothing to show or to play,  *)
(* and the pass that lights the screen again takes it before it ends.       *)
Idled ==
    cpu_idled => /\ phase \in Awake \ {"handle"} /\ player = "none"
                 /\ bl_state = "off" \/ phase \in {"idle", "boost"}

(* Who streams, who is reading a track, and what a suspend knows of them.   *)
Transport ==
    /\ phase # "any" => (dma <=> player = "playing")
    /\ player = "opening" => phase \in {"pump", "handle", "commit"}
    /\ phase = "pausing" => (was_playing <=> player = "playing")
    /\ phase \in Suspending \cup Suspended \cup Waking \cup {"standby"} =>
           phase = "pausing" \/ player \in {"none", "paused"}

(* Any callers: the rest of the firmware is not there; nor is it after the  *)
(* power-down.                                                              *)
Alone ==
    /\ phase = "any" => player = "none" /\ ~drive /\ ~play
    /\ phase = "standby" => ~drive

(* A key that is down has been latched, until an event reports it; nothing  *)
(* is down behind the Hold switch.                                          *)
Latched ==
    /\ g_locked => ~play /\ ~press
    /\ phase \in {"holdedge", "input"} /\ held = -1 /\ play => press
    /\ phase \in Waking /\ play => press

(* An event just handled keeps the screen lit for what the stretches of one *)
(* pass can take, and so does a PLAY that is being timed.                   *)
AfterInput == {"handle", "idle", "boost", "commit", "pump", "longpress"}
Stretches ==
    IF phase = "handle" THEN 0
    ELSE IF phase \in {"idle", "boost", "commit"} THEN Slow
    ELSE IF phase = "pump" THEN 2 * Slow ELSE 3 * Slow
Recently == quiet <= 3 * Slow + held
Attended ==
    /\ phase = "handle" => quiet = 0
    /\ phase \in AfterInput /\ held = -1 /\ play /\ ~press =>
           bl_state # "off" /\ quiet <= Stretches
    /\ phase \in {"holdedge", "input"} /\ held >= 0 =>
           held <= HoldTime /\ (press \/ (bl_state # "off" /\ Recently))
    /\ phase \in AfterInput /\ held >= 0 =>
           /\ bl_state # "off" /\ (held <= HoldTime => Recently)
           /\ phase = "handle" => held <= HoldTime
           /\ phase = "idle" /\ held > HoldTime => quiet <= Slow

(* Stretches so short that the drive alone, around a press, does not let    *)
(* the screen go dark.  With longer ones a suspend can be entered with the  *)
(* boost already given back.                                                *)
ShortStretches == 3 * Slow + HoldTime <= OffTime

PolicyInv ==
    /\ IndInv /\ PolicyTypeOK /\ Idled /\ Transport /\ Alone /\ Latched /\ Attended
    /\ BoostCounts /\ StreamsAtFullSpeed

\* A stretch of a pass: both timers go on by the same time, until PLAY's is
\* over.
LEMMA TakesFacts ==
    ASSUME PolicyTypeOK, NEW d \in 0 .. Slow, Takes(d)
    PROVE  /\ held' \in -1 .. HoldTime + 1 /\ quiet' \in 0 .. OffTime + 1
           /\ (held = -1 <=> held' = -1) /\ (held >= 0 <=> held' >= 0)
           /\ held >= 0 /\ (held <= HoldTime => Recently) => (held' <= HoldTime => Recently')
           /\ \A b \in Nat : quiet <= b => quiet' <= b + Slow
<1>1. /\ HoldTime \in Nat /\ OffTime \in Nat /\ Slow \in Nat
      /\ held \in -1 .. HoldTime + 1 /\ quiet \in 0 .. OffTime + 1 /\ d \in Nat
  BY TimeAssumption DEF PolicyTypeOK
<1>2. ASSUME NEW n \in Nat, NEW cap \in Nat
      PROVE  /\ Capped(n, cap) \in 0 .. cap /\ Capped(n, cap) <= n
             /\ Capped(n, cap) < cap => Capped(n, cap) = n
  BY DEF Capped
<1>3. /\ quiet + d \in Nat /\ OffTime + 1 \in Nat /\ HoldTime + 1 \in Nat
      /\ held # -1 => held + d \in Nat
  BY <1>1
<1>4. quiet' = Capped(quiet + d, OffTime + 1)
  BY DEF Takes
<1>5. quiet' \in 0 .. OffTime + 1 /\ quiet' <= quiet + d
  BY <1>2, <1>3, <1>4
<1>6. (held = -1 <=> held' = -1) /\ held' \in -1 .. HoldTime + 1
  <2>1. CASE held = -1
    BY <1>1, <2>1 DEF Takes
  <2>2. CASE held # -1
    <3>1. held' = Capped(held + d, HoldTime + 1) /\ held + d \in Nat
      BY <1>3, <2>2 DEF Takes
    <3>2. held' \in 0 .. HoldTime + 1
      BY <1>2, <1>3, <3>1
    <3> QED
      BY <1>1, <2>2, <3>2
  <2> QED
    BY <2>1, <2>2
<1>7. ASSUME held >= 0, held <= HoldTime => Recently, held' <= HoldTime
      PROVE  Recently'
  <2>1. held' = Capped(held + d, HoldTime + 1)
    BY <1>1, <1>7 DEF Takes
  <2>2. held' = held + d
    BY <1>2, <1>3, <1>1, <1>7, <2>1
  <2>3. quiet <= 3 * Slow + held
    BY <1>1, <1>7, <2>2 DEF Recently
  <2>4. quiet' <= quiet + d /\ quiet' \in Int /\ quiet \in Int
    BY <1>1, <1>5
  <2> QED
    BY <1>1, <2>2, <2>3, <2>4 DEF Recently
<1>8. \A b \in Nat : quiet <= b => quiet' <= b + Slow
  BY <1>1, <1>5
<1>9. held >= 0 <=> held' >= 0
  BY <1>1, <1>6
<1> QED
  BY <1>5, <1>6, <1>7, <1>8, <1>9

\* Whatever the loop does, to the driver it is one of the calls it is proved
\* for: the count stays within two.
LEMMA DriverStep ==
    ASSUME PolicyInv, [PolicyNext]_allVars
    PROVE  [Next]_vars
<1> USE DEF PolicyInv, Next
<1>1. CASE AtaBegin \/ AtaRelease
  <2>1. phase \in DriveUsed /\ ~drive => boost < MaxBoost
    BY HoldersAssumption, BoostAssumption DEF BoostCounts, Holders, DriveUsed
  <2> QED
    BY <1>1, <2>1 DEF AtaBegin, AtaRelease, AtaHold
<1>2. CASE Reopen \/ Opened \/ TogglePause \/ PlayerStops
  BY <1>2 DEF Reopen, Opened, TogglePause, PlayerStops, vars
<1>3. CASE Pass
  <2>1. ((phase = "boost" /\ cpu_idled) \/ phase = "reboost") /\ ~drive => boost < MaxBoost
    BY HoldersAssumption, BoostAssumption DEF BoostCounts, Holders, Suspended
  <2>2. CASE Boost \/ Reboost
    BY <2>1, <2>2 DEF Boost, Reboost, Go, At, vars
  <2>3. CASE SuspendUnboost
    BY <2>3 DEF SuspendUnboost
  <2>4. CASE Pause \/ Resume
    BY <2>4 DEF Pause, Resume, vars
  <2>5. CASE PumpDone \/ LongPress \/ NoHoldEdge \/ HoldEdge \/ NoEvent \/ Event
    BY <2>5 DEF PumpDone, LongPress, NoHoldEdge, HoldEdge, NoEvent, Event
  <2>6. CASE HandleDone \/ Backlight \/ CommitDone \/ Saved \/ Parked \/ Released
    BY <2>6 DEF HandleDone, Backlight, CommitDone, Saved, Parked, Released
  <2>7. CASE Standby \/ WakePress \/ Swallowed \/ Awakened
    BY <2>7 DEF Standby, WakePress, Swallowed, Awakened
  <2> QED
    BY <1>3, <2>2, <2>3, <2>4, <2>5, <2>6, <2>7 DEF Pass
<1>4. CASE Switching \/ AnyCall
  BY <1>4 DEF Switching, AnyCall
<1>5. CASE Press \/ Unpress \/ UNCHANGED allVars
  BY <1>5 DEF Press, Unpress, allVars
<1> QED
  BY <1>1, <1>2, <1>3, <1>4, <1>5 DEF PolicyNext

\* What a step needs to keep that leaves the loop where it is.
LEMMA LoopStands ==
    ASSUME PolicyInv, IndInv', UNCHANGED <<phase, player, loop, buttons>>,
           drive' \in BOOLEAN, phase \in {"any", "standby"} => ~drive', phase # "any" => dma' = dma,
           BoostCounts', StreamsAtFullSpeed'
    PROVE  PolicyInv'
<1>1. /\ UNCHANGED <<phase, player, play, press>>
      /\ UNCHANGED <<bl_state, cpu_idled, g_locked, held, quiet, was_playing>>
  BY DEF loop, buttons
<1>2. PolicyTypeOK'
  BY <1>1 DEF PolicyInv, PolicyTypeOK, IndInv
<1>3. Idled' /\ Transport' /\ Alone' /\ Latched'
  BY <1>1 DEF PolicyInv, Idled, Transport, Alone, Latched
<1>4. Attended'
  BY <1>1 DEF PolicyInv, Attended, AfterInput, Stretches, Recently
<1> QED
  BY <1>2, <1>3, <1>4 DEF PolicyInv

\* A command takes and returns its hold, and streams nothing.
LEMMA CommandPolicyInv ==
    ASSUME PolicyInv, IndInv', AtaBegin \/ AtaRelease
    PROVE  PolicyInv'
<1>1. boost \in Nat /\ (dma /\ phase # "any" => boost > 0) /\ BoostCounts /\ Alone
  BY BoostAssumption DEF PolicyInv, IndInv, TypeOK, StreamsAtFullSpeed
<1>2. CASE AtaBegin
  <2>1. /\ boost' = boost + 1 /\ ~drive /\ drive' = TRUE /\ phase \notin {"any", "standby"}
        /\ UNCHANGED <<freq, dma, phase, player, loop, buttons>>
    BY <1>2 DEF AtaBegin, AtaHold, CpuBoost, DriveUsed
  <2>2. BoostCounts' /\ StreamsAtFullSpeed'
    BY <1>1, <2>1 DEF PolicyInv, BoostCounts, Holders, StreamsAtFullSpeed, Suspended, loop
  <2> QED
    BY <2>1, <2>2, LoopStands
<1>3. CASE AtaRelease
  <2>1. /\ phase # "any" /\ drive /\ ~drive' /\ drive' = FALSE
        /\ UNCHANGED <<freq, dma, phase, player, loop, buttons>>
    BY <1>1, <1>3 DEF AtaRelease, CpuUnboost, Alone
  <2>2. boost > 0 => boost' = boost - 1
    BY <1>3 DEF AtaRelease, CpuUnboost
  <2>3. BoostCounts'
    BY <1>1, <2>1, <2>2 DEF BoostCounts, Holders, Suspended, loop
  <2>4. StreamsAtFullSpeed'
    BY <2>1, <2>3 DEF PolicyInv, BoostCounts, Holders, Suspended, StreamsAtFullSpeed,
                      Suspending, Waking, PolicyTypeOK, Idled, Transport, loop
  <2> QED
    BY <2>1, <2>3, <2>4, LoopStands
<1> QED
  BY <1>2, <1>3

\* The driver's own steps, and any callers of it.
LEMMA DriverPolicyInv ==
    ASSUME PolicyInv, IndInv', Switching \/ AnyCall \/ UNCHANGED allVars
    PROVE  PolicyInv'
<1>1. /\ UNCHANGED <<phase, drive, player, loop, buttons>> /\ drive \in BOOLEAN
      /\ phase \in {"any", "standby"} => ~drive
  BY DEF Switching, AnyCall, allVars, PolicyInv, PolicyTypeOK, Alone
<1>2. phase # "any" => UNCHANGED <<boost, dma>>
  BY DEF Switching, SwitchStep, PowerUp, Detour, Relax, Program, Locks, NeverLocks,
         ApplyTiming, Route, AnyCall, allVars, vars
<1>3. BoostCounts'
  BY <1>1, <1>2 DEF PolicyInv, BoostCounts, Holders, loop
<1>4. dma /\ phase # "any" => UNCHANGED freq
  <2>1. dma => step = "idle"
    BY DEF PolicyInv, IndInv, SwitchUnderWay
  <2> QED
    BY <2>1 DEF Switching, SwitchStep, Step, PowerUp, Detour, Relax, Program, Locks, NeverLocks,
         ApplyTiming, Route, AnyCall, allVars, vars
<1>5. StreamsAtFullSpeed'
  BY <1>1, <1>2, <1>4 DEF PolicyInv, StreamsAtFullSpeed
<1> QED
  BY <1>1, <1>2, <1>3, <1>5, LoopStands

\* The transport: a stream starts only where the loop holds its boost.
LEMMA TransportPolicyInv ==
    ASSUME PolicyInv, IndInv', Reopen \/ Opened \/ TogglePause \/ PlayerStops
    PROVE  PolicyInv'
<1>1. /\ UNCHANGED <<phase, drive, loop, buttons>> /\ ~drive /\ step = "idle"
      /\ UNCHANGED boost
  BY DEF Reopen, Opened, TogglePause, PlayerStops, At, DmaActive, DmaInactive, vars
<1>2. /\ phase \in {"pump", "handle", "commit"} /\ ~cpu_idled
      /\ player' \in {"none", "opening", "playing", "paused"} /\ (dma' <=> player' = "playing")
  <2>1. phase \in {"pump", "handle", "commit"} /\ (player # "none" \/ phase = "handle")
    BY DEF Reopen, Opened, TogglePause, PlayerStops, At, PolicyInv, Transport
  <2>2. player' \in {"none", "opening", "playing", "paused"} /\ (dma' <=> player' = "playing")
    BY <2>1 DEF Reopen, Opened, TogglePause, PlayerStops, DmaActive, DmaInactive, vars,
                PolicyInv, Transport
  <2> QED
    BY <2>1, <2>2 DEF PolicyInv, Idled
<1>3. boost = 1 /\ BoostCounts'
  BY <1>1, <1>2 DEF PolicyInv, BoostCounts, Holders, Suspended, loop
<1>4. StreamsAtFullSpeed'
  <2>1. UNCHANGED freq
    BY DEF Reopen, Opened, TogglePause, PlayerStops, DmaActive, DmaInactive, vars
  <2>2. dma' /\ ~dma => step' = "idle"
    BY DEF Reopen, Opened, TogglePause, PlayerStops, DmaActive, DmaInactive, vars
  <2>3. dma' /\ ~dma => freq # CPUFREQ_NORMAL
    <3>1. ~dma => freq \in {Wanted, CPUFREQ_DEFAULT}
      BY <1>1 DEF PolicyInv, IndInv, LatestRequestKept
    <3> QED
      BY <1>3, <3>1 DEF Wanted
  <2> QED
    BY <1>1, <1>2, <1>3, <2>1, <2>3 DEF PolicyInv, StreamsAtFullSpeed
<1>5. PolicyTypeOK'
  BY <1>1, <1>2 DEF PolicyInv, PolicyTypeOK, IndInv, loop, buttons
<1>6. Idled' /\ Transport' /\ Alone' /\ Latched'
  BY <1>1, <1>2 DEF PolicyInv, Idled, Transport, Alone, Latched, loop, buttons,
                    Suspending, Suspended, Waking
<1>7. Attended'
  BY <1>1 DEF PolicyInv, Attended, AfterInput, Stretches, Recently, loop, buttons
<1> QED
  BY <1>3, <1>4, <1>5, <1>6, <1>7 DEF PolicyInv

\* The wheel's interrupt latches what goes down.
LEMMA ButtonPolicyInv ==
    ASSUME PolicyInv, IndInv', Press \/ Unpress
    PROVE  PolicyInv'
<1>1. UNCHANGED <<boost, dma, freq, phase, drive, player, bl_state, cpu_idled, g_locked, held, quiet, was_playing>>
  BY DEF Press, Unpress, vars, loop
<1>2. \/ ~g_locked /\ phase # "any" /\ play' \in BOOLEAN /\ press' = TRUE
      \/ play' = FALSE /\ UNCHANGED press
  BY DEF Press, Unpress, PolicyInv, PolicyTypeOK
<1>3. BoostCounts' /\ StreamsAtFullSpeed'
  BY <1>1 DEF PolicyInv, BoostCounts, Holders, StreamsAtFullSpeed
<1>4. PolicyTypeOK'
  BY <1>1, <1>2 DEF PolicyInv, PolicyTypeOK, IndInv
<1>5. Idled' /\ Transport' /\ Alone' /\ Latched'
  BY <1>1, <1>2 DEF PolicyInv, Idled, Transport, Alone, Latched
<1>6. Attended'
  BY <1>1, <1>2 DEF PolicyInv, Attended, AfterInput, Stretches, Recently
<1> QED
  BY <1>3, <1>4, <1>5, <1>6 DEF PolicyInv

\* Steps of the loop that leave the driver, the transport and the boost
\* alone.
LEMMA QuietSteps ==
    ASSUME PolicyInv, UNCHANGED <<vars, drive, player, cpu_idled>>,
           phase \in Awake, phase' \in Awake
    PROVE  /\ BoostCounts' /\ StreamsAtFullSpeed' /\ Alone'
           /\ player' # "opening" => Transport'
<1>1. UNCHANGED <<boost, dma, freq>> /\ phase # "any" /\ phase' # "any"
  BY DEF vars, Awake
<1>2. BoostCounts'
  BY <1>1 DEF PolicyInv, BoostCounts, Holders, Awake, Suspended
<1> QED
  BY <1>1, <1>2 DEF PolicyInv, StreamsAtFullSpeed, Transport, Alone, Awake, Suspending, Suspended, Waking

\* The stretches of a pass, with PLAY's timer: it is timed only by a loop
\* that has the screen lit, as the press did that.
LEMMA StretchPolicyInv ==
    ASSUME PolicyInv, IndInv', PumpDone \/ CommitDone \/ HandleDone
    PROVE  PolicyInv'
<1>0. /\ Slow \in Nat /\ HoldTime \in Nat /\ OffTime \in Nat
      /\ held \in -1 .. HoldTime + 1 /\ quiet \in 0 .. OffTime + 1
  BY TimeAssumption DEF PolicyInv, PolicyTypeOK
<1>1. PICK d \in 0 .. Slow : Takes(d)
  BY DEF PumpDone, CommitDone, HandleDone
<1>2. /\ held' \in -1 .. HoldTime + 1 /\ quiet' \in 0 .. OffTime + 1
      /\ (held = -1 <=> held' = -1) /\ (held >= 0 <=> held' >= 0)
      /\ held >= 0 /\ (held <= HoldTime => Recently) => (held' <= HoldTime => Recently')
      /\ \A b \in Nat : quiet <= b => quiet' <= b + Slow
  BY <1>1, TakesFacts DEF PolicyInv
<1>3. /\ \/ phase = "pump" /\ phase' = "longpress"
         \/ phase = "commit" /\ phase' = "pump"
         \/ phase = "handle" /\ phase' = "idle"
      /\ player # "opening"
      /\ UNCHANGED <<vars, drive, player, play, press, bl_state, cpu_idled, g_locked, was_playing>>
  BY DEF PumpDone, CommitDone, HandleDone, Go, At, buttons
<1>4. phase \in Awake /\ phase' \in Awake
  BY <1>3 DEF Awake
<1>5. BoostCounts' /\ StreamsAtFullSpeed' /\ Alone' /\ Transport'
  BY <1>3, <1>4, QuietSteps
<1>6. PolicyTypeOK'
  BY <1>2, <1>3, <1>4 DEF PolicyInv, PolicyTypeOK, IndInv
<1>7. Idled' /\ Latched'
  BY <1>3 DEF PolicyInv, Idled, Latched, Awake, Waking
<1>8. Attended'
  <2>1. phase \in AfterInput /\ phase' \in AfterInput
    BY <1>3 DEF AfterInput
  <2>2. Stretches \in Nat /\ Stretches + Slow = Stretches'
    BY <1>0, <1>3 DEF Stretches
  <2>3. held' = -1 /\ play' /\ ~press' => bl_state' # "off" /\ quiet' <= Stretches'
    <3>1. held' = -1 /\ play' /\ ~press' => bl_state' # "off" /\ quiet <= Stretches
      BY <1>2, <1>3, <2>1 DEF PolicyInv, Attended
    <3> QED
      BY <1>2, <2>2, <3>1
  <2>4. held' >= 0 => bl_state' # "off" /\ (held' <= HoldTime => Recently')
    BY <1>2, <1>3, <2>1 DEF PolicyInv, Attended
  <2>5. phase' = "idle" => quiet' <= Slow
    <3>1. phase = "handle" => quiet <= 0
      BY DEF PolicyInv, Attended
    <3>2. phase = "handle" => quiet' <= 0 + Slow
      BY <1>2, <3>1
    <3> QED
      BY <1>0, <1>3, <3>2
  <2> QED
    BY <1>3, <2>3, <2>4, <2>5 DEF Attended
<1> QED
  BY <1>5, <1>6, <1>7, <1>8 DEF PolicyInv

\* The long press: a suspend is entered with the boost held, unless the
\* stretches are as long as the timeouts.
LEMMA LongPressPolicyInv == PolicyInv /\ IndInv' /\ LongPress => PolicyInv'
<1> SUFFICES ASSUME PolicyInv, IndInv', LongPress PROVE PolicyInv'
  OBVIOUS
<1>0. /\ Slow \in Nat /\ HoldTime \in Nat
      /\ held \in -1 .. HoldTime + 1 /\ quiet \in 0 .. OffTime + 1
  BY TimeAssumption DEF PolicyInv, PolicyTypeOK
<1>1. /\ phase = "longpress" /\ UNCHANGED <<vars, drive, player, play, press>>
      /\ UNCHANGED <<bl_state, cpu_idled, g_locked, quiet>>
      /\ was_playing' = (player = "playing")
  BY DEF LongPress, At, buttons
<1>2. /\ phase' = IF PlayDown /\ held > HoldTime THEN "pausing" ELSE "holdedge"
      /\ held' = IF ~PlayDown THEN -1 ELSE IF held = -1 THEN 0 ELSE held
  BY DEF LongPress
<1>3. UNCHANGED <<boost, dma, freq>>
  BY <1>1 DEF vars
<1>4. held >= 0 => bl_state # "off" /\ (held <= HoldTime => Recently)
  BY <1>1 DEF PolicyInv, Attended, AfterInput
<1>5. PlayDown /\ held > HoldTime => ~cpu_idled
  BY <1>0, <1>1, <1>4 DEF PolicyInv, Idled
<1>6. held' \in -1 .. HoldTime + 1
  BY <1>0, <1>2
<1>7. BoostCounts' /\ StreamsAtFullSpeed' /\ Alone'
  BY <1>1, <1>2, <1>3 DEF PolicyInv, BoostCounts, Holders, StreamsAtFullSpeed, Alone, Suspended
<1>8. Transport'
  BY <1>1, <1>2, <1>3 DEF PolicyInv, Transport, Suspending, Suspended, Waking
<1>9. PolicyTypeOK'
  BY <1>1, <1>2, <1>6 DEF PolicyInv, PolicyTypeOK, IndInv, Awake, Suspending
<1>10. Idled'
  BY <1>1, <1>2, <1>5 DEF PolicyInv, Idled, Awake
<1>11. Latched'
  BY <1>1, <1>2 DEF PolicyInv, Latched, Waking, PlayDown
<1>12. phase' = "holdedge" /\ held' >= 0 =>
           held' <= HoldTime /\ (press' \/ (bl_state' # "off" /\ Recently'))
  <2>1. SUFFICES ASSUME phase' = "holdedge", held' >= 0
                 PROVE  held' <= HoldTime /\ (press' \/ (bl_state' # "off" /\ Recently'))
    OBVIOUS
  <2>2. PlayDown
    BY <1>2, <2>1
  <2>3. CASE held = -1
    <3>1. held' = 0
      BY <1>2, <2>2, <2>3
    <3>2. ~press => bl_state # "off" /\ quiet <= 3 * Slow
      BY <1>1, <2>2, <2>3 DEF PolicyInv, Attended, AfterInput, Stretches, PlayDown
    <3> QED
      BY <1>0, <1>1, <3>1, <3>2 DEF Recently
  <2>4. CASE held # -1
    <3>1. held' = held /\ held >= 0 /\ held <= HoldTime
      BY <1>0, <1>2, <2>1, <2>2, <2>4
    <3> QED
      BY <1>1, <1>4, <3>1 DEF Recently
  <2> QED
    BY <2>3, <2>4
<1>13. Attended'
  BY <1>2, <1>12 DEF Attended, AfterInput
<1> QED
  BY <1>7, <1>8, <1>9, <1>10, <1>11, <1>13 DEF PolicyInv

\* The Hold edge and the input.
LEMMA InputPolicyInv ==
    ASSUME PolicyInv, IndInv', NoHoldEdge \/ HoldEdge \/ NoEvent \/ Event
    PROVE  PolicyInv'
<1> USE DEF Go, At
<1>0. /\ Slow \in Nat /\ HoldTime \in Nat /\ OffTime \in Nat
      /\ held \in -1 .. HoldTime + 1 /\ quiet \in 0 .. OffTime + 1
  BY TimeAssumption DEF PolicyInv, PolicyTypeOK
<1>1. /\ phase \in {"holdedge", "input"} /\ phase' \in {"input", "idle", "handle"}
      /\ UNCHANGED <<vars, drive, player, cpu_idled, held, was_playing>>
      /\ play' \in {FALSE, play} /\ press' \in {FALSE, press}
  BY DEF NoHoldEdge, HoldEdge, NoEvent, Event, buttons, loop
<1>2. phase \in Awake /\ phase' \in Awake /\ player # "opening"
  BY <1>1 DEF Awake, PolicyInv, Transport
<1>3. BoostCounts' /\ StreamsAtFullSpeed' /\ Alone' /\ Transport'
  BY <1>1, <1>2, QuietSteps
<1>4. /\ held >= 0 => held <= HoldTime /\ (press \/ (bl_state # "off" /\ Recently))
      /\ held = -1 /\ play => press
      /\ g_locked => ~play /\ ~press
  BY <1>1 DEF PolicyInv, Attended, Latched
<1>5. CASE NoHoldEdge
  <2>1. phase' = "input" /\ UNCHANGED <<play, press, bl_state, g_locked, quiet>>
    BY <1>5 DEF NoHoldEdge, buttons, loop
  <2>2. PolicyTypeOK' /\ Idled' /\ Latched'
    BY <1>1, <1>2, <1>4, <2>1 DEF PolicyInv, PolicyTypeOK, IndInv, Idled, Latched, Waking
  <2>3. Attended'
    BY <1>1, <1>4, <2>1 DEF Attended, AfterInput, Recently
  <2> QED
    BY <1>3, <2>2, <2>3 DEF PolicyInv
<1>6. CASE NoEvent
  <2>1. phase' = "idle" /\ ~press /\ UNCHANGED <<play, press, bl_state, g_locked, quiet>>
    BY <1>4, <1>6 DEF NoEvent, buttons, loop
  <2>2. PolicyTypeOK' /\ Idled' /\ Latched'
    BY <1>1, <1>2, <1>4, <2>1 DEF PolicyInv, PolicyTypeOK, IndInv, Idled, Latched, Waking
  <2>3. held = -1 => ~play
    BY <1>4, <2>1
  <2>4. held >= 0 => bl_state # "off" /\ Recently /\ held <= HoldTime
    BY <1>4, <2>1
  <2>5. held >= 0 => ~(held > HoldTime)
    BY <1>0, <2>4
  <2>6. Attended'
    BY <1>1, <2>1, <2>3, <2>4, <2>5 DEF Attended, AfterInput, Recently
  <2> QED
    BY <1>3, <2>2, <2>6 DEF PolicyInv
<1>7. CASE HoldEdge \/ Event
  <2>1. /\ bl_state' = "full" /\ quiet' = 0 /\ press' = FALSE
        /\ \/ phase' = "idle"
           \/ phase' = "handle" /\ bl_state # "off" /\ phase = "input"
        /\ \/ play' = FALSE /\ g_locked' = ~g_locked
           \/ ~g_locked /\ UNCHANGED <<play, g_locked>>
    BY <1>1, <1>7 DEF HoldEdge, Event
  <2>2. PolicyTypeOK'
    <3>1. quiet' \in 0 .. OffTime + 1
      BY <1>0, <2>1
    <3>2. play' \in BOOLEAN /\ g_locked' \in BOOLEAN
      BY <1>1, <2>1 DEF PolicyInv, PolicyTypeOK
    <3> QED
      BY <1>1, <1>2, <2>1, <3>1, <3>2 DEF PolicyInv, PolicyTypeOK, IndInv
  <2>3. Idled'
    BY <1>1, <1>2, <2>1 DEF PolicyInv, Idled
  <2>4. Latched'
    BY <1>4, <2>1 DEF Latched, Waking
  <2>5. held' >= 0 => held' <= HoldTime /\ Recently' /\ ~(held' > HoldTime)
    BY <1>0, <1>1, <1>4, <2>1 DEF Recently
  <2>6. quiet' <= Stretches'
    BY <1>0, <2>1 DEF Stretches
  <2>7. Attended'
    BY <2>1, <2>5, <2>6 DEF Attended, AfterInput
  <2> QED
    BY <1>3, <2>2, <2>3, <2>4, <2>7 DEF PolicyInv
<1> QED
  BY <1>5, <1>6, <1>7

\* The backlight runs down: never under a PLAY that is being timed, nor in
\* the pass of an event.
LEMMA BacklightPolicyInv == ShortStretches /\ PolicyInv /\ IndInv' /\ Backlight => PolicyInv'
<1> SUFFICES ASSUME ShortStretches, PolicyInv, IndInv', Backlight PROVE PolicyInv'
  OBVIOUS
<1>0. /\ Slow \in Nat /\ HoldTime \in Nat /\ OffTime \in Nat
      /\ held \in -1 .. HoldTime + 1 /\ quiet \in 0 .. OffTime + 1
  BY TimeAssumption DEF PolicyInv, PolicyTypeOK
<1>1. /\ phase = "idle" /\ phase' = "boost"
      /\ UNCHANGED <<vars, drive, player, play, press, cpu_idled, g_locked, held, quiet, was_playing>>
      /\ bl_state' = IF bl_state = "full" /\ quiet > DimTime THEN "dim"
                     ELSE IF bl_state = "dim" /\ quiet > OffTime THEN "off"
                     ELSE bl_state
  BY DEF Backlight, Go, At, buttons
<1>2. phase \in Awake /\ phase' \in Awake /\ player # "opening"
  BY <1>1 DEF Awake, PolicyInv, Transport
<1>3. BoostCounts' /\ StreamsAtFullSpeed' /\ Alone' /\ Transport'
  BY <1>1, <1>2, QuietSteps
<1>4. PolicyTypeOK' /\ Idled' /\ Latched'
  BY <1>1, <1>2 DEF PolicyInv, PolicyTypeOK, IndInv, Idled, Latched, Waking
<1>5. quiet <= OffTime /\ bl_state # "off" => bl_state' # "off"
  BY <1>0, <1>1
<1>6. held = -1 /\ play /\ ~press => bl_state' # "off" /\ quiet <= Slow
  <2>1. held = -1 /\ play /\ ~press => bl_state # "off" /\ quiet <= Slow
    BY <1>1 DEF PolicyInv, Attended, AfterInput, Stretches
  <2>2. quiet <= Slow => quiet <= OffTime
    BY <1>0 DEF ShortStretches
  <2> QED
    BY <1>5, <2>1, <2>2
<1>7. held >= 0 => bl_state' # "off" /\ (held <= HoldTime => Recently)
  <2>1. SUFFICES ASSUME held >= 0
                 PROVE  bl_state' # "off" /\ (held <= HoldTime => Recently)
    OBVIOUS
  <2>2. /\ bl_state # "off" /\ (held <= HoldTime => Recently)
        /\ held > HoldTime => quiet <= Slow
    BY <1>1, <2>1 DEF PolicyInv, Attended, AfterInput
  <2>3. quiet <= OffTime
    <3>1. CASE held <= HoldTime
      <4>1. quiet <= 3 * Slow + held
        BY <2>2, <3>1 DEF Recently
      <4> QED
        BY <1>0, <3>1, <4>1 DEF ShortStretches
    <3>2. CASE held > HoldTime
      BY <1>0, <2>2, <3>2 DEF ShortStretches
    <3> QED
      BY <1>0, <3>1, <3>2
  <2> QED
    BY <1>5, <2>2, <2>3
<1>8. Attended'
  BY <1>1, <1>6, <1>7 DEF Attended, AfterInput, Stretches, Recently
<1> QED
  BY <1>3, <1>4, <1>8 DEF PolicyInv

\* The boost follows what there is to show and to play.
LEMMA BoostPolicyInv == PolicyInv /\ IndInv' /\ Boost => PolicyInv'
<1> SUFFICES ASSUME PolicyInv, IndInv', Boost PROVE PolicyInv'
  OBVIOUS
<1>1. /\ phase = "boost" /\ phase' = "commit" /\ ~drive
      /\ UNCHANGED <<drive, player, play, press, bl_state, g_locked, held, quiet, was_playing>>
  BY DEF Boost, Go, At, buttons
<1>2. /\ cpu_idled' \in BOOLEAN /\ (cpu_idled' <=> ~Live) /\ UNCHANGED <<dma, freq>>
      /\ boost' = IF cpu_idled' THEN 0 ELSE 1
  <2>1. boost = (IF cpu_idled THEN 0 ELSE 1) /\ cpu_idled \in BOOLEAN /\ Live \in BOOLEAN
    <3>1. boost = (IF cpu_idled THEN 0 ELSE 1) /\ cpu_idled \in BOOLEAN
      BY <1>1 DEF PolicyInv, PolicyTypeOK, BoostCounts, Holders, Suspended
    <3>2. Live \in BOOLEAN
      BY DEF Live
    <3> QED
      BY <3>1, <3>2
  <2>2. CASE cpu_idled /\ Live /\ CpuBoost /\ cpu_idled' = FALSE
    <3>1. boost = 0
      BY <2>1, <2>2
    <3>2. boost' = 1 /\ UNCHANGED <<dma, freq>>
      BY <2>2, <3>1 DEF CpuBoost
    <3> QED
      BY <2>2, <3>2
  <2>3. CASE ~cpu_idled /\ ~Live /\ CpuUnboost /\ cpu_idled' = TRUE
    BY <2>1, <2>3 DEF CpuUnboost
  <2>4. CASE cpu_idled # Live /\ UNCHANGED <<vars, cpu_idled>>
    <3>1. cpu_idled' = cpu_idled /\ boost' = boost /\ dma' = dma /\ freq' = freq
      BY <2>4 DEF vars
    <3>2. cpu_idled <=> ~Live
      BY <2>1, <2>4
    <3> QED
      BY <2>1, <3>1, <3>2
  <2> QED
    BY <2>2, <2>3, <2>4 DEF Boost
<1>3. BoostCounts'
  BY <1>1, <1>2 DEF BoostCounts, Holders, Suspended
<1>4. StreamsAtFullSpeed' /\ Transport' /\ Alone'
  BY <1>1, <1>2 DEF PolicyInv, StreamsAtFullSpeed, Transport, Alone, Live,
                    Suspending, Suspended, Waking
<1>5. PolicyTypeOK' /\ Idled' /\ Latched'
  BY <1>1, <1>2 DEF PolicyInv, PolicyTypeOK, IndInv, Idled, Latched, Awake, Waking, Live
<1>6. Attended'
  BY <1>1 DEF PolicyInv, Attended, AfterInput, Stretches, Recently
<1> QED
  BY <1>3, <1>4, <1>5, <1>6 DEF PolicyInv

\* The suspend: the boost is given back on the way in, and taken again before
\* the drive and the music are.
LEMMA SuspendPolicyInv ==
    ASSUME PolicyInv, IndInv',
           \/ Pause \/ Saved \/ SuspendUnboost \/ Parked \/ Released \/ Standby
           \/ WakePress \/ Swallowed \/ Reboost \/ Awakened
    PROVE  PolicyInv'
<1> USE DEF Go, At
<1> DEFINE Asleep == {"park", "reboost"} \cup Suspended
<1>1. /\ \/ phase = "pausing" /\ phase' = "saving"
         \/ phase = "saving" /\ phase' = "unboost"
         \/ phase = "unboost" /\ phase' = "park"
         \/ phase = "park" /\ phase' = "release"
         \/ phase = "release" /\ phase' \in {"sleep", "standby"}
         \/ phase = "sleep" /\ phase' = "swallow"
         \/ phase = "swallow" /\ phase' = "reboost"
         \/ phase = "reboost" /\ phase' = "wakeup"
         \/ phase = "wakeup" /\ phase' = "resume"
      /\ ~drive /\ step = "idle" /\ UNCHANGED <<drive, loop, play>>
  BY DEF Pause, Saved, SuspendUnboost, Parked, Released, Standby, WakePress, Swallowed,
         Reboost, Awakened, buttons
<1>2. UNCHANGED <<bl_state, cpu_idled, g_locked, held, quiet, was_playing, play>> /\ ~cpu_idled
  BY <1>1 DEF loop, PolicyInv, Idled, Awake
<1>3. phase # "pausing" => UNCHANGED player /\ player \in {"none", "paused"}
  BY <1>1 DEF Pause, Saved, SuspendUnboost, Parked, Released, Standby, WakePress, Swallowed,
         Reboost, Awakened, PolicyInv, Transport, Suspending, Suspended, Waking
<1>4. phase = "pausing" => player' \in {"none", "paused"} /\ ~dma' /\ UNCHANGED boost
  <2>1. SUFFICES ASSUME phase = "pausing"
                 PROVE  player' \in {"none", "paused"} /\ ~dma' /\ UNCHANGED boost
    OBVIOUS
  <2>2. Pause
    BY <2>1 DEF Saved, SuspendUnboost, Parked, Released, Standby, WakePress, Swallowed,
                Reboost, Awakened
  <2>3. /\ player \in {"none", "opening", "playing", "paused"} /\ player # "opening"
        /\ was_playing <=> player = "playing"
        /\ dma <=> player = "playing"
    BY <2>1 DEF PolicyInv, PolicyTypeOK, Transport
  <2>4. CASE was_playing
    BY <2>2, <2>4 DEF Pause, DmaInactive
  <2>5. CASE ~was_playing
    BY <2>2, <2>3, <2>5 DEF Pause, vars
  <2> QED
    BY <2>4, <2>5
<1>5. ~dma'
  <2>1. phase # "pausing" => ~dma /\ UNCHANGED dma
    BY <1>1, <1>3 DEF Pause, Saved, SuspendUnboost, Parked, Released, Standby, WakePress, Swallowed,
         Reboost, Awakened, vars, CpuBoost, CpuUnboost, PolicyInv, Transport
  <2> QED
    BY <1>4, <2>1
<1>6. BoostCounts'
  <2>1. boost = IF phase \in Asleep THEN 0 ELSE 1
    BY <1>1, <1>2 DEF PolicyInv, BoostCounts, Holders
  <2>2. CASE phase = "unboost"
    <3>1. SuspendUnboost
      BY <2>2 DEF Pause, Saved, Parked, Released, Standby, WakePress, Swallowed, Reboost, Awakened
    <3>2. boost' = 0 /\ phase' = "park"
      BY <2>1, <2>2, <3>1 DEF SuspendUnboost, CpuUnboost, Suspended
    <3> QED
      BY <1>1, <1>2, <3>2 DEF BoostCounts, Holders
  <2>3. CASE phase = "reboost"
    <3>1. Reboost
      BY <2>3 DEF Pause, Saved, SuspendUnboost, Parked, Released, Standby, WakePress, Swallowed, Awakened
    <3>2. boost' = 1 /\ phase' = "wakeup"
      BY <2>1, <2>3, <3>1 DEF Reboost, CpuBoost
    <3> QED
      BY <1>1, <1>2, <3>2 DEF BoostCounts, Holders, Suspended
  <2>4. CASE phase \notin {"unboost", "reboost"}
    <3>1. UNCHANGED boost
      BY <1>4, <2>4 DEF Pause, Saved, SuspendUnboost, Parked, Released, Standby, WakePress, Swallowed,
         Reboost, Awakened, vars
    <3> QED
      BY <1>1, <1>2, <2>1, <2>4, <3>1 DEF BoostCounts, Holders, Suspended
  <2> QED
    BY <2>2, <2>3, <2>4
<1>7. (press' = FALSE \/ press' = press) /\ (phase' = "reboost" => ~play)
  BY <1>1 DEF Pause, Saved, SuspendUnboost, Parked, Released, Standby, WakePress, Swallowed,
         Reboost, Awakened, buttons
<1>8. phase # "pausing" /\ phase' \in {"wakeup", "resume"} => UNCHANGED press
  BY <1>1 DEF Pause, Saved, SuspendUnboost, Parked, Released, Standby, WakePress, Swallowed,
         Reboost, Awakened, buttons
<1>9. PolicyTypeOK'
  BY <1>1, <1>2, <1>3, <1>4, <1>7
     DEF PolicyInv, PolicyTypeOK, IndInv, Suspending, Suspended, Waking
<1>10. StreamsAtFullSpeed' /\ Transport' /\ Alone' /\ Idled'
  BY <1>1, <1>2, <1>3, <1>4, <1>5 DEF StreamsAtFullSpeed, Transport, Alone, Idled
<1>11. Latched'
  <2>1. play \in BOOLEAN /\ press \in BOOLEAN /\ g_locked \in BOOLEAN
    BY DEF PolicyInv, PolicyTypeOK
  <2>2. phase' \notin {"holdedge", "input"} /\ (g_locked' => ~play' /\ ~press')
    BY <1>1, <1>2, <1>7, <2>1 DEF PolicyInv, Latched
  <2>3. phase' \in Waking /\ play' => press'
    BY <1>1, <1>2, <1>7, <1>8, <2>1 DEF PolicyInv, Latched, Waking
  <2> QED
    BY <2>2, <2>3 DEF Latched
<1>12. Attended'
  BY <1>1 DEF Attended, AfterInput
<1> QED
  BY <1>6, <1>9, <1>10, <1>11, <1>12 DEF PolicyInv

\* The music goes on with the boost taken again.
LEMMA ResumePolicyInv == PolicyInv /\ IndInv' /\ Resume => PolicyInv'
<1> SUFFICES ASSUME PolicyInv, IndInv', Resume PROVE PolicyInv'
  OBVIOUS
<1>1. /\ phase = "resume" /\ phase' = "holdedge" /\ ~drive /\ step = "idle"
      /\ UNCHANGED <<drive, play, press, cpu_idled, g_locked, was_playing>>
      /\ held' = -1 /\ quiet' = 0 /\ bl_state' = "full"
  BY DEF Resume, Go, At, buttons
<1>2. player \in {"none", "paused"} /\ ~cpu_idled /\ ~dma /\ (play => press)
  BY <1>1 DEF PolicyInv, Transport, Idled, Awake, Waking, Latched
<1>3. boost = 1 /\ freq # CPUFREQ_NORMAL
  <2>1. boost = 1
    BY <1>1, <1>2 DEF PolicyInv, BoostCounts, Holders, Suspended
  <2> QED
    BY <1>1, <1>2, <2>1 DEF PolicyInv, IndInv, LatestRequestKept, Wanted
<1>4. /\ UNCHANGED <<boost, freq>> /\ player' \in {"none", "paused", "playing"}
      /\ dma' <=> player' = "playing"
  <2>1. CASE was_playing
    BY <2>1 DEF Resume, DmaActive
  <2>2. CASE ~was_playing
    BY <1>2, <2>2 DEF Resume, vars
  <2> QED
    BY <2>1, <2>2
<1>5. BoostCounts' /\ StreamsAtFullSpeed'
  BY <1>1, <1>2, <1>3, <1>4 DEF BoostCounts, Holders, StreamsAtFullSpeed, Suspended
<1>6. -1 \in -1 .. HoldTime + 1 /\ 0 \in 0 .. OffTime + 1
  BY TimeAssumption
<1>7. PolicyTypeOK'
  BY <1>1, <1>4, <1>6 DEF PolicyInv, PolicyTypeOK, IndInv, Awake
<1>8. Idled' /\ Transport' /\ Alone' /\ Latched'
  BY <1>1, <1>2, <1>4 DEF PolicyInv, Idled, Transport, Alone, Latched, Suspending, Suspended, Waking
<1>9. Attended'
  BY <1>1 DEF Attended, AfterInput
<1> QED
  BY <1>5, <1>7, <1>8, <1>9 DEF PolicyInv

-----------------------------------------------------------------------------
LEMMA InitPolicyInv == PolicyInit => PolicyInv
<1> SUFFICES ASSUME PolicyInit PROVE PolicyInv
  OBVIOUS
<1> USE DEF PolicyInit
<1>1. -1 \in -1 .. HoldTime + 1 /\ 0 \in 0 .. OffTime + 1
  BY TimeAssumption
<1>2. CASE LoopStarts
  <2>1. boost \in 0 .. MaxBoost
    BY <1>2, BoostAssumption DEF LoopStarts
  <2>2. IndInv
    <3>1. TypeOK
      BY <1>2, <2>1 DEF LoopStarts, TypeOK
    <3>2. BusSound /\ FreqTrue
      <4>1. CASE source = "pll"
        <5>1. locked = TRUE /\ pll = 80 /\ timing = "fast" /\ freq = 80
          BY <1>2, <4>1 DEF LoopStarts
        <5> QED
          BY <4>1, <5>1 DEF BusSound, Sound, FreqTrue
      <4>2. CASE source # "pll"
        <5>1. locked = FALSE /\ freq = 24
          BY <1>2, <4>2 DEF LoopStarts
        <5> QED
          BY <4>2, <5>1 DEF BusSound, Sound, FreqTrue
      <4> QED
        BY <4>1, <4>2
    <3>3. SwitchUnderWay /\ OnCrystal /\ Prepared
      BY <1>2 DEF LoopStarts, SwitchUnderWay, OnCrystal, Prepared
    <3>4. LatestRequestKept
      BY <1>2 DEF LoopStarts, LatestRequestKept, Wanted
    <3> QED
      BY <3>1, <3>2, <3>3, <3>4 DEF IndInv
  <2>3. PolicyTypeOK
    BY <1>1, <1>2, <2>2 DEF LoopStarts, IndInv, PolicyTypeOK, Awake
  <2>4. Idled /\ Transport /\ Alone /\ Latched
    BY <1>2 DEF LoopStarts, Idled, Transport, Alone, Latched, Suspending, Suspended, Waking
  <2>5. Attended
    BY <1>2 DEF LoopStarts, Attended, AfterInput
  <2>6. BoostCounts /\ StreamsAtFullSpeed
    BY <1>2 DEF LoopStarts, BoostCounts, Holders, StreamsAtFullSpeed, Suspended
  <2> QED
    BY <2>2, <2>3, <2>4, <2>5, <2>6 DEF PolicyInv
<1>3. CASE Init /\ phase = "any" /\ player = "none" /\ g_locked = FALSE
  <2>1. IndInv /\ ~dma
    BY <1>3, InitIndInv DEF Init
  <2>2. PolicyTypeOK
    BY <1>1, <1>3, <2>1 DEF IndInv, PolicyTypeOK
  <2>3. Idled /\ Transport /\ Alone /\ Latched
    BY <1>3 DEF Idled, Transport, Alone, Latched, Suspending, Suspended, Waking
  <2>4. Attended
    BY <1>3 DEF Attended, AfterInput
  <2>5. BoostCounts /\ StreamsAtFullSpeed
    BY <1>3, <2>1 DEF BoostCounts, StreamsAtFullSpeed
  <2> QED
    BY <2>1, <2>2, <2>3, <2>4, <2>5 DEF PolicyInv
<1> QED
  BY <1>2, <1>3

LEMMA StepPolicyInv == ShortStretches /\ PolicyInv /\ [PolicyNext]_allVars => PolicyInv'
<1> SUFFICES ASSUME ShortStretches, PolicyInv, [PolicyNext]_allVars PROVE PolicyInv'
  OBVIOUS
<1>1. IndInv'
  <2>1. IndInv /\ [Next]_vars
    BY DriverStep DEF PolicyInv
  <2> QED
    BY <2>1, StepIndInv
<1>2. CASE Pass
  BY <1>1, <1>2, StretchPolicyInv, LongPressPolicyInv, InputPolicyInv, BacklightPolicyInv,
     BoostPolicyInv, SuspendPolicyInv, ResumePolicyInv DEF Pass
<1> QED
  BY <1>1, <1>2, CommandPolicyInv, DriverPolicyInv, TransportPolicyInv, ButtonPolicyInv
     DEF PolicyNext

\* The inductive invariant of the loop with the driver under it, for any
\* thresholds that leave the drive the time it needs.
THEOREM PolicyInvariance ==
    ASSUME ShortStretches
    PROVE  PolicySpec => []PolicyInv
<1>1. PolicyInv /\ [PolicyNext]_allVars => PolicyInv'
  BY StepPolicyInv
<1> QED
  BY <1>1, InitPolicyInv, PTL DEF PolicySpec

\* Neither the drive nor the music ever runs at the idle clock.
THEOREM NeverAtIdleClock ==
    ASSUME ShortStretches
    PROVE  PolicySpec => []PolicySafe
<1>1. PolicyInv => PolicySafe
  <2> SUFFICES ASSUME PolicyInv PROVE CommandsAtFullSpeed
    BY DEF PolicyInv, PolicySafe
  <2> SUFFICES ASSUME drive, step = "idle" PROVE freq # CPUFREQ_NORMAL
    BY DEF CommandsAtFullSpeed
  <2>1. phase \notin {"any", "standby"}
    BY DEF PolicyInv, Alone
  <2>2. boost > 0
    BY <2>1 DEF PolicyInv, BoostCounts, Holders
  <2> QED
    BY <2>1, <2>2 DEF PolicyInv, IndInv, LatestRequestKept, Wanted, StreamsAtFullSpeed
<1> QED
  BY <1>1, PolicyInvariance, PTL

\* The count is the number of holders, through every pass and every suspend.
THEOREM HoldersCounted ==
    ASSUME ShortStretches
    PROVE  PolicySpec => []BoostCounts
<1>1. PolicyInv => BoostCounts
  BY DEF PolicyInv
<1> QED
  BY <1>1, PolicyInvariance, PTL

\* Under the firmware's own callers too the driver keeps to its rules: the
\* bus is sound, a refused switch is kept, and no register moves under the DMA.
THEOREM DriverKeepsRules ==
    ASSUME ShortStretches
    PROVE  PolicySpec => []BusSound /\ []LatestRequestKept /\ FrozenUnderDma
<1>1. PolicyInv => BusSound /\ LatestRequestKept
  BY DEF PolicyInv, IndInv
<1>2. PolicyInv /\ [PolicyNext]_allVars => [dma => UNCHANGED registers]_vars
  <2> SUFFICES ASSUME PolicyInv, [PolicyNext]_allVars PROVE [dma => UNCHANGED registers]_vars
    OBVIOUS
  <2>1. IndInv /\ [Next]_vars
    BY DriverStep DEF PolicyInv
  <2> QED
    BY <2>1, RegistersFrozenStep
<1> QED
  BY <1>1, <1>2, PolicyInvariance, PTL DEF PolicySpec, FrozenUnderDma
=============================================================================
