------------------------------- MODULE Clock -------------------------------
(* The PP5022 clock driver: kernel/clock.c.  A frequency switch is a        *)
(* sequence of register writes, modelled one by one because its ORDER is    *)
(* what keeps the core and the SDRAM bus inside their limits; the calls     *)
(* that start one are made by the main thread only, so a call is made only  *)
(* when no switch is under way.  The boost is counted and the switch is     *)
(* refused, and remembered, while the audio DMA reads SDRAM.                *)
(*                                                                          *)
(* The PLL may fail to lock at any switch.  Callers are not restricted      *)
(* here: PowerPolicy composes the driver with the code that calls it.       *)
EXTENDS Integers

CONSTANT MaxBoost        \* the most boosts outstanding at once
ASSUME BoostAssumption == MaxBoost \in Nat \ {0}

VARIABLES
    source,   \* CLOCK_SOURCE: what the core and the bus are clocked by
    timing,   \* DEV_TIMING1: the SDRAM and peripheral bus timing
    pll,      \* PLL_CONTROL: the frequency the PLL is programmed for, MHz
    locked,   \* PLL_STATUS_LOCK
    freq,     \* g_freq, MHz
    boost,    \* g_boost
    dma,      \* g_dma_active
    pending,  \* g_pending and the g_pending_* arguments, 0 when not pending
    step,     \* where set_cpu_frequency is, "idle" when not running
    target    \* its new_freq_hz argument

registers == <<source, timing, pll, locked>>
vars == <<registers, freq, boost, dma, pending, step, target>>

CPUFREQ_DEFAULT == 24
CPUFREQ_NORMAL  == 30
CPUFREQ_MAX     == 80
OperatingTiming(f) == IF f = CPUFREQ_MAX THEN "fast" ELSE "slow"

(* The operating point the boost count asks for. *)
Wanted == IF boost > 0 THEN CPUFREQ_MAX ELSE CPUFREQ_NORMAL

Steps == {"idle", "power", "detour", "relax", "program", "spin", "timing", "route"}

TypeOK ==
    /\ source \in {"xtal", "pll"}
    /\ timing \in {"slow", "fast"}
    /\ pll \in {0, CPUFREQ_NORMAL, CPUFREQ_MAX}
    /\ locked \in BOOLEAN
    /\ freq \in {CPUFREQ_DEFAULT, CPUFREQ_NORMAL, CPUFREQ_MAX}
    /\ boost \in 0..MaxBoost
    /\ dma \in BOOLEAN
    /\ pending \in {0, CPUFREQ_NORMAL, CPUFREQ_MAX}
    /\ step \in Steps
    /\ target \in {CPUFREQ_NORMAL, CPUFREQ_MAX}

-----------------------------------------------------------------------------
(* Mistakes: the switch is not refused under DMA; a refused switch does not *)
(* displace an earlier one.                                                 *)
SetAlways(f) == pending' = 0 /\ step' = "power" /\ target' = f
SetFirstKept(f) ==
    IF dma THEN /\ pending' = IF pending = 0 THEN f ELSE pending
                /\ UNCHANGED <<step, target>>
           ELSE SetAlways(f)

(* set_cpu_frequency(f): refused and remembered under DMA, else step 1.     *)
SetCpuFrequency(f) ==
    IF dma THEN /\ pending' = f
                /\ UNCHANGED <<step, target>>
           ELSE /\ pending' = 0
                /\ step' = "power"
                /\ target' = f

Step(from, to) == step = from /\ step' = to

(* Steps 1 and 2 power the PLL up with the value it has: nothing is routed. *)
PowerUp ==
    /\ Step("power", "detour")
    /\ UNCHANGED <<registers, freq, boost, dma, pending, target>>

(* Mistake: the bus is left on the PLL while it is reprogrammed.            *)
DetourSkipped ==
    /\ Step("detour", "relax")
    /\ UNCHANGED <<registers, freq, boost, dma, pending, target>>

Detour ==
    /\ Step("detour", "relax")
    /\ source' = "xtal"
    /\ UNCHANGED <<timing, pll, locked, freq, boost, dma, pending, target>>

Relax ==
    /\ Step("relax", "program")
    /\ timing' = "slow"
    /\ UNCHANGED <<source, pll, locked, freq, boost, dma, pending, target>>

(* Reprogramming the PLL loses its lock. *)
Program ==
    /\ Step("program", "spin")
    /\ pll' = target
    /\ locked' = FALSE
    /\ UNCHANGED <<source, timing, freq, boost, dma, pending, target>>

Locks ==
    /\ Step("spin", "timing")
    /\ locked' = TRUE
    /\ UNCHANGED <<source, timing, pll, freq, boost, dma, pending, target>>

(* The bounded spin runs out: the core stays on the crystal. *)
NeverLocks ==
    /\ Step("spin", "idle")
    /\ freq' = CPUFREQ_DEFAULT
    /\ UNCHANGED <<registers, boost, dma, pending, target>>

ApplyTiming ==
    /\ Step("timing", "route")
    /\ timing' = OperatingTiming(target)
    /\ UNCHANGED <<source, pll, locked, freq, boost, dma, pending, target>>

Route ==
    /\ Step("route", "idle")
    /\ source' = "pll"
    /\ freq' = target
    /\ UNCHANGED <<timing, pll, locked, boost, dma, pending, target>>

SwitchStep ==
    \/ PowerUp \/ Detour \/ Relax \/ Program
    \/ Locks \/ NeverLocks \/ ApplyTiming \/ Route

-----------------------------------------------------------------------------
(* The calls. *)
CpuBoost ==
    /\ step = "idle"
    /\ boost' = boost + 1
    /\ IF boost = 0 THEN SetCpuFrequency(CPUFREQ_MAX)
                    ELSE UNCHANGED <<pending, step, target>>
    /\ UNCHANGED <<registers, freq, dma>>

(* An unmatched call at zero changes nothing. *)
CpuUnboost ==
    /\ step = "idle"
    /\ boost' = IF boost > 0 THEN boost - 1 ELSE 0
    /\ IF boost = 1 THEN SetCpuFrequency(CPUFREQ_NORMAL)
                    ELSE UNCHANGED <<pending, step, target>>
    /\ UNCHANGED <<registers, freq, dma>>

DmaActive ==
    /\ step = "idle"
    /\ dma' = TRUE
    /\ UNCHANGED <<registers, freq, boost, pending, step, target>>

(* The deferred switch is replayed when the stream stops. *)
DmaInactive ==
    /\ step = "idle"
    /\ dma' = FALSE
    /\ pending' = 0
    /\ IF pending # 0 THEN step' = "power" /\ target' = pending
                      ELSE UNCHANGED <<step, target>>
    /\ UNCHANGED <<registers, freq, boost>>

-----------------------------------------------------------------------------
(* Entered from the loader: the static state is zero, and the registers are *)
(* whatever was left, as long as they were good enough to run on; clock_init*)
(* is the first call.                                                       *)
Sound ==
    source = "pll" => /\ locked
                      /\ pll # 0
                      /\ timing = OperatingTiming(pll)

Init ==
    /\ source \in {"xtal", "pll"}
    /\ timing \in {"slow", "fast"}
    /\ pll \in {0, CPUFREQ_NORMAL, CPUFREQ_MAX}
    /\ locked \in BOOLEAN
    /\ Sound
    /\ source = "xtal" => timing = "slow"
    /\ freq = CPUFREQ_DEFAULT
    /\ boost = 0
    /\ dma = FALSE
    /\ pending = 0
    /\ step = "power"
    /\ target = CPUFREQ_NORMAL

Next ==
    \/ SwitchStep
    \/ boost < MaxBoost /\ CpuBoost
    \/ CpuUnboost
    \/ DmaActive \/ DmaInactive

Spec == Init /\ [][Next]_vars

-----------------------------------------------------------------------------
(* The core and the SDRAM bus are never clocked by a PLL that is unlocked,  *)
(* unprogrammed or too fast for the bus timing in force, at any write of    *)
(* any switch, whichever state it starts from.                              *)
BusSound == Sound

(* cpu_frequency() reports what the core runs at, after a failed lock and   *)
(* after a refused switch too.  (backlight.c scales its delays by it.)      *)
FreqTrue ==
    step = "idle" =>
        freq = IF source = "pll" THEN pll ELSE CPUFREQ_DEFAULT

(* A refused switch is deferred, never dropped or overtaken: between calls  *)
(* the core runs at what the boost count asks for (or on the crystal, the   *)
(* PLL having failed), or the stream holds it and exactly that is pending.  *)
LatestRequestKept ==
    step = "idle" =>
        \/ pending = 0 /\ freq \in {Wanted, CPUFREQ_DEFAULT}
        \/ dma /\ pending = Wanted

(* No register of the clock tree moves while the DMA reads SDRAM.           *)
FrozenUnderDma == [][dma => UNCHANGED registers]_vars

-----------------------------------------------------------------------------
(* The inductive invariant: what each step of the sequence has established. *)
SwitchUnderWay ==
    step # "idle" => ~dma /\ pending = 0 /\ target = Wanted

OnCrystal ==
    step \in {"relax", "program", "spin", "timing", "route"} => source = "xtal"

Prepared ==
    /\ step \in {"spin", "timing", "route"} => pll = target
    /\ step \in {"timing", "route"} => locked
    /\ step = "route" => timing = OperatingTiming(target)

IndInv ==
    /\ TypeOK
    /\ SwitchUnderWay
    /\ OnCrystal
    /\ Prepared
    /\ BusSound
    /\ FreqTrue
    /\ LatestRequestKept
=============================================================================
