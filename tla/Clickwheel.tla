---- MODULE Clickwheel ----
(***************************************************************************)
(* The click wheel driver, core/hal/hw/clickwheel.c, between its two users:*)
(* the 100 Hz tick, which samples the wheel and latches what it saw        *)
(* (clickwheel_service), and the main loop, which drains the latch once a  *)
(* pass (clickwheel_get_event), and in the loops of suspend_to_ram.        *)
(*                                                                         *)
(* The tick is an interrupt: it runs whole, between any two steps of the   *)
(* main thread.  Turning Hold gates the wheel block's clock; the tick gates*)
(* it back on but leaves the reset and the configuration to the drain.     *)
(*                                                                         *)
(* Abstracted: the status word is the set of buttons that are down and the *)
(* finger's position; a word that fails the header or the range gate is no *)
(* word at all.  An unconfigured block never gives a good one.  s_have_pos *)
(* is s_pos_old # NoFinger.  s_touched and the touched field of an event,  *)
(* which nothing reads, are left out, and so is clickwheel_poll, which the *)
(* firmware does not call.                                                 *)
(***************************************************************************)
EXTENDS Integers, FiniteSetsExt

CONSTANTS
    Buttons,      \* the face buttons
    PlayButton,   \* WHEEL_BTN_PLAY
    Rotation,     \* CW_CLICKS_PER_ROT, 96
    Sensitivity,  \* CW_WHEEL_SENSITIVITY, 4
    AccumMax      \* where the accumulator saturates, 127

ASSUME WheelAssumption ==
    /\ PlayButton \in Buttons
    /\ Rotation \in Nat /\ Rotation % 2 = 0
    /\ Sensitivity \in 1..(Rotation \div 2 - 1)
    /\ AccumMax \in Nat

Half == Rotation \div 2
NoFinger == -1

VARIABLES
    hold, down, finger,     \* the Hold switch, the buttons, the finger's position
    block,                  \* the wheel block: its clock and its configuration
    s_hold_old, s_pos_old, s_btn_prev, s_btn_live,
    s_pending_btn, s_accum_delta, s_hold_edge, s_hold_state, s_need_bringup,
    cw_pc,                  \* the main thread, inside clickwheel_get_event or outside
    place,                  \* the loop it is in
    g_locked,               \* Hold as the main loop last saw it
    unlocking,              \* this pass saw Hold go off
    ev,                     \* the event the last drain returned
    ahead                   \* how far the finger is ahead of the motion reported

world == <<hold, down, finger>>
quadrature == <<s_pos_old, ahead>>
latch == <<s_pending_btn, s_accum_delta, s_hold_edge, s_hold_state>>
thread == <<cw_pc, place, g_locked, unlocking, ev>>
wheelVars == <<world, block, s_hold_old, quadrature, s_btn_prev, s_btn_live, latch, s_need_bringup, thread>>

NoEvent == [some |-> FALSE, buttons |-> {}, wheel_delta |-> 0]

WheelTypeOK ==
    /\ hold \in BOOLEAN /\ down \subseteq Buttons
    /\ finger \in 0..(Rotation - 1) \cup {NoFinger}
    /\ block \in {"gated", "unconfigured", "reset", "released", "ready"}
    /\ s_hold_old \in BOOLEAN
    /\ s_pos_old \in 0..(Rotation - 1) \cup {NoFinger}
    /\ s_btn_prev \subseteq Buttons /\ s_btn_live \subseteq Buttons
    /\ s_pending_btn \subseteq Buttons
    /\ s_accum_delta \in -AccumMax..AccumMax
    /\ s_hold_edge \in BOOLEAN /\ s_hold_state \in BOOLEAN /\ s_need_bringup \in BOOLEAN
    /\ cw_pc \in {"look", "claim", "reset", "release", "config", "snapshot", "handle"}
    /\ place \in {"awake", "trigger", "asleep", "swallow", "leaving"}
    /\ g_locked \in BOOLEAN /\ unlocking \in BOOLEAN
    /\ ev \in [some : BOOLEAN, buttons : SUBSET Buttons, wheel_delta : -AccumMax..AccumMax]
    /\ ahead \in (1 - Half)..Half

(* clickwheel_init: the block is brought up unless Hold is already on.      *)
WheelInit ==
    /\ hold \in BOOLEAN /\ down = {} /\ finger = NoFinger
    /\ block = IF hold THEN "gated" ELSE "ready"
    /\ s_hold_old = hold /\ s_hold_state = hold
    /\ s_pos_old = NoFinger /\ ahead = 0
    /\ s_btn_prev = {} /\ s_btn_live = {}
    /\ s_pending_btn = {} /\ s_accum_delta = 0
    /\ s_hold_edge = FALSE /\ s_need_bringup = FALSE
    /\ cw_pc = "look" /\ place = "awake" /\ g_locked = hold
    /\ unlocking = FALSE /\ ev = NoEvent

-----------------------------------------------------------------------------
(* The hand on the device.  Between two samples Hold is not flipped twice,  *)
(* and a finger that leaves the wheel is not back on it.                    *)
FlipHold ==
    /\ hold = s_hold_old
    /\ hold' = ~hold
    /\ UNCHANGED <<down, finger, block, s_hold_old, quadrature, s_btn_prev, s_btn_live, latch, s_need_bringup, thread>>

PressOrLetGo(b) ==
    /\ down' = IF b \in down THEN down \ {b} ELSE down \cup {b}
    /\ UNCHANGED <<hold, finger, block, s_hold_old, quadrature, s_btn_prev, s_btn_live, latch, s_need_bringup, thread>>

Touch ==
    /\ finger = NoFinger /\ s_pos_old = NoFinger
    /\ finger' \in 0..(Rotation - 1)
    /\ UNCHANGED <<hold, down, block, s_hold_old, quadrature, s_btn_prev, s_btn_live, latch, s_need_bringup, thread>>

(* The driver cannot tell a turn of half a rotation or more from a shorter  *)
(* one the other way: between two good samples the finger turns less.       *)
Turn(d) ==
    /\ finger # NoFinger
    /\ finger' = (finger + d) % Rotation
    /\ IF s_pos_old # NoFinger THEN ahead + d \in (1 - Half)..Half /\ ahead' = ahead + d
                               ELSE ahead' = ahead
    /\ UNCHANGED <<hold, down, block, s_hold_old, s_pos_old, s_btn_prev, s_btn_live, latch, s_need_bringup, thread>>

Lift ==
    /\ finger # NoFinger
    /\ finger' = NoFinger
    /\ UNCHANGED <<hold, down, block, s_hold_old, quadrature, s_btn_prev, s_btn_live, latch, s_need_bringup, thread>>

-----------------------------------------------------------------------------
(* clickwheel_service, on every tick.                                       *)

(* Hold was flipped: gate the clock, and drop everything sampled so far.    *)
ServiceHoldEdge ==
    /\ hold # s_hold_old
    /\ s_hold_old' = hold
    /\ block' = IF hold THEN "gated" ELSE "unconfigured"
    /\ s_need_bringup' = ~hold
    /\ s_pos_old' = NoFinger /\ ahead' = 0
    /\ s_btn_prev' = {} /\ s_pending_btn' = {} /\ s_accum_delta' = 0 /\ s_btn_live' = {}
    /\ s_hold_state' = hold /\ s_hold_edge' = TRUE
    /\ UNCHANGED <<world, thread>>

Samples == hold = s_hold_old /\ ~hold /\ ~s_need_bringup

(* A difference of positions, folded into (-half, +half].  Mistake, once    *)
(* made: both half turns are left as they are.                              *)
StrictFold(d) ==
    IF d > Half THEN d - Rotation ELSE IF d < -Half THEN d + Rotation ELSE d
Fold(d) ==
    IF d > Half THEN d - Rotation ELSE IF d <= -Half THEN d + Rotation ELSE d

AccumAdd(acc, delta) == Max({-AccumMax, Min({AccumMax, acc + delta})})

(* cw_read_sample's quadrature: the reference moves only when a step is     *)
(* reported, so that slow motion adds up.  It gives the reported step.      *)
Quadrature(delta) ==
    LET from == IF s_pos_old = NoFinger THEN finger ELSE s_pos_old
        d == Fold(finger - from)
    IN  IF finger = NoFinger
        THEN delta = 0 /\ s_pos_old' = NoFinger /\ ahead' = 0
        ELSE /\ delta = IF d \in (1 - Sensitivity)..(Sensitivity - 1) THEN 0 ELSE d
             /\ s_pos_old' = IF delta = 0 THEN from ELSE finger
             /\ ahead' = ahead - delta

(* A good word: the presses since the last one are latched, the motion is   *)
(* added up.                                                                *)
ServiceSample ==
    /\ Samples /\ block = "ready"
    /\ \E delta \in (-Rotation)..Rotation :
          /\ Quadrature(delta)
          /\ s_accum_delta' = AccumAdd(s_accum_delta, delta)
    /\ s_btn_prev' = down /\ s_btn_live' = down
    /\ s_pending_btn' = s_pending_btn \cup (down \ s_btn_prev)
    /\ UNCHANGED <<world, block, s_hold_old, s_hold_edge, s_hold_state, s_need_bringup, thread>>

(* While Hold is on, before the bring-up, and on a bad word, the tick does  *)
(* nothing.                                                                 *)
ServiceNothing ==
    /\ hold = s_hold_old
    /\ UNCHANGED wheelVars

Service == ServiceHoldEdge \/ ServiceSample \/ ServiceNothing

-----------------------------------------------------------------------------
(* clickwheel_get_event.                                                    *)

(* Claim a bring-up with the tick masked.                                   *)
Claim ==
    /\ cw_pc = "claim"
    /\ s_need_bringup' = FALSE
    /\ cw_pc' = IF s_need_bringup THEN "reset" ELSE "snapshot"
    /\ UNCHANGED <<world, block, s_hold_old, quadrature, s_btn_prev, s_btn_live, latch, place, g_locked, unlocking, ev>>

(* opto_bringup: reset, settle, take the reset away, configure.  On a block *)
(* that has been gated meanwhile it does nothing.                           *)
Bringup(from, to, was, is) ==
    /\ cw_pc = from /\ cw_pc' = to
    /\ block' = IF block \in was THEN is ELSE block
    /\ UNCHANGED <<world, s_hold_old, quadrature, s_btn_prev, s_btn_live, latch, s_need_bringup, place, g_locked, unlocking, ev>>
AssertReset == Bringup("reset", "release", {"unconfigured", "ready"}, "reset")
ReleaseReset == Bringup("release", "config", {"reset"}, "released")
Configure == Bringup("config", "snapshot", {"released"}, "ready")

(* What the snapshot gives the caller: a Hold edge carries no input.        *)
(* Mistake: it carries what was latched.                                    *)
EdgeWithInput ==
    [some |-> s_hold_edge \/ s_pending_btn # {} \/ s_accum_delta # 0,
     buttons |-> s_pending_btn, wheel_delta |-> s_accum_delta]
Drained ==
    IF s_hold_edge THEN [some |-> TRUE, buttons |-> {}, wheel_delta |-> 0]
    ELSE [some |-> s_pending_btn # {} \/ s_accum_delta # 0,
          buttons |-> s_pending_btn, wheel_delta |-> s_accum_delta]

(* Snapshot and clear, with the tick masked.  Outside the main loop, drains *)
(* repeat until there is nothing left.                                      *)
Snapshot ==
    /\ cw_pc = "snapshot"
    /\ ev' = Drained
    /\ s_hold_edge' = FALSE /\ s_pending_btn' = {} /\ s_accum_delta' = 0
    /\ cw_pc' = "handle"
    /\ UNCHANGED <<world, block, s_hold_old, quadrature, s_btn_prev, s_btn_live, s_hold_state, s_need_bringup, place, g_locked, unlocking>>

-----------------------------------------------------------------------------
(* The callers.                                                             *)
driver == <<block, s_hold_old, quadrature, s_btn_prev, s_btn_live, latch, s_need_bringup>>

(* The main loop's Hold-switch edge, read off the GPIO, then its drain.     *)
Look ==
    /\ place = "awake" /\ cw_pc = "look"
    /\ g_locked' = hold
    /\ unlocking' = (g_locked /\ ~hold)
    /\ cw_pc' = IF hold THEN "look" ELSE "claim"
    /\ UNCHANGED <<world, driver, place, ev>>

(* The event is used.  Back to the head of the loop the drain was made in.  *)
Handle ==
    /\ cw_pc = "handle"
    /\ ev' = NoEvent /\ unlocking' = FALSE
    /\ cw_pc' = IF place # "awake" /\ ev.some THEN "claim" ELSE "look"
    /\ place' = IF place = "leaving" /\ ~ev.some THEN "awake" ELSE place
    /\ UNCHANGED <<world, driver, g_locked>>

(* suspend_to_ram: until PLAY is let go, ...                                *)
SuspendToRam ==
    /\ place = "awake" /\ cw_pc = "look"
    /\ ~g_locked /\ PlayButton \in s_btn_live
    /\ place' = "trigger"
    /\ UNCHANGED <<world, driver, cw_pc, g_locked, unlocking, ev>>
TriggerHeld ==
    /\ place = "trigger" /\ cw_pc = "look" /\ PlayButton \in s_btn_live
    /\ cw_pc' = "claim"
    /\ UNCHANGED <<world, driver, place, g_locked, unlocking, ev>>
TriggerReleased ==
    /\ place = "trigger" /\ cw_pc = "look" /\ PlayButton \notin s_btn_live
    /\ place' = "asleep" /\ cw_pc' = "claim"
    /\ UNCHANGED <<world, driver, g_locked, unlocking, ev>>
(* ... until a button is down, draining.  Mistake, once made: not draining. *)
SleepUndrained ==
    /\ place = "asleep" /\ cw_pc = "look" /\ s_btn_live = {}
    /\ UNCHANGED wheelVars
Sleep ==
    /\ place = "asleep" /\ cw_pc = "look" /\ s_btn_live = {}
    /\ cw_pc' = "claim"
    /\ UNCHANGED <<world, driver, place, g_locked, unlocking, ev>>
WakePress ==
    /\ place = "asleep" /\ cw_pc = "look" /\ s_btn_live # {}
    /\ place' = "swallow"
    /\ UNCHANGED <<world, driver, cw_pc, g_locked, unlocking, ev>>
(* ... until it is let go, and a last drain.                                *)
WakeRelease ==
    /\ place = "swallow" /\ cw_pc = "look" /\ s_btn_live = {}
    /\ place' = "leaving" /\ cw_pc' = "claim"
    /\ UNCHANGED <<world, driver, g_locked, unlocking, ev>>

Main ==
    \/ Look \/ Claim \/ AssertReset \/ ReleaseReset \/ Configure \/ Snapshot \/ Handle
    \/ SuspendToRam \/ TriggerHeld \/ TriggerReleased \/ Sleep \/ WakePress \/ WakeRelease

Hand ==
    \/ FlipHold \/ Touch \/ Lift
    \/ \E b \in Buttons : PressOrLetGo(b)
    \/ \E d \in {-1, 1} : Turn(d)

WheelNext == Hand \/ Service \/ Main

(* The tick comes every 10 ms, good words keep coming from a configured     *)
(* block, and every call of the main thread returns.                        *)
Fairness == WF_wheelVars(ServiceHoldEdge) /\ SF_wheelVars(ServiceSample) /\ WF_wheelVars(Main)

WheelSpec == WheelInit /\ [][WheelNext]_wheelVars /\ Fairness

-----------------------------------------------------------------------------
\* No motion is made up or lost: after every sample the steps reported since
\* the finger came down add up to the way it has gone, short of less than the
\* sensitivity, whichever way it turned, across the wrap and through bad words
\* (cw_read_sample).
MotionConserved ==
    [][ServiceSample => ahead' \in (1 - Sensitivity)..(Sensitivity - 1)]_wheelVars

\* The drain of the pass that unlocks carries no input, wherever the tick and
\* a bring-up fall between the loop's own reading of the switch and the drain:
\* nothing pressed under Hold, and nothing left from before it, acts on the
\* screen (clickwheel_get_event, run_ui).
UnlockCarriesNothing ==
    cw_pc = "handle" /\ unlocking => ev.buttons = {} /\ ev.wheel_delta = 0

\* What the main thread drains is of its type, clamped where the code clamps
\* it, and never input from under Hold.
DrainSound == WheelTypeOK /\ UnlockCarriesNothing

\* A button kept down with Hold off becomes visible to clickwheel_buttons(),
\* in the main loop and in the loops of a suspended device, however Hold was
\* flipped before: the bring-up the tick defers is never left undone.  It is
\* what wakes the device.
PressIsSeen ==
    \A b \in Buttons :
        b \in down /\ ~hold ~> b \in s_btn_live \/ b \notin down \/ hold
====
