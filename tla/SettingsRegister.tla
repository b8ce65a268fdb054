-------------------------- MODULE SettingsRegister --------------------------
(***************************************************************************)
(* What kernel/config.c promises the rest of the firmware, with no disk in *)
(* it: one settings value that survives power loss.  A save that is        *)
(* acknowledged is what the next boot loads; a save that failed, or that a *)
(* power cut interrupted, leaves either the old value or the new one, and  *)
(* once a boot has loaded one of them it is the only one.                  *)
(***************************************************************************)
CONSTANTS Values,    \* settings values
          Idle       \* no save in progress

VARIABLES may,       \* the values the next boot may load
          loaded,    \* the value the last boot loaded
          saving     \* the value being saved, or Idle

Init == \E v \in Values : may = {v} /\ loaded = v /\ saving = Idle

Begin(v) ==                        \* the new value may become visible from here
    /\ saving = Idle
    /\ saving' = v
    /\ may' = may \cup {v}
    /\ UNCHANGED loaded

Acknowledge ==
    /\ saving # Idle
    /\ may' = {saving}
    /\ saving' = Idle
    /\ UNCHANGED loaded

GiveUp ==                          \* an error return, or the power fails
    /\ saving # Idle
    /\ saving' = Idle
    /\ UNCHANGED <<may, loaded>>

Boot ==
    /\ saving = Idle
    /\ loaded' \in may
    /\ may' = {loaded'}
    /\ UNCHANGED saving

Replace ==                         \* the host recreates the file
    /\ saving = Idle
    /\ \E v \in Values : may' = {v}
    /\ UNCHANGED <<loaded, saving>>

Next ==
    \/ \E v \in Values : Begin(v)
    \/ Acknowledge \/ GiveUp \/ Boot \/ Replace

Spec == Init /\ [][Next]_<<may, loaded, saving>>
=============================================================================
