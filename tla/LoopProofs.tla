----------------------------- MODULE LoopProofs -----------------------------
(***************************************************************************)
(* Proofs about the main loop: its duties (Duty), for any set of tracks,   *)
(* any delays and any size of the disk buffer, the drain of the click      *)
(* wheel (Clickwheel), for any wheel and any set of buttons, and the list  *)
(* of albums with its covers (AlbumList), for any lists, any albums and    *)
(* any rows that have ways enough.  Each part has the inductive invariant  *)
(* of its own module, IndInv, WheelInv and ListInv.                        *)
(***************************************************************************)
EXTENDS Duty, Clickwheel, AlbumList, ModLemmas, FiniteSetTheorems

-----------------------------------------------------------------------------
(* The duties. *)

(* A device that was playing when it went to sleep is paused while asleep.  *)
Remembered == pc = "asleep" /\ was.playing => tr.mode = "pause"

(* What is active when the input is read has been active at the edges       *)
(* before it; nobody starts anything between the two.                       *)
SeenByInput == pc \in {"input", "asleep"} /\ Active(tr) => was.active

(* A queue that has come to its end is not active; until the loop has seen  *)
(* it stop the end is still counted, and afterwards its place is gone.      *)
EndPending == over => ~Active(tr) /\ IF was.active THEN ended ELSE ram.loc = None

IndInv == TypeOK /\ CleanIsSaved /\ Remembered /\ SeenByInput /\ EndPending

(* The types, by name. *)
Ram == [resume : BOOLEAN, loc : Tracks \cup {None}, dirty : BOOLEAN, age : 0 .. Debounce]
Record == [resume : BOOLEAN, loc : Tracks \cup {None}]
Transport == [mode : {"play", "pause"}, track : Tracks] \cup {Stopped}
Drive == {d \in [up : BOOLEAN, flag : BOOLEAN, knows : BOOLEAN] : ~d.flag => d.up}

-----------------------------------------------------------------------------
(* What the pieces of the model return.                                     *)

\* settings_touch marks the settings and nothing else.
LEMMA TouchedFacts ==
    ASSUME NEW c \in Ram
    PROVE  /\ Touched(c) \in Ram
           /\ Touched(c).dirty /\ Touched(c).loc = c.loc
<1>1. 0 \in 0 .. Debounce
  BY DutyAssumption
<1> QED
  BY <1>1 DEF Touched, Ram

LEMMA PlacedFacts ==
    ASSUME NEW c \in Ram, NEW l \in Tracks \cup {None}
    PROVE  [c EXCEPT !.loc = l] \in Ram /\ [c EXCEPT !.loc = l].loc = l
  BY DEF Ram

\* A place that is dropped is marked as a change, if there was one.
LEMMA DroppedFacts ==
    ASSUME NEW c \in Ram
    PROVE  /\ Dropped(c) \in Ram /\ Dropped(c).loc = None
           /\ ~Dropped(c).dirty => Dropped(c) = c
<1> DEFINE d == [c EXCEPT !.loc = None]
<1>1. d \in Ram /\ d.loc = None
  BY PlacedFacts
<1> HIDE DEF d
<1>2. Touched(d) \in Ram /\ Touched(d).dirty /\ Touched(d).loc = None
  BY <1>1, TouchedFacts
<1> QED
  BY <1>2 DEF Dropped, d

\* resume_capture marks what it changes, and takes no place of a transport
\* that is not active.
LEMMA CapturedFacts ==
    ASSUME NEW c \in Ram, NEW t \in Transport
    PROVE  /\ Captured(c, t) \in Ram
           /\ ~Captured(c, t).dirty => Captured(c, t) = c
           /\ ~Active(t) /\ c.loc = None => Captured(c, t).loc = None
<1>1. CASE ~c.resume
  BY <1>1, DroppedFacts DEF Captured
<1>2. CASE c.resume /\ (~Active(t) \/ t.track = c.loc)
  BY <1>2 DEF Captured
<1>3. CASE c.resume /\ Active(t) /\ t.track # c.loc
  <2> DEFINE d == [c EXCEPT !.loc = t.track]
  <2>1. t.track \in Tracks
    BY <1>3 DEF Transport, Active, Stopped
  <2>2. d \in Ram
    BY <2>1, PlacedFacts
  <2> HIDE DEF d
  <2>3. Touched(d) \in Ram /\ Touched(d).dirty
    BY <2>2, TouchedFacts
  <2> QED
    BY <1>3, <2>3 DEF Captured, d
<1> QED
  BY <1>1, <1>2, <1>3

\* The platters turn after every access, and STANDBY raises the flag with
\* what it does.
LEMMA DriveFacts ==
    ASSUME NEW d \in Drive
    PROVE  /\ Reads(d) \in Drive /\ Wrote(d) \in Drive
           /\ Standby(d) \subseteq Drive
           /\ \A b \in BOOLEAN : [d EXCEPT !.knows = b] \in Drive
           /\ \A b : Parked(b, d) \subseteq Drive
<1>1. Reads(d) \in Drive /\ Wrote(d) \in Drive
  BY DEF Drive, Reads, Wrote
<1>2. Standby(d) \subseteq Drive
  BY DEF Drive, Standby
<1>3. \A e \in Drive : \A b \in BOOLEAN : [e EXCEPT !.knows = b] \in Drive
  BY DEF Drive
<1>4. ASSUME NEW b PROVE Parked(b, d) \subseteq Drive
  BY <1>2, <1>3 DEF Parked
<1> QED
  BY <1>1, <1>2, <1>3, <1>4

\* settings_commit: what it leaves clean is what the record holds, unless the
\* save failed; a place is neither made nor dropped.
LEMMA CommittedFacts ==
    ASSUME NEW c \in Ram, NEW t, NEW force \in BOOLEAN, NEW s \in Committed(c, t, force),
           disk \in Record, lost \in BOOLEAN, drive \in Drive,
           ~c.dirty /\ ~lost => disk = Content(c)
    PROVE  /\ s.ram \in Ram /\ s.disk \in Record /\ s.lost \in BOOLEAN /\ s.drive \in Drive
           /\ s.ram.loc = c.loc
           /\ ~s.ram.dirty /\ ~s.lost => s.disk = Content(s.ram)
<1> DEFINE clean == [c EXCEPT !.dirty = FALSE]
<1>1. clean \in Ram /\ clean.loc = c.loc /\ Content(clean) = Content(c) /\ Content(c) \in Record
  BY DEF Ram, Record, Content
<1>2. Wrote(drive) \in Drive
  BY DriveFacts
<1>3. CASE s = [ram |-> c, disk |-> disk, lost |-> lost, drive |-> drive]
  BY <1>3 DEF Drive
<1>4. CASE s = [ram |-> clean, disk |-> Content(c), lost |-> FALSE, drive |-> Wrote(drive)]
  BY <1>1, <1>2, <1>4
<1>5. CASE \E d \in {drive, Wrote(drive)} :
              s = [ram |-> clean, disk |-> disk, lost |-> TRUE, drive |-> d]
  <2> HIDE DEF clean
  <2>1. PICK d \in {drive, Wrote(drive)} :
            s = [ram |-> clean, disk |-> disk, lost |-> TRUE, drive |-> d]
    BY <1>5
  <2> QED
    BY <1>1, <1>2, <2>1
<1> HIDE DEF clean
<1> QED
  BY <1>3, <1>4, <1>5 DEF Committed, clean

-----------------------------------------------------------------------------
LEMMA InitIndInv == Init => IndInv
<1> SUFFICES ASSUME Init PROVE IndInv
  OBVIOUS
<1>1. 0 \in 0 .. Debounce /\ 0 \in 0 .. High /\ 0 \in 0 .. IdleTime
  BY DutyAssumption
<1>2. TypeOK
  BY <1>1 DEF Init, TypeOK, Fresh
<1> QED
  BY <1>2 DEF Init, IndInv, CleanIsSaved, Content, Remembered, SeenByInput, EndPending, Active, Stopped

\* What every step may use of the types.
LEMMA Types ==
    TypeOK => /\ tr \in Transport /\ ram \in Ram /\ disk \in Record /\ drive \in Drive
              /\ was \in [active : BOOLEAN, paused : BOOLEAN, playing : BOOLEAN]
              /\ Fresh \in [filling : BOOLEAN, ahead : 0 .. High]
              /\ 0 \in 0 .. IdleTime /\ Stopped \in Transport /\ ~Active(Stopped)
<1>1. 0 \in 0 .. High /\ 0 \in 0 .. IdleTime
  BY DutyAssumption
<1> QED
  BY <1>1 DEF TypeOK, Transport, Ram, Record, Drive, Fresh, Stopped, Active

\* The same, to be shown of the next state.
LEMMA TypesNext ==
    ASSUME tr' \in Transport, ram' \in Ram, disk' \in Record, drive' \in Drive,
           was' \in [active : BOOLEAN, paused : BOOLEAN, playing : BOOLEAN],
           buf' \in [filling : BOOLEAN, ahead : 0 .. High], idle' \in 0 .. IdleTime,
           pc' \in {"pump", "edges", "input", "duty", "asleep", "off"},
           opened' \in BOOLEAN, ended' \in BOOLEAN, lost' \in BOOLEAN, over' \in BOOLEAN
    PROVE  TypeOK'
  BY DEF TypeOK, Transport, Ram, Record, Drive

\* Steps that save nothing, with the settings and the record as they were.
LEMMA PlayerStepIndInv ==
    ASSUME IndInv, UNCHANGED <<was, ram, disk, lost>>,
           \/ \E t \in Tracks : Advance(t)
           \/ QueueEnds \/ ReadError \/ Decode \/ Pump
    PROVE  IndInv'
<1> USE Types DEF IndInv, Playing, player
<1>a. UNCHANGED <<was, ram, disk, lost>> => CleanIsSaved'
  BY DEF CleanIsSaved, Content
<1>1. CASE \E t \in Tracks : Advance(t)
  <2>1. PICK t \in Tracks : Advance(t)
    BY <1>1
  <2>2. tr' = [mode |-> "play", track |-> t]
    BY <2>1 DEF Advance, Transport, Stopped
  <2>3. TypeOK'
    BY <2>1, <2>2, DriveFacts, TypesNext DEF Advance, TypeOK, Transport
  <2> QED
    BY <1>a, <2>1, <2>3 DEF Advance, Remembered, SeenByInput, EndPending
<1>2. CASE QueueEnds
  <2>1. TypeOK'
    BY <1>2, TypesNext DEF QueueEnds, TypeOK
  <2> QED
    BY <1>a, <1>2, <2>1 DEF QueueEnds, Remembered, SeenByInput, EndPending, TypeOK
<1>3. CASE ReadError
  <2>1. TypeOK'
    BY <1>3, TypesNext, DriveFacts DEF ReadError, TypeOK
  <2> QED
    BY <1>a, <1>3, <2>1 DEF ReadError, Remembered, SeenByInput, EndPending, Active
<1>4. CASE Decode
  <2>1. buf' \in [filling : BOOLEAN, ahead : 0 .. High]
    <3>1. buf \in [filling : BOOLEAN, ahead : 0 .. High] /\ High \in Nat
      BY DutyAssumption DEF TypeOK
    <3>2. (IF buf.ahead = 0 THEN 0 ELSE buf.ahead - 1) \in 0 .. High
      BY <3>1
    <3> QED
      BY <1>4, <3>1, <3>2 DEF Decode
  <2>2. TypeOK'
    BY <1>4, <2>1, TypesNext, DriveFacts DEF Decode, TypeOK
  <2> QED
    BY <1>a, <1>4, <2>2 DEF Decode, Remembered, SeenByInput, EndPending
<1>5. CASE Pump
  <2>1. Pumped.buf \in [filling : BOOLEAN, ahead : 0 .. High] /\ Pumped.drive \in Drive
    <3>1. Reads(drive) \in Drive
      BY DriveFacts
    <3>2. [Reads(drive) EXCEPT !.knows = FALSE] \in Drive /\ [drive EXCEPT !.knows = FALSE] \in Drive
      BY <3>1, DriveFacts
    <3>3. /\ [buf EXCEPT !.filling = FALSE] \in [filling : BOOLEAN, ahead : 0 .. High]
          /\ buf.ahead < High => [filling |-> TRUE, ahead |-> buf.ahead + 1]
                                    \in [filling : BOOLEAN, ahead : 0 .. High]
      <4>1. buf \in [filling : BOOLEAN, ahead : 0 .. High] /\ High \in Nat
        BY DutyAssumption DEF TypeOK
      <4>2. buf.ahead < High => buf.ahead + 1 \in 0 .. High
        BY <4>1
      <4> QED
        BY <4>1, <4>2
    <3>4. buf.ahead = 0 => buf.ahead < High
      BY DutyAssumption
    <3> QED
      BY <3>2, <3>3, <3>4 DEF Pumped
  <2>2. CASE PumpServes
    <3>1. drive' \in Drive
      BY <2>1, <2>2, DriveFacts DEF PumpServes
    <3>2. TypeOK'
      BY <2>1, <2>2, <3>1, TypesNext DEF PumpServes, TypeOK
    <3> QED
      BY <1>a, <2>2, <3>2 DEF PumpServes, Remembered, SeenByInput, EndPending
  <2>3. CASE PumpHolds
    <3>1. [drive EXCEPT !.knows = @ /\ ~buf.filling] \in Drive
      BY DEF TypeOK, Drive
    <3>2. drive' \in Drive
      BY <2>3, <3>1, DriveFacts DEF PumpHolds
    <3>3. TypeOK'
      BY <2>3, <3>2, TypesNext DEF PumpHolds, TypeOK
    <3> QED
      BY <1>a, <2>3, <3>3 DEF PumpHolds, Remembered, SeenByInput, EndPending
  <2>4. CASE PumpNothing
    <3>1. TypeOK'
      BY <2>4, TypesNext DEF PumpNothing, TypeOK
    <3> QED
      BY <1>a, <2>4, <3>1 DEF PumpNothing, Remembered, SeenByInput, EndPending
  <2> QED
    BY <1>5, <2>2, <2>3, <2>4 DEF Pump
<1> QED
  BY <1>1, <1>2, <1>3, <1>4, <1>5

\* The edges: what they change of the settings is marked, and the place of a
\* queue that has ended goes when it is seen to have stopped.
LEMMA EdgesIndInv == IndInv /\ Edges => IndInv'
<1> SUFFICES ASSUME IndInv, Edges PROVE IndInv'
  OBVIOUS
<1> USE Types DEF IndInv
<1> DEFINE edge == Active(tr) # was.active \/ opened \/ (tr.mode = "pause") # was.paused
           kept == IF edge THEN Captured(ram, tr) ELSE ram
           stops == was.active /\ ~Active(tr)
<1>1. /\ kept \in Ram /\ (~kept.dirty => kept = ram)
      /\ ~Active(tr) /\ ram.loc = None => kept.loc = None
  BY CapturedFacts
<1>2. /\ Dropped(kept) \in Ram /\ Dropped(kept).loc = None
      /\ ~Dropped(kept).dirty => Dropped(kept) = kept
  BY <1>1, DroppedFacts
<1>3. /\ ram' = IF stops /\ ended THEN Dropped(kept) ELSE kept
      /\ opened' = FALSE /\ ended' = (ended /\ ~stops)
      /\ was' = [was EXCEPT !.active = Active(tr), !.paused = tr.mode = "pause"]
      /\ pc' = "input" /\ UNCHANGED <<tr, over, disk, lost, drive, buf, idle>>
  BY DEF Edges
<1> HIDE DEF kept, edge
<1>4. was' \in [active : BOOLEAN, paused : BOOLEAN, playing : BOOLEAN] /\ was'.active = Active(tr)
  BY <1>3 DEF Active
<1>5. ram' \in Ram /\ (~ram'.dirty => ram' = ram)
  BY <1>1, <1>2, <1>3
<1>6. TypeOK'
  BY <1>3, <1>4, <1>5, TypesNext DEF TypeOK
<1>7. CleanIsSaved'
  BY <1>3, <1>5 DEF CleanIsSaved, Content
<1>8. EndPending'
  BY <1>1, <1>2, <1>3, <1>4 DEF EndPending, Active
<1> QED
  BY <1>3, <1>4, <1>6, <1>7, <1>8 DEF Remembered, SeenByInput, Active

\* Input that leaves the settings alone.
LEMMA InputIndInv ==
    ASSUME IndInv,
           \/ NoInput \/ PlayNothing \/ TogglePause \/ SkipPastEnd \/ DiskMode
           \/ \E t \in Tracks : Play(t) \/ Skip(t)
    PROVE  IndInv'
<1> USE Types DEF IndInv, Screen, Input, player
<1>a. UNCHANGED <<ram, disk, lost>> => CleanIsSaved'
  BY DEF CleanIsSaved, Content
<1>b. Reads(drive) \in Drive
  BY DriveFacts
<1>1. CASE NoInput
  <2>1. TypeOK'
    BY <1>1, TypesNext DEF NoInput, TypeOK
  <2> QED
    BY <1>1, <1>a, <2>1 DEF NoInput, Remembered, SeenByInput, EndPending
<1>2. CASE PlayNothing
  <2>1. TypeOK'
    BY <1>2, <1>b, TypesNext DEF PlayNothing, TypeOK
  <2> QED
    BY <1>2, <1>a, <2>1 DEF PlayNothing, Remembered, SeenByInput, EndPending
<1>3. CASE TogglePause
  <2>1. tr \in [mode : {"play", "pause"}, track : Tracks]
    BY <1>3 DEF TogglePause, Active, Stopped, Transport
  <2>2. tr' \in Transport /\ Active(tr')
    BY <1>3, <2>1 DEF TogglePause, Active, Transport
  <2>3. TypeOK'
    BY <1>3, <2>2, TypesNext DEF TogglePause, TypeOK
  <2> QED
    BY <1>3, <1>a, <2>3 DEF TogglePause, Remembered, SeenByInput, EndPending
<1>4. CASE SkipPastEnd
  <2>1. TypeOK'
    BY <1>4, TypesNext DEF SkipPastEnd, TypeOK
  <2> QED
    BY <1>4, <1>a, <2>1 DEF SkipPastEnd, Remembered, SeenByInput, EndPending
<1>5. CASE DiskMode
  <2>1. TypeOK'
    BY <1>5, TypesNext DEF DiskMode, TypeOK
  <2> QED
    BY <1>5, <1>a, <2>1 DEF DiskMode, Remembered, SeenByInput, EndPending
<1>6. CASE \E t \in Tracks : Play(t) \/ Skip(t)
  <2>1. PICK t \in Tracks : Play(t) \/ Skip(t)
    BY <1>6
  <2>2. CASE Play(t)
    <3>1. tr' \in Transport
      BY <2>2 DEF Play, Transport
    <3>2. TypeOK'
      BY <2>2, <3>1, <1>b, TypesNext DEF Play, TypeOK
    <3> QED
      BY <2>2, <1>a, <3>2 DEF Play, Remembered, SeenByInput, EndPending
  <2>3. CASE Skip(t)
    <3>1. tr' \in Transport /\ Active(tr')
      BY <2>3 DEF Skip, Active, Stopped, Transport
    <3>2. TypeOK'
      BY <2>3, <3>1, <1>b, TypesNext DEF Skip, TypeOK
    <3> QED
      BY <2>3, <1>a, <3>2 DEF Skip, Remembered, SeenByInput, EndPending
  <2> QED
    BY <2>1, <2>2, <2>3
<1> QED
  BY <1>1, <1>2, <1>3, <1>4, <1>5, <1>6

\* Steps that touch or save the settings.
LEMMA SavingIndInv ==
    ASSUME IndInv, ToggleResume \/ LeaveSettings \/ Suspend \/ EnterStandby \/ Duties
    PROVE  IndInv'
<1> USE Types DEF IndInv, Screen, Input, player
<1>a. /\ Captured(ram, tr) \in Ram
      /\ ~Captured(ram, tr).dirty /\ ~lost => disk = Content(Captured(ram, tr))
      /\ ~Active(tr) /\ ram.loc = None => Captured(ram, tr).loc = None
  BY CapturedFacts DEF CleanIsSaved
<1>b. ASSUME NEW c \in Ram, NEW t, NEW force \in BOOLEAN, NEW s \in Committed(c, t, force),
             ~c.dirty /\ ~lost => disk = Content(c)
      PROVE  /\ s.ram \in Ram /\ s.disk \in Record /\ s.lost \in BOOLEAN /\ s.drive \in Drive
             /\ s.ram.loc = c.loc
             /\ ~s.ram.dirty /\ ~s.lost => s.disk = Content(s.ram)
  BY <1>b, CommittedFacts DEF TypeOK
<1>1. CASE ToggleResume
  <2> DEFINE c == [ram EXCEPT !.resume = ~@]
  <2>1. c \in Ram /\ c.loc = ram.loc
    BY DEF Ram
  <2> HIDE DEF c
  <2>2. Touched(c) \in Ram /\ Touched(c).dirty /\ Touched(c).loc = ram.loc
    BY <2>1, TouchedFacts
  <2>3. ram' = Touched(c) /\ UNCHANGED <<player, was, disk, lost, drive, buf>> /\ pc' = "duty" /\ idle' = 0
    BY <1>1 DEF ToggleResume, c
  <2>4. TypeOK'
    BY <2>2, <2>3, TypesNext DEF TypeOK
  <2> QED
    BY <2>2, <2>3, <2>4 DEF CleanIsSaved, Remembered, SeenByInput, EndPending
<1>2. CASE LeaveSettings
  <2>1. PICK s \in Committed(Captured(ram, tr), tr, TRUE) : Takes(s)
    BY <1>2 DEF LeaveSettings
  <2>2. /\ s.ram \in Ram /\ s.disk \in Record /\ s.lost \in BOOLEAN /\ s.drive \in Drive
        /\ s.ram.loc = Captured(ram, tr).loc
        /\ ~s.ram.dirty /\ ~s.lost => s.disk = Content(s.ram)
    BY <1>a, <1>b
  <2>3. TypeOK'
    BY <1>2, <2>1, <2>2, TypesNext DEF LeaveSettings, Takes, TypeOK
  <2> QED
    BY <1>2, <1>a, <2>1, <2>2, <2>3
       DEF LeaveSettings, Takes, CleanIsSaved, Remembered, SeenByInput, EndPending
<1>3. CASE Suspend
  <2>1. PICK s \in Committed(Captured(ram, tr), tr', TRUE) :
            ram' = s.ram /\ disk' = s.disk /\ lost' = s.lost /\ drive' \in Standby(s.drive)
    BY <1>3 DEF Suspend, Committed
  <2>2. /\ s.ram \in Ram /\ s.disk \in Record /\ s.lost \in BOOLEAN /\ s.drive \in Drive
        /\ s.ram.loc = Captured(ram, tr).loc
        /\ ~s.ram.dirty /\ ~s.lost => s.disk = Content(s.ram)
    BY <1>a, <1>b, <2>1
  <2>3. drive' \in Drive
    BY <2>1, <2>2, DriveFacts
  <2>4. tr' \in Transport /\ (Active(tr') <=> Active(tr)) /\ (tr.mode = "play" => tr'.mode = "pause")
    BY <1>3 DEF Suspend, Transport, Active, Stopped
  <2>5. was' = [was EXCEPT !.playing = tr.mode = "play"]
    BY <1>3 DEF Suspend
  <2>6. was' \in [active : BOOLEAN, paused : BOOLEAN, playing : BOOLEAN] /\ was'.active = was.active
        /\ (was'.playing => tr.mode = "play")
    BY <2>5
  <2>7. TypeOK'
    BY <1>3, <2>1, <2>2, <2>3, <2>4, <2>6, TypesNext DEF Suspend, TypeOK
  <2> QED
    BY <1>3, <1>a, <2>1, <2>2, <2>4, <2>6, <2>7
       DEF Suspend, CleanIsSaved, Remembered, SeenByInput, EndPending
<1>4. CASE EnterStandby
  <2>1. PICK s \in Committed(Captured(ram, tr), Stopped, TRUE) : Takes(s)
    BY <1>4 DEF EnterStandby
  <2>2. /\ s.ram \in Ram /\ s.disk \in Record /\ s.lost \in BOOLEAN /\ s.drive \in Drive
        /\ s.ram.loc = Captured(ram, tr).loc
        /\ ~s.ram.dirty /\ ~s.lost => s.disk = Content(s.ram)
    BY <1>a, <1>b
  <2>3. TypeOK'
    BY <1>4, <2>1, <2>2, TypesNext DEF EnterStandby, Takes, TypeOK
  <2> QED
    BY <1>4, <1>a, <2>1, <2>2, <2>3
       DEF EnterStandby, Takes, CleanIsSaved, Remembered, SeenByInput, EndPending
<1>5. CASE Duties
  <2>1. PICK s \in Committed(ram, tr, FALSE) :
            /\ ram' = s.ram /\ disk' = s.disk /\ lost' = s.lost
            /\ drive' \in IF IdlePark(tr, s.drive) THEN Standby(s.drive) ELSE {s.drive}
    BY <1>5 DEF Duties
  <2>2. /\ s.ram \in Ram /\ s.disk \in Record /\ s.lost \in BOOLEAN /\ s.drive \in Drive
        /\ s.ram.loc = ram.loc
        /\ ~s.ram.dirty /\ ~s.lost => s.disk = Content(s.ram)
    BY <1>b DEF CleanIsSaved
  <2>3. drive' \in Drive
    BY <2>1, <2>2, DriveFacts
  <2>4. TypeOK'
    BY <1>5, <2>1, <2>2, <2>3, TypesNext DEF Duties, TypeOK
  <2> QED
    BY <1>5, <2>1, <2>2, <2>4 DEF Duties, CleanIsSaved, Remembered, SeenByInput, EndPending
<1> QED
  BY <1>1, <1>2, <1>3, <1>4, <1>5

\* Sleep, power and time.
LEMMA PowerIndInv ==
    ASSUME IndInv, Wake \/ PowerFails \/ Tick \/ Boot
    PROVE  IndInv'
<1> USE Types DEF IndInv, player
<1>a. UNCHANGED <<ram, disk, lost>> => CleanIsSaved'
  BY DEF CleanIsSaved, Content
<1>1. CASE Wake
  <2>1. tr' \in Transport /\ (Active(tr') => Active(tr))
    BY <1>1 DEF Wake, Remembered, Transport, Active, Stopped
  <2>2. /\ was' \in [active : BOOLEAN, paused : BOOLEAN, playing : BOOLEAN]
        /\ was'.active = was.active /\ ~was'.playing
    BY <1>1 DEF Wake
  <2>3. Reads(drive) \in Drive
    BY DriveFacts
  <2>4. TypeOK'
    BY <1>1, <2>1, <2>2, <2>3, TypesNext DEF Wake, TypeOK
  <2> QED
    BY <1>1, <1>a, <2>1, <2>2, <2>4 DEF Wake, Remembered, SeenByInput, EndPending
<1>2. CASE PowerFails
  <2>1. TypeOK'
    BY <1>2, TypesNext DEF PowerFails, TypeOK
  <2> QED
    BY <1>2, <1>a, <2>1 DEF PowerFails, Remembered, SeenByInput, EndPending
<1>3. CASE Tick
  <2>1. \A b \in Nat : \A x \in 0 .. b : Later(x, b) \in 0 .. b
    BY DEF Later
  <2>2. ram.age \in 0 .. Debounce /\ idle \in 0 .. IdleTime /\ Debounce \in Nat /\ IdleTime \in Nat
    BY DutyAssumption DEF TypeOK
  <2>3. Later(ram.age, Debounce) \in 0 .. Debounce /\ idle' \in 0 .. IdleTime
    BY <1>3, <2>1, <2>2 DEF Tick
  <2> DEFINE aged == Later(ram.age, Debounce)
  <2>4. ram' = [ram EXCEPT !.age = aged] /\ UNCHANGED <<pc, player, was, disk, lost, drive, buf>>
    BY <1>3 DEF Tick
  <2>5. aged \in 0 .. Debounce
    BY <2>3
  <2> HIDE DEF aged
  <2>6. ram' \in Ram /\ Content(ram') = Content(ram) /\ ram'.dirty = ram.dirty /\ ram'.loc = ram.loc
    BY <2>4, <2>5 DEF Ram, Content
  <2>7. TypeOK'
    BY <2>3, <2>4, <2>6, TypesNext DEF TypeOK
  <2> QED
    BY <2>4, <2>6, <2>7 DEF CleanIsSaved, Remembered, SeenByInput, EndPending
<1>4. CASE Boot
  <2>1. tr' \in Transport
    <3>1. CASE tr' = Stopped
      BY <3>1
    <3>2. CASE tr' # Stopped
      <4>1. PICK t \in {disk.loc} \ {None} : tr' = [mode |-> "pause", track |-> t]
        BY <1>4, <3>2 DEF Boot, Restored
      <4>2. t \in Tracks
        BY <4>1 DEF Record
      <4> QED
        BY <4>1, <4>2 DEF Transport
    <3> QED
      BY <3>1, <3>2
  <2>2. ram' \in Ram /\ Content(ram') = Content(disk)
    <3>1. 0 \in 0 .. Debounce
      BY DutyAssumption
    <3> QED
      BY <1>4, <3>1 DEF Boot, Ram, Record, Content
  <2>3. Content(disk) = disk
    BY DEF Content, Record
  <2>4. was' \in [active : BOOLEAN, paused : BOOLEAN, playing : BOOLEAN] /\ ~was'.playing
    BY <1>4 DEF Boot, Active
  <2>5. drive' \in Drive
    BY <1>4 DEF Boot, Drive
  <2>6. TypeOK'
    BY <1>4, <2>1, <2>2, <2>4, <2>5, TypesNext DEF Boot
  <2> QED
    BY <1>4, <2>2, <2>3, <2>4, <2>6 DEF Boot, CleanIsSaved, Remembered, SeenByInput, EndPending
<1> QED
  BY <1>1, <1>2, <1>3, <1>4

LEMMA StepIndInv == IndInv /\ [Next]_vars => IndInv'
<1> SUFFICES ASSUME IndInv, [Next]_vars PROVE IndInv'
  OBVIOUS
<1>1. CASE (\E t \in Tracks : Advance(t)) \/ QueueEnds \/ ReadError \/ Decode \/ Pump
  <2>1. UNCHANGED <<was, ram, disk, lost>>
    BY <1>1 DEF Advance, QueueEnds, ReadError, Decode, Pump, PumpServes, PumpHolds, PumpNothing
  <2> QED
    BY <1>1, <2>1, PlayerStepIndInv
<1>2. CASE UNCHANGED vars
  <2>1. UNCHANGED <<pc, tr, opened, ended, was, ram, disk, lost, drive, buf, idle, over>>
    BY <1>2 DEF vars, player
  <2> QED
    BY <2>1 DEF IndInv, TypeOK, CleanIsSaved, Content, Remembered, SeenByInput, EndPending, Active
<1> QED
  BY <1>1, <1>2, EdgesIndInv, InputIndInv, SavingIndInv, PowerIndInv DEF Next, UserAction

-----------------------------------------------------------------------------
\* The inductive invariant holds of every behaviour of the main loop, with
\* the order its user, its disk and its battery choose.
THEOREM Invariance == Spec => []IndInv
<1>1. Spec => Init /\ [][Next]_vars
  BY PTL DEF Spec
<1> QED
  BY <1>1, InitIndInv, StepIndInv, PTL

\* Settings with no save pending are the settings of the record, unless a save
\* failed; and the flag of ata_is_parked() is never up over platters that
\* are said to turn.
THEOREM SettingsSound == Spec => []DutySound
<1>1. IndInv => DutySound
  BY DEF IndInv, DutySound
<1> QED
  BY <1>1, Invariance, PTL

\* A queue that was heard to its end is not restored at the next boot.
THEOREM EndForgotten == Spec => []EndIsForgotten
<1>1. IndInv => EndIsForgotten
  BY DEF IndInv, EndIsForgotten, EndPending, CleanIsSaved, Content
<1> QED
  BY <1>1, Invariance, PTL

-----------------------------------------------------------------------------
(* The click wheel. *)

\* Nothing is latched while the tick holds the wheel for locked.  A loop that
\* saw Hold on will find the tick has seen it too, or will see it; so the drain
\* of the pass that unlocks meets a Hold edge, or a latch that is empty.
HoldSound ==
    /\ s_hold_old => s_pending_btn = {} /\ s_accum_delta = 0
    /\ g_locked => cw_pc = "look" /\ (hold \/ s_hold_old \/ s_hold_edge)
    /\ place # "awake" => ~g_locked
    /\ unlocking => cw_pc # "look" /\ (cw_pc # "handle" => s_hold_old \/ s_hold_edge)

\* The finger is ahead of the reference by what has not been reported, up to
\* a whole turn.
Aligned ==
    /\ s_pos_old = NoFinger => ahead = 0
    /\ s_pos_old # NoFinger /\ finger # NoFinger =>
           finger - s_pos_old \in {ahead, ahead - Rotation, ahead + Rotation}

WheelInv == WheelTypeOK /\ UnlockCarriesNothing /\ HoldSound /\ Aligned

-----------------------------------------------------------------------------
\* Half of a rotation, as a number.
LEMMA HalfFacts ==
    /\ Rotation \in Nat /\ Half \in Nat /\ Rotation = 2 * Half /\ Half > 1
    /\ Sensitivity \in Nat /\ Sensitivity > 0 /\ AccumMax \in Nat
<1>1. Rotation \in Nat /\ Rotation % 2 = 0
  BY WheelAssumption
<1>2. Rotation = 2 * Half /\ Half \in Int
  BY <1>1 DEF Half
<1>3. Sensitivity \in 1 .. (Half - 1) /\ AccumMax \in Nat
  BY WheelAssumption DEF Half
<1> QED
  BY <1>1, <1>2, <1>3

\* A turn by one position, on the wheel.
LEMMA TurnFacts ==
    ASSUME NEW p \in 0 .. Rotation - 1, NEW d \in {-1, 1}
    PROVE  /\ (p + d) % Rotation \in 0 .. Rotation - 1
           /\ (p + d) % Rotation \in {p + d, p + d - Rotation, p + d + Rotation}
<1>0. Rotation \in Nat /\ Rotation > 0 /\ p + d \in Int
  BY HalfFacts
<1>1. CASE p + d \in 0 .. Rotation - 1
  BY <1>0, <1>1, ModSmall
<1>2. CASE p + d = -1
  <2>1. (-1 + Rotation * 1) % Rotation = -1 % Rotation
    BY <1>0, ModShift
  <2>2. -1 + Rotation * 1 = Rotation - 1
    BY <1>0
  <2>3. (Rotation - 1) % Rotation = Rotation - 1
    BY <1>0, ModSmall
  <2> QED
    BY <1>0, <1>2, <2>1, <2>2, <2>3
<1>3. CASE p + d = Rotation
  <2>1. (0 + Rotation * 1) % Rotation = 0 % Rotation
    BY <1>0, ModShift
  <2>2. 0 % Rotation = 0
    BY <1>0, ModSmall
  <2> QED
    BY <1>0, <1>3, <2>1, <2>2
<1> QED
  BY <1>0, <1>1, <1>2, <1>3

\* A turn by one position leaves the finger as far ahead of a place on the
\* wheel as it has gone, up to a whole turn.
LEMMA TurnedFacts ==
    ASSUME NEW f \in Int, NEW f2 \in 0 .. Rotation - 1, NEW s \in 0 .. Rotation - 1,
           NEW a \in Int, NEW d \in Int, a + d \in (1 - Half) .. Half,
           f2 \in {f + d, f + d - Rotation, f + d + Rotation},
           f - s \in {a, a - Rotation, a + Rotation}
    PROVE  f2 - s \in {a + d, a + d - Rotation, a + d + Rotation}
<1>0. Rotation \in Int /\ Half \in Int /\ Rotation = 2 * Half /\ Half > 1
  BY HalfFacts
<1>1. f2 \in Int /\ s \in Int /\ 1 - Rotation <= f2 - s /\ f2 - s <= Rotation - 1
  BY <1>0
<1>2. 1 - Half <= a + d /\ a + d <= Half
  BY <1>0
<1>3. f2 = f + d \/ f2 = f + d - Rotation \/ f2 = f + d + Rotation
  OBVIOUS
<1>4. f - s = a \/ f - s = a - Rotation \/ f - s = a + Rotation
  OBVIOUS
<1>5. \/ f2 - s = a + d \/ f2 - s = a + d - Rotation \/ f2 - s = a + d + Rotation
      \/ f2 - s = a + d - 2 * Rotation \/ f2 - s = a + d + 2 * Rotation
  BY <1>0, <1>1, <1>3, <1>4
<1>6. f2 - s # a + d - 2 * Rotation /\ f2 - s # a + d + 2 * Rotation
  BY <1>0, <1>1, <1>2
<1> QED
  BY <1>5, <1>6

\* A difference of two positions is folded into the way the finger went, if
\* that is at most half a turn.
LEMMA FoldFacts ==
    ASSUME NEW a \in (1 - Half) .. Half, NEW d \in {a, a - Rotation, a + Rotation}
    PROVE  Fold(d) = a
BY HalfFacts DEF Fold

\* The accumulator saturates.
LEMMA AccumFacts ==
    ASSUME NEW acc \in Int, NEW delta \in Int
    PROVE  AccumAdd(acc, delta) \in -AccumMax .. AccumMax
<1>1. AccumMax \in Nat
  BY HalfFacts
<1>2. \A a, b \in Int : Min({a, b}) = IF a <= b THEN a ELSE b
  BY DEF Min
<1>3. \A a, b \in Int : Max({a, b}) = IF a >= b THEN a ELSE b
  BY DEF Max
<1> DEFINE m == Min({AccumMax, acc + delta})
<1>4. m \in Int /\ m <= AccumMax
  BY <1>1, <1>2
<1> HIDE DEF m
<1>5. Max({-AccumMax, m}) \in -AccumMax .. AccumMax
  <2>1. -AccumMax \in Int /\ -AccumMax <= AccumMax
    BY <1>1
  <2> QED
    BY <1>1, <1>3, <1>4, <2>1
<1> QED
  BY <1>5 DEF AccumAdd, m

LEMMA InitWheel == WheelInit => WheelInv
<1> SUFFICES ASSUME WheelInit PROVE WheelInv
  OBVIOUS
<1>0. 0 \in (1 - Half) .. Half /\ 0 \in -AccumMax .. AccumMax
  BY HalfFacts
<1>1. WheelTypeOK
  <2>1. ev \in [some : BOOLEAN, buttons : SUBSET Buttons, wheel_delta : -AccumMax .. AccumMax]
    BY <1>0 DEF WheelInit, NoEvent
  <2>2. block \in {"gated", "unconfigured", "reset", "released", "ready"}
    BY DEF WheelInit
  <2> QED
    BY <1>0, <2>1, <2>2 DEF WheelInit, WheelTypeOK
<1>2. UnlockCarriesNothing /\ HoldSound /\ Aligned
  BY DEF WheelInit, UnlockCarriesNothing, HoldSound, Aligned
<1> QED
  BY <1>1, <1>2 DEF WheelInv

\* The hand moves the switch, the buttons and the finger.
LEMMA HandKeeps == WheelInv /\ Hand => WheelInv'
<1> SUFFICES ASSUME WheelInv, Hand PROVE WheelInv'
  OBVIOUS
<1>1. CASE FlipHold
  <2>1. /\ hold = s_hold_old /\ hold' = ~hold
        /\ UNCHANGED <<down, finger, block, s_hold_old, s_pos_old, ahead, s_btn_prev, s_btn_live,
                       s_pending_btn, s_accum_delta, s_hold_edge, s_hold_state, s_need_bringup,
                       cw_pc, place, g_locked, unlocking, ev>>
    BY <1>1 DEF FlipHold, quadrature, latch, thread
  <2>8. WheelTypeOK'
    BY <2>1 DEF WheelInv, WheelTypeOK
  <2>9. UnlockCarriesNothing' /\ HoldSound'
    BY <2>1 DEF WheelInv, WheelTypeOK, UnlockCarriesNothing, HoldSound
  <2>10. Aligned'
    BY <2>1 DEF WheelInv, Aligned
  <2> QED
    BY <2>8, <2>9, <2>10 DEF WheelInv
<1>2. CASE \E b \in Buttons : PressOrLetGo(b)
  <2>1. /\ down \subseteq Buttons => down' \subseteq Buttons
        /\ UNCHANGED <<hold, finger, block, s_hold_old, s_pos_old, ahead, s_btn_prev, s_btn_live,
                       s_pending_btn, s_accum_delta, s_hold_edge, s_hold_state, s_need_bringup,
                       cw_pc, place, g_locked, unlocking, ev>>
    BY <1>2 DEF PressOrLetGo, quadrature, latch, thread
  <2>8. WheelTypeOK'
    BY <2>1 DEF WheelInv, WheelTypeOK
  <2>9. UnlockCarriesNothing' /\ HoldSound'
    BY <2>1 DEF WheelInv, WheelTypeOK, UnlockCarriesNothing, HoldSound
  <2>10. Aligned'
    BY <2>1 DEF WheelInv, Aligned
  <2> QED
    BY <2>8, <2>9, <2>10 DEF WheelInv
<1>3. CASE Touch \/ Lift
  <2>1. /\ finger' \in 0 .. (Rotation - 1) \cup {NoFinger}
        /\ finger' = NoFinger \/ s_pos_old = NoFinger
        /\ UNCHANGED <<hold, down, block, s_hold_old, s_pos_old, ahead, s_btn_prev, s_btn_live,
                       s_pending_btn, s_accum_delta, s_hold_edge, s_hold_state, s_need_bringup,
                       cw_pc, place, g_locked, unlocking, ev>>
    BY <1>3 DEF Touch, Lift, quadrature, latch, thread
  <2>8. WheelTypeOK'
    BY <2>1 DEF WheelInv, WheelTypeOK
  <2>9. UnlockCarriesNothing' /\ HoldSound'
    BY <2>1 DEF WheelInv, WheelTypeOK, UnlockCarriesNothing, HoldSound
  <2>10. Aligned'
    BY <2>1 DEF WheelInv, Aligned
  <2> QED
    BY <2>8, <2>9, <2>10 DEF WheelInv
<1>4. ASSUME NEW d \in {-1, 1}, Turn(d) PROVE WheelInv'
  <2>1. /\ finger # NoFinger /\ finger' = (finger + d) % Rotation
        /\ IF s_pos_old # NoFinger THEN ahead + d \in (1 - Half) .. Half /\ ahead' = ahead + d
                                   ELSE ahead' = ahead
        /\ UNCHANGED <<hold, down, block, s_hold_old, s_pos_old, s_btn_prev, s_btn_live,
                       s_pending_btn, s_accum_delta, s_hold_edge, s_hold_state, s_need_bringup,
                       cw_pc, place, g_locked, unlocking, ev>>
    BY <1>4 DEF Turn, latch, thread
  <2>2. finger \in 0 .. Rotation - 1 /\ ahead \in (1 - Half) .. Half
    BY <2>1 DEF WheelInv, WheelTypeOK
  <2>3. /\ finger' \in 0 .. Rotation - 1
        /\ finger' \in {finger + d, finger + d - Rotation, finger + d + Rotation}
    BY <2>1, <2>2, TurnFacts
  <2>4. ahead' \in (1 - Half) .. Half
    BY <2>1, <2>2
  <2>5. WheelTypeOK'
    BY <2>1, <2>3, <2>4 DEF WheelInv, WheelTypeOK
  <2>6. Aligned'
    <3>1. CASE s_pos_old = NoFinger
      BY <2>1, <3>1 DEF WheelInv, Aligned
    <3>2. CASE s_pos_old # NoFinger
      <4>1. /\ s_pos_old \in 0 .. Rotation - 1 /\ s_pos_old' = s_pos_old
            /\ finger - s_pos_old \in {ahead, ahead - Rotation, ahead + Rotation}
        BY <2>1, <3>2 DEF WheelInv, WheelTypeOK, Aligned
      <4>2. ahead' = ahead + d /\ ahead + d \in (1 - Half) .. Half
        BY <2>1, <3>2
      <4>5. ahead' = ahead + d
        BY <4>2
      <4>3. finger' - s_pos_old \in {ahead', ahead' - Rotation, ahead' + Rotation}
        <5>1. Rotation \in Nat /\ Half \in Nat /\ Rotation = 2 * Half
          BY HalfFacts
        <5>2. finger \in Int /\ d \in Int /\ ahead \in Int /\ s_pos_old \in Int
          BY <2>2, <4>1, <5>1
        <5>3. ahead + d \in (1 - Half) .. Half
          BY <4>2
        <5>4. ASSUME NEW f2 \in 0 .. Rotation - 1,
                     f2 \in {finger + d, finger + d - Rotation, finger + d + Rotation}
              PROVE  f2 - s_pos_old \in {ahead + d, ahead + d - Rotation, ahead + d + Rotation}
          BY <4>1, <5>2, <5>3, <5>4, TurnedFacts
        <5>5. finger' - s_pos_old \in {ahead + d, ahead + d - Rotation, ahead + d + Rotation}
          BY <2>3, <5>4
        <5> QED
          BY <4>5, <5>1, <5>2, <5>5
      <4> QED
        BY <3>2, <4>1, <4>3 DEF Aligned
    <3> QED
      BY <3>1, <3>2
  <2> QED
    BY <2>1, <2>5, <2>6 DEF WheelInv, UnlockCarriesNothing, HoldSound
<1> QED
  BY <1>1, <1>2, <1>3, <1>4 DEF Hand

\* What a good sample reports of the finger.
LEMMA SampleFacts ==
    ASSUME WheelInv, NEW delta \in (-Rotation) .. Rotation, Quadrature(delta)
    PROVE  /\ s_pos_old' \in 0 .. (Rotation - 1) \cup {NoFinger}
           /\ ahead' \in (1 - Sensitivity) .. (Sensitivity - 1)
           /\ ahead' \in (1 - Half) .. Half
           /\ s_pos_old' = NoFinger => ahead' = 0
           /\ s_pos_old' # NoFinger /\ finger # NoFinger =>
                  finger - s_pos_old' \in {ahead', ahead' - Rotation, ahead' + Rotation}
<1>0. /\ Rotation \in Nat /\ Half \in Nat /\ Rotation = 2 * Half /\ Half > 1
      /\ Sensitivity \in Nat /\ Sensitivity > 0 /\ Sensitivity < Half
  BY HalfFacts, WheelAssumption DEF Half
<1>1. /\ finger \in 0 .. (Rotation - 1) \cup {NoFinger}
      /\ s_pos_old \in 0 .. (Rotation - 1) \cup {NoFinger}
      /\ ahead \in (1 - Half) .. Half
  BY DEF WheelInv, WheelTypeOK
<1>2. CASE finger = NoFinger
  <2>1. s_pos_old' = NoFinger /\ ahead' = 0
    BY <1>2 DEF Quadrature
  <2> QED
    BY <1>0, <1>2, <2>1
<1>3. CASE finger # NoFinger
  <2> DEFINE from == IF s_pos_old = NoFinger THEN finger ELSE s_pos_old
             d == Fold(finger - from)
  <2>1. /\ delta = IF d \in (1 - Sensitivity) .. (Sensitivity - 1) THEN 0 ELSE d
        /\ s_pos_old' = IF delta = 0 THEN from ELSE finger
        /\ ahead' = ahead - delta
    BY <1>3 DEF Quadrature
  <2>2. finger \in 0 .. Rotation - 1 /\ from \in 0 .. Rotation - 1
    BY <1>1, <1>3
  <2>3. finger - from \in {ahead, ahead - Rotation, ahead + Rotation}
    <3>1. CASE s_pos_old = NoFinger
      BY <1>0, <2>2, <3>1 DEF WheelInv, Aligned
    <3>2. CASE s_pos_old # NoFinger
      BY <1>3, <3>2 DEF WheelInv, Aligned
    <3> QED
      BY <3>1, <3>2
  <2>4. d = ahead
    BY <1>1, <2>3, FoldFacts
  <2>5. finger # NoFinger /\ from # NoFinger
    BY <1>0, <2>2 DEF NoFinger
  <2> HIDE DEF d, from
  <2>6. CASE ahead \in (1 - Sensitivity) .. (Sensitivity - 1)
    <3>1. delta = 0 /\ s_pos_old' = from /\ ahead' = ahead
      BY <1>1, <2>1, <2>4, <2>6
    <3> QED
      BY <1>1, <2>2, <2>3, <2>5, <2>6, <3>1
  <2>7. CASE ahead \notin (1 - Sensitivity) .. (Sensitivity - 1)
    <3>1. delta = ahead /\ delta # 0
      BY <1>0, <1>1, <2>1, <2>4, <2>7
    <3>2. s_pos_old' = finger /\ ahead' = 0
      BY <1>1, <2>1, <3>1
    <3>3. finger - s_pos_old' = ahead'
      BY <2>2, <3>2
    <3> QED
      BY <1>0, <2>2, <2>5, <3>2, <3>3
  <2> QED
    BY <2>6, <2>7
<1> QED
  BY <1>2, <1>3

\* The tick: an edge of the Hold switch drops what is latched, a sample adds.
LEMMA ServiceKeeps == WheelInv /\ Service => WheelInv'
<1> SUFFICES ASSUME WheelInv, Service PROVE WheelInv'
  OBVIOUS
<1>1. CASE ServiceHoldEdge
  <2>1. /\ s_hold_old' = hold /\ s_need_bringup' = ~hold /\ s_hold_state' = hold
        /\ block' = IF hold THEN "gated" ELSE "unconfigured"
        /\ s_pos_old' = NoFinger /\ ahead' = 0 /\ s_hold_edge' = TRUE
        /\ s_btn_prev' = {} /\ s_pending_btn' = {} /\ s_accum_delta' = 0 /\ s_btn_live' = {}
        /\ UNCHANGED <<hold, down, finger, cw_pc, place, g_locked, unlocking, ev>>
    BY <1>1 DEF ServiceHoldEdge, world, thread
  <2>2. 0 \in (1 - Half) .. Half /\ 0 \in -AccumMax .. AccumMax
    BY HalfFacts
  <2>3. WheelTypeOK'
    BY <2>1, <2>2 DEF WheelInv, WheelTypeOK
  <2> QED
    BY <2>1, <2>3 DEF WheelInv, UnlockCarriesNothing, HoldSound, Aligned
<1>2. CASE ServiceSample
  <2>1. PICK delta \in (-Rotation) .. Rotation :
           Quadrature(delta) /\ s_accum_delta' = AccumAdd(s_accum_delta, delta)
    BY <1>2 DEF ServiceSample
  <2>2. /\ ~s_hold_old
        /\ s_btn_prev' = down /\ s_btn_live' = down
        /\ s_pending_btn' = s_pending_btn \cup (down \ s_btn_prev)
        /\ UNCHANGED <<hold, down, finger, block, s_hold_old, s_hold_edge, s_hold_state,
                       s_need_bringup, cw_pc, place, g_locked, unlocking, ev>>
    BY <1>2 DEF ServiceSample, Samples, world, thread
  <2>3. s_accum_delta' \in -AccumMax .. AccumMax
    <3>1. s_accum_delta \in Int /\ delta \in Int
      BY HalfFacts DEF WheelInv, WheelTypeOK
    <3> QED
      BY <2>1, <3>1, AccumFacts
  <2>4. WheelTypeOK'
    <3>1. s_pos_old' \in 0 .. (Rotation - 1) \cup {NoFinger} /\ ahead' \in (1 - Half) .. Half
      BY <2>1, SampleFacts
    <3> QED
      BY <2>2, <2>3, <3>1 DEF WheelInv, WheelTypeOK
  <2>5. Aligned'
    BY <2>1, <2>2, SampleFacts DEF Aligned
  <2> QED
    BY <2>2, <2>4, <2>5 DEF WheelInv, UnlockCarriesNothing, HoldSound
<1>3. CASE ServiceNothing
  <2>1. UNCHANGED <<hold, down, finger, block, s_hold_old, s_pos_old, ahead, s_btn_prev, s_btn_live,
                    s_pending_btn, s_accum_delta, s_hold_edge, s_hold_state, s_need_bringup,
                    cw_pc, place, g_locked, unlocking, ev>>
    BY <1>3 DEF ServiceNothing, wheelVars, world, quadrature, latch, thread
  <2>8. WheelTypeOK'
    BY <2>1 DEF WheelInv, WheelTypeOK
  <2>9. UnlockCarriesNothing' /\ HoldSound'
    BY <2>1 DEF WheelInv, WheelTypeOK, UnlockCarriesNothing, HoldSound
  <2>10. Aligned'
    BY <2>1 DEF WheelInv, Aligned
  <2> QED
    BY <2>8, <2>9, <2>10 DEF WheelInv
<1> QED
  BY <1>1, <1>2, <1>3 DEF Service

\* The drain: what it takes in the pass that unlocks is a Hold edge, or nothing.
LEMMA DrainKeeps ==
    ASSUME WheelInv, Claim \/ AssertReset \/ ReleaseReset \/ Configure \/ Snapshot
    PROVE  WheelInv'
<1>1. CASE Claim \/ AssertReset \/ ReleaseReset \/ Configure
  <2>1. /\ cw_pc \in {"claim", "reset", "release", "config"}
        /\ cw_pc' \in {"reset", "release", "config", "snapshot"}
        /\ block' \in {block, "reset", "released", "ready"}
        /\ s_need_bringup' \in BOOLEAN
        /\ UNCHANGED <<hold, down, finger, s_hold_old, s_pos_old, ahead, s_btn_prev, s_btn_live,
                       s_pending_btn, s_accum_delta, s_hold_edge, s_hold_state,
                       place, g_locked, unlocking, ev>>
    BY <1>1 DEF Claim, AssertReset, ReleaseReset, Configure, Bringup, world, quadrature, latch,
                WheelInv, WheelTypeOK
  <2>7. /\ block' \in {"gated", "unconfigured", "reset", "released", "ready"}
        /\ cw_pc' \in {"look", "claim", "reset", "release", "config", "snapshot", "handle"}
    BY <2>1 DEF WheelInv, WheelTypeOK
  <2>8. WheelTypeOK'
    BY <2>1, <2>7 DEF WheelInv, WheelTypeOK
  <2>9. UnlockCarriesNothing' /\ HoldSound'
    BY <2>1 DEF WheelInv, WheelTypeOK, UnlockCarriesNothing, HoldSound
  <2>10. Aligned'
    BY <2>1 DEF WheelInv, Aligned
  <2> QED
    BY <2>8, <2>9, <2>10 DEF WheelInv
<1>2. CASE Snapshot
  <2>1. /\ cw_pc = "snapshot" /\ cw_pc' = "handle" /\ ev' = Drained
        /\ s_hold_edge' = FALSE /\ s_pending_btn' = {} /\ s_accum_delta' = 0
        /\ UNCHANGED <<hold, down, finger, block, s_hold_old, s_pos_old, ahead, s_btn_prev, s_btn_live,
                       s_hold_state, s_need_bringup, place, g_locked, unlocking>>
    BY <1>2 DEF Snapshot, world, quadrature
  <2>2. 0 \in -AccumMax .. AccumMax
    BY HalfFacts
  <2>3. ev' \in [some : BOOLEAN, buttons : SUBSET Buttons, wheel_delta : -AccumMax .. AccumMax]
    BY <2>1, <2>2 DEF Drained, WheelInv, WheelTypeOK
  <2>4. unlocking => ev'.buttons = {} /\ ev'.wheel_delta = 0
    BY <2>1 DEF Drained, WheelInv, HoldSound
  <2>5. WheelTypeOK'
    <3>1. cw_pc' \in {"look", "claim", "reset", "release", "config", "snapshot", "handle"}
      BY <2>1
    <3>2. /\ hold' \in BOOLEAN /\ s_hold_old' \in BOOLEAN /\ s_hold_edge' \in BOOLEAN
          /\ s_hold_state' \in BOOLEAN /\ s_need_bringup' \in BOOLEAN
          /\ g_locked' \in BOOLEAN /\ unlocking' \in BOOLEAN
      BY <2>1 DEF WheelInv, WheelTypeOK
    <3>3. /\ s_pending_btn' \subseteq Buttons /\ s_accum_delta' \in -AccumMax .. AccumMax
      BY <2>1, <2>2
    <3> QED
      BY <2>1, <2>3, <3>1, <3>2, <3>3 DEF WheelInv, WheelTypeOK
  <2> QED
    BY <2>1, <2>4, <2>5 DEF WheelInv, UnlockCarriesNothing, HoldSound, Aligned
<1> QED
  BY <1>1, <1>2

\* The main loop and suspend_to_ram around the drain.
LEMMA CallersKeep ==
    ASSUME WheelInv,
           \/ Look \/ Handle \/ SuspendToRam \/ TriggerHeld \/ TriggerReleased
           \/ Sleep \/ WakePress \/ WakeRelease
    PROVE  WheelInv'
<1>0. UNCHANGED <<hold, down, finger, block, s_hold_old, s_pos_old, ahead, s_btn_prev, s_btn_live,
                  s_pending_btn, s_accum_delta, s_hold_edge, s_hold_state, s_need_bringup>>
  BY DEF Look, Handle, SuspendToRam, TriggerHeld, TriggerReleased, Sleep, WakePress, WakeRelease,
         world, driver, quadrature, latch
<1>1. CASE Look
  <2>1. /\ place = "awake" /\ cw_pc = "look" /\ g_locked' = hold /\ unlocking' = (g_locked /\ ~hold)
        /\ cw_pc' = IF hold THEN "look" ELSE "claim"
        /\ UNCHANGED <<place, ev>>
    BY <1>1 DEF Look
  <2>2. unlocking' \in BOOLEAN /\ g_locked' \in BOOLEAN
    BY <2>1 DEF WheelInv, WheelTypeOK
  <2>3. WheelTypeOK'
    <3>1. cw_pc' \in {"look", "claim", "reset", "release", "config", "snapshot", "handle"}
      BY <2>1
    <3> QED
      BY <1>0, <2>1, <2>2, <3>1 DEF WheelInv, WheelTypeOK
  <2>4. HoldSound'
    BY <1>0, <2>1 DEF WheelInv, HoldSound
  <2> QED
    BY <1>0, <2>1, <2>3, <2>4 DEF WheelInv, UnlockCarriesNothing, Aligned
<1>2. CASE Handle
  <2>1. /\ cw_pc = "handle" /\ ev' = NoEvent /\ unlocking' = FALSE /\ g_locked' = g_locked
        /\ cw_pc' \in {"claim", "look"} /\ place' \in {place, "awake"}
    BY <1>2 DEF Handle
  <2>2. 0 \in -AccumMax .. AccumMax
    BY HalfFacts
  <2>3. WheelTypeOK'
    <3>1. /\ cw_pc' \in {"look", "claim", "reset", "release", "config", "snapshot", "handle"}
          /\ place' \in {"awake", "trigger", "asleep", "swallow", "leaving"}
      BY <2>1 DEF WheelInv, WheelTypeOK
    <3>2. ev' \in [some : BOOLEAN, buttons : SUBSET Buttons, wheel_delta : -AccumMax .. AccumMax]
      BY <2>1, <2>2 DEF NoEvent
    <3> QED
      BY <1>0, <2>1, <3>1, <3>2 DEF WheelInv, WheelTypeOK
  <2> QED
    BY <1>0, <2>1, <2>3 DEF WheelInv, UnlockCarriesNothing, HoldSound, Aligned
<1>3. CASE SuspendToRam \/ TriggerHeld \/ TriggerReleased \/ Sleep \/ WakePress \/ WakeRelease
  <2>1. /\ cw_pc = "look" /\ cw_pc' \in {"look", "claim"}
        /\ place' \in {"trigger", "asleep", "swallow", "leaving"}
        /\ ~g_locked
        /\ UNCHANGED <<g_locked, unlocking, ev>>
    BY <1>3 DEF SuspendToRam, TriggerHeld, TriggerReleased, Sleep, WakePress, WakeRelease,
                WheelInv, HoldSound
  <2>7. /\ cw_pc' \in {"look", "claim", "reset", "release", "config", "snapshot", "handle"}
        /\ place' \in {"awake", "trigger", "asleep", "swallow", "leaving"}
    BY <2>1
  <2>8. WheelTypeOK'
    BY <1>0, <2>1, <2>7 DEF WheelInv, WheelTypeOK
  <2>9. UnlockCarriesNothing' /\ HoldSound'
    BY <1>0, <2>1 DEF WheelInv, WheelTypeOK, UnlockCarriesNothing, HoldSound
  <2>10. Aligned'
    BY <1>0, <2>1 DEF WheelInv, Aligned
  <2> QED
    BY <2>8, <2>9, <2>10 DEF WheelInv
<1> QED
  BY <1>1, <1>2, <1>3

\* Every step keeps the invariant.
LEMMA WheelStep == WheelInv /\ [WheelNext]_wheelVars => WheelInv'
<1> SUFFICES ASSUME WheelInv, [WheelNext]_wheelVars PROVE WheelInv'
  OBVIOUS
<1>1. CASE Hand
  BY <1>1, HandKeeps
<1>2. CASE Service
  BY <1>2, ServiceKeeps
<1>3. CASE Claim \/ AssertReset \/ ReleaseReset \/ Configure \/ Snapshot
  BY <1>3, DrainKeeps
<1>4. CASE \/ Look \/ Handle \/ SuspendToRam \/ TriggerHeld \/ TriggerReleased
           \/ Sleep \/ WakePress \/ WakeRelease
  BY <1>4, CallersKeep
<1>5. CASE UNCHANGED wheelVars
  <2>1. UNCHANGED <<hold, down, finger, block, s_hold_old, s_pos_old, ahead, s_btn_prev, s_btn_live,
                    s_pending_btn, s_accum_delta, s_hold_edge, s_hold_state, s_need_bringup,
                    cw_pc, place, g_locked, unlocking, ev>>
    BY <1>5 DEF wheelVars, world, quadrature, latch, thread
  <2> QED
    BY <2>1 DEF WheelInv, WheelTypeOK, UnlockCarriesNothing, HoldSound, Aligned
<1> QED
  BY <1>1, <1>2, <1>3, <1>4, <1>5 DEF WheelNext, Main

\* The invariant holds in every reachable state, wherever the tick falls
\* between the steps of the main thread (clickwheel_service, clickwheel_get_event).
THEOREM WheelInvariance == WheelSpec => []WheelInv
<1>1. WheelSpec => WheelInit /\ [][WheelNext]_wheelVars
  BY PTL DEF WheelSpec
<1> QED
  BY <1>1, InitWheel, WheelStep, PTL

\* What is drained is of its type, the accumulator saturates, and the drain of
\* the pass that unlocks carries no input (clickwheel_get_event, run_ui).
THEOREM InputIsSound == WheelSpec => []DrainSound
<1>1. WheelInv => DrainSound
  BY DEF WheelInv, DrainSound
<1> QED
  BY <1>1, WheelInvariance, PTL

\* After every sample the steps reported since the finger came down add up to
\* the way it has gone, short of less than the sensitivity (cw_read_sample).
THEOREM MotionAddsUp == WheelSpec => MotionConserved
<1>1. WheelInv /\ ServiceSample => ahead' \in (1 - Sensitivity) .. (Sensitivity - 1)
  BY SampleFacts DEF ServiceSample
<1>2. WheelInv /\ [WheelNext]_wheelVars =>
          [ServiceSample => ahead' \in (1 - Sensitivity) .. (Sensitivity - 1)]_wheelVars
  BY <1>1
<1>3. WheelSpec => WheelInit /\ [][WheelNext]_wheelVars
  BY PTL DEF WheelSpec
<1> QED
  BY <1>2, <1>3, WheelInvariance, PTL DEF MotionConserved

-----------------------------------------------------------------------------
(* The list of albums and its covers. *)

(* The rows there are, the ways, and what a row of the panel may show.      *)
Item == Albums \cup {AllSongs}
Entries == [key : Albums, loaded : BOOLEAN]
RowShows == [item : Item, lit : BOOLEAN, cover : BOOLEAN] \cup {Nothing}

\* A cache with every album in one way at most.
CacheOK(c) ==
    /\ c \in Seq(Entries) /\ Len(c) <= Ways
    /\ \A i, j \in DOMAIN c : c[i].key = c[j].key => i = j

\* The albums of V were drawn last.
Latest(c, V) == \A i, j \in DOMAIN c : i < j /\ c[i].key \in V => c[j].key \in V

\* The rows of a list that a paint shows.
Shown(v, s) == (Top(v, s) + 1) .. Lesser(Top(v, s) + Rows, Len(v))
Items(v, s) == {v[i] : i \in Shown(v, s)}

ListTypeOK ==
    /\ CacheOK(cache) /\ noart \subseteq Albums /\ retried \subseteq Albums
    /\ view \in Views /\ sel \in DOMAIN view /\ on \in BOOLEAN /\ dirty \in BOOLEAN
    /\ panel \in [1 .. Rows -> RowShows]
    /\ painted # Never => painted \in [view : Views, sel : Nat] /\ painted.sel \in DOMAIN painted.view
    /\ stage \in {"render", "chips", "input"}

\* No way is held for an album without a cover, and none given up in vain.
Wanted(c) == \A a \in Keys(c) : a \notin noart /\ HasSidecar(a)
GivenUp ==
    /\ Wanted(cache)
    /\ \A a \in noart : a \in retried \/ Good \notin {Thm[a], Art[a]}

\* The panel shows what was noted of the last paint, whose albums are the
\* latest in the cache, and a list that needs no repaint is that one.
RowIs(shows, v, s, i) == shows # Nothing /\ shows.item = v[i] /\ (shows.lit <=> i = s)
AsPainted ==
    painted # Never =>
        /\ \A i \in Shown(painted.view, painted.sel) :
               RowIs(panel[i - Top(painted.view, painted.sel)], painted.view, painted.sel, i)
        /\ Latest(cache, Items(painted.view, painted.sel))
UpToDate == on /\ ~dirty => painted = [view |-> view, sel |-> sel]

ListInv == ListTypeOK /\ GivenUp /\ AsPainted /\ UpToDate

-----------------------------------------------------------------------------
(* The cache. *)

\* A way of the cache, by its index.
LEMMA EntryFacts ==
    ASSUME NEW c, CacheOK(c)
    PROVE  /\ Len(c) \in Nat /\ DOMAIN c = 1 .. Len(c) /\ Len(c) <= Ways
           /\ \A i \in 1 .. Len(c) : c[i] \in Entries /\ c[i].key \in Albums
           /\ Keys(c) = {c[i].key : i \in 1 .. Len(c)} /\ Keys(c) \subseteq Albums
           /\ \A i, j \in 1 .. Len(c) : c[i].key = c[j].key => i = j
<1>1. c \in Seq(Entries)
  BY DEF CacheOK
<1>2. Len(c) \in Nat /\ DOMAIN c = 1 .. Len(c) /\ \A i \in 1 .. Len(c) : c[i] \in Entries
  BY <1>1
<1> QED
  BY <1>2 DEF CacheOK, Keys, Entries

\* Every album has one way, so there are as many as ways taken.
LEMMA CountFacts ==
    ASSUME NEW c, CacheOK(c)
    PROVE  IsFiniteSet(Keys(c)) /\ Cardinality(Keys(c)) = Len(c)
<1> DEFINE n == Len(c)
           f == [i \in 1 .. n |-> c[i].key]
<1>1. n \in Nat /\ Keys(c) = {c[i].key : i \in 1 .. n}
  BY EntryFacts
<1>2. \A i, j \in 1 .. n : c[i].key = c[j].key => i = j
  BY EntryFacts
<1> HIDE DEF n
<1>3. f \in [1 .. n -> Keys(c)] /\ \A i \in 1 .. n : f[i] = c[i].key
  BY <1>1
<1> HIDE DEF f
<1>4. IsInjective(f)
  <2>1. DOMAIN f = 1 .. n
    BY <1>3
  <2> QED
    BY <1>2, <1>3, <2>1 DEF IsInjective
<1>5. \A k \in Keys(c) : \E i \in 1 .. n : f[i] = k
  BY <1>1, <1>3
<1>6. f \in Bijection(1 .. n, Keys(c))
  BY <1>3, <1>4, <1>5 DEF Bijection, Injection, Surjection
<1>7. ExistsBijection(1 .. n, Keys(c))
  BY <1>6 DEF ExistsBijection
<1>8. Cardinality(Keys(c)) = n
  BY <1>1, <1>7, FS_CountingElements
<1>9. IsFiniteSet(Keys(c))
  BY <1>1, <1>7, FS_NatBijection
<1> QED
  BY <1>8, <1>9 DEF n

\* The way of a resident album.
LEMMA WayFacts ==
    ASSUME NEW c, CacheOK(c), NEW a \in Keys(c)
    PROVE  Way(c, a) \in 1 .. Len(c) /\ c[Way(c, a)].key = a
<1>1. DOMAIN c = 1 .. Len(c) /\ \E i \in DOMAIN c : c[i].key = a
  BY EntryFacts DEF Keys
<1> QED
  BY <1>1 DEF Way

\* Giving a way back leaves the others as they are, in order.
LEMMA WithoutFacts ==
    ASSUME NEW c, CacheOK(c), NEW a \in Keys(c)
    PROVE  /\ CacheOK(Without(c, a)) /\ Len(Without(c, a)) = Len(c) - 1
           /\ Keys(Without(c, a)) = Keys(c) \ {a}
           /\ \A V : Latest(c, V) => Latest(Without(c, a), V)
<1> DEFINE n == Len(c)
           w == Way(c, a)
           d == Without(c, a)
<1>1. /\ n \in Nat /\ n <= Ways /\ DOMAIN c = 1 .. n
      /\ \A i \in 1 .. n : c[i] \in Entries
      /\ \A i, j \in 1 .. n : c[i].key = c[j].key => i = j
      /\ Keys(c) = {c[i].key : i \in 1 .. n}
  BY EntryFacts
<1>2. w \in 1 .. n /\ c[w].key = a
  BY WayFacts
<1>3. d = [j \in 1 .. n - 1 |-> c[IF j < w THEN j ELSE j + 1]]
  BY DEF Without
<1> HIDE DEF n, w, d
<1>4. /\ n - 1 \in Nat /\ DOMAIN d = 1 .. n - 1
      /\ \A j \in 1 .. n - 1 : j < w => j \in 1 .. n /\ d[j] = c[j]
      /\ \A j \in 1 .. n - 1 : ~(j < w) => j + 1 \in 1 .. n /\ d[j] = c[j + 1]
  BY <1>1, <1>2, <1>3
<1>5. d \in Seq(Entries) /\ Len(d) = n - 1
  <2>1. \A j \in 1 .. n - 1 : d[j] \in Entries
    BY <1>1, <1>4
  <2>2. d = [j \in 1 .. n - 1 |-> d[j]]
    BY <1>3, <1>4
  <2>3. d \in [1 .. n - 1 -> Entries]
    BY <2>1, <2>2
  <2> QED
    BY <1>4, <2>3
<1>6. \A i, j \in 1 .. n - 1 : d[i].key = d[j].key => i = j
  <2> TAKE i, j \in 1 .. n - 1
  <2> DEFINE I == IF i < w THEN i ELSE i + 1
             J == IF j < w THEN j ELSE j + 1
  <2>1. I \in 1 .. n /\ J \in 1 .. n /\ d[i] = c[I] /\ d[j] = c[J]
    BY <1>4
  <2>2. I = J => i = j
    BY <1>1, <1>2
  <2> HIDE DEF I, J
  <2> QED
    BY <1>1, <2>1, <2>2
<1>7. CacheOK(d)
  <2>1. Len(d) <= Ways
    BY <1>1, <1>5, ListAssumption
  <2> QED
    BY <1>4, <1>5, <1>6, <2>1 DEF CacheOK
<1>8. Keys(d) = Keys(c) \ {a}
  <2>1. Keys(d) = {d[i].key : i \in 1 .. n - 1}
    BY <1>4 DEF Keys
  <2>2. ASSUME NEW i \in 1 .. n - 1 PROVE d[i].key \in Keys(c) \ {a}
    <3> DEFINE I == IF i < w THEN i ELSE i + 1
    <3>1. I \in 1 .. n /\ d[i] = c[I] /\ I # w
      BY <1>1, <1>2, <1>4
    <3> HIDE DEF I
    <3> QED
      BY <1>1, <1>2, <3>1
  <2>3. ASSUME NEW k \in 1 .. n, c[k].key # a PROVE \E i \in 1 .. n - 1 : d[i].key = c[k].key
    <3>1. k # w
      BY <1>2, <2>3
    <3>2. CASE k < w
      <4>1. k \in 1 .. n - 1 /\ d[k] = c[k]
        BY <1>1, <1>2, <1>4, <3>2
      <4> QED
        BY <4>1
    <3>3. CASE k > w
      <4>1. k - 1 \in 1 .. n - 1 /\ ~(k - 1 < w) /\ (k - 1) + 1 = k
        BY <1>1, <1>2, <3>3
      <4>2. d[k - 1] = c[k]
        BY <1>4, <4>1
      <4> QED
        BY <4>1, <4>2
    <3> QED
      BY <1>1, <1>2, <3>1, <3>2, <3>3
  <2> QED
    BY <1>1, <2>1, <2>2, <2>3
<1>9. ASSUME NEW V, Latest(c, V) PROVE Latest(d, V)
  <2> SUFFICES ASSUME NEW i \in 1 .. n - 1, NEW j \in 1 .. n - 1, i < j, d[i].key \in V
               PROVE  d[j].key \in V
    BY <1>4 DEF Latest
  <2> DEFINE I == IF i < w THEN i ELSE i + 1
             J == IF j < w THEN j ELSE j + 1
  <2>1. I \in 1 .. n /\ J \in 1 .. n /\ d[i] = c[I] /\ d[j] = c[J]
    BY <1>4
  <2>2. I < J
    BY <1>1, <1>2
  <2> HIDE DEF I, J
  <2> QED
    BY <1>1, <1>9, <2>1, <2>2 DEF Latest
<1> QED
  BY <1>5, <1>7, <1>8, <1>9 DEF d, n

\* Evicting the way that was drawn the longest ago.
LEMMA TailFacts ==
    ASSUME NEW c, CacheOK(c), c # <<>>
    PROVE  /\ CacheOK(Tail(c)) /\ Len(Tail(c)) = Len(c) - 1
           /\ c[1].key \in Keys(c) /\ Keys(Tail(c)) = Keys(c) \ {c[1].key}
           /\ \A V : Latest(c, V) => Latest(Tail(c), V)
<1> DEFINE n == Len(c)
           d == Tail(c)
<1>1. /\ n \in Nat /\ n <= Ways /\ DOMAIN c = 1 .. n
      /\ \A i \in 1 .. n : c[i] \in Entries
      /\ \A i, j \in 1 .. n : c[i].key = c[j].key => i = j
      /\ Keys(c) = {c[i].key : i \in 1 .. n}
  BY EntryFacts
<1>2. /\ n > 0 /\ d \in Seq(Entries) /\ Len(d) = n - 1 /\ DOMAIN d = 1 .. n - 1
      /\ \A i \in 1 .. n - 1 : i + 1 \in 1 .. n /\ d[i] = c[i + 1]
  <2>1. c \in Seq(Entries)
    BY DEF CacheOK
  <2>2. n # 0
    BY <2>1
  <2>3. d \in Seq(Entries) /\ Len(d) = n - 1
    BY <2>1
  <2>4. \A i \in 1 .. n - 1 : i + 1 \in 1 .. n /\ d[i] = c[i + 1]
    BY <1>1, <2>1, <2>2
  <2> QED
    BY <1>1, <2>2, <2>3, <2>4
<1> HIDE DEF n, d
<1>3. CacheOK(d)
  <2>1. \A i, j \in 1 .. n - 1 : d[i].key = d[j].key => i = j
    <3> TAKE i, j \in 1 .. n - 1
    <3>1. d[i] = c[i + 1] /\ d[j] = c[j + 1] /\ i + 1 \in 1 .. n /\ j + 1 \in 1 .. n
      BY <1>2
    <3>2. d[i].key = d[j].key => i + 1 = j + 1
      BY <1>1, <3>1
    <3> QED
      BY <1>1, <3>2
  <2>2. Len(d) <= Ways
    BY <1>1, <1>2, ListAssumption
  <2> QED
    BY <1>2, <2>1, <2>2 DEF CacheOK
<1>4. 1 \in 1 .. n
  BY <1>1, <1>2
<1>5. Keys(d) = Keys(c) \ {c[1].key}
  <2>1. Keys(d) = {d[i].key : i \in 1 .. n - 1}
    BY <1>2 DEF Keys
  <2>2. ASSUME NEW i \in 1 .. n - 1 PROVE d[i].key \in Keys(c) \ {c[1].key}
    <3>1. d[i] = c[i + 1] /\ i + 1 \in 1 .. n /\ i + 1 # 1
      BY <1>1, <1>2
    <3>2. c[i + 1].key # c[1].key
      BY <1>1, <1>4, <3>1
    <3> QED
      BY <1>1, <3>1, <3>2
  <2>3. ASSUME NEW k \in 1 .. n, c[k].key # c[1].key PROVE \E i \in 1 .. n - 1 : d[i].key = c[k].key
    <3>1. k # 1
      BY <2>3
    <3>2. k - 1 \in 1 .. n - 1 /\ (k - 1) + 1 = k
      BY <1>1, <3>1
    <3>3. d[k - 1] = c[k]
      BY <1>2, <3>2
    <3> QED
      BY <3>2, <3>3
  <2> QED
    BY <1>1, <2>1, <2>2, <2>3
<1>6. ASSUME NEW V, Latest(c, V) PROVE Latest(d, V)
  <2> SUFFICES ASSUME NEW i \in 1 .. n - 1, NEW j \in 1 .. n - 1, i < j, d[i].key \in V
               PROVE  d[j].key \in V
    BY <1>2 DEF Latest
  <2>1. d[i] = c[i + 1] /\ d[j] = c[j + 1] /\ i + 1 \in 1 .. n /\ j + 1 \in 1 .. n /\ i + 1 < j + 1
    BY <1>1, <1>2
  <2> QED
    BY <1>1, <1>6, <2>1 DEF Latest
<1> QED
  BY <1>1, <1>2, <1>3, <1>4, <1>5, <1>6 DEF n, d

\* What is appended is the latest.
LEMMA AppendFacts ==
    ASSUME NEW c, CacheOK(c), Len(c) < Ways, NEW e \in Entries, e.key \notin Keys(c)
    PROVE  /\ CacheOK(Append(c, e)) /\ Keys(Append(c, e)) = Keys(c) \cup {e.key}
           /\ \A V : Latest(c, V) => Latest(Append(c, e), V \cup {e.key})
<1> DEFINE n == Len(c)
           d == Append(c, e)
<1>1. /\ n \in Nat /\ n < Ways /\ DOMAIN c = 1 .. n /\ Ways \in Nat
      /\ \A i, j \in 1 .. n : c[i].key = c[j].key => i = j
      /\ Keys(c) = {c[i].key : i \in 1 .. n}
  BY EntryFacts, ListAssumption
<1>2. /\ d \in Seq(Entries) /\ Len(d) = n + 1 /\ DOMAIN d = 1 .. n + 1
      /\ \A i \in 1 .. n : d[i] = c[i]
      /\ d[n + 1] = e
  BY DEF CacheOK
<1> HIDE DEF n, d
<1>3. CacheOK(d)
  <2>1. \A i, j \in 1 .. n + 1 : d[i].key = d[j].key => i = j
    <3> TAKE i, j \in 1 .. n + 1
    <3>1. \A k \in 1 .. n + 1 : k \in 1 .. n \/ k = n + 1
      BY <1>1
    <3>2. CASE i \in 1 .. n /\ j \in 1 .. n
      BY <1>1, <1>2, <3>2
    <3>3. CASE i = n + 1 /\ j = n + 1
      BY <3>3
    <3>4. CASE i \in 1 .. n /\ j = n + 1
      BY <1>1, <1>2, <3>4
    <3>5. CASE i = n + 1 /\ j \in 1 .. n
      BY <1>1, <1>2, <3>5
    <3> QED
      BY <3>1, <3>2, <3>3, <3>4, <3>5
  <2>2. Len(d) <= Ways
    BY <1>1, <1>2
  <2> QED
    BY <1>2, <2>1, <2>2 DEF CacheOK
<1>4. Keys(d) = Keys(c) \cup {e.key}
  <2>1. Keys(d) = {d[i].key : i \in 1 .. n + 1}
    BY <1>2 DEF Keys
  <2>2. \A k \in 1 .. n + 1 : k \in 1 .. n \/ k = n + 1
    BY <1>1
  <2>3. \A k \in 1 .. n : k \in 1 .. n + 1
    BY <1>1
  <2>4. n + 1 \in 1 .. n + 1
    BY <1>1
  <2> QED
    BY <1>1, <1>2, <2>1, <2>2, <2>3, <2>4
<1>5. ASSUME NEW V, Latest(c, V) PROVE Latest(d, V \cup {e.key})
  <2> SUFFICES ASSUME NEW i \in 1 .. n + 1, NEW j \in 1 .. n + 1, i < j, d[i].key \in V \cup {e.key}
               PROVE  d[j].key \in V \cup {e.key}
    BY <1>2 DEF Latest
  <2>1. CASE j = n + 1
    BY <1>2, <2>1
  <2>2. CASE j # n + 1
    <3>1. i \in 1 .. n /\ j \in 1 .. n
      BY <1>1, <2>2
    <3>2. c[i].key # e.key
      BY <1>1, <3>1
    <3>3. c[i].key \in V
      BY <1>2, <3>1, <3>2
    <3> QED
      BY <1>1, <1>2, <1>5, <3>1, <3>3 DEF Latest
  <2> QED
    BY <2>1, <2>2
<1> QED
  BY <1>3, <1>4, <1>5 DEF d

\* Drawing a row stamps its album, and evicts one that is drawn later only
\* when there are more of these than ways.
LEMMA GotFacts ==
    ASSUME NEW c, CacheOK(c), Wanted(c), NEW a \in Albums
    PROVE  /\ CacheOK(Got(c, a)) /\ Wanted(Got(c, a))
           /\ a \notin noart /\ HasSidecar(a) => a \in Keys(Got(c, a))
           /\ \A V : Latest(c, V) => Latest(Got(c, a), V \cup {a})
           /\ \A V, T : /\ Latest(c, V) /\ V \cup {a} \subseteq T
                        /\ IsFiniteSet(T) /\ Cardinality(T) <= Ways
                        => Keys(c) \cap V \subseteq Keys(Got(c, a))
<1>1. /\ Len(c) \in Nat /\ DOMAIN c = 1 .. Len(c) /\ Len(c) <= Ways
      /\ \A i \in 1 .. Len(c) : c[i] \in Entries
      /\ Keys(c) = {c[i].key : i \in 1 .. Len(c)}
  BY EntryFacts
<1>2. Ways \in Nat /\ Ways >= 1
  BY ListAssumption
<1>3. ~(Len(c) < Ways) => Len(c) = Ways /\ c # <<>> /\ 1 \in 1 .. Len(c)
  <2> DEFINE n == Len(c)
  <2>1. n \in Nat /\ n <= Ways
    BY <1>1
  <2>2. c = <<>> => n = 0
    OBVIOUS
  <2> HIDE DEF n
  <2>3. ~(n < Ways) => n = Ways /\ n # 0 /\ 1 \in 1 .. n
    BY <1>2, <2>1
  <2> QED
    BY <2>2, <2>3 DEF n
<1>4. CASE a \in Keys(c)
  <2> DEFINE w == Without(c, a)
             e == Entry(c, a)
  <2>1. CacheOK(w) /\ Len(w) < Ways /\ Keys(w) = Keys(c) \ {a} /\ \A V : Latest(c, V) => Latest(w, V)
    BY <1>1, <1>2, <1>4, WithoutFacts
  <2>2. e \in Entries /\ e.key = a
    BY <1>1, <1>4, WayFacts DEF Entry
  <2>3. Got(c, a) = Append(w, e)
    BY <1>4 DEF Got
  <2> HIDE DEF w, e
  <2>4. /\ CacheOK(Append(w, e)) /\ Keys(Append(w, e)) = Keys(w) \cup {a}
        /\ \A V : Latest(w, V) => Latest(Append(w, e), V \cup {a})
    <3>1. e.key \notin Keys(w)
      BY <2>1, <2>2
    <3> QED
      BY <2>1, <2>2, <3>1, AppendFacts
  <2>5. Keys(Got(c, a)) = Keys(c)
    BY <1>4, <2>1, <2>3, <2>4
  <2> QED
    BY <1>4, <2>1, <2>3, <2>4, <2>5 DEF Wanted
<1>5. CASE a \notin Keys(c) /\ (a \in noart \/ ~HasSidecar(a))
  <2>1. Got(c, a) = c
    BY <1>5 DEF Got
  <2>2. ASSUME NEW V, Latest(c, V) PROVE Latest(c, V \cup {a})
    <3>1. \A i \in DOMAIN c : c[i].key # a
      BY <1>1, <1>5
    <3> QED
      BY <2>2, <3>1 DEF Latest
  <2> QED
    BY <1>5, <2>1, <2>2
<1>6. CASE a \notin Keys(c) /\ a \notin noart /\ HasSidecar(a)
  <2> DEFINE d == IF Len(c) < Ways THEN c ELSE Tail(c)
             e == [key |-> a, loaded |-> FALSE]
  <2>1. Got(c, a) = Append(d, e)
    BY <1>6 DEF Got
  <2>2. e \in Entries /\ e.key = a
    BY DEF Entries
  <2>3. /\ CacheOK(d) /\ Len(d) < Ways /\ Keys(d) \subseteq Keys(c)
        /\ \A V : Latest(c, V) => Latest(d, V)
    <3>1. CASE Len(c) < Ways
      BY <3>1
    <3>2. CASE ~(Len(c) < Ways)
      <4>1. Len(c) = Ways /\ c # <<>>
        BY <3>2, <1>3
      <4> QED
        BY <1>2, <3>2, <4>1, TailFacts
    <3> QED
      BY <3>1, <3>2
  <2>4. ASSUME NEW V, NEW T, Latest(c, V), V \cup {a} \subseteq T, IsFiniteSet(T), Cardinality(T) <= Ways
        PROVE  Keys(c) \cap V \subseteq Keys(d)
    <3>1. CASE Len(c) < Ways
      BY <3>1
    <3>2. CASE ~(Len(c) < Ways)
      <4>1. Len(c) = Ways /\ c # <<>> /\ 1 \in 1 .. Len(c)
        BY <3>2, <1>3
      <4>2. Keys(d) = Keys(c) \ {c[1].key}
        BY <3>2, <4>1, TailFacts
      <4>3. c[1].key \notin V
        <5> SUFFICES ASSUME c[1].key \in V PROVE FALSE
          OBVIOUS
        <5>1. \A j \in 1 .. Len(c) : c[j].key \in V
          <6> TAKE j \in 1 .. Len(c)
          <6>1. j = 1 \/ 1 < j
            BY <1>1
          <6> QED
            BY <1>1, <2>4, <4>1, <6>1 DEF Latest
        <5>2. Keys(c) \cup {a} \in SUBSET T
          BY <1>1, <2>4, <5>1
        <5>3. IsFiniteSet(Keys(c)) /\ Cardinality(Keys(c)) = Ways
          BY <4>1, CountFacts
        <5>4. Cardinality(Keys(c) \cup {a}) = Ways + 1
          BY <1>6, <5>3, FS_AddElement
        <5>5. Cardinality(Keys(c) \cup {a}) <= Cardinality(T)
          BY <2>4, <5>2, FS_Subset
        <5>6. Cardinality(T) \in Nat
          BY <2>4, FS_CardinalityType
        <5> QED
          BY <1>2, <2>4, <5>4, <5>5, <5>6
      <4> QED
        BY <4>2, <4>3
    <3> QED
      BY <3>1, <3>2
  <2>5. e.key \notin Keys(d)
    BY <1>6, <2>2, <2>3
  <2> HIDE DEF d, e
  <2>6. /\ CacheOK(Append(d, e)) /\ Keys(Append(d, e)) = Keys(d) \cup {a}
        /\ \A V : Latest(d, V) => Latest(Append(d, e), V \cup {a})
    BY <2>2, <2>3, <2>5, AppendFacts
  <2>7. Wanted(Got(c, a))
    BY <1>6, <2>1, <2>3, <2>6 DEF Wanted
  <2> QED
    BY <2>1, <2>3, <2>4, <2>6, <2>7
<1> QED
  BY <1>4, <1>5, <1>6

-----------------------------------------------------------------------------
(* The window. *)

\* The selection is in the window, and the window on the panel.
LEMMA TopFacts ==
    ASSUME NEW v \in Views, NEW s \in DOMAIN v
    PROVE  /\ Len(v) \in Nat /\ DOMAIN v = 1 .. Len(v) /\ Len(v) >= 1
           /\ \A i \in 1 .. Len(v) : v[i] \in Item
           /\ Top(v, s) \in Nat /\ s \in Shown(v, s)
           /\ Top(v, s) = 0 \/ Top(v, s) + Rows <= Len(v)
           /\ \A i \in Shown(v, s) : i \in 1 .. Len(v) /\ i - Top(v, s) \in 1 .. Rows
<1> DEFINE n == Len(v)
           t == Top(v, s)
           q == Rows \div 3
           start == s - 1 - q
<1>1. v \in Seq(Item) /\ v # <<>> /\ Rows \in Nat /\ Rows >= 1
  BY ListAssumption DEF Item
<1>2. n \in Nat /\ DOMAIN v = 1 .. n /\ n >= 1 /\ s \in 1 .. n /\ \A i \in 1 .. n : v[i] \in Item
  BY <1>1
<1>3. q \in Nat /\ q < Rows
  <2>1. /\ q \in Int /\ Rows % 3 \in 0 .. 3 - 1 /\ Rows = (3 * q) + (Rows % 3)
    <3>1. Rows \in Int /\ 3 \in Nat \ {0}
      BY <1>1
    <3> QED
      BY <3>1, Division
  <2> DEFINE r == Rows % 3
  <2> HIDE DEF q, r
  <2> QED
    BY <1>1, <2>1 DEF r
<1>4. t = IF n <= Rows THEN 0 ELSE IF start < 0 THEN 0 ELSE IF start < n - Rows THEN start ELSE n - Rows
  BY DEF Top, Lesser
<1> HIDE DEF n, t, q
<1>5. start \in Int
  BY <1>2, <1>3
<1>6. t \in Nat /\ (t = 0 \/ t + Rows <= n) /\ t < s /\ s <= t + Rows
  BY <1>1, <1>2, <1>3, <1>4, <1>5
<1>7. Shown(v, s) = (t + 1) .. (IF t + Rows < n THEN t + Rows ELSE n)
  BY DEF Shown, Lesser, n, t
<1>8. s \in Shown(v, s)
  BY <1>1, <1>2, <1>6, <1>7
<1>9. \A i \in Shown(v, s) : i \in 1 .. n /\ i - t \in 1 .. Rows
  BY <1>1, <1>2, <1>6, <1>7
<1> QED
  BY <1>2, <1>6, <1>8, <1>9 DEF n, t

\* There are ways for all albums on the screen.
LEMMA ItemsFacts ==
    ASSUME NEW v \in Views, NEW s \in DOMAIN v
    PROVE  IsFiniteSet(Items(v, s)) /\ Cardinality(Items(v, s)) <= Ways
<1> DEFINE t == Top(v, s)
           u == Lesser(t + Rows, Len(v))
           f == [i \in Shown(v, s) |-> v[i]]
<1>1. t \in Nat /\ Len(v) \in Nat /\ Rows \in Nat /\ Ways \in Nat /\ Rows <= Ways
  BY TopFacts, ListAssumption
<1>2. u \in Int /\ u <= t + Rows
  BY <1>1 DEF Lesser
<1>3. Shown(v, s) = (t + 1) .. u
  BY DEF Shown
<1> HIDE DEF t, u
<1>4. IsFiniteSet(Shown(v, s)) /\ Cardinality(Shown(v, s)) <= Rows
  <2>1. IsFiniteSet((t + 1) .. u) /\ Cardinality((t + 1) .. u) = IF t + 1 > u THEN 0 ELSE u - (t + 1) + 1
    <3>1. t + 1 \in Int
      BY <1>1
    <3> QED
      BY <1>2, <3>1, FS_Interval
  <2> DEFINE k == Cardinality((t + 1) .. u)
  <2> HIDE DEF k
  <2>2. k <= Rows
    BY <1>1, <1>2, <2>1 DEF k
  <2> QED
    BY <1>3, <2>1, <2>2 DEF k
<1>5. f \in Surjection(Shown(v, s), Items(v, s))
  BY DEF Surjection, Items
<1> HIDE DEF f
<1>6. IsFiniteSet(Items(v, s)) /\ Cardinality(Items(v, s)) <= Cardinality(Shown(v, s))
  BY <1>4, <1>5, FS_Surjection
<1>7. Cardinality(Items(v, s)) \in Nat /\ Cardinality(Shown(v, s)) \in Nat
  BY <1>4, <1>6, FS_CardinalityType
<1> QED
  BY <1>1, <1>4, <1>6, <1>7

\* Every set of numbers has a least one.
LEMMA LeastNumber ==
    ASSUME NEW T \in SUBSET Nat, T # {}
    PROVE  \E m \in T : \A k \in T : m <= k
<1> DEFINE R == OpToRel(<, Nat)
<1>1. \A x, y \in Nat : x < y => <<x, y>> \in R
  BY DEF OpToRel
<1>2. IsWellFoundedOn(R, Nat)
  BY NatLessThanWellFounded
<1> HIDE DEF R
<1>3. PICK m \in T : \A y \in T : ~(<<y, m>> \in R)
  BY <1>2, WFMin
<1>4. \A k \in T : ~(k < m) /\ k \in Nat /\ m \in Nat
  BY <1>1, <1>3
<1> QED
  BY <1>4

\* The drawing of so many rows is that of the row before, and one more.
LEMMA DrawingUnfolds ==
    ASSUME NEW rows, Len(rows) \in Nat, NEW onto
    PROVE  /\ Drawing(rows, onto)[0] = [cache |-> cache, panel |-> onto]
           /\ \A k \in 1 .. Len(rows) :
                  Drawing(rows, onto)[k] = RowDraw(Drawing(rows, onto)[k - 1], rows[k])
<1> DEFINE start == [cache |-> cache, panel |-> onto]
           n == Len(rows)
           Step(acc, k) == RowDraw(acc, rows[k])
           Upto(f, m) == /\ DOMAIN f = 0 .. m
                         /\ \A k \in 0 .. m : f[k] = IF k = 0 THEN start ELSE Step(f[k - 1], k)
           T == {m \in Nat : ~ \E f : Upto(f, m)}
<1>d. Drawing(rows, onto) = CHOOSE d : d = [k \in 0 .. n |-> IF k = 0 THEN start ELSE Step(d[k - 1], k)]
  BY DEF Drawing
<1> HIDE DEF Step, start
<1>1. \E f : Upto(f, 0)
  <2>1. Upto([k \in 0 .. 0 |-> start], 0)
    OBVIOUS
  <2> QED
    BY <2>1
<1>2. ASSUME NEW m \in Nat, NEW f, Upto(f, m)
      PROVE  \E g : Upto(g, m + 1)
  <2> DEFINE g == [k \in 0 .. m + 1 |-> IF k = m + 1 THEN Step(f[m], m + 1) ELSE f[k]]
  <2>1. Upto(g, m + 1)
    <3>1. DOMAIN g = 0 .. m + 1
      OBVIOUS
    <3>2. ASSUME NEW k \in 0 .. m + 1
          PROVE  g[k] = IF k = 0 THEN start ELSE Step(g[k - 1], k)
      <4>1. CASE k = m + 1
        <5>1. k # 0 /\ k - 1 = m /\ m \in 0 .. m + 1 /\ m # m + 1
          BY <4>1
        <5>2. g[m] = f[m]
          BY <5>1
        <5> QED
          BY <4>1, <5>1, <5>2
      <4>2. CASE k # m + 1
        <5>1. k \in 0 .. m /\ g[k] = f[k]
          BY <4>2
        <5>2. k # 0 => k - 1 \in 0 .. m + 1 /\ k - 1 # m + 1 /\ g[k - 1] = f[k - 1]
          BY <5>1
        <5> HIDE DEF g
        <5> QED
          BY <5>1, <5>2, <1>2
      <4> QED
        BY <4>1, <4>2
    <3> HIDE DEF g
    <3> QED
      BY <3>1, <3>2
  <2> QED
    BY <2>1
<1> HIDE DEF Upto
<1>3. T = {}
  <2> SUFFICES ASSUME T # {}
               PROVE  FALSE
    OBVIOUS
  <2>1. PICK m \in T : \A k \in T : m <= k
    <3>1. T \in SUBSET Nat
      OBVIOUS
    <3> HIDE DEF T
    <3> QED
      BY <3>1, LeastNumber
  <2>2. m \in Nat /\ ~ \E f : Upto(f, m)
    BY <2>1
  <2>3. m # 0
    BY <1>1, <2>2
  <2>4. m - 1 \in Nat /\ m - 1 < m /\ (m - 1) + 1 = m
    BY <2>2, <2>3
  <2>5. m - 1 \notin T
    <3> HIDE DEF T
    <3> QED
      BY <2>1, <2>2, <2>4
  <2>6. \E f : Upto(f, m - 1)
    BY <2>4, <2>5
  <2> QED
    BY <1>2, <2>2, <2>4, <2>6
<1>n. n \in Nat
  OBVIOUS
<1> HIDE DEF n
<1>4. PICK f : Upto(f, n)
  <2>1. n \notin T
    BY <1>3
  <2> QED
    BY <1>n, <2>1
<1> DEFINE h == [k \in 0 .. n |-> f[k]]
<1>5. h = [k \in 0 .. n |-> IF k = 0 THEN start ELSE Step(h[k - 1], k)]
  <2>1. ASSUME NEW k \in 0 .. n
        PROVE  h[k] = IF k = 0 THEN start ELSE Step(h[k - 1], k)
    <3>1. h[k] = f[k] /\ f[k] = IF k = 0 THEN start ELSE Step(f[k - 1], k)
      BY <1>4 DEF Upto
    <3>2. k # 0 => k - 1 \in 0 .. n /\ h[k - 1] = f[k - 1]
      BY <1>n
    <3> HIDE DEF h
    <3> QED
      BY <3>1, <3>2
  <2>2. h = [k \in 0 .. n |-> h[k]]
    OBVIOUS
  <2> HIDE DEF h
  <2> QED
    BY <2>1, <2>2
<1> HIDE DEF h
<1> DEFINE D == Drawing(rows, onto)
<1>6. D = [k \in 0 .. n |-> IF k = 0 THEN start ELSE Step(D[k - 1], k)]
  BY <1>d, <1>5
<1> HIDE DEF D
<1>7. \A k \in 0 .. n : D[k] = IF k = 0 THEN start ELSE Step(D[k - 1], k)
  <2> DEFINE G == [k \in 0 .. n |-> IF k = 0 THEN start ELSE Step(D[k - 1], k)]
  <2>1. \A k \in 0 .. n : G[k] = IF k = 0 THEN start ELSE Step(D[k - 1], k)
    OBVIOUS
  <2>2. D = G
    BY <1>6
  <2> HIDE DEF G
  <2> QED
    BY <2>1, <2>2
<1>8. 0 \in 0 .. n /\ \A k \in 1 .. n : k \in 0 .. n /\ k # 0
  BY <1>n
<1> QED
  BY <1>7, <1>8 DEF D, n, start, Step

\* What the drawing of a row does to the cache and the panel.
RowDrawn(acc, drawn, i) ==
    /\ CacheOK(drawn.cache) /\ Wanted(drawn.cache)
    /\ drawn.panel \in [1 .. Rows -> RowShows]
    /\ RowIs(drawn.panel[i - Top(view, sel)], view, sel, i)
    /\ \A r \in 1 .. Rows : r # i - Top(view, sel) => drawn.panel[r] = acc.panel[r]
    /\ view[i] \in Albums \ noart /\ HasSidecar(view[i]) => view[i] \in Keys(drawn.cache)
    /\ \A V : Latest(acc.cache, V) => Latest(drawn.cache, V \cup {view[i]})
    /\ \A V, T : /\ Latest(acc.cache, V) /\ V \cup {view[i]} \subseteq T
                 /\ IsFiniteSet(T) /\ Cardinality(T) <= Ways
                 => Keys(acc.cache) \cap V \subseteq Keys(drawn.cache)

\* It shows the row on the panel, and stamps its album in the cache.
LEMMA RowFacts ==
    ASSUME view \in Views, sel \in DOMAIN view, NEW i \in Shown(view, sel),
           NEW acc, CacheOK(acc.cache), Wanted(acc.cache), acc.panel \in [1 .. Rows -> RowShows]
    PROVE  RowDrawn(acc, RowDraw(acc, i), i)
<1> DEFINE a == view[i]
           b == acc.cache
           c == IF a = AllSongs THEN b ELSE Got(b, a)
           r == i - Top(view, sel)
           row == [item |-> a, lit |-> i = sel, cover |-> a \in Loaded(c)]
           drawn == RowDraw(acc, i)
<1>1. a \in Item /\ i \in 1 .. Len(view) /\ r \in 1 .. Rows
  BY TopFacts
<1>2. drawn.cache = c /\ drawn.panel = [acc.panel EXCEPT ![r] = row]
  BY DEF RowDraw
<1>3. /\ CacheOK(c) /\ Wanted(c)
      /\ a \in Albums \ noart /\ HasSidecar(a) => a \in Keys(c)
      /\ \A V : Latest(b, V) => Latest(c, V \cup {a})
      /\ \A V, T : /\ Latest(b, V) /\ V \cup {a} \subseteq T
                   /\ IsFiniteSet(T) /\ Cardinality(T) <= Ways
                   => Keys(b) \cap V \subseteq Keys(c)
  <2>1. CASE a = AllSongs
    <3>1. c = b /\ a \notin Albums
      BY <2>1, ListAssumption
    <3>2. ASSUME NEW V, Latest(b, V) PROVE Latest(b, V \cup {a})
      <4>1. \A j \in DOMAIN b : b[j].key # a
        BY <3>1, EntryFacts
      <4> QED
        BY <3>2, <4>1 DEF Latest
    <3> QED
      BY <3>1, <3>2
  <2>2. CASE a # AllSongs
    <3>1. a \in Albums /\ c = Got(b, a)
      BY <1>1, <2>2 DEF Item
    <3> HIDE DEF a, b, c
    <3> QED
      BY <3>1, GotFacts DEF b
  <2> QED
    BY <2>1, <2>2
<1>4. row \in RowShows /\ RowIs(row, view, sel, i)
  <2>1. (i = sel) \in BOOLEAN /\ (a \in Loaded(c)) \in BOOLEAN
    OBVIOUS
  <2>2. row # Nothing
    BY DEF Nothing
  <2> QED
    BY <1>1, <2>1, <2>2 DEF RowShows, RowIs
<1> HIDE DEF a, b, c, r, row, drawn
<1>5. drawn.panel \in [1 .. Rows -> RowShows] /\ RowIs(drawn.panel[r], view, sel, i)
  BY <1>1, <1>2, <1>4
<1>6. \A k \in 1 .. Rows : k # r => drawn.panel[k] = acc.panel[k]
  BY <1>1, <1>2
<1> QED
  BY <1>2, <1>3, <1>5, <1>6 DEF RowDrawn, a, b, r, drawn

\* What a paint has drawn up to its row k: S is what was drawn before it.
DrawnUpTo(rows, k) == {view[rows[m]] : m \in 1 .. k}
DrawnSoFar(acc, rows, onto, S, k) ==
    /\ CacheOK(acc.cache) /\ Wanted(acc.cache)
    /\ Latest(acc.cache, S \cup DrawnUpTo(rows, k))
    /\ Keys(cache) \cap (S \cup DrawnUpTo(rows, k)) \subseteq Keys(acc.cache)
    /\ acc.panel \in [1 .. Rows -> RowShows]
    /\ \A m \in 1 .. k : RowIs(acc.panel[rows[m] - Top(view, sel)], view, sel, rows[m])
    /\ \A r \in 1 .. Rows :
           (\A m \in 1 .. k : r # rows[m] - Top(view, sel)) => acc.panel[r] = onto[r]

\* A paint of rows of the window, onto a panel or none.
LEMMA DrawnFacts ==
    ASSUME view \in Views, sel \in DOMAIN view, CacheOK(cache), Wanted(cache),
           NEW rows \in Seq(Shown(view, sel)), NEW onto \in [1 .. Rows -> RowShows],
           NEW S \in SUBSET Items(view, sel), Latest(cache, S)
    PROVE  DrawnSoFar(Drawn(rows, onto), rows, onto, S, Len(rows))
<1> DEFINE n == Len(rows)
           D == Drawing(rows, onto)
           Holds(k) == DrawnSoFar(D[k], rows, onto, S, k)
           T == {k \in 0 .. n : ~Holds(k)}
<1>1. n \in Nat /\ \A k \in 1 .. n : rows[k] \in Shown(view, sel)
  OBVIOUS
<1>2. /\ D[0] = [cache |-> cache, panel |-> onto]
      /\ \A k \in 1 .. n : D[k] = RowDraw(D[k - 1], rows[k])
  BY <1>1, DrawingUnfolds
<1>3. Drawn(rows, onto) = D[n]
  BY DEF Drawn
<1> HIDE DEF n, D
<1>4. Holds(0)
  <2>1. D[0].cache = cache /\ D[0].panel = onto
    BY <1>2
  <2>2. DrawnUpTo(rows, 0) = {} /\ 1 .. 0 = {}
    BY DEF DrawnUpTo
  <2> QED
    BY <2>1, <2>2 DEF DrawnSoFar
<1>5. ASSUME NEW k \in 1 .. n, Holds(k - 1)
      PROVE  Holds(k)
  <2> DEFINE p == D[k - 1]
             q == D[k]
             i == rows[k]
             top == Top(view, sel)
             V == S \cup DrawnUpTo(rows, k - 1)
  <2>1. /\ CacheOK(p.cache) /\ Wanted(p.cache) /\ Latest(p.cache, V)
        /\ Keys(cache) \cap V \subseteq Keys(p.cache)
        /\ p.panel \in [1 .. Rows -> RowShows]
        /\ \A m \in 1 .. k - 1 : RowIs(p.panel[rows[m] - top], view, sel, rows[m])
        /\ \A r \in 1 .. Rows : (\A m \in 1 .. k - 1 : r # rows[m] - top) => p.panel[r] = onto[r]
    BY <1>5 DEF DrawnSoFar
  <2>2. i \in Shown(view, sel) /\ q = RowDraw(p, i)
    BY <1>1, <1>2
  <2>3. S \cup DrawnUpTo(rows, k) = V \cup {view[i]} /\ V \cup {view[i]} \subseteq Items(view, sel)
    <3>1. \A m \in 1 .. k : m \in 1 .. k - 1 \/ m = k
      BY <1>1
    <3>2. k \in 1 .. k /\ \A m \in 1 .. k - 1 : m \in 1 .. k
      BY <1>1
    <3>3. DrawnUpTo(rows, k) = DrawnUpTo(rows, k - 1) \cup {view[i]}
      BY <3>1, <3>2 DEF DrawnUpTo
    <3>4. \A m \in 1 .. k : rows[m] \in Shown(view, sel)
      BY <1>1
    <3>5. DrawnUpTo(rows, k) \subseteq Items(view, sel)
      BY <3>4 DEF DrawnUpTo, Items
    <3> QED
      BY <3>3, <3>5
  <2>4. \A m \in 1 .. k : m \in 1 .. k - 1 \/ m = k
    BY <1>1
  <2>5. \A m \in 1 .. k - 1 : rows[m] \in Shown(view, sel)
    BY <1>1
  <2>6. \A j \in Shown(view, sel) : j - top \in 1 .. Rows /\ j \in Int /\ top \in Int
    BY TopFacts
  <2>7. IsFiniteSet(Items(view, sel)) /\ Cardinality(Items(view, sel)) <= Ways
    BY ItemsFacts
  <2> HIDE DEF p, q, i, top, V
  <2>8. /\ CacheOK(q.cache) /\ Wanted(q.cache)
        /\ q.panel \in [1 .. Rows -> RowShows]
        /\ RowIs(q.panel[i - top], view, sel, i)
        /\ \A r \in 1 .. Rows : r # i - top => q.panel[r] = p.panel[r]
        /\ view[i] \in Albums \ noart /\ HasSidecar(view[i]) => view[i] \in Keys(q.cache)
        /\ Latest(q.cache, V \cup {view[i]})
        /\ Keys(p.cache) \cap V \subseteq Keys(q.cache)
    <3>1. RowDrawn(p, q, i)
      BY <2>1, <2>2, RowFacts
    <3>2. Latest(q.cache, V \cup {view[i]}) /\ Keys(p.cache) \cap V \subseteq Keys(q.cache)
      BY <2>1, <2>3, <2>7, <3>1 DEF RowDrawn
    <3> QED
      BY <3>1, <3>2 DEF RowDrawn, top
  <2>9. Keys(cache) \cap (V \cup {view[i]}) \subseteq Keys(q.cache)
    <3>1. \A a \in Keys(cache) : a \in Albums \ noart /\ HasSidecar(a)
      BY EntryFacts DEF Wanted
    <3> QED
      BY <2>1, <2>8, <3>1
  <2>10. \A m \in 1 .. k : RowIs(q.panel[rows[m] - top], view, sel, rows[m])
    <3> TAKE m \in 1 .. k
    <3>1. CASE rows[m] = i
      BY <2>8, <3>1
    <3>2. CASE rows[m] # i
      <4>1. m \in 1 .. k - 1
        BY <2>4, <3>2 DEF i
      <4>2. rows[m] \in Shown(view, sel)
        BY <2>5, <4>1
      <4>3. rows[m] - top \in 1 .. Rows /\ rows[m] - top # i - top
        BY <2>2, <2>6, <3>2, <4>2
      <4> QED
        BY <2>1, <2>8, <4>1, <4>3
    <3> QED
      BY <3>1, <3>2
  <2>11. ASSUME NEW r \in 1 .. Rows, \A m \in 1 .. k : r # rows[m] - top
         PROVE  q.panel[r] = onto[r]
    <3>1. k \in 1 .. k /\ \A m \in 1 .. k - 1 : m \in 1 .. k
      BY <1>1
    <3>2. r # i - top
      BY <2>11, <3>1 DEF i
    <3> QED
      BY <2>1, <2>8, <2>11, <3>1, <3>2
  <2> QED
    BY <2>3, <2>8, <2>9, <2>10, <2>11 DEF DrawnSoFar, q, top
<1> HIDE DEF Holds
<1>6. T = {}
  <2> SUFFICES ASSUME T # {}
               PROVE  FALSE
    OBVIOUS
  <2>1. PICK m \in T : \A k \in T : m <= k
    <3>1. T \in SUBSET Nat
      BY <1>1
    <3> HIDE DEF T
    <3> QED
      BY <3>1, LeastNumber
  <2>2. m \in 0 .. n /\ ~Holds(m)
    BY <2>1
  <2>3. m \in 1 .. n /\ m - 1 \in 0 .. n /\ m - 1 < m
    BY <1>1, <1>4, <2>2
  <2>4. m - 1 \notin T
    <3> HIDE DEF T
    <3> QED
      BY <1>1, <2>1, <2>2, <2>3
  <2>5. Holds(m - 1)
    BY <2>3, <2>4
  <2> QED
    BY <1>5, <2>2, <2>3, <2>5
<1>7. Holds(n)
  BY <1>1, <1>6
<1> QED
  BY <1>3, <1>7 DEF Holds, n

\* A paint that has drawn every row of the window whose album was not
\* already among the latest, and leaves the panel showing all of them.
LEMMA PaintStep ==
    ASSUME ListInv, on, NEW rows \in Seq(Shown(view, sel)), NEW onto \in [1 .. Rows -> RowShows],
           NEW S \in SUBSET Items(view, sel), Latest(cache, S),
           Items(view, sel) \subseteq S \cup DrawnUpTo(rows, Len(rows)),
           Paint(rows, onto),
           DrawnSoFar(Drawn(rows, onto), rows, onto, S, Len(rows)) =>
               \A i \in Shown(view, sel) : RowIs(Drawn(rows, onto).panel[i - Top(view, sel)], view, sel, i),
           painted' = [view |-> view, sel |-> sel], dirty' = FALSE, stage' = "chips",
           UNCHANGED <<noart, retried, list>>
    PROVE  ListInv' /\ Visible \cap Keys(cache) \subseteq Keys(cache')
<1> DEFINE d == Drawn(rows, onto)
           W == S \cup DrawnUpTo(rows, Len(rows))
<1>1. view \in Views /\ sel \in DOMAIN view /\ CacheOK(cache) /\ Wanted(cache)
  BY DEF ListInv, ListTypeOK, GivenUp
<1>2. DrawnSoFar(d, rows, onto, S, Len(rows))
  BY <1>1, DrawnFacts
<1>3. cache' = d.cache /\ panel' = d.panel
  BY DEF Paint
<1> HIDE DEF d
<1>4. \A i \in Shown(view, sel) : RowIs(panel'[i - Top(view, sel)], view, sel, i)
  BY <1>2, <1>3 DEF d
<1>5. /\ CacheOK(cache') /\ Wanted(cache') /\ Latest(cache', W)
      /\ Keys(cache) \cap W \subseteq Keys(cache') /\ panel' \in [1 .. Rows -> RowShows]
  BY <1>2, <1>3 DEF DrawnSoFar
<1>6. W = Items(view, sel)
  <2>1. \A m \in 1 .. Len(rows) : rows[m] \in Shown(view, sel)
    OBVIOUS
  <2>2. DrawnUpTo(rows, Len(rows)) \subseteq Items(view, sel)
    BY <2>1 DEF DrawnUpTo, Items
  <2> QED
    BY <2>2
<1> HIDE DEF W
<1>7. view' = view /\ sel' = sel /\ on' = on /\ noart' = noart /\ retried' = retried
  BY DEF list
<1>8. painted'.view = view /\ painted'.sel = sel
  OBVIOUS
<1>9. ListTypeOK'
  <2>1. noart' \subseteq Albums /\ retried' \subseteq Albums /\ view' \in Views /\ sel' \in DOMAIN view'
    BY <1>1, <1>7 DEF ListInv, ListTypeOK
  <2>2. on' \in BOOLEAN /\ dirty' \in BOOLEAN /\ stage' \in {"render", "chips", "input"}
    BY <1>7
  <2>3. sel \in Nat
    BY <1>1, TopFacts
  <2>4. painted' \in [view : Views, sel : Nat] /\ painted'.sel \in DOMAIN painted'.view
    BY <1>1, <2>3
  <2> QED
    BY <1>5, <2>1, <2>2, <2>4 DEF ListTypeOK, CacheOK
<1>10. GivenUp'
  BY <1>5, <1>7 DEF ListInv, GivenUp, Wanted, Keys
<1>11. AsPainted'
  <2>1. Shown(painted'.view, painted'.sel) = Shown(view, sel) /\ Items(painted'.view, painted'.sel) = Items(view, sel)
        /\ Top(painted'.view, painted'.sel) = Top(view, sel)
    BY <1>8
  <2>2. \A i \in Shown(painted'.view, painted'.sel) :
            RowIs(panel'[i - Top(painted'.view, painted'.sel)], painted'.view, painted'.sel, i)
    BY <1>4, <1>8
  <2>3. Latest(cache', Items(painted'.view, painted'.sel))
    BY <1>5, <1>6, <2>1
  <2> QED
    BY <2>2, <2>3 DEF AsPainted, Shown, Items, RowIs, Latest, Top, Lesser
<1>12. UpToDate'
  BY <1>7 DEF UpToDate
<1>13. Visible \subseteq Items(view, sel)
  BY DEF Visible, Window, Items, Shown
<1> QED
  BY <1>5, <1>6, <1>9, <1>10, <1>11, <1>12, <1>13 DEF ListInv

\* A whole repaint.
LEMMA PaintFullStep ==
    ASSUME ListInv, PaintFull
    PROVE  ListInv' /\ Visible \cap Keys(cache) \subseteq Keys(cache')
<1> DEFINE t == Top(view, sel)
           l == Lesser(Rows, Len(view))
           rows == [k \in 1 .. l |-> t + k]
<1>1. view \in Views /\ sel \in DOMAIN view
  BY DEF ListInv, ListTypeOK
<1>2. /\ t \in Nat /\ Len(view) \in Nat /\ Rows \in Nat /\ (t = 0 \/ t + Rows <= Len(view))
      /\ \A i \in Shown(view, sel) : i \in 1 .. Len(view) /\ i - t \in 1 .. Rows
  BY <1>1, TopFacts, ListAssumption
<1>3. Shown(view, sel) = (t + 1) .. Lesser(t + Rows, Len(view))
  BY DEF Shown
<1> HIDE DEF t
<1>4. l \in Nat /\ \A k \in 1 .. l : t + k \in Shown(view, sel)
  BY <1>2, <1>3 DEF Lesser
<1>5. \A i \in Shown(view, sel) : i - t \in 1 .. l /\ t + (i - t) = i
  BY <1>2 DEF Lesser
<1> HIDE DEF l
<1>6. rows \in Seq(Shown(view, sel)) /\ Len(rows) = l /\ \A k \in 1 .. l : rows[k] = t + k
  <2>1. rows \in [1 .. l -> Shown(view, sel)]
    BY <1>4
  <2> QED
    BY <1>4, <2>1
<1>7. Blank \in [1 .. Rows -> RowShows]
  BY DEF Blank, RowShows
<1>8. Items(view, sel) \subseteq {} \cup DrawnUpTo(rows, Len(rows))
  <2> HIDE DEF rows
  <2>1. \A i \in Shown(view, sel) : \E k \in 1 .. Len(rows) : rows[k] = i
    BY <1>5, <1>6
  <2> QED
    BY <2>1 DEF Items, DrawnUpTo
<1>9. Paint(rows, Blank) /\ on
  BY DEF PaintFull, t, l
<1>10. /\ painted' = [view |-> view, sel |-> sel] /\ dirty' = FALSE /\ stage' = "chips"
       /\ UNCHANGED <<noart, retried, list>>
  BY DEF PaintFull
<1> HIDE DEF rows
<1>11. ASSUME DrawnSoFar(Drawn(rows, Blank), rows, Blank, {}, Len(rows)), NEW i \in Shown(view, sel)
       PROVE  RowIs(Drawn(rows, Blank).panel[i - Top(view, sel)], view, sel, i)
  <2>1. i - t \in 1 .. Len(rows) /\ rows[i - t] = i
    BY <1>5, <1>6
  <2> QED
    BY <1>11, <2>1 DEF DrawnSoFar
<1>12. Latest(cache, {})
  BY DEF Latest
<1> QED
  BY <1>6, <1>7, <1>8, <1>9, <1>10, <1>11, <1>12, PaintStep

\* A repaint of the two rows a move of the bar has changed.
LEMMA PaintPartialStep ==
    ASSUME ListInv, PaintPartial
    PROVE  ListInv' /\ Visible \cap Keys(cache) \subseteq Keys(cache')
<1> DEFINE rows == <<painted.sel, sel>>
           S == Items(view, sel)
           t == Top(view, sel)
<1>1. /\ view \in Views /\ sel \in DOMAIN view /\ panel \in [1 .. Rows -> RowShows]
      /\ painted # Never => painted.sel \in DOMAIN painted.view
  BY DEF ListInv, ListTypeOK
<1>2. on /\ painted.view = view /\ painted.sel # sel /\ t = Top(view, painted.sel)
  BY DEF PaintPartial, Suffices, Moved
<1>3. painted # Never
  <2>1. view # <<>>
    BY <1>1, ListAssumption
  <2> QED
    BY <1>2, <2>1 DEF Never
<1>4. Shown(view, painted.sel) = Shown(view, sel) /\ Items(view, painted.sel) = S
  BY <1>2 DEF Shown, Items
<1>5. painted.sel \in Shown(view, sel) /\ sel \in Shown(view, sel)
  BY <1>1, <1>2, <1>3, <1>4, TopFacts
<1>6. /\ \A i \in Shown(view, sel) : RowIs(panel[i - t], view, painted.sel, i)
      /\ Latest(cache, S)
  BY <1>2, <1>3, <1>4 DEF ListInv, AsPainted
<1>7. rows \in Seq(Shown(view, sel)) /\ Len(rows) = 2 /\ rows[1] = painted.sel /\ rows[2] = sel
  BY <1>5
<1>8. Paint(rows, panel)
  BY DEF PaintPartial
<1>9. /\ painted' = [view |-> view, sel |-> sel] /\ dirty' = FALSE /\ stage' = "chips"
      /\ UNCHANGED <<noart, retried, list>>
  BY DEF PaintPartial
<1>10. \A i \in Shown(view, sel) : i - t \in 1 .. Rows /\ i \in Int /\ t \in Int
  BY <1>1, TopFacts
<1> HIDE DEF rows, S
<1>11. ASSUME DrawnSoFar(Drawn(rows, panel), rows, panel, S, Len(rows)), NEW i \in Shown(view, sel)
       PROVE  RowIs(Drawn(rows, panel).panel[i - Top(view, sel)], view, sel, i)
  <2> DEFINE d == Drawn(rows, panel)
  <2> HIDE DEF d
  <2>1. /\ \A m \in 1 .. 2 : RowIs(d.panel[rows[m] - t], view, sel, rows[m])
        /\ \A r \in 1 .. Rows : (\A m \in 1 .. 2 : r # rows[m] - t) => d.panel[r] = panel[r]
    BY <1>7, <1>11 DEF DrawnSoFar, d
  <2>2. RowIs(d.panel[painted.sel - t], view, sel, painted.sel) /\ RowIs(d.panel[sel - t], view, sel, sel)
    BY <1>7, <2>1
  <2>3. CASE i # painted.sel /\ i # sel
    <3>1. i - t # painted.sel - t /\ i - t # sel - t /\ i - t \in 1 .. Rows
      BY <1>5, <1>10, <2>3
    <3>2. \A m \in 1 .. 2 : m = 1 \/ m = 2
      OBVIOUS
    <3>3. \A m \in 1 .. 2 : i - t # rows[m] - t
      BY <1>7, <3>1, <3>2
    <3>4. d.panel[i - t] = panel[i - t]
      BY <2>1, <3>1, <3>3
    <3>5. RowIs(panel[i - t], view, painted.sel, i)
      BY <1>6
    <3>6. RowIs(panel[i - t], view, sel, i)
      BY <2>3, <3>5 DEF RowIs
    <3> QED
      BY <3>4, <3>6 DEF d
  <2> QED
    BY <2>2, <2>3 DEF d
<1>12. S \in SUBSET Items(view, sel) /\ Items(view, sel) \subseteq S \cup DrawnUpTo(rows, Len(rows))
  BY DEF S
<1> QED
  BY <1>1, <1>2, <1>6, <1>7, <1>8, <1>9, <1>11, <1>12, PaintStep

\* The steps that leave the cache and the panel alone.
LEMMA ScreenKept ==
    ASSUME ListInv, UNCHANGED <<art, panel>>, painted' \in {painted, Never},
           view' \in Views, sel' \in DOMAIN view', on' \in BOOLEAN, dirty' \in BOOLEAN,
           stage' \in {"render", "chips", "input"},
           on' /\ ~dirty' => painted' = [view |-> view', sel |-> sel']
    PROVE  ListInv'
<1>1. cache' = cache /\ noart' = noart /\ retried' = retried /\ panel' = panel
  BY DEF art
<1>2. ListTypeOK'
  <2>1. CacheOK(cache') /\ noart' \subseteq Albums /\ retried' \subseteq Albums /\ panel' \in [1 .. Rows -> RowShows]
    BY <1>1 DEF ListInv, ListTypeOK
  <2>2. painted' # Never => painted' \in [view : Views, sel : Nat] /\ painted'.sel \in DOMAIN painted'.view
    BY DEF ListInv, ListTypeOK
  <2> QED
    BY <2>1, <2>2 DEF ListTypeOK, Never, CacheOK
<1>3. GivenUp'
  BY <1>1 DEF ListInv, GivenUp, Wanted, Keys
<1>4. AsPainted'
  BY <1>1 DEF ListInv, AsPainted, Never, Shown, Items, RowIs, Latest, Top, Lesser
<1>5. UpToDate'
  BY DEF UpToDate
<1> QED
  BY <1>2, <1>3, <1>4, <1>5 DEF ListInv

\* A repaint of the tracks of an album.
LEMMA PaintTracksStep == ListInv /\ PaintTracks => ListInv'
<1> SUFFICES ASSUME ListInv, PaintTracks PROVE ListInv'
  OBVIOUS
<1>1. /\ cache' = cache /\ noart' = noart /\ retried' = retried
      /\ view' = view /\ sel' = sel /\ on' = on /\ ~on
      /\ panel' = Blank /\ painted' = Never /\ dirty' = FALSE /\ stage' = "chips"
  BY DEF PaintTracks, art, list
<1>2. ListTypeOK'
  <2>1. panel' \in [1 .. Rows -> RowShows]
    BY <1>1 DEF Blank, RowShows
  <2>2. /\ CacheOK(cache') /\ noart' \subseteq Albums /\ retried' \subseteq Albums
        /\ view' \in Views /\ sel' \in DOMAIN view' /\ on' \in BOOLEAN
    BY <1>1 DEF ListInv, ListTypeOK
  <2> QED
    BY <1>1, <2>1, <2>2 DEF ListTypeOK, CacheOK, Never
<1>3. GivenUp'
  BY <1>1 DEF ListInv, GivenUp, Wanted, Keys
<1>4. AsPainted' /\ UpToDate'
  BY <1>1 DEF AsPainted, UpToDate, Never
<1> QED
  BY <1>2, <1>3, <1>4 DEF ListInv

\* The steps that change the cache without drawing: the ways there are keep
\* their order.
LEMMA CacheChanged ==
    ASSUME ListInv, CacheOK(cache'), Wanted(cache)', GivenUp', noart' \subseteq Albums, retried' \subseteq Albums,
           \A V : Latest(cache, V) => Latest(cache', V),
           dirty' \in {dirty, TRUE}, UNCHANGED <<list, screen, stage>>
    PROVE  ListInv'
<1>1. /\ view' = view /\ sel' = sel /\ on' = on /\ panel' = panel /\ painted' = painted /\ stage' = stage
      /\ (dirty' = dirty \/ dirty' = TRUE)
  BY DEF list, screen
<1>2. ListTypeOK'
  <2>1. /\ view' \in Views /\ sel' \in DOMAIN view' /\ on' \in BOOLEAN /\ dirty' \in BOOLEAN
        /\ panel' \in [1 .. Rows -> RowShows] /\ stage' \in {"render", "chips", "input"}
        /\ painted' # Never => painted' \in [view : Views, sel : Nat] /\ painted'.sel \in DOMAIN painted'.view
    BY <1>1 DEF ListInv, ListTypeOK
  <2> QED
    BY <2>1 DEF ListTypeOK, CacheOK, Never
<1>3. AsPainted'
  <2>1. painted # Never => Latest(cache', Items(painted.view, painted.sel))
    BY DEF ListInv, AsPainted
  <2> QED
    BY <1>1, <2>1 DEF ListInv, AsPainted, Never, Shown, Items, RowIs, Latest, Top, Lesser
<1>4. UpToDate'
  BY <1>1 DEF ListInv, UpToDate
<1> QED
  BY <1>2, <1>3, <1>4 DEF ListInv

\* The oldest request is one.
LEMMA OldestFacts ==
    ASSUME CacheOK(cache), Queued(cache) # {}
    PROVE  Oldest \in Keys(cache)
<1> DEFINE n == Len(cache)
           T == {i \in 1 .. n : ~cache[i].loaded}
<1>1. n \in Nat /\ DOMAIN cache = 1 .. n /\ Keys(cache) = {cache[i].key : i \in 1 .. n}
  BY EntryFacts
<1> HIDE DEF n
<1>2. T # {} /\ T \in SUBSET Nat
  BY <1>1 DEF Queued
<1>3. PICK i \in T : \A k \in T : i <= k
  <2> HIDE DEF T
  <2> QED
    BY <1>2, LeastNumber
<1>4. i \in DOMAIN cache /\ ~cache[i].loaded /\ \A j \in 1 .. i - 1 : cache[j].loaded
  BY <1>1, <1>3
<1> DEFINE o == CHOOSE k \in DOMAIN cache : ~cache[k].loaded /\ \A j \in 1 .. k - 1 : cache[j].loaded
<1>5. o \in DOMAIN cache
  BY <1>4
<1>6. Oldest = cache[o].key
  BY DEF Oldest
<1> HIDE DEF o
<1> QED
  BY <1>1, <1>5, <1>6

\* A cover is loaded, or its album loses its way.
LEMMA LoadCoverStep == ListInv /\ LoadCover => ListInv'
<1> SUFFICES ASSUME ListInv, LoadCover PROVE ListInv'
  OBVIOUS
<1> DEFINE a == Oldest
<1>1. /\ CacheOK(cache) /\ Wanted(cache) /\ noart \subseteq Albums /\ retried \subseteq Albums
      /\ \A b \in noart : b \in retried \/ Good \notin {Thm[b], Art[b]}
      /\ dirty \in BOOLEAN
  BY DEF ListInv, ListTypeOK, GivenUp
<1>2. a \in Keys(cache) /\ a \in Albums
  <2>1. a \in Keys(cache)
    BY <1>1, OldestFacts DEF LoadCover
  <2> QED
    BY <1>1, <2>1, EntryFacts
<1>3. /\ PumpLoads(a) \/ PumpRetries(a) \/ PumpGivesUp(a)
      /\ UNCHANGED <<list, screen, stage>>
  BY DEF LoadCover
<1> HIDE DEF a
<1>4. CASE PumpLoads(a)
  <2> DEFINE n == Len(cache)
             d == [i \in DOMAIN cache |-> IF cache[i].key = a THEN [cache[i] EXCEPT !.loaded = TRUE] ELSE cache[i]]
  <2>1. /\ cache' = d /\ noart' = noart /\ retried' = retried /\ dirty' \in {dirty, TRUE}
    BY <1>1, <1>4 DEF PumpLoads
  <2>2. /\ n \in Nat /\ DOMAIN cache = 1 .. n /\ n <= Ways
        /\ \A i \in 1 .. n : cache[i] \in Entries
        /\ \A i, j \in 1 .. n : cache[i].key = cache[j].key => i = j
    BY <1>1, EntryFacts
  <2> HIDE DEF n
  <2>3. DOMAIN d = 1 .. n /\ \A i \in 1 .. n : d[i] \in Entries /\ d[i].key = cache[i].key
    BY <2>2 DEF Entries
  <2>4. d \in [1 .. n -> Entries]
    <3>1. d = [i \in 1 .. n |-> d[i]]
      BY <2>2
    <3> HIDE DEF d
    <3> QED
      BY <2>3, <3>1
  <2> HIDE DEF d
  <2>5. d \in Seq(Entries) /\ Len(d) = n
    BY <2>2, <2>4
  <2>6. CacheOK(d)
    BY <2>2, <2>3, <2>5 DEF CacheOK
  <2>7. Keys(d) = Keys(cache)
    BY <2>2, <2>3 DEF Keys
  <2>8. \A V : Latest(cache, V) => Latest(d, V)
    BY <2>2, <2>3 DEF Latest
  <2>9. Wanted(cache)'
    BY <1>1, <2>1, <2>7 DEF Wanted, Keys
  <2>10. GivenUp'
    BY <1>1, <2>1, <2>9 DEF GivenUp
  <2> QED
    BY <1>1, <1>3, <2>1, <2>6, <2>8, <2>9, <2>10, CacheChanged
<1>5. CASE PumpRetries(a) \/ PumpGivesUp(a)
  <2>1. cache' = Without(cache, a) /\ dirty' = dirty
    BY <1>5 DEF PumpRetries, PumpGivesUp
  <2>2. /\ CacheOK(cache') /\ \A V : Latest(cache, V) => Latest(cache', V)
        /\ Keys(cache') = Keys(cache) \ {a}
    BY <1>1, <1>2, <2>1, WithoutFacts
  <2>3. CASE PumpRetries(a)
    <3>1. noart' = noart /\ retried' = retried \cup {a}
      BY <2>3 DEF PumpRetries
    <3>2. Wanted(cache)'
      BY <1>1, <2>2, <3>1 DEF Wanted, Keys
    <3>3. GivenUp'
      BY <1>1, <3>1, <3>2 DEF GivenUp
    <3> QED
      BY <1>1, <1>2, <1>3, <2>1, <2>2, <3>1, <3>2, <3>3, CacheChanged
  <2>4. CASE PumpGivesUp(a)
    <3>1. noart' = noart \cup {a} /\ retried' = retried
      BY <2>4 DEF PumpGivesUp
    <3>2. Wanted(cache)'
      BY <1>1, <2>2, <3>1 DEF Wanted, Keys
    <3>3. a \in retried \/ Good \notin {Thm[a], Art[a]}
      <4>1. \A k : "none" \in LoadOne(a, k) => k # Good
        BY ListAssumption DEF LoadOne
      <4>2. "none" \in Loads(a) => "none" \in LoadOne(a, Thm[a]) /\ "none" \in LoadOne(a, Art[a])
        BY DEF Loads
      <4> QED
        BY <2>4, <4>1, <4>2 DEF PumpGivesUp
    <3>4. GivenUp'
      BY <1>1, <3>1, <3>2, <3>3 DEF GivenUp
    <3> QED
      BY <1>1, <1>2, <1>3, <2>1, <2>2, <3>1, <3>2, <3>4, CacheChanged
  <2> QED
    BY <1>5, <2>3, <2>4
<1> QED
  BY <1>3, <1>4, <1>5

\* The input of a pass.
LEMMA UserStep == ListInv /\ User => ListInv'
<1> SUFFICES ASSUME ListInv, User PROVE ListInv'
  OBVIOUS
<1>1. view \in Views /\ sel \in DOMAIN view /\ on \in BOOLEAN /\ dirty \in BOOLEAN
  BY DEF ListInv, ListTypeOK
<1>2. CASE EnterAlbum \/ BackToList
  BY <1>1, <1>2, ScreenKept DEF EnterAlbum, BackToList, ReadsInput, art, screen
<1>3. CASE Refresh
  BY <1>1, <1>3, ScreenKept DEF Refresh, ReadsInput, art, list
<1>4. CASE \E i \in DOMAIN view : Wheel(i)
  BY <1>1, <1>4, ScreenKept DEF Wheel, ReadsInput, art, screen
<1>5. CASE \E v \in Views : OpenList(v)
  <2>1. PICK v \in Views : OpenList(v)
    BY <1>5
  <2>2. 1 \in DOMAIN v
    <3>1. v \in Seq(Albums \cup {AllSongs}) /\ v # <<>>
      BY ListAssumption
    <3> QED
      BY <3>1
  <2> QED
    BY <1>1, <2>1, <2>2, ScreenKept DEF OpenList, ReadsInput, art
<1> QED
  BY <1>2, <1>3, <1>4, <1>5 DEF User

\* A pass that has nothing to do.
LEMMA IdleStep == ListInv /\ (Idles \/ UNCHANGED listVars) => ListInv'
<1> SUFFICES ASSUME ListInv, Idles \/ UNCHANGED listVars PROVE ListInv'
  OBVIOUS
<1>1. /\ view \in Views /\ sel \in DOMAIN view /\ on \in BOOLEAN /\ dirty \in BOOLEAN
      /\ stage \in {"render", "chips", "input"} /\ UpToDate
  BY DEF ListInv, ListTypeOK
<1>2. /\ UNCHANGED <<art, panel>> /\ painted' = painted /\ view' = view /\ sel' = sel /\ on' = on /\ dirty' = dirty
      /\ stage' \in {stage, "render", "chips", "input"}
  BY DEF Idles, Untouched, NoPaint, PumpsDone, ReadsInput, listVars, art, list, screen
<1>3. on' /\ ~dirty' => painted' = [view |-> view', sel |-> sel']
  BY <1>1, <1>2 DEF UpToDate
<1> QED
  BY <1>1, <1>2, <1>3, ScreenKept

\* The inductive invariant of the list: what the panel shows is what was
\* noted of the last paint, and the albums of that paint are the latest
\* stamps of the cache.
THEOREM ListInvariance == ListSpec => []ListInv
<1>1. ListInit => ListInv
  <2> SUFFICES ASSUME ListInit PROVE ListInv
    OBVIOUS
  <2>1. /\ cache = <<>> /\ noart = {} /\ retried = {} /\ view \in Views /\ sel = 1 /\ on = TRUE
        /\ dirty = TRUE /\ panel = Blank /\ painted = Never /\ stage = "render"
    BY DEF ListInit
  <2>2. view \in Seq(Albums \cup {AllSongs}) /\ view # <<>>
    BY <2>1, ListAssumption
  <2>3. 1 \in DOMAIN view
    BY <2>2
  <2>4. CacheOK(<<>>) /\ Keys(<<>>) = {}
    BY ListAssumption DEF CacheOK, Keys
  <2>5. panel \in [1 .. Rows -> RowShows]
    BY <2>1 DEF Blank, RowShows
  <2>6. ListTypeOK
    BY <2>1, <2>3, <2>4, <2>5 DEF ListTypeOK
  <2>7. GivenUp /\ AsPainted /\ UpToDate
    BY <2>1, <2>4 DEF GivenUp, Wanted, AsPainted, UpToDate
  <2> QED
    BY <2>6, <2>7 DEF ListInv
<1>2. ListInv /\ [ListNext]_listVars => ListInv'
  BY PaintFullStep, PaintPartialStep, PaintTracksStep, LoadCoverStep, UserStep, IdleStep DEF ListNext, Paints
<1>3. ListSpec => ListInit /\ [][ListNext]_listVars
  BY PTL DEF ListSpec
<1> QED
  BY <1>1, <1>2, <1>3, PTL

\* list_repaint_partial and artcache_get: a list without a repaint pending
\* shows the right album in every row and the bar on the selected one
\* alone, no album has two ways, and none is given up that has a cover
\* which was read.
THEOREM RowsAreRight == ListSpec => []ListSound
<1>1. ListInv => ListSound
  <2> SUFFICES ASSUME ListInv PROVE ListSound
    OBVIOUS
  <2>1. CacheOK(cache) /\ Wanted(cache) /\ \A a \in noart : a \in retried \/ Good \notin {Thm[a], Art[a]}
    BY DEF ListInv, ListTypeOK, GivenUp
  <2>2. Len(cache) <= Ways /\ Len(cache) = Cardinality(Keys(cache))
    BY <2>1, CountFacts DEF CacheOK
  <2>3. ASSUME on, ~dirty, NEW i \in Window
        PROVE  RowIs(panel[i - Top(view, sel)], view, sel, i)
    <3>1. painted = [view |-> view, sel |-> sel]
      BY <2>3 DEF ListInv, UpToDate
    <3>2. painted # Never /\ painted.view = view /\ painted.sel = sel
      <4>1. view \in Views /\ view # <<>>
        BY ListAssumption DEF ListInv, ListTypeOK
      <4> QED
        BY <3>1, <4>1 DEF Never
    <3>3. i \in Shown(view, sel)
      BY <2>3 DEF Window, Shown
    <3> QED
      BY <3>2, <3>3 DEF ListInv, AsPainted
  <2> QED
    BY <2>1, <2>2, <2>3 DEF ListSound, Wanted, RowIs
<1> QED
  BY <1>1, ListInvariance, PTL

\* artcache.c, "a visible row can never be the victim": no paint, of all
\* rows or of two, evicts a cover of the window.
THEOREM VisibleStays == ListSpec => VisibleKept
<1>1. ListInv /\ [ListNext]_listVars =>
          [PaintFull \/ PaintPartial => Visible \cap Keys(cache) \subseteq Keys(cache')]_listVars
  BY PaintFullStep, PaintPartialStep
<1>2. ListSpec => [][ListNext]_listVars
  BY PTL DEF ListSpec
<1> QED
  BY <1>1, <1>2, ListInvariance, PTL DEF VisibleKept
=============================================================================
