------------------------------ MODULE AudioHal ------------------------------
(***************************************************************************)
(* core/hal/hw/audio.c over core/hal/hw/dma.c: two PCM buffers drained in  *)
(* turn by a single-shot DMA channel.  The completion interrupt kicks the  *)
(* other buffer and refills the one that drained; hal_audio_stop and       *)
(* hal_audio_start pause and resume in the middle of a buffer.             *)
(*                                                                         *)
(* Three actors: the foreground (start, stop, init, close), the completion *)
(* ISR, which preempts it whenever IRQ 26 is enabled, and the DMA engine,  *)
(* which clocks one frame out per frame time.  A foreground call is a      *)
(* sequence of steps, the other two may run between them.                  *)
(*                                                                         *)
(* A frame is its position in the stream the source delivers.              *)
(***************************************************************************)
EXTENDS Integers, Sequences

CONSTANTS
    B,            \* AUDIO_FRAMES_PER_BUF
    Pulls,        \* what the source may return when asked for B frames
    MaxStream,    \* bound: length of the stream
    MaxStops,     \* bound: calls of hal_audio_stop
    Patterns      \* the ways the foreground may call stop; see Pattern

ASSUME BAssumption     == B \in Nat \ {0}
ASSUME PullsAssumption == Pulls \subseteq 0 .. B
ASSUME BoundAssumption == MaxStream \in Nat /\ MaxStops \in Nat

\* perKick: pauses while the same buffer is being played; atEnd: a stop may
\* catch the DMA between its last frame and the ISR; again: hal_audio_stop
\* may be called while already stopped.
Pattern == [perKick : Nat, atEnd : BOOLEAN, again : BOOLEAN]
Gentle == [perKick |-> 1, atEnd |-> FALSE, again |-> FALSE]

ASSUME CallAssumption == Patterns \subseteq Pattern

VARIABLES
    audio_buf,    \* the two buffers, B frames each
    active,       \* g_active: the buffer the DMA is draining
    running,      \* g_running
    primed,       \* g_primed: both buffers hold PCM already pulled
    kick,         \* [off, n]: where the outstanding kick began, g_kick_bytes
    since,        \* frame times since g_kick_us, saturating at B
    stop_done,    \* g_stop_done: frames of the kick clocked when it was cut
    irq_on,       \* IRQ 26 enabled in CPU_INT_EN
    frozen,       \* clock_set_audio_dma_active: CPU and SDRAM clocks held
    dma,          \* the channel: [buf, off, left, intr]
    pc,           \* where the foreground is
    isr,          \* the buffer the ISR is about to refill, or None
    pulled,       \* frames taken from the source so far
    heard,        \* history: the frames clocked into the DAC, silence left out
    stops,        \* history: calls of hal_audio_stop, and those of this kick
    kickStops,
    calls         \* the pattern the foreground keeps to, never changed

outputVars == <<audio_buf, active, running, primed, kick, since, stop_done, irq_on,
                frozen, dma, pc, isr, pulled, heard, stops, kickStops, calls>>
fgVars == <<pc, stops, kickStops, calls>>

Bufs == {0, 1}
Other(b) == 1 - b
None == 2
Silence == 0                       \* the zero padding of a short read
Frames == 1 .. MaxStream
Smaller(a, b) == IF a < b THEN a ELSE b

PCs == {"idle", "stop_mask", "stop_cut", "start_kick", "closed"}

-----------------------------------------------------------------------------
(***************************************************************************)
(* The pieces the entry points are made of.                                *)
(***************************************************************************)

\* fill_buffer's read of the source: up to n frames, padded with silence.
Filled(from, n) == [j \in 1 .. B |-> IF j <= n THEN from + j ELSE Silence]
Got(n) == Smaller(n, MaxStream - pulled)

\* audio_kick, and dma_playback_kick under it.
Kick(b, off, n) ==
    /\ kick' = [off |-> off, n |-> n]
    /\ since' = 0
    /\ dma' = [buf |-> b, off |-> off, left |-> n, intr |-> FALSE]

\* hal_audio_init: the state it clears, whatever it was.
HalInit ==
    /\ audio_buf = [b \in Bufs |-> [j \in 1 .. B |-> Silence]]
    /\ active = 0 /\ running = FALSE /\ primed = FALSE
    /\ kick = [off |-> 0, n |-> 0] /\ since = 0 /\ stop_done = 0
    /\ irq_on = FALSE /\ frozen = FALSE
    /\ dma = [buf |-> 0, off |-> 0, left |-> 0, intr |-> FALSE]
    /\ pulled = 0 /\ heard = <<>>

OutputInit ==
    /\ HalInit
    /\ pc = "idle" /\ isr = None
    /\ stops = 0 /\ kickStops = 0
    /\ calls \in Patterns

-----------------------------------------------------------------------------
(***************************************************************************)
(* hal_audio_start.  The interrupt is enabled and the clocks are frozen    *)
(* first; then either the outstanding kick is picked up where it was cut   *)
(* (RESUME) or both buffers are primed (COLD START).                       *)
(***************************************************************************)
StartEnable ==
    /\ pc = "idle" /\ isr = None /\ ~running
    /\ pc' = "start_kick"
    /\ irq_on' = TRUE /\ frozen' = TRUE
    /\ UNCHANGED <<audio_buf, active, running, primed, kick, since, stop_done,
                   dma, isr, pulled, heard, stops, kickStops, calls>>

Left == kick.n - Smaller(stop_done, kick.n)

ResumeInside ==
    /\ pc = "start_kick" /\ isr = None /\ primed
    /\ Left > 0
    /\ Kick(active, Smaller(stop_done, kick.n), Left)
    /\ UNCHANGED <<active, kickStops>>

ResumeOther ==
    /\ pc = "start_kick" /\ isr = None /\ primed
    /\ Left = 0
    /\ active' = Other(active)
    /\ Kick(Other(active), 0, B)
    /\ kickStops' = 0

Resume ==
    /\ ResumeInside \/ ResumeOther
    /\ running' = TRUE /\ pc' = "idle"
    /\ UNCHANGED <<audio_buf, primed, stop_done, irq_on, frozen, isr, pulled,
                   heard, stops, calls>>

\* Mutant: every start primes both buffers, as it did before the resume path.
ColdStartOnResume ==
    /\ pc = "start_kick" /\ isr = None
    /\ audio_buf' = [b \in Bufs |-> Filled(pulled + b * B, Smaller(B, MaxStream - pulled))]
    /\ pulled' = Smaller(pulled + 2 * B, MaxStream)
    /\ active' = 0 /\ running' = TRUE /\ primed' = TRUE /\ pc' = "idle"
    /\ Kick(0, 0, B) /\ kickStops' = 0
    /\ UNCHANGED <<stop_done, irq_on, frozen, isr, heard, stops, calls>>

ColdStart ==
    /\ pc = "start_kick" /\ isr = None /\ ~primed
    /\ \E n0, n1 \in Pulls :
        LET g0 == Got(n0)
            g1 == Smaller(n1, MaxStream - pulled - g0)
        IN  /\ audio_buf' = [b \in Bufs |-> IF b = 0 THEN Filled(pulled, g0)
                                                     ELSE Filled(pulled + g0, g1)]
            /\ pulled' = pulled + g0 + g1
    /\ active' = 0 /\ running' = TRUE /\ primed' = TRUE /\ pc' = "idle"
    /\ Kick(0, 0, B)
    /\ kickStops' = 0
    /\ UNCHANGED <<stop_done, irq_on, frozen, isr, heard, stops, calls>>

\* Mutants: the clocks released before the channel is cut; the channel not cut.
StopMaskThawing ==
    /\ pc = "stop_mask" /\ isr = None
    /\ pc' = "stop_cut"
    /\ irq_on' = FALSE /\ frozen' = FALSE
    /\ UNCHANGED <<audio_buf, active, running, primed, kick, since, stop_done,
                   dma, isr, pulled, heard, stops, kickStops, calls>>
StopNoCut ==
    /\ pc = "stop_cut" /\ isr = None
    /\ pc' = "idle"
    /\ stop_done' = Smaller(since, kick.n)
    /\ frozen' = FALSE
    /\ UNCHANGED <<audio_buf, active, running, primed, kick, since, irq_on, dma,
                   isr, pulled, heard, stops, kickStops, calls>>

(***************************************************************************)
(* hal_audio_stop: mute and clear g_running, mask the interrupt, then cut  *)
(* the channel and sample how far it had got.  It does not look whether    *)
(* it is already stopped.  dma_playback_stop polls the status register,    *)
(* which clears a completion that was latched.                             *)
(***************************************************************************)
MayStop ==
    /\ stops < MaxStops
    /\ calls.again \/ running
    /\ running => kickStops < calls.perKick
    /\ calls.atEnd \/ dma.left # 0 \/ ~running

Stop ==
    /\ pc = "idle" /\ isr = None /\ MayStop
    /\ pc' = "stop_mask"
    /\ running' = FALSE
    /\ stops' = stops + 1
    /\ kickStops' = IF running THEN kickStops + 1 ELSE kickStops
    /\ UNCHANGED <<audio_buf, active, primed, kick, since, stop_done, irq_on,
                   frozen, dma, isr, pulled, heard, calls>>

StopMask ==
    /\ pc = "stop_mask" /\ isr = None
    /\ pc' = "stop_cut"
    /\ irq_on' = FALSE
    /\ UNCHANGED <<audio_buf, active, running, primed, kick, since, stop_done,
                   frozen, dma, isr, pulled, heard, stops, kickStops, calls>>

StopCut ==
    /\ pc = "stop_cut" /\ isr = None
    /\ pc' = "idle"
    /\ dma' = [dma EXCEPT !.left = 0, !.intr = FALSE]
    /\ stop_done' = Smaller(since, kick.n)
    /\ frozen' = FALSE
    /\ UNCHANGED <<audio_buf, active, running, primed, kick, since, irq_on, isr,
                   pulled, heard, stops, kickStops, calls>>

(***************************************************************************)
(* hal_audio_close after a stop: only hal_audio_init may follow.  Init, by *)
(* audio_bringup with the output stopped, begins a new stream.             *)
(***************************************************************************)
Close ==
    /\ pc = "idle" /\ isr = None /\ ~running
    /\ primed' = FALSE
    /\ pc' = "closed"
    /\ UNCHANGED <<audio_buf, active, running, kick, since, stop_done, irq_on,
                   frozen, dma, isr, pulled, heard, stops, kickStops, calls>>

Open ==
    /\ pc \in {"idle", "closed"} /\ isr = None /\ ~running
    /\ pc' = "idle"
    /\ active' = 0 /\ primed' = FALSE /\ running' = FALSE
    /\ pulled' = 0 /\ heard' = <<>> /\ kickStops' = 0
    /\ dma' = [dma EXCEPT !.intr = FALSE]
    /\ UNCHANGED <<audio_buf, kick, since, stop_done, irq_on, frozen, isr, stops, calls>>

-----------------------------------------------------------------------------
\* Mutant: the ISR refills without kicking.
IsrNoKick ==
    /\ dma.intr /\ irq_on /\ isr = None /\ running
    /\ dma' = [dma EXCEPT !.intr = FALSE]
    /\ active' = Other(active) /\ isr' = active /\ kickStops' = 0
    /\ UNCHANGED <<audio_buf, running, primed, kick, since, stop_done, irq_on,
                   frozen, pulled, heard, pc, stops, calls>>

(***************************************************************************)
(* audio_dma_isr: acknowledge; if running, kick the buffer that is already *)
(* full and only then refill the one that drained.                         *)
(***************************************************************************)
IsrIgnored ==
    /\ dma.intr /\ irq_on /\ isr = None /\ ~running
    /\ dma' = [dma EXCEPT !.intr = FALSE]
    /\ UNCHANGED <<audio_buf, active, running, primed, kick, since, stop_done,
                   irq_on, frozen, isr, pulled, heard, fgVars>>

IsrKick ==
    /\ dma.intr /\ irq_on /\ isr = None /\ running
    /\ Kick(Other(active), 0, B)
    /\ active' = Other(active)
    /\ isr' = active
    /\ kickStops' = 0
    /\ UNCHANGED <<audio_buf, running, primed, stop_done, irq_on, frozen,
                   pulled, heard, pc, stops, calls>>

IsrRefill ==
    /\ isr # None
    /\ \E n \in Pulls :
        /\ audio_buf' = [audio_buf EXCEPT ![isr] = Filled(pulled, Got(n))]
        /\ pulled' = pulled + Got(n)
    /\ isr' = None
    /\ UNCHANGED <<active, running, primed, kick, since, stop_done, irq_on,
                   frozen, dma, heard, fgVars>>

(***************************************************************************)
(* One frame time passes.  The channel clocks a frame out of memory and    *)
(* raises the completion after the last; an idle channel clocks nothing.   *)
(***************************************************************************)
ClockOut ==
    /\ dma.left > 0
    /\ calls.atEnd \/ dma.left > 1 \/ pc = "idle"
    /\ LET f == audio_buf[dma.buf][dma.off + 1]
       IN  heard' = IF f = Silence THEN heard ELSE Append(heard, f)
    /\ dma' = [dma EXCEPT !.off = @ + 1, !.left = @ - 1, !.intr = dma.left = 1]
    /\ since' = Smaller(since + 1, B)
    /\ UNCHANGED <<audio_buf, active, running, primed, kick, stop_done, irq_on,
                   frozen, pc, isr, pulled, stops, kickStops, calls>>

IdleTime ==
    /\ dma.left = 0 /\ since < B
    /\ since' = since + 1
    /\ UNCHANGED <<audio_buf, active, running, primed, kick, stop_done, irq_on,
                   frozen, dma, pc, isr, pulled, heard, stops, kickStops, calls>>

Isr == IsrIgnored \/ IsrKick \/ IsrRefill
Start == StartEnable \/ Resume \/ ColdStart
Stopping == StopMask \/ StopCut

OutputNext == Start \/ Stop \/ Stopping \/ Close \/ Open \/ Isr \/ ClockOut \/ IdleTime

OutputSpec == OutputInit /\ [][OutputNext]_outputVars

\* The engine is clocked by the codec, a pending interrupt is taken, and a
\* foreground call that has begun runs to its end.
FairSpec ==
    OutputSpec /\ WF_outputVars(ClockOut) /\ WF_outputVars(Isr)
               /\ WF_outputVars(Resume \/ ColdStart) /\ WF_outputVars(Stopping)

-----------------------------------------------------------------------------
OutputTypeOK ==
    /\ audio_buf \in [Bufs -> [1 .. B -> Frames \cup {Silence}]]
    /\ active \in Bufs /\ running \in BOOLEAN /\ primed \in BOOLEAN
    /\ kick \in [off : 0 .. B, n : 0 .. B]
    /\ since \in 0 .. B /\ stop_done \in 0 .. B
    /\ irq_on \in BOOLEAN /\ frozen \in BOOLEAN
    /\ dma \in [buf : Bufs, off : 0 .. B, left : 0 .. B, intr : BOOLEAN]
    /\ pc \in PCs /\ isr \in Bufs \cup {None}
    /\ pulled \in 0 .. MaxStream /\ heard \in Seq(Frames)
    /\ stops \in 0 .. MaxStops /\ kickStops \in 0 .. MaxStops

\* hal.h: "a subsequent hal_audio_start resumes from where we left off ...
\* no already-decoded audio is discarded".  What reaches the DAC is the
\* source's stream from its first frame, with nothing lost, repeated or
\* swapped, whatever pauses and interrupts fall where, as long as the pauses
\* come one to a buffer, off its boundary, and none while already stopped.
HeardInOrder ==
    calls = Gentle => \A k \in 1 .. Len(heard) : heard[k] = k

\* The buffer the ISR refills is never the one the DMA is clocking out.
RefillNotPlaying == isr # None /\ dma.left > 0 => dma.buf # isr

\* The CPU and SDRAM clocks are held for as long as the channel reads SDRAM.
ClocksHeld == dma.left > 0 => frozen

\* Whatever the pattern of calls: the channel never reads what is being
\* written, nor memory whose clock may change.
DmaSafe == OutputTypeOK /\ RefillNotPlaying /\ ClocksHeld

\* Once hal_audio_stop has returned nothing more is clocked out: a paused
\* player is silent and its position does not move.
QuietWhenStopped ==
    [][pc = "idle" /\ ~running => heard' \in {heard, <<>>}]_outputVars

\* Whatever has been pulled is heard, to the end of the stream, unless the
\* output is stopped: the ISR keeps the two buffers turning.
PulledIsHeard ==
    calls = Gentle /\ running ~> Len(heard) = pulled \/ ~running
=============================================================================
