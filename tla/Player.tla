---- MODULE Player ----
(***************************************************************************)
(* The playback engine, core/player/player.c: the queue and its transport, *)
(* the pump the main loop calls once a pass, and the hand-over that opens  *)
(* the next track behind the audio of the last one.                        *)
(*                                                                         *)
(* The main thread runs the pump and the commands the UI issues between two*)
(* passes.  The DMA completion interrupt takes one buffer's worth out of   *)
(* the ring between any two of its steps, and the HAL holds two buffers it *)
(* has taken and not yet played.                                           *)
(*                                                                         *)
(* Abstracted: a frame stands for one decode step's worth and for one DMA  *)
(* buffer, and is named by its queue entry and its place in the file.  A   *)
(* file is its length, its rate and whether it opens.  Of the disk buffer  *)
(* only its latched error is here; its bursts, the parking of the drive and*)
(* the clock and statistics the player keeps for the screen are left out.  *)
(***************************************************************************)
EXTENDS Integers, Sequences

CONSTANTS
    Files, Folder,  \* what a queue entry may be
    Queues,         \* the queues that are launched, with a shared cover or not
    Modes,          \* the shuffle and repeat modes in use
    Frames, Rate,   \* a file's length and sample rate
    Broken, Shaky,  \* files that never open; that may or may not
    Clockable,      \* the rates the DAC can be clocked at
    HasArt,         \* files whose album has a cover
    RingFrames, PrimeFrames, SeekPrimeFrames,
    Modulus,        \* 2^32: g_written and g_boundary wrap
    ReadFaults      \* whether a read may fail in mid-file

ASSUME PlayerAssumption ==
    /\ Folder \notin Files
    /\ Queues \subseteq Seq(Files \cup {Folder}) \X BOOLEAN
    /\ Modes \subseteq BOOLEAN \X {"off", "all", "one"}
    /\ Frames \in [Files -> Nat \ {0}]
    /\ Broken \subseteq Files /\ Shaky \subseteq Files /\ HasArt \subseteq Files
    /\ RingFrames \in Nat /\ PrimeFrames \in 2..RingFrames /\ SeekPrimeFrames \in 2..RingFrames
    /\ Modulus \in Nat /\ Modulus % 2 = 0 /\ RingFrames < Modulus \div 2
    /\ ReadFaults \in BOOLEAN

VARIABLES
    g_queue, g_queue_idx, g_queue_art_shared,
    g_shuffle, g_repeat,
    g_pl_active, g_pl_paused, g_last_err, g_pl_end_seq,
    g_art,          \* whose cover is loaded
    g_dec,          \* the decoder: the entry it is open on, and where in it
    g_eos,          \* the decoder has nothing more
    dead,           \* diskbuf_error
    g_ring, g_written,
    g_pending_idx, g_boundary,  \* the hand-over that is queued, or None
    g_prefetch_tried,
    g_out_rate, running, bufs,  \* the HAL: its rate, whether the DMA runs, its buffers
    pulled,         \* the last frame it took from the ring since the stream restarted
    pc

queue == <<g_queue, g_queue_idx, g_queue_art_shared>>
modes == <<g_shuffle, g_repeat>>
transport == <<g_pl_active, g_pl_paused, g_last_err, g_pl_end_seq>>
decoder == <<g_dec, g_eos, dead>>
handover == <<g_pending_idx, g_boundary, g_prefetch_tried>>
hal == <<g_out_rate, running, bufs>>
stream == <<g_ring, g_written, pulled>>
vars == <<queue, modes, transport, g_art, decoder, handover, hal, stream, pc>>

None == 0
Silence == <<None, 0>>
Closed == [idx |-> None, pos |-> 0]
Lesser(a, b) == IF a < b THEN a ELSE b

(* A track is queued behind the audible one, at the DAC's rate or not.      *)
Pending == g_pending_idx # None
Gapless == Rate[g_queue[g_pending_idx]] = g_out_rate

Entries == DOMAIN g_queue
Frame == Entries \X Nat
TypeOK ==
    /\ g_queue \in {q[1] : q \in Queues} \cup {<<>>} /\ g_queue_idx \in Entries \cup {None}
    /\ g_queue_art_shared \in BOOLEAN
    /\ modes \in Modes
    /\ g_pl_active \in BOOLEAN /\ g_pl_paused \in BOOLEAN
    /\ g_last_err \in {"ok", "open", "rate", "read"} /\ g_pl_end_seq \in {0, 1}
    /\ g_art \in HasArt \cup {"none", "album"}
    /\ g_dec \in [idx : Entries \cup {None}, pos : Nat]
    /\ g_eos \in BOOLEAN /\ dead \in BOOLEAN
    /\ g_ring \in Seq(Frame) /\ Len(g_ring) <= RingFrames
    /\ g_written \in 0..(Modulus - 1) /\ g_boundary \in 0..(Modulus - 1)
    /\ g_pending_idx \in Entries \cup {None} /\ g_prefetch_tried \in BOOLEAN
    /\ running \in BOOLEAN
    /\ bufs \in Seq(Frame \cup {Silence}) /\ Len(bufs) \in {0, 2}
    /\ pulled \in Frame \cup {Silence}
    /\ pc \in {"loop", "decode", "end", "advance"}
    /\ g_pl_active => g_queue_idx \in Entries

Init ==
    /\ g_queue = <<>> /\ g_queue_idx = None /\ g_queue_art_shared = FALSE
    /\ \E m \in Modes : g_shuffle = m[1] /\ g_repeat = m[2]
    /\ g_pl_active = FALSE /\ g_pl_paused = FALSE /\ g_last_err = "ok" /\ g_pl_end_seq = 0
    /\ g_art = "none"
    /\ g_dec = Closed /\ g_eos = FALSE /\ dead = FALSE
    /\ g_ring = <<>> /\ g_written = 0
    /\ g_pending_idx = None /\ g_boundary = 0 /\ g_prefetch_tried = FALSE
    /\ g_out_rate = None /\ running = FALSE /\ bufs = <<>>
    /\ pulled = Silence /\ pc = "loop"

-----------------------------------------------------------------------------
(* Picking the next entry of queue q: what each entry may be followed by.   *)
Playable(q) == {i \in DOMAIN q : q[i] # Folder}
First(S) == {i \in S : \A j \in S : i <= j}
Last(S) == {i \in S : \A j \in S : i >= j}

(* queue_random_playable: any but `avoid`, when there is another.           *)
RandomPlayable(q) == [avoid \in DOMAIN q |->
    IF Playable(q) = {avoid} THEN {avoid} ELSE Playable(q) \ {avoid}]

NextPlayable(q) == [from \in DOMAIN q |->
    LET later == {j \in Playable(q) : j > from}
    IN  IF later = {} /\ g_repeat = "all" THEN First(Playable(q)) ELSE First(later)]

PrevPlayable(q) == [from \in DOMAIN q |->
    LET earlier == {j \in Playable(q) : j < from}
    IN  IF earlier = {} THEN Last(Playable(q)) ELSE Last(earlier)]

Successor(q) == IF g_shuffle THEN RandomPlayable(q) ELSE NextPlayable(q)
Predecessor(q) == IF g_shuffle THEN RandomPlayable(q) ELSE PrevPlayable(q)
AutoNext(q, from) == IF g_repeat = "one" THEN {from} ELSE Successor(q)[from]

(* track_open fails on a broken file, player_open_current also on a rate    *)
(* the DAC cannot be clocked at.                                            *)
Opens(f) == f \notin Broken
FailsOpen == Broken \cup Shaky
Plays(f) == Opens(f) /\ Rate[f] \in Clockable
Fails == FailsOpen \cup {f \in Files : Rate[f] \notin Clockable}
ErrorOf(f) == (IF f \in FailsOpen THEN {"open"} ELSE {}) \cup (IF Plays(f) \/ f \in Broken THEN {} ELSE {"rate"})

(* The entries that may have failed within the bounded attempts, each made  *)
(* at the pick after the one that failed before; those at the last attempt; *)
(* and those that may be tried.                                             *)
FailedAt(q, start, pick, failing) ==
    LET at[k \in 0..(Len(q) + 1)] ==
            IF k = 0 THEN start
            ELSE {j \in UNION {pick[i] : i \in at[k - 1]} : q[j] \in failing}
    IN  at
Within(at, from, to) == UNION {at[k] : k \in from..to}
Tried(q, at, pick) == UNION {pick[i] : i \in Within(at, 0, Len(q))}

-----------------------------------------------------------------------------
(* The steps the operations below are made of.                              *)

(* load_track_art and load_folder_art.  A zero art_clus clears the art of a *)
(* mixed queue.                                                             *)
TrackArt(f, shared) ==
    IF shared THEN "album" ELSE IF f \in HasArt THEN f ELSE "none"

(* decode_pump_upto(want) on entry i of q, from a place, behind `queued`:   *)
(* until there is enough, the file ends or a read fails.                    *)
Decode(q, i, from, queued, want, failed, n) ==
    LET room == want - Len(queued)
        most == Lesser(IF room > 0 THEN room ELSE 0, Frames[q[i]] - from)
    IN  /\ n \in 0..most
        /\ n = most \/ ReadFaults
        /\ g_dec' = [idx |-> i, pos |-> from + n]
        /\ g_eos' = (n < room)
        /\ dead' = (failed \/ n < most)
Decoded(i, from, n) == [k \in 1..n |-> <<i, from + k - 1>>]

(* A cold hal_audio_start: both buffers are filled from the ring.           *)
ColdStart(ring) ==
    /\ bufs' = [k \in 1..2 |-> IF k <= Len(ring) THEN ring[k] ELSE Silence]
    /\ g_ring' = SubSeq(ring, 3, Len(ring))
    /\ pulled' = IF ring = <<>> THEN Silence ELSE ring[Lesser(2, Len(ring))]

(* player_open_current, when it succeeds, and the pause that follows when   *)
(* the transport was paused.                                                *)
Opened(q, i, shared, paused) ==
    /\ g_queue_idx' = i /\ g_art' = TrackArt(q[i], shared)
    /\ g_pl_active' = TRUE /\ g_pl_paused' = paused /\ g_last_err' = "ok"
    /\ g_pending_idx' = None /\ g_boundary' = 0 /\ g_prefetch_tried' = FALSE
    /\ g_out_rate' = Rate[q[i]] /\ running' = ~paused
    /\ \E n \in 0..PrimeFrames :
          /\ Decode(q, i, 0, <<>>, PrimeFrames, FALSE, n)
          /\ g_written' = n
          /\ ColdStart(Decoded(i, 0, n))
    /\ UNCHANGED g_pl_end_seq

(* The player goes idle.  What it leaves behind is reset by the next open   *)
(* before anything reads it; the main loop closes the HAL.                  *)
Idle(i, paused) ==
    /\ g_queue_idx' = i
    /\ g_pl_active' = FALSE /\ g_pl_paused' = paused
    /\ g_dec' = Closed /\ g_eos' = FALSE /\ dead' = FALSE
    /\ g_ring' = <<>> /\ g_written' = 0 /\ pulled' = Silence
    /\ g_pending_idx' = None /\ g_boundary' = 0 /\ g_prefetch_tried' = FALSE
    /\ running' = FALSE /\ bufs' = <<>>
    /\ UNCHANGED <<g_art, g_out_rate>>

(* player_advance from an entry that left one of the errors `why`: the next *)
(* one that opens, or idle.                                                 *)
Advance(q, from, shared, paused, why) ==
    LET n == Len(q)
        failed == FailedAt(q, {from}, Successor(q), Fails)
        Ends(i) == Successor(q)[i] = {} /\ Idle(i, paused) /\ g_pl_end_seq' = 1 - g_pl_end_seq
    IN  \/ g_repeat = "one" /\ Plays(q[from]) /\ Opened(q, from, shared, FALSE)
        \/ /\ g_repeat = "one" => q[from] \in Fails
           /\ \/ \E j \in Tried(q, failed, Successor(q)) : Plays(q[j]) /\ Opened(q, j, shared, FALSE)
              \/ Ends(from) /\ g_last_err' \in IF g_repeat = "one" THEN ErrorOf(q[from]) ELSE why
              \/ \E i \in Within(failed, 1, n) : Ends(i) /\ g_last_err' \in ErrorOf(q[i])
              \/ \E i \in failed[n + 1] :
                    Idle(i, paused) /\ g_last_err' \in ErrorOf(q[i]) /\ UNCHANGED g_pl_end_seq

-----------------------------------------------------------------------------
(* player_pump, once a pass.                                                *)

(* The signed difference of two words.  Mistake: an unsigned one.           *)
Unsigned(x) == x % Modulus
Signed(x) ==
    LET w == x % Modulus IN IF w >= Modulus \div 2 THEN w - Modulus ELSE w

(* pending_commit at the same rate.  Mistake: it resets the ring, as the    *)
(* other openings do.                                                       *)
CommitResetting ==
    /\ g_queue_idx' = g_pending_idx
    /\ g_art' = TrackArt(g_queue[g_pending_idx], g_queue_art_shared)
    /\ g_pending_idx' = None /\ g_boundary' = 0 /\ g_prefetch_tried' = FALSE
    /\ g_last_err' = "ok"
    /\ g_ring' = <<>> /\ g_written' = 0
    /\ UNCHANGED <<g_pl_active, g_pl_paused, g_pl_end_seq, decoder, hal, pulled>>
CommitGapless ==
    /\ g_queue_idx' = g_pending_idx
    /\ g_art' = TrackArt(g_queue[g_pending_idx], g_queue_art_shared)
    /\ g_pending_idx' = None /\ g_boundary' = 0 /\ g_prefetch_tried' = FALSE
    /\ g_last_err' = "ok"
    /\ UNCHANGED <<g_pl_active, g_pl_paused, g_pl_end_seq, decoder, hal, stream>>

(* At another rate: prime, and clock the DAC anew.                          *)
CommitReclocked ==
    /\ Rate[g_queue[g_pending_idx]] \in Clockable
    /\ g_queue_idx' = g_pending_idx
    /\ g_art' = TrackArt(g_queue[g_pending_idx], g_queue_art_shared)
    /\ g_pending_idx' = None /\ g_boundary' = 0 /\ g_prefetch_tried' = FALSE
    /\ g_last_err' = "ok"
    /\ \E n \in 0..PrimeFrames :
          /\ Decode(g_queue, g_pending_idx, g_dec.pos, g_ring, PrimeFrames, dead, n)
          /\ g_written' = (g_written + n) % Modulus
          /\ ColdStart(g_ring \o Decoded(g_pending_idx, g_dec.pos, n))
    /\ g_out_rate' = Rate[g_queue[g_pending_idx]] /\ running' = TRUE
    /\ UNCHANGED <<g_pl_active, g_pl_paused, g_pl_end_seq>>
CommitUnclockable ==
    /\ Rate[g_queue[g_pending_idx]] \notin Clockable
    /\ Advance(g_queue, g_pending_idx, g_queue_art_shared, FALSE, {"rate"})

(* Has the track that is queued reached the speakers?                       *)
Reached == Pending /\ Signed(g_written - Len(g_ring) - g_boundary) >= 0

PumpCommit ==
    /\ pc = "loop" /\ g_pl_active /\ ~g_pl_paused
    /\ \/ ~Reached /\ UNCHANGED <<g_queue_idx, g_art, transport, decoder, handover, hal, stream>>
       \/ Reached /\ Gapless /\ CommitGapless
       \/ Reached /\ ~Gapless /\ CommitReclocked
       \/ Reached /\ ~Gapless /\ CommitUnclockable
    /\ pc' = IF g_pl_active' THEN "decode" ELSE "loop"
    /\ UNCHANGED <<g_queue, g_queue_art_shared, modes>>

(* decode_step, held back while a track at another rate is queued.          *)
(* Mistakes: without the hold; without a look at the room in the ring.      *)
Held == Pending /\ ~Gapless
DecodeStep ==
    \/ /\ g_dec.pos < Frames[g_queue[g_dec.idx]]
       /\ g_ring' = Append(g_ring, <<g_dec.idx, g_dec.pos>>)
       /\ g_written' = (g_written + 1) % Modulus
       /\ g_dec' = [g_dec EXCEPT !.pos = @ + 1]
       /\ UNCHANGED g_eos
    \/ /\ g_dec.pos = Frames[g_queue[g_dec.idx]] \/ dead'
       /\ g_eos' = TRUE
       /\ UNCHANGED <<g_ring, g_written, g_dec>>
PumpUnheld ==
    /\ pc = "decode" /\ pc' = "end"
    /\ IF g_eos \/ Len(g_ring) = RingFrames
       THEN UNCHANGED <<decoder, g_ring, g_written>>
       ELSE dead' = dead /\ DecodeStep
    /\ UNCHANGED <<queue, modes, transport, g_art, handover, hal, pulled>>
PumpDecode ==
    /\ pc = "decode" /\ pc' = "end"
    /\ IF Held \/ g_eos \/ Len(g_ring) = RingFrames
       THEN UNCHANGED <<decoder, g_ring, g_written>>
       ELSE dead' \in {dead, dead \/ ReadFaults} /\ DecodeStep
    /\ UNCHANGED <<queue, modes, transport, g_art, handover, hal, pulled>>

(* prefetch_next: the first entry that opens, over the decoder that has     *)
(* finished.  When none does that decoder is gone.                          *)
Prefetched(some, err) ==
    \E j \in some :
        /\ Opens(g_queue[j])
        /\ g_pending_idx' = j /\ g_boundary' = g_written
        /\ g_dec' = [idx |-> j, pos |-> 0] /\ g_eos' = FALSE /\ dead' = FALSE
        /\ g_last_err' = err
NothingOpens ==
    /\ g_dec' = Closed /\ dead' \in {FALSE, ReadFaults} /\ UNCHANGED g_eos
    /\ g_last_err' = "open"
    /\ UNCHANGED <<g_pending_idx, g_boundary>>
PrefetchNext ==
    LET n == Len(g_queue)
        first == AutoNext(g_queue, g_queue_idx)
        failed == FailedAt(g_queue, {j \in first : g_queue[j] \in FailsOpen}, NextPlayable(g_queue), FailsOpen)
        before == Within(failed, 0, n - 1)
    IN  \/ first = {} /\ UNCHANGED <<decoder, g_last_err, g_pending_idx, g_boundary>>
        \/ Prefetched(first, g_last_err)
        \/ Prefetched(UNION {NextPlayable(g_queue)[i] : i \in before}, "open")
        \/ (failed[n] # {} \/ \E i \in before : NextPlayable(g_queue)[i] = {}) /\ NothingOpens

(* The end of the pump: nothing to do until the decoder has finished.       *)
PumpNothing ==
    /\ pc = "end" /\ pc' = "loop"
    /\ ~g_eos \/ (dead /\ g_ring # <<>>)
    /\ UNCHANGED <<queue, modes, transport, g_art, decoder, handover, hal, stream>>

(* A read failed: what has been decoded is played out first.  Mistake: the  *)
(* player goes idle and does not say why.                                   *)
PumpReadErrorUntold ==
    /\ pc = "end" /\ pc' = "loop"
    /\ g_eos /\ dead /\ g_ring = <<>>
    /\ Idle(g_queue_idx, FALSE) /\ UNCHANGED <<g_last_err, g_pl_end_seq>>
    /\ UNCHANGED <<g_queue, g_queue_art_shared, modes>>
PumpReadError ==
    /\ pc = "end" /\ pc' = "loop"
    /\ g_eos /\ dead /\ g_ring = <<>>
    /\ Idle(g_queue_idx, FALSE) /\ g_last_err' = "read" /\ UNCHANGED g_pl_end_seq
    /\ UNCHANGED <<g_queue, g_queue_art_shared, modes>>

(* The track is decoded: open the next one behind what is left of it, once. *)
PumpPrefetch ==
    /\ pc = "end"
    /\ g_eos /\ ~dead /\ ~Pending /\ ~g_prefetch_tried
    /\ g_prefetch_tried' = TRUE
    /\ PrefetchNext
    /\ pc' = IF g_pending_idx' = None /\ g_ring = <<>> THEN "advance" ELSE "loop"
    /\ UNCHANGED <<queue, modes, g_pl_active, g_pl_paused, g_pl_end_seq, g_art, hal, stream>>

(* It was tried: wait for the hand-over, or for the ring to run dry.        *)
(* Mistake: wait for the hand-over only.                                    *)
PumpWaitOnly ==
    /\ pc = "end" /\ pc' = "loop"
    /\ g_eos /\ ~dead /\ (Pending \/ g_prefetch_tried)
    /\ UNCHANGED <<queue, modes, transport, g_art, decoder, handover, hal, stream>>
PumpWait ==
    /\ pc = "end"
    /\ g_eos /\ ~dead /\ (Pending \/ g_prefetch_tried)
    /\ pc' = IF ~Pending /\ g_ring = <<>> THEN "advance" ELSE "loop"
    /\ UNCHANGED <<queue, modes, transport, g_art, decoder, handover, hal, stream>>

PumpAdvance ==
    /\ pc = "advance" /\ pc' = "loop"
    /\ Advance(g_queue, g_queue_idx, g_queue_art_shared, FALSE, {g_last_err})
    /\ UNCHANGED <<g_queue, g_queue_art_shared, modes>>

Pump ==
    \/ PumpCommit \/ PumpDecode \/ PumpNothing \/ PumpReadError
    \/ PumpPrefetch \/ PumpWait \/ PumpAdvance

(* The DMA has played a buffer: it goes on with the other and the HAL       *)
(* refills it from the ring, with silence when there is nothing.            *)
Pull ==
    /\ running
    /\ bufs' = <<bufs[2], IF g_ring = <<>> THEN Silence ELSE Head(g_ring)>>
    /\ g_ring' = IF g_ring = <<>> THEN <<>> ELSE Tail(g_ring)
    /\ pulled' = IF g_ring = <<>> THEN pulled ELSE Head(g_ring)
    /\ UNCHANGED <<queue, modes, transport, g_art, decoder, handover, g_out_rate, running, g_written, pc>>

-----------------------------------------------------------------------------
(* The commands, between two passes of the pump.                            *)
PausedAfterStop == g_pl_paused /\ ~g_pl_active

(* player_play_queue, an album with one cover or a folder without, and      *)
(* player_queue_begin .. player_queue_commit, a mixed queue.                *)
Launch(q, start, shared) ==
    /\ pc = "loop"
    /\ g_queue' = q /\ g_queue_art_shared' = shared
    /\ \/ Plays(q[start]) /\ Opened(q, start, shared, FALSE)
       \/ q[start] \in Fails /\ Advance(q, start, shared, PausedAfterStop, ErrorOf(q[start]))
    /\ UNCHANGED <<modes, pc>>

Stop ==
    /\ pc = "loop" /\ g_pl_active
    /\ Idle(g_queue_idx, FALSE)
    /\ UNCHANGED <<g_queue, g_queue_art_shared, modes, g_last_err, g_pl_end_seq, pc>>

TogglePause ==
    /\ pc = "loop" /\ g_pl_active
    /\ g_pl_paused' = ~g_pl_paused /\ running' = g_pl_paused
    /\ UNCHANGED <<queue, modes, g_pl_active, g_last_err, g_pl_end_seq, g_art, decoder, handover, g_out_rate, bufs, stream, pc>>

Jump(i) ==
    /\ pc = "loop" /\ i \in Playable(g_queue)
    /\ \/ Plays(g_queue[i]) /\ Opened(g_queue, i, g_queue_art_shared, g_pl_paused)
       \/ g_queue[i] \in Fails /\ Advance(g_queue, i, g_queue_art_shared, PausedAfterStop, ErrorOf(g_queue[i]))
    /\ UNCHANGED <<g_queue, g_queue_art_shared, modes, pc>>

(* player_next and player_prev: a bounded walk that keeps the pause.        *)
Skip(pick) ==
    LET failed == FailedAt(g_queue, {g_queue_idx}, pick, Fails)
        n == Len(g_queue)
    IN  \/ \E j \in Tried(g_queue, failed, pick) :
              Plays(g_queue[j]) /\ Opened(g_queue, j, g_queue_art_shared, g_pl_paused)
        \/ \E i \in {j \in Within(failed, 1, n) : pick[j] = {}} \cup failed[n + 1] :
              /\ Idle(i, g_pl_paused)
              /\ g_last_err' \in ErrorOf(g_queue[i]) /\ UNCHANGED g_pl_end_seq

NextTrack ==
    /\ pc = "loop" /\ g_pl_active
    /\ \/ Skip(Successor(g_queue))
       \/ /\ Successor(g_queue)[g_queue_idx] = {}
          /\ Idle(g_queue_idx, FALSE)
          /\ g_pl_end_seq' = 1 - g_pl_end_seq /\ UNCHANGED g_last_err
    /\ UNCHANGED <<g_queue, g_queue_art_shared, modes, pc>>

(* player_prev, in the first three seconds; later on it is Jump(g_queue_idx).*)
PrevTrack ==
    /\ pc = "loop" /\ g_pl_active
    /\ Skip(Predecessor(g_queue))
    /\ UNCHANGED <<g_queue, g_queue_art_shared, modes, pc>>

(* player_seek_to.  The HAL keeps the two buffers it holds.  A decoder that *)
(* is gone is not sought in here: see SeekAlwaysInTrack.                    *)
Seek(to) ==
    /\ pc = "loop" /\ g_pl_active /\ ~Pending
    /\ g_dec.idx = g_queue_idx
    /\ g_prefetch_tried' = FALSE /\ g_boundary' = 0
    /\ \E n \in 0..SeekPrimeFrames :
          /\ Decode(g_queue, g_queue_idx, to, <<>>, SeekPrimeFrames, dead, n)
          /\ g_written' = n /\ g_ring' = Decoded(g_queue_idx, to, n)
    /\ pulled' = Silence
    /\ UNCHANGED <<queue, modes, transport, g_art, g_pending_idx, hal, pc>>

SetModes ==
    /\ pc = "loop"
    /\ \E m \in Modes : g_shuffle' = m[1] /\ g_repeat' = m[2]
    /\ UNCHANGED <<queue, transport, g_art, decoder, handover, hal, stream, pc>>

Command ==
    \/ \E q \in Queues : \E i \in Playable(q[1]) : Launch(q[1], i, q[2])
    \/ Stop \/ TogglePause \/ NextTrack \/ PrevTrack \/ SetModes
    \/ \E i \in Entries : Jump(i)
    \/ g_pl_active /\ \E to \in 0..(Frames[g_queue[g_queue_idx]] - 1) : Seek(to)

Next == Pump \/ Pull \/ Command

(* The main loop pumps on every pass and the DMA runs while it is on.       *)
Spec == Init /\ [][Next]_vars /\ WF_vars(Pump) /\ WF_vars(Pull)

-----------------------------------------------------------------------------
\* No frame is ever clocked at another track's rate: whatever the DAC is
\* playing or about to play was decoded from a file of the rate it is clocked
\* at, through prefetches, failed prefetches, skips and seeks (player_pump's
\* hold on decode_step, pending_commit).
RateMatches ==
    running => \A x \in {bufs[k] : k \in DOMAIN bufs} \cup {g_ring[k] : k \in DOMAIN g_ring} :
        x = Silence \/ Rate[g_queue[x[1]]] = g_out_rate

\* A seek never leaves the track that is played: with nothing pending the
\* decoder is open on it, until a prefetch has been tried (player_seek_to).
SeekStaysInTrack ==
    pc = "loop" /\ g_pl_active /\ ~Pending /\ ~g_prefetch_tried => g_dec.idx = g_queue_idx

\* The two together, with the types: what is decoded, sought in and clocked
\* belongs to the track it is taken for.
EngineSound == TypeOK /\ RateMatches /\ SeekStaysInTrack

\* The screen changes over to a queued track with the sound: after the check
\* of every pass the next frame out of the ring is one of the track that is
\* shown, neither before it nor after it, across the wrap of the frame count.
\* The cover shown is the one of the track shown: the album's, the track's
\* own, or none.
TitleMatches ==
    PumpCommit /\ g_pl_active' /\ g_ring' # <<>> => Head(g_ring')[1] = g_queue_idx'
ArtIsOfTrack ==
    g_pl_active =>
        IF g_queue_art_shared THEN g_art = "album"
        ELSE LET f == g_queue[g_queue_idx] IN g_art = IF f \in HasArt THEN f ELSE "none"
ShownIsHeard == []ArtIsOfTrack /\ [][TitleMatches]_vars

\* From one restart of the stream to the next every frame leaves the ring in
\* order and none is missing, over the hand-overs too: the next frame is the
\* next of its file, or the first of a file after the last of one.
NothingSkipped ==
    [][Pull /\ pulled # Silence /\ g_ring # <<>> =>
          LET x == Head(g_ring) IN
          \/ x = <<pulled[1], pulled[2] + 1>>
          \/ x[2] = 0 /\ pulled[2] = Frames[g_queue[pulled[1]]] - 1]_vars

\* The player does not fall silent without a reason: when the pump or a skip
\* leaves it idle, the queue has ended or the error is known.
IdleIsExplained ==
    [][g_pl_active /\ ~g_pl_active' /\ ~Stop => g_pl_end_seq' # g_pl_end_seq \/ g_last_err' # "ok"]_vars

\* A player that is on and not paused never stays silent: it gets more to
\* play, goes idle, or is paused.
Silent == running /\ g_ring = <<>> /\ \A k \in DOMAIN bufs : bufs[k] = Silence
SilenceEnds == Silent ~> ~Silent

\* What has been decoded is heard: when the pump stops the output nothing that
\* was taken from the ring is still unplayed ("Play out what is already
\* decoded, then stop", player_pump; "the ring has just run dry at exactly
\* this point", pending_commit).
TailHeard ==
    [][Pump /\ bufs' # bufs => \A k \in DOMAIN bufs : bufs[k] = Silence]_vars

\* Whenever a seek would call the decoder, it is open on the track that is
\* played: a finished decoder "is at EOS, so nothing will call into it again"
\* (prefetch_next).  The code does not keep to this after a prefetch that
\* opened nothing.
SeekAlwaysInTrack == pc = "loop" /\ g_pl_active /\ ~Pending => g_dec.idx = g_queue_idx
====
