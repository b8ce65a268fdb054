------------------------------ MODULE PcmRing ------------------------------
(***************************************************************************)
(* core/kernel/pcm_ring.c: the single-producer single-consumer ring that   *)
(* carries decoded PCM from the foreground decode loop (producer) to the   *)
(* DMA-completion ISR (consumer).                                          *)
(*                                                                         *)
(* pcm_ring_write and pcm_ring_read are not atomic: each samples both      *)
(* indices once, copies frame by frame and only then publishes its own     *)
(* index, and the other side may run between any two of those steps.  The  *)
(* indices are machine words: they wrap at a multiple of the capacity.     *)
(*                                                                         *)
(* A frame is represented by its position in the stream the producer       *)
(* writes, so a lost, repeated or overwritten frame is visible as a number *)
(* out of place.                                                           *)
(***************************************************************************)
EXTENDS Integers, Sequences

CONSTANTS
    Cap,         \* cap_frames: capacity in frames
    Laps,        \* the index type holds Laps * Cap values (2^32 in the code)
    MaxFrames    \* bound: frames the producer publishes before it stops

ASSUME CapAssumption       == Cap \in Nat \ {0}
ASSUME LapsAssumption      == Laps \in Nat \ {0, 1}
ASSUME MaxFramesAssumption == MaxFrames \in Nat

VARIABLES
    buf,        \* the backing store, one entry per slot
    wr,         \* frames written, published by the producer (wraps)
    rd,         \* frames consumed, published by the consumer (wraps)
    prod,       \* the producer's call: [busy, n frames granted, i copied]
    cons,       \* the consumer's call, likewise
    published,  \* history: frames published since pcm_ring_init
    delivered   \* history: the frames copied out since pcm_ring_init

vars == <<buf, wr, rd, prod, cons, published, delivered>>

Word == Laps * Cap
Indices == 0 .. Word - 1
Slots == 0 .. Cap - 1
NoFrame == -1                      \* what a slot holds before it is written

Add(a, b) == (a + b) % Word        \* uint32_t addition
Sub(a, b) == (a - b) % Word        \* uint32_t subtraction
Slot(a, i) == (a + i) % Cap        \* (a + i) & mask, cap a power of two

Fill == Sub(wr, rd)                \* pcm_ring_fill
Free == Cap - Fill                 \* pcm_ring_free

Lesser(a, b) == IF a < b THEN a ELSE b

Idle == [busy |-> FALSE, n |-> 0, i |-> 0]
Granted(n) == [busy |-> TRUE, n |-> n, i |-> 0]

-----------------------------------------------------------------------------
Init ==
    /\ buf = [s \in Slots |-> NoFrame]
    /\ wr = 0 /\ rd = 0
    /\ prod = Idle /\ cons = Idle
    /\ published = 0 /\ delivered = <<>>

\* Mutants: a call that takes what it was asked for, full or empty; a reset
\* that forgets the consumer's index.
WriteUnclamped(frames) ==
    /\ ~prod.busy /\ published + frames <= MaxFrames
    /\ prod' = Granted(Lesser(frames, Cap))
    /\ UNCHANGED <<buf, wr, rd, cons, published, delivered>>
ResetProducerOnly ==
    /\ ~prod.busy /\ ~cons.busy
    /\ buf' = [s \in Slots |-> NoFrame] /\ wr' = 0
    /\ published' = 0 /\ delivered' = <<>>
    /\ UNCHANGED <<rd, prod, cons>>

(***************************************************************************)
(* pcm_ring_write: grant what fits, copy, publish.                         *)
(***************************************************************************)
WriteBegin(frames) ==
    /\ ~prod.busy
    /\ published + frames <= MaxFrames
    /\ prod' = Granted(Lesser(frames, Cap - Sub(wr, rd)))
    /\ UNCHANGED <<buf, wr, rd, cons, published, delivered>>

WriteFrame ==
    /\ prod.busy /\ prod.i < prod.n
    /\ buf' = [buf EXCEPT ![Slot(wr, prod.i)] = published + prod.i]
    /\ prod' = [prod EXCEPT !.i = @ + 1]
    /\ UNCHANGED <<wr, rd, cons, published, delivered>>

WritePublish ==
    /\ prod.busy /\ prod.i = prod.n
    /\ wr' = Add(wr, prod.n)
    /\ published' = published + prod.n
    /\ prod' = Idle
    /\ UNCHANGED <<buf, rd, cons, delivered>>

(***************************************************************************)
(* pcm_ring_read: take what is there, copy out, publish.                   *)
(***************************************************************************)
ReadBegin(frames) ==
    /\ ~cons.busy
    /\ cons' = Granted(Lesser(frames, Sub(wr, rd)))
    /\ UNCHANGED <<buf, wr, rd, prod, published, delivered>>

ReadFrame ==
    /\ cons.busy /\ cons.i < cons.n
    /\ delivered' = Append(delivered, buf[Slot(rd, cons.i)])
    /\ cons' = [cons EXCEPT !.i = @ + 1]
    /\ UNCHANGED <<buf, wr, rd, prod, published>>

ReadPublish ==
    /\ cons.busy /\ cons.i = cons.n
    /\ rd' = Add(rd, cons.n)
    /\ cons' = Idle
    /\ UNCHANGED <<buf, wr, prod, published, delivered>>

(***************************************************************************)
(* pcm_ring_init, called by the player for a new track and after a seek,   *)
(* with the DAC stopped: neither side is inside a call.  The store keeps   *)
(* its old frames, none of which belongs to the new stream.                *)
(***************************************************************************)
Reset ==
    /\ ~prod.busy /\ ~cons.busy
    /\ buf' = [s \in Slots |-> NoFrame]
    /\ wr' = 0 /\ rd' = 0
    /\ published' = 0 /\ delivered' = <<>>
    /\ UNCHANGED <<prod, cons>>

Write == (\E frames \in 1 .. Cap + 1 : WriteBegin(frames)) \/ WriteFrame \/ WritePublish
Read  == (\E frames \in 1 .. Cap + 1 : ReadBegin(frames)) \/ ReadFrame \/ ReadPublish

Next == Write \/ Read \/ Reset

Spec == Init /\ [][Next]_vars

-----------------------------------------------------------------------------
\* Every word, slot, call record and history keeps its type.
TypeOK ==
    /\ buf \in [Slots -> Nat \cup {NoFrame}]
    /\ wr \in Indices /\ rd \in Indices
    /\ prod \in [busy : BOOLEAN, n : 0 .. Cap, i : 0 .. Cap]
    /\ cons \in [busy : BOOLEAN, n : 0 .. Cap, i : 0 .. Cap]
    /\ published \in Nat
    /\ delivered \in Seq(Nat \cup {NoFrame})

\* The consumer hears the stream: whatever the interleaving, and across the
\* wrap of both indices, what pcm_ring_read has copied out is the producer's
\* stream from its start, with no frame lost, repeated, torn or out of order.
InOrder == \A k \in 1 .. Len(delivered) : delivered[k] = k - 1

\* pcm_ring_read never hands out a frame the producer has not published: the
\* index is stored after the slots it covers.
NothingEarly == Len(delivered) <= published

\* The fill the advisory pcm_ring_fill reports is never above the capacity
\* (player.c subtracts it from g_written to find the frame being heard) and
\* is exact: frames published minus frames whose read has been published.
FillExact ==
    Fill = published - (Len(delivered) - cons.i) /\ Fill \in 0 .. Cap

\* Slots are not shared: the slot the producer is about to store into is
\* never one the consumer has still to copy out of.
SlotsDisjoint ==
    \A p \in prod.i .. prod.n - 1, c \in cons.i .. cons.n - 1 :
        prod.busy /\ cons.busy => Slot(wr, p) # Slot(rd, c)

\* What either side may rely on at any point of the other's call.
RingSafe == TypeOK /\ FillExact /\ SlotsDisjoint

\* The ring is the bounded FIFO pcm_ring.h describes: every step of either
\* side is an Accept, a Deliver, a Clear or invisible.
F == INSTANCE FrameFifo WITH sent <- published, heard <- delivered
ImplementsFifo == F!Spec

\* The inductive invariant the proofs use: the two words are the wrapped
\* counts of frames published and taken, each call stays inside what it was
\* granted, and the slots from the oldest frame not yet taken to the newest
\* stored one hold exactly those frames.
taken == Len(delivered) - cons.i

Counters ==
    /\ taken \in Nat
    /\ published - taken \in 0 .. Cap
    /\ wr = published % Word
    /\ rd = taken % Word
Calls ==
    /\ prod.i <= prod.n /\ prod.n <= Cap - (published - taken)
    /\ cons.i <= cons.n /\ cons.n <= published - taken
    /\ ~prod.busy => prod = Idle
    /\ ~cons.busy => cons = Idle
Contents == \A k \in taken .. published + prod.i - 1 : buf[k % Cap] = k

IndInv == TypeOK /\ InOrder /\ Counters /\ Calls /\ Contents
=============================================================================
