---------------------------- MODULE PlayerProofs ----------------------------
(***************************************************************************)
(* The playback engine, for every queue, every file and every width of the *)
(* frame count: what is clocked has the DAC's rate, the track shown is the *)
(* track heard, no frame is left out of the stream, and the player does    *)
(* not go idle without a reason.                                           *)
(*                                                                         *)
(* One inductive invariant carries all of it.  It says whose the frames    *)
(* are that are in the ring, in the two buffers and next in the decoder,   *)
(* and that each follows the one before it.                                *)
(***************************************************************************)
EXTENDS Player, ModLemmas, SequenceTheorems, WellFoundedInduction

\* How many of the queued track's frames have been decoded.
Ahead == (g_written - g_boundary) % Modulus

\* What frame y may be heard after frame x, or read from the decoder after it.
Follows(x, y) ==
    \/ y = <<x[1], x[2] + 1>>
    \/ y[2] = 0 /\ x[2] = Frames[g_queue[x[1]]] - 1

\* An idle player holds nothing; one that is on has a track and two buffers.
Shape ==
    /\ ~g_pl_active => ~running /\ g_ring = <<>> /\ bufs = <<>> /\ pc = "loop"
    /\ g_pl_active => g_queue_idx \in Playable(g_queue) /\ Len(bufs) = 2

\* The decoder is open on the track that is queued or, with none, on the one
\* that is played; or it is gone, and finished.  One that finished without a
\* failure is at the end of its file.
DecoderSound ==
    g_pl_active =>
        /\ IF Pending THEN g_pending_idx \in Playable(g_queue) /\ g_dec.idx = g_pending_idx
           ELSE g_dec.idx = g_queue_idx \/ (g_dec.idx = None /\ g_eos /\ g_prefetch_tried)
        /\ g_dec.idx # None =>
               /\ g_dec.pos <= Frames[g_queue[g_dec.idx]]
               /\ g_eos /\ ~dead => g_dec.pos = Frames[g_queue[g_dec.idx]]

\* The DAC is clocked at the rate of the track that is played, and so are the
\* frames the HAL holds.
RateSound ==
    g_pl_active =>
        /\ Rate[g_queue[g_queue_idx]] = g_out_rate
        /\ \A k \in DOMAIN bufs : bufs[k] = Silence \/ Rate[g_queue[bufs[k][1]]] = g_out_rate

\* A queued track is never further ahead than the ring is long, and not at
\* all when it is at another rate.
HandOverSound ==
    g_pl_active /\ Pending =>
        /\ Ahead <= IF pc = "decode" THEN RingFrames - 1 ELSE RingFrames
        /\ ~Gapless => Ahead = 0 /\ g_dec.pos = 0

\* The last frames of the ring are the queued track's, the others those of
\* the track that is played.
OwnersSound ==
    g_pl_active =>
        \A k \in 1 .. Len(g_ring) :
            g_ring[k][1] = IF Pending /\ k > Len(g_ring) - Ahead THEN g_pending_idx ELSE g_queue_idx

\* What the HAL took last, the ring and the decoder's place are one stream.
LastFrame == IF g_ring = <<>> THEN pulled ELSE g_ring[Len(g_ring)]
OrderSound ==
    g_pl_active =>
        /\ \A k \in 1 .. Len(g_ring) - 1 : Follows(g_ring[k], g_ring[k + 1])
        /\ pulled # Silence /\ g_ring # <<>> => Follows(pulled, g_ring[1])
        /\ LastFrame # Silence /\ g_dec.idx # None => Follows(LastFrame, <<g_dec.idx, g_dec.pos>>)

IndInv ==
    /\ TypeOK
    /\ Shape
    /\ DecoderSound
    /\ RateSound
    /\ HandOverSound
    /\ OwnersSound
    /\ OrderSound
    /\ ArtIsOfTrack

-----------------------------------------------------------------------------
(* What the operators of the model compute.                                 *)

\* The queues that may be launched, and the empty one before the first.
Launchable == {q[1] : q \in Queues} \cup {<<>>}

LEMMA QueueFacts ==
    ASSUME NEW q \in Launchable
    PROVE  /\ q \in Seq(Files \cup {Folder})
           /\ Playable(q) \subseteq DOMAIN q /\ DOMAIN q = 1 .. Len(q) /\ Len(q) \in Nat
           /\ None \notin DOMAIN q
           /\ \A i \in Playable(q) : q[i] \in Files /\ Frames[q[i]] \in Nat \ {0}
<1>1. q \in Seq(Files \cup {Folder})
  <2>1. \A r \in Queues : r[1] \in Seq(Files \cup {Folder})
    BY PlayerAssumption
  <2>2. <<>> \in Seq(Files \cup {Folder})
    OBVIOUS
  <2> QED
    BY <2>1, <2>2 DEF Launchable
<1>2. \A i \in Playable(q) : q[i] \in Files
  BY <1>1 DEF Playable
<1>3. \A f \in Files : Frames[f] \in Nat \ {0}
  BY PlayerAssumption
<1> QED
  BY <1>1, <1>2, <1>3 DEF Playable, None

\* What is picked to follow an entry is a track of the queue, never a folder.
LEMMA PicksArePlayable ==
    ASSUME NEW q \in Launchable, NEW i \in DOMAIN q
    PROVE  /\ NextPlayable(q)[i] \subseteq Playable(q)
           /\ Successor(q)[i] \subseteq Playable(q)
           /\ Predecessor(q)[i] \subseteq Playable(q)
<1>1. RandomPlayable(q)[i] \subseteq Playable(q)
  BY DEF RandomPlayable
<1>2. NextPlayable(q)[i] \subseteq Playable(q)
  BY DEF NextPlayable, First
<1>3. PrevPlayable(q)[i] \subseteq Playable(q)
  BY DEF PrevPlayable, Last
<1> QED
  BY <1>1, <1>2, <1>3 DEF Successor, Predecessor

\* A set of numbers that is not empty has a least one.
LEMMA LeastNumber ==
    ASSUME NEW T \in SUBSET Nat, T # {}
    PROVE  \E m \in T : \A k \in T : m <= k
<1> DEFINE R == OpToRel(<, Nat)
<1>1. \A x, y \in Nat : x < y => <<x, y>> \in R
  BY DEF OpToRel
<1>2. IsWellFoundedOn(R, Nat)
  BY NatLessThanWellFounded
<1> HIDE DEF R
<1>3. PICK m \in T : \A y \in T : ~(<<y, m>> \in R)
  BY <1>2, WFMin
<1>4. \A k \in T : ~(k < m) /\ k \in Nat /\ m \in Nat
  BY <1>1, <1>3
<1>5. \A k \in T : m <= k
  BY <1>4
<1> QED
  BY <1>5

\* The bounded attempts of FailedAt, one after the other.
Attempts(q, start, pick, failing, at) ==
    [k \in 0 .. Len(q) + 1 |->
        IF k = 0 THEN start
        ELSE {j \in UNION {pick[i] : i \in at[k - 1]} : q[j] \in failing}]

\* FailedAt is what its recursion says: by induction on the number of
\* attempts there is a function that satisfies it that far.
LEMMA FailedAtUnfolds ==
    ASSUME NEW q, Len(q) \in Nat, NEW start, NEW pick, NEW failing
    PROVE  FailedAt(q, start, pick, failing) = Attempts(q, start, pick, failing, FailedAt(q, start, pick, failing))
<1> DEFINE Step(S) == {j \in UNION {pick[i] : i \in S} : q[j] \in failing}
           Upto(f, m) == /\ DOMAIN f = 0 .. m
                         /\ \A k \in 0 .. m : f[k] = IF k = 0 THEN start ELSE Step(f[k - 1])
           T == {m \in Nat : ~ \E f : Upto(f, m)}
<1> HIDE DEF Step
<1>1. \E f : Upto(f, 0)
  <2>1. Upto([k \in 0 .. 0 |-> start], 0)
    OBVIOUS
  <2> QED
    BY <2>1
<1>2. ASSUME NEW m \in Nat, NEW f, Upto(f, m)
      PROVE  \E g : Upto(g, m + 1)
  <2> DEFINE g == [k \in 0 .. m + 1 |-> IF k = m + 1 THEN Step(f[m]) ELSE f[k]]
  <2>1. Upto(g, m + 1)
    <3>1. DOMAIN g = 0 .. m + 1
      OBVIOUS
    <3>2. ASSUME NEW k \in 0 .. m + 1
          PROVE  g[k] = IF k = 0 THEN start ELSE Step(g[k - 1])
      <4>1. CASE k = m + 1
        <5>1. k # 0 /\ k - 1 = m /\ m \in 0 .. m + 1 /\ m # m + 1
          BY <4>1
        <5>2. g[m] = f[m]
          BY <5>1
        <5> QED
          BY <4>1, <5>1, <5>2
      <4>2. CASE k # m + 1
        <5>1. k \in 0 .. m /\ g[k] = f[k]
          BY <4>2
        <5>2. k # 0 => k - 1 \in 0 .. m + 1 /\ k - 1 # m + 1 /\ g[k - 1] = f[k - 1]
          BY <5>1
        <5> HIDE DEF g
        <5> QED
          BY <5>1, <5>2, <1>2
      <4> QED
        BY <4>1, <4>2
    <3> HIDE DEF g
    <3> QED
      BY <3>1, <3>2
  <2> QED
    BY <2>1
<1> HIDE DEF Upto
<1>3. T = {}
  <2> SUFFICES ASSUME T # {}
               PROVE  FALSE
    OBVIOUS
  <2>1. PICK m \in T : \A k \in T : m <= k
    <3>1. T \in SUBSET Nat
      OBVIOUS
    <3> HIDE DEF T
    <3> QED
      BY <3>1, LeastNumber
  <2>2. m \in Nat /\ ~ \E f : Upto(f, m)
    BY <2>1
  <2>3. m # 0
    BY <1>1, <2>2
  <2>4. m - 1 \in Nat /\ m - 1 < m /\ (m - 1) + 1 = m
    BY <2>2, <2>3
  <2>5. m - 1 \notin T
    <3> HIDE DEF T
    <3> QED
      BY <2>1, <2>2, <2>4
  <2>6. \E f : Upto(f, m - 1)
    BY <2>4, <2>5
  <2> QED
    BY <1>2, <2>2, <2>4, <2>6
<1>4. PICK f : Upto(f, Len(q) + 1)
  <2>1. Len(q) + 1 \in Nat /\ Len(q) + 1 \notin T
    BY <1>3
  <2> QED
    BY <2>1
<1> DEFINE h == [k \in 0 .. Len(q) + 1 |-> f[k]]
<1>5. h = [k \in 0 .. Len(q) + 1 |-> IF k = 0 THEN start ELSE Step(h[k - 1])]
  <2>1. ASSUME NEW k \in 0 .. Len(q) + 1
        PROVE  h[k] = IF k = 0 THEN start ELSE Step(h[k - 1])
    <3>1. f[k] = IF k = 0 THEN start ELSE Step(f[k - 1])
      BY <1>4 DEF Upto
    <3>2. h[k] = f[k] /\ (k # 0 => h[k - 1] = f[k - 1])
      OBVIOUS
    <3> HIDE DEF h
    <3> QED
      BY <3>1, <3>2
  <2>2. h = [k \in 0 .. Len(q) + 1 |-> h[k]]
    OBVIOUS
  <2> HIDE DEF h
  <2> QED
    BY <2>1, <2>2
<1> HIDE DEF h
<1>6. \E at : at = [k \in 0 .. Len(q) + 1 |-> IF k = 0 THEN start ELSE Step(at[k - 1])]
  BY <1>5
<1> QED
  BY <1>6 DEF FailedAt, Attempts, Step

\* Every entry an attempt may have failed on is an entry of the queue, and
\* from the first pick on a track that fails.
LEMMA FailedAtIn ==
    ASSUME NEW q \in Launchable, NEW start \in SUBSET DOMAIN q, NEW failing,
           NEW pick, \A i \in DOMAIN q : pick[i] \subseteq Playable(q)
    PROVE  \A k \in 0 .. Len(q) + 1 :
              /\ FailedAt(q, start, pick, failing)[k] \subseteq DOMAIN q
              /\ k # 0 => FailedAt(q, start, pick, failing)[k] \subseteq {j \in Playable(q) : q[j] \in failing}
<1> DEFINE at == FailedAt(q, start, pick, failing)
           Good(k) == /\ at[k] \subseteq DOMAIN q
                      /\ k # 0 => at[k] \subseteq {j \in Playable(q) : q[j] \in failing}
           T == {k \in 0 .. Len(q) + 1 : ~Good(k)}
<1>1. Playable(q) \subseteq DOMAIN q /\ Len(q) \in Nat
  BY QueueFacts
<1>2. at = Attempts(q, start, pick, failing, at)
  BY <1>1, FailedAtUnfolds
<1> HIDE DEF at
<1>3. at[0] = start
  BY <1>1, <1>2 DEF Attempts
<1>4. \A k \in 1 .. Len(q) + 1 :
         at[k] = {j \in UNION {pick[i] : i \in at[k - 1]} : q[j] \in failing}
  <2> TAKE k \in 1 .. Len(q) + 1
  <2>1. k \in 0 .. Len(q) + 1 /\ k # 0
    BY <1>1
  <2>2. at[k] = Attempts(q, start, pick, failing, at)[k]
    BY <1>2, Zenon
  <2> QED
    BY <2>1, <2>2 DEF Attempts
<1>5. ASSUME NEW k \in 1 .. Len(q) + 1, at[k - 1] \subseteq DOMAIN q
      PROVE  Good(k)
  <2>1. at[k] \subseteq {j \in Playable(q) : q[j] \in failing}
    BY <1>4, <1>5
  <2> QED
    BY <1>1, <2>1
<1>6. T = {}
  <2> SUFFICES ASSUME T # {}
               PROVE  FALSE
    OBVIOUS
  <2>1. PICK m \in T : \A k \in T : m <= k
    <3>1. T \in SUBSET Nat
      OBVIOUS
    <3> HIDE DEF T
    <3> QED
      BY <3>1, LeastNumber
  <2>2. m \in 0 .. Len(q) + 1 /\ ~Good(m)
    BY <2>1
  <2>3. m # 0
    BY <1>3, <2>2
  <2>4. m \in 1 .. Len(q) + 1 /\ m - 1 \in 0 .. Len(q) + 1 /\ m - 1 < m
    BY <1>1, <2>2, <2>3
  <2>5. m - 1 \notin T
    <3> HIDE DEF T
    <3> QED
      BY <1>1, <2>1, <2>2, <2>4
  <2>6. Good(m - 1)
    BY <2>4, <2>5
  <2> QED
    BY <1>5, <2>2, <2>4, <2>6
<1> QED
  BY <1>6 DEF at

\* Whatever an operation tries after such failures is a track of the queue.
LEMMA TriedIn ==
    ASSUME NEW q \in Launchable, NEW start \in SUBSET DOMAIN q, NEW failing,
           NEW pick, \A i \in DOMAIN q : pick[i] \subseteq Playable(q)
    PROVE  /\ Tried(q, FailedAt(q, start, pick, failing), pick) \subseteq Playable(q)
           /\ \A m \in 0 .. Len(q) + 1 :
                 Within(FailedAt(q, start, pick, failing), 0, m) \subseteq DOMAIN q
           /\ Within(FailedAt(q, start, pick, failing), 1, Len(q)) \subseteq
                 {j \in Playable(q) : q[j] \in failing}
           /\ FailedAt(q, start, pick, failing)[Len(q) + 1] \subseteq {j \in Playable(q) : q[j] \in failing}
<1> DEFINE at == FailedAt(q, start, pick, failing)
<1>1. Len(q) \in Nat
  BY QueueFacts
<1>2. \A k \in 0 .. Len(q) + 1 :
         /\ at[k] \subseteq DOMAIN q
         /\ k # 0 => at[k] \subseteq {j \in Playable(q) : q[j] \in failing}
  BY FailedAtIn
<1> HIDE DEF at
<1>3. \A m \in 0 .. Len(q) + 1 : Within(at, 0, m) \subseteq DOMAIN q
  BY <1>1, <1>2 DEF Within
<1>4. Within(at, 1, Len(q)) \subseteq {j \in Playable(q) : q[j] \in failing}
  BY <1>1, <1>2 DEF Within
<1>5. Tried(q, at, pick) \subseteq Playable(q)
  <2>1. Within(at, 0, Len(q)) \subseteq DOMAIN q
    BY <1>1, <1>3
  <2> QED
    BY <2>1 DEF Tried
<1>6. at[Len(q) + 1] \subseteq {j \in Playable(q) : q[j] \in failing}
  BY <1>1, <1>2
<1> QED
  BY <1>3, <1>4, <1>5, <1>6 DEF at

\* The frames of a stretch of a file.
LEMMA DecodedFacts ==
    ASSUME NEW i, NEW from \in Nat, NEW n \in Nat, NEW S, \A p \in Nat : <<i, p>> \in S
    PROVE  /\ Decoded(i, from, n) \in Seq(S)
           /\ Len(Decoded(i, from, n)) = n
           /\ \A k \in 1 .. n : Decoded(i, from, n)[k] = <<i, from + k - 1>>
<1>1. \A k \in 1 .. n : <<i, from + k - 1>> \in S
  OBVIOUS
<1> QED
  BY <1>1 DEF Decoded

\* What decode_pump_upto does with nothing queued.
FilledUpto(q, i, from, want, n) ==
    /\ n \in 0 .. Lesser(want, Frames[q[i]] - from)
    /\ g_dec' = [idx |-> i, pos |-> from + n]
    /\ g_eos' = (n < want) /\ dead' \in BOOLEAN
    /\ n < Lesser(want, Frames[q[i]] - from) => dead'

FilledInFile(q, i, from, want, n) ==
    /\ n \in 0 .. want /\ from + n <= Frames[q[i]]
    /\ g_dec' = [idx |-> i, pos |-> from + n]
    /\ g_eos' \in BOOLEAN /\ dead' \in BOOLEAN
    /\ g_eos' /\ ~dead' => from + n = Frames[q[i]]

\* It stays inside the file, decodes no more than was wanted, and ends
\* without a failure only at the end of the file.
LEMMA FilledFacts ==
    ASSUME NEW q \in Launchable, NEW i \in Playable(q), NEW from \in Nat,
           from <= Frames[q[i]], NEW want \in Nat, NEW n, FilledUpto(q, i, from, want, n)
    PROVE  FilledInFile(q, i, from, want, n)
<1> DEFINE size == Frames[q[i]]
           most == Lesser(want, size - from)
<1>1. size \in Nat
  BY QueueFacts
<1>2. /\ n \in 0 .. most /\ g_dec' = [idx |-> i, pos |-> from + n]
      /\ g_eos' = (n < want) /\ dead' \in BOOLEAN /\ (n < most => dead')
  BY DEF FilledUpto
<1>3. most \in Nat /\ most <= want /\ from + most <= size /\ (most = want \/ from + most = size)
  BY <1>1 DEF Lesser
<1> HIDE DEF most, size
<1>4. n \in 0 .. want /\ from + n <= size
  BY <1>1, <1>2, <1>3
<1>5. g_eos' /\ ~dead' => from + n = size
  BY <1>1, <1>2, <1>3
<1>6. g_eos' \in BOOLEAN /\ dead' \in BOOLEAN
  BY <1>2
<1> QED
  BY <1>2, <1>4, <1>5, <1>6 DEF size, FilledInFile

\* A decoder that has failed before may go on, and stays failed.
LEMMA DecodeFills ==
    ASSUME NEW q, NEW i, NEW from, NEW want \in Nat, NEW n, dead \in BOOLEAN, want > 0,
           Decode(q, i, from, <<>>, want, dead, n)
    PROVE  FilledUpto(q, i, from, want, n)
<1> DEFINE cut == n < Lesser(want, Frames[q[i]] - from)
<1>1. Len(<<>>) = 0 /\ want - 0 = want
  OBVIOUS
<1>2. /\ n \in 0 .. Lesser(want, Frames[q[i]] - from)
      /\ g_dec' = [idx |-> i, pos |-> from + n]
      /\ g_eos' = (n < want)
  BY <1>1 DEF Decode
<1>3. dead' = (dead \/ cut)
  BY <1>1 DEF Decode
<1>4. cut \in BOOLEAN
  OBVIOUS
<1> HIDE DEF cut
<1>5. dead' \in BOOLEAN /\ (cut => dead')
  BY <1>3, <1>4, Zenon
<1> QED
  BY <1>2, <1>5 DEF FilledUpto, cut

\* A cold start takes the first two frames, and leaves the rest in order.
LEMMA ColdStartFacts ==
    ASSUME NEW i \in Nat \ {0}, NEW n \in Nat, ColdStart(Decoded(i, 0, n)),
           NEW S, \A p \in Nat : <<i, p>> \in S
    PROVE  /\ Len(bufs') = 2 /\ DOMAIN bufs' = 1 .. 2 /\ bufs' \in Seq(S \cup {Silence})
           /\ \A k \in 1 .. 2 : bufs'[k] = Silence \/ \E p \in Nat : bufs'[k] = <<i, p>>
           /\ Len(g_ring') \in Nat /\ Len(g_ring') <= n /\ g_ring' \in Seq(S)
           /\ \A k \in 1 .. Len(g_ring') : g_ring'[k] = <<i, k + 1>>
           /\ pulled' \in S \cup {Silence}
           /\ pulled' = Silence \/ \E p \in Nat : pulled' = <<i, p>>
           /\ g_ring' # <<>> => pulled' = <<i, 1>>
           /\ LastFrame' # Silence => LastFrame' = <<i, n - 1>> /\ n # 0
<1> DEFINE d == Decoded(i, 0, n)
<1>1. /\ d \in Seq(S) /\ Len(d) = n
      /\ \A k \in 1 .. n : d[k] = <<i, k - 1>>
  <2>1. /\ d \in Seq(S) /\ Len(d) = n
        /\ \A k \in 1 .. n : d[k] = <<i, 0 + k - 1>>
    BY DecodedFacts
  <2>2. \A k \in 1 .. n : 0 + k - 1 = k - 1
    OBVIOUS
  <2> HIDE DEF d
  <2> QED
    BY <2>1, <2>2
<1>2. /\ bufs' = [k \in 1 .. 2 |-> IF k <= Len(d) THEN d[k] ELSE Silence]
      /\ g_ring' = SubSeq(d, 3, Len(d))
      /\ pulled' = IF d = <<>> THEN Silence ELSE d[Lesser(2, Len(d))]
  BY DEF ColdStart
<1> HIDE DEF d
<1>3. Len(bufs') = 2 /\ DOMAIN bufs' = 1 .. 2 /\ bufs' \in Seq(S \cup {Silence})
  <2>1. \A k \in 1 .. 2 : (IF k <= Len(d) THEN d[k] ELSE Silence) \in S \cup {Silence}
    BY <1>1
  <2> QED
    BY <1>2, <2>1
<1>4. \A k \in 1 .. 2 : bufs'[k] = Silence \/ \E p \in Nat : bufs'[k] = <<i, p>>
  <2> TAKE k \in 1 .. 2
  <2>1. bufs'[k] = IF k <= n THEN d[k] ELSE Silence
    BY <1>1, <1>2
  <2>2. CASE k <= n
    <3>1. d[k] = <<i, k - 1>> /\ k - 1 \in Nat
      BY <1>1, <2>2
    <3> QED
      BY <2>1, <2>2, <3>1
  <2> QED
    BY <2>1, <2>2
<1>5. CASE n < 3
  <2>1. g_ring' = <<>>
    BY <1>1, <1>2, <1>5
  <2>2. pulled' = IF n = 0 THEN Silence ELSE <<i, n - 1>>
    <3>1. n = 0 => d = <<>>
      BY <1>1
    <3>2. n # 0 => d # <<>> /\ Lesser(2, n) = n /\ d[n] = <<i, n - 1>>
      BY <1>1, <1>5 DEF Lesser
    <3> QED
      BY <1>1, <1>2, <3>1, <3>2
  <2>3. LastFrame' = pulled'
    BY <2>1 DEF LastFrame
  <2> QED
    BY <1>3, <1>4, <2>1, <2>2, <2>3
<1>6. CASE n >= 3
  <2>1. /\ Len(g_ring') = n - 2 /\ g_ring' \in Seq(S) /\ g_ring' # <<>>
        /\ \A k \in 1 .. n - 2 : g_ring'[k] = d[3 + k - 1]
    <3>1. 3 \in 1 .. n + 1 /\ n \in 3 - 1 .. n /\ n - 3 + 1 = n - 2 /\ n - 2 # 0
      BY <1>6
    <3>2. /\ SubSeq(d, 3, n) \in Seq(S) /\ Len(SubSeq(d, 3, n)) = n - 3 + 1
          /\ \A k \in 1 .. n - 3 + 1 : SubSeq(d, 3, n)[k] = d[3 + k - 1]
      BY <1>1, <3>1, SubSeqProperties
    <3>3. g_ring' = SubSeq(d, 3, n)
      BY <1>1, <1>2
    <3> QED
      BY <3>1, <3>2, <3>3
  <2>2. \A k \in 1 .. n - 2 : g_ring'[k] = <<i, k + 1>>
    <3> TAKE k \in 1 .. n - 2
    <3>1. 3 + k - 1 = k + 2 /\ k + 2 \in 1 .. n /\ (k + 2) - 1 = k + 1
      BY <1>6
    <3> QED
      BY <1>1, <2>1, <3>1
  <2>3. pulled' = <<i, 1>>
    <3>1. d # <<>> /\ Lesser(2, n) = 2 /\ 2 - 1 = 1 /\ 2 \in 1 .. n
      BY <1>1, <1>6 DEF Lesser
    <3> QED
      BY <1>1, <1>2, <3>1
  <2>4. LastFrame' = <<i, n - 1>>
    <3>1. n - 2 \in 1 .. n - 2 /\ (n - 2) + 1 = n - 1
      BY <1>6
    <3>2. LastFrame' = g_ring'[n - 2]
      BY <2>1 DEF LastFrame
    <3> QED
      BY <2>2, <3>1, <3>2
  <2> QED
    BY <1>3, <1>4, <1>6, <2>1, <2>2, <2>3, <2>4
<1> QED
  BY <1>5, <1>6

-----------------------------------------------------------------------------
(* The two ways an operation leaves the engine: just started on a track, or *)
(* idle.  Both establish the invariant whatever the state was before.       *)

\* What every opening leaves: the first frames of entry i, and nothing else.
Started(q, i, n) ==
    /\ g_queue' = q /\ g_queue_idx' = i
    /\ g_art' = TrackArt(q[i], g_queue_art_shared')
    /\ g_pl_active' = TRUE /\ g_last_err' = "ok"
    /\ g_dec' = [idx |-> i, pos |-> n]
    /\ g_eos' \in BOOLEAN /\ dead' \in BOOLEAN
    /\ g_eos' /\ ~dead' => n = Frames[q[i]]
    /\ ColdStart(Decoded(i, 0, n))
    /\ g_written' \in 0 .. Modulus - 1
    /\ g_pending_idx' = None /\ g_boundary' = 0 /\ g_prefetch_tried' = FALSE
    /\ g_out_rate' = Rate[q[i]]

\* The state an operation never mistypes: the modes, the end's parity and the
\* place in the pump.
Around ==
    /\ g_queue_art_shared \in BOOLEAN /\ modes \in Modes /\ g_pl_paused \in BOOLEAN
    /\ g_pl_end_seq \in {0, 1} /\ running \in BOOLEAN

LEMMA StartedSound ==
    ASSUME NEW q \in Launchable, NEW i \in Playable(q), NEW n \in 0 .. RingFrames,
           n <= Frames[q[i]], Started(q, i, n), Around', pc' \in {"loop", "decode"}
    PROVE  IndInv'
<1>1. /\ i \in DOMAIN q /\ i \in Nat \ {0} /\ q[i] \in Files /\ Frames[q[i]] \in Nat \ {0}
      /\ DOMAIN q = 1 .. Len(q) /\ None \notin DOMAIN q
  BY QueueFacts
<1>2. n \in Nat /\ RingFrames \in Nat /\ Modulus \in Nat /\ 0 < Modulus
  BY PlayerAssumption
<1>3. /\ Len(bufs') = 2 /\ DOMAIN bufs' = 1 .. 2 /\ bufs' \in Seq(((DOMAIN q) \X Nat) \cup {Silence})
      /\ \A k \in 1 .. 2 : bufs'[k] = Silence \/ \E p \in Nat : bufs'[k] = <<i, p>>
      /\ Len(g_ring') \in Nat /\ Len(g_ring') <= n /\ g_ring' \in Seq((DOMAIN q) \X Nat)
      /\ \A k \in 1 .. Len(g_ring') : g_ring'[k] = <<i, k + 1>>
      /\ pulled' \in ((DOMAIN q) \X Nat) \cup {Silence}
      /\ pulled' = Silence \/ \E p \in Nat : pulled' = <<i, p>>
      /\ g_ring' # <<>> => pulled' = <<i, 1>>
      /\ LastFrame' # Silence => LastFrame' = <<i, n - 1>> /\ n # 0
  <2>1. \A p \in Nat : <<i, p>> \in (DOMAIN q) \X Nat
    BY <1>1
  <2>2. ColdStart(Decoded(i, 0, n))
    BY DEF Started
  <2> QED
    BY <1>1, <1>2, <2>1, <2>2, ColdStartFacts
<1>4. /\ g_queue' = q /\ g_queue_idx' = i /\ g_pl_active' = TRUE /\ g_pending_idx' = None
      /\ g_dec'.idx = i /\ g_dec'.pos = n /\ g_out_rate' = Rate[q[i]]
      /\ ~Pending'
  BY DEF Started, Pending
<1>5. TypeOK'
  <2>1. g_queue' \in {r[1] : r \in Queues} \cup {<<>>} /\ g_queue_idx' \in Entries' \cup {None}
    BY <1>1, <1>4 DEF Entries, Launchable
  <2>2. g_art' \in HasArt \cup {"none", "album"}
    BY DEF Started, TrackArt
  <2>3. /\ g_dec' \in [idx : Entries' \cup {None}, pos : Nat]
        /\ g_pending_idx' \in Entries' \cup {None}
    BY <1>1, <1>2, <1>4 DEF Entries, Started
  <2>4. Frame' = (DOMAIN q) \X Nat
    BY <1>4 DEF Entries, Frame
  <2>5. Len(g_ring') <= RingFrames /\ g_ring' \in Seq(Frame')
    BY <1>2, <1>3, <2>4
  <2>6. bufs' \in Seq(Frame' \cup {Silence}) /\ pulled' \in Frame' \cup {Silence}
    BY <1>3, <2>4
  <2>8. g_boundary' \in 0 .. Modulus - 1 /\ g_written' \in 0 .. Modulus - 1
    BY <1>2 DEF Started
  <2>9. /\ g_pl_active' \in BOOLEAN /\ g_last_err' \in {"ok", "open", "rate", "read"}
        /\ g_eos' \in BOOLEAN /\ dead' \in BOOLEAN /\ g_prefetch_tried' \in BOOLEAN
        /\ g_pl_active' => g_queue_idx' \in Entries'
    BY <1>1, <1>4 DEF Started, Entries
  <2> QED
    BY <1>3, <2>1, <2>2, <2>3, <2>5, <2>6, <2>8, <2>9 DEF TypeOK, Around, modes
<1>6. Shape'
  BY <1>3, <1>4 DEF Shape
<1>7. DecoderSound'
  BY <1>4 DEF DecoderSound, Started
<1>8. RateSound'
  <2>1. \A k \in DOMAIN bufs' : bufs'[k] = Silence \/ Rate[q[bufs'[k][1]]] = Rate[q[i]]
    BY <1>3
  <2> QED
    BY <1>4, <2>1 DEF RateSound
<1>9. HandOverSound'
  BY <1>4 DEF HandOverSound
<1>10. OwnersSound'
  BY <1>3, <1>4 DEF OwnersSound
<1>11. OrderSound'
  <2>1. \A k \in 1 .. Len(g_ring') - 1 : g_ring'[k + 1] = <<g_ring'[k][1], g_ring'[k][2] + 1>>
    <3> TAKE k \in 1 .. Len(g_ring') - 1
    <3>1. k \in 1 .. Len(g_ring') /\ k + 1 \in 1 .. Len(g_ring')
      <4>1. Len(g_ring') \in Nat
        BY <1>3
      <4> QED
        BY <4>1
    <3>2. g_ring'[k] = <<i, k + 1>> /\ g_ring'[k + 1] = <<i, (k + 1) + 1>>
      BY <1>3, <3>1
    <3> QED
      BY <3>2
  <2>2. g_ring' # <<>> => g_ring'[1] = <<pulled'[1], pulled'[2] + 1>>
    <3> SUFFICES ASSUME g_ring' # <<>>
                 PROVE  g_ring'[1] = <<pulled'[1], pulled'[2] + 1>>
      OBVIOUS
    <3>1. 1 \in 1 .. Len(g_ring')
      BY <1>3
    <3>2. g_ring'[1] = <<i, 1 + 1>> /\ pulled' = <<i, 1>>
      BY <1>3, <3>1
    <3> QED
      BY <3>2
  <2>3. LastFrame' # Silence => <<i, n>> = <<LastFrame'[1], LastFrame'[2] + 1>>
    BY <1>2, <1>3
  <2> QED
    BY <1>4, <2>1, <2>2, <2>3 DEF OrderSound, Follows
<1>12. ArtIsOfTrack'
  BY <1>4 DEF ArtIsOfTrack, Started, TrackArt
<1> QED
  BY <1>5, <1>6, <1>7, <1>8, <1>9, <1>10, <1>11, <1>12 DEF IndInv

\* A successful player_open_current leaves the engine just started.
LEMMA OpenedSound ==
    ASSUME NEW q \in Launchable, NEW i \in Playable(q), NEW shared \in BOOLEAN,
           NEW paused \in BOOLEAN, Opened(q, i, shared, paused), TypeOK,
           g_queue' = q, g_queue_art_shared' = shared, modes' = modes,
           pc' \in {"loop", "decode"}
    PROVE  IndInv' /\ g_pl_active' /\ ~Pending'
<1>1. PICK n \in 0 .. PrimeFrames :
          /\ Decode(q, i, 0, <<>>, PrimeFrames, FALSE, n)
          /\ g_written' = n
          /\ ColdStart(Decoded(i, 0, n))
  BY DEF Opened
<1>2. PrimeFrames \in Nat /\ PrimeFrames <= RingFrames /\ RingFrames \in Nat
      /\ Modulus \in Nat /\ RingFrames < Modulus
  <2>1. Modulus \in Nat => Modulus \div 2 <= Modulus
    OBVIOUS
  <2> QED
    BY <2>1, PlayerAssumption
<1>3. Frames[q[i]] \in Nat
  BY QueueFacts
<1>4. /\ n <= Frames[q[i]] /\ g_dec' = [idx |-> i, pos |-> n]
      /\ g_eos' \in BOOLEAN /\ dead' \in BOOLEAN
      /\ g_eos' /\ ~dead' => n = Frames[q[i]]
  <2>1. FilledUpto(q, i, 0, PrimeFrames, n)
    <3>1. Len(<<>>) = 0 /\ PrimeFrames - 0 = PrimeFrames /\ PrimeFrames > 0
      BY <1>2, PlayerAssumption
    <3>2. /\ n \in 0 .. Lesser(PrimeFrames, Frames[q[i]] - 0)
          /\ g_dec' = [idx |-> i, pos |-> 0 + n]
          /\ g_eos' = (n < PrimeFrames)
      BY <1>1, <3>1 DEF Decode
    <3>3. dead' = (n < Lesser(PrimeFrames, Frames[q[i]] - 0))
      BY <1>1, <3>1 DEF Decode
    <3>4. dead' \in BOOLEAN /\ (n < Lesser(PrimeFrames, Frames[q[i]] - 0) => dead')
      <4> DEFINE cut == n < Lesser(PrimeFrames, Frames[q[i]] - 0)
      <4>1. cut \in BOOLEAN
        OBVIOUS
      <4>2. dead' = cut
        BY <3>3
      <4> HIDE DEF cut
      <4>3. dead' \in BOOLEAN /\ (cut => dead')
        BY <4>1, <4>2, Zenon
      <4> QED
        BY <4>3 DEF cut
    <3> QED
      BY <3>2, <3>4 DEF FilledUpto
  <2>2. FilledInFile(q, i, 0, PrimeFrames, n)
    <3>1. 0 \in Nat /\ 0 <= Frames[q[i]] /\ PrimeFrames \in Nat
      BY <1>2, <1>3
    <3> QED
      BY <2>1, <3>1, FilledFacts, Zenon
  <2>3. 0 + n = n
    BY <1>2
  <2> QED
    BY <2>2, <2>3 DEF FilledInFile
<1>5. n \in 0 .. RingFrames /\ n \in 0 .. Modulus - 1
  BY <1>2
<1>6. Started(q, i, n)
  BY <1>1, <1>4, <1>5 DEF Opened, Started
<1>7. Around'
  BY DEF Opened, Around, TypeOK, modes
<1> QED
  BY <1>4, <1>5, <1>6, <1>7, StartedSound DEF Started, Pending

\* A player that goes idle holds nothing, whatever it was doing.
LEMMA IdleSound ==
    ASSUME NEW i, NEW paused \in BOOLEAN, Idle(i, paused), TypeOK,
           g_queue' \in Launchable, i \in DOMAIN g_queue' \cup {None},
           g_queue_art_shared' \in BOOLEAN, modes' = modes,
           g_last_err' \in {"ok", "open", "rate", "read"}, g_pl_end_seq' \in {0, 1},
           pc' = "loop"
    PROVE  IndInv' /\ ~g_pl_active' /\ ~Pending'
<1>1. /\ g_queue_idx' = i /\ g_pl_active' = FALSE /\ g_pl_paused' = paused
      /\ g_dec' = Closed /\ g_eos' = FALSE /\ dead' = FALSE
      /\ g_ring' = <<>> /\ g_written' = 0 /\ pulled' = Silence
      /\ g_pending_idx' = None /\ g_boundary' = 0 /\ g_prefetch_tried' = FALSE
      /\ running' = FALSE /\ bufs' = <<>> /\ g_art' = g_art
  BY DEF Idle
<1>2. TypeOK'
  <2>1. g_queue' \in {r[1] : r \in Queues} \cup {<<>>} /\ g_queue_idx' \in Entries' \cup {None}
    BY <1>1 DEF Entries, Launchable
  <2>2. g_dec' \in [idx : Entries' \cup {None}, pos : Nat]
    BY <1>1 DEF Closed
  <2>3. Len(g_ring') = 0 /\ g_ring' \in Seq(Frame') /\ Len(bufs') = 0 /\ bufs' \in Seq(Frame' \cup {Silence})
    BY <1>1
  <2>4. 0 \in 0 .. Modulus - 1 /\ RingFrames >= 0
    BY PlayerAssumption
  <2>5. g_written' \in 0 .. Modulus - 1 /\ g_boundary' \in 0 .. Modulus - 1 /\ Len(g_ring') <= RingFrames
    BY <1>1, <2>3, <2>4
  <2>6. modes' \in Modes /\ g_art' \in HasArt \cup {"none", "album"}
    BY <1>1 DEF TypeOK
  <2>9. /\ g_pl_active' \in BOOLEAN /\ g_pl_paused' \in BOOLEAN /\ g_eos' \in BOOLEAN
        /\ dead' \in BOOLEAN /\ g_prefetch_tried' \in BOOLEAN /\ running' \in BOOLEAN
    BY <1>1
  <2>10. /\ g_pending_idx' \in Entries' \cup {None} /\ pulled' \in Frame' \cup {Silence}
         /\ Len(bufs') \in {0, 2} /\ ~g_pl_active'
    BY <1>1, <2>3
  <2> QED
    BY <2>1, <2>2, <2>3, <2>5, <2>6, <2>9, <2>10 DEF TypeOK, modes
<1>3. Shape' /\ DecoderSound' /\ RateSound' /\ HandOverSound' /\ OwnersSound' /\ OrderSound' /\ ArtIsOfTrack'
  BY <1>1 DEF Shape, DecoderSound, RateSound, HandOverSound, OwnersSound, OrderSound, ArtIsOfTrack
<1> QED
  BY <1>1, <1>2, <1>3 DEF IndInv, Pending

\* When the player gives up, the queue has ended or the error is known.
Explained == ~g_pl_active' => g_pl_end_seq' # g_pl_end_seq \/ g_last_err' # "ok"

\* player_advance finds a track of the queue to start, or goes idle and says
\* why.
LEMMA AdvanceSound ==
    ASSUME NEW q \in Launchable, NEW from \in Playable(q), NEW shared \in BOOLEAN,
           NEW paused \in BOOLEAN, NEW why \in SUBSET {"ok", "open", "rate", "read"},
           Advance(q, from, shared, paused, why), TypeOK,
           g_queue' = q, g_queue_art_shared' = shared, modes' = modes,
           pc' = "loop" \/ (g_pl_active' /\ pc' = "decode")
    PROVE  IndInv' /\ Explained /\ ~Pending'
<1> DEFINE failed == FailedAt(q, {from}, Successor(q), Fails)
           Ends(i) == Successor(q)[i] = {} /\ Idle(i, paused) /\ g_pl_end_seq' = 1 - g_pl_end_seq
<1>1. from \in DOMAIN q /\ Playable(q) \subseteq DOMAIN q
  BY QueueFacts
<1>2. /\ Tried(q, failed, Successor(q)) \subseteq Playable(q)
      /\ Within(failed, 1, Len(q)) \subseteq Playable(q)
      /\ failed[Len(q) + 1] \subseteq Playable(q)
  <2>1. \A i \in DOMAIN q : Successor(q)[i] \subseteq Playable(q)
    BY PicksArePlayable
  <2>2. {from} \in SUBSET DOMAIN q
    BY <1>1
  <2>3. {j \in Playable(q) : q[j] \in Fails} \subseteq Playable(q)
    OBVIOUS
  <2> QED
    BY <2>1, <2>2, <2>3, TriedIn
<1>3. \A i : ErrorOf(q[i]) \subseteq {"open", "rate"}
  BY DEF ErrorOf
<1>4. \/ \E j \in Playable(q) : Opened(q, j, shared, FALSE) \/ Opened(q, j, shared, paused)
      \/ /\ \E i \in Playable(q) : Idle(i, paused)
         /\ \/ g_pl_end_seq' = 1 - g_pl_end_seq /\ g_last_err' \in {"ok", "open", "rate", "read"}
            \/ g_pl_end_seq' = g_pl_end_seq /\ g_last_err' \in {"open", "rate"}
  <2> HIDE DEF failed, Ends
  <2>1. \/ Opened(q, from, shared, FALSE)
        \/ \E j \in Tried(q, failed, Successor(q)) : Opened(q, j, shared, FALSE)
        \/ Ends(from) /\ g_last_err' \in IF g_repeat = "one" THEN ErrorOf(q[from]) ELSE why
        \/ \E i \in Within(failed, 1, Len(q)) : Ends(i) /\ g_last_err' \in ErrorOf(q[i])
        \/ \E i \in failed[Len(q) + 1] :
              Idle(i, paused) /\ g_last_err' \in ErrorOf(q[i]) /\ UNCHANGED g_pl_end_seq
    BY DEF Advance, failed, Ends
  <2>2. CASE Opened(q, from, shared, FALSE)
    BY <2>2
  <2>3. CASE \E j \in Tried(q, failed, Successor(q)) : Opened(q, j, shared, FALSE)
    BY <1>2, <2>3
  <2>4. CASE Ends(from) /\ g_last_err' \in IF g_repeat = "one" THEN ErrorOf(q[from]) ELSE why
    <3>1. g_last_err' \in {"ok", "open", "rate", "read"}
      BY <1>3, <2>4
    <3> QED
      BY <2>4, <3>1 DEF Ends
  <2>5. CASE \E i \in Within(failed, 1, Len(q)) : Ends(i) /\ g_last_err' \in ErrorOf(q[i])
    <3>1. PICK i \in Within(failed, 1, Len(q)) : Ends(i) /\ g_last_err' \in ErrorOf(q[i])
      BY <2>5
    <3>2. i \in Playable(q) /\ g_last_err' \in {"open", "rate"}
      BY <1>2, <1>3, <3>1
    <3> QED
      BY <3>1, <3>2 DEF Ends
  <2>6. CASE \E i \in failed[Len(q) + 1] :
                Idle(i, paused) /\ g_last_err' \in ErrorOf(q[i]) /\ UNCHANGED g_pl_end_seq
    BY <1>2, <1>3, <2>6
  <2> QED
    BY <2>1, <2>2, <2>3, <2>4, <2>5, <2>6
<1>5. CASE \E j \in Playable(q) : Opened(q, j, shared, FALSE) \/ Opened(q, j, shared, paused)
  <2>1. pc' \in {"loop", "decode"}
    OBVIOUS
  <2>2. PICK j \in Playable(q), p \in BOOLEAN : Opened(q, j, shared, p)
    BY <1>5
  <2> QED
    BY <2>1, <2>2, OpenedSound DEF Explained
<1>6. CASE /\ \E i \in Playable(q) : Idle(i, paused)
           /\ \/ g_pl_end_seq' = 1 - g_pl_end_seq /\ g_last_err' \in {"ok", "open", "rate", "read"}
              \/ g_pl_end_seq' = g_pl_end_seq /\ g_last_err' \in {"open", "rate"}
  <2>1. PICK i \in Playable(q) : Idle(i, paused)
    BY <1>6
  <2>2. pc' = "loop"
    BY <2>1 DEF Idle
  <2>3. g_pl_end_seq \in {0, 1}
    BY DEF TypeOK
  <2>4. g_pl_end_seq' \in {0, 1} /\ g_last_err' \in {"ok", "open", "rate", "read"}
    BY <1>6, <2>3
  <2>5. IndInv' /\ ~Pending'
    BY <1>1, <2>1, <2>2, <2>4, IdleSound
  <2>6. g_pl_end_seq' # g_pl_end_seq \/ g_last_err' # "ok"
    BY <1>6, <2>3
  <2> QED
    BY <2>5, <2>6 DEF Explained
<1> QED
  BY <1>4, <1>5, <1>6

-----------------------------------------------------------------------------
(* What the invariant says of a player that is on.                          *)

LEMMA Numbers ==
    /\ RingFrames \in Nat /\ RingFrames >= 2 /\ Modulus \in Nat \ {0}
    /\ Modulus \div 2 \in Nat /\ Modulus = 2 * (Modulus \div 2) /\ RingFrames < Modulus \div 2
<1>1. Modulus \in Nat /\ Modulus % 2 = 0 /\ RingFrames < Modulus \div 2 /\ RingFrames \in Nat
  BY PlayerAssumption
<1>2. RingFrames >= 2
  BY PlayerAssumption
<1>3. Modulus \div 2 \in Int /\ Modulus = (2 * (Modulus \div 2)) + (Modulus % 2)
  BY <1>1
<1> QED
  BY <1>1, <1>2, <1>3

LEMMA OnFacts ==
    ASSUME IndInv, g_pl_active
    PROVE  /\ g_queue \in Launchable /\ g_queue_idx \in Playable(g_queue)
           /\ Playable(g_queue) \subseteq Entries /\ None \notin Entries /\ Entries \subseteq Nat
           /\ \A i \in Playable(g_queue) : g_queue[i] \in Files /\ Frames[g_queue[i]] \in Nat \ {0}
           /\ g_ring \in Seq(Frame) /\ Len(g_ring) \in Nat /\ Len(g_ring) <= RingFrames
           /\ bufs \in Seq(Frame \cup {Silence}) /\ Len(bufs) = 2
           /\ Silence \notin Frame
           /\ g_written \in Nat /\ g_boundary \in Nat
           /\ Ahead \in Nat /\ Ahead < Modulus
           /\ Pending => Ahead <= RingFrames
<1>1. g_queue \in Launchable /\ g_queue_idx \in Playable(g_queue) /\ Len(bufs) = 2
  BY DEF IndInv, TypeOK, Shape, Launchable
<1>2. /\ Playable(g_queue) \subseteq Entries /\ None \notin Entries /\ Entries \subseteq Nat
      /\ \A i \in Playable(g_queue) : g_queue[i] \in Files /\ Frames[g_queue[i]] \in Nat \ {0}
  BY <1>1, QueueFacts DEF Entries
<1>3. /\ g_ring \in Seq(Frame) /\ Len(g_ring) <= RingFrames /\ bufs \in Seq(Frame \cup {Silence})
      /\ g_written \in 0 .. Modulus - 1 /\ g_boundary \in 0 .. Modulus - 1
  BY DEF IndInv, TypeOK
<1>4. Len(g_ring) \in Nat
  BY <1>3
<1>5. Silence \notin Frame
  BY <1>2 DEF Silence, Frame
<1>6. g_written \in Nat /\ g_boundary \in Nat
  BY <1>3, Numbers
<1>7. Ahead \in 0 .. Modulus - 1
  <2>1. g_written - g_boundary \in Int
    BY <1>6
  <2> QED
    BY <2>1, Numbers, Division DEF Ahead
<1>8. Pending => Ahead <= RingFrames
  BY <1>7, Numbers DEF IndInv, HandOverSound
<1>9. Ahead \in Nat /\ Ahead < Modulus
  BY <1>7, Numbers
<1> QED
  BY <1>1, <1>2, <1>3, <1>4, <1>5, <1>6, <1>8, <1>9

\* The hand-over is due when the ring holds nothing of the track played: the
\* signed difference of the two words tells, wherever they have wrapped.
LEMMA ReachedFacts ==
    ASSUME IndInv, g_pl_active, Pending
    PROVE  Reached <=> Len(g_ring) <= Ahead
<1> DEFINE w == g_written - g_boundary
           len == Len(g_ring)
           h == Modulus \div 2
<1>1. /\ w \in Int /\ len \in Nat /\ len <= RingFrames /\ w % Modulus = Ahead
      /\ Ahead \in Nat /\ Ahead <= RingFrames
  BY OnFacts DEF Ahead
<1>2. h \in Nat /\ Modulus = 2 * h /\ RingFrames < h /\ RingFrames \in Nat /\ Modulus \in Nat \ {0}
  BY Numbers
<1>3. g_written - len - g_boundary = w + (0 - len)
  BY <1>1, OnFacts
<1>4. Reached <=> Signed(w + (0 - len)) >= 0
  BY <1>3 DEF Reached
<1> HIDE DEF w, len
<1>5. (w + (0 - len)) % Modulus = (Ahead + (0 - len)) % Modulus
  <2>1. 0 - len \in Int
    BY <1>1
  <2>2. ((w % Modulus) + (0 - len)) % Modulus = (w + (0 - len)) % Modulus
    BY <1>1, <1>2, <2>1, ModAdd
  <2> QED
    BY <1>1, <2>2
<1>6. CASE len <= Ahead
  <2>1. Ahead + (0 - len) \in 0 .. Modulus - 1 /\ Ahead + (0 - len) < h
    BY <1>1, <1>2, <1>6
  <2>2. (Ahead + (0 - len)) % Modulus = Ahead + (0 - len)
    BY <1>2, <2>1, ModSmall
  <2>3. Signed(w + (0 - len)) = Ahead + (0 - len)
    BY <1>1, <1>2, <1>5, <2>1, <2>2 DEF Signed
  <2>4. Ahead + (0 - len) >= 0
    BY <1>1, <1>6
  <2> QED
    BY <1>4, <1>6, <2>3, <2>4 DEF len
<1>7. CASE ~(len <= Ahead)
  <2> DEFINE x == Ahead + (0 - len)
  <2>1. x \in Int /\ x < 0 /\ x + Modulus \in 0 .. Modulus - 1 /\ x + Modulus >= h
    BY <1>1, <1>2, <1>7
  <2> HIDE DEF x
  <2>2. x % Modulus = x + Modulus
    <3>1. (x + Modulus * 1) % Modulus = x % Modulus
      <4>1. 1 \in Int
        OBVIOUS
      <4> QED
        BY <1>2, <2>1, <4>1, ModShift
    <3>2. x + Modulus * 1 = x + Modulus
      BY <1>2
    <3>3. (x + Modulus) % Modulus = x + Modulus
      BY <1>2, <2>1, ModSmall
    <3> QED
      BY <3>1, <3>2, <3>3
  <2>3. (w + (0 - len)) % Modulus = x + Modulus
    BY <1>5, <2>2 DEF x
  <2>4. Signed(w + (0 - len)) = (x + Modulus) - Modulus
    BY <1>2, <2>1, <2>3 DEF Signed
  <2>5. Signed(w + (0 - len)) = x
    BY <1>2, <2>1, <2>4
  <2> QED
    BY <1>4, <1>7, <2>1, <2>5 DEF len
<1> QED
  BY <1>6, <1>7 DEF len

\* Whatever is in the ring may be clocked at the DAC's rate.
LEMMA RingRates ==
    ASSUME IndInv, g_pl_active
    PROVE  \A k \in 1 .. Len(g_ring) : Rate[g_queue[g_ring[k][1]]] = g_out_rate
<1> TAKE k \in 1 .. Len(g_ring)
<1>1. g_ring[k][1] = IF Pending /\ k > Len(g_ring) - Ahead THEN g_pending_idx ELSE g_queue_idx
  BY DEF IndInv, OwnersSound
<1>2. Rate[g_queue[g_queue_idx]] = g_out_rate
  BY DEF IndInv, RateSound
<1>3. Pending /\ k > Len(g_ring) - Ahead => Gapless
  <2>1. Pending /\ ~Gapless => Ahead = 0
    BY DEF IndInv, HandOverSound
  <2>2. Len(g_ring) \in Nat
    BY OnFacts
  <2> QED
    BY <2>1, <2>2
<1> QED
  BY <1>1, <1>2, <1>3 DEF Gapless

-----------------------------------------------------------------------------
(* One lemma per action.                                                    *)

engine == <<queue, g_pl_active, g_art, decoder, handover, g_out_rate, bufs, stream>>

\* Steps that move no frame: waiting, pausing, a change of the modes.
LEMMA UnmovedSound ==
    ASSUME IndInv, UNCHANGED engine, modes' \in Modes, g_pl_paused' \in BOOLEAN,
           g_last_err' \in {"ok", "open", "rate", "read"}, g_pl_end_seq' \in {0, 1},
           running' \in BOOLEAN, pc' \in {"loop", "decode", "end", "advance"},
           ~g_pl_active => ~running' /\ pc' = "loop",
           pc' = "decode" /\ g_pl_active /\ Pending => Ahead <= RingFrames - 1
    PROVE  IndInv'
<1>1. /\ UNCHANGED <<g_queue, g_queue_idx, g_queue_art_shared>> /\ g_pl_active' = g_pl_active
      /\ g_art' = g_art /\ UNCHANGED <<g_dec, g_eos, dead>>
      /\ UNCHANGED <<g_pending_idx, g_boundary, g_prefetch_tried>> /\ g_out_rate' = g_out_rate
      /\ bufs' = bufs /\ UNCHANGED <<g_ring, g_written, pulled>>
  BY DEF engine, queue, decoder, handover, stream
<1>2. TypeOK'
  BY <1>1 DEF IndInv, TypeOK, Entries, Frame
<1>3. Pending' = Pending /\ Ahead' = Ahead /\ LastFrame' = LastFrame /\ Gapless' = Gapless
  BY <1>1 DEF Pending, Ahead, LastFrame, Gapless
<1>4. Shape'
  BY <1>1 DEF IndInv, Shape
<1>5. DecoderSound'
  BY <1>1, <1>3 DEF IndInv, DecoderSound
<1>6. RateSound'
  BY <1>1 DEF IndInv, RateSound
<1>7. HandOverSound'
  <2>1. g_pl_active /\ Pending => Ahead <= RingFrames
    BY OnFacts
  <2> QED
    BY <1>1, <1>3, <2>1 DEF IndInv, HandOverSound
<1>8. OwnersSound'
  BY <1>1, <1>3 DEF IndInv, OwnersSound
<1>9. OrderSound'
  BY <1>1, <1>3 DEF IndInv, OrderSound, Follows
<1>10. ArtIsOfTrack'
  BY <1>1 DEF IndInv, ArtIsOfTrack
<1> QED
  BY <1>2, <1>4, <1>5, <1>6, <1>7, <1>8, <1>9, <1>10 DEF IndInv

\* With a track queued, the frames in the ring and the decoder go over to it
\* at the hand-over; what the HAL holds has its rate.
LEMMA GaplessSound ==
    ASSUME IndInv, g_pl_active, Pending, Reached, Gapless, CommitGapless,
           UNCHANGED <<g_queue, g_queue_art_shared, modes>>, pc' = "decode"
    PROVE  IndInv' /\ \A k \in 1 .. Len(g_ring') : g_ring'[k][1] = g_queue_idx'
<1>1. /\ g_queue_idx' = g_pending_idx /\ g_art' = TrackArt(g_queue[g_pending_idx], g_queue_art_shared)
      /\ g_pending_idx' = None /\ g_boundary' = 0 /\ g_prefetch_tried' = FALSE /\ g_last_err' = "ok"
      /\ UNCHANGED <<g_pl_active, g_pl_paused, g_pl_end_seq, g_dec, g_eos, dead>>
      /\ UNCHANGED <<g_out_rate, running, bufs, g_ring, g_written, pulled>>
      /\ g_queue' = g_queue /\ g_queue_art_shared' = g_queue_art_shared /\ modes' = modes
  BY DEF CommitGapless, decoder, hal, stream
<1>2. g_pending_idx \in Playable(g_queue) /\ g_dec.idx = g_pending_idx
  BY DEF IndInv, DecoderSound
<1>3. ~Pending' /\ LastFrame' = LastFrame
  BY <1>1 DEF Pending, LastFrame
<1>4. \A k \in 1 .. Len(g_ring) : g_ring[k][1] = g_pending_idx
  <2> TAKE k \in 1 .. Len(g_ring)
  <2>1. Len(g_ring) <= Ahead /\ Len(g_ring) \in Nat /\ Ahead \in Nat
    BY ReachedFacts, OnFacts
  <2>2. k > Len(g_ring) - Ahead
    BY <2>1
  <2> QED
    BY <2>2 DEF IndInv, OwnersSound
<1>5. TypeOK'
  <2>1. g_queue_idx' \in Entries' /\ g_pending_idx' \in Entries' \cup {None}
    BY <1>1, <1>2, OnFacts DEF Entries
  <2>2. g_art' \in HasArt \cup {"none", "album"}
    BY <1>1 DEF TrackArt
  <2>3. g_boundary' \in 0 .. Modulus - 1
    BY <1>1, Numbers
  <2> QED
    BY <1>1, <2>1, <2>2, <2>3 DEF IndInv, TypeOK, Entries, Frame
<1>6. Shape'
  BY <1>1, <1>2 DEF IndInv, Shape
<1>7. DecoderSound'
  BY <1>1, <1>2, <1>3 DEF IndInv, DecoderSound
<1>8. RateSound'
  BY <1>1 DEF IndInv, RateSound, Gapless
<1>9. HandOverSound'
  BY <1>3 DEF HandOverSound
<1>10. OwnersSound'
  BY <1>1, <1>3, <1>4 DEF OwnersSound
<1>11. OrderSound'
  BY <1>1, <1>3 DEF IndInv, OrderSound, Follows
<1>12. ArtIsOfTrack'
  BY <1>1 DEF ArtIsOfTrack, TrackArt
<1> QED
  BY <1>1, <1>4, <1>5, <1>6, <1>7, <1>8, <1>9, <1>10, <1>11, <1>12 DEF IndInv

\* At another rate nothing of the queued track has been decoded, and the ring
\* is empty when the hand-over is due: the DAC starts anew on it.
LEMMA ReclockedSound ==
    ASSUME IndInv, g_pl_active, Pending, Reached, ~Gapless, CommitReclocked,
           UNCHANGED <<g_queue, g_queue_art_shared, modes>>, pc' = "decode"
    PROVE  IndInv' /\ \A k \in 1 .. Len(g_ring') : g_ring'[k][1] = g_queue_idx'
<1> DEFINE q == g_queue
           i == g_pending_idx
<1>1. q \in Launchable /\ i \in Playable(q) /\ Frames[q[i]] \in Nat /\ i \in Nat \ {0}
  BY OnFacts DEF IndInv, DecoderSound, None
<1>2. Ahead = 0 /\ g_dec.pos = 0 /\ g_ring = <<>>
  <2>1. Ahead = 0 /\ g_dec.pos = 0
    BY DEF IndInv, HandOverSound
  <2>2. Len(g_ring) = 0 /\ g_ring \in Seq(Frame)
    BY <2>1, ReachedFacts, OnFacts
  <2> QED
    BY <2>1, <2>2
<1>3. /\ PrimeFrames \in Nat /\ PrimeFrames <= RingFrames /\ PrimeFrames > 0
  BY PlayerAssumption
<1>4. PICK n \in 0 .. PrimeFrames :
          /\ Decode(q, i, g_dec.pos, g_ring, PrimeFrames, dead, n)
          /\ g_written' = (g_written + n) % Modulus
          /\ ColdStart(g_ring \o Decoded(i, g_dec.pos, n))
  BY DEF CommitReclocked
<1>5. FilledUpto(q, i, 0, PrimeFrames, n)
  <2>1. Decode(q, i, 0, <<>>, PrimeFrames, dead, n) /\ dead \in BOOLEAN
    BY <1>2, <1>4 DEF IndInv, TypeOK
  <2> QED
    BY <1>3, <2>1, DecodeFills
<1>6. /\ n <= Frames[q[i]] /\ g_dec' = [idx |-> i, pos |-> n]
      /\ g_eos' \in BOOLEAN /\ dead' \in BOOLEAN
      /\ g_eos' /\ ~dead' => n = Frames[q[i]]
  <2>1. FilledInFile(q, i, 0, PrimeFrames, n)
    <3>1. 0 \in Nat /\ 0 <= Frames[q[i]] /\ PrimeFrames \in Nat
      BY <1>1, <1>3
    <3> QED
      BY <1>1, <1>5, <3>1, FilledFacts, Zenon
  <2>2. 0 + n = n
    BY <1>3
  <2> QED
    BY <2>1, <2>2 DEF FilledInFile
<1>7. ColdStart(Decoded(i, 0, n))
  <2>1. Decoded(i, 0, n) \in Seq(Nat \X Nat)
    <3>1. \A p \in Nat : <<i, p>> \in Nat \X Nat
      BY <1>1
    <3>2. n \in Nat /\ 0 \in Nat
      BY <1>3
    <3> QED
      BY <3>1, <3>2, DecodedFacts
  <2>2. <<>> \o Decoded(i, 0, n) = Decoded(i, 0, n)
    BY <2>1, ConcatEmptySeq
  <2>3. ColdStart(<<>> \o Decoded(i, 0, n))
    BY <1>2, <1>4
  <2> QED
    BY <2>2, <2>3
<1>8. Started(q, i, n)
  <2>1. g_written' \in 0 .. Modulus - 1
    <3>1. g_written + n \in Int
      BY <1>3, OnFacts
    <3> QED
      BY <1>4, <3>1, Numbers, Division
  <2> QED
    BY <1>6, <1>7, <2>1 DEF CommitReclocked, Started
<1>9. Around'
  BY DEF CommitReclocked, Around, IndInv, TypeOK, modes
<1>10. IndInv'
  <2>1. n \in 0 .. RingFrames /\ pc' \in {"loop", "decode"}
    BY <1>3, Numbers
  <2> QED
    BY <1>1, <1>6, <1>8, <1>9, <2>1, StartedSound
<1>11. ~Pending' /\ g_pl_active'
  BY <1>8 DEF Started, Pending
<1> QED
  BY <1>10, <1>11 DEF IndInv, OwnersSound

\* A frame decoded behind the ring belongs to the decoder's track and follows
\* the last one; it is decoded only if it may be clocked at the DAC's rate.
LEMMA AppendSound ==
    ASSUME IndInv, pc = "decode", pc' = "end", ~Held, ~g_eos, Len(g_ring) # RingFrames,
           g_dec.pos < Frames[g_queue[g_dec.idx]],
           g_ring' = Append(g_ring, <<g_dec.idx, g_dec.pos>>),
           g_written' = (g_written + 1) % Modulus,
           g_dec' = [g_dec EXCEPT !.pos = @ + 1],
           g_eos' = g_eos, dead' \in BOOLEAN,
           UNCHANGED <<queue, modes, transport, g_art, handover, hal, pulled>>
    PROVE  IndInv'
<1> DEFINE len == Len(g_ring)
           new == <<g_dec.idx, g_dec.pos>>
<1>1. g_pl_active
  BY DEF IndInv, Shape
<1>2. /\ g_queue' = g_queue /\ g_queue_idx' = g_queue_idx /\ g_queue_art_shared' = g_queue_art_shared
      /\ modes' = modes /\ g_pl_active' = g_pl_active /\ g_pl_paused' = g_pl_paused
      /\ g_last_err' = g_last_err /\ g_pl_end_seq' = g_pl_end_seq /\ g_art' = g_art
      /\ g_pending_idx' = g_pending_idx /\ g_boundary' = g_boundary
      /\ g_prefetch_tried' = g_prefetch_tried /\ g_out_rate' = g_out_rate
      /\ running' = running /\ bufs' = bufs /\ pulled' = pulled
  BY DEF queue, transport, handover, hal
<1>3. /\ g_dec \in [idx : Entries \cup {None}, pos : Nat] /\ g_eos \in BOOLEAN
      /\ g_dec.idx \in Playable(g_queue) /\ g_dec.pos \in Nat /\ g_dec.idx \in Entries
      /\ g_dec.idx = IF Pending THEN g_pending_idx ELSE g_queue_idx
  <2>1. g_dec \in [idx : Entries \cup {None}, pos : Nat] /\ g_eos \in BOOLEAN
    BY DEF IndInv, TypeOK
  <2>2. g_dec.idx \in Playable(g_queue) /\ g_dec.idx = IF Pending THEN g_pending_idx ELSE g_queue_idx
    BY <1>1, OnFacts DEF IndInv, DecoderSound
  <2> QED
    BY <2>1, <2>2, <1>1, OnFacts
<1>4. g_dec'.idx = g_dec.idx /\ g_dec'.pos = g_dec.pos + 1 /\ g_dec' \in [idx : Entries \cup {None}, pos : Nat]
  BY <1>3
<1>5. /\ len \in Nat /\ len < RingFrames /\ g_ring \in Seq(Frame) /\ new \in Frame
  <2>1. len \in Nat /\ len <= RingFrames /\ g_ring \in Seq(Frame) /\ len # RingFrames
    BY <1>1, OnFacts
  <2>2. new \in Frame
    BY <1>3 DEF Frame
  <2> QED
    BY <2>1, <2>2, Numbers
<1>6. /\ g_ring' \in Seq(Frame) /\ Len(g_ring') = len + 1 /\ g_ring' # <<>>
      /\ g_ring'[len + 1] = new
      /\ \A k \in 1 .. len : g_ring'[k] = g_ring[k]
  BY <1>5, AppendProperties
<1>7. LastFrame' = new
  BY <1>6 DEF LastFrame
<1>8. Pending' = Pending /\ Gapless' = Gapless
  BY <1>2 DEF Pending, Gapless
<1>9. Pending => Gapless /\ Ahead' = Ahead + 1 /\ Ahead + 1 <= RingFrames
  <2> SUFFICES ASSUME Pending
               PROVE  Gapless /\ Ahead' = Ahead + 1 /\ Ahead + 1 <= RingFrames
    OBVIOUS
  <2>1. Ahead \in Nat /\ Ahead <= RingFrames - 1
    BY <1>1, OnFacts DEF IndInv, HandOverSound
  <2>2. Ahead + 1 \in 0 .. Modulus - 1 /\ Ahead + 1 <= RingFrames
    BY <2>1, Numbers
  <2>3. g_written \in Int /\ g_boundary \in Int /\ g_written - g_boundary \in Int /\ 1 \in Int
        /\ 0 - g_boundary \in Int /\ g_written + 1 \in Int /\ Modulus \in Nat \ {0}
    <3>1. g_written \in Nat /\ g_boundary \in Nat
      BY <1>1, OnFacts, Zenon
    <3>2. Modulus \in Nat \ {0}
      BY Numbers, Zenon
    <3> QED
      BY <3>1, <3>2
  <2>4. (((g_written + 1) % Modulus) + (0 - g_boundary)) % Modulus = ((g_written + 1) + (0 - g_boundary)) % Modulus
    BY <2>3, ModAdd
  <2>5. (((g_written - g_boundary) % Modulus) + 1) % Modulus = ((g_written - g_boundary) + 1) % Modulus
    BY <2>3, ModAdd
  <2>6. (g_written + 1) + (0 - g_boundary) = (g_written - g_boundary) + 1
    BY <2>3
  <2>7. g_written' - g_boundary' = ((g_written + 1) % Modulus) + (0 - g_boundary)
    <3>1. (g_written + 1) % Modulus \in Int
      BY <2>3
    <3> QED
      BY <1>2, <2>3, <3>1
  <2>8. Ahead' = (Ahead + 1) % Modulus
    BY <2>4, <2>5, <2>6, <2>7 DEF Ahead
  <2>9. (Ahead + 1) % Modulus = Ahead + 1
    BY <2>2, <2>3, ModSmall
  <2> QED
    BY <2>2, <2>8, <2>9 DEF Held
<1>10. TypeOK'
  <2>1. g_written' \in 0 .. Modulus - 1
    <3>1. g_written + 1 \in Int
      BY <1>1, OnFacts
    <3> QED
      BY <3>1, Numbers, Division
  <2>2. Len(g_ring') <= RingFrames
    BY <1>5, <1>6, Numbers
  <2> QED
    BY <1>2, <1>4, <1>6, <2>1, <2>2 DEF IndInv, TypeOK, Entries, Frame
<1>11. Shape'
  BY <1>1, <1>2 DEF IndInv, Shape
<1>12. DecoderSound'
  <2>1. g_dec.pos + 1 <= Frames[g_queue[g_dec.idx]]
    BY <1>1, <1>3, OnFacts
  <2> QED
    BY <1>2, <1>4, <1>8, <2>1 DEF IndInv, DecoderSound
<1>13. RateSound'
  BY <1>2 DEF IndInv, RateSound
<1>14. HandOverSound'
  BY <1>8, <1>9 DEF HandOverSound
<1>15. OwnersSound'
  <2> SUFFICES ASSUME NEW k \in 1 .. Len(g_ring')
               PROVE  g_ring'[k][1] = IF Pending /\ k > Len(g_ring') - Ahead' THEN g_pending_idx ELSE g_queue_idx
    BY <1>2, <1>8 DEF OwnersSound
  <2>1. CASE k = len + 1
    <3>1. g_ring'[k][1] = g_dec.idx
      BY <1>6, <2>1
    <3>2. Pending => k > Len(g_ring') - Ahead'
      BY <1>1, <1>5, <1>6, <1>9, <2>1, OnFacts
    <3> QED
      BY <1>3, <3>1, <3>2
  <2>2. CASE k # len + 1
    <3>1. k \in 1 .. len
      BY <1>5, <1>6, <2>2
    <3>2. g_ring'[k] = g_ring[k]
      BY <1>6, <3>1
    <3>3. Pending => Len(g_ring') - Ahead' = len - Ahead
      BY <1>1, <1>5, <1>6, <1>9, OnFacts
    <3>4. g_ring[k][1] = IF Pending /\ k > len - Ahead THEN g_pending_idx ELSE g_queue_idx
      BY <1>1, <3>1 DEF IndInv, OwnersSound
    <3> QED
      BY <3>2, <3>3, <3>4
  <2> QED
    BY <2>1, <2>2
<1>16. OrderSound'
  <2>1. LastFrame # Silence => Follows(LastFrame, new)
    <3>1. g_dec.idx # None
      BY <1>1, <1>3, OnFacts
    <3> QED
      BY <1>1, <3>1 DEF IndInv, OrderSound
  <2>2. \A x, y : Follows(x, y)' <=> Follows(x, y)
    BY <1>2 DEF Follows
  <2>3. ASSUME NEW k \in 1 .. Len(g_ring') - 1
        PROVE  Follows(g_ring'[k], g_ring'[k + 1])
    <3>1. CASE k = len
      <4>1. LastFrame = g_ring[len] /\ LastFrame \in Frame /\ g_ring'[k] = g_ring[len] /\ g_ring'[k + 1] = new
        <5>1. k \in 1 .. len /\ g_ring # <<>>
          BY <1>5, <1>6, <3>1
        <5> QED
          BY <1>5, <1>6, <3>1, <5>1 DEF LastFrame
      <4> QED
        BY <1>1, <2>1, <4>1, OnFacts
    <3>2. CASE k # len
      <4>1. k \in 1 .. len - 1 /\ k \in 1 .. len /\ k + 1 \in 1 .. len
        BY <1>5, <1>6, <3>2
      <4>2. g_ring'[k] = g_ring[k] /\ g_ring'[k + 1] = g_ring[k + 1]
        BY <1>6, <4>1
      <4> QED
        BY <1>1, <4>1, <4>2 DEF IndInv, OrderSound
    <3> QED
      BY <3>1, <3>2
  <2>4. pulled # Silence => Follows(pulled, g_ring'[1])
    <3>1. CASE len = 0
      <4>1. g_ring = <<>> /\ g_ring'[1] = new
        BY <1>5, <1>6, <3>1
      <4> QED
        BY <2>1, <4>1 DEF LastFrame
    <3>2. CASE len # 0
      <4>1. g_ring # <<>> /\ 1 \in 1 .. len
        BY <1>5, <3>2
      <4> QED
        BY <1>1, <1>6, <4>1 DEF IndInv, OrderSound
    <3> QED
      BY <3>1, <3>2
  <2>5. Follows(new, <<g_dec'.idx, g_dec'.pos>>)
    BY <1>4 DEF Follows
  <2> QED
    BY <1>2, <1>7, <2>3, <2>4, <2>5 DEF OrderSound, Follows
<1>17. ArtIsOfTrack'
  BY <1>2 DEF IndInv, ArtIsOfTrack
<1> QED
  BY <1>10, <1>11, <1>12, <1>13, <1>14, <1>15, <1>16, <1>17 DEF IndInv

\* The decoder finishes at the end of its file or with a failure.
LEMMA FinishSound ==
    ASSUME IndInv, pc = "decode", pc' = "end",
           g_dec.pos = Frames[g_queue[g_dec.idx]] \/ dead',
           g_eos' = TRUE, dead' \in BOOLEAN,
           UNCHANGED <<g_ring, g_written, g_dec>>,
           UNCHANGED <<queue, modes, transport, g_art, handover, hal, pulled>>
    PROVE  IndInv'
<1>1. /\ g_queue' = g_queue /\ g_queue_idx' = g_queue_idx /\ g_queue_art_shared' = g_queue_art_shared
      /\ modes' = modes /\ g_pl_active' = g_pl_active /\ g_pl_paused' = g_pl_paused
      /\ g_last_err' = g_last_err /\ g_pl_end_seq' = g_pl_end_seq /\ g_art' = g_art
      /\ g_pending_idx' = g_pending_idx /\ g_boundary' = g_boundary
      /\ g_prefetch_tried' = g_prefetch_tried /\ g_out_rate' = g_out_rate
      /\ running' = running /\ bufs' = bufs /\ pulled' = pulled
      /\ g_ring' = g_ring /\ g_written' = g_written /\ g_dec' = g_dec
  BY DEF queue, transport, handover, hal
<1>2. g_pl_active
  BY DEF IndInv, Shape
<1>3. Pending' = Pending /\ Ahead' = Ahead /\ LastFrame' = LastFrame /\ Gapless' = Gapless
  BY <1>1 DEF Pending, Ahead, LastFrame, Gapless
<1>4. TypeOK'
  BY <1>1 DEF IndInv, TypeOK, Entries, Frame
<1>5. Shape'
  BY <1>1, <1>2 DEF IndInv, Shape
<1>6. DecoderSound'
  BY <1>1, <1>2, <1>3 DEF IndInv, DecoderSound
<1>7. RateSound'
  BY <1>1 DEF IndInv, RateSound
<1>8. HandOverSound'
  BY <1>1, <1>2, <1>3, OnFacts DEF IndInv, HandOverSound
<1>9. OwnersSound'
  BY <1>1, <1>3 DEF IndInv, OwnersSound
<1>10. OrderSound'
  BY <1>1, <1>3 DEF IndInv, OrderSound, Follows
<1>11. ArtIsOfTrack'
  BY <1>1 DEF IndInv, ArtIsOfTrack
<1> QED
  BY <1>4, <1>5, <1>6, <1>7, <1>8, <1>9, <1>10, <1>11 DEF IndInv

LEMMA DecodeSound ==
    ASSUME IndInv, PumpDecode
    PROVE  IndInv' /\ g_pl_active' = g_pl_active
<1>1. /\ pc = "decode" /\ pc' = "end" /\ g_pl_active
      /\ UNCHANGED <<queue, modes, transport, g_art, handover, hal, pulled>>
  BY DEF PumpDecode, IndInv, Shape
<1>2. CASE UNCHANGED <<decoder, g_ring, g_written>>
  <2>1. UNCHANGED engine
    BY <1>1, <1>2 DEF engine, decoder, handover, hal, stream, transport
  <2> QED
    BY <1>1, <2>1, UnmovedSound DEF transport, hal, IndInv, TypeOK, modes
<1>3. CASE /\ ~Held /\ ~g_eos /\ Len(g_ring) # RingFrames
           /\ dead' \in {dead, dead \/ ReadFaults} /\ DecodeStep
  <2>1. dead' \in BOOLEAN
    <3>1. dead \in BOOLEAN /\ ReadFaults \in BOOLEAN
      BY PlayerAssumption DEF IndInv, TypeOK
    <3>2. (dead \/ ReadFaults) \in BOOLEAN
      OBVIOUS
    <3>3. dead' = dead \/ dead' = (dead \/ ReadFaults)
      BY <1>3, Zenon
    <3> QED
      BY <3>1, <3>2, <3>3, Zenon
  <2>2. CASE /\ g_dec.pos < Frames[g_queue[g_dec.idx]]
             /\ g_ring' = Append(g_ring, <<g_dec.idx, g_dec.pos>>)
             /\ g_written' = (g_written + 1) % Modulus
             /\ g_dec' = [g_dec EXCEPT !.pos = @ + 1]
             /\ UNCHANGED g_eos
    BY <1>1, <1>3, <2>1, <2>2, AppendSound DEF transport
  <2>3. CASE /\ g_dec.pos = Frames[g_queue[g_dec.idx]] \/ dead'
             /\ g_eos' = TRUE
             /\ UNCHANGED <<g_ring, g_written, g_dec>>
    BY <1>1, <2>1, <2>3, FinishSound DEF transport
  <2> QED
    BY <1>3, <2>2, <2>3 DEF DecodeStep
<1> QED
  BY <1>2, <1>3 DEF PumpDecode

\* The end of a finished track: what is opened behind it is a track of the
\* queue, and none of its frames is ahead yet.
LEMMA PrefetchedSound ==
    ASSUME IndInv, g_pl_active, ~Pending, ~g_prefetch_tried, g_eos, ~dead,
           NEW some \in SUBSET Playable(g_queue), NEW err \in {"ok", "open", "rate", "read"},
           Prefetched(some, err), g_prefetch_tried' = TRUE, pc' = "loop",
           UNCHANGED <<queue, modes, g_pl_active, g_pl_paused, g_pl_end_seq, g_art, hal, stream>>
    PROVE  IndInv'
<1>1. PICK j \in some : /\ g_pending_idx' = j /\ g_boundary' = g_written
                        /\ g_dec' = [idx |-> j, pos |-> 0] /\ g_eos' = FALSE /\ dead' = FALSE
                        /\ g_last_err' = err
  BY DEF Prefetched
<1>2. /\ g_queue' = g_queue /\ g_queue_idx' = g_queue_idx /\ g_queue_art_shared' = g_queue_art_shared
      /\ modes' = modes /\ g_pl_active' = g_pl_active /\ g_pl_paused' = g_pl_paused
      /\ g_pl_end_seq' = g_pl_end_seq /\ g_art' = g_art /\ g_out_rate' = g_out_rate
      /\ running' = running /\ bufs' = bufs /\ pulled' = pulled
      /\ g_ring' = g_ring /\ g_written' = g_written
  BY DEF queue, hal, stream
<1>3. j \in Playable(g_queue) /\ j \in Entries /\ j # None /\ Frames[g_queue[j]] \in Nat \ {0}
  BY OnFacts
<1>4. Pending' /\ LastFrame' = LastFrame
  BY <1>1, <1>2, <1>3 DEF Pending, LastFrame
<1>5. Ahead' = 0
  <2>1. g_written' - g_boundary' = 0 /\ 0 \in 0 .. Modulus - 1
    BY <1>1, <1>2, OnFacts, Numbers
  <2> QED
    BY <2>1, Numbers, ModSmall DEF Ahead
<1>6. TypeOK'
  <2>1. g_dec' \in [idx : Entries' \cup {None}, pos : Nat] /\ g_pending_idx' \in Entries' \cup {None}
    BY <1>1, <1>2, <1>3 DEF Entries
  <2>2. /\ g_eos' \in BOOLEAN /\ dead' \in BOOLEAN /\ g_prefetch_tried' \in BOOLEAN
        /\ g_last_err' \in {"ok", "open", "rate", "read"}
    BY <1>1
  <2> QED
    BY <1>1, <1>2, <2>1, <2>2 DEF IndInv, TypeOK, Entries, Frame
<1>7. Shape'
  BY <1>2 DEF IndInv, Shape
<1>8. DecoderSound'
  <2>1. g_dec'.idx = j /\ g_dec'.pos = 0 /\ 0 <= Frames[g_queue[j]]
    BY <1>1, <1>3
  <2> QED
    BY <1>1, <1>2, <1>3, <1>4, <2>1 DEF DecoderSound
<1>9. RateSound'
  BY <1>2 DEF IndInv, RateSound
<1>10. HandOverSound'
  <2>1. g_dec'.pos = 0
    BY <1>1
  <2> QED
    BY <1>5, <2>1, Numbers DEF HandOverSound
<1>11. OwnersSound'
  <2> SUFFICES ASSUME NEW k \in 1 .. Len(g_ring)
               PROVE  g_ring[k][1] = IF k > Len(g_ring) - 0 THEN j ELSE g_queue_idx
    BY <1>1, <1>2, <1>4, <1>5 DEF OwnersSound
  <2>1. ~(k > Len(g_ring) - 0)
    BY OnFacts
  <2> QED
    BY <2>1 DEF IndInv, OwnersSound
<1>12. OrderSound'
  <2>1. LastFrame # Silence => Follows(LastFrame, <<j, 0>>)
    <3> SUFFICES ASSUME LastFrame # Silence
                 PROVE  Follows(LastFrame, <<j, 0>>)
      OBVIOUS
    <3>1. g_dec.idx = g_queue_idx /\ g_dec.idx # None /\ g_dec.pos = Frames[g_queue[g_dec.idx]]
      BY OnFacts DEF IndInv, DecoderSound
    <3>2. g_dec.pos \in Nat \ {0}
      BY <3>1, OnFacts
    <3>3. Follows(LastFrame, <<g_dec.idx, g_dec.pos>>)
      BY <3>1 DEF IndInv, OrderSound
    <3>4. LastFrame \in Frame
      <4>1. pulled \in Frame \cup {Silence}
        BY DEF IndInv, TypeOK
      <4>2. g_ring # <<>> => g_ring[Len(g_ring)] \in Frame
        BY OnFacts
      <4> QED
        BY <4>1, <4>2 DEF LastFrame
    <3>5. g_dec.idx = LastFrame[1] /\ g_dec.pos = LastFrame[2] + 1
      BY <3>2, <3>3 DEF Follows
    <3>6. LastFrame[2] \in Nat
      BY <3>4 DEF Frame
    <3>7. LastFrame[2] = Frames[g_queue[LastFrame[1]]] - 1
      BY <3>1, <3>2, <3>5, <3>6
    <3> QED
      BY <3>7 DEF Follows
  <2>2. <<g_dec'.idx, g_dec'.pos>> = <<j, 0>>
    BY <1>1
  <2> QED
    BY <1>2, <1>4, <2>1, <2>2 DEF IndInv, OrderSound, Follows
<1>13. ArtIsOfTrack'
  BY <1>2 DEF IndInv, ArtIsOfTrack
<1> QED
  BY <1>6, <1>7, <1>8, <1>9, <1>10, <1>11, <1>12, <1>13 DEF IndInv

\* When nothing opens, or there is nothing to open, the track plays out.
LEMMA NotPrefetchedSound ==
    ASSUME IndInv, g_pl_active, ~Pending, ~g_prefetch_tried, g_eos, ~dead,
           \/ UNCHANGED <<decoder, g_last_err, g_pending_idx, g_boundary>>
           \/ NothingOpens,
           g_prefetch_tried' = TRUE, pc' \in {"loop", "advance"},
           UNCHANGED <<queue, modes, g_pl_active, g_pl_paused, g_pl_end_seq, g_art, hal, stream>>
    PROVE  IndInv'
<1>1. /\ g_queue' = g_queue /\ g_queue_idx' = g_queue_idx /\ g_queue_art_shared' = g_queue_art_shared
      /\ modes' = modes /\ g_pl_active' = g_pl_active /\ g_pl_paused' = g_pl_paused
      /\ g_pl_end_seq' = g_pl_end_seq /\ g_art' = g_art /\ g_out_rate' = g_out_rate
      /\ running' = running /\ bufs' = bufs /\ pulled' = pulled
      /\ g_ring' = g_ring /\ g_written' = g_written
  BY DEF queue, hal, stream
<1>2. /\ g_pending_idx' = g_pending_idx /\ g_boundary' = g_boundary /\ g_eos' = g_eos
      /\ (g_dec' = g_dec /\ dead' = dead) \/ (g_dec' = Closed /\ dead' \in {FALSE, ReadFaults})
      /\ g_last_err' = g_last_err \/ g_last_err' = "open"
  BY DEF NothingOpens, decoder
<1>0. /\ g_dec' = g_dec \/ g_dec' = Closed
      /\ g_last_err' = g_last_err \/ g_last_err' = "open"
      /\ g_pending_idx' = g_pending_idx /\ g_boundary' = g_boundary /\ g_eos' = g_eos
  BY <1>2, Zenon
<1>3. dead' \in BOOLEAN
  <2>1. ReadFaults \in BOOLEAN /\ dead \in BOOLEAN
    BY PlayerAssumption DEF IndInv, TypeOK
  <2>2. dead' = dead \/ dead' = FALSE \/ dead' = ReadFaults
    BY <1>2, Zenon
  <2> QED
    BY <2>1, <2>2, Zenon
<1>4. ~Pending' /\ LastFrame' = LastFrame
  BY <1>1, <1>2 DEF Pending, LastFrame
<1>5. TypeOK'
  <2>1. g_dec' \in [idx : Entries' \cup {None}, pos : Nat]
    BY <1>1, <1>0 DEF IndInv, TypeOK, Closed, Entries
  <2>2. g_last_err' \in {"ok", "open", "rate", "read"} /\ g_prefetch_tried' \in BOOLEAN
    BY <1>0 DEF IndInv, TypeOK
  <2> QED
    BY <1>1, <1>0, <1>3, <2>1, <2>2 DEF IndInv, TypeOK, Entries, Frame
<1>6. Shape'
  BY <1>1 DEF IndInv, Shape
<1>7. DecoderSound'
  <2>1. CASE g_dec' = g_dec /\ dead' = dead
    BY <1>1, <1>2, <1>4, <2>1 DEF IndInv, DecoderSound
  <2>2. CASE g_dec' = Closed
    <3>1. g_dec'.idx = None
      BY <2>2 DEF Closed
    <3> QED
      BY <1>2, <1>4, <3>1 DEF DecoderSound
  <2> QED
    BY <1>2, <2>1, <2>2
<1>8. RateSound'
  BY <1>1 DEF IndInv, RateSound
<1>9. HandOverSound'
  BY <1>4 DEF HandOverSound
<1>10. OwnersSound'
  BY <1>1, <1>4 DEF IndInv, OwnersSound
<1>11. OrderSound'
  <2>1. g_dec' = g_dec \/ g_dec'.idx = None
    BY <1>0 DEF Closed
  <2> QED
    BY <1>1, <1>4, <2>1 DEF IndInv, OrderSound, Follows
<1>12. ArtIsOfTrack'
  BY <1>1 DEF IndInv, ArtIsOfTrack
<1> QED
  BY <1>5, <1>6, <1>7, <1>8, <1>9, <1>10, <1>11, <1>12 DEF IndInv

LEMMA PrefetchSound ==
    ASSUME IndInv, PumpPrefetch
    PROVE  IndInv' /\ g_pl_active' = g_pl_active
<1> DEFINE n == Len(g_queue)
           first == AutoNext(g_queue, g_queue_idx)
           start == {j \in first : g_queue[j] \in FailsOpen}
           failed == FailedAt(g_queue, start, NextPlayable(g_queue), FailsOpen)
           before == Within(failed, 0, n - 1)
           later == UNION {NextPlayable(g_queue)[i] : i \in before}
<1>1. /\ pc = "end" /\ g_eos /\ ~dead /\ ~Pending /\ ~g_prefetch_tried
      /\ g_prefetch_tried' = TRUE /\ PrefetchNext
      /\ pc' = IF g_pending_idx' = None /\ g_ring = <<>> THEN "advance" ELSE "loop"
      /\ UNCHANGED <<queue, modes, g_pl_active, g_pl_paused, g_pl_end_seq, g_art, hal, stream>>
  BY DEF PumpPrefetch
<1>2. g_pl_active
  BY <1>1 DEF IndInv, Shape
<1>3. g_queue \in Launchable /\ g_queue_idx \in Playable(g_queue) /\ g_queue_idx \in DOMAIN g_queue
  BY <1>2, OnFacts DEF Entries
<1>4. first \subseteq Playable(g_queue)
  BY <1>3, PicksArePlayable DEF AutoNext
<1>5. later \subseteq Playable(g_queue)
  <2>1. n \in Nat /\ n - 1 \in 0 .. n + 1 /\ DOMAIN g_queue = 1 .. n /\ Playable(g_queue) \subseteq DOMAIN g_queue
    BY <1>3, QueueFacts
  <2>2. start \in SUBSET DOMAIN g_queue
    BY <1>4, <2>1
  <2>3. \A i \in DOMAIN g_queue : NextPlayable(g_queue)[i] \subseteq Playable(g_queue)
    BY <1>3, PicksArePlayable
  <2> HIDE DEF start
  <2>4. \A m \in 0 .. n + 1 : Within(failed, 0, m) \subseteq DOMAIN g_queue
    BY <1>3, <2>2, <2>3, TriedIn
  <2> HIDE DEF failed
  <2>5. before \subseteq DOMAIN g_queue
    BY <2>1, <2>4
  <2> HIDE DEF before
  <2> QED
    BY <2>3, <2>5
<1>6. \/ UNCHANGED <<decoder, g_last_err, g_pending_idx, g_boundary>>
      \/ Prefetched(first, g_last_err)
      \/ Prefetched(later, "open")
      \/ NothingOpens
  BY <1>1 DEF PrefetchNext
<1> HIDE DEF first, later
<1>7. CASE Prefetched(first, g_last_err) \/ Prefetched(later, "open")
  <2>1. PICK some \in SUBSET Playable(g_queue), err \in {"ok", "open", "rate", "read"} : Prefetched(some, err)
    <3>1. g_last_err \in {"ok", "open", "rate", "read"}
      BY DEF IndInv, TypeOK
    <3> QED
      BY <1>4, <1>5, <1>7, <3>1
  <2>2. pc' = "loop"
    <3>1. g_pending_idx' \in Playable(g_queue)
      BY <2>1 DEF Prefetched
    <3> QED
      BY <1>1, <1>2, <3>1, OnFacts
  <2> QED
    BY <1>1, <1>2, <2>1, <2>2, PrefetchedSound
<1>8. CASE UNCHANGED <<decoder, g_last_err, g_pending_idx, g_boundary>> \/ NothingOpens
  <2>1. pc' \in {"loop", "advance"}
    BY <1>1
  <2> QED
    BY <1>1, <1>2, <1>8, <2>1, NotPrefetchedSound
<1> QED
  BY <1>6, <1>7, <1>8

\* After the check for the hand-over the next frame out of the ring is one of
\* the track that is shown.
Titled == g_pl_active' /\ g_ring' # <<>> => Head(g_ring')[1] = g_queue_idx'

LEMMA CommitSound ==
    ASSUME IndInv, PumpCommit
    PROVE  IndInv' /\ Explained /\ Titled
<1>1. /\ pc = "loop" /\ g_pl_active /\ ~g_pl_paused
      /\ pc' = IF g_pl_active' THEN "decode" ELSE "loop"
      /\ g_queue' = g_queue /\ g_queue_art_shared' = g_queue_art_shared /\ modes' = modes
  BY DEF PumpCommit
<1>2. ASSUME IndInv', g_pl_active' => \A k \in 1 .. Len(g_ring') : g_ring'[k][1] = g_queue_idx'
      PROVE  Titled
  <2> SUFFICES ASSUME g_pl_active', g_ring' # <<>>
               PROVE  Head(g_ring')[1] = g_queue_idx'
    BY DEF Titled
  <2>1. g_ring' \in Seq(Frame')
    BY <1>2 DEF IndInv, TypeOK
  <2>2. Head(g_ring') = g_ring'[1] /\ 1 \in 1 .. Len(g_ring')
    BY <2>1
  <2> QED
    BY <1>2, <2>2
<1>3. CASE ~Reached /\ UNCHANGED <<g_queue_idx, g_art, transport, decoder, handover, hal, stream>>
  <2>1. /\ UNCHANGED engine /\ g_pl_active' = g_pl_active /\ g_pl_paused' = g_pl_paused
        /\ g_last_err' = g_last_err /\ g_pl_end_seq' = g_pl_end_seq /\ running' = running
        /\ g_ring' = g_ring /\ g_queue_idx' = g_queue_idx
    BY <1>1, <1>3 DEF engine, queue, transport, hal, stream
  <2>2. pc' = "decode"
    BY <1>1, <2>1
  <2>3. Pending => Len(g_ring) > Ahead /\ Ahead <= RingFrames - 1
    BY <1>1, <1>3, ReachedFacts, OnFacts, Numbers
  <2>4. IndInv'
    <3>1. /\ modes' \in Modes /\ g_pl_paused' \in BOOLEAN /\ g_last_err' \in {"ok", "open", "rate", "read"}
          /\ g_pl_end_seq' \in {0, 1} /\ running' \in BOOLEAN
      BY <1>1, <2>1 DEF IndInv, TypeOK
    <3> QED
      BY <1>1, <2>1, <2>2, <2>3, <3>1, UnmovedSound
  <2>5. Titled
    <3> SUFFICES ASSUME g_ring # <<>>
                 PROVE  Head(g_ring)[1] = g_queue_idx
      BY <2>1 DEF Titled
    <3>1. Head(g_ring) = g_ring[1] /\ 1 \in 1 .. Len(g_ring)
      BY <1>1, OnFacts
    <3>2. Pending => ~(1 > Len(g_ring) - Ahead)
      BY <1>1, <2>3, OnFacts
    <3> QED
      BY <1>1, <3>1, <3>2 DEF IndInv, OwnersSound
  <2> QED
    BY <1>1, <2>1, <2>4, <2>5 DEF Explained
<1>4. CASE Reached /\ Gapless /\ CommitGapless
  <2>1. g_pl_active' = g_pl_active /\ Pending
    BY <1>4 DEF CommitGapless, Reached
  <2>2. pc' = "decode" /\ UNCHANGED <<g_queue, g_queue_art_shared, modes>>
    BY <1>1, <2>1
  <2>3. IndInv' /\ \A k \in 1 .. Len(g_ring') : g_ring'[k][1] = g_queue_idx'
    BY <1>1, <1>4, <2>1, <2>2, GaplessSound
  <2> QED
    BY <1>1, <1>2, <2>1, <2>3 DEF Explained
<1>5. CASE Reached /\ ~Gapless /\ CommitReclocked
  <2>1. g_pl_active' = g_pl_active /\ Pending
    BY <1>5 DEF CommitReclocked, Reached
  <2>2. pc' = "decode" /\ UNCHANGED <<g_queue, g_queue_art_shared, modes>>
    BY <1>1, <2>1
  <2>3. IndInv' /\ \A k \in 1 .. Len(g_ring') : g_ring'[k][1] = g_queue_idx'
    BY <1>1, <1>5, <2>1, <2>2, ReclockedSound
  <2> QED
    BY <1>1, <1>2, <2>1, <2>3 DEF Explained
<1>6. CASE Reached /\ ~Gapless /\ CommitUnclockable
  <2>1. g_pending_idx \in Playable(g_queue) /\ g_queue \in Launchable /\ g_queue_art_shared \in BOOLEAN
    BY <1>1, <1>6, OnFacts DEF IndInv, DecoderSound, Reached, TypeOK
  <2>2. Advance(g_queue, g_pending_idx, g_queue_art_shared, FALSE, {"rate"})
    BY <1>6 DEF CommitUnclockable
  <2>3. {"rate"} \in SUBSET {"ok", "open", "rate", "read"} /\ FALSE \in BOOLEAN
    OBVIOUS
  <2>4. pc' = "loop" \/ (g_pl_active' /\ pc' = "decode")
    BY <1>1
  <2>5. IndInv' /\ Explained /\ ~Pending'
    <3>1. \A sh, pa \in BOOLEAN :
             sh = g_queue_art_shared /\ pa = FALSE /\ Advance(g_queue, g_pending_idx, sh, pa, {"rate"}) =>
                 IndInv' /\ Explained /\ ~Pending'
      BY <1>1, <2>1, <2>3, <2>4, AdvanceSound DEF IndInv
    <3> QED
      BY <2>1, <2>2, <3>1
  <2> QED
    BY <1>2, <2>5 DEF IndInv, OwnersSound
<1> QED
  BY <1>3, <1>4, <1>5, <1>6 DEF PumpCommit

\* The interrupt takes the oldest frame of the ring: the next one of the
\* stream, and one of the DAC's rate.
LEMMA PullSound ==
    ASSUME IndInv, Pull
    PROVE  IndInv' /\ g_pl_active' = g_pl_active
<1>1. /\ running
      /\ bufs' = <<bufs[2], IF g_ring = <<>> THEN Silence ELSE Head(g_ring)>>
      /\ g_ring' = IF g_ring = <<>> THEN <<>> ELSE Tail(g_ring)
      /\ pulled' = IF g_ring = <<>> THEN pulled ELSE Head(g_ring)
  BY DEF Pull
<1>2. /\ g_queue' = g_queue /\ g_queue_idx' = g_queue_idx /\ g_queue_art_shared' = g_queue_art_shared
      /\ modes' = modes /\ g_pl_active' = g_pl_active /\ g_pl_paused' = g_pl_paused
      /\ g_last_err' = g_last_err /\ g_pl_end_seq' = g_pl_end_seq /\ g_art' = g_art
      /\ g_dec' = g_dec /\ g_eos' = g_eos /\ dead' = dead
      /\ g_pending_idx' = g_pending_idx /\ g_boundary' = g_boundary
      /\ g_prefetch_tried' = g_prefetch_tried /\ g_out_rate' = g_out_rate
      /\ running' = running /\ g_written' = g_written /\ pc' = pc
  BY DEF Pull, queue, transport, decoder, handover
<1>3. g_pl_active
  BY <1>1 DEF IndInv, Shape
<1>4. /\ g_ring \in Seq(Frame) /\ Len(g_ring) \in Nat /\ Len(g_ring) <= RingFrames
      /\ bufs[2] \in Frame \cup {Silence} /\ Silence \notin Frame
  <2>1. /\ g_ring \in Seq(Frame) /\ Len(g_ring) \in Nat /\ Len(g_ring) <= RingFrames
        /\ bufs \in Seq(Frame \cup {Silence}) /\ Len(bufs) = 2 /\ Silence \notin Frame
    BY <1>3, OnFacts
  <2>2. bufs[2] \in Frame \cup {Silence}
    <3>1. 2 \in 1 .. Len(bufs)
      BY <2>1
    <3> QED
      BY <2>1, <3>1, ElementOfSeq
  <2> QED
    BY <2>1, <2>2
<1>5. /\ g_ring' \in Seq(Frame) /\ Len(g_ring') \in Nat /\ Len(g_ring') <= Len(g_ring)
      /\ g_ring # <<>> => Len(g_ring') = Len(g_ring) - 1 /\ Head(g_ring) = g_ring[1] /\ 1 \in 1 .. Len(g_ring)
      /\ \A k \in 1 .. Len(g_ring') : k + 1 \in 1 .. Len(g_ring) /\ g_ring'[k] = g_ring[k + 1]
  <2>1. CASE g_ring = <<>>
    BY <1>1, <1>4, <2>1
  <2>2. CASE g_ring # <<>>
    <3>1. g_ring' = Tail(g_ring)
      BY <1>1, <2>2
    <3>2. /\ Tail(g_ring) \in Seq(Frame) /\ Len(Tail(g_ring)) = Len(g_ring) - 1
          /\ \A k \in 1 .. Len(Tail(g_ring)) : Tail(g_ring)[k] = g_ring[k + 1]
      BY <1>4, <2>2, HeadTailProperties
    <3>3. Len(g_ring) # 0 /\ Head(g_ring) = g_ring[1]
      BY <1>4, <2>2
    <3> QED
      BY <1>4, <3>1, <3>2, <3>3
  <2> QED
    BY <2>1, <2>2
<1>6. Pending' = Pending /\ Gapless' = Gapless /\ Ahead' = Ahead
  BY <1>2 DEF Pending, Gapless, Ahead
<1>7. LastFrame' = LastFrame
  <2>1. CASE g_ring = <<>>
    BY <1>1, <2>1 DEF LastFrame
  <2>2. CASE g_ring # <<>> /\ g_ring' = <<>>
    <3>1. Len(g_ring) = 1
      BY <1>4, <1>5, <2>2
    <3> QED
      BY <1>1, <1>5, <2>2, <3>1 DEF LastFrame
  <2>3. CASE g_ring # <<>> /\ g_ring' # <<>>
    <3>1. Len(g_ring') \in 1 .. Len(g_ring') /\ Len(g_ring') + 1 = Len(g_ring)
      BY <1>4, <1>5, <2>3
    <3>2. g_ring'[Len(g_ring')] = g_ring[Len(g_ring)]
      BY <1>5, <3>1
    <3> QED
      BY <2>3, <3>2 DEF LastFrame
  <2> QED
    BY <2>1, <2>2, <2>3
<1>8. TypeOK'
  <2>1. Frame' = Frame /\ Entries' = Entries
    BY <1>2 DEF Frame, Entries
  <2>2. (IF g_ring = <<>> THEN Silence ELSE Head(g_ring)) \in Frame \cup {Silence}
    BY <1>4, <1>5
  <2>3. bufs' \in Seq(Frame \cup {Silence}) /\ Len(bufs') = 2
    BY <1>1, <1>4, <2>2
  <2>4. pulled' \in Frame \cup {Silence}
    BY <1>1, <2>2 DEF IndInv, TypeOK
  <2>5. Len(g_ring') <= RingFrames
    BY <1>4, <1>5, Numbers
  <2> QED
    BY <1>2, <1>5, <2>1, <2>3, <2>4, <2>5 DEF IndInv, TypeOK
<1>9. Shape'
  BY <1>1, <1>2, <1>3 DEF IndInv, Shape
<1>10. DecoderSound'
  BY <1>2, <1>6 DEF IndInv, DecoderSound
<1>11. RateSound'
  <2>1. Rate[g_queue[g_queue_idx]] = g_out_rate
    BY <1>3 DEF IndInv, RateSound
  <2>2. bufs[2] = Silence \/ Rate[g_queue[bufs[2][1]]] = g_out_rate
    BY <1>3, OnFacts DEF IndInv, RateSound
  <2>3. g_ring # <<>> => Rate[g_queue[Head(g_ring)[1]]] = g_out_rate
    BY <1>3, <1>5, RingRates
  <2> QED
    BY <1>1, <1>2, <2>1, <2>2, <2>3 DEF RateSound
<1>12. HandOverSound'
  BY <1>2, <1>6 DEF IndInv, HandOverSound
<1>13. OwnersSound'
  <2> SUFFICES ASSUME NEW k \in 1 .. Len(g_ring')
               PROVE  g_ring'[k][1] = IF Pending /\ k > Len(g_ring') - Ahead THEN g_pending_idx ELSE g_queue_idx
    BY <1>2, <1>6 DEF OwnersSound
  <2>1. g_ring # <<>> /\ Len(g_ring') = Len(g_ring) - 1
    <3>1. Len(g_ring') > 0
      BY <1>5
    <3> QED
      BY <1>1, <1>5, <3>1
  <2>2. k + 1 \in 1 .. Len(g_ring) /\ g_ring'[k] = g_ring[k + 1]
    BY <1>5
  <2>3. k > Len(g_ring') - Ahead <=> k + 1 > Len(g_ring) - Ahead
    BY <1>3, <1>4, <2>1, OnFacts
  <2>4. g_ring[k + 1][1] = IF Pending /\ k + 1 > Len(g_ring) - Ahead THEN g_pending_idx ELSE g_queue_idx
    BY <1>3, <2>2 DEF IndInv, OwnersSound
  <2> QED
    BY <2>2, <2>3, <2>4
<1>14. OrderSound'
  <2>1. ASSUME NEW k \in 1 .. Len(g_ring) - 1
        PROVE  Follows(g_ring[k], g_ring[k + 1])
    BY <1>3 DEF IndInv, OrderSound
  <2>2. ASSUME NEW k \in 1 .. Len(g_ring') - 1
        PROVE  Follows(g_ring'[k], g_ring'[k + 1])
    <3>1. k \in 1 .. Len(g_ring') /\ k + 1 \in 1 .. Len(g_ring') /\ k + 1 \in 1 .. Len(g_ring) - 1
      <4>1. Len(g_ring') > 0
        BY <1>5
      <4>2. Len(g_ring') = Len(g_ring) - 1
        BY <1>1, <1>5, <4>1
      <4> QED
        BY <1>4, <1>5, <4>2
    <3>2. g_ring'[k] = g_ring[k + 1] /\ g_ring'[k + 1] = g_ring[(k + 1) + 1]
      BY <1>5, <3>1
    <3> QED
      BY <2>1, <3>1, <3>2
  <2>3. g_ring' # <<>> => Follows(pulled', g_ring'[1])
    <3> SUFFICES ASSUME g_ring' # <<>>
                 PROVE  Follows(pulled', g_ring'[1])
      OBVIOUS
    <3>1. Len(g_ring') # 0 /\ g_ring # <<>>
      BY <1>1, <1>5
    <3>2. 1 \in 1 .. Len(g_ring') /\ 1 \in 1 .. Len(g_ring) - 1 /\ 1 + 1 = 2
      BY <1>4, <1>5, <3>1
    <3>3. pulled' = g_ring[1] /\ g_ring'[1] = g_ring[1 + 1]
      BY <1>1, <1>5, <3>1, <3>2
    <3> QED
      BY <2>1, <3>2, <3>3
  <2>4. LastFrame # Silence /\ g_dec.idx # None => Follows(LastFrame, <<g_dec.idx, g_dec.pos>>)
    BY <1>3 DEF IndInv, OrderSound
  <2> QED
    BY <1>2, <1>7, <2>2, <2>3, <2>4 DEF OrderSound, Follows
<1>15. ArtIsOfTrack'
  BY <1>2 DEF IndInv, ArtIsOfTrack
<1> QED
  BY <1>2, <1>8, <1>9, <1>10, <1>11, <1>12, <1>13, <1>14, <1>15 DEF IndInv

\* A seek empties the ring and decodes anew, in the track that is played.
LEMMA SeekSound ==
    ASSUME IndInv, g_pl_active, NEW to \in 0 .. Frames[g_queue[g_queue_idx]] - 1, Seek(to)
    PROVE  IndInv' /\ g_pl_active' = g_pl_active
<1> DEFINE q == g_queue
           i == g_queue_idx
<1>1. /\ pc' = pc /\ pc = "loop" /\ ~Pending /\ g_dec.idx = i /\ g_prefetch_tried' = FALSE /\ g_boundary' = 0
      /\ pulled' = Silence
      /\ q' = q /\ i' = i /\ g_queue_art_shared' = g_queue_art_shared
      /\ modes' = modes /\ g_pl_active' = g_pl_active /\ g_pl_paused' = g_pl_paused
      /\ g_last_err' = g_last_err /\ g_pl_end_seq' = g_pl_end_seq /\ g_art' = g_art
      /\ g_pending_idx' = g_pending_idx /\ g_out_rate' = g_out_rate
      /\ running' = running /\ bufs' = bufs
  BY DEF Seek, queue, transport, hal
<1>2. PICK n \in 0 .. SeekPrimeFrames :
          /\ Decode(q, i, to, <<>>, SeekPrimeFrames, dead, n)
          /\ g_written' = n /\ g_ring' = Decoded(i, to, n)
  BY DEF Seek
<1>3. /\ SeekPrimeFrames \in Nat /\ SeekPrimeFrames > 0 /\ SeekPrimeFrames <= RingFrames
  BY PlayerAssumption
<1>4. /\ q \in Launchable /\ i \in Playable(q) /\ i \in Entries /\ Frames[q[i]] \in Nat \ {0}
      /\ i # None /\ to \in Nat /\ to <= Frames[q[i]]
  BY OnFacts
<1>5. FilledInFile(q, i, to, SeekPrimeFrames, n)
  <2>1. dead \in BOOLEAN
    BY DEF IndInv, TypeOK
  <2>2. FilledUpto(q, i, to, SeekPrimeFrames, n)
    BY <1>2, <1>3, <2>1, DecodeFills
  <2> QED
    BY <1>3, <1>4, <2>2, FilledFacts, Zenon
<1>6. /\ n \in Nat /\ n <= RingFrames /\ to + n <= Frames[q[i]] /\ g_dec' = [idx |-> i, pos |-> to + n]
      /\ g_eos' \in BOOLEAN /\ dead' \in BOOLEAN
      /\ g_eos' /\ ~dead' => to + n = Frames[q[i]]
  BY <1>3, <1>5, Numbers DEF FilledInFile
<1>7. /\ g_ring' \in Seq(Frame) /\ Len(g_ring') = n
      /\ \A k \in 1 .. n : g_ring'[k] = <<i, to + k - 1>>
  <2>1. \A p \in Nat : <<i, p>> \in Frame
    BY <1>4 DEF Frame
  <2> QED
    BY <1>2, <1>4, <1>6, <2>1, DecodedFacts
<1>8. ~Pending'
  BY <1>1 DEF Pending
<1>9. TypeOK'
  <2>1. Frame' = Frame /\ Entries' = Entries
    BY <1>1 DEF Frame, Entries
  <2>2. g_dec' \in [idx : Entries \cup {None}, pos : Nat]
    BY <1>4, <1>6
  <2>3. g_written' \in 0 .. Modulus - 1 /\ g_boundary' \in 0 .. Modulus - 1
    BY <1>1, <1>2, <1>6, Numbers
  <2>4. pulled' \in Frame \cup {Silence} /\ g_prefetch_tried' \in BOOLEAN
    BY <1>1
  <2> QED
    BY <1>1, <1>6, <1>7, <2>1, <2>2, <2>3, <2>4 DEF IndInv, TypeOK
<1>10. Shape'
  BY <1>1 DEF IndInv, Shape
<1>11. DecoderSound'
  <2>1. g_dec'.idx = i /\ g_dec'.pos = to + n
    BY <1>6
  <2> QED
    BY <1>1, <1>6, <1>8, <2>1 DEF DecoderSound
<1>12. RateSound'
  BY <1>1 DEF IndInv, RateSound
<1>13. HandOverSound'
  BY <1>8 DEF HandOverSound
<1>14. OwnersSound'
  <2>1. \A k \in 1 .. n : g_ring'[k][1] = i
    BY <1>7
  <2> QED
    BY <1>1, <1>7, <1>8, <2>1 DEF OwnersSound
<1>15. OrderSound'
  <2>1. ASSUME NEW k \in 1 .. n - 1
        PROVE  g_ring'[k + 1] = <<g_ring'[k][1], g_ring'[k][2] + 1>>
    <3>1. k \in 1 .. n /\ k + 1 \in 1 .. n /\ to + (k + 1) - 1 = (to + k - 1) + 1
      BY <1>4, <1>6
    <3>2. g_ring'[k] = <<i, to + k - 1>> /\ g_ring'[k + 1] = <<i, to + (k + 1) - 1>>
      BY <1>7, <3>1
    <3> QED
      BY <3>1, <3>2
  <2>2. LastFrame' # Silence => LastFrame' = <<i, to + n - 1>>
    <3>1. CASE g_ring' = <<>>
      BY <1>1, <3>1 DEF LastFrame
    <3>2. CASE g_ring' # <<>>
      <4>1. n \in 1 .. n
        BY <1>6, <1>7, <3>2
      <4> QED
        BY <1>7, <3>2, <4>1 DEF LastFrame
    <3> QED
      BY <3>1, <3>2
  <2>3. (to + n - 1) + 1 = to + n
    BY <1>4, <1>6
  <2>4. LastFrame' # Silence => <<i, to + n>> = <<LastFrame'[1], LastFrame'[2] + 1>>
    BY <2>2, <2>3
  <2>5. g_dec'.idx = i /\ g_dec'.pos = to + n
    BY <1>6
  <2> QED
    BY <1>1, <1>7, <2>1, <2>4, <2>5 DEF OrderSound, Follows
<1>16. ArtIsOfTrack'
  BY <1>1 DEF IndInv, ArtIsOfTrack
<1> QED
  BY <1>1, <1>9, <1>10, <1>11, <1>12, <1>13, <1>14, <1>15, <1>16 DEF IndInv

\* The rest of the pump: waiting, giving up on a failed read, going on to the
\* next track.
LEMMA PumpEndSound ==
    ASSUME IndInv, PumpNothing \/ PumpWait \/ PumpReadError \/ PumpAdvance
    PROVE  IndInv' /\ (g_pl_active => Explained)
<1>1. CASE PumpNothing \/ PumpWait
  <2>1. /\ pc = "end" /\ pc' \in {"loop", "advance"}
        /\ UNCHANGED <<queue, modes, transport, g_art, decoder, handover, hal, stream>>
    BY <1>1 DEF PumpNothing, PumpWait
  <2>2. /\ UNCHANGED engine /\ g_pl_active' = g_pl_active /\ g_pl_paused' = g_pl_paused
        /\ g_last_err' = g_last_err /\ g_pl_end_seq' = g_pl_end_seq /\ running' = running
        /\ modes' = modes
    BY <2>1 DEF engine, transport, hal
  <2>3. /\ modes' \in Modes /\ g_pl_paused' \in BOOLEAN /\ g_last_err' \in {"ok", "open", "rate", "read"}
        /\ g_pl_end_seq' \in {0, 1} /\ running' \in BOOLEAN
    BY <2>2 DEF IndInv, TypeOK
  <2>4. g_pl_active
    BY <2>1 DEF IndInv, Shape
  <2> QED
    BY <2>1, <2>2, <2>3, <2>4, UnmovedSound DEF Explained
<1>2. CASE PumpReadError
  <2>1. /\ Idle(g_queue_idx, FALSE) /\ g_last_err' = "read" /\ g_pl_end_seq' = g_pl_end_seq
        /\ g_queue' = g_queue /\ g_queue_art_shared' = g_queue_art_shared /\ modes' = modes
        /\ pc' = "loop" /\ pc = "end"
    BY <1>2 DEF PumpReadError
  <2>2. g_pl_active
    BY <2>1 DEF IndInv, Shape
  <2>3. /\ g_queue_idx \in DOMAIN g_queue' \cup {None} /\ g_queue' \in Launchable
        /\ g_queue_art_shared' \in BOOLEAN /\ g_pl_end_seq' \in {0, 1} /\ TypeOK
        /\ g_last_err' \in {"ok", "open", "rate", "read"}
    BY <2>1, <2>2, OnFacts DEF IndInv, TypeOK, Entries
  <2>4. ASSUME NEW p \in BOOLEAN, p = FALSE
        PROVE  IndInv'
    BY <2>1, <2>3, <2>4, IdleSound
  <2> QED
    BY <2>1, <2>4 DEF Explained
<1>3. CASE PumpAdvance
  <2>1. /\ pc = "advance" /\ pc' = "loop"
        /\ Advance(g_queue, g_queue_idx, g_queue_art_shared, FALSE, {g_last_err})
        /\ g_queue' = g_queue /\ g_queue_art_shared' = g_queue_art_shared /\ modes' = modes
    BY <1>3 DEF PumpAdvance
  <2>2. g_pl_active
    BY <2>1 DEF IndInv, Shape
  <2>3. /\ g_queue \in Launchable /\ g_queue_idx \in Playable(g_queue) /\ g_queue_art_shared \in BOOLEAN
        /\ TypeOK
    BY <2>2, OnFacts DEF IndInv, TypeOK
  <2>4. {g_last_err} \in SUBSET {"ok", "open", "rate", "read"}
    BY DEF IndInv, TypeOK
  <2>5. \A sh, pa \in BOOLEAN, why \in SUBSET {"ok", "open", "rate", "read"} :
           /\ sh = g_queue_art_shared /\ pa = FALSE
           /\ Advance(g_queue, g_queue_idx, sh, pa, why)
           => IndInv' /\ Explained
    BY <2>1, <2>3, AdvanceSound
  <2> QED
    BY <2>1, <2>3, <2>4, <2>5
<1> QED
  BY <1>1, <1>2, <1>3

\* The commands that open a track, or the next one that opens.
LEMMA OpenSound ==
    ASSUME IndInv, NEW q \in Launchable, NEW i \in Playable(q),
           NEW shared \in BOOLEAN, NEW keep \in BOOLEAN, NEW paused \in BOOLEAN,
           \/ Opened(q, i, shared, keep)
           \/ Advance(q, i, shared, paused, ErrorOf(q[i])),
           pc' = "loop", g_queue' = q, g_queue_art_shared' = shared, modes' = modes
    PROVE  IndInv' /\ Explained
<1>1. CASE Opened(q, i, shared, keep)
  <2>1. pc' \in {"loop", "decode"}
    OBVIOUS
  <2> QED
    BY <1>1, <2>1, OpenedSound DEF Explained, IndInv
<1>2. CASE Advance(q, i, shared, paused, ErrorOf(q[i]))
  <2>1. ErrorOf(q[i]) \in SUBSET {"ok", "open", "rate", "read"}
    BY DEF ErrorOf
  <2> QED
    BY <1>2, <2>1, AdvanceSound DEF IndInv
<1> QED
  BY <1>1, <1>2

LEMMA LaunchSound ==
    ASSUME IndInv, NEW r \in Queues, NEW i \in Playable(r[1]), Launch(r[1], i, r[2])
    PROVE  IndInv' /\ Explained
<1>1. r[1] \in Launchable /\ r[2] \in BOOLEAN
  BY PlayerAssumption DEF Launchable
<1>2. /\ pc' = "loop" /\ g_queue' = r[1] /\ g_queue_art_shared' = r[2] /\ modes' = modes
      /\ \/ Opened(r[1], i, r[2], FALSE)
         \/ Advance(r[1], i, r[2], PausedAfterStop, ErrorOf(r[1][i]))
  BY DEF Launch
<1>3. PICK keep \in BOOLEAN, paused \in BOOLEAN :
         \/ Opened(r[1], i, r[2], keep)
         \/ Advance(r[1], i, r[2], paused, ErrorOf(r[1][i]))
  <2>1. PausedAfterStop \in BOOLEAN
    BY DEF PausedAfterStop, IndInv, TypeOK
  <2> QED
    BY <1>2, <2>1
<1> QED
  BY <1>1, <1>2, <1>3, OpenSound

LEMMA JumpSound ==
    ASSUME IndInv, NEW i, Jump(i)
    PROVE  IndInv' /\ Explained
<1>1. /\ i \in Playable(g_queue) /\ g_queue \in Launchable /\ g_queue_art_shared \in BOOLEAN
      /\ pc' = "loop" /\ g_queue' = g_queue /\ g_queue_art_shared' = g_queue_art_shared /\ modes' = modes
  BY DEF Jump, IndInv, TypeOK, Launchable
<1>2. PICK keep \in BOOLEAN, paused \in BOOLEAN :
         \/ Opened(g_queue, i, g_queue_art_shared, keep)
         \/ Advance(g_queue, i, g_queue_art_shared, paused, ErrorOf(g_queue[i]))
  <2>1. PausedAfterStop \in BOOLEAN /\ g_pl_paused \in BOOLEAN
    BY DEF PausedAfterStop, IndInv, TypeOK
  <2> QED
    BY <2>1 DEF Jump
<1> QED
  BY <1>1, <1>2, OpenSound

\* player_stop says nothing: it is what the user asked for.
LEMMA StopSound ==
    ASSUME IndInv, Stop
    PROVE  IndInv'
<1>1. /\ Idle(g_queue_idx, FALSE) /\ g_pl_active /\ pc' = "loop"
      /\ g_queue' = g_queue /\ g_queue_art_shared' = g_queue_art_shared /\ modes' = modes
      /\ g_last_err' = g_last_err /\ g_pl_end_seq' = g_pl_end_seq
  BY DEF Stop
<1>2. /\ g_queue_idx \in DOMAIN g_queue' \cup {None} /\ g_queue' \in Launchable
      /\ g_queue_art_shared' \in BOOLEAN /\ g_pl_end_seq' \in {0, 1} /\ TypeOK
      /\ g_last_err' \in {"ok", "open", "rate", "read"}
  BY <1>1, OnFacts DEF IndInv, TypeOK, Entries
<1>3. ASSUME NEW p \in BOOLEAN, p = FALSE
      PROVE  IndInv'
  BY <1>1, <1>2, <1>3, IdleSound
<1> QED
  BY <1>3

\* A pause stops the output and moves nothing, and so does a change of modes.
LEMMA PauseSound ==
    ASSUME IndInv, TogglePause
    PROVE  IndInv' /\ g_pl_active' = g_pl_active
<1>1. /\ pc' = "loop" /\ g_pl_active /\ g_pl_paused' = ~g_pl_paused /\ running' = g_pl_paused
      /\ modes' = modes /\ g_last_err' = g_last_err /\ g_pl_end_seq' = g_pl_end_seq
      /\ UNCHANGED engine /\ g_pl_active' = g_pl_active
  BY DEF TogglePause, engine
<1>2. /\ modes' \in Modes /\ g_pl_paused' \in BOOLEAN /\ running' \in BOOLEAN
      /\ g_last_err' \in {"ok", "open", "rate", "read"} /\ g_pl_end_seq' \in {0, 1}
  BY <1>1 DEF IndInv, TypeOK
<1> QED
  BY <1>1, <1>2, UnmovedSound

LEMMA SetModesSound ==
    ASSUME IndInv, SetModes
    PROVE  IndInv' /\ g_pl_active' = g_pl_active
<1>1. /\ pc' = "loop" /\ g_pl_active' = g_pl_active /\ g_pl_paused' = g_pl_paused
      /\ g_last_err' = g_last_err /\ g_pl_end_seq' = g_pl_end_seq /\ running' = running
      /\ UNCHANGED engine
  BY DEF SetModes, engine, transport, hal
<1>2. modes' \in Modes
  <2>1. PICK m \in Modes : g_shuffle' = m[1] /\ g_repeat' = m[2]
    BY DEF SetModes
  <2>2. m = <<m[1], m[2]>>
    BY PlayerAssumption
  <2>3. modes' = <<m[1], m[2]>>
    BY <2>1 DEF modes
  <2> QED
    BY <2>2, <2>3, Zenon
<1>3. /\ g_pl_paused' \in BOOLEAN /\ running' \in BOOLEAN
      /\ g_last_err' \in {"ok", "open", "rate", "read"} /\ g_pl_end_seq' \in {0, 1}
  BY <1>1 DEF IndInv, TypeOK
<1>4. /\ pc' \in {"loop", "decode", "end", "advance"} /\ pc' # "decode"
      /\ ~g_pl_active => ~running' /\ pc' = "loop"
  BY <1>1 DEF IndInv, Shape
<1>5. IndInv'
  BY <1>1, <1>2, <1>3, <1>4, UnmovedSound
<1> QED
  BY <1>1, <1>5

\* A skip finds a track to start, or goes idle with the error of the last one
\* it tried.
LEMMA SkipSound ==
    ASSUME IndInv, g_pl_active,
           NEW pick, \A i \in DOMAIN g_queue : pick[i] \subseteq Playable(g_queue),
           Skip(pick), pc' = "loop",
           g_queue' = g_queue, g_queue_art_shared' = g_queue_art_shared, modes' = modes
    PROVE  IndInv' /\ Explained
<1> DEFINE failed == FailedAt(g_queue, {g_queue_idx}, pick, Fails)
<1>1. g_queue \in Launchable /\ Playable(g_queue) \subseteq DOMAIN g_queue /\ {g_queue_idx} \in SUBSET DOMAIN g_queue
  BY OnFacts DEF Entries
<1>2. /\ Tried(g_queue, failed, pick) \subseteq Playable(g_queue)
      /\ Within(failed, 1, Len(g_queue)) \subseteq {j \in Playable(g_queue) : g_queue[j] \in Fails}
      /\ failed[Len(g_queue) + 1] \subseteq {j \in Playable(g_queue) : g_queue[j] \in Fails}
  BY <1>1, TriedIn
<1>3. \/ \E j \in Tried(g_queue, failed, pick) : Opened(g_queue, j, g_queue_art_shared, g_pl_paused)
      \/ \E i \in {j \in Within(failed, 1, Len(g_queue)) : pick[j] = {}} \cup failed[Len(g_queue) + 1] :
            Idle(i, g_pl_paused) /\ g_last_err' \in ErrorOf(g_queue[i]) /\ UNCHANGED g_pl_end_seq
  BY DEF Skip
<1> HIDE DEF failed
<1>4. TypeOK /\ g_pl_paused \in BOOLEAN /\ g_queue_art_shared \in BOOLEAN /\ g_pl_end_seq \in {0, 1}
  BY DEF IndInv, TypeOK
<1>5. CASE \E j \in Tried(g_queue, failed, pick) : Opened(g_queue, j, g_queue_art_shared, g_pl_paused)
  <2>1. PICK j \in Playable(g_queue) : Opened(g_queue, j, g_queue_art_shared, g_pl_paused)
    BY <1>2, <1>5
  <2> QED
    BY <1>1, <1>4, <2>1, OpenSound
<1>6. CASE \E i \in {j \in Within(failed, 1, Len(g_queue)) : pick[j] = {}} \cup failed[Len(g_queue) + 1] :
              Idle(i, g_pl_paused) /\ g_last_err' \in ErrorOf(g_queue[i]) /\ UNCHANGED g_pl_end_seq
  <2>1. PICK i \in Playable(g_queue) :
           Idle(i, g_pl_paused) /\ g_last_err' \in ErrorOf(g_queue[i]) /\ g_pl_end_seq' = g_pl_end_seq
    BY <1>2, <1>6
  <2>2. g_last_err' \in {"open", "rate"}
    BY <2>1 DEF ErrorOf
  <2>3. i \in DOMAIN g_queue' \cup {None} /\ g_last_err' \in {"ok", "open", "rate", "read"} /\ g_pl_end_seq' \in {0, 1}
    BY <1>1, <1>4, <2>1, <2>2
  <2>4. g_queue' \in Launchable /\ g_queue_art_shared' \in BOOLEAN
    BY <1>1, <1>4
  <2>5. IndInv'
    BY <1>4, <2>1, <2>3, <2>4, IdleSound
  <2> QED
    BY <2>2, <2>5 DEF Explained
<1> QED
  BY <1>3, <1>5, <1>6

LEMMA NextTrackSound ==
    ASSUME IndInv, NextTrack
    PROVE  IndInv' /\ Explained
<1>1. /\ g_pl_active /\ pc' = "loop"
      /\ g_queue' = g_queue /\ g_queue_art_shared' = g_queue_art_shared /\ modes' = modes
  BY DEF NextTrack
<1>2. g_queue \in Launchable /\ g_queue_idx \in DOMAIN g_queue
  BY <1>1, OnFacts DEF Entries
<1>3. CASE Skip(Successor(g_queue))
  <2>1. \A i \in DOMAIN g_queue : Successor(g_queue)[i] \subseteq Playable(g_queue)
    BY <1>2, PicksArePlayable
  <2> QED
    BY <1>1, <1>3, <2>1, SkipSound
<1>4. CASE /\ Idle(g_queue_idx, FALSE)
           /\ g_pl_end_seq' = 1 - g_pl_end_seq /\ g_last_err' = g_last_err
  <2>1. g_pl_end_seq \in {0, 1} /\ g_last_err \in {"ok", "open", "rate", "read"} /\ TypeOK
        /\ g_queue_art_shared' \in BOOLEAN
    BY <1>1 DEF IndInv, TypeOK
  <2>2. g_pl_end_seq' \in {0, 1} /\ g_pl_end_seq' # g_pl_end_seq
    BY <1>4, <2>1
  <2>3. g_queue_idx \in DOMAIN g_queue' \cup {None} /\ g_queue' \in Launchable
    BY <1>1, <1>2
  <2>4. ASSUME NEW p \in BOOLEAN, p = FALSE
        PROVE  IndInv'
    BY <1>1, <1>4, <2>1, <2>2, <2>3, <2>4, IdleSound
  <2> QED
    BY <2>2, <2>4 DEF Explained
<1> QED
  BY <1>3, <1>4 DEF NextTrack

LEMMA PrevTrackSound ==
    ASSUME IndInv, PrevTrack
    PROVE  IndInv' /\ Explained
<1>1. /\ g_pl_active /\ pc' = "loop" /\ Skip(Predecessor(g_queue))
      /\ g_queue' = g_queue /\ g_queue_art_shared' = g_queue_art_shared /\ modes' = modes
  BY DEF PrevTrack
<1>2. g_queue \in Launchable
  BY <1>1, OnFacts
<1>3. \A i \in DOMAIN g_queue : Predecessor(g_queue)[i] \subseteq Playable(g_queue)
  BY <1>2, PicksArePlayable
<1> QED
  BY <1>1, <1>3, SkipSound

-----------------------------------------------------------------------------
(* The steps together.                                                      *)

LEMMA InitSound ==
    ASSUME Init
    PROVE  IndInv
<1>1. /\ g_queue = <<>> /\ g_queue_idx = None /\ g_queue_art_shared = FALSE
      /\ g_pl_active = FALSE /\ g_pl_paused = FALSE /\ g_last_err = "ok" /\ g_pl_end_seq = 0
      /\ g_art = "none"
      /\ g_dec = Closed /\ g_eos = FALSE /\ dead = FALSE
      /\ g_ring = <<>> /\ g_written = 0
      /\ g_pending_idx = None /\ g_boundary = 0 /\ g_prefetch_tried = FALSE
      /\ running = FALSE /\ bufs = <<>> /\ pulled = Silence /\ pc = "loop"
  BY DEF Init
<1>2. TypeOK
  <2>1. modes \in Modes
    <3>1. PICK m \in Modes : g_shuffle = m[1] /\ g_repeat = m[2]
      BY DEF Init
    <3>2. m = <<m[1], m[2]>>
      BY PlayerAssumption
    <3>3. modes = <<m[1], m[2]>>
      BY <3>1 DEF modes
    <3> QED
      BY <3>2, <3>3, Zenon
  <2>2. 0 \in 0 .. Modulus - 1 /\ RingFrames >= 0
    BY PlayerAssumption
  <2>3. /\ g_dec \in [idx : Entries \cup {None}, pos : Nat]
        /\ Len(g_ring) = 0 /\ g_ring \in Seq(Frame) /\ Len(bufs) = 0 /\ bufs \in Seq(Frame \cup {Silence})
    BY <1>1 DEF Closed
  <2> QED
    BY <1>1, <2>1, <2>2, <2>3 DEF TypeOK
<1>3. Shape /\ DecoderSound /\ RateSound /\ HandOverSound /\ OwnersSound /\ OrderSound /\ ArtIsOfTrack
  BY <1>1 DEF Shape, DecoderSound, RateSound, HandOverSound, OwnersSound, OrderSound, ArtIsOfTrack
<1> QED
  BY <1>2, <1>3 DEF IndInv

\* Every step keeps the invariant; a step that leaves the player idle, but for
\* player_stop, says why.
LEMMA NextSound ==
    ASSUME IndInv, [Next]_vars
    PROVE  IndInv' /\ (g_pl_active /\ ~g_pl_active' /\ ~Stop => Explained)
<1>1. CASE UNCHANGED vars
  <2>1. /\ UNCHANGED engine /\ modes' = modes /\ g_pl_paused' = g_pl_paused /\ g_last_err' = g_last_err
        /\ g_pl_end_seq' = g_pl_end_seq /\ running' = running /\ pc' = pc /\ g_pl_active' = g_pl_active
    BY <1>1 DEF vars, engine, transport, hal
  <2>2. /\ modes \in Modes /\ g_pl_paused \in BOOLEAN /\ g_last_err \in {"ok", "open", "rate", "read"}
        /\ g_pl_end_seq \in {0, 1} /\ running \in BOOLEAN /\ pc \in {"loop", "decode", "end", "advance"}
        /\ ~g_pl_active => ~running /\ pc = "loop"
    BY DEF IndInv, TypeOK, Shape
  <2>3. pc = "decode" /\ g_pl_active /\ Pending => Ahead <= RingFrames - 1
    BY DEF IndInv, HandOverSound
  <2> QED
    BY <2>1, <2>2, <2>3, UnmovedSound
<1>2. CASE Pump
  BY <1>2, CommitSound, DecodeSound, PrefetchSound, PumpEndSound DEF Pump
<1>3. CASE Pull
  BY <1>3, PullSound
<1>4. CASE Command
  <2>1. ASSUME NEW q \in Queues, NEW i \in Playable(q[1]), Launch(q[1], i, q[2])
        PROVE  IndInv' /\ Explained
    BY <2>1, LaunchSound
  <2>2. CASE Stop
    BY <2>2, StopSound
  <2>3. CASE TogglePause \/ SetModes
    BY <2>3, PauseSound, SetModesSound
  <2>4. CASE NextTrack \/ PrevTrack
    BY <2>4, NextTrackSound, PrevTrackSound
  <2>5. ASSUME NEW i \in Entries, Jump(i)
        PROVE  IndInv' /\ Explained
    BY <2>5, JumpSound
  <2>6. ASSUME g_pl_active, NEW to \in 0 .. Frames[g_queue[g_queue_idx]] - 1, Seek(to)
        PROVE  IndInv' /\ g_pl_active' = g_pl_active
    BY <2>6, SeekSound
  <2> QED
    BY <1>4, <2>1, <2>2, <2>3, <2>4, <2>5, <2>6 DEF Command
<1> QED
  BY <1>1, <1>2, <1>3, <1>4 DEF Next

\* Whatever the main loop and the interrupt do, the frames in the ring, in the
\* two buffers and next in the decoder are known for what they are.
THEOREM Invariance == Spec => []IndInv
<1>1. Spec => Init /\ [][Next]_vars
  BY PTL DEF Spec
<1>2. Init => IndInv
  BY InitSound
<1>3. IndInv /\ [Next]_vars => IndInv'
  BY NextSound
<1> QED
  BY <1>1, <1>2, <1>3, PTL

\* No frame is clocked at the rate of another track, and a seek stays in the
\* track that is played (player_pump, pending_commit, player_seek_to), for
\* every queue, every length of the ring and every width of the frame count.
THEOREM ClockedAtItsRate == Spec => []EngineSound
<1>1. IndInv => EngineSound
  <2> SUFFICES ASSUME IndInv
               PROVE  EngineSound
    OBVIOUS
  <2>1. RateMatches
    <3> SUFFICES ASSUME running,
                        NEW x \in {bufs[k] : k \in DOMAIN bufs} \cup {g_ring[k] : k \in DOMAIN g_ring}
                 PROVE  x = Silence \/ Rate[g_queue[x[1]]] = g_out_rate
      BY DEF RateMatches
    <3>1. g_pl_active
      BY DEF IndInv, Shape
    <3>2. CASE x \in {bufs[k] : k \in DOMAIN bufs}
      BY <3>1, <3>2 DEF IndInv, RateSound
    <3>3. CASE x \in {g_ring[k] : k \in DOMAIN g_ring}
      <4>1. DOMAIN g_ring = 1 .. Len(g_ring)
        BY <3>1, OnFacts
      <4> QED
        BY <3>1, <3>3, <4>1, RingRates
    <3> QED
      BY <3>2, <3>3
  <2>2. SeekStaysInTrack
    BY DEF IndInv, DecoderSound, SeekStaysInTrack
  <2> QED
    BY <2>1, <2>2 DEF EngineSound, IndInv
<1> QED
  BY <1>1, Invariance, PTL

\* The screen changes over with the sound, at the first frame of the track
\* that is queued and never before or after it (pending_commit).
THEOREM TitleIsHeard == Spec => ShownIsHeard
<1>1. IndInv => ArtIsOfTrack
  BY DEF IndInv
<1>2. IndInv /\ [Next]_vars => [TitleMatches]_vars
  BY CommitSound DEF TitleMatches, Titled
<1>3. Spec => [][Next]_vars
  BY PTL DEF Spec
<1> QED
  BY <1>1, <1>2, <1>3, Invariance, PTL DEF ShownIsHeard

\* No frame is left out and none comes twice, over hand-overs, re-clocks and
\* prefetches that fail (player_pump, prefetch_next, pending_commit).
THEOREM StreamUnbroken == Spec => NothingSkipped
<1> DEFINE Continues ==
        Pull /\ pulled # Silence /\ g_ring # <<>> =>
            LET x == Head(g_ring) IN
            \/ x = <<pulled[1], pulled[2] + 1>>
            \/ x[2] = 0 /\ pulled[2] = Frames[g_queue[pulled[1]]] - 1
<1>1. IndInv => Continues
  <2> SUFFICES ASSUME IndInv, Pull, pulled # Silence, g_ring # <<>>
               PROVE  \/ Head(g_ring) = <<pulled[1], pulled[2] + 1>>
                      \/ Head(g_ring)[2] = 0 /\ pulled[2] = Frames[g_queue[pulled[1]]] - 1
    OBVIOUS
  <2>1. g_pl_active
    BY DEF Pull, IndInv, Shape
  <2>2. Head(g_ring) = g_ring[1]
    BY <2>1, OnFacts
  <2> QED
    BY <2>1, <2>2 DEF IndInv, OrderSound, Follows
<1>2. IndInv /\ [Next]_vars => [Continues]_vars
  BY <1>1
<1>3. Spec => [][Next]_vars
  BY PTL DEF Spec
<1>4. Spec => [][Continues]_vars
  <2> HIDE DEF Continues
  <2> QED
    BY <1>2, <1>3, Invariance, PTL
<1> QED
  BY <1>4 DEF NothingSkipped, Continues

\* The player never falls idle unasked without the end of the queue or an
\* error the screen can show (player_pump, player_advance, player_next).
THEOREM IdleHasReason == Spec => IdleIsExplained
<1> DEFINE Says == g_pl_active /\ ~g_pl_active' /\ ~Stop => g_pl_end_seq' # g_pl_end_seq \/ g_last_err' # "ok"
<1>1. IndInv /\ [Next]_vars => [Says]_vars
  BY NextSound DEF Explained
<1>2. Spec => [][Next]_vars
  BY PTL DEF Spec
<1>3. Spec => [][Says]_vars
  <2> HIDE DEF Says
  <2> QED
    BY <1>1, <1>2, Invariance, PTL
<1> QED
  BY <1>3 DEF IdleIsExplained, Says
=============================================================================
