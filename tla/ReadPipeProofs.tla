--------------------------- MODULE ReadPipeProofs ---------------------------
(***************************************************************************)
(* Proofs about the chain a codec reads a file through: for any file,      *)
(* volume, buffers, checkpoints and bounds, the window holds the file's    *)
(* bytes and the chain implements the source that decoder.h promises.      *)
(***************************************************************************)
EXTENDS ReadPipe, ModLemmas, SequenceTheorems, WellFoundedInduction

(* The types that the layers have.                                          *)
Entry == [phys : Nat, st : -1 .. FileLen]
SrcType == [pos : Nat, phys : Nat, st : -1 .. FileLen, err : BOOLEAN, ck : Seq(Entry)]
DbType == [lo : Nat, wr : Nat, rd : Nat, inner_pos : Int, filling : BOOLEAN,
           eos : BOOLEAN, err : BOOLEAN, streak : 0 .. ErrRetries]
RaType == [pos : Int, data : Seq(Int), cursor : Nat, inner_pos : Int]
CallType == [at : {"idle", "ra", "db", "back", "done"}, start : Nat, left : Nat,
             got : Seq(Int), want : Nat, blk : Seq(Int)]
Types ==
    /\ src \in SrcType /\ db \in DbType /\ buf \in [0 .. Cap - 1 -> Int]
    /\ ra \in RaType /\ call \in CallType /\ slipped \in BOOLEAN

-----------------------------------------------------------------------------
(* The stream stands where it says, as do its checkpoints; one that could   *)
(* not be followed has said so.                                             *)
SrcSound(s) ==
    /\ s.st # Dead => s.st = s.phys
    /\ s.st = Dead => s.err
    /\ \A i \in 1 .. Len(s.ck) : s.ck[i].st = s.ck[i].phys

RingSound(d) == d.lo <= d.rd /\ d.rd <= d.wr /\ d.wr <= d.lo + Cap

(* Where the codec's read is: the parts of it add up, and the layers agree  *)
(* on where the next byte is.                                               *)
Below == call.at \in {"db", "back"}
Counted ==
    /\ call.at # "idle" => /\ call.left + Len(call.got) > 0
                           /\ ra.cursor = call.start + Len(call.got)
    /\ Below => /\ ra.inner_pos = ra.cursor /\ db.rd = ra.cursor + Len(call.blk)
                /\ call.left > 0 /\ call.want = IF Bulk THEN call.left ELSE RaCap
                /\ Len(call.blk) <= call.want
    /\ call.at = "done" => call.left > 0
    /\ ~Below /\ ra.inner_pos # Unknown => ra.inner_pos = db.rd

(* What a failure has not slipped into is the file's, and a read that found *)
(* nothing is at its end or has said why.                                   *)
Ended == db.err \/ ra.cursor >= FileLen
Exact ==
    /\ WindowIsFile /\ SrcSound(src)
    /\ db.eos => ~src.err
    /\ ra.data = Bytes(ra.pos, Len(ra.data))
    /\ call.at # "idle" => call.got = Bytes(call.start, Len(call.got))
    /\ Below => call.blk = Bytes(ra.cursor, Len(call.blk))
    /\ call.at = "done" \/ (call.at = "back" /\ call.blk = <<>>) => Ended

IndInv == Types /\ RingSound(db) /\ Counted /\ (~slipped => Exact)

-----------------------------------------------------------------------------
(* What the operators of the model compute.                                 *)

\* A set of indices that is not empty has a greatest one.
LEMMA MaxIsIn ==
    ASSUME NEW n \in Nat, NEW S \in SUBSET (1 .. n), S # {}
    PROVE  Max(S) \in S
<1> DEFINE R == OpToRel(<, Nat)
           T == {n - x : x \in S}
<1>1. IsWellFoundedOn(R, Nat)
  BY NatLessThanWellFounded
<1>2. \A x, y \in Nat : x < y => <<x, y>> \in R
  BY DEF OpToRel
<1>3. T \subseteq Nat /\ T # {}
  <2>1. \A x \in S : n - x \in Nat
    OBVIOUS
  <2> QED
    BY <2>1, Zenon
<1> HIDE DEF R
<1>4. PICK t \in T : \A y \in T : ~(<<y, t>> \in R)
  <2> HIDE DEF T
  <2> QED
    BY <1>1, <1>3, WFMin
<1>5. PICK m \in S : t = n - m
  BY <1>4
<1>6. \A y \in S : m >= y
  <2> TAKE y \in S
  <2>1. n - y \in T /\ n - y \in Nat /\ t \in Nat
    BY <1>3, <1>4
  <2>2. ~(n - y < t)
    BY <1>2, <1>4, <2>1
  <2> QED
    BY <1>5, <2>2
<1> QED
  BY <1>6 DEF Max

\* The length of a stretch of the file, and the byte at each of its places.
LEMMA BytesFacts ==
    ASSUME NEW a \in Int, NEW n \in Nat
    PROVE  /\ Bytes(a, n) \in Seq(Int) /\ Len(Bytes(a, n)) = n
           /\ \A i \in 1 .. n : Bytes(a, n)[i] = a + i - 1
BY DEF Bytes

\* No bytes are no bytes, wherever they would start.
LEMMA BytesEmpty ==
    ASSUME NEW a \in Int
    PROVE  Bytes(a, 0) = <<>>
BY BytesFacts, EmptySeq

\* A sequence of the file's bytes is known by its first and its length.
LEMMA BytesAre ==
    ASSUME NEW s \in Seq(Int), NEW a \in Int, \A i \in 1 .. Len(s) : s[i] = a + i - 1
    PROVE  s = Bytes(a, Len(s))
<1>1. Bytes(a, Len(s)) \in Seq(Int) /\ Len(Bytes(a, Len(s))) = Len(s)
  BY BytesFacts
<1>2. \A i \in 1 .. Len(s) : Bytes(a, Len(s))[i] = a + i - 1
  BY BytesFacts
<1> QED
  BY <1>1, <1>2, SeqEqual

\* Sequences joined, and one cut out of another.
LEMMA Joined ==
    ASSUME NEW s \in Seq(Int), NEW t \in Seq(Int)
    PROVE  s \o t \in Seq(Int) /\ Len(s \o t) = Len(s) + Len(t)
OBVIOUS

LEMMA PartOf ==
    ASSUME NEW s \in Seq(Int), NEW off \in Nat, NEW n \in Nat, off + n <= Len(s)
    PROVE  /\ SubSeq(s, off + 1, off + n) \in Seq(Int)
           /\ Len(SubSeq(s, off + 1, off + n)) = n
BY SubSeqProperties

\* The byte at a place of a sequence that is a stretch of the file.
LEMMA BytesAt ==
    ASSUME NEW s, NEW a \in Int, NEW n \in Nat, s = Bytes(a, n), NEW i \in 1 .. n
    PROVE  s[i] = a + i - 1
BY BytesFacts

\* Two stretches of the file that meet are one.
LEMMA BytesConcat ==
    ASSUME NEW s \in Seq(Int), NEW t \in Seq(Int), NEW a \in Int,
           s = Bytes(a, Len(s)), t = Bytes(a + Len(s), Len(t))
    PROVE  s \o t = Bytes(a, Len(s \o t))
<1>1. s \o t \in Seq(Int) /\ Len(s \o t) = Len(s) + Len(t)
  OBVIOUS
<1>2. ASSUME NEW i \in 1 .. Len(s \o t)
      PROVE  (s \o t)[i] = a + i - 1
  <2>1. CASE i \in 1 .. Len(s)
    <3>1. (s \o t)[i] = s[i] /\ Len(s) \in Nat
      BY <2>1
    <3>2. s[i] = a + i - 1
      BY <2>1, <3>1, BytesAt, Zenon
    <3> QED
      BY <3>1, <3>2
  <2>2. CASE i > Len(s)
    <3>1. i - Len(s) \in 1 .. Len(t) /\ (s \o t)[i] = t[i - Len(s)]
      BY <1>1, <2>2
    <3>2. /\ t[i - Len(s)] = (a + Len(s)) + (i - Len(s)) - 1
          /\ Len(s) \in Nat /\ i \in Int
      <4>1. a + Len(s) \in Int /\ Len(t) \in Nat
        OBVIOUS
      <4>2. t[i - Len(s)] = (a + Len(s)) + (i - Len(s)) - 1
        BY <3>1, <4>1, BytesAt, Zenon
      <4>3. Len(s) \in Nat /\ i \in Int
        BY <1>1
      <4> QED
        BY <4>2, <4>3
    <3>3. (a + Len(s)) + (i - Len(s)) - 1 = a + i - 1
      BY <3>2
    <3> QED
      BY <3>1, <3>2, <3>3
  <2> QED
    BY <1>1, <2>1, <2>2
<1> QED
  BY <1>1, <1>2, BytesAre

\* A part of a stretch of the file is one too.
LEMMA BytesSub ==
    ASSUME NEW s \in Seq(Int), NEW a \in Int, s = Bytes(a, Len(s)),
           NEW off \in Nat, NEW n \in Nat, off + n <= Len(s)
    PROVE  /\ SubSeq(s, off + 1, off + n) \in Seq(Int) /\ Len(SubSeq(s, off + 1, off + n)) = n
           /\ SubSeq(s, off + 1, off + n) = Bytes(a + off, n)
<1> DEFINE u == SubSeq(s, off + 1, off + n)
<1>1. u \in Seq(Int) /\ Len(u) = n
  BY SubSeqProperties
<1>2. \A i \in 1 .. n : u[i] = s[off + i] /\ off + i \in 1 .. Len(s)
  BY SubSeqProperties
<1> HIDE DEF u
<1>3. \A i \in 1 .. n : u[i] = (a + off) + i - 1
  <2> TAKE i \in 1 .. n
  <2>1. s[off + i] = a + (off + i) - 1
    <3>1. Len(s) \in Nat /\ off + i \in 1 .. Len(s)
      BY <1>2
    <3> QED
      BY <3>1, BytesAt, Zenon
  <2>2. u[i] = s[off + i] /\ a + (off + i) - 1 = (a + off) + i - 1
    BY <1>2
  <2> QED
    BY <2>1, <2>2
<1>4. u = Bytes(a + off, Len(u))
  BY <1>1, <1>3, BytesAre
<1> QED
  BY <1>1, <1>4 DEF u

-----------------------------------------------------------------------------
(* The stream: a rewind, a walk and a read.                                 *)

\* A stream that is set down elsewhere keeps the rest of its state.
LEMMA Moved ==
    ASSUME NEW s \in SrcType, NEW p \in Nat, NEW t \in -1 .. FileLen
    PROVE  LET x == [s EXCEPT !.phys = p, !.st = t]
           IN  /\ x \in SrcType /\ x.phys = p /\ x.st = t
               /\ x.pos = s.pos /\ x.err = s.err /\ x.ck = s.ck
BY DEF SrcType

\* fat_src_sync never leaves the stream past the position it must walk to,
\* and goes back only to where a sound checkpoint says.
LEMMA RewoundFacts ==
    ASSUME NEW s \in SrcType
    PROVE  /\ Rewound(s) \in SrcType /\ Rewound(s).phys <= Rewound(s).pos
           /\ Rewound(s).pos = s.pos /\ Rewound(s).err = s.err /\ Rewound(s).ck = s.ck
           /\ SrcSound(s) => SrcSound(Rewound(s))
<1> DEFINE early == {i \in DOMAIN s.ck : s.ck[i].phys <= s.pos}
<1>1. FileLen \in Nat /\ s.pos \in Nat /\ s.phys \in Nat /\ s.ck \in Seq(Entry)
  BY PipeAssumption DEF SrcType
<1>2. CASE s.pos >= s.phys
  BY <1>1, <1>2 DEF Rewound
<1>3. CASE ~(s.pos >= s.phys) /\ early = {}
  <2>1. Rewound(s) = [s EXCEPT !.phys = 0, !.st = 0]
    BY <1>3 DEF Rewound
  <2>2. 0 \in -1 .. FileLen /\ 0 # Dead
    BY <1>1 DEF Dead
  <2>3. Rewound(s) \in SrcType
    <3>1. 0 \in Nat
      OBVIOUS
    <3>2. \A p \in Nat : \A t \in -1 .. FileLen :
              [s EXCEPT !.phys = p, !.st = t] \in SrcType
      BY Moved
    <3>3. [s EXCEPT !.phys = 0, !.st = 0] \in SrcType
      BY <2>2, <3>1, <3>2, Zenon
    <3> QED
      BY <2>1, <3>3
  <2>4. /\ Rewound(s).pos = s.pos /\ Rewound(s).err = s.err /\ Rewound(s).ck = s.ck
        /\ Rewound(s).phys = 0 /\ Rewound(s).st = 0
    BY <2>1 DEF SrcType
  <2> QED
    BY <1>1, <2>2, <2>3, <2>4 DEF SrcSound
<1>4. CASE ~(s.pos >= s.phys) /\ early # {}
  <2> DEFINE k == Max(early)
  <2>1. Rewound(s) = [s EXCEPT !.phys = s.ck[k].phys, !.st = s.ck[k].st]
    BY <1>4 DEF Rewound
  <2>2. k \in early
    <3>1. early \in SUBSET (1 .. Len(s.ck)) /\ Len(s.ck) \in Nat
      BY <1>1
    <3> HIDE DEF early
    <3> QED
      BY <1>4, <3>1, MaxIsIn
  <2>3. k \in 1 .. Len(s.ck) /\ s.ck[k].phys <= s.pos /\ s.ck[k] \in Entry
    <3>1. k \in DOMAIN s.ck /\ s.ck[k].phys <= s.pos
      BY <2>2
    <3>2. k \in 1 .. Len(s.ck) /\ s.ck[k] \in Entry
      <4> HIDE DEF k, early
      <4> QED
        BY <1>1, <3>1
    <3> QED
      BY <3>1, <3>2
  <2> HIDE DEF k
  <2>4. s.ck[k].phys \in Nat /\ s.ck[k].st \in -1 .. FileLen
    BY <2>3 DEF Entry
  <2>5. Rewound(s) \in SrcType
    BY <2>1, <2>4 DEF SrcType
  <2>6. /\ Rewound(s).pos = s.pos /\ Rewound(s).err = s.err /\ Rewound(s).ck = s.ck
        /\ Rewound(s).phys = s.ck[k].phys /\ Rewound(s).st = s.ck[k].st
    BY <2>1 DEF SrcType
  <2>7. SrcSound(s) => Rewound(s).st = Rewound(s).phys /\ Rewound(s).st # Dead
    BY <2>3, <2>4, <2>6 DEF SrcSound, Dead
  <2> QED
    BY <2>3, <2>5, <2>6, <2>7 DEF SrcSound
<1> QED
  BY <1>2, <1>3, <1>4

\* After a walk that was not cut short the stream is at the position, or at
\* the end of a file that the position is past.
LEMMA SyncedFacts ==
    ASSUME NEW s \in SrcType, NEW r \in Synced(s)
    PROVE  /\ r.src \in SrcType /\ r.bad \in BOOLEAN
           /\ r.src.pos = s.pos /\ r.src.err = s.err /\ r.src.ck = s.ck
           /\ SrcSound(s) /\ ~r.bad =>
                  /\ SrcSound(r.src)
                  /\ r.src.st # Dead => \/ r.src.phys = s.pos
                                        \/ r.src.st = FileLen /\ s.pos >= FileLen
<1> DEFINE b == Rewound(s)
           d == IF b.pos <= b.phys THEN 0 ELSE Lesser(b.pos - b.phys, Remaining(b.st))
<1>1. /\ b \in SrcType /\ b.phys <= b.pos /\ b.pos = s.pos /\ b.err = s.err /\ b.ck = s.ck
      /\ SrcSound(s) => SrcSound(b)
  BY RewoundFacts
<1>2. r \in {[src |-> [b EXCEPT !.phys = @ + d, !.st = IF d = 0 THEN @ ELSE @ + d], bad |-> FALSE]}
            \cup {[src |-> [b EXCEPT !.phys = @ + k, !.st = Dead], bad |-> TRUE] :
                     k \in IF d = 0 THEN {} ELSE ClusterEnds(b.st, d)}
  BY DEF Synced
<1> HIDE DEF b
<1>3. b.pos \in Nat /\ b.phys \in Nat /\ b.st \in -1 .. FileLen /\ FileLen \in Nat
  BY <1>1, PipeAssumption DEF SrcType
<1>4. /\ d \in Nat /\ d <= b.pos - b.phys
      /\ b.st # Dead => d <= FileLen - b.st /\ (d < b.pos - b.phys => d = FileLen - b.st)
      /\ b.st = Dead => d = 0
  BY <1>1, <1>3 DEF Lesser, Remaining, Dead
<1> HIDE DEF d
<1>5. CASE r = [src |-> [b EXCEPT !.phys = @ + d, !.st = IF d = 0 THEN @ ELSE @ + d], bad |-> FALSE]
  <2> DEFINE e == IF d = 0 THEN b.st ELSE b.st + d
  <2>1. e \in -1 .. FileLen /\ (b.st # Dead => e = b.st + d /\ e # Dead) /\ (b.st = Dead => e = Dead)
    BY <1>3, <1>4 DEF Dead
  <2>2. r.src = [b EXCEPT !.phys = @ + d, !.st = e] /\ r.bad = FALSE
    BY <1>5
  <2> HIDE DEF e
  <2>3. b.phys + d \in Nat
    BY <1>3, <1>4
  <2>4. r.src \in SrcType
    BY <1>1, <2>1, <2>2, <2>3 DEF SrcType
  <2>5. /\ r.src.pos = b.pos /\ r.src.err = b.err /\ r.src.ck = b.ck
        /\ r.src.phys = b.phys + d /\ r.src.st = e
    BY <1>1, <2>2 DEF SrcType
  <2>6. ASSUME SrcSound(b)
        PROVE  /\ SrcSound(r.src)
               /\ r.src.st # Dead => \/ r.src.phys = b.pos
                                     \/ r.src.st = FileLen /\ b.pos >= FileLen
    <3>1. SrcSound(r.src)
      BY <1>3, <1>4, <2>1, <2>5, <2>6 DEF SrcSound
    <3>2. ASSUME r.src.st # Dead
          PROVE  r.src.phys = b.pos \/ (r.src.st = FileLen /\ b.pos >= FileLen)
      <4>1. b.st # Dead /\ e = b.st + d /\ b.st = b.phys
        BY <2>1, <2>5, <2>6, <3>2 DEF SrcSound
      <4>2. CASE d < b.pos - b.phys
        BY <1>3, <1>4, <2>5, <4>1, <4>2
      <4>3. CASE d = b.pos - b.phys
        BY <1>3, <1>4, <2>5, <4>1, <4>3
      <4> QED
        BY <1>3, <1>4, <4>2, <4>3
    <3> QED
      BY <3>1, <3>2
  <2> QED
    BY <1>1, <2>2, <2>4, <2>5, <2>6
<1>6. ASSUME NEW k \in Nat, r = [src |-> [b EXCEPT !.phys = @ + k, !.st = Dead], bad |-> TRUE]
      PROVE  /\ r.src \in SrcType /\ r.bad = TRUE
             /\ r.src.pos = b.pos /\ r.src.err = b.err /\ r.src.ck = b.ck
  <2>1. b.phys + k \in Nat /\ Dead \in -1 .. FileLen
    BY <1>3 DEF Dead
  <2> QED
    BY <1>1, <1>6, <2>1 DEF SrcType
<1>7. \A a, n : ClusterEnds(a, n) \subseteq 1 .. n
  BY DEF ClusterEnds
<1>8. CASE \E k \in Nat : r = [src |-> [b EXCEPT !.phys = @ + k, !.st = Dead], bad |-> TRUE]
  BY <1>1, <1>6, <1>8
<1> QED
  <2>1. 1 .. d \subseteq Nat
    BY <1>4
  <2> QED
    BY <1>2, <1>5, <1>7, <1>8, <2>1

\* Only a stream that stands somewhere is given a checkpoint, so what a
\* checkpoint says is where the stream was.
LEMMA CheckpointedFacts ==
    ASSUME NEW s \in SrcType
    PROVE  /\ Checkpointed(s) \in SrcType
           /\ Checkpointed(s).pos = s.pos /\ Checkpointed(s).phys = s.phys
           /\ Checkpointed(s).st = s.st /\ Checkpointed(s).err = s.err
           /\ SrcSound(s) /\ s.st # Dead => SrcSound(Checkpointed(s))
<1> DEFINE e == [phys |-> s.phys, st |-> s.st]
           full == Len(s.ck) >= CkptMax \/
                   s.phys < CkptStride + (IF s.ck = <<>> THEN 0 ELSE s.ck[Len(s.ck)].phys)
           c == Append(s.ck, e)
<1>1. Checkpointed(s) = IF full THEN s ELSE [s EXCEPT !.ck = c]
  BY DEF Checkpointed
<1>2. s.ck \in Seq(Entry) /\ e \in Entry
  BY DEF SrcType, Entry
<1> HIDE DEF full, e
<1>3. /\ c \in Seq(Entry) /\ Len(c) = Len(s.ck) + 1
      /\ \A i \in 1 .. Len(s.ck) : c[i] = s.ck[i]
      /\ c[Len(s.ck) + 1] = e
  BY <1>2, AppendProperties
<1> HIDE DEF c
<1>4. LET x == [s EXCEPT !.ck = c]
      IN  /\ x \in SrcType /\ x.pos = s.pos /\ x.phys = s.phys
          /\ x.st = s.st /\ x.err = s.err /\ x.ck = c
  BY <1>3 DEF SrcType
<1>5. ASSUME SrcSound(s), s.st # Dead
      PROVE  \A i \in 1 .. Len(c) : c[i].st = c[i].phys
  <2>1. e.st = e.phys
    BY <1>5 DEF SrcSound, e
  <2>2. \A i \in 1 .. Len(s.ck) : s.ck[i].st = s.ck[i].phys
    BY <1>5 DEF SrcSound
  <2>3. Len(s.ck) \in Nat
    BY <1>2
  <2> QED
    BY <1>3, <2>1, <2>2, <2>3
<1>6. CASE full
  BY <1>1, <1>6
<1>7. CASE ~full
  <2>1. Checkpointed(s) = [s EXCEPT !.ck = c]
    BY <1>1, <1>7
  <2> QED
    BY <1>4, <1>5, <2>1 DEF SrcSound
<1> QED
  BY <1>6, <1>7

\* What a read of the stream returns when no failure slips through it: the
\* file's bytes at the position; nothing at the end of the file; or nothing
\* and an error.
LEMMA ReadFacts ==
    ASSUME NEW s \in SrcType, NEW n \in Nat \ {0}, NEW r \in SrcRead(s, n)
    PROVE  /\ r.src \in SrcType /\ r.got \in Seq(Int) /\ Len(r.got) <= n
           /\ r.bad \in BOOLEAN /\ r.slip \in BOOLEAN
           /\ r.src.err => s.err \/ r.bad
           /\ SrcSound(s) /\ ~r.slip =>
                  /\ SrcSound(r.src) /\ r.got = Bytes(s.pos, Len(r.got))
                  /\ r.got # <<>> => ~r.src.err
                  /\ r.got = <<>> /\ ~r.src.err => s.pos >= FileLen
<1> DEFINE Len0(t) == Lesser(n, Remaining(t.st))
           Whole(q) == [src |-> IF Len0(q.src) = 0 THEN q.src
                                ELSE Checkpointed([q.src EXCEPT !.err = FALSE,
                                         !.st = @ + Len0(q.src), !.phys = @ + Len0(q.src),
                                         !.pos = @ + Len0(q.src)]),
                        got |-> IF Len0(q.src) = 0 THEN <<>>
                                ELSE Bytes(q.src.st, Len0(q.src)),
                        bad |-> q.bad, slip |-> q.bad]
           Cut(q, k) == [src |-> [q.src EXCEPT !.err = TRUE, !.st = @ + k], got |-> <<>>,
                         bad |-> TRUE, slip |-> q.bad \/ k > 0]
           Lost(q) == [src |-> [q.src EXCEPT !.err = TRUE, !.st = Dead], got |-> <<>>,
                       bad |-> TRUE, slip |-> q.bad]
<1>1. PICK q \in Synced(s) :
          \/ r = Whole(q)
          \/ \E k \in PieceStarts(q.src.st, Len0(q.src)) : Len0(q.src) # 0 /\ r = Cut(q, k)
          \/ r = Lost(q)
  BY DEF SrcRead
<1> DEFINE t == q.src
           m == Len0(t)
<1>2. /\ t \in SrcType /\ q.bad \in BOOLEAN /\ t.pos = s.pos /\ t.err = s.err
      /\ SrcSound(s) /\ ~q.bad =>
             /\ SrcSound(t)
             /\ t.st # Dead => t.phys = s.pos \/ (t.st = FileLen /\ s.pos >= FileLen)
  BY SyncedFacts
<1> HIDE DEF t
<1>3. /\ FileLen \in Nat /\ t.st \in -1 .. FileLen /\ t.phys \in Nat /\ t.pos \in Nat
      /\ s.pos \in Nat /\ s.err \in BOOLEAN
  BY <1>2, PipeAssumption DEF SrcType
<1>4. /\ m \in Nat /\ m <= n
      /\ m # 0 => t.st # Dead /\ m <= FileLen - t.st
      /\ m = 0 /\ t.st # Dead => t.st = FileLen
  BY <1>3 DEF Lesser, Remaining, Dead
<1>5. CASE r = Whole(q) /\ m = 0
  <2>1. r.src = t /\ r.got = <<>> /\ r.bad = q.bad /\ r.slip = q.bad
    BY <1>5 DEF t
  <2>2. <<>> \in Seq(Int) /\ Len(<<>>) = 0 /\ <<>> = Bytes(s.pos, 0)
    BY BytesEmpty, <1>3
  <2>3. ASSUME SrcSound(s), ~q.bad
        PROVE  SrcSound(t) /\ (~t.err => s.pos >= FileLen)
    <3>1. SrcSound(t)
      BY <1>2, <2>3
    <3>2. ASSUME ~t.err
          PROVE  s.pos >= FileLen
      <4>1. t.st # Dead /\ t.st = t.phys
        BY <3>1, <3>2 DEF SrcSound
      <4>2. t.st = FileLen
        BY <1>4, <1>5, <4>1
      <4> QED
        BY <1>2, <1>3, <2>3, <4>1, <4>2
    <3> QED
      BY <3>1, <3>2
  <2> QED
    BY <1>2, <1>4, <2>1, <2>2, <2>3
<1>6. CASE r = Whole(q) /\ m # 0
  <2> DEFINE u == [t EXCEPT !.err = FALSE, !.st = @ + m, !.phys = @ + m, !.pos = @ + m]
  <2>1. r.src = Checkpointed(u) /\ r.got = Bytes(t.st, m) /\ r.bad = q.bad /\ r.slip = q.bad
    BY <1>6 DEF t
  <2> HIDE DEF m
  <2>2. t.st + m \in -1 .. FileLen /\ t.st + m # Dead /\ t.phys + m \in Nat /\ t.pos + m \in Nat
    <3>1. m # 0
      BY <1>6
    <3> QED
      BY <1>3, <1>4, <3>1 DEF Dead
  <2>3. /\ u \in SrcType /\ u.err = FALSE /\ u.st = t.st + m /\ u.phys = t.phys + m
        /\ u.ck = t.ck
    BY <1>2, <2>2 DEF SrcType
  <2> HIDE DEF u
  <2>4. r.src \in SrcType /\ r.src.err = FALSE /\ (SrcSound(u) => SrcSound(r.src))
    BY <2>1, <2>2, <2>3, CheckpointedFacts
  <2>5. r.got \in Seq(Int) /\ Len(r.got) = m /\ r.got # <<>>
    <3>1. r.got \in Seq(Int) /\ Len(r.got) = m
      <4>1. t.st \in Int /\ m \in Nat
        BY <1>3, <1>4
      <4> QED
        BY <2>1, <4>1, BytesFacts, Zenon
    <3> QED
      BY <1>6, <3>1
  <2>6. ASSUME SrcSound(s), ~q.bad
        PROVE  SrcSound(r.src) /\ r.got = Bytes(s.pos, Len(r.got))
    <3>1. SrcSound(t) /\ t.st # Dead /\ t.st = t.phys
      BY <1>2, <1>4, <1>6, <2>6 DEF SrcSound
    <3>2. t.st = s.pos
      BY <1>2, <1>3, <1>4, <1>6, <2>6, <3>1
    <3>3. SrcSound(u)
      BY <2>2, <2>3, <3>1 DEF SrcSound
    <3> QED
      BY <2>1, <2>4, <2>5, <3>2, <3>3
  <2> QED
    BY <1>2, <1>4, <2>1, <2>4, <2>5, <2>6
<1>7. ASSUME NEW k \in PieceStarts(t.st, m), m # 0, r = Cut(q, k)
      PROVE  /\ r.src \in SrcType /\ r.got = <<>> /\ r.bad = TRUE
             /\ r.slip \in BOOLEAN /\ r.src.err = TRUE
             /\ SrcSound(s) /\ ~r.slip => SrcSound(r.src)
  <2>1. /\ r.src = [t EXCEPT !.err = TRUE, !.st = @ + k] /\ r.got = <<>> /\ r.bad = TRUE
        /\ r.slip = (q.bad \/ k > 0)
    BY <1>7 DEF t
  <2>2. k \in 0 .. m - 1
    BY <1>7 DEF PieceStarts
  <2> HIDE DEF m
  <2>3. t.st + k \in -1 .. FileLen /\ (k = 0 => t.st + k = t.st) /\ (k > 0 \/ k = 0)
    BY <1>3, <1>4, <1>7, <2>2 DEF Dead
  <2>4. /\ r.src \in SrcType /\ r.src.err = TRUE /\ r.src.st = t.st + k /\ r.src.phys = t.phys
        /\ r.src.ck = t.ck
    BY <1>2, <2>1, <2>3 DEF SrcType
  <2>5. ASSUME SrcSound(s), ~r.slip
        PROVE  SrcSound(r.src)
    <3>1. SrcSound(t) /\ k = 0
      BY <1>2, <2>1, <2>3, <2>5
    <3>2. r.src.st = t.st
      BY <2>3, <2>4, <3>1
    <3> QED
      BY <2>4, <3>1, <3>2 DEF SrcSound
  <2>6. r.slip \in BOOLEAN
    BY <2>1
  <2> QED
    BY <2>1, <2>4, <2>5, <2>6
<1>8. CASE r = Lost(q)
  <2>1. /\ r.src = [t EXCEPT !.err = TRUE, !.st = Dead] /\ r.got = <<>> /\ r.bad = TRUE
        /\ r.slip = q.bad
    BY <1>8 DEF t
  <2>2. Dead \in -1 .. FileLen
    BY <1>3 DEF Dead
  <2>3. /\ r.src \in SrcType /\ r.src.err = TRUE /\ r.src.st = Dead /\ r.src.ck = t.ck
    BY <1>2, <2>1, <2>2 DEF SrcType
  <2>4. SrcSound(s) /\ ~r.slip => SrcSound(r.src)
    BY <1>2, <2>1, <2>3 DEF SrcSound
  <2>5. r.slip \in BOOLEAN
    BY <1>2, <2>1
  <2> QED
    <3>1. <<>> \in Seq(Int) /\ Len(<<>>) = 0 /\ <<>> = Bytes(s.pos, 0) /\ 0 <= n
      BY BytesEmpty, <1>3
    <3> QED
      BY <2>1, <2>3, <2>4, <2>5, <3>1
<1>9. CASE \E k \in PieceStarts(t.st, m) : m # 0 /\ r = Cut(q, k)
  <2>1. /\ r.src \in SrcType /\ r.got = <<>> /\ r.bad = TRUE
        /\ r.slip \in BOOLEAN /\ r.src.err = TRUE
        /\ SrcSound(s) /\ ~r.slip => SrcSound(r.src)
    BY <1>7, <1>9
  <2>2. <<>> \in Seq(Int) /\ Len(<<>>) = 0 /\ <<>> = Bytes(s.pos, 0) /\ 0 <= n
    BY BytesEmpty, <1>3
  <2> QED
    BY <2>1, <2>2
<1> QED
  BY <1>1, <1>5, <1>6, <1>8, <1>9 DEF t

-----------------------------------------------------------------------------
(* The ring: making room, storing, and a fetch.                             *)

\* What is evicted is only what has been read, and a drained ring has room.
LEMMA EvictedFacts ==
    ASSUME NEW d \in DbType, RingSound(d), NEW want \in Nat \ {0}
    PROVE  LET e == Evicted(d, want)
           IN  /\ e \in DbType /\ RingSound(e) /\ d.lo <= e.lo
               /\ e.wr = d.wr /\ e.rd = d.rd /\ e.inner_pos = d.inner_pos
               /\ e.filling = d.filling /\ e.eos = d.eos /\ e.err = d.err
               /\ e.streak = d.streak
               /\ d.rd = d.wr => Cap - (e.wr - e.lo) # 0
<1> DEFINE need == want - (Cap - (d.wr - d.lo))
           lo == d.lo + Lesser(need, d.rd - d.lo)
           e == Evicted(d, want)
<1>1. Cap \in Nat \ {0} /\ d.lo \in Nat /\ d.rd \in Nat /\ d.wr \in Nat /\ want \in Nat \ {0}
  BY PipeAssumption DEF DbType
<1>2. d.lo <= d.rd /\ d.rd <= d.wr /\ d.wr <= d.lo + Cap
  BY DEF RingSound
<1>3. CASE need <= 0
  <2>1. e = d
    BY <1>3 DEF Evicted
  <2>2. Cap - (d.wr - d.lo) # 0
    BY <1>1, <1>3
  <2> QED
    BY <1>1, <2>1, <2>2
<1>4. CASE ~(need <= 0)
  <2>1. e = [d EXCEPT !.lo = lo]
    BY <1>4 DEF Evicted
  <2>2. /\ lo \in Nat /\ d.lo <= lo /\ lo <= d.rd /\ d.wr <= lo + Cap
        /\ d.rd = d.wr => Cap - (d.wr - lo) # 0
    BY <1>1, <1>2, <1>4 DEF Lesser
  <2> HIDE DEF lo, e
  <2>3. /\ e \in DbType /\ e.lo = lo /\ e.wr = d.wr /\ e.rd = d.rd /\ e.inner_pos = d.inner_pos
        /\ e.filling = d.filling /\ e.eos = d.eos /\ e.err = d.err
        /\ e.streak = d.streak
    BY <2>1, <2>2 DEF DbType
  <2>4. RingSound(e) /\ d.lo <= e.lo /\ (d.rd = d.wr => Cap - (e.wr - e.lo) # 0)
    BY <1>2, <2>2, <2>3 DEF RingSound
  <2> QED
    BY <2>3, <2>4 DEF e
<1> QED
  BY <1>3, <1>4

\* Bytes stored at an offset are found there, and those already in a window
\* that the ring holds are still there.
StoreKept(b, at, bytes, lo) ==
    /\ Stored(b, at, bytes) \in [0 .. Cap - 1 -> Int]
    /\ \A j \in 1 .. Len(bytes) : Stored(b, at, bytes)[(at + j - 1) % Cap] = bytes[j]
    /\ \A o \in lo .. at - 1 : Stored(b, at, bytes)[o % Cap] = b[o % Cap]

\* ... for any window and any bytes that fit into the ring together.
LEMMA StoredFacts ==
    ASSUME NEW b \in [0 .. Cap - 1 -> Int], NEW at \in Nat, NEW bytes \in Seq(Int),
           NEW lo \in Nat, lo <= at, at + Len(bytes) <= lo + Cap
    PROVE  StoreKept(b, at, bytes, lo)
<1> DEFINE Hit(i, j) == (at + j - 1) % Cap = i
           V(i) == IF \E j \in 1 .. Len(bytes) : Hit(i, j)
                   THEN bytes[CHOOSE j \in 1 .. Len(bytes) : Hit(i, j)] ELSE b[i]
<1>1. Stored(b, at, bytes) = [i \in 0 .. Cap - 1 |-> V(i)]
  BY DEF Stored
<1>2. Cap \in Nat \ {0} /\ Len(bytes) \in Nat
  BY PipeAssumption
<1>3. \A o \in Int : o % Cap \in 0 .. Cap - 1
  <2> TAKE o \in Int
  <2> QED
    BY <1>2, Division, Zenon
<1>4. \A x, y \in lo .. lo + Cap - 1 : x % Cap = y % Cap => x = y
  <2> SUFFICES ASSUME NEW x \in lo .. lo + Cap - 1, NEW y \in lo .. lo + Cap - 1, x # y
               PROVE  x % Cap # y % Cap
    OBVIOUS
  <2>1. x \in Int /\ y \in Int /\ x - y \in (0 - Cap) + 1 .. Cap - 1
    BY <1>2
  <2> QED
    BY <1>2, <2>1, ModDistinct
<1>5. \A j \in 1 .. Len(bytes) : at + j - 1 \in lo .. lo + Cap - 1 /\ at + j - 1 >= at
  BY <1>2
<1>6. ASSUME NEW i \in 0 .. Cap - 1
      PROVE  V(i) \in Int
  <2>1. CASE \E j \in 1 .. Len(bytes) : Hit(i, j)
    <3> DEFINE j == CHOOSE k \in 1 .. Len(bytes) : Hit(i, k)
    <3>1. j \in 1 .. Len(bytes)
      BY <2>1
    <3>2. V(i) = bytes[j]
      BY <2>1
    <3> HIDE DEF j
    <3>3. bytes[j] \in Int
      BY <3>1
    <3> QED
      BY <3>2, <3>3
  <2>2. CASE ~\E j \in 1 .. Len(bytes) : Hit(i, j)
    BY <2>2
  <2> QED
    BY <2>1, <2>2
<1>7. ASSUME NEW j \in 1 .. Len(bytes)
      PROVE  V((at + j - 1) % Cap) = bytes[j]
  <2> DEFINE i == (at + j - 1) % Cap
             k == CHOOSE l \in 1 .. Len(bytes) : Hit(i, l)
  <2>1. Hit(i, j)
    OBVIOUS
  <2>2. k \in 1 .. Len(bytes) /\ Hit(i, k)
    BY <2>1
  <2>3. V(i) = bytes[k]
    BY <2>1
  <2>4. (at + j - 1) % Cap = (at + k - 1) % Cap
    BY <2>2
  <2> HIDE DEF k
  <2>5. at + j - 1 = at + k - 1
    BY <1>4, <1>5, <2>2, <2>4, Zenon
  <2>6. j = k
    BY <1>2, <2>2, <2>5
  <2> QED
    BY <2>3, <2>6
<1>8. ASSUME NEW o \in lo .. at - 1
      PROVE  V(o % Cap) = b[o % Cap]
  <2>1. o \in lo .. lo + Cap - 1 /\ o < at
    BY <1>2
  <2>2. ~\E j \in 1 .. Len(bytes) : Hit(o % Cap, j)
    <3> SUFFICES ASSUME NEW j \in 1 .. Len(bytes), (at + j - 1) % Cap = o % Cap
                 PROVE  FALSE
      OBVIOUS
    <3>1. at + j - 1 \in lo .. lo + Cap - 1 /\ at + j - 1 >= at
      BY <1>5
    <3>2. at + j - 1 = o
      BY <1>4, <2>1, <3>1, Zenon
    <3> QED
      BY <2>1, <3>1, <3>2
  <2> QED
    BY <2>2
<1> HIDE DEF V
<1>9. \A j \in 1 .. Len(bytes) : at + j - 1 \in Int
  BY <1>2
<1>10. \A o \in lo .. at - 1 : o \in Int
  OBVIOUS
<1>11. Stored(b, at, bytes) \in [0 .. Cap - 1 -> Int]
  BY <1>1, <1>6
<1>12. ASSUME NEW j \in 1 .. Len(bytes)
       PROVE  Stored(b, at, bytes)[(at + j - 1) % Cap] = bytes[j]
  <2>1. (at + j - 1) % Cap \in 0 .. Cap - 1
    BY <1>3, <1>9, Zenon
  <2> QED
    BY <1>1, <1>7, <2>1, Zenon
<1>13. ASSUME NEW o \in lo .. at - 1
       PROVE  Stored(b, at, bytes)[o % Cap] = b[o % Cap]
  <2>1. o % Cap \in 0 .. Cap - 1
    BY <1>3, <1>10, Zenon
  <2> QED
    BY <1>1, <1>8, <2>1, Zenon
<1> QED
  BY <1>11, <1>12, <1>13 DEF StoreKept

\* What a fetch leaves behind, however it goes: the window in the ring and
\* round the cursor; its bytes the file's unless a failure slipped through;
\* and, when a drained ring got nothing and says it is the end, the end.
LEMMA FetchedFacts ==
    ASSUME Types, RingSound(db), NEW want \in Nat \ {0}, NEW f \in Fetched(want)
    PROVE  /\ f.db \in DbType /\ f.src \in SrcType /\ f.buf \in [0 .. Cap - 1 -> Int]
           /\ f.n \in Nat /\ f.bad \in BOOLEAN /\ f.slip \in BOOLEAN
           /\ RingSound(f.db) /\ f.db.rd = db.rd /\ f.db.err = db.err
           /\ f.db.wr = db.wr + f.n /\ (db.eos => f.db.eos)
           /\ /\ WindowIsFile /\ SrcSound(src) /\ (db.eos => ~src.err)
              /\ ~f.slip /\ ~(db.eos /\ f.bad /\ f.n = 0)
              => /\ \A o \in f.db.lo .. f.db.wr - 1 : f.buf[o % Cap] = o
                 /\ SrcSound(f.src) /\ (f.db.eos => ~f.src.err)
                 /\ f.n = 0 /\ f.db.eos /\ db.rd = db.wr => db.wr >= FileLen
<1> DEFINE d == Evicted(db, want)
           room == Cap - (d.wr - d.lo)
           n == Lesser(Lesser(want, room), Cap - (d.wr % Cap))
           seen == [d EXCEPT !.inner_pos = d.wr]
           s == [src EXCEPT !.pos = d.wr]
           none == [db |-> d, src |-> src, buf |-> buf, n |-> 0, bad |-> FALSE, slip |-> FALSE]
           Next1(r) == IF r.got # <<>>
                       THEN [seen EXCEPT !.streak = 0, !.wr = @ + Len(r.got),
                                         !.inner_pos = @ + Len(r.got)]
                       ELSE IF r.src.err
                            THEN [seen EXCEPT !.streak = Lesser(@ + 1, ErrRetries)]
                            ELSE [seen EXCEPT !.eos = TRUE]
           Some(r) == [db |-> Next1(r), src |-> r.src, buf |-> Stored(buf, d.wr, r.got),
                       n |-> Len(r.got), bad |-> r.bad, slip |-> r.slip]
           idle == room = 0 \/ (d.inner_pos # d.wr /\ d.wr > FileLen)
<1>1. /\ idle => f = none
      /\ ~idle => \E r \in SrcRead(s, n) : f = Some(r)
  BY DEF Fetched
<1>2. /\ d \in DbType /\ RingSound(d) /\ db.lo <= d.lo
      /\ d.wr = db.wr /\ d.rd = db.rd /\ d.inner_pos = db.inner_pos
      /\ d.filling = db.filling /\ d.eos = db.eos /\ d.err = db.err
      /\ db.rd = db.wr => Cap - (d.wr - d.lo) # 0
  BY EvictedFacts DEF Types
<1> HIDE DEF d
<1>3. /\ d.lo \in Nat /\ d.wr \in Nat /\ d.rd \in Nat /\ d.streak \in 0 .. ErrRetries
      /\ d.eos \in BOOLEAN /\ db.lo \in Nat /\ db.wr \in Nat /\ db.rd \in Nat
      /\ Cap \in Nat \ {0} /\ FileLen \in Nat /\ ErrRetries \in Nat \ {0}
  BY <1>2, PipeAssumption DEF DbType, Types
<1>4. d.lo <= d.rd /\ d.rd <= d.wr /\ d.wr <= d.lo + Cap
  BY <1>2 DEF RingSound
<1>5. WindowIsFile => \A o \in d.lo .. d.wr - 1 : buf[o % Cap] = o
  BY <1>2, <1>3 DEF WindowIsFile
<1>6. src \in SrcType /\ buf \in [0 .. Cap - 1 -> Int] /\ src.err \in BOOLEAN
  BY DEF Types, SrcType
<1>7. CASE idle
  <2>1. /\ f.db = d /\ f.src = src /\ f.buf = buf /\ f.n = 0 /\ f.bad = FALSE
        /\ f.slip = FALSE
    <3>1. f = none
      <4> HIDE DEF idle, none
      <4> QED
        BY <1>1, <1>7
    <3> QED
      BY <3>1
  <2>2. db.rd = db.wr => db.wr >= FileLen
    BY <1>2, <1>3, <1>7
  <2> HIDE DEF idle
  <2>3. db.wr = db.wr + 0
    BY <1>3
  <2>4. /\ f.db \in DbType /\ f.src \in SrcType /\ f.buf \in [0 .. Cap - 1 -> Int]
        /\ f.n \in Nat /\ f.bad \in BOOLEAN /\ f.slip \in BOOLEAN
    <3>1. f.db \in DbType /\ f.src \in SrcType /\ f.buf \in [0 .. Cap - 1 -> Int]
      BY <1>2, <1>6, <2>1, Zenon
    <3>2. f.bad \in BOOLEAN /\ f.slip \in BOOLEAN
      BY <2>1
    <3>3. f.n \in Nat
      BY <2>1
    <3> QED
      BY <3>1, <3>2, <3>3
  <2>5. /\ RingSound(f.db) /\ f.db.rd = db.rd /\ f.db.err = db.err
        /\ f.db.wr = db.wr + f.n /\ (db.eos => f.db.eos)
    BY <1>2, <2>1, <2>3
  <2>6. WindowIsFile => \A o \in f.db.lo .. f.db.wr - 1 : f.buf[o % Cap] = o
    BY <1>5, <2>1
  <2>7. /\ SrcSound(src) => SrcSound(f.src)
        /\ (db.eos => ~src.err) => (f.db.eos => ~f.src.err)
    BY <1>2, <2>1
  <2> QED
    BY <2>2, <2>4, <2>5, <2>6, <2>7
<1>8. CASE ~idle
  <2>1. PICK r \in SrcRead(s, n) : f = Some(r)
    <3> HIDE DEF idle, Some, s, n
    <3> QED
      BY <1>1, <1>8
  <2>2. room # 0 /\ room \in Nat \ {0}
    BY <1>3, <1>4, <1>8
  <2>3. d.wr % Cap \in 0 .. Cap - 1
    <3>1. d.wr \in Int
      BY <1>3
    <3> QED
      BY <1>3, <3>1, Division, Zenon
  <2>4. n \in Nat \ {0} /\ n <= room
    <3> DEFINE slot == d.wr % Cap
    <3> HIDE DEF slot, room
    <3>1. n = Lesser(Lesser(want, room), Cap - slot)
      BY DEF slot
    <3>2. slot \in 0 .. Cap - 1 /\ room \in Nat \ {0}
      BY <2>2, <2>3 DEF slot
    <3> HIDE DEF n
    <3> QED
      BY <1>3, <3>1, <3>2 DEF Lesser
  <2>5. /\ s \in SrcType /\ s.pos = d.wr /\ s.err = src.err
        /\ SrcSound(src) => SrcSound(s)
    BY <1>3, <1>6 DEF SrcType, SrcSound
  <2> HIDE DEF s, n, idle
  <2>6. /\ r.src \in SrcType /\ r.got \in Seq(Int) /\ Len(r.got) <= n
        /\ r.bad \in BOOLEAN /\ r.slip \in BOOLEAN
        /\ r.src.err => s.err \/ r.bad
        /\ SrcSound(s) /\ ~r.slip =>
               /\ SrcSound(r.src) /\ r.got = Bytes(s.pos, Len(r.got))
               /\ r.got # <<>> => ~r.src.err
               /\ r.got = <<>> /\ ~r.src.err => s.pos >= FileLen
    BY <2>4, <2>5, ReadFacts
  <2> DEFINE len == Len(r.got)
             b == Stored(buf, d.wr, r.got)
             e == Next1(r)
  <2>7. len \in Nat /\ len <= room /\ (r.got = <<>> <=> len = 0)
    <3>1. len \in Nat /\ (r.got = <<>> <=> len = 0)
      BY <2>6, EmptySeq
    <3> QED
      BY <2>2, <2>4, <2>6, <3>1
  <2>8. /\ f.db = e /\ f.src = r.src /\ f.buf = b /\ f.n = len /\ f.bad = r.bad
        /\ f.slip = r.slip
    BY <2>1
  <2>9. d.wr + len <= d.lo + Cap
    <3>1. /\ d.wr \in Nat /\ d.lo \in Nat /\ Cap \in Nat /\ len \in Nat
          /\ len <= Cap - (d.wr - d.lo)
      BY <1>3, <2>7
    <3> HIDE DEF len
    <3> QED
      BY <3>1
  <2>10. /\ b \in [0 .. Cap - 1 -> Int]
         /\ \A j \in 1 .. len : b[(d.wr + j - 1) % Cap] = r.got[j]
         /\ \A o \in d.lo .. d.wr - 1 : b[o % Cap] = buf[o % Cap]
    <3>1. d.lo <= d.wr
      BY <1>3, <1>4
    <3> QED
      <4>1. /\ buf \in [0 .. Cap - 1 -> Int] /\ d.wr \in Nat /\ d.lo \in Nat
            /\ r.got \in Seq(Int) /\ d.wr + Len(r.got) <= d.lo + Cap
        BY <1>3, <1>6, <2>6, <2>9
      <4> HIDE DEF Next1, Some, e
      <4>2. StoreKept(buf, d.wr, r.got, d.lo)
        BY <3>1, <4>1, StoredFacts, Zenon
      <4> QED
        BY <4>2, Zenon DEF StoreKept
  <2> HIDE DEF len, b
  <2>11. /\ e \in DbType /\ e.lo = d.lo /\ e.rd = d.rd /\ e.err = d.err
         /\ e.wr = d.wr + len /\ (d.eos => e.eos) /\ (e.eos => d.eos \/ (len = 0 /\ ~r.src.err))
    <3> DEFINE old == seen.streak
    <3>1. /\ seen \in DbType /\ seen.lo = d.lo /\ seen.rd = d.rd /\ seen.err = d.err
          /\ seen.wr = d.wr /\ seen.eos = d.eos /\ seen.streak = d.streak
          /\ seen.inner_pos = d.wr
      BY <1>2, <1>3 DEF DbType
    <3> HIDE DEF seen
    <3>2. CASE r.got # <<>>
      <4>1. e = [seen EXCEPT !.streak = 0, !.wr = @ + len, !.inner_pos = @ + len]
        BY <3>2 DEF len
      <4>2. 0 \in 0 .. ErrRetries /\ seen.wr + len \in Nat /\ seen.inner_pos + len \in Int
        BY <1>3, <2>7, <3>1
      <4> HIDE DEF e
      <4> QED
        BY <3>1, <4>1, <4>2 DEF DbType
    <3>3. CASE r.got = <<>> /\ r.src.err
      <4> DEFINE more == Lesser(seen.streak + 1, ErrRetries)
      <4>1. e = [seen EXCEPT !.streak = more]
        BY <3>3
      <4>2. more \in 0 .. ErrRetries /\ d.wr + len = d.wr
        <5>1. seen.streak \in 0 .. ErrRetries /\ ErrRetries \in Nat \ {0}
          BY <1>3, <3>1
        <5>2. more \in 0 .. ErrRetries
          BY <5>1 DEF Lesser
        <5>3. len = 0 /\ d.wr \in Nat
          BY <1>3, <2>7, <3>3
        <5> QED
          BY <5>2, <5>3
      <4> HIDE DEF e, more
      <4> QED
        BY <3>1, <4>1, <4>2 DEF DbType
    <3>4. CASE r.got = <<>> /\ ~r.src.err
      <4>1. e = [seen EXCEPT !.eos = TRUE]
        BY <3>4
      <4>2. len = 0 /\ d.wr + len = d.wr
        BY <1>3, <2>7, <3>4
      <4> HIDE DEF e
      <4> QED
        BY <3>1, <3>4, <4>1, <4>2 DEF DbType
    <3> QED
      BY <3>2, <3>3, <3>4
  <2> HIDE DEF e
  <2>12. RingSound(e)
    BY <1>3, <1>4, <2>7, <2>9, <2>11 DEF RingSound
  <2>13. ASSUME WindowIsFile, SrcSound(src), db.eos => ~src.err,
                ~r.slip, ~(db.eos /\ r.bad /\ len = 0)
         PROVE  /\ \A o \in e.lo .. e.wr - 1 : b[o % Cap] = o
                /\ SrcSound(r.src) /\ (e.eos => ~r.src.err)
                /\ len = 0 /\ e.eos /\ db.rd = db.wr => db.wr >= FileLen
    <3>1. /\ SrcSound(r.src) /\ r.got = Bytes(d.wr, len)
          /\ len # 0 => ~r.src.err
          /\ len = 0 /\ ~r.src.err => d.wr >= FileLen
      BY <2>5, <2>6, <2>7, <2>13 DEF len
    <3>2. e.eos => ~r.src.err
      BY <1>2, <2>5, <2>6, <2>11, <2>13, <3>1
    <3>3. ASSUME NEW o \in e.lo .. e.wr - 1
          PROVE  b[o % Cap] = o
      <4>1. CASE o < d.wr
        <5>1. o \in d.lo .. d.wr - 1
          BY <1>3, <2>7, <2>11, <4>1
        <5> QED
          BY <1>5, <2>10, <2>13, <5>1
      <4>2. CASE ~(o < d.wr)
        <5> DEFINE j == o - d.wr + 1
        <5>0. o \in d.lo .. (d.wr + len) - 1
          BY <2>11
        <5>1. j \in 1 .. len /\ d.wr + j - 1 = o
          <6>1. d.wr \in Nat /\ d.lo \in Nat /\ len \in Nat
            BY <1>3, <2>7
          <6>2. o \in Int /\ o <= (d.wr + len) - 1 /\ d.wr <= o
            BY <4>2, <5>0, <6>1
          <6> QED
            BY <6>1, <6>2
        <5> HIDE DEF j
        <5>2. b[(d.wr + j - 1) % Cap] = r.got[j]
          BY <2>10, <5>1
        <5>3. d.wr \in Int /\ len \in Nat
          BY <1>3, <2>7
        <5>4. r.got[j] = d.wr + j - 1
          BY <3>1, <5>1, <5>3, BytesAt, Zenon
        <5> QED
          BY <5>1, <5>2, <5>4, Zenon
      <4> QED
        BY <4>1, <4>2
    <3> QED
      BY <1>2, <3>1, <3>2, <3>3
  <2> QED
    BY <1>2, <2>6, <2>7, <2>8, <2>10, <2>11, <2>12, <2>13
<1> QED
  BY <1>7, <1>8

\* What a step that fetches leaves of the invariant, whatever it does to the
\* flags of the ring.
LEMMA FetchKeeps ==
    ASSUME Types, RingSound(db), NEW want \in Nat \ {0}, NEW f \in Fetched(want),
           src' = f.src, buf' = f.buf, db' \in DbType,
           db'.lo = f.db.lo, db'.wr = f.db.wr, db'.rd = f.db.rd, db'.eos = f.db.eos
    PROVE  /\ src' \in SrcType /\ buf' \in [0 .. Cap - 1 -> Int]
           /\ RingSound(db') /\ db'.rd = db.rd
           /\ /\ Exact /\ ~f.slip /\ ~(db.eos /\ f.bad /\ f.n = 0)
              => /\ WindowIsFile' /\ SrcSound(src') /\ (db'.eos => ~src'.err)
                 /\ f.n = 0 /\ db'.eos /\ db.rd = db.wr => db.wr >= FileLen
<1>1. /\ f.db \in DbType /\ f.src \in SrcType /\ f.buf \in [0 .. Cap - 1 -> Int]
      /\ RingSound(f.db) /\ f.db.rd = db.rd
      /\ /\ WindowIsFile /\ SrcSound(src) /\ (db.eos => ~src.err)
         /\ ~f.slip /\ ~(db.eos /\ f.bad /\ f.n = 0)
         => /\ \A o \in f.db.lo .. f.db.wr - 1 : f.buf[o % Cap] = o
            /\ SrcSound(f.src) /\ (f.db.eos => ~f.src.err)
            /\ f.n = 0 /\ f.db.eos /\ db.rd = db.wr => db.wr >= FileLen
  BY FetchedFacts
<1>2. RingSound(db')
  BY <1>1 DEF RingSound
<1>3. ASSUME Exact, ~f.slip, ~(db.eos /\ f.bad /\ f.n = 0)
      PROVE  /\ WindowIsFile' /\ SrcSound(src') /\ (db'.eos => ~src'.err)
             /\ f.n = 0 /\ db'.eos /\ db.rd = db.wr => db.wr >= FileLen
  <2>1. WindowIsFile /\ SrcSound(src) /\ (db.eos => ~src.err)
    BY <1>3 DEF Exact
  <2>2. /\ \A o \in f.db.lo .. f.db.wr - 1 : f.buf[o % Cap] = o
        /\ SrcSound(f.src) /\ (f.db.eos => ~f.src.err)
        /\ f.n = 0 /\ f.db.eos /\ db.rd = db.wr => db.wr >= FileLen
    BY <1>1, <1>3, <2>1
  <2>3. WindowIsFile'
    BY <2>2 DEF WindowIsFile
  <2> QED
    BY <2>2, <2>3
<1> QED
  BY <1>1, <1>2, <1>3

-----------------------------------------------------------------------------
(* The invariant holds at the start, and every action keeps it.             *)

\* What the constants are, as the steps below use them.
LEMMA Constants ==
    /\ FileLen \in Nat \ {0} /\ Cap \in Nat \ {0} /\ Chunk \in Nat \ {0}
    /\ SyncChunk \in Nat \ {0} /\ RaCap \in Nat \ {0} /\ ErrRetries \in Nat \ {0}
    /\ \A n \in Reads : n \in Nat \ {0}
    /\ \A t \in Targets : t \in Nat
BY PipeAssumption

\* A track just opened: an empty window, and a stream left anywhere.
LEMMA InitInd ==
    ASSUME Init
    PROVE  IndInv
<1>1. PICK p \in Targets :
          p <= FileLen /\ src = [pos |-> p, phys |-> p, st |-> p, err |-> FALSE, ck |-> <<>>]
  BY DEF Init
<1>2. p \in Nat /\ p \in -1 .. FileLen /\ p # Dead
  BY <1>1, Constants DEF Dead
<1>3. src \in SrcType /\ SrcSound(src)
  <2>1. src \in SrcType
    BY <1>1, <1>2 DEF SrcType
  <2> QED
    BY <1>1, <1>2, <2>1 DEF SrcSound
<1>4. /\ db = [lo |-> 0, wr |-> 0, rd |-> 0, inner_pos |-> Unknown, filling |-> TRUE,
               eos |-> FALSE, err |-> FALSE, streak |-> 0]
      /\ buf = [i \in 0 .. Cap - 1 |-> 0]
      /\ ra = [pos |-> Unknown, data |-> <<>>, cursor |-> 0, inner_pos |-> Unknown]
      /\ call = Idle /\ slipped = FALSE
  BY DEF Init
<1>5. Types
  <2>1. db \in DbType
    BY <1>4, Constants DEF DbType, Unknown
  <2>2. ra \in RaType
    BY <1>4 DEF RaType, Unknown
  <2>3. call \in CallType
    BY <1>4 DEF CallType, Idle
  <2>4. buf \in [0 .. Cap - 1 -> Int] /\ slipped \in BOOLEAN
    <3>1. buf \in [0 .. Cap - 1 -> Int]
      BY <1>4
    <3>2. slipped \in BOOLEAN
      BY <1>4
    <3> QED
      BY <3>1, <3>2
  <2> QED
    BY <1>3, <2>1, <2>2, <2>3, <2>4 DEF Types
<1>6. RingSound(db)
  BY <1>4, Constants DEF RingSound
<1>7. Counted
  BY <1>4 DEF Counted, Below, Idle
<1>8. Exact
  <2>1. WindowIsFile
    BY <1>4 DEF WindowIsFile
  <2>2. ra.data = Bytes(ra.pos, Len(ra.data))
    BY <1>4, BytesEmpty DEF Unknown
  <2>3. db.eos = FALSE /\ call.at = "idle"
    BY <1>4 DEF Idle
  <2> QED
    BY <1>3, <2>1, <2>2, <2>3 DEF Exact, Below
<1> QED
  BY <1>5, <1>6, <1>7, <1>8 DEF IndInv

\* The codec asks: nothing of the answer is there yet.
LEMMA AskInd ==
    ASSUME IndInv, NEW n \in Reads, Ask(n)
    PROVE  IndInv'
<1>1. /\ Types /\ RingSound(db) /\ Counted /\ (~slipped => Exact)
      /\ ra \in RaType /\ ra.cursor \in Nat /\ n \in Nat \ {0}
  BY Constants DEF IndInv, Types, RaType
<1>2. /\ call.at = "idle"
      /\ call' = [at |-> "ra", start |-> ra.cursor, left |-> n, got |-> <<>>,
                  want |-> 0, blk |-> <<>>]
      /\ src' = src /\ db' = db /\ buf' = buf /\ ra' = ra /\ slipped' = slipped
  BY DEF Ask, pipe, history
<1>3. call' \in CallType
  BY <1>1, <1>2 DEF CallType
<1>4. Types' /\ RingSound(db)'
  BY <1>1, <1>2, <1>3 DEF Types
<1>5. Counted'
  BY <1>1, <1>2 DEF Counted, Below
<1>6. ASSUME Exact
      PROVE  Exact'
  <2>1. call'.got = Bytes(call'.start, Len(call'.got))
    BY <1>1, <1>2, BytesEmpty
  <2> QED
    BY <1>2, <1>6, <2>1 DEF Exact, WindowIsFile, Below, Ended
<1> QED
  BY <1>1, <1>2, <1>4, <1>5, <1>6 DEF IndInv

\* The shim serves from its block: what it gives continues what it gave.
LEMMA RaServeInd ==
    ASSUME IndInv, RaServe
    PROVE  IndInv'
<1> DEFINE off == ra.cursor - ra.pos
           n == Lesser(call.left, Len(ra.data) - off)
           part == SubSeq(ra.data, off + 1, off + n)
<1>1. /\ Types /\ RingSound(db) /\ Counted /\ (~slipped => Exact)
      /\ ra \in RaType /\ call \in CallType
  BY DEF IndInv, Types
<1>2. /\ call.at = "ra" /\ call.left > 0 /\ ra.pos <= ra.cursor
      /\ ra.cursor < ra.pos + Len(ra.data)
      /\ call' = [call EXCEPT !.left = @ - n, !.got = @ \o part]
      /\ ra' = [ra EXCEPT !.cursor = @ + n]
      /\ src' = src /\ db' = db /\ buf' = buf /\ slipped' = slipped
  BY DEF RaServe, InWindow, history
<1>3. /\ ra.cursor \in Nat /\ ra.pos \in Int /\ ra.data \in Seq(Int) /\ Len(ra.data) \in Nat
      /\ call.left \in Nat /\ call.got \in Seq(Int) /\ Len(call.got) \in Nat
      /\ call.start \in Nat
  BY <1>1 DEF RaType, CallType
<1>4. /\ off \in Nat /\ n \in Nat \ {0} /\ n <= call.left /\ off + n <= Len(ra.data)
      /\ ra.pos + off = ra.cursor
  <2> DEFINE len == Len(ra.data)
  <2>1. /\ ra.cursor \in Nat /\ ra.pos \in Int /\ len \in Nat /\ call.left \in Nat
        /\ call.left > 0 /\ ra.pos <= ra.cursor /\ ra.cursor < ra.pos + len
    BY <1>2, <1>3
  <2> HIDE DEF len
  <2>2. off \in Nat /\ len - off \in Nat \ {0} /\ ra.pos + off = ra.cursor
    BY <2>1
  <2> HIDE DEF off
  <2>3. Lesser(call.left, len - off) \in Nat \ {0} /\ Lesser(call.left, len - off) <= call.left
        /\ Lesser(call.left, len - off) <= len - off
    BY <2>1, <2>2 DEF Lesser
  <2>4. n = Lesser(call.left, len - off)
    BY DEF len
  <2> HIDE DEF n
  <2>5. off + n <= len
    BY <2>1, <2>2, <2>3, <2>4
  <2> QED
    BY <2>2, <2>3, <2>4, <2>5 DEF len
<1> HIDE DEF off, n
<1>5. part \in Seq(Int) /\ Len(part) = n
  <2>1. ra.data \in Seq(Int) /\ off \in Nat /\ n \in Nat /\ off + n <= Len(ra.data)
    BY <1>3, <1>4
  <2> QED
    BY <2>1, PartOf, Zenon
<1>6. ra.data = Bytes(ra.pos, Len(ra.data)) => part = Bytes(ra.cursor, n)
  <2>1. SUFFICES ASSUME ra.data = Bytes(ra.pos, Len(ra.data))
                 PROVE  part = Bytes(ra.pos + off, n)
    BY <1>4
  <2>2. ra.data \in Seq(Int) /\ ra.pos \in Int /\ off \in Nat /\ n \in Nat /\ off + n <= Len(ra.data)
    BY <1>3, <1>4
  <2> QED
    BY <2>1, <2>2, BytesSub
<1> HIDE DEF part
<1>7. call.left - n \in Nat /\ call.got \o part \in Seq(Int) /\ ra.cursor + n \in Nat
      /\ Len(call.got \o part) = Len(call.got) + n
  <2>1. call.left - n \in Nat /\ ra.cursor + n \in Nat
    <3>1. call.left \in Nat /\ n \in Nat /\ n <= call.left /\ ra.cursor \in Nat
      BY <1>3, <1>4
    <3> QED
      BY <3>1
  <2>2. call.got \o part \in Seq(Int) /\ Len(call.got \o part) = Len(call.got) + Len(part)
    BY <1>3, <1>5, Joined
  <2> QED
    BY <1>5, <2>1, <2>2
<1>8. /\ call' \in CallType /\ call'.at = "ra" /\ call'.left = call.left - n
      /\ call'.got = call.got \o part /\ call'.start = call.start
  BY <1>1, <1>2, <1>7 DEF CallType
<1>9. /\ ra' \in RaType /\ ra'.cursor = ra.cursor + n /\ ra'.inner_pos = ra.inner_pos
      /\ ra'.pos = ra.pos /\ ra'.data = ra.data
  BY <1>1, <1>2, <1>7 DEF RaType
<1>10. Types' /\ RingSound(db)'
  BY <1>1, <1>2, <1>8, <1>9 DEF Types
<1>11. ra.cursor = call.start + Len(call.got)
  BY <1>1, <1>2 DEF Counted
<1>12. Counted'
  <2>1. ra.inner_pos # Unknown => ra.inner_pos = db.rd
    BY <1>1, <1>2 DEF Counted, Below
  <2>2. call'.left + Len(call'.got) > 0 /\ ra'.cursor = call'.start + Len(call'.got)
    <3> DEFINE len == Len(call.got)
    <3>1. /\ call'.left = call.left - n /\ Len(call'.got) = len + n /\ call'.start = call.start
          /\ ra'.cursor = ra.cursor + n /\ ra.cursor = call.start + len
          /\ call.left \in Nat /\ n \in Nat /\ len \in Nat /\ call.start \in Nat
          /\ call.left > 0
      BY <1>2, <1>3, <1>4, <1>7, <1>8, <1>9, <1>11
    <3> HIDE DEF len
    <3> QED
      BY <3>1
  <2> QED
    BY <1>2, <1>8, <1>9, <2>1, <2>2 DEF Counted, Below
<1>13. ASSUME Exact
       PROVE  Exact'
  <2>1. part = Bytes(call.start + Len(call.got), Len(part))
    BY <1>5, <1>6, <1>11, <1>13 DEF Exact
  <2>2. call.got = Bytes(call.start, Len(call.got))
    BY <1>2, <1>13 DEF Exact
  <2>3. call'.got = Bytes(call'.start, Len(call'.got))
    <3>1. call.start \in Int
      BY <1>3
    <3>2. call.got \o part = Bytes(call.start, Len(call.got \o part))
      BY <1>3, <1>5, <2>1, <2>2, <3>1, BytesConcat, Zenon
    <3> QED
      BY <1>8, <3>2
  <2> QED
    BY <1>2, <1>8, <1>9, <1>13, <2>3 DEF Exact, WindowIsFile, Below, Ended
<1> QED
  BY <1>1, <1>2, <1>10, <1>12, <1>13 DEF IndInv

\* The shim asks below: it moves the buffer to its cursor, or knows it there.
LEMMA RaAskInd ==
    ASSUME IndInv, RaAsk
    PROVE  IndInv'
<1> DEFINE w == IF Bulk THEN call.left ELSE RaCap
<1>1. /\ Types /\ RingSound(db) /\ Counted /\ (~slipped => Exact)
      /\ ra \in RaType /\ call \in CallType /\ db \in DbType
  BY DEF IndInv, Types
<1>2. /\ call.at = "ra" /\ call.left > 0
      /\ db' = IF ra.inner_pos = ra.cursor THEN db ELSE Sought(db, ra.cursor)
      /\ ra' = [ra EXCEPT !.inner_pos = ra.cursor]
      /\ call' = [call EXCEPT !.at = "db", !.want = w, !.blk = <<>>]
      /\ src' = src /\ buf' = buf /\ slipped' = slipped
  BY DEF RaAsk, history
<1>3. /\ ra.cursor \in Nat /\ ra.inner_pos \in Int
      /\ call.left \in Nat /\ call.got \in Seq(Int) /\ call.start \in Nat
      /\ db.lo \in Nat /\ db.wr \in Nat /\ db.rd \in Nat /\ Cap \in Nat
  BY <1>1, Constants DEF RaType, CallType, DbType
<1>4. w \in Nat
  BY <1>3, Constants
<1> HIDE DEF w
<1>5. /\ call' \in CallType /\ call'.at = "db" /\ call'.left = call.left /\ call'.got = call.got
      /\ call'.start = call.start /\ call'.want = w /\ call'.blk = <<>>
  <2>1. call' = [call EXCEPT !.at = "db", !.want = w, !.blk = <<>>] /\ <<>> \in Seq(Int)
    BY <1>2
  <2> QED
    BY <1>1, <1>4, <2>1 DEF CallType
<1>6. /\ ra' \in RaType /\ ra'.cursor = ra.cursor /\ ra'.inner_pos = ra.cursor
      /\ ra'.pos = ra.pos /\ ra'.data = ra.data
  <2>1. ra' = [ra EXCEPT !.inner_pos = ra.cursor] /\ ra.cursor \in Int
    BY <1>2, <1>3
  <2> QED
    BY <1>1, <2>1 DEF RaType
<1>7. /\ db' \in DbType /\ RingSound(db') /\ db'.rd = ra.cursor /\ (db'.eos => db.eos)
      /\ \A o \in db'.lo .. db'.wr - 1 : o \in db.lo .. db.wr - 1
  <2>1. CASE ra.inner_pos = ra.cursor
    <3>1. ra.inner_pos # Unknown
      BY <1>3, <2>1 DEF Unknown
    <3> QED
      BY <1>1, <1>2, <2>1, <3>1 DEF Counted, Below
  <2>2. CASE ra.inner_pos # ra.cursor /\ db.lo <= ra.cursor /\ ra.cursor <= db.wr
    <3>1. db' = [db EXCEPT !.rd = ra.cursor]
      BY <1>2, <2>2 DEF Sought
    <3>2. /\ db' \in DbType /\ db'.rd = ra.cursor /\ db'.lo = db.lo /\ db'.wr = db.wr
          /\ db'.eos = db.eos
      BY <1>1, <1>3, <3>1 DEF DbType
    <3>3. RingSound(db')
      BY <1>1, <1>3, <2>2, <3>2 DEF RingSound
    <3> QED
      BY <3>2, <3>3
  <2>3. CASE ra.inner_pos # ra.cursor /\ ~(db.lo <= ra.cursor /\ ra.cursor <= db.wr)
    <3>1. db' = [db EXCEPT !.lo = ra.cursor, !.wr = ra.cursor, !.rd = ra.cursor, !.eos = FALSE]
      BY <1>2, <2>3 DEF Sought
    <3>2. /\ db' \in DbType /\ db'.rd = ra.cursor /\ db'.lo = ra.cursor /\ db'.wr = ra.cursor
          /\ db'.eos = FALSE
      BY <1>1, <1>3, <3>1 DEF DbType
    <3>3. RingSound(db')
      BY <1>3, <3>2 DEF RingSound
    <3>4. \A o \in db'.lo .. db'.wr - 1 : FALSE
      BY <1>3, <3>2
    <3> QED
      BY <3>2, <3>3, <3>4
  <2> QED
    BY <2>1, <2>2, <2>3
<1>8. Types'
  BY <1>1, <1>2, <1>5, <1>6, <1>7 DEF Types
<1>9. Counted'
  <2>1. call.left + Len(call.got) > 0 /\ ra.cursor = call.start + Len(call.got)
    BY <1>1, <1>2 DEF Counted
  <2>2. call'.want = IF Bulk' THEN call'.left ELSE RaCap
    BY <1>5 DEF w, Bulk
  <2>3. Len(call'.blk) = 0 /\ db'.rd = ra'.cursor + Len(call'.blk) /\ Len(call'.blk) <= call'.want
    BY <1>3, <1>4, <1>5, <1>6, <1>7
  <2> QED
    BY <1>2, <1>5, <1>6, <2>1, <2>2, <2>3 DEF Counted, Below
<1>10. ASSUME Exact
       PROVE  Exact'
  <2>1. WindowIsFile'
    BY <1>2, <1>7, <1>10 DEF Exact, WindowIsFile
  <2>2. call'.blk = Bytes(ra'.cursor, Len(call'.blk))
    <3>1. ra.cursor \in Int /\ Len(<<>>) = 0
      BY <1>3
    <3> QED
      BY <1>5, <1>6, <3>1, BytesEmpty
  <2>3. SrcSound(src)' /\ (db'.eos => ~src'.err)
    BY <1>2, <1>7, <1>10 DEF Exact
  <2>4. /\ ra'.data = Bytes(ra'.pos, Len(ra'.data))
        /\ call'.got = Bytes(call'.start, Len(call'.got))
    BY <1>2, <1>5, <1>6, <1>10 DEF Exact
  <2> QED
    BY <1>5, <2>1, <2>2, <2>3, <2>4 DEF Exact
<1> QED
  BY <1>1, <1>2, <1>7, <1>8, <1>9, <1>10 DEF IndInv

\* The buffer serves from its window.
LEMMA DbServeInd ==
    ASSUME IndInv, DbServe
    PROVE  IndInv'
<1> DEFINE n == Lesser(call.want - Len(call.blk), db.wr - db.rd)
           part == [i \in 1 .. n |-> buf[(db.rd + i - 1) % Cap]]
<1>1. /\ Types /\ RingSound(db) /\ Counted /\ (~slipped => Exact)
      /\ ra \in RaType /\ call \in CallType /\ db \in DbType /\ buf \in [0 .. Cap - 1 -> Int]
  BY DEF IndInv, Types
<1>2. /\ call.at = "db" /\ db.rd < db.wr /\ Len(call.blk) < call.want
      /\ call' = [call EXCEPT !.blk = @ \o part]
      /\ db' = [db EXCEPT !.rd = @ + n]
      /\ src' = src /\ buf' = buf /\ ra' = ra /\ slipped' = slipped
  BY DEF DbServe, history
<1>3. /\ ra.cursor \in Nat /\ call.blk \in Seq(Int) /\ Len(call.blk) \in Nat /\ call.want \in Nat
      /\ db.lo \in Nat /\ db.wr \in Nat /\ db.rd \in Nat /\ Cap \in Nat \ {0}
  BY <1>1, Constants DEF RaType, CallType, DbType
<1>4. db.lo <= db.rd /\ db.rd <= db.wr /\ db.wr <= db.lo + Cap
  BY <1>1 DEF RingSound
<1>5. n \in Nat \ {0} /\ Len(call.blk) + n <= call.want /\ db.rd + n <= db.wr
  <2> DEFINE len == Len(call.blk)
  <2>1. len \in Nat /\ len < call.want
    BY <1>2, <1>3
  <2> HIDE DEF len
  <2>2. /\ Lesser(call.want - len, db.wr - db.rd) \in Nat \ {0}
        /\ len + Lesser(call.want - len, db.wr - db.rd) <= call.want
        /\ db.rd + Lesser(call.want - len, db.wr - db.rd) <= db.wr
    <3>1. call.want - len \in Nat \ {0} /\ db.wr - db.rd \in Nat \ {0}
      BY <1>2, <1>3, <2>1
    <3>2. /\ call.want \in Nat /\ db.rd \in Nat /\ db.wr \in Nat
      BY <1>3
    <3> QED
      BY <2>1, <3>1, <3>2 DEF Lesser
  <2> QED
    BY <2>2 DEF len
<1> HIDE DEF n
<1>6. /\ part \in Seq(Int) /\ Len(part) = n
      /\ \A i \in 1 .. n : part[i] = buf[(db.rd + i - 1) % Cap]
  <2>1. \A i \in 1 .. n : buf[(db.rd + i - 1) % Cap] \in Int
    <3> TAKE i \in 1 .. n
    <3>1. db.rd + i - 1 \in Int
      BY <1>3, <1>5
    <3>2. (db.rd + i - 1) % Cap \in 0 .. Cap - 1
      BY <1>3, <3>1, Division, Zenon
    <3> QED
      BY <1>1, <3>2
  <2> DEFINE V(i) == buf[(db.rd + i - 1) % Cap]
  <2> HIDE DEF V
  <2>2. \A i \in 1 .. n : V(i) \in Int
    BY <2>1 DEF V
  <2>3. part = [i \in 1 .. n |-> V(i)]
    BY DEF V
  <2> HIDE DEF part
  <2>4. part \in Seq(Int) /\ Len(part) = n /\ \A i \in 1 .. n : part[i] = V(i)
    BY <1>5, <2>2, <2>3
  <2> QED
    BY <2>4 DEF V
<1> HIDE DEF part
<1>7. call.blk \o part \in Seq(Int) /\ Len(call.blk \o part) = Len(call.blk) + n
  BY <1>3, <1>6, Joined
<1>8. /\ call' \in CallType /\ call'.at = "db" /\ call'.left = call.left /\ call'.got = call.got
      /\ call'.start = call.start /\ call'.want = call.want /\ call'.blk = call.blk \o part
  BY <1>1, <1>2, <1>7 DEF CallType
<1>9. db.rd + n \in Nat
  BY <1>3, <1>5
<1>10. /\ db' \in DbType /\ db'.rd = db.rd + n /\ db'.lo = db.lo /\ db'.wr = db.wr
       /\ db'.eos = db.eos
  BY <1>1, <1>2, <1>9 DEF DbType
<1>11. RingSound(db')
  BY <1>3, <1>4, <1>5, <1>10 DEF RingSound
<1>12. Types'
  BY <1>1, <1>2, <1>8, <1>10 DEF Types
<1>13. /\ call.left + Len(call.got) > 0 /\ ra.cursor = call.start + Len(call.got)
       /\ ra.inner_pos = ra.cursor /\ db.rd = ra.cursor + Len(call.blk)
       /\ call.left > 0 /\ call.want = IF Bulk THEN call.left ELSE RaCap
  BY <1>1, <1>2 DEF Counted, Below
<1>14. Counted'
  <2>1. Len(call'.blk) = Len(call.blk) + n /\ Len(call.blk) \in Nat /\ n \in Nat
    BY <1>3, <1>5, <1>7, <1>8
  <2>2. db'.rd = ra'.cursor + Len(call'.blk)
    <3> DEFINE len == Len(call.blk)
    <3>1. /\ ra.cursor \in Nat /\ len \in Nat /\ n \in Nat
          /\ db'.rd = db.rd + n /\ db.rd = ra.cursor + len /\ Len(call'.blk) = len + n
      BY <1>3, <1>10, <1>13, <2>1
    <3>2. ra' = ra
      BY <1>2
    <3> HIDE DEF len
    <3> QED
      BY <3>1, <3>2
  <2>3. Len(call'.blk) <= call'.want
    BY <1>5, <1>8, <2>1
  <2>4. call'.want = IF Bulk' THEN call'.left ELSE RaCap
    BY <1>8, <1>13 DEF Bulk
  <2> QED
    BY <1>2, <1>8, <1>13, <2>2, <2>3, <2>4 DEF Counted, Below
<1>15. ASSUME Exact
       PROVE  Exact'
  <2>1. /\ WindowIsFile /\ SrcSound(src) /\ (db.eos => ~src.err)
        /\ ra.data = Bytes(ra.pos, Len(ra.data))
        /\ call.got = Bytes(call.start, Len(call.got))
        /\ call.blk = Bytes(ra.cursor, Len(call.blk))
    BY <1>2, <1>15 DEF Exact, Below
  <2>2. \A i \in 1 .. Len(part) : part[i] = db.rd + i - 1
    <3> TAKE i \in 1 .. Len(part)
    <3>0. i \in 1 .. n
      BY <1>6
    <3>1. db.rd + i - 1 \in db.lo .. db.wr - 1 /\ i \in 1 .. n
      <4>1. /\ db.rd \in Nat /\ db.lo \in Nat /\ db.wr \in Nat /\ n \in Nat
            /\ db.lo <= db.rd /\ db.rd + n <= db.wr
        BY <1>3, <1>4, <1>5
      <4> QED
        BY <3>0, <4>1
    <3>2. buf[(db.rd + i - 1) % Cap] = db.rd + i - 1
      BY <2>1, <3>1 DEF WindowIsFile
    <3> QED
      BY <1>6, <3>1, <3>2, Zenon
  <2>3. part = Bytes(db.rd, Len(part))
    <3>1. db.rd \in Int
      BY <1>3
    <3> QED
      BY <1>6, <2>2, <3>1, BytesAre, Zenon
  <2>4. call'.blk = Bytes(ra'.cursor, Len(call'.blk))
    <3>1. ra.cursor \in Int
      BY <1>3
    <3>2. part = Bytes(ra.cursor + Len(call.blk), Len(part))
      BY <1>13, <2>3
    <3>3. call.blk \o part = Bytes(ra.cursor, Len(call.blk \o part))
      BY <1>3, <1>6, <2>1, <3>1, <3>2, BytesConcat, Zenon
    <3> QED
      BY <1>2, <1>8, <3>3
  <2>5. WindowIsFile'
    BY <1>2, <1>10, <2>1 DEF WindowIsFile
  <2>6. SrcSound(src)' /\ (db'.eos => ~src'.err)
    BY <1>2, <1>10, <2>1
  <2>7. /\ ra'.data = Bytes(ra'.pos, Len(ra'.data))
        /\ call'.got = Bytes(call'.start, Len(call'.got))
    BY <1>2, <1>8, <2>1
  <2> QED
    BY <1>8, <2>4, <2>5, <2>6, <2>7 DEF Exact
<1> QED
  BY <1>1, <1>2, <1>11, <1>12, <1>14, <1>15 DEF IndInv

\* A drained buffer fetches: what it has to say for nothing is the end of the
\* file or an error.
LEMMA DbFetchInd ==
    ASSUME IndInv, DbFetch
    PROVE  IndInv'
<1>1. /\ Types /\ RingSound(db) /\ Counted /\ (~slipped => Exact)
      /\ ra \in RaType /\ call \in CallType /\ db \in DbType /\ slipped \in BOOLEAN
      /\ SyncChunk \in Nat \ {0}
  BY Constants DEF IndInv, Types
<1>2. PICK r \in Fetched(SyncChunk) :
          LET ends == r.n = 0 /\ ~r.db.eos
          IN  /\ Takes(r, Fetched(SyncChunk))
              /\ db' = IF ends THEN [r.db EXCEPT !.err = TRUE] ELSE r.db
              /\ slipped' = (slipped \/ r.slip \/ (r.bad /\ r.n = 0 /\ r.db.eos))
              /\ call' = IF r.n = 0 THEN [call EXCEPT !.at = "back"] ELSE call
  BY DEF DbFetch
<1> DEFINE ends == r.n = 0 /\ ~r.db.eos
<1>3. /\ call.at = "db" /\ db.rd = db.wr /\ Len(call.blk) < call.want /\ ra' = ra
      /\ src' = r.src /\ buf' = r.buf
  BY <1>2 DEF DbFetch, Takes
<1>4. /\ r.db \in DbType /\ r.n \in Nat /\ r.bad \in BOOLEAN /\ r.slip \in BOOLEAN
      /\ (db.eos => r.db.eos)
  BY <1>1, FetchedFacts
<1>5. /\ db' \in DbType /\ db'.lo = r.db.lo /\ db'.wr = r.db.wr /\ db'.rd = r.db.rd
      /\ db'.eos = r.db.eos /\ (r.n = 0 => db'.err \/ db'.eos)
  <2>1. CASE ends
    <3>1. db' = [r.db EXCEPT !.err = TRUE]
      BY <1>2, <2>1
    <3> QED
      BY <1>4, <3>1 DEF DbType
  <2>2. CASE ~ends
    <3>1. db' = r.db
      BY <1>2, <2>2
    <3> QED
      BY <1>4, <2>2, <3>1
  <2> QED
    BY <2>1, <2>2
<1>6. /\ src' \in SrcType /\ buf' \in [0 .. Cap - 1 -> Int]
      /\ RingSound(db') /\ db'.rd = db.rd
      /\ /\ Exact /\ ~r.slip /\ ~(db.eos /\ r.bad /\ r.n = 0)
         => /\ WindowIsFile' /\ SrcSound(src') /\ (db'.eos => ~src'.err)
            /\ r.n = 0 /\ db'.eos /\ db.rd = db.wr => db.wr >= FileLen
  BY <1>1, <1>3, <1>5, FetchKeeps
<1>7. /\ call' \in CallType /\ call'.at \in {"db", "back"} /\ (call'.at = "back" => r.n = 0)
      /\ call'.left = call.left /\ call'.got = call.got /\ call'.start = call.start
      /\ call'.want = call.want /\ call'.blk = call.blk
  <2>1. CASE r.n = 0
    <3>1. call' = [call EXCEPT !.at = "back"]
      BY <1>2, <2>1
    <3> QED
      BY <1>1, <2>1, <3>1 DEF CallType
  <2>2. CASE r.n # 0
    <3>1. call' = call
      BY <1>2, <2>2
    <3> QED
      BY <1>1, <1>3, <3>1
  <2> QED
    BY <2>1, <2>2
<1>8. slipped' = (slipped \/ r.slip \/ (r.bad /\ r.n = 0 /\ r.db.eos))
  BY <1>2
<1>9. slipped' \in BOOLEAN
  BY <1>8
<1>10. Types'
  BY <1>1, <1>3, <1>5, <1>6, <1>7, <1>9 DEF Types
<1>11. /\ call.left + Len(call.got) > 0 /\ ra.cursor = call.start + Len(call.got)
       /\ ra.inner_pos = ra.cursor /\ db.rd = ra.cursor + Len(call.blk)
       /\ call.left > 0 /\ call.want = (IF Bulk THEN call.left ELSE RaCap)
       /\ Len(call.blk) <= call.want
  BY <1>1, <1>3 DEF Counted, Below
<1>12. Counted'
  <2>1. call'.want = IF Bulk' THEN call'.left ELSE RaCap
    BY <1>7, <1>11 DEF Bulk
  <2>2. call'.at # "done" /\ Below'
    BY <1>7 DEF Below
  <2> QED
    BY <1>3, <1>6, <1>7, <1>11, <2>1, <2>2 DEF Counted
<1>13. ASSUME ~slipped'
       PROVE  Exact'
  <2>1. ~slipped /\ ~r.slip /\ ~(db.eos /\ r.bad /\ r.n = 0)
    BY <1>4, <1>8, <1>13
  <2>2. Exact
    BY <1>1, <2>1
  <2>3. /\ WindowIsFile' /\ SrcSound(src') /\ (db'.eos => ~src'.err)
        /\ r.n = 0 /\ db'.eos => db.wr >= FileLen
    BY <1>3, <1>6, <2>1, <2>2
  <2>4. /\ ra'.data = Bytes(ra'.pos, Len(ra'.data))
        /\ call'.got = Bytes(call'.start, Len(call'.got))
        /\ call'.blk = Bytes(ra'.cursor, Len(call'.blk))
    BY <1>3, <1>7, <2>2 DEF Exact, Below
  <2>5. ASSUME call'.at = "back", call'.blk = <<>>
        PROVE  db'.err \/ ra'.cursor >= FileLen
    <3>1. r.n = 0 /\ Len(call.blk) = 0
      BY <1>7, <2>5
    <3>2. ra.cursor = db.wr
      <4>1. ra.cursor \in Nat
        BY <1>1 DEF RaType
      <4> QED
        BY <1>3, <1>11, <3>1, <4>1
    <3> QED
      BY <1>3, <1>5, <2>3, <3>1, <3>2
  <2>6. call'.at # "done"
    BY <1>7
  <2> QED
    BY <2>3, <2>4, <2>5, <2>6 DEF Exact, Ended
<1> QED
  BY <1>6, <1>10, <1>12, <1>13 DEF IndInv

\* The buffer has what was asked for, which is never nothing.
LEMMA DbDoneInd ==
    ASSUME IndInv, DbDone
    PROVE  IndInv'
<1>1. /\ Types /\ RingSound(db) /\ Counted /\ (~slipped => Exact)
      /\ ra \in RaType /\ call \in CallType
  BY DEF IndInv, Types
<1>2. /\ call.at = "db" /\ Len(call.blk) = call.want
      /\ call' = [call EXCEPT !.at = "back"]
      /\ src' = src /\ db' = db /\ buf' = buf /\ ra' = ra /\ slipped' = slipped
  BY DEF DbDone, pipe, history
<1>3. /\ call' \in CallType /\ call'.at = "back" /\ call'.left = call.left /\ call'.got = call.got
      /\ call'.start = call.start /\ call'.want = call.want /\ call'.blk = call.blk
  BY <1>1, <1>2 DEF CallType
<1>4. Types' /\ RingSound(db)'
  BY <1>1, <1>2, <1>3 DEF Types
<1>5. /\ call.left + Len(call.got) > 0 /\ ra.cursor = call.start + Len(call.got)
      /\ ra.inner_pos = ra.cursor /\ db.rd = ra.cursor + Len(call.blk)
      /\ call.left > 0 /\ call.want = (IF Bulk THEN call.left ELSE RaCap)
      /\ Len(call.blk) <= call.want
  BY <1>1, <1>2 DEF Counted, Below
<1>6. Counted'
  <2>1. call'.want = IF Bulk' THEN call'.left ELSE RaCap
    BY <1>3, <1>5 DEF Bulk
  <2> QED
    BY <1>2, <1>3, <1>5, <2>1 DEF Counted, Below
<1>7. call.blk # <<>>
  <2>1. call.want > 0
    BY <1>5, Constants
  <2> QED
    BY <1>2, <2>1
<1>8. ASSUME Exact
      PROVE  Exact'
  BY <1>2, <1>3, <1>7, <1>8 DEF Exact, WindowIsFile, Below
<1> QED
  BY <1>1, <1>2, <1>4, <1>6, <1>8 DEF IndInv

\* The shim takes what the buffer returned, as the answer or as its block.
LEMMA RaTakeInd ==
    ASSUME IndInv, RaTake
    PROVE  IndInv'
<1> DEFINE n == Len(call.blk)
<1>1. /\ Types /\ RingSound(db) /\ Counted /\ (~slipped => Exact)
      /\ ra \in RaType /\ call \in CallType
  BY DEF IndInv, Types
<1>2. /\ call.at = "back" /\ src' = src /\ db' = db /\ buf' = buf /\ slipped' = slipped
      /\ Bulk => /\ ra' = [ra EXCEPT !.inner_pos = @ + n, !.cursor = @ + n]
                 /\ call' = [call EXCEPT !.at = IF n = 0 THEN "done" ELSE "ra",
                                         !.left = @ - n, !.got = @ \o call.blk]
      /\ ~Bulk => /\ ra' = [ra EXCEPT !.pos = ra.cursor, !.data = call.blk,
                                      !.inner_pos = @ + n]
                  /\ call' = [call EXCEPT !.at = IF n = 0 THEN "done" ELSE "ra"]
  BY DEF RaTake, history
<1>3. /\ ra.cursor \in Nat /\ ra.inner_pos \in Int /\ call.blk \in Seq(Int) /\ n \in Nat
      /\ call.left \in Nat /\ call.got \in Seq(Int) /\ Len(call.got) \in Nat /\ call.start \in Nat
      /\ (n = 0 <=> call.blk = <<>>)
  BY <1>1, EmptySeq DEF RaType, CallType
<1> HIDE DEF n
<1>4. /\ call.left + Len(call.got) > 0 /\ ra.cursor = call.start + Len(call.got)
      /\ ra.inner_pos = ra.cursor /\ db.rd = ra.cursor + n
      /\ call.left > 0 /\ (Bulk => n <= call.left)
  BY <1>1, <1>2 DEF Counted, Below, n
<1>5. ra.inner_pos + n \in Int /\ ra.inner_pos + n = db.rd
  BY <1>3, <1>4
<1> DEFINE next == IF n = 0 THEN "done" ELSE "ra"
<1>6. next \in {"ra", "done"} /\ (next = "done" <=> n = 0)
  OBVIOUS
<1>7. ASSUME Exact
      PROVE  /\ WindowIsFile /\ SrcSound(src) /\ (db.eos => ~src.err)
             /\ ra.data = Bytes(ra.pos, Len(ra.data))
             /\ call.got = Bytes(call.start, Len(call.got))
             /\ call.blk = Bytes(ra.cursor, n)
             /\ n = 0 => Ended
  BY <1>2, <1>3, <1>7 DEF Exact, Below, n
<1>8. CASE Bulk
  <2>1. /\ ra' = [ra EXCEPT !.inner_pos = @ + n, !.cursor = @ + n]
        /\ call' = [call EXCEPT !.at = next, !.left = @ - n, !.got = @ \o call.blk]
    BY <1>2, <1>8
  <2> HIDE DEF next
  <2>2. /\ call.got \o call.blk \in Seq(Int)
        /\ Len(call.got \o call.blk) = Len(call.got) + n
    BY <1>3, Joined DEF n
  <2>3. call.left - n \in Nat /\ ra.cursor + n \in Nat
    BY <1>3, <1>4, <1>8
  <2>4. /\ ra' \in RaType /\ ra'.cursor = ra.cursor + n /\ ra'.inner_pos = ra.inner_pos + n
        /\ ra'.pos = ra.pos /\ ra'.data = ra.data
    BY <1>1, <1>5, <2>1, <2>3 DEF RaType
  <2>5. /\ call' \in CallType /\ call'.at = next /\ call'.left = call.left - n
        /\ call'.got = call.got \o call.blk /\ call'.start = call.start
    <3>1. next \in {"idle", "ra", "db", "back", "done"}
      BY <1>6
    <3> QED
      BY <1>1, <2>1, <2>2, <2>3, <3>1 DEF CallType
  <2>6. Types' /\ RingSound(db)'
    BY <1>1, <1>2, <2>4, <2>5 DEF Types
  <2>7. Counted'
    <3>1. call'.left + Len(call'.got) > 0 /\ ra'.cursor = call'.start + Len(call'.got)
      <4> DEFINE g == Len(call.got)
      <4>1. /\ g \in Nat /\ call.left \in Nat /\ n \in Nat /\ call.left > 0
            /\ call'.left = call.left - n /\ Len(call'.got) = g + n
            /\ ra'.cursor = ra.cursor + n /\ ra.cursor = call.start + g
            /\ call'.start = call.start /\ call.start \in Nat
        BY <1>3, <1>4, <2>2, <2>4, <2>5
      <4> HIDE DEF g
      <4> QED
        BY <4>1
    <3>2. call'.at = "done" => call'.left > 0
      BY <1>3, <1>4, <1>6, <2>5
    <3>3. ra'.inner_pos = db'.rd /\ ~Below'
      BY <1>2, <1>5, <1>6, <2>4, <2>5 DEF Below
    <3> QED
      BY <3>1, <3>2, <3>3 DEF Counted
  <2>8. ASSUME Exact
        PROVE  Exact'
    <3>1. call'.got = Bytes(call'.start, Len(call'.got))
      <4>1. call.start \in Int /\ call.blk = Bytes(call.start + Len(call.got), Len(call.blk))
        BY <1>3, <1>4, <1>7, <2>8 DEF n
      <4>2. call.got = Bytes(call.start, Len(call.got))
        BY <1>7, <2>8
      <4>3. call.got \o call.blk = Bytes(call.start, Len(call.got \o call.blk))
        BY <1>3, <4>1, <4>2, BytesConcat, Zenon
      <4> QED
        BY <2>5, <4>3
    <3>2. call'.at = "done" => Ended'
      <4>1. SUFFICES ASSUME n = 0
                     PROVE  Ended'
        BY <1>6, <2>5
      <4>2. Ended
        BY <1>7, <2>8, <4>1
      <4>3. ra'.cursor = ra.cursor /\ db' = db
        BY <1>2, <1>3, <2>4, <4>1
      <4> QED
        BY <4>2, <4>3 DEF Ended
    <3>3. call'.at # "back" /\ ~Below'
      BY <1>6, <2>5 DEF Below
    <3>4. WindowIsFile' /\ SrcSound(src)' /\ (db'.eos => ~src'.err)
      BY <1>2, <1>7, <2>8 DEF WindowIsFile
    <3>5. ra'.data = Bytes(ra'.pos, Len(ra'.data))
      BY <1>7, <2>4, <2>8
    <3> QED
      BY <3>1, <3>2, <3>3, <3>4, <3>5 DEF Exact
  <2> QED
    BY <1>1, <1>2, <2>6, <2>7, <2>8 DEF IndInv
<1>9. CASE ~Bulk
  <2>1. /\ ra' = [ra EXCEPT !.pos = ra.cursor, !.data = call.blk, !.inner_pos = @ + n]
        /\ call' = [call EXCEPT !.at = next]
    BY <1>2, <1>9
  <2> HIDE DEF next
  <2>2. /\ ra' \in RaType /\ ra'.cursor = ra.cursor /\ ra'.inner_pos = ra.inner_pos + n
        /\ ra'.pos = ra.cursor /\ ra'.data = call.blk
    <3>1. ra.cursor \in Int /\ call.blk \in Seq(Int) /\ ra.inner_pos + n \in Int
      BY <1>3, <1>5
    <3>2. ra' = [ra EXCEPT !.pos = ra.cursor, !.data = call.blk, !.inner_pos = @ + n]
      BY <2>1
    <3> QED
      BY <1>1, <3>1, <3>2 DEF RaType
  <2>3. /\ call' \in CallType /\ call'.at = next /\ call'.left = call.left
        /\ call'.got = call.got /\ call'.start = call.start
    <3>1. next \in {"idle", "ra", "db", "back", "done"}
      BY <1>6
    <3> QED
      BY <1>1, <2>1, <3>1 DEF CallType
  <2>4. Types' /\ RingSound(db)'
    BY <1>1, <1>2, <2>2, <2>3 DEF Types
  <2>5. Counted'
    <3>1. ra'.inner_pos = db'.rd /\ ~Below'
      BY <1>2, <1>5, <1>6, <2>2, <2>3 DEF Below
    <3> QED
      BY <1>4, <2>2, <2>3, <3>1 DEF Counted
  <2>6. ASSUME Exact
        PROVE  Exact'
    <3>1. call'.got = Bytes(call'.start, Len(call'.got))
      BY <1>7, <2>3, <2>6
    <3>2. call'.at = "done" => Ended'
      BY <1>2, <1>6, <1>7, <2>2, <2>3, <2>6 DEF Ended
    <3>3. call'.at # "back" /\ ~Below'
      BY <1>6, <2>3 DEF Below
    <3>4. WindowIsFile' /\ SrcSound(src)' /\ (db'.eos => ~src'.err)
      BY <1>2, <1>7, <2>6 DEF WindowIsFile
    <3>5. ra'.data = Bytes(ra'.pos, Len(ra'.data))
      BY <1>7, <2>2, <2>6 DEF n
    <3> QED
      BY <3>1, <3>2, <3>3, <3>4, <3>5 DEF Exact
  <2> QED
    BY <1>1, <1>2, <2>4, <2>5, <2>6 DEF IndInv
<1> QED
  BY <1>8, <1>9

\* The codec has its answer.
LEMMA RaDoneInd ==
    ASSUME IndInv, RaDone
    PROVE  IndInv'
<1>1. /\ Types /\ RingSound(db) /\ Counted /\ (~slipped => Exact) /\ call \in CallType
  BY DEF IndInv, Types
<1>2. /\ call.at \in {"ra", "done"} /\ call' = [Idle EXCEPT !.got = call.got]
      /\ src' = src /\ db' = db /\ buf' = buf /\ ra' = ra /\ slipped' = slipped
  BY DEF RaDone, pipe, history
<1>3. call' \in CallType /\ call'.at = "idle"
  <2>1. Idle \in CallType /\ call.got \in Seq(Int) /\ Idle.at = "idle"
    BY <1>1 DEF CallType, Idle
  <2>2. call' = [Idle EXCEPT !.got = call.got]
    BY <1>2
  <2> QED
    BY <2>1, <2>2 DEF CallType
<1>4. Types' /\ RingSound(db)'
  BY <1>1, <1>2, <1>3 DEF Types
<1>5. Counted'
  BY <1>1, <1>2, <1>3 DEF Counted, Below
<1>6. ASSUME Exact
      PROVE  Exact'
  BY <1>2, <1>3, <1>6 DEF Exact, WindowIsFile, Below
<1> QED
  BY <1>1, <1>2, <1>4, <1>5, <1>6 DEF IndInv

\* A seek moves the shim alone.
LEMMA SeekSetInd ==
    ASSUME IndInv, NEW t \in Targets, SeekSet(t)
    PROVE  IndInv'
<1>1. /\ Types /\ RingSound(db) /\ Counted /\ (~slipped => Exact)
      /\ ra \in RaType /\ t \in Nat
  BY Constants DEF IndInv, Types
<1>2. /\ call.at = "idle" /\ ra' = [ra EXCEPT !.cursor = t]
      /\ src' = src /\ db' = db /\ buf' = buf /\ call' = call /\ slipped' = slipped
  BY DEF SeekSet
<1>3. /\ ra' \in RaType /\ ra'.inner_pos = ra.inner_pos
      /\ ra'.pos = ra.pos /\ ra'.data = ra.data
  BY <1>1, <1>2 DEF RaType
<1>4. Types' /\ RingSound(db)'
  BY <1>1, <1>2, <1>3 DEF Types
<1>5. Counted'
  BY <1>1, <1>2, <1>3 DEF Counted, Below
<1>6. ASSUME Exact
      PROVE  Exact'
  BY <1>2, <1>3, <1>6 DEF Exact, WindowIsFile, Below
<1> QED
  BY <1>1, <1>2, <1>4, <1>5, <1>6 DEF IndInv

\* A seek from the end moves every layer, and empties the window.
LEMMA SeekEndInd ==
    ASSUME IndInv, NEW t \in Targets, SeekEnd(t)
    PROVE  IndInv'
<1>1. /\ Types /\ RingSound(db) /\ Counted /\ (~slipped => Exact)
      /\ ra \in RaType /\ db \in DbType /\ src \in SrcType /\ t \in Nat /\ t \in Int
      /\ Cap \in Nat
  BY Constants DEF IndInv, Types
<1>2. /\ call.at = "idle" /\ ra' = [ra EXCEPT !.cursor = t, !.inner_pos = t]
      /\ src' = [src EXCEPT !.pos = t]
      /\ db' = [db EXCEPT !.inner_pos = t, !.lo = t, !.wr = t, !.rd = t]
      /\ buf' = buf /\ call' = call /\ slipped' = slipped
  BY DEF SeekEnd
<1>3. /\ ra' \in RaType /\ ra'.inner_pos = t
      /\ ra'.pos = ra.pos /\ ra'.data = ra.data
  BY <1>1, <1>2 DEF RaType
<1>4. /\ src' \in SrcType /\ src'.err = src.err /\ (SrcSound(src) => SrcSound(src'))
  <2>1. src' = [src EXCEPT !.pos = t]
    BY <1>2
  <2>2. /\ src' \in SrcType /\ src'.err = src.err /\ src'.st = src.st /\ src'.phys = src.phys
        /\ src'.ck = src.ck
    BY <1>1, <2>1 DEF SrcType
  <2> QED
    BY <2>2 DEF SrcSound
<1>5. /\ db' \in DbType /\ db'.lo = t /\ db'.wr = t /\ db'.rd = t /\ db'.eos = db.eos
  <2>1. db' = [db EXCEPT !.inner_pos = t, !.lo = t, !.wr = t, !.rd = t]
    BY <1>2
  <2> QED
    BY <1>1, <2>1 DEF DbType
<1>6. RingSound(db')
  BY <1>1, <1>5 DEF RingSound
<1>7. Types'
  BY <1>1, <1>2, <1>3, <1>4, <1>5 DEF Types
<1>8. Counted'
  BY <1>1, <1>2, <1>3, <1>5 DEF Counted, Below
<1>9. ASSUME Exact
      PROVE  Exact'
  <2>1. WindowIsFile'
    <3>1. \A o \in db'.lo .. db'.wr - 1 : FALSE
      BY <1>1, <1>5
    <3> QED
      BY <3>1 DEF WindowIsFile
  <2> QED
    BY <1>2, <1>3, <1>4, <1>5, <1>9, <2>1 DEF Exact, Below
<1> QED
  BY <1>1, <1>2, <1>6, <1>7, <1>8, <1>9 DEF IndInv

\* The pump works between two reads of the codec: what it may do to the flags
\* of the ring does not matter.
LEMMA PumpFrame ==
    ASSUME IndInv, call.at = "idle", ra' = ra, call' = call, slipped' \in BOOLEAN,
           src' \in SrcType, db' \in DbType, buf' \in [0 .. Cap - 1 -> Int],
           RingSound(db'), db'.rd = db.rd,
           ~slipped' => /\ ~slipped
                        /\ Exact => WindowIsFile' /\ SrcSound(src') /\ (db'.eos => ~src'.err)
    PROVE  IndInv'
<1>1. Types /\ Counted /\ (~slipped => Exact)
  BY DEF IndInv
<1>2. Types'
  BY <1>1 DEF Types
<1>3. Counted'
  BY <1>1 DEF Counted, Below
<1>4. ASSUME ~slipped'
      PROVE  Exact'
  BY <1>1, <1>4 DEF Exact, Below
<1> QED
  BY <1>2, <1>3, <1>4 DEF IndInv

\* A burst is over.
LEMMA PumpRestInd ==
    ASSUME IndInv, PumpRest
    PROVE  IndInv'
<1>1. Types /\ RingSound(db) /\ db \in DbType /\ slipped \in BOOLEAN
  BY DEF IndInv, Types
<1>2. /\ call.at = "idle" /\ db' = [db EXCEPT !.filling = FALSE]
      /\ src' = src /\ buf' = buf /\ ra' = ra /\ call' = call /\ slipped' = slipped
  BY DEF PumpRest, history
<1>3. /\ db' \in DbType /\ db'.lo = db.lo /\ db'.wr = db.wr /\ db'.rd = db.rd
      /\ db'.eos = db.eos
  BY <1>1, <1>2 DEF DbType
<1>4. RingSound(db')
  BY <1>1, <1>3 DEF RingSound
<1>5. Exact => WindowIsFile' /\ SrcSound(src') /\ (db'.eos => ~src'.err)
  BY <1>2, <1>3 DEF Exact, WindowIsFile
<1>6. src' \in SrcType /\ buf' \in [0 .. Cap - 1 -> Int] /\ slipped' \in BOOLEAN
  BY <1>1, <1>2 DEF Types
<1>7. ~slipped' => ~slipped
  BY <1>2
<1> QED
  BY <1>2, <1>3, <1>4, <1>5, <1>6, <1>7, PumpFrame

\* A burst goes on, or gives up.
LEMMA PumpBurstInd ==
    ASSUME IndInv, PumpBurst
    PROVE  IndInv'
<1>1. /\ Types /\ RingSound(db) /\ db \in DbType /\ slipped \in BOOLEAN
      /\ Chunk \in Nat \ {0}
  BY Constants DEF IndInv, Types
<1>2. /\ call.at = "idle" /\ ~db.eos /\ ra' = ra /\ call' = call
  BY DEF PumpBurst, BurstOver
<1>3. PICK r \in Fetched(Chunk) :
          Takes(r, Fetched(Chunk)) /\ db' = GivesUp(r) /\ slipped' = (slipped \/ r.slip)
  BY DEF PumpBurst
<1>4. src' = r.src /\ buf' = r.buf
  BY <1>3 DEF Takes
<1>5. r.db \in DbType /\ r.slip \in BOOLEAN
  BY <1>1, FetchedFacts
<1>6. /\ db' \in DbType /\ db'.lo = r.db.lo /\ db'.wr = r.db.wr /\ db'.rd = r.db.rd
      /\ db'.eos = r.db.eos
  <2>1. CASE db' = r.db
    BY <1>5, <2>1
  <2>2. CASE db' = [r.db EXCEPT !.err = TRUE, !.filling = FALSE]
    BY <1>5, <2>2 DEF DbType
  <2> QED
    BY <1>3, <2>1, <2>2 DEF GivesUp
<1>7. /\ src' \in SrcType /\ buf' \in [0 .. Cap - 1 -> Int]
      /\ RingSound(db') /\ db'.rd = db.rd
      /\ /\ Exact /\ ~r.slip /\ ~(db.eos /\ r.bad /\ r.n = 0)
         => WindowIsFile' /\ SrcSound(src') /\ (db'.eos => ~src'.err)
  BY <1>1, <1>4, <1>6, FetchKeeps
<1>8. slipped' \in BOOLEAN
  BY <1>3
<1>9. ~slipped' => ~slipped /\ ~r.slip
  BY <1>3
<1> QED
  BY <1>2, <1>6, <1>7, <1>8, <1>9, PumpFrame

\* A burst begins.
LEMMA PumpWakeInd ==
    ASSUME IndInv, PumpWake
    PROVE  IndInv'
<1>1. /\ Types /\ RingSound(db) /\ db \in DbType /\ slipped \in BOOLEAN
      /\ Chunk \in Nat \ {0}
  BY Constants DEF IndInv, Types
<1>2. /\ call.at = "idle" /\ ~db.eos /\ ra' = ra /\ call' = call
  BY DEF PumpWake
<1>3. PICK r \in Fetched(Chunk) :
          /\ Takes(r, Fetched(Chunk)) /\ db' = [r.db EXCEPT !.filling = TRUE]
          /\ slipped' = (slipped \/ r.slip)
  BY DEF PumpWake
<1>4. src' = r.src /\ buf' = r.buf
  BY <1>3 DEF Takes
<1>5. r.db \in DbType /\ r.slip \in BOOLEAN
  BY <1>1, FetchedFacts
<1>6. /\ db' \in DbType /\ db'.lo = r.db.lo /\ db'.wr = r.db.wr /\ db'.rd = r.db.rd
      /\ db'.eos = r.db.eos
  <2>1. db' = [r.db EXCEPT !.filling = TRUE]
    BY <1>3
  <2> QED
    BY <1>5, <2>1 DEF DbType
<1>7. /\ src' \in SrcType /\ buf' \in [0 .. Cap - 1 -> Int]
      /\ RingSound(db') /\ db'.rd = db.rd
      /\ /\ Exact /\ ~r.slip /\ ~(db.eos /\ r.bad /\ r.n = 0)
         => WindowIsFile' /\ SrcSound(src') /\ (db'.eos => ~src'.err)
  BY <1>1, <1>4, <1>6, FetchKeeps
<1>8. slipped' \in BOOLEAN
  BY <1>3
<1>9. ~slipped' => ~slipped /\ ~r.slip
  BY <1>3
<1> QED
  BY <1>2, <1>6, <1>7, <1>8, <1>9, PumpFrame

\* A step that leaves the chain, the read and the slips alone.
LEMMA StillInd ==
    ASSUME IndInv, UNCHANGED <<src, db, buf, ra, call, slipped>>
    PROVE  IndInv'
<1>1. Types' /\ RingSound(db)'
  BY DEF IndInv, Types
<1>2. Counted'
  BY DEF IndInv, Counted, Below, Bulk
<1>3. ~slipped => Exact'
  BY DEF IndInv, Exact, WindowIsFile, Below, Ended
<1> QED
  BY <1>1, <1>2, <1>3 DEF IndInv

\* Every step of the chain, and a stutter.
LEMMA StepInd ==
    ASSUME IndInv, [Next]_vars
    PROVE  IndInv'
<1>1. CASE Pump
  BY <1>1, PumpRestInd, PumpBurstInd, PumpWakeInd DEF Pump
<1>2. CASE Reading
  BY <1>2, RaServeInd, RaAskInd, DbServeInd, DbFetchInd, DbDoneInd, RaTakeInd, RaDoneInd
     DEF Reading
<1>3. CASE Asking
  BY <1>3, AskInd DEF Asking
<1>4. CASE Dies
  BY <1>4, StillInd DEF Dies, pipe
<1>5. CASE \E t \in Targets : SeekSet(t) \/ SeekEnd(t)
  BY <1>5, SeekSetInd, SeekEndInd
<1>6. CASE UNCHANGED vars
  BY <1>6, StillInd DEF vars, pipe, history
<1> QED
  BY <1>1, <1>2, <1>3, <1>4, <1>5, <1>6 DEF Next

\* The specification without its fairness.
LEMMA Steps == Spec => Init /\ [][Next]_vars
BY PTL DEF Spec

(* The inductive invariant: at every moment the layers agree on where the   *)
(* next byte is, the ring holds its window, and until a failure slips       *)
(* through every byte in the ring, the shim and the codec's buffer is the   *)
(* file's.                                                                  *)
THEOREM Invariance == Spec => []IndInv
<1>1. Init => IndInv
  BY InitInd
<1>2. IndInv /\ [Next]_vars => IndInv'
  BY StepInd
<1> QED
  BY <1>1, <1>2, Steps, PTL

-----------------------------------------------------------------------------
(* What diskbuf.h says of the ring, for any capacity, watermarks and chunks: *)
(* the window lies in it and round the cursor, every slot of it holds the    *)
(* byte of its own offset, and the shim knows where the buffer stands.       *)
THEOREM WindowIsSound == Spec => []WindowSound
<1>1. IndInv => WindowSound
  <2> SUFFICES ASSUME IndInv
               PROVE  WindowSound
    OBVIOUS
  <2>1. db.lo <= db.rd /\ db.rd <= db.wr /\ db.wr <= db.lo + Cap
    BY DEF IndInv, RingSound
  <2>2. ~slipped => WindowIsFile /\ (src.st # Dead => src.st = src.phys)
    BY DEF IndInv, Exact, SrcSound
  <2>3. call.at # "db" /\ call.at # "back" /\ ra.inner_pos # Unknown =>
            ra.inner_pos = db.rd
    BY DEF IndInv, Counted, Below
  <2> QED
    BY <2>1, <2>2, <2>3 DEF WindowSound
<1> QED
  BY <1>1, Invariance, PTL

-----------------------------------------------------------------------------
(* The chain implements the source of decoder.h.  Its variables, as the      *)
(* chain computes them: where a read starts, how much it asks for, and what  *)
(* the codec is given.                                                       *)
Start == IF call.at = "idle" THEN ra.cursor ELSE call.start
Wanted == IF call.at = "idle" THEN 0 ELSE call.left + Len(call.got)
Given == IF call.at = "idle" THEN call.got ELSE <<>>

\* A step that a user of the source does not see.
LEMMA Unseen ==
    ASSUME UNCHANGED <<Start, Wanted, Given>>, db'.err = db.err, slipped' = slipped
    PROVE  [Source!Next]_Source!vars
BY DEF Source!vars, Start, Wanted, Given

\* A step in which a failure is latched or lost.
LEMMA FaultMaps ==
    ASSUME UNCHANGED <<Start, Wanted, Given>>,
           db'.err = db.err \/ db'.err = TRUE,
           slipped' = slipped \/ slipped' = TRUE
    PROVE  [Source!Next]_Source!vars
<1>1. CASE slipped' = TRUE
  <2>1. Source!Break
    <3>1. (~slipped') = FALSE
      BY <1>1
    <3>2. db'.err \in {db.err, TRUE}
      OBVIOUS
    <3> QED
      BY <3>1, <3>2 DEF Source!Break, Start, Wanted, Given
  <2> QED
    BY <2>1 DEF Source!Next
<1>2. CASE slipped' = slipped /\ db'.err = TRUE
  <2>1. Source!Fail
    BY <1>2 DEF Source!Fail, Start, Wanted, Given
  <2> QED
    BY <2>1 DEF Source!Next
<1>3. CASE slipped' = slipped /\ db'.err = db.err
  BY <1>3, Unseen
<1> QED
  BY <1>1, <1>2, <1>3

\* The chain starts as a source does.
LEMMA InitMaps == Init => Source!Init
BY DEF Init, Idle, Source!Init

\* A question to the shim is one to the source.
LEMMA AskMaps ==
    ASSUME NEW n \in Reads, Ask(n)
    PROVE  [Source!Next]_Source!vars
<1>1. /\ call.at = "idle"
      /\ call'.at = "ra" /\ call'.start = ra.cursor /\ call'.left = n /\ call'.got = <<>>
      /\ db' = db /\ slipped' = slipped /\ n + 0 = n
  BY Constants DEF Ask, pipe, history
<1>2. Start' = Start /\ Wanted = 0 /\ Wanted' = n /\ Given' = <<>>
  <2>1. Len(<<>>) = 0
    OBVIOUS
  <2> QED
    BY <1>1, <2>1 DEF Start, Wanted, Given
<1>3. Source!Ask(n)
  BY <1>1, <1>2 DEF Source!Ask, Start, Wanted, Given
<1> QED
  BY <1>3 DEF Source!Next

\* A read is answered with the bytes at its start, and with fewer than it
\* asked for only at the end of the file or when an error is latched.
LEMMA AnswerMaps ==
    ASSUME IndInv, RaDone
    PROVE  [Source!Next]_Source!vars
<1> DEFINE len == Len(call.got)
<1>1. Types /\ Counted /\ (~slipped => Exact) /\ call \in CallType /\ ra \in RaType
  BY DEF IndInv, Types
<1>2. /\ call.at = "done" \/ (call.at = "ra" /\ call.left = 0)
      /\ call' = [Idle EXCEPT !.got = call.got]
      /\ db' = db /\ ra' = ra /\ slipped' = slipped
  BY DEF RaDone, pipe, history
<1>3. call'.at = "idle" /\ call'.got = call.got
  BY <1>2 DEF Idle
<1>4. call.left \in Nat /\ len \in Nat /\ call.start \in Nat
  BY <1>1 DEF CallType
<1>5. /\ call.left + len > 0 /\ ra.cursor = call.start + len
  BY <1>1, <1>2 DEF Counted
<1>6. Start = call.start /\ Wanted = call.left + len
  BY <1>2 DEF Start, Wanted
<1>7. Start' = call.start + len /\ Wanted' = 0 /\ Given' = call.got
  BY <1>2, <1>3, <1>5 DEF Start, Wanted, Given
<1>8. ASSUME ~slipped
      PROVE  \E k \in 0 .. Wanted : /\ Given' = Bytes(Start, k) /\ Start' = Start + k
                                    /\ k < Wanted => db.err \/ Start' >= FileLen
  <2>1. call.got = Bytes(call.start, len) /\ (call.at = "done" => Ended)
    BY <1>1, <1>2, <1>8 DEF Exact
  <2> HIDE DEF len
  <2>2. len \in 0 .. Wanted /\ (len < Wanted => call.left # 0)
    BY <1>4, <1>6
  <2>3. Given' = Bytes(Start, len) /\ Start' = Start + len
    BY <1>6, <1>7, <2>1
  <2>4. len < Wanted => db.err \/ Start' >= FileLen
    BY <1>2, <1>5, <1>7, <2>1, <2>2 DEF Ended
  <2> QED
    BY <2>2, <2>3, <2>4
<1>9. Wanted > 0
  BY <1>5, <1>6
<1>10. Source!Answer
  <2>1. \A a, k : Source!Bytes(a, k) = Bytes(a, k)
    BY DEF Source!Bytes, Bytes
  <2>2. db'.err = db.err /\ (~slipped') = ~slipped
    BY <1>2
  <2>3. ~slipped => \E k \in 0 .. Wanted : /\ Given' = Source!Bytes(Start, k)
                                           /\ Start' = Start + k
                                           /\ k < Wanted => db.err \/ Start' >= FileLen
    BY <1>8, <2>1
  <2> QED
    BY <1>7, <1>9, <2>2, <2>3 DEF Source!Answer, Start, Wanted, Given
<1> QED
  BY <1>10 DEF Source!Next

\* Either seek is a seek of the source.
LEMMA SeekMaps ==
    ASSUME IndInv, NEW t \in Targets, SeekSet(t) \/ SeekEnd(t)
    PROVE  [Source!Next]_Source!vars
<1>1. ra \in RaType /\ db \in DbType /\ t \in Nat /\ t \in Int
  BY Constants DEF IndInv, Types
<1>2. call.at = "idle" /\ call' = call /\ slipped' = slipped
  BY DEF SeekSet, SeekEnd
<1>3. ra'.cursor = t
  <2>1. CASE ra' = [ra EXCEPT !.cursor = t]
    BY <1>1, <2>1 DEF RaType
  <2>2. CASE ra' = [ra EXCEPT !.cursor = t, !.inner_pos = t]
    BY <1>1, <2>2 DEF RaType
  <2> QED
    BY <2>1, <2>2 DEF SeekSet, SeekEnd
<1>4. db'.err = db.err
  <2>1. CASE db' = db
    BY <2>1
  <2>2. CASE db' = [db EXCEPT !.inner_pos = t, !.lo = t, !.wr = t, !.rd = t]
    BY <1>1, <2>2 DEF DbType
  <2> QED
    BY <2>1, <2>2 DEF SeekSet, SeekEnd
<1>5. Source!Seek(t)
  BY <1>2, <1>3, <1>4 DEF Source!Seek
<1> QED
  BY <1>5 DEF Source!Next

\* Serving, asking below and taking the answer move bytes that the codec has
\* not been given yet.
LEMMA ReadingMaps ==
    ASSUME IndInv, Reading
    PROVE  [Source!Next]_Source!vars
<1>1. /\ Types /\ RingSound(db) /\ Counted /\ call \in CallType /\ ra \in RaType /\ db \in DbType
      /\ SyncChunk \in Nat \ {0}
  BY Constants DEF IndInv, Types
<1>2. /\ call.left \in Nat /\ call.got \in Seq(Int) /\ Len(call.got) \in Nat /\ call.blk \in Seq(Int)
  BY <1>1 DEF CallType
<1>3. CASE RaServe
  <2> DEFINE off == ra.cursor - ra.pos
             n == Lesser(call.left, Len(ra.data) - off)
             part == SubSeq(ra.data, off + 1, off + n)
  <2>1. /\ call.at = "ra" /\ call.left > 0 /\ ra.pos <= ra.cursor
        /\ ra.cursor < ra.pos + Len(ra.data)
        /\ call' = [call EXCEPT !.left = @ - n, !.got = @ \o part]
        /\ db' = db /\ slipped' = slipped
    BY <1>3 DEF RaServe, InWindow, history
  <2>2. part \in Seq(Int) /\ Len(part) = n /\ n \in Nat
    <3> DEFINE len == Len(ra.data)
    <3>1. ra.cursor \in Nat /\ ra.pos \in Int /\ ra.data \in Seq(Int) /\ len \in Nat
      BY <1>1 DEF RaType
    <3> HIDE DEF len
    <3>2. off \in Nat /\ len - off \in Nat
      <4>1. ra.pos <= ra.cursor /\ ra.cursor < ra.pos + len
        BY <2>1 DEF len
      <4> QED
        BY <3>1, <4>1
    <3> HIDE DEF off
    <3>3. Lesser(call.left, len - off) \in Nat /\ Lesser(call.left, len - off) <= len - off
      BY <1>2, <3>1, <3>2 DEF Lesser
    <3>4. n = Lesser(call.left, len - off)
      BY DEF len
    <3> HIDE DEF n
    <3>5. n \in Nat /\ off + n <= len
      BY <3>1, <3>2, <3>3, <3>4
    <3>6. off + n <= Len(ra.data)
      BY <3>5 DEF len
    <3>7. ra.data \in Seq(Int) /\ off \in Nat
      BY <3>1, <3>2
    <3> QED
      BY <3>5, <3>6, <3>7, PartOf
  <2> HIDE DEF n, part
  <2>3. Len(call.got \o part) = Len(call.got) + n
    BY <1>2, <2>2, Joined
  <2>4. /\ call'.at = "ra" /\ call'.left = call.left - n /\ call'.got = call.got \o part
        /\ call'.start = call.start
    BY <1>1, <2>1 DEF CallType
  <2>5. call'.left + Len(call'.got) = call.left + Len(call.got)
    BY <1>2, <2>2, <2>3, <2>4
  <2> QED
    BY <2>1, <2>4, <2>5, Unseen DEF Start, Wanted, Given
<1>4. CASE RaAsk
  <2>1. /\ call.at = "ra" /\ slipped' = slipped
        /\ db' = IF ra.inner_pos = ra.cursor THEN db ELSE Sought(db, ra.cursor)
        /\ call'.at = "db" /\ call'.left = call.left /\ call'.got = call.got
        /\ call'.start = call.start
    BY <1>1, <1>4 DEF RaAsk, CallType, history
  <2>2. db'.err = db.err
    <3>1. CASE db' = db
      BY <3>1
    <3>2. CASE db' = [db EXCEPT !.rd = ra.cursor]
      BY <1>1, <3>2 DEF DbType
    <3>3. CASE db' = [db EXCEPT !.lo = ra.cursor, !.wr = ra.cursor, !.rd = ra.cursor, !.eos = FALSE]
      BY <1>1, <3>3 DEF DbType
    <3> QED
      BY <2>1, <3>1, <3>2, <3>3 DEF Sought
  <2> QED
    BY <2>1, <2>2, Unseen DEF Start, Wanted, Given
<1>5. CASE DbServe
  <2> DEFINE n == Lesser(call.want - Len(call.blk), db.wr - db.rd)
             part == [i \in 1 .. n |-> buf[(db.rd + i - 1) % Cap]]
  <2>1. /\ call.at = "db" /\ slipped' = slipped
        /\ db' = [db EXCEPT !.rd = @ + n]
        /\ call' = [call EXCEPT !.blk = @ \o part]
    BY <1>5 DEF DbServe, history
  <2> HIDE DEF n, part
  <2>2. /\ db'.err = db.err /\ call'.at = "db" /\ call'.left = call.left /\ call'.got = call.got
        /\ call'.start = call.start
    BY <1>1, <2>1 DEF CallType, DbType
  <2> QED
    BY <2>1, <2>2, Unseen DEF Start, Wanted, Given
<1>6. CASE DbFetch
  <2>1. PICK r \in Fetched(SyncChunk) :
            LET ends == r.n = 0 /\ ~r.db.eos
            IN  /\ db' = IF ends THEN [r.db EXCEPT !.err = TRUE] ELSE r.db
                /\ slipped' = (slipped \/ r.slip \/ (r.bad /\ r.n = 0 /\ r.db.eos))
                /\ call' = IF r.n = 0 THEN [call EXCEPT !.at = "back"] ELSE call
    BY <1>6 DEF DbFetch
  <2>2. r.db \in DbType /\ r.db.err = db.err
    BY <1>1, FetchedFacts
  <2>3. db'.err = db.err \/ db'.err = TRUE
    <3>1. CASE db' = r.db
      BY <2>2, <3>1
    <3>2. CASE db' = [r.db EXCEPT !.err = TRUE]
      BY <2>2, <3>2 DEF DbType
    <3> QED
      BY <2>1, <3>1, <3>2
  <2>4. slipped' = slipped \/ slipped' = TRUE
    <3>1. slipped \in BOOLEAN
      BY <1>1 DEF Types
    <3> QED
      BY <2>1, <3>1
  <2>5. /\ call.at = "db" /\ call'.at \in {"db", "back"}
        /\ call'.left = call.left /\ call'.got = call.got /\ call'.start = call.start
    <3>1. call.at = "db"
      BY <1>6 DEF DbFetch
    <3>2. CASE call' = call
      BY <3>1, <3>2
    <3>3. CASE call' = [call EXCEPT !.at = "back"]
      BY <1>1, <3>1, <3>3 DEF CallType
    <3> QED
      BY <2>1, <3>2, <3>3
  <2>6. UNCHANGED <<Start, Wanted, Given>>
    BY <2>5 DEF Start, Wanted, Given
  <2> QED
    BY <2>3, <2>4, <2>6, FaultMaps
<1>7. CASE DbDone
  <2>1. /\ call.at = "db" /\ db' = db /\ slipped' = slipped
        /\ call'.at = "back" /\ call'.left = call.left /\ call'.got = call.got
        /\ call'.start = call.start
    BY <1>1, <1>7 DEF DbDone, CallType, pipe, history
  <2> QED
    BY <2>1, Unseen DEF Start, Wanted, Given
<1>8. CASE RaTake
  <2> DEFINE n == Len(call.blk)
             next == IF n = 0 THEN "done" ELSE "ra"
  <2>1. call.at = "back" /\ db' = db /\ slipped' = slipped
    BY <1>8 DEF RaTake, history
  <2>2. n \in Nat
    BY <1>2
  <2> HIDE DEF n
  <2>3. next # "idle"
    OBVIOUS
  <2>4. CASE Bulk
    <3>1. call' = [call EXCEPT !.at = next, !.left = @ - n, !.got = @ \o call.blk]
      BY <1>8, <2>4 DEF RaTake, n
    <3> HIDE DEF next
    <3>2. Len(call.got \o call.blk) = Len(call.got) + n
      BY <1>2, Joined DEF n
    <3>3. /\ call'.at = next /\ call'.left = call.left - n /\ call'.got = call.got \o call.blk
          /\ call'.start = call.start
      BY <1>1, <3>1 DEF CallType
    <3>4. call'.left + Len(call'.got) = call.left + Len(call.got)
      <4> DEFINE g == Len(call.got)
      <4>1. g \in Nat /\ call.left \in Nat /\ n \in Nat
        BY <1>2, <2>2
      <4>2. call'.left = call.left - n /\ Len(call'.got) = g + n
        BY <3>2, <3>3
      <4> HIDE DEF g
      <4>3. call'.left + Len(call'.got) = call.left + g
        BY <4>1, <4>2
      <4> QED
        BY <4>3 DEF g
    <3> QED
      BY <2>1, <2>3, <3>3, <3>4, Unseen DEF Start, Wanted, Given
  <2>5. CASE ~Bulk
    <3>1. call' = [call EXCEPT !.at = next]
      BY <1>8, <2>5 DEF RaTake, n
    <3> HIDE DEF next
    <3>2. /\ call'.at = next /\ call'.left = call.left /\ call'.got = call.got
          /\ call'.start = call.start
      BY <1>1, <3>1 DEF CallType
    <3> QED
      BY <2>1, <2>3, <3>2, Unseen DEF Start, Wanted, Given
  <2> QED
    BY <2>4, <2>5
<1>9. CASE RaDone
  BY <1>9, AnswerMaps
<1> QED
  BY <1>3, <1>4, <1>5, <1>6, <1>7, <1>8, <1>9 DEF Reading

\* The pump is unseen, or latches or loses a failure.
LEMMA PumpMaps ==
    ASSUME IndInv, Pump
    PROVE  [Source!Next]_Source!vars
<1>1. /\ Types /\ RingSound(db) /\ db \in DbType /\ slipped \in BOOLEAN
      /\ Chunk \in Nat \ {0}
  BY Constants DEF IndInv, Types
<1>2. call.at = "idle" /\ ra' = ra /\ call' = call
  BY DEF Pump, PumpRest, PumpBurst, PumpWake
<1>3. UNCHANGED <<Start, Wanted, Given>>
  BY <1>2 DEF Start, Wanted, Given
<1>4. CASE PumpRest
  <2>1. db'.err = db.err /\ slipped' = slipped
    BY <1>1, <1>4 DEF PumpRest, DbType, history
  <2> QED
    BY <1>3, <2>1, Unseen
<1>5. CASE PumpBurst
  <2>1. PICK r \in Fetched(Chunk) : db' = GivesUp(r) /\ slipped' = (slipped \/ r.slip)
    BY <1>5 DEF PumpBurst
  <2>2. r.db \in DbType /\ r.db.err = db.err
    BY <1>1, FetchedFacts
  <2>3. db'.err = db.err \/ db'.err = TRUE
    <3>1. CASE db' = r.db
      BY <2>2, <3>1
    <3>2. CASE db' = [r.db EXCEPT !.err = TRUE, !.filling = FALSE]
      BY <2>2, <3>2 DEF DbType
    <3> QED
      BY <2>1, <3>1, <3>2 DEF GivesUp
  <2>4. slipped' = slipped \/ slipped' = TRUE
    BY <1>1, <2>1
  <2> QED
    BY <1>3, <2>3, <2>4, FaultMaps
<1>6. CASE PumpWake
  <2>1. PICK r \in Fetched(Chunk) :
            db' = [r.db EXCEPT !.filling = TRUE] /\ slipped' = (slipped \/ r.slip)
    BY <1>6 DEF PumpWake
  <2>2. r.db \in DbType /\ r.db.err = db.err
    BY <1>1, FetchedFacts
  <2>3. db'.err = db.err
    BY <2>1, <2>2 DEF DbType
  <2>4. slipped' = slipped \/ slipped' = TRUE
    BY <1>1, <2>1
  <2> QED
    BY <1>3, <2>3, <2>4, FaultMaps
<1> QED
  BY <1>4, <1>5, <1>6 DEF Pump

\* Every step of the chain is a step of the source, or unseen.
LEMMA StepMaps ==
    ASSUME IndInv, [Next]_vars
    PROVE  [Source!Next]_Source!vars
<1>1. CASE Pump
  BY <1>1, PumpMaps
<1>2. CASE Reading
  BY <1>2, ReadingMaps
<1>3. CASE Asking
  BY <1>3, AskMaps DEF Asking
<1>4. CASE Dies
  BY <1>4, Unseen DEF Dies, pipe, Start, Wanted, Given
<1>5. CASE \E t \in Targets : SeekSet(t) \/ SeekEnd(t)
  BY <1>5, SeekMaps
<1>6. CASE UNCHANGED vars
  BY <1>6, Unseen DEF vars, pipe, history, Start, Wanted, Given
<1> QED
  BY <1>1, <1>2, <1>3, <1>4, <1>5, <1>6 DEF Next

(* The chain keeps the promise of decoder.h: whatever its layers do lazily,  *)
(* evict, retry, rewind or fail at, a read delivers the bytes at the cursor, *)
(* and falls short only at the end of the file or with an error latched,     *)
(* until a failure slips through.                                            *)
THEOREM RefinesSource == Spec => ImplementsSource
<1>1. Init => Source!Init
  BY InitMaps
<1>2. IndInv /\ [Next]_vars => [Source!Next]_Source!vars
  BY StepMaps
<1>3. Spec => Source!Init /\ [][Source!Next]_Source!vars
  BY <1>1, <1>2, Invariance, Steps, PTL
<1> QED
  BY <1>3, PTL DEF ImplementsSource, Source!Spec
=============================================================================
