---------------------------- MODULE AudioProofs ----------------------------
(***************************************************************************)
(* The two carriers of the audio path: the ring between the decode loop    *)
(* and the completion ISR, and the DMA output the ISR feeds.               *)
(*                                                                         *)
(* The ring keeps the stream in order for every capacity, every index      *)
(* width that is a multiple of it and every interleaving, and implements   *)
(* the abstract FrameFifo.  The argument is one inductive invariant,       *)
(* IndInv; the wrap of the indices and the masking into slots are dealt    *)
(* with once, in the three lemmas below.                                   *)
(*                                                                         *)
(* The output is safe for every pattern of calls, and loses, repeats and   *)
(* swaps no frame under the gentle one; its invariant is HalInv.           *)
(***************************************************************************)
EXTENDS PcmRing, AudioHal, ModLemmas

USE CapAssumption, LapsAssumption, MaxFramesAssumption

\* The index type holds more values than the ring has slots.
LEMMA WordType == Word \in Nat \ {0} /\ Cap < Word
<1>1. Laps * Cap >= 2 * Cap
  OBVIOUS
<1> QED
  BY <1>1 DEF Word

\* Masking a wrapped counter finds the slot of the counter.
LEMMA SlotOf ==
    ASSUME NEW a \in Nat, NEW i \in Nat
    PROVE  Slot(a % Word, i) = (a + i) % Cap
<1> DEFINE w == a % Word
<1>0. a \in Int /\ i \in Int
  OBVIOUS
<1>1. w % Cap = a % Cap
  BY <1>0, ModOfMultiple DEF Word
<1>2. w \in Int
  BY WordType
<1> HIDE DEF w
<1>3. ((w % Cap) + i) % Cap = (w + i) % Cap
  BY <1>0, <1>2, ModAdd
<1>4. ((a % Cap) + i) % Cap = (a + i) % Cap
  BY <1>0, ModAdd
<1>5. (w + i) % Cap = (a + i) % Cap
  BY <1>1, <1>3, <1>4
<1> QED
  BY <1>5 DEF Slot, w

\* Publishing advances the wrapped counter like the counter.
LEMMA AddOf ==
    ASSUME NEW a \in Nat, NEW n \in Nat
    PROVE  Add(a % Word, n) = (a + n) % Word
<1>1. a \in Int /\ n \in Int
  OBVIOUS
<1> QED
  BY <1>1, WordType, ModAdd DEF Add

\* The difference of the two words is the difference of the counters.
LEMMA SubOf ==
    ASSUME NEW a \in Nat, NEW b \in Nat, a - b \in 0 .. Cap
    PROVE  Sub(a % Word, b % Word) = a - b
<1>1. a \in Int /\ b \in Int /\ a - b \in 0 .. Word - 1
  BY WordType
<1> QED
  BY <1>1, WordType, ModDistance DEF Sub

\* A wrapped counter is an index.
LEMMA IndexType ==
    ASSUME NEW k \in Int
    PROVE  k % Word \in Indices
BY WordType, Division DEF Indices

\* A remainder is a slot.
LEMMA SlotType ==
    ASSUME NEW k \in Int
    PROVE  k % Cap \in Slots
BY Division DEF Slots

-----------------------------------------------------------------------------
\* A call that has copied one frame more is still a call record.
LEMMA CallType ==
    ASSUME NEW c \in [busy : BOOLEAN, n : 0 .. Cap, i : 0 .. Cap],
           NEW x \in 0 .. Cap
    PROVE  [c EXCEPT !.i = x] \in [busy : BOOLEAN, n : 0 .. Cap, i : 0 .. Cap]
OBVIOUS

\* Appending puts the element last.
LEMMA AppendLast ==
    ASSUME NEW S, NEW s \in Seq(S), NEW e \in S
    PROVE  Append(s, e)[Len(s) + 1] = e
OBVIOUS

\* Appending leaves the earlier elements alone.
LEMMA AppendKeeps ==
    ASSUME NEW S, NEW s \in Seq(S), NEW e \in S, NEW k \in 1 .. Len(s)
    PROVE  Append(s, e)[k] = s[k]
OBVIOUS

\* A counter that goes on by no more than it is behind stays behind.
LEMMA Advance ==
    ASSUME NEW p \in Nat, NEW t \in Nat, NEW n \in Nat, p - t \in 0 .. Cap, n <= p - t
    PROVE  t + n \in Nat /\ p - (t + n) \in 0 .. Cap
OBVIOUS

\* What the invariant says of the counters, as numbers.
LEMMA Bounds ==
    IndInv =>
        /\ taken \in Nat /\ published \in Nat /\ Len(delivered) \in Nat
        /\ prod.n \in Nat /\ cons.i \in Nat /\ Len(delivered) = taken + cons.i
        /\ prod.n <= Cap - (published - taken)
        /\ Len(delivered) <= published
BY DEF IndInv, TypeOK, Counters, Calls, taken

\* pcm_ring_init leaves an empty ring: the invariant holds initially.
LEMMA InitInd == Init => IndInv
<1> SUFFICES ASSUME Init PROVE IndInv
  OBVIOUS
<1> USE DEF Init
<1>1. 0 % Word = 0 /\ 0 \in Indices
  BY WordType, ModSmall DEF Indices
<1>2. TypeOK
  BY <1>1 DEF TypeOK, Idle, NoFrame
<1>3. InOrder
  BY DEF InOrder
<1>4. Counters /\ Calls /\ Contents
  BY <1>1 DEF Counters, Calls, Contents, taken, Idle
<1> QED
  BY <1>2, <1>3, <1>4 DEF IndInv

\* pcm_ring_write: what it is granted is the free space.
LEMMA WriteBeginInd ==
    ASSUME IndInv, NEW frames \in 1 .. Cap + 1, WriteBegin(frames)
    PROVE  IndInv'
<1> USE DEF IndInv, WriteBegin
<1>1. taken' = taken
  BY DEF taken
<1>2. taken \in Nat /\ published \in Nat /\ published - taken \in 0 .. Cap
  BY DEF TypeOK, Counters
<1>3. Sub(wr, rd) = published - taken
  BY <1>2, SubOf DEF Counters
<1>4. /\ prod'.n \in 0 .. Cap - (published - taken) /\ prod'.i = 0
      /\ prod' \in [busy : BOOLEAN, n : 0 .. Cap, i : 0 .. Cap] /\ prod'.busy
  BY <1>2, <1>3 DEF Granted, Lesser
<1>5. TypeOK'
  BY <1>4 DEF TypeOK
<1>6. InOrder' /\ Counters'
  BY <1>1 DEF InOrder, Counters
<1>7. Calls'
  BY <1>1, <1>2, <1>4 DEF Calls
<1>8. prod.i = 0
  BY DEF Calls, Idle
<1>9. Contents'
  BY <1>1, <1>4, <1>8 DEF Contents
<1> QED
  BY <1>5, <1>6, <1>7, <1>9

\* A stored frame goes to the slot of its own number, which is none of the
\* slots that hold a frame not yet taken.
LEMMA WriteFrameInd == IndInv /\ WriteFrame => IndInv'
<1> SUFFICES ASSUME IndInv, WriteFrame PROVE IndInv'
  OBVIOUS
<1> USE DEF IndInv, WriteFrame
<1> DEFINE new == published + prod.i
<1>1. taken' = taken
  BY DEF taken
<1>2. /\ taken \in Nat /\ published \in Nat /\ published - taken \in 0 .. Cap
      /\ prod.i \in Nat /\ prod.n \in Nat /\ prod.i < prod.n
      /\ prod.n <= Cap - (published - taken)
      /\ new \in Nat
  BY DEF TypeOK, Counters, Calls
<1>3. prod' = [prod EXCEPT !.i = prod.i + 1] /\ prod'.i = prod.i + 1
  BY DEF TypeOK
<1>4. Slot(wr, prod.i) = new % Cap
  BY <1>2, SlotOf DEF Counters
<1>5. buf' = [buf EXCEPT ![new % Cap] = new] /\ new % Cap \in Slots
  BY <1>2, <1>4, SlotType
<1>6. TypeOK'
  <2>1. buf' \in [Slots -> Nat \cup {NoFrame}]
    BY <1>2, <1>5 DEF TypeOK
  <2>2. prod' \in [busy : BOOLEAN, n : 0 .. Cap, i : 0 .. Cap]
    <3>1. prod.i + 1 \in 0 .. Cap
      BY <1>2
    <3> QED
      BY <3>1, <1>3, CallType DEF TypeOK
  <2> QED
    BY <2>1, <2>2 DEF TypeOK
<1>7. InOrder' /\ Counters'
  BY <1>1 DEF InOrder, Counters
<1>8. Calls'
  BY <1>1, <1>2, <1>3 DEF Calls, TypeOK
<1>9. Contents'
  <2> SUFFICES ASSUME NEW k \in taken .. new PROVE buf'[k % Cap] = k
    BY <1>1, <1>2, <1>3 DEF Contents
  <2>1. CASE k = new
    BY <2>1, <1>5 DEF TypeOK
  <2>2. CASE k # new
    <3>1. k \in Int /\ new \in Int /\ k - new \in (0 - Cap) + 1 .. Cap - 1
      BY <1>2, <2>2
    <3>2. k % Cap # new % Cap
      BY <3>1, <2>2, ModDistinct
    <3>3. buf[k % Cap] = k
      BY <1>2, <2>2 DEF Contents
    <3>4. k % Cap \in Slots
      BY <3>1, SlotType
    <3> HIDE DEF new
    <3> QED
      BY <3>2, <3>3, <3>4, <1>5 DEF TypeOK
  <2> QED
    BY <2>1, <2>2
<1> QED
  BY <1>6, <1>7, <1>8, <1>9

\* Publishing a write makes the frames stored by it part of the stream.
LEMMA WritePublishInd == IndInv /\ WritePublish => IndInv'
<1> SUFFICES ASSUME IndInv, WritePublish PROVE IndInv'
  OBVIOUS
<1> USE DEF IndInv, WritePublish
<1>1. taken' = taken
  BY DEF taken
<1>2. /\ taken \in Nat /\ published \in Nat /\ published - taken \in 0 .. Cap
      /\ prod.n \in Nat /\ prod.n <= Cap - (published - taken)
      /\ published' = published + prod.n
  BY DEF TypeOK, Counters, Calls
<1>3. wr' = published' % Word
  BY <1>2, AddOf DEF Counters
<1>4. published' % Word \in Indices
  BY <1>2, published' \in Int, IndexType
<1>5. TypeOK'
  BY <1>2, <1>3, <1>4 DEF TypeOK, Idle
<1>6. InOrder'
  BY DEF InOrder
<1>7. Counters'
  BY <1>1, <1>2, <1>3 DEF Counters
<1>8. Calls'
  BY <1>1, <1>2 DEF Calls, Idle, TypeOK
<1>9. Contents'
  BY <1>1, <1>2 DEF Contents, Idle
<1> QED
  BY <1>5, <1>6, <1>7, <1>8, <1>9

\* pcm_ring_read: what it is granted is what is there.
LEMMA ReadBeginInd ==
    ASSUME IndInv, NEW frames \in 1 .. Cap + 1, ReadBegin(frames)
    PROVE  IndInv'
<1> USE DEF IndInv, ReadBegin
<1>1. /\ taken \in Nat /\ published \in Nat /\ published - taken \in 0 .. Cap
      /\ cons = Idle
  BY DEF TypeOK, Counters, Calls
<1>2. Sub(wr, rd) = published - taken
  BY <1>1, SubOf DEF Counters
<1>3. /\ cons'.n \in 0 .. published - taken /\ cons'.i = 0
      /\ cons' \in [busy : BOOLEAN, n : 0 .. Cap, i : 0 .. Cap] /\ cons'.busy
  BY <1>1, <1>2 DEF Granted, Lesser
<1>4. taken' = taken
  BY <1>1, <1>3 DEF taken, Idle
<1>5. TypeOK'
  BY <1>3 DEF TypeOK
<1>6. InOrder' /\ Counters' /\ Contents'
  BY <1>4 DEF InOrder, Counters, Contents
<1>7. Calls'
  BY <1>1, <1>3, <1>4 DEF Calls
<1> QED
  BY <1>5, <1>6, <1>7

\* The frame copied out is the next of the stream: it is not older than the
\* oldest frame kept and not newer than the newest published.
LEMMA ReadFrameInd == IndInv /\ ReadFrame => IndInv'
<1> SUFFICES ASSUME IndInv, ReadFrame PROVE IndInv'
  OBVIOUS
<1> USE DEF IndInv, ReadFrame
<1>1. /\ taken \in Nat /\ published \in Nat /\ published - taken \in 0 .. Cap
      /\ cons.i \in Nat /\ cons.n \in Nat /\ cons.i < cons.n
      /\ cons.n <= published - taken /\ prod.i \in Nat
      /\ delivered \in Seq(Nat \cup {NoFrame})
  BY DEF TypeOK, Counters, Calls
<1>2. Len(delivered) \in Nat /\ Len(delivered) = taken + cons.i
  BY Bounds
<1>3. Slot(rd, cons.i) = Len(delivered) % Cap
  BY <1>1, <1>2, SlotOf DEF Counters
<1>4. buf[Len(delivered) % Cap] = Len(delivered)
  <2>1. Len(delivered) \in taken .. published + prod.i - 1
    <3> HIDE DEF IndInv, ReadFrame
    <3>1. Len(delivered) >= taken /\ Len(delivered) < published
      BY <1>1, <1>2
    <3> QED
      BY <3>1, <1>1, <1>2
  <2> QED
    BY <2>1 DEF Contents
<1>5. delivered' = Append(delivered, Len(delivered))
  BY <1>3, <1>4
<1>6. Len(delivered') = Len(delivered) + 1
  BY <1>1, <1>5
<1>7. cons' = [cons EXCEPT !.i = cons.i + 1] /\ cons'.i = cons.i + 1
  BY DEF TypeOK
<1>8. taken' = taken
  <2>1. Len(delivered') - cons'.i = Len(delivered) - cons.i
    BY <1>1, <1>2, <1>6, <1>7
  <2> QED
    BY <2>1 DEF taken
<1>9. TypeOK'
  <2>1. cons' \in [busy : BOOLEAN, n : 0 .. Cap, i : 0 .. Cap]
    <3>1. cons.i + 1 \in 0 .. Cap
      BY <1>1
    <3> QED
      BY <3>1, <1>7, CallType DEF TypeOK
  <2>2. delivered' \in Seq(Nat \cup {NoFrame})
    BY <1>1, <1>2, <1>5
  <2> QED
    BY <2>1, <2>2 DEF TypeOK
<1>10. InOrder'
  <2> SUFFICES ASSUME NEW k \in 1 .. Len(delivered) + 1
               PROVE  delivered'[k] = k - 1
    BY <1>6 DEF InOrder
  <2> HIDE DEF IndInv, ReadFrame
  <2>1. CASE k = Len(delivered) + 1
    <3>1. delivered'[k] = Len(delivered)
      BY <2>1, <1>1, <1>2, <1>5, AppendLast
    <3> QED
      BY <2>1, <3>1, <1>2
  <2>2. CASE k \in 1 .. Len(delivered)
    <3>1. delivered'[k] = delivered[k]
      BY <2>2, <1>1, <1>2, <1>5, AppendKeeps
    <3> QED
      BY <2>2, <3>1 DEF InOrder, IndInv
  <2> QED
    BY <2>1, <2>2, <1>2
<1>11. Counters' /\ Contents'
  BY <1>8 DEF Counters, Contents
<1>12. Calls'
  BY <1>1, <1>7, <1>8 DEF Calls, TypeOK
<1> QED
  BY <1>9, <1>10, <1>11, <1>12

\* Publishing a read gives the slots copied out back to the producer.
LEMMA ReadPublishInd == IndInv /\ ReadPublish => IndInv'
<1> SUFFICES ASSUME IndInv, ReadPublish PROVE IndInv'
  OBVIOUS
<1> USE DEF IndInv, ReadPublish
<1>1. /\ taken \in Nat /\ published \in Nat /\ published - taken \in 0 .. Cap
      /\ cons.n \in Nat /\ cons.n <= published - taken /\ cons.i = cons.n
      /\ prod.i \in Nat /\ prod.n \in Nat /\ prod.n <= Cap - (published - taken)
      /\ Len(delivered) \in Nat
  BY DEF TypeOK, Counters, Calls
<1>2. taken' = taken + cons.n /\ cons' = Idle
  BY <1>1 DEF taken, Idle
<1>3. rd' = taken' % Word
  BY <1>1, <1>2, AddOf DEF Counters
<1>4. taken' \in Nat /\ published' = published /\ published' - taken' \in 0 .. Cap
  <2>1. published' = published
    OBVIOUS
  <2> HIDE DEF IndInv, ReadPublish
  <2>2. taken + cons.n \in Nat /\ published - (taken + cons.n) \in 0 .. Cap
    <3>1. taken \in Nat /\ published \in Nat /\ cons.n \in Nat
          /\ published - taken \in 0 .. Cap /\ cons.n <= published - taken
      BY <1>1
    <3> QED
      BY <3>1, Advance
  <2>3. taken' = taken + cons.n
    BY <1>2
  <2> QED
    BY <2>1, <2>2, <2>3
<1>5. TypeOK'
  <2>1. rd' \in Indices
    BY <1>3, <1>4, taken' \in Int, IndexType
  <2> QED
    BY <2>1 DEF TypeOK, Idle
<1>6. InOrder'
  BY DEF InOrder
<1>7. Counters'
  BY <1>3, <1>4 DEF Counters
<1>8. Calls'
  BY <1>1, <1>2 DEF Calls, Idle
<1>9. Contents'
  <2> SUFFICES ASSUME NEW k \in taken' .. published + prod.i - 1
               PROVE  buf[k % Cap] = k
    BY <1>4 DEF Contents
  <2>1. k \in taken .. published + prod.i - 1
    BY <1>1, <1>2
  <2> QED
    BY <2>1 DEF Contents
<1> QED
  BY <1>5, <1>6, <1>7, <1>8, <1>9

\* Re-initialising between two calls starts a new, empty stream.
LEMMA ResetInd == IndInv /\ Reset => IndInv'
<1> SUFFICES ASSUME IndInv, Reset PROVE IndInv'
  OBVIOUS
<1> USE DEF IndInv, Reset
<1>1. 0 % Word = 0 /\ 0 \in Indices
  BY WordType, ModSmall DEF Indices
<1>2. prod' = Idle /\ cons' = Idle
  BY DEF Calls
<1>3. TypeOK'
  BY <1>1 DEF TypeOK
<1>4. InOrder'
  BY DEF InOrder
<1>5. Counters' /\ Calls' /\ Contents'
  BY <1>1, <1>2 DEF Counters, Calls, Contents, taken, Idle
<1> QED
  BY <1>3, <1>4, <1>5

\* Every step of either side preserves the invariant.
LEMMA NextInd == IndInv /\ [Next]_vars => IndInv'
<1> SUFFICES ASSUME IndInv, [Next]_vars PROVE IndInv'
  OBVIOUS
<1>1. CASE \E frames \in 1 .. Cap + 1 : WriteBegin(frames)
  BY <1>1, WriteBeginInd
<1>2. CASE \E frames \in 1 .. Cap + 1 : ReadBegin(frames)
  BY <1>2, ReadBeginInd
<1>3. CASE WriteFrame \/ WritePublish
  BY <1>3, WriteFrameInd, WritePublishInd
<1>4. CASE ReadFrame \/ ReadPublish
  BY <1>4, ReadFrameInd, ReadPublishInd
<1>5. CASE Reset
  BY <1>5, ResetInd
<1>6. CASE UNCHANGED vars
  BY <1>6 DEF vars, IndInv, TypeOK, InOrder, Counters, Calls, Contents, taken
<1> QED
  BY <1>1, <1>2, <1>3, <1>4, <1>5, <1>6 DEF Next, Write, Read

-----------------------------------------------------------------------------
\* The inductive invariant holds of every reachable state.
THEOREM Invariance == Spec => []IndInv
<1>1. Init => IndInv
  BY InitInd
<1>2. IndInv /\ [Next]_vars => IndInv'
  BY NextInd
<1> QED
  BY <1>1, <1>2, PTL DEF Spec

\* Every variable keeps its type.
THEOREM TypeCorrect == Spec => []TypeOK
<1>1. IndInv => TypeOK
  BY DEF IndInv
<1> QED
  BY <1>1, Invariance, PTL

\* What the ISR copies out is the producer's stream, in order and complete,
\* for every capacity and every index width that is a multiple of it.
THEOREM StreamInOrder == Spec => []InOrder
<1>1. IndInv => InOrder
  BY DEF IndInv
<1> QED
  BY <1>1, Invariance, PTL

\* The fill either side computes from the two wrapped words is exact.
THEOREM FillIsExact == Spec => []FillExact
<1>1. IndInv => FillExact
  BY SubOf DEF IndInv, TypeOK, Counters, FillExact, Fill, taken
<1> QED
  BY <1>1, Invariance, PTL

\* No frame is handed out before it has been published.
THEOREM NoFrameEarly == Spec => []NothingEarly
<1>1. IndInv => NothingEarly
  BY Bounds DEF NothingEarly
<1> QED
  BY <1>1, Invariance, PTL

\* The two sides never touch the same slot at the same time.
THEOREM NoSlotShared == Spec => []SlotsDisjoint
<1>1. ASSUME IndInv PROVE SlotsDisjoint
  <2> SUFFICES ASSUME NEW p \in prod.i .. prod.n - 1,
                      NEW c \in cons.i .. cons.n - 1
               PROVE  Slot(wr, p) # Slot(rd, c)
    BY DEF SlotsDisjoint
  <2>1. /\ taken \in Nat /\ published \in Nat /\ published - taken \in 0 .. Cap
        /\ prod.i \in Nat /\ prod.n \in Nat /\ prod.n <= Cap - (published - taken)
        /\ cons.i \in Nat /\ cons.n \in Nat /\ cons.n <= published - taken
    BY <1>1 DEF IndInv, TypeOK, Counters, Calls
  <2>2. p \in Nat /\ c \in Nat
    BY <2>1
  <2>3. Slot(wr, p) = (published + p) % Cap /\ Slot(rd, c) = (taken + c) % Cap
    BY <1>1, <2>1, <2>2, SlotOf DEF IndInv, Counters
  <2> DEFINE a == published + p
             b == taken + c
  <2>4. /\ a \in Int /\ b \in Int /\ a # b
        /\ a - b \in (0 - Cap) + 1 .. Cap - 1
    BY <2>1, <2>2
  <2> HIDE DEF a, b
  <2>5. a % Cap # b % Cap
    BY <2>4, ModDistinct
  <2> QED
    BY <2>3, <2>5 DEF a, b
<1> QED
  BY <1>1, Invariance, PTL

\* Each side may rely on the counts and on the slots it was granted at every
\* point of the other's call.
THEOREM RingIsSafe == Spec => []RingSafe
BY TypeCorrect, FillIsExact, NoSlotShared, PTL DEF RingSafe

-----------------------------------------------------------------------------
\* Every step of the ring is a step of the abstract stream or invisible to
\* it: publishing a write is Accept, copying a frame out is Deliver.
THEOREM Refinement == Spec => ImplementsFifo
<1>1. Init => F!Init
  BY DEF Init, F!Init
<1>3. IndInv' => Len(delivered') <= published'
  <2>1. IndInv => NothingEarly
    BY Bounds DEF NothingEarly
  <2>2. IndInv' => NothingEarly'
    BY <2>1, PTL
  <2> QED
    BY <2>2 DEF NothingEarly
<1>2. IndInv /\ IndInv' /\ [Next]_vars => [F!Next]_(F!vars)
  <2> SUFFICES ASSUME IndInv, IndInv', [Next]_vars
               PROVE  F!Next \/ UNCHANGED F!vars
    OBVIOUS
  <2> USE DEF F!vars
  <2>1. CASE WritePublish
    <3>2. prod.n \in 0 .. Cap - (published - Len(delivered))
      BY Bounds
    <3> QED
      BY <2>1, <3>2 DEF WritePublish, F!Next, F!Accept
  <2>2. CASE ReadFrame
    <3>1. /\ Len(delivered) \in Nat /\ Len(delivered') = Len(delivered) + 1
          /\ delivered' = Append(delivered, buf[Slot(rd, cons.i)])
          /\ published' = published /\ delivered \in Seq(Nat \cup {NoFrame})
      BY <2>2 DEF ReadFrame, IndInv, TypeOK
    <3>2. delivered'[Len(delivered')] = Len(delivered') - 1
      BY <3>1 DEF IndInv, InOrder
    <3>3. delivered' = Append(delivered, Len(delivered))
      BY <3>1, <3>2
    <3>4. Len(delivered) < published
      <4>1. Len(delivered') <= published'
        BY <1>3
      <4> QED
        BY <4>1, <3>1, Bounds
    <3> QED
      BY <3>1, <3>3, <3>4 DEF F!Next, F!Deliver
  <2>3. CASE Reset
    BY <2>3 DEF Reset, F!Next, F!Clear
  <2>4. CASE \/ \E frames \in 1 .. Cap + 1 : WriteBegin(frames) \/ ReadBegin(frames)
             \/ WriteFrame \/ ReadPublish \/ UNCHANGED vars
    BY <2>4 DEF WriteBegin, ReadBegin, WriteFrame, ReadPublish, vars
  <2> QED
    BY <2>1, <2>2, <2>3, <2>4 DEF Next, Write, Read
<1> QED
  BY <1>1, <1>2, Invariance, PTL DEF Spec, ImplementsFifo, F!Spec

-----------------------------------------------------------------------------
(***************************************************************************)
(* The output.                                                             *)
(***************************************************************************)
\* What holds of the channel, the clocks and the interrupt, whatever the
\* pattern of calls.
ChannelSound ==
    /\ dma.off + dma.left <= B
    /\ dma.left > 0 => frozen
    /\ running \/ pc = "start_kick" => frozen
    /\ ~running /\ pc \in {"idle", "start_kick", "closed"} => dma.left = 0
    /\ pc # "idle" => ~running
    /\ isr # None => isr = Other(active) /\ dma.buf = active
    /\ kickStops <= stops

\* Which frames a buffer holds: n of them after the first `from`.
Holding(b, from, n) == audio_buf[b] = Filled(from, n)

\* The two buffers hold the frames that come next, in the order in which they
\* are played, up to the last one pulled; of the active one as many have been
\* heard as the channel has clocked out.
StreamSound ==
    \E from, n, m \in Nat :
        /\ n <= B /\ m <= B
        /\ Holding(active, from, n)
        /\ IF isr = None THEN Holding(Other(active), from + n, m) /\ pulled = from + n + m
                         ELSE pulled = from + n
        /\ Len(heard) = from + Smaller(dma.off, n)

\* How far the kick has got, and what a pause remembers of it, when pauses
\* come one to a buffer and off its boundary.
PauseSound ==
    /\ dma.buf = active
    /\ dma.left > 0 => dma.off + dma.left = B /\ since = dma.off - kick.off
    /\ dma.intr => dma.left = 0 /\ dma.off = B /\ running
    /\ kickStops = 0 \/ ~running => kick.off = 0 /\ kick.n = B
    /\ ~running => kickStops # 0 /\ dma.off < B
    /\ ~running /\ pc \in {"idle", "start_kick"} => stop_done = dma.off
    /\ pc \in {"stop_mask", "stop_cut"} => dma.left > 0

Counted == \A k \in 1 .. Len(heard) : heard[k] = k

OrderSound ==
    /\ Counted
    /\ running => primed
    /\ pc \in {"stop_mask", "stop_cut"} => primed
    /\ primed => StreamSound /\ PauseSound
    /\ ~primed /\ pc # "closed" => heard = <<>> /\ pulled = 0
    /\ ~primed => ~dma.intr /\ isr = None

HalInv ==
    /\ OutputTypeOK
    /\ ChannelSound
    /\ calls = Gentle => OrderSound

\* The parameters, as numbers.
LEMMA HalNumbers ==
    /\ B \in Nat /\ B > 0 /\ Pulls \subseteq 0 .. B
    /\ MaxStream \in Nat /\ MaxStops \in Nat
BY BAssumption, PullsAssumption, BoundAssumption

\* What the source delivers fits the buffer and the stream.
LEMMA GotFacts ==
    ASSUME OutputTypeOK, NEW n \in Pulls, NEW from \in Nat, from <= MaxStream
    PROVE  /\ Smaller(n, MaxStream - from) \in Nat
           /\ Smaller(n, MaxStream - from) <= B
           /\ from + Smaller(n, MaxStream - from) <= MaxStream
<1>1. n \in 0 .. B /\ MaxStream \in Nat /\ B \in Nat
  BY HalNumbers
<1> QED
  BY <1>1 DEF Smaller

\* A filled buffer is one of frames of the stream, and of silence.
LEMMA FilledFacts ==
    ASSUME NEW from \in Nat, NEW n \in Nat, n <= B, from + n <= MaxStream
    PROVE  Filled(from, n) \in [1 .. B -> Frames \cup {Silence}]
<1> SUFFICES ASSUME NEW j \in 1 .. B
             PROVE  (IF j <= n THEN from + j ELSE Silence) \in Frames \cup {Silence}
  BY DEF Filled
<1>1. B \in Nat /\ MaxStream \in Nat
  BY HalNumbers
<1>2. j <= n => from + j \in 1 .. MaxStream
  BY <1>1
<1> QED
  BY <1>2 DEF Frames

\* The fields of the channel after a kick.
LEMMA KickFacts ==
    ASSUME NEW b \in Bufs, NEW off \in Nat, NEW n \in Nat,
           off + n <= B, Kick(b, off, n)
    PROVE  /\ kick' \in [off : 0 .. B, n : 0 .. B] /\ since' \in 0 .. B
           /\ dma' \in [buf : Bufs, off : 0 .. B, left : 0 .. B, intr : BOOLEAN]
           /\ dma'.off + dma'.left <= B
           /\ kick'.off = off /\ kick'.n = n /\ since' = 0
           /\ dma'.buf = b /\ dma'.off = off /\ dma'.left = n /\ dma'.intr = FALSE
<1>1. B \in Nat /\ off \in 0 .. B /\ n \in 0 .. B /\ 0 \in 0 .. B
  BY HalNumbers
<1>2. kick' = [off |-> off, n |-> n] /\ since' = 0
      /\ dma' = [buf |-> b, off |-> off, left |-> n, intr |-> FALSE]
  BY DEF Kick
<1> QED
  BY <1>1, <1>2

\* The registers, as numbers.
LEMMA DmaFacts ==
    ASSUME OutputTypeOK
    PROVE  /\ dma.buf \in Bufs /\ dma.off \in Nat /\ dma.left \in Nat
           /\ dma.intr \in BOOLEAN
           /\ kick.off \in Nat /\ kick.n \in Nat /\ kick.n <= B /\ kick.off <= B
           /\ stop_done \in Nat /\ since \in Nat /\ B \in Nat /\ pulled \in Nat
           /\ pulled <= MaxStream
           /\ stops \in Nat /\ kickStops \in Nat
<1>1. /\ dma \in [buf : Bufs, off : 0 .. B, left : 0 .. B, intr : BOOLEAN]
      /\ kick \in [off : 0 .. B, n : 0 .. B]
      /\ since \in 0 .. B /\ stop_done \in 0 .. B /\ pulled \in 0 .. MaxStream
      /\ stops \in 0 .. MaxStops /\ kickStops \in 0 .. MaxStops
  BY DEF OutputTypeOK
<1>2. B \in Nat /\ MaxStream \in Nat /\ MaxStops \in Nat
  BY HalNumbers
<1> QED
  BY <1>1, <1>2

\* There are two buffers.
LEMMA OtherFacts ==
    ASSUME NEW b \in Bufs
    PROVE  /\ Other(b) \in Bufs /\ Other(Other(b)) = b
           /\ Other(b) # b /\ None \notin Bufs
BY DEF Bufs, Other, None

-----------------------------------------------------------------------------
\* The foreground.

\* A resume kicks what is left of the buffer, or the other one, inside it.
LEMMA ResumeSafe ==
    ASSUME OutputTypeOK, ChannelSound, Resume
    PROVE  OutputTypeOK' /\ ChannelSound'
<1>1. /\ pc = "start_kick" /\ isr = None /\ frozen
      /\ running' = TRUE /\ pc' = "idle" /\ isr' = None /\ frozen' = frozen
      /\ UNCHANGED <<audio_buf, primed, stop_done, irq_on, pulled, heard, stops>>
  BY DEF Resume, ResumeInside, ResumeOther, ChannelSound
<1>2. active' \in Bufs /\ kickStops' \in 0 .. MaxStops /\ kickStops' <= stops
      /\ \E b \in Bufs, off, n \in Nat : off + n <= B /\ Kick(b, off, n)
  <2>1. CASE ResumeInside
    <3>1. /\ Smaller(stop_done, kick.n) \in Nat /\ Left \in Nat
          /\ Smaller(stop_done, kick.n) + Left <= B
      BY DmaFacts DEF Smaller, Left
    <3>2. /\ Kick(active, Smaller(stop_done, kick.n), Left)
          /\ active' = active /\ kickStops' = kickStops
      BY <2>1 DEF ResumeInside
    <3> QED
      BY <3>1, <3>2 DEF OutputTypeOK, ChannelSound
  <2>2. CASE ResumeOther
    <3>1. /\ Kick(Other(active), 0, B) /\ active' = Other(active)
          /\ kickStops' = 0
      BY <2>2 DEF ResumeOther
    <3>2. Other(active) \in Bufs
      BY OtherFacts DEF OutputTypeOK
    <3>3. 0 \in 0 .. MaxStops /\ 0 <= stops /\ 0 + B <= B /\ B \in Nat /\ 0 \in Nat
      BY DmaFacts, HalNumbers
    <3> QED
      BY <3>1, <3>2, <3>3
  <2> QED
    BY <2>1, <2>2 DEF Resume
<1>3. /\ kick' \in [off : 0 .. B, n : 0 .. B] /\ since' \in 0 .. B
      /\ dma' \in [buf : Bufs, off : 0 .. B, left : 0 .. B, intr : BOOLEAN]
      /\ dma'.off + dma'.left <= B
  BY <1>2, KickFacts
<1>4. OutputTypeOK'
  BY <1>1, <1>2, <1>3 DEF OutputTypeOK, PCs
<1> QED
  BY <1>1, <1>2, <1>3, <1>4 DEF ChannelSound

\* A cold start fills both buffers with frames of the stream.
LEMMA ColdStartSafe ==
    ASSUME OutputTypeOK, ChannelSound, ColdStart
    PROVE  OutputTypeOK' /\ ChannelSound'
<1>1. /\ pc = "start_kick" /\ isr = None /\ frozen
      /\ active' = 0 /\ running' = TRUE /\ primed' = TRUE /\ pc' = "idle"
      /\ kickStops' = 0
      /\ isr' = None /\ frozen' = frozen /\ Kick(0, 0, B)
      /\ UNCHANGED <<stop_done, irq_on, heard, stops>>
  BY DEF ColdStart, ChannelSound
<1>2. /\ audio_buf' \in [Bufs -> [1 .. B -> Frames \cup {Silence}]]
      /\ pulled' \in 0 .. MaxStream
  <2>1. PICK n0 \in Pulls, n1 \in Pulls :
           /\ audio_buf' = [b \in Bufs |-> IF b = 0 THEN Filled(pulled, Got(n0))
                              ELSE Filled(pulled + Got(n0), Smaller(n1, MaxStream - pulled - Got(n0)))]
           /\ pulled' = pulled + Got(n0) + Smaller(n1, MaxStream - pulled - Got(n0))
    BY DEF ColdStart
  <2> DEFINE g0 == Got(n0)
             g1 == Smaller(n1, MaxStream - (pulled + g0))
  <2>2. pulled \in Nat /\ pulled <= MaxStream /\ MaxStream \in Nat
    BY DmaFacts, HalNumbers
  <2>3. g0 \in Nat /\ g0 <= B /\ pulled + g0 <= MaxStream
    BY <2>2, GotFacts DEF Got
  <2>4. g1 \in Nat /\ g1 <= B /\ (pulled + g0) + g1 <= MaxStream
    <3> HIDE DEF g0
    <3>1. pulled + g0 \in Nat
      BY <2>2, <2>3
    <3> QED
      BY <2>3, <3>1, GotFacts
  <2>5. MaxStream - pulled - Got(n0) = MaxStream - (pulled + g0)
    BY <2>2, <2>3
  <2>6. /\ Filled(pulled, g0) \in [1 .. B -> Frames \cup {Silence}]
        /\ Filled(pulled + g0, g1) \in [1 .. B -> Frames \cup {Silence}]
    <3> HIDE DEF g0, g1
    <3>1. pulled + g0 \in Nat
      BY <2>2, <2>3
    <3> QED
      BY <2>2, <2>3, <2>4, <3>1, FilledFacts
  <2>7. /\ audio_buf' = [b \in Bufs |-> IF b = 0 THEN Filled(pulled, g0) ELSE Filled(pulled + g0, g1)]
        /\ pulled' = pulled + g0 + g1
    BY <2>1, <2>5
  <2> HIDE DEF g0, g1
  <2> QED
    BY <2>2, <2>3, <2>4, <2>6, <2>7
<1>3. /\ kick' \in [off : 0 .. B, n : 0 .. B] /\ since' \in 0 .. B
      /\ dma' \in [buf : Bufs, off : 0 .. B, left : 0 .. B, intr : BOOLEAN]
      /\ dma'.off + dma'.left <= B
  <2>1. 0 \in Bufs /\ 0 + B <= B /\ B \in Nat
    BY HalNumbers DEF Bufs
  <2> QED
    BY <1>1, <2>1, KickFacts
<1>4. 0 \in Bufs /\ 0 \in 0 .. MaxStops /\ 0 <= stops
  BY DmaFacts, HalNumbers DEF Bufs
<1>5. OutputTypeOK'
  BY <1>1, <1>2, <1>3, <1>4 DEF OutputTypeOK, PCs
<1> QED
  BY <1>1, <1>3, <1>4, <1>5 DEF ChannelSound

\* Stopping: the interrupt is masked before the channel is cut, and the clocks
\* are let go only with the channel at rest.
LEMMA StoppingSafe ==
    ASSUME OutputTypeOK, ChannelSound, Stop \/ StopMask \/ StopCut
    PROVE  OutputTypeOK' /\ ChannelSound'
<1>1. CASE Stop
  <2>1. /\ pc = "idle" /\ isr = None /\ stops < MaxStops
        /\ pc' = "stop_mask" /\ running' = FALSE /\ stops' = stops + 1
        /\ kickStops' = IF running THEN kickStops + 1 ELSE kickStops
        /\ UNCHANGED <<audio_buf, active, primed, kick, since, stop_done, irq_on,
                       frozen, dma, isr, pulled, heard>>
    BY <1>1 DEF Stop, MayStop
  <2>2. /\ stops + 1 \in 0 .. MaxStops /\ kickStops' \in 0 .. MaxStops
        /\ kickStops' <= stops + 1
    <3>1. stops \in Nat /\ kickStops \in Nat /\ kickStops <= stops /\ MaxStops \in Nat
      BY DmaFacts, HalNumbers DEF ChannelSound
    <3>2. kickStops' = kickStops + 1 \/ kickStops' = kickStops
      BY <2>1
    <3> QED
      BY <2>1, <3>1, <3>2
  <2>3. OutputTypeOK'
    BY <2>1, <2>2 DEF OutputTypeOK, PCs
  <2> QED
    BY <2>1, <2>2, <2>3 DEF ChannelSound
<1>2. CASE StopMask
  <2>1. /\ pc = "stop_mask" /\ isr = None /\ pc' = "stop_cut" /\ irq_on' = FALSE
        /\ UNCHANGED <<audio_buf, active, running, primed, kick, since, stop_done,
                       frozen, dma, isr, pulled, heard, stops, kickStops>>
    BY <1>2 DEF StopMask
  <2>2. OutputTypeOK'
    BY <2>1 DEF OutputTypeOK, PCs
  <2> QED
    BY <2>1, <2>2 DEF ChannelSound
<1>3. CASE StopCut
  <2>1. /\ pc = "stop_cut" /\ isr = None /\ pc' = "idle" /\ frozen' = FALSE
        /\ dma' = [dma EXCEPT !.left = 0, !.intr = FALSE]
        /\ stop_done' = Smaller(since, kick.n)
        /\ UNCHANGED <<audio_buf, active, running, primed, kick, since, irq_on, isr,
                       pulled, heard, stops, kickStops>>
    BY <1>3 DEF StopCut
  <2>2. /\ dma' \in [buf : Bufs, off : 0 .. B, left : 0 .. B, intr : BOOLEAN]
        /\ dma'.off = dma.off /\ dma'.left = 0 /\ dma'.buf = dma.buf
    <3>1. /\ dma \in [buf : Bufs, off : 0 .. B, left : 0 .. B, intr : BOOLEAN]
          /\ 0 \in 0 .. B
      BY DmaFacts DEF OutputTypeOK
    <3> QED
      BY <2>1, <3>1
  <2>3. stop_done' \in 0 .. B
    BY <2>1, DmaFacts DEF Smaller
  <2>4. OutputTypeOK'
    BY <2>1, <2>2, <2>3 DEF OutputTypeOK, PCs
  <2>5. ~running
    BY <2>1 DEF ChannelSound
  <2>6. dma'.off + dma'.left <= B /\ ~(dma'.left > 0)
    BY <2>2, DmaFacts DEF ChannelSound
  <2> QED
    BY <2>1, <2>2, <2>4, <2>5, <2>6 DEF ChannelSound
<1> QED
  BY <1>1, <1>2, <1>3

\* Opening, closing and asking for a start or a stop do not move the channel.
LEMMA OpeningSafe ==
    ASSUME OutputTypeOK, ChannelSound,
           StartEnable \/ Close \/ Open
    PROVE  OutputTypeOK' /\ ChannelSound'
<1>1. CASE StartEnable
  <2>1. /\ pc = "idle" /\ isr = None /\ ~running /\ pc' = "start_kick"
        /\ irq_on' = TRUE /\ frozen' = TRUE
        /\ UNCHANGED <<audio_buf, active, running, primed, kick, since, stop_done,
                       dma, isr, pulled, heard, stops, kickStops>>
    BY <1>1 DEF StartEnable
  <2>2. OutputTypeOK'
    BY <2>1 DEF OutputTypeOK, PCs
  <2> QED
    BY <2>1, <2>2 DEF ChannelSound
<1>2. CASE Close
  <2>1. /\ pc = "idle" /\ isr = None /\ ~running /\ primed' = FALSE /\ pc' = "closed"
        /\ UNCHANGED <<audio_buf, active, running, kick, since, stop_done, irq_on,
                       frozen, dma, isr, pulled, heard, stops, kickStops>>
    BY <1>2 DEF Close
  <2>2. OutputTypeOK'
    BY <2>1 DEF OutputTypeOK, PCs
  <2> QED
    BY <2>1, <2>2 DEF ChannelSound
<1>3. CASE Open
  <2>1. /\ pc \in {"idle", "closed"} /\ isr = None /\ ~running /\ pc' = "idle"
        /\ active' = 0 /\ primed' = FALSE /\ running' = FALSE
        /\ pulled' = 0 /\ heard' = <<>> /\ kickStops' = 0
        /\ dma' = [dma EXCEPT !.intr = FALSE]
        /\ UNCHANGED <<audio_buf, kick, since, stop_done, irq_on, frozen, isr, stops>>
    BY <1>3 DEF Open
  <2>2. /\ dma' \in [buf : Bufs, off : 0 .. B, left : 0 .. B, intr : BOOLEAN]
        /\ dma'.off = dma.off /\ dma'.left = dma.left
    <3>1. dma \in [buf : Bufs, off : 0 .. B, left : 0 .. B, intr : BOOLEAN]
      BY DEF OutputTypeOK
    <3> QED
      BY <2>1, <3>1
  <2>3. /\ 0 \in Bufs /\ 0 \in 0 .. MaxStops /\ 0 <= stops
        /\ 0 \in 0 .. MaxStream /\ <<>> \in Seq(Frames)
    BY DmaFacts, HalNumbers DEF Bufs
  <2>4. OutputTypeOK'
    BY <2>1, <2>2, <2>3 DEF OutputTypeOK, PCs
  <2> QED
    BY <2>1, <2>2, <2>3, <2>4 DEF ChannelSound
<1> QED
  BY <1>1, <1>2, <1>3

-----------------------------------------------------------------------------
\* The interrupt and the channel.

\* The interrupt refills the buffer that the channel has left.
LEMMA IsrSafe ==
    ASSUME OutputTypeOK, ChannelSound, Isr
    PROVE  OutputTypeOK' /\ ChannelSound'
<1>1. CASE IsrIgnored
  <2>1. /\ isr = None /\ ~running /\ dma' = [dma EXCEPT !.intr = FALSE]
        /\ UNCHANGED <<audio_buf, active, running, primed, kick, since, stop_done,
                       irq_on, frozen, isr, pulled, heard, pc, stops, kickStops>>
    BY <1>1 DEF IsrIgnored, fgVars
  <2>2. /\ dma' \in [buf : Bufs, off : 0 .. B, left : 0 .. B, intr : BOOLEAN]
        /\ dma'.off = dma.off /\ dma'.left = dma.left
    <3>1. dma \in [buf : Bufs, off : 0 .. B, left : 0 .. B, intr : BOOLEAN]
      BY DEF OutputTypeOK
    <3> QED
      BY <2>1, <3>1
  <2>3. OutputTypeOK'
    BY <2>1, <2>2 DEF OutputTypeOK
  <2> QED
    BY <2>1, <2>2, <2>3 DEF ChannelSound
<1>2. CASE IsrKick
  <2>1. /\ isr = None /\ running /\ Kick(Other(active), 0, B)
        /\ active' = Other(active) /\ isr' = active /\ kickStops' = 0
        /\ UNCHANGED <<audio_buf, running, primed, stop_done, irq_on, frozen,
                       pulled, heard, pc, stops>>
    BY <1>2 DEF IsrKick
  <2>2. /\ Other(active) \in Bufs /\ Other(Other(active)) = active
        /\ active \in Bufs
    BY OtherFacts DEF OutputTypeOK
  <2>3. /\ kick' \in [off : 0 .. B, n : 0 .. B] /\ since' \in 0 .. B
        /\ dma' \in [buf : Bufs, off : 0 .. B, left : 0 .. B, intr : BOOLEAN]
        /\ dma'.off + dma'.left <= B /\ dma'.buf = Other(active)
    <3>1. 0 \in Nat /\ B \in Nat /\ 0 + B <= B
      BY HalNumbers
    <3> QED
      BY <2>1, <2>2, <3>1, KickFacts
  <2>4. 0 \in 0 .. MaxStops /\ 0 <= stops
    BY DmaFacts, HalNumbers
  <2>5. OutputTypeOK'
    BY <2>1, <2>2, <2>3, <2>4 DEF OutputTypeOK
  <2> QED
    BY <2>1, <2>2, <2>3, <2>4, <2>5 DEF ChannelSound
<1>3. CASE IsrRefill
  <2>1. /\ isr # None /\ isr' = None
        /\ UNCHANGED <<active, running, primed, kick, since, stop_done, irq_on,
                       frozen, dma, heard, pc, stops, kickStops>>
    BY <1>3 DEF IsrRefill, fgVars
  <2>2. PICK n \in Pulls : /\ audio_buf' = [audio_buf EXCEPT ![isr] = Filled(pulled, Got(n))]
                           /\ pulled' = pulled + Got(n)
    BY <1>3 DEF IsrRefill
  <2>3. pulled \in Nat /\ pulled <= MaxStream /\ MaxStream \in Nat
    BY DmaFacts, HalNumbers
  <2>4. Got(n) \in Nat /\ Got(n) <= B /\ pulled + Got(n) <= MaxStream
    BY <2>3, GotFacts DEF Got
  <2>5. Filled(pulled, Got(n)) \in [1 .. B -> Frames \cup {Silence}]
    BY <2>3, <2>4, FilledFacts
  <2>6. /\ audio_buf' \in [Bufs -> [1 .. B -> Frames \cup {Silence}]]
        /\ pulled' \in 0 .. MaxStream
    <3>1. audio_buf' \in [Bufs -> [1 .. B -> Frames \cup {Silence}]]
      <4>1. audio_buf \in [Bufs -> [1 .. B -> Frames \cup {Silence}]]
        BY DEF OutputTypeOK
      <4> QED
        BY <2>2, <2>5, <4>1
    <3>2. pulled' \in 0 .. MaxStream
      BY <2>2, <2>3, <2>4
    <3> QED
      BY <3>1, <3>2
  <2>7. OutputTypeOK'
    BY <2>1, <2>6 DEF OutputTypeOK
  <2> QED
    BY <2>1, <2>7 DEF ChannelSound
<1> QED
  BY <1>1, <1>2, <1>3 DEF Isr

\* The channel after a frame time.
LEMMA ClockFacts ==
    ASSUME OutputTypeOK, dma.off + dma.left <= B, ClockOut
    PROVE  /\ dma' \in [buf : Bufs, off : 0 .. B, left : 0 .. B, intr : BOOLEAN]
           /\ dma'.buf = dma.buf /\ dma'.off = dma.off + 1 /\ dma'.left = dma.left - 1
           /\ dma'.intr <=> dma.left = 1
           /\ dma.left > 0 /\ dma.off + 1 \in 1 .. B
           /\ since' = Smaller(since + 1, B) /\ since' \in 0 .. B
<1>1. /\ dma.left > 0 /\ since' = Smaller(since + 1, B)
      /\ dma' = [dma EXCEPT !.off = @ + 1, !.left = @ - 1, !.intr = dma.left = 1]
  BY DEF ClockOut
<1>2. /\ dma \in [buf : Bufs, off : 0 .. B, left : 0 .. B, intr : BOOLEAN]
      /\ dma.off \in Nat /\ dma.left \in Nat /\ B \in Nat /\ since \in Nat
  BY DmaFacts DEF OutputTypeOK
<1>3. dma.off + 1 \in 0 .. B /\ dma.left - 1 \in 0 .. B /\ dma.off + 1 \in 1 .. B
  BY <1>1, <1>2
<1> DEFINE last == dma.left = 1
<1>4. dma' = [dma EXCEPT !.off = @ + 1, !.left = @ - 1, !.intr = last] /\ last \in BOOLEAN
  BY <1>1
<1>5. since' \in 0 .. B
  BY <1>1, <1>2 DEF Smaller
<1>6. /\ dma'.buf = dma.buf /\ dma'.off = dma.off + 1 /\ dma'.left = dma.left - 1
      /\ dma'.intr = last
      /\ dma' \in [buf : Bufs, off : 0 .. B, left : 0 .. B, intr : BOOLEAN]
  <2> HIDE DEF last
  <2> QED
    BY <1>2, <1>3, <1>4
<1>7. dma'.intr <=> dma.left = 1
  BY <1>6, Zenon DEF last
<1> QED
  BY <1>1, <1>3, <1>5, <1>6, <1>7

\* A frame time moves the channel, which the clocks are held for.
LEMMA TimeSafe ==
    ASSUME OutputTypeOK, ChannelSound, ClockOut \/ IdleTime
    PROVE  OutputTypeOK' /\ ChannelSound'
<1>1. CASE ClockOut
  <2>1. UNCHANGED <<audio_buf, active, running, primed, kick, stop_done, irq_on,
                    frozen, pc, isr, pulled, stops, kickStops>>
    BY <1>1 DEF ClockOut
  <2>2. /\ dma' \in [buf : Bufs, off : 0 .. B, left : 0 .. B, intr : BOOLEAN]
        /\ dma'.buf = dma.buf /\ dma'.off = dma.off + 1 /\ dma'.left = dma.left - 1
        /\ dma.left > 0 /\ dma.off + 1 \in 1 .. B /\ since' \in 0 .. B
    BY <1>1, ClockFacts DEF ChannelSound
  <2>3. heard' \in Seq(Frames)
    <3>1. heard' = IF audio_buf[dma.buf][dma.off + 1] = Silence THEN heard
                   ELSE Append(heard, audio_buf[dma.buf][dma.off + 1])
      BY <1>1 DEF ClockOut
    <3>2. audio_buf[dma.buf][dma.off + 1] \in Frames \cup {Silence}
      BY <2>2, DmaFacts DEF OutputTypeOK
    <3> QED
      BY <3>1, <3>2 DEF OutputTypeOK
  <2>4. OutputTypeOK'
    BY <2>1, <2>2, <2>3 DEF OutputTypeOK
  <2>5. dma'.off + dma'.left <= B /\ dma.left \in Nat /\ dma.off \in Nat
    BY <2>2, DmaFacts DEF ChannelSound
  <2> QED
    BY <2>1, <2>2, <2>4, <2>5 DEF ChannelSound
<1>2. CASE IdleTime
  <2>1. /\ since < B /\ since' = since + 1
        /\ UNCHANGED <<audio_buf, active, running, primed, kick, stop_done, irq_on,
                       frozen, dma, pc, isr, pulled, heard, stops, kickStops>>
    BY <1>2 DEF IdleTime
  <2>2. since' \in 0 .. B
    BY <2>1, DmaFacts
  <2>3. OutputTypeOK'
    BY <2>1, <2>2 DEF OutputTypeOK
  <2> QED
    BY <2>1, <2>3 DEF ChannelSound
<1> QED
  BY <1>1, <1>2

\* Whatever the pattern of calls, every step keeps the channel sound.
LEMMA SafeStep ==
    ASSUME OutputTypeOK, ChannelSound, [OutputNext]_outputVars
    PROVE  OutputTypeOK' /\ ChannelSound'
<1>1. CASE UNCHANGED outputVars
  BY <1>1 DEF outputVars, OutputTypeOK, ChannelSound
<1>2. CASE OutputNext
  BY <1>2, ResumeSafe, ColdStartSafe, StoppingSafe, OpeningSafe, IsrSafe, TimeSafe
     DEF OutputNext, Start, Stopping
<1> QED
  BY <1>1, <1>2

-----------------------------------------------------------------------------
\* The order of the frames, when the foreground is gentle.

\* What the gentle pattern allows.
LEMMA GentleFacts ==
    ASSUME calls = Gentle
    PROVE  calls.perKick = 1 /\ calls.atEnd = FALSE /\ calls.again = FALSE
BY DEF Gentle

\* A step that leaves the buffers, what is heard and the place in the active
\* buffer alone leaves the stream alone.
LEMMA StreamKept ==
    ASSUME StreamSound, UNCHANGED <<audio_buf, active, isr, pulled, heard>>,
           dma'.off = dma.off
    PROVE  StreamSound'
BY DEF StreamSound, Holding, Filled, Smaller

\* A stop remembers the place at which the channel was cut.
LEMMA StoppingOrder ==
    ASSUME HalInv, calls = Gentle,
           Stop \/ StopMask \/ StopCut
    PROVE  OrderSound'
<1>0. OrderSound /\ calls.perKick = 1 /\ calls.atEnd = FALSE /\ calls.again = FALSE
  BY GentleFacts DEF HalInv
<1>1. CASE Stop
  <2>1. /\ pc = "idle" /\ isr = None /\ running /\ kickStops < 1 /\ dma.left # 0
        /\ pc' = "stop_mask" /\ running' = FALSE /\ kickStops' = kickStops + 1
        /\ UNCHANGED <<audio_buf, active, primed, kick, since, stop_done, dma, isr, pulled, heard>>
    BY <1>0, <1>1 DEF Stop, MayStop
  <2>2. primed /\ StreamSound /\ PauseSound /\ Counted
    BY <1>0, <2>1 DEF OrderSound
  <2>3. kickStops \in Nat /\ dma.left \in Nat /\ dma.off \in Nat /\ B \in Nat
    BY DmaFacts DEF HalInv
  <2>4. kickStops = 0 /\ dma.left > 0 /\ dma.off < B
    BY <2>1, <2>2, <2>3 DEF PauseSound
  <2>5. ~dma.intr
    BY <2>2, <2>4 DEF PauseSound
  <2>6. PauseSound'
    BY <2>1, <2>2, <2>4, <2>5 DEF PauseSound
  <2>7. StreamSound'
    BY <2>1, <2>2, StreamKept
  <2> QED
    BY <2>1, <2>2, <2>6, <2>7 DEF OrderSound, Counted
<1>2. CASE StopMask
  <2>1. /\ pc = "stop_mask" /\ pc' = "stop_cut"
        /\ UNCHANGED <<audio_buf, active, running, primed, kick, since, stop_done,
                       dma, isr, pulled, heard, kickStops>>
    BY <1>2 DEF StopMask
  <2>2. primed /\ StreamSound /\ PauseSound /\ Counted
    BY <1>0, <2>1 DEF OrderSound
  <2>3. PauseSound'
    BY <2>1, <2>2 DEF PauseSound
  <2>4. StreamSound'
    BY <2>1, <2>2, StreamKept
  <2> QED
    BY <2>1, <2>2, <2>3, <2>4 DEF OrderSound, Counted
<1>3. CASE StopCut
  <2>1. /\ pc = "stop_cut" /\ isr = None /\ pc' = "idle"
        /\ dma' = [dma EXCEPT !.left = 0, !.intr = FALSE]
        /\ stop_done' = Smaller(since, kick.n)
        /\ UNCHANGED <<audio_buf, active, running, primed, kick, since, isr, pulled, heard, kickStops>>
    BY <1>3 DEF StopCut
  <2>2. primed /\ StreamSound /\ PauseSound /\ Counted /\ ~running
    BY <1>0, <2>1 DEF OrderSound, HalInv, ChannelSound
  <2>3. dma'.off = dma.off /\ dma'.left = 0 /\ dma'.buf = dma.buf /\ dma'.intr = FALSE
    <3>1. dma \in [buf : Bufs, off : 0 .. B, left : 0 .. B, intr : BOOLEAN]
      BY DEF HalInv, OutputTypeOK
    <3> QED
      BY <2>1, <3>1
  <2>4. stop_done' = dma.off /\ dma.off < B
    <3>1. /\ dma.left > 0 /\ dma.off + dma.left = B /\ since = dma.off - kick.off
          /\ kick.off = 0 /\ kick.n = B
      BY <2>1, <2>2 DEF PauseSound
    <3>2. dma.off \in Nat /\ dma.left \in Nat /\ B \in Nat
      BY DmaFacts DEF HalInv
    <3> QED
      BY <2>1, <3>1, <3>2 DEF Smaller
  <2>5. PauseSound'
    <3>1. dma.buf = active /\ kick.off = 0 /\ kick.n = B /\ kickStops # 0
      BY <2>2 DEF PauseSound
    <3> QED
      BY <2>1, <2>2, <2>3, <2>4, <3>1 DEF PauseSound
  <2>6. StreamSound'
    BY <2>1, <2>2, <2>3, StreamKept
  <2> QED
    BY <2>1, <2>2, <2>5, <2>6 DEF OrderSound, Counted
<1> QED
  BY <1>1, <1>2, <1>3

\* Opening begins a new stream; nothing is heard yet.
LEMMA OpeningOrder ==
    ASSUME HalInv, calls = Gentle,
           StartEnable \/ Close \/ Open
    PROVE  OrderSound'
<1>0. OrderSound
  BY DEF HalInv
<1>1. CASE StartEnable
  <2>1. /\ pc = "idle" /\ isr = None /\ ~running /\ pc' = "start_kick"
        /\ UNCHANGED <<audio_buf, active, running, primed, kick, since, stop_done,
                       dma, isr, pulled, heard, kickStops>>
    BY <1>1 DEF StartEnable
  <2>2. PauseSound => PauseSound'
    BY <2>1 DEF PauseSound
  <2>3. StreamSound => StreamSound'
    BY <2>1, StreamKept
  <2> QED
    BY <1>0, <2>1, <2>2, <2>3 DEF OrderSound, Counted
<1>2. CASE Close
  <2>1. /\ pc = "idle" /\ isr = None /\ ~running /\ primed' = FALSE /\ pc' = "closed"
        /\ UNCHANGED <<running, dma, isr, pulled, heard>>
    BY <1>2 DEF Close
  <2>2. ~dma.intr
    BY <1>0, <2>1 DEF OrderSound, PauseSound
  <2> QED
    BY <1>0, <2>1, <2>2 DEF OrderSound, Counted
<1>3. CASE Open
  <2>1. /\ isr = None /\ pc' = "idle" /\ primed' = FALSE /\ running' = FALSE
        /\ pulled' = 0 /\ heard' = <<>> /\ isr' = None
        /\ dma' = [dma EXCEPT !.intr = FALSE]
    BY <1>3 DEF Open
  <2>2. dma'.intr = FALSE
    <3>1. dma \in [buf : Bufs, off : 0 .. B, left : 0 .. B, intr : BOOLEAN]
      BY DEF HalInv, OutputTypeOK
    <3> QED
      BY <2>1, <3>1
  <2>3. \A k \in 1 .. Len(heard') : heard'[k] = k
    BY <2>1
  <2> QED
    BY <2>1, <2>2, <2>3 DEF OrderSound, Counted
<1> QED
  BY <1>1, <1>2, <1>3

\* A start after a pause goes on where the channel was cut, inside the buffer.
LEMMA ResumeOrder ==
    ASSUME HalInv, calls = Gentle, Resume
    PROVE  OrderSound'
<1>1. /\ pc = "start_kick" /\ isr = None /\ primed /\ running' = TRUE /\ pc' = "idle"
      /\ UNCHANGED <<audio_buf, primed, stop_done, isr, pulled, heard>>
  BY DEF Resume, ResumeInside, ResumeOther
<1>2. ~running /\ StreamSound /\ PauseSound /\ Counted
  BY <1>1 DEF HalInv, ChannelSound, OrderSound
<1>3. /\ dma.buf = active /\ kick.off = 0 /\ kick.n = B /\ stop_done = dma.off
      /\ kickStops # 0 /\ dma.off < B /\ dma.off \in Nat /\ B \in Nat
      /\ active \in Bufs
  BY <1>1, <1>2, DmaFacts DEF PauseSound, HalInv, OutputTypeOK
<1>4. /\ Smaller(stop_done, kick.n) = dma.off /\ Left = B - dma.off
      /\ Left > 0 /\ Left \in Nat
  BY <1>3 DEF Smaller, Left
<1>5. Kick(active, dma.off, B - dma.off) /\ active' = active /\ kickStops' = kickStops
  <2>1. ResumeInside
    BY <1>4 DEF Resume, ResumeOther
  <2> QED
    BY <1>4, <2>1 DEF ResumeInside
<1>6. /\ kick'.off = dma.off /\ since' = 0
      /\ dma'.buf = active /\ dma'.off = dma.off /\ dma'.left = B - dma.off
      /\ dma'.intr = FALSE
  <2> DEFINE rest == B - dma.off
  <2>1. dma.off + rest <= B /\ rest \in Nat /\ dma.off \in Nat /\ active \in Bufs
    BY <1>3
  <2>2. Kick(active, dma.off, rest)
    BY <1>5
  <2> HIDE DEF rest
  <2>3. /\ kick'.off = dma.off /\ since' = 0
        /\ dma'.buf = active /\ dma'.off = dma.off /\ dma'.left = rest /\ dma'.intr = FALSE
    BY <2>1, <2>2, KickFacts
  <2> QED
    BY <2>3 DEF rest
<1>7. StreamSound'
  BY <1>1, <1>2, <1>5, <1>6, StreamKept
<1>8. PauseSound'
  <2>1. dma.off + (B - dma.off) = B /\ 0 = dma.off - dma.off
    BY <1>3
  <2> QED
    BY <1>1, <1>3, <1>5, <1>6, <2>1 DEF PauseSound
<1> QED
  BY <1>1, <1>2, <1>7, <1>8 DEF OrderSound, Counted

\* A cold start takes the first frames of the stream, and hears none yet.
LEMMA ColdStartOrder ==
    ASSUME HalInv, calls = Gentle, ColdStart
    PROVE  OrderSound'
<1>1. /\ pc = "start_kick" /\ isr = None /\ ~primed
      /\ active' = 0 /\ running' = TRUE /\ primed' = TRUE /\ pc' = "idle"
      /\ kickStops' = 0
      /\ isr' = None /\ heard' = heard /\ Kick(0, 0, B)
  BY DEF ColdStart
<1>2. heard = <<>> /\ pulled = 0 /\ Counted
  BY <1>1 DEF HalInv, OrderSound
<1>3. PICK n0 \in Pulls, n1 \in Pulls :
         /\ audio_buf' = [b \in Bufs |-> IF b = 0 THEN Filled(pulled, Got(n0))
                            ELSE Filled(pulled + Got(n0), Smaller(n1, MaxStream - pulled - Got(n0)))]
         /\ pulled' = pulled + Got(n0) + Smaller(n1, MaxStream - pulled - Got(n0))
  BY DEF ColdStart
<1> DEFINE g0 == Got(n0)
           g1 == Smaller(n1, MaxStream - (0 + g0))
<1>4. /\ MaxStream \in Nat /\ B \in Nat /\ 0 \in Bufs /\ 1 \in Bufs
      /\ Other(0) = 1
  BY HalNumbers DEF Bufs, Other
<1>5. g0 \in Nat /\ g0 <= B /\ 0 + g0 <= MaxStream
  BY <1>2, <1>4, GotFacts DEF Got, HalInv
<1>6. g1 \in Nat /\ g1 <= B
  <2> HIDE DEF g0
  <2>1. 0 + g0 \in Nat
    BY <1>5
  <2> QED
    BY <1>5, <2>1, GotFacts DEF HalInv
<1>7. /\ audio_buf'[0] = Filled(0, g0) /\ audio_buf'[1] = Filled(0 + g0, g1)
      /\ pulled' = 0 + g0 + g1
  <2>1. MaxStream - pulled - Got(n0) = MaxStream - (0 + g0)
    BY <1>2, <1>4, <1>5
  <2> QED
    BY <1>2, <1>3, <1>4, <2>1
<1>8. /\ kick'.off = 0 /\ kick'.n = B /\ since' = 0
      /\ dma'.buf = 0 /\ dma'.off = 0 /\ dma'.left = B /\ dma'.intr = FALSE
  <2>1. 0 \in Nat /\ 0 + B <= B
    BY <1>4
  <2> QED
    BY <1>1, <1>4, <2>1, KickFacts
<1> HIDE DEF g0, g1
<1>9. StreamSound'
  <2>1. Len(heard') = 0 + Smaller(dma'.off, g0)
    <3>1. Len(heard') = 0
      BY <1>1, <1>2
    <3> QED
      BY <1>5, <1>8, <3>1 DEF Smaller
  <2>2. /\ audio_buf'[active'] = Filled(0, g0)
        /\ audio_buf'[Other(active')] = Filled(0 + g0, g1)
        /\ pulled' = 0 + g0 + g1
    BY <1>1, <1>4, <1>7
  <2>3. \E f, k, l \in Nat :
           /\ k <= B /\ l <= B /\ audio_buf'[active'] = Filled(f, k)
           /\ audio_buf'[Other(active')] = Filled(f + k, l)
           /\ pulled' = f + k + l /\ Len(heard') = f + Smaller(dma'.off, k)
    <3>1. 0 \in Nat
      OBVIOUS
    <3> QED
      BY <1>5, <1>6, <2>1, <2>2, <3>1
  <2> QED
    BY <1>1, <2>3 DEF StreamSound, Holding
<1>10. PauseSound'
  <2>1. 0 + B = B /\ 0 = 0 - 0
    BY <1>4
  <2> QED
    BY <1>1, <1>8, <2>1 DEF PauseSound
<1> QED
  BY <1>1, <1>2, <1>9, <1>10 DEF OrderSound, Counted

\* The interrupt goes on with the buffer that is full, which holds what comes
\* next, and fills the other with what comes after that.
LEMMA IsrOrder ==
    ASSUME HalInv, calls = Gentle, Isr
    PROVE  OrderSound'
<1>0. OrderSound /\ OutputTypeOK
  BY DEF HalInv
<1>1. CASE IsrIgnored
  <2>1. dma.intr /\ ~running /\ isr = None
    BY <1>1 DEF IsrIgnored
  <2>2. FALSE
    BY <1>0, <2>1 DEF OrderSound, PauseSound
  <2> QED
    BY <2>2
<1>2. CASE IsrKick
  <2>1. /\ isr = None /\ running /\ Kick(Other(active), 0, B) /\ dma.intr
        /\ active' = Other(active) /\ isr' = active /\ kickStops' = 0
        /\ UNCHANGED <<audio_buf, running, primed, stop_done, pulled, heard, pc>>
    BY <1>2 DEF IsrKick
  <2>2. primed /\ StreamSound /\ PauseSound /\ Counted
    BY <1>0, <2>1 DEF OrderSound
  <2>3. dma.off = B /\ B \in Nat
    BY <1>0, <2>1, <2>2, DmaFacts DEF PauseSound
  <2>4. active \in Bufs /\ Other(active) \in Bufs /\ active # None
    BY <1>0, OtherFacts DEF OutputTypeOK
  <2>5. PICK from, n, m \in Nat :
           /\ n <= B /\ m <= B
           /\ audio_buf[active] = Filled(from, n)
           /\ audio_buf[Other(active)] = Filled(from + n, m)
           /\ pulled = from + n + m
           /\ Len(heard) = from + Smaller(dma.off, n)
    BY <2>1, <2>2 DEF StreamSound, Holding
  <2>6. /\ kick'.off = 0 /\ kick'.n = B /\ since' = 0
        /\ dma'.buf = Other(active) /\ dma'.off = 0 /\ dma'.left = B
        /\ dma'.intr = FALSE
    <3>1. 0 \in Nat /\ 0 + B <= B /\ B \in Nat
      BY <2>3
    <3>2. Kick(Other(active), 0, B) /\ Other(active) \in Bufs
      BY <2>1, <2>4
    <3> QED
      BY <3>1, <3>2, KickFacts
  <2>7. StreamSound'
    <3>1. from + n \in Nat /\ pulled = (from + n) + m
      BY <2>5
    <3>2. Len(heard) = (from + n) + Smaller(0, m)
      BY <2>3, <2>5 DEF Smaller
    <3>3. /\ audio_buf'[active'] = Filled(from + n, m) /\ isr' # None
          /\ pulled' = (from + n) + m
      BY <2>1, <2>4, <2>5, <3>1
    <3>4. Len(heard') = (from + n) + Smaller(dma'.off, m)
      BY <2>1, <2>6, <3>2
    <3>5. \E f, k, l \in Nat :
             /\ k <= B /\ l <= B /\ audio_buf'[active'] = Filled(f, k)
             /\ pulled' = f + k /\ Len(heard') = f + Smaller(dma'.off, k)
      BY <2>5, <3>1, <3>3, <3>4
    <3> QED
      BY <3>3, <3>5 DEF StreamSound, Holding
  <2>8. PauseSound'
    <3>1. 0 + B = B /\ 0 = 0 - 0 /\ (B > 0 \/ B = 0)
      BY <2>3
    <3>2. pc = "idle"
      BY <2>1 DEF HalInv, ChannelSound
    <3> QED
      BY <2>1, <2>6, <3>1, <3>2 DEF PauseSound
  <2> QED
    BY <1>0, <2>1, <2>2, <2>7, <2>8 DEF OrderSound, Counted
<1>3. CASE IsrRefill
  <2>1. /\ isr # None /\ isr' = None
        /\ UNCHANGED <<active, running, primed, kick, since, stop_done, dma, heard, pc, kickStops>>
    BY <1>3 DEF IsrRefill, fgVars
  <2>2. PICK n1 \in Pulls : /\ audio_buf' = [audio_buf EXCEPT ![isr] = Filled(pulled, Got(n1))]
                            /\ pulled' = pulled + Got(n1)
    BY <1>3 DEF IsrRefill
  <2>3. primed /\ StreamSound /\ PauseSound /\ Counted
    BY <1>0, <2>1 DEF OrderSound
  <2>4. /\ isr = Other(active) /\ isr \in Bufs /\ active \in Bufs
        /\ isr # active
        /\ audio_buf \in [Bufs -> [1 .. B -> Frames \cup {Silence}]]
    BY <1>0, <2>1, OtherFacts DEF HalInv, ChannelSound, OutputTypeOK
  <2>5. PICK from, n \in Nat :
           /\ n <= B /\ audio_buf[active] = Filled(from, n)
           /\ pulled = from + n /\ Len(heard) = from + Smaller(dma.off, n)
    BY <2>1, <2>3 DEF StreamSound, Holding
  <2>6. Got(n1) \in Nat /\ Got(n1) <= B
    <3>1. pulled \in Nat /\ pulled <= MaxStream
      BY <1>0, DmaFacts
    <3> QED
      BY <1>0, <3>1, GotFacts DEF Got
  <2>7. /\ audio_buf'[active] = Filled(from, n)
        /\ audio_buf'[Other(active)] = Filled(from + n, Got(n1))
    BY <2>2, <2>4, <2>5
  <2>8. StreamSound'
    <3>1. \E f, k, l \in Nat :
             /\ k <= B /\ l <= B /\ audio_buf'[active'] = Filled(f, k)
             /\ audio_buf'[Other(active')] = Filled(f + k, l)
             /\ pulled' = f + k + l /\ Len(heard') = f + Smaller(dma'.off, k)
      BY <2>1, <2>2, <2>5, <2>6, <2>7
    <3> QED
      BY <2>1, <3>1 DEF StreamSound, Holding
  <2>9. PauseSound'
    BY <2>1, <2>3 DEF PauseSound
  <2> QED
    BY <1>0, <2>1, <2>3, <2>8, <2>9 DEF OrderSound, Counted
<1> QED
  BY <1>1, <1>2, <1>3 DEF Isr

\* A frame time: the frame clocked out is the next of the stream, or silence
\* behind the last one of its buffer.
LEMMA ClockOrder ==
    ASSUME HalInv, calls = Gentle, ClockOut
    PROVE  OrderSound'
<1>1. /\ dma.left > 0 /\ (dma.left > 1 \/ pc = "idle")
      /\ heard' = IF audio_buf[dma.buf][dma.off + 1] = Silence THEN heard
                  ELSE Append(heard, audio_buf[dma.buf][dma.off + 1])
      /\ UNCHANGED <<audio_buf, active, running, primed, kick, stop_done, pc, isr, pulled, kickStops>>
  BY GentleFacts DEF ClockOut
<1>2. /\ dma.off \in Nat /\ dma.left \in Nat /\ B \in Nat /\ B > 0 /\ since \in Nat
      /\ kick.off \in Nat /\ active \in Bufs
      /\ dma.off + dma.left <= B /\ heard \in Seq(Frames)
  BY DmaFacts, HalNumbers DEF HalInv, ChannelSound, OutputTypeOK
<1>3. /\ dma'.buf = dma.buf /\ dma'.off = dma.off + 1 /\ dma'.left = dma.left - 1
      /\ dma'.intr <=> dma.left = 1
      /\ dma.off + 1 \in 1 .. B /\ since' = Smaller(since + 1, B)
  BY <1>1, <1>2, ClockFacts DEF HalInv
<1>4. primed /\ StreamSound /\ PauseSound /\ Counted
  <2>1. running \/ pc \in {"stop_mask", "stop_cut"}
    <3>1. pc \in PCs
      BY DEF HalInv, OutputTypeOK
    <3> QED
      BY <1>1, <1>2, <3>1 DEF HalInv, ChannelSound, PCs
  <2> QED
    BY <2>1 DEF HalInv, OrderSound
<1>5. PICK from, n, m \in Nat :
         /\ n <= B /\ m <= B
         /\ Holding(active, from, n)
         /\ IF isr = None THEN Holding(Other(active), from + n, m) /\ pulled = from + n + m
                          ELSE pulled = from + n
         /\ Len(heard) = from + Smaller(dma.off, n)
  BY <1>4 DEF StreamSound
<1>6. audio_buf[dma.buf][dma.off + 1] = IF dma.off + 1 <= n THEN from + (dma.off + 1) ELSE Silence
  BY <1>3, <1>4, <1>5 DEF Holding, Filled, PauseSound
<1>7. /\ Len(heard') = from + Smaller(dma'.off, n)
      /\ Counted'
  <2>1. CASE dma.off + 1 <= n
    <3>1. Len(heard) = from + dma.off /\ Smaller(dma.off + 1, n) = dma.off + 1
      BY <1>2, <1>5, <2>1 DEF Smaller
    <3>2. from + (dma.off + 1) # Silence /\ from + (dma.off + 1) = Len(heard) + 1
      BY <1>2, <1>5, <3>1 DEF Silence
    <3>3. heard' = Append(heard, Len(heard) + 1)
      BY <1>1, <1>6, <2>1, <3>2
    <3>4. /\ Len(heard') = Len(heard) + 1 /\ heard'[Len(heard) + 1] = Len(heard) + 1
          /\ \A k \in 1 .. Len(heard) : heard'[k] = heard[k]
      <4>1. audio_buf[dma.buf][dma.off + 1] \in Frames \cup {Silence}
        <5>1. /\ audio_buf \in [Bufs -> [1 .. B -> Frames \cup {Silence}]] /\ dma.buf \in Bufs
          BY DmaFacts DEF HalInv, OutputTypeOK
        <5>2. audio_buf[dma.buf] \in [1 .. B -> Frames \cup {Silence}]
          BY <5>1
        <5>3. dma.off + 1 \in 1 .. B
          BY <1>3
        <5> QED
          BY <5>2, <5>3
      <4>2. Len(heard) + 1 \in Frames
        BY <1>6, <2>1, <3>2, <4>1
      <4> QED
        BY <1>2, <3>3, <4>2
    <3>5. Counted'
      <4> SUFFICES ASSUME NEW k \in 1 .. Len(heard')
                   PROVE  heard'[k] = k
        BY DEF Counted
      <4>1. Len(heard) \in Nat
        BY <1>2
      <4>2. k = Len(heard) + 1 \/ k \in 1 .. Len(heard)
        BY <3>4, <4>1
      <4> QED
        BY <1>4, <3>4, <4>2 DEF Counted
    <3>6. Len(heard') = from + Smaller(dma'.off, n)
      BY <1>2, <1>3, <1>5, <3>1, <3>4
    <3> QED
      BY <3>5, <3>6
  <2>2. CASE ~(dma.off + 1 <= n)
    <3>1. heard' = heard
      BY <1>1, <1>6, <2>2
    <3>2. Smaller(dma.off, n) = n /\ Smaller(dma.off + 1, n) = n
      BY <1>2, <1>5, <2>2 DEF Smaller
    <3> QED
      BY <1>3, <1>4, <1>5, <3>1, <3>2 DEF Counted
  <2> QED
    BY <2>1, <2>2
<1>8. StreamSound'
  <2>1. /\ Holding(active, from, n)' /\ (Holding(Other(active), from + n, m) <=> Holding(Other(active), from + n, m)')
    BY <1>1, <1>5 DEF Holding, Filled
  <2> QED
    BY <1>1, <1>5, <1>7, <2>1 DEF StreamSound
<1>9. PauseSound'
  <2>1. dma.off + dma.left = B /\ since = dma.off - kick.off /\ dma.buf = active
    BY <1>1, <1>4 DEF PauseSound
  <2>2. dma'.left > 0 => dma'.off + dma'.left = B /\ since' = dma'.off - kick.off
    <3>1. dma'.left > 0 => since + 1 < B
      BY <1>2, <1>3, <2>1
    <3>2. dma'.left > 0 => since' = since + 1
      BY <1>3, <3>1 DEF Smaller
    <3>3. dma'.off + dma'.left = B
      <4>1. dma'.off = dma.off + 1 /\ dma'.left = dma.left - 1
        BY <1>3
      <4> QED
        BY <1>2, <2>1, <4>1
    <3>4. dma'.left > 0 => since' = dma'.off - kick.off
      <4>1. dma'.off = dma.off + 1 /\ since = dma.off - kick.off
        BY <1>3, <2>1
      <4> QED
        BY <1>2, <3>2, <4>1
    <3> QED
      BY <3>3, <3>4
  <2>3. dma.left = 1 => dma'.left = 0 /\ dma'.off = B /\ running
    <3>1. dma.left = 1 => pc = "idle"
      BY <1>1
    <3> QED
      BY <1>1, <1>2, <1>3, <2>1, <3>1 DEF HalInv, ChannelSound
  <2>4. ~running => dma'.off < B /\ pc \notin {"idle", "start_kick"} /\ dma'.left > 0
    <3>1. ~running => pc \notin {"idle", "start_kick"}
      BY <1>1 DEF HalInv, ChannelSound
    <3> QED
      BY <1>1, <1>2, <1>3, <2>1, <3>1
  <2>5. pc \in {"stop_mask", "stop_cut"} => dma'.left > 0
    BY <2>4 DEF HalInv, ChannelSound
  <2>6. /\ dma'.buf = active' /\ kick' = kick /\ kickStops' = kickStops
        /\ running' = running /\ pc' = pc
    BY <1>1, <1>3, <2>1
  <2>7. /\ kickStops = 0 \/ ~running => kick.off = 0 /\ kick.n = B
        /\ ~running => kickStops # 0
    BY <1>4 DEF PauseSound
  <2> QED
    BY <1>3, <2>2, <2>3, <2>4, <2>5, <2>6, <2>7 DEF PauseSound
<1> QED
  BY <1>1, <1>4, <1>7, <1>8, <1>9 DEF OrderSound

\* Time that passes with the channel at rest is not counted as played.
LEMMA IdleTimeOrder ==
    ASSUME HalInv, calls = Gentle, IdleTime
    PROVE  OrderSound'
<1>1. /\ dma.left = 0
      /\ UNCHANGED <<audio_buf, active, running, primed, kick, stop_done,
                     dma, pc, isr, pulled, heard, kickStops>>
  BY DEF IdleTime
<1>2. OrderSound
  BY DEF HalInv
<1>3. StreamSound => StreamSound'
  BY <1>1, StreamKept
<1>4. PauseSound => PauseSound'
  BY <1>1 DEF PauseSound
<1> QED
  BY <1>1, <1>2, <1>3, <1>4 DEF OrderSound, Counted

\* hal_audio_init leaves silence and nothing kicked.
LEMMA InitHal ==
    ASSUME OutputInit
    PROVE  HalInv
<1>1. /\ audio_buf = [b \in Bufs |-> [j \in 1 .. B |-> Silence]]
      /\ active = 0 /\ running = FALSE /\ primed = FALSE
      /\ kick = [off |-> 0, n |-> 0] /\ since = 0 /\ stop_done = 0
      /\ irq_on = FALSE /\ frozen = FALSE
      /\ dma = [buf |-> 0, off |-> 0, left |-> 0, intr |-> FALSE]
      /\ pulled = 0 /\ heard = <<>> /\ pc = "idle" /\ isr = None /\ stops = 0
      /\ kickStops = 0
  BY DEF OutputInit, HalInit
<1>2. /\ 0 \in 0 .. B /\ 0 \in 0 .. MaxStream /\ 0 \in 0 .. MaxStops
      /\ 0 \in Bufs /\ 0 + 0 <= B
  BY HalNumbers DEF Bufs
<1>3. OutputTypeOK
  <2>1. audio_buf \in [Bufs -> [1 .. B -> Frames \cup {Silence}]]
    BY <1>1
  <2>2. kick \in [off : 0 .. B, n : 0 .. B]
    BY <1>1, <1>2
  <2>3. dma \in [buf : Bufs, off : 0 .. B, left : 0 .. B, intr : BOOLEAN]
    BY <1>1, <1>2
  <2>4. /\ active \in Bufs /\ running \in BOOLEAN /\ primed \in BOOLEAN
        /\ since \in 0 .. B /\ stop_done \in 0 .. B
        /\ irq_on \in BOOLEAN /\ frozen \in BOOLEAN
        /\ isr \in Bufs \cup {None} /\ pulled \in 0 .. MaxStream
        /\ stops \in 0 .. MaxStops /\ kickStops \in 0 .. MaxStops
    BY <1>1, <1>2
  <2>5. heard \in Seq(Frames) /\ pc \in PCs
    BY <1>1 DEF PCs
  <2> QED
    BY <2>1, <2>2, <2>3, <2>4, <2>5 DEF OutputTypeOK
<1>4. ChannelSound
  BY <1>1, <1>2 DEF ChannelSound
<1>5. OrderSound
  BY <1>1 DEF OrderSound, Counted
<1> QED
  BY <1>3, <1>4, <1>5 DEF HalInv

\* Every step keeps the invariant.
LEMMA HalStep ==
    ASSUME HalInv, [OutputNext]_outputVars
    PROVE  HalInv'
<1>1. OutputTypeOK' /\ ChannelSound'
  BY SafeStep DEF HalInv
<1>2. calls' = calls
  BY DEF OutputNext, outputVars, Start, Stopping, Isr, StartEnable, Resume,
     ColdStart, Stop, StopMask, StopCut, Close, Open,
         IsrIgnored, IsrKick, IsrRefill, ClockOut, IdleTime, fgVars
<1>3. ASSUME calls = Gentle
      PROVE  OrderSound'
  <2>1. CASE UNCHANGED outputVars
    <3>1. UNCHANGED <<audio_buf, active, running, primed, kick, since, stop_done,
                      dma, pc, isr, pulled, heard, kickStops>>
      BY <2>1 DEF outputVars
    <3>2. OrderSound
      BY <1>3 DEF HalInv
    <3>3. StreamSound => StreamSound'
      BY <3>1, StreamKept
    <3>4. PauseSound => PauseSound'
      BY <3>1 DEF PauseSound
    <3> QED
      BY <3>1, <3>2, <3>3, <3>4 DEF OrderSound, Counted
  <2>2. CASE OutputNext
    BY <1>3, <2>2, ResumeOrder, ColdStartOrder, StoppingOrder, OpeningOrder, IsrOrder,
       ClockOrder, IdleTimeOrder
       DEF OutputNext, Start, Stopping
  <2> QED
    BY <2>1, <2>2
<1> QED
  BY <1>1, <1>2, <1>3 DEF HalInv

\* The inductive invariant of the output: the channel is sound under every
\* pattern of calls, the stream is in order under the gentle one.
THEOREM HalInvariance == OutputSpec => []HalInv
<1>1. OutputSpec => OutputInit /\ [][OutputNext]_outputVars
  BY PTL DEF OutputSpec
<1>2. OutputInit => HalInv
  BY InitHal
<1>3. HalInv /\ [OutputNext]_outputVars => HalInv'
  BY HalStep
<1> QED
  BY <1>1, <1>2, <1>3, PTL

\* For every buffer length, every source and every pattern of calls, the DMA
\* never reads the buffer that is being refilled, nor with the clocks let go.
THEOREM ChannelIsSafe == OutputSpec => []DmaSafe
<1>1. HalInv => DmaSafe
  <2> SUFFICES ASSUME HalInv
               PROVE  RefillNotPlaying /\ ClocksHeld
    BY DEF DmaSafe, HalInv
  <2>1. active \in Bufs
    BY DEF HalInv, OutputTypeOK
  <2> QED
    BY <2>1, OtherFacts DEF HalInv, ChannelSound, RefillNotPlaying, ClocksHeld
<1> QED
  BY <1>1, HalInvariance, PTL

\* Pauses that come one to a buffer, off its boundary, lose no frame, repeat
\* none and swap none: what is heard is the stream from its first frame.
THEOREM NothingDiscarded == OutputSpec => []HeardInOrder
<1>1. HalInv => HeardInOrder
  BY DEF HalInv, HeardInOrder, OrderSound, Counted
<1> QED
  BY <1>1, HalInvariance, PTL

\* Once hal_audio_stop has returned nothing more is clocked out.
THEOREM SilentWhenStopped == OutputSpec => QuietWhenStopped
<1> DEFINE Quiet == pc = "idle" /\ ~running => heard' \in {heard, <<>>}
<1>1. HalInv /\ [OutputNext]_outputVars => [Quiet]_outputVars
  <2> SUFFICES ASSUME HalInv, OutputNext, pc = "idle", ~running
               PROVE  heard' \in {heard, <<>>}
    OBVIOUS
  <2>1. ~ClockOut
    BY DEF ClockOut, HalInv, ChannelSound
  <2> QED
    BY <2>1 DEF OutputNext, Start, Stopping, Isr, StartEnable, Resume,
       ColdStart, Stop, StopMask, StopCut, Close, Open,
                IsrIgnored, IsrKick, IsrRefill, IdleTime
<1>2. OutputSpec => [][OutputNext]_outputVars
  BY PTL DEF OutputSpec
<1>3. OutputSpec => [][Quiet]_outputVars
  <2> HIDE DEF Quiet
  <2> QED
    BY <1>1, <1>2, HalInvariance, PTL
<1> QED
  BY <1>3 DEF QuietWhenStopped, Quiet
=============================================================================
