--------------------------- MODULE StorageProofs ---------------------------
(***************************************************************************)
(* Proofs about what is written to the disk.  The settings (ConfigStore),  *)
(* for every set of settings values, every width of the sequence word and  *)
(* every place the host may put the file, when a readable slot can be read *)
(* (~ReadErrors): the inductive invariant IndInv says that, seen from the  *)
(* slot of the newest record, the other one is torn, one behind, or one    *)
(* ahead and unacknowledged.  And the address they are written at (Fat32), *)
(* for every boot sector and every width of the machine word: FatInv.      *)
(* And the chains of clusters that are read (Fat32), for every file        *)
(* allocation table: ChainInv says how far along its chain each call is.   *)
(***************************************************************************)
EXTENDS ConfigStore, Fat32, ModLemmas, FiniteSetTheorems

-----------------------------------------------------------------------------
(* The settings. *)

\* One step of the sequence word is newer across the wrap, and never both ways.
LEMMA NextSeqNewer ==
    ASSUME NEW n \in SeqNos
    PROVE  /\ NextSeq(n) \in SeqNos
           /\ SeqNewer(NextSeq(n), n)
           /\ ~SeqNewer(n, NextSeq(n))
<1> DEFINE m == SeqMod
<1>1. m \in Nat \ {0} /\ m > 3 /\ n \in 0 .. m - 1 /\ n \in Int
  BY SeqModAssumption DEF SeqNos
<1>2. n % m = n
  BY <1>1, ModSmall
<1>3. ((n + 1) % m) \in 0 .. m - 1
  BY <1>1, Division, n + 1 \in Int
<1>4. (((n + 1) % m) - (n % m)) % m = 1
  <2>1. n + 1 \in Int /\ (n + 1) - n \in 0 .. m - 1 /\ (n + 1) - n = 1
    BY <1>1
  <2> HIDE DEF m
  <2> QED
    BY <2>1, <1>1, ModDistance
<1>5. (n + m * 1) % m = n % m
  BY <1>1, ModShift, 1 \in Int
<1>6. (((n + m) % m) - ((n + 1) % m)) % m = m - 1
  <2>1. n + m \in Int /\ n + 1 \in Int /\ (n + m) - (n + 1) \in 0 .. m - 1 /\ (n + m) - (n + 1) = m - 1
    BY <1>1
  <2> HIDE DEF m
  <2> QED
    BY <2>1, <1>1, ModDistance
<1>7. (n + m) % m = n
  <2>1. n + m * 1 = n + m
    BY <1>1
  <2> QED
    BY <2>1, <1>5, <1>2
<1>8. (n - ((n + 1) % m)) % m = m - 1
  BY <1>6, <1>7
<1>9. (((n + 1) % m) - n) % m = 1
  BY <1>4, <1>2
<1>10. 1 # 0 /\ 2 * 1 < m /\ ~(2 * (m - 1) < m)
  BY <1>1
<1> QED
  BY <1>3, <1>8, <1>9, <1>10 DEF NextSeq, SeqNewer, SeqNos

\* The types of what the invariant is stated with.
LEMMA HomeType ==
    ASSUME TypeOK
    PROVE  /\ Home \in Slots /\ Spare(Home) \in Slots /\ Spare(Home) # Home
           /\ HomeNo \in SeqNos /\ NextSeq(HomeNo) \in SeqNos
           /\ Ahead \subseteq Records /\ Behind \subseteq Records
           /\ good.slot # NoSlot => good.slot \in Slots /\ good.rec \in Records
           /\ good.slot = NoSlot => good.rec = Torn
           /\ Torn \notin Records /\ Clean \notin Records /\ Torn # Clean
<1>1. good.slot # NoSlot => good.slot \in Slots /\ good.rec \in Records
  BY DEF TypeOK, NoGood
<1>2. good.slot = NoSlot => good.rec = Torn
  BY DEF TypeOK, NoGood, Slots, NoSlot
<1>3. Home \in Slots /\ Spare(Home) \in Slots /\ Spare(Home) # Home
  BY <1>1 DEF Home, Spare, Slots
<1>4. HomeNo \in SeqNos
  BY <1>1, SeqModAssumption DEF HomeNo, Records, SeqNos
<1>5. NextSeq(HomeNo) \in SeqNos
  BY <1>4, NextSeqNewer
<1>6. Ahead \subseteq Records /\ Behind \subseteq Records
  BY <1>5 DEF Ahead, Behind, Records, TypeOK
<1>7. Torn \notin Records /\ Clean \notin Records /\ Torn # Clean
  BY SlotAssumption DEF Records, SeqNos
<1> QED
  BY <1>1, <1>2, <1>3, <1>4, <1>5, <1>6, <1>7

LEMMA AheadRecord ==
    ASSUME NEW r \in Ahead
    PROVE  r.seq = NextSeq(HomeNo) /\ r.val \in may
BY DEF Ahead

\* config_load keeps the newest record known, or the one save ahead of it.
LEMMA BestIsHomeOrAhead ==
    ASSUME TypeOK, Usable(geo), SlotShapes
    PROVE  LET b == Best(disk, Slots)
           IN  \/ b = NoSlot /\ good.slot = NoSlot /\ disk[0] = Torn /\ disk[1] = Torn
               \/ b = good.slot /\ b \in Slots /\ disk[b] = good.rec
               \/ b = Spare(Home) /\ b \in Slots /\ disk[b] \in Ahead
<1> DEFINE h == Home
           o == Spare(Home)
           valid == {s \in Slots : disk[s] # Torn}
<1>1. /\ h \in Slots /\ o \in Slots /\ o # h /\ disk[h] = good.rec
      /\ disk[o] \in {Torn} \cup Ahead \cup Behind
  BY HomeType DEF SlotShapes
<1>2. CASE good.slot = NoSlot
  <2>1. h = 0 /\ o = 1 /\ disk[0] = Torn /\ disk[1] \in {Torn} \cup Ahead
    BY <1>1, <1>2, HomeType DEF Home, Spare, Behind
  <2>2. CASE disk[1] = Torn
    <3>1. valid = {}
      BY <2>1, <2>2 DEF Slots
    <3> QED
      BY <3>1, <2>1, <2>2, <1>2 DEF Best
  <2>3. CASE disk[1] # Torn
    <3>1. valid = {1}
      BY <2>1, <2>3 DEF Slots
    <3>2. Best(disk, Slots) = 1
      BY <3>1 DEF Best
    <3> QED
      BY <3>2, <2>1, <2>3 DEF Slots
  <2> QED
    BY <2>2, <2>3
<1>3. CASE good.slot # NoSlot
  <2>1. h = good.slot /\ disk[h] \in Records /\ disk[h] # Torn /\ disk[h].seq = HomeNo /\ HomeNo \in SeqNos
    BY <1>1, <1>3, HomeType DEF Home, HomeNo
  <2>2. (h = 0 /\ o = 1) \/ (h = 1 /\ o = 0)
    BY <1>1 DEF Slots
  <2>3. CASE disk[o] = Torn
    <3>1. valid = {h}
      BY <2>1, <2>2, <2>3 DEF Slots
    <3>2. Best(disk, Slots) = h
      BY <3>1, <2>2 DEF Best
    <3> QED
      BY <3>2, <2>1, <1>1
  <2>4. CASE disk[o] \in Ahead
    <3>1. disk[o] \in Records /\ disk[o].seq = NextSeq(HomeNo) /\ disk[o] # Torn
      BY <2>4, HomeType DEF Ahead
    <3>2. valid = {0, 1}
      BY <2>1, <2>2, <3>1 DEF Slots
    <3>3. SeqNewer(disk[o].seq, disk[h].seq) /\ ~SeqNewer(disk[h].seq, disk[o].seq)
      BY <3>1, <2>1, NextSeqNewer
    <3>4. Best(disk, Slots) = o
      BY <3>2, <3>3, <2>2 DEF Best
    <3> QED
      BY <3>4, <2>4, <1>1
  <2>5. CASE disk[o] \in Behind
    <3>1. disk[o] \in Records /\ NextSeq(disk[o].seq) = HomeNo /\ disk[o] # Torn /\ disk[o].seq \in SeqNos
      BY <2>5, HomeType DEF Behind, Records
    <3>2. valid = {0, 1}
      BY <2>1, <2>2, <3>1 DEF Slots
    <3>3. SeqNewer(disk[h].seq, disk[o].seq) /\ ~SeqNewer(disk[o].seq, disk[h].seq)
      BY <3>1, <2>1, NextSeqNewer
    <3>4. Best(disk, Slots) = h
      BY <3>2, <3>3, <2>2 DEF Best
    <3> QED
      BY <3>4, <2>1, <1>1
  <2> QED
    BY <1>1, <2>3, <2>4, <2>5
<1> QED
  BY <1>2, <1>3

-----------------------------------------------------------------------------
(* Type correctness and the shape of the slots, one action at a time.      *)

\* A file the host has just made: no record, or defaults in slot 0.
LEMMA MadeFile ==
    ASSUME NEW d \in {Fresh, Blank}, NEW g
    PROVE  /\ d \in [Slots -> Records \cup {Torn}]
           /\ \/ Found(g, d, Slots) = NoSlot /\ (Usable(g) => d = Blank)
              \/ Found(g, d, Slots) = 0 /\ d = Fresh /\ Usable(g)
<1>1. Torn \notin Records
  BY SlotAssumption DEF Records, SeqNos
<1>2. 1 \in SeqNos
  BY SeqModAssumption DEF SeqNos
<1>3. d \in [Slots -> Records \cup {Torn}]
  BY <1>2, ValuesAssumption DEF Fresh, Blank, Records
<1>4. CASE d = Blank
  BY <1>3, <1>4 DEF Found, Best, Blank, Slots
<1>5. CASE d = Fresh
  <2>1. d[0] # Torn /\ d[1] = Torn
    BY <1>5, <1>1, <1>2, ValuesAssumption DEF Fresh, Records, Slots
  <2>2. Best(d, Slots) = 0
    BY <2>1 DEF Best, Slots
  <2> QED
    BY <1>3, <2>2, <1>5 DEF Found
<1> QED
  BY <1>4, <1>5

LEMMA InitInvariant == Init => IndInv
<1> SUFFICES ASSUME Init
             PROVE  IndInv
  OBVIOUS
<1> DEFINE s == Found(geo, disk, Slots)
<1>1. 1 \in SeqNos /\ 0 \in SeqNos
  BY SeqModAssumption DEF SeqNos
<1>2. /\ disk \in [Slots -> Records \cup {Torn}]
      /\ \/ s = NoSlot /\ (Usable(geo) => disk = Blank)
         \/ s = 0 /\ disk = Fresh /\ Usable(geo)
  BY MadeFile DEF Init
<1>3. good = GoodAt(disk, s) /\ may = {ValueAt(disk, s)}
  BY DEF Init
<1>4. CASE s = NoSlot
  <2>1. good = NoGood /\ may = {Default} /\ Home = 0 /\ Spare(Home) = 1
    BY <1>3, <1>4 DEF GoodAt, ValueAt, Home, NoGood, Spare
  <2>2. TypeOK
    BY <1>1, <1>2, <2>1, ValuesAssumption
    DEF TypeOK, Init, AllClean, Forgotten, NoSave, Slots
  <2>3. NoFile /\ GoodValue /\ Ram /\ Saving /\ WritesInsideFile
    BY <2>1 DEF Init, NoFile, GoodValue, Ram, Saving, WritesInsideFile, NoGood, Forgotten, NoSlot
  <2>4. SlotShapes
    BY <2>1, <1>2, <1>4 DEF Init, SlotShapes, Blank, AllClean, NoGood, Slots, NoSlot
  <2> QED
    BY <2>2, <2>3, <2>4 DEF IndInv
<1>5. CASE s = 0 /\ disk = Fresh /\ Usable(geo)
  <2>1. /\ good = [slot |-> 0, rec |-> [seq |-> 1, val |-> Default]] /\ may = {Default}
        /\ Home = 0 /\ Spare(Home) = 1
    BY <1>3, <1>5 DEF GoodAt, ValueAt, NoSlot, Fresh, Slots, Home, Spare
  <2>2. TypeOK
    BY <1>1, <1>2, <2>1, ValuesAssumption
    DEF TypeOK, Init, AllClean, Forgotten, NoSave, Slots, Records
  <2>3. NoFile /\ GoodValue /\ Ram /\ Saving /\ WritesInsideFile
    BY <2>1, <1>5 DEF Init, NoFile, GoodValue, Ram, Saving, WritesInsideFile, Forgotten, NoSlot
  <2>4. SlotShapes
    BY <2>1, <1>5 DEF Init, SlotShapes, Fresh, AllClean, Slots
  <2> QED
    BY <2>2, <2>3, <2>4 DEF IndInv
<1> QED
  BY <1>2, <1>4, <1>5

\* The host puts a new file anywhere while the device is off.
LEMMA HostCreateInvariant == IndInv /\ HostCreate => IndInv'
<1> SUFFICES ASSUME IndInv, HostCreate
             PROVE  IndInv'
  OBVIOUS
<1>1. PICK d \in {Fresh, Blank}, g \in Geometries : MadeByHost(d, g)
  BY DEF HostCreate
<1> DEFINE s == Found(g, d, Slots)
<1>2. /\ d \in [Slots -> Records \cup {Torn}]
      /\ \/ s = NoSlot /\ (Usable(g) => d = Blank)
         \/ s = 0 /\ d = Fresh /\ Usable(g)
  BY MadeFile
<1>3. /\ geo' = g /\ disk' = d /\ written' = {}
      /\ good' = GoodAt(d, s) /\ may' = {ValueAt(d, s)}
  BY <1>1 DEF MadeByHost
<1>4. /\ power = "off" /\ cache = AllClean /\ save = NoSave /\ g_cfg = Forgotten
      /\ cache' = cache /\ power' = power /\ g_cfg' = g_cfg /\ loaded' = loaded
      /\ save' = save /\ loaded \in Values
  BY DEF HostCreate, IndInv, TypeOK, Ram, ram
<1>5. 1 \in SeqNos /\ 0 \in SeqNos
  BY SeqModAssumption DEF SeqNos
<1>6. CASE s = NoSlot
  <2>1. good' = NoGood /\ may' = {Default} /\ Home' = 0 /\ Spare(Home)' = 1
    BY <1>3, <1>6 DEF GoodAt, ValueAt, Home, NoGood, Spare
  <2>2. TypeOK'
    BY <1>2, <1>3, <1>4, <1>5, <2>1, ValuesAssumption
    DEF TypeOK, AllClean, Forgotten, NoSave, Slots
  <2>3. (NoFile /\ GoodValue /\ Ram /\ Saving /\ WritesInsideFile)'
    BY <2>1, <1>3, <1>4 DEF NoFile, GoodValue, Ram, Saving, WritesInsideFile, NoGood, Forgotten, NoSlot
  <2>4. SlotShapes'
    BY <2>1, <1>2, <1>3, <1>4, <1>6 DEF SlotShapes, Blank, AllClean, NoGood, Slots, NoSlot
  <2> QED
    BY <2>2, <2>3, <2>4 DEF IndInv
<1>7. CASE s = 0 /\ d = Fresh /\ Usable(g)
  <2>1. /\ good' = [slot |-> 0, rec |-> [seq |-> 1, val |-> Default]] /\ may' = {Default}
        /\ Home' = 0 /\ Spare(Home)' = 1
    BY <1>3, <1>7 DEF GoodAt, ValueAt, NoSlot, Fresh, Slots, Home, Spare
  <2>2. TypeOK'
    BY <1>2, <1>3, <1>4, <1>5, <2>1, ValuesAssumption
    DEF TypeOK, AllClean, Forgotten, NoSave, Slots, Records
  <2>3. (NoFile /\ GoodValue /\ Ram /\ Saving /\ WritesInsideFile)'
    BY <2>1, <1>3, <1>4, <1>7
    DEF NoFile, GoodValue, Ram, Saving, WritesInsideFile, Forgotten, NoSlot
  <2>4. SlotShapes'
    BY <2>1, <1>3, <1>4, <1>7 DEF SlotShapes, Fresh, AllClean, Slots
  <2> QED
    BY <2>2, <2>3, <2>4 DEF IndInv
<1> QED
  BY <1>2, <1>6, <1>7

\* A boot adopts the newest record as the one to keep.
LEMMA BootInvariant ==
    ASSUME ReadErrors = FALSE, IndInv, Boot
    PROVE  IndInv'
<1> DEFINE s == Found(geo, disk, Slots)
<1>1. /\ power = "off" /\ power' = "on" /\ cache = AllClean /\ save = NoSave
      /\ disk' = disk /\ cache' = cache /\ geo' = geo /\ written' = written /\ save' = save
      /\ good' = GoodAt(disk, s) /\ may' = {ValueAt(disk, s)}
      /\ g_cfg' = [found |-> Usable(geo), seq |-> IF s = NoSlot THEN 0 ELSE disk[s].seq,
                   slot |-> IF s = NoSlot THEN 0 ELSE s]
      /\ loaded' = ValueAt(disk, s)
  BY DEF Boot, Loaded, file, IndInv, Ram
<1>0. s = IF Usable(geo) THEN Best(disk, Slots) ELSE NoSlot
  BY DEF Found
<1> HIDE DEF s
<1>8. power' = "on" /\ disk' = disk /\ cache' = cache /\ geo' = geo /\ written' = written /\ save' = save
  BY <1>1
<1>2. TypeOK /\ SlotShapes /\ WritesInsideFile
  BY DEF IndInv
<1>3. (NoFile \/ Usable(geo)) /\ WritesInsideFile' /\ Usable(geo)' = Usable(geo)
      /\ Usable(geo) \in BOOLEAN
  BY <1>1 DEF IndInv, WritesInsideFile, Usable, SlotLba
<1>4. 0 \in SeqNos /\ NextSeq(0) = 1 /\ Torn \notin Records /\ Clean \notin Records
  BY SeqModAssumption, SlotAssumption DEF SeqNos, NextSeq, Records
<1>5. Saving'
  BY <1>1 DEF Saving
<1>6. CASE s = NoSlot
  <2>1. /\ good' = NoGood /\ may' = {Default} /\ loaded' = Default /\ Home' = 0 /\ Spare(Home)' = 1
        /\ HomeNo' = 0 /\ g_cfg' = [found |-> Usable(geo), seq |-> 0, slot |-> 0]
    BY <1>1, <1>6 DEF GoodAt, ValueAt, Home, HomeNo, NoGood, Spare
  <2>2. Usable(geo) => disk[0] = Torn /\ disk[1] = Torn
    <3> SUFFICES ASSUME Usable(geo)
                 PROVE  disk[0] = Torn /\ disk[1] = Torn
      OBVIOUS
    <3>1. Best(disk, Slots) = NoSlot
      BY <1>6, <1>0
    <3> QED
      BY <3>1, <1>2, BestIsHomeOrAhead DEF Slots, NoSlot
  <2>3. TypeOK'
    BY <1>1, <1>2, <1>3, <1>4, <2>1, ValuesAssumption DEF TypeOK, Slots
  <2>4. (NoFile /\ GoodValue /\ Ram)'
    <3>1. GoodValue'
      BY <2>1 DEF GoodValue, NoGood
    <3>2. CASE Usable(geo)
      BY <2>1, <3>1, <3>2, <1>1, <1>3 DEF NoFile, Ram
    <3>3. CASE ~Usable(geo)
      <4>1. ~g_cfg'.found
        BY <2>1, <3>3
      <4> QED
        BY <2>1, <3>1, <3>3, <4>1, <1>1, <1>3 DEF NoFile, Ram
    <3> QED
      BY <1>3, <3>2, <3>3
  <2>5. SlotShapes'
    BY <2>1, <2>2, <1>1, <1>3 DEF SlotShapes, AllClean, NoGood, Slots
  <2> QED
    BY <2>3, <2>4, <2>5, <1>3, <1>5 DEF IndInv
<1>7. CASE s # NoSlot
  <2>1. Usable(geo) /\ s = Best(disk, Slots)
    BY <1>7, <1>0
  <2>2. s \in Slots /\ (\/ s = good.slot /\ disk[s] = good.rec
                        \/ s = Spare(Home) /\ disk[s] \in Ahead)
    <3>1. \/ s = NoSlot
          \/ s = good.slot /\ s \in Slots /\ disk[s] = good.rec
          \/ s = Spare(Home) /\ s \in Slots /\ disk[s] \in Ahead
      BY <1>2, <2>1, BestIsHomeOrAhead
    <3> QED
      BY <3>1, <1>7
  <2>3. disk[s] \in Records
    BY <2>2, <1>2, HomeType, <1>7
  <2>4. /\ good' = [slot |-> s, rec |-> disk[s]] /\ may' = {disk[s].val}
        /\ Home' = s /\ Spare(Home)' = 1 - s /\ HomeNo' = disk[s].seq
        /\ g_cfg' = [found |-> TRUE, seq |-> disk[s].seq, slot |-> s] /\ loaded' = disk[s].val
        /\ disk[s].seq \in SeqNos /\ disk[s].val \in Values
    BY <1>1, <1>7, <2>1, <2>3 DEF GoodAt, ValueAt, Home, HomeNo, Spare, Records
  <2>5. TypeOK'
    <3>1. good' \in [slot : Slots, rec : Records]
      BY <2>2, <2>3, <2>4
    <3>2. g_cfg' \in [found : BOOLEAN, seq : SeqNos, slot : Slots] /\ may' \subseteq Values /\ loaded' \in Values
      BY <2>2, <2>4
    <3> QED
      BY <1>8, <1>2, <3>1, <3>2 DEF TypeOK
  <2>6. (NoFile /\ GoodValue /\ Ram)'
    <3>1. GoodValue'
      BY <2>4, <1>7 DEF GoodValue
    <3>2. NoFile' /\ Ram'
      BY <2>1, <2>4, <1>8, <1>3 DEF NoFile, Ram
    <3> QED
      BY <3>1, <3>2
  <2>7. disk[1 - s] \in {Torn} \cup Ahead' \cup Behind'
    <3>1. CASE s = good.slot /\ disk[s] = good.rec
      <4>1. Home = s /\ HomeNo = disk[s].seq /\ Spare(Home) = 1 - s
        BY <3>1, <1>7 DEF Home, HomeNo, Spare
      <4>2. disk[1 - s] \in {Torn} \cup Ahead \cup Behind
        BY <4>1, <1>2, <2>1 DEF SlotShapes
      <4>3. CASE disk[1 - s] \in Ahead
        <5>1. SeqNewer(disk[1 - s].seq, disk[s].seq) /\ disk[1 - s] \in Records
          BY <4>1, <4>3, <1>2, HomeType, NextSeqNewer, AheadRecord
        <5>2. ~SeqNewer(disk[s].seq, disk[1 - s].seq)
          BY <4>1, <4>3, <1>2, HomeType, NextSeqNewer, AheadRecord
        <5>3. disk[0] # Torn /\ disk[1] # Torn
          BY <5>1, <2>3, <2>2, <1>4 DEF Slots
        <5> QED
          BY <5>1, <5>2, <5>3, <2>1, <2>2 DEF Best, Slots
      <4>4. CASE disk[1 - s] \in Behind
        BY <4>1, <4>4, <2>4, <1>7 DEF Behind
      <4> QED
        BY <4>2, <4>3, <4>4
    <3>2. CASE s = Spare(Home) /\ disk[s] \in Ahead
      <4>1. Home = 1 - s /\ disk[1 - s] = good.rec /\ disk[s].seq = NextSeq(HomeNo)
        BY <3>2, <1>2, <2>1, <2>2, HomeType, AheadRecord DEF SlotShapes, Spare, Slots
      <4>2. CASE good.slot = NoSlot
        BY <4>1, <4>2, <1>2, HomeType
      <4>3. CASE good.slot # NoSlot
        <5>1. good.rec \in Records /\ NextSeq(good.rec.seq) = disk[s].seq
          BY <4>1, <4>3, <1>2, HomeType DEF HomeNo
        <5> QED
          BY <5>1, <4>1, <2>4, <1>7 DEF Behind
      <4> QED
        BY <4>2, <4>3
    <3> QED
      BY <2>2, <3>1, <3>2
  <2>8. SlotShapes'
    BY <2>2, <2>4, <2>7, <1>1 DEF SlotShapes, AllClean, Slots
  <2> QED
    BY <2>5, <2>6, <2>8, <1>3, <1>5 DEF IndInv
<1> QED
  BY <1>6, <1>7

\* A record one ahead of the newest, for a value the next boot may load.
LEMMA AheadIntro ==
    ASSUME NEW v \in may
    PROVE  [seq |-> NextSeq(HomeNo), val |-> v] \in Ahead
BY DEF Ahead

\* The slots as a step that keeps good, disk and geometry leaves them.
LEMMA SaveBeginInvariant ==
    ASSUME IndInv, NEW v \in Values, SaveBegin(v)
    PROVE  IndInv'
<1> DEFINE r == [seq |-> NextSeq(g_cfg.seq), val |-> v]
<1>1. /\ TypeOK /\ NoFile /\ SlotShapes /\ GoodValue /\ Ram /\ WritesInsideFile
      /\ power = "on" /\ save = NoSave /\ g_cfg.found
      /\ save' = [at |-> "write", slot |-> Spare(g_cfg.slot), rec |-> r]
      /\ may' = may \cup {v}
      /\ disk' = disk /\ cache' = cache /\ geo' = geo /\ written' = written
      /\ power' = power /\ g_cfg' = g_cfg /\ loaded' = loaded /\ good' = good
  BY DEF SaveBegin, IndInv, file, ram
<1>2. Usable(geo) /\ Usable(geo)'
  BY <1>1 DEF NoFile, Usable, SlotLba
<1>3. g_cfg.seq = HomeNo /\ g_cfg.slot = Home
  BY <1>1, <1>2 DEF Ram
<1>4. Home' = Home /\ HomeNo' = HomeNo /\ Behind' = Behind /\ Ahead \subseteq Ahead'
  BY <1>1 DEF Home, HomeNo, Behind, Ahead
<1>5. save'.slot = Spare(Home) /\ save'.rec = r /\ r \in Ahead' /\ r \in Records /\ save'.at = "write"
  <2>1. r = [seq |-> NextSeq(HomeNo), val |-> v]
    BY <1>3
  <2>2. r \in Ahead'
    BY <2>1, <1>1, <1>4 DEF Ahead
  <2>3. r \in Records
    BY <2>1, <1>1, HomeType DEF Records
  <2> QED
    BY <2>2, <2>3, <1>1, <1>3
<1>6. TypeOK'
  <2>1. save' \in [at : {"write", "flush"}, slot : Slots, rec : Records]
    BY <1>1, <1>3, <1>5, HomeType
  <2> QED
    BY <1>1, <2>1 DEF TypeOK
<1>7. NoFile' /\ GoodValue' /\ Ram' /\ WritesInsideFile'
  BY <1>1, <1>2, <1>4 DEF NoFile, GoodValue, Ram, WritesInsideFile
<1>8. SlotShapes'
  BY <1>1, <1>2, <1>4 DEF SlotShapes, Spare
<1>9. Saving'
  BY <1>4, <1>5 DEF Saving
<1> QED
  BY <1>6, <1>7, <1>8, <1>9 DEF IndInv

\* The sectors of the slot being saved lie inside the file.
LEMMA IssueInside ==
    ASSUME TypeOK, WritesInsideFile, Saving, save # NoSave, Usable(geo), Issue, geo' = geo
    PROVE  WritesInsideFile' /\ written' \subseteq Nat
<1> DEFINE s == save.slot
           lba == SlotLba(geo, s)
<1>1. s \in {0, 1}
  BY HomeType DEF Saving, Slots
<1>2. geo.base \in Nat /\ geo.run \in Nat /\ geo.part_lba \in Nat
  BY GeometryAssumption DEF TypeOK
<1>3. geo.run >= 4 /\ geo.base % 2 = 0 /\ geo.base > geo.part_lba /\ geo.size >= MinBytes /\ geo.resolves
  BY <1>2 DEF Usable, SlotLba, NoLba, FileSectors, SlotSectors
<1>4. lba = geo.base + s * 2 /\ lba % 2 = 0
  <2>1. (geo.base + 2) % 2 = 0
    BY <1>2, <1>3
  <2>2. SlotLba(geo, 0) = geo.base
    <3>1. geo.base + 0 * 2 = geo.base /\ 0 * 2 + 2 <= geo.run /\ geo.base # 0
      BY <1>2, <1>3
    <3> QED
      BY <3>1, <1>2, <1>3 DEF SlotLba, SlotSectors, FileSectors
  <2>3. SlotLba(geo, 1) = geo.base + 2
    <3>1. geo.base + 1 * 2 = geo.base + 2 /\ 1 * 2 + 2 <= geo.run /\ geo.base + 2 # 0
          /\ geo.base + 2 > geo.part_lba
      BY <1>2, <1>3
    <3> QED
      BY <3>1, <1>3, <2>1 DEF SlotLba, SlotSectors, FileSectors
  <2> QED
    BY <1>1, <1>2, <1>3, <2>1, <2>2, <2>3
<1>5. written' = written \cup {lba, lba + 1}
  <2>1. \A i : i \in 0 .. SlotSectors - 1 <=> i = 0 \/ i = 1
    BY DEF SlotSectors
  <2>2. lba + 0 = lba
    BY <1>1, <1>2, <1>4
  <2> QED
    BY <2>1, <2>2 DEF Issue
<1>7. written \subseteq Nat
  BY DEF TypeOK
<1> HIDE DEF lba, s
<1>6. lba \in Nat /\ (lba + 1) % 2 = 1 /\ lba >= geo.base /\ lba + 1 < geo.base + 4
  <2>1. CASE s = 0
    BY <2>1, <1>2, <1>4
  <2>2. CASE s = 1
    BY <2>2, <1>2, <1>4
  <2> QED
    BY <1>1, <2>1, <2>2
<1>8. ASSUME NEW x \in written'
      PROVE  /\ geo.base <= x /\ x < geo.base + 4
             /\ x < geo.base + geo.run /\ x > geo.part_lba
             /\ x % 2 = 0 => x + 1 \in written'
             /\ x % 2 = 1 => x - 1 \in written'
  <2>1. CASE x \in written
    <3>1. /\ geo.base <= x /\ x < geo.base + 4 /\ x < geo.base + geo.run /\ x > geo.part_lba
          /\ x % 2 = 0 => x + 1 \in written
          /\ x % 2 = 1 => x - 1 \in written
      BY <2>1 DEF WritesInsideFile, FileSectors, SlotSectors
    <3> QED
      BY <3>1, <1>5
  <2>2. CASE x = lba
    BY <2>2, <1>2, <1>3, <1>4, <1>5, <1>6
  <2>3. CASE x = lba + 1
    <3>1. x - 1 = lba /\ x % 2 = 1
      BY <2>3, <1>6
    <3> QED
      BY <2>3, <3>1, <1>2, <1>3, <1>5, <1>6
  <2> QED
    BY <1>5, <2>1, <2>2, <2>3
<1> QED
  BY <1>8, <1>7, <1>5, <1>6 DEF WritesInsideFile, FileSectors, SlotSectors

\* What every step of config_save after the first starts from.
LEMMA SavingShape ==
    ASSUME IndInv, save # NoSave
    PROVE  /\ Usable(geo) /\ power = "on"
           /\ g_cfg = [found |-> TRUE, seq |-> HomeNo, slot |-> Home]
           /\ save \in [at : {"write", "flush"}, slot : Slots, rec : Records]
           /\ save.slot = Spare(Home) /\ save.slot \in Slots /\ save.slot # Home
           /\ save.rec \in Ahead /\ save.rec \in Records
           /\ save.rec.seq = NextSeq(HomeNo) /\ save.rec.val \in may
           /\ Slots = {Home, Spare(Home)}
<1>1. TypeOK /\ Saving /\ Ram /\ NoFile
  BY DEF IndInv
<1>2. Usable(geo) /\ power = "on"
  BY <1>1 DEF NoFile, Ram, TypeOK
<1>3. save.slot = Spare(Home) /\ save.rec \in Ahead
  BY <1>1 DEF Saving
<1>4. Slots = {Home, Spare(Home)}
  BY <1>1, HomeType DEF Slots
<1>5. g_cfg = [found |-> TRUE, seq |-> HomeNo, slot |-> Home]
  BY <1>1, <1>2 DEF Ram
<1>6. save \in [at : {"write", "flush"}, slot : Slots, rec : Records]
  BY <1>1 DEF TypeOK
<1> QED
  BY <1>1, <1>2, <1>3, <1>4, <1>5, <1>6, HomeType, AheadRecord

\* Steps that leave the record to keep and the values the boot may load alone.
SameGood == good' = good /\ may' = may /\ geo' = geo

LEMMA SameGoodKeeps ==
    ASSUME SameGood
    PROVE  /\ Home' = Home /\ HomeNo' = HomeNo /\ Ahead' = Ahead /\ Behind' = Behind
           /\ Spare(Home)' = Spare(Home) /\ Usable(geo)' = Usable(geo)
           /\ GoodValue => GoodValue'
BY DEF SameGood, Home, HomeNo, Ahead, Behind, Spare, Usable, SlotLba, GoodValue

LEMMA WriteDoneInvariant ==
    ASSUME IndInv, WriteDone
    PROVE  IndInv'
<1>1. /\ save # NoSave /\ Issue /\ SameGood
      /\ cache' = [cache EXCEPT ![save.slot] = save.rec]
      /\ save' = [save EXCEPT !.at = "flush"]
      /\ disk' = disk /\ power' = power /\ g_cfg' = g_cfg /\ loaded' = loaded
  BY DEF WriteDone, NoSave, ram, SameGood
<1>2. TypeOK /\ NoFile /\ SlotShapes /\ GoodValue /\ Ram /\ Saving /\ WritesInsideFile
  BY DEF IndInv
<1>3. geo' = geo /\ good' = good /\ may' = may
  BY <1>1 DEF SameGood
<1>4. WritesInsideFile' /\ written' \subseteq Nat
  BY <1>1, <1>2, <1>3, SavingShape, IssueInside
<1>5. /\ save'.at = "flush" /\ save'.slot = save.slot /\ save'.rec = save.rec
      /\ save' \in [at : {"write", "flush"}, slot : Slots, rec : Records]
  BY <1>1, SavingShape
<1>6. cache' \in [Slots -> Records \cup {Torn, Clean}]
  BY <1>1, <1>2, SavingShape DEF TypeOK
<1>7. cache'[save.slot] = save.rec /\ cache'[Home] = cache[Home]
  BY <1>1, <1>2, SavingShape, HomeType DEF TypeOK
<1>8. TypeOK'
  BY <1>1, <1>2, <1>3, <1>4, <1>5, <1>6 DEF TypeOK
<1>9. NoFile' /\ GoodValue' /\ Ram'
  BY <1>1, <1>2, SameGoodKeeps, SavingShape DEF NoFile, Ram
<1>10. SlotShapes'
  BY <1>1, <1>2, <1>3, <1>7, SameGoodKeeps, SavingShape DEF SlotShapes
<1>11. Saving'
  <2>1. Cached(cache', disk')[save.slot] = save.rec
    BY <1>1, <1>2, <1>7, SavingShape, HomeType DEF Cached
  <2> QED
    BY <2>1, <1>5, SameGoodKeeps, <1>1, SavingShape DEF Saving, Cached
<1> QED
  BY <1>4, <1>8, <1>9, <1>10, <1>11 DEF IndInv

LEMMA WriteFailsInvariant ==
    ASSUME IndInv, WriteFails
    PROVE  IndInv'
<1>1. /\ save # NoSave /\ Issue /\ SameGood /\ save' = NoSave
      /\ disk' = disk /\ power' = power /\ g_cfg' = g_cfg /\ loaded' = loaded
  BY DEF WriteFails, NoSave, KeepOnError, SameGood
<1>2. TypeOK /\ NoFile /\ SlotShapes /\ GoodValue /\ Ram /\ Saving /\ WritesInsideFile
  BY DEF IndInv
<1>3. geo' = geo /\ good' = good /\ may' = may
  BY <1>1 DEF SameGood
<1>4. WritesInsideFile' /\ written' \subseteq Nat
  BY <1>1, <1>2, <1>3, SavingShape, IssueInside
<1>5. PICK c \in {cache[save.slot], Torn, save.rec} : cache' = [cache EXCEPT ![save.slot] = c]
  BY DEF WriteFails
<1>6. c \in {Clean, Torn} \cup Ahead /\ c \in Records \cup {Torn, Clean}
  BY <1>1, <1>2, SavingShape, HomeType DEF SlotShapes
<1>7. /\ cache' \in [Slots -> Records \cup {Torn, Clean}]
      /\ cache'[save.slot] = c /\ cache'[Home] = cache[Home]
  BY <1>1, <1>2, <1>5, <1>6, SavingShape, HomeType DEF TypeOK
<1>8. TypeOK'
  BY <1>1, <1>2, <1>3, <1>4, <1>7 DEF TypeOK
<1>9. NoFile' /\ GoodValue' /\ Ram' /\ Saving'
  BY <1>1, <1>2, SameGoodKeeps, SavingShape DEF NoFile, Ram, Saving
<1>10. SlotShapes'
  BY <1>1, <1>2, <1>3, <1>6, <1>7, SameGoodKeeps, SavingShape DEF SlotShapes
<1> QED
  BY <1>4, <1>8, <1>9, <1>10 DEF IndInv

\* The acknowledgement: the saved record is the one to keep, and the slot it
\* replaces is one behind it.
LEMMA FlushDoneInvariant ==
    ASSUME IndInv, FlushDone
    PROVE  IndInv'
<1> DEFINE o == save.slot
           r == save.rec
<1>1. /\ save # NoSave /\ save.at = "flush" /\ save' = NoSave
      /\ disk' = Cached(cache, disk) /\ cache' = AllClean
      /\ g_cfg' = [g_cfg EXCEPT !.seq = r.seq, !.slot = o]
      /\ good' = [slot |-> o, rec |-> r] /\ may' = {r.val}
      /\ geo' = geo /\ written' = written /\ power' = power /\ loaded' = loaded
  BY DEF FlushDone, NoSave, file
<1>2. TypeOK /\ NoFile /\ SlotShapes /\ GoodValue /\ Ram /\ Saving /\ WritesInsideFile
  BY DEF IndInv
<1>3. /\ Usable(geo) /\ power = "on" /\ g_cfg = [found |-> TRUE, seq |-> HomeNo, slot |-> Home]
      /\ o \in Slots /\ o = Spare(Home) /\ r \in Records /\ r.seq = NextSeq(HomeNo)
      /\ Home \in Slots /\ o # Home /\ r.seq \in SeqNos /\ r.val \in Values /\ r.val \in may
      /\ Spare(o) = Home
  BY <1>1, <1>2, SavingShape, HomeType DEF Records, Spare, Slots
<1>4. Usable(geo)' /\ WritesInsideFile'
  BY <1>1, <1>2, <1>3 DEF Usable, SlotLba, WritesInsideFile
<1>5. disk'[o] = r
  BY <1>1, <1>2 DEF Saving
<1>6. disk'[Home] = good.rec
  BY <1>1, <1>2, <1>3 DEF SlotShapes, Cached
<1>7. Home' = o /\ HomeNo' = r.seq /\ Spare(Home)' = Home
  <2>1. good'.slot = o /\ good'.rec = r /\ o # NoSlot
    BY <1>1, <1>3 DEF Slots, NoSlot
  <2> QED
    BY <2>1, <1>3 DEF Home, HomeNo, Spare
<1>8. good.rec \in {Torn} \cup Behind'
  <2>1. CASE good.slot = NoSlot
    BY <2>1, <1>2, HomeType
  <2>2. CASE good.slot # NoSlot
    <3>1. good.rec \in Records /\ HomeNo = good.rec.seq /\ NextSeq(good.rec.seq) = r.seq
      BY <2>2, <1>2, <1>3, HomeType DEF HomeNo
    <3>2. good'.slot # NoSlot
      BY <1>1, <1>3 DEF Slots, NoSlot
    <3> QED
      BY <3>1, <3>2, <1>7 DEF Behind
  <2> QED
    BY <2>1, <2>2
<1>9. disk' \in [Slots -> Records \cup {Torn}]
  <2>1. \A s \in Slots : s = o \/ s = Home
    BY <1>3 DEF Slots
  <2>2. \A s \in Slots : disk'[s] \in Records \cup {Torn}
    BY <2>1, <1>3, <1>5, <1>6, <1>2, HomeType
  <2> QED
    BY <2>2, <1>1 DEF Cached
<1>10. AllClean \in [Slots -> Records \cup {Torn, Clean}]
  BY DEF AllClean
<1>11. g_cfg' = [found |-> TRUE, seq |-> r.seq, slot |-> o]
  BY <1>1, <1>3
<1>12. good' \in [slot : Slots, rec : Records] /\ may' \subseteq Values
  BY <1>1, <1>3
<1>13. TypeOK'
  <2>1. g_cfg' \in [found : BOOLEAN, seq : SeqNos, slot : Slots]
    BY <1>11, <1>3
  <2> QED
    BY <1>1, <1>2, <2>1, <1>9, <1>10, <1>12 DEF TypeOK
<1>14. NoFile' /\ Ram' /\ Saving'
  BY <1>1, <1>3, <1>4, <1>7, <1>11 DEF NoFile, Ram, Saving
<1>15. GoodValue'
  BY <1>1, <1>3 DEF GoodValue, NoSlot, Slots
<1>16. SlotShapes'
  BY <1>1, <1>3, <1>5, <1>6, <1>7, <1>8 DEF SlotShapes, AllClean
<1> QED
  BY <1>4, <1>13, <1>14, <1>15, <1>16 DEF IndInv

LEMMA FlushFailsInvariant ==
    ASSUME IndInv, FlushFails
    PROVE  IndInv'
<1>1. /\ save # NoSave /\ save' = NoSave /\ SameGood /\ written' = written
      /\ power' = power /\ g_cfg' = g_cfg /\ loaded' = loaded
      /\ \/ disk' = disk /\ cache' = cache
         \/ disk' = [disk EXCEPT ![save.slot] = Torn] /\ cache' = AllClean
  BY DEF FlushFails, NoSave, KeepOnError, file, SameGood
<1>2. TypeOK /\ NoFile /\ SlotShapes /\ GoodValue /\ Ram /\ Saving /\ WritesInsideFile
  BY DEF IndInv
<1>3. geo' = geo /\ good' = good /\ may' = may
  BY <1>1 DEF SameGood
<1>4. NoFile' /\ GoodValue' /\ Ram' /\ Saving' /\ WritesInsideFile'
  BY <1>1, <1>2, <1>3, SameGoodKeeps, SavingShape DEF NoFile, Ram, Saving, WritesInsideFile
<1>5. AllClean \in [Slots -> Records \cup {Torn, Clean}]
  BY DEF AllClean
<1>6. TypeOK'
  <2>1. disk' \in [Slots -> Records \cup {Torn}] /\ cache' \in [Slots -> Records \cup {Torn, Clean}]
    BY <1>1, <1>2, <1>5 DEF TypeOK
  <2> QED
    BY <1>1, <1>2, <1>3, <2>1 DEF TypeOK
<1>7. SlotShapes'
  <2>1. CASE disk' = disk /\ cache' = cache
    BY <2>1, <1>1, <1>2, <1>3, SameGoodKeeps DEF SlotShapes
  <2>2. CASE disk' = [disk EXCEPT ![save.slot] = Torn] /\ cache' = AllClean
    <3>1. disk'[Home] = good.rec /\ disk'[Spare(Home)] = Torn
      BY <2>2, <1>1, <1>2, SavingShape, HomeType DEF TypeOK, SlotShapes
    <3> QED
      BY <3>1, <2>2, <1>1, <1>2, <1>3, SameGoodKeeps, HomeType DEF SlotShapes, AllClean
  <2> QED
    BY <1>1, <2>1, <2>2
<1> QED
  BY <1>4, <1>6, <1>7 DEF IndInv

\* Only the other slot is ever cached, so a write-back is harmless any time.
LEMMA WriteBackInvariant ==
    ASSUME IndInv, NEW s \in Slots, WriteBack(s)
    PROVE  IndInv'
<1>1. /\ cache[s] # Clean /\ disk' = [disk EXCEPT ![s] = cache[s]]
      /\ cache' = [cache EXCEPT ![s] = Clean] /\ SameGood /\ written' = written
      /\ power' = power /\ g_cfg' = g_cfg /\ loaded' = loaded /\ save' = save
  BY DEF WriteBack, file, ram, SameGood
<1>2. TypeOK /\ NoFile /\ SlotShapes /\ GoodValue /\ Ram /\ Saving /\ WritesInsideFile
  BY DEF IndInv
<1>3. geo' = geo /\ good' = good /\ may' = may
  BY <1>1 DEF SameGood
<1>4. Usable(geo) /\ power = "on"
  <2>1. cache # AllClean
    BY <1>1 DEF AllClean
  <2> QED
    BY <2>1, <1>2 DEF NoFile, Ram, TypeOK
<1>5. s = Spare(Home) /\ cache[s] \in {Torn} \cup Ahead
  BY <1>1, <1>2, <1>4, HomeType DEF SlotShapes, Slots
<1>6. /\ disk'[s] = cache[s] /\ disk'[Home] = disk[Home]
      /\ cache'[s] = Clean /\ cache'[Home] = cache[Home]
      /\ disk' \in [Slots -> Records \cup {Torn}] /\ cache' \in [Slots -> Records \cup {Torn, Clean}]
  BY <1>1, <1>2, <1>5, HomeType DEF TypeOK
<1>7. TypeOK'
  BY <1>1, <1>2, <1>3, <1>6 DEF TypeOK
<1>8. NoFile' /\ GoodValue' /\ Ram' /\ WritesInsideFile'
  BY <1>1, <1>2, <1>3, <1>4, SameGoodKeeps DEF NoFile, Ram, WritesInsideFile
<1>9. SlotShapes'
  BY <1>1, <1>2, <1>3, <1>4, <1>5, <1>6, SameGoodKeeps DEF SlotShapes
<1>10. Saving'
  <2>1. Cached(cache', disk')[s] = cache[s] /\ Cached(cache, disk)[s] = cache[s]
    BY <1>1, <1>6 DEF Cached
  <2>2. Saving => save = NoSave \/ save.slot = s
    BY <1>5 DEF Saving
  <2> QED
    BY <1>1, <1>2, <2>1, <2>2, SameGoodKeeps DEF Saving, Cached
<1> QED
  BY <1>7, <1>8, <1>9, <1>10 DEF IndInv

LEMMA PowerLossInvariant ==
    ASSUME IndInv, PowerLoss
    PROVE  IndInv'
<1>1. /\ power = "on" /\ power' = "off" /\ cache' = AllClean /\ save' = NoSave
      /\ g_cfg' = Forgotten /\ SameGood /\ written' = written /\ loaded' = loaded
  BY DEF PowerLoss, file, SameGood
<1>2. TypeOK /\ NoFile /\ SlotShapes /\ GoodValue /\ Ram /\ Saving /\ WritesInsideFile
  BY DEF IndInv
<1>3. geo' = geo /\ good' = good /\ may' = may
  BY <1>1 DEF SameGood
<1>4. \A s \in Slots : disk'[s] \in AfterCut(s)
  BY DEF PowerLoss, Slots
<1>5. \A s \in Slots : AfterCut(s) \subseteq Records \cup {Torn}
  <2> SUFFICES ASSUME NEW s \in Slots
               PROVE  AfterCut(s) \subseteq Records \cup {Torn}
    OBVIOUS
  <2>1. disk[s] \in Records \cup {Torn} /\ cache[s] \in Records \cup {Torn, Clean}
    BY <1>2 DEF TypeOK
  <2> QED
    BY <2>1 DEF AfterCut
<1>6. disk' \in [Slots -> Records \cup {Torn}]
  <2>1. PICK a \in AfterCut(0), b \in AfterCut(1) :
             disk' = [s \in Slots |-> IF s = 0 THEN a ELSE b]
    BY DEF PowerLoss
  <2>2. a \in Records \cup {Torn} /\ b \in Records \cup {Torn}
    BY <1>5, <2>1 DEF Slots
  <2> QED
    BY <2>1, <2>2
<1>7. TypeOK'
  <2>1. AllClean \in [Slots -> Records \cup {Torn, Clean}]
    BY DEF AllClean
  <2>2. Forgotten \in [found : BOOLEAN, seq : SeqNos, slot : Slots]
    BY SeqModAssumption DEF Forgotten, SeqNos, Slots
  <2> QED
    BY <1>1, <1>2, <1>3, <1>6, <2>1, <2>2 DEF TypeOK
<1>8. NoFile' /\ GoodValue' /\ Ram' /\ Saving' /\ WritesInsideFile'
  BY <1>1, <1>2, <1>3, SameGoodKeeps DEF NoFile, Ram, Saving, WritesInsideFile, Forgotten
<1>9. SlotShapes'
  <2> SUFFICES ASSUME Usable(geo)
               PROVE  SlotShapes'
    BY SameGoodKeeps, <1>1 DEF SlotShapes
  <2>1. disk'[Home] = good.rec
    <3>1. save.at = "write" => save.slot # Home
      BY <1>2, HomeType DEF Saving, NoSave
    <3> QED
      BY <3>1, <1>2, <1>4, HomeType DEF SlotShapes, AfterCut
  <2>2. disk'[Spare(Home)] \in {Torn} \cup Ahead \cup Behind
    BY <1>2, <1>4, HomeType DEF SlotShapes, AfterCut
  <2> QED
    BY <2>1, <2>2, <1>1, <1>2, <1>3, SameGoodKeeps, HomeType DEF SlotShapes, AllClean
<1> QED
  BY <1>7, <1>8, <1>9 DEF IndInv

-----------------------------------------------------------------------------
LEMMA StepInvariant ==
    ASSUME ReadErrors = FALSE, IndInv, [Next]_vars
    PROVE  IndInv'
<1>1. CASE HostCreate
  BY <1>1, HostCreateInvariant
<1>2. CASE Boot
  BY <1>2, BootInvariant
<1>3. CASE PowerLoss
  BY <1>3, PowerLossInvariant
<1>4. CASE \E v \in Values : SaveBegin(v)
  BY <1>4, SaveBeginInvariant
<1>5. CASE WriteDone
  BY <1>5, WriteDoneInvariant
<1>6. CASE WriteFails
  BY <1>6, WriteFailsInvariant
<1>7. CASE FlushDone
  BY <1>7, FlushDoneInvariant
<1>8. CASE FlushFails
  BY <1>8, FlushFailsInvariant
<1>9. CASE \E s \in Slots : WriteBack(s)
  BY <1>9, WriteBackInvariant
<1>10. CASE UNCHANGED vars
  <2>1. /\ SameGood /\ disk' = disk /\ cache' = cache /\ power' = power /\ g_cfg' = g_cfg
        /\ loaded' = loaded /\ save' = save /\ written' = written /\ geo' = geo
        /\ good' = good /\ may' = may
    BY <1>10 DEF vars, SameGood
  <2>2. TypeOK' /\ SlotShapes' /\ GoodValue' /\ NoFile' /\ Ram' /\ WritesInsideFile'
    BY <2>1, SameGoodKeeps DEF IndInv, TypeOK, SlotShapes, NoFile, Ram, WritesInsideFile
  <2>3. Saving'
    BY <2>1, SameGoodKeeps DEF IndInv, Saving, Cached
  <2> QED
    BY <2>2, <2>3 DEF IndInv
<1> QED
  BY <1>1, <1>2, <1>3, <1>4, <1>5, <1>6, <1>7, <1>8, <1>9, <1>10 DEF Next

\* The inductive invariant holds of every behaviour in which a readable slot
\* can be read at boot.
THEOREM Invariance ==
    ASSUME ReadErrors = FALSE
    PROVE  Spec => []IndInv
<1>1. Init => IndInv
  BY InitInvariant
<1>2. IndInv /\ [Next]_vars => IndInv'
  BY StepInvariant
<1> QED
  BY <1>1, <1>2, PTL DEF Spec

\* Every variable of config.c, the drive and the platter keeps its type.
THEOREM TypeCorrect ==
    ASSUME ReadErrors = FALSE
    PROVE  Spec => []TypeOK
<1>1. IndInv => TypeOK
  BY DEF IndInv
<1> QED
  BY <1>1, Invariance, PTL

\* The record to fall back to is never damaged, whatever fails.
THEOREM GoodRecordSurvives ==
    ASSUME ReadErrors = FALSE
    PROVE  Spec => []GoodSurvives
<1>1. IndInv => GoodSurvives
  BY DEF IndInv, SlotShapes, GoodSurvives, Home, NoFile, NoGood
<1> QED
  BY <1>1, Invariance, PTL

\* config_save never writes outside CORECFG.DAT's first cluster.
THEOREM WritesStayInside ==
    ASSUME ReadErrors = FALSE
    PROVE  Spec => []WritesInsideFile
<1>1. IndInv => WritesInsideFile
  BY DEF IndInv
<1> QED
  BY <1>1, Invariance, PTL

\* Every variable keeps its type, and the writes their place.
THEOREM StoreIsSafe ==
    ASSUME ReadErrors = FALSE
    PROVE  Spec => []StoreSafe
BY TypeCorrect, WritesStayInside, PTL DEF StoreSafe

LEMMA IndInvDurable == IndInv => Durable
<1> SUFFICES ASSUME IndInv
             PROVE  Durable
  OBVIOUS
<1>1. TypeOK /\ SlotShapes /\ GoodValue /\ NoFile
  BY DEF IndInv
<1>2. CASE ~Usable(geo)
  BY <1>1, <1>2 DEF Durable, Found, ValueAt, NoFile
<1>3. CASE Usable(geo)
  <2> DEFINE b == Best(disk, Slots)
  <2>1. \/ b = NoSlot /\ good.slot = NoSlot
        \/ b = good.slot /\ b \in Slots /\ disk[b] = good.rec
        \/ b \in Slots /\ disk[b] \in Ahead
    BY <1>1, <1>3, BestIsHomeOrAhead
  <2>2. Found(geo, disk, Slots) = b
    BY <1>3 DEF Found
  <2> HIDE DEF b
  <2>3. CASE b = NoSlot /\ good.slot = NoSlot
    BY <2>2, <2>3, <1>1 DEF Durable, ValueAt, GoodValue
  <2>4. CASE b = good.slot /\ b \in Slots /\ disk[b] = good.rec
    BY <2>2, <2>4, <1>1 DEF Durable, ValueAt, GoodValue, Slots, NoSlot
  <2>5. CASE b \in Slots /\ disk[b] \in Ahead
    BY <2>2, <2>5, AheadRecord DEF Durable, ValueAt, Slots, NoSlot
  <2> QED
    BY <2>1, <2>3, <2>4, <2>5
<1> QED
  BY <1>2, <1>3

\* What is on the platter, at every instant, is a settings value the firmware
\* was promised: acknowledged, loaded, or being saved.
THEOREM SettingsDurable ==
    ASSUME ReadErrors = FALSE
    PROVE  Spec => []Durable
BY IndInvDurable, Invariance, PTL

-----------------------------------------------------------------------------
(* Refinement: two slots, a cache and a flush are one durable register.    *)

\* Every step of config.c, the drive and the battery is a step of the register
\* config.h describes, or invisible to it.
THEOREM Refinement ==
    ASSUME ReadErrors = FALSE
    PROVE  Spec => ImplementsRegister
<1> DEFINE saving == IF save = NoSave THEN NoValue ELSE save.rec.val
<1>1. Init => Reg!Init
  <2> SUFFICES ASSUME Init
               PROVE  Reg!Init
    OBVIOUS
  <2>1. may = {Default}
    <3>1. disk \in {Fresh, Blank}
      BY DEF Init
    <3>2. Found(geo, disk, Slots) = NoSlot \/ (Found(geo, disk, Slots) = 0 /\ disk = Fresh)
      BY <3>1, MadeFile
    <3> QED
      BY <3>2 DEF Init, ValueAt, Fresh, Slots
  <2>2. loaded = Default /\ save = NoSave
    BY DEF Init
  <2> QED
    BY <2>1, <2>2, ValuesAssumption DEF Reg!Init
<1>2. ASSUME IndInv, [Next]_vars
      PROVE  [Reg!Next]_<<may, loaded, saving>>
  <2>1. save # NoSave => save.rec.val \in Values /\ saving = save.rec.val /\ saving # NoValue
    BY <1>2, SavingShape, ValuesAssumption DEF Records
  <2>2. CASE HostCreate
    <3>1. save = NoSave /\ save' = NoSave /\ loaded' = loaded
      BY <1>2, <2>2 DEF HostCreate, IndInv, Ram, ram
    <3>2. PICK d \in {Fresh, Blank}, g \in Geometries : may' = {ValueAt(d, Found(g, d, Slots))}
      BY <2>2 DEF HostCreate, MadeByHost
    <3>3. ValueAt(d, Found(g, d, Slots)) = Default
      BY MadeFile DEF ValueAt, Fresh, Slots
    <3> QED
      BY <3>1, <3>2, <3>3, ValuesAssumption DEF Reg!Next, Reg!Replace
  <2>3. CASE Boot
    <3>1. save = NoSave /\ save' = NoSave
      BY <1>2, <2>3 DEF Boot, IndInv, Ram
    <3>2. loaded' = ValueAt(disk, Found(geo, disk, Slots)) /\ may' = {loaded'}
      BY <2>3 DEF Boot, Loaded
    <3>3. loaded' \in may
      BY <3>2, <1>2, IndInvDurable DEF Durable
    <3> QED
      BY <3>1, <3>2, <3>3 DEF Reg!Next, Reg!Boot
  <2>4. CASE PowerLoss
    <3>1. save' = NoSave /\ may' = may /\ loaded' = loaded
      BY <2>4 DEF PowerLoss
    <3> QED
      BY <3>1, <2>1 DEF Reg!Next, Reg!GiveUp
  <2>5. CASE \E v \in Values : SaveBegin(v)
    <3>1. PICK v \in Values : SaveBegin(v)
      BY <2>5
    <3>2. save = NoSave /\ save'.rec.val = v /\ save'.at = "write" /\ may' = may \cup {v} /\ loaded' = loaded
      BY <3>1 DEF SaveBegin, ram
    <3>3. save' # NoSave
      BY <3>2 DEF NoSave
    <3> QED
      BY <3>2, <3>3 DEF Reg!Next, Reg!Begin
  <2>6. CASE WriteDone
    <3>1. save # NoSave /\ save' = [save EXCEPT !.at = "flush"] /\ may' = may /\ loaded' = loaded
      BY <2>6 DEF WriteDone, NoSave, ram
    <3>2. save'.rec = save.rec /\ save'.at = "flush"
      BY <1>2, <3>1, SavingShape
    <3> QED
      BY <3>1, <3>2 DEF NoSave
  <2>7. CASE WriteFails \/ FlushFails
    <3>1. save # NoSave /\ save' = NoSave /\ may' = may /\ loaded' = loaded
      BY <2>7 DEF WriteFails, FlushFails, NoSave
    <3> QED
      BY <3>1, <2>1 DEF Reg!Next, Reg!GiveUp
  <2>8. CASE FlushDone
    <3>1. save # NoSave /\ save' = NoSave /\ may' = {save.rec.val} /\ loaded' = loaded
      BY <2>8 DEF FlushDone, NoSave
    <3> QED
      BY <3>1, <2>1 DEF Reg!Next, Reg!Acknowledge
  <2>9. CASE \E s \in Slots : WriteBack(s)
    BY <2>9 DEF WriteBack, ram
  <2>10. CASE UNCHANGED vars
    BY <2>10 DEF vars
  <2> QED
    BY <1>2, <2>2, <2>3, <2>4, <2>5, <2>6, <2>7, <2>8, <2>9, <2>10 DEF Next
<1> QED
  BY <1>1, <1>2, Invariance, PTL DEF Spec, ImplementsRegister, Reg!Spec

-----------------------------------------------------------------------------
(* The address of a cluster. *)

\* A volume is mounted with the geometry of its own boot sector, or not at all.
MountedAsFound ==
    /\ medium.vol \in BootSectors
    /\ fs # Unmounted => Mountable(medium.vol) /\ fs = Geometry(medium.vol)

\* What a resolve has answered is still true of the mounted volume.
AnswerStands ==
    /\ "kind" \in DOMAIN op
    /\ op.kind = "lba" => op.clus \in Named /\ op.addr = FileLba(fs, op.clus)

FatInv == MountedAsFound /\ AnswerStands

-----------------------------------------------------------------------------
\* A quotient is the last number of times the divisor goes into the dividend.
LEMMA QuotientBound ==
    ASSUME NEW a \in Nat, NEW b \in Nat \ {0}, NEW k \in Nat
    PROVE  /\ a \div b \in Nat
           /\ k <= a \div b <=> k * b <= a
<1> DEFINE q == a \div b
           r == a % b
           p == b * q
<1>1. a = p + r /\ q \in Int /\ r \in 0 .. b - 1
  BY Division
<1>2. q \in Nat
  BY <1>1
<1>3. ASSUME k <= q PROVE k * b <= a
  <2>1. (q - k) * b >= 0
    BY <1>2, <1>3
  <2>2. (q - k) * b = p - k * b
    BY <1>2
  <2>3. p \in Int /\ k * b \in Int
    BY <1>2
  <2> HIDE DEF p, q, r
  <2> QED
    BY <1>1, <2>1, <2>2, <2>3
<1>4. ASSUME k > q PROVE k * b > a
  <2>1. (k - q - 1) * b >= 0
    BY <1>2, <1>4
  <2>2. (k - q - 1) * b = k * b - p - b
    BY <1>2
  <2>3. p \in Int /\ k * b \in Int
    BY <1>2
  <2> HIDE DEF p, q, r
  <2> QED
    BY <1>1, <2>1, <2>2, <2>3
<1>5. k * b \in Int
  OBVIOUS
<1> HIDE DEF p, q, r
<1>6. k <= q <=> k * b <= a
  BY <1>2, <1>3, <1>4, <1>5
<1> QED
  BY <1>2, <1>6 DEF q

\* What the geometry of a volume that mounts says, in plain numbers.
LEMMA GeometryFacts ==
    ASSUME NEW v \in BootSectors, Mountable(v), TrueData(v) < Word
    PROVE  LET f == Geometry(v)
           IN  /\ f.part = v.part /\ f.data = TrueData(v) /\ f.spc = v.spc
               /\ f.ratio = v.ratio /\ f.total = Room(v)
               /\ f.total \in Nat /\ f.spc \in Nat \ {0} /\ f.ratio \in Nat \ {0}
               /\ f.data \in Nat \ {0} /\ f.part \in 0 .. Word - 1 /\ Word \in Nat
               /\ \A c \in Nat : c < f.max <=>
                      /\ c < ClusCap /\ c < v.fatsz * PerUnit * v.ratio
                      /\ Room(v) # 0 => c - 2 < Room(v)
<1>1. /\ v.part \in 0 .. Word - 1 /\ v.rsvd \in Nat /\ v.nfats \in Nat /\ v.fatsz \in Nat
      /\ v.spc \in Nat /\ v.ratio \in Nat \ {0} /\ v.tot \in Nat
      /\ v.spc # 0 /\ v.fatsz # 0 /\ v.nfats # 0
      /\ Word \in Nat /\ ClusCap \in Nat /\ ClusCap > 2 /\ PerUnit \in Nat \ {0}
  BY FatAssumption DEF BootSectors, Mountable
<1> DEFINE D == TrueData(v)
           perSec == PerUnit * v.ratio
           total == Room(v)
           byFat == IF v.fatsz > ClusCap \div perSec THEN ClusCap ELSE v.fatsz * perSec
           max == IF total # 0 /\ total < ClusCap - 2 THEN Lesser(total + 2, byFat) ELSE byFat
<1>2. D \in Nat /\ D # 0 /\ D < Word
  <2>1. v.nfats * v.fatsz \in Nat /\ v.nfats * v.fatsz # 0
    BY <1>1
  <2> QED
    BY <1>1, <2>1 DEF TrueData
<1>3. (v.rsvd + v.nfats * v.fatsz) % Word = D
  <2>1. Word \in Nat \ {0} /\ D \in 0 .. Word - 1
    BY <1>1, <1>2
  <2>2. D % Word = D
    BY <2>1, ModSmall
  <2> QED
    BY <2>2 DEF TrueData
<1>4. Geometry(v) = [part |-> v.part, fat |-> v.rsvd, data |-> D, spc |-> v.spc,
                     ratio |-> v.ratio, perSec |-> perSec, total |-> total, max |-> max]
  <2>1. (IF v.tot > D THEN (v.tot - D) \div v.spc ELSE 0) = total
    BY DEF Room
  <2> QED
    BY <1>3, <2>1 DEF Geometry
<1>5. total \in Nat
  <2>1. CASE v.tot > D
    <3>1. v.tot - D \in Nat
      BY <1>1, <1>2, <2>1
    <3> QED
      BY <1>1, <2>1, <3>1, QuotientBound DEF Room
  <2>2. CASE ~(v.tot > D)
    BY <2>2 DEF Room
  <2> QED
    BY <2>1, <2>2
<1>6. perSec \in Nat \ {0} /\ v.fatsz * perSec \in Nat
  BY <1>1
<1>7. v.fatsz * perSec = v.fatsz * PerUnit * v.ratio
  BY <1>1
<1>8. v.fatsz <= ClusCap \div perSec <=> v.fatsz * perSec <= ClusCap
  BY <1>1, <1>6, QuotientBound
<1>9. ClusCap \div perSec \in Nat
  BY <1>1, <1>6, QuotientBound
<1>10. byFat \in Nat /\ \A c \in Nat : c < byFat <=> c < ClusCap /\ c < v.fatsz * perSec
  <2> DEFINE Q == ClusCap \div perSec
             E == v.fatsz * perSec
  <2>1. Q \in Nat /\ E \in Nat /\ v.fatsz \in Nat /\ ClusCap \in Nat
    BY <1>1, <1>6, <1>9
  <2>2. v.fatsz <= Q <=> E <= ClusCap
    BY <1>8
  <2>3. byFat = IF v.fatsz > Q THEN ClusCap ELSE E
    OBVIOUS
  <2> HIDE DEF Q, E, byFat, perSec
  <2>4. byFat \in Nat /\ \A c \in Nat : c < byFat <=> c < ClusCap /\ c < E
    BY <2>1, <2>2, <2>3
  <2> QED
    BY <2>4 DEF E
<1> HIDE DEF byFat, total, D, perSec
<1>11. \A c \in Nat : c < max <=> c < byFat /\ (total # 0 /\ total < ClusCap - 2 => c < total + 2)
  BY <1>5, <1>10 DEF Lesser
<1>12. \A c \in Nat : c < max <=>
          c < ClusCap /\ c < v.fatsz * PerUnit * v.ratio /\ (total # 0 => c - 2 < total)
  BY <1>1, <1>5, <1>7, <1>10, <1>11
<1> HIDE DEF max
<1>13. LET f == Geometry(v)
       IN  /\ f.part = v.part /\ f.data = D /\ f.spc = v.spc
           /\ f.ratio = v.ratio /\ f.total = total /\ f.max = max
  BY <1>4
<1> QED
  BY <1>1, <1>2, <1>5, <1>12, <1>13 DEF D, total

\* A cluster the reader accepts is one the volume has, and the other way
\* round; its sector is not wrapped.
LEMMA ValidFacts ==
    ASSUME NEW v \in BootSectors, Mountable(v), TrueData(v) < Word, NEW c \in Nat
    PROVE  /\ Valid(Geometry(v), c) <=> DataCluster(v, c)
           /\ DataCluster(v, c) =>
                  FsSector(Geometry(v), c) = TrueData(v) + (c - 2) * v.spc
<1> DEFINE f == Geometry(v)
           D == TrueData(v)
           s == v.spc
<1>1. /\ f.data = D /\ f.spc = s /\ D \in Nat \ {0} /\ s \in Nat \ {0}
      /\ Word \in Nat /\ D < Word
      /\ c < f.max <=> /\ c < ClusCap /\ c < v.fatsz * PerUnit * v.ratio
                       /\ Room(v) # 0 => c - 2 < Room(v)
  BY GeometryFacts
<1> HIDE DEF f, D, s
<1>2. ASSUME 2 <= c
      PROVE  /\ (c - 2) * s \in Nat
             /\ c - 2 <= (Word - 1 - f.data) \div f.spc <=> D + (c - 2) * s < Word
  <2> DEFINE k == c - 2
             a == Word - 1 - D
  <2>1. k \in Nat /\ a \in Nat
    BY <1>1, <1>2
  <2> HIDE DEF k, a
  <2>2. k <= a \div s <=> k * s <= a
    BY <1>1, <2>1, QuotientBound
  <2>3. k * s \in Nat
    BY <1>1, <2>1
  <2>4. k * s <= a <=> D + k * s < Word
    <3> DEFINE p == k * s
    <3>1. p \in Nat
      BY <2>3
    <3> HIDE DEF p
    <3>2. p <= a <=> D + p < Word
      BY <1>1, <3>1 DEF a
    <3> QED
      BY <3>2 DEF p
  <2> QED
    BY <1>1, <2>2, <2>3, <2>4 DEF k, a
<1>3. Valid(f, c) <=> DataCluster(v, c)
  BY <1>1, <1>2 DEF Valid, DataCluster, D, s
<1>4. ASSUME DataCluster(v, c) PROVE FsSector(f, c) = D + (c - 2) * s
  <2>1. 2 <= c /\ D + (c - 2) * s < Word
    BY <1>4 DEF DataCluster, D, s
  <2> DEFINE x == D + (c - 2) * s
  <2>2. x \in 0 .. Word - 1 /\ Word \in Nat \ {0}
    BY <1>1, <1>2, <2>1
  <2>3. x % Word = x
    BY <2>2, ModSmall
  <2> QED
    BY <1>1, <2>3 DEF FsSector
<1> QED
  BY <1>3, <1>4 DEF f, D, s

\* The end of a cluster of the volume is inside its data area, and that is
\* inside the volume: n clusters of s sectors behind D, in units of a sector's
\* r-th part.
LEMMA InsideFacts ==
    ASSUME NEW D \in Nat, NEW s \in Nat, NEW r \in Nat, NEW k \in Nat, NEW n \in Nat, k < n
    PROVE  (D + k * s) * r + s * r <= (D + n * s) * r
<1> DEFINE p == k * s
           q == n * s
<1>1. p \in Nat /\ q \in Nat /\ p + s <= q
  <2>1. (n - k - 1) * s >= 0
    OBVIOUS
  <2>2. (n - k - 1) * s = n * s - k * s - s
    OBVIOUS
  <2>3. p \in Nat /\ q \in Nat
    OBVIOUS
  <2> QED
    BY <2>1, <2>2, <2>3
<1> HIDE DEF p, q
<1>2. (q - p - s) * r >= 0
  BY <1>1
<1>3. (q - p - s) * r = (D + q) * r - (D + p) * r - s * r
  BY <1>1
<1>4. (D + q) * r \in Int /\ (D + p) * r \in Int /\ s * r \in Int
  BY <1>1
<1>5. (D + p) * r + s * r <= (D + q) * r
  BY <1>2, <1>3, <1>4
<1> QED
  BY <1>5 DEF p, q

\* fat32_file_lba answers with the address a cluster has, whenever the whole
\* of it can be addressed; otherwise it refuses.
LEMMA FileLbaFacts ==
    ASSUME NEW v \in BootSectors, Mountable(v), TrueData(v) < Word, NEW c \in Nat
    PROVE  LET first == v.part + (TrueData(v) + (c - 2) * v.spc) * v.ratio
               run == v.spc * v.ratio
           IN  FileLba(Geometry(v), c) =
                   IF DataCluster(v, c) /\ first + run < Word
                   THEN [lba |-> first, run |-> run] ELSE Refused
<1> DEFINE f == Geometry(v)
           sec == TrueData(v) + (c - 2) * v.spc
           rel == sec * v.ratio
           run == v.spc * v.ratio
           lba == v.part + rel
           end == v.part + (TrueData(v) + Room(v) * v.spc) * v.ratio
<1>1. /\ f.part = v.part /\ f.data = TrueData(v) /\ f.spc = v.spc
      /\ f.ratio = v.ratio /\ f.total = Room(v)
      /\ Room(v) \in Nat /\ v.spc \in Nat \ {0} /\ v.ratio \in Nat \ {0}
      /\ TrueData(v) \in Nat \ {0} /\ v.part \in 0 .. Word - 1 /\ Word \in Nat
  BY GeometryFacts
<1>2. CASE ~DataCluster(v, c)
  <2>1. ~Valid(f, c)
    BY <1>2, ValidFacts
  <2>2. FileLba(f, c) = Refused
    BY <2>1 DEF FileLba
  <2> QED
    BY <1>2, <2>2
<1>3. CASE DataCluster(v, c)
  <2>1. Valid(f, c) /\ FsSector(f, c) = sec
    BY <1>3, ValidFacts
  <2>2. 2 <= c /\ sec < Word /\ (Room(v) # 0 => c - 2 < Room(v))
    BY <1>3 DEF DataCluster
  <2>3. sec \in Nat \ {0}
    <3>1. (c - 2) * v.spc \in Nat
      BY <1>1, <2>2
    <3> QED
      BY <1>1, <3>1
  <2>4. rel \in Nat \ {0} /\ run \in Nat
    <3> HIDE DEF sec
    <3> QED
      BY <1>1, <2>3
  <2>5. Room(v) # 0 => lba + run <= end
    <3>1. CASE Room(v) # 0
      <4> DEFINE k == c - 2
      <4>1. k \in Nat /\ k < Room(v)
        BY <2>2, <3>1
      <4>2. (TrueData(v) + k * v.spc) * v.ratio + v.spc * v.ratio
                <= (TrueData(v) + Room(v) * v.spc) * v.ratio
        <5> HIDE DEF k
        <5> QED
          BY <1>1, <4>1, InsideFacts
      <4> DEFINE e == (TrueData(v) + Room(v) * v.spc) * v.ratio
      <4>3. e \in Nat
        BY <1>1
      <4>4. rel + run <= e
        BY <4>2
      <4> HIDE DEF e, rel, run
      <4>5. v.part + rel + run <= v.part + e
        BY <1>1, <2>4, <4>3, <4>4
      <4> QED
        BY <4>5 DEF e
    <3> QED
      BY <3>1
  <2>6. sec > (Word - 1) \div v.ratio <=> rel > Word - 1
    <3> HIDE DEF sec
    <3>1. Word - 1 \in Nat
      BY <1>1
    <3>2. /\ (Word - 1) \div v.ratio \in Nat
          /\ sec <= (Word - 1) \div v.ratio <=> sec * v.ratio <= Word - 1
      BY <1>1, <2>3, <3>1, QuotientBound
    <3> DEFINE q == (Word - 1) \div v.ratio
    <3> HIDE DEF q, rel
    <3>3. q \in Nat /\ (sec <= q <=> rel <= Word - 1)
      BY <3>2 DEF q, rel
    <3>4. sec > q <=> rel > Word - 1
      BY <1>1, <2>3, <2>4, <3>3
    <3> QED
      BY <3>4 DEF q
  <2> DEFINE rel32 == rel % Word
             lba32 == (v.part + rel32) % Word
  <2>7. FileLba(f, c) =
            IF \/ rel > Word - 1
               \/ rel32 > Word - 1 - v.part
               \/ lba32 <= v.part
               \/ run > Word - 1 - lba32
               \/ Room(v) # 0 /\ end < Word /\ lba32 + run > end
            THEN Refused ELSE [lba |-> lba32, run |-> run]
    <3>1. f.ratio # 0 /\ f.spc # 0
      BY <1>1
    <3>2. /\ (sec * f.ratio) % Word = rel32 /\ (f.part + rel32) % Word = lba32
          /\ f.spc * f.ratio = run
          /\ f.part + (f.data + f.total * f.spc) * f.ratio = end
      BY <1>1
    <3> HIDE DEF f, sec, rel, run, rel32, lba32, end
    <3>3. FileLba(f, c) =
              IF \/ sec > (Word - 1) \div v.ratio
                 \/ rel32 > Word - 1 - v.part
                 \/ lba32 <= v.part
                 \/ run > Word - 1 - lba32
                 \/ Room(v) # 0 /\ end < Word /\ lba32 + run > end
              THEN Refused ELSE [lba |-> lba32, run |-> run]
      BY <1>1, <2>1, <3>1, <3>2 DEF FileLba
    <3> QED
      BY <2>6, <3>3
  <2>8. end \in Int
    BY <1>1
  <2> HIDE DEF f, rel, run, sec, end, rel32, lba32
  <2>9. FileLba(f, c) = IF lba + run < Word THEN [lba |-> lba, run |-> run] ELSE Refused
    <3>1. CASE rel > Word - 1
      <4>1. ~(lba + run < Word)
        BY <1>1, <2>4, <3>1
      <4> QED
        BY <2>7, <3>1, <4>1
    <3>2. CASE rel <= Word - 1 /\ rel > Word - 1 - v.part
      <4>1. rel32 = rel
        BY <1>1, <2>4, <3>2, ModSmall DEF rel32
      <4>2. ~(lba + run < Word)
        BY <1>1, <2>4, <3>2
      <4> QED
        BY <2>7, <3>2, <4>1, <4>2
    <3>3. CASE rel <= Word - 1 - v.part
      <4>1. rel \in 0 .. Word - 1 /\ lba \in 0 .. Word - 1 /\ Word \in Nat \ {0}
        BY <1>1, <2>4, <3>3
      <4>2. rel32 = rel
        BY <4>1, ModSmall DEF rel32
      <4>3. lba32 = lba
        <5>1. lba % Word = lba
          <6> HIDE DEF lba
          <6> QED
            BY <4>1, ModSmall
        <5> QED
          BY <4>2, <5>1 DEF lba32
      <4>4. ~(rel > Word - 1) /\ ~(rel > Word - 1 - v.part) /\ ~(lba <= v.part)
        BY <1>1, <2>4, <3>3
      <4>5. run > Word - 1 - lba <=> ~(lba + run < Word)
        BY <1>1, <2>4, <4>1
      <4>6. Room(v) # 0 => ~(lba + run > end)
        BY <1>1, <2>4, <2>5, <2>8
      <4> HIDE DEF lba
      <4> QED
        BY <2>7, <4>2, <4>3, <4>4, <4>5, <4>6
    <3>4. rel <= Word - 1 \/ rel > Word - 1
      BY <1>1, <2>4
    <3> QED
      BY <1>1, <2>4, <3>1, <3>2, <3>3, <3>4
  <2> QED
    BY <1>3, <2>9 DEF f, rel, run, sec
<1> QED
  BY <1>2, <1>3

\* What is resolved lies inside a volume whose size is known.
LEMMA InVolumeFacts ==
    ASSUME NEW v \in BootSectors, Mountable(v), TrueData(v) < Word, NEW c \in Nat,
           DataCluster(v, c), Room(v) # 0
    PROVE  v.part + (TrueData(v) + (c - 2) * v.spc) * v.ratio + v.spc * v.ratio
               <= v.part + v.tot * v.ratio
<1> DEFINE D == TrueData(v)
           k == c - 2
           n == Room(v)
<1>1. /\ n \in Nat /\ v.spc \in Nat \ {0} /\ v.ratio \in Nat \ {0}
      /\ D \in Nat \ {0} /\ v.part \in Nat
  BY GeometryFacts
<1>2. k \in Nat /\ k < n
  BY DEF DataCluster
<1>3. v.tot \in Nat /\ v.tot > D /\ n = (v.tot - D) \div v.spc
  BY DEF BootSectors, Room
<1>4. n * v.spc <= v.tot - D
  <2> DEFINE a == v.tot - D
  <2>1. a \in Nat
    BY <1>1, <1>3
  <2> HIDE DEF a, D, n
  <2>2. n <= a \div v.spc <=> n * v.spc <= a
    BY <1>1, <2>1, QuotientBound
  <2>3. n <= a \div v.spc
    BY <1>1, <1>3 DEF a
  <2> QED
    BY <2>2, <2>3 DEF a
<1> HIDE DEF D, k, n
<1>5. (D + k * v.spc) * v.ratio + v.spc * v.ratio <= (D + n * v.spc) * v.ratio
  BY <1>1, <1>2, InsideFacts
<1>6. (D + n * v.spc) * v.ratio <= v.tot * v.ratio
  <2> DEFINE q == n * v.spc
  <2>1. q \in Nat /\ q <= v.tot - D
    BY <1>1, <1>4
  <2> HIDE DEF q
  <2>2. (v.tot - D - q) * v.ratio >= 0
    BY <1>1, <1>3, <2>1
  <2>3. (v.tot - D - q) * v.ratio = v.tot * v.ratio - (D + q) * v.ratio
    BY <1>1, <1>3, <2>1
  <2>4. v.tot * v.ratio \in Int /\ (D + q) * v.ratio \in Int
    BY <1>1, <1>3, <2>1
  <2>5. (D + q) * v.ratio <= v.tot * v.ratio
    BY <2>2, <2>3, <2>4
  <2> QED
    BY <2>5 DEF q
<1> DEFINE x == (D + k * v.spc) * v.ratio
           y == v.spc * v.ratio
           z == (D + n * v.spc) * v.ratio
           w == v.tot * v.ratio
<1>7. x \in Int /\ y \in Int /\ z \in Int /\ w \in Int
  BY <1>1, <1>2, <1>3
<1>8. x + y <= z /\ z <= w
  BY <1>5, <1>6
<1> HIDE DEF x, y, z, w
<1>9. v.part + x + y <= v.part + w
  BY <1>1, <1>7, <1>8
<1> QED
  BY <1>9 DEF x, y, w, D, k

-----------------------------------------------------------------------------
\* A call that is no resolve goes on, or returns, as what it is.
Kept(o) == "kind" \in DOMAIN o /\ o.kind # "lba"

LEMMA KeptStands ==
    ASSUME Kept(op)', UNCHANGED <<medium, fs>>, FatInv
    PROVE  FatInv'
BY DEF Kept, FatInv, MountedAsFound, AnswerStands

LEMMA FatStep == FatInv /\ [FatNext]_fatVars => FatInv'
<1> SUFFICES ASSUME FatInv, [FatNext]_fatVars PROVE FatInv'
  OBVIOUS
<1>0. "kind" \in DOMAIN op
  BY DEF FatInv, AnswerStands
<1>1. CASE Mount
  <2>1. op.kind = "idle" /\ Mountable(medium.vol) /\ fs' = Geometry(medium.vol) /\ UNCHANGED <<medium, op>>
    BY <1>1 DEF Mount
  <2> QED
    BY <2>1 DEF FatInv, MountedAsFound, AnswerStands
<1>2. CASE Returned
  <2>1. Kept(op)' /\ UNCHANGED <<medium, fs>>
    BY <1>2 DEF Returned, Idle, Kept
  <2> QED
    BY <2>1, KeptStands
<1>3. ASSUME NEW c \in Named, Resolve(c) PROVE FatInv'
  <2>1. /\ op' = [kind |-> "lba", clus |-> c, addr |-> FileLba(fs, c), rc |-> 0]
        /\ UNCHANGED <<medium, fs>>
    BY <1>3 DEF Resolve, Start
  <2>2. "kind" \in DOMAIN op' /\ op'.clus = c /\ op'.addr = FileLba(fs, c)
    BY <2>1
  <2>3. AnswerStands'
    BY <2>1, <2>2 DEF AnswerStands
  <2> QED
    BY <2>1, <2>3 DEF FatInv, MountedAsFound
<1>4. CASE DirTurn
  <2> DEFINE read == [op EXCEPT !.seen = Append(@, op.clus), !.guard = @ - 1]
  <2>1. Kept(op) /\ Kept(read)
    BY <1>0, <1>4 DEF DirTurn, Running, Kept
  <2>2. /\ \/ \E rc : op' = [op EXCEPT !.rc = rc]
           \/ \E rc : op' = [read EXCEPT !.rc = rc]
           \/ \E next, slow : op' = [read EXCEPT !.clus = next, !.slow = slow, !.odd = ~@]
        /\ UNCHANGED <<medium, fs>>
    BY <1>4 DEF DirTurn, DirFollow, Returns
  <2> HIDE DEF read
  <2>3. Kept(op)'
    BY <2>1, <2>2 DEF Kept
  <2> QED
    BY <2>2, <2>3, KeptStands
<1>5. CASE FileTurn
  <2> DEFINE n == Lesser(op.len - Len(op.seen), fs.spc)
             read == [op EXCEPT !.seen = @ \o Sectors(op.clus, 0, n), !.guard = @ - 1]
  <2>1. Kept(op) /\ Kept(read)
    BY <1>0, <1>5 DEF FileTurn, Running, Kept
  <2>2. /\ \/ \E rc : op' = [op EXCEPT !.rc = rc]
           \/ \E rc : op' = [read EXCEPT !.rc = rc]
           \/ \E next : op' = [read EXCEPT !.clus = next]
        /\ UNCHANGED <<medium, fs>>
    BY <1>5 DEF FileTurn, FileNext, FileFollow, Returns
  <2> HIDE DEF read
  <2>3. Kept(op)'
    BY <2>1, <2>2 DEF Kept
  <2> QED
    BY <2>2, <2>3, KeptStands
<1>6. CASE StreamTurn
  <2> DEFINE n == Lesser(Lesser(op.len - op.got, st.left), fs.spc - st.off)
             moved == [op EXCEPT !.got = @ + n, !.guard = @ - 1]
  <2>1. Kept(op) /\ Kept(moved)
    BY <1>0, <1>6 DEF StreamTurn, Running, Kept
  <2>2. /\ \/ \E rc : op' = [op EXCEPT !.rc = rc]
           \/ \E rc : op' = [moved EXCEPT !.rc = rc]
           \/ op' = moved
        /\ UNCHANGED <<medium, fs>>
    BY <1>6 DEF StreamTurn, StreamAdvance, Stuck, Returns
  <2> HIDE DEF moved
  <2>3. Kept(op)'
    BY <2>1, <2>2 DEF Kept
  <2> QED
    BY <2>2, <2>3, KeptStands
<1>7. ASSUME NEW c \in Starts, NEW x,
             ReadDir(c, x) \/ ReadFile(c, x)
      PROVE  FatInv'
  <2>1. Kept(op)' /\ UNCHANGED <<medium, fs>>
    BY <1>7 DEF ReadDir, ReadFile, Start, Kept
  <2> QED
    BY <2>1, KeptStands
<1>8. ASSUME NEW n \in Lens, StreamCall("read", n) \/ StreamCall("skip", n) PROVE FatInv'
  <2>1. Kept(op)' /\ UNCHANGED <<medium, fs>>
    BY <1>8 DEF StreamCall, Start, Kept
  <2> QED
    BY <2>1, KeptStands
<1>9. CASE UNCHANGED <<medium, fs, op>>
  BY <1>9 DEF FatInv, MountedAsFound, AnswerStands
<1>10. ASSUME NEW c \in Starts, NEW n \in Sizes, StreamOpen(c, n) PROVE FatInv'
  BY <1>9, <1>10 DEF StreamOpen
<1>11. CASE UNCHANGED fatVars
  BY <1>9, <1>11 DEF fatVars
<1> QED
  BY <1>1, <1>2, <1>3, <1>4, <1>5, <1>6, <1>7, <1>8, <1>10, <1>11 DEF FatNext

\* The geometry in use is that of the volume's boot sector, for as long as it
\* is mounted, and what was resolved is resolved by it.
THEOREM FatInvariance == FatSpec => []FatInv
<1>1. FatInit => FatInv
  BY FatAssumption DEF FatInit, Idle, FatInv, MountedAsFound, AnswerStands
<1> QED
  BY <1>1, FatStep, PTL DEF FatSpec

\* fat32_file_lba, whatever the boot sector says and however wide the word: it
\* answers with exactly the address a cluster has, inside the volume, or it
\* refuses; a cluster that can be addressed is never refused.
THEOREM AddressIsExact == FatSpec => []LbaExact
<1>1. FatInv => LbaExact
  <2> SUFFICES ASSUME FatInv, op.kind = "lba" PROVE LbaExact
    BY DEF LbaExact
  <2>1. op.clus \in Nat /\ op.addr = FileLba(fs, op.clus) /\ medium.vol \in BootSectors
    BY FatAssumption DEF FatInv, AnswerStands, MountedAsFound
  <2>2. CASE fs = Unmounted
    <3>1. op.addr = Refused
      BY <2>1, <2>2 DEF FileLba, Unmounted
    <3> QED
      BY <2>2, <3>1 DEF LbaExact
  <2>3. CASE fs # Unmounted /\ TrueData(medium.vol) < Word
    <3> DEFINE v == medium.vol
               c == op.clus
               first == v.part + (TrueData(v) + (c - 2) * v.spc) * v.ratio
               run == v.spc * v.ratio
    <3>1. Mountable(v) /\ fs = Geometry(v)
      BY <2>3 DEF FatInv, MountedAsFound
    <3>2. op.addr = IF DataCluster(v, c) /\ first + run < Word
                    THEN [lba |-> first, run |-> run] ELSE Refused
      BY <2>1, <2>3, <3>1, FileLbaFacts
    <3>3. ASSUME op.addr # Refused, Room(v) # 0
          PROVE  op.addr.lba + op.addr.run <= v.part + v.tot * v.ratio
      <4>1. DataCluster(v, c) /\ op.addr = [lba |-> first, run |-> run]
        BY <3>2, <3>3
      <4>2. first + run <= v.part + v.tot * v.ratio
        BY <2>1, <2>3, <3>1, <3>3, <4>1, InVolumeFacts
      <4> QED
        BY <4>1, <4>2
    <3> HIDE DEF first, run
    <3>4. /\ IF DataCluster(v, c) /\ first + run < Word
             THEN op.addr = [lba |-> first, run |-> run]
             ELSE op.addr = Refused
          /\ op.addr # Refused /\ Room(v) # 0 =>
                 op.addr.lba + op.addr.run <= v.part + v.tot * v.ratio
      BY <3>2, <3>3
    <3> QED
      BY <2>3, <3>4 DEF LbaExact, first, run
  <2>4. CASE fs # Unmounted /\ ~(TrueData(medium.vol) < Word)
    BY <2>4 DEF LbaExact
  <2> QED
    BY <2>2, <2>3, <2>4
<1> QED
  BY <1>1, FatInvariance, PTL

-----------------------------------------------------------------------------
(* The chains: where every call stands. *)

\* The calls of a listing, of a file read and of a stream, and the stream.
DirCall ==
    [kind : {"dir"}, start : Nat, stop : Nat, clus : Nat, slow : Nat, odd : BOOLEAN,
     guard : Nat, seen : Seq(Nat), rc : {Pending, 0, Eio, Ecorrupt}]
FileCall ==
    [kind : {"file"}, start : Nat, len : Nat, clus : Nat, guard : Nat,
     seen : Seq(Nat \X Nat), rc : Nat \cup {Pending, Eio, Ecorrupt}]
StreamCalls ==
    [kind : {"read", "skip"}, len : Nat, got : Nat, from : Nat, guard : Nat,
     rc : Nat \cup {Pending, Eio, Ecorrupt}]
Stream ==
    [clus : Nat, off : Nat, left : Nat, start : Nat, size : Nat, over : Seq(Nat \X Nat)]

\* A walk is k links from its start, or past the end of the chain.
At(c, start, k) == IF OnDisk(Walk(start)[k]) THEN c = Walk(start)[k] ELSE ~OnDisk(c)

\* A listing under way is as far along its chain as it has clusters, and the
\* tortoise half as far; it has not been met.
DirGoesOn(o) ==
    LET chain == Walk(o.start)
        n == Len(o.seen)
    IN  /\ At(o.clus, o.start, n)
        /\ n > 0 => o.seen[n] # o.stop
        /\ OnDisk(chain[n]) => o.slow = chain[n \div 2] /\ (o.odd <=> n % 2 = 1)
        /\ \A m \in 1 .. n : OnDisk(chain[m]) => chain[m] # chain[m \div 2]

\* What holds of a listing: it has spent one turn of its limit per cluster.
DirInv(o) ==
    /\ o \in DirCall
    /\ o.guard + Len(o.seen) = DirLimit
    /\ o.rc = Pending => DirGoesOn(o)
    /\ DirFaithful(o)

\* A read under way has spent one turn of the guard on every cluster behind it.
FileGoesOn(o) ==
    /\ o.guard <= fs.max /\ Len(o.seen) = (fs.max - o.guard) * fs.spc
    /\ At(o.clus, o.start, fs.max - o.guard)

\* What holds of a read of a file.
FileInv(o) ==
    /\ o \in FileCall
    /\ o.rc = Pending => FileGoesOn(o)
    /\ FileFaithful(o)

\* The cursor stands in cluster k of its file.
StreamAt(s, o, k) ==
    /\ Len(s.over) = k * fs.spc + s.off /\ s.off <= fs.spc
    /\ s.off = fs.spc => s.left = 0
    /\ At(s.clus, s.start, k)
    /\ o.kind \in {"read", "skip"} /\ o.rc = Pending /\ o.got < o.len /\ s.left > 0 =>
           fs.max <= o.guard + k

\* ... or is lost, and no call goes on from there.
StreamInv(s, o) ==
    /\ s \in Stream /\ s.off <= fs.spc
    /\ s.clus = Fails \/ \E k \in Nat : StreamAt(s, o, k)
    /\ o.kind \in {"read", "skip"} => o \in StreamCalls /\ o.got <= o.len
    /\ StreamFaithful(s, o)

\* Every set of numbers has a least one.
LEMMA LeastNumber ==
    ASSUME NEW T \in SUBSET Nat, T # {}
    PROVE  \E m \in T : \A k \in T : m <= k
<1> DEFINE R == OpToRel(<, Nat)
<1>1. \A x, y \in Nat : x < y => <<x, y>> \in R
  BY DEF OpToRel
<1>2. IsWellFoundedOn(R, Nat)
  BY NatLessThanWellFounded
<1> HIDE DEF R
<1>3. PICK m \in T : \A y \in T : ~(<<y, m>> \in R)
  BY <1>2, WFMin
<1>4. \A k \in T : ~(k < m) /\ k \in Nat /\ m \in Nat
  BY <1>1, <1>3
<1> QED
  BY <1>4

\* Induction, over a set.
LEMMA EveryNumber ==
    ASSUME NEW T, 0 \in T, \A n \in Nat : n \in T => n + 1 \in T
    PROVE  \A n \in Nat : n \in T
<1> DEFINE S == {n \in Nat : n \notin T}
<1>1. S = {}
  <2> SUFFICES ASSUME S # {} PROVE FALSE
    OBVIOUS
  <2>1. PICK m \in S : \A k \in S : m <= k
    <3>1. S \in SUBSET Nat
      OBVIOUS
    <3> HIDE DEF S
    <3> QED
      BY <3>1, LeastNumber
  <2>2. m \in Nat /\ m \notin T /\ m # 0
    BY <2>1
  <2>3. m - 1 \in Nat /\ m - 1 < m /\ (m - 1) + 1 = m
    BY <2>2
  <2>4. m - 1 \notin S
    <3> HIDE DEF S
    <3> QED
      BY <2>1, <2>2, <2>3
  <2>5. m - 1 \in T
    BY <2>3, <2>4
  <2> QED
    BY <2>2, <2>3, <2>5
<1> QED
  BY <1>1

-----------------------------------------------------------------------------
(* The walk along a chain. *)

\* The walk goes from its start along the links.
LEMMA WalkUnfolds ==
    ASSUME NEW start
    PROVE  /\ Walk(start)[0] = start
           /\ \A i \in Nat : Walk(start)[i + 1] = Link(Walk(start)[i])
<1> DEFINE Step(w, k) == IF k = 0 THEN start ELSE Link(w[k - 1])
           Upto(f, m) == DOMAIN f = 0 .. m /\ \A k \in 0 .. m : f[k] = Step(f, k)
           T == {m \in Nat : \E f : Upto(f, m)}
<1>1. 0 \in T
  <2>1. Upto([k \in 0 .. 0 |-> start], 0)
    OBVIOUS
  <2> QED
    BY <2>1
<1>2. ASSUME NEW m \in Nat, m \in T
      PROVE  m + 1 \in T
  <2> PICK f : Upto(f, m)
    BY <1>2
  <2> DEFINE g == [k \in 0 .. m + 1 |-> IF k = m + 1 THEN Link(f[m]) ELSE f[k]]
  <2>1. Upto(g, m + 1)
    <3>1. DOMAIN g = 0 .. m + 1
      OBVIOUS
    <3>2. ASSUME NEW k \in 0 .. m + 1
          PROVE  g[k] = Step(g, k)
      <4>1. CASE k = m + 1
        <5>1. k # 0 /\ k - 1 = m /\ m \in 0 .. m + 1 /\ m # m + 1
          BY <4>1
        <5>2. g[m] = f[m]
          BY <5>1
        <5> QED
          BY <4>1, <5>1, <5>2
      <4>2. CASE k # m + 1
        <5>1. k \in 0 .. m /\ g[k] = f[k]
          BY <4>2
        <5>2. k # 0 => k - 1 \in 0 .. m + 1 /\ k - 1 # m + 1 /\ g[k - 1] = f[k - 1]
          BY <5>1
        <5> HIDE DEF g
        <5> QED
          BY <5>1, <5>2
      <4> QED
        BY <4>1, <4>2
    <3> HIDE DEF g
    <3> QED
      BY <3>1, <3>2
  <2> HIDE DEF g, Upto
  <2>2. \E h : Upto(h, m + 1)
    BY <2>1
  <2> QED
    BY <2>2
<1>3. \A m \in Nat : m \in T
  <2> HIDE DEF T
  <2> QED
    BY <1>1, <1>2, EveryNumber
<1> DEFINE F == [m \in Nat |-> CHOOSE f : Upto(f, m)]
<1> HIDE DEF Upto
<1>4. \A m \in Nat : Upto(F[m], m)
  BY <1>3
<1> HIDE DEF F, T
<1>5. \A m \in Nat : F[m][0] = start /\ \A k \in Nat : k + 1 <= m => F[m][k + 1] = Link(F[m][k])
  <2> TAKE m \in Nat
  <2>1. \A k \in 0 .. m : F[m][k] = Step(F[m], k)
    BY <1>4 DEF Upto
  <2>2. 0 \in 0 .. m
    OBVIOUS
  <2>3. \A k \in Nat : k + 1 <= m => k + 1 \in 0 .. m /\ k + 1 # 0 /\ (k + 1) - 1 = k
    OBVIOUS
  <2> QED
    BY <2>1, <2>2, <2>3
<1> DEFINE A == {k \in Nat : \A m \in Nat : k <= m => F[m][k] = F[k][k]}
<1>6. \A k \in Nat : k \in A
  <2>1. 0 \in A
    BY <1>5
  <2>2. ASSUME NEW k \in Nat, k \in A
        PROVE  k + 1 \in A
    <3>1. F[k + 1][k + 1] = Link(F[k][k])
      BY <1>5, <2>2
    <3>2. \A m \in Nat : k + 1 <= m => k <= m
      OBVIOUS
    <3>3. \A m \in Nat : k + 1 <= m => F[m][k + 1] = Link(F[k][k])
      BY <1>5, <2>2, <3>2
    <3> QED
      BY <3>1, <3>3
  <2> HIDE DEF A
  <2> QED
    BY <2>1, <2>2, EveryNumber
<1> DEFINE h == [k \in Nat |-> F[k][k]]
<1>7. \A k \in Nat : h[k] = Step(h, k)
  <2>1. \A k \in Nat : h[k] = F[k][k]
    OBVIOUS
  <2> HIDE DEF h
  <2>2. h[0] = start
    BY <1>5, <2>1
  <2>3. ASSUME NEW k \in Nat, k # 0
        PROVE  h[k] = Link(h[k - 1])
    <3>1. k - 1 \in Nat /\ (k - 1) + 1 = k /\ k - 1 <= k
      BY <2>3
    <3>2. F[k][(k - 1) + 1] = Link(F[k][k - 1])
      BY <1>5, <3>1
    <3>3. F[k][k - 1] = F[k - 1][k - 1]
      BY <1>6, <3>1
    <3> QED
      BY <2>1, <3>1, <3>2, <3>3
  <2> QED
    BY <2>2, <2>3
<1>8. h = [k \in Nat |-> Step(h, k)]
  <2>1. h = [k \in Nat |-> h[k]]
    OBVIOUS
  <2> HIDE DEF h
  <2> QED
    BY <1>7, <2>1
<1> HIDE DEF h
<1> DEFINE W == Walk(start)
<1>9. W = [k \in Nat |-> Step(W, k)]
  <2>1. W = CHOOSE w : w = [k \in Nat |-> Step(w, k)]
    BY DEF Walk
  <2> HIDE DEF W
  <2> QED
    BY <1>8, <2>1
<1> HIDE DEF W
<1>10. \A k \in Nat : W[k] = Step(W, k)
  <2> DEFINE G == [k \in Nat |-> Step(W, k)]
  <2>1. \A k \in Nat : G[k] = Step(W, k)
    OBVIOUS
  <2>2. W = G
    BY <1>9
  <2> HIDE DEF G, Step
  <2> QED
    BY <2>1, <2>2
<1>11. \A i \in Nat : i + 1 \in Nat /\ i + 1 # 0 /\ (i + 1) - 1 = i
  OBVIOUS
<1> QED
  BY <1>10, <1>11 DEF W

\* What the table links to are numbers, and the end of a chain is no cluster.
LEMMA LinkFacts ==
    ASSUME medium \in Disks
    PROVE  /\ ClusCap \in Nat /\ Eoc \in Nat /\ ~OnDisk(Eoc)
           /\ \A c \in Nat : OnDisk(c) => c \in 2 .. ClusCap - 1 /\ medium.fat[c] \in Nat
           /\ \A c \in Nat : Link(c) \in Nat /\ (OnDisk(Link(c)) => OnDisk(c))
<1>1. ClusCap \in Nat /\ ClusCap > 2 /\ PerUnit \in Nat
  BY FatAssumption
<1>2. Eoc \in Nat /\ ~OnDisk(Eoc)
  BY <1>1 DEF Eoc, OnDisk, DataCluster
<1>3. \A c \in Nat : OnDisk(c) => c \in 2 .. ClusCap - 1 /\ c < medium.vol.fatsz * PerUnit * medium.vol.ratio
  BY <1>1 DEF OnDisk, DataCluster
<1>4. \A c \in Nat : OnDisk(c) => medium.fat[c] \in Nat
  BY <1>3, FatAssumption
<1>5. \A c \in Nat : Link(c) \in Nat /\ (OnDisk(Link(c)) => OnDisk(c))
  BY <1>2, <1>4 DEF Link
<1> QED
  BY <1>1, <1>2, <1>3, <1>4, <1>5

\* A walk is one of numbers, and once it has left the chain it does not
\* come back.
LEMMA WalkFacts ==
    ASSUME medium \in Disks, NEW start \in Nat
    PROVE  /\ \A i \in Nat : Walk(start)[i] \in Nat
           /\ \A i, j \in Nat : i <= j /\ OnDisk(Walk(start)[j]) => OnDisk(Walk(start)[i])
<1> DEFINE w == Walk(start)
<1>1. w[0] = start /\ \A i \in Nat : w[i + 1] = Link(w[i])
  BY WalkUnfolds
<1> HIDE DEF w
<1> DEFINE T == {i \in Nat : w[i] \in Nat}
<1>2. \A i \in Nat : i \in T
  <2>1. 0 \in T
    BY <1>1
  <2>2. ASSUME NEW i \in Nat, i \in T PROVE i + 1 \in T
    BY <1>1, <2>2, LinkFacts
  <2> HIDE DEF T
  <2> QED
    BY <2>1, <2>2, EveryNumber
<1>3. \A i \in Nat : w[i] \in Nat
  BY <1>2
<1> DEFINE U == {j \in Nat : OnDisk(w[j]) => \A i \in Nat : i <= j => OnDisk(w[i])}
<1>4. \A j \in Nat : j \in U
  <2>1. 0 \in U
    <3>1. \A i \in Nat : i <= 0 => i = 0
      OBVIOUS
    <3> QED
      BY <3>1
  <2>2. ASSUME NEW j \in Nat, j \in U PROVE j + 1 \in U
    <3>1. \A i \in Nat : i <= j + 1 => i <= j \/ i = j + 1
      OBVIOUS
    <3>2. OnDisk(w[j + 1]) => OnDisk(w[j])
      BY <1>1, <1>3, LinkFacts
    <3> QED
      BY <2>2, <3>1, <3>2
  <2> HIDE DEF U
  <2> QED
    BY <2>1, <2>2, EveryNumber
<1>5. \A i, j \in Nat : i <= j /\ OnDisk(w[j]) => OnDisk(w[i])
  BY <1>4
<1> QED
  BY <1>3, <1>5 DEF w

\* From the same cluster the walk goes on in the same way.
LEMMA SameWayOn ==
    ASSUME NEW start, NEW i \in Nat, NEW j \in Nat, Walk(start)[i] = Walk(start)[j]
    PROVE  \A m \in Nat : Walk(start)[i + m] = Walk(start)[j + m]
<1> DEFINE w == Walk(start)
<1>1. \A k \in Nat : w[k + 1] = Link(w[k])
  BY WalkUnfolds
<1>2. w[i] = w[j]
  OBVIOUS
<1> HIDE DEF w
<1> DEFINE T == {m \in Nat : w[i + m] = w[j + m]}
<1>3. 0 \in T
  BY <1>2
<1>4. ASSUME NEW m \in Nat, m \in T PROVE m + 1 \in T
  <2>1. i + (m + 1) = (i + m) + 1 /\ j + (m + 1) = (j + m) + 1 /\ i + m \in Nat /\ j + m \in Nat
    OBVIOUS
  <2> QED
    BY <1>1, <1>4, <2>1
<1> HIDE DEF T
<1>5. \A m \in Nat : m \in T
  BY <1>3, <1>4, EveryNumber
<1> QED
  BY <1>5 DEF T, w

\* A walk that comes back to a cluster never leaves the chain.
LEMMA RepeatIsCyclic ==
    ASSUME medium \in Disks, NEW start \in Nat, NEW i \in Nat, NEW j \in Nat, i < j,
           Walk(start)[i] = Walk(start)[j], OnDisk(Walk(start)[j])
    PROVE  Cyclic(start) /\ \A k \in Nat : OnDisk(Walk(start)[k])
<1> DEFINE w == Walk(start)
           S == {k \in Nat : ~OnDisk(w[k])}
<1>1. S = {}
  <2> SUFFICES ASSUME S # {} PROVE FALSE
    OBVIOUS
  <2>1. PICK k \in S : \A l \in S : k <= l
    <3>1. S \in SUBSET Nat
      OBVIOUS
    <3> HIDE DEF S
    <3> QED
      BY <3>1, LeastNumber
  <2>2. k \in Nat /\ ~OnDisk(w[k])
    BY <2>1
  <2>3. j < k
    <3>1. \A a, b \in Nat : a <= b /\ OnDisk(w[b]) => OnDisk(w[a])
      BY WalkFacts
    <3>2. OnDisk(w[j])
      OBVIOUS
    <3> HIDE DEF w
    <3> QED
      BY <2>2, <3>1, <3>2
  <2>4. k - j \in Nat /\ j + (k - j) = k /\ i + (k - j) \in Nat /\ i + (k - j) < k
    BY <2>2, <2>3
  <2>5. w[i + (k - j)] = w[k]
    <3>1. \A m \in Nat : w[i + m] = w[j + m]
      BY SameWayOn
    <3> HIDE DEF w
    <3>2. w[i + (k - j)] = w[j + (k - j)]
      BY <2>4, <3>1
    <3> QED
      BY <2>4, <3>2
  <2>6. i + (k - j) \notin S
    <3> HIDE DEF S
    <3> QED
      BY <2>1, <2>2, <2>4
  <2>7. OnDisk(w[i + (k - j)])
    BY <2>4, <2>6
  <2> QED
    BY <2>2, <2>5, <2>7
<1>2. \A k \in Nat : OnDisk(w[k])
  BY <1>1
<1>3. ClusCap \in Nat
  BY LinkFacts
<1> QED
  BY <1>2, <1>3 DEF Cyclic

\* A walk over more clusters than there are comes back.
LEMMA TooLongRepeats ==
    ASSUME medium \in Disks, NEW start \in Nat, NEW n \in Nat,
           \A c \in Nat : OnDisk(c) => c < n,
           OnDisk(Walk(start)[n])
    PROVE  \E i, j \in 0 .. n : i < j /\ Walk(start)[i] = Walk(start)[j]
<1> DEFINE w == Walk(start)
           f == [i \in 0 .. n |-> w[i]]
<1>1. \A i \in 0 .. n : w[i] \in 0 .. n - 1
  <2> TAKE i \in 0 .. n
  <2>1. w[i] \in Nat /\ OnDisk(w[i])
    BY WalkFacts
  <2> HIDE DEF w
  <2> QED
    BY <2>1
<1> HIDE DEF w
<1>2. f \in [0 .. n -> 0 .. n - 1] /\ \A i \in 0 .. n : f[i] = w[i]
  BY <1>1
<1> HIDE DEF f
<1>3. IsFiniteSet(0 .. n) /\ Cardinality(0 .. n) = n + 1
  BY FS_Interval
<1>4. IsFiniteSet(0 .. n - 1) /\ Cardinality(0 .. n - 1) = n
  <2>1. n - 1 \in Int /\ 0 \in Int
    OBVIOUS
  <2>2. IsFiniteSet(0 .. n - 1) /\ Cardinality(0 .. n - 1) = IF 0 > n - 1 THEN 0 ELSE (n - 1) - 0 + 1
    BY <2>1, FS_Interval
  <2> QED
    BY <2>2
<1>5. Cardinality(0 .. n - 1) < Cardinality(0 .. n)
  BY <1>3, <1>4
<1>6. \E x, y \in 0 .. n : x # y /\ f[x] = f[y]
  <2> DEFINE S == 0 .. n
             T == 0 .. n - 1
  <2>1. IsFiniteSet(S) /\ IsFiniteSet(T) /\ Cardinality(T) < Cardinality(S) /\ f \in [S -> T]
    BY <1>2, <1>3, <1>4, <1>5
  <2> HIDE DEF S, T
  <2>2. \E x, y \in S : x # y /\ f[x] = f[y]
    BY <2>1, FS_PigeonHole
  <2> QED
    BY <2>2 DEF S
<1>7. PICK x \in 0 .. n, y \in 0 .. n : x # y /\ w[x] = w[y]
  BY <1>2, <1>6
<1>8. x < y \/ y < x
  BY <1>7
<1> QED
  BY <1>7, <1>8 DEF w

\* Cyclic is what it says: the walk comes back, and never leaves the chain.
LEMMA CyclicFacts ==
    ASSUME medium \in Disks, NEW start \in Nat, Cyclic(start)
    PROVE  /\ \E i, j \in 0 .. ClusCap : i < j /\ Walk(start)[i] = Walk(start)[j]
           /\ \A k \in Nat : OnDisk(Walk(start)[k])
<1>1. /\ ClusCap \in Nat
      /\ \A c \in Nat : OnDisk(c) => c \in 2 .. ClusCap - 1
  BY LinkFacts
<1>2. \A c \in Nat : OnDisk(c) => c < ClusCap
  BY <1>1
<1>3. OnDisk(Walk(start)[ClusCap])
  BY <1>1 DEF Cyclic
<1>4. PICK i \in 0 .. ClusCap, j \in 0 .. ClusCap : i < j /\ Walk(start)[i] = Walk(start)[j]
  BY <1>1, <1>2, <1>3, TooLongRepeats
<1>5. OnDisk(Walk(start)[j]) /\ i \in Nat /\ j \in Nat
  BY <1>1 DEF Cyclic
<1> QED
  BY <1>4, <1>5, RepeatIsCyclic

\* On a cycle the walk is back after any number of rounds.
LEMMA RoundsFacts ==
    ASSUME NEW start, NEW i \in Nat, NEW r \in Nat, Walk(start)[i] = Walk(start)[i + r]
    PROVE  \A q, a \in Nat : i <= a => Walk(start)[a + q * r] = Walk(start)[a]
<1> DEFINE w == Walk(start)
<1>1. \A m \in Nat : w[i + m] = w[(i + r) + m]
  BY i + r \in Nat, SameWayOn
<1> HIDE DEF w
<1>2. \A a \in Nat : i <= a => w[a + r] = w[a]
  <2> SUFFICES ASSUME NEW a \in Nat, i <= a PROVE w[a + r] = w[a]
    OBVIOUS
  <2>1. a - i \in Nat /\ i + (a - i) = a /\ (i + r) + (a - i) = a + r
    OBVIOUS
  <2>2. w[i + (a - i)] = w[(i + r) + (a - i)]
    BY <1>1, <2>1
  <2> QED
    BY <2>1, <2>2
<1> DEFINE T == {q \in Nat : \A a \in Nat : i <= a => w[a + q * r] = w[a]}
<1>3. 0 \in T
  <2>1. \A a \in Nat : a + 0 * r = a
    OBVIOUS
  <2> QED
    BY <2>1
<1>4. ASSUME NEW q \in Nat, q \in T PROVE q + 1 \in T
  <2> SUFFICES ASSUME NEW a \in Nat, i <= a PROVE w[a + (q + 1) * r] = w[a]
    OBVIOUS
  <2> DEFINE p == q * r
  <2>1. p \in Nat /\ (q + 1) * r = p + r
    OBVIOUS
  <2>2. w[a + p] = w[a]
    BY <1>4
  <2> HIDE DEF p
  <2>3. a + p \in Nat /\ i <= a + p /\ a + (p + r) = (a + p) + r
    BY <2>1
  <2>4. w[(a + p) + r] = w[a + p]
    BY <1>2, <2>3
  <2> QED
    BY <2>1, <2>2, <2>3, <2>4
<1> HIDE DEF T
<1>5. \A q \in Nat : q \in T
  BY <1>3, <1>4, EveryNumber
<1> QED
  BY <1>5 DEF T, w

\* A tortoise at half the speed is met before the walk has gone twice over
\* the clusters of the cycle and the way there.
LEMMA TortoiseIsMet ==
    ASSUME medium \in Disks, NEW start \in Nat, Cyclic(start), NEW n \in Nat,
           \A m \in 1 .. n : Walk(start)[m] # Walk(start)[m \div 2]
    PROVE  Reach(start) \in Nat /\ n + 1 < 2 * Reach(start)
<1> DEFINE w == Walk(start)
           J == {j \in Nat : \E i \in Nat : i < j /\ w[i] = w[j]}
           R == {w[k] : k \in 0 .. ClusCap}
<1>1. ClusCap \in Nat /\ \E i, j \in 0 .. ClusCap : i < j /\ w[i] = w[j]
  BY LinkFacts, CyclicFacts
<1>2. Reach(start) = Cardinality(R)
  BY DEF Reach
<1>3. \A i, r \in Nat : w[i] = w[i + r] => \A q, a \in Nat : i <= a => w[a + q * r] = w[a]
  BY RoundsFacts
<1>4. \A m \in 1 .. n : w[m] # w[m \div 2]
  OBVIOUS
<1> HIDE DEF w
<1>5. PICK j \in J : \A k \in J : j <= k
  <2>1. J \in SUBSET Nat /\ J # {}
    BY <1>1
  <2> HIDE DEF J
  <2> QED
    BY <2>1, LeastNumber
<1>6. j \in Nat /\ j <= ClusCap
  <2>1. \E k \in J : k <= ClusCap
    BY <1>1
  <2>2. j \in Nat /\ \A k \in J : k \in Nat
    OBVIOUS
  <2> HIDE DEF J
  <2> QED
    BY <1>1, <1>5, <2>1, <2>2
<1>7. PICK i \in Nat : i < j /\ w[i] = w[j]
  OBVIOUS
<1>8. \A a, b \in 0 .. j - 1 : w[a] = w[b] => a = b
  <2>1. \A b \in Nat : b < j => b \notin J
    <3> HIDE DEF J
    <3> QED
      BY <1>5, <1>6
  <2> SUFFICES ASSUME NEW a \in 0 .. j - 1, NEW b \in 0 .. j - 1, w[a] = w[b], a < b PROVE FALSE
    <3>1. \A a, b \in 0 .. j - 1 : a = b \/ a < b \/ b < a
      BY <1>6
    <3> QED
      BY <3>1
  <2>2. b \in J
    BY <1>6
  <2> HIDE DEF J
  <2> QED
    BY <1>6, <2>1, <2>2
<1> HIDE DEF J
<1>9. j <= Reach(start) /\ Reach(start) \in Nat
  <2> DEFINE f == [a \in 0 .. j - 1 |-> w[a]]
             g == [k \in 0 .. ClusCap |-> w[k]]
  <2>1. f \in Injection(0 .. j - 1, R)
    <3>1. \A a \in 0 .. j - 1 : w[a] \in R
      BY <1>1, <1>6
    <3> HIDE DEF R
    <3> QED
      BY <1>8, <3>1 DEF Injection, IsInjective
  <2>2. g \in Surjection(0 .. ClusCap, R)
    BY DEF Surjection
  <2> HIDE DEF f, g, R
  <2>3. IsFiniteSet(0 .. ClusCap)
    BY <1>1, FS_Interval
  <2>4. IsFiniteSet(R)
    BY <2>2, <2>3, FS_Surjection
  <2>5. Cardinality(0 .. j - 1) = j
    <3>1. j - 1 \in Int /\ 0 \in Int /\ 0 <= j - 1
      BY <1>6, <1>7
    <3> DEFINE t == j - 1
    <3>2. t \in Int /\ ~(0 > t) /\ t - 0 + 1 = j
      BY <1>6, <1>7
    <3> HIDE DEF t
    <3>3. Cardinality(0 .. t) = IF 0 > t THEN 0 ELSE t - 0 + 1
      BY <3>1, <3>2, FS_Interval
    <3>4. Cardinality(0 .. t) = j
      BY <3>2, <3>3
    <3> QED
      BY <3>4 DEF t
  <2>6. j <= Cardinality(R)
    BY <2>1, <2>4, <2>5, FS_Injection
  <2>7. Cardinality(R) \in Nat
    BY <2>4, FS_CardinalityType
  <2> QED
    BY <1>2, <2>6, <2>7
<1> DEFINE r == j - i
           q == i \div r + 1
           k == q * r
<1>10. r \in Nat \ {0} /\ i + r = j
  BY <1>6, <1>7
<1>11. q \in Nat /\ k \in Nat /\ i < k /\ k <= j
  <2> DEFINE d == i \div r
             e == i % r
             p == r * d
  <2>0. i \in Int /\ r \in Nat \ {0}
    BY <1>10
  <2> HIDE DEF r
  <2>1. i = p + e /\ d \in Int /\ e \in 0 .. r - 1
    BY <2>0, Division
  <2>2. d \in Nat
    BY <1>10, QuotientBound
  <2>3. k = p + r /\ p \in Nat
    BY <1>10, <2>2
  <2>4. q \in Nat
    BY <2>2
  <2> HIDE DEF r, q, k, d, e, p
  <2> QED
    BY <1>10, <2>1, <2>3, <2>4
<1>12. w[(k - 1) + k] = w[k - 1]
  <2> HIDE DEF r, q
  <2>1. \A a \in Nat : i <= a => w[a + k] = w[a]
    BY <1>3, <1>7, <1>10, <1>11
  <2> HIDE DEF k
  <2>2. k - 1 \in Nat /\ i <= k - 1
    BY <1>11
  <2> QED
    BY <2>1, <2>2
<1> HIDE DEF r, q, k
<1>13. (k - 1) + k \in Nat /\ (k - 1) + k >= 1 /\ ((k - 1) + k) \div 2 = k - 1
  BY <1>11
<1>14. (k - 1) + k \notin 1 .. n
  BY <1>4, <1>12, <1>13
<1>15. n < (k - 1) + k
  BY <1>13, <1>14
<1> QED
  BY <1>6, <1>9, <1>11, <1>15

-----------------------------------------------------------------------------
(* The content of a file. *)

\* The cluster of a sector, and its place there.
LEMMA PlaceFacts ==
    ASSUME NEW s \in Nat \ {0}, NEW k \in Nat, NEW e \in 0 .. s - 1
    PROVE  (k * s + e) \div s = k /\ (k * s + e) % s = e
<1> DEFINE p == k * s
           a == p + e
           d == a \div s
           r == a % s
<1>1. p \in Nat /\ (k + 1) * s = p + s /\ a \in Nat
  OBVIOUS
<1>2. d \in Nat /\ (k <= d <=> k * s <= a) /\ (k + 1 <= d <=> (k + 1) * s <= a)
  BY <1>1, QuotientBound
<1>3. a = s * d + r /\ r \in 0 .. s - 1
  BY <1>1, Division
<1>4. s * k = p
  OBVIOUS
<1>5. a = p + e /\ k * s = p
  OBVIOUS
<1> HIDE DEF p, a, d, r
<1>6. d = k
  BY <1>1, <1>2, <1>5
<1>7. a = p + r
  BY <1>3, <1>4, <1>6
<1>8. r = e
  BY <1>1, <1>3, <1>5, <1>7
<1> QED
  BY <1>6, <1>8 DEF p, a, d, r

\* How much of a file there is: up to the end of its chain.
LEMMA ThereFacts ==
    ASSUME medium \in Disks, medium.vol.spc \in Nat \ {0}, NEW start \in Nat, NEW n \in Nat
    PROVE  /\ There(start, n) \in 0 .. n
           /\ \A k \in Nat : ~OnDisk(Walk(start)[k]) => There(start, n) <= k * medium.vol.spc
           /\ \A m \in 0 .. n :
                  (m > 0 => OnDisk(Walk(start)[(m - 1) \div medium.vol.spc])) => m <= There(start, n)
<1> DEFINE s == medium.vol.spc
           w == Walk(start)
           X == {i \in 1 .. n : OnDisk(w[(i - 1) \div s])}
           N == There(start, n)
<1>1. N = Cardinality(X)
  BY DEF There
<1>2. \A i, j \in Nat : i <= j /\ OnDisk(w[j]) => OnDisk(w[i])
  BY WalkFacts
<1>3. s \in Nat \ {0}
  OBVIOUS
<1> HIDE DEF w, s, N
<1>4. \A a, b \in Nat : a \div s \in Nat /\ (b <= a \div s <=> b * s <= a)
  BY <1>3, QuotientBound
<1>5. \A m \in Nat : IsFiniteSet(1 .. m) /\ Cardinality(1 .. m) = m
  <2> TAKE m \in Nat
  <2>1. IsFiniteSet(1 .. m) /\ Cardinality(1 .. m) = IF 1 > m THEN 0 ELSE m - 1 + 1
    BY FS_Interval
  <2> QED
    BY <2>1
<1>6. \A m \in Nat : X \subseteq 1 .. m => N \in Nat /\ N <= m
  <2> HIDE DEF X
  <2> TAKE m \in Nat
  <2>1. ASSUME X \subseteq 1 .. m PROVE N \in Nat /\ N <= m
    <3>1. X \in SUBSET (1 .. m) /\ IsFiniteSet(1 .. m)
      BY <1>5, <2>1
    <3>2. IsFiniteSet(X) /\ Cardinality(X) <= Cardinality(1 .. m)
      BY <3>1, FS_Subset
    <3> QED
      BY <1>1, <1>5, <3>2, FS_CardinalityType
  <2> QED
    BY <2>1
<1>7. N \in 0 .. n
  BY <1>6
<1>8. ASSUME NEW k \in Nat, ~OnDisk(w[k]) PROVE N <= k * s
  <2>1. k * s \in Nat
    BY <1>3
  <2>2. ASSUME NEW i \in X PROVE i \in 1 .. k * s
    <3>1. i \in 1 .. n /\ OnDisk(w[(i - 1) \div s]) /\ i - 1 \in Nat
      OBVIOUS
    <3> HIDE DEF X
    <3>2. ~(k <= (i - 1) \div s)
      BY <1>2, <1>4, <1>8, <3>1
    <3>3. ~(k * s <= i - 1)
      BY <1>4, <3>1, <3>2
    <3> QED
      BY <2>1, <3>1, <3>3
  <2>3. X \subseteq 1 .. k * s
    BY <2>2
  <2> HIDE DEF X
  <2> QED
    BY <1>6, <2>1, <2>3
<1>9. ASSUME NEW m \in 0 .. n, m > 0 => OnDisk(w[(m - 1) \div s]) PROVE m <= N
  <2>1. ASSUME NEW i \in 1 .. m PROVE OnDisk(w[(i - 1) \div s])
    <3> DEFINE d == (i - 1) \div s
               e == (m - 1) \div s
    <3>1. i - 1 \in Nat /\ m - 1 \in Nat /\ i - 1 <= m - 1 /\ m > 0
      OBVIOUS
    <3>2. d \in Nat /\ e \in Nat /\ d * s <= i - 1 /\ (d <= e <=> d * s <= m - 1)
      BY <1>4, <3>1
    <3>3. d * s \in Int
      BY <1>3, <3>2
    <3>4. OnDisk(w[e])
      BY <1>9, <3>1
    <3> HIDE DEF d, e
    <3>5. d <= e
      BY <3>1, <3>2, <3>3
    <3>6. OnDisk(w[d])
      BY <1>2, <3>2, <3>4, <3>5
    <3> QED
      BY <3>6 DEF d
  <2>2. (1 .. m) \in SUBSET X
    BY <2>1
  <2>3. X \in SUBSET (1 .. n)
    OBVIOUS
  <2> HIDE DEF X
  <2>4. IsFiniteSet(X)
    BY <1>5, <2>3, FS_Subset
  <2>5. Cardinality(1 .. m) <= Cardinality(X) /\ Cardinality(1 .. m) = m
    BY <1>5, <2>2, <2>4, FS_Subset
  <2> QED
    BY <1>1, <2>5
<1> QED
  BY <1>7, <1>8, <1>9 DEF s, w, N

\* The content of a file, sector by sector.
LEMMA ContentFacts ==
    ASSUME medium \in Disks, medium.vol.spc \in Nat \ {0}, NEW start \in Nat, NEW n \in Nat
    PROVE  /\ Content(start, n) \in Seq(Nat \X Nat) /\ Len(Content(start, n)) = n
           /\ DOMAIN Content(start, n) = 1 .. n
           /\ \A i \in 1 .. n : Content(start, n)[i] =
                  <<Walk(start)[(i - 1) \div medium.vol.spc], (i - 1) % medium.vol.spc>>
<1> DEFINE s == medium.vol.spc
           w == Walk(start)
           C == Content(start, n)
<1>1. C = [i \in 1 .. n |-> <<w[(i - 1) \div s], (i - 1) % s>>]
  BY DEF Content
<1>2. s \in Nat \ {0} /\ \A i \in Nat : w[i] \in Nat
  BY WalkFacts
<1> HIDE DEF w, s, C
<1>3. \A i \in 1 .. n : (i - 1) \div s \in Nat /\ (i - 1) % s \in Nat
  <2> TAKE i \in 1 .. n
  <2> DEFINE j == i - 1
             d == j \div s
             r == j % s
  <2>1. j \in Nat /\ j \in Int /\ 0 \in Nat
    OBVIOUS
  <2> HIDE DEF j
  <2>2. d \in Nat
    BY <1>2, <2>1, QuotientBound
  <2>3. r \in 0 .. s - 1
    BY <1>2, <2>1, Division
  <2> HIDE DEF d, r
  <2>4. d \in Nat /\ r \in Nat
    BY <1>2, <2>2, <2>3
  <2> QED
    BY <2>4 DEF d, r, j
<1>4. C \in [1 .. n -> Nat \X Nat]
  BY <1>1, <1>2, <1>3
<1>5. DOMAIN C = 1 .. n /\ \A i \in 1 .. n : C[i] = <<w[(i - 1) \div s], (i - 1) % s>>
  BY <1>1
<1>6. C \in Seq(Nat \X Nat) /\ Len(C) = n
  BY <1>4
<1> QED
  BY <1>5, <1>6 DEF C, w, s

\* Sector n of a file is sector off of its cluster k.
Placed(n, k, off) == n = k * medium.vol.spc + off

\* What was delivered, and t more sectors.
With(seen, c, off, t) == seen \o Sectors(c, off, t)

\* Reading on in a cluster.
LEMMA ContentGrows ==
    ASSUME medium \in Disks, medium.vol.spc \in Nat \ {0}, NEW start \in Nat,
           NEW k \in Nat, NEW off \in Nat, NEW t \in Nat, off + t <= medium.vol.spc,
           NEW l \in Nat, Placed(l, k, off)
    PROVE  With(Content(start, l), Walk(start)[k], off, t) = Content(start, l + t)
<1> DEFINE s == medium.vol.spc
           w == Walk(start)
           n == k * s + off
           A == Content(start, n)
           S == Sectors(w[k], off, t)
           B == Content(start, n + t)
<1>1. s \in Nat \ {0} /\ n \in Nat /\ n + t \in Nat /\ off + t <= s
  OBVIOUS
<1>2. /\ A \in Seq(Nat \X Nat) /\ Len(A) = n /\ DOMAIN A = 1 .. n
      /\ \A i \in 1 .. n : A[i] = <<w[(i - 1) \div s], (i - 1) % s>>
  BY <1>1, ContentFacts
<1>3. /\ B \in Seq(Nat \X Nat) /\ Len(B) = n + t /\ DOMAIN B = 1 .. n + t
      /\ \A i \in 1 .. n + t : B[i] = <<w[(i - 1) \div s], (i - 1) % s>>
  BY <1>1, ContentFacts
<1>4. w[k] \in Nat
  BY WalkFacts
<1>5. S = [i \in 1 .. t |-> <<w[k], off + i - 1>>]
  BY DEF Sectors
<1>6. \A e \in 0 .. s - 1 : (k * s + e) \div s = k /\ (k * s + e) % s = e
  BY <1>1, PlaceFacts
<1> DEFINE p == k * s
<1>7. p \in Nat /\ n = p + off
  BY <1>1
<1> HIDE DEF A, B, S, w, s, n, p
<1>8. S \in Seq(Nat \X Nat) /\ Len(S) = t /\ \A i \in 1 .. t : S[i] = <<w[k], off + i - 1>>
  <2>1. ASSUME NEW i \in 1 .. t PROVE <<w[k], off + i - 1>> \in Nat \X Nat
    <3>1. off + i - 1 \in Nat
      OBVIOUS
    <3> QED
      BY <1>4, <3>1
  <2>2. S \in [1 .. t -> Nat \X Nat]
    BY <1>5, <2>1
  <2>3. \A i \in 1 .. t : S[i] = <<w[k], off + i - 1>>
    BY <1>5
  <2>4. t \in Nat
    OBVIOUS
  <2> QED
    BY <2>2, <2>3, <2>4
<1>9. \A i \in 1 .. t : B[n + i] = S[i]
  <2> TAKE i \in 1 .. t
  <2> DEFINE e == off + i - 1
  <2>1. e \in 0 .. s - 1 /\ n + i \in 1 .. n + t /\ (n + i) - 1 = p + e
    BY <1>1, <1>7
  <2>2. B[n + i] = <<w[(p + e) \div s], (p + e) % s>>
    BY <1>3, <2>1
  <2> HIDE DEF e
  <2>3. (p + e) \div s = k /\ (p + e) % s = e
    BY <1>6, <2>1 DEF p
  <2> QED
    BY <1>8, <2>2, <2>3 DEF e
<1>10. \A i \in 1 .. n : i \in 1 .. n + t /\ B[i] = A[i]
  <2> TAKE i \in 1 .. n
  <2>1. i \in 1 .. n + t
    BY <1>1
  <2> QED
    BY <1>2, <1>3, <2>1
<1> DEFINE D == A \o S
<1>11. /\ D \in Seq(Nat \X Nat) /\ Len(D) = n + t
       /\ \A i \in 1 .. n : D[i] = A[i]
       /\ \A i \in 1 .. t : D[n + i] = S[i]
  <2> DEFINE X == Nat \X Nat
  <2>1. A \in Seq(X) /\ S \in Seq(X) /\ Len(A) = n /\ Len(S) = t /\ n \in Nat /\ t \in Nat
    BY <1>1, <1>2, <1>7, <1>8
  <2> HIDE DEF X
  <2>2. D \in Seq(X) /\ Len(D) = n + t
    BY <2>1
  <2>3. \A i \in 1 .. n : D[i] = A[i]
    BY <2>1
  <2>4. \A i \in 1 .. t : D[n + i] = S[i]
    BY <2>1
  <2> QED
    BY <2>2, <2>3, <2>4 DEF X
<1> HIDE DEF D
<1>12. \A j \in 1 .. n + t : D[j] = B[j]
  <2> TAKE j \in 1 .. n + t
  <2>1. CASE j \in 1 .. n
    BY <1>10, <1>11, <2>1
  <2>2. CASE j \notin 1 .. n
    <3>1. j - n \in 1 .. t /\ n + (j - n) = j
      BY <1>1, <2>2
    <3>2. D[n + (j - n)] = S[j - n] /\ B[n + (j - n)] = S[j - n]
      BY <1>9, <1>11, <3>1
    <3> QED
      BY <3>1, <3>2
  <2> QED
    BY <2>1, <2>2
<1>13. D = B
  BY <1>3, <1>11, <1>12
<1> QED
  BY <1>13 DEF With, Placed, D, A, B, S, w, n, s

-----------------------------------------------------------------------------
(* What a lookup does. *)

\* A volume is mounted, and its data area begins below 2^32.
Readable ==
    medium \in Disks /\ MountedAsFound /\ fs # Unmounted /\ TrueData(medium.vol) < Word

\* The ceiling and the limit of a listing are numbers.
LEMMA LimitFacts ==
    ASSUME Readable
    PROVE  fs.max \in Nat /\ DirLimit \in Nat \ {0}
<1> DEFINE v == medium.vol
<1>1. v \in BootSectors /\ Mountable(v) /\ TrueData(v) < Word /\ fs = Geometry(v)
  BY DEF Readable, MountedAsFound
<1> HIDE DEF v
<1>2. /\ v.fatsz \in Nat /\ v.ratio \in Nat \ {0} /\ v.spc \in Nat \ {0}
      /\ ClusCap \in Nat /\ PerUnit \in Nat \ {0} /\ DirUnits \in Nat /\ DirClus \in Nat \ {0}
  BY <1>1, FatAssumption DEF BootSectors, Mountable
<1>3. Room(v) \in Nat /\ fs.total = Room(v) /\ fs.spc = v.spc /\ fs.ratio = v.ratio
      /\ fs.data = TrueData(v)
  BY <1>1, GeometryFacts
<1> DEFINE perSec == PerUnit * v.ratio
           byFat == IF v.fatsz > ClusCap \div perSec THEN ClusCap ELSE v.fatsz * perSec
           total == fs.total
<1>4. fs.max = IF total # 0 /\ total < ClusCap - 2 THEN Lesser(total + 2, byFat) ELSE byFat
  BY <1>1 DEF Geometry
<1>5. byFat \in Nat
  <2> DEFINE p == v.fatsz * perSec
  <2>1. p \in Nat
    BY <1>2
  <2> HIDE DEF p
  <2> QED
    BY <1>2, <2>1 DEF p
<1> HIDE DEF byFat
<1>6. fs.max \in Nat
  BY <1>2, <1>3, <1>4, <1>5 DEF Lesser
<1> DEFINE u == v.spc * v.ratio
           q == DirUnits \div u
<1>7. u \in Nat \ {0}
  BY <1>2
<1>8. DirLimit = Lesser(q + 1, DirClus)
  BY <1>3 DEF DirLimit
<1> HIDE DEF u
<1>9. q \in Nat
  BY <1>2, <1>7, QuotientBound
<1> HIDE DEF q
<1>10. DirLimit \in Nat \ {0}
  BY <1>2, <1>8, <1>9 DEF Lesser
<1> QED
  BY <1>6, <1>10

\* The reader takes exactly the clusters on the disk, and a lookup of one of
\* them gives its link, or fails; of anything else, the end of the chain.
LEMMA LookupFacts ==
    ASSUME Readable
    PROVE  /\ medium.vol.spc \in Nat \ {0} /\ fs.spc = medium.vol.spc
           /\ \A c \in Nat : (Valid(fs, c) <=> OnDisk(c)) /\ (OnDisk(c) => c < fs.max)
           /\ \A c \in Nat : \A next \in Lookups(c) :
                  /\ next \in Nat
                  /\ next = Fails \/ (OnDisk(c) /\ OnDisk(Link(c)) /\ next = Link(c))
                                  \/ (~OnDisk(Link(c)) /\ next = Eoc)
<1> DEFINE v == medium.vol
<1>1. /\ v \in BootSectors /\ Mountable(v) /\ TrueData(v) < Word /\ fs = Geometry(v)
      /\ medium \in Disks
  BY DEF Readable, MountedAsFound
<1>2. \A c \in Nat : Valid(fs, c) <=> OnDisk(c)
  BY <1>1, ValidFacts DEF OnDisk
<1> HIDE DEF v
<1>3. v.spc \in Nat \ {0} /\ fs.spc = v.spc
      /\ \A c \in Nat : c < fs.max <=>
              /\ c < ClusCap /\ c < v.fatsz * PerUnit * v.ratio
              /\ Room(v) # 0 => c - 2 < Room(v)
  BY <1>1, GeometryFacts
<1>4. \A c \in Nat : OnDisk(c) => c < fs.max
  BY <1>2 DEF Valid
<1>5. ASSUME NEW c \in Nat, OnDisk(c) PROVE fs.fat + (c \div fs.perSec) < fs.data
  <2>1. /\ v.rsvd \in Nat /\ v.nfats \in Nat \ {0} /\ v.fatsz \in Nat \ {0} /\ v.ratio \in Nat \ {0}
        /\ PerUnit \in Nat \ {0}
    BY <1>1, FatAssumption DEF BootSectors, Mountable
  <2> DEFINE s == PerUnit * v.ratio
             p == v.fatsz * s
             t == v.nfats * v.fatsz
             q == c \div s
  <2>2. fs.fat = v.rsvd /\ fs.perSec = s
    BY <1>1 DEF Geometry
  <2>3. fs.data = v.rsvd + t
    BY <1>1, GeometryFacts DEF TrueData
  <2>4. s \in Nat \ {0} /\ p = v.fatsz * PerUnit * v.ratio /\ p \in Nat
    BY <2>1
  <2>5. c < p
    BY <1>3, <1>4, <1>5, <2>4
  <2>6. t >= v.fatsz
    <3>1. (v.nfats - 1) * v.fatsz >= 0
      BY <2>1
    <3>2. (v.nfats - 1) * v.fatsz = t - v.fatsz /\ t \in Nat
      BY <2>1
    <3> HIDE DEF t
    <3> QED
      BY <2>1, <3>1, <3>2
  <2>7. t \in Nat
    BY <2>1
  <2> HIDE DEF s, t
  <2>8. q \in Nat /\ (v.fatsz <= q <=> p <= c)
    BY <2>1, <2>4, QuotientBound
  <2>9. fs.fat + (c \div fs.perSec) = v.rsvd + q
    BY <2>2
  <2> HIDE DEF p, q
  <2> QED
    BY <2>1, <2>3, <2>4, <2>5, <2>6, <2>7, <2>8, <2>9
<1>6. ASSUME NEW c \in Nat, NEW next \in Lookups(c)
      PROVE  /\ next \in Nat
             /\ next = Fails \/ (OnDisk(c) /\ OnDisk(Link(c)) /\ next = Link(c))
                             \/ (~OnDisk(Link(c)) /\ next = Eoc)
  <2>1. Eoc \in Nat /\ ~OnDisk(Eoc) /\ Fails \in Nat /\ (OnDisk(c) => medium.fat[c] \in Nat)
    BY <1>1, LinkFacts DEF Fails
  <2>2. CASE ~OnDisk(c)
    <3>1. next = Eoc /\ Link(c) = Eoc
      BY <1>2, <1>6, <2>2 DEF Lookups, Link
    <3> QED
      BY <2>1, <3>1
  <2>3. CASE OnDisk(c)
    <3>1. next = Fails \/ next = IF Valid(fs, medium.fat[c]) THEN medium.fat[c] ELSE Eoc
      <4>1. Valid(fs, c)
        BY <1>2, <2>3
      <4>2. ~(fs.fat + (c \div fs.perSec) >= fs.data)
        <5>1. fs.fat + (c \div fs.perSec) < fs.data
          BY <1>5, <2>3
        <5>2. fs.data \in Nat /\ fs.fat + (c \div fs.perSec) \in Int
          <6>1. fs.fat = v.rsvd /\ fs.perSec = PerUnit * v.ratio /\ fs.data = TrueData(v)
            BY <1>1, GeometryFacts DEF Geometry
          <6>2. v.rsvd \in Nat /\ PerUnit \in Nat \ {0} /\ v.ratio \in Nat \ {0}
            BY <1>1, FatAssumption DEF BootSectors
          <6>3. PerUnit * v.ratio \in Nat \ {0}
            BY <6>2
          <6>4. c \div fs.perSec \in Nat
            BY <6>1, <6>3, QuotientBound
          <6>5. fs.data \in Nat
            BY <1>1, GeometryFacts
          <6> QED
            BY <6>1, <6>2, <6>4, <6>5
        <5> QED
          BY <5>1, <5>2
      <4>3. Lookups(c) = {Fails, IF Valid(fs, medium.fat[c]) THEN medium.fat[c] ELSE Eoc}
        BY <4>1, <4>2 DEF Lookups
      <4> QED
        BY <1>6, <4>3
    <3>2. Link(c) = medium.fat[c]
      BY <2>3 DEF Link
    <3>3. medium.fat[c] \in Nat
      BY <2>1, <2>3
    <3>4. Valid(fs, medium.fat[c]) <=> OnDisk(medium.fat[c])
      BY <1>2, <3>3
    <3> QED
      BY <2>1, <2>3, <3>1, <3>2, <3>3, <3>4
  <2> QED
    BY <2>2, <2>3
<1> QED
  BY <1>2, <1>3, <1>4, <1>6 DEF v

-----------------------------------------------------------------------------
(* A listing. *)

\* Half of the next number.
LEMMA HalfFacts ==
    ASSUME NEW n \in Nat
    PROVE  /\ n \div 2 \in Nat /\ (n + 1) \div 2 \in Nat /\ (n + 1) \div 2 < n + 1
           /\ n % 2 = 1 => (n + 1) \div 2 = (n \div 2) + 1 /\ (n + 1) % 2 # 1
           /\ n % 2 # 1 => (n + 1) \div 2 = n \div 2 /\ (n + 1) % 2 = 1
OBVIOUS

\* A listing begins.
LEMMA DirBegins ==
    ASSUME Readable, NEW c \in Nat, NEW stop \in Nat
    PROVE  DirInv([kind |-> "dir", start |-> c, stop |-> stop, clus |-> c, slow |-> c,
                   odd |-> FALSE, guard |-> DirLimit, seen |-> <<>>, rc |-> Pending])
<1> DEFINE o == [kind |-> "dir", start |-> c, stop |-> stop, clus |-> c, slow |-> c,
                 odd |-> FALSE, guard |-> DirLimit, seen |-> <<>>, rc |-> Pending]
<1>1. o \in DirCall /\ o.guard = DirLimit /\ Len(o.seen) = 0 /\ DirLimit \in Nat
      /\ o.rc = Pending /\ o.start = c /\ o.clus = c /\ o.slow = c /\ o.odd = FALSE
  BY LimitFacts DEF DirCall
<1>2. Walk(c)[0] = c
  BY WalkUnfolds
<1>3. medium \in Disks
  BY DEF Readable
<1> HIDE DEF o
<1>4. DirGoesOn(o)
  <2>1. 0 \div 2 = 0 /\ 0 % 2 # 1
    OBVIOUS
  <2>2. At(o.clus, o.start, 0)
    BY <1>1, <1>2 DEF At
  <2> QED
    BY <1>1, <1>2, <2>1, <2>2 DEF DirGoesOn
<1>5. DirFaithful(o)
  <2>1. ASSUME Cyclic(c) PROVE 0 < 2 * Reach(c)
    <3>1. \A m \in 1 .. 0 : Walk(c)[m] # Walk(c)[m \div 2]
      OBVIOUS
    <3>2. Reach(c) \in Nat /\ 0 + 1 < 2 * Reach(c)
      BY <1>3, <2>1, <3>1, TortoiseIsMet
    <3> QED
      BY <3>2
  <2> QED
    BY <1>1, <2>1 DEF DirFaithful, Pending, Ecorrupt
<1> QED
  BY <1>1, <1>4, <1>5 DEF DirInv, o

\* A listing that returns, before it has read another cluster.
LEMMA DirStops ==
    ASSUME Readable, NEW o, DirInv(o), o.rc = Pending, NEW rc \in {0, Eio, Ecorrupt},
           rc = 0 => ~OnDisk(o.clus),
           rc = Ecorrupt => OnDisk(o.clus) /\ o.guard = 0
    PROVE  DirInv([o EXCEPT !.rc = rc])
<1> DEFINE p == [o EXCEPT !.rc = rc]
           n == Len(o.seen)
           w == Walk(o.start)
<1>1. o \in DirCall /\ o.guard + n = DirLimit /\ DirGoesOn(o) /\ DirFaithful(o)
  BY DEF DirInv
<1>2. /\ p \in DirCall /\ p.rc = rc
      /\ p.start = o.start /\ p.stop = o.stop /\ p.guard = o.guard /\ p.seen = o.seen
  BY <1>1 DEF DirCall
<1>3. n \in Nat /\ o.guard \in Nat /\ o.start \in Nat /\ o.clus \in Nat /\ DirLimit \in Nat
  BY <1>1, LimitFacts DEF DirCall
<1>4. At(o.clus, o.start, n)
  BY <1>1 DEF DirGoesOn
<1>5. rc = 0 => ~OnDisk(w[n]) /\ ~Cyclic(o.start)
  <2> SUFFICES ASSUME rc = 0 PROVE ~OnDisk(w[n]) /\ ~Cyclic(o.start)
    OBVIOUS
  <2>1. ~OnDisk(w[n])
    BY <1>4 DEF At
  <2>2. ~Cyclic(o.start)
    BY <1>3, <2>1, CyclicFacts DEF Readable
  <2> QED
    BY <2>1, <2>2
<1>6. rc = Ecorrupt => OnDisk(w[DirLimit])
  <2> SUFFICES ASSUME rc = Ecorrupt PROVE OnDisk(w[DirLimit])
    OBVIOUS
  <2>1. n = DirLimit
    BY <1>1, <1>3
  <2> HIDE DEF n, w
  <2>2. OnDisk(w[n])
    BY <1>4 DEF At, w
  <2> QED
    BY <2>1, <2>2
<1> HIDE DEF p
<1>7. DirFaithful(p)
  BY <1>1, <1>2, <1>5, <1>6 DEF DirFaithful
<1>8. p.rc # Pending
  BY <1>2 DEF Pending, Eio, Ecorrupt
<1> QED
  BY <1>1, <1>2, <1>7, <1>8 DEF DirInv, p

\* What a listing that has read another cluster has seen.
LEMMA DirSees ==
    ASSUME Readable, NEW o, DirInv(o), o.rc = Pending, OnDisk(o.clus)
    PROVE  LET w == Walk(o.start)
               n == Len(o.seen)
               s == Append(o.seen, o.clus)
           IN  /\ s \in Seq(Nat) /\ Len(s) = n + 1 /\ s[n + 1] = o.clus
               /\ OnDisk(w[n]) /\ o.clus = w[n]
               /\ \A i \in 1 .. n + 1 : s[i] = w[i - 1] /\ OnDisk(w[i - 1])
               /\ \A i \in 1 .. n : s[i] # o.stop
               /\ Cyclic(o.start) => n + 1 < 2 * Reach(o.start)
<1> DEFINE w == Walk(o.start)
           n == Len(o.seen)
           s == Append(o.seen, o.clus)
<1>1. o \in DirCall /\ DirGoesOn(o) /\ DirFaithful(o) /\ medium \in Disks
  BY DEF DirInv, Readable
<1>2. n \in Nat /\ o.seen \in Seq(Nat) /\ o.start \in Nat /\ o.clus \in Nat
  BY <1>1 DEF DirCall
<1>3. OnDisk(w[n]) /\ o.clus = w[n]
  <2>1. At(o.clus, o.start, n)
    BY <1>1 DEF DirGoesOn
  <2> QED
    BY <2>1 DEF At
<1>4. Cyclic(o.start) => n + 1 < 2 * Reach(o.start)
  <2> SUFFICES ASSUME Cyclic(o.start) PROVE n + 1 < 2 * Reach(o.start)
    OBVIOUS
  <2>1. \A m \in 1 .. n : w[m] # w[m \div 2]
    <3>1. \A m \in Nat : OnDisk(w[m])
      BY <1>1, <1>2, CyclicFacts
    <3>2. \A m \in 1 .. n : OnDisk(w[m]) => w[m] # w[m \div 2]
      BY <1>1 DEF DirGoesOn
    <3> HIDE DEF w, n
    <3>3. \A m \in 1 .. n : m \in Nat
      BY <1>2
    <3> QED
      BY <3>1, <3>2, <3>3
  <2> QED
    BY <1>1, <1>2, <2>1, TortoiseIsMet
<1>5. \A i \in 1 .. n : o.seen[i] = w[i - 1] /\ OnDisk(w[i - 1]) /\ o.seen[i] # o.stop
  <2>1. /\ \A i \in 1 .. n : o.seen[i] = w[i - 1] /\ OnDisk(w[i - 1])
        /\ \A i \in 1 .. n - 1 : o.seen[i] # o.stop
        /\ n > 0 => o.seen[n] # o.stop
    BY <1>1 DEF DirFaithful, DirGoesOn
  <2> HIDE DEF w, n
  <2>2. \A i \in 1 .. n : i \in 1 .. n - 1 \/ (i = n /\ n > 0)
    BY <1>2
  <2> QED
    BY <2>1, <2>2
<1>6. /\ s \in Seq(Nat) /\ Len(s) = n + 1 /\ s[n + 1] = o.clus
      /\ \A i \in 1 .. n : s[i] = o.seen[i]
  BY <1>2
<1> HIDE DEF s, w, n
<1>7. \A i \in 1 .. n + 1 : s[i] = w[i - 1] /\ OnDisk(w[i - 1])
  <2> TAKE i \in 1 .. n + 1
  <2>1. CASE i \in 1 .. n
    BY <1>5, <1>6, <2>1
  <2>2. CASE i \notin 1 .. n
    <3>1. i = n + 1 /\ i - 1 = n
      BY <1>2, <2>2
    <3> QED
      BY <1>3, <1>6, <3>1
  <2> QED
    BY <2>1, <2>2
<1> QED
  BY <1>3, <1>4, <1>5, <1>6, <1>7 DEF s, w, n

\* A listing that has counted the cluster it is in.
Counted(o) == [o EXCEPT !.seen = Append(@, o.clus), !.guard = @ - 1]

\* ... and returns, as the caller asked, or as it fails, or meets the tortoise.
LEMMA DirEnds ==
    ASSUME Readable, NEW o, DirInv(o), o.rc = Pending, OnDisk(o.clus), o.guard # 0,
           NEW rc \in {0, Eio, Ecorrupt},
           rc = 0 => o.clus = o.stop,
           rc = Ecorrupt => Cyclic(o.start)
    PROVE  DirInv([Counted(o) EXCEPT !.rc = rc])
<1> DEFINE p == [Counted(o) EXCEPT !.rc = rc]
           w == Walk(o.start)
           n == Len(o.seen)
           s == Append(o.seen, o.clus)
<1>1. o \in DirCall /\ o.guard + n = DirLimit /\ n \in Nat /\ o.guard \in Nat /\ DirLimit \in Nat
  BY LimitFacts DEF DirInv, DirCall
<1>2. /\ s \in Seq(Nat) /\ Len(s) = n + 1 /\ s[n + 1] = o.clus
      /\ \A i \in 1 .. n + 1 : s[i] = w[i - 1] /\ OnDisk(w[i - 1])
      /\ \A i \in 1 .. n : s[i] # o.stop
      /\ Cyclic(o.start) => n + 1 < 2 * Reach(o.start)
  BY DirSees
<1>3. o.guard - 1 \in Nat /\ (o.guard - 1) + (n + 1) = DirLimit
  BY <1>1
<1> HIDE DEF s, w, n
<1>4. /\ p \in DirCall /\ p.rc = rc
      /\ p.start = o.start /\ p.stop = o.stop /\ p.guard = o.guard - 1 /\ p.seen = s
  BY <1>1, <1>2, <1>3 DEF DirCall, Counted, s
<1> HIDE DEF p
<1>5. (n + 1) - 1 = n /\ n + 1 > 0
  BY <1>1
<1>6. DirFaithful(p)
  <2>1. rc = 0 => s[n + 1] = o.stop
    BY <1>2
  <2> QED
    BY <1>2, <1>4, <1>5, <2>1 DEF DirFaithful, w
<1>7. p.rc # Pending
  BY <1>4 DEF Pending, Eio, Ecorrupt
<1> QED
  BY <1>2, <1>3, <1>4, <1>6, <1>7 DEF DirInv, p

\* ... and goes on.
LEMMA DirGoes ==
    ASSUME Readable, NEW o, DirInv(o), o.rc = Pending, OnDisk(o.clus), o.guard # 0,
           o.clus # o.stop,
           NEW next \in Lookups(o.clus), NEW slow \in Tortoise(o.odd, o.slow),
           next # Fails, slow # Fails
    PROVE  /\ Valid(fs, next) /\ next = slow => Cyclic(o.start)
           /\ ~(Valid(fs, next) /\ next = slow) =>
                  DirInv([Counted(o) EXCEPT !.clus = next, !.slow = slow, !.odd = ~@])
<1> DEFINE p == [Counted(o) EXCEPT !.clus = next, !.slow = slow, !.odd = ~@]
           w == Walk(o.start)
           n == Len(o.seen)
           s == Append(o.seen, o.clus)
           h == (n + 1) \div 2
<1>1. /\ o \in DirCall /\ o.guard + n = DirLimit /\ n \in Nat /\ o.guard \in Nat
      /\ DirLimit \in Nat /\ o.start \in Nat /\ o.clus \in Nat /\ o.slow \in Nat
      /\ o.odd \in BOOLEAN /\ medium \in Disks /\ DirGoesOn(o)
  BY LimitFacts DEF DirInv, DirCall, Readable
<1>2. /\ s \in Seq(Nat) /\ Len(s) = n + 1 /\ s[n + 1] = o.clus
      /\ OnDisk(w[n]) /\ o.clus = w[n]
      /\ \A i \in 1 .. n + 1 : s[i] = w[i - 1] /\ OnDisk(w[i - 1])
      /\ \A i \in 1 .. n : s[i] # o.stop
      /\ Cyclic(o.start) => n + 1 < 2 * Reach(o.start)
  BY DirSees
<1>3. o.guard - 1 \in Nat /\ (o.guard - 1) + (n + 1) = DirLimit
  BY <1>1
<1>4. o.slow = w[n \div 2] /\ (o.odd <=> n % 2 = 1)
      /\ \A m \in 1 .. n : OnDisk(w[m]) => w[m] # w[m \div 2]
  BY <1>1, <1>2 DEF DirGoesOn
<1>5. \A i \in Nat : w[i] \in Nat /\ w[i + 1] = Link(w[i])
  BY <1>1, WalkUnfolds, WalkFacts
<1>6. \A i, j \in Nat : i <= j /\ OnDisk(w[j]) => OnDisk(w[i])
  BY <1>1, WalkFacts
<1>7. /\ n \div 2 \in Nat /\ h \in Nat /\ h < n + 1
      /\ n % 2 = 1 => h = (n \div 2) + 1 /\ (n + 1) % 2 # 1
      /\ n % 2 # 1 => h = n \div 2 /\ (n + 1) % 2 = 1
  BY <1>1, HalfFacts
<1> DEFINE e == n \div 2
           odd == n % 2 = 1
<1> HIDE DEF s, w, n, h, e, odd
<1>8. next \in Nat /\ IF OnDisk(w[n + 1]) THEN next = w[n + 1] ELSE ~OnDisk(next)
  <2>1. /\ next \in Nat
        /\ (OnDisk(Link(o.clus)) /\ next = Link(o.clus)) \/ (~OnDisk(Link(o.clus)) /\ next = Eoc)
    BY <1>1, LookupFacts
  <2>2. Link(o.clus) = w[n + 1]
    BY <1>1, <1>2, <1>5
  <2> QED
    BY <1>1, <2>1, <2>2, LinkFacts
<1>9. slow \in Nat /\ (OnDisk(w[n + 1]) => slow = w[h])
  <2>1. e \in Nat /\ (odd => h = e + 1) /\ (~odd => h = e) /\ o.slow = w[e] /\ (o.odd <=> odd)
    BY <1>4, <1>7 DEF e, odd
  <2>2. CASE ~odd
    BY <1>1, <2>1, <2>2 DEF Tortoise
  <2>3. CASE odd
    <3>1. slow \in Lookups(o.slow)
      BY <2>1, <2>3 DEF Tortoise
    <3>2. /\ slow \in Nat
          /\ slow = Link(o.slow) \/ ~OnDisk(Link(o.slow))
      BY <1>1, <3>1, LookupFacts
    <3>3. Link(o.slow) = w[h]
      BY <1>5, <2>1, <2>3
    <3>4. OnDisk(w[n + 1]) => OnDisk(w[h])
      <4>1. n + 1 \in Nat /\ h <= n + 1
        BY <1>1, <1>7
      <4> QED
        BY <1>6, <1>7, <4>1
    <3> QED
      BY <3>2, <3>3, <3>4
  <2> QED
    BY <2>2, <2>3
<1>10. Valid(fs, next) <=> OnDisk(next)
  BY <1>8, LookupFacts
<1>11. ASSUME Valid(fs, next), next = slow PROVE Cyclic(o.start)
  <2>1. OnDisk(w[n + 1]) /\ w[h] = w[n + 1]
    BY <1>8, <1>9, <1>10, <1>11
  <2>2. n + 1 \in Nat
    BY <1>1
  <2> QED
    BY <1>1, <1>7, <2>1, <2>2, RepeatIsCyclic DEF w
<1>12. ASSUME ~(Valid(fs, next) /\ next = slow) PROVE DirInv(p)
  <2>1. /\ p \in DirCall /\ p.rc = Pending /\ p.clus = next /\ p.slow = slow /\ p.odd = ~o.odd
        /\ p.start = o.start /\ p.stop = o.stop /\ p.guard = o.guard - 1 /\ p.seen = s
    BY <1>1, <1>2, <1>3, <1>8, <1>9 DEF DirCall, Counted, s
  <2> HIDE DEF p
  <2>2. DirFaithful(p)
    <3>1. (n + 1) - 1 = n
      BY <1>1
    <3> QED
      BY <1>2, <2>1, <3>1 DEF DirFaithful, w, Pending, Ecorrupt
  <2>3. OnDisk(w[n + 1]) => w[n + 1] # w[h]
    BY <1>8, <1>9, <1>10, <1>12
  <2>4. DirGoesOn(p)
    <3>1. At(p.clus, p.start, n + 1)
      BY <1>8, <2>1 DEF At, w
    <3>2. p.seen[n + 1] # p.stop
      BY <1>2, <2>1
    <3>3. OnDisk(w[n + 1]) => p.slow = w[h] /\ (p.odd <=> (n + 1) % 2 = 1)
      BY <1>1, <1>4, <1>7, <1>9, <2>1 DEF odd
    <3>4. \A m \in 1 .. n + 1 : OnDisk(w[m]) => w[m] # w[m \div 2]
      <4> TAKE m \in 1 .. n + 1
      <4>1. CASE m \in 1 .. n
        BY <1>4, <4>1
      <4>2. CASE m \notin 1 .. n
        <5>1. m = n + 1
          BY <1>1, <4>2
        <5> QED
          BY <2>3, <5>1 DEF h
      <4> QED
        BY <4>1, <4>2
    <3>5. Len(p.seen) = n + 1
      BY <1>2, <2>1
    <3> QED
      BY <2>1, <3>1, <3>2, <3>3, <3>4, <3>5 DEF DirGoesOn, w, h
  <2> QED
    BY <1>2, <1>3, <2>1, <2>2, <2>4 DEF DirInv
<1> QED
  BY <1>11, <1>12 DEF p

\* fat32_readdir, turn by turn.
LEMMA DirTurnInvariant ==
    ASSUME Readable, DirInv(op), DirTurn
    PROVE  DirInv(op')
<1>1. /\ op.rc = Pending /\ op \in DirCall /\ op.clus \in Nat
      /\ Valid(fs, op.clus) <=> OnDisk(op.clus)
  BY LookupFacts DEF DirTurn, Running, DirInv, DirCall
<1>0. 0 # Ecorrupt /\ Eio # Ecorrupt /\ Eio # 0 /\ Ecorrupt # 0
  BY DEF Eio, Ecorrupt
<1> DEFINE read == [op EXCEPT !.seen = Append(@, op.clus), !.guard = @ - 1]
<1>2. read = Counted(op) /\ read.clus = op.clus /\ read.odd = op.odd /\ read.slow = op.slow
      /\ read.start = op.start
  BY <1>1 DEF Counted, DirCall
<1>3. \/ ~Valid(fs, op.clus) /\ op' = [op EXCEPT !.rc = 0]
      \/ Valid(fs, op.clus) /\ op.guard = 0 /\ op' = [op EXCEPT !.rc = Ecorrupt]
      \/ Valid(fs, op.clus) /\ op.guard # 0 /\ op' = [op EXCEPT !.rc = Eio]
      \/ Valid(fs, op.clus) /\ op.guard # 0 /\ op.clus = op.stop /\ op' = [read EXCEPT !.rc = 0]
      \/ Valid(fs, op.clus) /\ op.guard # 0 /\ op.clus # op.stop /\ DirFollow(read)
  BY DEF DirTurn, Returns
<1> HIDE DEF read
<1>4. CASE ~Valid(fs, op.clus) /\ op' = [op EXCEPT !.rc = 0]
  BY <1>0, <1>1, <1>4, DirStops
<1>5. CASE Valid(fs, op.clus) /\ op.guard = 0 /\ op' = [op EXCEPT !.rc = Ecorrupt]
  BY <1>0, <1>1, <1>5, DirStops
<1>6. CASE Valid(fs, op.clus) /\ op.guard # 0 /\ op' = [op EXCEPT !.rc = Eio]
  BY <1>0, <1>1, <1>6, DirStops
<1>7. CASE Valid(fs, op.clus) /\ op.guard # 0 /\ op.clus = op.stop /\ op' = [read EXCEPT !.rc = 0]
  BY <1>0, <1>1, <1>2, <1>7, DirEnds
<1>8. CASE Valid(fs, op.clus) /\ op.guard # 0 /\ op.clus # op.stop /\ DirFollow(read)
  <2>1. PICK next \in Lookups(op.clus), slow \in Tortoise(op.odd, op.slow) :
            IF next = Fails \/ slow = Fails THEN op' = [read EXCEPT !.rc = Eio]
            ELSE IF Valid(fs, next) /\ next = slow THEN op' = [read EXCEPT !.rc = Ecorrupt]
            ELSE op' = [read EXCEPT !.clus = next, !.slow = slow, !.odd = ~@]
    <3>1. Lookups(read.clus) = Lookups(op.clus) /\ Tortoise(read.odd, read.slow) = Tortoise(op.odd, op.slow)
      BY <1>2
    <3>2. DirFollow(read)
      BY <1>8
    <3> QED
      BY <3>1, <3>2 DEF DirFollow, Returns
  <2>2. CASE next = Fails \/ slow = Fails
    <3>1. op' = [Counted(op) EXCEPT !.rc = Eio]
      BY <1>2, <2>1, <2>2
    <3>2. DirInv([Counted(op) EXCEPT !.rc = Eio])
      BY <1>0, <1>1, <1>8, DirEnds
    <3> QED
      BY <3>1, <3>2
  <2>3. CASE ~(next = Fails \/ slow = Fails)
    <3>1. /\ Valid(fs, next) /\ next = slow => Cyclic(op.start)
          /\ ~(Valid(fs, next) /\ next = slow) =>
                 DirInv([Counted(op) EXCEPT !.clus = next, !.slow = slow, !.odd = ~@])
      BY <1>1, <1>8, <2>3, DirGoes
    <3>2. CASE Valid(fs, next) /\ next = slow
      BY <1>0, <1>1, <1>2, <1>8, <2>1, <2>3, <3>1, <3>2, DirEnds
    <3>3. CASE ~(Valid(fs, next) /\ next = slow)
      BY <1>2, <2>1, <2>3, <3>1, <3>3
    <3> QED
      BY <3>2, <3>3
  <2> QED
    BY <2>2, <2>3
<1> QED
  BY <1>3, <1>4, <1>5, <1>6, <1>7, <1>8

-----------------------------------------------------------------------------
(* A read of a file. *)

\* A lookup that does not fail takes the walk one link on.
LEMMA LookupMoves ==
    ASSUME Readable, NEW start \in Nat, NEW k \in Nat, NEW c \in Nat, OnDisk(c), At(c, start, k),
           NEW next \in Lookups(c), next # Fails
    PROVE  At(next, start, k + 1)
<1> DEFINE w == Walk(start)
<1>1. medium \in Disks
  BY DEF Readable
<1>2. c = w[k]
  BY DEF At
<1>3. w[k + 1] = Link(c)
  BY <1>2, WalkUnfolds
<1> HIDE DEF w
<1>4. (OnDisk(Link(c)) /\ next = Link(c)) \/ (~OnDisk(Link(c)) /\ next = Eoc)
  BY LookupFacts
<1>5. IF OnDisk(w[k + 1]) THEN next = w[k + 1] ELSE ~OnDisk(next)
  BY <1>1, <1>3, <1>4, LinkFacts
<1> QED
  BY <1>5 DEF At, w

\* A walk of more links than the ceiling allows clusters is on a cycle.
LEMMA TooFarIsCyclic ==
    ASSUME Readable, NEW start \in Nat, NEW k \in Nat, fs.max <= k, OnDisk(Walk(start)[k])
    PROVE  Cyclic(start)
<1> DEFINE w == Walk(start)
           n == fs.max
<1>1. medium \in Disks /\ n \in Nat /\ n <= k /\ \A c \in Nat : OnDisk(c) => c < n
  BY LimitFacts, LookupFacts DEF Readable
<1>2. \A i, j \in Nat : i <= j /\ OnDisk(w[j]) => OnDisk(w[i])
  BY <1>1, WalkFacts
<1> HIDE DEF n
<1>3. OnDisk(Walk(start)[n])
  BY <1>1, <1>2
<1>4. PICK i \in 0 .. n, j \in 0 .. n : i < j /\ w[i] = w[j]
  BY <1>1, <1>3, TooLongRepeats
<1>5. i \in Nat /\ j \in Nat /\ j <= n
  BY <1>1
<1>6. OnDisk(w[j])
  BY <1>1, <1>2, <1>3, <1>5
<1> QED
  BY <1>1, <1>4, <1>5, <1>6, RepeatIsCyclic

\* The sectors of cluster k that follow what was delivered are the next ones
\* of the file, and there are as many.
LEMMA ReadsOn ==
    ASSUME Readable, NEW start \in Nat, NEW k \in Nat, NEW c \in Nat, OnDisk(c), At(c, start, k),
           NEW off \in Nat, NEW t \in Nat \ {0}, off + t <= fs.spc,
           NEW n \in Nat, Placed(n, k, off),
           NEW size \in Nat, n + t <= size
    PROVE  LET more == With(Content(start, n), c, off, t)
           IN  /\ more = Content(start, n + t) /\ more \in Seq(Nat \X Nat) /\ Len(more) = n + t
               /\ n + t <= There(start, size)
<1> DEFINE w == Walk(start)
           s == medium.vol.spc
           p == k * s
           e == off + t - 1
<1>1. s \in Nat \ {0} /\ fs.spc = s /\ medium \in Disks
  BY LookupFacts DEF Readable
<1>2. c = w[k] /\ OnDisk(w[k])
  BY DEF At
<1>3. n = p + off /\ p \in Nat
  BY <1>1 DEF Placed
<1>4. With(Content(start, n), c, off, t) = Content(start, n + t)
  <2>1. medium \in Disks /\ medium.vol.spc \in Nat \ {0} /\ t \in Nat /\ off + t <= medium.vol.spc
    BY <1>1
  <2>2. With(Content(start, n), Walk(start)[k], off, t) = Content(start, n + t)
    BY <2>1, ContentGrows
  <2> QED
    BY <1>2, <2>2
<1>5. n + t \in Nat
  OBVIOUS
<1>6. Content(start, n + t) \in Seq(Nat \X Nat) /\ Len(Content(start, n + t)) = n + t
  BY <1>1, <1>5, ContentFacts
<1>7. n + t <= There(start, size)
  <2>1. e \in 0 .. s - 1 /\ (n + t) - 1 = p + e
    BY <1>1, <1>3
  <2> HIDE DEF e
  <2>2. (k * s + e) \div s = k
    BY <1>1, <2>1, PlaceFacts
  <2>3. OnDisk(w[((n + t) - 1) \div s])
    BY <1>2, <2>1, <2>2
  <2>4. n + t \in 0 .. size
    OBVIOUS
  <2> HIDE DEF w, s, p
  <2>5. \A m \in 0 .. size : (m > 0 => OnDisk(w[(m - 1) \div s])) => m <= There(start, size)
    BY <1>1, ThereFacts DEF w, s
  <2> QED
    BY <2>3, <2>4, <2>5
<1> QED
  BY <1>4, <1>6, <1>7

\* A file is asked for.
LEMMA FileBegins ==
    ASSUME Readable, NEW c \in Nat, NEW len \in Nat
    PROVE  FileInv([kind |-> "file", start |-> c, len |-> len, clus |-> c, guard |-> fs.max,
                    seen |-> <<>>, rc |-> IF Valid(fs, c) THEN Pending ELSE Ecorrupt])
<1> DEFINE o == [kind |-> "file", start |-> c, len |-> len, clus |-> c, guard |-> fs.max,
                 seen |-> <<>>, rc |-> IF Valid(fs, c) THEN Pending ELSE Ecorrupt]
<1>1. medium \in Disks /\ fs.max \in Nat /\ medium.vol.spc \in Nat \ {0} /\ fs.spc = medium.vol.spc
      /\ (Valid(fs, c) <=> OnDisk(c))
  BY LimitFacts, LookupFacts DEF Readable
<1>2. /\ o \in FileCall /\ o.start = c /\ o.len = len /\ o.clus = c /\ o.guard = fs.max /\ o.seen = <<>>
      /\ o.rc = IF OnDisk(c) THEN Pending ELSE Ecorrupt
  BY <1>1 DEF FileCall
<1> HIDE DEF o
<1>3. FileGoesOn(o)
  <2>1. Walk(c)[0] = c
    BY WalkUnfolds
  <2>2. At(c, c, 0)
    BY <2>1 DEF At
  <2>3. fs.max - fs.max = 0 /\ 0 * fs.spc = 0
    BY <1>1
  <2> QED
    BY <1>1, <1>2, <2>2, <2>3 DEF FileGoesOn
<1>4. Content(c, 0) = <<>>
  BY <1>1, ContentFacts
<1>5. There(c, len) \in 0 .. len
  BY <1>1, ThereFacts
<1>6. FileFaithful(o)
  <2>1. Len(o.seen) = 0 /\ o.seen = Content(c, 0)
    BY <1>2, <1>4
  <2>2. 0 <= There(c, len)
    BY <1>5
  <2>3. ~(Pending >= 0) /\ ~(Ecorrupt >= 0) /\ Pending # Eio /\ Ecorrupt # Eio /\ Pending # Ecorrupt
    BY DEF Pending, Ecorrupt, Eio
  <2> QED
    BY <1>2, <2>1, <2>2, <2>3 DEF FileFaithful
<1> QED
  BY <1>2, <1>3, <1>6 DEF FileInv, o

\* A read that returns, before another cluster of it.
LEMMA FileStops ==
    ASSUME Readable, NEW o, FileInv(o), o.rc = Pending,
           NEW rc \in Nat \cup {Eio, Ecorrupt},
           rc \in Nat => rc = Len(o.seen) /\ (Len(o.seen) = o.len \/ ~OnDisk(o.clus)),
           rc = Eio => Len(o.seen) # o.len,
           rc = Ecorrupt => OnDisk(o.clus) /\ o.guard = 0
    PROVE  FileInv([o EXCEPT !.rc = rc])
<1> DEFINE p == [o EXCEPT !.rc = rc]
           w == Walk(o.start)
           L == Len(o.seen)
           N == There(o.start, o.len)
           k == fs.max - o.guard
<1>1. /\ o \in FileCall /\ FileGoesOn(o) /\ FileFaithful(o) /\ medium \in Disks
      /\ fs.max \in Nat /\ fs.spc \in Nat \ {0} /\ fs.spc = medium.vol.spc
      /\ \A c \in Nat : OnDisk(c) => c < fs.max
  BY LimitFacts, LookupFacts DEF FileInv, Readable
<1>2. /\ o.start \in Nat /\ o.len \in Nat /\ o.clus \in Nat /\ o.guard \in Nat /\ L \in Nat
  BY <1>1 DEF FileCall
<1>3. /\ p \in FileCall /\ p.rc = rc /\ p.start = o.start /\ p.len = o.len /\ p.seen = o.seen
  BY <1>1 DEF FileCall
<1>4. N \in 0 .. o.len /\ L <= N
  BY <1>1, <1>2, ThereFacts DEF FileFaithful
<1>5. k \in Nat /\ L = k * fs.spc /\ At(o.clus, o.start, k)
  BY <1>1, <1>2 DEF FileGoesOn
<1> HIDE DEF p, L, N, k
<1>6. ~OnDisk(o.clus) => N <= L
  <2> SUFFICES ASSUME ~OnDisk(o.clus) PROVE N <= L
    OBVIOUS
  <2>1. ~OnDisk(w[k])
    BY <1>5 DEF At
  <2> QED
    BY <1>1, <1>2, <1>5, <2>1, ThereFacts DEF N
<1>7. rc \in Nat => rc = L /\ rc = N
  BY <1>2, <1>4, <1>6 DEF L
<1>8. rc = Ecorrupt => Cyclic(o.start)
  <2> SUFFICES ASSUME rc = Ecorrupt PROVE Cyclic(o.start)
    OBVIOUS
  <2>1. k = fs.max
    BY <1>1, <1>2 DEF k
  <2>2. OnDisk(w[k]) /\ fs.max <= k
    BY <1>1, <1>5, <2>1 DEF At
  <2> QED
    BY <1>2, <1>5, <2>2, TooFarIsCyclic
<1>9. rc # Pending /\ (rc >= 0 => rc \in Nat)
  BY DEF Pending, Eio, Ecorrupt
<1>10. rc = Eio => L < o.len
  BY <1>2, <1>4 DEF L
<1>11. FileFaithful(p)
  BY <1>1, <1>3, <1>7, <1>8, <1>9, <1>10 DEF FileFaithful, L, N
<1> QED
  BY <1>3, <1>9, <1>11 DEF FileInv, p

\* The sectors a turn takes.
Turn(o) == Lesser(o.len - Len(o.seen), fs.spc)
Taken(o) == [o EXCEPT !.seen = @ \o Sectors(o.clus, 0, Turn(o)), !.guard = @ - 1]

\* What a read has after another cluster, and where it stands.
LEMMA FileReads ==
    ASSUME Readable, NEW o, FileInv(o), o.rc = Pending, OnDisk(o.clus), o.guard # 0,
           Turn(o) # 0
    PROVE  LET q == Taken(o)
           IN  /\ q \in FileCall /\ q.kind = o.kind /\ q.start = o.start /\ q.len = o.len
               /\ q.clus = o.clus /\ q.rc = Pending
               /\ q.seen = Content(o.start, Len(q.seen)) /\ Len(q.seen) <= There(o.start, o.len)
               /\ There(o.start, o.len) <= o.len /\ There(o.start, o.len) \in Nat
               /\ q.guard + 1 <= fs.max /\ At(o.clus, o.start, fs.max - q.guard - 1)
               /\ Len(q.seen) # o.len => Len(q.seen) = (fs.max - q.guard) * fs.spc
<1> DEFINE q == Taken(o)
           L == Len(o.seen)
           N == There(o.start, o.len)
           k == fs.max - o.guard
           n == Turn(o)
           s == With(o.seen, o.clus, 0, n)
<1>1. /\ o \in FileCall /\ FileGoesOn(o) /\ FileFaithful(o) /\ medium \in Disks
      /\ fs.max \in Nat /\ fs.spc \in Nat \ {0} /\ fs.spc = medium.vol.spc
  BY LimitFacts, LookupFacts DEF FileInv, Readable
<1>2. /\ o.start \in Nat /\ o.len \in Nat /\ o.clus \in Nat /\ o.guard \in Nat \ {0} /\ L \in Nat
  BY <1>1 DEF FileCall
<1>3. N \in 0 .. o.len /\ L <= N
  BY <1>1, <1>2, ThereFacts DEF FileFaithful
<1>4. k \in Nat /\ L = k * fs.spc /\ At(o.clus, o.start, k) /\ o.guard <= fs.max
  BY <1>1, <1>2 DEF FileGoesOn
<1>5. o.seen = Content(o.start, L)
  BY <1>1 DEF FileFaithful
<1> HIDE DEF L, N, k, n
<1>6. n \in Nat \ {0} /\ n <= fs.spc /\ L + n <= o.len /\ (L + n # o.len => n = fs.spc)
  <2>1. o.len - L \in Nat
    BY <1>2, <1>3
  <2>2. n = Lesser(o.len - L, fs.spc)
    BY DEF L, n, Turn
  <2>3. n # 0
    BY DEF n
  <2> QED
    BY <1>1, <1>2, <2>1, <2>2, <2>3 DEF Lesser
<1>7. s = Content(o.start, L + n) /\ s \in Seq(Nat \X Nat) /\ Len(s) = L + n /\ L + n <= N
  <2>1. L = k * fs.spc + 0 /\ 0 + n <= fs.spc /\ 0 \in Nat
    <3> DEFINE p == k * fs.spc
    <3>1. p \in Nat
      BY <1>1, <1>4
    <3> HIDE DEF p
    <3>2. L = p + 0
      BY <1>4, <3>1 DEF p
    <3> QED
      BY <1>6, <3>2 DEF p
  <2> DEFINE z == 0
  <2>2. z \in Nat /\ z + n <= fs.spc /\ Placed(L, k, z)
    BY <1>1, <2>1 DEF Placed
  <2> HIDE DEF z
  <2>3. /\ o.start \in Nat /\ k \in Nat /\ o.clus \in Nat /\ At(o.clus, o.start, k)
        /\ n \in Nat \ {0} /\ L \in Nat /\ OnDisk(o.clus) /\ Readable
        /\ o.len \in Nat /\ L + n <= o.len
    BY <1>2, <1>4, <1>6
  <2> DEFINE more == With(Content(o.start, L), o.clus, z, n)
  <2>4. /\ more = Content(o.start, L + n) /\ more \in Seq(Nat \X Nat) /\ Len(more) = L + n
        /\ L + n <= There(o.start, o.len)
    BY <2>2, <2>3, ReadsOn
  <2> QED
    BY <1>5, <2>4 DEF N, z
<1> HIDE DEF s
<1>8. o.guard - 1 \in Nat
  BY <1>2
<1>9. /\ q \in FileCall /\ q.kind = o.kind /\ q.start = o.start /\ q.len = o.len
      /\ q.clus = o.clus /\ q.rc = Pending /\ q.guard = o.guard - 1 /\ q.seen = s
  BY <1>1, <1>7, <1>8 DEF FileCall, Taken, With, s, n
<1> HIDE DEF q
<1>10. /\ q.guard + 1 = o.guard /\ fs.max - q.guard - 1 = k /\ fs.max - q.guard = k + 1
  <2>1. q.guard = o.guard - 1 /\ o.guard \in Nat /\ fs.max \in Nat
    BY <1>1, <1>2, <1>9
  <2> QED
    BY <2>1 DEF k
<1>11. L + n # o.len => L + n = (k + 1) * fs.spc
  <2> DEFINE p == k * fs.spc
  <2>1. (k + 1) * fs.spc = p + fs.spc
    <3>1. \A a, b \in Nat : (a + 1) * b = a * b + b
      OBVIOUS
    <3>2. k \in Nat /\ fs.spc \in Nat
      BY <1>1, <1>4
    <3> QED
      BY <3>1, <3>2
  <2>2. L = p
    BY <1>4
  <2> HIDE DEF p
  <2> QED
    BY <1>6, <2>1, <2>2
<1> QED
  BY <1>3, <1>4, <1>7, <1>9, <1>10, <1>11 DEF q, N

\* ... and returns with all of it, or as a lookup fails.
LEMMA FileEnds ==
    ASSUME Readable, NEW o, FileInv(o), o.rc = Pending, OnDisk(o.clus), o.guard # 0,
           Turn(o) # 0,
           NEW rc, \/ rc = o.len /\ Len(Taken(o).seen) = o.len
                   \/ rc = Eio /\ Len(Taken(o).seen) # o.len
    PROVE  FileInv([Taken(o) EXCEPT !.rc = rc])
<1> DEFINE q == Taken(o)
           p == [q EXCEPT !.rc = rc]
           N == There(o.start, o.len)
<1>1. /\ q \in FileCall /\ q.start = o.start /\ q.len = o.len
      /\ q.seen = Content(o.start, Len(q.seen)) /\ Len(q.seen) <= N
      /\ N <= o.len /\ N \in Nat
  BY FileReads
<1>2. o.len \in Nat /\ Len(q.seen) \in Nat
  BY <1>1 DEF FileCall
<1>3. (rc = o.len /\ Len(q.seen) = o.len) \/ (rc = Eio /\ Len(q.seen) # o.len)
  OBVIOUS
<1> HIDE DEF q, N
<1>4. rc \in Nat \cup {Eio}
  BY <1>2, <1>3
<1>5. /\ p \in FileCall /\ p.rc = rc /\ p.start = o.start /\ p.len = o.len /\ p.seen = q.seen
  BY <1>1, <1>4 DEF FileCall
<1> HIDE DEF p
<1>6. rc # Pending /\ rc # Ecorrupt /\ (rc >= 0 => rc # Eio) /\ (rc = Eio => rc # o.len)
  BY <1>2, <1>4 DEF Pending, Eio, Ecorrupt
<1>7. /\ rc >= 0 => rc = Len(q.seen) /\ rc = N
      /\ rc = Eio => Len(q.seen) < o.len
  BY <1>1, <1>2, <1>3, <1>6
<1>8. FileFaithful(p)
  BY <1>1, <1>5, <1>6, <1>7 DEF FileFaithful, N
<1> QED
  BY <1>5, <1>6, <1>8 DEF FileInv, p, q

\* ... and goes on.
LEMMA FileGoes ==
    ASSUME Readable, NEW o, FileInv(o), o.rc = Pending, OnDisk(o.clus), o.guard # 0,
           Turn(o) # 0,
           Len(Taken(o).seen) # o.len,
           NEW next \in Lookups(o.clus), next # Fails
    PROVE  FileInv([Taken(o) EXCEPT !.clus = next])
<1> DEFINE q == Taken(o)
           p == [q EXCEPT !.clus = next]
           k == fs.max - q.guard - 1
<1>1. /\ q \in FileCall /\ q.start = o.start /\ q.len = o.len /\ q.rc = Pending
      /\ q.seen = Content(o.start, Len(q.seen)) /\ Len(q.seen) <= There(o.start, o.len)
      /\ q.guard + 1 <= fs.max /\ At(o.clus, o.start, k)
      /\ Len(q.seen) = (fs.max - q.guard) * fs.spc
  BY FileReads
<1>2. o.start \in Nat /\ o.clus \in Nat /\ q.guard \in Nat /\ fs.max \in Nat
  BY <1>1, LimitFacts DEF FileCall, FileInv
<1>3. next \in Nat
  BY <1>2, LookupFacts
<1> HIDE DEF q
<1>4. k \in Nat /\ k + 1 = fs.max - q.guard /\ q.guard <= fs.max
  BY <1>1, <1>2
<1> HIDE DEF k
<1>5. At(next, o.start, fs.max - q.guard)
  <2>1. At(next, o.start, k + 1)
    BY <1>1, <1>2, <1>4, LookupMoves
  <2> QED
    BY <1>4, <2>1
<1>6. /\ p \in FileCall /\ p.clus = next /\ p.rc = Pending /\ p.start = o.start /\ p.len = o.len
      /\ p.seen = q.seen /\ p.guard = q.guard
  BY <1>1, <1>3 DEF FileCall
<1> HIDE DEF p
<1>7. FileGoesOn(p)
  BY <1>1, <1>4, <1>5, <1>6 DEF FileGoesOn
<1>8. FileFaithful(p)
  BY <1>1, <1>6 DEF FileFaithful, Pending, Eio, Ecorrupt
<1> QED
  BY <1>6, <1>7, <1>8 DEF FileInv, p, q

\* fat32_read_file, turn by turn.
LEMMA FileTurnInvariant ==
    ASSUME Readable, FileInv(op), FileTurn
    PROVE  FileInv(op')
<1>1. /\ op.rc = Pending /\ op \in FileCall /\ op.clus \in Nat /\ Len(op.seen) \in Nat
      /\ op.len \in Nat /\ fs.spc \in Nat \ {0}
      /\ Valid(fs, op.clus) <=> OnDisk(op.clus)
  BY LookupFacts DEF FileTurn, Running, FileInv, FileCall
<1>2. Turn(op) = 0 => Len(op.seen) = op.len
  BY <1>1 DEF Turn, Lesser
<1>3. /\ \A x \in Nat : x # Eio /\ x # Ecorrupt
      /\ Eio \notin Nat /\ Ecorrupt \notin Nat /\ Eio # Ecorrupt
  BY DEF Eio, Ecorrupt
<1> DEFINE read == [op EXCEPT !.seen = @ \o Sectors(op.clus, 0, Turn(op)), !.guard = @ - 1]
<1>4. read = Taken(op) /\ read.clus = op.clus /\ read.len = op.len
  BY <1>1 DEF Taken, FileCall
<1>5. \/ (Turn(op) = 0 \/ ~Valid(fs, op.clus)) /\ op' = [op EXCEPT !.rc = Len(op.seen)]
      \/ Turn(op) # 0 /\ Valid(fs, op.clus) /\ op.guard = 0 /\ op' = [op EXCEPT !.rc = Ecorrupt]
      \/ Turn(op) # 0 /\ Valid(fs, op.clus) /\ op.guard # 0 /\ op' = [op EXCEPT !.rc = Eio]
      \/ Turn(op) # 0 /\ Valid(fs, op.clus) /\ op.guard # 0 /\ FileNext(read)
  BY DEF FileTurn, Returns, Turn
<1> HIDE DEF read
<1>6. CASE (Turn(op) = 0 \/ ~Valid(fs, op.clus)) /\ op' = [op EXCEPT !.rc = Len(op.seen)]
  <2>1. Len(op.seen) = op.len \/ ~OnDisk(op.clus)
    BY <1>1, <1>2, <1>6
  <2>2. FileInv([op EXCEPT !.rc = Len(op.seen)])
    BY <1>1, <1>3, <2>1, FileStops
  <2> QED
    BY <1>6, <2>2
<1>7. CASE Turn(op) # 0 /\ Valid(fs, op.clus) /\ op.guard = 0 /\ op' = [op EXCEPT !.rc = Ecorrupt]
  <2>1. FileInv([op EXCEPT !.rc = Ecorrupt])
    BY <1>1, <1>3, <1>7, FileStops
  <2> QED
    BY <1>7, <2>1
<1>8. CASE Turn(op) # 0 /\ Valid(fs, op.clus) /\ op.guard # 0 /\ op' = [op EXCEPT !.rc = Eio]
  <2>1. Len(op.seen) # op.len
    BY <1>1, <1>8 DEF Turn, Lesser
  <2>2. FileInv([op EXCEPT !.rc = Eio])
    BY <1>1, <1>3, <2>1, FileStops
  <2> QED
    BY <1>8, <2>2
<1>9. CASE Turn(op) # 0 /\ Valid(fs, op.clus) /\ op.guard # 0 /\ FileNext(read)
  <2> DEFINE q == Taken(op)
  <2>1. FileNext(q) /\ q.clus = op.clus /\ q.len = op.len
    BY <1>4, <1>9
  <2> HIDE DEF q
  <2>2. CASE Len(q.seen) = op.len
    <3>1. op' = [q EXCEPT !.rc = op.len]
      BY <2>1, <2>2 DEF FileNext, Returns
    <3>2. FileInv([q EXCEPT !.rc = op.len])
      BY <1>1, <1>9, <2>2, FileEnds DEF q
    <3> QED
      BY <3>1, <3>2
  <2>3. CASE Len(q.seen) # op.len
    <3>1. PICK next \in Lookups(op.clus) :
              IF next = Fails THEN op' = [q EXCEPT !.rc = Eio] ELSE op' = [q EXCEPT !.clus = next]
      BY <2>1, <2>3 DEF FileNext, FileFollow, Returns
    <3>2. CASE next = Fails
      <4>1. FileInv([q EXCEPT !.rc = Eio])
        BY <1>1, <1>9, <2>3, FileEnds DEF q
      <4> QED
        BY <3>1, <3>2, <4>1
    <3>3. CASE next # Fails
      <4>1. FileInv([q EXCEPT !.clus = next])
        BY <1>1, <1>9, <2>3, <3>3, FileGoes DEF q
      <4> QED
        BY <3>1, <3>3, <4>1
    <3> QED
      BY <3>2, <3>3
  <2> QED
    BY <2>2, <2>3
<1> QED
  BY <1>5, <1>6, <1>7, <1>8, <1>9

-----------------------------------------------------------------------------
(* A stream. *)

\* Of the calls, these two are on the stream.
OnStream(o) == o.kind \in {"read", "skip"}

\* An open stream rests while the reader does something else.
LEMMA StreamRests ==
    ASSUME NEW s, NEW o, NEW p, StreamInv(s, o), ~OnStream(p)
    PROVE  StreamInv(s, p)
<1>1. ~(p.kind \in {"read", "skip"})
  BY DEF OnStream
<1>2. \A k \in Nat : StreamAt(s, o, k) => StreamAt(s, p, k)
  BY <1>1 DEF StreamAt
<1>3. StreamFaithful(s, p)
  BY <1>1 DEF StreamInv, StreamFaithful
<1> QED
  BY <1>1, <1>2, <1>3 DEF StreamInv

\* A stream is opened.
LEMMA StreamBegins ==
    ASSUME Readable, NEW c \in Nat, NEW size \in Nat, NEW o, ~OnStream(o)
    PROVE  StreamInv([Closed EXCEPT !.clus = IF size = 0 THEN 0 ELSE c, !.left = size,
                                    !.start = c, !.size = size], o)
<1> DEFINE s == [Closed EXCEPT !.clus = IF size = 0 THEN 0 ELSE c, !.left = size,
                               !.start = c, !.size = size]
<1>1. medium \in Disks /\ medium.vol.spc \in Nat \ {0} /\ fs.spc = medium.vol.spc
  BY LookupFacts DEF Readable
<1>2. s = [clus |-> IF size = 0 THEN 0 ELSE c, off |-> 0, left |-> size, start |-> c,
           size |-> size, over |-> <<>>]
  <2> DEFINE e == IF size = 0 THEN 0 ELSE c
  <2>1. s = [Closed EXCEPT !.clus = e, !.left = size, !.start = c, !.size = size]
    OBVIOUS
  <2> HIDE DEF s, e
  <2>2. s = [clus |-> e, off |-> 0, left |-> size, start |-> c, size |-> size, over |-> <<>>]
    BY <2>1 DEF Closed
  <2> QED
    BY <2>2 DEF e
<1> HIDE DEF s
<1>3. /\ s \in Stream /\ s.off = 0 /\ s.left = size /\ s.start = c /\ s.size = size
      /\ s.over = <<>> /\ s.clus = IF size = 0 THEN Fails ELSE c
  BY <1>2 DEF Stream, Fails
<1>4. ~(o.kind \in {"read", "skip"})
  BY DEF OnStream
<1>5. s.clus = Fails \/ StreamAt(s, o, 0)
  <2>1. Walk(c)[0] = c
    BY WalkUnfolds
  <2>2. At(c, c, 0)
    BY <2>1 DEF At
  <2>3. Len(s.over) = 0 /\ 0 * fs.spc + 0 = 0
    BY <1>1, <1>3
  <2> QED
    BY <1>1, <1>3, <1>4, <2>2, <2>3 DEF StreamAt
<1>6. StreamFaithful(s, o)
  <2>1. Content(c, 0) = <<>>
    BY <1>1, ContentFacts
  <2>2. There(c, size) \in 0 .. size
    BY <1>1, ThereFacts
  <2>3. Len(s.over) = 0
    BY <1>3
  <2> QED
    BY <1>3, <1>4, <2>1, <2>2, <2>3 DEF StreamFaithful
<1> QED
  BY <1>1, <1>3, <1>4, <1>5, <1>6 DEF StreamInv, s

\* A call of an open stream begins.
LEMMA StreamCalled ==
    ASSUME Readable, NEW s, NEW o, StreamInv(s, o), NEW kind \in {"read", "skip"}, NEW len \in Nat
    PROVE  StreamInv(s, [kind |-> kind, len |-> len, got |-> 0, from |-> Len(s.over),
                         rc |-> Pending, guard |-> fs.max])
<1> DEFINE p == [kind |-> kind, len |-> len, got |-> 0, from |-> Len(s.over),
                 rc |-> Pending, guard |-> fs.max]
<1>1. s \in Stream /\ fs.max \in Nat /\ Len(s.over) \in Nat
  BY LimitFacts DEF StreamInv, Stream
<1>2. /\ p \in StreamCalls /\ p.len = len /\ p.got = 0 /\ p.from = Len(s.over)
      /\ p.rc = Pending /\ p.guard = fs.max
  BY <1>1 DEF StreamCalls
<1> HIDE DEF p
<1>3. \A k \in Nat : StreamAt(s, o, k) => StreamAt(s, p, k)
  BY <1>1, <1>2 DEF StreamAt
<1>4. StreamFaithful(s, p)
  <2>1. ~(Pending >= 0) /\ Pending # Ecorrupt
    BY DEF Pending, Ecorrupt
  <2> QED
    BY <1>1, <1>2, <2>1 DEF StreamInv, StreamFaithful
<1> QED
  BY <1>1, <1>2, <1>3, <1>4 DEF StreamInv, p

\* The sectors a turn goes over.
Reached(s, o) == Lesser(Lesser(o.len - o.got, s.left), fs.spc - s.off)

\* What a turn of a call finds.
LEMMA StreamFinds ==
    ASSUME Readable, NEW s, NEW o, StreamInv(s, o), OnStream(o)
    PROVE  LET T == There(s.start, s.size)
               L == Len(s.over)
               n == Reached(s, o)
           IN  /\ s \in Stream /\ o \in StreamCalls /\ medium \in Disks
               /\ fs.max \in Nat /\ fs.spc \in Nat \ {0} /\ fs.spc = medium.vol.spc
               /\ L \in Nat /\ T \in Nat /\ L <= T /\ T <= s.size /\ L + s.left = s.size
               /\ L = o.from + o.got /\ o.got <= o.len /\ s.off <= fs.spc
               /\ n \in Nat /\ n <= s.left /\ o.got + n <= o.len /\ s.off + n <= fs.spc
               /\ n = s.left \/ o.got + n = o.len \/ s.off + n = fs.spc
<1> DEFINE T == There(s.start, s.size)
           L == Len(s.over)
           n == Reached(s, o)
<1>1. /\ s \in Stream /\ o \in StreamCalls /\ medium \in Disks
      /\ fs.max \in Nat /\ fs.spc \in Nat \ {0} /\ fs.spc = medium.vol.spc
      /\ o.got <= o.len /\ s.off <= fs.spc
  BY LimitFacts, LookupFacts DEF StreamInv, OnStream, Readable
<1>2. /\ s.start \in Nat /\ s.size \in Nat /\ s.left \in Nat /\ s.off \in Nat /\ L \in Nat
      /\ o.len \in Nat /\ o.got \in Nat /\ o.from \in Nat
  BY <1>1 DEF Stream, StreamCalls
<1>3. T \in 0 .. s.size
  BY <1>1, <1>2, ThereFacts
<1>4. L <= T /\ L + s.left = s.size /\ L = o.from + o.got
  BY DEF StreamInv, StreamFaithful, OnStream
<1>5. n \in Nat /\ n <= s.left /\ o.got + n <= o.len /\ s.off + n <= fs.spc
      /\ (n = s.left \/ o.got + n = o.len \/ s.off + n = fs.spc)
  <2>1. n = Lesser(Lesser(o.len - o.got, s.left), fs.spc - s.off)
    BY DEF Reached
  <2>2. o.len - o.got \in Nat /\ fs.spc - s.off \in Nat
    BY <1>1, <1>2
  <2> DEFINE a == o.len - o.got
             b == fs.spc - s.off
             m == Lesser(a, s.left)
  <2>3. a \in Nat /\ b \in Nat /\ n = Lesser(m, b) /\ m = Lesser(a, s.left)
    BY <2>1, <2>2
  <2>4. a = o.len - o.got /\ b = fs.spc - s.off
    OBVIOUS
  <2> HIDE DEF n, m, a, b
  <2>5. m \in Nat /\ m <= a /\ m <= s.left /\ (m = a \/ m = s.left)
    BY <1>2, <2>3 DEF Lesser
  <2>6. n \in Nat /\ n <= m /\ n <= b /\ (n = m \/ n = b)
    BY <2>3, <2>5 DEF Lesser
  <2>7. \A x, y \in Nat : \A z \in Nat : z = x - y => (n <= z => y + n <= x) /\ (n = z => y + n = x)
    BY <2>6
  <2>8. /\ n <= a => o.got + n <= o.len
        /\ n = a => o.got + n = o.len
    BY <1>2, <2>3, <2>4, <2>7
  <2>9. /\ n <= b => s.off + n <= fs.spc
        /\ n = b => s.off + n = fs.spc
    BY <1>1, <1>2, <2>3, <2>4, <2>7
  <2>10. n \in Nat /\ n <= s.left /\ n <= a /\ n <= b /\ (n = s.left \/ n = a \/ n = b)
    BY <1>2, <2>3, <2>5, <2>6
  <2> QED
    BY <2>8, <2>9, <2>10
<1> HIDE DEF T, L, n
<1> QED
  BY <1>1, <1>2, <1>3, <1>4, <1>5 DEF T, L, n

\* A call that returns where it stands.
LEMMA StreamStops ==
    ASSUME Readable, NEW s, NEW o, StreamInv(s, o), OnStream(o), o.rc = Pending,
           NEW rc \in Nat \cup {Eio, Ecorrupt},
           \/ rc = Eio
           \/ rc = o.got /\ (Reached(s, o) = 0 \/ ~OnDisk(s.clus))
           \/ /\ Reached(s, o) # 0 /\ OnDisk(s.clus) /\ o.guard = 0
              /\ rc = Ecorrupt \/ (rc = o.got /\ o.kind = "skip")
    PROVE  StreamInv(s, [o EXCEPT !.rc = rc])
<1> DEFINE p == [o EXCEPT !.rc = rc]
           T == There(s.start, s.size)
           L == Len(s.over)
           n == Reached(s, o)
           w == Walk(s.start)
<1>1. /\ s \in Stream /\ o \in StreamCalls /\ medium \in Disks
      /\ fs.max \in Nat /\ fs.spc \in Nat \ {0} /\ fs.spc = medium.vol.spc
      /\ L \in Nat /\ T \in Nat /\ L <= T /\ T <= s.size /\ L + s.left = s.size
      /\ L = o.from + o.got /\ o.got <= o.len /\ s.off <= fs.spc
      /\ n \in Nat /\ n <= s.left /\ o.got + n <= o.len /\ s.off + n <= fs.spc
      /\ n = s.left \/ o.got + n = o.len \/ s.off + n = fs.spc
  BY StreamFinds
<1>2. /\ s.start \in Nat /\ s.size \in Nat /\ s.left \in Nat /\ s.off \in Nat /\ s.clus \in Nat
      /\ o.len \in Nat /\ o.got \in Nat /\ o.from \in Nat /\ o.guard \in Nat
  BY <1>1 DEF Stream, StreamCalls
<1>3. /\ p \in StreamCalls /\ p.kind = o.kind /\ p.len = o.len /\ p.got = o.got /\ p.from = o.from
      /\ p.rc = rc
  BY <1>1 DEF StreamCalls
<1>4. rc # Pending
  BY DEF Pending, Eio, Ecorrupt
<1>5. o.kind \in {"read", "skip"}
  BY DEF OnStream
<1> HIDE DEF p, T, L, n
<1>6. \A k \in Nat : StreamAt(s, o, k) => StreamAt(s, p, k)
  BY <1>3, <1>4 DEF StreamAt
<1>7. s.clus = Fails \/ \E k \in Nat : StreamAt(s, o, k)
  BY DEF StreamInv
<1>8. s.clus # Fails /\ (n = 0 \/ ~OnDisk(s.clus)) => o.got = Lesser(o.len, T - o.from)
  <2> SUFFICES ASSUME s.clus # Fails, n = 0 \/ ~OnDisk(s.clus)
               PROVE  o.got = Lesser(o.len, T - o.from)
    OBVIOUS
  <2>1. PICK k \in Nat : StreamAt(s, o, k)
    BY <1>7
  <2>2. /\ L = k * fs.spc + s.off /\ (s.off = fs.spc => s.left = 0) /\ At(s.clus, s.start, k)
    BY <2>1 DEF StreamAt, L
  <2>3. ~OnDisk(s.clus) => T <= L
    <3>1. ASSUME ~OnDisk(s.clus) PROVE ~OnDisk(w[k])
      BY <2>2, <3>1 DEF At
    <3>2. ASSUME ~OnDisk(w[k]) PROVE T <= k * medium.vol.spc
      BY <1>1, <1>2, <3>2, ThereFacts DEF T
    <3> DEFINE b == k * fs.spc
    <3>3. b \in Nat /\ L = b + s.off /\ k * medium.vol.spc = b
      BY <1>1, <2>2
    <3> HIDE DEF b, w
    <3> QED
      BY <1>1, <1>2, <3>1, <3>2, <3>3
  <2>4. s.left = 0 => T <= L
    BY <1>1, <1>2
  <2>5. T = L \/ o.got = o.len
    <3>1. s.left = 0 => T = L
      BY <1>1, <2>4
    <3>2. ~OnDisk(s.clus) => T = L
      BY <1>1, <2>3
    <3>3. n = 0 => s.left = 0 \/ o.got = o.len \/ s.off = fs.spc
      BY <1>1, <1>2
    <3> QED
      BY <2>2, <3>1, <3>2, <3>3
  <2>6. T - o.from \in Nat /\ o.got <= T - o.from /\ (T = L => T - o.from = o.got)
    BY <1>1, <1>2
  <2> QED
    BY <1>1, <1>2, <2>5, <2>6 DEF Lesser
<1>9. n # 0 /\ OnDisk(s.clus) /\ o.guard = 0 => Cyclic(s.start)
  <2> SUFFICES ASSUME n # 0, OnDisk(s.clus), o.guard = 0 PROVE Cyclic(s.start)
    OBVIOUS
  <2>1. s.clus # Fails
    <3>1. ~OnDisk(0)
      BY DEF OnDisk, DataCluster
    <3> QED
      BY <3>1 DEF Fails
  <2>2. PICK k \in Nat : StreamAt(s, o, k)
    BY <1>7, <2>1
  <2>3. o.got < o.len /\ s.left > 0
    BY <1>1, <1>2
  <2>4. At(s.clus, s.start, k) /\ fs.max <= o.guard + k
    BY <1>5, <2>2, <2>3 DEF StreamAt
  <2>5. OnDisk(w[k])
    BY <2>4 DEF At
  <2>6. fs.max <= k
    BY <1>1, <2>4
  <2> QED
    BY <1>2, <2>5, <2>6, TooFarIsCyclic
<1>10. /\ rc >= 0 /\ s.clus # Fails =>
              rc = Lesser(o.len, T - o.from) \/ (o.kind = "skip" /\ Cyclic(s.start))
       /\ rc = Ecorrupt => Cyclic(s.start)
  <2>1. \/ rc = Eio
        \/ rc = o.got /\ (n = 0 \/ ~OnDisk(s.clus))
        \/ n # 0 /\ OnDisk(s.clus) /\ o.guard = 0 /\ (rc = Ecorrupt \/ (rc = o.got /\ o.kind = "skip"))
    BY DEF n
  <2>2. ~(Eio >= 0) /\ ~(Ecorrupt >= 0) /\ Eio # Ecorrupt /\ o.got # Ecorrupt
    BY <1>2 DEF Eio, Ecorrupt
  <2> QED
    BY <1>8, <1>9, <2>1, <2>2
<1>11. StreamFaithful(s, p)
  <2>1. /\ s.over = Content(s.start, L) /\ L + s.left = s.size /\ L <= T
    BY DEF StreamInv, StreamFaithful, L, T
  <2> QED
    BY <1>1, <1>3, <1>10, <2>1 DEF StreamFaithful, L, T
<1> QED
  BY <1>1, <1>3, <1>5, <1>6, <1>7, <1>11 DEF StreamInv, p

\* The cursor, and the call, after the sectors of a turn.
Went(s, o) ==
    [s EXCEPT !.off = @ + Reached(s, o), !.left = @ - Reached(s, o),
              !.over = @ \o Sectors(s.clus, s.off, Reached(s, o))]
Got(s, o) == [o EXCEPT !.got = @ + Reached(s, o), !.guard = @ - 1]

\* What is delivered after them, and where the cursor stands.
LEMMA StreamReads ==
    ASSUME Readable, NEW s, NEW o, StreamInv(s, o), OnStream(o), o.rc = Pending,
           OnDisk(s.clus), o.guard # 0, Reached(s, o) # 0
    PROVE  LET r == Went(s, o)
               q == Got(s, o)
           IN  /\ r \in Stream /\ r.start = s.start /\ r.clus = s.clus /\ r.over # <<>>
               /\ q \in StreamCalls /\ q.kind = o.kind /\ q.rc = Pending /\ q.got <= q.len
               /\ r.off <= fs.spc /\ (r.off = fs.spc \/ r.left = 0 \/ q.got = q.len)
               /\ StreamFaithful(r, q)
               /\ \E k \in Nat :
                      /\ Len(r.over) = k * fs.spc + r.off /\ At(s.clus, s.start, k)
                      /\ fs.max <= q.guard + k + 1
<1> DEFINE r == Went(s, o)
           q == Got(s, o)
           T == There(s.start, s.size)
           L == Len(s.over)
           n == Reached(s, o)
           more == With(s.over, s.clus, s.off, n)
<1>1. /\ s \in Stream /\ o \in StreamCalls /\ medium \in Disks
      /\ fs.max \in Nat /\ fs.spc \in Nat \ {0} /\ fs.spc = medium.vol.spc
      /\ L \in Nat /\ T \in Nat /\ L <= T /\ T <= s.size /\ L + s.left = s.size
      /\ L = o.from + o.got /\ o.got <= o.len /\ s.off <= fs.spc
      /\ n \in Nat /\ n <= s.left /\ o.got + n <= o.len /\ s.off + n <= fs.spc
      /\ n = s.left \/ o.got + n = o.len \/ s.off + n = fs.spc
  BY StreamFinds
<1>2. /\ s.start \in Nat /\ s.size \in Nat /\ s.left \in Nat /\ s.off \in Nat /\ s.clus \in Nat
      /\ o.len \in Nat /\ o.got \in Nat /\ o.from \in Nat /\ o.guard \in Nat \ {0}
      /\ n \in Nat \ {0}
  BY <1>1 DEF Stream, StreamCalls
<1>3. s.over = Content(s.start, L)
  BY DEF StreamInv, StreamFaithful
<1>4. o.kind \in {"read", "skip"}
  BY DEF OnStream
<1> HIDE DEF T, L, n
<1>5. s.clus # Fails
  <2>1. ~OnDisk(0)
    BY DEF OnDisk, DataCluster
  <2> QED
    BY <2>1 DEF Fails
<1>6. o.got < o.len /\ s.left > 0
  BY <1>1, <1>2
<1>7. PICK k \in Nat : StreamAt(s, o, k)
  BY <1>5 DEF StreamInv
<1>8. L = k * fs.spc + s.off /\ At(s.clus, s.start, k) /\ fs.max <= o.guard + k
  BY <1>4, <1>6, <1>7 DEF StreamAt, L
<1>9. more = Content(s.start, L + n) /\ more \in Seq(Nat \X Nat) /\ Len(more) = L + n
      /\ L + n <= T
  <2>1. Placed(L, k, s.off)
    BY <1>1, <1>8 DEF Placed
  <2>2. L + n <= s.size
    BY <1>1, <1>2
  <2>3. Readable /\ OnDisk(s.clus) /\ At(s.clus, s.start, k) /\ s.off + n <= fs.spc /\ L \in Nat
    BY <1>1, <1>8
  <2> DEFINE x == With(Content(s.start, L), s.clus, s.off, n)
  <2>4. /\ x = Content(s.start, L + n) /\ x \in Seq(Nat \X Nat) /\ Len(x) = L + n
        /\ L + n <= There(s.start, s.size)
    BY <1>2, <2>1, <2>2, <2>3, ReadsOn
  <2> QED
    BY <1>3, <2>4 DEF T
<1> HIDE DEF more
<1>10. s.off + n \in Nat /\ s.left - n \in Nat /\ o.got + n \in Nat /\ o.guard - 1 \in Nat
  BY <1>1, <1>2
<1>11. /\ r \in Stream /\ r.start = s.start /\ r.clus = s.clus /\ r.size = s.size /\ r.over = more
       /\ r.off = s.off + n /\ r.left = s.left - n
  BY <1>1, <1>9, <1>10 DEF Stream, Went, With, more, n
<1>12. /\ q \in StreamCalls /\ q.kind = o.kind /\ q.rc = Pending /\ q.len = o.len /\ q.from = o.from
       /\ q.got = o.got + n /\ q.guard = o.guard - 1
  BY <1>1, <1>10 DEF StreamCalls, Got, n
<1> HIDE DEF r, q
<1>13. StreamFaithful(r, q)
  <2>1. (L + n) + (s.left - n) = s.size /\ L + n = o.from + (o.got + n)
    BY <1>1, <1>2
  <2>2. ~(Pending >= 0) /\ Pending # Ecorrupt
    BY DEF Pending, Ecorrupt
  <2> QED
    BY <1>9, <1>11, <1>12, <2>1, <2>2 DEF StreamFaithful, T
<1>14. Len(r.over) = k * fs.spc + r.off
  <2> DEFINE b == k * fs.spc
  <2>1. b \in Nat /\ L = b + s.off
    BY <1>1, <1>8
  <2> HIDE DEF b
  <2>2. L + n = b + (s.off + n)
    BY <1>2, <2>1
  <2> QED
    BY <1>9, <1>11, <2>2 DEF b
<1>15. fs.max <= q.guard + k + 1
  BY <1>1, <1>2, <1>8, <1>12
<1>16. r.over # <<>>
  BY <1>1, <1>2, <1>9, <1>11
<1>17. r.off = fs.spc \/ r.left = 0 \/ q.got = q.len
  BY <1>1, <1>2, <1>11, <1>12
<1> QED
  BY <1>1, <1>8, <1>11, <1>12, <1>13, <1>14, <1>15, <1>16, <1>17 DEF r, q

\* The call goes on in the same cluster, or the file is at its end.
LEMMA StreamStays ==
    ASSUME Readable, NEW s, NEW o, StreamInv(s, o), OnStream(o), o.rc = Pending,
           OnDisk(s.clus), o.guard # 0, Reached(s, o) # 0,
           Went(s, o).off < fs.spc \/ Went(s, o).left = 0
    PROVE  StreamInv(Went(s, o), Got(s, o))
<1> DEFINE r == Went(s, o)
           q == Got(s, o)
<1>1. /\ r \in Stream /\ r.start = s.start /\ r.clus = s.clus
      /\ q \in StreamCalls /\ q.kind = o.kind /\ q.rc = Pending /\ q.got <= q.len
      /\ r.off <= fs.spc /\ (r.off = fs.spc \/ r.left = 0 \/ q.got = q.len)
      /\ StreamFaithful(r, q)
      /\ \E k \in Nat :
             /\ Len(r.over) = k * fs.spc + r.off /\ At(s.clus, s.start, k)
             /\ fs.max <= q.guard + k + 1
  BY StreamReads
<1>2. PICK k \in Nat : Len(r.over) = k * fs.spc + r.off /\ At(s.clus, s.start, k)
  BY <1>1
<1>3. r.off < fs.spc \/ r.left = 0
  OBVIOUS
<1> HIDE DEF r, q
<1>4. r.off \in Nat /\ r.left \in Nat /\ q.got \in Nat /\ q.len \in Nat /\ fs.spc \in Nat
  BY <1>1, LookupFacts DEF Stream, StreamCalls
<1>5. r.off = fs.spc => r.left = 0
  BY <1>3, <1>4
<1>6. ~(q.got < q.len /\ r.left > 0)
  BY <1>1, <1>3, <1>4
<1>7. StreamAt(r, q, k)
  BY <1>1, <1>2, <1>5, <1>6 DEF StreamAt
<1> QED
  BY <1>1, <1>7 DEF StreamInv, r, q

\* The call goes on in the next cluster.
LEMMA StreamGoes ==
    ASSUME Readable, NEW s, NEW o, StreamInv(s, o), OnStream(o), o.rc = Pending,
           OnDisk(s.clus), o.guard # 0, Reached(s, o) # 0,
           ~(Went(s, o).off < fs.spc),
           NEW next \in Lookups(s.clus), next # Fails
    PROVE  StreamInv([Went(s, o) EXCEPT !.clus = next, !.off = 0], Got(s, o))
<1> DEFINE r == Went(s, o)
           q == Got(s, o)
           z == [r EXCEPT !.clus = next, !.off = 0]
<1>1. /\ r \in Stream /\ r.start = s.start /\ r.clus = s.clus
      /\ q \in StreamCalls /\ q.kind = o.kind /\ q.rc = Pending /\ q.got <= q.len
      /\ r.off <= fs.spc
      /\ StreamFaithful(r, q)
      /\ \E k \in Nat :
             /\ Len(r.over) = k * fs.spc + r.off /\ At(s.clus, s.start, k)
             /\ fs.max <= q.guard + k + 1
  BY StreamReads
<1>2. PICK k \in Nat :
             /\ Len(r.over) = k * fs.spc + r.off /\ At(s.clus, s.start, k)
             /\ fs.max <= q.guard + k + 1
  BY <1>1
<1>3. ~(r.off < fs.spc)
  OBVIOUS
<1> HIDE DEF r, q
<1>4. r.off \in Nat /\ q.guard \in Nat /\ fs.spc \in Nat \ {0} /\ fs.max \in Nat
      /\ s.clus \in Nat /\ s.start \in Nat
  BY <1>1, LookupFacts, LimitFacts DEF Stream, StreamCalls
<1>5. next \in Nat /\ At(next, s.start, k + 1)
  BY <1>2, <1>4, LookupMoves, LookupFacts
<1>6. /\ z \in Stream /\ z.start = r.start /\ z.clus = next /\ z.off = 0 /\ z.left = r.left
      /\ z.size = r.size /\ z.over = r.over
  BY <1>1, <1>5 DEF Stream
<1> HIDE DEF z
<1>7. Len(z.over) = (k + 1) * fs.spc + z.off
  <2> DEFINE b == k * fs.spc
  <2>1. \A x, y \in Nat : (x + 1) * y = x * y + y /\ x * y \in Nat
    OBVIOUS
  <2>2. b \in Nat /\ (k + 1) * fs.spc = b + fs.spc
    BY <1>4, <2>1
  <2>3. Len(r.over) = b + r.off
    BY <1>2
  <2> HIDE DEF b
  <2>4. r.off = fs.spc
    BY <1>1, <1>3, <1>4
  <2>5. b + fs.spc = (b + fs.spc) + 0
    BY <1>4, <2>2
  <2> QED
    BY <1>6, <2>2, <2>3, <2>4, <2>5
<1>8. fs.max <= q.guard + (k + 1) /\ k + 1 \in Nat /\ 0 <= fs.spc /\ 0 # fs.spc
  BY <1>2, <1>4
<1>9. StreamAt(z, q, k + 1)
  BY <1>1, <1>5, <1>6, <1>7, <1>8 DEF StreamAt
<1>10. StreamFaithful(z, q)
  <2>1. ~(Pending >= 0)
    BY DEF Pending
  <2> QED
    BY <1>1, <1>6, <2>1 DEF StreamFaithful
<1> QED
  BY <1>1, <1>6, <1>8, <1>9, <1>10 DEF StreamInv, r, q, z

\* The next cluster cannot be read, and the stream is lost.
LEMMA StreamLoses ==
    ASSUME Readable, NEW s, NEW o, StreamInv(s, o), OnStream(o), o.rc = Pending,
           OnDisk(s.clus), o.guard # 0, Reached(s, o) # 0,
           NEW rc \in {Eio, Got(s, o).got}
    PROVE  StreamInv([Went(s, o) EXCEPT !.clus = Fails, !.off = 0], [Got(s, o) EXCEPT !.rc = rc])
<1> DEFINE r == Went(s, o)
           q == Got(s, o)
           z == [r EXCEPT !.clus = Fails, !.off = 0]
           p == [q EXCEPT !.rc = rc]
<1>1. /\ r \in Stream /\ q \in StreamCalls /\ q.kind = o.kind /\ q.got <= q.len
      /\ StreamFaithful(r, q)
  BY StreamReads
<1>2. rc \in {Eio, q.got}
  OBVIOUS
<1> HIDE DEF r, q
<1>3. q.got \in Nat /\ rc \in Nat \cup {Eio} /\ fs.spc \in Nat
  BY <1>1, <1>2, LookupFacts DEF StreamCalls
<1>4. /\ z \in Stream /\ z.start = r.start /\ z.clus = Fails /\ z.off = 0 /\ z.left = r.left
      /\ z.size = r.size /\ z.over = r.over
  BY <1>1 DEF Stream, Fails
<1>5. /\ p \in StreamCalls /\ p.kind = q.kind /\ p.rc = rc /\ p.len = q.len /\ p.got = q.got
      /\ p.from = q.from
  BY <1>1, <1>3 DEF StreamCalls
<1> HIDE DEF z, p
<1>6. StreamFaithful(z, p)
  <2>1. rc # Ecorrupt
    BY <1>3 DEF Eio, Ecorrupt
  <2> QED
    BY <1>1, <1>4, <1>5, <2>1 DEF StreamFaithful
<1> QED
  BY <1>1, <1>3, <1>4, <1>5, <1>6 DEF StreamInv, r, q, z, p

\* fat32_stream_read and fat32_stream_skip, turn by turn.
LEMMA StreamTurnInvariant ==
    ASSUME Readable, StreamInv(st, op), st # Closed, StreamTurn
    PROVE  StreamInv(st', op') /\ st' # Closed /\ OnStream(op')
<1> DEFINE n == Reached(st, op)
           r == Went(st, op)
           q == Got(st, op)
<1>1. OnStream(op) /\ op.rc = Pending
  BY DEF StreamTurn, Running, OnStream
<1>2. op \in StreamCalls /\ op.got \in Nat
  BY <1>1 DEF StreamInv, OnStream, StreamCalls
<1>3. st.clus \in Nat /\ (Valid(fs, st.clus) <=> OnDisk(st.clus))
  <2>1. st.clus \in Nat
    BY DEF StreamInv, Stream
  <2> QED
    BY <2>1, LookupFacts
<1>4. \A rc : LET p == [op EXCEPT !.rc = rc] IN OnStream(p) /\ p.rc = rc
  BY <1>1, <1>2 DEF StreamCalls, OnStream
<1>5. \/ (n = 0 \/ ~OnDisk(st.clus)) /\ op' = [op EXCEPT !.rc = op.got] /\ st' = st
      \/ n # 0 /\ OnDisk(st.clus) /\ op.guard = 0 /\ Stuck(op, Ecorrupt) /\ st' = st
      \/ op' = [op EXCEPT !.rc = Eio] /\ st' = st
      \/ n # 0 /\ OnDisk(st.clus) /\ op.guard # 0 /\ StreamAdvance(q, r)
  <2>1. Moved(n) = r
    BY DEF Moved, Went
  <2>2. [op EXCEPT !.got = @ + n, !.guard = @ - 1] = q
    BY DEF Got
  <2>3. n = Lesser(Lesser(op.len - op.got, st.left), fs.spc - st.off)
    BY DEF Reached
  <2> HIDE DEF n, q, r
  <2> QED
    BY <1>3, <2>1, <2>2, <2>3 DEF StreamTurn, Returns
<1> HIDE DEF n, q, r
<1>6. CASE (n = 0 \/ ~OnDisk(st.clus)) /\ op' = [op EXCEPT !.rc = op.got] /\ st' = st
  <2>1. StreamInv(st, [op EXCEPT !.rc = op.got])
    BY <1>1, <1>2, <1>6, StreamStops DEF n
  <2> QED
    BY <1>4, <1>6, <2>1
<1>7. CASE n # 0 /\ OnDisk(st.clus) /\ op.guard = 0 /\ Stuck(op, Ecorrupt) /\ st' = st
  <2>1. PICK rc : /\ op' = [op EXCEPT !.rc = rc]
                  /\ rc = Ecorrupt \/ (rc = op.got /\ op.kind = "skip")
    <3>1. op.kind = "read" \/ op.kind = "skip"
      BY <1>1 DEF OnStream
    <3> QED
      BY <1>7, <3>1 DEF Stuck, Returns
  <2>2. rc \in Nat \cup {Eio, Ecorrupt}
    BY <1>2, <2>1
  <2>3. StreamInv(st, [op EXCEPT !.rc = rc])
    BY <1>1, <1>7, <2>1, <2>2, StreamStops DEF n
  <2> QED
    BY <1>4, <1>7, <2>1, <2>3
<1>8. CASE op' = [op EXCEPT !.rc = Eio] /\ st' = st
  <2>1. StreamInv(st, [op EXCEPT !.rc = Eio])
    BY <1>1, StreamStops
  <2> QED
    BY <1>4, <1>8, <2>1
<1>9. CASE n # 0 /\ OnDisk(st.clus) /\ op.guard # 0 /\ StreamAdvance(q, r)
  <2>1. r \in Stream /\ r.over # <<>> /\ r.clus = st.clus /\ q \in StreamCalls /\ q.kind = op.kind
    BY <1>1, <1>9, StreamReads DEF n, q, r
  <2>2. Closed.over = <<>>
    BY DEF Closed
  <2>3. OnStream(q)
    BY <1>1, <2>1 DEF OnStream
  <2>4. \A c, o : LET z == [r EXCEPT !.clus = c, !.off = o] IN z # Closed
    <3> TAKE c, o
    <3>1. [r EXCEPT !.clus = c, !.off = o].over = r.over
      BY <2>1 DEF Stream
    <3> QED
      BY <2>1, <2>2, <3>1
  <2>5. CASE (r.off < fs.spc \/ r.left = 0) /\ st' = r /\ op' = q
    <3>1. StreamInv(r, q)
      BY <1>1, <1>9, <2>5, StreamStays DEF n, q, r
    <3> QED
      BY <2>1, <2>2, <2>3, <2>5, <3>1
  <2>6. ASSUME ~(r.off < fs.spc), NEW next \in Lookups(st.clus),
               st' = [r EXCEPT !.clus = next, !.off = 0],
               IF next = Fails THEN Stuck(q, Eio) ELSE op' = q
        PROVE  StreamInv(st', op') /\ st' # Closed /\ OnStream(op')
    <3>1. st' # Closed
      BY <2>4, <2>6
    <3>2. CASE next # Fails
      <4>1. StreamInv([r EXCEPT !.clus = next, !.off = 0], q)
        BY <1>1, <1>9, <2>6, <3>2, StreamGoes DEF n, q, r
      <4> QED
        BY <2>3, <2>6, <3>1, <3>2, <4>1
    <3>3. CASE next = Fails
      <4>1. PICK rc \in {Eio, q.got} : op' = [q EXCEPT !.rc = rc]
        BY <2>6, <3>3 DEF Stuck, Returns
      <4>2. StreamInv([r EXCEPT !.clus = Fails, !.off = 0], [q EXCEPT !.rc = rc])
        BY <1>1, <1>9, StreamLoses DEF n, q, r
      <4>3. OnStream(op')
        BY <2>1, <2>3, <4>1 DEF OnStream, StreamCalls
      <4> QED
        BY <2>6, <3>1, <3>3, <4>1, <4>2, <4>3
    <3> QED
      BY <3>2, <3>3
  <2>7. Lookups(r.clus) = Lookups(st.clus)
    BY <2>1
  <2> QED
    BY <1>9, <2>5, <2>6, <2>7 DEF StreamAdvance
<1> QED
  BY <1>5, <1>6, <1>7, <1>8, <1>9

-----------------------------------------------------------------------------
(* All of them. *)

\* Every call, and the stream, are where their chain says.
ChainInv ==
    /\ FatInv /\ medium \in Disks
    /\ TrueData(medium.vol) < Word =>
           /\ op.kind \in {"dir", "file"} \/ st # Closed => fs # Unmounted
           /\ op.kind = "dir" => DirInv(op)
           /\ op.kind = "file" => FileInv(op)
           /\ OnStream(op) => st # Closed
           /\ st # Closed => StreamInv(st, op)

\* While the disk and the geometry stay as they are, a step is judged by what
\* it makes of the call and of the stream.
LEMMA SameDisk ==
    ASSUME UNCHANGED <<medium, fs>>
    PROVE  /\ (DirInv(op))' <=> DirInv(op')
           /\ (FileInv(op))' <=> FileInv(op')
           /\ (StreamInv(st, op))' <=> StreamInv(st', op')
<1>1. (DirInv(op))' <=> DirInv(op')
  BY DEF DirInv, DirFaithful, DirGoesOn, At, Cyclic, Reach, Walk, Link, OnDisk, DirLimit
<1>2. (FileInv(op))' <=> FileInv(op')
  BY DEF FileInv, FileFaithful, FileGoesOn, At, Cyclic, Content, There, Walk, Link, OnDisk
<1>3. (StreamInv(st, op))' <=> StreamInv(st', op')
  BY DEF StreamInv, StreamFaithful, StreamAt, At, Cyclic, Content, There, Walk, Link, OnDisk
<1> QED
  BY <1>1, <1>2, <1>3

\* What is left to show of a step other than a mount.
LEMMA ChainKept ==
    ASSUME ChainInv, FatInv', UNCHANGED <<medium, fs>>,
           Readable =>
               /\ op'.kind = "dir" => DirInv(op')
               /\ op'.kind = "file" => FileInv(op')
               /\ st' # Closed => StreamInv(st', op'),
           TrueData(medium.vol) < Word =>
               /\ op'.kind \in {"dir", "file"} \/ st' # Closed => fs # Unmounted
               /\ OnStream(op') => st' # Closed
    PROVE  ChainInv'
<1>1. (OnStream(op))' <=> OnStream(op')
  BY DEF OnStream
<1>2. medium' = medium /\ fs' = fs /\ medium \in Disks /\ FatInv
  BY DEF ChainInv
<1>3. (TrueData(medium.vol) < Word)' <=> TrueData(medium.vol) < Word
  BY <1>2
<1>4. TrueData(medium.vol) < Word /\ fs # Unmounted => Readable
  BY <1>2 DEF Readable, FatInv
<1>5. TrueData(medium.vol) < Word =>
          /\ op'.kind \in {"dir", "file"} \/ st' # Closed => fs' # Unmounted
          /\ op'.kind = "dir" => (DirInv(op))'
          /\ op'.kind = "file" => (FileInv(op))'
          /\ (OnStream(op))' => st' # Closed
          /\ st' # Closed => (StreamInv(st, op))'
  BY <1>1, <1>2, <1>4, SameDisk
<1> QED
  BY <1>2, <1>3, <1>5 DEF ChainInv

\* fat32_mount, and every turn of every call, keep the invariant.
LEMMA ChainStep == ChainInv /\ [FatNext]_fatVars => ChainInv'
<1> SUFFICES ASSUME ChainInv, [FatNext]_fatVars PROVE ChainInv'
  OBVIOUS
<1>1. FatInv'
  BY FatStep DEF ChainInv
<1>2. /\ medium \in Disks
      /\ TrueData(medium.vol) < Word =>
           /\ op.kind \in {"dir", "file"} \/ st # Closed => fs # Unmounted
           /\ op.kind = "dir" => DirInv(op)
           /\ op.kind = "file" => FileInv(op)
           /\ OnStream(op) => st # Closed
           /\ st # Closed => StreamInv(st, op)
  BY DEF ChainInv
<1>3. Starts \subseteq Nat /\ Stops \subseteq Nat /\ Lens \subseteq Nat /\ Sizes \subseteq Nat
  BY FatAssumption
<1>4. Readable => TrueData(medium.vol) < Word
  BY DEF Readable
\* The stream, when the reader turns to something else.
<1>5. ASSUME UNCHANGED <<medium, fs, st>>, ~OnStream(op'),
             op'.kind \in {"dir", "file"} => fs # Unmounted,
             Readable => /\ op'.kind = "dir" => DirInv(op')
                         /\ op'.kind = "file" => FileInv(op')
      PROVE  ChainInv'
  <2>1. Readable => (st' # Closed => StreamInv(st', op'))
    BY <1>2, <1>4, <1>5, StreamRests
  <2>2. TrueData(medium.vol) < Word => (st' # Closed => fs # Unmounted)
    BY <1>2, <1>5
  <2> QED
    BY <1>1, <1>5, <2>1, <2>2, ChainKept
<1>6. CASE Mount
  <2>1. op.kind = "idle" /\ fs = Unmounted /\ UNCHANGED <<medium, op, st>>
    BY <1>6 DEF Mount
  <2>2. (OnStream(op))' <=> op.kind \in {"read", "skip"}
    BY <2>1 DEF OnStream
  <2>3. TrueData(medium.vol) < Word => st = Closed
    BY <1>2, <2>1
  <2> QED
    BY <1>1, <1>2, <2>1, <2>2, <2>3 DEF ChainInv
<1>7. CASE Returned
  <2>1. op'.kind = "idle" /\ UNCHANGED <<medium, fs, st>>
    BY <1>7 DEF Returned, Idle
  <2> QED
    BY <1>5, <2>1 DEF OnStream
<1>8. CASE DirTurn
  <2>1. op.kind = "dir" /\ UNCHANGED <<medium, fs, st>>
    BY <1>8 DEF DirTurn, Running
  <2>2. Readable => DirInv(op')
    BY <1>2, <1>4, <1>8, <2>1, DirTurnInvariant
  <2>3. op'.kind = "dir"
    <3>1. "kind" \in DOMAIN op
      BY DEF ChainInv, FatInv, AnswerStands
    <3> DEFINE read == [op EXCEPT !.seen = Append(@, op.clus), !.guard = @ - 1]
    <3>2. "kind" \in DOMAIN read /\ read.kind = "dir"
      BY <2>1, <3>1
    <3>3. \/ \E rc : op' = [op EXCEPT !.rc = rc]
          \/ \E rc : op' = [read EXCEPT !.rc = rc]
          \/ \E next, slow : op' = [read EXCEPT !.clus = next, !.slow = slow, !.odd = ~@]
      BY <1>8 DEF DirTurn, DirFollow, Returns
    <3> HIDE DEF read
    <3> QED
      BY <2>1, <3>1, <3>2, <3>3
  <2>4. ASSUME TrueData(medium.vol) < Word PROVE ChainInv'
    BY <1>2, <1>5, <2>1, <2>2, <2>3, <2>4 DEF OnStream
  <2>5. ASSUME ~(TrueData(medium.vol) < Word) PROVE ChainInv'
    BY <1>1, <1>2, <2>1, <2>5 DEF ChainInv
  <2> QED
    BY <2>4, <2>5
<1>9. CASE FileTurn
  <2>1. op.kind = "file" /\ UNCHANGED <<medium, fs, st>>
    BY <1>9 DEF FileTurn, Running
  <2>2. Readable => FileInv(op')
    BY <1>2, <1>4, <1>9, <2>1, FileTurnInvariant
  <2>3. op'.kind = "file"
    <3>1. "kind" \in DOMAIN op
      BY DEF ChainInv, FatInv, AnswerStands
    <3> DEFINE n == Lesser(op.len - Len(op.seen), fs.spc)
               read == [op EXCEPT !.seen = @ \o Sectors(op.clus, 0, n), !.guard = @ - 1]
    <3>2. "kind" \in DOMAIN read /\ read.kind = "file"
      BY <2>1, <3>1
    <3>3. \/ \E rc : op' = [op EXCEPT !.rc = rc]
          \/ \E rc : op' = [read EXCEPT !.rc = rc]
          \/ \E next : op' = [read EXCEPT !.clus = next]
      BY <1>9 DEF FileTurn, FileNext, FileFollow, Returns
    <3> HIDE DEF read
    <3> QED
      BY <2>1, <3>1, <3>2, <3>3
  <2>4. ASSUME TrueData(medium.vol) < Word PROVE ChainInv'
    BY <1>2, <1>5, <2>1, <2>2, <2>3, <2>4 DEF OnStream
  <2>5. ASSUME ~(TrueData(medium.vol) < Word) PROVE ChainInv'
    BY <1>1, <1>2, <2>1, <2>5 DEF ChainInv
  <2> QED
    BY <2>4, <2>5
<1>10. CASE StreamTurn
  <2>1. OnStream(op) /\ UNCHANGED <<medium, fs>>
    BY <1>10 DEF StreamTurn, Running, OnStream
  <2>2. ASSUME TrueData(medium.vol) < Word PROVE ChainInv'
    <3>1. st # Closed /\ fs # Unmounted /\ StreamInv(st, op)
      BY <1>2, <2>1, <2>2
    <3>2. Readable
      BY <2>2, <3>1 DEF ChainInv, FatInv, Readable
    <3>3. StreamInv(st', op') /\ st' # Closed /\ OnStream(op')
      BY <1>10, <3>1, <3>2, StreamTurnInvariant
    <3>4. op'.kind # "dir" /\ op'.kind # "file"
      BY <3>3 DEF OnStream
    <3> QED
      BY <1>1, <2>1, <3>1, <3>3, <3>4, ChainKept
  <2>3. ASSUME ~(TrueData(medium.vol) < Word) PROVE ChainInv'
    BY <1>1, <1>2, <2>1, <2>3 DEF ChainInv
  <2> QED
    BY <2>2, <2>3
<1>11. ASSUME NEW c \in Named, Resolve(c) PROVE ChainInv'
  <2>1. op'.kind = "lba" /\ UNCHANGED <<medium, fs, st>>
    BY <1>11 DEF Resolve, Start
  <2> QED
    BY <1>5, <2>1 DEF OnStream
<1>12. ASSUME NEW c \in Starts, NEW stop \in Stops, ReadDir(c, stop) PROVE ChainInv'
  <2>1. /\ op' = [kind |-> "dir", start |-> c, stop |-> stop, clus |-> c, slow |-> c,
                  odd |-> FALSE, guard |-> DirLimit, seen |-> <<>>, rc |-> Pending]
        /\ UNCHANGED <<medium, fs, st>> /\ fs # Unmounted
    BY <1>12 DEF ReadDir, Start
  <2>2. op'.kind = "dir"
    BY <2>1
  <2>3. Readable => DirInv(op')
    BY <1>3, <2>1, DirBegins
  <2> QED
    BY <1>5, <2>1, <2>2, <2>3 DEF OnStream
<1>13. ASSUME NEW c \in Starts, NEW n \in Lens, ReadFile(c, n) PROVE ChainInv'
  <2>1. /\ op' = [kind |-> "file", start |-> c, len |-> n, clus |-> c, guard |-> fs.max,
                  seen |-> <<>>, rc |-> IF Valid(fs, c) THEN Pending ELSE Ecorrupt]
        /\ UNCHANGED <<medium, fs, st>> /\ fs # Unmounted
    BY <1>13 DEF ReadFile, Start
  <2>2. op'.kind = "file"
    BY <2>1
  <2>3. Readable => FileInv(op')
    BY <1>3, <2>1, FileBegins
  <2> QED
    BY <1>5, <2>1, <2>2, <2>3 DEF OnStream
<1>14. ASSUME NEW c \in Starts, NEW n \in Sizes, StreamOpen(c, n) PROVE ChainInv'
  <2>1. /\ st' = [Closed EXCEPT !.clus = IF n = 0 THEN 0 ELSE c, !.left = n,
                                !.start = c, !.size = n]
        /\ UNCHANGED <<medium, fs, op>> /\ op.kind = "idle" /\ fs # Unmounted
    BY <1>14 DEF StreamOpen
  <2>2. ~OnStream(op') /\ op'.kind # "dir" /\ op'.kind # "file"
    BY <2>1 DEF OnStream
  <2>3. Readable => StreamInv(st', op')
    BY <1>3, <2>1, <2>2, StreamBegins
  <2> QED
    BY <1>1, <2>1, <2>2, <2>3, ChainKept
<1>15. ASSUME NEW n \in Lens, StreamCall("read", n) \/ StreamCall("skip", n) PROVE ChainInv'
  <2>1. PICK kind \in {"read", "skip"} :
            /\ op' = [kind |-> kind, len |-> n, got |-> 0, from |-> Len(st.over),
                      rc |-> Pending, guard |-> fs.max]
            /\ UNCHANGED <<medium, fs, st>> /\ fs # Unmounted /\ st # Closed
    BY <1>15 DEF StreamCall, Start
  <2>2. OnStream(op') /\ op'.kind # "dir" /\ op'.kind # "file"
    BY <2>1 DEF OnStream
  <2>3. Readable => StreamInv(st', op')
    BY <1>2, <1>3, <1>4, <2>1, StreamCalled
  <2> QED
    BY <1>1, <2>1, <2>2, <2>3, ChainKept
<1>16. CASE UNCHANGED fatVars
  <2>1. UNCHANGED <<medium, fs, op, st>>
    BY <1>16 DEF fatVars
  <2>2. Readable =>
            /\ op'.kind = "dir" => DirInv(op')
            /\ op'.kind = "file" => FileInv(op')
            /\ st' # Closed => StreamInv(st', op')
    BY <1>2, <1>4, <2>1
  <2>3. TrueData(medium.vol) < Word =>
            /\ op'.kind \in {"dir", "file"} \/ st' # Closed => fs # Unmounted
            /\ OnStream(op') => st' # Closed
    BY <1>2, <2>1
  <2> QED
    BY <1>1, <2>1, <2>2, <2>3, ChainKept
<1> QED
  BY <1>6, <1>7, <1>8, <1>9, <1>10, <1>11, <1>12, <1>13, <1>14, <1>15, <1>16 DEF FatNext

\* A listing, a read of a file and a stream follow the chain of their start:
\* they deliver its clusters in order, all of them when they report success,
\* and report corruption only of a chain that comes back, is longer than a
\* listing may be, or begins outside the volume (fat32_readdir,
\* fat32_read_file, fat32_stream_read, fat32_stream_skip).
THEOREM ChainsAreFaithful == FatSpec => []ChainsFaithful
<1>1. FatInit => ChainInv
  BY FatAssumption
     DEF FatInit, Idle, ChainInv, FatInv, MountedAsFound, AnswerStands, OnStream
<1>2. ChainInv => ChainsFaithful
  BY DEF ChainInv, ChainsFaithful, DirInv, FileInv, StreamInv
<1> QED
  BY <1>1, <1>2, ChainStep, PTL DEF FatSpec
=============================================================================
