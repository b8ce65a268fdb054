----------------------------- MODULE AtaProofs -----------------------------
(***************************************************************************)
(* Proofs about the ATA driver and the drive it polls, for any size of     *)
(* disk, of physical sector and of command, and any requests.              *)
(***************************************************************************)
EXTENDS Ata, ModLemmas, SequenceTheorems

(* The types that a sector, a call, a command and the drive have.           *)
Sectors == [of : Int, version : Int]
CallType == [op : {"init", "read", "wake", "write", "standby", "refused"}, lba : Nat, count : Nat,
             odd : BOOLEAN, got : Seq(Sectors), rc : Codes]
RawType == [at : Nat, n : Nat, blk : Seq(Sectors)]
DriveType == [cmd : {"none", "read", "write", "flush", "standby", "reset"}, at : Nat, left : Nat,
              out : Seq(Sectors), in : [of : Nat \cup {-1, -2}, version : 0 .. version],
              busy : BOOLEAN, err : {"none", "unc", "idnf"}, aligned : BOOLEAN]
Types ==
    /\ TypeOK
    /\ call \in CallType /\ raw \in RawType /\ dr \in DriveType
    /\ version \in Nat /\ mixed \in BOOLEAN

-----------------------------------------------------------------------------
(* Which call is at which place of the code, and what it holds.             *)
Places ==
    /\ pc \in {"recover", "drain", "settle"} => IsRead
    /\ pc \in {"commit", "flushing", "flush"} => call.op = "write"
    /\ pc \in {"split", "data"} => IsRead \/ call.op = "write"
    /\ pc = "standby" => call.op = "standby"
    /\ pc = "ready" => IsRead \/ call.op \in {"write", "standby"}
Held1 == hold = IF pc = "idle" \/ (pc = "split" /\ IsRead) THEN 0 ELSE 1

(* The command under way is the piece that the rest of the call asks for.   *)
InCommand == {"ready", "data", "recover", "drain", "settle"}
Cut ==
    /\ Moved <= call.count
    /\ IsRead /\ pc \in InCommand => Rest > 0 /\ raw.at = Piece.at /\ raw.n = Piece.n
    /\ call.op = "write" /\ pc \in {"ready", "data", "commit"} =>
           Rest > 0 /\ raw.at = At /\ raw.n \in 1 .. Rest
    /\ pc = "ready" /\ call.op # "standby" => raw.blk = <<>>
    /\ pc = "data" => Len(raw.blk) < raw.n
    /\ pc = "commit" => Len(raw.blk) = raw.n
    /\ call.op \in {"read", "wake", "write"} /\ (call.rc = 0 \/ pc \in {"flushing", "flush"}) => Rest = 0
    /\ call.rc = 0 => pc = "idle"
    /\ call.rc = -4 => call.lba + call.count > Last + 1

(* The drive.  Data is on offer in a read only, a write waits for it with   *)
(* somewhere to put it, and only a command that is not data keeps it busy.  *)
DriveSound ==
    /\ dr.cmd # "read" => dr.out = <<>>
    /\ dr.cmd = "read" => (dr.busy => dr.left > 0) /\ dr.aligned
    /\ dr.cmd = "write" =>
           /\ dr.err = "none" /\ dr.left > 0
           /\ ~dr.busy => dr.at \in Lbas
           /\ dr.in # NotCached => dr.busy /\ dr.at \in Lbas
    /\ dr.cmd \in {"flush", "standby", "reset"} => dr.busy
    /\ dr.cmd = "none" => ~dr.busy

(* A read under way: the drive is in it, has ended it, or (in the middle of *)
(* a write) has never seen it.                                              *)
Reading ==
    /\ dr.cmd = "read" => IsRead /\ pc \in {"data", "recover", "drain"}
    /\ IsRead /\ pc \in {"data", "recover", "drain"} =>
           /\ dr.cmd \in {"read", "none"} \/ (dr.cmd = "write" /\ mixed /\ ~dr.busy)
           /\ dr.cmd = "read" => dr.at + dr.left = raw.at + raw.n
           /\ dr.cmd = "read" /\ pc = "data" /\ dr.err = "none" =>
                  dr.at = raw.at + Len(raw.blk) + Len(dr.out)
           /\ dr.err = "idnf" => call.lba + call.count > Last + 1
    /\ pc = "settle" => dr.cmd \in {"reset", "none"}

(* Nothing is written while a read is under way, nor after it, until the    *)
(* next call; so what has been read stays what the disk holds.              *)
ExactFrom(s, a) == \A i \in 1 .. Len(s) : a + i - 1 \in Lbas /\ s[i] = Held(a + i - 1)
Issued == Moved > 0 \/ pc \in {"data", "recover", "drain", "settle"}
                    \/ (pc = "idle" /\ call.rc \in {-2, -3, -4})
ReadExact ==
    ~mixed /\ IsRead =>
        /\ Issued => dr.cmd # "write"
        /\ ExactFrom(call.got, call.lba)
        /\ pc = "data" => ExactFrom(raw.blk, raw.at)
        /\ pc = "data" /\ dr.err = "none" => ExactFrom(dr.out, raw.at + Len(raw.blk))

(* A write under way: what the drive has taken of it has landed, what it is *)
(* given goes where it is meant to.                                         *)
Landed(l) == l \in Lbas /\ Held(l) = Sector(l, version)
Writing ==
    /\ dr.cmd = "write" =>
           /\ dr.at >= raw.at /\ dr.at + dr.left = raw.at + raw.n
           /\ dr.in = NotCached => Len(raw.blk) = dr.at - raw.at
           /\ dr.in # NotCached => Len(raw.blk) = dr.at - raw.at + 1 /\ dr.in = Sector(dr.at, version)
           /\ \A l \in raw.at .. dr.at - 1 : Landed(l)
    /\ dr.cmd # "write" => dr.cmd = "none"
    /\ dr.cmd = "none" /\ dr.err = "none" =>
           Len(raw.blk) = raw.n /\ \A l \in raw.at .. raw.at + raw.n - 1 : Landed(l)
Flushing ==
    /\ dr.cmd \in {"flush", "none"}
    /\ dr.cmd = "none" /\ dr.err = "none" => \A l \in Asked : medium[l] = Sector(l, version)
WriteExact ==
    ~mixed /\ call.op = "write" =>
        /\ pc # "idle" \/ call.rc = 0 => \A l \in call.lba .. At - 1 : Landed(l)
        /\ Moved > 0 /\ pc \in {"split", "ready", "flushing"} => dr.cmd # "write"
        /\ pc \in {"data", "commit"} => Writing
        /\ pc = "flush" => Flushing
        /\ call.rc = 0 => dr.cmd # "write" /\ \A l \in Asked : medium[l] = Sector(l, version)

(* No sector holds, or is about to get, what was meant for another.         *)
Placed ==
    ~mixed => /\ \A l \in Lbas : medium[l].of = l /\ (cache[l] = NotCached \/ cache[l].of = l)
              /\ dr.cmd = "write" /\ dr.in # NotCached => dr.in.of = dr.at

IndInv ==
    /\ Types /\ Places /\ Held1 /\ Cut
    /\ DriveSound /\ Reading /\ ReadExact /\ WriteExact /\ Placed

-----------------------------------------------------------------------------
(* What the operators of the model compute.                                 *)

\* The piece that the rest of a read asks for is of whole physical sectors
\* and, when the request ends on the disk, ends there too (ata.c:402).
LEMMA PieceFacts ==
    ASSUME call \in CallType, Moved <= call.count, Rest > 0
    PROVE  /\ Piece.at \in Nat /\ Piece.n \in Nat \ {0} /\ Piece.blk = <<>>
           /\ Piece.at % PhysLog = 0 /\ Piece.n % PhysLog = 0
           /\ Piece.at + Piece.n > Last + 1 => call.lba + call.count > Last + 1
<1> DEFINE p == PhysLog
           from == At
           r == Rest
<1>1. /\ p \in Nat \ {0} /\ from \in Nat /\ r \in Nat \ {0}
      /\ MaxCount \in Nat \ {0} /\ MaxCount % p = 0
      /\ Last \in Nat /\ (Last + 1) % p = 0
      /\ call.lba + call.count = from + r
  BY AtaAssumption DEF At, Rest, Moved, CallType
<1> HIDE DEF p, from, r
<1>2. \A k \in Int : (p * k) % p = 0
  <2> TAKE k \in Int
  <2>1. (0 + p * k) % p = 0 % p
    <3>1. 0 \in Int /\ p \in Nat \ {0}
      BY <1>1
    <3> QED
      BY <3>1, ModShift, Zenon
  <2>2. p * k \in Int /\ 0 + p * k = p * k
    BY <1>1
  <2>3. 0 % p = 0
    BY <1>1, ModSmall
  <2> QED
    BY <2>1, <2>2, <2>3
<1>3. CASE Direct
  <2>1. Off = 0 /\ r >= p /\ Off = from % p
    BY <1>3 DEF Direct, Off, p, from, r
  <2> DEFINE w == r - (r % p)
  <2>2. w \in Nat \ {0} /\ w <= r /\ w % p = 0
    <3>1. r \div p \in Int /\ r % p \in 0 .. p - 1 /\ r = (p * (r \div p)) + (r % p)
      BY <1>1, Division
    <3>2. w = p * (r \div p)
      BY <1>1, <3>1
    <3>3. w % p = 0
      BY <1>2, <3>1, <3>2
    <3> QED
      BY <1>1, <2>1, <3>1, <3>3
  <2>3. Piece = [at |-> from, n |-> Lesser(w, MaxCount), blk |-> <<>>]
    BY <1>3 DEF Piece, from, r, p
  <2> HIDE DEF w
  <2>4. Lesser(w, MaxCount) \in Nat \ {0} /\ Lesser(w, MaxCount) <= r /\ Lesser(w, MaxCount) % p = 0
    BY <1>1, <2>2 DEF Lesser
  <2> QED
    BY <1>1, <2>1, <2>3, <2>4 DEF p
<1>4. CASE ~Direct
  <2>0. from \div p \in Int /\ from % p \in 0 .. p - 1 /\ from = (p * (from \div p)) + (from % p)
    <3>1. from \in Int /\ p \in Nat \ {0}
      BY <1>1
    <3> QED
      BY <3>1, Division, Zenon
  <2> DEFINE q == from \div p
             f == from % p
             b == p * q
  <2>1. Piece = [at |-> from - f, n |-> p, blk |-> <<>>]
    BY <1>4 DEF Piece, from, p, Off
  <2>2. q \in Int /\ f \in 0 .. p - 1 /\ b \in Int /\ from = b + f
    BY <1>1, <2>0
  <2>3. b % p = 0
    BY <1>2, <2>2
  <2>4. p % p = 0
    BY <1>1, <1>2, p * 1 = p
  <2>5. b \in Nat
    <3>1. q < 0 => p * (0 - q) >= p
      BY <1>1, <2>2
    <3>2. p * (0 - q) = 0 - b
      BY <1>1, <2>2
    <3> HIDE DEF q, b
    <3> QED
      BY <1>1, <2>2, <3>1, <3>2
  <2>6. ASSUME from + r <= Last + 1
        PROVE  b + p <= Last + 1
    <3> DEFINE k == (Last + 1) \div p
               e == p * k
    <3>1. k \in Int /\ e \in Int /\ Last + 1 = e
      BY <1>1, Division
    <3>2. k > q => p * (k - q) >= p
      BY <1>1, <2>2, <3>1
    <3>3. k <= q => p * (q - k) >= 0
      BY <1>1, <2>2, <3>1
    <3>4. p * (k - q) = e - b /\ p * (q - k) = b - e
      BY <1>1, <2>2, <3>1
    <3> HIDE DEF q, b, k, e, f
    <3>5. b < e
      BY <1>1, <2>2, <2>6, <3>1
    <3>6. k > q
      BY <2>2, <3>1, <3>3, <3>4, <3>5
    <3> QED
      BY <1>1, <2>2, <3>1, <3>2, <3>4, <3>6
  <2>7. from - f = b
    BY <2>2
  <2> HIDE DEF q, b, f
  <2>8. Piece.at = b /\ Piece.n = p /\ Piece.blk = <<>>
    BY <2>1, <2>7
  <2> QED
    BY <1>1, <2>2, <2>3, <2>4, <2>5, <2>6, <2>8 DEF p
<1> QED
  BY <1>3, <1>4

\* What is kept of the piece is its sectors from the first one asked for
\* (ata.c:425, ata.c:445).
LEMMA KeptFacts ==
    ASSUME call \in CallType, Moved <= call.count, Rest > 0,
           NEW blk \in Seq(Sectors), Len(blk) = Piece.n
    PROVE  /\ Kept(blk) \in Seq(Sectors) /\ Len(Kept(blk)) \in 1 .. Rest
           /\ ExactFrom(blk, Piece.at) => ExactFrom(Kept(blk), At)
<1>1. /\ PhysLog \in Nat \ {0} /\ At \in Nat /\ Rest \in Nat \ {0} /\ MaxCount \in Nat \ {0}
  BY AtaAssumption DEF At, Rest, Moved, CallType
<1>2. Off \in 0 .. PhysLog - 1
  <2>1. At % PhysLog \in 0 .. PhysLog - 1
    BY <1>1, Division
  <2> QED
    BY <2>1 DEF Off
<1>3. CASE Direct
  <2>1. Piece.at = At /\ Kept(blk) = blk /\ Piece.n = Lesser(Rest - (Rest % PhysLog), MaxCount)
    BY <1>3 DEF Piece, Kept
  <2>2. Piece.n \in Nat \ {0}
    BY PieceFacts
  <2>3. Rest % PhysLog \in 0 .. PhysLog - 1
    BY <1>1, Division
  <2>4. Piece.n <= Rest
    BY <1>1, <2>1, <2>3 DEF Lesser
  <2> QED
    BY <1>1, <2>1, <2>2, <2>4
<1>4. CASE ~Direct
  <2> DEFINE n == Lesser(Rest, PhysLog - Off)
             s == SubSeq(blk, Off + 1, Off + n)
  <2>1. Piece.at = At - Off /\ Kept(blk) = s /\ Len(blk) = PhysLog
    BY <1>4 DEF Piece, Kept
  <2>2. n \in 1 .. Rest /\ Off + n <= PhysLog
    BY <1>1, <1>2 DEF Lesser
  <2> HIDE DEF n
  <2>3. Len(s) = n
    BY <1>1, <1>2, <2>1, <2>2, SubSeqProperties
  <2>4. s \in Seq(Sectors)
    BY <1>1, <1>2, <2>1, <2>2, SubSeqProperties
  <2>5. \A i \in 1 .. n : s[i] = blk[Off + i] /\ Off + i \in 1 .. Len(blk)
    BY <1>1, <1>2, <2>1, <2>2, SubSeqProperties
  <2> HIDE DEF s
  <2>6. ASSUME ExactFrom(blk, Piece.at), NEW i \in 1 .. n
        PROVE  At + i - 1 \in Lbas /\ s[i] = Held(At + i - 1)
    <3>1. Off + i \in 1 .. Len(blk) /\ s[i] = blk[Off + i]
      BY <2>5
    <3>2. (At - Off) + (Off + i) - 1 = At + i - 1
      BY <1>1, <1>2, <2>2
    <3>3. /\ (At - Off) + (Off + i) - 1 \in Lbas
          /\ blk[Off + i] = Held((At - Off) + (Off + i) - 1)
      BY <2>1, <2>6, <3>1 DEF ExactFrom
    <3> QED
      BY <3>1, <3>2, <3>3
  <2> QED
    BY <2>1, <2>2, <2>3, <2>4, <2>6 DEF ExactFrom
<1> QED
  BY <1>3, <1>4

\* A run of sectors that the disk holds stays one when the next sector is
\* appended, when the next run is, and when its first is taken.
LEMMA ExactAppend ==
    ASSUME NEW s \in Seq(Sectors), NEW a \in Nat, NEW v \in Sectors, ExactFrom(s, a),
           a + Len(s) \in Lbas, v = Held(a + Len(s))
    PROVE  ExactFrom(Append(s, v), a)
<1> SUFFICES ASSUME NEW i \in 1 .. Len(s) + 1
             PROVE  a + i - 1 \in Lbas /\ Append(s, v)[i] = Held(a + i - 1)
  BY DEF ExactFrom
<1>1. CASE i = Len(s) + 1
  <2>1. a + i - 1 = a + Len(s)
    BY <1>1
  <2> QED
    BY <1>1, <2>1
<1>2. CASE i \in 1 .. Len(s)
  BY <1>2 DEF ExactFrom
<1> QED
  BY <1>1, <1>2

LEMMA ExactConcat ==
    ASSUME NEW s \in Seq(Sectors), NEW t \in Seq(Sectors), NEW a \in Nat,
           ExactFrom(s, a), ExactFrom(t, a + Len(s))
    PROVE  ExactFrom(s \o t, a)
<1> SUFFICES ASSUME NEW i \in 1 .. Len(s) + Len(t)
             PROVE  a + i - 1 \in Lbas /\ (s \o t)[i] = Held(a + i - 1)
  BY DEF ExactFrom
<1>1. CASE i \in 1 .. Len(s)
  BY <1>1 DEF ExactFrom
<1>2. CASE i > Len(s)
  <2>1. i - Len(s) \in 1 .. Len(t) /\ (s \o t)[i] = t[i - Len(s)]
    BY <1>2
  <2>2. (a + Len(s)) + (i - Len(s)) - 1 = a + i - 1
    OBVIOUS
  <2>3. /\ (a + Len(s)) + (i - Len(s)) - 1 \in Lbas
        /\ t[i - Len(s)] = Held((a + Len(s)) + (i - Len(s)) - 1)
    BY <2>1 DEF ExactFrom
  <2> QED
    BY <2>1, <2>2, <2>3
<1> QED
  BY <1>1, <1>2

LEMMA ExactTail ==
    ASSUME NEW s \in Seq(Sectors), NEW a \in Nat, ExactFrom(s, a), s # <<>>
    PROVE  a \in Lbas /\ Head(s) = Held(a) /\ ExactFrom(Tail(s), a + 1)
<1>1. Len(s) \in Nat \ {0} /\ Head(s) = s[1] /\ Len(Tail(s)) = Len(s) - 1
  OBVIOUS
<1>2. a \in Lbas /\ Head(s) = Held(a)
  <2>1. a + 1 - 1 \in Lbas /\ s[1] = Held(a + 1 - 1)
    BY <1>1 DEF ExactFrom
  <2>2. a + 1 - 1 = a
    OBVIOUS
  <2> QED
    BY <1>1, <2>1, <2>2
<1>3. ASSUME NEW i \in 1 .. Len(Tail(s))
      PROVE  (a + 1) + i - 1 \in Lbas /\ Tail(s)[i] = Held((a + 1) + i - 1)
  <2>1. i + 1 \in 1 .. Len(s) /\ Tail(s)[i] = s[i + 1]
    BY <1>1
  <2>2. a + (i + 1) - 1 = (a + 1) + i - 1
    OBVIOUS
  <2>3. a + (i + 1) - 1 \in Lbas /\ s[i + 1] = Held(a + (i + 1) - 1)
    BY <2>1 DEF ExactFrom
  <2> QED
    BY <2>1, <2>2, <2>3
<1> QED
  BY <1>2, <1>3 DEF ExactFrom

-----------------------------------------------------------------------------
(* The drive's steps leave the driver where it is.                          *)

LEMMA DriveFrame ==
    ASSUME IndInv, UNCHANGED <<driver, history>>,
           {medium', cache'} \subseteq [Lbas -> [of : Nat \cup {-1, -2}, version : 0 .. version]],
           dr' \in DriveType
    PROVE  Types' /\ Places' /\ Held1' /\ Cut'
<1>1. Types'
  BY DEF IndInv, Types, TypeOK, driver, history, DriveType, Lbas
<1>2. Places' /\ Held1'
  BY DEF IndInv, Places, Held1, IsRead, driver
<1>3. Cut'
  BY DEF IndInv, Cut, IsRead, driver, Moved, Rest, At, Off, Direct, Piece
<1> QED
  BY <1>1, <1>2, <1>3

\* What the disk holds of a sector is a sector.
LEMMA HeldType ==
    ASSUME Types, NEW l \in Lbas
    PROVE  /\ Held(l) \in Sectors
           /\ Held(l) \in [of : Nat \cup {-1, -2}, version : 0 .. version]
<1>1. Held(l) \in [of : Nat \cup {-1, -2}, version : 0 .. version]
  BY DEF Types, TypeOK, Held
<1> QED
  BY <1>1 DEF Sectors, Types

LEMMA JunkType == Junk \in Sectors /\ NotCached \in Sectors
BY DEF Junk, NotCached, Sector, Sectors

LEMMA ServeInd ==
    ASSUME IndInv, Serve
    PROVE  IndInv'
<1> USE DEF IndInv
<1>1. /\ dr.cmd = "read" /\ dr.busy /\ dr.at \in Lbas /\ dr.left > 0
      /\ dr' = [dr EXCEPT !.out = Append(dr.out, Held(dr.at)), !.at = @ + 1, !.left = @ - 1, !.busy = FALSE]
      /\ UNCHANGED <<driver, history, store>> /\ dr \in DriveType
  <2>1. dr \in DriveType /\ dr.at \in Nat /\ Last \in Nat
    BY AtaAssumption DEF Types, DriveType
  <2>2. dr.cmd = "read" /\ dr.busy /\ ~(dr.at > Last) /\ UNCHANGED <<driver, history, store>>
    BY DEF Serve, Drive, Refuses
  <2>3. dr' = [dr EXCEPT !.out = Append(dr.out, Held(dr.at)), !.at = @ + 1, !.left = @ - 1, !.busy = FALSE]
    BY DEF Serve
  <2> QED
    BY <2>1, <2>2, <2>3 DEF DriveSound, Lbas
<1>2. Held(dr.at) \in Sectors
  BY <1>1, HeldType
<1>3. /\ dr'.cmd = "read" /\ dr'.at = dr.at + 1 /\ dr'.left = dr.left - 1 /\ ~dr'.busy
      /\ dr'.out = Append(dr.out, Held(dr.at)) /\ dr'.err = dr.err /\ dr'.aligned = dr.aligned
      /\ dr'.in = dr.in
  BY <1>1 DEF DriveType
<1>4. dr' \in DriveType
  <2>1. Append(dr.out, Held(dr.at)) \in Seq(Sectors)
    BY <1>1, <1>2 DEF DriveType
  <2>2. dr.at + 1 \in Nat /\ dr.left - 1 \in Nat
    BY <1>1 DEF DriveType
  <2> QED
    BY <1>1, <2>1, <2>2 DEF DriveType
<1>5. Types' /\ Places' /\ Held1' /\ Cut'
  BY <1>1, <1>4, DriveFrame DEF Types, TypeOK, store
<1>6. DriveSound'
  BY <1>1, <1>3 DEF DriveSound
<1>7. IsRead /\ pc \in {"data", "recover", "drain"} /\ IsRead' /\ call' = call /\ pc' = pc /\ raw' = raw
  BY <1>1 DEF Reading, driver, IsRead
<1>8. Reading'
  <2>1. dr'.at + dr'.left = raw.at + raw.n
    BY <1>1, <1>3, <1>7 DEF Reading, Types, RawType, DriveType
  <2>2. pc = "data" /\ dr.err = "none" => dr'.at = raw.at + Len(raw.blk) + Len(dr'.out)
    BY <1>1, <1>2, <1>3, <1>7 DEF Reading, Types, RawType, DriveType
  <2> QED
    BY <1>1, <1>3, <1>7, <2>1, <2>2 DEF Reading, history
<1>9. ReadExact'
  <2> SUFFICES ASSUME ~mixed
               PROVE  ReadExact'
    BY <1>1 DEF ReadExact, history
  <2>1. ExactFrom(call.got, call.lba)' /\ (pc = "data" => ExactFrom(raw.blk, raw.at)')
    BY <1>7, <1>1 DEF ReadExact, ExactFrom, Held, store
  <2>2. ASSUME pc = "data", dr.err = "none"
        PROVE  ExactFrom(dr.out, raw.at + Len(raw.blk))'
    <3> DEFINE a == raw.at + Len(raw.blk)
    <3>1. a \in Nat /\ dr.out \in Seq(Sectors) /\ ExactFrom(dr.out, a) /\ dr.at = a + Len(dr.out)
      BY <1>1, <1>7, <2>2 DEF ReadExact, Reading, Types, RawType, DriveType
    <3> HIDE DEF a
    <3>2. ExactFrom(Append(dr.out, Held(dr.at)), a)
      BY <1>1, <1>2, <3>1, ExactAppend
    <3> QED
      BY <1>1, <1>3, <1>7, <3>2 DEF ExactFrom, Held, store, a
  <2> QED
    BY <1>3, <1>7, <2>1, <2>2 DEF ReadExact, Issued
<1>10. WriteExact'
  BY <1>7 DEF WriteExact, IsRead
<1>11. Placed'
  BY <1>1, <1>3 DEF Placed, store, history
<1> QED
  BY <1>5, <1>6, <1>8, <1>9, <1>10, <1>11

LEMMA NoCommandType ==
    ASSUME Types, NEW e \in {"none", "unc", "idnf"}
    PROVE  NoCommand \in DriveType /\ [NoCommand EXCEPT !.err = e] \in DriveType
<1>1. NotCached \in [of : Nat \cup {-1, -2}, version : 0 .. version]
  BY DEF NotCached, Sector, Types
<1>2. <<>> \in Seq(Sectors)
  OBVIOUS
<1>3. NoCommand \in DriveType
  BY <1>1, <1>2 DEF NoCommand, DriveType
<1> QED
  BY <1>3 DEF DriveType

LEMMA ServeFailsInd ==
    ASSUME IndInv, ServeFails
    PROVE  IndInv'
<1> USE DEF IndInv
<1>1. /\ dr.cmd = "read" /\ dr.busy /\ dr.left > 0 /\ dr.aligned /\ dr \in DriveType
      /\ UNCHANGED <<driver, history, store>>
  BY DEF ServeFails, Drive, DriveSound, Types
<1>2. IsRead /\ pc \in {"data", "recover", "drain"} /\ IsRead' /\ call' = call /\ pc' = pc /\ raw' = raw
  BY <1>1 DEF Reading, driver, IsRead
<1>3. WriteExact'
  BY <1>2 DEF WriteExact, IsRead
<1>4. CASE dr' = [NoCommand EXCEPT !.err = IF Refuses THEN "idnf" ELSE "unc"]
  <2>1. /\ dr'.cmd = "none" /\ dr'.out = <<>> /\ dr'.in = NotCached /\ ~dr'.busy
        /\ dr'.err = IF Refuses THEN "idnf" ELSE "unc"
    BY <1>4 DEF NoCommand
  <2>2. dr' \in DriveType
    BY <1>4, NoCommandType
  <2>3. Types' /\ Places' /\ Held1' /\ Cut'
    BY <1>1, <2>2, DriveFrame DEF Types, TypeOK, store
  <2>4. DriveSound'
    BY <2>1 DEF DriveSound
  <2>5. ASSUME Refuses
        PROVE  call.lba + call.count > Last + 1
    <3>1. dr.at > Last
      BY <1>1, <2>5 DEF Refuses
    <3>2. dr.at + dr.left = raw.at + raw.n /\ raw.at = Piece.at /\ raw.n = Piece.n
      BY <1>1, <1>2 DEF Reading, Cut, InCommand
    <3>3. call \in CallType /\ Moved <= call.count /\ Rest > 0
      BY <1>2 DEF Types, Cut, InCommand
    <3>4. Piece.at + Piece.n > Last + 1
      BY <1>1, <3>1, <3>2, AtaAssumption DEF DriveType
    <3> QED
      BY <3>3, <3>4, PieceFacts
  <2>6. Reading'
    BY <1>2, <2>1, <2>5 DEF Reading
  <2>7. ReadExact'
    BY <1>1, <1>2, <2>1 DEF ReadExact, Issued, ExactFrom, Held, store, history, Moved
  <2>8. Placed'
    BY <1>1, <2>1 DEF Placed, store, history
  <2> QED
    BY <1>3, <2>3, <2>4, <2>6, <2>7, <2>8
<1>5. CASE /\ ~Refuses
           /\ dr' = [dr EXCEPT !.out = Append(dr.out, Junk), !.at = @ + 1, !.left = @ - 1,
                               !.busy = FALSE, !.err = "unc"]
  <2>1. /\ dr'.cmd = "read" /\ dr'.at = dr.at + 1 /\ dr'.left = dr.left - 1 /\ ~dr'.busy
        /\ dr'.err = "unc" /\ dr'.aligned /\ dr'.in = dr.in
    BY <1>1, <1>5 DEF DriveType
  <2>2. dr' \in DriveType
    <3>1. Append(dr.out, Junk) \in Seq(Sectors)
      BY <1>1, JunkType DEF DriveType
    <3>2. dr.at + 1 \in Nat /\ dr.left - 1 \in Nat
      BY <1>1 DEF DriveType
    <3> QED
      BY <1>1, <1>5, <3>1, <3>2 DEF DriveType
  <2>3. Types' /\ Places' /\ Held1' /\ Cut'
    BY <1>1, <2>2, DriveFrame DEF Types, TypeOK, store
  <2>4. DriveSound'
    BY <1>1, <2>1 DEF DriveSound
  <2>5. dr'.at + dr'.left = raw.at + raw.n
    BY <1>1, <1>2, <2>1 DEF Reading, Types, RawType, DriveType
  <2>6. Reading'
    BY <1>1, <1>2, <2>1, <2>5 DEF Reading
  <2>7. ReadExact'
    BY <1>1, <1>2, <2>1 DEF ReadExact, Issued, ExactFrom, Held, store, history, Moved
  <2>8. Placed'
    BY <1>1, <2>1 DEF Placed, store, history
  <2> QED
    BY <1>3, <2>3, <2>4, <2>6, <2>7, <2>8
<1> QED
  BY <1>4, <1>5 DEF ServeFails

\* A step of the drive in a write, a flush, a standby or a reset is not
\* while a read is under way.
LEMMA NotReading ==
    ASSUME IndInv, dr.busy, dr.cmd # "read"
    PROVE  ~(IsRead /\ pc \in {"data", "recover", "drain"}) /\ dr.cmd # "none"
BY DEF IndInv, Reading, DriveSound

LEMMA AskInd ==
    ASSUME IndInv, Ask
    PROVE  IndInv'
<1> USE DEF IndInv
<1>1. /\ dr.cmd = "write" /\ dr.busy /\ dr.in = NotCached /\ ~Refuses /\ dr \in DriveType
      /\ UNCHANGED <<driver, history, store>> /\ dr' = [dr EXCEPT !.busy = FALSE]
  BY DEF Ask, Drive, Types
<1>2. /\ dr'.cmd = "write" /\ dr'.at = dr.at /\ dr'.left = dr.left /\ dr'.out = dr.out
      /\ dr'.in = dr.in /\ ~dr'.busy /\ dr'.err = dr.err
  BY <1>1 DEF DriveType
<1>3. dr' \in DriveType
  BY <1>1 DEF DriveType
<1>31. dr.at \in Lbas
  <2>1. dr.at \in Nat /\ Last \in Nat /\ ~(dr.at > Last)
    BY <1>1, AtaAssumption DEF DriveType, Refuses
  <2> QED
    BY <2>1 DEF Lbas
<1>4. Types' /\ Places' /\ Held1' /\ Cut'
  BY <1>1, <1>3, DriveFrame DEF Types, TypeOK, store
<1>5. DriveSound'
  BY <1>1, <1>2, <1>31 DEF DriveSound
<1>6. ~(IsRead /\ pc \in {"data", "recover", "drain"}) /\ (IsRead' <=> IsRead)
  BY <1>1, NotReading DEF driver, IsRead
<1>7. Reading'
  BY <1>1, <1>2, <1>6 DEF Reading, driver
<1>8. ReadExact'
  BY <1>1, <1>2, <1>6 DEF ReadExact, Issued, ExactFrom, Held, store, history, driver, Moved
<1>9. WriteExact'
  BY <1>1, <1>2 DEF WriteExact, Writing, Flushing, Landed, Held, At, Moved, Asked, store, history, driver
<1>10. Placed'
  BY <1>1, <1>2 DEF Placed, store, history
<1> QED
  BY <1>4, <1>5, <1>7, <1>8, <1>9, <1>10

\* The drive gives up, fails or is done: it is in no command any more, and
\* nothing has been written.
LEMMA EndsInd ==
    ASSUME IndInv, dr.busy, dr.cmd # "read", UNCHANGED <<driver, history, store>>,
           dr' = [NoCommand EXCEPT !.err = dr'.err], dr'.err \in {"none", "unc", "idnf"},
           dr'.err = "none" => dr.cmd = "reset"
    PROVE  IndInv'
<1> USE DEF IndInv
<1>1. dr'.cmd = "none" /\ dr'.out = <<>> /\ dr'.in = NotCached /\ ~dr'.busy
  BY DEF NoCommand
<1>2. dr' \in DriveType
  BY NoCommandType
<1>3. Types' /\ Places' /\ Held1' /\ Cut'
  BY <1>2, DriveFrame DEF Types, TypeOK, store
<1>4. DriveSound'
  BY <1>1 DEF DriveSound
<1>5. ~(IsRead /\ pc \in {"data", "recover", "drain"}) /\ (IsRead' <=> IsRead) /\ dr.cmd # "none"
  BY NotReading DEF driver, IsRead
<1>6. Reading'
  BY <1>1, <1>5 DEF Reading, driver
<1>7. ReadExact'
  BY <1>1, <1>5 DEF ReadExact, Issued, ExactFrom, Held, store, history, driver, Moved, IsRead
<1>8. WriteExact'
  BY <1>1 DEF WriteExact, Writing, Flushing, Landed, Held, At, Moved, Asked, store, history, driver
<1>9. Placed'
  BY <1>1 DEF Placed, store, history
<1> QED
  BY <1>3, <1>4, <1>6, <1>7, <1>8, <1>9

LEMMA WriteFailsInd ==
    ASSUME IndInv, WriteFails
    PROVE  IndInv'
<1>1. dr.busy /\ dr.cmd # "read" /\ UNCHANGED <<driver, history, store>>
  BY DEF WriteFails, Drive
<1>2. PICK e \in {"unc", "idnf"} : dr' = [NoCommand EXCEPT !.err = e]
  BY DEF WriteFails
<1>3. dr'.err = e
  BY <1>2 DEF NoCommand
<1> QED
  BY <1>1, <1>2, <1>3, EndsInd

LEMMA FlushFailsInd ==
    ASSUME IndInv, FlushFails
    PROVE  IndInv'
<1>1. dr.busy /\ dr.cmd # "read" /\ UNCHANGED <<driver, history, store>>
  BY DEF FlushFails, Drive
<1>2. dr' = [NoCommand EXCEPT !.err = "unc"]
  BY DEF FlushFails
<1>3. dr'.err = "unc"
  BY <1>2 DEF NoCommand
<1> QED
  BY <1>1, <1>2, <1>3, EndsInd

LEMMA ResetDoneInd ==
    ASSUME IndInv, ResetDone
    PROVE  IndInv'
<1>1. dr.busy /\ dr.cmd = "reset" /\ UNCHANGED <<driver, history, store>>
  BY DEF ResetDone, Drive
<1>2. dr' = NoCommand
  BY DEF ResetDone
<1>3. dr'.err = "none" /\ dr' = [NoCommand EXCEPT !.err = dr'.err]
  <2>1. dr'.err = "none" /\ NoCommand.err = "none"
    BY <1>2 DEF NoCommand
  <2>2. NoCommand \in DriveType
    BY NoCommandType DEF IndInv
  <2> QED
    BY <1>2, <2>1, <2>2 DEF DriveType
<1> QED
  BY <1>1, <1>3, EndsInd

LEMMA AbsorbInd ==
    ASSUME IndInv, Absorb
    PROVE  IndInv'
<1> USE DEF IndInv
<1>1. /\ dr.cmd = "write" /\ dr.busy /\ dr.in # NotCached /\ dr \in DriveType
      /\ UNCHANGED <<driver, history, medium>> /\ cache' = [cache EXCEPT ![dr.at] = dr.in]
  BY DEF Absorb, Drive, Types
<1>2. dr' = IF dr.left = 1 THEN NoCommand
            ELSE [dr EXCEPT !.in = NotCached, !.at = @ + 1, !.left = @ - 1, !.busy = (dr.at = Last)]
  BY DEF Absorb
<1>3. /\ dr.at \in Lbas /\ dr.left > 0 /\ dr.err = "none" /\ dr.out = <<>>
      /\ dr.at \in Nat /\ dr.left \in Nat
  BY <1>1 DEF DriveSound, DriveType
<1>4. cache' \in [Lbas -> [of : Nat \cup {-1, -2}, version : 0 .. version]]
  BY <1>1, <1>3 DEF Types, TypeOK, DriveType
<1>41. dr.left = 1 => /\ dr'.cmd = "none" /\ ~dr'.busy
                     /\ dr'.out = <<>> /\ dr'.in = NotCached /\ dr'.err = "none"
  BY <1>2 DEF NoCommand
<1>42. dr.left # 1 => /\ dr'.cmd = "write" /\ dr'.at = dr.at + 1 /\ dr'.left = dr.left - 1
                     /\ dr'.busy = (dr.at = Last) /\ dr'.left > 0
                     /\ dr'.out = <<>> /\ dr'.in = NotCached /\ dr'.err = "none"
  BY <1>1, <1>2, <1>3 DEF DriveType
<1>5. \/ dr'.cmd = "none" /\ dr'.err = "none" /\ dr.left = 1 /\ ~dr'.busy
      \/ /\ dr'.cmd = "write" /\ dr'.err = "none" /\ dr'.in = NotCached
         /\ dr'.at = dr.at + 1 /\ dr'.left = dr.left - 1 /\ dr'.left > 0
         /\ dr'.busy = (dr.at = Last) /\ dr'.out = <<>>
  BY <1>41, <1>42
<1>6. dr'.out = <<>> /\ dr'.in = NotCached /\ dr'.err = "none"
  BY <1>41, <1>42
<1>7. dr' \in DriveType
  <2>1. CASE dr.left = 1
    BY <1>2, <2>1, NoCommandType
  <2>2. CASE dr.left # 1
    <3>1. NotCached \in [of : Nat \cup {-1, -2}, version : 0 .. version]
      BY DEF NotCached, Sector, Types
    <3>2. dr.at + 1 \in Nat /\ dr.left - 1 \in Nat /\ (dr.at = Last) \in BOOLEAN
      BY <1>3
    <3> QED
      BY <1>1, <1>2, <2>2, <3>1, <3>2 DEF DriveType
  <2> QED
    BY <2>1, <2>2
<1>8. Types' /\ Places' /\ Held1' /\ Cut'
  BY <1>1, <1>4, <1>7, DriveFrame DEF Types, TypeOK
<1>9. DriveSound'
  <2>1. dr.at # Last => dr.at + 1 \in Lbas
    BY <1>3, AtaAssumption DEF Lbas
  <2> QED
    BY <1>5, <1>6, <2>1 DEF DriveSound
<1>10. ~(IsRead /\ pc \in {"data", "recover", "drain"}) /\ (IsRead' <=> IsRead)
  BY <1>1, NotReading DEF driver, IsRead
<1>11. Reading'
  <2>1. pc # "settle"
    BY <1>1 DEF Reading
  <2> QED
    BY <1>1, <1>5, <1>10, <2>1 DEF Reading, driver
<1>12. ReadExact'
  <2> SUFFICES ASSUME ~mixed, IsRead
               PROVE  ReadExact'
    BY <1>1, <1>10 DEF ReadExact, history
  <2>1. ~Issued
    BY <1>1 DEF ReadExact
  <2>2. Len(call.got) = 0 /\ pc # "data" /\ ~Issued'
    BY <2>1, <1>1 DEF Issued, Moved, Types, CallType, driver
  <2> QED
    BY <1>1, <2>2 DEF ReadExact, ExactFrom, driver
<1>13. \A l \in Lbas : Held(l)' = IF l = dr.at THEN dr.in ELSE Held(l)
  BY <1>1, <1>3 DEF Held, Types, TypeOK
<1>14. WriteExact'
  <2> SUFFICES ASSUME ~mixed, call.op = "write"
               PROVE  WriteExact'
    BY <1>1 DEF WriteExact, history, driver
  <2>1. call \in CallType /\ raw \in RawType /\ version \in Nat
    BY DEF Types
  <2>2. ASSUME pc \in {"data", "commit"}
        PROVE  /\ \A l : Landed(l) => Landed(l)'
               /\ Writing'
    <3>1. /\ dr.at >= raw.at /\ dr.at + dr.left = raw.at + raw.n
          /\ Len(raw.blk) = (dr.at - raw.at) + 1 /\ dr.in = Sector(dr.at, version)
          /\ \A l \in raw.at .. dr.at - 1 : Landed(l)
      BY <1>1, <2>2 DEF WriteExact, Writing
    <3>2. \A l : l = dr.at => Landed(l)'
      BY <1>1, <1>3, <1>13, <3>1 DEF Landed, history
    <3>3. \A l : Landed(l) => Landed(l)'
      BY <1>1, <1>13, <3>2 DEF Landed, history
    <3>4. \A l \in raw.at .. dr.at : Landed(l)'
      <4> TAKE l \in raw.at .. dr.at
      <4>1. l = dr.at \/ l \in raw.at .. dr.at - 1
        BY <1>3, <2>1 DEF RawType
      <4> QED
        BY <3>1, <3>2, <3>3, <4>1
    <3>5. raw' = raw /\ raw.at \in Nat /\ raw.n \in Nat
      BY <1>1, <2>1 DEF driver, RawType
    <3>51. Len(raw.blk) = (dr.at - raw.at) + 1 /\ dr.at >= raw.at /\ dr.at + dr.left = raw.at + raw.n
      BY <3>1
    <3>6. CASE dr'.cmd = "none"
      <4>1. dr.left = 1
        BY <1>5, <3>6
      <4>2. raw.at + raw.n - 1 = dr.at /\ Len(raw.blk) = raw.n
        BY <1>3, <3>5, <3>51, <4>1
      <4> QED
        BY <3>3, <3>4, <3>5, <3>6, <4>2 DEF Writing
    <3>7. CASE dr'.cmd # "none"
      <4>1. /\ dr'.cmd = "write" /\ dr'.in = NotCached /\ dr'.at = dr.at + 1 /\ dr'.left = dr.left - 1
        BY <1>5, <3>7
      <4>2. /\ dr'.at >= raw.at /\ dr'.at + dr'.left = raw.at + raw.n
            /\ Len(raw.blk) = dr'.at - raw.at /\ dr'.at - 1 = dr.at
        <5>1. /\ dr.at + 1 >= raw.at /\ (dr.at + 1) + (dr.left - 1) = raw.at + raw.n
              /\ Len(raw.blk) = (dr.at + 1) - raw.at /\ (dr.at + 1) - 1 = dr.at
          BY <1>3, <3>5, <3>51
        <5> QED
          BY <4>1, <5>1
      <4> QED
        BY <3>3, <3>4, <3>5, <4>1, <4>2 DEF Writing
    <3> QED
      BY <3>3, <3>6, <3>7
  <2>3. /\ call.rc # 0 /\ pc # "flush"
        /\ Moved > 0 => pc \notin {"split", "ready", "flushing"}
    BY <1>1, <2>1 DEF WriteExact, Flushing
  <2>4. pc # "idle" /\ pc \notin {"data", "commit"} => Moved = 0
    <3>1. pc \in {"split", "ready", "flushing", "flush", "data", "commit", "idle"}
      BY DEF Places, IsRead, Types, TypeOK
    <3> QED
      BY <2>1, <2>3, <3>1 DEF Moved, CallType
  <2>5. pc' = pc /\ call' = call /\ Moved' = Moved /\ At' = At
    BY <1>1 DEF driver, Moved, At
  <2>6. ASSUME pc # "idle", NEW l \in call.lba .. At - 1
        PROVE  Landed(l)'
    <3>1. Moved # 0
      BY <2>1 DEF At, CallType
    <3>2. Landed(l)
      BY <2>6 DEF WriteExact
    <3> QED
      BY <2>2, <2>4, <2>6, <3>1, <3>2
  <2>7. Moved > 0 /\ pc \in {"split", "ready", "flushing"} => dr'.cmd # "write"
    BY <2>3
  <2> QED
    BY <2>2, <2>3, <2>5, <2>6, <2>7 DEF WriteExact
<1>15. Placed'
  <2> SUFFICES ASSUME ~mixed
               PROVE  Placed'
    BY <1>1 DEF Placed, history
  <2>1. dr.in.of = dr.at
    BY <1>1 DEF Placed
  <2> QED
    BY <1>1, <1>3, <1>6, <2>1 DEF Placed, Types, TypeOK
<1> QED
  BY <1>8, <1>9, <1>11, <1>12, <1>14, <1>15

\* The cache is written back: what the disk holds stays, and where a write
\* has landed on the platters it stays there.
LEMMA WriteBackInd ==
    ASSUME IndInv, NEW k \in Lbas, WriteBack(k)
    PROVE  IndInv'
<1> USE DEF IndInv
<1>1. /\ cache[k] # NotCached /\ medium' = [medium EXCEPT ![k] = cache[k]]
      /\ cache' = [cache EXCEPT ![k] = NotCached] /\ UNCHANGED <<driver, history, dr>>
  BY DEF WriteBack
<1>2. /\ cache \in [Lbas -> [of : Nat \cup {-1, -2}, version : 0 .. version]]
      /\ medium \in [Lbas -> [of : Nat \cup {-1, -2}, version : 0 .. version]]
      /\ version \in Nat /\ dr \in DriveType
  BY DEF Types, TypeOK
<1>3. NotCached \in [of : Nat \cup {-1, -2}, version : 0 .. version]
  BY <1>2 DEF NotCached, Sector
<1>4. /\ cache' \in [Lbas -> [of : Nat \cup {-1, -2}, version : 0 .. version]]
      /\ medium' \in [Lbas -> [of : Nat \cup {-1, -2}, version : 0 .. version]]
  BY <1>1, <1>2, <1>3
<1>5. Types' /\ Places' /\ Held1' /\ Cut'
  <2>1. dr' \in DriveType
    BY <1>1, <1>2
  <2> QED
    BY <1>1, <1>4, <2>1, DriveFrame
<1>6. \A l \in Lbas : Held(l)' = Held(l)
  BY <1>1, <1>2 DEF Held
<1>7. \A l \in Lbas : Held(l) = Sector(l, version) /\ medium[l] = Sector(l, version)
                          => medium'[l] = Sector(l, version)
  BY <1>1, <1>2 DEF Held
<1>8. DriveSound' /\ Reading'
  BY <1>1 DEF DriveSound, Reading, driver, history, IsRead
<1>9. ReadExact'
  BY <1>1, <1>6 DEF ReadExact, Issued, ExactFrom, driver, history, IsRead, Moved
<1>10. WriteExact'
  <2> SUFFICES ASSUME ~mixed, call.op = "write"
               PROVE  WriteExact'
    BY <1>1 DEF WriteExact, history, driver
  <2>1. /\ pc' = pc /\ call' = call /\ raw' = raw /\ dr' = dr /\ version' = version
        /\ Moved' = Moved /\ At' = At /\ Asked' = Asked
    BY <1>1 DEF driver, history, Moved, At, Asked
  <2>2. \A l : Landed(l)' <=> Landed(l)
    BY <1>6, <2>1 DEF Landed
  <2>3. Writing => Writing'
    BY <2>1, <2>2 DEF Writing
  <2>4. ASSUME pc = "flush" \/ call.rc = 0
        PROVE  /\ \A l \in Asked : Landed(l)
    <3>1. Rest = 0 /\ (pc # "idle" \/ call.rc = 0) /\ call \in CallType
      BY <2>4 DEF Cut, Types
    <3>2. At - 1 = call.lba + call.count - 1
      BY <3>1 DEF At, Rest, Moved, CallType
    <3> QED
      BY <3>1, <3>2 DEF WriteExact, Asked
  <2>5. ASSUME pc = "flush" \/ call.rc = 0, \A l \in Asked : medium[l] = Sector(l, version)
        PROVE  \A l \in Asked : medium'[l] = Sector(l, version)
    BY <1>7, <2>4, <2>5 DEF Landed
  <2>6. pc = "flush" => Flushing'
    BY <2>1, <2>5 DEF WriteExact, Flushing
  <2>7. call.rc = 0 => dr.cmd # "write" /\ \A l \in Asked : medium'[l] = Sector(l, version)
    BY <2>5 DEF WriteExact
  <2> QED
    BY <2>1, <2>2, <2>3, <2>6, <2>7 DEF WriteExact
<1>11. Placed'
  BY <1>1, <1>2 DEF Placed, history
<1> QED
  BY <1>5, <1>8, <1>9, <1>10, <1>11

LEMMA FlushedInd ==
    ASSUME IndInv, Flushed
    PROVE  IndInv'
<1> USE DEF IndInv
<1>1. /\ dr.busy /\ dr.cmd \in {"flush", "standby"} /\ UNCHANGED <<driver, history>>
      /\ medium' = [l \in Lbas |-> Held(l)] /\ cache' = [l \in Lbas |-> NotCached]
      /\ dr' = NoCommand
  BY DEF Flushed, Drive
<1>2. dr'.cmd = "none" /\ dr'.out = <<>> /\ dr'.in = NotCached /\ ~dr'.busy /\ dr'.err = "none"
  BY <1>1 DEF NoCommand
<1>3. dr' \in DriveType
  BY <1>1, NoCommandType
<1>4. /\ cache' \in [Lbas -> [of : Nat \cup {-1, -2}, version : 0 .. version]]
      /\ medium' \in [Lbas -> [of : Nat \cup {-1, -2}, version : 0 .. version]]
  <2>1. NotCached \in [of : Nat \cup {-1, -2}, version : 0 .. version]
    BY DEF NotCached, Sector, Types
  <2> QED
    BY <1>1, <2>1, HeldType
<1>5. Types' /\ Places' /\ Held1' /\ Cut'
  BY <1>1, <1>3, <1>4, DriveFrame
<1>6. \A l \in Lbas : Held(l)' = Held(l) /\ medium'[l] = Held(l)
  BY <1>1 DEF Held
<1>7. DriveSound'
  BY <1>2 DEF DriveSound
<1>8. ~(IsRead /\ pc \in {"data", "recover", "drain"}) /\ (IsRead' <=> IsRead)
  BY <1>1, NotReading DEF driver, IsRead
<1>9. Reading'
  BY <1>1, <1>2, <1>8 DEF Reading, driver
<1>10. ReadExact'
  BY <1>1, <1>2, <1>6, <1>8 DEF ReadExact, Issued, ExactFrom, driver, history, Moved
<1>11. WriteExact'
  <2> SUFFICES ASSUME ~mixed, call.op = "write"
               PROVE  WriteExact'
    BY <1>1 DEF WriteExact, history, driver
  <2>1. /\ pc' = pc /\ call' = call /\ raw' = raw /\ version' = version
        /\ Moved' = Moved /\ At' = At /\ Asked' = Asked
    BY <1>1 DEF driver, history, Moved, At, Asked
  <2>2. \A l : Landed(l)' <=> Landed(l)
    BY <1>6, <2>1 DEF Landed
  <2>3. pc \notin {"data", "commit"}
    BY <1>1 DEF WriteExact, Writing
  <2>4. ASSUME pc = "flush" \/ call.rc = 0
        PROVE  /\ \A l \in Asked : medium'[l] = Sector(l, version)
    <3>1. Rest = 0 /\ (pc # "idle" \/ call.rc = 0) /\ call \in CallType
      BY <2>4 DEF Cut, Types
    <3>2. At - 1 = call.lba + call.count - 1
      BY <3>1 DEF At, Rest, Moved, CallType
    <3>3. \A l \in Asked : Landed(l)
      BY <3>1, <3>2 DEF WriteExact, Asked
    <3> QED
      BY <1>6, <3>3 DEF Landed
  <2> QED
    BY <1>2, <2>1, <2>2, <2>3, <2>4 DEF WriteExact, Flushing
<1>12. Placed'
  BY <1>1, <1>2 DEF Placed, history, Held
<1> QED
  BY <1>5, <1>7, <1>9, <1>10, <1>11, <1>12

-----------------------------------------------------------------------------
(* The driver's steps that do not touch the drive.                          *)

Pcs == {"idle", "split", "ready", "data", "recover", "drain", "settle",
        "commit", "flushing", "flush", "standby"}

LEMMA CallFrame ==
    ASSUME IndInv, UNCHANGED <<dr, store, mixed>>,
           version' \in Nat, version' >= version,
           pc' \in Pcs, hold' \in 0 .. 1, parked' \in BOOLEAN,
           call' \in CallType, raw' \in RawType
    PROVE  Types' /\ DriveSound' /\ Placed'
<1> USE DEF IndInv
<1>1. /\ medium \in [Lbas -> [of : Nat \cup {-1, -2}, version : 0 .. version]]
      /\ cache \in [Lbas -> [of : Nat \cup {-1, -2}, version : 0 .. version]]
      /\ dr \in DriveType /\ version \in Nat /\ mixed \in BOOLEAN
  BY DEF Types, TypeOK
<1>2. 0 .. version \subseteq 0 .. version'
  BY <1>1
<1>3. [of : Nat \cup {-1, -2}, version : 0 .. version] \subseteq
      [of : Nat \cup {-1, -2}, version : 0 .. version']
  BY <1>2
<1>4. dr' \in DriveType'
  <2>1. dr \in [cmd : {"none", "read", "write", "flush", "standby", "reset"}, at : Nat, left : Nat,
              out : Seq(Sectors), in : [of : Nat \cup {-1, -2}, version : 0 .. version'],
              busy : BOOLEAN, err : {"none", "unc", "idnf"}, aligned : BOOLEAN]
    BY <1>1, <1>3 DEF DriveType
  <2> QED
    BY <2>1 DEF DriveType
<1>5. Types'
  <2>1. /\ medium' \in [Lbas -> [of : Nat \cup {-1, -2}, version : 0 .. version']]
        /\ cache' \in [Lbas -> [of : Nat \cup {-1, -2}, version : 0 .. version']]
    BY <1>1, <1>3 DEF store
  <2>2. call'.rc \in Codes
    BY DEF CallType
  <2> QED
    BY <1>1, <1>4, <2>1, <2>2 DEF Types, TypeOK, Pcs
<1>6. DriveSound' /\ Placed'
  BY DEF DriveSound, Placed, store
<1> QED
  BY <1>5, <1>6

\* A call begins: it has read or written nothing yet.
LEMMA BeginsInd ==
    ASSUME IndInv, pc = "idle", UNCHANGED <<raw, parked, dr, store, mixed>>,
           NEW op \in {"read", "wake", "write", "standby"},
           NEW r \in [lba : Nat, count : Nat, odd : BOOLEAN], Begins(op, r),
           op \in {"read", "wake"} => hold' = hold /\ version' = version /\ pc' = "split",
           op = "write" => hold' = hold + 1 /\ version' = version + 1 /\ pc' = "split",
           op = "standby" => hold' = hold + 1 /\ version' = version /\ pc' = "ready"
    PROVE  IndInv'
<1> USE DEF IndInv
<1>1. call' = [op |-> op, lba |-> r.lba, count |-> r.count, odd |-> r.odd, got |-> <<>>, rc |-> 1]
  BY DEF Begins
<1>2. /\ call'.op = op /\ call'.got = <<>> /\ call'.rc = 1 /\ call'.lba \in Nat /\ call'.count \in Nat
      /\ Len(call'.got) = 0
  BY <1>1
<1>3. call' \in CallType
  BY <1>1 DEF CallType, Codes
<1>4. hold = 0 /\ version \in Nat /\ raw \in RawType /\ parked \in BOOLEAN
  BY DEF Types, TypeOK, Held1
<1>5. version' \in Nat /\ version' >= version /\ hold' \in 0 .. 1 /\ pc' \in {"split", "ready"}
  BY <1>4
<1>6. Types' /\ DriveSound' /\ Placed'
  BY <1>3, <1>4, <1>5, CallFrame DEF Pcs
<1>7. Places' /\ Held1'
  BY <1>2, <1>4 DEF Places, Held1, IsRead
<1>8. Cut'
  BY <1>2, <1>5 DEF Cut, InCommand, Moved, IsRead
<1>9. Reading'
  BY <1>5 DEF Reading
<1>10. ReadExact'
  BY <1>2, <1>5 DEF ReadExact, Issued, Moved, ExactFrom
<1>11. WriteExact'
  <2>1. Moved' = 0 /\ At' = call'.lba
    BY <1>2 DEF Moved, At
  <2>2. \A l \in call'.lba .. At' - 1 : FALSE
    BY <1>2, <2>1
  <2> QED
    BY <1>2, <1>5, <2>1, <2>2 DEF WriteExact
<1> QED
  BY <1>6, <1>7, <1>8, <1>9, <1>10, <1>11

LEMMA ReadInd ==
    ASSUME IndInv, NEW r \in Reads, Read(r)
    PROVE  IndInv'
<1>1. r \in [lba : Nat, count : Nat, odd : BOOLEAN]
  BY AtaAssumption
<1> QED
  BY <1>1, BeginsInd DEF Read, history

LEMMA WakeupInd ==
    ASSUME IndInv, Wakeup
    PROVE  IndInv'
<1>1. [lba |-> 0, count |-> PhysLog, odd |-> FALSE] \in [lba : Nat, count : Nat, odd : BOOLEAN]
  BY AtaAssumption
<1> QED
  BY <1>1, BeginsInd DEF Wakeup, history

LEMMA StandbyInd ==
    ASSUME IndInv, Standby
    PROVE  IndInv'
<1>1. [lba |-> 0, count |-> 0, odd |-> FALSE] \in [lba : Nat, count : Nat, odd : BOOLEAN]
  OBVIOUS
<1> QED
  BY <1>1, BeginsInd DEF Standby, history

LEMMA WriteInd ==
    ASSUME IndInv, NEW w \in Writes, Write(w)
    PROVE  IndInv'
<1>1. w \in [lba : Nat, count : Nat, odd : BOOLEAN]
  BY AtaAssumption
<1>2. CASE w.count = 0 \/ w.lba % PhysLog # 0 \/ w.count % PhysLog # 0 \/ w.odd
  <2>1. /\ call' = [op |-> "refused", lba |-> 0, count |-> 0, odd |-> FALSE, got |-> <<>>, rc |-> -1]
        /\ pc = "idle" /\ UNCHANGED <<pc, hold, version, raw, parked, dr, store, mixed>>
    BY <1>2 DEF Write
  <2>2. call'.op = "refused" /\ call'.got = <<>> /\ Len(call'.got) = 0 /\ call'.rc = -1 /\ call'.count = 0
    BY <2>1
  <2>3. call' \in CallType
    BY <2>1 DEF CallType, Codes
  <2>4. Types' /\ DriveSound' /\ Placed'
    <3>1. version \in Nat /\ raw \in RawType /\ parked \in BOOLEAN /\ hold \in 0 .. 1
      BY DEF IndInv, Types, TypeOK
    <3> QED
      BY <2>1, <2>3, <3>1, CallFrame DEF Pcs
  <2>5. Places' /\ Held1'
    BY <2>1, <2>2 DEF IndInv, Places, Held1, IsRead
  <2>6. Cut'
    BY <2>1, <2>2 DEF IndInv, Cut, InCommand, Moved, IsRead
  <2>7. Reading'
    BY <2>1, <2>2 DEF IndInv, Reading, IsRead
  <2>8. ReadExact' /\ WriteExact'
    BY <2>1, <2>2 DEF IndInv, ReadExact, WriteExact, IsRead
  <2> QED
    BY <2>4, <2>5, <2>6, <2>7, <2>8 DEF IndInv
<1>3. CASE ~(w.count = 0 \/ w.lba % PhysLog # 0 \/ w.count % PhysLog # 0 \/ w.odd)
  BY <1>1, <1>3, BeginsInd DEF Write
<1> QED
  BY <1>2, <1>3

\* A call ends: its hold is given back, and nothing is under way of it.
LEMMA ExitsInd ==
    ASSUME IndInv, NEW rc \in Codes, Exits(rc), UNCHANGED <<dr, store, history>>,
           pc \notin {"idle", "split"}, dr.cmd # "read",
           IsRead /\ rc \in {-2, -3, -4} => pc = "settle",
           rc = 0 => pc = "flush" /\ ~dr.busy /\ dr.err = "none",
           rc = -4 => call.lba + call.count > Last + 1
    PROVE  IndInv'
<1> USE DEF IndInv
<1>1. /\ pc' = "idle" /\ call' = [call EXCEPT !.rc = rc] /\ raw' = NoRaw
      /\ hold' = hold - 1 /\ parked' = IF call.op = "wake" THEN FALSE ELSE parked
  BY DEF Exits
<1>2. call \in CallType /\ version \in Nat /\ hold = 1 /\ parked \in BOOLEAN
  BY DEF Types, TypeOK, Held1
<1>3. call' \in CallType
  BY <1>1, <1>2 DEF CallType
<1>4. /\ call'.op = call.op /\ call'.lba = call.lba /\ call'.count = call.count
      /\ call'.got = call.got /\ call'.rc = rc
  BY <1>1, <1>2 DEF CallType
<1>5. Types' /\ DriveSound' /\ Placed'
  <2>1. raw' \in RawType
    <3>1. <<>> \in Seq(Sectors)
      OBVIOUS
    <3> QED
      BY <1>1, <3>1 DEF NoRaw, RawType
  <2>2. hold' \in 0 .. 1 /\ version' \in Nat /\ version' >= version /\ mixed' = mixed
    BY <1>1, <1>2 DEF history
  <2>3. parked' \in BOOLEAN
    BY <1>1, <1>2
  <2> QED
    BY <1>1, <1>3, <2>1, <2>2, <2>3, CallFrame DEF Pcs
<1>6. Places' /\ Held1'
  BY <1>1, <1>2, <1>4 DEF Places, Held1
<1>7. Moved' = Moved /\ At' = At /\ Rest' = Rest /\ Asked' = Asked /\ (IsRead' <=> IsRead)
  BY <1>4 DEF Moved, At, Rest, Asked, IsRead
<1>8. Cut'
  BY <1>1, <1>4, <1>7 DEF Cut, InCommand
<1>9. Reading'
  BY <1>1 DEF Reading
<1>10. ReadExact'
  <2> SUFFICES ASSUME ~mixed, IsRead
               PROVE  ReadExact'
    BY <1>7 DEF ReadExact, history
  <2>1. Issued' => Issued
    BY <1>1, <1>4, <1>7 DEF Issued
  <2> QED
    BY <1>1, <1>4, <2>1 DEF ReadExact, ExactFrom, Held, store
<1>11. WriteExact'
  <2> SUFFICES ASSUME ~mixed, call.op = "write"
               PROVE  WriteExact'
    BY <1>4 DEF WriteExact, history
  <2>1. \A l : Landed(l)' <=> Landed(l)
    BY DEF Landed, Held, store, history
  <2>2. rc = 0 => dr.cmd # "write" /\ \A l \in Asked : medium[l] = Sector(l, version)
    BY DEF WriteExact, Flushing, DriveSound
  <2> QED
    BY <1>1, <1>4, <1>7, <2>1, <2>2 DEF WriteExact, store, history
<1> QED
  BY <1>5, <1>6, <1>8, <1>9, <1>10, <1>11

LEMMA ReadSplitInd ==
    ASSUME IndInv, ReadSplit
    PROVE  IndInv'
<1> USE DEF IndInv
<1>1. pc = "split" /\ IsRead /\ UNCHANGED <<dr, store, history>> /\ dr.cmd # "read"
  BY DEF ReadSplit, Reading
<1>2. /\ call \in CallType /\ raw \in RawType /\ version \in Nat /\ hold = 0 /\ parked \in BOOLEAN
      /\ Moved <= call.count /\ Rest \in Nat
  BY <1>1 DEF Types, TypeOK, Held1, Cut, Rest, Moved, CallType
<1>3. UNCHANGED mixed /\ version' \in Nat /\ version' >= version
  BY <1>1, <1>2 DEF history
<1>4. CASE Rest = 0
  <2>1. /\ pc' = "idle" /\ call' = [call EXCEPT !.rc = 0] /\ UNCHANGED <<raw, hold>>
        /\ parked' = IF call.op = "wake" THEN FALSE ELSE parked
    BY <1>4 DEF ReadSplit
  <2>2. call' \in CallType /\ parked' \in BOOLEAN
    <3>1. call' \in CallType
      BY <1>2, <2>1 DEF CallType, Codes
    <3>2. parked' \in BOOLEAN
      BY <1>2, <2>1
    <3> QED
      BY <3>1, <3>2
  <2>3. /\ call'.op = call.op /\ call'.lba = call.lba /\ call'.count = call.count
        /\ call'.got = call.got /\ call'.rc = 0
    BY <1>2, <2>1 DEF CallType
  <2>4. Types' /\ DriveSound' /\ Placed'
    BY <1>1, <1>2, <1>3, <2>1, <2>2, CallFrame DEF Pcs
  <2>5. Moved' = Moved /\ At' = At /\ Rest' = Rest /\ IsRead'
    BY <1>1, <2>3 DEF Moved, At, Rest, IsRead
  <2>6. Places' /\ Held1'
    BY <1>2, <2>1, <2>3 DEF Places, Held1
  <2>7. Cut'
    BY <1>2, <1>4, <2>1, <2>3, <2>5 DEF Cut, InCommand
  <2>8. Reading'
    BY <1>1, <2>1 DEF Reading
  <2>9. ReadExact'
    <3>1. Issued' => Issued
      BY <2>1, <2>3, <2>5 DEF Issued
    <3> QED
      BY <1>1, <2>1, <2>3, <3>1 DEF ReadExact, ExactFrom, Held, store, history
  <2>10. WriteExact'
    BY <2>5 DEF WriteExact, IsRead
  <2> QED
    BY <2>4, <2>6, <2>7, <2>8, <2>9, <2>10
<1>5. CASE Rest # 0
  <2>1. raw' = Piece /\ pc' = "ready" /\ hold' = hold + 1 /\ UNCHANGED <<call, parked>>
    BY <1>5 DEF ReadSplit
  <2>2. /\ Piece.at \in Nat /\ Piece.n \in Nat /\ Piece.blk = <<>>
        /\ Piece = [at |-> Piece.at, n |-> Piece.n, blk |-> <<>>]
    BY <1>2, <1>5, PieceFacts DEF Piece
  <2>3. raw' \in RawType
    <3>1. <<>> \in Seq(Sectors)
      OBVIOUS
    <3>2. [at |-> Piece.at, n |-> Piece.n, blk |-> <<>>] \in RawType
      BY <2>2, <3>1 DEF RawType
    <3> QED
      BY <2>1, <2>2, <3>2
  <2>4. Types' /\ DriveSound' /\ Placed'
    <3>1. call' \in CallType /\ parked' \in BOOLEAN /\ hold' \in 0 .. 1
      BY <1>2, <2>1
    <3> QED
      BY <1>1, <1>3, <2>1, <2>3, <3>1, CallFrame DEF Pcs
  <2>5. Moved' = Moved /\ At' = At /\ Rest' = Rest /\ IsRead' /\ Piece' = Piece
    BY <1>1, <2>1 DEF Moved, At, Rest, IsRead, Piece, Direct, Off
  <2>6. Places' /\ Held1'
    BY <1>2, <2>1, <2>5 DEF Places, Held1
  <2>7. Cut'
    BY <1>1, <1>2, <1>5, <2>1, <2>2, <2>5 DEF Cut, InCommand, IsRead
  <2>8. Reading'
    BY <1>1, <2>1 DEF Reading
  <2>9. ReadExact'
    <3>1. Issued' => Issued
      BY <2>1, <2>5 DEF Issued
    <3> QED
      BY <1>1, <2>1, <3>1 DEF ReadExact, ExactFrom, Held, store, history
  <2>10. WriteExact'
    BY <2>5 DEF WriteExact, IsRead
  <2> QED
    BY <2>4, <2>6, <2>7, <2>8, <2>9, <2>10
<1> QED
  BY <1>4, <1>5

LEMMA WriteSplitInd ==
    ASSUME IndInv, WriteSplit
    PROVE  IndInv'
<1> USE DEF IndInv
<1>1. /\ pc = "split" /\ call.op = "write" /\ ~IsRead
      /\ UNCHANGED <<call, hold, parked, dr, store, history>>
  BY DEF WriteSplit, IsRead
<1>2. /\ call \in CallType /\ raw \in RawType /\ version \in Nat /\ hold = 1 /\ parked \in BOOLEAN
      /\ Moved <= call.count /\ Rest \in Nat /\ At \in Nat
  BY <1>1 DEF Types, TypeOK, Held1, Cut, Rest, Moved, At, CallType
<1>3. UNCHANGED mixed /\ version' \in Nat /\ version' >= version
  BY <1>1, <1>2 DEF history
<1>4. /\ pc' = IF Rest = 0 THEN "flushing" ELSE "ready"
      /\ raw' = IF Rest = 0 THEN raw ELSE [at |-> At, n |-> Lesser(Rest, MaxCount), blk |-> <<>>]
  BY DEF WriteSplit
<1>5. Rest # 0 => Lesser(Rest, MaxCount) \in 1 .. Rest
  BY <1>2, AtaAssumption DEF Lesser
<1>6. raw' \in RawType
  <2>1. CASE Rest = 0
    BY <1>2, <1>4, <2>1
  <2>2. CASE Rest # 0
    <3>1. <<>> \in Seq(Sectors) /\ Lesser(Rest, MaxCount) \in Nat
      BY <1>2, <1>5, <2>2
    <3> QED
      BY <1>2, <1>4, <2>2, <3>1 DEF RawType
  <2> QED
    BY <2>1, <2>2
<1>7. Rest # 0 => raw'.at = At /\ raw'.n \in 1 .. Rest /\ raw'.blk = <<>>
  BY <1>4, <1>5
<1>8. Types' /\ DriveSound' /\ Placed'
  <2>1. call' \in CallType /\ parked' \in BOOLEAN /\ hold' \in 0 .. 1 /\ pc' \in Pcs
    BY <1>1, <1>2, <1>4 DEF Pcs
  <2> QED
    BY <1>1, <1>3, <1>6, <2>1, CallFrame
<1>9. Moved' = Moved /\ At' = At /\ Rest' = Rest /\ ~IsRead' /\ call' = call
  BY <1>1 DEF Moved, At, Rest, IsRead
<1>10. Places' /\ Held1'
  BY <1>1, <1>2, <1>4, <1>9 DEF Places, Held1
<1>11. Cut'
  BY <1>1, <1>2, <1>4, <1>7, <1>9 DEF Cut, InCommand, IsRead
<1>12. Reading'
  BY <1>1, <1>4, <1>9 DEF Reading
<1>13. ReadExact'
  BY <1>9 DEF ReadExact
<1>14. WriteExact'
  <2>1. \A l : Landed(l)' <=> Landed(l)
    BY <1>1 DEF Landed, Held, store, history
  <2>2. call.rc # 0 /\ pc' \in {"flushing", "ready"}
    BY <1>1, <1>4 DEF Cut
  <2> QED
    BY <1>1, <1>9, <2>1, <2>2 DEF WriteExact, history
<1> QED
  BY <1>8, <1>10, <1>11, <1>12, <1>13, <1>14

LEMMA NeverReadyInd ==
    ASSUME IndInv, NeverReady
    PROVE  IndInv'
<1>1. pc \in {"ready", "flushing"} /\ Exits(-1) /\ UNCHANGED <<dr, store, history>>
  BY DEF NeverReady
<1>2. dr.cmd # "read"
  BY <1>1 DEF IndInv, Reading
<1>3. -1 \in Codes /\ -1 \notin {-2, -3, -4} /\ -1 # 0
  BY DEF Codes
<1> QED
  BY <1>1, <1>2, <1>3, ExitsInd

LEMMA SettleInd ==
    ASSUME IndInv, Settle
    PROVE  IndInv'
<1>1. pc = "settle" /\ Exits(call.rc) /\ UNCHANGED <<dr, store, history>>
  BY DEF Settle
<1>2. dr.cmd # "read"
  BY <1>1 DEF IndInv, Reading
<1>3. call.rc \in Codes /\ call.rc # 0
  BY <1>1 DEF IndInv, Types, TypeOK, Cut
<1>4. call.rc = -4 => call.lba + call.count > Last + 1
  BY DEF IndInv, Cut
<1> QED
  BY <1>1, <1>2, <1>3, <1>4, ExitsInd

\* A read that fails goes on to the recovery.
LEMMA RecoversInd ==
    ASSUME IndInv, pc = "data", IsRead, NEW cause \in {-2, -3}, Recovers(cause),
           UNCHANGED <<raw, hold, parked, dr, store, history>>
    PROVE  IndInv'
<1> USE DEF IndInv
<1>1. pc' = "recover" /\ call' = [call EXCEPT !.rc = cause]
  BY DEF Recovers
<1>2. call \in CallType /\ raw \in RawType /\ version \in Nat /\ hold \in 0 .. 1 /\ hold = 1 /\ parked \in BOOLEAN
  BY DEF Types, TypeOK, Held1
<1>3. call' \in CallType
  BY <1>1, <1>2 DEF CallType, Codes
<1>4. /\ call'.op = call.op /\ call'.lba = call.lba /\ call'.count = call.count
      /\ call'.got = call.got /\ call'.rc = cause /\ call'.odd = call.odd
  BY <1>1, <1>2 DEF CallType
<1>5. Types' /\ DriveSound' /\ Placed'
  <2>1. mixed' = mixed /\ version' \in Nat /\ version' >= version /\ raw' \in RawType
        /\ parked' \in BOOLEAN /\ hold' \in 0 .. 1
    BY <1>2 DEF history
  <2> QED
    BY <1>1, <1>3, <2>1, CallFrame DEF Pcs
<1>6. /\ Moved' = Moved /\ At' = At /\ Rest' = Rest /\ IsRead' /\ Direct' = Direct /\ Off' = Off
  BY <1>4 DEF Moved, At, Rest, IsRead, Direct, Off
<1>7. Piece' = Piece
  BY <1>6 DEF Piece
<1>8. Places' /\ Held1'
  BY <1>1, <1>2, <1>6 DEF Places, Held1
<1>9. Cut'
  BY <1>1, <1>4, <1>6, <1>7 DEF Cut, InCommand, IsRead
<1>10. Reading'
  BY <1>1, <1>4, <1>6 DEF Reading, history
<1>11. ReadExact'
  BY <1>1, <1>4, <1>6 DEF ReadExact, Issued, ExactFrom, Held, store, history
<1>12. WriteExact'
  BY <1>4 DEF WriteExact, IsRead
<1> QED
  BY <1>5, <1>8, <1>9, <1>10, <1>11, <1>12

LEMMA DataFailsInd ==
    ASSUME IndInv, DataFails
    PROVE  IndInv'
<1> DEFINE rc == IF Err THEN -3 ELSE -2
<1>1. pc = "data" /\ UNCHANGED <<dr, store, history>> /\ rc \in {-2, -3}
  BY DEF DataFails
<1>2. CASE IsRead
  <2>1. Recovers(rc) /\ UNCHANGED <<raw, hold, parked>>
    BY <1>2 DEF DataFails
  <2> HIDE DEF rc
  <2> QED
    BY <1>1, <1>2, <2>1, RecoversInd
<1>3. CASE ~IsRead
  <2>1. Exits(rc)
    BY <1>3 DEF DataFails
  <2>2. dr.cmd # "read"
    BY <1>3 DEF IndInv, Reading
  <2> HIDE DEF rc
  <2>3. rc \in Codes /\ rc # 0 /\ rc # -4
    BY <1>1 DEF Codes
  <2> QED
    BY <1>1, <1>3, <2>1, <2>2, <2>3, ExitsInd
<1> QED
  BY <1>2, <1>3

LEMMA LatchErrorInd ==
    ASSUME IndInv, LatchError
    PROVE  IndInv'
<1> USE DEF IndInv
<1>1. /\ pc = "recover" /\ pc' = "drain" /\ UNCHANGED <<raw, hold, parked, dr, store, history>>
      /\ call' = IF dr.err = "idnf" THEN [call EXCEPT !.rc = -4] ELSE call
  BY DEF LatchError
<1>2. call \in CallType /\ raw \in RawType /\ version \in Nat /\ hold = 1 /\ parked \in BOOLEAN /\ IsRead
  BY <1>1 DEF Types, TypeOK, Held1, Places
<1>3. /\ call'.op = call.op /\ call'.lba = call.lba /\ call'.count = call.count
      /\ call'.got = call.got /\ call'.odd = call.odd
      /\ call'.rc = IF dr.err = "idnf" THEN -4 ELSE call.rc
  BY <1>1, <1>2 DEF CallType
<1>4. call' \in CallType
  BY <1>1, <1>2 DEF CallType, Codes
<1>5. Types' /\ DriveSound' /\ Placed'
  <2>1. mixed' = mixed /\ version' \in Nat /\ version' >= version /\ raw' \in RawType
        /\ parked' \in BOOLEAN /\ hold' \in 0 .. 1
    BY <1>1, <1>2 DEF history
  <2> QED
    BY <1>1, <1>4, <2>1, CallFrame DEF Pcs
<1>6. /\ Moved' = Moved /\ At' = At /\ Rest' = Rest /\ IsRead' /\ Direct' = Direct /\ Off' = Off
  BY <1>2, <1>3 DEF Moved, At, Rest, IsRead, Direct, Off
<1>7. Piece' = Piece
  BY <1>6 DEF Piece
<1>8. Places' /\ Held1'
  BY <1>1, <1>2, <1>6 DEF Places, Held1
<1>9. Cut'
  <2>1. dr.err = "idnf" => call.lba + call.count > Last + 1
    BY <1>1, <1>2 DEF Reading
  <2>2. call'.rc # 0
    BY <1>1, <1>3 DEF Cut
  <2> QED
    BY <1>1, <1>2, <1>3, <1>6, <1>7, <2>1, <2>2 DEF Cut, InCommand, IsRead
<1>10. Reading'
  BY <1>1, <1>2, <1>3, <1>6 DEF Reading, history
<1>11. ReadExact'
  BY <1>1, <1>2, <1>3, <1>6 DEF ReadExact, Issued, ExactFrom, Held, store, history
<1>12. WriteExact'
  BY <1>2, <1>3 DEF WriteExact, IsRead
<1> QED
  BY <1>5, <1>8, <1>9, <1>10, <1>11, <1>12

\* A write's command is over when the drive is out of it: all of it landed.
LEMMA CommitInd ==
    ASSUME IndInv, Commit
    PROVE  IndInv'
<1> USE DEF IndInv
<1>1. pc = "commit" /\ call.op = "write" /\ ~IsRead /\ UNCHANGED <<dr, store, history>>
      /\ dr.cmd # "read"
  BY DEF Commit, Places, IsRead, Reading
<1>2. /\ call \in CallType /\ raw \in RawType /\ version \in Nat /\ hold = 1 /\ parked \in BOOLEAN
      /\ Rest > 0 /\ raw.at = At /\ raw.n \in 1 .. Rest /\ Len(raw.blk) = raw.n /\ call.rc # 0
      /\ dr \in DriveType
  BY <1>1 DEF Types, TypeOK, Held1, Cut
<1>3. CASE Ready /\ ~Err
  <2>1. /\ call' = [call EXCEPT !.got = @ \o raw.blk] /\ raw' = NoRaw /\ pc' = "split"
        /\ UNCHANGED <<hold, parked>>
    BY <1>3 DEF Commit
  <2>2. call.got \o raw.blk \in Seq(Sectors) /\ Len(call.got \o raw.blk) = Moved + raw.n
    BY <1>2 DEF CallType, RawType, Moved
  <2>3. /\ call'.op = call.op /\ call'.lba = call.lba /\ call'.count = call.count
        /\ call'.got = call.got \o raw.blk /\ call'.rc = call.rc
    BY <1>2, <2>1 DEF CallType
  <2>4. call' \in CallType
    BY <1>2, <2>1, <2>2 DEF CallType
  <2>5. Types' /\ DriveSound' /\ Placed'
    <3>1. raw' \in RawType
      <4>1. <<>> \in Seq(Sectors)
        OBVIOUS
      <4> QED
        BY <2>1, <4>1 DEF NoRaw, RawType
    <3>2. mixed' = mixed /\ version' \in Nat /\ version' >= version /\ parked' \in BOOLEAN /\ hold' \in 0 .. 1
      BY <1>1, <1>2, <2>1 DEF history
    <3> QED
      BY <1>1, <2>1, <2>4, <3>1, <3>2, CallFrame DEF Pcs
  <2>6. Moved' = Moved + raw.n /\ Moved \in Nat /\ raw.n \in Nat \ {0} /\ Moved' <= call.count
    BY <1>2, <2>2, <2>3 DEF Moved, Rest, CallType
  <2>7. ~IsRead'
    BY <1>1, <2>3 DEF IsRead
  <2>8. Places' /\ Held1'
    BY <1>1, <1>2, <2>1, <2>3, <2>7 DEF Places, Held1
  <2>9. Cut'
    BY <1>2, <2>1, <2>3, <2>6, <2>7 DEF Cut, InCommand
  <2>10. Reading' /\ ReadExact'
    BY <1>1, <2>1, <2>7 DEF Reading, ReadExact
  <2>11. WriteExact'
    <3> SUFFICES ASSUME ~mixed
                 PROVE  WriteExact'
      BY <1>1 DEF WriteExact, history
    <3>1. Writing
      BY <1>1 DEF WriteExact
    <3>2. ~dr.busy /\ dr.err = "none"
      BY <1>3 DEF Ready, Err
    <3>3. dr.cmd # "write"
      <4> SUFFICES ASSUME dr.cmd = "write"
                   PROVE  FALSE
        OBVIOUS
      <4>1. dr.in = NotCached /\ dr.left > 0
        BY <3>2 DEF DriveSound
      <4>2. Len(raw.blk) = dr.at - raw.at /\ dr.at + dr.left = raw.at + raw.n
        BY <3>1, <4>1 DEF Writing
      <4>3. dr.at \in Nat /\ dr.left \in Nat /\ raw.at \in Nat /\ raw.n \in Nat
        BY <1>2 DEF DriveType, RawType
      <4> QED
        BY <1>2, <4>1, <4>2, <4>3
    <3>4. dr.cmd = "none"
      BY <3>1, <3>3 DEF Writing
    <3>5. \A l \in raw.at .. raw.at + raw.n - 1 : Landed(l)
      BY <3>1, <3>2, <3>4 DEF Writing
    <3>6. \A l \in call.lba .. At - 1 : Landed(l)
      BY <1>1 DEF WriteExact
    <3>7. At' = At + raw.n /\ At \in Nat /\ call.lba \in Nat
      BY <1>2, <2>3, <2>6 DEF At, CallType
    <3>8. \A l \in call.lba .. At' - 1 : Landed(l)
      <4> TAKE l \in call.lba .. At' - 1
      <4>1. l \in call.lba .. At - 1 \/ l \in raw.at .. raw.at + raw.n - 1
        BY <1>2, <2>6, <3>7
      <4> QED
        BY <3>5, <3>6, <4>1
    <3>9. \A l : Landed(l)' <=> Landed(l)
      BY <1>1 DEF Landed, Held, store, history
    <3> QED
      BY <1>1, <1>2, <2>1, <2>3, <3>4, <3>8, <3>9 DEF WriteExact
  <2> QED
    BY <2>5, <2>8, <2>9, <2>10, <2>11
<1>4. CASE ~(Ready /\ ~Err)
  <2> DEFINE rc == IF Err THEN -3 ELSE -2
  <2>1. Exits(rc)
    BY <1>4 DEF Commit
  <2>2. rc \in Codes /\ rc # 0 /\ rc # -4
    BY DEF Codes
  <2> HIDE DEF rc
  <2> QED
    BY <1>1, <2>1, <2>2, ExitsInd
<1> QED
  BY <1>3, <1>4

LEMMA FlushEndsInd ==
    ASSUME IndInv, FlushEnds
    PROVE  IndInv'
<1> DEFINE rc == IF Err THEN -3 ELSE IF Ready THEN 0 ELSE -2
<1>1. pc = "flush" /\ Exits(rc) /\ UNCHANGED <<dr, store, history>>
  BY DEF FlushEnds
<1>2. ~IsRead /\ dr.cmd # "read"
  BY <1>1 DEF IndInv, Places, IsRead, Reading
<1>3. rc \in Codes /\ rc # -4 /\ (rc = 0 => ~dr.busy /\ dr.err = "none")
  BY DEF Codes, Err, Ready
<1> HIDE DEF rc
<1> QED
  BY <1>1, <1>2, <1>3, ExitsInd

LEMMA StandbyEndsInd ==
    ASSUME IndInv, StandbyEnds
    PROVE  IndInv'
<1> USE DEF IndInv
<1>1. /\ pc = "standby" /\ pc' = "idle" /\ UNCHANGED <<raw, dr, store, history>>
      /\ call' = [call EXCEPT !.rc = IF Ready THEN 0 ELSE -1]
      /\ hold' = hold - 1 /\ parked' = (parked \/ Ready) /\ call.op = "standby"
  BY DEF StandbyEnds, Places
<1>2. call \in CallType /\ raw \in RawType /\ version \in Nat /\ hold = 1 /\ parked \in BOOLEAN
  BY <1>1 DEF Types, TypeOK, Held1
<1>3. /\ call'.op = "standby" /\ call'.count = call.count /\ call'.got = call.got /\ call'.rc \in {0, -1}
  BY <1>1, <1>2 DEF CallType
<1>4. call' \in CallType
  BY <1>1, <1>2 DEF CallType, Codes
<1>5. Types' /\ DriveSound' /\ Placed'
  <2>1. parked' \in BOOLEAN
    BY <1>1, <1>2
  <2>2. mixed' = mixed /\ version' \in Nat /\ version' >= version /\ raw' \in RawType /\ hold' \in 0 .. 1
    BY <1>1, <1>2 DEF history
  <2> QED
    BY <1>1, <1>4, <2>1, <2>2, CallFrame DEF Pcs
<1>6. ~IsRead' /\ ~IsRead /\ Moved' = Moved
  BY <1>1, <1>3 DEF IsRead, Moved
<1>7. Places' /\ Held1'
  BY <1>1, <1>2 DEF Places, Held1
<1>8. Cut'
  BY <1>1, <1>3, <1>6 DEF Cut, InCommand
<1>9. Reading' /\ ReadExact' /\ WriteExact'
  BY <1>1, <1>3, <1>6 DEF Reading, ReadExact, WriteExact
<1> QED
  BY <1>5, <1>7, <1>8, <1>9

-----------------------------------------------------------------------------
(* The driver's steps that touch the drive.                                 *)

LEMMA PortFrame ==
    ASSUME IndInv, UNCHANGED <<store, version>>, mixed' \in BOOLEAN, dr' \in DriveType,
           pc' \in Pcs, hold' \in 0 .. 1, parked' \in BOOLEAN,
           call' \in CallType, raw' \in RawType
    PROVE  Types'
<1>1. dr' \in DriveType'
  BY DEF DriveType
<1>2. call'.rc \in Codes
  BY DEF CallType
<1> QED
  BY <1>1, <1>2 DEF IndInv, Types, TypeOK, Pcs, store

\* A command written to a drive that is not busy: it is in it, or is still
\* in the write that it waits for data of.
LEMMA CommandedFacts ==
    ASSUME IndInv, dr.cmd # "read", ~dr.busy,
           NEW cmd \in {"read", "write", "flush", "standby"}, NEW at \in Nat, NEW n \in Nat,
           Commanded(cmd, at, n)
    PROVE  /\ dr' \in DriveType /\ mixed' \in BOOLEAN
           /\ \/ /\ dr'.cmd = cmd /\ dr'.at = at /\ dr'.left = n /\ dr'.out = <<>> /\ dr'.busy
                 /\ dr'.err = "none" /\ dr'.in = NotCached
                 /\ dr'.aligned = (at % PhysLog = 0 /\ n % PhysLog = 0)
              \/ dr' = dr /\ dr.cmd = "write"
           /\ ~mixed' => ~mixed /\ dr'.cmd = cmd /\ dr'.busy /\ dr.cmd # "write"
<1>1. dr \in DriveType /\ mixed \in BOOLEAN /\ dr.out = <<>>
  BY DEF IndInv, Types, DriveSound
<1>2. CASE dr' = [NoCommand EXCEPT !.cmd = cmd, !.at = at, !.left = n, !.out = dr.out, !.busy = TRUE,
                                   !.aligned = (at % PhysLog = 0 /\ n % PhysLog = 0)]
  <2> DEFINE g == (at % PhysLog = 0 /\ n % PhysLog = 0)
  <2>1. dr' = [NoCommand EXCEPT !.cmd = cmd, !.at = at, !.left = n, !.out = dr.out, !.busy = TRUE,
                                !.aligned = g]
    BY <1>2
  <2>2. NoCommand \in DriveType /\ NoCommand.err = "none" /\ NoCommand.in = NotCached
    BY NoCommandType DEF NoCommand, IndInv
  <2>3. g \in BOOLEAN
    OBVIOUS
  <2> HIDE DEF g
  <2>4. dr' \in DriveType
    BY <1>1, <2>1, <2>2, <2>3 DEF DriveType
  <2>5. /\ dr'.cmd = cmd /\ dr'.at = at /\ dr'.left = n /\ dr'.out = <<>> /\ dr'.busy
        /\ dr'.err = "none" /\ dr'.in = NotCached /\ dr'.aligned = g
    BY <1>1, <2>1, <2>2 DEF DriveType
  <2>6. mixed' = (mixed \/ dr.cmd = "write")
    BY DEF Commanded
  <2> QED
    BY <1>1, <2>4, <2>5, <2>6 DEF g
<1>3. CASE Wants /\ dr' = dr
  <2>1. mixed' = (mixed \/ dr.cmd = "write") /\ dr.cmd = "write"
    BY <1>3 DEF Commanded, Wants
  <2> QED
    BY <1>1, <1>3, <2>1
<1> QED
  BY <1>2, <1>3 DEF Commanded

LEMMA IssueInd ==
    ASSUME IndInv, Issue
    PROVE  IndInv'
<1> USE DEF IndInv
<1>1. /\ pc \in {"ready", "flushing"} /\ ~dr.busy /\ UNCHANGED <<call, raw, hold, store, version>>
      /\ dr.cmd # "read" /\ hold = 1 /\ hold \in 0 .. 1
      /\ parked' = (parked /\ ~(pc = "ready" /\ IsRead))
  BY DEF Issue, Ready, Reading, Held1, Types, TypeOK
<1>2. call \in CallType /\ raw \in RawType /\ version \in Nat /\ parked \in BOOLEAN /\ call.rc # 0
  BY <1>1 DEF Types, TypeOK, Cut
<1>3. parked' \in BOOLEAN
  BY <1>1, <1>2
<1>4. /\ Moved' = Moved /\ At' = At /\ Rest' = Rest /\ Piece' = Piece /\ (IsRead' <=> IsRead)
      /\ call' = call /\ raw' = raw
  BY <1>1 DEF Moved, At, Rest, IsRead, Piece, Direct, Off
<1>5. \A l : Landed(l)' <=> Landed(l)
  BY <1>1 DEF Landed, Held, store
<1>6. Held1' <=> pc' # "idle" /\ ~(pc' = "split" /\ IsRead)
  BY <1>1, <1>4 DEF Held1
<1>7. ~mixed' /\ ~mixed => Placed' \/ (dr'.cmd = "write" /\ dr'.in # NotCached)
  BY <1>1 DEF Placed, store
<1>8. CASE pc = "flushing"
  <2>1. Commanded("flush", 0, 0) /\ pc' = "flush" /\ call.op = "write"
    BY <1>8 DEF Issue, Places
  <2>2. /\ dr' \in DriveType /\ mixed' \in BOOLEAN
        /\ \/ /\ dr'.cmd = "flush" /\ dr'.out = <<>> /\ dr'.busy /\ dr'.err = "none" /\ dr'.in = NotCached
           \/ dr' = dr /\ dr.cmd = "write"
        /\ ~mixed' => ~mixed /\ dr'.cmd = "flush" /\ dr'.busy /\ dr.cmd # "write"
    BY <1>1, <2>1, CommandedFacts
  <2>3. Types'
    BY <1>1, <1>2, <1>3, <2>1, <2>2, PortFrame DEF Pcs
  <2>4. Places' /\ Held1'
    BY <1>4, <1>6, <2>1 DEF Places, IsRead
  <2>5. Cut'
    BY <1>2, <1>4, <1>8, <2>1 DEF Cut, InCommand, IsRead
  <2>6. DriveSound'
    BY <2>2 DEF DriveSound
  <2>7. Reading' /\ ReadExact'
    BY <1>4, <2>1, <2>2 DEF Reading, ReadExact, IsRead
  <2>8. WriteExact'
    BY <1>1, <1>2, <1>4, <1>5, <1>8, <2>1, <2>2 DEF WriteExact, Flushing
  <2>9. Placed'
    <3> SUFFICES ASSUME ~mixed'
                 PROVE  Placed'
      BY DEF Placed
    <3> QED
      BY <1>1, <1>7, <2>2
  <2> QED
    BY <2>3, <2>4, <2>5, <2>6, <2>7, <2>8, <2>9
<1>9. CASE pc = "ready" /\ call.op = "standby"
  <2>1. Commanded("standby", 0, 0) /\ pc' = "standby"
    BY <1>9 DEF Issue
  <2>2. /\ dr' \in DriveType /\ mixed' \in BOOLEAN
        /\ \/ /\ dr'.cmd = "standby" /\ dr'.out = <<>> /\ dr'.busy /\ dr'.err = "none" /\ dr'.in = NotCached
           \/ dr' = dr /\ dr.cmd = "write"
        /\ ~mixed' => ~mixed /\ dr'.cmd = "standby" /\ dr'.busy /\ dr.cmd # "write"
    BY <1>1, <2>1, CommandedFacts
  <2>3. Types'
    BY <1>1, <1>2, <1>3, <2>1, <2>2, PortFrame DEF Pcs
  <2>4. Places' /\ Held1'
    BY <1>4, <1>6, <1>9, <2>1 DEF Places, IsRead
  <2>5. Cut'
    BY <1>2, <1>4, <1>9, <2>1 DEF Cut, InCommand, IsRead
  <2>6. DriveSound'
    BY <2>2 DEF DriveSound
  <2>7. Reading' /\ ReadExact' /\ WriteExact'
    BY <1>4, <1>9, <2>1, <2>2 DEF Reading, ReadExact, WriteExact, IsRead
  <2>8. Placed'
    <3> SUFFICES ASSUME ~mixed'
                 PROVE  Placed'
      BY DEF Placed
    <3> QED
      BY <1>1, <1>7, <2>2
  <2> QED
    BY <2>3, <2>4, <2>5, <2>6, <2>7, <2>8
<1>10. CASE pc = "ready" /\ call.op # "standby"
  <2> DEFINE cmd == IF IsRead THEN "read" ELSE "write"
  <2>1. Commanded(cmd, raw.at, raw.n) /\ pc' = "data" /\ cmd \in {"read", "write"}
    BY <1>10 DEF Issue
  <2>2. raw.at \in Nat /\ raw.n \in Nat \ {0} /\ raw.blk = <<>> /\ Rest > 0 /\ Moved <= call.count
        /\ (IsRead \/ call.op = "write") /\ (IsRead => raw.at = Piece.at /\ raw.n = Piece.n)
        /\ (call.op = "write" => raw.at = At /\ raw.n \in 1 .. Rest)
    <3>1. (IsRead \/ call.op = "write") /\ raw.blk = <<>> /\ Moved <= call.count
          /\ raw.at \in Nat /\ raw.n \in Nat
      BY <1>2, <1>10 DEF Places, Cut, RawType
    <3>2. IsRead => Rest > 0 /\ raw.at = Piece.at /\ raw.n = Piece.n
      BY <1>10 DEF Cut, InCommand
    <3>3. call.op = "write" => Rest > 0 /\ raw.at = At /\ raw.n \in 1 .. Rest
      BY <1>10 DEF Cut
    <3>4. raw.n # 0
      BY <1>2, <3>1, <3>2, <3>3, PieceFacts
    <3> QED
      BY <3>1, <3>2, <3>3, <3>4
  <2> HIDE DEF cmd
  <2>3. /\ dr' \in DriveType /\ mixed' \in BOOLEAN
        /\ \/ /\ dr'.cmd = cmd /\ dr'.at = raw.at /\ dr'.left = raw.n /\ dr'.out = <<>> /\ dr'.busy
              /\ dr'.err = "none" /\ dr'.in = NotCached
              /\ dr'.aligned = (raw.at % PhysLog = 0 /\ raw.n % PhysLog = 0)
           \/ dr' = dr /\ dr.cmd = "write"
        /\ ~mixed' => ~mixed /\ dr'.cmd = cmd /\ dr'.busy /\ dr.cmd # "write"
    BY <1>1, <2>1, <2>2, CommandedFacts
  <2>31. /\ IsRead => cmd = "read" /\ raw.at % PhysLog = 0 /\ raw.n % PhysLog = 0
         /\ ~IsRead => cmd = "write"
    BY <1>2, <2>2, PieceFacts DEF cmd
  <2>4. Types'
    BY <1>1, <1>2, <1>3, <2>1, <2>3, PortFrame DEF Pcs
  <2>5. Places' /\ Held1'
    BY <1>4, <1>6, <2>1, <2>2 DEF Places, IsRead
  <2>6. Cut'
    BY <1>2, <1>4, <2>1, <2>2 DEF Cut, InCommand, IsRead
  <2>7. DriveSound'
    <3>1. CASE dr' = dr
      BY <3>1 DEF DriveSound
    <3>2. CASE /\ dr'.cmd = cmd /\ dr'.left = raw.n /\ dr'.out = <<>> /\ dr'.busy
               /\ dr'.err = "none" /\ dr'.in = NotCached
               /\ dr'.aligned = (raw.at % PhysLog = 0 /\ raw.n % PhysLog = 0)
      <4>1. cmd = "read" => dr'.aligned
        BY <2>31, <3>2
      <4>2. cmd \in {"read", "write"} /\ raw.n > 0
        BY <2>1, <2>2
      <4> QED
        BY <3>2, <4>1, <4>2 DEF DriveSound
    <3> QED
      BY <2>3, <3>1, <3>2
  <2>8. Reading'
    <3>1. dr' = dr /\ dr.cmd = "write" => mixed' /\ ~dr'.busy
      BY <1>1, <2>3
    <3>2. Len(raw.blk) = 0 /\ raw.at = raw.at + 0 + 0
      BY <2>2
    <3>3. dr'.cmd = "read" => /\ dr'.at = raw.at /\ dr'.left = raw.n /\ dr'.out = <<>> /\ dr'.err = "none"
                              /\ IsRead
      BY <1>1, <2>3, <2>31
    <3>4. dr'.err # "idnf"
      BY <2>3 DEF DriveSound
    <3> QED
      BY <1>4, <2>1, <2>3, <2>31, <3>1, <3>2, <3>3, <3>4 DEF Reading
  <2>9. ReadExact'
    <3> SUFFICES ASSUME ~mixed', IsRead
                 PROVE  ReadExact'
      BY <1>4 DEF ReadExact
    <3>1. ~mixed /\ dr'.cmd = "read" /\ dr'.out = <<>>
      BY <1>1, <2>3, <2>31
    <3>2. ExactFrom(call.got, call.lba)
      BY <3>1 DEF ReadExact
    <3>3. ExactFrom(<<>>, raw.at) /\ ExactFrom(<<>>, raw.at + Len(raw.blk))
      BY DEF ExactFrom
    <3> QED
      BY <1>1, <1>4, <2>2, <3>1, <3>2, <3>3 DEF ReadExact, ExactFrom, Held, store
  <2>10. WriteExact'
    <3> SUFFICES ASSUME ~mixed', call.op = "write"
                 PROVE  WriteExact'
      BY <1>4 DEF WriteExact
    <3>1. ~mixed /\ dr'.cmd = "write" /\ dr'.at = raw.at /\ dr'.left = raw.n /\ dr'.in = NotCached
      BY <2>3, <2>31 DEF IsRead
    <3>2. Writing'
      BY <1>4, <2>2, <3>1 DEF Writing
    <3> QED
      BY <1>1, <1>2, <1>4, <1>5, <2>1, <3>1, <3>2 DEF WriteExact
  <2>11. Placed'
    <3> SUFFICES ASSUME ~mixed'
                 PROVE  Placed'
      BY DEF Placed
    <3> QED
      BY <1>1, <1>7, <2>3
  <2> QED
    BY <2>4, <2>5, <2>6, <2>7, <2>8, <2>9, <2>10, <2>11
<1> QED
  BY <1>1, <1>8, <1>9, <1>10

\* A block is fetched: the command ends with its last one.
LEMMA FetchedFacts ==
    ASSUME Types, DriveSound, ~dr.busy, dr.out # <<>>
    PROVE  /\ dr.cmd = "read" /\ Fetched \in DriveType
           /\ Fetched.out = Tail(dr.out) /\ Fetched.at = dr.at /\ Fetched.left = dr.left
           /\ Fetched.err = dr.err /\ Fetched.in = dr.in /\ Fetched.aligned
           /\ Fetched.cmd = IF Tail(dr.out) = <<>> /\ dr.left = 0 THEN "none" ELSE "read"
           /\ Fetched.busy => dr.left > 0 /\ Fetched.cmd = "read"
<1>1. dr \in DriveType /\ dr.cmd = "read" /\ dr.aligned /\ dr.left \in Nat
  BY DEF Types, DriveSound, DriveType
<1>2. Tail(dr.out) \in Seq(Sectors)
  BY <1>1 DEF DriveType
<1> DEFINE b == (Tail(dr.out) = <<>> /\ dr.left > 0)
           c == IF Tail(dr.out) = <<>> /\ ~(dr.left > 0) THEN "none" ELSE dr.cmd
<1>3. Fetched = [dr EXCEPT !.out = Tail(dr.out), !.busy = b, !.cmd = c]
  BY DEF Fetched
<1>4. /\ b \in BOOLEAN /\ (b => dr.left > 0 /\ c = "read")
      /\ c = IF Tail(dr.out) = <<>> /\ dr.left = 0 THEN "none" ELSE "read"
      /\ c \in {"none", "read"}
  BY <1>1
<1> HIDE DEF b, c
<1>5. Fetched \in DriveType
  BY <1>1, <1>2, <1>3, <1>4 DEF DriveType
<1>6. /\ Fetched.out = Tail(dr.out) /\ Fetched.at = dr.at /\ Fetched.left = dr.left
      /\ Fetched.err = dr.err /\ Fetched.in = dr.in /\ Fetched.aligned = dr.aligned
      /\ Fetched.cmd = c /\ Fetched.busy = b
  BY <1>1, <1>3 DEF DriveType
<1> QED
  BY <1>1, <1>4, <1>5, <1>6

LEMMA FetchedSound ==
    ASSUME Types, DriveSound, ~dr.busy, dr.out # <<>>, dr' = Fetched
    PROVE  DriveSound'
<1>1. /\ dr'.out = Tail(dr.out) /\ dr'.aligned /\ dr'.left = dr.left
      /\ dr'.cmd = IF Tail(dr.out) = <<>> /\ dr.left = 0 THEN "none" ELSE "read"
      /\ dr'.busy => dr.left > 0 /\ dr'.cmd = "read"
  BY FetchedFacts
<1> QED
  BY <1>1 DEF DriveSound

LEMMA DrainInd ==
    ASSUME IndInv, Drain
    PROVE  IndInv'
<1> USE DEF IndInv
<1>1. pc = "drain" /\ ~dr.busy /\ dr.out # <<>> /\ dr' = Fetched /\ UNCHANGED <<driver, store, history>>
  BY DEF Drain, Drq
<1>2. /\ dr.cmd = "read" /\ dr' \in DriveType /\ dr'.cmd \in {"read", "none"}
      /\ dr'.at = dr.at /\ dr'.left = dr.left /\ dr'.err = dr.err
  BY <1>1, FetchedFacts
<1>3. Types' /\ Places' /\ Held1' /\ Cut'
  BY <1>1, <1>2, DriveFrame DEF Types, TypeOK, store
<1>4. DriveSound'
  BY <1>1, FetchedSound
<1>5. IsRead /\ IsRead' /\ pc' = pc /\ call' = call /\ raw' = raw
  BY <1>1, <1>2 DEF Reading, driver, IsRead
<1>6. Reading'
  BY <1>1, <1>2, <1>5 DEF Reading
<1>7. ReadExact'
  BY <1>1, <1>2, <1>5 DEF ReadExact, Issued, ExactFrom, Held, store, history, Moved
<1>8. WriteExact'
  BY <1>5 DEF WriteExact, IsRead
<1>9. Placed'
  BY <1>1, <1>2 DEF Placed, store, history
<1> QED
  BY <1>3, <1>4, <1>6, <1>7, <1>8, <1>9

LEMMA ResetInd ==
    ASSUME IndInv, Reset
    PROVE  IndInv'
<1> USE DEF IndInv
<1>1. /\ pc = "drain" /\ pc' = "settle" /\ UNCHANGED <<call, raw, hold, parked, store, history>>
      /\ dr' = [NoCommand EXCEPT !.cmd = "reset", !.busy = TRUE] /\ IsRead
  BY DEF Reset, Places
<1>2. dr'.cmd = "reset" /\ dr'.busy /\ dr'.out = <<>> /\ dr'.in = NotCached
  BY <1>1 DEF NoCommand
<1>3. dr' \in DriveType
  <2>1. NoCommand \in DriveType
    BY NoCommandType
  <2> QED
    BY <1>1, <2>1 DEF DriveType
<1>4. call \in CallType /\ raw \in RawType /\ hold \in 0 .. 1 /\ hold = 1 /\ parked \in BOOLEAN /\ mixed \in BOOLEAN
  BY <1>1 DEF Types, TypeOK, Held1
<1>5. Types'
  BY <1>1, <1>3, <1>4, PortFrame DEF Pcs, history
<1>6. IsRead' /\ Moved' = Moved /\ At' = At /\ Rest' = Rest /\ Piece' = Piece
  BY <1>1 DEF Moved, At, Rest, IsRead, Piece, Direct, Off
<1>7. Places' /\ Held1'
  BY <1>1, <1>4, <1>6 DEF Places, Held1
<1>8. Cut'
  BY <1>1, <1>6 DEF Cut, InCommand, IsRead
<1>9. DriveSound'
  BY <1>2 DEF DriveSound
<1>10. Reading'
  BY <1>1, <1>2 DEF Reading
<1>11. ReadExact'
  BY <1>1, <1>2, <1>6 DEF ReadExact, Issued, ExactFrom, Held, store, history
<1>12. WriteExact'
  BY <1>6 DEF WriteExact, IsRead
<1>13. Placed'
  BY <1>1, <1>2 DEF Placed, store, history
<1> QED
  BY <1>5, <1>7, <1>8, <1>9, <1>10, <1>11, <1>12, <1>13

LEMMA WriteBlockInd ==
    ASSUME IndInv, WriteBlock
    PROVE  IndInv'
<1> USE DEF IndInv
<1> DEFINE block == Sector(raw.at + Len(raw.blk), version)
<1>1. /\ pc = "data" /\ call.op = "write" /\ ~IsRead /\ ~dr.busy
      /\ dr' = IF Wants THEN Put(block) ELSE Fetched
      /\ raw' = [raw EXCEPT !.blk = Append(@, block)]
      /\ pc' = IF Len(raw.blk) + 1 = raw.n THEN "commit" ELSE "data"
      /\ UNCHANGED <<call, hold, parked, store, history>>
      /\ (dr.out # <<>> \/ Wants)
  BY DEF WriteBlock, Drq, IsRead
<1>2. dr.cmd # "read" /\ dr.out = <<>> /\ Wants
  BY <1>1 DEF Reading, DriveSound
<1>3. /\ call \in CallType /\ raw \in RawType /\ hold \in 0 .. 1 /\ hold = 1 /\ parked \in BOOLEAN
      /\ mixed \in BOOLEAN /\ version \in Nat /\ dr \in DriveType
      /\ Rest > 0 /\ raw.at = At /\ raw.n \in 1 .. Rest /\ Len(raw.blk) < raw.n /\ call.rc # 0
  BY <1>1 DEF Types, TypeOK, Held1, Cut
<1>4. /\ dr.cmd = "write" /\ dr.at \in Lbas /\ dr.in = NotCached /\ dr.err = "none" /\ dr.left > 0
  BY <1>1, <1>2 DEF Wants, DriveSound
<1>5. /\ block \in Sectors /\ block \in [of : Nat \cup {-1, -2}, version : 0 .. version]
      /\ block.of = raw.at + Len(raw.blk) /\ block # NotCached
  <2>1. raw.at + Len(raw.blk) \in Nat
    BY <1>3 DEF RawType
  <2> QED
    BY <1>3, <2>1 DEF Sector, Sectors, NotCached
<1>6. block = Sector(raw.at + Len(raw.blk), version)
  OBVIOUS
<1> HIDE DEF block
<1>7. dr' = [dr EXCEPT !.in = block, !.busy = TRUE]
  BY <1>1, <1>2 DEF Put
<1>8. /\ dr'.cmd = "write" /\ dr'.at = dr.at /\ dr'.left = dr.left /\ dr'.out = <<>>
      /\ dr'.in = block /\ dr'.busy /\ dr'.err = "none"
  BY <1>2, <1>3, <1>4, <1>7 DEF DriveType
<1>9. dr' \in DriveType
  BY <1>3, <1>5, <1>7 DEF DriveType
<1>10. /\ raw' \in RawType /\ raw'.at = raw.at /\ raw'.n = raw.n
       /\ Len(raw'.blk) = Len(raw.blk) + 1 /\ Len(raw.blk) \in Nat
  <2>1. Append(raw.blk, block) \in Seq(Sectors) /\ Len(Append(raw.blk, block)) = Len(raw.blk) + 1
    BY <1>3, <1>5 DEF RawType
  <2> QED
    BY <1>1, <1>3, <2>1 DEF RawType
<1>11. pc' \in {"data", "commit"}
  BY <1>1
<1>12. Types'
  BY <1>1, <1>3, <1>9, <1>10, <1>11, PortFrame DEF Pcs, history
<1>13. ~IsRead' /\ Moved' = Moved /\ At' = At /\ Rest' = Rest /\ call' = call
  BY <1>1 DEF Moved, At, Rest, IsRead
<1>14. Places' /\ Held1'
  BY <1>1, <1>3, <1>11, <1>13 DEF Places, Held1
<1>15. Cut'
  <2>1. pc' = "commit" => Len(raw'.blk) = raw'.n
    BY <1>1, <1>10
  <2>2. pc' = "data" => Len(raw'.blk) < raw'.n
    BY <1>1, <1>3, <1>10 DEF RawType
  <2> QED
    BY <1>1, <1>3, <1>10, <1>11, <1>13, <2>1, <2>2 DEF Cut, IsRead
<1>16. DriveSound'
  BY <1>4, <1>8 DEF DriveSound
<1>17. Reading' /\ ReadExact'
  BY <1>8, <1>11, <1>13 DEF Reading, ReadExact
<1>18. ~mixed => block = Sector(dr.at, version) /\ Writing'
  <2> SUFFICES ASSUME ~mixed
               PROVE  block = Sector(dr.at, version) /\ Writing'
    OBVIOUS
  <2>1. Writing
    BY <1>1 DEF WriteExact
  <2>2. Len(raw.blk) = dr.at - raw.at /\ dr.at >= raw.at /\ dr.at + dr.left = raw.at + raw.n
    BY <1>4, <2>1 DEF Writing
  <2>3. raw.at \in Nat /\ dr.at \in Nat
    BY <1>3 DEF RawType, DriveType
  <2>4. raw.at + Len(raw.blk) = dr.at /\ Len(raw'.blk) = (dr.at - raw.at) + 1
    BY <1>10, <2>2, <2>3
  <2>5. \A l \in raw.at .. dr.at - 1 : Landed(l)'
    BY <1>1, <1>4, <2>1 DEF Writing, Landed, Held, store, history
  <2>6. block = Sector(dr.at, version)
    BY <1>6, <2>4
  <2>7. Writing'
    BY <1>1, <1>5, <1>8, <1>10, <2>2, <2>4, <2>5, <2>6 DEF Writing, history
  <2> QED
    BY <2>6, <2>7
<1>19. WriteExact'
  <2> SUFFICES ASSUME ~mixed
               PROVE  WriteExact'
    BY <1>1 DEF WriteExact, history
  <2>1. \A l : Landed(l)' <=> Landed(l)
    BY <1>1 DEF Landed, Held, store, history
  <2> QED
    BY <1>1, <1>3, <1>11, <1>13, <1>18, <2>1 DEF WriteExact
<1>20. Placed'
  <2> SUFFICES ASSUME ~mixed
               PROVE  Placed'
    BY <1>1 DEF Placed, history
  <2>1. block.of = dr.at
    BY <1>18 DEF Sector
  <2> QED
    BY <1>1, <1>8, <2>1 DEF Placed, store
<1> QED
  BY <1>12, <1>14, <1>15, <1>16, <1>17, <1>19, <1>20

LEMMA TailFacts ==
    ASSUME NEW s \in Seq(Sectors), s # <<>>
    PROVE  /\ Len(s) \in Nat \ {0} /\ Len(Tail(s)) = Len(s) - 1
           /\ Len(s) = 1 => Tail(s) = <<>>
<1>1. Tail(s) \in Seq(Sectors) /\ Len(Tail(s)) = Len(s) - 1 /\ Len(s) \in Nat \ {0}
  OBVIOUS
<1> QED
  BY <1>1, EmptySeq

\* The block taken from the port is the next one of the command, if there is
\* no error; the last one ends the command.
LEMMA ReadBlockInd ==
    ASSUME IndInv, ReadBlock
    PROVE  IndInv'
<1> USE DEF IndInv
<1> DEFINE v == IF dr.out = <<>> THEN Junk ELSE Head(dr.out)
           blk == Append(raw.blk, v)
<1>1. /\ pc = "data" /\ IsRead /\ ~dr.busy /\ UNCHANGED <<parked, store, history>>
      /\ dr' = (IF dr.out = <<>> THEN dr ELSE Fetched)
      /\ (dr.out # <<>> \/ Wants)
  BY DEF ReadBlock, Drq
<1>2. IF dr.err # "none" THEN Recovers(-3) /\ UNCHANGED <<raw, hold>>
      ELSE IF Len(blk) < raw.n THEN raw' = [raw EXCEPT !.blk = blk] /\ UNCHANGED <<pc, call, hold>>
      ELSE /\ call' = [call EXCEPT !.got = @ \o Kept(blk)] /\ raw' = NoRaw
           /\ hold' = hold - 1 /\ pc' = "split"
  BY DEF ReadBlock
<1>3. /\ call \in CallType /\ raw \in RawType /\ hold \in 0 .. 1 /\ hold = 1 /\ parked \in BOOLEAN
      /\ mixed \in BOOLEAN /\ version \in Nat /\ dr \in DriveType
      /\ Rest > 0 /\ Moved <= call.count /\ raw.at = Piece.at /\ raw.n = Piece.n
      /\ Len(raw.blk) < raw.n /\ call.rc # 0
  BY <1>1 DEF Types, TypeOK, Held1, Cut, InCommand
<1>4. dr.out = <<>> => dr.cmd = "write" /\ mixed /\ dr' = dr
  BY <1>1 DEF Wants, Reading
<1>5. dr.out # <<>> =>
        /\ dr.cmd = "read" /\ dr' \in DriveType
        /\ dr'.out = Tail(dr.out) /\ dr'.at = dr.at /\ dr'.left = dr.left
        /\ dr'.err = dr.err /\ dr'.in = dr.in /\ dr'.aligned
        /\ dr'.cmd = IF Tail(dr.out) = <<>> /\ dr.left = 0 THEN "none" ELSE "read"
        /\ dr'.busy => dr.left > 0 /\ dr'.cmd = "read"
  BY <1>1, FetchedFacts
<1>6. v \in Sectors /\ blk \in Seq(Sectors) /\ Len(blk) = Len(raw.blk) + 1 /\ Len(raw.blk) \in Nat
  <2>1. v \in Sectors
    BY <1>3, JunkType DEF DriveType
  <2> HIDE DEF v
  <2> QED
    BY <1>3, <2>1 DEF RawType
<1>7. dr.out # <<>> => v = Head(dr.out)
  OBVIOUS
<1>8. blk = Append(raw.blk, v)
  OBVIOUS
<1> HIDE DEF v, blk
<1>9. dr' \in DriveType /\ mixed' = mixed /\ mixed' \in BOOLEAN
  BY <1>1, <1>3, <1>4, <1>5 DEF history
<1>10. DriveSound'
  <2>1. CASE dr.out = <<>>
    BY <1>4, <2>1 DEF DriveSound
  <2>2. CASE dr.out # <<>>
    BY <1>1, <2>2, FetchedSound
  <2> QED
    BY <2>1, <2>2
<1>11. Placed'
  <2>1. CASE dr.out = <<>>
    BY <1>1, <1>4, <2>1 DEF Placed, store, history
  <2>2. CASE dr.out # <<>>
    BY <1>1, <1>5, <2>2 DEF Placed, store, history
  <2> QED
    BY <2>1, <2>2
<1>12. /\ dr'.cmd \in {"read", "none"} \/ (dr'.cmd = "write" /\ mixed' /\ ~dr'.busy)
       /\ dr'.cmd = "read" => dr'.at + dr'.left = raw.at + raw.n /\ dr.cmd = "read"
       /\ dr'.err = "idnf" => call.lba + call.count > Last + 1
  <2>1. CASE dr.out = <<>>
    BY <1>1, <1>4, <1>9, <2>1 DEF Reading
  <2>2. CASE dr.out # <<>>
    BY <1>1, <1>5, <1>9, <2>2 DEF Reading
  <2> QED
    BY <2>1, <2>2
<1>13. ~mixed => /\ dr.cmd = "read" /\ dr'.cmd # "write" /\ dr.out # <<>>
                 /\ ExactFrom(call.got, call.lba) /\ ExactFrom(raw.blk, raw.at)
                 /\ dr.err = "none" => ExactFrom(dr.out, raw.at + Len(raw.blk))
  BY <1>1, <1>4, <1>5 DEF ReadExact
<1>15. ~mixed /\ dr.err = "none" =>
         /\ ExactFrom(blk, raw.at)
         /\ ExactFrom(Tail(dr.out), raw.at + Len(raw.blk) + 1)
  <2> SUFFICES ASSUME ~mixed, dr.err = "none"
               PROVE  ExactFrom(blk, raw.at) /\ ExactFrom(Tail(dr.out), raw.at + Len(raw.blk) + 1)
    OBVIOUS
  <2> DEFINE a == raw.at + Len(raw.blk)
  <2>1. a \in Nat /\ raw.at \in Nat /\ raw.blk \in Seq(Sectors) /\ dr.out \in Seq(Sectors)
    BY <1>3, <1>6 DEF RawType, DriveType
  <2>2. ExactFrom(dr.out, a) /\ dr.out # <<>>
    BY <1>13
  <2> HIDE DEF a
  <2>3. a \in Lbas /\ Head(dr.out) = Held(a) /\ ExactFrom(Tail(dr.out), a + 1)
    BY <2>1, <2>2, ExactTail
  <2>4. v = Held(raw.at + Len(raw.blk)) /\ raw.at + Len(raw.blk) \in Lbas
    BY <1>7, <2>2, <2>3 DEF a
  <2>5. ExactFrom(Append(raw.blk, v), raw.at)
    BY <1>6, <1>13, <2>1, <2>4, ExactAppend
  <2> QED
    BY <1>8, <2>3, <2>5 DEF a
<1>16. CASE dr.err # "none"
  <2>1. Recovers(-3) /\ UNCHANGED <<raw, hold>>
    BY <1>2, <1>16
  <2>2. pc' = "recover" /\ call' = [call EXCEPT !.rc = -3] /\ raw' = raw /\ hold' = hold
    BY <2>1 DEF Recovers
  <2>3. call' \in CallType
    BY <1>3, <2>2 DEF CallType, Codes
  <2>4. /\ call'.op = call.op /\ call'.lba = call.lba /\ call'.count = call.count
        /\ call'.got = call.got /\ call'.rc = -3 /\ call'.odd = call.odd
    BY <1>3, <2>2 DEF CallType
  <2>5. Types'
    BY <1>1, <1>3, <1>9, <2>2, <2>3, PortFrame DEF Pcs, history
  <2>6. Moved' = Moved /\ At' = At /\ Rest' = Rest /\ IsRead' /\ Direct' = Direct /\ Off' = Off
    BY <1>1, <2>4 DEF Moved, At, Rest, IsRead, Direct, Off
  <2>7. Piece' = Piece
    BY <2>6 DEF Piece
  <2>8. Places' /\ Held1'
    BY <1>3, <2>2, <2>6 DEF Places, Held1
  <2>9. Cut'
    BY <1>3, <2>2, <2>4, <2>6, <2>7 DEF Cut, InCommand, IsRead
  <2>10. Reading'
    BY <1>12, <2>2, <2>4, <2>6 DEF Reading
  <2>11. ReadExact'
    BY <1>1, <1>9, <1>13, <2>2, <2>4 DEF ReadExact, ExactFrom, Held, store
  <2>12. WriteExact'
    BY <2>6 DEF WriteExact, IsRead
  <2> QED
    BY <1>10, <1>11, <2>5, <2>8, <2>9, <2>10, <2>11, <2>12
<1>17. CASE dr.err = "none" /\ Len(blk) < raw.n
  <2>1. raw' = [raw EXCEPT !.blk = blk] /\ UNCHANGED <<pc, call, hold>>
    BY <1>2, <1>17
  <2>2. raw' \in RawType /\ raw'.at = raw.at /\ raw'.n = raw.n /\ raw'.blk = blk
    BY <1>3, <1>6, <2>1 DEF RawType
  <2>3. Types'
    BY <1>1, <1>3, <1>9, <2>1, <2>2, PortFrame DEF Pcs, history
  <2>4. Moved' = Moved /\ At' = At /\ Rest' = Rest /\ IsRead' /\ Piece' = Piece
    BY <1>1, <2>1 DEF Moved, At, Rest, IsRead, Piece, Direct, Off
  <2>5. Places' /\ Held1'
    BY <1>1, <1>3, <2>1, <2>4 DEF Places, Held1
  <2>6. Cut'
    BY <1>1, <1>3, <1>17, <2>1, <2>2, <2>4 DEF Cut, InCommand, IsRead
  <2>7. dr'.cmd = "read" => dr'.at = raw.at + Len(blk) + Len(dr'.out)
    <3> SUFFICES ASSUME dr'.cmd = "read"
                 PROVE  dr'.at = raw.at + Len(blk) + Len(dr'.out)
      OBVIOUS
    <3>1. dr.cmd = "read" /\ dr.out # <<>> /\ dr'.at = dr.at /\ dr'.out = Tail(dr.out)
      BY <1>4, <1>5, <1>12
    <3>2. dr.at = raw.at + Len(raw.blk) + Len(dr.out)
      BY <1>1, <1>17, <3>1 DEF Reading
    <3>3. Len(Tail(dr.out)) = Len(dr.out) - 1 /\ Len(dr.out) \in Nat /\ raw.at \in Nat
      BY <1>3, <3>1 DEF DriveType, RawType
    <3> QED
      BY <1>6, <3>1, <3>2, <3>3
  <2>8. Reading'
    BY <1>1, <1>12, <2>1, <2>2, <2>4, <2>7 DEF Reading
  <2>9. ReadExact'
    <3> SUFFICES ASSUME ~mixed
                 PROVE  ReadExact'
      BY <1>9 DEF ReadExact
    <3>1. ExactFrom(blk, raw.at) /\ ExactFrom(Tail(dr.out), raw.at + Len(raw.blk) + 1)
      BY <1>15, <1>17
    <3>2. raw.at + Len(raw.blk) + 1 = raw.at + Len(blk)
      <4>1. raw.at \in Nat
        BY <1>3 DEF RawType
      <4> QED
        BY <1>6, <4>1
    <3>3. ExactFrom(dr'.out, raw.at + Len(blk))
      BY <1>5, <1>13, <3>1, <3>2
    <3> QED
      BY <1>1, <1>13, <2>1, <2>2, <3>1, <3>3 DEF ReadExact, ExactFrom, Held, store
  <2>10. WriteExact'
    BY <2>4 DEF WriteExact, IsRead
  <2> QED
    BY <1>10, <1>11, <2>3, <2>5, <2>6, <2>8, <2>9, <2>10
<1>18. CASE dr.err = "none" /\ ~(Len(blk) < raw.n)
  <2>1. /\ call' = [call EXCEPT !.got = @ \o Kept(blk)] /\ raw' = NoRaw
        /\ hold' = hold - 1 /\ pc' = "split"
    BY <1>2, <1>18
  <2>2. Len(blk) = raw.n
    BY <1>3, <1>6, <1>18 DEF RawType
  <2>3. /\ Kept(blk) \in Seq(Sectors) /\ Len(Kept(blk)) \in 1 .. Rest
        /\ ExactFrom(blk, raw.at) => ExactFrom(Kept(blk), At)
    BY <1>3, <1>6, <2>2, KeptFacts
  <2>4. /\ call.got \o Kept(blk) \in Seq(Sectors)
        /\ Len(call.got \o Kept(blk)) = Moved + Len(Kept(blk))
    BY <1>3, <2>3 DEF CallType, Moved
  <2>5. call' \in CallType
    BY <1>3, <2>1, <2>4 DEF CallType
  <2>6. /\ call'.op = call.op /\ call'.lba = call.lba /\ call'.count = call.count
        /\ call'.got = call.got \o Kept(blk) /\ call'.rc = call.rc
    BY <1>3, <2>1 DEF CallType
  <2>7. Types'
    <3>1. raw' \in RawType
      <4>1. <<>> \in Seq(Sectors)
        OBVIOUS
      <4> QED
        BY <2>1, <4>1 DEF NoRaw, RawType
    <3>2. hold' \in 0 .. 1 /\ parked' \in BOOLEAN
      BY <1>1, <1>3, <2>1
    <3> QED
      BY <1>1, <1>3, <1>9, <2>1, <2>5, <3>1, <3>2, PortFrame DEF Pcs, history
  <2>8. IsRead' /\ Moved' \in Nat /\ Moved' > 0 /\ Moved' <= call.count
    BY <1>1, <1>3, <2>3, <2>4, <2>6 DEF IsRead, Moved, Rest, CallType
  <2>9. Places' /\ Held1'
    BY <1>3, <2>1, <2>8 DEF Places, Held1
  <2>10. Cut'
    <3>1. call'.rc # 0
      BY <1>3, <2>6
    <3>2. call'.rc = -4 => call'.lba + call'.count > Last + 1
      BY <2>6 DEF Cut
    <3> QED
      BY <2>1, <2>6, <2>8, <3>1, <3>2 DEF Cut, InCommand, IsRead
  <2>11. dr'.cmd # "read"
    <3> SUFFICES ASSUME dr'.cmd = "read"
                 PROVE  FALSE
      OBVIOUS
    <3>1. dr.cmd = "read" /\ dr.out # <<>> /\ ~(Tail(dr.out) = <<>> /\ dr.left = 0)
      BY <1>4, <1>5, <1>12
    <3>2. dr.at = raw.at + Len(raw.blk) + Len(dr.out) /\ dr.at + dr.left = raw.at + raw.n
      BY <1>1, <1>18, <3>1 DEF Reading
    <3>3. raw.at \in Nat /\ dr.left \in Nat /\ raw.n \in Nat /\ dr.out \in Seq(Sectors)
      BY <1>3 DEF DriveType, RawType
    <3>31. Len(dr.out) \in Nat \ {0} /\ (Len(dr.out) = 1 => Tail(dr.out) = <<>>)
      BY <3>1, <3>3, TailFacts
    <3>4. Len(dr.out) + dr.left = 1
      BY <1>6, <2>2, <3>2, <3>3, <3>31
    <3> QED
      BY <3>1, <3>3, <3>31, <3>4
  <2>12. Reading'
    BY <2>1, <2>11 DEF Reading
  <2>13. ReadExact'
    <3> SUFFICES ASSUME ~mixed
                 PROVE  ReadExact'
      BY <1>9 DEF ReadExact
    <3>1. ExactFrom(Kept(blk), call.lba + Len(call.got)) /\ ExactFrom(call.got, call.lba)
      BY <1>13, <1>15, <1>18, <2>3 DEF At, Moved
    <3>2. ExactFrom(call.got \o Kept(blk), call.lba)
      BY <1>3, <2>3, <3>1, ExactConcat DEF CallType
    <3> QED
      BY <1>1, <1>13, <2>1, <2>6, <3>2 DEF ReadExact, ExactFrom, Held, store
  <2>14. WriteExact'
    BY <2>8 DEF WriteExact, IsRead
  <2> QED
    BY <1>10, <1>11, <2>7, <2>9, <2>10, <2>12, <2>13, <2>14
<1> QED
  BY <1>16, <1>17, <1>18

-----------------------------------------------------------------------------
LEMMA InitIndInv == Init => IndInv
<1> SUFFICES ASSUME Init
             PROVE  IndInv
  OBVIOUS
<1> USE DEF Init
<1>1. /\ call.op = "init" /\ call.got = <<>> /\ Len(call.got) = 0 /\ call.rc = 0 /\ call.count = 0
      /\ dr.cmd = "none" /\ dr.out = <<>> /\ dr.in = NotCached /\ ~dr.busy /\ dr.err = "none"
  BY DEF NoCommand
<1>2. Types
  <2>1. <<>> \in Seq(Sectors)
    OBVIOUS
  <2>2. call \in CallType /\ raw \in RawType
    BY <2>1 DEF CallType, RawType, NoRaw, Codes
  <2>3. NotCached \in [of : Nat \cup {-1, -2}, version : 0 .. version]
    BY DEF NotCached, Sector
  <2>4. dr \in DriveType
    BY <2>1, <2>3 DEF NoCommand, DriveType
  <2>5. \A l \in Lbas : Sector(l, 0) \in [of : Nat \cup {-1, -2}, version : 0 .. version]
    BY DEF Sector, Lbas
  <2>6. /\ medium \in [Lbas -> [of : Nat \cup {-1, -2}, version : 0 .. version]]
        /\ cache \in [Lbas -> [of : Nat \cup {-1, -2}, version : 0 .. version]]
    BY <2>3, <2>5
  <2>7. /\ call.rc \in Codes /\ hold \in 0 .. 1 /\ parked \in BOOLEAN /\ version \in Nat
        /\ mixed \in BOOLEAN /\ pc \in Pcs
    <3>1. call.rc \in Codes /\ hold \in 0 .. 1 /\ version \in Nat /\ pc \in Pcs
      BY <1>1 DEF Codes, Pcs
    <3>2. parked \in BOOLEAN /\ mixed \in BOOLEAN
      BY Zenon
    <3> QED
      BY <3>1, <3>2
  <2>8. TypeOK
    BY <2>6, <2>7 DEF TypeOK, Pcs
  <2> QED
    BY <2>2, <2>4, <2>7, <2>8 DEF Types
<1>3. Places /\ Held1 /\ Cut /\ DriveSound /\ Reading
  BY <1>1 DEF Places, Held1, Cut, DriveSound, Reading, IsRead, InCommand, Moved
<1>4. ReadExact /\ WriteExact
  BY <1>1 DEF ReadExact, WriteExact, IsRead
<1>5. Placed
  BY <1>1 DEF Placed, Sector
<1> QED
  BY <1>2, <1>3, <1>4, <1>5 DEF IndInv

LEMMA StepIndInv == IndInv /\ [Next]_vars => IndInv'
<1> SUFFICES ASSUME IndInv, [Next]_vars
             PROVE  IndInv'
  OBVIOUS
<1>1. CASE Calls
  BY <1>1, ReadInd, WriteInd, WakeupInd, StandbyInd DEF Calls
<1>2. CASE Proceeds
  BY <1>2, ReadSplitInd, WriteSplitInd, IssueInd, NeverReadyInd, ReadBlockInd, WriteBlockInd,
     DataFailsInd, LatchErrorInd, DrainInd, ResetInd, SettleInd, CommitInd, FlushEndsInd,
     StandbyEndsInd DEF Proceeds
<1>3. CASE DriveNext
  BY <1>3, ServeInd, ServeFailsInd, AskInd, AbsorbInd, WriteFailsInd, WriteBackInd, FlushedInd,
     FlushFailsInd, ResetDoneInd DEF DriveNext
<1>4. CASE UNCHANGED vars
  <2>1. UNCHANGED <<driver, history, dr, store>>
    BY <1>4 DEF vars
  <2>2. Types' /\ Places' /\ Held1' /\ Cut'
    BY <2>1, DriveFrame DEF IndInv, Types, TypeOK, store
  <2>3. DriveSound' /\ Reading' /\ Placed'
    BY <2>1 DEF IndInv, DriveSound, Reading, Placed, store, history, driver, IsRead
  <2>4. ReadExact'
    BY <2>1 DEF IndInv, ReadExact, Issued, ExactFrom, Held, store, history, driver, IsRead, Moved
  <2>5. WriteExact'
    BY <2>1 DEF IndInv, WriteExact, Writing, Flushing, Landed, Held, At, Moved, Asked, store, history, driver
  <2> QED
    BY <2>2, <2>3, <2>4, <2>5 DEF IndInv
<1> QED
  BY <1>1, <1>2, <1>3, <1>4 DEF Next

\* The strengthening that both results below follow from: in every state the
\* command that the driver has under way is the piece that the rest of its
\* call asks for, and what the drive holds of that command and has taken or
\* given of it adds up with what the driver has moved.
THEOREM Invariance == Spec => []IndInv
<1>1. Spec => Init /\ [][Next]_vars
  BY PTL DEF Spec
<1> QED
  BY <1>1, InitIndInv, StepIndInv, PTL

LEMMA IndInvExact == IndInv => TransfersExact
<1> SUFFICES ASSUME IndInv, ~mixed
             PROVE  /\ Done("read") => call.got = [i \in 1 .. call.count |-> Held(call.lba + i - 1)]
                    /\ Done("write") => \A l \in Asked : medium[l] = Sector(l, version)
                    /\ \A l \in Lbas : Held(l).of = l /\ medium[l].of = l
  BY DEF TransfersExact
<1> USE DEF IndInv
<1>1. Done("read") => call.got = [i \in 1 .. call.count |-> Held(call.lba + i - 1)]
  <2> SUFFICES ASSUME Done("read")
               PROVE  call.got = [i \in 1 .. call.count |-> Held(call.lba + i - 1)]
    OBVIOUS
  <2>1. call \in CallType /\ IsRead /\ Rest = 0
    BY DEF Done, IsRead, Types, Cut
  <2>2. Len(call.got) = call.count /\ call.got \in Seq(Sectors)
    BY <2>1 DEF Rest, Moved, CallType
  <2>3. \A i \in 1 .. call.count : call.got[i] = Held(call.lba + i - 1)
    BY <2>1, <2>2 DEF ReadExact, ExactFrom
  <2>4. call.got = [i \in 1 .. call.count |-> call.got[i]]
    BY <2>2
  <2> QED
    BY <2>3, <2>4
<1>2. Done("write") => \A l \in Asked : medium[l] = Sector(l, version)
  BY DEF Done, WriteExact
<1>3. \A l \in Lbas : Held(l).of = l /\ medium[l].of = l
  BY DEF Placed, Held
<1> QED
  BY <1>1, <1>2, <1>3

\* A call that returns success has done what it was asked, and no sector ever
\* holds what was meant for another, as long as no command is issued in the
\* middle of a write (ata_read_sectors, ata_write_sectors).
THEOREM TransfersAreExact == Spec => []TransfersExact
BY Invariance, IndInvExact, PTL

LEMMA IndInvExits == IndInv => ExitsSound
<1> SUFFICES ASSUME IndInv
             PROVE  ExitsSound
  OBVIOUS
<1> USE DEF IndInv
<1>1. TypeOK
  BY DEF Types
<1>2. hold = IF pc = "idle" \/ (pc = "split" /\ IsRead) THEN 0 ELSE 1
  BY DEF Held1
<1>3. ASSUME ~mixed, pc = "idle", IsRead, call.count > 0, call.rc \in {0, -2, -3, -4}
      PROVE  ~MidCommand
  <2>1. Issued
    <3>1. CASE call.rc = 0
      <4>1. Rest = 0 /\ call \in CallType
        BY <1>3, <3>1 DEF Cut, IsRead, Types
      <4>2. Moved > 0
        BY <1>3, <4>1 DEF Rest, Moved, CallType
      <4> QED
        BY <4>2 DEF Issued
    <3>2. CASE call.rc \in {-2, -3, -4}
      BY <1>3, <3>2 DEF Issued
    <3> QED
      BY <1>3, <3>1, <3>2
  <2>2. dr.cmd # "write"
    BY <1>3, <2>1 DEF ReadExact
  <2>3. dr.cmd # "read"
    BY <1>3 DEF Reading
  <2> QED
    BY <2>2, <2>3 DEF MidCommand
<1>4. pc = "idle" /\ call.rc = -4 => call.lba + call.count > Last + 1
  BY DEF Cut
<1> QED
  BY <1>1, <1>2, <1>3, <1>4 DEF ExitsSound

\* Every way out of a call gives the clock hold back, a read that has issued
\* a command does not leave the drive in the middle of one, and an address is
\* refused only when it is past the end (ata_recover, ata.c:296).
THEOREM ExitsAreSound == Spec => []ExitsSound
BY Invariance, IndInvExits, PTL
=============================================================================
