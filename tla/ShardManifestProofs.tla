------------------------ MODULE ShardManifestProofs ------------------------
(***************************************************************************)
(* Fencing and the version order of a MemWAL shard's manifest, for any     *)
(* stores and tasks, scan batches, faults and bounds, and any ages with    *)
(* MaxPositionAge + MaxStall < MinPruneAge.                                *)
(*                                                                         *)
(* The argument is about time.  What a store or a task takes for the       *)
(* newest version was the newest one when its age began, so its successor, *)
(* if it has been written since, is no older than that age.  A file of     *)
(* such an age is not pruned: as long as somebody may try to write a       *)
(* version again, the file that rejects the attempt is there.              *)
(***************************************************************************)
EXTENDS ShardManifest, TLAPS

-----------------------------------------------------------------------------
(* The inductive invariant                                                 *)

Contents == [epoch : Nat, age : Nat]
Kinds    == {"none", "claim", "commit", "init", "check"}
Ops      == [kind : Kinds, phase : {"idle", "scan", "put", "landed"}, cur : Nat,
             epoch : Nat, age : Nat, lost : BOOLEAN]
Writes   == [m : [version : Nat, epoch : Nat], age : Nat]

(* Every variable is a function, or a set, of records of its kind.         *)
Shape ==
  /\ files \in [DOMAIN files -> Contents]
  /\ \A v \in DOMAIN files : files[v].age <= MinPruneAge
  /\ late \subseteq Writes
  /\ latest \in [Handles -> Position]
  /\ epoch \in [Handles -> Nat]
  /\ op \in [Tasks -> Ops] /\ \A t \in Tasks : op[t].age <= Cap

(* The files are those of the versions between two.                        *)
Contiguous == Tip \in Nat /\ \E lo \in 1..(Tip + 1) : DOMAIN files = lo..Tip

(* What was written after version v was written at most a ago.             *)
Newest(v, a) == v = Tip \/ (v + 1 \in DOMAIN files /\ files[v + 1].age <= a)

(* The epoch of version v is e, as far as can be seen.                     *)
OfEpoch(v, e) == v \in DOMAIN files => files[v].epoch = e

(* A position is a version that was the newest one when its age began.     *)
PositionOk(p) ==
  p.version # 0 =>
    /\ p.version <= Tip
    /\ OfEpoch(p.version, p.epoch)
    /\ p.age <= MaxPositionAge => Newest(p.version, p.age)

(* A scan that began on an empty shard began before version 1 was written. *)
ScanOk(o) ==
  /\ o.kind # "none" /\ o.cur <= Tip /\ o.age <= MaxStall
  /\ o.cur = 0 => Newest(0, o.age)

(* A put builds on a position that was fresh when the attempt began.       *)
PutOk(o) ==
  /\ o.kind \in {"claim", "commit", "init"} /\ o.cur <= Tip /\ o.age <= MaxStall
  /\ Newest(o.cur, o.age + MaxPositionAge)
  /\ OfEpoch(o.cur, o.epoch)
  /\ o.cur = 0 => o.epoch = 0

(* What a successful put wrote.                                            *)
Written(o) == [version |-> o.cur + 1,
               epoch   |-> IF o.kind = "claim" THEN o.epoch + 1 ELSE o.epoch,
               age     |-> o.age]

OpOk(o) ==
  /\ o.phase = "idle" => o.cur = 0
  /\ o.phase = "scan" => ScanOk(o)
  /\ o.phase = "put" => PutOk(o)
  /\ o.phase = "landed" => PositionOk(Written(o))

(* A write in flight is an attempt that somebody has given up on.          *)
LateOk(r) ==
  /\ r.m.version # 0 /\ r.m.version <= Tip + 1 /\ r.age <= MaxStall
  /\ Newest(r.m.version - 1, r.age + MaxPositionAge)
  /\ r.m.version - 1 \in DOMAIN files => files[r.m.version - 1].epoch <= r.m.epoch

(* The epochs claimed so far, whether or not the claim has returned.       *)
Claiming(t) == op[t].phase = "landed" /\ op[t].kind = "claim"

Grants ==
  /\ \A h \in Handles : epoch[h] # 0 => Tip # 0 /\ epoch[h] <= files[Tip].epoch
  /\ \A h, k \in Handles : epoch[h] = epoch[k] /\ epoch[h] # 0 => h = k
  /\ \A t \in Tasks : Claiming(t) =>
       /\ op[t].epoch < files[Tip].epoch
       /\ \A h \in Handles : epoch[h] # op[t].epoch + 1
       /\ \A u \in Tasks : Claiming(u) /\ op[u].epoch = op[t].epoch => u = t

Rising ==
  \A v \in DOMAIN files : v + 1 \in DOMAIN files => files[v].epoch <= files[v + 1].epoch

Inv ==
  /\ Shape /\ Contiguous /\ Rising /\ Grants
  /\ \A h \in Handles : PositionOk(latest[h])
  /\ \A t \in Tasks : OpOk(op[t])
  /\ \A r \in late : LateOk(r)

-----------------------------------------------------------------------------
(* Maxima and minima                                                       *)

(* The greatest element of a set that has one.                             *)
LEMMA MaxIs ==
  ASSUME NEW S, S \subseteq Nat, NEW m \in S, \A x \in S : x <= m
  PROVE  Max(S) = m
  <1>1. \A x \in S : (\A y \in S : x >= y) <=> x = m
    OBVIOUS
  <1>2. QED
    BY <1>1 DEF Max

(* The least element of a set that has one.                                *)
LEMMA MinIs ==
  ASSUME NEW S, S \subseteq Nat, NEW m \in S, \A x \in S : m <= x
  PROVE  Min(S) = m
  <1>1. \A x \in S : (\A y \in S : x <= y) <=> x = m
    OBVIOUS
  <1>2. QED
    BY <1>1 DEF Min

(* The smaller of two numbers.                                             *)
LEMMA MinOfTwo ==
  ASSUME NEW a \in Nat, NEW b \in Nat
  PROVE  Min({a, b}) = IF a <= b THEN a ELSE b
  <1>1. CASE a <= b
    BY <1>1, MinIs
  <1>2. CASE ~(a <= b)
    BY <1>2, MinIs
  <1>3. QED
    BY <1>1, <1>2

(* Ages grow with time while they matter.                                  *)
LEMMA Ages ==
  ASSUME NEW a \in Nat
  PROVE  /\ Cap \in Nat /\ Older(a) \in 0..Cap
         /\ a < MaxStall => Older(a) = a + 1
         /\ Older(a) <= MaxPositionAge => Older(a) = a + 1
         /\ MaxStall <= Cap
  <1>0. MaxStall \in Nat /\ MaxPositionAge \in Nat
    BY ShardManifestAssumption
  <1>1. Cap \in {MaxStall, MaxPositionAge + 1} /\ Cap >= MaxStall /\ Cap > MaxPositionAge
    <2>1. CASE MaxStall <= MaxPositionAge + 1
      <3>1. Max({MaxStall, MaxPositionAge + 1}) = MaxPositionAge + 1
        BY <1>0, <2>1, MaxIs
      <3>2. QED
        BY <1>0, <2>1, <3>1 DEF Cap
    <2>2. CASE ~(MaxStall <= MaxPositionAge + 1)
      <3>1. Max({MaxStall, MaxPositionAge + 1}) = MaxStall
        BY <1>0, <2>2, MaxIs
      <3>2. QED
        BY <1>0, <2>2, <3>1 DEF Cap
    <2>3. QED
      BY <2>1, <2>2
  <1>2. Older(a) = IF a + 1 <= Cap THEN a + 1 ELSE Cap
    BY <1>0, <1>1, MinOfTwo DEF Older
  <1>3. QED
    BY <1>0, <1>1, <1>2

-----------------------------------------------------------------------------
(* The versions                                                            *)

(* The newest version is a file, and the files end with it.                *)
TipOk ==
  /\ Tip \in Nat
  /\ Tip # 0 => Tip \in DOMAIN files
  /\ \A v \in DOMAIN files : v \in Nat /\ 1 <= v /\ v <= Tip
  /\ \A v \in DOMAIN files : v # Tip => v + 1 \in DOMAIN files
  /\ Tip + 1 \notin DOMAIN files

(* This is so whenever the files have no gap ...                           *)
LEMMA TipFacts == Contiguous => TipOk
  <1> SUFFICES ASSUME Contiguous PROVE TipOk
    OBVIOUS
  <1>1. PICK lo \in 1..(Tip + 1) : DOMAIN files = lo..Tip
    BY DEF Contiguous
  <1>2. Tip \in Nat
    BY DEF Contiguous
  <1>3. Tip # 0 => lo <= Tip
    <2>1. Tip # 0 => DOMAIN files # {}
      BY DEF Tip
    <2>2. QED
      BY <1>1, <1>2, <2>1
  <1>4. QED
    BY <1>1, <1>2, <1>3 DEF TipOk

(* ... after a step as before it.                                          *)
LEMMA TipFactsNext == Contiguous' => TipOk'
  BY TipFacts, PTL

(* The newest of an interval of versions is its last one.                  *)
EndsAtTip ==
  \A lo, hi \in Nat :
    1 <= lo /\ lo <= hi /\ DOMAIN files = lo..hi => Tip = hi /\ Contiguous

(* This is so, before a step ...                                           *)
LEMMA TipOf == EndsAtTip
  <1>1. SUFFICES ASSUME NEW lo \in Nat, NEW hi \in Nat, 1 <= lo, lo <= hi,
                        DOMAIN files = lo..hi
        PROVE  Tip = hi /\ Contiguous
    BY DEF EndsAtTip
  <1>2. Max(lo..hi) = hi
    <2>1. lo..hi \subseteq Nat /\ hi \in lo..hi /\ \A x \in lo..hi : x <= hi
      BY <1>1
    <2>2. QED
      BY <2>1, MaxIs
  <1>3. Tip = hi
    BY <1>1, <1>2 DEF Tip
  <1>4. QED
    BY <1>1, <1>3 DEF Contiguous

(* ... and after it.                                                       *)
LEMMA TipOfNext == EndsAtTip'
  BY TipOf, PTL

(* find_latest_version ends at the newest version, or at one that is gone: *)
(* a batch of probes that finds nothing is followed by nothing, unless the *)
(* versions it began from were pruned.                                     *)
LEMMA FoundIsTip ==
  ASSUME Inv, NEW t \in Tasks, op[t].phase = "scan"
  PROVE  Found(t) = Tip \/ Found(t) \notin DOMAIN files \cup {0}
  <1> DEFINE cur == op[t].cur
             ahead(u) == DOMAIN files \cap (u + 1 .. u + ScanBatch)
             S == {cur} \cup {v \in DOMAIN files : \A u \in cur .. v - 1 : ahead(u) # {}}
  <1>0. /\ Contiguous /\ ScanOk(op[t]) /\ cur \in Nat /\ cur <= Tip
        /\ ScanBatch \in Nat /\ ScanBatch >= 1
    BY ShardManifestAssumption DEF Inv, Shape, Ops, OpOk, ScanOk
  <1>1. PICK lo \in 1..(Tip + 1) : DOMAIN files = lo..Tip
    BY <1>0 DEF Contiguous
  <1>2. /\ Tip \in Nat /\ lo \in Nat /\ (Tip # 0 => Tip \in DOMAIN files)
        /\ S \subseteq Nat /\ \A v \in S : v <= Tip
    BY <1>0, <1>1, TipFacts DEF TipOk
  <1>3. Found(t) = Max(S)
    BY DEF Found
  <1>4. CASE Tip = 0
    <2>1. S = {0}
      BY <1>0, <1>1, <1>2, <1>4
    <2>2. QED
      BY <1>2, <1>3, <1>4, <2>1, MaxIs
  <1>5. CASE Tip # 0 /\ lo <= cur + ScanBatch
    <2>1. ASSUME NEW u \in cur .. Tip - 1 PROVE ahead(u) # {}
      <3>1. CASE lo <= u + 1
        <4>1. u + 1 \in ahead(u)
          BY <1>0, <1>1, <1>2, <3>1
        <4>2. QED
          BY <4>1
      <3>2. CASE u + 1 < lo
        <4>1. lo \in ahead(u)
          BY <1>0, <1>1, <1>2, <1>5, <3>2
        <4>2. QED
          BY <4>1
      <3>3. QED
        BY <1>0, <1>2, <3>1, <3>2
    <2>2. Tip \in S
      BY <1>2, <1>5, <2>1
    <2>3. QED
      BY <1>2, <1>3, <2>2, MaxIs
  <1>6. CASE Tip # 0 /\ cur + ScanBatch < lo
    <2>1. ahead(cur) = {}
      BY <1>0, <1>1, <1>2, <1>6
    <2>2. \A v \in DOMAIN files : cur \in cur .. v - 1
      BY <1>0, <1>1, <1>2, <1>6
    <2>3. S = {cur}
      BY <2>1, <2>2
    <2>4. Found(t) = cur
      <3>1. S \subseteq Nat /\ cur \in S /\ \A x \in S : x <= cur
        BY <1>0, <2>3
      <3>2. QED
        BY <1>3, <3>1, MaxIs
    <2>5. cur \notin DOMAIN files
      BY <1>0, <1>1, <1>2, <1>6
    <2>6. cur # 0
      <3>1. 1 \notin DOMAIN files
        BY <1>0, <1>1, <1>2, <1>6
      <3>2. QED
        BY <1>0, <1>6, <3>1 DEF ScanOk, Newest
    <2>7. QED
      BY <2>4, <2>5, <2>6
  <1>7. QED
    BY <1>0, <1>2, <1>4, <1>5, <1>6

-----------------------------------------------------------------------------
(* What the files may do under those who remember them                     *)

(* A version is created after the newest one, or an old one is deleted:    *)
(* everything else stays as it is.                                         *)
Advance ==
  /\ Contiguous' /\ Tip <= Tip'
  /\ files' \in [DOMAIN files' -> Contents]
  /\ \A v \in DOMAIN files' :
       \/ v \in DOMAIN files /\ files'[v] = files[v]
       \/ v = Tip + 1 /\ v = Tip' /\ files'[v].age = 0
  /\ \A v \in DOMAIN files :
       v \in DOMAIN files' \/ (files[v].age >= MinPruneAge /\ v < Tip)
  /\ Tip' = Tip \/ Tip' = Tip + 1

(* Files that do not change advance.                                       *)
LEMMA SameFiles ==
  ASSUME Shape, Contiguous, files' = files
  PROVE  Advance /\ Tip' = Tip
  <1>1. Tip' = Tip
    BY DEF Tip
  <1>2. QED
    BY <1>1, TipFacts DEF Advance, Contiguous, Shape, TipOk

(* A file that is new enough is not pruned.                                *)
LEMMA NewestStays ==
  ASSUME Shape, Contiguous, Advance, NEW v \in Nat, v <= Tip,
         NEW a \in Nat, a < MinPruneAge, Newest(v, a)
  PROVE  Newest(v, a)'
  <1>0. Tip \in Nat /\ Tip' \in Nat /\ MinPruneAge \in Nat
    BY TipFacts, TipFactsNext, ShardManifestAssumption DEF Advance, TipOk
  <1>1. CASE v = Tip
    <2>1. CASE Tip' = Tip
      BY <1>1, <2>1 DEF Newest
    <2>2. CASE Tip' = Tip + 1
      <3>1. Tip' \in DOMAIN files' /\ Tip' \notin DOMAIN files
        BY <1>0, <2>2, TipFacts, TipFactsNext DEF Advance, TipOk
      <3>2. QED
        BY <1>0, <1>1, <2>2, <3>1 DEF Newest, Advance
    <2>3. QED
      BY <2>1, <2>2 DEF Advance
  <1>2. CASE v + 1 \in DOMAIN files /\ files[v + 1].age <= a
    <2>1. files[v + 1].age \in Nat
      BY <1>2 DEF Shape, Contents
    <2>2. v + 1 \in DOMAIN files'
      BY <1>0, <1>2, <2>1 DEF Advance
    <2>3. v + 1 # Tip + 1
      BY <1>2, TipFacts DEF TipOk
    <2>4. files'[v + 1] = files[v + 1]
      BY <2>2, <2>3 DEF Advance
    <2>5. QED
      BY <1>2, <2>2, <2>4 DEF Newest
  <1>3. QED
    BY <1>1, <1>2 DEF Newest

(* Nor does an epoch change that somebody remembers.                       *)
LEMMA OfEpochStays ==
  ASSUME Contiguous, Advance, NEW v \in Nat, v <= Tip, NEW e \in Nat, OfEpoch(v, e)
  PROVE  OfEpoch(v, e)'
  <1>1. v # Tip + 1
    BY TipFacts DEF TipOk
  <1>2. QED
    BY <1>1 DEF OfEpoch, Advance

(* What an operation wrote has the form of a position.                     *)
LEMMA WrittenType ==
  ASSUME NEW o \in Ops
  PROVE  Written(o) \in Position
  <1>1. o.cur \in Nat /\ o.epoch \in Nat /\ o.age \in Nat
    BY DEF Ops
  <1>2. QED
    BY <1>1 DEF Written, Position

(* So positions stay what they were ...                                    *)
LEMMA PositionStays ==
  ASSUME Shape, Contiguous, Advance, NEW p \in Position, PositionOk(p)
  PROVE  PositionOk(p)'
  <1>0. /\ p.version \in Nat /\ p.epoch \in Nat /\ p.age \in Nat
        /\ Tip \in Nat /\ Tip' \in Nat /\ Tip <= Tip'
        /\ p.age <= MaxPositionAge => p.age < MinPruneAge
    BY TipFacts, TipFactsNext, ShardManifestAssumption DEF Position, TipOk, Advance
  <1>1. SUFFICES ASSUME p.version # 0
        PROVE  /\ p.version <= Tip'
               /\ OfEpoch(p.version, p.epoch)'
               /\ p.age <= MaxPositionAge => Newest(p.version, p.age)'
    BY DEF PositionOk
  <1>2. /\ p.version <= Tip /\ OfEpoch(p.version, p.epoch)
        /\ p.age <= MaxPositionAge => Newest(p.version, p.age)
    BY <1>1 DEF PositionOk
  <1>3. OfEpoch(p.version, p.epoch)'
    BY <1>0, <1>2, OfEpochStays
  <1>4. p.age <= MaxPositionAge => Newest(p.version, p.age)'
    BY <1>0, <1>2, NewestStays
  <1>5. QED
    BY <1>0, <1>2, <1>3, <1>4

(* ... and so do operations ...                                            *)
LEMMA OpStays ==
  ASSUME Shape, Contiguous, Advance, NEW o \in Ops, OpOk(o)
  PROVE  OpOk(o)'
  <1>0. /\ o.cur \in Nat /\ o.epoch \in Nat /\ o.age \in Nat
        /\ Tip \in Nat /\ Tip' \in Nat /\ Tip <= Tip' /\ 0 <= Tip
        /\ MaxStall \in Nat /\ MaxPositionAge \in Nat /\ MinPruneAge \in Nat
        /\ MaxPositionAge + MaxStall < MinPruneAge
    BY TipFacts, TipFactsNext, ShardManifestAssumption DEF Ops, TipOk, Advance
  <1>1. CASE o.phase = "scan"
    <2>1. ScanOk(o) /\ o.age < MinPruneAge
      BY <1>0, <1>1 DEF OpOk, ScanOk
    <2>2. o.cur = 0 => Newest(0, o.age)'
      BY <1>0, <2>1, NewestStays DEF ScanOk
    <2>3. ScanOk(o)'
      BY <1>0, <2>1, <2>2 DEF ScanOk
    <2>4. QED
      BY <1>1, <2>3 DEF OpOk
  <1>2. CASE o.phase = "put"
    <2>1. PutOk(o) /\ o.age + MaxPositionAge \in Nat /\ o.age + MaxPositionAge < MinPruneAge
      BY <1>0, <1>2 DEF OpOk, PutOk
    <2>2. Newest(o.cur, o.age + MaxPositionAge)'
      BY <1>0, <2>1, NewestStays DEF PutOk
    <2>3. OfEpoch(o.cur, o.epoch)'
      BY <1>0, <2>1, OfEpochStays DEF PutOk
    <2>4. PutOk(o)'
      BY <1>0, <2>1, <2>2, <2>3 DEF PutOk
    <2>5. QED
      BY <1>2, <2>4 DEF OpOk
  <1>3. CASE o.phase = "landed"
    <2>1. Written(o) \in Position /\ PositionOk(Written(o))
      BY <1>0, <1>3 DEF Written, Position, OpOk
    <2>2. PICK p \in Position : p = Written(o)
      BY <2>1
    <2>3. PositionOk(p)'
      BY <2>1, <2>2, PositionStays
    <2>4. PositionOk(Written(o))'
      BY <2>2, <2>3 DEF PositionOk, Written
    <2>5. QED
      BY <1>3, <2>4 DEF OpOk
  <1>4. CASE o.phase = "idle"
    BY <1>4 DEF OpOk
  <1>5. QED
    BY <1>1, <1>2, <1>3, <1>4 DEF Ops

(* ... and writes in flight.                                               *)
LEMMA LateStays ==
  ASSUME Shape, Contiguous, Advance, NEW r \in Writes, LateOk(r)
  PROVE  LateOk(r)'
  <1>0. /\ r.m.version \in Nat /\ r.m.epoch \in Nat /\ r.age \in Nat
        /\ Tip \in Nat /\ Tip' \in Nat /\ Tip <= Tip'
        /\ MaxStall \in Nat /\ MaxPositionAge \in Nat /\ MinPruneAge \in Nat
        /\ MaxPositionAge + MaxStall < MinPruneAge
    BY TipFacts, TipFactsNext, ShardManifestAssumption DEF Writes, TipOk, Advance
  <1>1. PICK v \in Nat : r.m.version = v + 1
    <2>1. r.m.version - 1 \in Nat /\ r.m.version = (r.m.version - 1) + 1
      BY <1>0 DEF LateOk
    <2>2. QED
      BY <2>1
  <1>2. /\ r.m.version - 1 = v /\ v <= Tip /\ r.age + MaxPositionAge < MinPruneAge
        /\ r.age + MaxPositionAge \in Nat
    BY <1>0, <1>1 DEF LateOk
  <1>3. Newest(v, r.age + MaxPositionAge)'
    BY <1>0, <1>2, NewestStays DEF LateOk
  <1>4. v \in DOMAIN files' => v \in DOMAIN files /\ files'[v] = files[v]
    BY <1>0, <1>2 DEF Advance
  <1>5. Newest(r.m.version - 1, r.age + MaxPositionAge)'
    BY <1>2, <1>3 DEF Newest
  <1>6. r.m.version - 1 \in DOMAIN files' => files'[r.m.version - 1].epoch <= r.m.epoch
    BY <1>2, <1>4 DEF LateOk
  <1>7. r.m.version # 0 /\ r.m.version <= Tip' + 1 /\ r.age <= MaxStall
    <2>1. r.m.version # 0 /\ r.age <= MaxStall
      BY DEF LateOk
    <2>2. v <= Tip'
      BY <1>0, <1>1, <1>2
    <2>3. QED
      BY <1>0, <1>1, <2>1, <2>2 DEF Tip
  <1>8. QED
    BY <1>5, <1>6, <1>7 DEF LateOk

(* What a step of t has to show.                                           *)
LEMMA ActorSuffices ==
  ASSUME Inv, NEW t \in Tasks, Advance, Rising', Grants',
         NEW o \in Ops, op' = [op EXCEPT ![t] = o], o.age <= Cap, OpOk(o) \/ OpOk(o)',
         NEW p \in Position, latest' = latest \/ latest' = [latest EXCEPT ![Store(t)] = p],
         PositionOk(p),
         epoch' \in [Handles -> Nat],
         late' \subseteq Writes, \A r \in late' : r \in late \/ LateOk(r)
  PROVE  Inv'
  <1>0. Shape /\ Contiguous /\ Contiguous' /\ Store(t) \in Handles
    BY ShardManifestAssumption DEF Inv, Advance, Store
  <1>1. Shape'
    <2>1. \A v \in DOMAIN files' : files'[v].age <= MinPruneAge
      BY <1>0, ShardManifestAssumption DEF Shape, Advance
    <2>2. latest' \in [Handles -> Position]
      BY <1>0 DEF Shape
    <2>3. op' \in [Tasks -> Ops] /\ \A u \in Tasks : op'[u].age <= Cap
      BY <1>0 DEF Shape
    <2>4. files' \in [DOMAIN files' -> Contents]
      BY DEF Advance
    <2>5. QED
      BY <2>1, <2>2, <2>3, <2>4 DEF Shape, Cap
  <1>2. ASSUME NEW h \in Handles PROVE PositionOk(latest[h])'
    <2>1. PICK q \in Position : q = latest'[h]
      BY <1>1 DEF Shape
    <2>2. PositionOk(q)
      <3>1. q = p \/ q = latest[h]
        BY <1>0, <2>1 DEF Shape
      <3>2. QED
        BY <3>1 DEF Inv, PositionOk
    <2>3. PositionOk(q)'
      BY <1>0, <2>2, PositionStays
    <2>4. QED
      BY <2>1, <2>3 DEF PositionOk
  <1>3. ASSUME NEW u \in Tasks PROVE OpOk(op[u])'
    <2>1. PICK q \in Ops : q = op'[u]
      BY <1>1 DEF Shape
    <2>2. CASE u = t
      <3>1. q = o
        BY <1>0, <2>1, <2>2 DEF Shape
      <3>2. OpOk(q)'
        BY <1>0, <3>1, OpStays
      <3>3. QED
        BY <2>1, <3>2 DEF OpOk, ScanOk, PutOk, Written
    <2>3. CASE u # t
      <3>1. q = op[u]
        BY <1>0, <2>1, <2>3 DEF Shape
      <3>2. OpOk(q)
        BY <3>1 DEF Inv, OpOk, ScanOk, PutOk, Written
      <3>3. OpOk(q)'
        BY <1>0, <3>2, OpStays
      <3>4. QED
        BY <2>1, <3>3 DEF OpOk, ScanOk, PutOk, Written
    <2>4. QED
      BY <2>2, <2>3
  <1>4. ASSUME NEW r \in late' PROVE LateOk(r)'
    BY <1>0, <1>4, LateStays DEF Inv
  <1>5. QED
    BY <1>0, <1>1, <1>2, <1>3, <1>4 DEF Inv

(* The claims that are granted stay valid when the newest epoch does not   *)
(* go back and no claim is added.                                          *)
LEMMA GrantsStay ==
  ASSUME Inv, Shape', Contiguous',
         Tip # 0 => Tip' # 0 /\ files[Tip].epoch <= files'[Tip'].epoch,
         epoch' = epoch,
         \A t \in Tasks : Claiming(t)' => Claiming(t) /\ op'[t].epoch = op[t].epoch
  PROVE  Grants'
  <1>0. Shape /\ Contiguous /\ Grants
    BY DEF Inv
  <1>1. /\ Tip # 0 => files[Tip].epoch \in Nat
        /\ Tip' # 0 => files'[Tip'].epoch \in Nat
    BY <1>0, TipFacts, TipFactsNext DEF Shape, Contents, TipOk
  <1>2. ASSUME NEW h \in Handles, epoch[h] # 0 PROVE Tip' # 0 /\ epoch[h] <= files'[Tip'].epoch
    BY <1>0, <1>1, <1>2 DEF Grants, Shape
  <1>3. ASSUME NEW t \in Tasks, Claiming(t) PROVE op[t].epoch < files'[Tip'].epoch
    <2>1. Tip # 0
      <3>1. op[t].cur + 1 <= Tip /\ op[t].cur \in Nat
        BY <1>0, <1>3 DEF Inv, OpOk, Claiming, PositionOk, Written, Shape, Ops
      <3>2. QED
        BY <3>1
    <2>2. op[t].epoch \in Nat /\ op[t].epoch < files[Tip].epoch
      BY <1>0, <1>3 DEF Grants, Shape, Ops
    <2>3. QED
      BY <1>1, <2>1, <2>2
  <1>4. QED
    BY <1>0, <1>2, <1>3 DEF Grants

(* A scan may begin at any version there is.                               *)
LEMMA ScanStarts ==
  ASSUME Inv, NEW kind \in Kinds \ {"none"}, NEW lost \in BOOLEAN, NEW e \in Nat,
         NEW o \in Scan(kind, lost, e)
  PROVE  o \in Ops /\ OpOk(o) /\ o.phase = "scan" /\ o.age = 0 /\ o.age <= Cap
  <1>0. Contiguous /\ TipOk /\ Cap \in Nat /\ MaxStall \in Nat
    BY TipFacts, Ages, ShardManifestAssumption DEF Inv
  <1>1. /\ o.kind = kind /\ o.phase = "scan" /\ o.epoch = e /\ o.age = 0 /\ o.lost = lost
        /\ o.cur \in DOMAIN files \cup {Tip}
        /\ o \in [kind : {kind}, phase : {"scan"}, cur : DOMAIN files \cup {Tip},
                  epoch : {e}, age : {0}, lost : {lost}]
    BY DEF Scan
  <1>2. o.cur \in Nat /\ o.cur <= Tip /\ (o.cur = 0 => Tip = 0)
    BY <1>0, <1>1 DEF TipOk
  <1>3. o \in Ops
    <2>1. DOMAIN files \cup {Tip} \subseteq Nat
      BY <1>0 DEF TipOk
    <2>2. QED
      BY <1>1, <2>1 DEF Ops
  <1>4. OpOk(o)
    BY <1>0, <1>1, <1>2 DEF OpOk, ScanOk, Newest
  <1>5. QED
    BY <1>0, <1>1, <1>3, <1>4

(* A step of t that leaves the files and the epochs alone and claims       *)
(* nothing.                                                                *)
LEMMA QuietSuffices ==
  ASSUME Inv, NEW t \in Tasks, UNCHANGED <<files, epoch>>,
         NEW o \in Ops, op' = [op EXCEPT ![t] = o], o.age <= Cap, OpOk(o), o.phase # "landed",
         NEW p \in Position, latest' = latest \/ latest' = [latest EXCEPT ![Store(t)] = p],
         PositionOk(p),
         late' \subseteq Writes, \A r \in late' : r \in late \/ LateOk(r)
  PROVE  Inv'
  <1>0. Shape /\ Contiguous /\ Rising /\ Store(t) \in Handles
    BY ShardManifestAssumption DEF Inv, Store
  <1>1. Advance /\ Tip' = Tip /\ Contiguous'
    BY <1>0, SameFiles DEF Advance
  <1>2. Rising'
    BY <1>0 DEF Rising
  <1>3. Shape'
    BY <1>0 DEF Shape, Cap
  <1>4. Grants'
    <2>1. \A u \in Tasks : Claiming(u)' => Claiming(u) /\ op'[u].epoch = op[u].epoch
      BY <1>0 DEF Claiming, Shape
    <2>2. Tip # 0 => Tip' # 0 /\ files[Tip].epoch <= files'[Tip'].epoch
      BY <1>0, <1>1, TipFacts DEF TipOk, Shape, Contents
    <2>3. QED
      BY <1>1, <1>3, <2>1, <2>2, GrantsStay
  <1>5. epoch' \in [Handles -> Nat]
    BY <1>0 DEF Shape
  <1>6. QED
    BY <1>1, <1>2, <1>4, <1>5, ActorSuffices

-----------------------------------------------------------------------------
(* The operations                                                          *)

(* An operation that is over.                                              *)
LEMMA IdleOk ==
  ASSUME Inv
  PROVE  /\ Idle \in Ops /\ OpOk(Idle) /\ Idle.age <= Cap /\ Idle.phase = "idle"
         /\ NoPosition \in Position /\ PositionOk(NoPosition)
  BY Ages DEF Idle, Ops, Kinds, OpOk, NoPosition, Position, PositionOk

(* A step that only takes t to an operation that is in order.              *)
LEMMA MoveOn ==
  ASSUME Inv, NEW t \in Tasks, UNCHANGED <<files, late, latest, epoch>>,
         NEW F, Now(t, F),
         \A o \in F : o \in Ops /\ OpOk(o) /\ o.age <= Cap /\ o.phase # "landed"
  PROVE  Inv'
  <1>1. PICK o \in F : op' = [op EXCEPT ![t] = o]
    BY DEF Now
  <1>2. o \in Ops /\ OpOk(o) /\ o.age <= Cap /\ o.phase # "landed"
    BY <1>1
  <1>3. late' \subseteq Writes
    BY DEF Inv, Shape
  <1>4. QED
    BY <1>1, <1>2, <1>3, IdleOk, QuietSuffices

(* Operations that begin with a scan, or that a failed read ends.          *)
LEMMA BeginInv ==
  ASSUME Inv, NEW t \in Tasks,
         ClaimEpoch(t) \/ InitializeShard(t) \/ CheckFenced(t) \/ ReadFails(t)
  PROVE  Inv'
  <1>1. UNCHANGED <<files, late, latest, epoch>>
    BY DEF ClaimEpoch, InitializeShard, CheckFenced, ReadFails
  <1>2. CASE \E kind \in {"claim", "init", "check"} : Now(t, Scan(kind, FALSE, 0))
    <2>1. PICK kind \in {"claim", "init", "check"} : Now(t, Scan(kind, FALSE, 0))
      BY <1>2
    <2>2. \A o \in Scan(kind, FALSE, 0) : o \in Ops /\ OpOk(o) /\ o.age <= Cap /\ o.phase # "landed"
      BY ScanStarts DEF Kinds
    <2>3. QED
      BY <1>1, <2>1, <2>2, MoveOn
  <1>3. CASE Now(t, {Idle})
    BY <1>1, <1>3, IdleOk, MoveOn
  <1>4. QED
    BY <1>2, <1>3 DEF ClaimEpoch, InitializeShard, CheckFenced, ReadFails

(* try_commit_update builds on a fresh position, or scans.                 *)
LEMMA CommitUpdateInv ==
  ASSUME Inv, NEW t \in Tasks, CommitUpdate(t)
  PROVE  Inv'
  <1> DEFINE p == latest[Store(t)]
             put == [Idle EXCEPT !.kind = "commit", !.phase = "put",
                                 !.cur = p.version, !.epoch = epoch[Store(t)]]
  <1>0. /\ Store(t) \in Handles /\ Shape /\ Contiguous /\ PositionOk(p) /\ p \in Position
        /\ MaxStall \in Nat /\ MaxPositionAge \in Nat /\ Cap \in Nat
    BY ShardManifestAssumption, Ages DEF Inv, Store, Shape
  <1>1. UNCHANGED <<files, late, latest, epoch>>
    BY DEF CommitUpdate
  <1>2. CASE Now(t, Scan("commit", FALSE, 0))
    <2>1. \A o \in Scan("commit", FALSE, 0) :
            o \in Ops /\ OpOk(o) /\ o.age <= Cap /\ o.phase # "landed"
      BY ScanStarts DEF Kinds
    <2>2. QED
      BY <1>1, <1>2, <2>1, MoveOn
  <1>3. CASE Now(t, {Idle})
    BY <1>1, <1>3, IdleOk, MoveOn
  <1>4. CASE Fresh(Store(t)) /\ p.epoch = epoch[Store(t)] /\ Now(t, {put})
    <2>1. p.version \in Nat /\ p.epoch \in Nat /\ p.age \in Nat
      BY <1>0 DEF Position
    <2>2. /\ p.version # 0 /\ p.version <= Tip /\ OfEpoch(p.version, p.epoch)
          /\ Newest(p.version, p.age) /\ p.age <= MaxPositionAge
      BY <1>0, <1>4 DEF Fresh, PositionOk
    <2>3. put \in Ops /\ put.phase = "put" /\ put.age = 0 /\ put.cur = p.version
            /\ put.kind = "commit" /\ put.epoch = p.epoch
      BY <1>4, <2>1 DEF Idle, Ops, Kinds
    <2>4. Newest(p.version, put.age + MaxPositionAge)
      <3>1. p.version + 1 \in DOMAIN files => files[p.version + 1].age \in Nat
        BY <1>0 DEF Shape, Contents
      <3>2. put.age + MaxPositionAge = MaxPositionAge
        BY <1>0, <2>3
      <3>3. QED
        BY <1>0, <2>1, <2>2, <3>1, <3>2 DEF Newest
    <2>5. PutOk(put)
      <3>1. Newest(put.cur, put.age + MaxPositionAge) /\ OfEpoch(put.cur, put.epoch)
        BY <2>2, <2>3, <2>4 DEF Newest, OfEpoch
      <3>2. put.kind \in {"claim", "commit", "init"} /\ put.cur <= Tip /\ put.age <= MaxStall
              /\ put.cur # 0
        BY <1>0, <2>2, <2>3
      <3>3. QED
        BY <3>1, <3>2 DEF PutOk
    <2>6. OpOk(put) /\ put.age <= Cap /\ put.phase # "landed"
      BY <1>0, <2>3, <2>5 DEF OpOk
    <2>7. QED
      <3>1. \A o \in {put} : o \in Ops /\ OpOk(o) /\ o.age <= Cap /\ o.phase # "landed"
        BY <2>3, <2>6
      <3>2. QED
        BY <1>1, <1>4, <3>1, MoveOn
  <1>5. QED
    BY <1>2, <1>3, <1>4 DEF CommitUpdate

(* What a refresh adopts is the newest version, and its caller builds on   *)
(* that or stops.                                                          *)
LEMMA DecidedOk ==
  ASSUME Inv, NEW t \in Tasks, op[t].phase = "scan", NEW m \in Position,
         m.version = Tip, OfEpoch(Tip, m.epoch), Tip = 0 => m.epoch = 0,
         NEW o \in Decided(t, m)
  PROVE  o \in Ops /\ OpOk(o) /\ o.age <= Cap /\ o.phase # "landed"
  <1> DEFINE put == [op[t] EXCEPT !.phase = "put", !.cur = m.version, !.epoch = m.epoch]
  <1>0. /\ Shape /\ Contiguous /\ TipOk /\ op[t] \in Ops /\ ScanOk(op[t])
        /\ m.version \in Nat /\ m.epoch \in Nat /\ op[t].age <= Cap
    BY TipFacts DEF Inv, Shape, OpOk, Position
  <1>1. op[t].kind \in {"claim", "commit", "init", "check"} /\ op[t].lost \in BOOLEAN
    BY <1>0 DEF ScanOk, Ops, Kinds
  <1>2. CASE o = put /\ op[t].kind # "check"
    <2>1. /\ put \in Ops /\ put.phase = "put" /\ put.cur = m.version /\ put.epoch = m.epoch
          /\ put.kind = op[t].kind /\ put.age = op[t].age
      BY <1>0 DEF Ops
    <2>2. PutOk(put)
      <3>1. Newest(put.cur, put.age + MaxPositionAge) /\ OfEpoch(put.cur, put.epoch)
        BY <2>1 DEF Newest, OfEpoch
      <3>2. /\ put.kind \in {"claim", "commit", "init"} /\ put.cur <= Tip
            /\ put.age <= MaxStall /\ (put.cur = 0 => put.epoch = 0)
        BY <1>0, <1>1, <1>2, <2>1 DEF ScanOk, TipOk
      <3>3. QED
        BY <3>1, <3>2 DEF PutOk
    <2>3. OpOk(put)
      BY <2>1, <2>2 DEF OpOk
    <2>4. QED
      BY <1>0, <1>2, <2>1, <2>3
  <1>3. CASE o = Idle
    BY <1>3, IdleOk
  <1>4. CASE o \in Scan("claim", FALSE, 0)
    BY <1>4, ScanStarts DEF Kinds
  <1>5. QED
    <2>1. CASE op[t].kind = "claim"
      BY <1>1, <1>2, <1>3, <1>4, <2>1 DEF Decided
    <2>2. CASE op[t].kind = "commit"
      BY <1>1, <1>2, <1>3, <2>2 DEF Decided
    <2>3. CASE op[t].kind = "init"
      BY <1>1, <1>2, <1>3, <2>3 DEF Decided
    <2>4. CASE op[t].kind = "check"
      BY <1>1, <1>3, <2>4 DEF Decided
    <2>5. QED
      BY <1>1, <2>1, <2>2, <2>3, <2>4

(* The refresh reads the newest version, so the position is right.         *)
LEMMA AdoptInv ==
  ASSUME Inv, NEW t \in Tasks, Adopt(t)
  PROVE  Inv'
  <1>0. /\ Shape /\ Contiguous /\ TipOk /\ op[t].phase = "scan" /\ op[t] \in Ops
        /\ UNCHANGED <<files, late, epoch>> /\ Store(t) \in Handles
        /\ late' \subseteq Writes
    BY TipFacts, ShardManifestAssumption DEF Inv, Adopt, Shape, Store
  <1>1. Found(t) = Tip \/ Found(t) \notin DOMAIN files \cup {0}
    BY <1>0, FoundIsTip
  <1>2. CASE /\ Found(t) \in DOMAIN files
             /\ LET m == [version |-> Found(t), epoch |-> files[Found(t)].epoch, age |-> op[t].age]
                IN latest' = Cached(Store(t), m) /\ Now(t, Decided(t, m))
    <2> DEFINE m == [version |-> Found(t), epoch |-> files[Found(t)].epoch, age |-> op[t].age]
    <2>1. Found(t) = Tip /\ Tip \in Nat /\ files[Tip] \in Contents /\ Tip \in DOMAIN files
            /\ Tip # 0
      BY <1>0, <1>1, <1>2 DEF TipOk, Shape
    <2>2. m \in Position /\ m.version = Tip /\ m.epoch = files[Tip].epoch
      BY <1>0, <2>1 DEF Position, Contents, Ops
    <2>3. OfEpoch(Tip, m.epoch) /\ PositionOk(m)
      BY <2>1, <2>2 DEF OfEpoch, PositionOk, Newest, TipOk
    <2>4. PICK o \in Decided(t, m) : op' = [op EXCEPT ![t] = o]
      BY <1>2 DEF Now
    <2>5. o \in Ops /\ OpOk(o) /\ o.age <= Cap /\ o.phase # "landed"
      BY <1>0, <2>1, <2>2, <2>3, <2>4, DecidedOk
    <2>6. latest' = latest \/ latest' = [latest EXCEPT ![Store(t)] = m]
      BY <1>2 DEF Cached
    <2>7. QED
      BY <1>0, <2>2, <2>3, <2>4, <2>5, <2>6, QuietSuffices
  <1>3. CASE Found(t) = 0 /\ Now(t, Decided(t, NoPosition)) /\ UNCHANGED latest
    <2>1. Tip = 0 /\ 0 \notin DOMAIN files
      BY <1>0, <1>1, <1>3 DEF TipOk
    <2>2. /\ NoPosition \in Position /\ NoPosition.version = Tip /\ NoPosition.epoch = 0
          /\ OfEpoch(Tip, NoPosition.epoch)
      BY <2>1 DEF NoPosition, Position, OfEpoch
    <2>3. \A o \in Decided(t, NoPosition) :
            o \in Ops /\ OpOk(o) /\ o.age <= Cap /\ o.phase # "landed"
      BY <1>0, <2>2, DecidedOk
    <2>4. QED
      BY <1>0, <1>3, <2>3, MoveOn
  <1>4. QED
    BY <1>2, <1>3 DEF Adopt

-----------------------------------------------------------------------------
(* Writes                                                                  *)

(* Creating the version after the newest one.                              *)
LEMMA CreateAdvances ==
  ASSUME Inv, NEW m \in [version : Nat, epoch : Nat], m.version = Tip + 1,
         Tip # 0 => files[Tip].epoch <= m.epoch, Create(m)
  PROVE  /\ Advance /\ Rising'
         /\ Tip' = Tip + 1
         /\ Tip' \in DOMAIN files' /\ files'[Tip'] = [epoch |-> m.epoch, age |-> 0]
  <1>0. Shape /\ Contiguous /\ TipOk /\ Rising /\ m.epoch \in Nat
    BY TipFacts DEF Inv
  <1>1. PICK lo \in 1..(Tip + 1) : DOMAIN files = lo..Tip
    BY <1>0 DEF Contiguous
  <1>2. PICK T \in Nat : T = Tip
    BY <1>0 DEF TipOk
  <1>3. DOMAIN files' = DOMAIN files \cup {T + 1}
    BY <1>2 DEF Create
  <1>4. DOMAIN files' = lo..(T + 1) /\ lo \in Nat /\ 1 <= lo /\ lo <= T + 1
    BY <1>1, <1>2, <1>3
  <1>5. Tip' = T + 1 /\ Contiguous'
    BY <1>2, <1>4, TipOfNext DEF EndsAtTip
  <1>6. /\ T + 1 \notin DOMAIN files
        /\ files'[T + 1] = [epoch |-> m.epoch, age |-> 0]
        /\ \A v \in DOMAIN files : v \in DOMAIN files' /\ files'[v] = files[v]
    BY <1>0, <1>2, <1>3 DEF Create, TipOk
  <1>7. files' \in [DOMAIN files' -> Contents]
    <2>1. \A v \in DOMAIN files' : files'[v] \in Contents
      BY <1>0, <1>3, <1>6 DEF Shape, Contents
    <2>2. QED
      BY <2>1 DEF Create
  <1>8. Advance
    BY <1>2, <1>3, <1>5, <1>6, <1>7 DEF Advance
  <1>9. Rising'
    <2>1. SUFFICES ASSUME NEW v \in DOMAIN files', v + 1 \in DOMAIN files'
          PROVE  files'[v].epoch <= files'[v + 1].epoch
      BY DEF Rising
    <2>2. v \in Nat /\ v + 1 <= T + 1 /\ v \in DOMAIN files
      BY <1>1, <1>2, <1>4, <2>1
    <2>3. CASE v = T
      BY <1>0, <1>2, <1>6, <2>2, <2>3 DEF TipOk
    <2>4. CASE v # T
      <3>1. v + 1 \in DOMAIN files
        BY <1>3, <2>1, <2>2, <2>4
      <3>2. QED
        BY <1>0, <1>6, <2>2, <3>1 DEF Rising
    <2>5. QED
      BY <2>3, <2>4
  <1>10. QED
    BY <1>2, <1>3, <1>5, <1>6, <1>8, <1>9

(* What Put writes, and where it would go.                                 *)
LEMMA PutFacts ==
  ASSUME Inv, NEW t \in Tasks, op[t].phase = "put"
  PROVE  /\ op[t] \in Ops /\ PutOk(op[t]) /\ op[t].age <= Cap
         /\ op[t].cur \in Nat /\ op[t].epoch \in Nat /\ op[t].age \in Nat
         /\ Successor(t) \in [version : Nat, epoch : Nat]
         /\ Successor(t).version = op[t].cur + 1
         /\ Successor(t).epoch = Written(op[t]).epoch
         /\ Successor(t).epoch \in Nat /\ op[t].epoch <= Successor(t).epoch
         /\ Successor(t).version \notin DOMAIN files =>
              /\ op[t].cur = Tip
              /\ Tip # 0 => files[Tip].epoch = op[t].epoch
  <1>0. Shape /\ Contiguous /\ TipOk /\ op[t] \in Ops /\ PutOk(op[t]) /\ op[t].age <= Cap
    BY TipFacts DEF Inv, Shape, OpOk
  <1>1. /\ op[t].cur \in Nat /\ op[t].epoch \in Nat /\ op[t].age \in Nat
    BY <1>0 DEF Ops
  <1>2. /\ Successor(t) \in [version : Nat, epoch : Nat]
        /\ Successor(t).version = op[t].cur + 1
        /\ Successor(t).epoch = Written(op[t]).epoch
        /\ Successor(t).epoch \in Nat /\ op[t].epoch <= Successor(t).epoch
    BY <1>1 DEF Successor, Written
  <1>3. ASSUME Successor(t).version \notin DOMAIN files
        PROVE  op[t].cur = Tip /\ (Tip # 0 => files[Tip].epoch = op[t].epoch)
    BY <1>0, <1>2, <1>3 DEF PutOk, Newest, OfEpoch, TipOk
  <1>4. QED
    BY <1>0, <1>1, <1>2, <1>3

(* A write in flight is what the attempt was.                              *)
LEMMA LateStarts ==
  ASSUME Inv, NEW t \in Tasks, op[t].phase = "put"
  PROVE  /\ [m |-> Successor(t), age |-> op[t].age] \in Writes
         /\ LateOk([m |-> Successor(t), age |-> op[t].age])
  <1> DEFINE r == [m |-> Successor(t), age |-> op[t].age]
  <1>0. Shape /\ Contiguous /\ TipOk
    BY TipFacts DEF Inv
  <1>1. /\ r \in Writes /\ r.m.version = op[t].cur + 1 /\ r.age = op[t].age
        /\ r.m.epoch = Successor(t).epoch
    BY PutFacts DEF Writes
  <1>2. r.m.version - 1 = op[t].cur
    BY <1>1, PutFacts
  <1>3. /\ Newest(r.m.version - 1, r.age + MaxPositionAge)
        /\ r.m.version - 1 \in DOMAIN files => files[r.m.version - 1].epoch <= r.m.epoch
    BY <1>1, <1>2, PutFacts DEF PutOk, Newest, OfEpoch
  <1>4. r.m.version # 0 /\ r.m.version <= Tip + 1 /\ r.age <= MaxStall
    BY <1>0, <1>1, PutFacts DEF PutOk, TipOk
  <1>5. QED
    BY <1>1, <1>3, <1>4 DEF LateOk

(* A write that was not acknowledged is followed by a scan, or by nothing. *)
LEMMA RejectedOk ==
  ASSUME Inv, NEW t \in Tasks, op[t].phase = "put", NEW conflict \in BOOLEAN,
         NEW o \in Rejected(t, conflict)
  PROVE  o \in Ops /\ OpOk(o) /\ o.age <= Cap /\ o.phase \in {"idle", "scan"}
  <1>0. op[t].kind \in {"claim", "commit", "init"} /\ Successor(t).epoch \in Nat
    BY PutFacts DEF PutOk
  <1>1. CASE o = Idle
    BY <1>1, IdleOk
  <1>2. CASE \E kind \in {"claim", "commit", "init"}, lost \in BOOLEAN, e \in Nat :
               o \in Scan(kind, lost, e)
    BY <1>2, ScanStarts DEF Kinds
  <1>3. CASE op[t].kind = "claim"
    <2>1. o \in Scan("claim", TRUE, Successor(t).epoch)
      BY <1>3 DEF Rejected
    <2>2. QED
      BY <1>0, <1>2, <2>1
  <1>4. CASE op[t].kind = "init"
    <2>1. o \in Scan("init", TRUE, 0)
      BY <1>4 DEF Rejected
    <2>2. QED
      BY <1>2, <2>1
  <1>5. CASE op[t].kind = "commit"
    <2>1. o = Idle \/ o \in Scan("commit", FALSE, 0)
      BY <1>5 DEF Rejected
    <2>2. QED
      BY <1>1, <1>2, <2>1
  <1>6. QED
    BY <1>0, <1>3, <1>4, <1>5

(* A put that creates its version, whether or not its caller learns of it. *)
LEMMA PutCreatesInv ==
  ASSUME Inv, NEW t \in Tasks, op[t].phase = "put",
         Successor(t).version \notin DOMAIN files, Create(Successor(t)),
         NEW o \in Ops, op' = [op EXCEPT ![t] = o], o.age <= Cap,
         \/ o = [op[t] EXCEPT !.phase = "landed", !.age = o.age]
         \/ OpOk(o) /\ o.phase \in {"idle", "scan"},
         latest' = latest \/ latest' = Invalidated(Store(t)),
         UNCHANGED <<late, epoch>>
  PROVE  Inv'
  <1> DEFINE m == Successor(t)
  <1>0. Shape /\ Contiguous /\ TipOk /\ Grants /\ Store(t) \in Handles
    BY TipFacts, ShardManifestAssumption DEF Inv, Store
  <1>1. /\ op[t] \in Ops /\ PutOk(op[t]) /\ m \in [version : Nat, epoch : Nat]
        /\ op[t].cur = Tip /\ m.version = Tip + 1
        /\ m.epoch = Written(op[t]).epoch /\ m.epoch \in Nat /\ op[t].epoch \in Nat
        /\ op[t].epoch <= m.epoch
        /\ Tip # 0 => files[Tip].epoch = op[t].epoch
    BY PutFacts
  <1>2. Tip # 0 => files[Tip].epoch <= m.epoch
    BY <1>1
  <1>3. /\ Advance /\ Rising' /\ Tip' = Tip + 1 /\ Tip' \in DOMAIN files'
        /\ files'[Tip'] = [epoch |-> m.epoch, age |-> 0]
    BY <1>1, <1>2, CreateAdvances
  <1>4. Contiguous' /\ TipOk' /\ files'[Tip'].epoch = m.epoch /\ Tip' # 0
    BY <1>0, <1>3, TipFactsNext DEF Advance, TipOk
  <1>5. Shape'
    <2>1. files' \in [DOMAIN files' -> Contents] /\ \A v \in DOMAIN files' : files'[v].age <= MinPruneAge
      BY <1>0, <1>3, ShardManifestAssumption DEF Shape, Advance
    <2>2. latest' \in [Handles -> Position]
      BY <1>0, IdleOk DEF Shape, Invalidated
    <2>3. QED
      BY <1>0, <2>1, <2>2 DEF Shape, Cap
  <1>6. CASE OpOk(o) /\ o.phase \in {"idle", "scan"}
    <2>1. \A u \in Tasks : Claiming(u)' => Claiming(u) /\ op'[u].epoch = op[u].epoch
      BY <1>0, <1>6 DEF Claiming, Shape
    <2>2. Grants'
      BY <1>2, <1>4, <1>5, <2>1, GrantsStay
    <2>3. latest' = latest \/ latest' = [latest EXCEPT ![Store(t)] = NoPosition]
      BY DEF Invalidated
    <2>4. epoch' \in [Handles -> Nat] /\ late' \subseteq Writes
      BY <1>0 DEF Shape
    <2>5. QED
      BY <1>3, <1>6, <2>2, <2>3, <2>4, IdleOk, ActorSuffices
  <1>7. CASE o = [op[t] EXCEPT !.phase = "landed", !.age = o.age]
    <2>1. /\ o.phase = "landed" /\ o.kind = op[t].kind /\ o.cur = op[t].cur
          /\ o.epoch = op[t].epoch
      BY <1>1, <1>7 DEF Ops
    <2>2. Written(o).version = Tip + 1 /\ Written(o).epoch = m.epoch
      BY <1>1, <2>1 DEF Written
    <2>3. OpOk(o)'
      <3>1. PICK q \in Position : q = Written(o)
        BY WrittenType
      <3>2. q.version = Tip' /\ q.epoch = files'[Tip'].epoch
        BY <1>3, <1>4, <2>2, <3>1
      <3>3. PositionOk(q)'
        BY <1>4, <3>2 DEF PositionOk, OfEpoch, Newest, TipOk
      <3>4. PositionOk(Written(o))'
        BY <3>1, <3>3 DEF PositionOk, Written
      <3>5. QED
        BY <2>1, <3>4 DEF OpOk
    <2>4. Grants'
      <3>1. \A u \in Tasks \ {t} : op'[u] = op[u]
        BY <1>0 DEF Shape
      <3>2. op'[t] = o
        BY <1>0 DEF Shape
      <3>3. ASSUME NEW h \in Handles, epoch[h] # 0 PROVE epoch[h] <= op[t].epoch
        BY <1>0, <1>1, <3>3 DEF Grants
      <3>4. ASSUME NEW u \in Tasks, u # t, Claiming(u)' PROVE op[u].epoch < op[t].epoch
        <4>1. Claiming(u) /\ op[u].cur + 1 <= Tip /\ op[u].cur \in Nat
          BY <1>0, <3>1, <3>4 DEF Claiming, Inv, OpOk, PositionOk, Written, Shape, Ops
        <4>2. Tip # 0
          BY <4>1
        <4>3. QED
          BY <1>0, <1>1, <4>1, <4>2 DEF Grants
      <3>5. \A h \in Handles : epoch[h] # 0 => epoch[h] <= m.epoch
        BY <1>0, <1>1, <3>3 DEF Shape
      <3>6. \A u \in Tasks : Claiming(u)' => op'[u].epoch < m.epoch
        <4>1. SUFFICES ASSUME NEW u \in Tasks, Claiming(u)' PROVE op'[u].epoch < m.epoch
          OBVIOUS
        <4>2. CASE u = t
          <5>1. op[t].kind = "claim"
            BY <2>1, <3>2, <4>1, <4>2 DEF Claiming
          <5>2. m.epoch = op[t].epoch + 1
            BY <5>1 DEF Successor
          <5>3. QED
            BY <1>1, <2>1, <3>2, <4>2, <5>2
        <4>3. CASE u # t
          <5>1. op[u].epoch \in Nat
            BY <1>0 DEF Shape, Ops
          <5>2. QED
            BY <1>1, <3>1, <3>4, <4>1, <4>3, <5>1
        <4>4. QED
          BY <4>2, <4>3
      <3>7. ASSUME NEW u \in Tasks, Claiming(u)', NEW h \in Handles
            PROVE  epoch[h] # op'[u].epoch + 1
        <4>1. CASE u = t
          BY <1>0, <1>1, <2>1, <3>2, <3>3, <4>1 DEF Shape
        <4>2. CASE u # t
          <5>1. Claiming(u) /\ op'[u] = op[u]
            BY <3>1, <3>7, <4>2 DEF Claiming
          <5>2. QED
            BY <1>0, <5>1 DEF Grants
        <4>3. QED
          BY <4>1, <4>2
      <3>8. ASSUME NEW u \in Tasks, NEW w \in Tasks, Claiming(u)', Claiming(w)',
                   op'[w].epoch = op'[u].epoch
            PROVE  w = u
        <4>0. op[u].epoch \in Nat /\ op[w].epoch \in Nat
          BY <1>0 DEF Shape, Ops
        <4>1. CASE u = t /\ w # t
          BY <1>1, <2>1, <3>1, <3>2, <3>4, <3>8, <4>0, <4>1
        <4>2. CASE w = t /\ u # t
          BY <1>1, <2>1, <3>1, <3>2, <3>4, <3>8, <4>0, <4>2
        <4>3. CASE u # t /\ w # t
          <5>1. Claiming(u) /\ Claiming(w) /\ op[w].epoch = op[u].epoch
            BY <3>1, <3>8, <4>3 DEF Claiming
          <5>2. QED
            BY <1>0, <5>1 DEF Grants
        <4>4. QED
          BY <4>1, <4>2, <4>3
      <3>9. \A h, k \in Handles : epoch[h] = epoch[k] /\ epoch[h] # 0 => h = k
        BY <1>0 DEF Grants
      <3>10. QED
        BY <1>4, <3>5, <3>6, <3>7, <3>8, <3>9 DEF Grants
    <2>5. latest' = latest \/ latest' = [latest EXCEPT ![Store(t)] = NoPosition]
      BY DEF Invalidated
    <2>6. epoch' \in [Handles -> Nat] /\ late' \subseteq Writes
      BY <1>0 DEF Shape
    <2>7. QED
      BY <1>3, <2>3, <2>4, <2>5, <2>6, IdleOk, ActorSuffices
  <1>8. QED
    BY <1>6, <1>7

(* write, whatever becomes of it.                                          *)
LEMMA PutInv ==
  ASSUME Inv, NEW t \in Tasks, Put(t)
  PROVE  Inv'
  <1> DEFINE m == Successor(t)
             r == [m |-> m, age |-> op[t].age]
  <1>0. Shape /\ op[t].phase = "put" /\ epoch' = epoch
    BY DEF Inv, Put
  <1>1. ASSUME m.version \notin DOMAIN files, Create(m),
               Now(t, {[op[t] EXCEPT !.phase = "landed", !.age = a] : a \in 0 .. op[t].age}),
               UNCHANGED <<late, latest>>
        PROVE  Inv'
    <2>1. PICK a \in 0 .. op[t].age :
            op' = [op EXCEPT ![t] = [op[t] EXCEPT !.phase = "landed", !.age = a]]
      BY <1>1 DEF Now
    <2> DEFINE o == [op[t] EXCEPT !.phase = "landed", !.age = a]
    <2>2. op[t] \in Ops /\ op[t].age \in Nat /\ op[t].age <= Cap
      BY <1>0 DEF Shape, Ops
    <2>3. a \in Nat /\ a <= Cap
      <3>1. Cap \in Nat
        BY <2>2, Ages
      <3>2. QED
        BY <2>2, <3>1
    <2>4. o \in Ops /\ o.age = a
      BY <2>2, <2>3 DEF Ops
    <2>5. o.age <= Cap /\ o = [op[t] EXCEPT !.phase = "landed", !.age = o.age]
      BY <2>3, <2>4
    <2>6. op' = [op EXCEPT ![t] = o]
      BY <2>1
    <2> HIDE DEF o
    <2>7. QED
      BY <1>0, <1>1, <2>4, <2>5, <2>6, PutCreatesInv
  <1>2. ASSUME NEW conflict \in BOOLEAN, Now(t, Rejected(t, conflict)),
               latest' = Invalidated(Store(t)), files' = files,
               late' = late \/ late' = late \cup {r}
        PROVE  Inv'
    <2>1. PICK o \in Rejected(t, conflict) : op' = [op EXCEPT ![t] = o]
      BY <1>2 DEF Now
    <2>2. o \in Ops /\ OpOk(o) /\ o.age <= Cap /\ o.phase # "landed"
      BY <1>0, <2>1, RejectedOk
    <2>3. latest' = [latest EXCEPT ![Store(t)] = NoPosition]
      BY <1>2 DEF Invalidated
    <2>4. late' \subseteq Writes /\ \A x \in late' : x \in late \/ LateOk(x)
      BY <1>0, <1>2, LateStarts DEF Shape
    <2>5. QED
      BY <1>0, <1>2, <2>1, <2>2, <2>3, <2>4, IdleOk, QuietSuffices
  <1>3. ASSUME Now(t, Rejected(t, FALSE)), m.version \notin DOMAIN files, Create(m),
               latest' = Invalidated(Store(t)), late' = late
        PROVE  Inv'
    <2>1. PICK o \in Rejected(t, FALSE) : op' = [op EXCEPT ![t] = o]
      BY <1>3 DEF Now
    <2>2. o \in Ops /\ OpOk(o) /\ o.age <= Cap /\ o.phase \in {"idle", "scan"}
      BY <1>0, <2>1, RejectedOk
    <2>3. QED
      BY <1>0, <1>3, <2>1, <2>2, PutCreatesInv
  <1>4. QED
    BY <1>1, <1>2, <1>3 DEF Put

(* The write returns: its version becomes the store's position, and a      *)
(* claim is granted.                                                       *)
LEMMA LandedInv ==
  ASSUME Inv, NEW t \in Tasks, Landed(t)
  PROVE  Inv'
  <1> DEFINE h == Store(t)
             p == Written(op[t])
  <1>0. /\ Shape /\ Contiguous /\ Rising /\ Grants /\ TipOk /\ h \in Handles
        /\ op[t] \in Ops /\ op[t].phase = "landed" /\ PositionOk(p)
        /\ UNCHANGED <<files, late>> /\ op' = [op EXCEPT ![t] = Idle]
    BY TipFacts, ShardManifestAssumption DEF Inv, Store, Shape, OpOk, Landed, Now
  <1>1. op[t].cur \in Nat /\ op[t].epoch \in Nat /\ op[t].age \in Nat
    BY <1>0 DEF Ops
  <1>2. p \in Position /\ [version |-> Successor(t).version, epoch |-> Successor(t).epoch,
                           age |-> op[t].age] = p
    BY <1>1 DEF Written, Position, Successor
  <1>3. latest' = latest \/ latest' = [latest EXCEPT ![h] = p]
    BY <1>2 DEF Landed, Cached
  <1>4. /\ op[t].kind = "claim" => Claiming(t) /\ epoch' = [epoch EXCEPT ![h] = op[t].epoch + 1]
        /\ op[t].kind # "claim" => epoch' = epoch
    BY <1>0 DEF Landed, Claiming, Successor
  <1>5. Advance /\ Tip' = Tip /\ Contiguous' /\ Rising'
    BY <1>0, SameFiles DEF Advance, Rising
  <1>6. epoch' \in [Handles -> Nat] /\ late' \subseteq Writes
    BY <1>0, <1>1, <1>4 DEF Shape
  <1>7. Shape'
    BY <1>0, <1>2, <1>3, <1>6, IdleOk DEF Shape, Cap
  <1>8. \A u \in Tasks : Claiming(u)' => u # t /\ Claiming(u) /\ op'[u] = op[u]
    BY <1>0 DEF Claiming, Shape, Idle
  <1>9. Grants'
    <2>1. CASE op[t].kind # "claim"
      <3>1. Tip # 0 => Tip' # 0 /\ files[Tip].epoch <= files'[Tip'].epoch
        BY <1>0, <1>5 DEF TipOk, Shape, Contents
      <3>2. QED
        BY <1>4, <1>5, <1>7, <1>8, <2>1, <3>1, GrantsStay
    <2>2. CASE op[t].kind = "claim"
      <3>1. /\ epoch' = [epoch EXCEPT ![h] = op[t].epoch + 1] /\ Claiming(t)
            /\ epoch'[h] = op[t].epoch + 1
            /\ \A k \in Handles \ {h} : epoch'[k] = epoch[k]
        BY <1>0, <1>4, <2>2 DEF Shape
      <3>2. op[t].cur + 1 <= Tip /\ Tip # 0 /\ files[Tip].epoch \in Nat
        <4>1. op[t].cur + 1 <= Tip
          BY <1>0, <1>1 DEF PositionOk, Written
        <4>2. Tip # 0
          BY <1>1, <4>1
        <4>3. QED
          BY <1>0, <4>1, <4>2 DEF TipOk, Shape, Contents
      <3>3. op[t].epoch + 1 <= files[Tip].epoch /\ \A k \in Handles : epoch[k] # op[t].epoch + 1
        BY <1>0, <1>1, <3>1, <3>2 DEF Grants
      <3>4. \A k \in Handles : epoch'[k] # 0 => Tip' # 0 /\ epoch'[k] <= files'[Tip'].epoch
        BY <1>0, <1>5, <3>1, <3>2, <3>3 DEF Grants
      <3>5. \A j, k \in Handles : epoch'[j] = epoch'[k] /\ epoch'[j] # 0 => j = k
        BY <1>0, <3>1, <3>3 DEF Grants
      <3>6. ASSUME NEW u \in Tasks, Claiming(u)'
            PROVE  /\ op'[u].epoch < files'[Tip'].epoch
                   /\ \A k \in Handles : epoch'[k] # op'[u].epoch + 1
        <4>1. u # t /\ Claiming(u) /\ op'[u] = op[u] /\ op[u].epoch \in Nat
          BY <1>0, <1>8, <3>6 DEF Shape, Ops
        <4>2. op[u].epoch # op[t].epoch
          BY <1>0, <3>1, <4>1 DEF Grants
        <4>3. \A k \in Handles : epoch'[k] # op'[u].epoch + 1
          BY <1>0, <1>1, <3>1, <4>1, <4>2 DEF Grants
        <4>4. QED
          BY <1>0, <1>5, <4>1, <4>3 DEF Grants
      <3>7. \A u, w \in Tasks : Claiming(u)' /\ Claiming(w)' /\ op'[w].epoch = op'[u].epoch => w = u
        BY <1>0, <1>8 DEF Grants
      <3>8. QED
        BY <3>4, <3>5, <3>6, <3>7 DEF Grants
    <2>3. QED
      BY <2>1, <2>2
  <1>10. QED
    BY <1>0, <1>2, <1>3, <1>5, <1>6, <1>9, IdleOk, ActorSuffices

-----------------------------------------------------------------------------
(* The object store, pruning and time                                      *)

(* What a step of no task has to show.                                     *)
LEMMA EnvironmentSuffices ==
  ASSUME Inv, Advance, Rising', UNCHANGED <<latest, epoch, op>>, late' \subseteq late,
         Tip # 0 => Tip' # 0 /\ files[Tip].epoch <= files'[Tip'].epoch
  PROVE  Inv'
  <1>0. Shape /\ Contiguous /\ Contiguous'
    BY DEF Inv, Advance
  <1>1. Shape'
    <2>1. files' \in [DOMAIN files' -> Contents] /\ \A v \in DOMAIN files' : files'[v].age <= MinPruneAge
      BY <1>0, ShardManifestAssumption DEF Shape, Advance
    <2>2. QED
      BY <1>0, <2>1 DEF Shape, Cap
  <1>2. Grants'
    BY <1>0, <1>1, GrantsStay DEF Claiming
  <1>3. ASSUME NEW h \in Handles PROVE PositionOk(latest[h])'
    <2>1. PICK q \in Position : q = latest[h]
      BY <1>0 DEF Shape
    <2>2. PositionOk(q)
      BY <2>1 DEF Inv, PositionOk
    <2>3. PositionOk(q)'
      BY <1>0, <2>2, PositionStays
    <2>4. QED
      BY <2>1, <2>3 DEF PositionOk
  <1>4. ASSUME NEW t \in Tasks PROVE OpOk(op[t])'
    <2>1. PICK q \in Ops : q = op[t]
      BY <1>0 DEF Shape
    <2>2. OpOk(q)
      BY <2>1 DEF Inv, OpOk, ScanOk, PutOk, Written
    <2>3. OpOk(q)'
      BY <1>0, <2>2, OpStays
    <2>4. QED
      BY <2>1, <2>3 DEF OpOk, ScanOk, PutOk, Written
  <1>5. ASSUME NEW r \in late' PROVE LateOk(r)'
    BY <1>0, <1>5, LateStays DEF Inv, Shape
  <1>6. QED
    BY <1>0, <1>1, <1>2, <1>3, <1>4, <1>5 DEF Inv

(* A write that was given up on creates the version after the newest one,  *)
(* if it creates any.                                                      *)
LEMMA ApplyLateInv ==
  ASSUME Inv, ApplyLate
  PROVE  Inv'
  <1>0. Shape /\ Contiguous /\ Rising /\ TipOk /\ UNCHANGED <<latest, epoch, op>>
    BY TipFacts DEF Inv, ApplyLate
  <1>1. PICK r \in late : /\ late' = late \ {r}
                          /\ \/ r.m.version \notin DOMAIN files /\ Create(r.m)
                             \/ UNCHANGED files
    BY DEF ApplyLate
  <1>2. r \in Writes /\ LateOk(r) /\ r.m \in [version : Nat, epoch : Nat]
    BY <1>0 DEF Inv, Shape, Writes
  <1>3. CASE r.m.version \notin DOMAIN files /\ Create(r.m)
    <2>0. r.m.version \in Nat /\ (r.m.version - 1) + 1 = r.m.version
      BY <1>2
    <2>1. r.m.version - 1 = Tip
      BY <1>2, <1>3, <2>0 DEF LateOk, Newest
    <2>2. r.m.version = Tip + 1 /\ (Tip # 0 => files[Tip].epoch <= r.m.epoch)
      BY <1>0, <1>2, <2>0, <2>1 DEF LateOk, TipOk
    <2>3. /\ Advance /\ Rising' /\ Tip' = Tip + 1
          /\ files'[Tip'] = [epoch |-> r.m.epoch, age |-> 0]
      BY <1>2, <1>3, <2>2, CreateAdvances
    <2>4. Tip' # 0 /\ files'[Tip'].epoch = r.m.epoch
      BY <1>0, <2>3 DEF TipOk
    <2>5. QED
      BY <1>0, <1>1, <2>2, <2>3, <2>4, EnvironmentSuffices
  <1>4. CASE UNCHANGED files
    <2>1. Advance /\ Tip' = Tip /\ Rising'
      BY <1>0, <1>4, SameFiles DEF Rising
    <2>2. Tip # 0 => Tip' # 0 /\ files[Tip].epoch <= files'[Tip'].epoch
      BY <1>0, <1>4, <2>1 DEF TipOk, Shape, Contents
    <2>3. QED
      BY <1>0, <1>1, <2>1, <2>2, EnvironmentSuffices
  <1>5. QED
    BY <1>1, <1>3, <1>4

(* Pruning takes the oldest version, and never the newest.                 *)
LEMMA PruneInv ==
  ASSUME Inv, Prune
  PROVE  Inv'
  <1>0. /\ Shape /\ Contiguous /\ Rising /\ TipOk /\ UNCHANGED <<late, latest, epoch, op>>
    BY TipFacts DEF Inv, Prune
  <1>1. PICK v \in Prunable : files' = [u \in DOMAIN files \ {v} |-> files[u]]
    BY DEF Prune
  <1>2. v \in DOMAIN files /\ v = Min(DOMAIN files) /\ v < Tip /\ files[v].age >= MinPruneAge
    BY <1>1 DEF Prunable
  <1>3. PICK lo \in 1..(Tip + 1) : DOMAIN files = lo..Tip
    BY <1>0 DEF Contiguous
  <1>4. PICK T \in Nat : T = Tip
    BY <1>0 DEF TipOk
  <1>5. v = lo
    <2>1. DOMAIN files \subseteq Nat /\ lo \in DOMAIN files /\ \A x \in DOMAIN files : lo <= x
      BY <1>2, <1>3, <1>4
    <2>2. QED
      BY <1>2, <2>1, MinIs
  <1>6. /\ DOMAIN files' = DOMAIN files \ {lo}
        /\ \A u \in DOMAIN files' : files'[u] = files[u]
    BY <1>1, <1>5
  <1>7. DOMAIN files' = (lo + 1)..T /\ lo + 1 \in Nat /\ 1 <= lo + 1 /\ lo + 1 <= T
    BY <1>2, <1>3, <1>4, <1>5, <1>6
  <1>8. Tip' = T /\ Contiguous'
    BY <1>4, <1>7, TipOfNext DEF EndsAtTip
  <1>9. Advance
    <2>1. files' \in [DOMAIN files' -> Contents]
      BY <1>0, <1>1, <1>6 DEF Shape
    <2>2. QED
      BY <1>2, <1>4, <1>5, <1>6, <1>8, <2>1 DEF Advance
  <1>10. Rising'
    BY <1>0, <1>6 DEF Rising
  <1>11. Tip # 0 => Tip' # 0 /\ files[Tip].epoch <= files'[Tip'].epoch
    BY <1>0, <1>2, <1>4, <1>5, <1>6, <1>8 DEF TipOk, Shape, Contents
  <1>12. QED
    BY <1>0, <1>9, <1>10, <1>11, EnvironmentSuffices

(* Files age by at most one.                                               *)
LEMMA TickFiles ==
  ASSUME Inv, Tick
  PROVE  /\ DOMAIN files' = DOMAIN files /\ Tip' = Tip /\ Contiguous'
         /\ files' \in [DOMAIN files' -> Contents]
         /\ \A v \in DOMAIN files :
              /\ files'[v].epoch = files[v].epoch
              /\ files'[v].age <= files[v].age + 1
              /\ files'[v].age <= MinPruneAge
  <1>0. Shape /\ Contiguous /\ MinPruneAge \in Nat
    BY ShardManifestAssumption DEF Inv
  <1>1. files' = [v \in DOMAIN files |-> [files[v] EXCEPT !.age = Min({@ + 1, MinPruneAge})]]
    BY DEF Tick
  <1>2. DOMAIN files' = DOMAIN files
    BY <1>1
  <1>3. Tip' = Tip
    BY <1>2 DEF Tip
  <1>4. ASSUME NEW v \in DOMAIN files
        PROVE  /\ files'[v] \in Contents
               /\ files'[v].epoch = files[v].epoch
               /\ files'[v].age <= files[v].age + 1
               /\ files'[v].age <= MinPruneAge
    <2>1. files[v] \in Contents
      BY <1>0 DEF Shape
    <2>2. files[v].epoch \in Nat /\ files[v].age \in Nat /\ files[v].age + 1 \in Nat
      BY <2>1 DEF Contents
    <2>3. PICK a : a = Min({files[v].age + 1, MinPruneAge})
      OBVIOUS
    <2>4. a \in Nat /\ a <= files[v].age + 1 /\ a <= MinPruneAge
      BY <1>0, <2>2, <2>3, MinOfTwo
    <2>5. files'[v] = [files[v] EXCEPT !.age = a]
      BY <1>1, <2>3
    <2>6. files'[v] \in Contents /\ files'[v].epoch = files[v].epoch /\ files'[v].age = a
      BY <2>1, <2>4, <2>5 DEF Contents
    <2>7. QED
      BY <2>4, <2>6
  <1>5. files' \in [DOMAIN files' -> Contents]
    BY <1>1, <1>2, <1>4
  <1>6. Contiguous'
    BY <1>0, <1>2, <1>3 DEF Contiguous
  <1>7. QED
    BY <1>2, <1>3, <1>4, <1>5, <1>6

(* So what was newest a ago was newest a + 1 ago a tick later.             *)
LEMMA TickNewest ==
  ASSUME Inv, Tick, NEW v \in Nat, NEW a \in Nat, Newest(v, a)
  PROVE  Newest(v, a + 1)'
  <1>1. CASE v = Tip
    BY <1>1, TickFiles DEF Newest
  <1>2. CASE v + 1 \in DOMAIN files /\ files[v + 1].age <= a
    <2>1. files[v + 1].age \in Nat /\ files'[v + 1].age \in Nat
      BY <1>2, TickFiles DEF Inv, Shape, Contents
    <2>2. files'[v + 1].age <= a + 1
      BY <1>2, <2>1, TickFiles
    <2>3. QED
      BY <1>2, <2>2, TickFiles DEF Newest
  <1>3. QED
    BY <1>1, <1>2 DEF Newest

(* A position ages with the files.                                         *)
LEMMA TickPosition ==
  ASSUME Inv, Tick, NEW p \in Position, PositionOk(p), NEW q \in Position,
         q.version = p.version, q.epoch = p.epoch, q.age = Older(p.age)
  PROVE  PositionOk(q)'
  <1>0. p.version \in Nat /\ p.epoch \in Nat /\ p.age \in Nat
    BY DEF Position
  <1>1. SUFFICES ASSUME p.version # 0
        PROVE  /\ q.version <= Tip'
               /\ OfEpoch(q.version, q.epoch)'
               /\ q.age <= MaxPositionAge => Newest(q.version, q.age)'
    BY DEF PositionOk
  <1>2. /\ p.version <= Tip /\ OfEpoch(p.version, p.epoch)
        /\ p.age <= MaxPositionAge => Newest(p.version, p.age)
    BY <1>1 DEF PositionOk
  <1>3. OfEpoch(q.version, q.epoch)'
    BY <1>2, TickFiles DEF OfEpoch
  <1>4. ASSUME q.age <= MaxPositionAge PROVE Newest(q.version, q.age)'
    <2>1. q.age = p.age + 1 /\ p.age <= MaxPositionAge
      BY <1>0, <1>4, Ages, ShardManifestAssumption
    <2>2. Newest(p.version, p.age + 1)'
      BY <1>0, <1>2, <2>1, TickNewest
    <2>3. QED
      BY <2>1, <2>2 DEF Newest
  <1>5. q.version <= Tip'
    BY <1>2, TickFiles
  <1>6. QED
    BY <1>3, <1>4, <1>5

(* An operation ages, and no attempt outlives its limit.                   *)
LEMMA TickOp ==
  ASSUME Inv, Tick, NEW o \in Ops, OpOk(o), o.phase # "idle",
         o.phase \in {"scan", "put"} => o.age < MaxStall,
         NEW q \in Ops, q = [o EXCEPT !.age = Older(@)]
  PROVE  OpOk(q)'
  <1>0. /\ o.cur \in Nat /\ o.epoch \in Nat /\ o.age \in Nat
        /\ q.kind = o.kind /\ q.phase = o.phase /\ q.cur = o.cur /\ q.epoch = o.epoch
        /\ q.age = Older(o.age)
        /\ MaxStall \in Nat /\ MaxPositionAge \in Nat
        /\ Tip' = Tip
    BY ShardManifestAssumption, TickFiles DEF Ops
  <1>1. ASSUME o.phase = "scan" PROVE OpOk(q)'
    <2>1. ScanOk(o) /\ q.age = o.age + 1 /\ q.age <= MaxStall
      BY <1>0, <1>1, Ages DEF OpOk
    <2>2. q.cur = 0 => Newest(0, q.age)'
      <3>1. q.cur = 0 => Newest(0, o.age + 1)'
        BY <1>0, <2>1, TickNewest DEF ScanOk
      <3>2. QED
        BY <2>1, <3>1 DEF Newest
    <2>3. ScanOk(q)'
      BY <1>0, <2>1, <2>2 DEF ScanOk
    <2>4. QED
      BY <1>0, <1>1, <2>3 DEF OpOk
  <1>2. ASSUME o.phase = "put" PROVE OpOk(q)'
    <2>1. PutOk(o) /\ q.age = o.age + 1 /\ q.age <= MaxStall
            /\ q.age + MaxPositionAge = (o.age + MaxPositionAge) + 1
            /\ o.age + MaxPositionAge \in Nat
      BY <1>0, <1>2, Ages DEF OpOk
    <2>2. Newest(q.cur, q.age + MaxPositionAge)'
      <3>1. Newest(o.cur, (o.age + MaxPositionAge) + 1)'
        BY <1>0, <2>1, TickNewest DEF PutOk
      <3>2. QED
        BY <1>0, <2>1, <3>1 DEF Newest
    <2>3. OfEpoch(q.cur, q.epoch)'
      BY <1>0, <2>1, TickFiles DEF PutOk, OfEpoch
    <2>4. PutOk(q)'
      BY <1>0, <2>1, <2>2, <2>3 DEF PutOk
    <2>5. QED
      BY <1>0, <1>2, <2>4 DEF OpOk
  <1>3. ASSUME o.phase = "landed" PROVE OpOk(q)'
    <2>1. PICK w \in Position : w = Written(o)
      BY WrittenType
    <2>2. PICK x \in Position : x = Written(q)
      BY WrittenType
    <2>3. PositionOk(w)
      BY <1>3, <2>1 DEF OpOk, PositionOk
    <2>4. x.version = w.version /\ x.epoch = w.epoch /\ x.age = Older(w.age)
      BY <1>0, <2>1, <2>2 DEF Written
    <2>5. PositionOk(x)'
      BY <2>3, <2>4, TickPosition
    <2>6. PositionOk(Written(q))'
      BY <2>2, <2>5 DEF PositionOk, Written
    <2>7. QED
      BY <1>0, <1>3, <2>6 DEF OpOk
  <1>4. QED
    BY <1>1, <1>2, <1>3 DEF Ops

(* Time passes.                                                            *)
LEMMA TickInv ==
  ASSUME Inv, Tick
  PROVE  Inv'
  <1>0. Shape /\ Contiguous /\ Rising /\ TipOk /\ UNCHANGED epoch
    BY TipFacts DEF Inv, Tick
  <1>1. /\ latest' = [h \in Handles |-> IF latest[h].version = 0 THEN NoPosition
                                        ELSE [latest[h] EXCEPT !.age = Older(@)]]
        /\ op' = [t \in Tasks |-> IF op[t].phase = "idle" THEN op[t]
                                  ELSE [op[t] EXCEPT !.age = Older(@)]]
        /\ late' = {[r EXCEPT !.age = @ + 1] : r \in late}
        /\ \A t \in Tasks : op[t].phase \in {"scan", "put"} => op[t].age < MaxStall
        /\ \A r \in late : r.age < MaxStall
    BY DEF Tick
  <1>2. ASSUME NEW h \in Handles
        PROVE  latest'[h] \in Position /\ PositionOk(latest[h])'
    <2>1. PICK p \in Position : p = latest[h]
      BY <1>0 DEF Shape
    <2>2. CASE p.version = 0
      <3>1. latest'[h] = NoPosition
        BY <1>1, <2>1, <2>2
      <3>2. QED
        BY <3>1 DEF PositionOk, NoPosition, Position
    <2>3. CASE p.version # 0
      <3>1. p.age \in Nat /\ Older(p.age) \in Nat
        BY Ages DEF Position
      <3>2. PICK q : q = [p EXCEPT !.age = Older(@)]
        OBVIOUS
      <3>3. q \in Position /\ q.version = p.version /\ q.epoch = p.epoch /\ q.age = Older(p.age)
        BY <3>1, <3>2 DEF Position
      <3>4. latest'[h] = q
        BY <1>1, <2>1, <2>3, <3>2
      <3>5. PositionOk(p)
        BY <2>1 DEF Inv, PositionOk
      <3>6. PositionOk(q)'
        BY <3>3, <3>5, TickPosition
      <3>7. QED
        BY <3>3, <3>4, <3>6 DEF PositionOk
    <2>4. QED
      BY <2>2, <2>3
  <1>3. ASSUME NEW t \in Tasks
        PROVE  /\ op'[t] \in Ops /\ op'[t].age <= Cap /\ OpOk(op[t])'
               /\ op'[t].kind = op[t].kind /\ op'[t].phase = op[t].phase
               /\ op'[t].epoch = op[t].epoch
    <2>1. PICK o \in Ops : o = op[t]
      BY <1>0 DEF Shape
    <2>2. OpOk(o) /\ o.age \in Nat /\ o.age <= Cap
      BY <1>0, <2>1 DEF Inv, OpOk, ScanOk, PutOk, Written, Shape, Ops
    <2>3. CASE o.phase = "idle"
      <3>1. op'[t] = o
        BY <1>1, <2>1, <2>3
      <3>2. QED
        BY <2>1, <2>2, <2>3, <3>1 DEF OpOk
    <2>4. CASE o.phase # "idle"
      <3>1. PICK q : q = [o EXCEPT !.age = Older(@)]
        OBVIOUS
      <3>2. Older(o.age) \in Nat /\ Older(o.age) <= Cap
        BY <2>2, Ages
      <3>3. /\ q \in Ops /\ q.age = Older(o.age) /\ q.kind = o.kind /\ q.phase = o.phase
            /\ q.epoch = o.epoch
        BY <3>1, <3>2 DEF Ops
      <3>4. op'[t] = q
        BY <1>1, <2>1, <2>4, <3>1
      <3>5. OpOk(q)'
        BY <1>1, <2>1, <2>2, <2>4, <3>1, <3>3, TickOp
      <3>6. QED
        BY <2>1, <3>2, <3>3, <3>4, <3>5 DEF OpOk, ScanOk, PutOk, Written
    <2>5. QED
      BY <2>3, <2>4
  <1>4. ASSUME NEW r \in late' PROVE r \in Writes /\ LateOk(r)'
    <2>1. PICK w \in late : r = [w EXCEPT !.age = @ + 1]
      BY <1>1
    <2>2. /\ w \in Writes /\ w.age < MaxStall /\ LateOk(w)
      BY <1>0, <1>1, <2>1 DEF Shape, Inv
    <2>3. w.m.version \in Nat /\ w.m.epoch \in Nat /\ w.age \in Nat
      BY <2>2 DEF Writes
    <2>4. r \in Writes /\ r.m = w.m /\ r.age = w.age + 1
      BY <2>1, <2>2, <2>3 DEF Writes
    <2>5. PICK v \in Nat : v = w.m.version - 1 /\ w.m.version = v + 1
      <3>1. w.m.version - 1 \in Nat /\ w.m.version = (w.m.version - 1) + 1
        BY <2>2, <2>3 DEF LateOk
      <3>2. QED
        BY <3>1
    <2>6. /\ w.age + MaxPositionAge \in Nat
          /\ r.age + MaxPositionAge = (w.age + MaxPositionAge) + 1 /\ r.age <= MaxStall
      BY <2>2, <2>3, <2>4, ShardManifestAssumption
    <2>7. Newest(v, w.age + MaxPositionAge)
      BY <2>2, <2>5 DEF LateOk
    <2>8. Newest(v, (w.age + MaxPositionAge) + 1)'
      BY <2>5, <2>6, <2>7, TickNewest
    <2>9. Newest(r.m.version - 1, r.age + MaxPositionAge)'
      BY <2>4, <2>5, <2>6, <2>8 DEF Newest
    <2>10. r.m.version - 1 \in DOMAIN files' => files'[r.m.version - 1].epoch <= r.m.epoch
      BY <2>2, <2>4, TickFiles DEF LateOk
    <2>11. r.m.version # 0 /\ r.m.version <= Tip' + 1
      BY <2>2, <2>4, TickFiles DEF LateOk
    <2>12. QED
      BY <2>4, <2>6, <2>9, <2>10, <2>11 DEF LateOk
  <1>5. Shape'
    <2>1. latest' \in [Handles -> Position]
      BY <1>1, <1>2
    <2>2. op' \in [Tasks -> Ops] /\ \A t \in Tasks : op'[t].age <= Cap
      BY <1>1, <1>3
    <2>3. files' \in [DOMAIN files' -> Contents] /\ \A v \in DOMAIN files' : files'[v].age <= MinPruneAge
      BY TickFiles
    <2>4. late' \subseteq Writes /\ epoch' \in [Handles -> Nat]
      BY <1>0, <1>4 DEF Shape
    <2>5. QED
      BY <2>1, <2>2, <2>3, <2>4 DEF Shape, Cap
  <1>6. Rising'
    BY <1>0, TickFiles DEF Rising
  <1>7. Grants'
    <2>1. Tip # 0 => Tip' # 0 /\ files[Tip].epoch <= files'[Tip'].epoch
      BY <1>0, TickFiles DEF TipOk, Shape, Contents
    <2>2. \A t \in Tasks : Claiming(t)' => Claiming(t) /\ op'[t].epoch = op[t].epoch
      BY <1>3 DEF Claiming
    <2>3. QED
      BY <1>0, <1>5, <2>1, <2>2, TickFiles, GrantsStay
  <1>8. QED
    BY <1>2, <1>3, <1>4, <1>5, <1>6, <1>7, TickFiles DEF Inv

-----------------------------------------------------------------------------
(* The results                                                             *)

(* An empty shard.                                                         *)
LEMMA InitInv == Init => Inv
  <1>1. SUFFICES ASSUME Init PROVE Inv
    OBVIOUS
  <1>2. DOMAIN files = {} /\ Tip = 0
    BY <1>1 DEF Init, Tip
  <1>3. Idle \in Ops /\ Idle.age = 0 /\ 0 <= Cap /\ Idle.phase = "idle" /\ Idle.cur = 0
    BY Ages DEF Idle, Ops, Kinds
  <1>4. Shape
    <2>1. files \in [DOMAIN files -> Contents]
      BY <1>1, <1>2 DEF Init
    <2>2. latest \in [Handles -> Position] /\ epoch \in [Handles -> Nat] /\ late \subseteq Writes
      BY <1>1 DEF Init, NoPosition, Position
    <2>3. op \in [Tasks -> Ops] /\ \A t \in Tasks : op[t].age <= Cap
      BY <1>1, <1>3 DEF Init
    <2>4. QED
      BY <1>2, <2>1, <2>2, <2>3 DEF Shape
  <1>5. Contiguous
    <2>1. 1 \in 1..(0 + 1) /\ 1..0 = {}
      OBVIOUS
    <2>2. QED
      BY <1>2, <2>1 DEF Contiguous
  <1>6. Rising /\ Grants
    BY <1>1, <1>2, <1>3 DEF Rising, Grants, Init, Claiming
  <1>7. QED
    BY <1>1, <1>3, <1>4, <1>5, <1>6 DEF Inv, Init, PositionOk, NoPosition, OpOk

(* Every step preserves the invariant.                                     *)
LEMMA NextInv ==
  ASSUME Inv, [Next]_vars
  PROVE  Inv'
  <1>1. CASE UNCHANGED vars
    <2>1. UNCHANGED <<files, late, latest, epoch, op>>
      BY <1>1 DEF vars
    <2>2. Shape /\ Contiguous /\ Rising
      BY DEF Inv
    <2>3. Advance /\ Tip' = Tip /\ Rising'
      BY <2>1, <2>2, SameFiles DEF Rising
    <2>4. Tip # 0 => Tip' # 0 /\ files[Tip].epoch <= files'[Tip'].epoch
      BY <2>1, <2>2, <2>3, TipFacts DEF TipOk, Shape, Contents
    <2>5. QED
      BY <2>1, <2>3, <2>4, EnvironmentSuffices
  <1>2. QED
    BY <1>1, BeginInv, CommitUpdateInv, AdoptInv, PutInv, LandedInv, ApplyLateInv, PruneInv,
       TickInv DEF Next

(* The invariant holds in every reachable state.                           *)
THEOREM Invariance == Spec => []Inv
  BY InitInv, NextInv, PTL DEF Spec

(* Every variable keeps its shape, and no position or operation is ahead   *)
(* of the versions that were written.                                      *)
THEOREM TypeCorrect == Spec => []TypeOK
  <1>1. ASSUME Inv PROVE TypeOK
    <2>0. Shape /\ Contiguous /\ TipOk /\ MaxStall \in Nat /\ MinPruneAge \in Nat /\ Cap \in Nat
      BY <1>1, TipFacts, Ages, ShardManifestAssumption DEF Inv
    <2>1. DOMAIN files \subseteq Nat \ {0}
      BY <2>0 DEF TipOk
    <2>2. \A v \in DOMAIN files : files[v].epoch \in Nat /\ files[v].age \in 0 .. MinPruneAge
      BY <2>0 DEF Shape, Contents
    <2>3. \A r \in late : {r.m.version, r.m.epoch} \subseteq Nat /\ r.age \in 0 .. MaxStall
      <3>1. SUFFICES ASSUME NEW r \in late
            PROVE  {r.m.version, r.m.epoch} \subseteq Nat /\ r.age \in 0 .. MaxStall
        OBVIOUS
      <3>2. r \in Writes /\ LateOk(r)
        BY <1>1, <2>0 DEF Inv, Shape
      <3>3. r.m.version \in Nat /\ r.m.epoch \in Nat /\ r.age \in Nat /\ r.age <= MaxStall
        BY <3>2 DEF Writes, LateOk
      <3>4. QED
        BY <2>0, <3>3
    <2>4. \A h \in Handles : latest[h] \in Position /\ latest[h].version <= Tip
      BY <1>1, <2>0 DEF Inv, Shape, PositionOk, TipOk
    <2>5. ASSUME NEW t \in Tasks
          PROVE  /\ op[t].kind \in {"none", "claim", "commit", "init", "check"}
                 /\ op[t].phase \in {"idle", "scan", "put", "landed"}
                 /\ op[t].age \in 0 .. Cap /\ op[t].cur <= Tip
      <3>1. op[t] \in Ops /\ OpOk(op[t]) /\ op[t].age <= Cap
        BY <1>1, <2>0 DEF Inv, Shape
      <3>2. op[t].cur \in Nat /\ op[t].age \in Nat
              /\ op[t].phase \in {"idle", "scan", "put", "landed"} /\ op[t].kind \in Kinds
        BY <3>1 DEF Ops
      <3>3. op[t].cur <= Tip
        BY <2>0, <3>1, <3>2 DEF OpOk, ScanOk, PutOk, PositionOk, Written, TipOk
      <3>4. QED
        BY <2>0, <3>1, <3>2, <3>3 DEF Kinds
    <2>6. QED
      BY <2>0, <2>1, <2>2, <2>3, <2>4, <2>5 DEF TypeOK, Shape
  <1>2. QED
    BY <1>1, Invariance, PTL

(* Fencing: epochs never go back, and no epoch is granted twice.           *)
THEOREM Fencing == Spec => []EpochsFence
  <1>1. ASSUME Inv PROVE EpochsFence
    <2>0. Shape /\ TipOk
      BY <1>1, TipFacts DEF Inv
    <2>1. \A v \in DOMAIN files : v + 1 \in DOMAIN files => files[v + 1].epoch >= files[v].epoch
      BY <1>1, <2>0 DEF Inv, Rising, Shape, Contents
    <2>2. QED
      BY <1>1, <2>1 DEF Inv, Grants, EpochsFence
  <1>2. QED
    BY <1>1, Invariance, PTL

(* refresh_latest reads the newest version, or one that is gone.           *)
THEOREM CurrentRefresh == Spec => []RefreshIsCurrent
  <1>1. Inv => RefreshIsCurrent
    BY FoundIsTip DEF RefreshIsCurrent
  <1>2. QED
    BY <1>1, Invariance, PTL

(* No version is written twice and none is skipped, although pruning       *)
(* removes the files that would reject a second write.                     *)
THEOREM WrittenOnce == Spec => NeverRewritten
  <1>1. ASSUME Inv, Inv', Next
        PROVE  /\ DOMAIN files' \ DOMAIN files \subseteq {Tip + 1}
               /\ \A v \in DOMAIN files' \ {Tip'} : v + 1 \in DOMAIN files'
    <2>0. Shape /\ Contiguous /\ TipOk /\ TipOk'
      BY <1>1, TipFacts, TipFactsNext DEF Inv
    <2>1. \A v \in DOMAIN files' \ {Tip'} : v + 1 \in DOMAIN files'
      BY <2>0 DEF TipOk
    <2>2. ASSUME NEW m, m.version = Tip + 1, Create(m)
          PROVE  DOMAIN files' \ DOMAIN files \subseteq {Tip + 1}
      BY <2>2 DEF Create
    <2>3. ASSUME NEW t \in Tasks, Put(t)
          PROVE  DOMAIN files' \ DOMAIN files \subseteq {Tip + 1}
      <3>1. files' = files \/ (Successor(t).version \notin DOMAIN files /\ Create(Successor(t)))
        BY <2>3 DEF Put
      <3>2. Successor(t).version \notin DOMAIN files => Successor(t).version = Tip + 1
        BY <1>1, <2>3, PutFacts DEF Put
      <3>3. QED
        BY <2>2, <3>1, <3>2
    <2>4. ASSUME ApplyLate PROVE DOMAIN files' \ DOMAIN files \subseteq {Tip + 1}
      <3>1. PICK r \in late : (r.m.version \notin DOMAIN files /\ Create(r.m)) \/ files' = files
        BY <2>4 DEF ApplyLate
      <3>2. r \in Writes /\ LateOk(r)
        BY <1>1, <2>0, <3>1 DEF Inv, Shape
      <3>3. r.m.version \in Nat /\ r.m.version = (r.m.version - 1) + 1
        BY <3>2 DEF Writes
      <3>4. r.m.version \notin DOMAIN files => r.m.version = Tip + 1
        BY <3>2, <3>3 DEF LateOk, Newest
      <3>5. CASE r.m.version = Tip + 1 /\ Create(r.m)
        BY <3>5 DEF Create
      <3>6. QED
        BY <3>1, <3>4, <3>5
    <2>5. ASSUME Prune PROVE DOMAIN files' \ DOMAIN files \subseteq {Tip + 1}
      <3>1. PICK v \in Prunable : files' = [u \in DOMAIN files \ {v} |-> files[u]]
        BY <2>5 DEF Prune
      <3>2. DOMAIN files' \subseteq DOMAIN files
        BY <3>1
      <3>3. QED
        BY <3>2
    <2>6. ASSUME Tick PROVE DOMAIN files' \ DOMAIN files \subseteq {Tip + 1}
      <3>1. DOMAIN files' = DOMAIN files
        BY <1>1, <2>6, TickFiles
      <3>2. QED
        BY <3>1
    <2>7. ASSUME NEW t \in Tasks,
                 \/ ClaimEpoch(t) \/ InitializeShard(t) \/ CheckFenced(t) \/ CommitUpdate(t)
                 \/ Adopt(t) \/ ReadFails(t) \/ Landed(t)
          PROVE  files' = files
      BY <2>7 DEF ClaimEpoch, InitializeShard, CheckFenced, CommitUpdate, Adopt, ReadFails, Landed
    <2>8. DOMAIN files' \ DOMAIN files \subseteq {Tip + 1}
      BY <1>1, <2>3, <2>4, <2>5, <2>6, <2>7 DEF Next
    <2>9. QED
      BY <2>1, <2>8
  <1>2. QED
    BY <1>1, Invariance, PTL DEF Spec, NeverRewritten
=============================================================================
