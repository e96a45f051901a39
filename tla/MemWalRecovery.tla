---------------------------- MODULE MemWalRecovery ----------------------------
(***************************************************************************)
(* What the log of a MemWAL shard is good for: every acknowledged batch    *)
(* can be rebuilt, in order, once, and by every writer that opens the      *)
(* shard.                                                                  *)
(*                                                                         *)
(* None of it holds of every behaviour: the task that appends goes on      *)
(* after an append that ended in an error, although its request may have   *)
(* been applied, and does not look at the latch that poisons the writer.   *)
(* It then skips batches (the run memwal_skipped) or repeats them (the run *)
(* memwal_duplicate).  The theorems are about the behaviours without that  *)
(* step: an append is answered in the end, or finds its position taken by  *)
(* a successor, or dies with its process.  Requests may fail, be applied   *)
(* without an answer, or be applied late, writers may crash at every       *)
(* point, with an append in flight, and be taken over at every point.      *)
(*                                                                         *)
(* The argument: at most one writer is able to change the log or the       *)
(* manifest, and its memtables continue what the log holds.  A request in  *)
(* flight that can still land would find the log it was issued for.  So    *)
(* the log stays in order, generation after generation, and the manifest   *)
(* cuts it between two generations.                                        *)
(***************************************************************************)
EXTENDS MemWalProofs

-----------------------------------------------------------------------------
(* The behaviours                                                          *)

(* The append of w ends with an error, and w goes on.                      *)
GivesUp(w) ==
  append[w].phase \in {"exists", "failed"} /\ append'[w].phase = "idle" /\ pc'[w] = "open"

(* An append is given up only when its position is taken and its writer    *)
(* fenced: one whose requests fail is tried again until it is answered, or *)
(* its process ends.                                                       *)
Steady == \A w \in Writers : GivesUp(w) => append[w].phase = "exists" /\ Fenced(w)

-----------------------------------------------------------------------------
(* The log l and the manifest m                                            *)

(* Every batch of S was put before every batch of T; a sequence of batches *)
(* in the order of their puts.                                             *)
Below(S, T) == \A b \in S : \A c \in T : b < c
Rising(s)   == \A i, j \in 1..Len(s) : i < j => s[i] < s[j]

(* A generation that is in the log, its batches, and all batches.          *)
Has(l, g)     == \E p \in DOMAIN l : Data(l[p]) /\ l[p].gen = g
LogRows(l, g) == UNION {Rows(l[p]) : p \in {q \in DOMAIN l : l[q].gen = g}}
AllRows(l)    == UNION {Rows(l[p]) : p \in DOMAIN l}

(* The rows of one memtable, so no more than replay has room for.          *)
Fits(S) == \E s \in Seq(Nat) : Len(s) <= Capacity /\ \A b \in S : \E i \in 1..Len(s) : s[i] = b

(* Batches and generations ascend along the log, and no generation is left *)
(* out.                                                                    *)
Ordered(l) ==
  /\ \A p \in DOMAIN l : Rising(l[p].rows)
  /\ \A p, q \in DOMAIN l : p < q /\ Data(l[p]) /\ Data(l[q]) =>
       Below(Rows(l[p]), Rows(l[q])) /\ l[p].gen <= l[q].gen
  /\ \A p \in DOMAIN l : Data(l[p]) =>
       l[p].gen >= 1 /\ (\A g \in 1..l[p].gen : Has(l, g)) /\ Fits(LogRows(l, l[p].gen))

(* The manifest cuts the log between two generations.                      *)
Cut(l, m) ==
  /\ m.gen >= 1
  /\ \A g \in 1..(m.gen - 1) : Has(l, g) /\ \E s \in m.sst : s.gen = g
  /\ \A s \in m.sst : s.gen < m.gen /\ Rows(s) = LogRows(l, s.gen)
  /\ \A s, t \in m.sst : s.gen = t.gen => s = t
  /\ \A p \in DOMAIN l : Data(l[p]) /\ p <= m.replayAfter => l[p].gen < m.gen

(* What the entry e needs to be the next one.                              *)
Landable(l, m, e) ==
  /\ Rising(e.rows) /\ e.gen >= m.gen
  /\ \A p \in DOMAIN l : Data(l[p]) => Below(Rows(l[p]), Rows(e)) /\ l[p].gen <= e.gen
  /\ \A g \in 1..(e.gen - 1) : Has(l, g)
  /\ Fits(LogRows(l, e.gen) \cup Rows(e))

-----------------------------------------------------------------------------
(* The writers                                                             *)

(* An entry of a younger epoch stops whoever may still write data.         *)
Newest(l, e)    == \A s \in DOMAIN l : l[s].epoch <= e
Halted(l, p, e) == Newest(l, e) \/ \E s \in DOMAIN l : p <= s /\ l[s].epoch > e

(* Epochs are claimed once, and whatever may still land data is stopped by *)
(* a younger entry if there is one.                                        *)
Epochs ==
  /\ \A u, v \in Writers : epoch[u] = epoch[v] /\ epoch[u] >= 1 => u = v
  /\ \A w \in Writers : Writing(w) => Halted(wal, pos[w], epoch[w])
  /\ \A r \in late : Data(r.entry) => Halted(wal, r.at, r.entry.epoch)

(* The writer that can still change the log or the manifest.               *)
Able(w) ==
  /\ Writing(w) /\ Newest(wal, epoch[w])
  /\ pc[w] = "open" /\ pos[w] \in DOMAIN wal => ~Fenced(w)

(* Between the claim of a manifest b and the sentinel.                     *)
Claimed(l, m, b, ts) ==
  /\ ts = <<Table(b.gen, 0)>> /\ b.gen >= 1 /\ b.gen <= m.gen
  /\ \A p \in DOMAIN l : Data(l[p]) /\ p <= b.replayAfter => l[p].gen < b.gen

(* claim_epoch to write_fence_sentinel: nothing is replayed, and a claim   *)
(* that no younger entry has outrun is of the present generation.          *)
ClaimOk(w) ==
  /\ pc[w] \in {"new", "discover", "sentinel"} => last[w] = 0
  /\ pc[w] \in {"discover", "sentinel"} =>
       /\ Claimed(wal, manifest, base[w], tables[w])
       /\ Newest(wal, epoch[w]) => base[w].gen = manifest.gen

(* Replay up to p has collected one generation in t, all of it so far, and *)
(* what lies ahead is not older; x is the last generation it met.          *)
Collected(l, m, b, t, p, x) ==
  /\ b.gen <= t.gen /\ t.gen <= m.gen /\ t.gen >= 1 /\ Rising(t.rows)
  /\ \A c \in Rows(t) : \E q \in DOMAIN l : q < p /\ l[q].gen = t.gen /\ c \in Rows(l[q])
  /\ \A q \in DOMAIN l : Data(l[q]) /\ q < p =>
       l[q].gen <= t.gen /\ (l[q].gen = t.gen => Rows(l[q]) \subseteq Rows(t))
  /\ \A q \in DOMAIN l : Data(l[q]) /\ q >= p /\ l[q].gen >= b.gen => l[q].gen >= t.gen
  /\ x = 0 \/ \E q \in DOMAIN l : q < p /\ Data(l[q]) /\ l[q].gen = x

(* replay_memtable_from_wal.                                               *)
ReplayOk(w) ==
  /\ pc[w] # "refused"
  /\ pc[w] = "replay" =>
       /\ Collected(wal, manifest, base[w], tables[w][1], pos[w], last[w])
       /\ Able(w) => tables[w][1].gen = manifest.gen

(* The batches of an open writer are numbered through its memtables ts,    *)
(* and the first d are in the log.                                         *)
Numbered(ts, d) ==
  /\ \A i \in 1..Len(ts) : ts[i].gen = ts[1].gen + (i - 1)
  /\ \A i, j \in 1..Len(ts) : i < j => End(ts[i]) <= ts[j].off
  /\ \A i \in 1..Len(ts) - 1 : ts[i + 1].off = End(ts[i])
  /\ ts[1].off <= d /\ d <= End(ts[Len(ts)])

(* The rows of t among the first n batches of its writer.                  *)
Prefix(t, n)     == {t.rows[k] : k \in {x \in 1..Len(t.rows) : t.off + x <= n}}
Logged(l, ts, n) == \A i \in 1..Len(ts) : Prefix(ts[i], n) \subseteq AllRows(l)

(* The batches up to the end of the append a.                              *)
UpTo(ts, a, n) == \E i \in 1..Len(ts) : ts[i].gen = a.gen /\ n = ts[i].off + a.end

(* An open writer counts as durable only what is in the log, even when it  *)
(* has lost the shard.                                                     *)
ServeOk(w) ==
  pc[w] = "open" =>
    /\ Numbered(tables[w], durable[w])
    /\ Logged(wal, tables[w], durable[w])
    /\ append[w].phase = "appended" =>
         \A n \in Nat : UpTo(tables[w], append[w], n) => Logged(wal, tables[w], n)

(* The first n batches, and no other, are in the log.                      *)
Holds(l, ts, n) == \A i \in 1..Len(ts) : LogRows(l, ts[i].gen) = Prefix(ts[i], n)

(* The memtables continue the log: batches ascend through the log and the  *)
(* memtables, and the log is not ahead of the active one.                  *)
Continues(l, ts) ==
  /\ \A i \in 1..Len(ts) : Rising(ts[i].rows)
  /\ \A i, j \in 1..Len(ts) : i < j => Below(Rows(ts[i]), Rows(ts[j]))
  /\ \A p \in DOMAIN l : Data(l[p]) =>
       /\ l[p].gen <= ts[Len(ts)].gen
       /\ \A i \in 1..Len(ts) : l[p].gen < ts[i].gen => Below(Rows(l[p]), Rows(ts[i]))

(* A frozen memtable does not point past its own entries.                  *)
AtOk(l, ts) ==
  \A i \in 1..Len(ts) - 1 : \A p \in DOMAIN l : Data(l[p]) /\ p <= ts[i].at => l[p].gen <= ts[i].gen

(* The oldest memtable is the next to be published, or has just been.      *)
AtCut(m, ts, d) ==
  \/ ts[1].gen = m.gen
  \/ ts[1].gen + 1 = m.gen /\ Len(ts) >= 2 /\ End(ts[1]) <= d

(* Memtables are appended in their order: every freeze that waits for its  *)
(* append has its trigger, and triggers are in order.                      *)
Owned(ts, q, a) ==
  \A i \in 1..Len(ts) - 1 :
    /\ ts[i].cell # "failed"
    /\ ts[i].cell = "wait" => \/ \E k \in 1..Len(q) : q[k] = ts[i].gen
                              \/ a.phase # "idle" /\ a.exact = TRUE /\ a.gen = ts[i].gen

(* Freezes ask for their appends in the order of their generations.        *)
InTurn(q) == \A k, l \in 1..Len(q) : k < l /\ q[k] # Tick /\ q[l] # Tick => q[k] < q[l]

(* An append of rows starts in the memtable the count has reached.         *)
Sending(a) == a.phase \in {"put", "exists", "failed", "appended"}
Begun(ts, a, d) == Sending(a) => \A i \in 1..Len(ts) : ts[i].gen = a.gen => ts[i].off <= d

(* The append in progress has landed without its writer's knowing.         *)
Ahead(l, p) == p \in DOMAIN l /\ Data(l[p])
Doubt(a)    == a.phase = "failed" \/ (a.phase \in {"put", "exists"} /\ a.tries >= 1)

(* How much of the memtables the log holds.                                *)
Landed(l, p, ts, a, d) ==
  /\ Ahead(l, p) => Doubt(a)
  /\ \A q \in DOMAIN l : Data(l[q]) => q <= p
  /\ IF Ahead(l, p) \/ a.phase = "appended"
     THEN \A n \in Nat : UpTo(ts, a, n) => Holds(l, ts, n)
     ELSE Holds(l, ts, d)
  /\ a.phase \in {"appended", "settle"} => Data(l[a.at]) /\ l[a.at].gen = a.gen

(* The writer that can change the log and the manifest serves what the log *)
(* holds, and more.                                                        *)
AbleOk(w) ==
  pc[w] = "open" /\ Able(w) =>
    /\ Continues(wal, tables[w]) /\ AtOk(wal, tables[w])
    /\ AtCut(manifest, tables[w], durable[w])
    /\ Owned(tables[w], queue[w], append[w]) /\ InTurn(queue[w])
    /\ Begun(tables[w], append[w], durable[w])
    /\ Landed(wal, pos[w], tables[w], append[w], durable[w])

(* What holds of every writer, wherever its life is.                       *)
WriterOk(w) == ClaimOk(w) /\ ReplayOk(w) /\ ServeOk(w) /\ AbleOk(w)

(* The rows of the memtable t from the count d up to its row z.            *)
Sent(t, d, z) == SubSeq(t.rows, d - t.off + 1, z)

(* The entry e is what the append a of epoch x sends.                      *)
Sends(ts, a, d, x, e) ==
  /\ e.epoch = x /\ e.gen = a.gen
  /\ \E i \in 1..Len(ts) :
       ts[i].gen = a.gen /\ e.rows = Sent(ts[i], d, a.end)

(* A request in flight that can still land would find the log it was       *)
(* issued for, and its writer, if it lives, still repeats it.              *)
Repeats(w, r) ==
  /\ pc[w] = "open" /\ append[w].phase \in {"put", "failed"} /\ Doubt(append[w])
  /\ pos[w] = r.at /\ Sends(tables[w], append[w], durable[w], epoch[w], r.entry)

(* Such a request and its writer agree.                                    *)
LateOk(r) ==
  Data(r.entry) /\ r.at \notin DOMAIN wal =>
    /\ Landable(wal, manifest, r.entry)
    /\ \A w \in Writers : Writing(w) /\ epoch[w] = r.entry.epoch => Repeats(w, r)

(* An acknowledged batch has been appended.                                *)
AckedOk == acked \subseteq AllRows(wal)

(* The inductive invariant, together with Blank and with Inv of            *)
(* MemWalProofs.                                                           *)
Whole ==
  /\ Ordered(wal) /\ Cut(wal, manifest) /\ Epochs /\ AckedOk
  /\ \A w \in Writers : WriterOk(w)
  /\ \A r \in late : LateOk(r)

-----------------------------------------------------------------------------
(* Rows                                                                    *)

(* The types of a log.                                                     *)
LogTyped(l) ==
  \A p \in DOMAIN l : p \in Nat /\ l[p].gen \in Nat /\ l[p].epoch \in Nat /\ l[p].rows \in Seq(Nat)

(* The log l2 has what l has.                                              *)
Kept(l, l2) == DOMAIN l \subseteq DOMAIN l2 /\ \A p \in DOMAIN l : l2[p] = l[p]

(* It has no more data.                                                    *)
Quiet(l, l2) == Kept(l, l2) /\ \A p \in DOMAIN l2 : p \notin DOMAIN l => ~Data(l2[p])

(* It has one more entry, e.                                               *)
Grown(l, l2, e) ==
  \E n \in Nat : /\ DOMAIN l = 1..n /\ DOMAIN l2 = 1..(n + 1)
                 /\ (\A p \in 1..n : l2[p] = l[p]) /\ l2[n + 1] = e

(* An entry or a memtable has the rows of its sequence.                    *)
LEMMA RowsOf ==
  ASSUME NEW e, e.rows \in Seq(Nat)
  PROVE  /\ \A b : b \in Rows(e) <=> \E i \in 1..Len(e.rows) : e.rows[i] = b
         /\ Data(e) <=> Rows(e) # {}
         /\ Rows(e) \subseteq Nat
<1>1. DOMAIN e.rows = 1..Len(e.rows) /\ Len(e.rows) \in Nat
  OBVIOUS
<1>2. \A b : b \in Rows(e) <=> \E i \in 1..Len(e.rows) : e.rows[i] = b
  BY <1>1 DEF Rows
<1>3. Data(e) <=> Len(e.rows) # 0
  BY DEF Data
<1>4. Data(e) => Rows(e) # {}
  <2> SUFFICES ASSUME Data(e) PROVE Rows(e) # {}
    OBVIOUS
  <2>1. 1 \in 1..Len(e.rows)
    BY <1>1, <1>3
  <2>2. e.rows[1] \in Rows(e)
    BY <1>2, <2>1
  <2> QED  BY <2>2
<1>5. ~Data(e) => Rows(e) = {}
  BY <1>1, <1>2, <1>3
<1>6. Rows(e) \subseteq Nat
  BY <1>2
<1> QED  BY <1>2, <1>4, <1>5, <1>6

(* The rows of a generation.                                               *)
LEMMA InLogRows ==
  ASSUME NEW l, NEW g, NEW b
  PROVE  b \in LogRows(l, g) <=> \E p \in DOMAIN l : l[p].gen = g /\ b \in Rows(l[p])
BY DEF LogRows

(* The rows of the log.                                                    *)
LEMMA InAllRows ==
  ASSUME NEW l, NEW b
  PROVE  b \in AllRows(l) <=> \E p \in DOMAIN l : b \in Rows(l[p])
BY DEF AllRows

(* The first rows of a memtable.                                           *)
LEMMA InPrefix ==
  ASSUME NEW t, NEW n, NEW b
  PROVE  b \in Prefix(t, n) <=> \E k \in 1..Len(t.rows) : t.off + k <= n /\ t.rows[k] = b
BY DEF Prefix

(* A generation that is in the log has rows there, and no other has.       *)
LEMMA HasRows ==
  ASSUME NEW l, LogTyped(l), NEW g
  PROVE  Has(l, g) <=> LogRows(l, g) # {}
<1>1. \A p \in DOMAIN l : Data(l[p]) <=> Rows(l[p]) # {}
  BY RowsOf DEF LogTyped
<1> QED  BY <1>1, InLogRows DEF Has

(* A log that gains no data keeps its rows.                                *)
LEMMA QuietRows ==
  ASSUME NEW l, NEW l2, LogTyped(l), LogTyped(l2), Quiet(l, l2)
  PROVE  /\ \A g : LogRows(l2, g) = LogRows(l, g)
         /\ \A g : Has(l2, g) <=> Has(l, g)
         /\ AllRows(l2) = AllRows(l)
<1>1. /\ DOMAIN l \subseteq DOMAIN l2 /\ \A p \in DOMAIN l : l2[p] = l[p]
      /\ \A p \in DOMAIN l2 : p \notin DOMAIN l => Rows(l2[p]) = {}
  BY RowsOf DEF Quiet, Kept, LogTyped
<1>2. ASSUME NEW g PROVE LogRows(l2, g) = LogRows(l, g)
  <2>1. ASSUME NEW b PROVE b \in LogRows(l2, g) <=> b \in LogRows(l, g)
    BY <1>1, InLogRows
  <2> QED  BY <2>1
<1>3. ASSUME NEW g PROVE Has(l2, g) <=> Has(l, g)
  BY <1>2, HasRows
<1>4. \A b : b \in AllRows(l2) <=> b \in AllRows(l)
  BY <1>1, InAllRows
<1> QED  BY <1>2, <1>3, <1>4

(* The rows of a log that gains an entry.                                  *)
LEMMA GrownRows ==
  ASSUME NEW l, NEW l2, NEW e, LogTyped(l), LogTyped(l2), Grown(l, l2, e)
  PROVE  /\ \A g : g # e.gen => LogRows(l2, g) = LogRows(l, g)
         /\ LogRows(l2, e.gen) = LogRows(l, e.gen) \cup Rows(e)
         /\ \A g : Has(l2, g) <=> Has(l, g) \/ (Data(e) /\ g = e.gen)
         /\ AllRows(l2) = AllRows(l) \cup Rows(e)
         /\ Kept(l, l2)
<1>1. PICK n \in Nat : /\ DOMAIN l = 1..n /\ DOMAIN l2 = 1..(n + 1)
                       /\ (\A p \in 1..n : l2[p] = l[p]) /\ l2[n + 1] = e
  BY DEF Grown
<1>2. \A p \in DOMAIN l2 : p = n + 1 \/ p \in DOMAIN l
  BY <1>1
<1>3. n + 1 \in DOMAIN l2 /\ \A p \in DOMAIN l : p \in DOMAIN l2 /\ l2[p] = l[p]
  BY <1>1
<1>4. ASSUME NEW g, g # e.gen PROVE LogRows(l2, g) = LogRows(l, g)
  <2>1. ASSUME NEW b PROVE b \in LogRows(l2, g) <=> b \in LogRows(l, g)
    BY <1>1, <1>2, <1>3, <1>4, InLogRows
  <2> QED  BY <2>1
<1>5. \A b : b \in LogRows(l2, e.gen) <=> b \in LogRows(l, e.gen) \/ b \in Rows(e)
  BY <1>1, <1>2, <1>3, InLogRows
<1>6. \A b : b \in AllRows(l2) <=> b \in AllRows(l) \/ b \in Rows(e)
  BY <1>1, <1>2, <1>3, InAllRows
<1>7. ASSUME NEW g PROVE Has(l2, g) <=> Has(l, g) \/ (Data(e) /\ g = e.gen)
  BY <1>1, <1>2, <1>3 DEF Has
<1>8. Kept(l, l2)
  BY <1>3 DEF Kept
<1> QED  BY <1>4, <1>5, <1>6, <1>7, <1>8

(* A part of what fits, fits.                                              *)
LEMMA FitsPart ==
  ASSUME NEW S, NEW T, S \subseteq T, Fits(T)
  PROVE  Fits(S)
BY DEF Fits

(* An ascending sequence of rows that fit is not longer than a memtable    *)
(* may be: no row counts twice.                                            *)
LEMMA RisingFits ==
  ASSUME NEW x \in Seq(Nat), Rising(x), Fits({x[i] : i \in 1..Len(x)})
  PROVE  Len(x) <= Capacity
<1>1. PICK s \in Seq(Nat) : Len(s) <= Capacity
        /\ \A b \in {x[i] : i \in 1..Len(x)} : \E i \in 1..Len(s) : s[i] = b
  BY DEF Fits
<1> DEFINE n == Len(x)
           k == Len(s)
           f == [i \in 1..n |-> CHOOSE j \in 1..k : s[j] = x[i]]
<1>2. n \in Nat /\ k \in Nat /\ Capacity \in Nat
  BY MemWalAssumption
<1>3. \A i \in 1..n : f[i] \in 1..k /\ s[f[i]] = x[i]
  BY <1>1
<1>4. \A i, j \in 1..n : i # j => x[i] # x[j]
  <2> SUFFICES ASSUME NEW i \in 1..n, NEW j \in 1..n, i # j PROVE x[i] # x[j]
    OBVIOUS
  <2>1. i < j \/ j < i
    BY <1>2
  <2>2. x[i] \in Nat /\ x[j] \in Nat
    OBVIOUS
  <2> QED  BY <2>1, <2>2 DEF Rising
<1>5. f \in Injection(1..n, 1..k)
  <2>1. f \in [1..n -> 1..k]
    BY <1>3
  <2>2. \A i, j \in 1..n : f[i] = f[j] => i = j
    <3> HIDE DEF f
    <3> QED  BY <1>3, <1>4
  <2> HIDE DEF f
  <2> QED  BY <2>1, <2>2 DEF Injection, IsInjective
<1>6. IsFiniteSet(1..n) /\ IsFiniteSet(1..k) /\ Cardinality(1..n) = n /\ Cardinality(1..k) = k
  <2> HIDE DEF n, k
  <2>1. ASSUME NEW y \in Nat PROVE IsFiniteSet(1..y) /\ Cardinality(1..y) = y
    BY FS_Interval
  <2> QED  BY <1>2, <2>1
<1>7. n <= k
  <2> HIDE DEF f, n, k
  <2> DEFINE A == 1..n
             B == 1..k
  <2>1. IsFiniteSet(A) /\ IsFiniteSet(B) /\ Injection(A, B) # {}
    BY <1>5, <1>6
  <2> HIDE DEF A, B
  <2>2. Cardinality(A) <= Cardinality(B)
    BY <2>1, FS_Injection
  <2> QED  BY <1>6, <2>2 DEF A, B
<1> QED  BY <1>1, <1>2, <1>7

-----------------------------------------------------------------------------
(* The log and the manifest change                                         *)

(* The types of a manifest.                                                *)
CutTyped(m) ==
  m.gen \in Nat /\ m.replayAfter \in Nat /\ \A s \in m.sst : s.gen \in Nat /\ s.rows \in Seq(Nat)

(* Two manifests that cut the log in the same place.                       *)
SameCut(m, m2) == m2.gen = m.gen /\ m2.replayAfter = m.replayAfter /\ m2.sst = m.sst

(* A log that gains no data stays in order.                                *)
LEMMA QuietOrdered ==
  ASSUME NEW l, NEW l2, LogTyped(l), LogTyped(l2), Quiet(l, l2), Ordered(l)
  PROVE  Ordered(l2)
<1>1. /\ DOMAIN l \subseteq DOMAIN l2 /\ \A p \in DOMAIN l : l2[p] = l[p]
      /\ \A p \in DOMAIN l2 : Data(l2[p]) => p \in DOMAIN l
  BY DEF Quiet, Kept
<1>2. \A p \in DOMAIN l2 : Rising(l2[p].rows)
  <2> SUFFICES ASSUME NEW p \in DOMAIN l2 PROVE Rising(l2[p].rows)
    OBVIOUS
  <2>1. CASE p \in DOMAIN l
    BY <1>1, <2>1 DEF Ordered
  <2>2. CASE p \notin DOMAIN l
    <3>1. l2[p].rows = <<>>
      BY <1>1, <2>2 DEF Data
    <3> QED  BY <3>1 DEF Rising
  <2> QED  BY <2>1, <2>2
<1>3. \A p, q \in DOMAIN l2 : p < q /\ Data(l2[p]) /\ Data(l2[q]) =>
        Below(Rows(l2[p]), Rows(l2[q])) /\ l2[p].gen <= l2[q].gen
  BY <1>1 DEF Ordered
<1>4. \A p \in DOMAIN l2 : Data(l2[p]) =>
        l2[p].gen >= 1 /\ (\A g \in 1..l2[p].gen : Has(l2, g)) /\ Fits(LogRows(l2, l2[p].gen))
  BY <1>1, QuietRows DEF Ordered
<1> QED  BY <1>2, <1>3, <1>4 DEF Ordered

(* Nor does the cut move.                                                  *)
LEMMA QuietCut ==
  ASSUME NEW l, NEW l2, NEW m, NEW m2, LogTyped(l), LogTyped(l2), Quiet(l, l2),
         SameCut(m, m2), Cut(l, m)
  PROVE  Cut(l2, m2)
<1>1. /\ \A p \in DOMAIN l : l2[p] = l[p]
      /\ \A p \in DOMAIN l2 : Data(l2[p]) => p \in DOMAIN l
  BY DEF Quiet, Kept
<1> QED  BY <1>1, QuietRows DEF Cut, SameCut

(* The next entry keeps the log in order.                                  *)
LEMMA GrownOrdered ==
  ASSUME NEW l, NEW l2, NEW m, NEW e, LogTyped(l), LogTyped(l2), Grown(l, l2, e),
         CutTyped(m), m.gen >= 1, Ordered(l), Landable(l, m, e), Data(e)
  PROVE  Ordered(l2)
<1>1. PICK n \in Nat : /\ DOMAIN l = 1..n /\ DOMAIN l2 = 1..(n + 1)
                       /\ (\A p \in 1..n : l2[p] = l[p]) /\ l2[n + 1] = e
  BY DEF Grown
<1>2. \A p \in DOMAIN l2 : (p = n + 1 /\ l2[p] = e) \/ (p \in DOMAIN l /\ l2[p] = l[p] /\ p < n + 1)
  BY <1>1
<1>3. e.gen \in Nat /\ e.gen >= 1
  <2>1. n + 1 \in DOMAIN l2
    BY <1>1
  <2> QED  BY <1>1, <2>1 DEF LogTyped, CutTyped, Landable
<1>4. \A p \in DOMAIN l2 : Rising(l2[p].rows)
  BY <1>2 DEF Ordered, Landable
<1>5. \A p, q \in DOMAIN l2 : p < q /\ Data(l2[p]) /\ Data(l2[q]) =>
        Below(Rows(l2[p]), Rows(l2[q])) /\ l2[p].gen <= l2[q].gen
  <2> SUFFICES ASSUME NEW p \in DOMAIN l2, NEW q \in DOMAIN l2, p < q, Data(l2[p]), Data(l2[q])
               PROVE  Below(Rows(l2[p]), Rows(l2[q])) /\ l2[p].gen <= l2[q].gen
    OBVIOUS
  <2>1. p \in DOMAIN l /\ l2[p] = l[p]
    BY <1>1, <1>2
  <2>2. CASE q = n + 1
    BY <1>1, <2>1, <2>2 DEF Landable
  <2>3. CASE q \in DOMAIN l
    BY <1>1, <2>1, <2>3 DEF Ordered
  <2> QED  BY <1>2, <2>2, <2>3
<1>6. \A g : Has(l, g) => Has(l2, g)
  BY GrownRows
<1>7. \A g \in 1..e.gen : Has(l2, g)
  <2> SUFFICES ASSUME NEW g \in 1..e.gen PROVE Has(l2, g)
    OBVIOUS
  <2>1. g = e.gen \/ g \in 1..(e.gen - 1)
    BY <1>3
  <2>2. CASE g = e.gen
    BY <2>2, GrownRows
  <2>3. CASE g \in 1..(e.gen - 1)
    BY <1>6, <2>3 DEF Landable
  <2> QED  BY <2>1, <2>2, <2>3
<1>8. Fits(LogRows(l2, e.gen))
  BY GrownRows DEF Landable
<1>9. ASSUME NEW p \in DOMAIN l2, Data(l2[p])
      PROVE  l2[p].gen >= 1 /\ (\A g \in 1..l2[p].gen : Has(l2, g)) /\ Fits(LogRows(l2, l2[p].gen))
  <2>1. CASE l2[p].gen = e.gen
    BY <1>3, <1>7, <1>8, <2>1
  <2>2. CASE l2[p].gen # e.gen
    <3>1. p \in DOMAIN l /\ l2[p] = l[p]
      BY <1>2, <2>2
    <3>2. LogRows(l2, l2[p].gen) = LogRows(l, l2[p].gen)
      BY <2>2, GrownRows
    <3> QED  BY <1>6, <1>9, <3>1, <3>2 DEF Ordered
  <2> QED  BY <2>1, <2>2
<1> QED  BY <1>4, <1>5, <1>9 DEF Ordered

(* And the cut where it is.                                                *)
LEMMA GrownCut ==
  ASSUME NEW l, NEW l2, NEW m, NEW e, LogTyped(l), LogTyped(l2), Grown(l, l2, e),
         CutTyped(m), Cut(l, m), Landable(l, m, e),
         \A p \in DOMAIN l2 : p <= m.replayAfter => p \in DOMAIN l
  PROVE  Cut(l2, m)
<1>1. e.gen \in Nat
  BY DEF LogTyped, Grown
<1>2. \A s \in m.sst : s.gen < m.gen /\ Rows(s) = LogRows(l2, s.gen)
  <2> SUFFICES ASSUME NEW s \in m.sst PROVE s.gen < m.gen /\ Rows(s) = LogRows(l2, s.gen)
    OBVIOUS
  <2>1. s.gen < m.gen /\ Rows(s) = LogRows(l, s.gen)
    BY DEF Cut
  <2>2. s.gen # e.gen
    BY <1>1, <2>1 DEF Landable, CutTyped
  <2> QED  BY <2>1, <2>2, GrownRows
<1>3. \A g : Has(l, g) => Has(l2, g)
  BY GrownRows
<1>4. \A p \in DOMAIN l : l2[p] = l[p]
  BY GrownRows DEF Kept
<1> QED  BY <1>2, <1>3, <1>4 DEF Cut

(* update_manifest with the next generation, all of it: the cut moves past *)
(* its entries.                                                            *)
LEMMA CutMoves ==
  ASSUME NEW l, NEW m, NEW m2, NEW t, NEW c \in Nat, LogTyped(l), CutTyped(m), Cut(l, m),
         t.gen = m.gen, Rows(t) = LogRows(l, t.gen), Rows(t) # {},
         \A p \in DOMAIN l : Data(l[p]) /\ p <= c => l[p].gen <= t.gen,
         m2.gen = t.gen + 1, m2.replayAfter = c,
         m2.sst = m.sst \cup {[gen |-> t.gen, rows |-> t.rows]}
  PROVE  Cut(l, m2)
<1> DEFINE x == [gen |-> t.gen, rows |-> t.rows]
<1>1. x.gen = m.gen /\ Rows(x) = Rows(t) /\ m.gen \in Nat /\ m2.gen = m.gen + 1
  BY DEF Rows, CutTyped
<1>2. \A s \in m.sst : s.gen \in Nat /\ s.gen < m.gen /\ Rows(s) = LogRows(l, s.gen)
  BY DEF Cut, CutTyped
<1> HIDE DEF x
<1>3. m2.sst = m.sst \cup {x}
  BY DEF x
<1>4. m2.gen >= 1
  BY <1>1 DEF Cut
<1>5. \A g \in 1..(m2.gen - 1) : Has(l, g) /\ \E s \in m2.sst : s.gen = g
  <2> SUFFICES ASSUME NEW g \in 1..(m2.gen - 1) PROVE Has(l, g) /\ \E s \in m2.sst : s.gen = g
    OBVIOUS
  <2>1. g = m.gen \/ g \in 1..(m.gen - 1)
    BY <1>1
  <2>2. CASE g = m.gen
    BY <1>1, <1>3, <2>2, HasRows
  <2>3. CASE g \in 1..(m.gen - 1)
    BY <1>3, <2>3 DEF Cut
  <2> QED  BY <2>1, <2>2, <2>3
<1>6. \A s \in m2.sst : s.gen < m2.gen /\ Rows(s) = LogRows(l, s.gen)
  <2> SUFFICES ASSUME NEW s \in m2.sst PROVE s.gen < m2.gen /\ Rows(s) = LogRows(l, s.gen)
    OBVIOUS
  <2>1. CASE s = x
    BY <1>1, <2>1
  <2>2. CASE s \in m.sst
    BY <1>1, <1>2, <2>2
  <2> QED  BY <1>3, <2>1, <2>2
<1>7. \A s, y \in m2.sst : s.gen = y.gen => s = y
  BY <1>1, <1>2, <1>3 DEF Cut
<1>8. \A p \in DOMAIN l : Data(l[p]) /\ p <= m2.replayAfter => l[p].gen < m2.gen
  BY <1>1 DEF LogTyped
<1> QED  BY <1>4, <1>5, <1>6, <1>7, <1>8 DEF Cut

-----------------------------------------------------------------------------
(* What the invariant of the log says of the types                         *)

(* The types of the memtables of a writer.                                 *)
TabTyped(ts) ==
  /\ Len(ts) \in Nat /\ Len(ts) >= 1 /\ DOMAIN ts = 1..Len(ts)
  /\ \A i \in 1..Len(ts) :
       /\ ts[i].gen \in Nat /\ ts[i].off \in Nat /\ ts[i].at \in Nat
       /\ ts[i].rows \in Seq(Nat) /\ Len(ts[i].rows) \in Nat /\ Len(ts[i].rows) <= Capacity
  /\ \A i, j \in 1..Len(ts) : i < j => ts[i].gen < ts[j].gen
  /\ \A i \in 1..Len(ts) - 1 : Len(ts[i].rows) >= 1

(* What Inv says of the log and the manifest.                              *)
StoreFacts ==
  /\ N \in Nat /\ DOMAIN wal = 1..N /\ LogTyped(wal) /\ CutTyped(manifest)
  /\ manifest.epoch \in Nat /\ manifest.replayAfter <= N /\ put \in Nat /\ Capacity \in Nat
  /\ \A p \in DOMAIN wal : wal[p].epoch <= manifest.epoch
  /\ \A r \in late : /\ r.at \in 1..(N + 1) /\ r.entry.epoch \in Nat /\ r.entry.gen \in Nat
                     /\ r.entry.rows \in Seq(Nat) /\ r.entry.epoch <= manifest.epoch
  /\ \A b \in AllRows(wal) : b \in 1..put

(* What Inv says of a writer.                                              *)
WriterFacts(w) ==
  /\ pos[w] \in Nat /\ epoch[w] \in Nat /\ durable[w] \in Nat /\ last[w] \in Nat
  /\ base[w].gen \in Nat /\ base[w].replayAfter \in Nat /\ base[w].replayAfter <= N
  /\ TabTyped(tables[w]) /\ queue[w] \in Seq(Nat)
  /\ append[w].gen \in Nat /\ append[w].end \in Nat /\ append[w].tries \in Nat
  /\ append[w].phase \in Phases
  /\ Writing(w) \/ pc[w] = "sentinel" => pos[w] \in 1..(N + 1)
  /\ append[w].phase \in {"appended", "settle"} => append[w].at \in DOMAIN wal
  /\ epoch[w] <= manifest.epoch
  /\ append[w].phase # "idle" \/ flush[w] # "idle" => pc[w] = "open"
  /\ \A i \in 1..Len(tables[w]) : Rows(tables[w][i]) \subseteq 1..put

(* Rows are numbers.                                                       *)
LEMMA RowNumbers ==
  ASSUME NEW m \in Nat, NEW s \in Seq(1..m)
  PROVE  s \in Seq(Nat) /\ Len(s) \in Nat /\ \A i \in 1..Len(s) : s[i] \in 1..m
<1>1. \A i \in 1..Len(s) : s[i] \in 1..m
  OBVIOUS
<1>2. \A i \in 1..Len(s) : s[i] \in Nat
  BY <1>1
<1> QED  BY <1>1, <1>2

(* The stores.                                                             *)
LEMMA StoreTyped == Inv => StoreFacts
<1> SUFFICES ASSUME Inv PROVE StoreFacts
  OBVIOUS
<1>1. put \in Nat /\ Capacity \in Nat
  BY MemWalAssumption DEF Inv, Shape, Stores
<1>2. N \in Nat /\ DOMAIN wal = 1..N /\ manifest.epoch \in Nat /\ manifest.replayAfter <= N
      /\ \A p \in DOMAIN wal : wal[p].epoch <= manifest.epoch
  BY DEF Inv, LogOk, Shape, Stores
<1>3. \A p \in DOMAIN wal : wal[p].gen \in Nat /\ wal[p].epoch \in Nat /\ wal[p].rows \in Seq(1..put)
  BY DEF Inv, Shape, Stores, LogEntry
<1>4. LogTyped(wal)
  BY <1>1, <1>2, <1>3, RowNumbers DEF LogTyped
<1>5. \A r \in late : /\ r.at \in 1..(N + 1) /\ r.entry.epoch \in Nat /\ r.entry.gen \in Nat
                      /\ r.entry.rows \in Seq(1..put) /\ r.entry.epoch <= manifest.epoch
  BY DEF Inv, Shape, Stores, LogOk, Request, LogEntry
<1>6. CutTyped(manifest)
  <2>1. /\ manifest.gen \in Nat /\ manifest.replayAfter \in Nat
        /\ \A s \in manifest.sst : s.gen \in Nat /\ s.rows \in Seq(1..put)
    BY DEF Inv, Shape, Stores
  <2> QED  BY <1>1, <2>1, RowNumbers DEF CutTyped
<1>7. \A b \in AllRows(wal) : b \in 1..put
  <2> SUFFICES ASSUME NEW b \in AllRows(wal) PROVE b \in 1..put
    OBVIOUS
  <2>1. PICK p \in DOMAIN wal : b \in Rows(wal[p])
    BY InAllRows
  <2>2. PICK i \in 1..Len(wal[p].rows) : wal[p].rows[i] = b
    BY <1>4, <2>1, RowsOf DEF LogTyped
  <2> QED  BY <1>1, <1>3, <2>2, RowNumbers
<1>8. \A r \in late : r.entry.rows \in Seq(Nat)
  BY <1>1, <1>5, RowNumbers
<1> QED  BY <1>1, <1>2, <1>4, <1>5, <1>6, <1>7, <1>8 DEF StoreFacts

(* The writers.                                                            *)
LEMMA WriterTyped == Inv => \A w \in Writers : WriterFacts(w)
<1> SUFFICES ASSUME Inv, NEW w \in Writers PROVE WriterFacts(w)
  OBVIOUS
<1>1. /\ pos[w] \in Nat /\ epoch[w] \in Nat /\ durable[w] \in Nat /\ last[w] \in Nat
      /\ base[w] \in Cursor /\ append[w] \in Appending /\ queue[w] \in Seq(Nat)
      /\ base[w].replayAfter <= N /\ epoch[w] <= manifest.epoch
      /\ put \in Nat
  BY Typed
<1>2. /\ base[w].gen \in Nat /\ base[w].replayAfter \in Nat
      /\ append[w].gen \in Nat /\ append[w].end \in Nat /\ append[w].tries \in Nat
      /\ append[w].phase \in Phases
  BY <1>1 DEF Cursor, Appending
<1>3. /\ Writing(w) \/ pc[w] = "sentinel" => pos[w] \in 1..(N + 1)
      /\ append[w].phase \in {"appended", "settle"} => append[w].at \in DOMAIN wal
      /\ append[w].phase # "idle" \/ flush[w] # "idle" => pc[w] = "open"
  BY DEF Inv, Local, PosOk, QuietOk, Writing, LogOk
<1> DEFINE ts == tables[w]
<1>4. /\ ts \in Seq(MemTable(put)) /\ Len(ts) \in Nat /\ Len(ts) >= 1
      /\ \A i \in 1..Len(ts) : /\ ts[i].gen \in Nat /\ ts[i].off \in Nat /\ ts[i].at \in Nat
                               /\ ts[i].rows \in Seq(1..put)
  BY TypedTables
<1>5. TablesOk(ts, N)
  BY DEF Inv, Local, TasksOk
<1> HIDE DEF ts
<1>6. \A i \in 1..Len(ts) : ts[i].rows \in Seq(Nat) /\ Len(ts[i].rows) \in Nat
  BY <1>1, <1>4, RowNumbers
<1>7. DOMAIN ts = 1..Len(ts)
  BY <1>4
<1>8. TabTyped(ts)
  BY <1>4, <1>5, <1>6, <1>7 DEF TabTyped, TablesOk
<1>9. \A i \in 1..Len(ts) : Rows(ts[i]) \subseteq 1..put
  <2> SUFFICES ASSUME NEW i \in 1..Len(ts), NEW b \in Rows(ts[i]) PROVE b \in 1..put
    OBVIOUS
  <2>1. PICK k \in 1..Len(ts[i].rows) : ts[i].rows[k] = b
    BY <1>6, RowsOf
  <2> QED  BY <1>1, <1>4, <2>1, RowNumbers
<1> QED  BY <1>1, <1>2, <1>3, <1>8, <1>9 DEF WriterFacts, ts

(* And after a step.                                                       *)
LEMMA StoreTypedNext == Inv' => StoreFacts'
BY StoreTyped, PTL

(* The writers after a step.                                               *)
LEMMA WriterTypedNext == Inv' => \A w \in Writers : WriterFacts(w)'
<1>1. (\A w \in Writers : WriterFacts(w))' => \A w \in Writers : WriterFacts(w)'
  OBVIOUS
<1>2. Inv' => (\A w \in Writers : WriterFacts(w))'
  BY WriterTyped, PTL
<1> QED  BY <1>1, <1>2

-----------------------------------------------------------------------------
(* The other writers                                                       *)

(* The log l2 has what l has, and new data are not older than the cut.     *)
Later(l, l2, m) ==
  /\ Kept(l, l2)
  /\ \A p \in DOMAIN l2 : p \notin DOMAIN l /\ Data(l2[p]) => l2[p].gen >= m.gen

(* A claim stays good.                                                     *)
LEMMA ClaimedLater ==
  ASSUME NEW l, NEW l2, NEW m, NEW m2, NEW b, NEW ts, Later(l, l2, m), Claimed(l, m, b, ts),
         CutTyped(m), CutTyped(m2), b.gen \in Nat, m.gen <= m2.gen,
         \A p \in DOMAIN l2 : p <= b.replayAfter => p \in DOMAIN l
  PROVE  Claimed(l2, m2, b, ts)
BY DEF Claimed, Later, Kept, CutTyped

(* So does a replay.                                                       *)
LEMMA CollectedLater ==
  ASSUME NEW l, NEW l2, NEW m, NEW m2, NEW b, NEW t, NEW p \in Nat, NEW x, Later(l, l2, m),
         Collected(l, m, b, t, p, x), CutTyped(m), CutTyped(m2), t.gen \in Nat,
         LogTyped(l2), m.gen <= m2.gen, \A q \in DOMAIN l2 : q < p => q \in DOMAIN l
  PROVE  Collected(l2, m2, b, t, p, x)
<1>1. DOMAIN l \subseteq DOMAIN l2 /\ \A q \in DOMAIN l : l2[q] = l[q]
  BY DEF Later, Kept
<1>2. b.gen <= t.gen /\ t.gen <= m2.gen /\ t.gen >= 1 /\ Rising(t.rows)
  BY DEF Collected, CutTyped
<1>3. \A c \in Rows(t) : \E q \in DOMAIN l2 : q < p /\ l2[q].gen = t.gen /\ c \in Rows(l2[q])
  BY <1>1 DEF Collected
<1>4. \A q \in DOMAIN l2 : Data(l2[q]) /\ q < p =>
        l2[q].gen <= t.gen /\ (l2[q].gen = t.gen => Rows(l2[q]) \subseteq Rows(t))
  BY <1>1 DEF Collected
<1>5. \A q \in DOMAIN l2 : Data(l2[q]) /\ q >= p /\ l2[q].gen >= b.gen => l2[q].gen >= t.gen
  <2> SUFFICES ASSUME NEW q \in DOMAIN l2, Data(l2[q]), q >= p, l2[q].gen >= b.gen
               PROVE  l2[q].gen >= t.gen
    OBVIOUS
  <2>1. CASE q \in DOMAIN l
    BY <1>1, <2>1 DEF Collected
  <2>2. CASE q \notin DOMAIN l
    BY <2>2 DEF Collected, Later, CutTyped, LogTyped
  <2> QED  BY <2>1, <2>2
<1>6. x = 0 \/ \E q \in DOMAIN l2 : q < p /\ Data(l2[q]) /\ l2[q].gen = x
  BY <1>1 DEF Collected
<1> QED  BY <1>2, <1>3, <1>4, <1>5, <1>6 DEF Collected

(* What is in the log stays there.                                         *)
LEMMA KeptRows ==
  ASSUME NEW l, NEW l2, Kept(l, l2)
  PROVE  AllRows(l) \subseteq AllRows(l2)
BY InAllRows DEF Kept

(* The memtables continue a log that gains no data.                        *)
LEMMA QuietTables ==
  ASSUME NEW l, NEW l2, NEW ts, LogTyped(l), LogTyped(l2), Quiet(l, l2)
  PROVE  /\ Continues(l, ts) => Continues(l2, ts)
         /\ AtOk(l, ts) => AtOk(l2, ts)
         /\ \A n : Holds(l, ts, n) => Holds(l2, ts, n)
<1>1. /\ \A p \in DOMAIN l : l2[p] = l[p]
      /\ \A p \in DOMAIN l2 : Data(l2[p]) => p \in DOMAIN l
  BY DEF Quiet, Kept
<1>2. Continues(l, ts) => Continues(l2, ts)
  BY <1>1 DEF Continues
<1>3. AtOk(l, ts) => AtOk(l2, ts)
  BY <1>1 DEF AtOk
<1>4. ASSUME NEW n, Holds(l, ts, n) PROVE Holds(l2, ts, n)
  BY <1>4, QuietRows DEF Holds
<1> QED  BY <1>2, <1>3, <1>4

(* As much of them is in it as before.                                     *)
LEMMA QuietLanded ==
  ASSUME NEW l, NEW l2, NEW ts, NEW p, NEW a, NEW d, LogTyped(l), LogTyped(l2), Quiet(l, l2),
         a.phase \in {"appended", "settle"} => a.at \in DOMAIN l, Landed(l, p, ts, a, d)
  PROVE  Landed(l2, p, ts, a, d)
<1>1. /\ DOMAIN l \subseteq DOMAIN l2 /\ \A q \in DOMAIN l : l2[q] = l[q]
      /\ \A q \in DOMAIN l2 : Data(l2[q]) => q \in DOMAIN l
  BY DEF Quiet, Kept
<1>2. Ahead(l2, p) <=> Ahead(l, p)
  BY <1>1 DEF Ahead
<1>3. \A n : Holds(l, ts, n) => Holds(l2, ts, n)
  BY QuietTables
<1> QED  BY <1>1, <1>2, <1>3 DEF Landed

(* A step of another writer.                                               *)
Untouched(u) == Same(u) /\ last'[u] = last[u]

(* A writer does not become able by a step of another.                     *)
LEMMA AbleBefore ==
  ASSUME NEW u \in Writers, Untouched(u), Kept(wal, wal'), Able(u)', epoch[u] \in Nat,
         manifest.epoch \in Nat, manifest'.epoch \in Nat, manifest.epoch <= manifest'.epoch
  PROVE  Able(u)
<1>1. /\ pc'[u] = pc[u] /\ epoch'[u] = epoch[u] /\ pos'[u] = pos[u]
      /\ DOMAIN wal \subseteq DOMAIN wal' /\ \A p \in DOMAIN wal : wal'[p] = wal[p]
  BY DEF Untouched, Same, Kept
<1>2. Writing(u) /\ Newest(wal, epoch[u])
  BY <1>1 DEF Able, Writing, Newest
<1>3. pc[u] = "open" /\ pos[u] \in DOMAIN wal => ~Fenced(u)
  BY <1>1 DEF Able, Fenced
<1> QED  BY <1>2, <1>3 DEF Able

(* A step of another writer, or of the store, leaves the state of u as it  *)
(* should be: it changes neither data nor cut, or u is not able any more.  *)
LEMMA OtherOk ==
  ASSUME Inv, Inv', NEW u \in Writers, WriterOk(u), Untouched(u), Later(wal, wal', manifest),
         LogGrows, manifest.gen <= manifest'.gen, manifest.epoch <= manifest'.epoch,
         pc[u] \in {"discover", "sentinel"} =>
           SameCut(manifest, manifest') \/ ~Newest(wal, epoch[u]),
         (Quiet(wal, wal') /\ SameCut(manifest, manifest')) \/ ~Able(u)
  PROVE  WriterOk(u)'
<1>1. StoreFacts /\ StoreFacts' /\ WriterFacts(u)
  BY StoreTyped, StoreTypedNext, WriterTyped
<1>2. /\ pc'[u] = pc[u] /\ epoch'[u] = epoch[u] /\ pos'[u] = pos[u] /\ base'[u] = base[u]
      /\ tables'[u] = tables[u] /\ last'[u] = last[u] /\ durable'[u] = durable[u]
      /\ append'[u] = append[u] /\ queue'[u] = queue[u]
  BY DEF Untouched, Same
<1>3. /\ LogTyped(wal) /\ LogTyped(wal') /\ CutTyped(manifest) /\ CutTyped(manifest')
      /\ N \in Nat /\ DOMAIN wal = 1..N
      /\ manifest.epoch \in Nat /\ manifest'.epoch \in Nat /\ Kept(wal, wal')
  BY <1>1 DEF StoreFacts, Later
<1>4. /\ epoch[u] \in Nat /\ pos[u] \in Nat /\ base[u].gen \in Nat /\ base[u].replayAfter \in Nat
      /\ base[u].replayAfter <= N /\ TabTyped(tables[u])
      /\ Writing(u) => pos[u] \in 1..(N + 1)
      /\ append[u].phase \in {"appended", "settle"} => append[u].at \in DOMAIN wal
  BY <1>1 DEF WriterFacts
<1>5. Able(u)' => Able(u)
  BY <1>3, <1>4, AbleBefore
<1>6. Newest(wal', epoch[u]) => Newest(wal, epoch[u])
  BY <1>3 DEF Newest, Kept
<1>7. \A p \in DOMAIN wal' : p \notin DOMAIN wal => p \in Nat /\ p > N
  BY <1>3 DEF LogTyped, LogGrows
<1>8. ClaimOk(u)'
  <2>1. pc[u] \in {"discover", "sentinel"} => Claimed(wal', manifest', base[u], tables[u])
    <3> SUFFICES ASSUME pc[u] \in {"discover", "sentinel"}
                 PROVE  Claimed(wal', manifest', base[u], tables[u])
      OBVIOUS
    <3>1. Claimed(wal, manifest, base[u], tables[u])
      BY DEF WriterOk, ClaimOk
    <3>2. \A p \in DOMAIN wal' : p <= base[u].replayAfter => p \in DOMAIN wal
      BY <1>3, <1>4, <1>7
    <3> QED  BY <1>3, <1>4, <3>1, <3>2, ClaimedLater
  <2>2. pc[u] \in {"discover", "sentinel"} /\ Newest(wal', epoch[u]) => base[u].gen = manifest'.gen
    <3> SUFFICES ASSUME pc[u] \in {"discover", "sentinel"}, Newest(wal', epoch[u])
                 PROVE  base[u].gen = manifest'.gen
      OBVIOUS
    <3>1. base[u].gen = manifest.gen
      BY <1>6 DEF WriterOk, ClaimOk
    <3> QED  BY <1>6, <3>1 DEF SameCut
  <2>3. pc[u] \in {"new", "discover", "sentinel"} => last[u] = 0
    BY DEF WriterOk, ClaimOk
  <2> QED  BY <1>2, <2>1, <2>2, <2>3 DEF ClaimOk
<1>9. ReplayOk(u)'
  <2> SUFFICES ASSUME pc[u] = "replay"
               PROVE  /\ Collected(wal', manifest', base[u], tables[u][1], pos[u], last[u])
                      /\ Able(u)' => tables[u][1].gen = manifest'.gen
    BY <1>2 DEF ReplayOk, WriterOk
  <2>1. Collected(wal, manifest, base[u], tables[u][1], pos[u], last[u])
    BY DEF WriterOk, ReplayOk
  <2>2. tables[u][1].gen \in Nat
    BY <1>4 DEF TabTyped
  <2>3. \A q \in DOMAIN wal' : q < pos[u] => q \in DOMAIN wal
    <3>1. pos[u] \in 1..(N + 1)
      BY <1>4 DEF Writing
    <3> QED  BY <1>3, <1>7, <3>1
  <2>4. Collected(wal', manifest', base[u], tables[u][1], pos[u], last[u])
    BY <1>3, <1>4, <2>1, <2>2, <2>3, CollectedLater
  <2>5. Able(u)' => tables[u][1].gen = manifest'.gen
    BY <1>5 DEF WriterOk, ReplayOk, SameCut
  <2> QED  BY <2>4, <2>5
<1>10. ServeOk(u)'
  <2>1. \A n : Logged(wal, tables[u], n) => Logged(wal', tables[u], n)
    BY <1>3, KeptRows DEF Logged
  <2> QED  BY <1>2, <2>1 DEF WriterOk, ServeOk
<1>11. AbleOk(u)'
  <2> SUFFICES ASSUME pc[u] = "open", Able(u)'
               PROVE  /\ Continues(wal', tables[u]) /\ AtOk(wal', tables[u])
                      /\ AtCut(manifest', tables[u], durable[u])
                      /\ Owned(tables[u], queue[u], append[u]) /\ InTurn(queue[u])
                      /\ Begun(tables[u], append[u], durable[u])
                      /\ Landed(wal', pos[u], tables[u], append[u], durable[u])
    BY <1>2 DEF AbleOk
  <2>1. Able(u) /\ Quiet(wal, wal') /\ SameCut(manifest, manifest')
    BY <1>5
  <2>2. /\ Continues(wal, tables[u]) /\ AtOk(wal, tables[u])
        /\ AtCut(manifest, tables[u], durable[u])
        /\ Owned(tables[u], queue[u], append[u]) /\ InTurn(queue[u])
        /\ Begun(tables[u], append[u], durable[u])
        /\ Landed(wal, pos[u], tables[u], append[u], durable[u])
    BY <2>1 DEF WriterOk, AbleOk
  <2>3. Continues(wal', tables[u]) /\ AtOk(wal', tables[u])
    BY <1>3, <2>1, <2>2, QuietTables
  <2>4. Landed(wal', pos[u], tables[u], append[u], durable[u])
    BY <1>3, <1>4, <2>1, <2>2, QuietLanded
  <2>5. AtCut(manifest', tables[u], durable[u])
    BY <2>1, <2>2 DEF AtCut, SameCut
  <2> QED  BY <2>2, <2>3, <2>4, <2>5
<1> QED  BY <1>8, <1>9, <1>10, <1>11 DEF WriterOk

-----------------------------------------------------------------------------
(* One writer is able                                                      *)

(* A writer that writes data has an epoch.                                 *)
LEMMA HasEpoch ==
  ASSUME Inv, NEW w \in Writers, Writing(w)
  PROVE  epoch[w] \in Nat /\ epoch[w] >= 1
BY Typed DEF Inv, Fencing, Fair

(* A younger writer, or younger data, has left a younger entry.            *)
LEMMA Younger ==
  ASSUME Inv, NEW u \in Writers, Able(u), NEW d \in Nat, Rival(d)
  PROVE  d <= epoch[u]
<1>1. epoch[u] \in Nat /\ Writing(u) /\ Newest(wal, epoch[u])
  BY Typed DEF Able
<1>2. Fair(pos[u], epoch[u])
  BY <1>1 DEF Inv, Fencing
<1>3. \A s \in DOMAIN wal : wal[s].epoch \in Nat
  BY Typed DEF LogEntry
<1>4. ~(d > epoch[u])
  BY <1>1, <1>2, <1>3 DEF Fair, Stopped, Newest
<1> QED  BY <1>1, <1>4

(* So no two writers are able.                                             *)
LEMMA OneAble ==
  ASSUME Inv, Epochs, NEW u \in Writers, NEW v \in Writers, Able(u), Able(v)
  PROVE  u = v
<1>1. /\ epoch[u] \in Nat /\ epoch[u] >= 1 /\ epoch[v] \in Nat
      /\ Rival(epoch[u]) /\ Rival(epoch[v])
  BY HasEpoch DEF Able, Rival
<1>2. epoch[u] <= epoch[v] /\ epoch[v] <= epoch[u]
  BY <1>1, Younger
<1>3. epoch[u] = epoch[v]
  BY <1>1, <1>2
<1> QED  BY <1>1, <1>3 DEF Epochs

(* While a request can still land, only its own writer is able.            *)
LEMMA LateAlone ==
  ASSUME Inv, NEW u \in Writers, Able(u), NEW r \in late, Data(r.entry), r.at \notin DOMAIN wal
  PROVE  epoch[u] = r.entry.epoch
<1>1. r.entry.epoch \in Nat /\ epoch[u] \in Nat /\ r.at \in 1..(N + 1) /\ N \in Nat /\ DOMAIN wal = 1..N
  BY StoreTyped, WriterTyped DEF StoreFacts, WriterFacts
<1>2. Rival(r.entry.epoch) /\ Rival(epoch[u])
  BY DEF Rival, Able
<1>3. r.entry.epoch <= epoch[u]
  BY <1>1, <1>2, Younger
<1>4. Fair(r.at, r.entry.epoch)
  BY DEF Inv, Fencing
<1>5. ~Stopped(r.at, r.entry.epoch)
  BY <1>1 DEF Stopped
<1>6. ~(epoch[u] > r.entry.epoch)
  BY <1>1, <1>2, <1>4, <1>5 DEF Fair
<1> QED  BY <1>1, <1>3, <1>6

(* Whoever finds its position free is able.                                *)
LEMMA FreeIsAble ==
  ASSUME Inv, Epochs, NEW w \in Writers, Writing(w), pos[w] \notin DOMAIN wal
  PROVE  Able(w)
<1>1. N \in Nat /\ DOMAIN wal = 1..N /\ pos[w] \in 1..(N + 1)
  BY StoreTyped, WriterTyped DEF StoreFacts, WriterFacts
<1>2. Halted(wal, pos[w], epoch[w])
  BY DEF Epochs
<1>3. Newest(wal, epoch[w])
  BY <1>1, <1>2 DEF Halted
<1> QED  BY <1>3 DEF Able

(* So is whoever holds the shard.                                          *)
LEMMA HolderIsAble ==
  ASSUME Inv, NEW w \in Writers, Writing(w), ~Fenced(w)
  PROVE  Able(w)
<1>1. /\ manifest.epoch \in Nat /\ epoch[w] \in Nat /\ epoch[w] <= manifest.epoch
      /\ LogTyped(wal) /\ \A s \in DOMAIN wal : wal[s].epoch <= manifest.epoch
  BY StoreTyped, WriterTyped DEF StoreFacts, WriterFacts
<1>2. epoch[w] = manifest.epoch
  BY <1>1 DEF Fenced
<1>3. Newest(wal, epoch[w])
  BY <1>1, <1>2 DEF Newest
<1> QED  BY <1>3 DEF Able

-----------------------------------------------------------------------------
(* Steps                                                                   *)

(* What stops a writer stays in the log.                                   *)
LEMMA HaltedLater ==
  ASSUME NEW l, NEW l2, NEW p, NEW e \in Nat, Kept(l, l2), LogTyped(l2), Halted(l, p, e),
         \A s \in DOMAIN l2 : s \notin DOMAIN l => p <= s
  PROVE  Halted(l2, p, e)
<1>1. CASE \E s \in DOMAIN l : p <= s /\ l[s].epoch > e
  BY <1>1 DEF Halted, Kept
<1>2. CASE Newest(l, e)
  <2>1. CASE Newest(l2, e)
    BY <2>1 DEF Halted
  <2>2. CASE ~Newest(l2, e)
    <3>1. PICK s \in DOMAIN l2 : ~(l2[s].epoch <= e)
      BY <2>2 DEF Newest
    <3>2. l2[s].epoch > e
      BY <3>1 DEF LogTyped
    <3>3. s \notin DOMAIN l
      BY <1>2, <3>1 DEF Newest, Kept
    <3> QED  BY <3>2, <3>3 DEF Halted
  <2> QED  BY <2>1, <2>2
<1> QED  BY <1>1, <1>2 DEF Halted

(* Where a writer goes in a step.                                          *)
Goes(u) ==
  /\ epoch'[u] = epoch[u] \/ epoch'[u] = 0
  /\ Writing(u)' => \/ Writing(u) /\ epoch'[u] = epoch[u] /\ pos'[u] = pos[u]
                    \/ Halted(wal', pos'[u], epoch'[u])

(* Epochs stay apart, and writers halted.                                  *)
LEMMA EpochsStep ==
  ASSUME Inv, Inv', Epochs, LogGrows, \A u \in Writers : Goes(u),
         \A r \in late' : Data(r.entry) => r \in late \/ Halted(wal', r.at, r.entry.epoch)
  PROVE  Epochs'
<1>1. /\ N \in Nat /\ N' \in Nat /\ DOMAIN wal = 1..N /\ DOMAIN wal' = 1..N'
      /\ LogTyped(wal') /\ Kept(wal, wal')
      /\ \A r \in late : r.at \in 1..(N + 1) /\ r.entry.epoch \in Nat
  BY StoreTyped, StoreTypedNext DEF StoreFacts, LogGrows, Kept
<1>2. \A u \in Writers : epoch[u] \in Nat /\ (Writing(u) => pos[u] \in 1..(N + 1))
  BY WriterTyped DEF WriterFacts
<1>3. \A p \in 1..(N + 1) : \A s \in DOMAIN wal' : s \notin DOMAIN wal => p <= s
  BY <1>1
<1>4. \A p \in 1..(N + 1) : \A e \in Nat : Halted(wal, p, e) => Halted(wal', p, e)
  BY <1>1, <1>3, HaltedLater
<1>5. \A u, v \in Writers : epoch'[u] = epoch'[v] /\ epoch'[u] >= 1 => u = v
  BY <1>2 DEF Epochs, Goes
<1>6. ASSUME NEW u \in Writers, Writing(u)' PROVE Halted(wal', pos'[u], epoch'[u])
  BY <1>2, <1>4, <1>6 DEF Epochs, Goes
<1>7. ASSUME NEW r \in late', Data(r.entry) PROVE Halted(wal', r.at, r.entry.epoch)
  BY <1>1, <1>4, <1>7 DEF Epochs
<1> QED  BY <1>5, <1>6, <1>7 DEF Epochs

(* A writer that a step does not touch goes nowhere.                       *)
LEMMA UntouchedGoes ==
  ASSUME NEW u, Untouched(u)
  PROVE  Goes(u)
BY DEF Untouched, Same, Goes, Writing

(* What it repeats, it repeats.                                            *)
LEMMA UntouchedRepeats ==
  ASSUME NEW u, Untouched(u), NEW r
  PROVE  Repeats(u, r) => Repeats(u, r)'
BY DEF Untouched, Same, Repeats

(* A request in flight, while the log waits.                               *)
LEMMA LateStill ==
  ASSUME Inv, Inv', wal' = wal, NEW r \in late, LateOk(r),
         manifest'.gen = manifest.gen \/ (Data(r.entry) => r.entry.gen >= manifest'.gen),
         \A u \in Writers : Writing(u)' =>
           \/ epoch'[u] > manifest.epoch
           \/ Writing(u) /\ epoch'[u] = epoch[u] /\ (Repeats(u, r) => Repeats(u, r)')
  PROVE  LateOk(r)'
<1> SUFFICES ASSUME Data(r.entry), r.at \notin DOMAIN wal
             PROVE  /\ Landable(wal', manifest', r.entry)
                    /\ \A u \in Writers : Writing(u)' /\ epoch'[u] = r.entry.epoch => Repeats(u, r)'
  BY DEF LateOk
<1>1. /\ Landable(wal, manifest, r.entry)
      /\ \A u \in Writers : Writing(u) /\ epoch[u] = r.entry.epoch => Repeats(u, r)
  BY DEF LateOk
<1>2. Landable(wal', manifest', r.entry)
  BY <1>1 DEF Landable
<1>3. r.entry.epoch \in Nat /\ r.entry.epoch <= manifest.epoch /\ manifest.epoch \in Nat
  BY StoreTyped DEF StoreFacts
<1> QED  BY <1>1, <1>2, <1>3

(* A step that leaves the log alone.                                       *)
LEMMA StillStep ==
  ASSUME Inv, Inv', Whole, wal' = wal, SameCut(manifest, manifest'),
         manifest.epoch <= manifest'.epoch,
         NEW w \in Writers, \A u \in Writers \ {w} : Untouched(u), WriterOk(w)', Goes(w),
         Writing(w)' => Writing(w) /\ epoch'[w] = epoch[w],
         \A r \in late : r.at \notin DOMAIN wal /\ Writing(w)' /\ Repeats(w, r) => Repeats(w, r)',
         \A r \in late' : \/ r \in late \/ ~Data(r.entry)
                          \/ Halted(wal, r.at, r.entry.epoch) /\ LateOk(r)',
         acked' \subseteq AllRows(wal)
  PROVE  Whole'
<1>1. LogTyped(wal) /\ N \in Nat /\ DOMAIN wal = 1..N /\ CutTyped(manifest)
  BY StoreTyped DEF StoreFacts
<1>2. LogGrows /\ Quiet(wal, wal') /\ Later(wal, wal', manifest) /\ LogTyped(wal')
  BY <1>1, SameLog DEF Quiet, Kept, Later
<1>3. Ordered(wal') /\ Cut(wal', manifest')
  BY <1>1, <1>2, QuietCut DEF Whole
<1>4. Epochs'
  <2>1. \A u \in Writers : Goes(u)
    BY UntouchedGoes
  <2>2. \A r \in late' : Data(r.entry) => r \in late \/ Halted(wal', r.at, r.entry.epoch)
    OBVIOUS
  <2> QED  BY <1>2, <2>1, <2>2, EpochsStep DEF Whole
<1>5. \A u \in Writers : WriterOk(u)'
  <2> SUFFICES ASSUME NEW u \in Writers \ {w} PROVE WriterOk(u)'
    OBVIOUS
  <2>1. WriterOk(u) /\ Untouched(u) /\ manifest.gen <= manifest'.gen
    BY <1>1 DEF Whole, SameCut, CutTyped
  <2> QED  BY <1>2, <2>1, OtherOk
<1>6. ASSUME NEW r \in late' PROVE LateOk(r)'
  <2>1. CASE r \in late /\ r.at \notin DOMAIN wal
    <3>1. LateOk(r) /\ manifest'.gen = manifest.gen
      BY <2>1 DEF Whole, SameCut
    <3>2. ASSUME NEW u \in Writers, Writing(u)'
          PROVE  Writing(u) /\ epoch'[u] = epoch[u] /\ (Repeats(u, r) => Repeats(u, r)')
      <4>1. CASE u = w
        BY <2>1, <3>2, <4>1
      <4>2. CASE u # w
        <5>1. Untouched(u)
          BY <4>2
        <5>2. Repeats(u, r) => Repeats(u, r)'
          BY <5>1, UntouchedRepeats
        <5> QED  BY <3>2, <5>1, <5>2 DEF Untouched, Same, Writing
      <4> QED  BY <4>1, <4>2
    <3> QED  BY <2>1, <3>1, <3>2, LateStill
  <2>2. CASE ~Data(r.entry) \/ r.at \in DOMAIN wal
    BY <2>2 DEF LateOk
  <2> QED  BY <2>1, <2>2
<1>7. AckedOk'
  BY DEF AckedOk
<1> QED  BY <1>3, <1>4, <1>5, <1>6, <1>7 DEF Whole

(* A step in which an entry lands: no request aims past it.                *)
LEMMA LandStep ==
  ASSUME Inv, Inv', Whole, NEW e, Grown(wal, wal', e), manifest' = manifest,
         ~Data(e) \/ Landable(wal, manifest, e),
         \A u \in Writers : Goes(u) /\ \/ WriterOk(u)'
                                       \/ Untouched(u) /\ (~Data(e) \/ ~Able(u)),
         late' \subseteq late, acked' = acked
  PROVE  Whole'
<1>1. /\ StoreFacts /\ StoreFacts' /\ LogTyped(wal) /\ LogTyped(wal') /\ CutTyped(manifest)
      /\ N \in Nat /\ DOMAIN wal = 1..N /\ N' \in Nat /\ DOMAIN wal' = 1..N'
      /\ manifest.gen \in Nat /\ manifest.epoch \in Nat /\ manifest.replayAfter <= N
      /\ \A r \in late : r.at \in 1..(N + 1)
  BY StoreTyped, StoreTypedNext DEF StoreFacts, CutTyped
<1>2. /\ Kept(wal, wal') /\ AllRows(wal) \subseteq AllRows(wal')
  BY <1>1, GrownRows
<1>3. PICK n \in Nat : /\ DOMAIN wal = 1..n /\ DOMAIN wal' = 1..(n + 1)
                       /\ (\A p \in 1..n : wal'[p] = wal[p]) /\ wal'[n + 1] = e
  BY DEF Grown
<1>4. n = N /\ N' = N + 1
  <2>1. ASSUME NEW a \in Nat, NEW b \in Nat, 1..a = 1..b PROVE a = b
    BY <2>1
  <2> QED  BY <1>1, <1>3, <2>1
<1>5. LogGrows
  BY <1>1, <1>3, <1>4 DEF LogGrows
<1>6. \A p \in DOMAIN wal' : p \notin DOMAIN wal => p = N + 1 /\ wal'[p] = e
  BY <1>3, <1>4
<1>7. ~Data(e) => Quiet(wal, wal')
  BY <1>2, <1>6 DEF Quiet
<1>8. Later(wal, wal', manifest)
  BY <1>2, <1>6 DEF Later, Landable
<1>9. Ordered(wal') /\ Cut(wal', manifest')
  <2>1. CASE ~Data(e)
    BY <1>1, <1>7, <2>1, QuietOrdered, QuietCut DEF Whole, SameCut
  <2>2. CASE Data(e)
    <3>1. \A p \in DOMAIN wal' : p <= manifest.replayAfter => p \in DOMAIN wal
      BY <1>1, <1>6 DEF CutTyped
    <3>2. Cut(wal, manifest) /\ Ordered(wal) /\ Landable(wal, manifest, e) /\ manifest.gen >= 1
      BY <2>2 DEF Whole, Cut
    <3> QED  BY <1>1, <2>2, <3>1, <3>2, GrownOrdered, GrownCut
  <2> QED  BY <2>1, <2>2
<1>10. Epochs'
  BY <1>5, EpochsStep DEF Whole
<1>11. ASSUME NEW u \in Writers, Untouched(u), ~Data(e) \/ ~Able(u) PROVE WriterOk(u)'
  <2>1. WriterOk(u) /\ SameCut(manifest, manifest') /\ manifest.gen <= manifest'.gen
        /\ manifest.epoch <= manifest'.epoch
    BY <1>1 DEF Whole, SameCut
  <2> QED  BY <1>5, <1>7, <1>8, <1>11, <2>1, OtherOk
<1>12. \A r \in late' : LateOk(r)'
  BY <1>1, <1>4 DEF LateOk
<1>13. AckedOk'
  BY <1>2 DEF Whole, AckedOk
<1> QED  BY <1>9, <1>10, <1>11, <1>12, <1>13 DEF Whole

(* A step that publishes the generation t at the cursor c.                 *)
LEMMA PublishStep ==
  ASSUME Inv, Inv', Whole, NEW w \in Writers, Writing(w), ~Fenced(w),
         wal' = wal, late' = late, acked' = acked,
         NEW t, NEW c \in Nat, manifest' = Published(t, c), t.gen = manifest.gen,
         Rows(t) = LogRows(wal, t.gen), Rows(t) # {},
         \A p \in DOMAIN wal : Data(wal[p]) /\ p <= c => wal[p].gen <= t.gen,
         \A u \in Writers \ {w} : Untouched(u), WriterOk(w)', Goes(w),
         Writing(w)' => Writing(w) /\ epoch'[w] = epoch[w],
         \A r \in late : Repeats(w, r) =>
           r.entry.gen > t.gen /\ (Writing(w)' => Repeats(w, r)')
  PROVE  Whole'
<1>1. /\ StoreFacts /\ LogTyped(wal) /\ N \in Nat /\ DOMAIN wal = 1..N /\ CutTyped(manifest)
      /\ CutTyped(manifest') /\ manifest.epoch \in Nat /\ manifest.gen \in Nat
  BY StoreTyped, StoreTypedNext DEF StoreFacts, CutTyped
<1>2. LogGrows /\ Later(wal, wal', manifest)
  BY <1>1, SameLog DEF Kept, Later
<1>3. /\ manifest'.gen = t.gen + 1 /\ manifest'.replayAfter = c
      /\ manifest'.sst = manifest.sst \cup {[gen |-> t.gen, rows |-> t.rows]}
      /\ manifest'.epoch = manifest.epoch
  <2>1. manifest \in ShardManifests
    BY DEF Inv, Shape, Stores, ShardManifests
  <2> QED  BY <2>1 DEF Published, ShardManifests
<1>4. Ordered(wal') /\ Cut(wal', manifest')
  <2>1. Cut(wal, manifest) /\ Ordered(wal)
    BY DEF Whole
  <2>2. Cut(wal, manifest')
    BY <1>1, <1>3, <2>1, CutMoves
  <2> QED  BY <2>1, <2>2
<1>5. Epochs'
  <2>1. \A u \in Writers : Goes(u)
    BY UntouchedGoes
  <2> QED  BY <1>2, <2>1, EpochsStep DEF Whole
<1>6. Able(w) /\ Epochs
  BY HolderIsAble DEF Whole
<1>7. /\ epoch[w] \in Nat /\ epoch[w] = manifest.epoch
      /\ \A u \in Writers : epoch[u] \in Nat /\ epoch[u] <= manifest.epoch
  BY <1>1, WriterTyped DEF WriterFacts, Fenced
<1>8. ASSUME NEW u \in Writers \ {w}, pc[u] \in {"discover", "sentinel"}
      PROVE  ~Newest(wal, epoch[u])
  <2>1. epoch[u] >= 1 /\ epoch[u] # epoch[w]
    BY <1>6, <1>8 DEF Inv, Local, PosOk, Epochs
  <2>2. epoch[w] >= 2 /\ epoch[w] > epoch[u]
    BY <1>7, <2>1
  <2>3. Rival(epoch[w])
    BY DEF Rival
  <2>4. PICK s \in DOMAIN wal : wal[s].epoch = epoch[w]
    BY <1>7, <2>2, <2>3 DEF Inv, Fencing
  <2>5. ~(epoch[w] <= epoch[u])
    BY <1>7, <2>2
  <2> QED  BY <2>4, <2>5 DEF Newest
<1>9. \A u \in Writers : WriterOk(u)'
  <2> SUFFICES ASSUME NEW u \in Writers \ {w} PROVE WriterOk(u)'
    OBVIOUS
  <2>1. WriterOk(u) /\ Untouched(u) /\ manifest.gen <= manifest'.gen
        /\ manifest.epoch <= manifest'.epoch
    BY <1>1, <1>3 DEF Whole
  <2>2. ~Able(u)
    BY <1>6, OneAble
  <2> QED  BY <1>2, <1>8, <2>1, <2>2, OtherOk
<1>10. ASSUME NEW r \in late PROVE LateOk(r)'
  <2>1. CASE ~Data(r.entry) \/ r.at \in DOMAIN wal
    BY <2>1 DEF LateOk
  <2>2. CASE Data(r.entry) /\ r.at \notin DOMAIN wal
    <3>1. LateOk(r) /\ epoch[w] = r.entry.epoch
      BY <1>6, <2>2, LateAlone DEF Whole
    <3>2. Repeats(w, r)
      BY <2>2, <3>1 DEF LateOk
    <3>3. r.entry.gen >= manifest'.gen
      <4>1. r.entry.gen \in Nat /\ r.entry.gen > t.gen
        BY <1>1, <3>2 DEF StoreFacts
      <4> QED  BY <1>1, <1>3, <4>1
    <3>4. ASSUME NEW u \in Writers, Writing(u)'
          PROVE  Writing(u) /\ epoch'[u] = epoch[u] /\ (Repeats(u, r) => Repeats(u, r)')
      <4>1. CASE u = w
        BY <3>2, <3>4, <4>1
      <4>2. CASE u # w
        <5>1. Untouched(u)
          BY <4>2
        <5>2. Repeats(u, r) => Repeats(u, r)'
          BY <5>1, UntouchedRepeats
        <5> QED  BY <3>4, <5>1, <5>2 DEF Untouched, Same, Writing
      <4> QED  BY <4>1, <4>2
    <3> QED  BY <3>1, <3>3, <3>4, LateStill
  <2> QED  BY <2>1, <2>2
<1>11. AckedOk'
  BY DEF Whole, AckedOk
<1> QED  BY <1>4, <1>5, <1>9, <1>10, <1>11 DEF Whole

(* A process that is gone.                                                 *)
LEMMA Gone ==
  ASSUME Inv, NEW w \in Writers, NEW l, Goto(w, l), Forget(w)
  PROVE  /\ pc'[w] = l /\ epoch'[w] = 0
         /\ \A u \in Writers \ {w} : Untouched(u) /\ acked' = acked
<1>1. /\ pc' = [pc EXCEPT ![w] = l] /\ epoch' = [epoch EXCEPT ![w] = 0]
      /\ acked' = acked
  BY DEF Goto, Forget, ghosts
<1>2. WriterState
  BY DEF Inv, Shape
<1>3. pc'[w] = l /\ epoch'[w] = 0
  BY <1>1, <1>2 DEF WriterState
<1>4. \A u \in Writers \ {w} : Untouched(u)
  BY <1>1, <1>2 DEF Forget, WriterState, Untouched, Same
<1> QED  BY <1>1, <1>3, <1>4

(* It owes nothing.                                                        *)
LEMMA DeadOk ==
  ASSUME NEW w \in Writers, pc'[w] = "dead"
  PROVE  WriterOk(w)' /\ ~Writing(w)'
BY DEF WriterOk, ClaimOk, ReplayOk, ServeOk, AbleOk, Writing

(* The open ends with an error, or the process stops, and nothing is sent. *)
LEMMA DiesStep ==
  ASSUME Inv, Inv', Whole, NEW w \in Writers, Goto(w, "dead"), Forget(w),
         UNCHANGED <<wal, manifest>>,
         \A r \in late' : \/ r \in late \/ ~Data(r.entry)
                          \/ Halted(wal, r.at, r.entry.epoch) /\ LateOk(r)'
  PROVE  Whole'
<1>1. pc'[w] = "dead" /\ epoch'[w] = 0 /\ \A u \in Writers \ {w} : Untouched(u)
  BY Gone
<1>2. acked' = acked
  BY DEF Forget, ghosts
<1>3. WriterOk(w)' /\ ~Writing(w)'
  BY <1>1, DeadOk
<1>4. Goes(w)
  BY <1>1, <1>3 DEF Goes
<1>5. SameCut(manifest, manifest') /\ manifest.epoch <= manifest'.epoch
  BY StoreTyped DEF StoreFacts, SameCut
<1>6. acked' \subseteq AllRows(wal)
  BY <1>2 DEF Whole, AckedOk
<1> QED  BY <1>1, <1>3, <1>4, <1>5, <1>6, StillStep

-----------------------------------------------------------------------------
(* ShardWriter::open                                                       *)

(* A table without rows that starts where the cut is.                      *)
LEMMA FreshTable ==
  ASSUME NEW g \in Nat, NEW o \in Nat
  PROVE  LET t == Table(g, o) IN
         /\ t.gen = g /\ t.off = o /\ t.rows = <<>> /\ Rows(t) = {} /\ Rising(t.rows)
         /\ <<t>>[1] = t /\ Len(<<t>>) = 1
<1> DEFINE t == Table(g, o)
<1>1. t.gen = g /\ t.off = o /\ t.rows = <<>>
  BY DEF Table
<1>2. Rows(t) = {}
  BY <1>1 DEF Rows
<1>3. Rising(t.rows)
  BY <1>1 DEF Rising
<1> QED  BY <1>1, <1>2, <1>3

(* Replay starts behind the cursor of the manifest b.                      *)
LEMMA ReplayStarts ==
  ASSUME NEW l, LogTyped(l), NEW m, CutTyped(m), NEW b, b.gen \in Nat, b.replayAfter \in Nat,
         NEW ts, Claimed(l, m, b, ts)
  PROVE  Collected(l, m, b, ts[1], b.replayAfter + 1, 0) /\ ts[1].gen = b.gen
<1> DEFINE t == Table(b.gen, 0)
<1>1. ts[1] = t /\ t.gen = b.gen /\ Rows(t) = {} /\ Rising(t.rows)
  BY FreshTable DEF Claimed
<1> HIDE DEF t
<1>2. \A q \in DOMAIN l : q < b.replayAfter + 1 <=> q <= b.replayAfter
  BY DEF LogTyped
<1>3. \A q \in DOMAIN l : Data(l[q]) /\ q < b.replayAfter + 1 =>
        l[q].gen <= t.gen /\ (l[q].gen = t.gen => Rows(l[q]) \subseteq Rows(t))
  BY <1>1, <1>2 DEF Claimed, LogTyped
<1>4. b.gen <= t.gen /\ t.gen <= m.gen /\ t.gen >= 1
  BY <1>1 DEF Claimed
<1>5. \A q \in DOMAIN l : l[q].gen >= b.gen => l[q].gen >= t.gen
  BY <1>1
<1> QED  BY <1>1, <1>3, <1>4, <1>5 DEF Collected

(* claim_epoch.                                                            *)
LEMMA ClaimWhole ==
  ASSUME Inv, Inv', Whole, NEW w \in Writers, Claim(w)
  PROVE  Whole'
<1>1. /\ pc[w] = "new" /\ manifest' = [manifest EXCEPT !.epoch = @ + 1]
      /\ UNCHANGED <<wal, late, last, durable, covered, queue, append, flush, poisoned, put, acked>>
  BY DEF Claim, ghosts
<1>2. /\ StoreFacts /\ LogTyped(wal) /\ N \in Nat /\ DOMAIN wal = 1..N /\ CutTyped(manifest)
      /\ manifest.epoch \in Nat /\ manifest.gen \in Nat /\ manifest.replayAfter \in Nat
      /\ \A p \in DOMAIN wal : wal[p].epoch <= manifest.epoch
  BY StoreTyped DEF StoreFacts, CutTyped
<1>3. SameCut(manifest, manifest') /\ manifest'.epoch = manifest.epoch + 1
      /\ manifest.epoch <= manifest'.epoch /\ CutTyped(manifest')
  <2>1. manifest \in ShardManifests
    BY DEF Inv, Shape, Stores, ShardManifests
  <2>2. SameCut(manifest, manifest') /\ manifest'.epoch = manifest.epoch + 1
    BY <1>1, <2>1 DEF ShardManifests, SameCut
  <2> QED  BY <1>2, <2>2 DEF SameCut, CutTyped
<1>4. WriterState /\ AckedOk /\ acked' \subseteq AllRows(wal)
  BY <1>1 DEF Inv, Shape, Whole, AckedOk
<1>5. CASE Goto(w, "dead") /\ UNCHANGED <<epoch, base, tables, pos>>
  <2>1. pc'[w] = "dead" /\ epoch'[w] = epoch[w] /\ \A u \in Writers \ {w} : Untouched(u)
    BY <1>1, <1>4, <1>5 DEF Goto, WriterState, Untouched, Same
  <2>2. WriterOk(w)' /\ ~Writing(w)'
    BY <2>1, DeadOk
  <2>3. Goes(w)
    BY <2>1, <2>2 DEF Goes
  <2> QED  BY <1>1, <1>3, <1>4, <2>1, <2>2, <2>3, StillStep
<1> DEFINE k == manifest.epoch + 1
           b == [gen |-> manifest.gen, replayAfter |-> manifest.replayAfter,
                 lastSeen |-> manifest.lastSeen]
           l == IF k >= 2 THEN "discover" ELSE "replay"
<1>6. CASE /\ epoch' = [epoch EXCEPT ![w] = k] /\ base' = [base EXCEPT ![w] = b]
           /\ tables' = [tables EXCEPT ![w] = <<Table(manifest.gen, 0)>>]
           /\ pos' = [pos EXCEPT ![w] = manifest.replayAfter + 1]
           /\ Goto(w, l)
  <2>1. /\ b.gen = manifest.gen /\ b.replayAfter = manifest.replayAfter
        /\ k \in Nat /\ k > manifest.epoch /\ l \in {"discover", "replay"}
    BY <1>2
  <2> HIDE DEF b, k, l
  <2>2. /\ epoch'[w] = k /\ base'[w] = b /\ tables'[w] = <<Table(manifest.gen, 0)>>
        /\ pos'[w] = manifest.replayAfter + 1 /\ pc'[w] = l /\ last'[w] = last[w]
        /\ \A u \in Writers \ {w} : Untouched(u)
    BY <1>1, <1>4, <1>6 DEF Goto, WriterState, Untouched, Same
  <2>3. last[w] = 0
    BY <1>1 DEF Whole, WriterOk, ClaimOk
  <2>4. Claimed(wal', manifest', b, tables'[w])
    BY <1>1, <1>3, <2>1, <2>2 DEF Claimed, Whole, Cut, SameCut, CutTyped
  <2>5. WriterOk(w)'
    <3>1. ClaimOk(w)'
      BY <1>3, <2>1, <2>2, <2>3, <2>4 DEF ClaimOk, SameCut
    <3>2. ReplayOk(w)'
      <4>1. Collected(wal', manifest', b, tables'[w][1], b.replayAfter + 1, 0)
            /\ tables'[w][1].gen = b.gen
        BY <1>1, <1>2, <1>3, <2>1, <2>4, ReplayStarts
      <4> QED  BY <1>3, <2>1, <2>2, <2>3, <4>1 DEF ReplayOk, SameCut
    <3>3. ServeOk(w)' /\ AbleOk(w)'
      BY <2>1, <2>2 DEF ServeOk, AbleOk
    <3> QED  BY <3>1, <3>2, <3>3 DEF WriterOk
  <2>6. LogGrows /\ Quiet(wal, wal') /\ Later(wal, wal', manifest)
    BY <1>1, <1>2, SameLog DEF Quiet, Kept, Later
  <2>7. \A u \in Writers : WriterOk(u)'
    <3> SUFFICES ASSUME NEW u \in Writers \ {w} PROVE WriterOk(u)'
      BY <2>5
    <3>1. WriterOk(u) /\ Untouched(u) /\ manifest.gen <= manifest'.gen
      BY <1>2, <1>3, <2>2 DEF Whole, SameCut
    <3> QED  BY <1>3, <2>6, <3>1, OtherOk
  <2>8. \A u \in Writers \ {w} : epoch'[u] = epoch[u] /\ epoch[u] \in Nat /\ epoch[u] < k
    BY <1>2, <2>1, <2>2, WriterTyped DEF WriterFacts, Untouched, Same
  <2>9. Epochs'
    <3>1. \A u, v \in Writers : epoch'[u] = epoch'[v] /\ epoch'[u] >= 1 => u = v
      BY <2>1, <2>2, <2>8 DEF Whole, Epochs
    <3>2. \A u \in Writers : Writing(u)' => Halted(wal', pos'[u], epoch'[u])
      <4>1. Halted(wal', pos'[w], epoch'[w])
        BY <1>1, <1>2, <2>1, <2>2 DEF Halted, Newest, LogTyped
      <4>2. \A u \in Writers \ {w} : Writing(u)' => Halted(wal', pos'[u], epoch'[u])
        BY <1>1, <2>2 DEF Untouched, Same, Writing, Whole, Epochs
      <4> QED  BY <4>1, <4>2
    <3> QED  BY <1>1, <3>1, <3>2 DEF Whole, Epochs
  <2>10. \A r \in late' : LateOk(r)'
    <3> SUFFICES ASSUME NEW r \in late PROVE LateOk(r)'
      BY <1>1
    <3>1. LateOk(r) /\ manifest'.gen = manifest.gen
      BY <1>3 DEF Whole, SameCut
    <3>2. ASSUME NEW u \in Writers, Writing(u)'
          PROVE  \/ epoch'[u] > manifest.epoch
                 \/ Writing(u) /\ epoch'[u] = epoch[u] /\ (Repeats(u, r) => Repeats(u, r)')
      <4>1. CASE u = w
        BY <2>1, <2>2, <4>1
      <4>2. CASE u # w
        <5>1. Untouched(u)
          BY <2>2, <4>2
        <5>2. Repeats(u, r) => Repeats(u, r)'
          BY <5>1, UntouchedRepeats
        <5> QED  BY <3>2, <5>1, <5>2 DEF Untouched, Same, Writing
      <4> QED  BY <4>1, <4>2
    <3> QED  BY <1>1, <3>1, <3>2, LateStill
  <2>11. Ordered(wal') /\ Cut(wal', manifest') /\ AckedOk'
    BY <1>1, <1>2, <1>3, <1>4, <2>6, QuietCut DEF Whole, AckedOk
  <2> QED  BY <2>7, <2>9, <2>10, <2>11 DEF Whole
<1> QED  BY <1>5, <1>6 DEF Claim

(* discover_next_position.                                                 *)
LEMMA DiscoverWhole ==
  ASSUME Inv, Inv', Whole, NEW w \in Writers, Discover(w)
  PROVE  Whole'
<1>1. /\ pc[w] = "discover" /\ Goto(w, "sentinel") /\ \E p : pos' = [pos EXCEPT ![w] = p]
      /\ UNCHANGED <<wal, late, manifest, epoch, base, last, tables, durable, covered, queue,
                     append, flush, poisoned, put, acked>>
  BY DEF Discover, store, opening, tasks, ghosts
<1>2. pc'[w] = "sentinel" /\ \A u \in Writers \ {w} : Untouched(u)
  BY <1>1 DEF Inv, Shape, WriterState, Goto, Untouched, Same
<1>3. WriterOk(w)
  BY DEF Whole
<1>4. WriterOk(w)'
  <2>1. ClaimOk(w)'
    BY <1>1, <1>2, <1>3 DEF WriterOk, ClaimOk
  <2>2. ReplayOk(w)' /\ ServeOk(w)' /\ AbleOk(w)'
    BY <1>2 DEF ReplayOk, ServeOk, AbleOk
  <2> QED  BY <2>1, <2>2 DEF WriterOk
<1>5. ~Writing(w)' /\ Goes(w)
  BY <1>1, <1>2 DEF Writing, Goes
<1>6. SameCut(manifest, manifest') /\ manifest.epoch <= manifest'.epoch
  BY <1>1, StoreTyped DEF StoreFacts, SameCut
<1>7. acked' \subseteq AllRows(wal)
  BY <1>1 DEF Whole, AckedOk
<1> QED  BY <1>1, <1>2, <1>4, <1>5, <1>6, <1>7, StillStep

(* An append that fails leaves the log alone, adds its entry or sends its  *)
(* request.                                                                *)
LEMMA FailsCases ==
  ASSUME Inv, NEW p \in 1..(N + 1), NEW e, AppendFails(p, e)
  PROVE  \/ wal' = wal /\ late' = late
         \/ Grown(wal, wal', e) /\ late' = late
         \/ wal' = wal /\ late' = late \cup {[at |-> p, entry |-> e]}
<1>1. N \in Nat /\ DOMAIN wal = 1..N
  BY StoreTyped DEF StoreFacts
<1>2. ASSUME p \notin DOMAIN wal, wal' = Land(p, e) PROVE Grown(wal, wal', e)
  <2>1. /\ p = N + 1 /\ N' = N + 1 /\ LogGrows /\ wal'[N + 1] = e
    BY <1>1, <1>2, LandOk
  <2> QED  BY <1>1, <2>1 DEF Grown, LogGrows
<1> QED  BY <1>2 DEF AppendFails

(* An entry lands on a free position.                                      *)
LEMMA LandGrows ==
  ASSUME Inv, NEW p \in 1..(N + 1), p \notin DOMAIN wal, NEW e, wal' = Land(p, e)
  PROVE  Grown(wal, wal', e) /\ p = N + 1 /\ N' = N + 1
<1>1. N \in Nat /\ DOMAIN wal = 1..N
  BY StoreTyped DEF StoreFacts
<1>2. /\ p = N + 1 /\ N' = N + 1 /\ LogGrows /\ wal'[N + 1] = e
  BY <1>1, LandOk
<1> QED  BY <1>1, <1>2 DEF Grown, LogGrows

(* write_fence_sentinel.                                                   *)
LEMMA WriteSentinelWhole ==
  ASSUME Inv, Inv', Whole, NEW w \in Writers, WriteSentinel(w)
  PROVE  Whole'
<1> DEFINE e == Sentinel(w)
<1>1. pc[w] = "sentinel" /\ manifest' = manifest /\ ~Data(e) /\ ~Writing(w)
  BY DEF WriteSentinel, Sentinel, Data, Writing
<1>2. /\ N \in Nat /\ DOMAIN wal = 1..N /\ LogTyped(wal) /\ pos[w] \in 1..(N + 1)
      /\ CutTyped(manifest) /\ LogTyped(wal') /\ epoch[w] \in Nat
      /\ base[w].gen \in Nat /\ base[w].replayAfter \in Nat /\ manifest.epoch \in Nat
  BY <1>1, StoreTyped, StoreTypedNext, WriterTyped DEF StoreFacts, WriterFacts
<1>3. WriterState
  BY DEF Inv, Shape
<1>4. Claimed(wal, manifest, base[w], tables[w]) /\ last[w] = 0
      /\ (Newest(wal, epoch[w]) => base[w].gen = manifest.gen)
  BY <1>1 DEF Whole, WriterOk, ClaimOk
<1> HIDE DEF e
<1>5. CASE /\ pos[w] \notin DOMAIN wal /\ wal' = Land(pos[w], e)
           /\ pos' = [pos EXCEPT ![w] = base[w].replayAfter + 1] /\ Goto(w, "replay")
           /\ UNCHANGED <<late, epoch, base, last, tables, durable, covered, queue, append, flush,
                          poisoned, put, acked>>
  <2>1. Grown(wal, wal', e) /\ N' = N + 1
    BY <1>2, <1>5, LandGrows
  <2>2. /\ pc'[w] = "replay" /\ pos'[w] = base[w].replayAfter + 1 /\ epoch'[w] = epoch[w]
        /\ base'[w] = base[w] /\ tables'[w] = tables[w] /\ last'[w] = last[w]
        /\ \A u \in Writers \ {w} : Untouched(u)
    BY <1>3, <1>5 DEF Goto, WriterState, Untouched, Same
  <2>3. Kept(wal, wal') /\ \A p \in DOMAIN wal' : p \in DOMAIN wal \/ (p = N + 1 /\ wal'[p] = e)
    BY <1>2, <1>5, <2>1, GrownRows DEF Land
  <2>4. Later(wal, wal', manifest)
    BY <1>1, <2>3 DEF Later
  <2>5. Claimed(wal', manifest', base'[w], tables'[w])
    <3>1. \A p \in DOMAIN wal' : p <= base[w].replayAfter => p \in DOMAIN wal
      <4>1. base[w].replayAfter <= N
        BY WriterTyped DEF WriterFacts
      <4> QED  BY <1>2, <2>3, <4>1
    <3>2. Claimed(wal', manifest, base[w], tables[w])
      <4>1. manifest.gen <= manifest.gen
        BY <1>2 DEF CutTyped
      <4> QED  BY <1>2, <1>4, <2>4, <3>1, <4>1, ClaimedLater
    <3> QED  BY <1>1, <2>2, <3>2
  <2>6. Collected(wal', manifest', base'[w], tables'[w][1], pos'[w], last'[w])
        /\ tables'[w][1].gen = base[w].gen
    BY <1>1, <1>2, <1>4, <2>2, <2>5, ReplayStarts
  <2>7. Newest(wal', epoch[w]) => Newest(wal, epoch[w])
    BY <2>3 DEF Newest, Kept
  <2>8. WriterOk(w)'
    <3>1. ReplayOk(w)'
      BY <1>1, <1>4, <2>2, <2>6, <2>7 DEF ReplayOk, Able
    <3>2. ClaimOk(w)' /\ ServeOk(w)' /\ AbleOk(w)'
      BY <2>2 DEF ClaimOk, ServeOk, AbleOk
    <3> QED  BY <3>1, <3>2 DEF WriterOk
  <2>9. Goes(w)
    <3>1. Halted(wal', pos'[w], epoch'[w])
      <4>1. CASE Newest(wal', epoch[w])
        BY <2>2, <4>1 DEF Halted
      <4>2. CASE ~Newest(wal', epoch[w])
        <5>1. PICK s \in DOMAIN wal' : ~(wal'[s].epoch <= epoch'[w])
          BY <2>2, <4>2 DEF Newest
        <5>2. wal'[s].epoch > epoch'[w]
          BY <1>2, <2>2, <5>1 DEF LogTyped
        <5>3. base'[w].replayAfter < s
          BY <5>2 DEF Inv, Fencing
        <5>4. s \in Nat /\ pos'[w] <= s
          BY <1>2, <2>2, <5>3 DEF LogTyped
        <5> QED  BY <5>2, <5>4 DEF Halted
      <4> QED  BY <4>1, <4>2
    <3> QED  BY <2>2, <3>1 DEF Goes
  <2>10. \A u \in Writers : Goes(u) /\ \/ WriterOk(u)'
                                       \/ Untouched(u) /\ (~Data(e) \/ ~Able(u))
    BY <1>1, <2>2, <2>8, <2>9, UntouchedGoes
  <2> QED  BY <1>1, <1>5, <2>1, <2>10, LandStep
<1>6. CASE /\ Goto(w, "discover")
           /\ UNCHANGED <<wal, late, pos, epoch, base, last, tables, durable, covered, queue,
                          append, flush, poisoned, put, acked>>
  <2>1. pc'[w] = "discover" /\ \A u \in Writers \ {w} : Untouched(u)
    BY <1>3, <1>6 DEF Goto, WriterState, Untouched, Same
  <2>2. WriterOk(w)'
    <3>1. ClaimOk(w)'
      BY <1>1, <1>4, <1>6 DEF ClaimOk
    <3>2. ReplayOk(w)' /\ ServeOk(w)' /\ AbleOk(w)'
      BY <2>1 DEF ReplayOk, ServeOk, AbleOk
    <3> QED  BY <3>1, <3>2 DEF WriterOk
  <2>3. ~Writing(w)' /\ Goes(w)
    BY <1>6, <2>1 DEF Writing, Goes
  <2>4. SameCut(manifest, manifest') /\ manifest.epoch <= manifest'.epoch
    BY <1>1, <1>2 DEF SameCut
  <2>5. acked' \subseteq AllRows(wal)
    BY <1>6 DEF Whole, AckedOk
  <2> QED  BY <1>6, <2>1, <2>2, <2>3, <2>4, <2>5, StillStep
<1>7. CASE AppendFails(pos[w], e) /\ Goto(w, "dead") /\ Forget(w)
  <2>1. CASE wal' = wal /\ \A r \in late' : r \in late \/ r.entry = e
    BY <1>1, <1>7, <2>1, DiesStep
  <2>2. CASE Grown(wal, wal', e) /\ late' = late
    <3>1. pc'[w] = "dead" /\ epoch'[w] = 0 /\ \A u \in Writers \ {w} : Untouched(u)
      BY <1>7, Gone
    <3>2. WriterOk(w)' /\ Goes(w)
      BY <3>1, DeadOk DEF Goes
    <3>3. acked' = acked
      BY <1>7 DEF Forget, ghosts
    <3>4. \A u \in Writers : Goes(u) /\ \/ WriterOk(u)'
                                        \/ Untouched(u) /\ (~Data(e) \/ ~Able(u))
      BY <1>1, <3>1, <3>2, UntouchedGoes
    <3> QED  BY <1>1, <2>2, <3>3, <3>4, LandStep
  <2>3. CASE wal' = wal /\ late' = late \cup {[at |-> pos[w], entry |-> e]}
    <3>1. \A r \in late' : r \in late \/ r.entry = e
      BY <2>3
    <3> QED  BY <2>1, <2>3, <3>1
  <2>4. CASE wal' = wal /\ late' = late
    BY <2>1, <2>4
  <2> QED  BY <1>2, <1>7, <2>2, <2>3, <2>4, FailsCases
<1> QED  BY <1>5, <1>6, <1>7 DEF WriteSentinel, e, opening, tasks, ghosts


-----------------------------------------------------------------------------
(* Replay                                                                  *)

(* An entry without rows has no generation, nor a request that can land.   *)
Blank ==
  /\ \A p \in DOMAIN wal : ~Data(wal[p]) => wal[p].gen = 0
  /\ \A r \in late : ~Data(r.entry) /\ r.at \notin DOMAIN wal => r.entry.gen = 0

(* A skipped entry leaves replay where it was.                             *)
LEMMA CollectSkips ==
  ASSUME NEW l, LogTyped(l), NEW m, NEW b, b.gen \in Nat, NEW t, t.gen \in Nat,
         NEW p \in DOMAIN l, NEW x, Collected(l, m, b, t, p, x),
         ~Data(l[p]) \/ l[p].gen < b.gen
  PROVE  Collected(l, m, b, t, p + 1, x)
<1>1. \A q \in DOMAIN l : /\ q \in Nat /\ l[q].gen \in Nat /\ (q < p + 1 <=> q < p \/ q = p)
                          /\ (q >= p + 1 => q >= p)
  BY DEF LogTyped
<1>2. \A q \in DOMAIN l : Data(l[q]) /\ q < p + 1 =>
        l[q].gen <= t.gen /\ (l[q].gen = t.gen => Rows(l[q]) \subseteq Rows(t))
  BY <1>1 DEF Collected
<1>3. \A q \in DOMAIN l : Data(l[q]) /\ q >= p + 1 /\ l[q].gen >= b.gen => l[q].gen >= t.gen
  BY <1>1 DEF Collected
<1> QED  BY <1>1, <1>2, <1>3 DEF Collected

(* An entry that is not skipped and for which nothing is flushed belongs   *)
(* to the generation being rebuilt, even if it is the first.               *)
LEMMA CollectSame ==
  ASSUME NEW l, LogTyped(l), Ordered(l), NEW m, NEW b, NEW t, t.gen \in Nat, t.rows \in Seq(Nat),
         NEW p \in DOMAIN l, NEW x, Collected(l, m, b, t, p, x), Data(l[p]), l[p].gen >= b.gen,
         l[p].gen <= t.gen \/ t.rows = <<>>
  PROVE  l[p].gen = t.gen
<1>1. /\ \A q \in DOMAIN l : q \in Nat /\ l[q].gen \in Nat /\ l[q].rows \in Seq(Nat)
      /\ p \in Nat /\ l[p].gen \in Nat /\ l[p].gen >= t.gen /\ t.gen >= 1
  BY DEF LogTyped, Collected
<1>2. CASE l[p].gen <= t.gen
  BY <1>1, <1>2
<1>3. CASE t.rows = <<>>
  <2>1. Rows(t) = {}
    BY <1>3 DEF Rows
  <2>2. Has(l, t.gen)
    BY <1>1 DEF Ordered
  <2>3. PICK q \in DOMAIN l : Data(l[q]) /\ l[q].gen = t.gen
    BY <2>2 DEF Has
  <2>4. Rows(l[q]) # {}
    BY <1>1, <2>3, RowsOf
  <2>5. ~(q < p)
    BY <2>1, <2>3, <2>4 DEF Collected
  <2>6. q = p \/ (p < q /\ l[p].gen <= l[q].gen)
    BY <1>1, <2>3, <2>5 DEF Ordered
  <2> QED  BY <1>1, <2>3, <2>6
<1> QED  BY <1>2, <1>3

(* The rows of two sequences one after the other.                          *)
LEMMA Joined ==
  ASSUME NEW s \in Seq(Nat), NEW r \in Seq(Nat)
  PROVE  /\ s \o r \in Seq(Nat) /\ Len(s \o r) = Len(s) + Len(r)
         /\ \A i \in 1..Len(s) : (s \o r)[i] = s[i]
         /\ \A i \in 1..Len(r) : (s \o r)[Len(s) + i] = r[i]
         /\ \A i \in 1..(Len(s) + Len(r)) : (s \o r)[i] = IF i <= Len(s) THEN s[i] ELSE r[i - Len(s)]
OBVIOUS

(* Its rows follow those collected, and there is room for them.            *)
LEMMA CollectJoins ==
  ASSUME NEW l, LogTyped(l), Ordered(l), NEW m, NEW b, b.gen \in Nat,
         NEW t, t.gen \in Nat, t.rows \in Seq(Nat),
         NEW p \in DOMAIN l, NEW x, Collected(l, m, b, t, p, x), Data(l[p]),
         l[p].gen = t.gen, NEW t2, t2.gen = t.gen, t2.rows = t.rows \o l[p].rows
  PROVE  Collected(l, m, b, t2, p + 1, t.gen) /\ Len(t.rows) + Len(l[p].rows) <= Capacity
<1>1. /\ \A q \in DOMAIN l : /\ q \in Nat /\ l[q].gen \in Nat /\ l[q].rows \in Seq(Nat)
                             /\ (q < p + 1 <=> q < p \/ q = p) /\ (q >= p + 1 => q >= p)
      /\ p \in Nat /\ p < p + 1 /\ l[p].rows \in Seq(Nat)
  BY DEF LogTyped
<1> DEFINE r == l[p].rows
           s == t.rows
           j == t2.rows
           a == Len(s)
           c == Len(r)
<1>2. /\ s \in Seq(Nat) /\ r \in Seq(Nat) /\ a \in Nat /\ c \in Nat /\ j \in Seq(Nat)
      /\ Len(j) = a + c
      /\ \A i \in 1..a : j[i] = s[i]
      /\ \A i \in 1..c : j[a + i] = r[i]
      /\ \A i \in 1..(a + c) : j[i] = IF i <= a THEN s[i] ELSE r[i - a]
  <2>1. s \in Seq(Nat) /\ r \in Seq(Nat) /\ j = s \o r
    BY <1>1
  <2> HIDE DEF s, r, j
  <2>2. a \in Nat /\ c \in Nat
    BY <2>1
  <2> QED  BY <2>1, <2>2, Joined
<1>3. Rising(s) /\ Rising(r)
  BY DEF Collected, Ordered
<1>4. /\ \A d : d \in Rows(t) <=> \E i \in 1..a : s[i] = d
      /\ \A d : d \in Rows(l[p]) <=> \E i \in 1..c : r[i] = d
      /\ \A d : d \in Rows(t2) <=> \E i \in 1..Len(j) : j[i] = d
  BY <1>1, <1>2, RowsOf
<1>5. Below(Rows(t), Rows(l[p]))
  <2> SUFFICES ASSUME NEW d \in Rows(t), NEW f \in Rows(l[p]) PROVE d < f
    BY DEF Below
  <2>1. PICK q \in DOMAIN l : q < p /\ l[q].gen = t.gen /\ d \in Rows(l[q])
    BY DEF Collected
  <2>2. Data(l[q])
    BY <1>1, <2>1, RowsOf
  <2> QED  BY <2>1, <2>2 DEF Ordered, Below
<1> HIDE DEF r, s, j, a, c
<1>6. Rows(t2) = Rows(t) \cup Rows(l[p])
  <2>1. ASSUME NEW d \in Rows(t2) PROVE d \in Rows(t) \cup Rows(l[p])
    <3>1. PICK i \in 1..(a + c) : j[i] = d
      BY <1>2, <1>4, <2>1
    <3>2. CASE i <= a
      <4>1. i \in 1..a /\ s[i] = d
        BY <1>2, <3>1, <3>2
      <4> QED  BY <1>4, <4>1
    <3>3. CASE ~(i <= a)
      <4>1. i - a \in 1..c /\ r[i - a] = d
        BY <1>2, <3>1, <3>3
      <4> QED  BY <1>4, <4>1
    <3> QED  BY <3>2, <3>3
  <2>2. ASSUME NEW d \in Rows(t) PROVE d \in Rows(t2)
    BY <1>2, <1>4, <2>2
  <2>3. ASSUME NEW d \in Rows(l[p]) PROVE d \in Rows(t2)
    <3>1. PICK i \in 1..c : r[i] = d
      BY <1>4, <2>3
    <3>2. a + i \in 1..(a + c)
      BY <1>2
    <3> QED  BY <1>2, <1>4, <3>1, <3>2
  <2> QED  BY <2>1, <2>2, <2>3
<1>7. Rising(j)
  <2> SUFFICES ASSUME NEW i \in 1..(a + c), NEW k \in 1..(a + c), i < k PROVE j[i] < j[k]
    BY <1>2 DEF Rising
  <2>1. CASE k <= a
    BY <1>2, <1>3, <2>1 DEF Rising, a
  <2>2. CASE ~(k <= a) /\ i <= a
    <3>1. k - a \in 1..c /\ j[k] = r[k - a] /\ j[i] = s[i] /\ i \in 1..a
      BY <1>2, <2>2
    <3>2. j[k] \in Rows(l[p]) /\ j[i] \in Rows(t)
      BY <1>4, <3>1
    <3> QED  BY <1>5, <3>2 DEF Below
  <2>3. CASE ~(i <= a)
    <3>1. k - a \in 1..c /\ j[k] = r[k - a] /\ i - a \in 1..c /\ j[i] = r[i - a] /\ i - a < k - a
      BY <1>2, <2>3
    <3> QED  BY <1>3, <3>1 DEF Rising, c
  <2> QED  BY <2>1, <2>2, <2>3
<1>8. a + c <= Capacity
  <2>1. Rows(t2) \subseteq LogRows(l, t.gen)
    BY <1>6, InLogRows DEF Collected
  <2>2. Fits(LogRows(l, t.gen))
    BY DEF Ordered
  <2>3. Fits(Rows(t2))
    BY <2>1, <2>2, FitsPart
  <2>4. Rows(t2) = {j[i] : i \in 1..Len(j)}
    BY <1>4
  <2>5. Len(j) <= Capacity
    BY <1>2, <1>7, <2>3, <2>4, RisingFits
  <2> QED  BY <1>2, <2>5
<1>9. Collected(l, m, b, t2, p + 1, t.gen)
  <2>1. b.gen <= t2.gen /\ t2.gen <= m.gen /\ t2.gen >= 1 /\ Rising(t2.rows)
    BY <1>7 DEF Collected, j
  <2>2. \A d \in Rows(t2) : \E q \in DOMAIN l : q < p + 1 /\ l[q].gen = t2.gen /\ d \in Rows(l[q])
    BY <1>1, <1>6 DEF Collected
  <2>3. \A q \in DOMAIN l : Data(l[q]) /\ q < p + 1 =>
          l[q].gen <= t2.gen /\ (l[q].gen = t2.gen => Rows(l[q]) \subseteq Rows(t2))
    BY <1>1, <1>6 DEF Collected
  <2>4. \A q \in DOMAIN l : Data(l[q]) /\ q >= p + 1 /\ l[q].gen >= b.gen => l[q].gen >= t2.gen
    BY <1>1 DEF Collected
  <2> QED  BY <1>1, <2>1, <2>2, <2>3, <2>4 DEF Collected
<1> QED  BY <1>8, <1>9 DEF a, c, s, r

(* The entry of a later generation shows that the one collected is         *)
(* complete, and it starts the next.                                       *)
LEMMA CollectTurns ==
  ASSUME NEW l, LogTyped(l), Ordered(l), NEW m, NEW b, b.gen \in Nat,
         NEW t, t.gen \in Nat, t.rows \in Seq(Nat),
         NEW p \in DOMAIN l, NEW x, Collected(l, m, b, t, p, x), Data(l[p]),
         l[p].gen > t.gen, NEW m2, m2.gen = t.gen + 1,
         NEW t2, t2.gen = l[p].gen, Rows(t2) = {}, Rising(t2.rows)
  PROVE  /\ Rows(t) = LogRows(l, t.gen) /\ l[p].gen = t.gen + 1
         /\ Collected(l, m2, b, t2, p, x)
<1>1. /\ \A q \in DOMAIN l : q \in Nat /\ l[q].gen \in Nat /\ l[q].rows \in Seq(Nat)
      /\ p \in Nat /\ l[p].gen \in Nat
  BY DEF LogTyped
<1>2. \A q \in DOMAIN l : Data(l[q]) /\ q >= p => l[q].gen >= l[p].gen
  <2> SUFFICES ASSUME NEW q \in DOMAIN l, Data(l[q]), q >= p PROVE l[q].gen >= l[p].gen
    OBVIOUS
  <2>1. q = p \/ p < q
    BY <1>1
  <2>2. p < q => l[p].gen <= l[q].gen
    BY DEF Ordered
  <2> QED  BY <1>1, <2>1, <2>2
<1>3. \A q \in DOMAIN l : Data(l[q]) => q >= p \/ l[q].gen <= t.gen
  BY <1>1 DEF Collected
<1>4. Rows(t) = LogRows(l, t.gen)
  <2>1. ASSUME NEW d \in Rows(t) PROVE d \in LogRows(l, t.gen)
    BY <2>1, InLogRows DEF Collected
  <2>2. ASSUME NEW d \in LogRows(l, t.gen) PROVE d \in Rows(t)
    <3>1. PICK q \in DOMAIN l : l[q].gen = t.gen /\ d \in Rows(l[q])
      BY <2>2, InLogRows
    <3>2. Data(l[q])
      BY <1>1, <3>1, RowsOf
    <3>3. q < p
      BY <1>1, <1>2, <3>1, <3>2
    <3> QED  BY <3>1, <3>2, <3>3 DEF Collected
  <2> QED  BY <2>1, <2>2
<1>5. l[p].gen = t.gen + 1
  <2>1. t.gen + 1 \in 1..l[p].gen
    BY <1>1
  <2>2. Has(l, t.gen + 1)
    BY <2>1 DEF Ordered
  <2>3. PICK q \in DOMAIN l : Data(l[q]) /\ l[q].gen = t.gen + 1
    BY <2>2 DEF Has
  <2>4. q >= p
    BY <1>1, <1>3, <2>3
  <2>5. l[q].gen >= l[p].gen
    BY <1>2, <2>3, <2>4
  <2> QED  BY <1>1, <2>3, <2>5
<1>6. Collected(l, m2, b, t2, p, x)
  <2>1. b.gen <= t2.gen /\ t2.gen <= m2.gen /\ t2.gen >= 1
    BY <1>5 DEF Collected
  <2>2. \A q \in DOMAIN l : Data(l[q]) /\ q < p =>
          l[q].gen <= t2.gen /\ (l[q].gen = t2.gen => Rows(l[q]) \subseteq Rows(t2))
    BY <1>1, <1>5 DEF Collected
  <2> QED  BY <1>2, <2>1, <2>2 DEF Collected
<1> QED  BY <1>4, <1>5, <1>6

(* A writer that replays.                                                  *)
LEMMA Replaying ==
  ASSUME Inv, Whole, NEW w \in Writers, pc[w] = "replay"
  PROVE  LET t == tables[w][1] IN
         /\ N \in Nat /\ DOMAIN wal = 1..N /\ LogTyped(wal) /\ CutTyped(manifest)
         /\ pos[w] \in 1..(N + 1) /\ epoch[w] \in Nat /\ last[w] \in Nat
         /\ base[w].gen \in Nat /\ base[w].replayAfter \in Nat /\ manifest.epoch \in Nat
         /\ Len(tables[w]) = 1 /\ Active(w) = t /\ t.gen \in Nat /\ t.off \in Nat
         /\ t.rows \in Seq(Nat) /\ Len(t.rows) \in Nat /\ t \in MemTable(put)
         /\ tables[w] \in Seq(MemTable(put))
         /\ append[w].phase = "idle" /\ queue[w] = <<>> /\ WriterState
         /\ Ordered(wal) /\ Halted(wal, pos[w], epoch[w])
         /\ Collected(wal, manifest, base[w], t, pos[w], last[w])
         /\ Able(w) => t.gen = manifest.gen
         /\ \A r : ~Repeats(w, r)
<1>1. StoreFacts /\ WriterFacts(w) /\ TabTyped(tables[w]) /\ Writing(w)
  BY StoreTyped, WriterTyped DEF WriterFacts, Writing
<1>2. Len(tables[w]) = 1 /\ queue[w] = <<>> /\ append[w].phase = "idle"
  BY DEF Inv, Local, QuietOk
<1>3. 1 \in 1..Len(tables[w])
  BY <1>2
<1>4. /\ tables[w][1].gen \in Nat /\ tables[w][1].off \in Nat /\ tables[w][1].rows \in Seq(Nat)
      /\ Len(tables[w][1].rows) \in Nat
  BY <1>1, <1>3 DEF TabTyped
<1>5. /\ tables[w] \in Seq(MemTable(put)) /\ tables[w][1] \in MemTable(put)
      /\ Active(w) = tables[w][1]
  BY <1>2, <1>3, TypedTables
<1>6. /\ Ordered(wal) /\ Halted(wal, pos[w], epoch[w])
      /\ Collected(wal, manifest, base[w], tables[w][1], pos[w], last[w])
      /\ Able(w) => tables[w][1].gen = manifest.gen
  BY <1>1 DEF Whole, Epochs, WriterOk, ReplayOk
<1>7. WriterState
  BY DEF Inv, Shape
<1>8. \A r : ~Repeats(w, r)
  BY DEF Repeats
<1>9. /\ N \in Nat /\ DOMAIN wal = 1..N /\ LogTyped(wal) /\ CutTyped(manifest)
      /\ pos[w] \in 1..(N + 1) /\ epoch[w] \in Nat /\ last[w] \in Nat
      /\ base[w].gen \in Nat /\ base[w].replayAfter \in Nat /\ manifest.epoch \in Nat
  BY <1>1 DEF StoreFacts, WriterFacts
<1> QED  BY <1>2, <1>4, <1>5, <1>6, <1>7, <1>8, <1>9

(* It goes on replaying.                                                   *)
LEMMA ReplaysOn ==
  ASSUME NEW w \in Writers, pc'[w] = "replay",
         Collected(wal', manifest', base'[w], tables'[w][1], pos'[w], last'[w]),
         Newest(wal', epoch'[w]) => tables'[w][1].gen = manifest'.gen
  PROVE  WriterOk(w)'
<1>1. ReplayOk(w)'
  BY DEF ReplayOk, Able
<1>2. ClaimOk(w)' /\ ServeOk(w)' /\ AbleOk(w)'
  BY DEF ClaimOk, ServeOk, AbleOk
<1> QED  BY <1>1, <1>2 DEF WriterOk

(* Replay refuses no entry.                                                *)
LEMMA NothingRefused ==
  ASSUME Inv, Whole, Blank, NEW w \in Writers, pc[w] = "replay", pos[w] \in DOMAIN wal,
         ~Rotates(w, wal[pos[w]])
  PROVE  ~Refuses(w, wal[pos[w]])
<1> DEFINE p == pos[w]
           e == wal[p]
           t == tables[w][1]
           b == base[w]
           x == last[w]
<1>1. /\ LogTyped(wal) /\ b.gen \in Nat /\ t.gen \in Nat /\ t.rows \in Seq(Nat) /\ Active(w) = t
      /\ Ordered(wal) /\ Collected(wal, manifest, b, t, p, x) /\ x \in Nat /\ p \in DOMAIN wal
  BY Replaying
<1>2. p \in Nat /\ e.gen \in Nat /\ e.rows \in Seq(Nat)
  BY <1>1 DEF LogTyped
<1>3. ~(e.gen # 0 /\ e.gen < x)
  <2> SUFFICES ASSUME e.gen # 0 PROVE ~(e.gen < x)
    OBVIOUS
  <2>1. Data(e)
    BY DEF Blank
  <2>2. CASE x = 0
    BY <1>2, <2>2
  <2>3. CASE \E q \in DOMAIN wal : q < p /\ Data(wal[q]) /\ wal[q].gen = x
    BY <1>1, <1>2, <2>1, <2>3 DEF Ordered
  <2> QED  BY <1>1, <2>2, <2>3 DEF Collected
<1>4. ASSUME ~Skipped(w, e), Active(w).rows # <<>>
      PROVE  ~(Len(Active(w).rows) + Len(e.rows) > Capacity)
  <2>1. Data(e) /\ e.gen >= b.gen /\ e.gen <= t.gen
    BY <1>1, <1>2, <1>4 DEF Skipped, Rotates, Data
  <2> DEFINE t2 == [gen |-> t.gen, rows |-> t.rows \o e.rows]
  <2>2. t2.gen = t.gen /\ t2.rows = t.rows \o e.rows
    OBVIOUS
  <2> HIDE DEF t2, b, t, x, p
  <2>3. e.gen = t.gen
    BY <1>1, <2>1, CollectSame
  <2>4. Len(t.rows) + Len(e.rows) <= Capacity
    BY <1>1, <2>1, <2>2, <2>3, CollectJoins
  <2>5. Len(t.rows) \in Nat /\ Len(e.rows) \in Nat /\ Capacity \in Nat
    BY <1>1, <1>2, MemWalAssumption
  <2>6. Active(w).rows = t.rows
    BY <1>1
  <2> DEFINE m == Len(t.rows)
             n == Len(e.rows)
  <2>7. ~(m + n > Capacity)
    <3>1. m \in Nat /\ n \in Nat /\ Capacity \in Nat /\ m + n <= Capacity
      BY <2>4, <2>5
    <3> HIDE DEF m, n
    <3> QED  BY <3>1
  <2> QED  BY <2>6, <2>7
<1> QED  BY <1>3, <1>4 DEF Refuses

(* replay_memtable_from_wal, one entry.                                    *)
LEMMA ReplayEntryWhole ==
  ASSUME Inv, Inv', Whole, Blank, NEW w \in Writers, ReplayEntry(w)
  PROVE  Whole'
<1> DEFINE p == pos[w]
           e == wal[p]
           t == tables[w][1]
           b == base[w]
           x == last[w]
<1>1. pc[w] = "replay" /\ p \in DOMAIN wal /\ UNCHANGED <<wal, late, manifest>>
  BY DEF ReplayEntry, store
<1>2. CASE Goto(w, "dead") /\ Forget(w)
  BY <1>1, <1>2, DiesStep
<1>3. CASE /\ e.epoch <= epoch[w] /\ ~Rotates(w, e) /\ ~Refuses(w, e)
           /\ pos' = [pos EXCEPT ![w] = @ + 1]
           /\ IF Skipped(w, e)
              THEN UNCHANGED <<tables, last>>
              ELSE /\ tables' = [tables EXCEPT ![w][1].rows = @ \o e.rows]
                   /\ last' = [last EXCEPT ![w] = e.gen]
           /\ UNCHANGED <<pc, epoch, base, durable, covered, queue, append, flush, poisoned, put,
                          acked>>
  <2>1. /\ LogTyped(wal) /\ b.gen \in Nat /\ t.gen \in Nat /\ t.rows \in Seq(Nat) /\ Active(w) = t
        /\ Ordered(wal) /\ Collected(wal, manifest, b, t, p, x) /\ x \in Nat /\ epoch[w] \in Nat
        /\ WriterState /\ Len(tables[w]) = 1 /\ tables[w] \in Seq(MemTable(put))
        /\ t \in MemTable(put) /\ Halted(wal, p, epoch[w]) /\ CutTyped(manifest)
        /\ (Able(w) => t.gen = manifest.gen) /\ (\A r : ~Repeats(w, r)) /\ manifest.epoch \in Nat
    BY <1>1, Replaying
  <2>2. p \in Nat /\ e.gen \in Nat /\ e.rows \in Seq(Nat) /\ e.epoch \in Nat
    BY <1>1, <2>1 DEF LogTyped
  <2>3. /\ pc'[w] = "replay" /\ pos'[w] = p + 1 /\ epoch'[w] = epoch[w] /\ base'[w] = b
        /\ \A u \in Writers \ {w} : Untouched(u)
    BY <1>1, <1>3, <2>1 DEF WriterState, Untouched, Same
  <2>4. Goes(w) /\ Writing(w) /\ Writing(w)'
    <3>1. Halted(wal, p + 1, epoch[w])
      <4>1. ASSUME NEW s \in DOMAIN wal, p <= s, wal[s].epoch > epoch[w]
            PROVE  p + 1 <= s
        <5>1. s # p
          BY <1>3, <2>1, <2>2, <4>1
        <5> QED  BY <2>1, <2>2, <4>1, <5>1 DEF LogTyped
      <4> QED  BY <2>1, <4>1 DEF Halted
    <3> QED  BY <1>1, <2>3, <3>1 DEF Goes, Writing
  <2>5. Newest(wal, epoch[w]) => t.gen = manifest.gen
    BY <1>1, <2>1, <2>4 DEF Able
  <2>6. /\ Collected(wal, manifest, b, tables'[w][1], p + 1, last'[w])
        /\ tables'[w][1].gen = t.gen
    <3>1. CASE Skipped(w, e)
      <4>1. tables'[w][1] = t /\ last'[w] = x
        BY <1>3, <3>1
      <4>2. ~Data(e) \/ e.gen < b.gen
        BY <3>1 DEF Skipped, Data
      <4> HIDE DEF t, b, p, x
      <4>3. Collected(wal, manifest, b, t, p + 1, x)
        BY <1>1, <2>1, <4>2, CollectSkips
      <4> QED  BY <4>1, <4>3
    <3>2. CASE ~Skipped(w, e)
      <4> DEFINE r == t.rows \o e.rows
                 t2 == [t EXCEPT !.rows = r]
      <4>1. /\ tables' = [tables EXCEPT ![w] = [tables[w] EXCEPT ![1] = t2]]
            /\ last'[w] = e.gen
        BY <1>3, <2>1, <3>2 DEF WriterState
      <4>2. tables'[w][1] = t2
        <5>1. tables'[w] = [tables[w] EXCEPT ![1] = t2]
          BY <2>1, <4>1 DEF WriterState
        <5>2. 1 \in DOMAIN tables[w]
          BY <2>1
        <5> HIDE DEF t2
        <5> QED  BY <5>1, <5>2
      <4>3. t2.rows = r /\ t2.gen = t.gen
        BY <2>1 DEF MemTable
      <4>4. Data(e) /\ e.gen >= b.gen /\ (e.gen <= t.gen \/ t.rows = <<>>)
        <5>1. Data(e) /\ ~(e.gen < b.gen)
          BY <3>2 DEF Skipped, Data
        <5>2. ~(e.gen > Active(w).gen) \/ Active(w).rows = <<>>
          BY <1>3, <3>2 DEF Rotates
        <5>3. ~(e.gen > t.gen) \/ t.rows = <<>>
          BY <2>1, <5>2
        <5> HIDE DEF e, b, t
        <5> QED  BY <2>1, <2>2, <5>1, <5>3
      <4> HIDE DEF t2, t, b, p, x
      <4>5. e.gen = t.gen
        BY <1>1, <2>1, <4>4, CollectSame
      <4>6. Collected(wal, manifest, b, t2, p + 1, t.gen)
        BY <1>1, <2>1, <4>3, <4>4, <4>5, CollectJoins
      <4> QED  BY <4>1, <4>2, <4>3, <4>5, <4>6
    <3> QED  BY <3>1, <3>2
  <2>7. WriterOk(w)'
    <3>1. Collected(wal', manifest', base'[w], tables'[w][1], pos'[w], last'[w])
      BY <1>1, <2>3, <2>6
    <3>2. Newest(wal', epoch'[w]) => tables'[w][1].gen = manifest'.gen
      BY <1>1, <2>3, <2>5, <2>6
    <3> QED  BY <2>3, <3>1, <3>2, ReplaysOn
  <2>8. SameCut(manifest, manifest') /\ manifest.epoch <= manifest'.epoch
        /\ acked' \subseteq AllRows(wal)
    BY <1>1, <1>3, <2>1 DEF SameCut, Whole, AckedOk
  <2> QED  BY <1>1, <2>1, <2>3, <2>4, <2>7, <2>8, StillStep
<1>4. ~(~Rotates(w, e) /\ Refuses(w, e))
  BY <1>1, NothingRefused
<1> QED  BY <1>2, <1>3, <1>4 DEF ReplayEntry, ghosts

(* flush_replayed_memtable.                                                *)
LEMMA ReplayFlushWhole ==
  ASSUME Inv, Inv', Whole, NEW w \in Writers, ReplayFlush(w)
  PROVE  Whole'
<1> DEFINE p == pos[w]
           e == wal[p]
           t == tables[w][1]
           b == base[w]
           x == last[w]
           c == p - 1
<1>1. /\ pc[w] = "replay" /\ p \in DOMAIN wal /\ UNCHANGED <<wal, late>> /\ Rotates(w, e)
  BY DEF ReplayFlush
<1>2. /\ LogTyped(wal) /\ b.gen \in Nat /\ t.gen \in Nat /\ t.rows \in Seq(Nat) /\ Active(w) = t
      /\ Ordered(wal) /\ Collected(wal, manifest, b, t, p, x) /\ x \in Nat /\ epoch[w] \in Nat
      /\ WriterState /\ N \in Nat /\ DOMAIN wal = 1..N /\ t.off \in Nat /\ Len(t.rows) \in Nat
      /\ \A r : ~Repeats(w, r)
  BY <1>1, Replaying
<1>3. p \in Nat /\ p >= 1 /\ c \in Nat /\ e.gen \in Nat /\ Writing(w) /\ End(t) \in Nat
  <2>1. p \in 1..N /\ Writing(w) /\ e.gen \in Nat
    BY <1>1, <1>2 DEF LogTyped, Writing
  <2>2. p \in Nat /\ p >= 1 /\ c \in Nat
    BY <1>2, <2>1
  <2>3. t.off + Len(t.rows) \in Nat
    BY <1>2
  <2> QED  BY <2>1, <2>2, <2>3 DEF End
<1>4. Data(e) /\ e.gen > t.gen /\ t.rows # <<>>
  BY <1>1, <1>2 DEF Rotates, Skipped, Data
<1>5. CASE Goto(w, "dead") /\ Forget(w) /\ manifest' = manifest
  BY <1>1, <1>5, DiesStep
<1>6. CASE ~Fenced(w) /\ manifest.gen = t.gen /\ manifest' = Published(t, c)
  <2> DEFINE t2 == Table(e.gen, End(t))
  <2>1. t2.gen = e.gen /\ Rows(t2) = {} /\ Rising(t2.rows) /\ <<t2>>[1] = t2
    BY <1>3, FreshTable
  <2>2. manifest'.gen = t.gen + 1
    <3>1. manifest \in ShardManifests
      BY DEF Inv, Shape, Stores, ShardManifests
    <3> QED  BY <1>6, <3>1 DEF Published, ShardManifests
  <2> HIDE DEF t, b, x, p, t2
  <2>3. /\ Rows(t) = LogRows(wal, t.gen) /\ e.gen = t.gen + 1
        /\ Collected(wal, manifest', b, t2, p, x)
    <3> DEFINE l == wal
               m == manifest
               m2 == manifest'
    <3>1. /\ LogTyped(l) /\ Ordered(l) /\ p \in DOMAIN l /\ Collected(l, m, b, t, p, x)
          /\ Data(l[p]) /\ l[p].gen > t.gen /\ m2.gen = t.gen + 1 /\ t2.gen = l[p].gen
          /\ b.gen \in Nat /\ t.gen \in Nat /\ t.rows \in Seq(Nat)
          /\ Rows(t2) = {} /\ Rising(t2.rows)
      BY <1>1, <1>2, <1>4, <2>1, <2>2
    <3> HIDE DEF l, m, m2
    <3>2. /\ Rows(t) = LogRows(l, t.gen) /\ l[p].gen = t.gen + 1
          /\ Collected(l, m2, b, t2, p, x)
      BY <3>1, CollectTurns
    <3> QED  BY <3>2 DEF l, m2
  <2>4. Rows(t) # {}
    BY <1>2, <1>4, RowsOf DEF Data
  <2>5. \A q \in DOMAIN wal : Data(wal[q]) /\ q <= c => wal[q].gen <= t.gen
    BY <1>2, <1>3 DEF Collected, LogTyped
  <2>6. CASE Goto(w, "dead") /\ Forget(w)
    <3>1. /\ pc'[w] = "dead" /\ epoch'[w] = 0 /\ \A u \in Writers \ {w} : Untouched(u)
      BY <2>6, Gone
    <3>2. WriterOk(w)' /\ ~Writing(w)' /\ Goes(w) /\ acked' = acked
      BY <2>6, <3>1, DeadOk DEF Goes, Forget, ghosts
    <3> QED  BY <1>1, <1>2, <1>3, <1>6, <2>3, <2>4, <2>5, <3>1, <3>2, PublishStep
  <2>7. CASE /\ tables' = [tables EXCEPT ![w] = <<Table(e.gen, End(t))>>]
             /\ UNCHANGED <<pc, pos, durable, covered, queue, append, flush, poisoned, epoch, base,
                            last, put, acked>>
    <3>1. /\ tables'[w][1] = t2 /\ \A u \in Writers \ {w} : Untouched(u)
      BY <1>2, <2>1, <2>7 DEF WriterState, Untouched, Same, t2
    <3>2. WriterOk(w)'
      <4>1. Collected(wal', manifest', base'[w], tables'[w][1], pos'[w], last'[w])
        BY <1>1, <2>3, <2>7, <3>1 DEF b, p, x
      <4>2. tables'[w][1].gen = manifest'.gen
        BY <2>1, <2>2, <2>3, <3>1
      <4>3. pc'[w] = "replay"
        BY <1>1, <2>7
      <4> QED  BY <4>1, <4>2, <4>3, ReplaysOn
    <3>3. Goes(w) /\ Writing(w)' /\ epoch'[w] = epoch[w] /\ acked' = acked
      BY <1>3, <2>7 DEF Goes, Writing
    <3> QED  BY <1>1, <1>2, <1>3, <1>6, <2>3, <2>4, <2>5, <3>1, <3>2, <3>3, PublishStep
  <2> QED  BY <1>2, <2>6, <2>7 DEF ReplayFlush, opening, ghosts, t, p
<1> QED  BY <1>2, <1>5, <1>6 DEF ReplayFlush

(* Replay is over: what it holds is what the log continues with.           *)
LEMMA CollectEnds ==
  ASSUME NEW l, LogTyped(l), Ordered(l), NEW m, NEW b, NEW t, t.gen \in Nat, t.off \in Nat,
         t.rows \in Seq(Nat), Len(t.rows) \in Nat, NEW p, NEW x, Collected(l, m, b, t, p, x),
         \A q \in DOMAIN l : q < p, NEW ts, Len(ts) = 1, ts[1] = t
  PROVE  /\ Continues(l, ts) /\ Holds(l, ts, End(t)) /\ Logged(l, ts, End(t))
<1>1. \A q \in DOMAIN l : q \in Nat /\ l[q].gen \in Nat /\ l[q].rows \in Seq(Nat)
  BY DEF LogTyped
<1>2. Prefix(t, End(t)) = Rows(t)
  <2>1. \A k \in 1..Len(t.rows) : t.off + k <= End(t)
    BY DEF End
  <2>2. \A c : c \in Rows(t) <=> \E k \in 1..Len(t.rows) : t.rows[k] = c
    BY RowsOf
  <2>3. \A c : c \in Prefix(t, End(t)) <=>
                \E k \in 1..Len(t.rows) : t.off + k <= End(t) /\ t.rows[k] = c
    BY InPrefix
  <2>4. \A c : c \in Prefix(t, End(t)) <=> c \in Rows(t)
    BY <2>1, <2>2, <2>3
  <2> QED  BY <2>4
<1>3. LogRows(l, t.gen) = Rows(t)
  <2>1. ASSUME NEW d \in Rows(t) PROVE d \in LogRows(l, t.gen)
    BY <2>1, InLogRows DEF Collected
  <2>2. ASSUME NEW d \in LogRows(l, t.gen) PROVE d \in Rows(t)
    <3>1. PICK q \in DOMAIN l : l[q].gen = t.gen /\ d \in Rows(l[q])
      BY <2>2, InLogRows
    <3>2. Data(l[q])
      BY <1>1, <3>1, RowsOf
    <3> QED  BY <3>1, <3>2 DEF Collected
  <2> QED  BY <2>1, <2>2
<1>4. Holds(l, ts, End(t))
  BY <1>2, <1>3 DEF Holds
<1>5. Logged(l, ts, End(t))
  BY <1>2, InAllRows DEF Logged, Collected
<1>6. Continues(l, ts)
  <2>1. \A i \in 1..Len(ts) : ts[i] = t /\ i = 1
    OBVIOUS
  <2>2. Rising(t.rows)
    BY DEF Collected
  <2>3. ASSUME NEW q \in DOMAIN l, Data(l[q]) PROVE l[q].gen <= t.gen
    BY <2>3 DEF Collected
  <2>4. ASSUME NEW q \in DOMAIN l, Data(l[q]), l[q].gen < t.gen PROVE Below(Rows(l[q]), Rows(t))
    <3> SUFFICES ASSUME NEW d \in Rows(l[q]), NEW f \in Rows(t) PROVE d < f
      BY DEF Below
    <3>1. PICK s \in DOMAIN l : l[s].gen = t.gen /\ f \in Rows(l[s])
      BY DEF Collected
    <3>2. Data(l[s])
      BY <1>1, <3>1, RowsOf
    <3>3. q < s
      <4>1. q # s /\ (s < q => l[s].gen <= l[q].gen)
        BY <2>4, <3>1, <3>2 DEF Ordered
      <4> QED  BY <1>1, <2>4, <3>1, <4>1
    <3> QED  BY <2>4, <3>1, <3>2, <3>3 DEF Ordered, Below
  <2> QED  BY <2>1, <2>2, <2>3, <2>4 DEF Continues
<1> QED  BY <1>4, <1>5, <1>6

(* The first missing entry ends the log, and the writer opens.             *)
LEMMA ReplayDoneWhole ==
  ASSUME Inv, Inv', Whole, NEW w \in Writers, ReplayDone(w)
  PROVE  Whole'
<1> DEFINE t == tables[w][1]
           ts == tables[w]
           m2 == manifest'
           d == End(t)
           p == pos[w]
           a == append[w]
           q == queue[w]
<1>1. /\ pc[w] = "replay" /\ p \notin DOMAIN wal /\ Goto(w, "open")
      /\ durable' = [durable EXCEPT ![w] = End(Active(w))]
      /\ UNCHANGED <<wal, late, epoch, base, last, pos, tables, queue, append, flush, poisoned,
                     put, acked>>
      /\ \E y : covered' = [covered EXCEPT ![w] = y]
      /\ manifest' = manifest \/ \E y : manifest' = [manifest EXCEPT !.lastSeen = y]
  BY DEF ReplayDone, opening, ghosts
<1>2. /\ LogTyped(wal) /\ t.gen \in Nat /\ t.rows \in Seq(Nat) /\ Active(w) = t /\ t.off \in Nat
      /\ Ordered(wal) /\ Collected(wal, manifest, base[w], t, p, last[w]) /\ Len(t.rows) \in Nat
      /\ WriterState /\ N \in Nat /\ DOMAIN wal = 1..N /\ p \in 1..(N + 1) /\ Len(ts) = 1
      /\ (Able(w) => t.gen = manifest.gen) /\ (\A r : ~Repeats(w, r)) /\ q = <<>>
      /\ a.phase = "idle" /\ manifest.epoch \in Nat
  BY <1>1, Replaying
<1>3. SameCut(manifest, manifest') /\ manifest'.epoch = manifest.epoch
  <2>1. manifest \in ShardManifests
    BY DEF Inv, Shape, Stores, ShardManifests
  <2> QED  BY <1>1, <2>1 DEF SameCut, ShardManifests
<1>4. /\ pc'[w] = "open" /\ durable'[w] = d /\ tables'[w] = ts /\ pos'[w] = p
      /\ append'[w] = a /\ queue'[w] = q /\ epoch'[w] = epoch[w]
      /\ \A u \in Writers \ {w} : Untouched(u)
  BY <1>1, <1>2 DEF Goto, WriterState, Untouched, Same
<1>5. Writing(w) /\ Writing(w)' /\ Goes(w)
  BY <1>1, <1>4 DEF Writing, Goes
<1>6. t.gen = manifest'.gen
  BY <1>1, <1>2, <1>3, <1>5, FreeIsAble DEF Whole, SameCut
<1>7. \A s \in DOMAIN wal : s < p
  BY <1>1, <1>2
<1>8. d \in Nat /\ t.off <= d
  BY <1>2 DEF End
<1> HIDE DEF t, ts, p, d, a, q
<1>9. Continues(wal, ts) /\ Holds(wal, ts, d) /\ Logged(wal, ts, d)
  <2>1. ts[1] = t
    BY DEF t, ts
  <2> QED  BY <1>2, <1>7, <2>1, CollectEnds DEF d
<1>10. WriterOk(w)'
  <2>1. ServeOk(w)'
    <3>1. Numbered(ts, d)
      <4>1. ts[1] = t /\ 1 \in 1..Len(ts) /\ Len(ts) - 1 = 0
        BY <1>2 DEF t, ts
      <4>2. \A i \in 1..Len(ts) : i = 1
        BY <1>2
      <4>3. 1..Len(ts) - 1 = {}
        BY <1>2
      <4>4. t.gen = t.gen + (1 - 1)
        BY <1>2
      <4> QED  BY <1>2, <1>8, <4>1, <4>2, <4>3, <4>4 DEF Numbered, d
    <3> QED  BY <1>1, <1>2, <1>4, <1>9, <3>1 DEF ServeOk
  <2>2. AbleOk(w)'
    <3>1. AtOk(wal, ts) /\ AtCut(m2, ts, d) /\ Owned(ts, q, a) /\ InTurn(q)
      <4>1. ts[1] = t /\ Len(ts) - 1 = 0 /\ Len(q) = 0
        BY <1>2 DEF t, ts
      <4>2. AtOk(wal, ts) /\ Owned(ts, q, a)
        <5>1. 1..Len(ts) - 1 = {}
          <6>1. Len(ts) = 1
            BY <1>2
          <6> QED  BY <6>1
        <5> QED  BY <5>1 DEF AtOk, Owned
      <4>3. AtCut(m2, ts, d)
        BY <1>6, <4>1 DEF AtCut
      <4>4. InTurn(q)
        BY <4>1 DEF InTurn
      <4> QED  BY <4>2, <4>3, <4>4
    <3>2. Begun(ts, a, d) /\ Landed(wal, p, ts, a, d)
      <4>1. ~Ahead(wal, p) /\ p \in Nat /\ \A s \in DOMAIN wal : s <= p
        BY <1>1, <1>2 DEF Ahead, LogTyped, p
      <4> QED  BY <1>2, <1>9, <4>1 DEF Begun, Sending, Landed
    <3> QED  BY <1>1, <1>4, <1>9, <3>1, <3>2 DEF AbleOk
  <2>3. ClaimOk(w)' /\ ReplayOk(w)'
    BY <1>4 DEF ClaimOk, ReplayOk
  <2> QED  BY <2>1, <2>2, <2>3 DEF WriterOk
<1>11. manifest.epoch <= manifest'.epoch /\ acked' \subseteq AllRows(wal)
  BY <1>1, <1>2, <1>3 DEF Whole, AckedOk
<1> QED  BY <1>1, <1>2, <1>3, <1>4, <1>5, <1>10, <1>11, StillStep

-----------------------------------------------------------------------------
(* What an append sends                                                    *)

(* The elements of s after o, up to z.                                     *)
Part(s, o, z) == SubSeq(s, o + 1, z)

(* A part of a sequence of rows.                                           *)
LEMMA PartRows ==
  ASSUME NEW s \in Seq(Nat), NEW o \in Nat, NEW z \in Nat, o < z, z <= Len(s)
  PROVE  /\ Part(s, o, z) \in Seq(Nat) /\ Len(Part(s, o, z)) = z - o /\ Part(s, o, z) # <<>>
         /\ \A i \in 1..(z - o) : o + i \in 1..Len(s) /\ Part(s, o, z)[i] = s[o + i]
<1> DEFINE r == Part(s, o, z)
<1>1. Len(s) \in Nat /\ \A i \in 1..Len(s) : s[i] \in Nat
  OBVIOUS
<1>2. r = [i \in 1..(z - o) |-> s[o + i]]
  <2>1. 1..(z - (o + 1) + 1) = 1..(z - o)
    OBVIOUS
  <2>2. \A i \in 1..(z - o) : i + (o + 1) - 1 = o + i
    OBVIOUS
  <2> QED  BY <2>1, <2>2 DEF Part
<1>3. \A i \in 1..(z - o) : o + i \in 1..Len(s)
  BY <1>1
<1>4. z - o \in Nat /\ z - o >= 1
  OBVIOUS
<1>5. r \in Seq(Nat) /\ Len(r) = z - o
  BY <1>1, <1>2, <1>3, <1>4
<1>6. r # <<>>
  BY <1>4, <1>5
<1> QED  BY <1>2, <1>3, <1>5, <1>6

(* The rows of the memtable t from the count d up to its row z.            *)
LEMMA SentRows ==
  ASSUME NEW t, t.rows \in Seq(Nat), Len(t.rows) \in Nat, t.off \in Nat, NEW d \in Nat,
         NEW z \in Nat, t.off <= d, d < t.off + z, z <= Len(t.rows),
         NEW e, e.rows = Sent(t, d, z)
  PROVE  /\ e.rows \in Seq(Nat) /\ Data(e)
         /\ \A b : b \in Rows(e) <=> \E k \in 1..Len(t.rows) :
                                       d < t.off + k /\ k <= z /\ t.rows[k] = b
         /\ Rising(t.rows) => Rising(e.rows)
<1> DEFINE s == t.rows
           f == t.off
           o == d - f
           n == Len(s)
           r == e.rows
<1>1. f \in Nat /\ n \in Nat /\ s \in Seq(Nat) /\ f <= d /\ d < f + z /\ z <= n
      /\ r = Part(s, o, z)
  BY DEF Part, Sent
<1> HIDE DEF s, f, n, r
<1>2. o \in Nat /\ o < z /\ \A k \in 1..n : d < f + k <=> o < k
  BY <1>1
<1> HIDE DEF o
<1>3. /\ r \in Seq(Nat) /\ Len(r) = z - o /\ r # <<>>
      /\ \A i \in 1..(z - o) : o + i \in 1..n /\ r[i] = s[o + i]
  <2>1. /\ s \in Seq(Nat) /\ o \in Nat /\ z \in Nat /\ o < z /\ z <= Len(s)
        /\ r = Part(s, o, z)
    BY <1>1, <1>2 DEF n
  <2>2. /\ r \in Seq(Nat) /\ Len(r) = z - o /\ r # <<>>
        /\ \A i \in 1..(z - o) : o + i \in 1..Len(s) /\ r[i] = s[o + i]
    <3>1. /\ Part(s, o, z) \in Seq(Nat) /\ Len(Part(s, o, z)) = z - o /\ Part(s, o, z) # <<>>
          /\ \A i \in 1..(z - o) : o + i \in 1..Len(s) /\ Part(s, o, z)[i] = s[o + i]
      BY <2>1, PartRows
    <3> QED  BY <2>1, <3>1
  <2> QED  BY <2>2 DEF n
<1>4. \A b : b \in Rows(e) <=> \E i \in 1..Len(r) : r[i] = b
  BY <1>3, RowsOf DEF r
<1>5. ASSUME NEW b
      PROVE  b \in Rows(e) <=> \E k \in 1..n : o < k /\ k <= z /\ s[k] = b
  <2>1. ASSUME b \in Rows(e) PROVE \E k \in 1..n : o < k /\ k <= z /\ s[k] = b
    <3>1. PICK i \in 1..(z - o) : r[i] = b
      BY <1>3, <1>4, <2>1
    <3>2. o + i \in 1..n /\ s[o + i] = b
      BY <1>3, <3>1
    <3>3. o < o + i /\ o + i <= z
      BY <1>1, <1>2
    <3> QED  BY <3>2, <3>3
  <2>2. ASSUME NEW k \in 1..n, o < k, k <= z, s[k] = b PROVE b \in Rows(e)
    <3>1. k - o \in 1..(z - o) /\ o + (k - o) = k
      BY <1>1, <1>2, <2>2
    <3>2. r[k - o] = b
      BY <1>3, <2>2, <3>1
    <3> QED  BY <1>3, <1>4, <3>1, <3>2
  <2> QED  BY <2>1, <2>2
<1>6. Data(e)
  BY <1>3 DEF Data, r
<1>7. ASSUME Rising(s) PROVE Rising(r)
  <2> SUFFICES ASSUME NEW i \in 1..(z - o), NEW j \in 1..(z - o), i < j PROVE r[i] < r[j]
    BY <1>3 DEF Rising
  <2>1. o + i \in 1..n /\ o + j \in 1..n /\ o + i < o + j
    BY <1>1, <1>2, <1>3
  <2> QED  BY <1>3, <1>7, <2>1 DEF Rising, n
<1>8. \A b : b \in Rows(e) <=> \E k \in 1..n : d < f + k /\ k <= z /\ s[k] = b
  BY <1>2, <1>5
<1> QED  BY <1>3, <1>6, <1>7, <1>8 DEF s, n, r, f

(* The memtables after i are not in the log while i is not.                *)
LEMMA LaterEmpty ==
  ASSUME NEW ts, TabTyped(ts), NEW d \in Nat, NEW i \in 1..Len(ts), NEW j \in 1..Len(ts), i < j,
         Numbered(ts, d), NEW n \in Nat, n <= End(ts[i])
  PROVE  Prefix(ts[j], n) = {}
<1>1. End(ts[i]) <= ts[j].off /\ ts[j].off \in Nat
  BY DEF Numbered, TabTyped
<1>2. ts[i].off \in Nat /\ Len(ts[i].rows) \in Nat
  BY DEF TabTyped
<1>3. End(ts[i]) \in Nat
  BY <1>2 DEF End
<1>4. \A k \in 1..Len(ts[j].rows) : ~(ts[j].off + k <= n)
  BY <1>1, <1>3 DEF TabTyped
<1>5. \A b : b \notin Prefix(ts[j], n)
  BY <1>4, InPrefix
<1> QED  BY <1>5

(* Those before it are there as a whole.                                   *)
LEMMA EarlierWhole ==
  ASSUME NEW t, t.rows \in Seq(Nat), Len(t.rows) \in Nat, t.off \in Nat, NEW n \in Nat, End(t) <= n
  PROVE  Prefix(t, n) = Rows(t)
<1>1. \A k \in 1..Len(t.rows) : t.off + k <= n
  BY DEF End
<1>2. \A c : c \in Rows(t) <=> \E k \in 1..Len(t.rows) : t.rows[k] = c
  BY RowsOf
<1>3. \A c : c \in Prefix(t, n) <=> \E k \in 1..Len(t.rows) : t.off + k <= n /\ t.rows[k] = c
  BY InPrefix
<1>4. \A c : c \in Prefix(t, n) <=> c \in Rows(t)
  BY <1>1, <1>2, <1>3
<1> QED  BY <1>4

(* What the rows d up to n of the memtable i add.                          *)
LEMMA PrefixGrows ==
  ASSUME NEW ts, TabTyped(ts), NEW d \in Nat, Numbered(ts, d), NEW i \in 1..Len(ts),
         NEW z \in Nat, ts[i].off <= d, d < ts[i].off + z, z <= Len(ts[i].rows),
         NEW e, e.rows = Sent(ts[i], d, z), NEW n, n = ts[i].off + z, NEW j \in 1..Len(ts)
  PROVE  /\ j = i => Prefix(ts[j], n) = Prefix(ts[j], d) \cup Rows(e)
         /\ j # i => Prefix(ts[j], n) = Prefix(ts[j], d)
<1> DEFINE t == ts[i]
           u == ts[j]
           f == t.off
           c == Len(t.rows)
<1>1. /\ t.rows \in Seq(Nat) /\ c \in Nat /\ f \in Nat /\ f <= d /\ d < f + z /\ z <= c
      /\ u.rows \in Seq(Nat) /\ Len(u.rows) \in Nat /\ u.off \in Nat
      /\ End(t) = f + c /\ e.rows = Sent(t, d, z) /\ n = f + z
  BY DEF TabTyped, End
<1>2. j < i => End(u) <= f
  BY DEF Numbered
<1>3. i < j => \A x \in Nat : x <= End(t) => Prefix(u, x) = {}
  BY LaterEmpty
<1> HIDE DEF t, u
<1>4. CASE j = i
  <2>1. \A b : b \in Rows(e) <=> \E k \in 1..c : d < f + k /\ k <= z /\ t.rows[k] = b
    <3>1. /\ t.rows \in Seq(Nat) /\ Len(t.rows) \in Nat /\ t.off \in Nat
          /\ t.off <= d /\ d < t.off + z /\ z <= Len(t.rows) /\ e.rows = Sent(t, d, z)
      BY <1>1
    <3> QED  BY <3>1, SentRows
  <2>2. \A k \in 1..c : f + k <= n <=> f + k <= d \/ (d < f + k /\ k <= z)
    <3> HIDE DEF f, c
    <3> QED  BY <1>1
  <2>3. \A x : \A b : b \in Prefix(t, x) <=> \E k \in 1..c : f + k <= x /\ t.rows[k] = b
    BY InPrefix
  <2> HIDE DEF f, c
  <2>4. \A b : b \in Prefix(t, n) <=> b \in Prefix(t, d) \/ b \in Rows(e)
    BY <2>1, <2>2, <2>3
  <2>5. u = t
    BY <1>4 DEF u, t
  <2>6. Prefix(u, n) = Prefix(u, d) \cup Rows(e)
    BY <2>4, <2>5
  <2> QED  BY <1>4, <2>6 DEF u
<1>5. CASE i < j
  <2>1. d \in Nat /\ n \in Nat /\ d <= End(t) /\ n <= End(t)
    <3> HIDE DEF f, c
    <3> QED  BY <1>1
  <2>2. Prefix(u, n) = {} /\ Prefix(u, d) = {}
    BY <1>3, <1>5, <2>1
  <2>3. j # i
    BY <1>5
  <2>4. Prefix(u, n) = Prefix(u, d)
    BY <2>2
  <2> QED  BY <2>3, <2>4 DEF u
<1>6. CASE j < i
  <2>1. End(u) \in Nat
    <3>1. u.off + Len(u.rows) \in Nat
      BY <1>1
    <3> QED  BY <3>1 DEF End
  <2>2. n \in Nat /\ End(u) <= d /\ End(u) <= n
    <3> DEFINE y == End(u)
    <3>1. y \in Nat /\ y <= f
      BY <1>2, <1>6, <2>1
    <3> HIDE DEF f, c, y
    <3>2. n \in Nat /\ y <= d /\ y <= n
      BY <1>1, <3>1
    <3> QED  BY <3>2 DEF y
  <2>3. Prefix(u, n) = Rows(u) /\ Prefix(u, d) = Rows(u)
    BY <1>1, <2>2, EarlierWhole
  <2> QED  BY <1>6, <2>3 DEF u
<1> QED  BY <1>4, <1>5, <1>6

(* The entry of an append that goes on where the log ends can be its next. *)
LEMMA SendsLandable ==
  ASSUME NEW l, LogTyped(l), NEW m, CutTyped(m), Cut(l, m), NEW ts, TabTyped(ts), NEW d \in Nat,
         Numbered(ts, d), Continues(l, ts), AtCut(m, ts, d), Holds(l, ts, d), Capacity \in Nat,
         NEW i \in 1..Len(ts), NEW z \in Nat, ts[i].off <= d, d < ts[i].off + z,
         z <= Len(ts[i].rows), NEW e, e.gen = ts[i].gen,
         e.rows = Sent(ts[i], d, z)
  PROVE  Landable(l, m, e)
<1> DEFINE t == ts[i]
           h == ts[1].gen
           n == Len(ts)
           f == t.off
           c == Len(t.rows)
           g0 == m.gen
<1>1. /\ n \in Nat /\ n >= 1 /\ g0 \in Nat /\ h \in Nat /\ i \in 1..n /\ n \in 1..n /\ 1 \in 1..n
      /\ \A j \in 1..n : /\ ts[j].gen \in Nat /\ ts[j].rows \in Seq(Nat) /\ Len(ts[j].rows) \in Nat
                         /\ ts[j].off \in Nat /\ Len(ts[j].rows) <= Capacity
                         /\ ts[j].gen = h + (j - 1)
  <2>1. n \in Nat /\ n >= 1 /\ g0 \in Nat
    BY DEF TabTyped, CutTyped
  <2>2. n \in 1..n /\ 1 \in 1..n
    BY <2>1
  <2> QED  BY <2>1, <2>2 DEF TabTyped, Numbered
<1>2. \A p \in DOMAIN l : p \in Nat /\ l[p].gen \in Nat /\ l[p].rows \in Seq(Nat)
  BY DEF LogTyped
<1>3. /\ \A j \in 1..n : End(ts[j]) \in Nat
      /\ f \in Nat /\ c \in Nat /\ f <= d /\ d < f + z /\ z <= c /\ End(t) = f + c
      /\ d < End(t) /\ t.gen = h + (i - 1) /\ e.gen = t.gen /\ t.gen \in Nat
  <2>1. \A j \in 1..n : End(ts[j]) \in Nat
    <3> SUFFICES ASSUME NEW j \in 1..n PROVE End(ts[j]) \in Nat
      OBVIOUS
    <3>1. ts[j].off \in Nat /\ Len(ts[j].rows) \in Nat
      BY <1>1
    <3> DEFINE x == ts[j].off
               y == Len(ts[j].rows)
    <3>2. x + y \in Nat
      <4> HIDE DEF x, y
      <4> QED  BY <3>1 DEF x, y
    <3> QED  BY <3>2 DEF End
  <2>2. f \in Nat /\ c \in Nat /\ f <= d /\ d < f + z /\ z <= c /\ End(t) = f + c
    BY <1>1 DEF End
  <2>3. d < f + c
    <3> HIDE DEF f, c
    <3> QED  BY <2>2
  <2> QED  BY <1>1, <2>1, <2>2, <2>3
<1>4. /\ e.rows \in Seq(Nat) /\ Rising(e.rows)
      /\ \A b : b \in Rows(e) <=> \E k \in 1..Len(t.rows) :
                                    d < t.off + k /\ k <= z /\ t.rows[k] = b
  <2>1. /\ t.rows \in Seq(Nat) /\ Len(t.rows) \in Nat /\ t.off \in Nat /\ Rising(t.rows)
        /\ t.off <= d /\ d < t.off + z /\ z <= Len(t.rows)
        /\ e.rows = Sent(t, d, z)
    BY <1>1 DEF Continues
  <2> HIDE DEF t
  <2> QED  BY <2>1, SentRows
<1>5. Rows(e) \subseteq Rows(t)
  <2>1. \A b : b \in Rows(t) <=> \E k \in 1..Len(t.rows) : t.rows[k] = b
    BY <1>1, RowsOf
  <2> QED  BY <1>4, <2>1
<1>6. e.gen >= m.gen
  <2>1. CASE h = g0
    <3> DEFINE x == t.gen
    <3>1. x = h + (i - 1) /\ e.gen = x
      BY <1>3
    <3> HIDE DEF h, g0, n, x
    <3>2. x >= g0
      BY <1>1, <2>1, <3>1
    <3> QED  BY <3>1, <3>2 DEF g0
  <2>2. CASE h + 1 = g0 /\ End(ts[1]) <= d
    <3>1. i # 1
      <4>1. ~(End(t) <= d)
        BY <1>1, <1>3
      <4> QED  BY <2>2, <4>1
    <3> DEFINE x == t.gen
    <3>2. x = h + (i - 1) /\ e.gen = x
      BY <1>3
    <3> HIDE DEF h, g0, n, x
    <3>3. x >= g0
      BY <1>1, <2>2, <3>1, <3>2
    <3> QED  BY <3>2, <3>3 DEF g0
  <2> QED  BY <2>1, <2>2 DEF AtCut
<1>7. ASSUME NEW j \in 1..n, i < j PROVE LogRows(l, ts[j].gen) = {}
  <2>1. LogRows(l, ts[j].gen) = Prefix(ts[j], d)
    BY DEF Holds
  <2>2. Prefix(ts[j], d) = {}
    <3>1. d <= End(t)
      BY <1>1, <1>3
    <3> QED  BY <1>7, <3>1, LaterEmpty
  <2> QED  BY <2>1, <2>2
<1>8. ASSUME NEW p \in DOMAIN l, Data(l[p]) PROVE l[p].gen <= t.gen
  <2> DEFINE x == l[p].gen
  <2> SUFFICES ASSUME x > t.gen PROVE FALSE
    <3> DEFINE y == t.gen
    <3>1. x \in Nat /\ y \in Nat
      BY <1>2, <1>3
    <3> HIDE DEF x, y
    <3>2. x <= y \/ x > y
      BY <3>1
    <3> QED  BY <3>2 DEF x, y
  <2> DEFINE j == x - h + 1
  <2>1. l[p].gen <= ts[n].gen
    BY <1>8 DEF Continues
  <2>2. j \in 1..n /\ i < j /\ ts[j].gen = l[p].gen
    <3>1. ts[n].gen = h + (n - 1) /\ x \in Nat /\ x <= ts[n].gen /\ x > t.gen
      BY <1>1, <1>2, <2>1
    <3> HIDE DEF x, h, n
    <3>2. j \in 1..n /\ i < j /\ h + (j - 1) = x
      BY <1>1, <1>3, <3>1
    <3> QED  BY <1>1, <3>2 DEF x
  <2>3. LogRows(l, l[p].gen) = {}
    BY <1>7, <2>2
  <2>4. Rows(l[p]) # {}
    BY <1>2, <1>8, RowsOf
  <2> QED  BY <2>3, <2>4, InLogRows
<1>9. ASSUME NEW p \in DOMAIN l, Data(l[p]) PROVE Below(Rows(l[p]), Rows(e))
  <2>1. CASE l[p].gen < t.gen
    BY <1>5, <1>9, <2>1 DEF Continues, Below
  <2>2. CASE l[p].gen = t.gen
    <3> SUFFICES ASSUME NEW b \in Rows(l[p]), NEW y \in Rows(e) PROVE b < y
      BY DEF Below
    <3>1. b \in Prefix(t, d)
      <4>1. b \in LogRows(l, t.gen)
        BY <2>2, InLogRows
      <4> QED  BY <4>1 DEF Holds
    <3>2. PICK k \in 1..Len(t.rows) : t.off + k <= d /\ t.rows[k] = b
      BY <3>1, InPrefix
    <3>3. PICK r \in 1..Len(t.rows) : d < t.off + r /\ t.rows[r] = y
      BY <1>4
    <3>4. k < r
      <4>1. f + k <= d /\ d < f + r
        BY <3>2, <3>3
      <4> HIDE DEF f
      <4> QED  BY <1>3, <4>1
    <3>5. Rising(t.rows)
      BY DEF Continues
    <3> QED  BY <3>2, <3>3, <3>4, <3>5 DEF Rising
  <2> QED  BY <1>2, <1>3, <1>8, <1>9, <2>1, <2>2
<1>10. ASSUME NEW g \in 1..(e.gen - 1) PROVE Has(l, g)
  <2>1. CASE g < m.gen
    BY <1>1, <2>1 DEF Cut
  <2>2. CASE g >= m.gen
    <3> DEFINE j == g - h + 1
    <3>1. h <= g0
      <4>1. h = g0 \/ h + 1 = g0
        BY DEF AtCut
      <4> HIDE DEF h, g0
      <4> QED  BY <1>1, <4>1
    <3>2. j \in 1..n /\ j < i /\ ts[j].gen = g
      <4>1. g \in 1..(t.gen - 1) /\ g >= g0
        BY <1>3, <2>2
      <4> HIDE DEF h, g0, n
      <4>2. j \in 1..n /\ j < i /\ h + (j - 1) = g
        BY <1>1, <1>3, <3>1, <4>1
      <4> QED  BY <1>1, <4>2
    <3> HIDE DEF j
    <3>3. End(ts[j]) <= t.off /\ Len(ts[j].rows) >= 1
      BY <1>1, <3>2 DEF Numbered, TabTyped
    <3>4. End(ts[j]) <= d
      <4> DEFINE x == End(ts[j])
      <4>1. x \in Nat /\ x <= f
        BY <1>3, <3>2, <3>3
      <4> HIDE DEF x, f
      <4>2. x <= d
        BY <1>3, <4>1
      <4> QED  BY <4>2 DEF x
    <3>5. Prefix(ts[j], d) = Rows(ts[j])
      BY <1>1, <3>2, <3>4, EarlierWhole
    <3>6. Rows(ts[j]) # {}
      <4>1. 1 \in 1..Len(ts[j].rows)
        BY <1>1, <3>2, <3>3
      <4> QED  BY <1>1, <3>2, <4>1, RowsOf
    <3>7. LogRows(l, g) # {}
      BY <3>2, <3>5, <3>6 DEF Holds
    <3> QED  BY <3>7, HasRows
  <2> QED  BY <1>1, <2>1, <2>2
<1>11. Fits(LogRows(l, e.gen) \cup Rows(e))
  <2>1. LogRows(l, e.gen) \subseteq Rows(t)
    <3>1. LogRows(l, t.gen) = Prefix(t, d)
      BY DEF Holds
    <3>2. \A b : b \in Rows(t) <=> \E k \in 1..Len(t.rows) : t.rows[k] = b
      BY <1>1, RowsOf
    <3> QED  BY <3>1, <3>2, InPrefix
  <2>2. Fits(Rows(t))
    <3>1. t.rows \in Seq(Nat) /\ Len(t.rows) <= Capacity
      BY <1>1
    <3>2. \A b \in Rows(t) : \E k \in 1..Len(t.rows) : t.rows[k] = b
      BY <1>1, RowsOf
    <3> QED  BY <3>1, <3>2 DEF Fits
  <2>3. LogRows(l, e.gen) \cup Rows(e) \subseteq Rows(t)
    BY <1>5, <2>1
  <2> HIDE DEF t
  <2> QED  BY <2>2, <2>3, FitsPart
<1> QED  BY <1>4, <1>6, <1>8, <1>9, <1>10, <1>11 DEF Landable

-----------------------------------------------------------------------------
(* An append lands                                                         *)

(* The memtable an append is about.                                        *)
LEMMA AimsAt ==
  ASSUME NEW ts, TabTyped(ts), NEW a, NEW d, AppendOk(ts, a, d), Sending(a), Begun(ts, a, d)
  PROVE  \E i \in 1..Len(ts) :
           /\ ts[i].gen = a.gen /\ ts[i].off <= d /\ d < ts[i].off + a.end
           /\ a.end <= Len(ts[i].rows)
           /\ \A n : UpTo(ts, a, n) => n = ts[i].off + a.end
           /\ \A x, e : Sends(ts, a, d, x, e) =>
                e.epoch = x /\ e.gen = ts[i].gen /\ e.rows = Sent(ts[i], d, a.end)
<1>1. PICK i \in 1..Len(ts) :
        ts[i].gen = a.gen /\ a.end <= Len(ts[i].rows) /\ d < ts[i].off + a.end
  BY DEF AppendOk, Sending
<1>2. ts[i].off <= d
  BY <1>1 DEF Begun
<1>3. \A j \in 1..Len(ts) : ts[j].gen = a.gen => j = i
  <2> SUFFICES ASSUME NEW j \in 1..Len(ts), ts[j].gen = a.gen, j # i PROVE FALSE
    OBVIOUS
  <2>1. ts[j].gen \in Nat /\ ts[i].gen \in Nat /\ ts[j].gen = ts[i].gen
    BY <1>1 DEF TabTyped
  <2>2. i < j \/ j < i
    BY DEF TabTyped
  <2>3. ts[i].gen < ts[j].gen \/ ts[j].gen < ts[i].gen
    BY <2>2 DEF TabTyped
  <2> QED  BY <2>1, <2>3
<1>4. \A n : UpTo(ts, a, n) => n = ts[i].off + a.end
  BY <1>3 DEF UpTo
<1>5. \A x, e : Sends(ts, a, d, x, e) =>
        e.epoch = x /\ e.gen = ts[i].gen /\ e.rows = Sent(ts[i], d, a.end)
  BY <1>1, <1>3 DEF Sends
<1> QED  BY <1>1, <1>2, <1>4, <1>5

(* The log with the entry holds the memtables up to the append's end.      *)
LEMMA LandedTables ==
  ASSUME NEW l, NEW l2, NEW e, LogTyped(l), LogTyped(l2), Grown(l, l2, e), NEW ts, TabTyped(ts),
         NEW d \in Nat, Numbered(ts, d), NEW i \in 1..Len(ts), NEW z \in Nat, ts[i].off <= d,
         d < ts[i].off + z, z <= Len(ts[i].rows), e.gen = ts[i].gen, e.rows = Sent(ts[i], d, z),
         NEW n, n = ts[i].off + z
  PROVE  /\ Logged(l, ts, d) => Logged(l2, ts, n)
         /\ Holds(l, ts, d) => Holds(l2, ts, n)
         /\ Continues(l, ts) => Continues(l2, ts)
<1>1. \A j \in 1..Len(ts) : /\ j = i => Prefix(ts[j], n) = Prefix(ts[j], d) \cup Rows(e)
                            /\ j # i => Prefix(ts[j], n) = Prefix(ts[j], d)
  <2> SUFFICES ASSUME NEW j \in 1..Len(ts)
               PROVE  /\ j = i => Prefix(ts[j], n) = Prefix(ts[j], d) \cup Rows(e)
                      /\ j # i => Prefix(ts[j], n) = Prefix(ts[j], d)
    OBVIOUS
  <2> QED  BY PrefixGrows
<1>2. /\ \A g : g # e.gen => LogRows(l2, g) = LogRows(l, g)
      /\ LogRows(l2, e.gen) = LogRows(l, e.gen) \cup Rows(e)
      /\ AllRows(l2) = AllRows(l) \cup Rows(e)
  BY GrownRows
<1>3. \A j \in 1..Len(ts) : j # i => ts[j].gen # e.gen
  <2> SUFFICES ASSUME NEW j \in 1..Len(ts), j # i PROVE ts[j].gen # ts[i].gen
    OBVIOUS
  <2>1. i < j \/ j < i
    BY DEF TabTyped
  <2>2. ts[i].gen < ts[j].gen \/ ts[j].gen < ts[i].gen
    BY <2>1 DEF TabTyped
  <2>3. ts[i].gen \in Nat /\ ts[j].gen \in Nat
    BY DEF TabTyped
  <2> QED  BY <2>2, <2>3
<1>4. Logged(l, ts, d) => Logged(l2, ts, n)
  BY <1>1, <1>2 DEF Logged
<1>5. Holds(l, ts, d) => Holds(l2, ts, n)
  <2> SUFFICES ASSUME Holds(l, ts, d), NEW j \in 1..Len(ts)
               PROVE  LogRows(l2, ts[j].gen) = Prefix(ts[j], n)
    BY DEF Holds
  <2>1. LogRows(l, ts[j].gen) = Prefix(ts[j], d)
    BY DEF Holds
  <2>2. CASE j = i
    BY <1>1, <1>2, <2>1, <2>2
  <2>3. CASE j # i
    BY <1>1, <1>2, <1>3, <2>1, <2>3
  <2> QED  BY <2>2, <2>3
<1>6. Continues(l, ts) => Continues(l2, ts)
  <2> SUFFICES ASSUME Continues(l, ts), NEW p \in DOMAIN l2, Data(l2[p])
               PROVE  /\ l2[p].gen <= ts[Len(ts)].gen
                      /\ \A j \in 1..Len(ts) : l2[p].gen < ts[j].gen => Below(Rows(l2[p]), Rows(ts[j]))
    BY DEF Continues
  <2>1. (p \in DOMAIN l /\ l2[p] = l[p]) \/ l2[p] = e
    BY DEF Grown
  <2>2. CASE p \in DOMAIN l /\ l2[p] = l[p]
    BY <2>2 DEF Continues
  <2>3. CASE l2[p] = e
    <3>1. Len(ts) \in 1..Len(ts) /\ Len(ts) \in Nat /\ ts[Len(ts)].gen \in Nat
          /\ ts[i].gen \in Nat
      BY DEF TabTyped
    <3>2. e.gen <= ts[Len(ts)].gen
      <4>1. i = Len(ts) \/ i < Len(ts)
        BY <3>1
      <4>2. i < Len(ts) => ts[i].gen < ts[Len(ts)].gen
        BY <3>1 DEF TabTyped
      <4> QED  BY <3>1, <4>1, <4>2
    <3>3. ASSUME NEW j \in 1..Len(ts), e.gen < ts[j].gen PROVE Below(Rows(e), Rows(ts[j]))
      <4>1. i < j
        <5>1. ts[j].gen \in Nat /\ ~(ts[j].gen <= ts[i].gen)
          BY <3>1, <3>3 DEF TabTyped
        <5>2. j < i => ts[j].gen < ts[i].gen
          BY DEF TabTyped
        <5>3. i # j /\ ~(j < i)
          BY <3>1, <5>1, <5>2
        <5> QED  BY <3>1, <5>3
      <4>2. Rows(e) \subseteq Rows(ts[i])
        <5>1. ts[i].rows \in Seq(Nat) /\ Len(ts[i].rows) \in Nat /\ ts[i].off \in Nat
          BY DEF TabTyped
        <5> DEFINE t == ts[i]
        <5>2. \A b : b \in Rows(t) <=> \E k \in 1..Len(t.rows) : t.rows[k] = b
          BY <5>1, RowsOf
        <5>3. \A b : b \in Rows(e) <=> \E k \in 1..Len(t.rows) :
                                         d < t.off + k /\ k <= z /\ t.rows[k] = b
          <6>1. /\ t.rows \in Seq(Nat) /\ Len(t.rows) \in Nat /\ t.off \in Nat
                /\ t.off <= d /\ d < t.off + z /\ z <= Len(t.rows) /\ e.rows = Sent(t, d, z)
            BY <5>1
          <6> HIDE DEF t
          <6> QED  BY <6>1, SentRows
        <5> HIDE DEF t
        <5>4. Rows(e) \subseteq Rows(t)
          BY <5>2, <5>3
        <5> QED  BY <5>4 DEF t
      <4>3. Below(Rows(ts[i]), Rows(ts[j]))
        BY <4>1 DEF Continues
      <4> QED  BY <4>2, <4>3 DEF Below
    <3> QED  BY <2>3, <3>2, <3>3
  <2> QED  BY <2>1, <2>2, <2>3
<1> QED  BY <1>4, <1>5, <1>6

(* An open writer and what its state should be.                            *)
LEMMA Serving ==
  ASSUME Inv, Whole, NEW w \in Writers, pc[w] = "open"
  PROVE  /\ N \in Nat /\ DOMAIN wal = 1..N /\ LogTyped(wal) /\ CutTyped(manifest)
         /\ pos[w] \in 1..(N + 1) /\ epoch[w] \in Nat /\ durable[w] \in Nat
         /\ TabTyped(tables[w]) /\ TablesOk(tables[w], N) /\ WriterState /\ Writing(w)
         /\ AppendOk(tables[w], append[w], durable[w]) /\ append[w].end \in Nat
         /\ FrozenOk(tables[w], durable[w]) /\ QueueOk(tables[w], queue[w])
         /\ ExactOk(tables[w], queue[w], append[w], durable[w])
         /\ Numbered(tables[w], durable[w]) /\ Logged(wal, tables[w], durable[w])
         /\ append[w].phase = "appended" =>
              \A n \in Nat : UpTo(tables[w], append[w], n) => Logged(wal, tables[w], n)
         /\ Halted(wal, pos[w], epoch[w]) /\ Ordered(wal) /\ Cut(wal, manifest)
         /\ epoch[w] >= 1 /\ Capacity \in Nat /\ manifest.epoch \in Nat
<1>1. StoreFacts /\ WriterFacts(w) /\ Writing(w)
  BY StoreTyped, WriterTyped DEF Writing
<1>2. /\ TablesOk(tables[w], N) /\ AppendOk(tables[w], append[w], durable[w])
      /\ FrozenOk(tables[w], durable[w]) /\ QueueOk(tables[w], queue[w])
      /\ ExactOk(tables[w], queue[w], append[w], durable[w])
  BY AsIs
<1>3. WriterState /\ epoch[w] >= 1
  BY <1>1 DEF Inv, Shape, Fencing, Fair
<1>4. /\ Numbered(tables[w], durable[w]) /\ Logged(wal, tables[w], durable[w])
      /\ append[w].phase = "appended" =>
              \A n \in Nat : UpTo(tables[w], append[w], n) => Logged(wal, tables[w], n)
      /\ Halted(wal, pos[w], epoch[w]) /\ Ordered(wal) /\ Cut(wal, manifest)
  BY <1>1 DEF Whole, WriterOk, ServeOk, Epochs
<1> QED  BY <1>1, <1>2, <1>3, <1>4 DEF StoreFacts, WriterFacts

(* And if it is able.                                                      *)
LEMMA ServingAble ==
  ASSUME Whole, NEW w \in Writers, pc[w] = "open", Able(w)
  PROVE  /\ Continues(wal, tables[w]) /\ AtOk(wal, tables[w])
         /\ AtCut(manifest, tables[w], durable[w])
         /\ Owned(tables[w], queue[w], append[w]) /\ InTurn(queue[w])
         /\ Begun(tables[w], append[w], durable[w])
         /\ Landed(wal, pos[w], tables[w], append[w], durable[w])
BY DEF Whole, WriterOk, AbleOk

(* An able writer goes on where the log ends.                              *)
LEMMA AimIsNext ==
  ASSUME Inv, Whole, NEW w \in Writers, pc[w] = "open", Able(w), Sending(append[w]),
         pos[w] \notin DOMAIN wal, append[w].phase # "appended",
         NEW e, Sends(tables[w], append[w], durable[w], epoch[w], e)
  PROVE  Landable(wal, manifest, e) /\ Data(e) /\ Holds(wal, tables[w], durable[w])
<1> DEFINE ts == tables[w]
           a == append[w]
           d == durable[w]
           z == a.end
           x == epoch[w]
<1>1. /\ LogTyped(wal) /\ CutTyped(manifest) /\ TabTyped(ts) /\ d \in Nat /\ Numbered(ts, d)
      /\ AppendOk(ts, a, d) /\ Cut(wal, manifest) /\ Capacity \in Nat /\ z \in Nat
  BY Serving
<1>2. /\ Continues(wal, ts) /\ AtCut(manifest, ts, d) /\ Begun(ts, a, d)
      /\ Landed(wal, pos[w], ts, a, d)
  BY ServingAble
<1>3. Holds(wal, ts, d)
  BY <1>2 DEF Landed, Ahead
<1> HIDE DEF ts, a, d, z, x
<1>4. Sends(ts, a, d, x, e) /\ Sending(a) /\ z = a.end
  BY DEF ts, a, d, x, z
<1>5. PICK i \in 1..Len(ts) :
        /\ ts[i].gen = a.gen /\ ts[i].off <= d /\ d < ts[i].off + a.end
        /\ a.end <= Len(ts[i].rows)
        /\ \A y, f : Sends(ts, a, d, y, f) =>
             f.epoch = y /\ f.gen = ts[i].gen /\ f.rows = Sent(ts[i], d, a.end)
  BY <1>1, <1>2, <1>4, AimsAt
<1>6. e.gen = ts[i].gen /\ e.rows = Sent(ts[i], d, z)
  BY <1>4, <1>5
<1>7. ts[i].off <= d /\ d < ts[i].off + z /\ z <= Len(ts[i].rows)
  BY <1>4, <1>5
<1>8. Landable(wal, manifest, e)
  BY <1>1, <1>2, <1>3, <1>6, <1>7, SendsLandable
<1>9. Data(e)
  <2> DEFINE t == ts[i]
  <2>1. /\ t.rows \in Seq(Nat) /\ Len(t.rows) \in Nat /\ t.off \in Nat
        /\ t.off <= d /\ d < t.off + z /\ z <= Len(t.rows) /\ e.rows = Sent(t, d, z)
    BY <1>1, <1>6, <1>7 DEF TabTyped
  <2> HIDE DEF t
  <2> QED  BY <1>1, <2>1, SentRows
<1> QED  BY <1>3, <1>8, <1>9 DEF ts, d

(* The entry of an able writer lands, and the writer knows, or will.       *)
LEMMA LandWhole ==
  ASSUME Inv, Inv', Whole, NEW w \in Writers, pc[w] = "open", Able(w), Sending(append[w]),
         append[w].phase # "appended", pos[w] \notin DOMAIN wal,
         NEW e, Sends(tables[w], append[w], durable[w], epoch[w], e), Grown(wal, wal', e),
         manifest' = manifest, late' \subseteq late, acked' = acked,
         \A u \in Writers \ {w} : Untouched(u),
         pc'[w] = "open", tables'[w] = tables[w], durable'[w] = durable[w],
         queue'[w] = queue[w], epoch'[w] = epoch[w],
         NEW b, append'[w] = b, b.gen = append[w].gen, b.end = append[w].end,
         b.exact = append[w].exact,
         \/ b.phase = "appended" /\ b.at = pos[w] /\ pos'[w] = pos[w] + 1
         \/ b.phase \in {"put", "failed"} /\ Doubt(b) /\ pos'[w] = pos[w]
  PROVE  Whole'
<1> DEFINE ts == tables[w]
           a == append[w]
           d == durable[w]
           q == queue[w]
           p == pos[w]
           l2 == wal'
           z == a.end
<1>1. /\ N \in Nat /\ DOMAIN wal = 1..N /\ LogTyped(wal) /\ TabTyped(ts) /\ d \in Nat
      /\ Numbered(ts, d) /\ AppendOk(ts, a, d) /\ Logged(wal, ts, d) /\ p \in 1..(N + 1)
      /\ TablesOk(ts, N) /\ z \in Nat /\ epoch[w] \in Nat /\ Writing(w)
  BY Serving
<1>2. LogTyped(l2)
  BY StoreTypedNext DEF StoreFacts
<1>3. /\ Continues(wal, ts) /\ AtOk(wal, ts) /\ AtCut(manifest, ts, d) /\ Begun(ts, a, d)
      /\ Owned(ts, q, a) /\ InTurn(q) /\ Landed(wal, p, ts, a, d)
  BY ServingAble
<1>4. Landable(wal, manifest, e) /\ Data(e) /\ Holds(wal, ts, d) /\ p = N + 1
  <2>1. Landable(wal, manifest, e) /\ Data(e) /\ Holds(wal, ts, d)
    BY AimIsNext
  <2> QED  BY <1>1, <2>1
<1>5. DOMAIN l2 = 1..(N + 1) /\ (\A s \in 1..N : l2[s] = wal[s]) /\ l2[N + 1] = e
  <2>1. PICK n \in Nat : /\ DOMAIN wal = 1..n /\ DOMAIN wal' = 1..(n + 1)
                         /\ (\A s \in 1..n : wal'[s] = wal[s]) /\ wal'[n + 1] = e
    BY DEF Grown
  <2>2. n = N
    <3>1. ASSUME NEW x \in Nat, NEW y \in Nat, 1..x = 1..y PROVE x = y
      BY <3>1
    <3> QED  BY <1>1, <2>1, <3>1
  <2> QED  BY <2>1, <2>2
<1>6. Grown(wal, l2, e) /\ Kept(wal, l2)
  BY <1>1, <1>2, GrownRows
<1>7. e.epoch = epoch[w] /\ e.gen = a.gen
  BY DEF Sends
<1> HIDE DEF ts, a, d, q, p, l2, z
<1>8. PICK i \in 1..Len(ts) :
        /\ ts[i].gen = a.gen /\ ts[i].off <= d /\ d < ts[i].off + a.end
        /\ a.end <= Len(ts[i].rows)
        /\ (\A n : UpTo(ts, a, n) => n = ts[i].off + a.end)
        /\ \A y, f : Sends(ts, a, d, y, f) =>
             f.epoch = y /\ f.gen = ts[i].gen /\ f.rows = Sent(ts[i], d, a.end)
  <2>1. Sending(a)
    BY DEF a
  <2> QED  BY <1>1, <1>3, <2>1, AimsAt
<1>9. /\ e.gen = ts[i].gen /\ e.rows = Sent(ts[i], d, z)
      /\ ts[i].off <= d /\ d < ts[i].off + z /\ z <= Len(ts[i].rows)
  BY <1>8 DEF ts, a, d, z
<1>10. /\ Logged(l2, ts, ts[i].off + z) /\ Holds(l2, ts, ts[i].off + z) /\ Continues(l2, ts)
  <2> DEFINE n == ts[i].off + z
             l == wal
  <2>1. n = ts[i].off + z /\ LogTyped(l) /\ Grown(l, l2, e) /\ Logged(l, ts, d) /\ Holds(l, ts, d)
        /\ Continues(l, ts)
    BY <1>1, <1>3, <1>4, <1>6
  <2> HIDE DEF n, l
  <2>2. Logged(l2, ts, n) /\ Holds(l2, ts, n) /\ Continues(l2, ts)
    BY <1>1, <1>2, <1>9, <2>1, LandedTables
  <2> QED  BY <2>1, <2>2
<1>11. \A n : UpTo(ts, b, n) => n = ts[i].off + z
  BY <1>8 DEF UpTo, a, z
<1>12. WriterOk(w)'
  <2>1. ServeOk(w)'
    <3>1. Logged(l2, ts, d)
      BY <1>1, <1>6, KeptRows DEF Logged
    <3>2. \A n \in Nat : UpTo(ts, b, n) => Logged(l2, ts, n)
      BY <1>10, <1>11
    <3> QED  BY <1>1, <3>1, <3>2 DEF ServeOk, ts, d, l2
  <2>2. AbleOk(w)'
    <3>1. AtOk(l2, ts)
      <4> SUFFICES ASSUME NEW j \in 1..Len(ts) - 1, NEW s \in DOMAIN l2, Data(l2[s]), s <= ts[j].at
                   PROVE  l2[s].gen <= ts[j].gen
        BY DEF AtOk
      <4>1. j \in 1..Len(ts) /\ ts[j].at \in Nat /\ ts[j].at <= N
        BY <1>1 DEF TabTyped, TablesOk
      <4>2. s \in 1..N
        BY <1>1, <1>5, <4>1
      <4> QED  BY <1>1, <1>3, <1>5, <4>2 DEF AtOk
    <3>2. Owned(ts, q, b)
      <4>1. b.phase # "idle" /\ b.gen = a.gen /\ b.exact = a.exact
        BY DEF a
      <4> QED  BY <1>3, <4>1 DEF Owned
    <3>3. Begun(ts, b, d)
      <4>1. b.gen = a.gen /\ Sending(a)
        BY DEF a
      <4> QED  BY <1>3, <4>1 DEF Begun
    <3>4. Landed(l2, pos'[w], ts, b, d)
      <4>1. \A n \in Nat : UpTo(ts, b, n) => Holds(l2, ts, n)
        BY <1>10, <1>11
      <4>2. CASE b.phase = "appended" /\ b.at = p /\ pos'[w] = p + 1
        <5>1. \A s \in DOMAIN l2 : s <= p + 1
          BY <1>1, <1>4, <1>5
        <5>2. ~Ahead(l2, p + 1)
          BY <1>1, <1>4, <1>5 DEF Ahead
        <5>3. l2[b.at] = e /\ e.gen = b.gen
          BY <1>4, <1>5, <1>7, <4>2 DEF a
        <5> QED  BY <1>4, <4>1, <4>2, <5>1, <5>2, <5>3 DEF Landed
      <4>3. CASE b.phase \in {"put", "failed"} /\ Doubt(b) /\ pos'[w] = p
        <5>1. \A s \in DOMAIN l2 : s <= p
          BY <1>1, <1>4, <1>5
        <5>2. Ahead(l2, p)
          BY <1>1, <1>4, <1>5 DEF Ahead
        <5> QED  BY <4>1, <4>3, <5>1, <5>2 DEF Landed
      <4> QED  BY <4>2, <4>3 DEF p
    <3>5. AtCut(manifest', ts, d) /\ InTurn(q)
      BY <1>3
    <3> QED  BY <1>10, <3>1, <3>2, <3>3, <3>4, <3>5 DEF AbleOk, ts, d, q, l2
  <2>3. ClaimOk(w)' /\ ReplayOk(w)'
    BY DEF ClaimOk, ReplayOk
  <2> QED  BY <2>1, <2>2, <2>3 DEF WriterOk
<1>13. Goes(w)
  <2>1. CASE pos'[w] = pos[w]
    BY <1>1, <2>1 DEF Goes
  <2>2. CASE pos'[w] # pos[w]
    <3>1. Newest(l2, epoch[w])
      <4>1. Newest(wal, epoch[w]) /\ e.epoch <= epoch[w]
        BY <1>1, <1>7 DEF Able
      <4>2. \A s \in DOMAIN l2 : s \in 1..N \/ l2[s] = e
        BY <1>1, <1>5
      <4> QED  BY <1>1, <1>5, <4>1, <4>2 DEF Newest
    <3>2. Halted(wal', pos'[w], epoch'[w])
      BY <3>1 DEF Halted, l2
    <3> QED  BY <3>2 DEF Goes
  <2> QED  BY <2>1, <2>2
<1>14. \A u \in Writers : Goes(u) /\ (WriterOk(u)' \/ (Untouched(u) /\ (~Data(e) \/ ~Able(u))))
  <2> SUFFICES ASSUME NEW u \in Writers
               PROVE  Goes(u) /\ (WriterOk(u)' \/ (Untouched(u) /\ (~Data(e) \/ ~Able(u))))
    OBVIOUS
  <2>1. CASE u = w
    BY <1>12, <1>13, <2>1
  <2>2. CASE u # w
    <3>1. Untouched(u) /\ Goes(u)
      BY <2>2, UntouchedGoes
    <3>2. ~Able(u)
      BY <2>2, OneAble DEF Whole
    <3> QED  BY <3>1, <3>2
  <2> QED  BY <2>1, <2>2
<1> QED  BY <1>4, <1>14, LandStep

-----------------------------------------------------------------------------
(* Steps of an open writer                                                 *)

(* What is true of an open writer, and what of one that is able.           *)
Basis(l, ts, a, d) ==
  /\ Numbered(ts, d) /\ Logged(l, ts, d)
  /\ a.phase = "appended" => \A n \in Nat : UpTo(ts, a, n) => Logged(l, ts, n)

(* AbleOk of explicit values.                                              *)
Serves(l, m, ts, q, a, d, p) ==
  /\ Continues(l, ts) /\ AtOk(l, ts) /\ AtCut(m, ts, d) /\ Owned(ts, q, a) /\ InTurn(q)
  /\ Begun(ts, a, d) /\ Landed(l, p, ts, a, d)

(* As in every state.                                                      *)
LEMMA ServingParts ==
  ASSUME Inv, Whole, NEW w \in Writers, pc[w] = "open"
  PROVE  /\ Basis(wal, tables[w], append[w], durable[w])
         /\ Able(w) => Serves(wal, manifest, tables[w], queue[w], append[w], durable[w], pos[w])
<1>1. Basis(wal, tables[w], append[w], durable[w])
  BY Serving DEF Basis
<1>2. ASSUME Able(w)
      PROVE  Serves(wal, manifest, tables[w], queue[w], append[w], durable[w], pos[w])
  BY <1>2, ServingAble DEF Serves
<1> QED  BY <1>1, <1>2

(* A step of the tasks of w that leaves the stores alone.                  *)
LEMMA TaskStill ==
  ASSUME Inv, Inv', Whole, NEW w \in Writers, pc[w] = "open",
         UNCHANGED <<wal, late, manifest>>, UNCHANGED <<pc, epoch, base, last>>,
         \A u \in Writers \ {w} : Untouched(u),
         NEW ts, tables'[w] = ts, NEW a, append'[w] = a, NEW d, durable'[w] = d,
         NEW q, queue'[w] = q, NEW p, pos'[w] = p,
         Basis(wal, ts, a, d), p = pos[w] \/ Halted(wal, p, epoch[w]),
         Able(w)' => Serves(wal, manifest, ts, q, a, d, p),
         \A r \in late : r.at \notin DOMAIN wal /\ Repeats(w, r) => Repeats(w, r)',
         acked' \subseteq AllRows(wal)
  PROVE  Whole'
<1>1. pc'[w] = "open" /\ Writing(w) /\ Writing(w)' /\ epoch'[w] = epoch[w]
  BY DEF Writing
<1>2. ServeOk(w)'
  BY DEF ServeOk, Basis
<1>3. AbleOk(w)'
  BY DEF AbleOk, Serves
<1>4. ClaimOk(w)' /\ ReplayOk(w)'
  BY <1>1 DEF ClaimOk, ReplayOk
<1>5. WriterOk(w)'
  BY <1>2, <1>3, <1>4 DEF WriterOk
<1>6. Goes(w)
  BY <1>1 DEF Goes
<1>7. SameCut(manifest, manifest') /\ manifest.epoch <= manifest'.epoch
  <2>1. manifest.epoch \in Nat /\ manifest' = manifest
    BY StoreTyped DEF StoreFacts
  <2> QED  BY <2>1 DEF SameCut
<1> QED  BY <1>1, <1>5, <1>6, <1>7, StillStep

(* Whether w is able does not change while it stays where it is.           *)
LEMMA AbleStays ==
  ASSUME NEW w \in Writers, UNCHANGED <<wal, manifest, pc, epoch>>, pos'[w] = pos[w]
  PROVE  Able(w)' <=> Able(w)
BY DEF Able, Writing, Newest, Fenced

(* A step in which nothing happens, but for a request that is lost.        *)
LEMMA IdleStep ==
  ASSUME Inv, Inv', Whole, UNCHANGED <<wal, manifest>>, late' \subseteq late, acked' = acked,
         \A u \in Writers : Untouched(u)
  PROVE  Whole'
<1>1. StoreFacts /\ StoreFacts'
  BY StoreTyped, StoreTypedNext
<1>2. LogGrows /\ Later(wal, wal', manifest) /\ Quiet(wal, wal') /\ SameCut(manifest, manifest')
  <2>1. LogGrows
    BY <1>1, SameLog DEF StoreFacts
  <2> QED  BY <1>1, <2>1 DEF Later, Kept, Quiet, SameCut, StoreFacts, LogTyped
<1>3. manifest.gen <= manifest'.gen /\ manifest.epoch <= manifest'.epoch
  BY <1>1 DEF StoreFacts, CutTyped
<1>4. \A u \in Writers : WriterOk(u)'
  BY <1>2, <1>3, OtherOk DEF Whole
<1>5. \A u \in Writers : Goes(u)
  BY UntouchedGoes
<1>6. Epochs'
  BY <1>2, <1>5, EpochsStep DEF Whole
<1>7. ASSUME NEW r \in late' PROVE LateOk(r)'
  <2>1. r \in late /\ LateOk(r)
    BY DEF Whole
  <2>2. \A u \in Writers : Writing(u)' =>
           Writing(u) /\ epoch'[u] = epoch[u] /\ (Repeats(u, r) => Repeats(u, r)')
    BY UntouchedRepeats DEF Untouched, Same, Writing
  <2> QED  BY <2>1, <2>2, LateStill
<1>8. Ordered(wal)' /\ Cut(wal, manifest)' /\ AckedOk'
  BY DEF Whole, AckedOk
<1> QED  BY <1>4, <1>6, <1>7, <1>8 DEF Whole

-----------------------------------------------------------------------------
(* The memtables change                                                    *)

(* The memtables t2 hold what ts hold.                                     *)
Twin(ts, t2) ==
  /\ Len(t2) = Len(ts)
  /\ \A i \in 1..Len(ts) :
       t2[i].gen = ts[i].gen /\ t2[i].off = ts[i].off /\ t2[i].rows = ts[i].rows

(* They do, and a new one is open.                                         *)
Opened(ts, t2) ==
  /\ Len(t2) = Len(ts) + 1
  /\ \A i \in 1..Len(ts) :
       t2[i].gen = ts[i].gen /\ t2[i].off = ts[i].off /\ t2[i].rows = ts[i].rows
  /\ t2[Len(ts) + 1].gen = ts[Len(ts)].gen + 1 /\ t2[Len(ts) + 1].off = End(ts[Len(ts)])
  /\ t2[Len(ts) + 1].rows = <<>>

(* The memtables t2 are ts but for what a freeze writes.                   *)
Kin(ts, t2) == Twin(ts, t2) \/ Opened(ts, t2)

(* The memtables are the old ones, and perhaps the new one.                *)
LEMMA KinTables ==
  ASSUME NEW ts, NEW t2, TabTyped(ts), TabTyped(t2), Kin(ts, t2)
  PROVE  /\ \A i \in 1..Len(ts) : /\ i \in 1..Len(t2) /\ t2[i].gen = ts[i].gen
                                  /\ t2[i].off = ts[i].off /\ t2[i].rows = ts[i].rows
                                  /\ End(t2[i]) = End(ts[i])
         /\ \A j \in 1..Len(t2) :
              j \notin 1..Len(ts) => /\ j = Len(ts) + 1 /\ t2[j].rows = <<>>
                                     /\ t2[j].gen = ts[Len(ts)].gen + 1
                                     /\ t2[j].off = End(ts[Len(ts)])
                                     /\ End(t2[j]) = End(ts[Len(ts)])
         /\ Len(t2) >= Len(ts)
<1>1. Len(ts) \in Nat /\ Len(t2) \in Nat /\ Len(ts) >= 1 /\ Len(ts) \in 1..Len(ts)
  BY DEF TabTyped
<1>2. Len(t2) = Len(ts) \/ Len(t2) = Len(ts) + 1
  BY DEF Kin, Twin, Opened
<1>3. ASSUME NEW i \in 1..Len(ts)
      PROVE  /\ i \in 1..Len(t2) /\ t2[i].gen = ts[i].gen
             /\ t2[i].off = ts[i].off /\ t2[i].rows = ts[i].rows
             /\ End(t2[i]) = End(ts[i])
  <2>1. i \in 1..Len(t2)
    BY <1>1, <1>2
  <2>2. t2[i].gen = ts[i].gen /\ t2[i].off = ts[i].off /\ t2[i].rows = ts[i].rows
    BY DEF Kin, Twin, Opened
  <2> QED  BY <2>1, <2>2 DEF End
<1>4. ASSUME NEW j \in 1..Len(t2), j \notin 1..Len(ts)
      PROVE  /\ j = Len(ts) + 1 /\ t2[j].rows = <<>>
             /\ t2[j].gen = ts[Len(ts)].gen + 1
             /\ t2[j].off = End(ts[Len(ts)])
             /\ End(t2[j]) = End(ts[Len(ts)])
  <2>1. j = Len(ts) + 1 /\ Len(t2) = Len(ts) + 1
    BY <1>1, <1>2, <1>4
  <2>2. Opened(ts, t2)
    BY <1>1, <2>1 DEF Kin, Twin
  <2>3. t2[j].rows = <<>> /\ t2[j].gen = ts[Len(ts)].gen + 1 /\ t2[j].off = End(ts[Len(ts)])
    BY <2>1, <2>2 DEF Opened
  <2>4. End(t2[j]) = End(ts[Len(ts)])
    <3>1. t2[j].off \in Nat /\ Len(t2[j].rows) = 0
      BY <2>3 DEF TabTyped
    <3> DEFINE x == t2[j].off
               y == Len(t2[j].rows)
    <3>2. x + y = x
      <4> HIDE DEF x, y
      <4> QED  BY <3>1 DEF x, y
    <3> QED  BY <2>3, <3>2 DEF End
  <2> QED  BY <2>1, <2>3, <2>4
<1> QED  BY <1>1, <1>2, <1>3, <1>4

(* The same rows up to n.                                                  *)
LEMMA KinPrefix ==
  ASSUME NEW ts, NEW t2, TabTyped(ts), TabTyped(t2), Kin(ts, t2), NEW n
  PROVE  /\ \A i \in 1..Len(ts) : Prefix(t2[i], n) = Prefix(ts[i], n)
         /\ \A j \in 1..Len(t2) : j \notin 1..Len(ts) => Prefix(t2[j], n) = {}
<1>1. \A i \in 1..Len(ts) : t2[i].off = ts[i].off /\ t2[i].rows = ts[i].rows
  BY KinTables
<1>2. ASSUME NEW j \in 1..Len(t2), j \notin 1..Len(ts) PROVE Prefix(t2[j], n) = {}
  <2>1. t2[j].rows = <<>>
    BY <1>2, KinTables
  <2>2. 1..Len(t2[j].rows) = {}
    BY <2>1
  <2> QED  BY <2>2 DEF Prefix
<1> QED  BY <1>1, <1>2 DEF Prefix

(* They are numbered, as much of them is in the log, and they continue it. *)
LEMMA KinNumbered ==
  ASSUME NEW ts, NEW t2, TabTyped(ts), TabTyped(t2), Kin(ts, t2), NEW d \in Nat, Numbered(ts, d)
  PROVE  Numbered(t2, d)
<1> DEFINE k == Len(ts)
           m == Len(t2)
<1>1. k \in Nat /\ m \in Nat /\ k >= 1 /\ m >= k /\ k \in 1..k /\ 1 \in 1..k /\ m \in 1..m
  <2>1. k \in Nat /\ m \in Nat /\ k >= 1
    BY DEF TabTyped
  <2>2. m >= k
    BY KinTables
  <2> HIDE DEF k, m
  <2> QED  BY <2>1, <2>2
<1>2. /\ \A i \in 1..k : /\ i \in 1..m /\ t2[i].gen = ts[i].gen
                         /\ t2[i].off = ts[i].off /\ End(t2[i]) = End(ts[i])
      /\ \A j \in 1..m : j \notin 1..k =>
           /\ j = k + 1 /\ t2[j].gen = ts[k].gen + 1 /\ t2[j].off = End(ts[k])
           /\ End(t2[j]) = End(ts[k])
  BY KinTables
<1>3. /\ \A i \in 1..k : ts[i].gen = ts[1].gen + (i - 1)
      /\ \A i, j \in 1..k : i < j => End(ts[i]) <= ts[j].off
      /\ \A i \in 1..k - 1 : ts[i + 1].off = End(ts[i])
      /\ ts[1].off <= d /\ d <= End(ts[k])
  BY DEF Numbered
<1>4. \A i \in 1..k : ts[i].gen \in Nat /\ ts[i].off \in Nat /\ End(ts[i]) \in Nat
                      /\ ts[i].off <= End(ts[i])
  <2> SUFFICES ASSUME NEW i \in 1..k
               PROVE  ts[i].gen \in Nat /\ ts[i].off \in Nat /\ End(ts[i]) \in Nat
                      /\ ts[i].off <= End(ts[i])
    OBVIOUS
  <2> DEFINE x == ts[i].off
             y == Len(ts[i].rows)
  <2>1. x \in Nat /\ y \in Nat /\ ts[i].gen \in Nat
    BY DEF TabTyped
  <2> HIDE DEF x, y
  <2>2. x + y \in Nat /\ x <= x + y
    BY <2>1
  <2> QED  BY <2>1, <2>2 DEF End, x, y
<1> HIDE DEF k, m
<1>5. ASSUME NEW j \in 1..m PROVE t2[j].gen = t2[1].gen + (j - 1)
  <2>1. CASE j \in 1..k
    BY <1>1, <1>2, <1>3, <2>1
  <2>2. CASE j \notin 1..k
    <3>1. j = k + 1 /\ t2[j].gen = ts[k].gen + 1
      BY <1>2, <2>2
    <3>2. ts[k].gen = ts[1].gen + (k - 1) /\ t2[1].gen = ts[1].gen /\ ts[1].gen \in Nat
      BY <1>1, <1>2, <1>3, <1>4
    <3> DEFINE h == ts[1].gen
    <3>3. t2[j].gen = (h + (k - 1)) + 1 /\ h \in Nat /\ t2[1].gen = h
      BY <3>1, <3>2
    <3> HIDE DEF h
    <3>4. (h + (k - 1)) + 1 = h + (j - 1)
      BY <1>1, <3>1, <3>3
    <3> QED  BY <3>3, <3>4
  <2> QED  BY <2>1, <2>2
<1>6. ASSUME NEW i \in 1..m, NEW j \in 1..m, i < j PROVE End(t2[i]) <= t2[j].off
  <2>1. i \in 1..k
    BY <1>1, <1>2, <1>6
  <2>2. CASE j \in 1..k
    BY <1>2, <1>3, <1>6, <2>1, <2>2
  <2>3. CASE j \notin 1..k
    <3>1. t2[j].off = End(ts[k]) /\ End(t2[i]) = End(ts[i])
      BY <1>2, <2>1, <2>3
    <3>2. i = k \/ i < k
      BY <1>1, <2>1
    <3>3. i < k => End(ts[i]) <= ts[k].off
      BY <1>1, <1>3, <2>1
    <3> DEFINE x == End(ts[i])
               y == End(ts[k])
               z == ts[k].off
    <3>4. x \in Nat /\ y \in Nat /\ z \in Nat /\ z <= y /\ (i = k => x = y) /\ (i < k => x <= z)
      BY <1>1, <1>4, <2>1, <3>3
    <3> HIDE DEF x, y, z
    <3>5. x <= y
      BY <3>2, <3>4
    <3> QED  BY <3>1, <3>5 DEF x, y
  <2> QED  BY <2>2, <2>3
<1>7. ASSUME NEW i \in 1..m - 1 PROVE t2[i + 1].off = End(t2[i])
  <2>1. i \in 1..k /\ i + 1 \in 1..m /\ i \in 1..m
    <3>1. i + 1 \in 1..m /\ i \in 1..m /\ i < i + 1
      BY <1>1
    <3> QED  BY <1>1, <1>2, <3>1
  <2>2. CASE i + 1 \in 1..k
    <3>1. i \in 1..k - 1
      BY <1>1, <2>1, <2>2
    <3> QED  BY <1>2, <1>3, <2>1, <2>2, <3>1
  <2>3. CASE i + 1 \notin 1..k
    <3>1. i = k
      BY <1>1, <2>1, <2>3
    <3> QED  BY <1>2, <2>1, <2>3, <3>1
  <2> QED  BY <2>2, <2>3
<1>8. t2[1].off <= d /\ d <= End(t2[m])
  <2>1. t2[1].off = ts[1].off
    BY <1>1, <1>2
  <2>2. End(t2[m]) = End(ts[k])
    <3>1. CASE m \in 1..k
      <4>1. m = k
        BY <1>1, <3>1
      <4> QED  BY <1>1, <1>2, <4>1
    <3>2. CASE m \notin 1..k
      BY <1>1, <1>2, <3>2
    <3> QED  BY <3>1, <3>2
  <2> QED  BY <1>3, <2>1, <2>2
<1> QED  BY <1>5, <1>6, <1>7, <1>8 DEF Numbered, m

(* What the log has of the memtables stays there.                          *)
LEMMA KinLogged ==
  ASSUME NEW ts, NEW t2, TabTyped(ts), TabTyped(t2), Kin(ts, t2), NEW l, LogTyped(l), NEW n
  PROVE  /\ Logged(l, ts, n) => Logged(l, t2, n)
         /\ Continues(l, ts) => Continues(l, t2)
         /\ Continues(l, ts) /\ Holds(l, ts, n) => Holds(l, t2, n)
<1>1. /\ \A i \in 1..Len(ts) : Prefix(t2[i], n) = Prefix(ts[i], n)
      /\ \A j \in 1..Len(t2) : j \notin 1..Len(ts) => Prefix(t2[j], n) = {}
  BY KinPrefix
<1>2. Logged(l, ts, n) => Logged(l, t2, n)
  BY <1>1 DEF Logged
<1>3. /\ \A i \in 1..Len(ts) : i \in 1..Len(t2) /\ t2[i].gen = ts[i].gen /\ t2[i].rows = ts[i].rows
      /\ \A j \in 1..Len(t2) : j \notin 1..Len(ts) =>
            j = Len(ts) + 1 /\ t2[j].rows = <<>> /\ t2[j].gen = ts[Len(ts)].gen + 1
  BY KinTables
<1>4. \A i \in 1..Len(ts) : Rows(t2[i]) = Rows(ts[i])
  BY <1>3 DEF Rows
<1>5. \A j \in 1..Len(t2) : j \notin 1..Len(ts) => Rows(t2[j]) = {}
  BY <1>3 DEF Rows
<1>6. /\ Len(ts) \in Nat /\ Len(t2) \in Nat /\ Len(ts) \in 1..Len(ts) /\ Len(t2) \in 1..Len(t2)
      /\ ts[Len(ts)].gen \in Nat
  BY DEF TabTyped
<1>7. ASSUME Continues(l, ts), NEW p \in DOMAIN l, Data(l[p])
      PROVE  l[p].gen \in Nat /\ l[p].gen <= ts[Len(ts)].gen
  BY <1>7 DEF Continues, LogTyped
<1>8. ASSUME Continues(l, ts) PROVE Continues(l, t2)
  <2>1. \A i \in 1..Len(t2) : Rising(t2[i].rows)
    <3> SUFFICES ASSUME NEW i \in 1..Len(t2) PROVE Rising(t2[i].rows)
      OBVIOUS
    <3>1. CASE i \in 1..Len(ts)
      BY <1>3, <1>8, <3>1 DEF Continues
    <3>2. CASE i \notin 1..Len(ts)
      <4>1. t2[i].rows = <<>>
        BY <1>3, <3>2
      <4>2. 1..Len(t2[i].rows) = {}
        BY <4>1
      <4> QED  BY <4>2 DEF Rising
    <3> QED  BY <3>1, <3>2
  <2>2. \A i, j \in 1..Len(t2) : i < j => Below(Rows(t2[i]), Rows(t2[j]))
    <3> SUFFICES ASSUME NEW i \in 1..Len(t2), NEW j \in 1..Len(t2), i < j
                 PROVE  Below(Rows(t2[i]), Rows(t2[j]))
      OBVIOUS
    <3>1. CASE i \in 1..Len(ts) /\ j \in 1..Len(ts)
      <4>1. Below(Rows(ts[i]), Rows(ts[j]))
        BY <1>8, <3>1 DEF Continues
      <4> QED  BY <1>4, <3>1, <4>1
    <3>2. CASE i \notin 1..Len(ts) \/ j \notin 1..Len(ts)
      BY <1>5, <3>2 DEF Below
    <3> QED  BY <3>1, <3>2
  <2>3. ASSUME NEW p \in DOMAIN l, Data(l[p])
        PROVE  /\ l[p].gen <= t2[Len(t2)].gen
               /\ \A i \in 1..Len(t2) : l[p].gen < t2[i].gen => Below(Rows(l[p]), Rows(t2[i]))
    <3>1. l[p].gen \in Nat /\ l[p].gen <= ts[Len(ts)].gen
      BY <1>7, <1>8, <2>3
    <3>2. ts[Len(ts)].gen <= t2[Len(t2)].gen /\ t2[Len(t2)].gen \in Nat
      <4>1. CASE Len(t2) \in 1..Len(ts)
        <5>1. Len(t2) = Len(ts)
          BY <1>6, <4>1, KinTables
        <5> QED  BY <1>3, <1>6, <4>1, <5>1
      <4>2. CASE Len(t2) \notin 1..Len(ts)
        <5>1. t2[Len(t2)].gen = ts[Len(ts)].gen + 1
          BY <1>3, <1>6, <4>2
        <5> QED  BY <1>6, <5>1
      <4> QED  BY <4>1, <4>2
    <3>3. l[p].gen <= t2[Len(t2)].gen
      BY <1>6, <3>1, <3>2
    <3>4. ASSUME NEW i \in 1..Len(t2), l[p].gen < t2[i].gen PROVE Below(Rows(l[p]), Rows(t2[i]))
      <4>1. CASE i \in 1..Len(ts)
        <5>1. Below(Rows(l[p]), Rows(ts[i]))
          BY <1>3, <1>8, <2>3, <3>4, <4>1 DEF Continues
        <5> QED  BY <1>4, <4>1, <5>1
      <4>2. CASE i \notin 1..Len(ts)
        BY <1>5, <4>2 DEF Below
      <4> QED  BY <4>1, <4>2
    <3> QED  BY <3>3, <3>4
  <2> QED  BY <2>1, <2>2, <2>3 DEF Continues
<1>9. ASSUME Continues(l, ts), Holds(l, ts, n) PROVE Holds(l, t2, n)
  <2> SUFFICES ASSUME NEW i \in 1..Len(t2) PROVE LogRows(l, t2[i].gen) = Prefix(t2[i], n)
    BY DEF Holds
  <2>1. CASE i \in 1..Len(ts)
    BY <1>1, <1>3, <1>9, <2>1 DEF Holds
  <2>2. CASE i \notin 1..Len(ts)
    <3>1. \A p \in DOMAIN l : Data(l[p]) => l[p].gen # t2[i].gen
      <4> SUFFICES ASSUME NEW p \in DOMAIN l, Data(l[p]) PROVE l[p].gen # t2[i].gen
        OBVIOUS
      <4> DEFINE x == ts[Len(ts)].gen
      <4>1. l[p].gen \in Nat /\ l[p].gen <= x /\ x \in Nat /\ t2[i].gen = x + 1
        BY <1>3, <1>6, <1>7, <1>9, <2>2
      <4> HIDE DEF x
      <4> QED  BY <4>1
    <3>2. ~Has(l, t2[i].gen)
      BY <3>1 DEF Has
    <3>3. LogRows(l, t2[i].gen) = {}
      BY <3>2, HasRows
    <3> QED  BY <1>1, <2>2, <3>3
  <2> QED  BY <2>1, <2>2
<1> QED  BY <1>2, <1>8, <1>9

(* Generations tell memtables apart.                                       *)
LEMMA OneTable ==
  ASSUME NEW ts, TabTyped(ts), NEW i \in 1..Len(ts), NEW j \in 1..Len(ts), ts[i].gen = ts[j].gen
  PROVE  i = j
<1>1. i \in Nat /\ j \in Nat /\ ts[i].gen \in Nat /\ ts[j].gen \in Nat
  BY DEF TabTyped
<1>2. (i < j => ts[i].gen < ts[j].gen) /\ (j < i => ts[j].gen < ts[i].gen)
  BY DEF TabTyped
<1>3. ~(i < j) /\ ~(j < i)
  BY <1>1, <1>2
<1> QED  BY <1>1, <1>3

(* The append in progress goes on.                                         *)
LEMMA KinAppend ==
  ASSUME NEW ts, NEW t2, TabTyped(ts), TabTyped(t2), Kin(ts, t2), NEW a, NEW d
  PROVE  /\ AppendOk(ts, a, d) /\ Sending(a) =>
              /\ \A n : UpTo(t2, a, n) => UpTo(ts, a, n)
              /\ Begun(ts, a, d) => Begun(t2, a, d)
         /\ \A x, e : Sends(ts, a, d, x, e) => Sends(t2, a, d, x, e)
<1>1. \A i \in 1..Len(ts) : /\ i \in 1..Len(t2) /\ t2[i].gen = ts[i].gen
                            /\ t2[i].off = ts[i].off /\ t2[i].rows = ts[i].rows
  BY KinTables
<1>2. ASSUME AppendOk(ts, a, d), Sending(a), NEW j \in 1..Len(t2), t2[j].gen = a.gen
      PROVE  j \in 1..Len(ts)
  <2>1. PICK i \in 1..Len(ts) : ts[i].gen = a.gen
    BY <1>2 DEF AppendOk, Sending
  <2>2. i \in 1..Len(t2) /\ t2[i].gen = t2[j].gen
    BY <1>1, <1>2, <2>1
  <2>3. i = j
    BY <2>2, OneTable
  <2> QED  BY <2>1, <2>3
<1>3. ASSUME AppendOk(ts, a, d), Sending(a), NEW n, UpTo(t2, a, n) PROVE UpTo(ts, a, n)
  <2>1. PICK j \in 1..Len(t2) : t2[j].gen = a.gen /\ n = t2[j].off + a.end
    BY <1>3 DEF UpTo
  <2>2. j \in 1..Len(ts)
    BY <1>2, <1>3, <2>1
  <2> QED  BY <1>1, <2>1, <2>2 DEF UpTo
<1>4. ASSUME AppendOk(ts, a, d), Sending(a), Begun(ts, a, d) PROVE Begun(t2, a, d)
  <2> SUFFICES ASSUME NEW j \in 1..Len(t2), t2[j].gen = a.gen PROVE t2[j].off <= d
    BY DEF Begun
  <2>1. j \in 1..Len(ts)
    BY <1>2, <1>4
  <2> QED  BY <1>1, <1>4, <2>1 DEF Begun
<1>5. ASSUME NEW x, NEW e, Sends(ts, a, d, x, e) PROVE Sends(t2, a, d, x, e)
  <2>1. PICK i \in 1..Len(ts) : ts[i].gen = a.gen /\ e.rows = Sent(ts[i], d, a.end)
    BY <1>5 DEF Sends
  <2>2. i \in 1..Len(t2) /\ t2[i].gen = a.gen /\ Sent(t2[i], d, a.end) = Sent(ts[i], d, a.end)
    BY <1>1, <2>1 DEF Sent
  <2> QED  BY <1>5, <2>1, <2>2 DEF Sends
<1> QED  BY <1>3, <1>4, <1>5

(* An append without an answer is one that is being sent.                  *)
LEMMA AheadSends ==
  ASSUME NEW l, NEW p, NEW ts, NEW a, NEW d, Landed(l, p, ts, a, d),
         Ahead(l, p) \/ a.phase = "appended"
  PROVE  Sending(a)
BY DEF Landed, Doubt, Sending

(* The log holds as much of them as before.                                *)
LEMMA KinLanded ==
  ASSUME NEW ts, NEW t2, TabTyped(ts), TabTyped(t2), Kin(ts, t2), NEW a, NEW d, NEW l, LogTyped(l),
         NEW p, AppendOk(ts, a, d), Continues(l, ts), Landed(l, p, ts, a, d)
  PROVE  Landed(l, p, t2, a, d)
<1>1. \A n : Holds(l, ts, n) => Holds(l, t2, n)
  BY KinLogged
<1>2. CASE Ahead(l, p) \/ a.phase = "appended"
  <2>1. Sending(a)
    BY <1>2, AheadSends
  <2>2. \A n : UpTo(t2, a, n) => UpTo(ts, a, n)
    BY <2>1, KinAppend
  <2>3. \A n \in Nat : UpTo(ts, a, n) => Holds(l, ts, n)
    BY <1>2 DEF Landed
  <2>4. \A n \in Nat : UpTo(t2, a, n) => Holds(l, t2, n)
    BY <1>1, <2>2, <2>3
  <2> QED  BY <1>2, <2>4 DEF Landed
<1>3. CASE ~(Ahead(l, p) \/ a.phase = "appended")
  <2>1. Holds(l, ts, d)
    BY <1>3 DEF Landed
  <2>2. Holds(l, t2, d)
    BY <1>1, <2>1
  <2> QED  BY <1>3, <2>2 DEF Landed
<1> QED  BY <1>2, <1>3

(* The oldest memtable is where it was.                                    *)
LEMMA KinCut ==
  ASSUME NEW ts, NEW t2, TabTyped(ts), TabTyped(t2), Kin(ts, t2), NEW m, NEW d, AtCut(m, ts, d)
  PROVE  AtCut(m, t2, d)
<1>1. 1 \in 1..Len(ts) /\ Len(ts) \in Nat /\ Len(t2) \in Nat
  BY DEF TabTyped
<1>2. t2[1].gen = ts[1].gen /\ End(t2[1]) = End(ts[1]) /\ Len(t2) >= Len(ts)
  BY <1>1, KinTables
<1> QED  BY <1>1, <1>2 DEF AtCut

-----------------------------------------------------------------------------
(* A memtable is frozen                                                    *)

(* The last of the memtables ts is frozen at c, owing an append or not,    *)
(* and its trigger is sent.                                                *)
Froze(ts, t2, q, q2) ==
  /\ Opened(ts, t2)
  /\ \A i \in 1..Len(ts) - 1 : t2[i] = ts[i]
  /\ t2[Len(ts)].cell \in {"none", "wait"}
  /\ t2[Len(ts)].cell = "wait" => q2 = Append(q, ts[Len(ts)].gen)
  /\ q2 = q \/ q2 = Append(q, ts[Len(ts)].gen)

(* A freeze that owes an append asks for it.                               *)
LEMMA FrozeOwned ==
  ASSUME NEW ts, NEW t2, NEW q \in Seq(Nat), NEW q2, NEW a, NEW l, TabTyped(ts), TabTyped(t2),
         Froze(ts, t2, q, q2), QueueOk(ts, q), Continues(l, ts)
  PROVE  /\ AtOk(l, ts) => AtOk(l, t2)
         /\ Owned(ts, q, a) => Owned(t2, q2, a)
         /\ InTurn(q) => InTurn(q2)
<1> DEFINE k == Len(ts)
           g == ts[k].gen
<1>1. k \in Nat /\ k >= 1 /\ k \in 1..k /\ g \in Nat
  BY DEF TabTyped
<1>2. /\ Len(t2) = k + 1 /\ (\A i \in 1..k - 1 : t2[i] = ts[i]) /\ t2[k].gen = g
      /\ t2[k].cell \in {"none", "wait"}
      /\ t2[k].cell = "wait" => q2 = Append(q, g)
      /\ q2 = q \/ q2 = Append(q, g)
  BY <1>1 DEF Froze, Opened
<1>3. Len(q) \in Nat /\ \A x \in 1..Len(q) : q[x] \in Nat
  OBVIOUS
<1>4. /\ Append(q, g) \in Seq(Nat) /\ Len(Append(q, g)) = Len(q) + 1
      /\ \A i \in 1..Len(q) : Append(q, g)[i] = q[i]
      /\ Append(q, g)[Len(q) + 1] = g
  BY <1>1, WithLast
<1>5. \A i \in 1..Len(t2) - 1 : (i \in 1..k - 1 /\ t2[i] = ts[i]) \/ i = k
  <2> HIDE DEF k, g
  <2>1. ASSUME NEW i \in 1..Len(t2) - 1 PROVE i \in 1..k - 1 \/ i = k
    BY <1>1, <1>2
  <2> QED  BY <1>2, <2>1
<1> HIDE DEF k, g
<1>6. ASSUME AtOk(l, ts) PROVE AtOk(l, t2)
  <2> SUFFICES ASSUME NEW i \in 1..Len(t2) - 1, NEW p \in DOMAIN l, Data(l[p]), p <= t2[i].at
               PROVE  l[p].gen <= t2[i].gen
    BY DEF AtOk
  <2>1. CASE i \in 1..k - 1 /\ t2[i] = ts[i]
    BY <1>6, <2>1 DEF AtOk, k
  <2>2. CASE i = k
    <3>1. l[p].gen <= g
      BY DEF Continues, g, k
    <3> QED  BY <1>2, <2>2, <3>1
  <2> QED  BY <1>5, <2>1, <2>2
<1>7. ASSUME Owned(ts, q, a) PROVE Owned(t2, q2, a)
  <2> SUFFICES ASSUME NEW i \in 1..Len(t2) - 1
               PROVE  /\ t2[i].cell # "failed"
                      /\ t2[i].cell = "wait" =>
                           \/ \E x \in 1..Len(q2) : q2[x] = t2[i].gen
                           \/ a.phase # "idle" /\ a.exact = TRUE /\ a.gen = t2[i].gen
    BY DEF Owned
  <2>1. ASSUME NEW y, \E x \in 1..Len(q) : q[x] = y PROVE \E x \in 1..Len(q2) : q2[x] = y
    <3>1. PICK x \in 1..Len(q) : q[x] = y
      BY <2>1
    <3>2. CASE q2 = q
      BY <3>1, <3>2
    <3>3. CASE q2 = Append(q, g)
      <4>1. x \in 1..Len(q2) /\ q2[x] = q[x]
        BY <1>3, <1>4, <3>3
      <4> QED  BY <3>1, <4>1
    <3> QED  BY <1>2, <3>2, <3>3
  <2>2. CASE i \in 1..k - 1 /\ t2[i] = ts[i]
    <3>1. /\ ts[i].cell # "failed"
          /\ ts[i].cell = "wait" =>
               \/ \E x \in 1..Len(q) : q[x] = ts[i].gen
               \/ a.phase # "idle" /\ a.exact = TRUE /\ a.gen = ts[i].gen
      BY <1>7, <2>2 DEF Owned, k
    <3> QED  BY <2>1, <2>2, <3>1
  <2>3. CASE i = k
    <3>1. ASSUME t2[k].cell = "wait" PROVE \E x \in 1..Len(q2) : q2[x] = g
      <4>1. Len(q) + 1 \in 1..Len(q2) /\ q2[Len(q) + 1] = g
        BY <1>2, <1>3, <1>4, <3>1
      <4> QED  BY <4>1
    <3> QED  BY <1>2, <2>3, <3>1
  <2> QED  BY <1>5, <2>2, <2>3
<1>8. ASSUME InTurn(q) PROVE InTurn(q2)
  <2>1. CASE q2 = q
    BY <1>8, <2>1
  <2>2. CASE q2 = Append(q, g)
    <3> SUFFICES ASSUME NEW x \in 1..Len(q2), NEW y \in 1..Len(q2), x < y, q2[x] # Tick, q2[y] # Tick
                 PROVE  q2[x] < q2[y]
      BY DEF InTurn
    <3>1. x \in 1..Len(q) /\ q2[x] = q[x]
      BY <1>3, <1>4, <2>2
    <3>2. CASE y \in 1..Len(q)
      BY <1>4, <1>8, <2>2, <3>1, <3>2 DEF InTurn
    <3>3. CASE y \notin 1..Len(q)
      <4>1. y = Len(q) + 1 /\ q2[y] = g
        BY <1>3, <1>4, <2>2, <3>3
      <4>2. PICK i \in 1..k - 1 : ts[i].gen = q[x]
        BY <3>1 DEF QueueOk, Waiting, k
      <4>3. i \in 1..k /\ i < k
        BY <1>1, <4>2
      <4>4. ts[i].gen < ts[k].gen
        BY <1>1, <4>3 DEF TabTyped, k
      <4> QED  BY <3>1, <4>1, <4>2, <4>4 DEF g
    <3> QED  BY <3>2, <3>3
  <2> QED  BY <1>2, <2>1, <2>2
<1> QED  BY <1>6, <1>7, <1>8


(* What is true of an open writer stays true when a memtable is frozen.    *)
LEMMA FreezeKeeps ==
  ASSUME NEW l, LogTyped(l), NEW m, NEW ts, NEW t2, TabTyped(ts), TabTyped(t2),
         NEW q \in Seq(Nat), NEW q2, Froze(ts, t2, q, q2), QueueOk(ts, q),
         NEW a, NEW d \in Nat, AppendOk(ts, a, d), NEW p, Basis(l, ts, a, d)
  PROVE  /\ Basis(l, t2, a, d)
         /\ Serves(l, m, ts, q, a, d, p) => Serves(l, m, t2, q2, a, d, p)
         /\ \A x, e : Sends(ts, a, d, x, e) => Sends(t2, a, d, x, e)
<1>1. Kin(ts, t2)
  BY DEF Froze, Kin
<1>2. \A n : Logged(l, ts, n) => Logged(l, t2, n)
  BY <1>1, KinLogged
<1>3. Basis(l, t2, a, d)
  <2>1. Numbered(t2, d)
    BY <1>1, KinNumbered DEF Basis
  <2>2. ASSUME a.phase = "appended", NEW n \in Nat, UpTo(t2, a, n) PROVE Logged(l, t2, n)
    <3>1. UpTo(ts, a, n)
      BY <1>1, <2>2, KinAppend DEF Sending
    <3> QED  BY <1>2, <2>2, <3>1 DEF Basis
  <2> QED  BY <1>2, <2>1, <2>2 DEF Basis
<1>4. ASSUME Serves(l, m, ts, q, a, d, p) PROVE Serves(l, m, t2, q2, a, d, p)
  <2>1. Continues(l, ts) /\ AtOk(l, ts) /\ AtCut(m, ts, d) /\ Owned(ts, q, a) /\ InTurn(q)
        /\ Begun(ts, a, d) /\ Landed(l, p, ts, a, d)
    BY <1>4 DEF Serves
  <2>2. Continues(l, t2)
    BY <1>1, <2>1, KinLogged
  <2>3. AtOk(l, t2) /\ Owned(t2, q2, a) /\ InTurn(q2)
    BY <2>1, FrozeOwned
  <2>4. AtCut(m, t2, d)
    BY <1>1, <2>1, KinCut
  <2>5. Begun(t2, a, d)
    <3>1. CASE Sending(a)
      BY <1>1, <2>1, <3>1, KinAppend
    <3>2. CASE ~Sending(a)
      BY <3>2 DEF Begun
    <3> QED  BY <3>1, <3>2
  <2>6. Landed(l, p, t2, a, d)
    BY <1>1, <2>1, KinLanded
  <2> QED  BY <2>2, <2>3, <2>4, <2>5, <2>6 DEF Serves
<1>5. \A x, e : Sends(ts, a, d, x, e) => Sends(t2, a, d, x, e)
  BY <1>1, KinAppend
<1> QED  BY <1>3, <1>4, <1>5

(* A trigger that names no memtable changes nothing.                       *)
LEMMA TickKeeps ==
  ASSUME NEW q \in Seq(Nat), NEW ts, NEW a
  PROVE  /\ Owned(ts, q, a) => Owned(ts, Append(q, Tick), a)
         /\ InTurn(q) => InTurn(Append(q, Tick))
<1> DEFINE q2 == Append(q, Tick)
<1>1. /\ Len(q) \in Nat /\ Len(q2) = Len(q) + 1 /\ \A i \in 1..Len(q) : q2[i] = q[i]
      /\ q2[Len(q) + 1] = Tick
  BY WithLast DEF Tick
<1> HIDE DEF q2
<1>2. \A i \in 1..Len(q2) : i \in 1..Len(q) \/ q2[i] = Tick
  BY <1>1
<1>3. \A i \in 1..Len(q) : i \in 1..Len(q2)
  BY <1>1
<1>4. InTurn(q) => InTurn(q2)
  BY <1>1, <1>2 DEF InTurn
<1>5. Owned(ts, q, a) => Owned(ts, q2, a)
  BY <1>1, <1>3 DEF Owned
<1> QED  BY <1>4, <1>5 DEF q2

-----------------------------------------------------------------------------
(* A batch is put                                                          *)

(* The last memtable holds one more batch, b.                              *)
Longer(ts, t2, b) ==
  /\ Len(t2) = Len(ts)
  /\ \A i \in 1..Len(ts) - 1 : t2[i] = ts[i]
  /\ t2[Len(ts)].gen = ts[Len(ts)].gen /\ t2[Len(ts)].off = ts[Len(ts)].off
  /\ t2[Len(ts)].rows = Append(ts[Len(ts)].rows, b)

(* A put changes the active memtable only.                                 *)
LEMMA LongerTables ==
  ASSUME NEW ts, NEW t2, TabTyped(ts), NEW b \in Nat, Longer(ts, t2, b)
  PROVE  \A i \in 1..Len(ts) :
           /\ t2[i].gen = ts[i].gen /\ t2[i].off = ts[i].off
           /\ Len(t2[i].rows) \in Nat /\ Len(ts[i].rows) <= Len(t2[i].rows)
           /\ t2[i].rows \in Seq(Nat)
           /\ \A x \in 1..Len(ts[i].rows) : t2[i].rows[x] = ts[i].rows[x]
           /\ \A x \in 1..Len(t2[i].rows) : x \notin 1..Len(ts[i].rows) =>
                i = Len(ts) /\ x = Len(ts[i].rows) + 1 /\ t2[i].rows[x] = b
           /\ i # Len(ts) => t2[i] = ts[i]
<1> DEFINE k == Len(ts)
<1>1. k \in Nat /\ k >= 1 /\ k \in 1..k
  BY DEF TabTyped
<1> SUFFICES ASSUME NEW i \in 1..k
             PROVE  /\ t2[i].gen = ts[i].gen /\ t2[i].off = ts[i].off
                    /\ Len(t2[i].rows) \in Nat /\ Len(ts[i].rows) <= Len(t2[i].rows)
                    /\ t2[i].rows \in Seq(Nat)
                    /\ \A x \in 1..Len(ts[i].rows) : t2[i].rows[x] = ts[i].rows[x]
                    /\ \A x \in 1..Len(t2[i].rows) : x \notin 1..Len(ts[i].rows) =>
                         i = k /\ x = Len(ts[i].rows) + 1 /\ t2[i].rows[x] = b
                    /\ i # k => t2[i] = ts[i]
  OBVIOUS
<1> DEFINE s == ts[i].rows
           r == t2[i].rows
<1>2. s \in Seq(Nat) /\ Len(s) \in Nat
  BY DEF TabTyped
<1>3. CASE i = k
  <2>1. r = Append(s, b) /\ t2[i].gen = ts[i].gen /\ t2[i].off = ts[i].off
    BY <1>3 DEF Longer
  <2> HIDE DEF s, r
  <2>2. /\ r \in Seq(Nat) /\ Len(r) = Len(s) + 1 /\ (\A x \in 1..Len(s) : r[x] = s[x])
        /\ r[Len(s) + 1] = b
    BY <1>2, <2>1, WithLast
  <2>3. /\ Len(r) \in Nat /\ Len(s) <= Len(r)
        /\ \A x \in 1..Len(r) : x \notin 1..Len(s) => x = Len(s) + 1
    BY <1>2, <2>2
  <2> QED  BY <1>3, <2>1, <2>2, <2>3 DEF s, r
<1>4. CASE i # k
  <2>1. i \in 1..k - 1
    BY <1>1, <1>4
  <2>2. t2[i] = ts[i]
    BY <2>1 DEF Longer
  <2> QED  BY <1>2, <1>4, <2>2
<1> QED  BY <1>3, <1>4

(* Up to n, which is not past the end, nothing has changed.                *)
LEMMA LongerPrefix ==
  ASSUME NEW ts, NEW t2, TabTyped(ts), NEW b \in Nat, Longer(ts, t2, b),
         NEW n \in Nat, n <= End(ts[Len(ts)])
  PROVE  \A i \in 1..Len(ts) : Prefix(t2[i], n) = Prefix(ts[i], n)
<1> SUFFICES ASSUME NEW i \in 1..Len(ts) PROVE Prefix(t2[i], n) = Prefix(ts[i], n)
  OBVIOUS
<1> DEFINE s == ts[i].rows
           r == t2[i].rows
           o == ts[i].off
           c == Len(s)
<1>1. /\ t2[i].off = o /\ Len(r) \in Nat /\ c <= Len(r) /\ c \in Nat /\ o \in Nat
      /\ \A x \in 1..c : r[x] = s[x]
      /\ \A x \in 1..Len(r) : x \notin 1..c => i = Len(ts) /\ x = c + 1
  <2>1. c \in Nat /\ o \in Nat
    BY DEF TabTyped
  <2> QED  BY <2>1, LongerTables
<1>2. \A x \in 1..Len(r) : o + x <= n => x \in 1..c
  <2> SUFFICES ASSUME NEW x \in 1..Len(r), x \notin 1..c PROVE ~(o + x <= n)
    OBVIOUS
  <2>1. x = c + 1 /\ n <= o + c
    BY <1>1 DEF End
  <2> HIDE DEF o, c
  <2> QED  BY <1>1, <2>1
<1>3. \A x \in 1..c : x \in 1..Len(r)
  <2> HIDE DEF c, r
  <2> QED  BY <1>1
<1>4. \A y : y \in Prefix(t2[i], n) <=> \E x \in 1..Len(r) : o + x <= n /\ r[x] = y
  <2>1. \A y : y \in Prefix(t2[i], n) <=>
                \E x \in 1..Len(t2[i].rows) : t2[i].off + x <= n /\ t2[i].rows[x] = y
    BY InPrefix
  <2>2. t2[i].off = o
    BY <1>1
  <2> HIDE DEF o
  <2> QED  BY <2>1, <2>2
<1>5. \A y : y \in Prefix(ts[i], n) <=> \E x \in 1..c : o + x <= n /\ s[x] = y
  BY InPrefix
<1> HIDE DEF s, r, o, c
<1>6. \A y : y \in Prefix(t2[i], n) <=> y \in Prefix(ts[i], n)
  BY <1>1, <1>2, <1>3, <1>4, <1>5
<1> QED  BY <1>6

(* Its batch gets the next number.                                         *)
LEMMA LongerNumbered ==
  ASSUME NEW ts, NEW t2, TabTyped(ts), TabTyped(t2), NEW b \in Nat, Longer(ts, t2, b),
         NEW d \in Nat, Numbered(ts, d)
  PROVE  Numbered(t2, d)
<1> DEFINE k == Len(ts)
<1>1. k \in Nat /\ k >= 1 /\ k \in 1..k /\ 1 \in 1..k /\ Len(t2) = k
  BY DEF TabTyped, Longer
<1>2. \A i \in 1..k : /\ t2[i].gen = ts[i].gen /\ t2[i].off = ts[i].off
                      /\ Len(t2[i].rows) \in Nat /\ Len(ts[i].rows) <= Len(t2[i].rows)
                      /\ (i # k => t2[i] = ts[i])
  BY LongerTables
<1>3. End(ts[k]) \in Nat /\ End(t2[k]) \in Nat /\ End(ts[k]) <= End(t2[k])
  <2> DEFINE o == ts[k].off
             x == Len(ts[k].rows)
             y == Len(t2[k].rows)
  <2>1. o \in Nat /\ x \in Nat /\ y \in Nat /\ x <= y /\ t2[k].off = o
    BY <1>1, <1>2 DEF TabTyped
  <2> HIDE DEF x, y, o
  <2>2. o + x \in Nat /\ o + y \in Nat /\ o + x <= o + y
    BY <2>1
  <2>3. End(ts[k]) = o + x /\ End(t2[k]) = o + y
    BY <2>1 DEF End, o, x, y
  <2> QED  BY <2>2, <2>3
<1>4. \A i \in 1..k : t2[i].gen = t2[1].gen + (i - 1)
  BY <1>1, <1>2 DEF Numbered
<1>5. ASSUME NEW i \in 1..k, NEW j \in 1..k, i < j PROVE End(t2[i]) <= t2[j].off
  <2>1. i # k
    BY <1>1, <1>5
  <2> QED  BY <1>2, <1>5, <2>1 DEF Numbered
<1>6. ASSUME NEW i \in 1..k - 1 PROVE t2[i + 1].off = End(t2[i])
  <2>1. i \in 1..k /\ i + 1 \in 1..k /\ i # k
    BY <1>1
  <2> QED  BY <1>2, <2>1 DEF Numbered
<1>7. t2[1].off <= d /\ d <= End(t2[k])
  <2>1. ts[1].off <= d /\ d <= End(ts[k])
    BY DEF Numbered
  <2> QED  BY <1>1, <1>2, <1>3, <2>1
<1> QED  BY <1>1, <1>4, <1>5, <1>6, <1>7 DEF Numbered

(* A part of a sequence, and of a longer one.                              *)
LEMMA SamePart ==
  ASSUME NEW s \in Seq(Nat), NEW r \in Seq(Nat), NEW o \in Nat, NEW z \in Nat, o >= 1,
         z <= Len(s), \A x \in 1..Len(s) : r[x] = s[x]
  PROVE  SubSeq(r, o, z) = SubSeq(s, o, z)
<1> DEFINE c == Len(s)
<1>1. c \in Nat /\ z <= c
  OBVIOUS
<1>2. \A y \in 1..(z - o + 1) : y + o - 1 \in 1..c
  <2> HIDE DEF c
  <2> QED  BY <1>1
<1>3. \A y \in 1..(z - o + 1) : r[y + o - 1] = s[y + o - 1]
  BY <1>2
<1>4. SubSeq(r, o, z) = [y \in 1..(z - o + 1) |-> r[y + o - 1]]
  OBVIOUS
<1>5. SubSeq(s, o, z) = [y \in 1..(z - o + 1) |-> s[y + o - 1]]
  OBVIOUS
<1>6. [y \in 1..(z - o + 1) |-> r[y + o - 1]] = [y \in 1..(z - o + 1) |-> s[y + o - 1]]
  BY <1>3
<1> QED  BY <1>4, <1>5, <1>6

(* What is in the log stays what it was, and the memtables continue it.    *)
LEMMA LongerKeeps ==
  ASSUME NEW l, LogTyped(l), NEW m, NEW ts, NEW t2, TabTyped(ts), TabTyped(t2), NEW b \in Nat,
         Longer(ts, t2, b), \A p \in DOMAIN l : \A c \in Rows(l[p]) : c < b,
         \A i \in 1..Len(ts) : \A c \in Rows(ts[i]) : c < b,
         NEW q, NEW a, a.end \in Nat, NEW d \in Nat, AppendOk(ts, a, d), NEW p,
         \A i \in 1..Len(ts) - 1 : t2[i] = ts[i], Basis(l, ts, a, d)
  PROVE  /\ Basis(l, t2, a, d)
         /\ Serves(l, m, ts, q, a, d, p) => Serves(l, m, t2, q, a, d, p)
         /\ Begun(ts, a, d) /\ Sending(a) =>
              \A x, e : Sends(ts, a, d, x, e) => Sends(t2, a, d, x, e)
<1> DEFINE k == Len(ts)
<1>1. k \in Nat /\ k >= 1 /\ k \in 1..k /\ 1 \in 1..k /\ Len(t2) = k
  BY DEF TabTyped, Longer
<1>2. \A i \in 1..k : /\ t2[i].gen = ts[i].gen /\ t2[i].off = ts[i].off
                      /\ (i # k => t2[i] = ts[i])
  BY LongerTables
<1>3. Numbered(ts, d) /\ Numbered(t2, d) /\ d <= End(ts[k])
  BY LongerNumbered DEF Basis, Numbered
<1>4. \A n \in Nat : n <= End(ts[k]) => \A i \in 1..k : Prefix(t2[i], n) = Prefix(ts[i], n)
  BY LongerPrefix
<1>5. \A n : UpTo(t2, a, n) => UpTo(ts, a, n)
  BY <1>1, <1>2 DEF UpTo
<1>6. ASSUME Sending(a), NEW n, UpTo(ts, a, n) PROVE n \in Nat /\ n <= End(ts[k])
  <2>1. PICK i \in 1..k : ts[i].gen = a.gen /\ n = ts[i].off + a.end
    BY <1>6 DEF UpTo
  <2>2. PICK j \in 1..k : ts[j].gen = a.gen /\ a.end <= Len(ts[j].rows)
    BY <1>6 DEF AppendOk, Sending
  <2>3. i = j
    BY <2>1, <2>2, OneTable
  <2> DEFINE o == ts[i].off
             c == Len(ts[i].rows)
             z == a.end
             y == ts[k].off
             x == Len(ts[k].rows)
  <2>4. o \in Nat /\ c \in Nat /\ z \in Nat /\ z <= c /\ n = o + z /\ y \in Nat /\ x \in Nat
    BY <1>1, <2>1, <2>2, <2>3 DEF TabTyped
  <2>5. i = k \/ o + c <= y
    <3>1. i = k \/ i < k
      BY <1>1
    <3>2. i < k => End(ts[i]) <= ts[k].off
      BY <1>1, <1>3 DEF Numbered
    <3> QED  BY <3>1, <3>2 DEF End
  <2>6. i = k => o = y /\ c = x
    OBVIOUS
  <2>7. End(ts[k]) = y + x
    BY DEF End
  <2> HIDE DEF o, c, z, x, y
  <2>8. n \in Nat /\ n <= y + x
    <3>1. CASE i = k
      BY <2>4, <2>6, <3>1
    <3>2. CASE o + c <= y
      BY <2>4, <3>2
    <3> QED  BY <2>5, <3>1, <3>2
  <2> QED  BY <2>7, <2>8
<1>7. Basis(l, t2, a, d)
  <2>1. Logged(l, t2, d)
    BY <1>1, <1>3, <1>4 DEF Basis, Logged
  <2>2. ASSUME a.phase = "appended", NEW n \in Nat, UpTo(t2, a, n) PROVE Logged(l, t2, n)
    <3>1. UpTo(ts, a, n) /\ n <= End(ts[k])
      BY <1>5, <1>6, <2>2 DEF Sending
    <3>2. Logged(l, ts, n)
      BY <2>2, <3>1 DEF Basis
    <3> QED  BY <1>1, <1>4, <3>1, <3>2 DEF Logged
  <2> QED  BY <1>3, <2>1, <2>2 DEF Basis
<1>8. ASSUME NEW n \in Nat, n <= End(ts[k]), Holds(l, ts, n) PROVE Holds(l, t2, n)
  BY <1>1, <1>2, <1>4, <1>8 DEF Holds
<1>9. \A i \in 1..k : /\ \A c \in Rows(t2[i]) : c \in Rows(ts[i]) \/ (i = k /\ c = b)
                      /\ t2[i].rows \in Seq(Nat) /\ ts[i].rows \in Seq(Nat)
  <2> SUFFICES ASSUME NEW i \in 1..k
               PROVE  /\ \A c \in Rows(t2[i]) : c \in Rows(ts[i]) \/ (i = k /\ c = b)
                      /\ t2[i].rows \in Seq(Nat) /\ ts[i].rows \in Seq(Nat)
    OBVIOUS
  <2>1. ts[i].rows \in Seq(Nat) /\ t2[i].rows \in Seq(Nat)
    BY <1>1 DEF TabTyped
  <2>2. /\ \A x \in 1..Len(ts[i].rows) : t2[i].rows[x] = ts[i].rows[x]
        /\ \A x \in 1..Len(t2[i].rows) : x \notin 1..Len(ts[i].rows) => i = k /\ t2[i].rows[x] = b
    BY LongerTables
  <2>3. \A c : c \in Rows(ts[i]) <=> \E x \in 1..Len(ts[i].rows) : ts[i].rows[x] = c
    BY <2>1, RowsOf
  <2>4. \A c : c \in Rows(t2[i]) <=> \E x \in 1..Len(t2[i].rows) : t2[i].rows[x] = c
    BY <2>1, RowsOf
  <2> QED  BY <2>1, <2>2, <2>3, <2>4
<1>10. ASSUME Continues(l, ts) PROVE Continues(l, t2)
  <2>1. ASSUME NEW i \in 1..k PROVE Rising(t2[i].rows)
    <3>1. CASE i # k
      BY <1>2, <1>10, <3>1 DEF Continues
    <3>2. CASE i = k
      <4> DEFINE s == ts[k].rows
                 r == t2[k].rows
      <4>1. /\ \A x \in 1..Len(s) : r[x] = s[x]
            /\ \A x \in 1..Len(r) : x \notin 1..Len(s) => x = Len(s) + 1 /\ r[x] = b
        <5>1. \A j \in 1..k :
                /\ \A x \in 1..Len(ts[j].rows) : t2[j].rows[x] = ts[j].rows[x]
                /\ \A x \in 1..Len(t2[j].rows) : x \notin 1..Len(ts[j].rows) =>
                     x = Len(ts[j].rows) + 1 /\ t2[j].rows[x] = b
          BY LongerTables
        <5> HIDE DEF k
        <5> QED  BY <1>1, <5>1
      <4>2. \A x \in 1..Len(s) : s[x] < b
        BY <1>1, <1>9, RowsOf
      <4>3. Rising(s) /\ Len(s) \in Nat /\ Len(r) \in Nat
        BY <1>1, <1>9, <1>10 DEF Continues, TabTyped
      <4> HIDE DEF s, r
      <4> SUFFICES ASSUME NEW x \in 1..Len(r), NEW y \in 1..Len(r), x < y PROVE r[x] < r[y]
        BY <3>2 DEF Rising, r
      <4>4. x \in 1..Len(s)
        <5> SUFFICES ASSUME x \notin 1..Len(s) PROVE FALSE
          OBVIOUS
        <5>1. x = Len(s) + 1
          BY <4>1
        <5>2. y \notin 1..Len(s)
          BY <4>3, <5>1
        <5>3. y = Len(s) + 1
          BY <4>1, <5>2
        <5> QED  BY <4>3, <5>1, <5>3
      <4>5. CASE y \in 1..Len(s)
        BY <4>1, <4>3, <4>4, <4>5 DEF Rising
      <4>6. CASE y \notin 1..Len(s)
        BY <4>1, <4>2, <4>4, <4>6
      <4> QED  BY <4>5, <4>6
    <3> QED  BY <3>1, <3>2
  <2>2. ASSUME NEW i \in 1..k, NEW j \in 1..k, i < j PROVE Below(Rows(t2[i]), Rows(t2[j]))
    <3>1. i # k /\ t2[i] = ts[i]
      BY <1>1, <1>2, <2>2
    <3>2. Below(Rows(ts[i]), Rows(ts[j]))
      BY <1>10, <2>2 DEF Continues
    <3>3. \A c \in Rows(ts[i]) : c < b
      OBVIOUS
    <3> QED  BY <1>9, <3>1, <3>2, <3>3 DEF Below
  <2>3. ASSUME NEW s \in DOMAIN l, Data(l[s])
        PROVE  /\ l[s].gen <= t2[k].gen
               /\ \A i \in 1..k : l[s].gen < t2[i].gen => Below(Rows(l[s]), Rows(t2[i]))
    <3>1. l[s].gen <= t2[k].gen
      BY <1>1, <1>2, <1>10, <2>3 DEF Continues
    <3>2. ASSUME NEW i \in 1..k, l[s].gen < t2[i].gen PROVE Below(Rows(l[s]), Rows(t2[i]))
      <4>1. Below(Rows(l[s]), Rows(ts[i]))
        BY <1>2, <1>10, <2>3, <3>2 DEF Continues
      <4>2. \A c \in Rows(l[s]) : c < b
        OBVIOUS
      <4> QED  BY <1>9, <4>1, <4>2 DEF Below
    <3> QED  BY <3>1, <3>2
  <2> QED  BY <1>1, <2>1, <2>2, <2>3 DEF Continues
<1>11. ASSUME Begun(ts, a, d) PROVE Begun(t2, a, d)
  BY <1>1, <1>2, <1>11 DEF Begun
<1>12. ASSUME Landed(l, p, ts, a, d) PROVE Landed(l, p, t2, a, d)
  <2>1. CASE Ahead(l, p) \/ a.phase = "appended"
    <3>1. Sending(a)
      BY <1>12, <2>1, AheadSends
    <3>2. \A n \in Nat : UpTo(ts, a, n) => Holds(l, ts, n)
      BY <1>12, <2>1 DEF Landed
    <3>3. \A n \in Nat : UpTo(t2, a, n) => Holds(l, t2, n)
      BY <1>5, <1>6, <1>8, <3>1, <3>2
    <3> QED  BY <1>12, <2>1, <3>3 DEF Landed
  <2>2. CASE ~(Ahead(l, p) \/ a.phase = "appended")
    <3>1. Holds(l, t2, d)
      BY <1>3, <1>8, <1>12, <2>2 DEF Landed
    <3> QED  BY <1>12, <2>2, <3>1 DEF Landed
  <2> QED  BY <2>1, <2>2
<1>13. ASSUME Serves(l, m, ts, q, a, d, p) PROVE Serves(l, m, t2, q, a, d, p)
  <2>1. Continues(l, ts) /\ AtOk(l, ts) /\ AtCut(m, ts, d) /\ Owned(ts, q, a) /\ InTurn(q)
        /\ Begun(ts, a, d) /\ Landed(l, p, ts, a, d)
    BY <1>13 DEF Serves
  <2>2. AtOk(l, t2)
    BY <1>1, <2>1 DEF AtOk
  <2>3. Owned(t2, q, a)
    BY <1>1, <2>1 DEF Owned
  <2>4. AtCut(m, t2, d)
    <3>1. Len(ts) >= 2 => t2[1] = ts[1]
      BY <1>1, <1>2
    <3> QED  BY <1>1, <1>2, <2>1, <3>1 DEF AtCut
  <2> QED  BY <1>10, <1>11, <1>12, <2>1, <2>2, <2>3, <2>4 DEF Serves
<1>14. ASSUME Begun(ts, a, d), Sending(a), NEW x, NEW e, Sends(ts, a, d, x, e)
       PROVE  Sends(t2, a, d, x, e)
  <2>1. PICK i \in 1..k : ts[i].gen = a.gen /\ e.rows = Sent(ts[i], d, a.end)
    BY <1>14 DEF Sends
  <2>2. ts[i].off <= d
    BY <1>14, <2>1 DEF Begun
  <2>3. a.end <= Len(ts[i].rows)
    <3>1. PICK j \in 1..k : ts[j].gen = a.gen /\ a.end <= Len(ts[j].rows)
      BY <1>14 DEF AppendOk, Sending
    <3>2. i = j
      BY <2>1, <3>1, OneTable
    <3> QED  BY <3>1, <3>2
  <2>4. Sent(t2[i], d, a.end) = Sent(ts[i], d, a.end)
    <3> DEFINE s == ts[i].rows
               r == t2[i].rows
               o == d - ts[i].off + 1
               z == a.end
    <3>1. /\ s \in Seq(Nat) /\ r \in Seq(Nat) /\ Len(s) \in Nat /\ z \in Nat /\ z <= Len(s)
          /\ \A x2 \in 1..Len(s) : r[x2] = s[x2]
      <4>1. s \in Seq(Nat) /\ r \in Seq(Nat) /\ Len(s) \in Nat
        BY <1>9 DEF TabTyped
      <4>2. \A x2 \in 1..Len(s) : r[x2] = s[x2]
        BY LongerTables
      <4> QED  BY <2>3, <4>1, <4>2
    <3>2. o \in Nat /\ o >= 1
      <4> DEFINE f == ts[i].off
      <4>1. f \in Nat /\ f <= d
        BY <2>2 DEF TabTyped
      <4> HIDE DEF f
      <4>2. d - f + 1 \in Nat /\ d - f + 1 >= 1
        BY <4>1
      <4> QED  BY <4>2 DEF f
    <3>3. Sent(ts[i], d, z) = SubSeq(s, o, z) /\ Sent(t2[i], d, z) = SubSeq(r, o, z)
      BY <1>2 DEF Sent
    <3> HIDE DEF s, r, o, z
    <3>4. SubSeq(r, o, z) = SubSeq(s, o, z)
      BY <3>1, <3>2, SamePart
    <3> QED  BY <3>3, <3>4 DEF z
  <2>5. t2[i].gen = a.gen /\ i \in 1..Len(t2)
    BY <1>1, <1>2, <2>1
  <2> QED  BY <1>14, <2>1, <2>4, <2>5 DEF Sends
<1> QED  BY <1>7, <1>13, <1>14

(* Memtables are typed.                                                    *)
LEMMA TablesTyped ==
  ASSUME NEW m \in Nat, NEW ts \in Seq(MemTable(m)), NEW n, TablesOk(ts, n)
  PROVE  TabTyped(ts)
<1>1. \A i \in 1..Len(ts) : ts[i] \in MemTable(m)
  OBVIOUS
<1>2. \A i \in 1..Len(ts) : /\ ts[i].gen \in Nat /\ ts[i].off \in Nat /\ ts[i].at \in Nat
                            /\ ts[i].rows \in Seq(1..m)
  BY <1>1 DEF MemTable
<1>3. \A i \in 1..Len(ts) : ts[i].rows \in Seq(Nat) /\ Len(ts[i].rows) \in Nat
  BY <1>2, RowNumbers
<1>4. Len(ts) \in Nat /\ DOMAIN ts = 1..Len(ts)
  OBVIOUS
<1> QED  BY <1>2, <1>3, <1>4 DEF TabTyped, TablesOk

(* rotate_memtable.                                                        *)
LEMMA RotatedFroze ==
  ASSUME NEW w, NEW m \in Nat, NEW ts \in Seq(MemTable(m)), Len(ts) >= 1,
         covered[w] \in Nat, NEW q \in Seq(Nat)
  PROVE  Froze(ts, Rotated(w, ts), q, Triggered(w, ts, q))
<1> DEFINE z == Len(ts)
           old == ts[z]
           owes == Len(old.rows) > LocalEnd(old, durable[w])
           c == IF owes THEN "wait" ELSE "none"
           a == [old EXCEPT !.at = covered[w], !.cell = c]
           b == Table(old.gen + 1, End(old))
           t2 == Front(ts) \o <<a, b>>
           q2 == IF owes THEN Append(q, old.gen) ELSE q
<1>1. z \in Nat /\ z >= 1 /\ z \in 1..z /\ Last(ts) = old
  BY DEF Last
<1>2. /\ old \in MemTable(m) /\ old.gen \in Nat /\ old.off \in Nat /\ old.rows \in Seq(1..m)
      /\ Len(old.rows) \in Nat
  <2>1. old \in MemTable(m)
    BY <1>1
  <2>2. old.gen \in Nat /\ old.off \in Nat /\ old.rows \in Seq(1..m)
    BY <2>1 DEF MemTable
  <2> QED  BY <2>1, <2>2
<1>3. c \in Cells /\ c \in {"none", "wait"} /\ (c = "wait" => owes)
  BY DEF Cells
<1>4. /\ a \in MemTable(m) /\ a.gen = old.gen /\ a.off = old.off /\ a.rows = old.rows
      /\ a.cell = c
  <2> HIDE DEF c
  <2> QED  BY <1>2, <1>3 DEF MemTable
<1>5. b \in MemTable(m) /\ b.gen = old.gen + 1 /\ b.rows = <<>> /\ b.off = End(old)
  <2> DEFINE g == old.gen + 1
             o == End(old)
             r == <<>>
  <2>1. g \in Nat /\ o \in Nat /\ r \in Seq(1..m)
    <3>1. g \in Nat /\ o \in Nat
      <4> HIDE DEF old
      <4>1. old.off + Len(old.rows) \in Nat /\ old.gen + 1 \in Nat
        BY <1>2
      <4> QED  BY <4>1 DEF End
    <3>2. r \in Seq(1..m)
      OBVIOUS
    <3> QED  BY <3>1, <3>2
  <2>2. b = [gen |-> g, off |-> o, rows |-> r, at |-> 0, cell |-> "none"]
    BY DEF Table
  <2> HIDE DEF g, o, r, b
  <2>3. b \in MemTable(m) /\ b.gen = g /\ b.rows = r /\ b.off = o
    BY <2>1, <2>2 DEF MemTable, Cells
  <2> QED  BY <2>1, <2>3 DEF g, r, o
<1>6. Rotated(w, ts) = t2 /\ Triggered(w, ts, q) = q2
  BY <1>1 DEF Rotated, Triggered
<1>7. q2 = q \/ q2 = Append(q, old.gen)
  OBVIOUS
<1>8. c = "wait" => q2 = Append(q, old.gen)
  BY <1>3
<1> HIDE DEF a, b, c, q2
<1>9. /\ Len(t2) = z + 1 /\ (\A i \in 1..z - 1 : t2[i] = ts[i]) /\ t2[z] = a /\ t2[z + 1] = b
  BY <1>1, <1>4, <1>5, TwoForLast
<1> HIDE DEF t2
<1>10. \A i \in 1..z : t2[i].gen = ts[i].gen /\ t2[i].off = ts[i].off /\ t2[i].rows = ts[i].rows
  <2> SUFFICES ASSUME NEW i \in 1..z
               PROVE  t2[i].gen = ts[i].gen /\ t2[i].off = ts[i].off /\ t2[i].rows = ts[i].rows
    OBVIOUS
  <2>1. i \in 1..z - 1 \/ i = z
    BY <1>1
  <2>2. CASE i \in 1..z - 1
    BY <1>9, <2>2
  <2>3. CASE i = z
    BY <1>4, <1>9, <2>3
  <2> QED  BY <2>1, <2>2, <2>3
<1>11. Opened(ts, t2)
  BY <1>5, <1>9, <1>10 DEF Opened
<1>12. Froze(ts, t2, q, q2)
  BY <1>3, <1>4, <1>7, <1>8, <1>9, <1>11 DEF Froze
<1> QED  BY <1>6, <1>12

(* What w sends, it sends on while its append goes on with the same rows.  *)
LEMMA KeepsSending ==
  ASSUME NEW w \in Writers, NEW r, UNCHANGED <<pc, epoch>>, append'[w] = append[w],
         durable'[w] = durable[w], pos'[w] = pos[w], Repeats(w, r),
         \A x, e : Sends(tables[w], append[w], durable[w], x, e) =>
                   Sends(tables'[w], append[w], durable[w], x, e)
  PROVE  Repeats(w, r)'
BY DEF Repeats

(* force_freeze_active.                                                    *)
LEMMA FreezeWhole ==
  ASSUME Inv, Inv', Whole, NEW w \in Writers, Freeze(w)
  PROVE  Whole'
<1> DEFINE ts == tables[w]
           q == queue[w]
           m == put
           T == Rotated(w, ts)
           Q == Triggered(w, ts, q)
           a == append[w]
           d == durable[w]
           p == pos[w]
<1>1. /\ pc[w] = "open" /\ Active(w).rows # <<>>
      /\ tables' = [tables EXCEPT ![w] = T] /\ queue' = [queue EXCEPT ![w] = Q]
      /\ UNCHANGED <<wal, late, manifest, pc, epoch, base, pos, last, durable, covered, append,
                     flush, poisoned, put, acked>>
  BY DEF Freeze, store, opening, ghosts
<1>2. /\ m \in Nat /\ ts \in Seq(MemTable(m)) /\ Len(ts) >= 1 /\ q \in Seq(Nat)
      /\ covered[w] \in Nat /\ d \in Nat /\ QueueOk(ts, q) /\ AppendOk(ts, a, d)
      /\ LogTyped(wal) /\ TabTyped(ts)
  BY <1>1, AsIs, Typed, TypedTables, Serving
<1>3. Froze(ts, T, q, Q)
  <2> HIDE DEF ts, q, m
  <2> QED  BY <1>2, RotatedFroze
<1> HIDE DEF T, Q
<1>4. Shape /\ tables \in [Writers -> Seq(MemTable(put))] /\ queue \in [Writers -> Seq(Nat)]
  BY DEF Inv, Shape, WriterState
<1>5. /\ tables'[w] = T /\ queue'[w] = Q /\ append'[w] = a /\ durable'[w] = d /\ pos'[w] = p
      /\ \A u \in Writers \ {w} : Untouched(u)
  BY <1>1, <1>4 DEF Untouched, Same
<1>6. TabTyped(T)
  BY <1>5, WriterTypedNext DEF WriterFacts
<1>7. Basis(wal, ts, a, d) /\ (Able(w) => Serves(wal, manifest, ts, q, a, d, p))
  BY <1>1, ServingParts
<1>8. /\ Basis(wal, T, a, d)
      /\ Serves(wal, manifest, ts, q, a, d, p) => Serves(wal, manifest, T, Q, a, d, p)
      /\ \A x, e : Sends(ts, a, d, x, e) => Sends(T, a, d, x, e)
  <2> DEFINE l == wal
             k == manifest
  <2>1. LogTyped(l) /\ Basis(l, ts, a, d)
    BY <1>2, <1>7
  <2> HIDE DEF ts, q, a, d, p, l, k
  <2>2. /\ Basis(l, T, a, d)
        /\ Serves(l, k, ts, q, a, d, p) => Serves(l, k, T, Q, a, d, p)
        /\ \A x, e : Sends(ts, a, d, x, e) => Sends(T, a, d, x, e)
    BY <1>2, <1>3, <1>6, <2>1, FreezeKeeps
  <2> QED  BY <2>2 DEF l, k
<1>9. Able(w)' <=> Able(w)
  BY <1>1, AbleStays
<1>10. \A r \in late : Repeats(w, r) => Repeats(w, r)'
  BY <1>1, <1>5, <1>8, KeepsSending
<1>11. acked' \subseteq AllRows(wal)
  BY <1>1 DEF Whole, AckedOk
<1>12. /\ UNCHANGED <<wal, late, manifest>> /\ UNCHANGED <<pc, epoch, base, last>>
       /\ Able(w)' => Serves(wal, manifest, T, Q, a, d, p)
  BY <1>1, <1>7, <1>8, <1>9
<1> HIDE DEF ts, q, a, d
<1> QED  BY <1>1, <1>5, <1>8, <1>10, <1>11, <1>12, TaskStill

(* put_memtable_no_wait.                                                   *)
LEMMA PutWhole ==
  ASSUME Inv, Inv', Whole, NEW w \in Writers, Put(w)
  PROVE  Whole'
<1> DEFINE ts == tables[w]
           n  == put
           b  == put + 1
           t2 == [ts EXCEPT ![Len(ts)].rows = Append(@, b)]
           q  == queue[w]
           q2 == IF b \in Crossing THEN Append(q, Tick) ELSE q
           full == Len(Last(t2).rows) >= Capacity
           T == IF full THEN Rotated(w, t2) ELSE t2
           Q == IF full THEN Triggered(w, t2, q2) ELSE q2
           a == append[w]
           d == durable[w]
           p == pos[w]
           l == wal
           m == manifest
           f == flush[w]
           c == N
<1>1. /\ pc[w] = "open" /\ n < MaxBatches /\ Len(Active(w).rows) < Capacity
      /\ tables' = [tables EXCEPT ![w] = T] /\ queue' = [queue EXCEPT ![w] = Q] /\ put' = b
      /\ UNCHANGED <<wal, late, manifest, pc, epoch, base, pos, last, durable, covered, append,
                     flush, poisoned, acked>>
  BY DEF Put, store, opening
<1>2. /\ n \in Nat /\ ts \in Seq(MemTable(n)) /\ Len(ts) >= 1 /\ Len(ts) \in Nat /\ q \in Seq(Nat)
      /\ covered[w] \in Nat /\ d \in Nat /\ a \in Appending /\ QueueOk(ts, q)
      /\ TablesOk(ts, c) /\ FrozenOk(ts, d) /\ FlushOk(ts, f)
      /\ AppendOk(ts, a, d) /\ ExactOk(ts, q, a, d) /\ LogTyped(l) /\ TabTyped(ts) /\ a.end \in Nat
  BY <1>1, AsIs, Typed, TypedTables, Serving
<1>3. b \in Nat /\ n <= b /\ b \in 1..b
  <2>1. n \in Nat /\ b = n + 1
    BY <1>2
  <2> HIDE DEF n, b
  <2> QED  BY <2>1
<1>4. Len(Last(ts).rows) < Capacity
  BY <1>1 DEF Active
<1>5. /\ \A s \in DOMAIN l : \A x \in Rows(l[s]) : x < b
      /\ \A i \in 1..Len(ts) : \A x \in Rows(ts[i]) : x < b
  <2>1. \A x \in AllRows(wal) : x \in 1..put
    BY StoreTyped DEF StoreFacts
  <2>2. \A i \in 1..Len(tables[w]) : Rows(tables[w][i]) \subseteq 1..put
    BY WriterTyped DEF WriterFacts
  <2>3. \A x \in 1..put : x < put + 1
    BY <1>2
  <2>4. \A s \in DOMAIN wal : \A x \in Rows(wal[s]) : x \in AllRows(wal)
    BY InAllRows
  <2> QED  BY <2>1, <2>2, <2>3, <2>4
<1>6. Basis(l, ts, a, d) /\ (Able(w) => Serves(l, m, ts, q, a, d, p))
  BY <1>1, ServingParts
<1> HIDE DEF ts, n, q, a, d, f, c
<1>7. /\ t2 \in Seq(MemTable(b)) /\ TablesOk(t2, c) /\ AppendOk(t2, a, d) /\ QueueOk(t2, q)
      /\ ExactOk(t2, q, a, d) /\ Longer(ts, t2, b)
  <2> HIDE DEF b
  <2> DEFINE old == Last(ts)
             r == Append(old.rows, b)
             t == [old EXCEPT !.rows = r]
             g == t2
             k == Len(ts)
             S == MemTable(b)
  <2>1. old = ts[k] /\ old \in MemTable(n)
    BY <1>2 DEF Last
  <2>2. old \in MemTable(b) /\ old.rows \in Seq(1..b) /\ ts \in Seq(S)
    <3>1. old \in MemTable(b) /\ ts \in Seq(S)
      BY <1>2, <1>3, <2>1, MoreTables
    <3> QED  BY <3>1 DEF MemTable
  <2>3. g = [ts EXCEPT ![k] = t]
    BY <2>1
  <2> HIDE DEF old
  <2>4. r \in Seq(1..b) /\ Len(r) = Len(old.rows) + 1
    BY <1>3, <2>2
  <2> HIDE DEF r
  <2>5. /\ t \in MemTable(b) /\ t.gen = old.gen /\ t.off = old.off /\ t.at = old.at
        /\ Len(t.rows) = Len(old.rows) + 1 /\ t.cell = old.cell /\ t.rows = r
    BY <2>2, <2>4 DEF MemTable
  <2> HIDE DEF t, g
  <2>6. /\ g \in Seq(MemTable(b)) /\ TablesOk(g, c) /\ AppendOk(g, a, d) /\ QueueOk(g, q)
        /\ ExactOk(g, q, a, d)
    BY <1>2, <1>3, <1>4, <2>3, <2>5, RowAdded DEF old, k
  <2>7. Len(g) = k /\ g[k] = t /\ \A i \in 1..k - 1 : g[i] = ts[i]
    <3>1. k \in 1..k /\ t \in S /\ k \in Nat
      BY <1>2, <2>5
    <3> HIDE DEF S
    <3> DEFINE h == [ts EXCEPT ![k] = t]
    <3>2. Len(h) = Len(ts) /\ h[k] = t /\ \A i \in 1..Len(ts) : i # k => h[i] = ts[i]
      BY <2>2, <3>1, OneChanged
    <3> HIDE DEF h
    <3>3. \A i \in 1..k - 1 : i \in 1..Len(ts) /\ i # k
      BY <3>1
    <3> QED  BY <2>3, <3>2, <3>3 DEF h
  <2>8. Longer(ts, g, b)
    BY <2>1, <2>5, <2>7 DEF Longer, r, k
  <2> QED  BY <2>6, <2>8 DEF g
<1> HIDE DEF t2
<1>8. TabTyped(t2) /\ \A i \in 1..Len(ts) - 1 : t2[i] = ts[i]
  <2>1. TabTyped(t2)
    <3> HIDE DEF b
    <3> QED  BY <1>3, <1>7, TablesTyped
  <2> QED  BY <1>7, <2>1 DEF Longer
<1>9. /\ Basis(l, t2, a, d)
      /\ Serves(l, m, ts, q, a, d, p) => Serves(l, m, t2, q, a, d, p)
      /\ Begun(ts, a, d) /\ Sending(a) =>
           \A x, e : Sends(ts, a, d, x, e) => Sends(t2, a, d, x, e)
  <2> HIDE DEF b, l, m, p
  <2> QED  BY <1>2, <1>3, <1>5, <1>6, <1>7, <1>8, LongerKeeps
<1>10. /\ q2 \in Seq(Nat) /\ QueueOk(t2, q2)
       /\ Serves(l, m, t2, q, a, d, p) => Serves(l, m, t2, q2, a, d, p)
  <2>1. CASE q2 = q
    BY <1>2, <1>7, <2>1
  <2>2. CASE q2 = Append(q, Tick)
    <3>1. q2 \in Seq(Nat) /\ QueueOk(t2, q2)
      BY <1>2, <1>7, <2>2, TickAdded
    <3>2. Serves(l, m, t2, q, a, d, p) => Serves(l, m, t2, Append(q, Tick), a, d, p)
      BY <1>2, TickKeeps DEF Serves
    <3> QED  BY <2>2, <3>1, <3>2
  <2> QED  BY <2>1, <2>2
<1> HIDE DEF q2, b
<1>11. Shape /\ tables \in [Writers -> Seq(MemTable(put))] /\ queue \in [Writers -> Seq(Nat)]
  BY DEF Inv, Shape, WriterState
<1> HIDE DEF T, Q
<1>12. /\ tables'[w] = T /\ queue'[w] = Q /\ append'[w] = a /\ durable'[w] = d /\ pos'[w] = p
       /\ \A u \in Writers \ {w} : Untouched(u)
  BY <1>1, <1>11 DEF Untouched, Same, a, d
<1>13. TabTyped(T)
  BY <1>12, WriterTypedNext DEF WriterFacts
<1>14. /\ Basis(l, T, a, d)
       /\ Serves(l, m, ts, q, a, d, p) => Serves(l, m, T, Q, a, d, p)
       /\ Begun(ts, a, d) /\ Sending(a) =>
            \A x, e : Sends(ts, a, d, x, e) => Sends(T, a, d, x, e)
  <2>1. CASE ~full
    BY <1>9, <1>10, <2>1 DEF T, Q
  <2>2. CASE full
    <3>1. T = Rotated(w, t2) /\ Q = Triggered(w, t2, q2)
      BY <2>2 DEF T, Q
    <3>2. Len(t2) >= 1
      BY <1>8 DEF TabTyped
    <3>3. Froze(t2, T, q2, Q)
      BY <1>2, <1>3, <1>7, <1>10, <3>1, <3>2, RotatedFroze
    <3> HIDE DEF l, m, p
    <3>4. /\ Basis(l, T, a, d)
          /\ Serves(l, m, t2, q2, a, d, p) => Serves(l, m, T, Q, a, d, p)
          /\ \A x, e : Sends(t2, a, d, x, e) => Sends(T, a, d, x, e)
      BY <1>2, <1>7, <1>8, <1>9, <1>10, <1>13, <3>3, FreezeKeeps
    <3> QED  BY <1>9, <1>10, <3>4
  <2> QED  BY <2>1, <2>2
<1>15. Able(w)' <=> Able(w)
  BY <1>1, AbleStays
<1>16. ASSUME NEW r \in late, r.at \notin DOMAIN wal, Repeats(w, r) PROVE Repeats(w, r)'
  <2>1. pos[w] \notin DOMAIN wal /\ Writing(w) /\ Sending(a)
    BY <1>16 DEF Repeats, Writing, Sending, a
  <2>2. Able(w)
    BY <2>1, FreeIsAble DEF Whole
  <2>3. Begun(ts, a, d)
    BY <1>6, <2>2 DEF Serves
  <2>4. \A x, e : Sends(ts, a, d, x, e) => Sends(T, a, d, x, e)
    BY <1>14, <2>1, <2>3
  <2>5. \A x, e : Sends(tables[w], append[w], durable[w], x, e) =>
                  Sends(tables'[w], append[w], durable[w], x, e)
    BY <1>12, <2>4 DEF ts, a, d
  <2>6. append'[w] = append[w] /\ durable'[w] = durable[w] /\ pos'[w] = pos[w]
        /\ UNCHANGED <<pc, epoch>>
    BY <1>1
  <2> QED  BY <1>16, <2>5, <2>6, KeepsSending
<1>17. acked' \subseteq AllRows(wal)
  BY <1>1 DEF Whole, AckedOk
<1>18. /\ UNCHANGED <<wal, late, manifest>> /\ UNCHANGED <<pc, epoch, base, last>>
       /\ Able(w)' => Serves(wal, manifest, T, Q, a, d, p)
  BY <1>1, <1>6, <1>14, <1>15
<1> QED  BY <1>1, <1>12, <1>14, <1>16, <1>17, <1>18, TaskStill

-----------------------------------------------------------------------------
(* Triggers and completions                                                *)

(* Generations start at one.                                               *)
LEMMA PositiveGens ==
  ASSUME NEW l, LogTyped(l), Ordered(l), NEW m, CutTyped(m), Cut(l, m), NEW ts, TabTyped(ts),
         NEW d \in Nat, Numbered(ts, d), AtCut(m, ts, d), Holds(l, ts, d)
  PROVE  \A i \in 1..Len(ts) : ts[i].gen >= 1
<1>1. 1 \in 1..Len(ts) /\ ts[1].gen \in Nat /\ \A i \in 1..Len(ts) : ts[i].gen \in Nat
  BY DEF TabTyped
<1>2. ts[1].gen >= 1
  <2>1. CASE ts[1].gen = m.gen
    BY <2>1 DEF Cut
  <2>2. CASE Len(ts) >= 2 /\ End(ts[1]) <= d
    <3> DEFINE t == ts[1]
    <3>1. t.rows \in Seq(Nat) /\ Len(t.rows) \in Nat /\ t.off \in Nat /\ End(t) <= d
      BY <1>1, <2>2 DEF TabTyped
    <3>2. Len(t.rows) >= 1
      <4>1. 1 \in 1..Len(ts) - 1
        BY <2>2 DEF TabTyped
      <4> QED  BY <4>1 DEF TabTyped
    <3>3. LogRows(l, t.gen) = Prefix(t, d)
      BY <1>1 DEF Holds
    <3> HIDE DEF t
    <3>4. Prefix(t, d) = Rows(t)
      BY <3>1, EarlierWhole
    <3>5. Rows(t) # {}
      <4>1. 1 \in 1..Len(t.rows)
        BY <3>1, <3>2
      <4> QED  BY <3>1, <4>1, RowsOf
    <3>6. Has(l, t.gen)
      BY <3>3, <3>4, <3>5, HasRows
    <3>7. t.gen >= 1
      BY <3>6 DEF Has, Ordered
    <3> QED  BY <3>7 DEF t
  <2> QED  BY <2>1, <2>2 DEF AtCut
<1>3. ASSUME NEW i \in 1..Len(ts) PROVE ts[i].gen >= 1
  <2>1. CASE i = 1
    BY <1>2, <2>1
  <2>2. CASE i # 1
    <3>1. ts[1].gen < ts[i].gen
      BY <1>1, <2>2 DEF TabTyped
    <3> QED  BY <1>1, <1>2, <3>1
  <2> QED  BY <2>1, <2>2
<1> QED  BY <1>3

(* The first trigger is taken, and the others stay in their order.         *)
LEMMA TurnTaken ==
  ASSUME NEW q \in Seq(Nat), q # <<>>
  PROVE  /\ InTurn(q) => InTurn(Tail(q))
         /\ \A g : (\E k \in 1..Len(q) : q[k] = g) =>
                     g = Head(q) \/ \E k \in 1..Len(Tail(q)) : Tail(q)[k] = g
         /\ InTurn(q) => \A k \in 1..Len(q) :
                           Head(q) # Tick /\ q[k] # Tick => q[k] = Head(q) \/ Head(q) < q[k]
<1> DEFINE p == Tail(q)
<1>1. /\ Len(q) \in Nat /\ Len(q) >= 1 /\ p \in Seq(Nat) /\ Len(p) = Len(q) - 1
      /\ \A i \in 1..Len(q) - 1 : p[i] = q[i + 1]
      /\ Head(q) = q[1] /\ Head(q) \in Nat
  BY WithoutFirst
<1> HIDE DEF p
<1>2. 1 \in 1..Len(q) /\ \A k \in 1..Len(p) : k + 1 \in 1..Len(q) /\ p[k] = q[k + 1]
  BY <1>1
<1>3. ASSUME InTurn(q) PROVE InTurn(p)
  <2> SUFFICES ASSUME NEW i \in 1..Len(p), NEW j \in 1..Len(p), i < j, p[i] # Tick, p[j] # Tick
               PROVE  p[i] < p[j]
    BY DEF InTurn
  <2>1. i + 1 < j + 1
    BY <1>1
  <2> QED  BY <1>2, <1>3, <2>1 DEF InTurn
<1>4. ASSUME NEW k \in 1..Len(q), k # 1 PROVE \E i \in 1..Len(p) : p[i] = q[k]
  <2>1. k - 1 \in 1..Len(p) /\ (k - 1) + 1 = k
    BY <1>1, <1>4
  <2>2. p[k - 1] = q[k]
    BY <1>2, <2>1
  <2> QED  BY <2>1, <2>2
<1>5. ASSUME InTurn(q), NEW k \in 1..Len(q), Head(q) # Tick, q[k] # Tick
      PROVE  q[k] = Head(q) \/ Head(q) < q[k]
  <2>1. CASE k = 1
    BY <1>1, <2>1
  <2>2. CASE k # 1
    <3>1. 1 < k
      BY <1>1, <2>2
    <3> QED  BY <1>1, <1>2, <1>5, <3>1 DEF InTurn
  <2> QED  BY <2>1, <2>2
<1> QED  BY <1>1, <1>3, <1>4, <1>5 DEF p

(* next_pending_store picks the oldest.                                    *)
LEMMA PendingLeast ==
  ASSUME Inv, NEW w \in Writers, NEW i \in 1..Len(tables[w]), End(tables[w][i]) > durable[w]
  PROVE  Pending(w) <= tables[w][i].gen
<1> DEFINE ts == tables[w]
           owing == {t \in Range(ts) : End(t) > durable[w]}
           G == {t.gen : t \in owing}
<1>1. /\ ts \in Seq(MemTable(put)) /\ DOMAIN ts = 1..Len(ts)
      /\ \A j \in 1..Len(ts) : ts[j].gen \in Nat
  BY TypedTables
<1>2. ts[i] \in owing
  BY <1>1 DEF Range
<1>3. owing # {} /\ Pending(w) = Min(G)
  BY <1>2 DEF Pending
<1>4. \A t \in owing : \E j \in 1..Len(ts) : t = ts[j]
  BY <1>1 DEF Range
<1> HIDE DEF owing
<1>5. G \subseteq Nat /\ ts[i].gen \in G
  BY <1>1, <1>2, <1>4
<1>6. Min(G) <= ts[i].gen
  <2> HIDE DEF G, ts
  <2>1. G # {}
    BY <1>5
  <2>2. \A x \in G : Min(G) <= x
    BY <1>5, <2>1, Least
  <2> QED  BY <1>5, <2>2
<1> QED  BY <1>3, <1>6

(* The completion of the cell of generation g.                             *)
Marked(ts, T, g, how, p) ==
  /\ Twin(ts, T)
  /\ \A i \in 1..Len(ts) : /\ ts[i].gen = g => /\ T[i].cell = how
                                               /\ (p = 0 => T[i].at = ts[i].at)
                                               /\ (p # 0 => T[i].at = p)
                           /\ ts[i].gen # g => T[i] = ts[i]

(* A completion changes the cell and the position of one memtable.         *)
LEMMA CompleteMarks ==
  ASSUME Inv, NEW w \in Writers, NEW g, NEW how, NEW p
  PROVE  Marked(tables[w], Complete(w, g, how, p), g, how, p)
<1> DEFINE ts == tables[w]
           T == Complete(w, g, how, p)
           z == Len(ts)
           M(i) == [ts[i] EXCEPT !.cell = how, !.at = IF p = 0 THEN @ ELSE p]
<1>1. /\ ts \in Seq(MemTable(put)) /\ z \in Nat /\ DOMAIN ts = 1..z
      /\ \A i \in 1..z : ts[i] \in MemTable(put)
  BY TypedTables
<1>2. T = [i \in 1..z |-> IF ts[i].gen = g THEN M(i) ELSE ts[i]]
  BY <1>1 DEF Complete
<1>3. ASSUME NEW i \in 1..z
      PROVE  /\ M(i).gen = ts[i].gen /\ M(i).off = ts[i].off /\ M(i).rows = ts[i].rows
             /\ M(i).cell = how /\ (p = 0 => M(i).at = ts[i].at) /\ (p # 0 => M(i).at = p)
  <2> DEFINE x == IF p = 0 THEN ts[i].at ELSE p
  <2>1. M(i) = [ts[i] EXCEPT !.cell = how, !.at = x]
    BY <1>1 DEF MemTable
  <2>2. (p = 0 => x = ts[i].at) /\ (p # 0 => x = p)
    OBVIOUS
  <2> HIDE DEF x, M
  <2>3. ts[i] \in MemTable(put)
    BY <1>1
  <2> QED  BY <2>1, <2>2, <2>3 DEF MemTable
<1> HIDE DEF M, T
<1>4. \A i \in 1..z : (ts[i].gen = g => T[i] = M(i)) /\ (ts[i].gen # g => T[i] = ts[i])
  BY <1>2
<1>5. Len(T) = z
  BY <1>1, <1>2
<1>6. Twin(ts, T)
  <2> SUFFICES ASSUME NEW i \in 1..z
               PROVE  T[i].gen = ts[i].gen /\ T[i].off = ts[i].off /\ T[i].rows = ts[i].rows
    BY <1>5 DEF Twin
  <2>1. CASE ts[i].gen = g
    BY <1>3, <1>4, <2>1
  <2>2. CASE ts[i].gen # g
    BY <1>4, <2>2
  <2> QED  BY <2>1, <2>2
<1>7. Marked(ts, T, g, how, p)
  BY <1>3, <1>4, <1>6 DEF Marked
<1> QED  BY <1>7 DEF T

(* What is true of an open writer is true of the twins of its memtables.   *)
LEMMA TwinKeeps ==
  ASSUME NEW l, LogTyped(l), NEW m, NEW ts, NEW t2, TabTyped(ts), TabTyped(t2), Twin(ts, t2),
         NEW a, NEW d \in Nat, AppendOk(ts, a, d), NEW p, Basis(l, ts, a, d)
  PROVE  /\ Basis(l, t2, a, d)
         /\ \A q : Serves(l, m, ts, q, a, d, p) =>
              /\ Continues(l, t2) /\ AtCut(m, t2, d) /\ Begun(t2, a, d) /\ Landed(l, p, t2, a, d)
         /\ \A x, e : Sends(ts, a, d, x, e) => Sends(t2, a, d, x, e)
<1>1. Kin(ts, t2)
  BY DEF Kin
<1>2. \A n : Logged(l, ts, n) => Logged(l, t2, n)
  BY <1>1, KinLogged
<1>3. Basis(l, t2, a, d)
  <2>1. Numbered(t2, d)
    BY <1>1, KinNumbered DEF Basis
  <2>2. ASSUME a.phase = "appended", NEW n \in Nat, UpTo(t2, a, n) PROVE Logged(l, t2, n)
    <3>1. UpTo(ts, a, n)
      BY <1>1, <2>2, KinAppend DEF Sending
    <3> QED  BY <1>2, <2>2, <3>1 DEF Basis
  <2> QED  BY <1>2, <2>1, <2>2 DEF Basis
<1>4. ASSUME NEW q, Serves(l, m, ts, q, a, d, p)
      PROVE  Continues(l, t2) /\ AtCut(m, t2, d) /\ Begun(t2, a, d) /\ Landed(l, p, t2, a, d)
  <2>1. /\ Continues(l, ts) /\ AtCut(m, ts, d) /\ Begun(ts, a, d) /\ Landed(l, p, ts, a, d)
    BY <1>4 DEF Serves
  <2>2. Continues(l, t2)
    BY <1>1, <2>1, KinLogged
  <2>3. AtCut(m, t2, d)
    BY <1>1, <2>1, KinCut
  <2>4. Begun(t2, a, d)
    <3>1. CASE Sending(a)
      BY <1>1, <2>1, <3>1, KinAppend
    <3>2. CASE ~Sending(a)
      BY <3>2 DEF Begun
    <3> QED  BY <3>1, <3>2
  <2>5. Landed(l, p, t2, a, d)
    BY <1>1, <2>1, KinLanded
  <2> QED  BY <2>2, <2>3, <2>4, <2>5
<1>5. \A x, e : Sends(ts, a, d, x, e) => Sends(t2, a, d, x, e)
  BY <1>1, KinAppend
<1> QED  BY <1>3, <1>4, <1>5

(* The triggers left, once the first, h, is taken.                         *)
LEMMA TakenOwned ==
  ASSUME NEW ts, TabTyped(ts), \A i \in 1..Len(ts) : ts[i].gen >= 1, NEW q \in Seq(Nat),
         NEW a, a.phase = "idle", Owned(ts, q, a), InTurn(q),
         NEW Q, NEW h, q = <<>> => Q = q /\ h = Tick, q # <<>> => Q = Tail(q) /\ h = Head(q)
  PROVE  /\ InTurn(Q)
         /\ \A i \in 1..Len(ts) - 1 :
              /\ ts[i].cell # "failed"
              /\ ts[i].cell = "wait" => ts[i].gen = h \/ \E k \in 1..Len(Q) : Q[k] = ts[i].gen
<1>1. InTurn(Q)
  <2>1. CASE q = <<>>
    BY <2>1
  <2>2. CASE q # <<>>
    BY <2>2, TurnTaken
  <2> QED  BY <2>1, <2>2
<1>2. ASSUME NEW i \in 1..Len(ts) - 1
      PROVE  /\ ts[i].cell # "failed"
             /\ ts[i].cell = "wait" => ts[i].gen = h \/ \E k \in 1..Len(Q) : Q[k] = ts[i].gen
  <2>1. /\ ts[i].cell # "failed"
        /\ ts[i].cell = "wait" => \E k \in 1..Len(q) : q[k] = ts[i].gen
    BY DEF Owned
  <2>2. CASE q = <<>>
    <3>1. 1..Len(q) = {}
      BY <2>2
    <3> QED  BY <2>1, <3>1
  <2>3. CASE q # <<>>
    <3> SUFFICES ASSUME ts[i].cell = "wait", ts[i].gen # h
                 PROVE  \E k \in 1..Len(Q) : Q[k] = ts[i].gen
      BY <2>1
    <3>1. PICK k \in 1..Len(q) : q[k] = ts[i].gen
      BY <2>1
    <3>2. Q = Tail(q) /\ h = Head(q)
      BY <2>3
    <3>3. q[k] = Head(q) \/ \E x \in 1..Len(Tail(q)) : Tail(q)[x] = q[k]
      BY <2>3, TurnTaken
    <3> QED  BY <3>1, <3>2, <3>3
  <2> QED  BY <2>2, <2>3
<1> QED  BY <1>1, <1>2

(* A freeze's trigger comes when the memtables before it are in the log.   *)
LEMMA TriggerInTurn ==
  ASSUME NEW ts, TabTyped(ts), \A i \in 1..Len(ts) : ts[i].gen >= 1 /\ ts[i].cell \in Cells,
         NEW q \in Seq(Nat), q # <<>>, NEW a, a.phase = "idle", Owned(ts, q, a), InTurn(q),
         NEW d \in Nat, Numbered(ts, d), FrozenOk(ts, d),
         NEW i \in 1..Len(ts), ts[i].gen = Head(q), Head(q) # Tick
  PROVE  ts[i].off <= d
<1> DEFINE n == Len(ts)
<1>1. n \in Nat
  BY DEF TabTyped
<1>2. CASE i = 1
  BY <1>2 DEF Numbered
<1>3. CASE i # 1
  <2> DEFINE j == i - 1
  <2>1. j \in 1..n - 1 /\ j \in 1..n /\ j < i /\ j + 1 = i
    <3> HIDE DEF n
    <3>1. i \in 1..n
      BY DEF n
    <3> QED  BY <1>1, <1>3, <3>1
  <2> HIDE DEF j
  <2>2. ts[i].off = End(ts[j])
    BY <2>1 DEF Numbered
  <2>3. ts[j].cell # "wait"
    <3> SUFFICES ASSUME ts[j].cell = "wait" PROVE FALSE
      OBVIOUS
    <3>1. PICK k \in 1..Len(q) : q[k] = ts[j].gen
      BY <2>1 DEF Owned
    <3>2. ts[j].gen < ts[i].gen /\ ts[j].gen \in Nat /\ ts[i].gen \in Nat /\ ts[j].gen >= 1
      BY <2>1 DEF TabTyped
    <3>3. q[k] # Tick
      BY <3>1, <3>2 DEF Tick
    <3>4. q[k] = Head(q) \/ Head(q) < q[k]
      BY <3>3, TurnTaken
    <3> QED  BY <3>1, <3>2, <3>4
  <2>4. ts[j].cell \in {"none", "done"}
    BY <2>1, <2>3 DEF Owned, Cells
  <2>5. End(ts[j]) <= d
    BY <2>1, <2>4 DEF FrozenOk
  <2> QED  BY <2>2, <2>5
<1> QED  BY <1>2, <1>3

(* A tick picks the first memtable the log does not hold.                  *)
LEMMA TickInTurn ==
  ASSUME Inv, NEW w \in Writers, TabTyped(tables[w]), durable[w] \in Nat,
         Numbered(tables[w], durable[w]),
         NEW i \in 1..Len(tables[w]), tables[w][i].gen = Pending(w)
  PROVE  tables[w][i].off <= durable[w]
<1> DEFINE ts == tables[w]
           d == durable[w]
           n == Len(ts)
<1>1. n \in Nat
  BY DEF TabTyped
<1>2. CASE i = 1
  BY <1>2 DEF Numbered
<1>3. CASE i # 1
  <2> DEFINE j == i - 1
  <2>1. j \in 1..n - 1 /\ j \in 1..n /\ j < i /\ j + 1 = i
    <3> HIDE DEF n
    <3>1. i \in 1..n
      BY DEF n
    <3> QED  BY <1>1, <1>3, <3>1
  <2> HIDE DEF j
  <2>2. ts[i].off = End(ts[j])
    BY <2>1 DEF Numbered
  <2>3. ts[j].gen < ts[i].gen /\ ts[j].gen \in Nat /\ ts[i].gen \in Nat
    BY <2>1 DEF TabTyped
  <2>4. ~(End(ts[j]) > d)
    <3> SUFFICES ASSUME End(ts[j]) > d PROVE FALSE
      OBVIOUS
    <3>1. Pending(w) <= ts[j].gen
      BY <2>1, PendingLeast
    <3> QED  BY <2>3, <3>1
  <2>5. End(ts[j]) \in Nat
    <3> DEFINE x == ts[j].off
               y == Len(ts[j].rows)
    <3>1. x \in Nat /\ y \in Nat /\ End(ts[j]) = x + y
      BY <2>1 DEF TabTyped, End
    <3> HIDE DEF x, y
    <3> QED  BY <3>1
  <2>6. End(ts[j]) <= d
    BY <2>4, <2>5
  <2> QED  BY <2>2, <2>6
<1> QED  BY <1>2, <1>3

(* An idle append has not landed.                                          *)
LEMMA IdleHolds ==
  ASSUME NEW l, NEW p, NEW ts, NEW a, NEW d, Landed(l, p, ts, a, d), a.phase \in {"idle", "settle"}
  PROVE  /\ ~Ahead(l, p) /\ Holds(l, ts, d)
         /\ \A b : ~(b.phase \in {"appended", "settle"}) => Landed(l, p, ts, b, d)
BY DEF Landed, Doubt

(* WalFlushHandler::handle up to the append.                               *)
LEMMA TakeTriggerWhole ==
  ASSUME Inv, Inv', Whole, NEW w \in Writers, TakeTrigger(w)
  PROVE  Whole'
<1> DEFINE ts == tables[w]
           q == queue[w]
           d == durable[w]
           a == append[w]
           p == pos[w]
           Q == IF q = <<>> THEN q ELSE Tail(q)
           msg == IF q = <<>> THEN Tick ELSE Head(q)
           gen == IF msg = Tick THEN Pending(w) ELSE msg
<1>1. /\ pc[w] = "open" /\ a.phase = "idle" /\ queue' = [queue EXCEPT ![w] = Q]
      /\ UNCHANGED <<wal, late, manifest, pc, epoch, base, pos, last, durable, covered, flush,
                     poisoned, put, acked>>
  BY DEF TakeTrigger, store, opening, ghosts
<1>2. \/ /\ gen # 0 /\ LocalEnd(TableOf(w, gen), d) < Len(TableOf(w, gen).rows)
         /\ append' = [append EXCEPT ![w] =
              [Idle EXCEPT !.phase = "put", !.gen = gen, !.exact = msg # Tick,
                           !.end = Len(TableOf(w, gen).rows)]]
         /\ UNCHANGED tables
      \/ /\ gen # 0 /\ LocalEnd(TableOf(w, gen), d) >= Len(TableOf(w, gen).rows)
         /\ tables' = [tables EXCEPT ![w] = Complete(w, gen, "done", 0)]
         /\ UNCHANGED append
      \/ gen = 0 /\ UNCHANGED <<tables, append>>
  BY DEF TakeTrigger
<1>3. /\ q \in Seq(Nat) /\ d \in Nat /\ TabTyped(ts) /\ FrozenOk(ts, d) /\ LogTyped(wal)
      /\ AppendOk(ts, a, d) /\ Numbered(ts, d) /\ CutTyped(manifest) /\ Ordered(wal)
      /\ Cut(wal, manifest) /\ \A i \in 1..Len(ts) : ts[i].cell \in Cells
  BY <1>1, AsIs, Serving, TypedTables
<1>4. Basis(wal, ts, a, d) /\ (Able(w) => Serves(wal, manifest, ts, q, a, d, p))
  BY <1>1, ServingParts
<1>5. /\ q = <<>> => Q = q /\ msg = Tick
      /\ q # <<>> => Q = Tail(q) /\ msg = Head(q)
      /\ msg # Tick => gen = msg /\ q # <<>>
      /\ msg = Tick => gen = Pending(w)
  OBVIOUS
<1> HIDE DEF ts, q, d, a, Q, msg, gen
<1>6. ASSUME Able(w)
      PROVE  /\ Serves(wal, manifest, ts, q, a, d, p) /\ ~Ahead(wal, p) /\ Holds(wal, ts, d)
             /\ \A i \in 1..Len(ts) : ts[i].gen >= 1
             /\ InTurn(Q)
             /\ \A i \in 1..Len(ts) - 1 :
                  /\ ts[i].cell # "failed"
                  /\ ts[i].cell = "wait" => ts[i].gen = msg \/ \E k \in 1..Len(Q) : Q[k] = ts[i].gen
  <2>1. Serves(wal, manifest, ts, q, a, d, p)
    BY <1>4, <1>6
  <2>2. ~Ahead(wal, p) /\ Holds(wal, ts, d)
    BY <1>1, <2>1, IdleHolds DEF Serves
  <2>3. \A i \in 1..Len(ts) : ts[i].gen >= 1
    BY <1>3, <2>1, <2>2, PositiveGens DEF Serves
  <2>4. Owned(ts, q, a) /\ InTurn(q)
    BY <2>1 DEF Serves
  <2>5. /\ InTurn(Q)
        /\ \A i \in 1..Len(ts) - 1 :
             /\ ts[i].cell # "failed"
             /\ ts[i].cell = "wait" => ts[i].gen = msg \/ \E k \in 1..Len(Q) : Q[k] = ts[i].gen
    <3>1. /\ TabTyped(ts) /\ q \in Seq(Nat) /\ a.phase = "idle"
          /\ q = <<>> => Q = q /\ msg = Tick
          /\ q # <<>> => Q = Tail(q) /\ msg = Head(q)
      BY <1>1, <1>3, <1>5
    <3> QED  BY <2>3, <2>4, <3>1, TakenOwned
  <2> QED  BY <2>1, <2>2, <2>3, <2>5
<1>7. /\ Shape /\ tables \in [Writers -> Seq(MemTable(put))] /\ queue \in [Writers -> Seq(Nat)]
      /\ append \in [Writers -> Appending]
  BY DEF Inv, Shape, WriterState
<1>8. /\ queue'[w] = Q /\ durable'[w] = d /\ pos'[w] = p
      /\ UNCHANGED <<wal, late, manifest>> /\ UNCHANGED <<pc, epoch, base, last>>
  BY <1>1, <1>7 DEF d
<1>9. \A r \in late : ~Repeats(w, r)
  BY <1>1 DEF Repeats, a
<1>10. acked' \subseteq AllRows(wal)
  BY <1>1 DEF Whole, AckedOk
<1>11. Able(w)' <=> Able(w)
  BY <1>8, AbleStays
<1>12. CASE gen = 0 /\ UNCHANGED <<tables, append>>
  <2>1. msg = Tick
    BY <1>5, <1>12 DEF Tick
  <2>2. Able(w) => Serves(wal, manifest, ts, Q, a, d, p)
    <3> SUFFICES ASSUME Able(w) PROVE Serves(wal, manifest, ts, Q, a, d, p)
      OBVIOUS
    <3>1. \A i \in 1..Len(ts) - 1 : i \in 1..Len(ts)
      BY <1>3 DEF TabTyped
    <3>2. Owned(ts, Q, a)
      BY <1>6, <2>1, <3>1 DEF Owned, Tick
    <3> QED  BY <1>6, <3>2 DEF Serves
  <2>3. tables'[w] = ts /\ append'[w] = a /\ \A u \in Writers \ {w} : Untouched(u)
    BY <1>1, <1>7, <1>12 DEF Untouched, Same, ts, a
  <2> QED  BY <1>1, <1>4, <1>8, <1>9, <1>10, <1>11, <2>2, <2>3, TaskStill
<1>13. CASE /\ gen # 0 /\ LocalEnd(TableOf(w, gen), d) < Len(TableOf(w, gen).rows)
            /\ append' = [append EXCEPT ![w] =
                 [Idle EXCEPT !.phase = "put", !.gen = gen, !.exact = msg # Tick,
                              !.end = Len(TableOf(w, gen).rows)]]
            /\ UNCHANGED tables
  <2> DEFINE n == Len(TableOf(w, gen).rows)
             x == (msg # Tick)
             b == [Idle EXCEPT !.phase = "put", !.gen = gen, !.exact = x, !.end = n]
  <2>1. append' = [append EXCEPT ![w] = b]
    BY <1>13
  <2>2. x = TRUE <=> msg # Tick
    OBVIOUS
  <2> HIDE DEF n, x
  <2>3. b.phase = "put" /\ b.gen = gen /\ b.exact = x
    BY DEF Idle
  <2> HIDE DEF b
  <2>4. Basis(wal, ts, b, d)
    BY <1>4, <2>3 DEF Basis
  <2>5. ASSUME Able(w) PROVE Serves(wal, manifest, ts, Q, b, d, p)
    <3>1. Owned(ts, Q, b)
      <4> SUFFICES ASSUME NEW i \in 1..Len(ts) - 1
                   PROVE  /\ ts[i].cell # "failed"
                          /\ ts[i].cell = "wait" =>
                               \/ \E k \in 1..Len(Q) : Q[k] = ts[i].gen
                               \/ b.phase # "idle" /\ b.exact = TRUE /\ b.gen = ts[i].gen
        BY DEF Owned
      <4>1. i \in 1..Len(ts)
        BY <1>3 DEF TabTyped
      <4>2. ts[i].gen = msg => msg # Tick
        BY <1>6, <2>5, <4>1 DEF Tick
      <4> QED  BY <1>5, <1>6, <2>2, <2>3, <2>5, <4>2
    <3>2. Begun(ts, b, d)
      <4> SUFFICES ASSUME NEW i \in 1..Len(ts), ts[i].gen = gen PROVE ts[i].off <= d
        BY <2>3 DEF Begun
      <4>1. CASE msg = Tick
        BY <1>3, <1>5, <4>1, TickInTurn DEF ts, d
      <4>2. CASE msg # Tick
        <5>1. Owned(ts, q, a) /\ InTurn(q)
          BY <1>6, <2>5 DEF Serves
        <5>2. q # <<>> /\ ts[i].gen = Head(q) /\ Head(q) # Tick
          BY <1>5, <4>2
        <5> QED  BY <1>1, <1>3, <1>6, <2>5, <5>1, <5>2, TriggerInTurn
      <4> QED  BY <4>1, <4>2
    <3>3. Landed(wal, p, ts, b, d)
      BY <1>1, <1>6, <2>3, <2>5, IdleHolds DEF Serves
    <3> QED  BY <1>6, <2>5, <3>1, <3>2, <3>3 DEF Serves
  <2>6. tables'[w] = ts /\ append'[w] = b /\ \A u \in Writers \ {w} : Untouched(u)
    BY <1>1, <1>7, <1>13, <2>1 DEF Untouched, Same, ts
  <2> QED  BY <1>1, <1>8, <1>9, <1>10, <1>11, <2>4, <2>5, <2>6, TaskStill
<1>14. CASE /\ gen # 0 /\ LocalEnd(TableOf(w, gen), d) >= Len(TableOf(w, gen).rows)
            /\ tables' = [tables EXCEPT ![w] = Complete(w, gen, "done", 0)]
            /\ UNCHANGED append
  <2> DEFINE T == Complete(w, gen, "done", 0)
  <2>1. Marked(ts, T, gen, "done", 0)
    <3> DEFINE how == "done"
               z == 0
    <3> HIDE DEF how, z
    <3>1. Marked(tables[w], Complete(w, gen, how, z), gen, how, z)
      BY CompleteMarks
    <3> QED  BY <3>1 DEF how, z, ts
  <2> HIDE DEF T
  <2>2. tables'[w] = T /\ append'[w] = a /\ \A u \in Writers \ {w} : Untouched(u)
    BY <1>1, <1>7, <1>14 DEF Untouched, Same, T, a
  <2>3. TabTyped(T) /\ Twin(ts, T)
    BY <2>1, <2>2, WriterTypedNext DEF WriterFacts, Marked
  <2>4. /\ Basis(wal, T, a, d)
        /\ Serves(wal, manifest, ts, q, a, d, p) =>
              /\ Continues(wal, T) /\ AtCut(manifest, T, d) /\ Begun(T, a, d)
              /\ Landed(wal, p, T, a, d)
    <3> DEFINE l == wal
               m == manifest
    <3>1. LogTyped(l) /\ Basis(l, ts, a, d)
      BY <1>3, <1>4
    <3> HIDE DEF l, m, p
    <3>2. /\ Basis(l, T, a, d)
          /\ Serves(l, m, ts, q, a, d, p) =>
              /\ Continues(l, T) /\ AtCut(m, T, d) /\ Begun(T, a, d) /\ Landed(l, p, T, a, d)
      BY <1>3, <2>3, <3>1, TwinKeeps
    <3> QED  BY <3>2 DEF l, m
  <2>5. ASSUME Able(w) PROVE Serves(wal, manifest, T, Q, a, d, p)
    <3>1. Len(T) = Len(ts) /\ \A i \in 1..Len(ts) - 1 : i \in 1..Len(ts)
      BY <1>3, <2>3 DEF TabTyped, Twin
    <3>2. AtOk(wal, T)
      <4> SUFFICES ASSUME NEW i \in 1..Len(ts) - 1, NEW s \in DOMAIN wal, Data(wal[s]), s <= T[i].at
                   PROVE  wal[s].gen <= T[i].gen
        BY <3>1 DEF AtOk
      <4>1. T[i].at = ts[i].at /\ T[i].gen = ts[i].gen
        BY <2>1, <3>1 DEF Marked, Twin
      <4> QED  BY <1>6, <2>5, <4>1 DEF Serves, AtOk
    <3>3. Owned(T, Q, a)
      <4> SUFFICES ASSUME NEW i \in 1..Len(ts) - 1
                   PROVE  /\ T[i].cell # "failed"
                          /\ T[i].cell = "wait" => \E k \in 1..Len(Q) : Q[k] = T[i].gen
        BY <3>1 DEF Owned
      <4>1. i \in 1..Len(ts) /\ T[i].gen = ts[i].gen
        BY <3>1, <2>3 DEF Twin
      <4>2. CASE ts[i].gen = gen
        BY <2>1, <4>1, <4>2 DEF Marked
      <4>3. CASE ts[i].gen # gen
        <5>1. T[i] = ts[i]
          BY <2>1, <4>1, <4>3 DEF Marked
        <5>2. ts[i].gen # msg
          <6>1. ts[i].gen >= 1
            BY <1>6, <2>5, <4>1
          <6> QED  BY <1>5, <4>3, <6>1 DEF Tick
        <5> QED  BY <1>6, <2>5, <5>1, <5>2
      <4> QED  BY <4>2, <4>3
    <3> QED  BY <1>6, <2>4, <2>5, <3>2, <3>3 DEF Serves
  <2> QED  BY <1>1, <1>8, <1>9, <1>10, <1>11, <2>2, <2>4, <2>5, TaskStill
<1> QED  BY <1>2, <1>12, <1>13, <1>14

-----------------------------------------------------------------------------
(* The append task                                                         *)

(* BatchStore::local_end of a count inside the memtable.                   *)
LEMMA LocalInside ==
  ASSUME NEW t, t.off \in Nat, Len(t.rows) \in Nat, NEW n \in Nat, t.off <= n, n <= End(t)
  PROVE  LocalEnd(t, n) = n - t.off
<1> DEFINE x == t.off
           y == Len(t.rows)
           a == IF n > x THEN n - x ELSE 0
<1>1. x \in Nat /\ y \in Nat /\ x <= n /\ n <= x + y
  BY DEF End
<1>2. LocalEnd(t, n) = Min({a, y})
  BY DEF LocalEnd
<1> HIDE DEF x, y
<1>3. a \in Nat /\ a = n - x /\ a <= y
  BY <1>1
<1> HIDE DEF a
<1>4. Min({a, y}) = a
  BY <1>1, <1>3, MinOfTwo
<1> QED  BY <1>2, <1>3, <1>4 DEF x

(* What append_for_target sends.                                           *)
LEMMA EntrySends ==
  ASSUME Inv, Whole, NEW w \in Writers, pc[w] = "open", Able(w), Sending(append[w])
  PROVE  Sends(tables[w], append[w], durable[w], epoch[w], EntryOf(w))
<1> DEFINE ts == tables[w]
           a == append[w]
           d == durable[w]
<1>1. /\ TabTyped(ts) /\ d \in Nat /\ AppendOk(ts, a, d) /\ Begun(ts, a, d) /\ a.end \in Nat
  BY Serving, ServingAble
<1>2. PICK i \in 1..Len(ts) : /\ ts[i].gen = a.gen /\ ts[i].off <= d /\ d < ts[i].off + a.end
                              /\ a.end <= Len(ts[i].rows)
  <2>1. Sending(a)
    OBVIOUS
  <2> HIDE DEF ts, a, d
  <2> QED  BY <1>1, <2>1, AimsAt
<1> DEFINE t == ts[i]
           l == LocalEnd(t, d)
           z == a.end
<1>3. t.off \in Nat /\ Len(t.rows) \in Nat
  BY <1>1 DEF TabTyped
<1>4. l = d - t.off
  <2> DEFINE x == t.off
             y == Len(t.rows)
  <2>1. x \in Nat /\ y \in Nat /\ d \in Nat /\ z \in Nat /\ x <= d /\ d < x + z /\ z <= y
        /\ End(t) = x + y
    BY <1>1, <1>2, <1>3 DEF End
  <2>2. x <= d /\ d <= x + y
    <3> HIDE DEF x, y, z, d
    <3> QED  BY <2>1
  <2>3. t.off <= d /\ d <= End(t)
    BY <2>1, <2>2
  <2> HIDE DEF t, d
  <2> QED  BY <1>1, <1>3, <2>3, LocalInside
<1>5. TableOf(w, a.gen) = t
  BY <1>2, TableOfGen
<1>6. EntryOf(w) = [epoch |-> epoch[w], gen |-> t.gen, rows |-> SubSeq(t.rows, l + 1, z)]
  BY <1>5 DEF EntryOf
<1>7. SubSeq(t.rows, l + 1, z) = Sent(t, d, z)
  BY <1>4 DEF Sent
<1> DEFINE rows == SubSeq(t.rows, l + 1, z)
<1>8. EntryOf(w) = [epoch |-> epoch[w], gen |-> t.gen, rows |-> rows] /\ rows = Sent(t, d, z)
  BY <1>6, <1>7
<1> HIDE DEF l, z, t, rows
<1>9. /\ EntryOf(w).epoch = epoch[w] /\ EntryOf(w).gen = t.gen
      /\ EntryOf(w).rows = Sent(t, d, z)
  BY <1>8
<1> QED  BY <1>2, <1>9 DEF Sends, t, z

(* The append goes on, as b.                                               *)
LEMMA ResentServes ==
  ASSUME NEW l, NEW m, NEW ts, NEW q, NEW a, NEW d, NEW p, NEW b,
         a.phase \in {"put", "exists", "failed"}, b.phase \in {"put", "exists", "failed"},
         b.gen = a.gen, b.end = a.end, b.exact = a.exact,
         Ahead(l, p) /\ Doubt(a) => Doubt(b)
  PROVE  /\ Basis(l, ts, a, d) => Basis(l, ts, b, d)
         /\ Serves(l, m, ts, q, a, d, p) => Serves(l, m, ts, q, b, d, p)
         /\ \A x, e : Sends(ts, a, d, x, e) => Sends(ts, b, d, x, e)
<1>1. Basis(l, ts, a, d) => Basis(l, ts, b, d)
  BY DEF Basis
<1>2. Sending(a) /\ Sending(b)
  BY DEF Sending
<1>3. ASSUME Serves(l, m, ts, q, a, d, p) PROVE Serves(l, m, ts, q, b, d, p)
  <2>1. Owned(ts, q, b)
    <3>1. a.phase # "idle" /\ b.phase # "idle" /\ Owned(ts, q, a)
      BY <1>3 DEF Serves
    <3> QED  BY <3>1 DEF Owned
  <2>2. Begun(ts, b, d)
    BY <1>2, <1>3 DEF Serves, Begun
  <2>3. \A n : UpTo(ts, b, n) <=> UpTo(ts, a, n)
    BY DEF UpTo
  <2>4. Landed(l, p, ts, b, d)
    <3>1. Landed(l, p, ts, a, d)
      BY <1>3 DEF Serves
    <3> QED  BY <2>3, <3>1 DEF Landed
  <2> QED  BY <1>3, <2>1, <2>2, <2>4 DEF Serves
<1>4. \A x, e : Sends(ts, a, d, x, e) => Sends(ts, b, d, x, e)
  BY DEF Sends
<1> QED  BY <1>1, <1>3, <1>4

(* append_for_target: put-if-absent at the next position.                  *)
LEMMA AppendPutWhole ==
  ASSUME Inv, Inv', Whole, NEW w \in Writers, AppendPut(w)
  PROVE  Whole'
<1> DEFINE e == EntryOf(w)
           p == pos[w]
           a == append[w]
           ts == tables[w]
           d == durable[w]
           q == queue[w]
<1>1. a.phase = "put" /\ UNCHANGED <<manifest, pc, tables, durable, covered, queue, flush,
                                     poisoned, epoch, base, last, put, acked>>
  BY DEF AppendPut, opening, ghosts
<1>2. pc[w] = "open" /\ p \in 1..(N + 1)
  BY <1>1, EntryOfOk
<1>3. /\ N \in Nat /\ DOMAIN wal = 1..N /\ a \in Appending /\ epoch[w] \in Nat /\ Writing(w)
      /\ append \in [Writers -> Appending] /\ pos \in [Writers -> Nat] /\ p \in Nat
  BY <1>2, Typed DEF Inv, Shape, WriterState, Writing
<1>4. Basis(wal, ts, a, d) /\ (Able(w) => Serves(wal, manifest, ts, q, a, d, p))
  BY <1>2, ServingParts
<1>5. p \notin DOMAIN wal => Able(w)
  BY <1>2, <1>3, FreeIsAble DEF Whole
<1>6. Sending(a) /\ a.phase # "appended"
  BY <1>1 DEF Sending
<1>7. Able(w) => Sends(ts, a, d, epoch[w], e)
  BY <1>2, <1>6, EntrySends
<1>8. acked' = acked /\ acked' \subseteq AllRows(wal)
  BY <1>1 DEF Whole, AckedOk
<1>9. /\ pc'[w] = "open" /\ tables'[w] = ts /\ durable'[w] = d /\ queue'[w] = q
      /\ epoch'[w] = epoch[w] /\ manifest' = manifest
  BY <1>1, <1>2
<1> HIDE DEF e
<1>10. CASE /\ p \notin DOMAIN wal /\ wal' = Land(p, e)
            /\ append' = [append EXCEPT ![w].phase = "appended", ![w].at = p]
            /\ pos' = [pos EXCEPT ![w] = @ + 1] /\ UNCHANGED late
  <2> DEFINE b == [a EXCEPT !.phase = "appended", !.at = p]
  <2>1. /\ b.phase = "appended" /\ b.at = p /\ b.gen = a.gen /\ b.end = a.end
        /\ b.exact = a.exact
    BY <1>3 DEF Appending, Phases
  <2>2. append' = [append EXCEPT ![w] = b] /\ append'[w] = b /\ pos'[w] = p + 1
    BY <1>3, <1>10
  <2> HIDE DEF b
  <2>3. Grown(wal, wal', e)
    BY <1>2, <1>10, LandGrows
  <2>4. \A u \in Writers \ {w} : Untouched(u)
    BY <1>1, <1>3, <1>10, <2>2 DEF Untouched, Same
  <2>5. late' \subseteq late /\ Able(w) /\ Sends(ts, a, d, epoch[w], e)
    BY <1>5, <1>7, <1>10
  <2> QED  BY <1>2, <1>6, <1>8, <1>9, <1>10, <2>1, <2>2, <2>3, <2>4, <2>5, LandWhole
<1>11. CASE /\ p \in DOMAIN wal /\ append' = [append EXCEPT ![w].phase = "exists"]
            /\ UNCHANGED <<wal, late, pos>>
  <2> DEFINE b == [a EXCEPT !.phase = "exists"]
  <2>1. /\ b.phase = "exists" /\ b.gen = a.gen /\ b.end = a.end
        /\ b.exact = a.exact /\ b.tries = a.tries
    BY <1>3 DEF Appending, Phases
  <2>2. append' = [append EXCEPT ![w] = b] /\ append'[w] = b /\ pos'[w] = p
    BY <1>3, <1>11
  <2> HIDE DEF b
  <2>3. \A u \in Writers \ {w} : Untouched(u)
    BY <1>1, <1>3, <1>11, <2>2 DEF Untouched, Same
  <2>4. /\ Basis(wal, ts, b, d)
        /\ Able(w) => Serves(wal, manifest, ts, q, b, d, p)
    <3>1. Doubt(a) => Doubt(b)
      BY <1>1, <2>1 DEF Doubt
    <3> HIDE DEF ts, a, d, q, p
    <3> QED  BY <1>1, <1>4, <2>1, <3>1, ResentServes
  <2>5. Able(w)' <=> Able(w)
    BY <1>1, <1>11, <2>2, AbleStays
  <2>6. \A r \in late : r.at \notin DOMAIN wal => ~Repeats(w, r)
    BY <1>11 DEF Repeats
  <2> QED  BY <1>1, <1>2, <1>8, <1>9, <1>11, <2>2, <2>3, <2>4, <2>5, <2>6, TaskStill
<1>12. CASE /\ AppendFails(p, e) /\ append' = [append EXCEPT ![w].phase = "failed"]
            /\ UNCHANGED pos
  <2> DEFINE b == [a EXCEPT !.phase = "failed"]
  <2>1. /\ b.phase = "failed" /\ b.gen = a.gen /\ b.end = a.end
        /\ b.exact = a.exact /\ b.tries = a.tries /\ Doubt(b)
    BY <1>3 DEF Appending, Phases, Doubt
  <2>2. append' = [append EXCEPT ![w] = b] /\ append'[w] = b /\ pos'[w] = p
    BY <1>3, <1>12
  <2> HIDE DEF b
  <2>3. \A u \in Writers \ {w} : Untouched(u)
    BY <1>1, <1>3, <1>12, <2>2 DEF Untouched, Same
  <2>4. /\ Basis(wal, ts, b, d)
        /\ Able(w) => Serves(wal, manifest, ts, q, b, d, p)
        /\ \A x, f : Sends(ts, a, d, x, f) => Sends(ts, b, d, x, f)
    <3> HIDE DEF ts, a, d, q, p
    <3> QED  BY <1>1, <1>4, <2>1, ResentServes
  <2>5. \A r : Repeats(w, r) => Repeats(w, r)'
    BY <1>1, <1>9, <2>1, <2>2, <2>4 DEF Repeats
  <2>6. CASE wal' = wal /\ late' = late
    <3>1. Able(w)' <=> Able(w)
      BY <1>1, <2>2, <2>6, AbleStays
    <3> QED  BY <1>1, <1>2, <1>8, <1>9, <2>2, <2>3, <2>4, <2>5, <2>6, <3>1, TaskStill
  <2>7. CASE p \notin DOMAIN wal /\ Grown(wal, wal', e) /\ late' = late
    <3>1. late' \subseteq late /\ Able(w) /\ Sends(ts, a, d, epoch[w], e)
      BY <1>5, <1>7, <2>7
    <3> QED  BY <1>2, <1>6, <1>8, <1>9, <2>1, <2>2, <2>3, <2>7, <3>1, LandWhole
  <2>8. CASE wal' = wal /\ late' = late \cup {[at |-> p, entry |-> e]}
    <3>1. PICK r : r.at = p /\ r.entry = e /\ \A s \in late' : s \in late \/ s = r
      BY <2>8
    <3>2. Able(w)' <=> Able(w)
      BY <1>1, <2>2, <2>8, AbleStays
    <3>3. ServeOk(w)' /\ AbleOk(w)'
      <4>1. ServeOk(w)'
        BY <1>9, <2>2, <2>4, <2>8 DEF ServeOk, Basis
      <4>2. AbleOk(w)'
        BY <1>9, <2>2, <2>4, <2>8, <3>2 DEF AbleOk, Serves
      <4> QED  BY <4>1, <4>2
    <3>4. WriterOk(w)'
      BY <1>9, <3>3 DEF WriterOk, ClaimOk, ReplayOk
    <3>5. Goes(w) /\ (Writing(w)' => Writing(w) /\ epoch'[w] = epoch[w])
      BY <1>3, <1>9, <2>2 DEF Goes
    <3>6. e.epoch = epoch[w]
      BY <1>1, EntryOfOk DEF e
    <3>7. Halted(wal, r.at, r.entry.epoch)
      BY <1>3, <3>1, <3>6 DEF Whole, Epochs
    <3>8. LateOk(r)'
      <4> SUFFICES ASSUME Data(e), p \notin DOMAIN wal
                   PROVE  /\ Landable(wal, manifest, e)
                          /\ \A u \in Writers : Writing(u)' /\ epoch'[u] = epoch[w] => Repeats(u, r)'
        BY <1>9, <2>8, <3>1, <3>6 DEF LateOk
      <4>1. Able(w) /\ Sends(ts, a, d, epoch[w], e)
        BY <1>5, <1>7
      <4>2. Landable(wal, manifest, e)
        BY <1>2, <1>6, <4>1, AimIsNext
      <4>3. ASSUME NEW u \in Writers, Writing(u)', epoch'[u] = epoch[w] PROVE Repeats(u, r)'
        <5>1. u = w
          <6>1. epoch[w] >= 1
            BY <1>3, HasEpoch
          <6>2. epoch[u] = epoch[w]
            BY <1>1, <4>3
          <6> QED  BY <6>1, <6>2 DEF Whole, Epochs
        <5>2. Sends(ts, b, d, epoch[w], e)
          BY <2>4, <4>1
        <5>3. Repeats(w, r)'
          BY <1>9, <2>1, <2>2, <3>1, <5>2 DEF Repeats
        <5> QED  BY <5>1, <5>3
      <4> QED  BY <4>2, <4>3
    <3>9. SameCut(manifest, manifest') /\ manifest.epoch <= manifest'.epoch
      <4>1. manifest.epoch \in Nat
        BY StoreTyped DEF StoreFacts
      <4> QED  BY <1>9, <4>1 DEF SameCut
    <3> QED  BY <1>8, <2>3, <2>5, <2>8, <3>1, <3>4, <3>5, <3>7, <3>8, <3>9, StillStep
  <2>9. \/ wal' = wal /\ late' = late
        \/ p \notin DOMAIN wal /\ Grown(wal, wal', e) /\ late' = late
        \/ wal' = wal /\ late' = late \cup {[at |-> p, entry |-> e]}
    BY <1>2, <1>12, LandGrows DEF AppendFails
  <2> QED  BY <2>6, <2>7, <2>8, <2>9
<1> QED  BY <1>1, <1>10, <1>11, <1>12 DEF AppendPut, e

(* Past an occupied position that does not hold its own entry, an append   *)
(* finds the log as it was.                                                *)
LEMMA OnwardServes ==
  ASSUME NEW l, LogTyped(l), NEW m, NEW ts, NEW q, NEW a, NEW d, NEW p \in Nat, NEW b,
         a.phase = "exists", ~Doubt(a), b.phase = "put",
         b.gen = a.gen, b.end = a.end, b.exact = a.exact,
         Serves(l, m, ts, q, a, d, p)
  PROVE  Serves(l, m, ts, q, b, d, p + 1)
<1>1. Landed(l, p, ts, a, d) /\ ~Ahead(l, p)
  BY DEF Serves, Landed
<1>2. Holds(l, ts, d) /\ \A s \in DOMAIN l : Data(l[s]) => s <= p
  BY <1>1 DEF Landed
<1>3. \A s \in DOMAIN l : Data(l[s]) => s <= p + 1 /\ s # p + 1
  BY <1>2 DEF LogTyped
<1>4. ~Ahead(l, p + 1)
  BY <1>3 DEF Ahead
<1>5. Landed(l, p + 1, ts, b, d)
  BY <1>2, <1>3, <1>4 DEF Landed
<1>6. Owned(ts, q, b)
  <2>1. a.phase # "idle" /\ b.phase # "idle" /\ Owned(ts, q, a)
    BY DEF Serves
  <2> QED  BY <2>1 DEF Owned
<1>7. Begun(ts, b, d)
  BY DEF Serves, Begun, Sending
<1> QED  BY <1>5, <1>6, <1>7 DEF Serves

(* An append is over.                                                      *)
LEMMA IdleBasis ==
  ASSUME NEW l, NEW ts, NEW a, NEW d, NEW b, b.phase # "appended", Basis(l, ts, a, d)
  PROVE  Basis(l, ts, b, d)
BY DEF Basis

(* check_fenced, then poison, move on, or try again.                       *)
LEMMA AppendCheckWhole ==
  ASSUME Inv, Inv', Whole, Steady, NEW w \in Writers, AppendCheck(w)
  PROVE  Whole'
<1> DEFINE p == pos[w]
           a == append[w]
           ts == tables[w]
           d == durable[w]
           q == queue[w]
<1>1. /\ a.phase \in {"exists", "failed"}
      /\ UNCHANGED <<wal, late, manifest>> /\ UNCHANGED <<pc, epoch, base, last>>
      /\ UNCHANGED <<durable, covered, queue, flush, put, acked>>
  BY DEF AppendCheck, store, opening, ghosts
<1>2. \/ \E b \in BOOLEAN : AppendError(w, b) /\ UNCHANGED pos
      \/ /\ ~Fenced(w) /\ a.phase = "exists" /\ ~(a.tries > 0)
         /\ append' = [append EXCEPT ![w].phase = "put"]
         /\ pos' = [pos EXCEPT ![w] = @ + 1] /\ UNCHANGED <<tables, poisoned>>
      \/ /\ a.phase = "failed"
         /\ append' = [append EXCEPT ![w].phase = "put", ![w].tries = @ + 1]
         /\ UNCHANGED <<pos, tables, poisoned>>
  BY DEF AppendCheck
<1>3. pc[w] = "open"
  BY <1>1 DEF Inv, Local, QuietOk
<1>4. /\ N \in Nat /\ DOMAIN wal = 1..N /\ a \in Appending /\ epoch[w] \in Nat /\ Writing(w)
      /\ append \in [Writers -> Appending] /\ pos \in [Writers -> Nat] /\ p \in Nat
      /\ tables \in [Writers -> Seq(MemTable(put))] /\ poisoned \in [Writers -> BOOLEAN]
      /\ LogTyped(wal) /\ TabTyped(ts) /\ AppendOk(ts, a, d) /\ d \in Nat
  BY <1>3, Typed, Serving DEF Inv, Shape, WriterState
<1>5. a.phase = "exists" => p \in DOMAIN wal
  BY <1>3, AsIs
<1>6. Basis(wal, ts, a, d) /\ (Able(w) => Serves(wal, manifest, ts, q, a, d, p))
  BY <1>3, ServingParts
<1>7. acked' \subseteq AllRows(wal)
  BY <1>1 DEF Whole, AckedOk
<1>8. durable'[w] = d /\ queue'[w] = q
  BY <1>1
<1>9. CASE \E b \in BOOLEAN : AppendError(w, b) /\ UNCHANGED pos
  <2> DEFINE T == Complete(w, a.gen, "failed", 0)
             I == Idle
  <2>1. PICK t \in BOOLEAN : AppendError(w, t)
    BY <1>9
  <2>2. append' = [append EXCEPT ![w] = I] /\ poisoned' = [poisoned EXCEPT ![w] = @ \/ t]
    BY <2>1 DEF AppendError
  <2>3. tables' = [tables EXCEPT ![w] = T] \/ tables' = tables
    BY <2>1 DEF AppendError
  <2>4. I.phase = "idle"
    BY DEF Idle
  <2> HIDE DEF I
  <2>5. append'[w] = I
    BY <1>4, <2>2
  <2>6. pos'[w] = p
    BY <1>9
  <2>7. a.phase = "exists" /\ Fenced(w)
    <3>1. GivesUp(w)
      BY <1>1, <1>3, <2>4, <2>5 DEF GivesUp
    <3> QED  BY <3>1 DEF Steady
  <2>8. ~Able(w)'
    <3>1. ~Able(w)
      BY <1>3, <1>5, <2>7 DEF Able
    <3> QED  BY <1>1, <2>6, <3>1, AbleStays
  <2>9. \A r \in late : r.at \notin DOMAIN wal => ~Repeats(w, r)
    BY <1>5, <2>7 DEF Repeats
  <2>10. Twin(ts, T)
    <3> DEFINE how == "failed"
               z == 0
               g == a.gen
    <3> HIDE DEF how, z, g
    <3>1. Marked(ts, Complete(w, g, how, z), g, how, z)
      BY CompleteMarks
    <3> QED  BY <3>1 DEF how, z, g, Marked
  <2> HIDE DEF T
  <2>11. \A u \in Writers \ {w} : Untouched(u)
    BY <1>1, <1>4, <1>9, <2>2, <2>3 DEF Untouched, Same
  <2>12. CASE tables' = tables
    <3>1. tables'[w] = ts
      BY <2>12
    <3>2. Basis(wal, ts, I, d)
      <4> DEFINE l == wal
      <4>1. Basis(l, ts, a, d) /\ I.phase # "appended"
        BY <1>6, <2>4
      <4> HIDE DEF l, ts, a, d
      <4>2. Basis(l, ts, I, d)
        BY <4>1, IdleBasis
      <4> QED  BY <4>2 DEF l
    <3> QED  BY <1>1, <1>3, <1>7, <1>8, <2>5, <2>6, <2>8, <2>9, <2>11, <3>1, <3>2, TaskStill
  <2>13. CASE tables' = [tables EXCEPT ![w] = T]
    <3>1. tables'[w] = T
      BY <1>4, <2>13
    <3>2. TabTyped(T)
      BY <3>1, WriterTypedNext DEF WriterFacts
    <3>3. Basis(wal, T, I, d)
      <4> DEFINE l == wal
      <4>1. Basis(l, ts, a, d) /\ I.phase # "appended" /\ LogTyped(l)
        BY <1>4, <1>6, <2>4
      <4> HIDE DEF l, ts, a, d
      <4>2. Basis(l, T, a, d)
        BY <1>4, <2>10, <3>2, <4>1, TwinKeeps
      <4>3. Basis(l, T, I, d)
        BY <4>1, <4>2, IdleBasis
      <4> QED  BY <4>3 DEF l
    <3> QED  BY <1>1, <1>3, <1>7, <1>8, <2>5, <2>6, <2>8, <2>9, <2>11, <3>1, <3>3, TaskStill
  <2> QED  BY <2>3, <2>12, <2>13
<1>10. CASE /\ ~Fenced(w) /\ a.phase = "exists" /\ ~(a.tries > 0)
            /\ append' = [append EXCEPT ![w].phase = "put"]
            /\ pos' = [pos EXCEPT ![w] = @ + 1] /\ UNCHANGED <<tables, poisoned>>
  <2> DEFINE b == [a EXCEPT !.phase = "put"]
             k == p + 1
  <2>1. b.phase = "put" /\ b.gen = a.gen /\ b.end = a.end /\ b.exact = a.exact
    BY <1>4 DEF Appending, Phases
  <2>2. append' = [append EXCEPT ![w] = b] /\ append'[w] = b /\ pos'[w] = k /\ tables'[w] = ts
    BY <1>4, <1>10
  <2> HIDE DEF b
  <2>3. \A u \in Writers \ {w} : Untouched(u)
    BY <1>1, <1>4, <1>10, <2>2 DEF Untouched, Same
  <2>4. Able(w)
    BY <1>4, <1>10, HolderIsAble
  <2>5. ~Doubt(a)
    <3>1. a.tries \in Nat /\ ~(a.tries >= 1)
      BY <1>4, <1>10 DEF Appending
    <3> QED  BY <1>10, <3>1 DEF Doubt
  <2>6. Serves(wal, manifest, ts, q, b, d, k)
    <3> DEFINE l == wal
               m == manifest
    <3>1. LogTyped(l) /\ Serves(l, m, ts, q, a, d, p) /\ a.phase = "exists"
      BY <1>4, <1>6, <1>10, <2>4
    <3> HIDE DEF l, m, ts, a, d, q, p
    <3>2. Serves(l, m, ts, q, b, d, p + 1)
      BY <1>4, <2>1, <2>5, <3>1, OnwardServes
    <3> QED  BY <3>2 DEF l, m
  <2>7. Basis(wal, ts, b, d)
    BY <1>6, <2>1 DEF Basis
  <2>8. Halted(wal, k, epoch[w])
    BY <2>4 DEF Able, Halted
  <2>9. \A r \in late : r.at \notin DOMAIN wal => ~Repeats(w, r)
    BY <1>5, <1>10 DEF Repeats
  <2> HIDE DEF k
  <2> QED  BY <1>1, <1>3, <1>7, <1>8, <2>2, <2>3, <2>6, <2>7, <2>8, <2>9, TaskStill
<1>11. CASE /\ a.phase = "failed"
            /\ append' = [append EXCEPT ![w].phase = "put", ![w].tries = @ + 1]
            /\ UNCHANGED <<pos, tables, poisoned>>
  <2> DEFINE n == a.tries + 1
             b == [a EXCEPT !.phase = "put", !.tries = n]
  <2>1. n \in Nat /\ n >= 1
    BY <1>4 DEF Appending
  <2>2. append' = [append EXCEPT ![w] = b] /\ append'[w] = b /\ pos'[w] = p /\ tables'[w] = ts
    BY <1>4, <1>11
  <2> HIDE DEF n
  <2>3. /\ b.phase = "put" /\ b.gen = a.gen /\ b.end = a.end /\ b.exact = a.exact
        /\ b.tries = n
    BY <1>4 DEF Appending, Phases
  <2> HIDE DEF b
  <2>4. Doubt(b)
    BY <2>1, <2>3 DEF Doubt
  <2>5. \A u \in Writers \ {w} : Untouched(u)
    BY <1>1, <1>4, <1>11, <2>2 DEF Untouched, Same
  <2>6. /\ Basis(wal, ts, b, d)
        /\ Able(w) => Serves(wal, manifest, ts, q, b, d, p)
        /\ \A x, f : Sends(ts, a, d, x, f) => Sends(ts, b, d, x, f)
    <3> HIDE DEF ts, a, d, q, p
    <3> QED  BY <1>6, <1>11, <2>3, <2>4, ResentServes
  <2>7. \A r : Repeats(w, r) => Repeats(w, r)'
    BY <1>1, <2>2, <2>3, <2>4, <2>6 DEF Repeats
  <2>8. Able(w)' <=> Able(w)
    BY <1>1, <2>2, AbleStays
  <2> QED  BY <1>1, <1>3, <1>7, <1>8, <2>2, <2>5, <2>6, <2>7, <2>8, TaskStill
<1> QED  BY <1>2, <1>9, <1>10, <1>11

(* The rows that a count n covers.                                         *)
LEMMA LocalPrefix ==
  ASSUME NEW t, t.off \in Nat, Len(t.rows) \in Nat, NEW n \in Nat
  PROVE  /\ LocalEnd(t, n) \in Nat
         /\ \A k \in Nat : k >= 1 /\ k <= LocalEnd(t, n) => k \in 1..Len(t.rows) /\ t.off + k <= n
<1> DEFINE x == t.off
           y == Len(t.rows)
           a == IF n > x THEN n - x ELSE 0
<1>1. x \in Nat /\ y \in Nat /\ LocalEnd(t, n) = Min({a, y})
  BY DEF LocalEnd
<1> HIDE DEF x, y
<1>2. a \in Nat /\ \A k \in Nat : k >= 1 /\ k <= a => x + k <= n
  BY <1>1
<1> HIDE DEF a
<1>3. Min({a, y}) \in Nat /\ Min({a, y}) <= a /\ Min({a, y}) <= y
  BY <1>1, <1>2, MinOfTwo
<1>4. \A k \in Nat : k >= 1 /\ k <= LocalEnd(t, n) => k \in 1..y /\ x + k <= n
  BY <1>1, <1>2, <1>3
<1> QED  BY <1>1, <1>3, <1>4 DEF x, y

(* The count moves on to the end of a memtable's rows in the log.          *)
LEMMA CountMoves ==
  ASSUME NEW ts, TabTyped(ts), NEW d \in Nat, Numbered(ts, d), NEW i \in 1..Len(ts),
         NEW z \in Nat, z <= Len(ts[i].rows), NEW n, n = ts[i].off + z, d < n
  PROVE  n \in Nat /\ Numbered(ts, n)
<1> DEFINE k == Len(ts)
           o == ts[i].off
           y == Len(ts[i].rows)
           f == ts[1].off
           g == ts[k].off
           h == Len(ts[k].rows)
<1>1. k \in Nat /\ k >= 1 /\ i \in 1..k /\ 1 \in 1..k /\ k \in 1..k
  BY DEF TabTyped
<1>2. /\ o \in Nat /\ y \in Nat /\ f \in Nat /\ g \in Nat /\ h \in Nat
      /\ End(ts[i]) = o + y /\ End(ts[k]) = g + h
  BY <1>1 DEF TabTyped, End
<1>3. f <= d /\ n = o + z /\ z <= y
  BY DEF Numbered
<1>4. i = k \/ o + y <= g
  <2>1. i = k \/ i < k
    BY <1>1
  <2>2. i < k => End(ts[i]) <= ts[k].off
    BY <1>1 DEF Numbered
  <2> QED  BY <1>2, <2>1, <2>2
<1>5. i = k => o = g /\ y = h
  OBVIOUS
<1> HIDE DEF o, y, f, g, h
<1>6. n \in Nat /\ f <= n
  BY <1>2, <1>3
<1>7. n <= g + h
  <2>1. CASE i = k
    BY <1>2, <1>3, <1>5, <2>1
  <2>2. CASE o + y <= g
    BY <1>2, <1>3, <2>2
  <2> QED  BY <1>4, <2>1, <2>2
<1>8. ts[1].off <= n /\ n <= End(ts[Len(ts)])
  BY <1>2, <1>6, <1>7 DEF f
<1> QED  BY <1>6, <1>8 DEF Numbered

(* advance_durable, for the able writer.                                   *)
LEMMA CountServes ==
  ASSUME NEW l, NEW m, NEW ts, TabTyped(ts), NEW q, NEW a, NEW d \in Nat, NEW p, NEW b,
         a.phase = "appended", b.phase = "settle", b.gen = a.gen, b.exact = a.exact, b.at = a.at,
         NEW n \in Nat, UpTo(ts, a, n), d <= n, Serves(l, m, ts, q, a, d, p)
  PROVE  Serves(l, m, ts, q, b, n, p)
<1>1. Landed(l, p, ts, a, d) /\ ~Ahead(l, p)
  BY DEF Serves, Landed, Doubt
<1>2. Landed(l, p, ts, b, n)
  BY <1>1 DEF Landed
<1>3. Owned(ts, q, b)
  <2>1. a.phase # "idle" /\ b.phase # "idle" /\ Owned(ts, q, a)
    BY DEF Serves
  <2> QED  BY <2>1 DEF Owned
<1>4. Begun(ts, b, n)
  BY DEF Begun, Sending
<1>5. AtCut(m, ts, n)
  <2>1. AtCut(m, ts, d)
    BY DEF Serves
  <2>2. ASSUME End(ts[1]) <= d PROVE End(ts[1]) <= n
    <3> DEFINE x == ts[1].off
               y == Len(ts[1].rows)
    <3>1. x \in Nat /\ y \in Nat /\ End(ts[1]) = x + y
      BY DEF TabTyped, End
    <3>2. x + y <= d
      BY <2>2, <3>1
    <3> HIDE DEF x, y
    <3>3. x + y <= n
      BY <3>1, <3>2
    <3> QED  BY <3>1, <3>3
  <2> QED  BY <2>1, <2>2 DEF AtCut
<1> QED  BY <1>2, <1>3, <1>4, <1>5 DEF Serves

(* advance_durable.                                                        *)
LEMMA AdvanceWhole ==
  ASSUME Inv, Inv', Whole, NEW w \in Writers, Advance(w)
  PROVE  Whole'
<1> DEFINE ts == tables[w]
           q == queue[w]
           d == durable[w]
           a == append[w]
           p == pos[w]
           b == [a EXCEPT !.phase = "settle"]
           n == TableOf(w, a.gen).off + a.end
<1>1. /\ a.phase = "appended"
      /\ UNCHANGED <<wal, late, manifest>> /\ UNCHANGED <<pc, epoch, base, last>>
      /\ UNCHANGED <<pos, tables, covered, queue, flush, poisoned, put>>
      /\ durable' = [durable EXCEPT ![w] = Max({d, n})]
      /\ append' = [append EXCEPT ![w].phase = "settle"]
  BY DEF Advance, store, opening
<1>2. pc[w] = "open"
  BY <1>1 DEF Inv, Local, QuietOk
<1>3. /\ AppendOk(ts, a, d) /\ d \in Nat /\ a \in Appending /\ TabTyped(ts) /\ Numbered(ts, d)
      /\ LogTyped(wal) /\ a.end \in Nat
      /\ append \in [Writers -> Appending] /\ durable \in [Writers -> Nat]
  BY <1>2, Serving, AsIs DEF WriterState
<1>4. PICK i \in 1..Len(ts) : ts[i].gen = a.gen /\ a.end <= Len(ts[i].rows) /\ d < ts[i].off + a.end
  BY <1>1, <1>3 DEF AppendOk
<1>5. n = ts[i].off + a.end
  <2>1. TableOf(w, a.gen) = ts[i]
    BY <1>4, TableOfGen
  <2> QED  BY <2>1
<1>6. Basis(wal, ts, a, d) /\ (Able(w) => Serves(wal, manifest, ts, q, a, d, p))
  BY <1>2, ServingParts
<1>7. b.phase = "settle" /\ b.gen = a.gen /\ b.exact = a.exact /\ b.at = a.at
  BY <1>3 DEF Appending, Phases
<1>8. append' = [append EXCEPT ![w] = b] /\ append'[w] = b
  BY <1>1, <1>3
<1> HIDE DEF b, n
<1>9. n \in Nat /\ Numbered(ts, n) /\ d < n /\ d <= n
  <2> DEFINE z == a.end
  <2>1. z \in Nat /\ z <= Len(ts[i].rows) /\ n = ts[i].off + z /\ d < n
    BY <1>3, <1>4, <1>5
  <2> HIDE DEF z, ts, d
  <2>2. n \in Nat /\ Numbered(ts, n)
    BY <1>3, <2>1, CountMoves
  <2> QED  BY <1>3, <2>1, <2>2
<1>10. Max({d, n}) = n
  <2> HIDE DEF d
  <2>1. Max({d, n}) = IF d >= n THEN d ELSE n
    BY <1>3, <1>9, MaxOfTwo
  <2> QED  BY <1>3, <1>9, <2>1
<1>11. durable'[w] = n /\ durable' = [durable EXCEPT ![w] = n]
  BY <1>1, <1>3, <1>10
<1>12. UpTo(ts, a, n) /\ Logged(wal, ts, n)
  <2>1. UpTo(ts, a, n)
    BY <1>4, <1>5 DEF UpTo
  <2> QED  BY <1>1, <1>6, <1>9, <2>1 DEF Basis
<1>13. Basis(wal, ts, b, n)
  BY <1>7, <1>9, <1>12 DEF Basis
<1>14. Able(w) => Serves(wal, manifest, ts, q, b, n, p)
  <2> SUFFICES ASSUME Able(w) PROVE Serves(wal, manifest, ts, q, b, n, p)
    OBVIOUS
  <2> DEFINE l == wal
             m == manifest
  <2>1. Serves(l, m, ts, q, a, d, p)
    BY <1>6
  <2> HIDE DEF l, m, ts, q, a, d, p
  <2>2. Serves(l, m, ts, q, b, n, p)
    BY <1>1, <1>3, <1>7, <1>9, <1>12, <2>1, CountServes
  <2> QED  BY <2>2 DEF l, m
<1>15. Able(w)' <=> Able(w)
  BY <1>1, AbleStays
<1>16. \A r \in late : ~Repeats(w, r)
  BY <1>1 DEF Repeats
<1>17. \A u \in Writers \ {w} : Untouched(u)
  BY <1>1, <1>3, <1>8 DEF Untouched, Same
<1>18. acked' \subseteq AllRows(wal)
  <2> DEFINE Woken(t) == {t.rows[k] : k \in LocalEnd(t, d) + 1 .. LocalEnd(t, durable'[w])}
  <2>1. acked \subseteq AllRows(wal)
    BY DEF Whole, AckedOk
  <2>2. acked' = acked \/ acked' = acked \cup UNION {Woken(t) : t \in Range(ts)}
    BY DEF Advance
  <2>3. ASSUME NEW t \in Range(ts), NEW c \in Woken(t) PROVE c \in AllRows(wal)
    <3>1. PICK j \in 1..Len(ts) : t = ts[j]
      BY <1>3 DEF Range, TabTyped
    <3>2. t.off \in Nat /\ Len(t.rows) \in Nat
      BY <1>3, <3>1 DEF TabTyped
    <3> DEFINE x == LocalEnd(t, d)
               y == LocalEnd(t, n)
    <3>3. PICK k \in x + 1 .. y : c = t.rows[k]
      BY <1>11
    <3>4. /\ x \in Nat /\ y \in Nat
          /\ \A e \in Nat : e >= 1 /\ e <= y => e \in 1..Len(t.rows) /\ t.off + e <= n
      <4> HIDE DEF d, ts
      <4> QED  BY <1>3, <1>9, <3>2, LocalPrefix
    <3> HIDE DEF x, y
    <3>5. k \in 1..Len(t.rows) /\ t.off + k <= n
      BY <3>3, <3>4
    <3>6. c \in Prefix(t, n)
      BY <3>3, <3>5, InPrefix
    <3> QED  BY <1>12, <3>1, <3>6 DEF Logged
  <2> HIDE DEF Woken, ts
  <2>4. UNION {Woken(t) : t \in Range(ts)} \subseteq AllRows(wal)
    <3> SUFFICES ASSUME NEW x \in UNION {Woken(t) : t \in Range(ts)} PROVE x \in AllRows(wal)
      OBVIOUS
    <3>1. PICK t \in Range(ts) : x \in Woken(t)
      OBVIOUS
    <3> QED  BY <2>3, <3>1
  <2> QED  BY <2>1, <2>2, <2>4
<1>19. tables'[w] = ts /\ queue'[w] = q /\ pos'[w] = p
  BY <1>1
<1> QED  BY <1>1, <1>2, <1>8, <1>11, <1>13, <1>14, <1>15, <1>16, <1>17, <1>18, <1>19, TaskStill

(* The memtable of an append gets the position of its entry.               *)
LEMMA SettledAt ==
  ASSUME NEW l, LogTyped(l), Ordered(l), NEW ts, NEW T, NEW g, NEW c \in DOMAIN l, c # 0,
         TabTyped(ts), Marked(ts, T, g, "done", c), AtOk(l, ts), Data(l[c]), l[c].gen = g
  PROVE  AtOk(l, T)
<1>1. Len(T) = Len(ts) /\ \A i \in 1..Len(ts) - 1 : i \in 1..Len(ts)
  BY DEF Marked, Twin, TabTyped
<1> SUFFICES ASSUME NEW i \in 1..Len(ts) - 1, NEW s \in DOMAIN l, Data(l[s]), s <= T[i].at
             PROVE  l[s].gen <= T[i].gen
  BY <1>1 DEF AtOk
<1>2. T[i].gen = ts[i].gen /\ i \in 1..Len(ts)
  BY <1>1 DEF Marked, Twin
<1>3. CASE ts[i].gen # g
  <2>1. T[i] = ts[i]
    BY <1>2, <1>3 DEF Marked
  <2> QED  BY <2>1 DEF AtOk
<1>4. CASE ts[i].gen = g
  <2>1. T[i].at = c
    BY <1>2, <1>4 DEF Marked
  <2>2. s \in Nat /\ c \in Nat /\ l[s].gen \in Nat
    BY DEF LogTyped
  <2>3. s = c \/ s < c
    BY <2>1, <2>2
  <2>4. s < c => l[s].gen <= l[c].gen
    BY DEF Ordered
  <2> QED  BY <1>2, <1>4, <2>2, <2>3, <2>4
<1> QED  BY <1>3, <1>4

(* And waits for nothing.                                                  *)
LEMMA SettledOwned ==
  ASSUME NEW ts, NEW T, NEW q, NEW a, NEW g, NEW c, NEW b, TabTyped(ts),
         Marked(ts, T, g, "done", c), a.gen = g, Owned(ts, q, a)
  PROVE  Owned(T, q, b)
<1>1. Len(T) = Len(ts) /\ \A i \in 1..Len(ts) - 1 : i \in 1..Len(ts)
  BY DEF Marked, Twin, TabTyped
<1> SUFFICES ASSUME NEW i \in 1..Len(ts) - 1
             PROVE  /\ T[i].cell # "failed"
                    /\ T[i].cell = "wait" => \E k \in 1..Len(q) : q[k] = T[i].gen
  BY <1>1 DEF Owned
<1>2. T[i].gen = ts[i].gen /\ i \in 1..Len(ts)
  BY <1>1 DEF Marked, Twin
<1>3. CASE ts[i].gen # g
  <2>1. T[i] = ts[i]
    BY <1>2, <1>3 DEF Marked
  <2> QED  BY <1>3, <2>1 DEF Owned
<1>4. CASE ts[i].gen = g
  BY <1>2, <1>4 DEF Marked
<1> QED  BY <1>3, <1>4

(* The handler records the position, then completes the cell.              *)
LEMMA SettleWhole ==
  ASSUME Inv, Inv', Whole, NEW w \in Writers, Settle(w)
  PROVE  Whole'
<1> DEFINE ts == tables[w]
           q == queue[w]
           d == durable[w]
           a == append[w]
           p == pos[w]
           g == a.gen
           c == a.at
           T == Complete(w, g, "done", c)
           I == Idle
<1>1. /\ a.phase = "settle"
      /\ UNCHANGED <<wal, late, manifest>> /\ UNCHANGED <<pc, epoch, base, last>>
      /\ UNCHANGED <<pos, durable, queue, flush, poisoned, put, acked>>
      /\ \E x : covered' = [covered EXCEPT ![w] = x]
      /\ append' = [append EXCEPT ![w] = I]
  BY DEF Settle, store, opening, ghosts
<1>2. pc[w] = "open"
  BY <1>1 DEF Inv, Local, QuietOk
<1>3. /\ AppendOk(ts, a, d) /\ d \in Nat /\ a \in Appending /\ TabTyped(ts) /\ LogTyped(wal)
      /\ Ordered(wal) /\ c \in 1..N /\ N \in Nat /\ DOMAIN wal = 1..N
      /\ append \in [Writers -> Appending] /\ tables \in [Writers -> Seq(MemTable(put))]
      /\ covered \in [Writers -> Nat]
  BY <1>1, <1>2, Serving, AsIs DEF WriterState
<1>4. a.exact = TRUE \/ a.exact = FALSE
  BY <1>3 DEF Appending
<1>5. \/ a.exact = TRUE /\ tables' = [tables EXCEPT ![w] = T]
      \/ a.exact = FALSE /\ tables' = tables
  BY <1>4 DEF Settle
<1>6. I.phase = "idle"
  BY DEF Idle
<1>7. Marked(ts, T, g, "done", c)
  <2> DEFINE how == "done"
  <2> HIDE DEF how, g, c
  <2>1. Marked(ts, Complete(w, g, how, c), g, how, c)
    BY CompleteMarks
  <2> QED  BY <2>1 DEF how
<1> HIDE DEF I, T
<1>8. append'[w] = I
  BY <1>1, <1>3
<1>9. Basis(wal, ts, a, d) /\ (Able(w) => Serves(wal, manifest, ts, q, a, d, p))
  BY <1>2, ServingParts
<1>10. \A r \in late : ~Repeats(w, r)
  BY <1>1 DEF Repeats
<1>11. Able(w)' <=> Able(w)
  BY <1>1, AbleStays
<1>12. \A u \in Writers \ {w} : Untouched(u)
  BY <1>1, <1>3, <1>5 DEF Untouched, Same
<1>13. acked' \subseteq AllRows(wal)
  BY <1>1 DEF Whole, AckedOk
<1>14. durable'[w] = d /\ queue'[w] = q /\ pos'[w] = p
  BY <1>1
<1>15. CASE a.exact = FALSE /\ tables' = tables
  <2> DEFINE l == wal
             m == manifest
  <2>1. Basis(l, ts, a, d) /\ (Able(w) => Serves(l, m, ts, q, a, d, p))
    BY <1>9
  <2>2. a.exact # TRUE
    BY <1>15
  <2> HIDE DEF l, m, ts, q, a, d, p
  <2>3. Basis(l, ts, I, d)
    BY <1>6, <2>1, IdleBasis
  <2>4. ASSUME Able(w) PROVE Serves(l, m, ts, q, I, d, p)
    <3>1. Serves(l, m, ts, q, a, d, p)
      BY <2>1, <2>4
    <3>2. Owned(ts, q, I)
      BY <2>2, <3>1 DEF Serves, Owned
    <3>3. Begun(ts, I, d)
      BY <1>6 DEF Begun, Sending
    <3>4. Landed(l, p, ts, I, d)
      BY <1>1, <1>6, <3>1, IdleHolds DEF Serves
    <3> QED  BY <3>1, <3>2, <3>3, <3>4 DEF Serves
  <2>5. tables'[w] = ts
    BY <1>15 DEF ts
  <2> QED  BY <1>1, <1>2, <1>8, <1>10, <1>11, <1>12, <1>13, <1>14, <2>3, <2>4, <2>5, TaskStill
           DEF l, m
<1>16. CASE a.exact = TRUE /\ tables' = [tables EXCEPT ![w] = T]
  <2> DEFINE l == wal
             m == manifest
  <2>1. tables'[w] = T
    BY <1>3, <1>16
  <2>2. TabTyped(T) /\ Twin(ts, T)
    BY <1>7, <2>1, WriterTypedNext DEF WriterFacts, Marked
  <2>3. /\ Basis(l, ts, a, d) /\ (Able(w) => Serves(l, m, ts, q, a, d, p)) /\ LogTyped(l)
        /\ Ordered(l) /\ c \in DOMAIN l /\ c # 0
    BY <1>3, <1>9
  <2>4. a.gen = g /\ a.at = c
    OBVIOUS
  <2> HIDE DEF l, m, ts, q, a, d, p, g, c
  <2>5. /\ Basis(l, T, a, d)
        /\ \A x : Serves(l, m, ts, x, a, d, p) =>
              /\ Continues(l, T) /\ AtCut(m, T, d) /\ Begun(T, a, d) /\ Landed(l, p, T, a, d)
    BY <1>3, <2>2, <2>3, TwinKeeps
  <2>6. Basis(l, T, I, d)
    BY <1>6, <2>5, IdleBasis
  <2>7. ASSUME Able(w) PROVE Serves(l, m, T, q, I, d, p)
    <3>1. Serves(l, m, ts, q, a, d, p)
      BY <2>3, <2>7
    <3>2. /\ Continues(l, T) /\ AtCut(m, T, d) /\ Landed(l, p, T, a, d)
      BY <2>5, <3>1
    <3>3. AtOk(l, T)
      <4>1. AtOk(l, ts) /\ Data(l[c]) /\ l[c].gen = g
        BY <1>1, <2>4, <3>1 DEF Serves, Landed
      <4> QED  BY <1>3, <1>7, <2>3, <4>1, SettledAt
    <3>4. Owned(T, q, I)
      <4>1. Owned(ts, q, a)
        BY <3>1 DEF Serves
      <4> QED  BY <1>3, <1>7, <2>4, <4>1, SettledOwned
    <3>5. Begun(T, I, d)
      BY <1>6 DEF Begun, Sending
    <3>6. Landed(l, p, T, I, d)
      BY <1>1, <1>6, <3>2, IdleHolds
    <3> QED  BY <3>1, <3>2, <3>3, <3>4, <3>5, <3>6 DEF Serves
  <2> QED  BY <1>1, <1>2, <1>8, <1>10, <1>11, <1>12, <1>13, <1>14, <2>1, <2>6, <2>7, TaskStill
           DEF l, m
<1> QED  BY <1>5, <1>15, <1>16

-----------------------------------------------------------------------------
(* The flush task                                                          *)

(* t2 is ts without its oldest memtable.                                   *)
Rest(ts, t2) ==
  Len(ts) > 1 /\ Len(t2) = Len(ts) - 1 /\ \A i \in 1..Len(t2) : t2[i] = ts[i + 1]

(* The memtables but the oldest keep their order.                          *)
LEMMA RestTables ==
  ASSUME NEW ts, NEW t2, TabTyped(ts), TabTyped(t2), Rest(ts, t2)
  PROVE  /\ \A i \in 1..Len(t2) : \E j \in 1..Len(ts) : j = i + 1 /\ t2[i] = ts[j]
         /\ \A i \in 1..Len(t2) - 1 : \E j \in 1..Len(ts) - 1 : j = i + 1 /\ t2[i] = ts[j]
         /\ \A j \in 1..Len(ts) : j # 1 => \E i \in 1..Len(t2) : j = i + 1 /\ t2[i] = ts[j]
         /\ t2[Len(t2)] = ts[Len(ts)]
         /\ 1 \in 1..Len(ts) - 1 /\ 2 \in 1..Len(ts) /\ t2[1] = ts[2] /\ 1 \in 1..Len(t2)
<1> DEFINE k == Len(ts)
           n == Len(t2)
<1>1. k \in Nat /\ k > 1 /\ n \in Nat /\ n = k - 1
  BY DEF TabTyped, Rest
<1>2. \A i \in 1..n : t2[i] = ts[i + 1]
  BY DEF Rest
<1> HIDE DEF k, n
<1>3. \A i \in 1..n : i + 1 \in 1..k /\ t2[i] = ts[i + 1]
  BY <1>1, <1>2
<1>4. \A i \in 1..n - 1 : i \in 1..n /\ i + 1 \in 1..k - 1
  BY <1>1
<1>5. ASSUME NEW j \in 1..k, j # 1 PROVE \E i \in 1..n : j = i + 1 /\ t2[i] = ts[j]
  <2> DEFINE i == j - 1
  <2>1. i \in 1..n /\ j = i + 1
    BY <1>1, <1>5
  <2> HIDE DEF i
  <2> QED  BY <1>3, <2>1
<1>6. n \in 1..n /\ n + 1 = k /\ 1 \in 1..k - 1 /\ 2 \in 1..k /\ 1 \in 1..n
  BY <1>1
<1>7. t2[n] = ts[k] /\ t2[1] = ts[2]
  <2>1. t2[n] = ts[n + 1] /\ t2[1] = ts[1 + 1]
    BY <1>3, <1>6
  <2> QED  BY <1>6, <2>1
<1> QED  BY <1>3, <1>4, <1>5, <1>6, <1>7 DEF k, n

(* The count and the log, when the oldest memtable goes.                   *)
LEMMA RestNumbered ==
  ASSUME NEW ts, NEW t2, TabTyped(ts), TabTyped(t2), Rest(ts, t2), NEW d \in Nat,
         Numbered(ts, d), End(ts[1]) <= d
  PROVE  Numbered(t2, d) /\ t2[1].gen = ts[1].gen + 1
<1>1. /\ \A i \in 1..Len(t2) : \E j \in 1..Len(ts) : j = i + 1 /\ t2[i] = ts[j]
      /\ \A i \in 1..Len(t2) - 1 : \E j \in 1..Len(ts) - 1 : j = i + 1 /\ t2[i] = ts[j]
      /\ t2[Len(t2)] = ts[Len(ts)]
      /\ 1 \in 1..Len(ts) - 1 /\ 2 \in 1..Len(ts) /\ t2[1] = ts[2] /\ 1 \in 1..Len(t2)
  BY RestTables
<1> DEFINE g == ts[1].gen
<1>2. g \in Nat /\ Len(ts) \in Nat /\ Len(t2) \in Nat
  BY DEF TabTyped
<1>3. \A j \in 1..Len(ts) : ts[j].gen = g + (j - 1)
  BY DEF Numbered
<1>4. t2[1].gen = g + 1
  BY <1>1, <1>2, <1>3
<1>5. ASSUME NEW i \in 1..Len(t2) PROVE t2[i].gen = t2[1].gen + (i - 1)
  <2>1. PICK j \in 1..Len(ts) : j = i + 1 /\ t2[i] = ts[j]
    BY <1>1
  <2>2. t2[i].gen = g + (j - 1)
    BY <1>3, <2>1
  <2> HIDE DEF g
  <2>3. g + (j - 1) = (g + 1) + (i - 1)
    BY <1>2, <2>1
  <2> QED  BY <1>4, <2>2, <2>3
<1>6. ASSUME NEW i \in 1..Len(t2), NEW j \in 1..Len(t2), i < j PROVE End(t2[i]) <= t2[j].off
  <2>1. PICK x \in 1..Len(ts) : x = i + 1 /\ t2[i] = ts[x]
    BY <1>1
  <2>2. PICK y \in 1..Len(ts) : y = j + 1 /\ t2[j] = ts[y]
    BY <1>1
  <2>3. x < y
    BY <1>2, <1>6, <2>1, <2>2
  <2> QED  BY <2>1, <2>2, <2>3 DEF Numbered
<1>7. ASSUME NEW i \in 1..Len(t2) - 1 PROVE t2[i + 1].off = End(t2[i])
  <2>1. PICK x \in 1..Len(ts) - 1 : x = i + 1 /\ t2[i] = ts[x]
    BY <1>1
  <2> DEFINE k == i + 1
  <2>2. k \in 1..Len(t2) /\ k = x
    BY <1>2, <2>1
  <2> HIDE DEF k
  <2>3. PICK y \in 1..Len(ts) : y = k + 1 /\ t2[k] = ts[y]
    BY <1>1, <2>2
  <2>4. y = x + 1
    BY <2>2, <2>3
  <2>5. ts[x + 1].off = End(ts[x])
    BY DEF Numbered
  <2>6. t2[k].off = End(t2[i])
    BY <2>1, <2>3, <2>4, <2>5
  <2> QED  BY <2>6 DEF k
<1>8. t2[1].off <= d
  <2>1. ts[1 + 1].off = End(ts[1])
    BY <1>1 DEF Numbered
  <2> QED  BY <1>1, <2>1
<1>9. d <= End(t2[Len(t2)])
  BY <1>1 DEF Numbered
<1> QED  BY <1>4, <1>5, <1>6, <1>7, <1>8, <1>9 DEF Numbered

(* An append is about a memtable that stays.                               *)
LEMMA RestAppend ==
  ASSUME NEW ts, NEW t2, TabTyped(ts), TabTyped(t2), Rest(ts, t2), NEW d \in Nat,
         NEW a, a.end \in Nat, AppendOk(ts, a, d), Sending(a), End(ts[1]) <= d
  PROVE  /\ \A j \in 1..Len(ts) : ts[j].gen = a.gen => j # 1
         /\ \A x, e : Sends(ts, a, d, x, e) => Sends(t2, a, d, x, e) /\ e.gen > ts[1].gen
<1>1. PICK i \in 1..Len(ts) : ts[i].gen = a.gen /\ a.end <= Len(ts[i].rows) /\ d < ts[i].off + a.end
  BY DEF AppendOk, Sending
<1>2. i # 1
  <2> SUFFICES ASSUME i = 1 PROVE FALSE
    OBVIOUS
  <2> DEFINE x == ts[1].off
             y == Len(ts[1].rows)
             z == a.end
  <2>1. x \in Nat /\ y \in Nat /\ z \in Nat /\ x + y <= d /\ z <= y /\ d < x + z
    BY <1>1 DEF TabTyped, End
  <2> HIDE DEF x, y, z
  <2> QED  BY <2>1
<1>3. \A j \in 1..Len(ts) : ts[j].gen = a.gen => j = i
  BY <1>1, OneTable
<1>4. ASSUME NEW x, NEW e, Sends(ts, a, d, x, e) PROVE Sends(t2, a, d, x, e) /\ e.gen > ts[1].gen
  <2>1. PICK j \in 1..Len(ts) : ts[j].gen = a.gen /\ e.rows = Sent(ts[j], d, a.end)
    BY <1>4 DEF Sends
  <2>2. j # 1
    BY <1>2, <1>3, <2>1
  <2>3. PICK k \in 1..Len(t2) : t2[k] = ts[j]
    BY <2>2, RestTables
  <2>4. Sends(t2, a, d, x, e)
    BY <1>4, <2>1, <2>3 DEF Sends
  <2>5. 1 \in 1..Len(ts) /\ 1 < j
    BY <2>2 DEF TabTyped
  <2>6. ts[1].gen < ts[j].gen /\ ts[1].gen \in Nat /\ ts[j].gen \in Nat
    BY <2>5 DEF TabTyped
  <2>7. e.gen = ts[j].gen
    BY <1>4, <2>1 DEF Sends
  <2> QED  BY <2>4, <2>6, <2>7
<1> QED  BY <1>2, <1>3, <1>4

(* The oldest memtable goes, when the log has it and the manifest, too.    *)
LEMMA RestKeeps ==
  ASSUME NEW l, NEW ts, NEW t2, TabTyped(ts), TabTyped(t2), Rest(ts, t2), NEW d \in Nat,
         NEW a, End(ts[1]) <= d, Basis(l, ts, a, d)
  PROVE  /\ Basis(l, t2, a, d)
         /\ \A m, k, q, p : Serves(l, m, ts, q, a, d, p) /\ k.gen = ts[1].gen + 1
                            => Serves(l, k, t2, q, a, d, p)
<1>1. /\ \A i \in 1..Len(t2) : \E j \in 1..Len(ts) : j = i + 1 /\ t2[i] = ts[j]
      /\ \A i \in 1..Len(t2) - 1 : \E j \in 1..Len(ts) - 1 : j = i + 1 /\ t2[i] = ts[j]
      /\ t2[Len(t2)] = ts[Len(ts)]
  BY RestTables
<1>2. Numbered(t2, d) /\ t2[1].gen = ts[1].gen + 1
  BY RestNumbered DEF Basis
<1>3. \A n : Logged(l, ts, n) => Logged(l, t2, n)
  BY <1>1 DEF Logged
<1>4. \A n : Holds(l, ts, n) => Holds(l, t2, n)
  BY <1>1 DEF Holds
<1>5. \A n : UpTo(t2, a, n) => UpTo(ts, a, n)
  BY <1>1 DEF UpTo
<1>6. Basis(l, t2, a, d)
  BY <1>2, <1>3, <1>5 DEF Basis
<1>7. ASSUME NEW m, NEW k, NEW q, NEW p, Serves(l, m, ts, q, a, d, p), k.gen = ts[1].gen + 1
      PROVE  Serves(l, k, t2, q, a, d, p)
  <2>1. /\ Continues(l, ts) /\ AtOk(l, ts) /\ Owned(ts, q, a) /\ InTurn(q) /\ Begun(ts, a, d)
        /\ Landed(l, p, ts, a, d)
    BY <1>7 DEF Serves
  <2>2. Continues(l, t2)
    <3>1. \A i \in 1..Len(t2) : Rising(t2[i].rows)
      BY <1>1, <2>1 DEF Continues
    <3>2. ASSUME NEW i \in 1..Len(t2), NEW j \in 1..Len(t2), i < j
          PROVE  Below(Rows(t2[i]), Rows(t2[j]))
      <4>1. PICK x \in 1..Len(ts) : x = i + 1 /\ t2[i] = ts[x]
        BY <1>1
      <4>2. PICK y \in 1..Len(ts) : y = j + 1 /\ t2[j] = ts[y]
        BY <1>1
      <4>3. x < y
        BY <3>2, <4>1, <4>2
      <4> QED  BY <2>1, <4>1, <4>2, <4>3 DEF Continues
    <3>3. ASSUME NEW s \in DOMAIN l, Data(l[s])
          PROVE  /\ l[s].gen <= t2[Len(t2)].gen
                 /\ \A i \in 1..Len(t2) : l[s].gen < t2[i].gen => Below(Rows(l[s]), Rows(t2[i]))
      BY <1>1, <2>1, <3>3 DEF Continues
    <3> QED  BY <3>1, <3>2, <3>3 DEF Continues
  <2>3. AtOk(l, t2)
    BY <1>1, <2>1 DEF AtOk
  <2>4. Owned(t2, q, a)
    BY <1>1, <2>1 DEF Owned
  <2>5. Begun(t2, a, d)
    BY <1>1, <2>1 DEF Begun
  <2>6. Landed(l, p, t2, a, d)
    BY <1>4, <1>5, <2>1 DEF Landed
  <2>7. AtCut(k, t2, d)
    BY <1>2, <1>7 DEF AtCut
  <2> QED  BY <2>1, <2>2, <2>3, <2>4, <2>5, <2>6, <2>7 DEF Serves
<1> QED  BY <1>6, <1>7

(* A step of the flush task that the log and the manifest do not see.      *)
LEMMA FlushIdle ==
  ASSUME Inv, Inv', Whole, NEW w \in Writers, pc[w] = "open",
         UNCHANGED <<wal, late, manifest>>, UNCHANGED <<pc, epoch, base, last>>,
         UNCHANGED <<tables, append, durable, queue, pos, covered, acked>>,
         \A u \in Writers \ {w} : flush'[u] = flush[u]
  PROVE  Whole'
<1> DEFINE ts == tables[w]
           q == queue[w]
           d == durable[w]
           a == append[w]
           p == pos[w]
<1>1. Basis(wal, ts, a, d) /\ (Able(w) => Serves(wal, manifest, ts, q, a, d, p))
  BY ServingParts
<1>2. Able(w)' <=> Able(w)
  BY AbleStays
<1>3. \A r : Repeats(w, r) => Repeats(w, r)'
  BY DEF Repeats
<1>4. acked' \subseteq AllRows(wal)
  BY DEF Whole, AckedOk
<1>5. \A u \in Writers \ {w} : Untouched(u)
  BY DEF Untouched, Same
<1>6. tables'[w] = ts /\ append'[w] = a /\ durable'[w] = d /\ queue'[w] = q /\ pos'[w] = p
  OBVIOUS
<1> QED  BY <1>1, <1>2, <1>3, <1>4, <1>5, <1>6, TaskStill

(* What the flush task may rely on.                                        *)
LEMMA Flushing ==
  ASSUME Inv, NEW w \in Writers, flush[w] # "idle"
  PROVE  /\ pc[w] = "open" /\ Len(tables[w]) > 1 /\ End(tables[w][1]) <= durable[w]
         /\ Rest(tables[w], Tail(tables[w])) /\ flush \in [Writers -> {"idle", "check", "commit"}]
         /\ tables \in [Writers -> Seq(MemTable(put))]
<1>1. pc[w] = "open"
  BY DEF Inv, Local, QuietOk
<1>2. /\ Len(tables[w]) > 1 /\ tables[w][1].cell \in {"none", "done"} /\ Len(tables[w]) \in Nat
      /\ FrozenOk(tables[w], durable[w]) /\ tables[w] \in Seq(MemTable(put))
  BY <1>1, AsIs, TypedTables DEF FlushOk
<1>3. End(tables[w][1]) <= durable[w]
  <2>1. 1 \in 1..Len(tables[w]) - 1
    BY <1>2
  <2> QED  BY <1>2, <2>1 DEF FrozenOk
<1>4. Rest(tables[w], Tail(tables[w]))
  <2> DEFINE ts == tables[w]
             t2 == Tail(ts)
  <2>1. /\ Len(t2) = Len(ts) - 1 /\ \A i \in 1..Len(ts) - 1 : t2[i] = ts[i + 1]
    <3> HIDE DEF ts
    <3>1. ts \in Seq(MemTable(put)) /\ Len(ts) >= 1
      BY <1>2 DEF ts
    <3> QED  BY <3>1, WithoutFirst
  <2> HIDE DEF t2
  <2>2. Rest(ts, t2)
    BY <1>2, <2>1 DEF Rest
  <2> QED  BY <2>2 DEF t2
<1> QED  BY <1>1, <1>2, <1>3, <1>4 DEF Inv, Shape, WriterState

(* flush_memtable.                                                         *)
LEMMA FlushTakeWhole ==
  ASSUME Inv, Inv', Whole, NEW w \in Writers, FlushTake(w)
  PROVE  Whole'
<1>1. /\ UNCHANGED <<wal, late, manifest>> /\ UNCHANGED <<pc, epoch, base, last>>
      /\ UNCHANGED <<tables, append, durable, queue, pos, covered, acked>>
      /\ pc[w] = "open" /\ \E f : flush' = [flush EXCEPT ![w] = f]
  BY DEF FlushTake, store, opening, ghosts, FlushTo, FlushFailed
<1>2. flush \in [Writers -> {"idle", "check", "commit"}]
  BY DEF Inv, Shape, WriterState
<1>3. \A u \in Writers \ {w} : flush'[u] = flush[u]
  BY <1>1, <1>2
<1> QED  BY <1>1, <1>3, FlushIdle

(* MemTableFlusher::flush up to the manifest.                              *)
LEMMA FlushCheckWhole ==
  ASSUME Inv, Inv', Whole, NEW w \in Writers, FlushCheck(w)
  PROVE  Whole'
<1> DEFINE ts == tables[w]
           q == queue[w]
           d == durable[w]
           a == append[w]
           p == pos[w]
           T == Tail(ts)
<1>1. /\ UNCHANGED <<wal, late, manifest>> /\ UNCHANGED <<pc, epoch, base, last>>
      /\ UNCHANGED <<append, durable, queue, pos, covered, acked>>
      /\ flush[w] # "idle" /\ \E f : flush' = [flush EXCEPT ![w] = f]
  BY DEF FlushCheck, store, opening, ghosts, FlushTo, FlushFailed, FlushDone
<1>2. /\ pc[w] = "open" /\ End(ts[1]) <= d /\ Rest(ts, T)
      /\ flush \in [Writers -> {"idle", "check", "commit"}]
      /\ tables \in [Writers -> Seq(MemTable(put))]
  BY <1>1, Flushing
<1>3. \/ tables' = tables
      \/ ~Fenced(w) /\ manifest.gen > ts[1].gen /\ tables' = [tables EXCEPT ![w] = T]
  BY DEF FlushCheck, FlushDone, Oldest
<1>4. \A u \in Writers \ {w} : flush'[u] = flush[u]
  BY <1>1, <1>2
<1>5. CASE tables' = tables
  BY <1>1, <1>2, <1>4, <1>5, FlushIdle
<1>6. CASE ~Fenced(w) /\ manifest.gen > ts[1].gen /\ tables' = [tables EXCEPT ![w] = T]
  <2>1. tables'[w] = T
    BY <1>2, <1>6
  <2>2. TabTyped(T)
    BY <2>1, WriterTypedNext DEF WriterFacts
  <2> HIDE DEF T
  <2>3. \A u \in Writers \ {w} : Untouched(u)
    BY <1>1, <1>2, <1>4, <1>6 DEF Untouched, Same
  <2>4. /\ d \in Nat /\ TabTyped(ts) /\ AppendOk(ts, a, d) /\ a.end \in Nat /\ CutTyped(manifest)
        /\ Writing(w)
    BY <1>2, Serving
  <2>5. Basis(wal, ts, a, d) /\ (Able(w) => Serves(wal, manifest, ts, q, a, d, p))
    BY <1>2, ServingParts
  <2>6. Able(w)
    BY <1>6, <2>4, HolderIsAble
  <2>7. manifest.gen = ts[1].gen + 1
    <3>1. ts[1].gen \in Nat /\ manifest.gen \in Nat
      BY <2>4 DEF TabTyped, CutTyped
    <3>2. ts[1].gen = manifest.gen \/ ts[1].gen + 1 = manifest.gen
      BY <2>5, <2>6 DEF Serves, AtCut
    <3> QED  BY <1>6, <3>1, <3>2
  <2>8. Basis(wal, T, a, d) /\ Serves(wal, manifest, T, q, a, d, p)
    <3> DEFINE l == wal
               m == manifest
    <3>1. Basis(l, ts, a, d) /\ Serves(l, m, ts, q, a, d, p) /\ m.gen = ts[1].gen + 1
      BY <2>5, <2>6, <2>7
    <3> HIDE DEF l, m, ts, q, a, d, p
    <3>2. Basis(l, T, a, d) /\ Serves(l, m, T, q, a, d, p)
      BY <1>2, <2>2, <2>4, <3>1, RestKeeps
    <3> QED  BY <3>2 DEF l, m
  <2>9. ASSUME NEW r \in late, Repeats(w, r) PROVE Repeats(w, r)'
    <3>1. Sending(a) /\ Sends(ts, a, d, epoch[w], r.entry)
      BY <2>9 DEF Repeats, Sending
    <3>2. Sends(T, a, d, epoch[w], r.entry)
      <4> DEFINE x == epoch[w]
      <4>1. Sends(ts, a, d, x, r.entry)
        BY <3>1
      <4> HIDE DEF x, ts, a, d
      <4>2. Sends(T, a, d, x, r.entry)
        BY <1>2, <2>2, <2>4, <3>1, <4>1, RestAppend
      <4> QED  BY <4>2 DEF x
    <3> QED  BY <1>1, <2>1, <2>9, <3>2 DEF Repeats
  <2>10. acked' \subseteq AllRows(wal)
    BY <1>1 DEF Whole, AckedOk
  <2>11. append'[w] = a /\ durable'[w] = d /\ queue'[w] = q /\ pos'[w] = p
    BY <1>1
  <2> QED  BY <1>1, <1>2, <2>1, <2>3, <2>8, <2>9, <2>10, <2>11, TaskStill
<1> QED  BY <1>3, <1>5, <1>6

(* The log holds the batches of an able writer up to some count.           *)
LEMMA HoldsSome ==
  ASSUME NEW l, NEW p, NEW ts, TabTyped(ts), NEW a, a.end \in Nat, NEW d \in Nat,
         AppendOk(ts, a, d), Landed(l, p, ts, a, d)
  PROVE  \E n \in Nat : d <= n /\ Holds(l, ts, n)
<1>1. CASE Ahead(l, p) \/ a.phase = "appended"
  <2>1. Sending(a)
    BY <1>1, AheadSends
  <2>2. PICK j \in 1..Len(ts) : ts[j].gen = a.gen /\ d < ts[j].off + a.end
    BY <2>1 DEF AppendOk, Sending
  <2> DEFINE x == ts[j].off
             z == a.end
             n == x + z
  <2>3. x \in Nat /\ z \in Nat /\ d < x + z
    BY <2>2 DEF TabTyped
  <2>4. UpTo(ts, a, n)
    BY <2>2 DEF UpTo
  <2> HIDE DEF x, z
  <2>5. n \in Nat /\ d <= n
    BY <2>3
  <2> HIDE DEF n
  <2>6. Holds(l, ts, n)
    BY <1>1, <2>4, <2>5 DEF Landed
  <2> QED  BY <2>5, <2>6
<1>2. CASE ~(Ahead(l, p) \/ a.phase = "appended")
  <2>1. Holds(l, ts, d) /\ d <= d
    BY <1>2 DEF Landed
  <2> QED  BY <2>1
<1> QED  BY <1>1, <1>2

(* A memtable below the count is what the log holds of its generation.     *)
LEMMA AllHeld ==
  ASSUME NEW l, NEW p, NEW ts, TabTyped(ts), NEW a, a.end \in Nat, NEW d \in Nat,
         AppendOk(ts, a, d), Landed(l, p, ts, a, d), NEW i \in 1..Len(ts), End(ts[i]) <= d
  PROVE  LogRows(l, ts[i].gen) = Rows(ts[i])
<1> DEFINE t == ts[i]
           o == t.off
           y == Len(t.rows)
<1>1. o \in Nat /\ y \in Nat /\ t.rows \in Seq(Nat) /\ o + y <= d
  BY DEF TabTyped, End
<1>2. PICK n \in Nat : d <= n /\ Holds(l, ts, n)
  BY HoldsSome
<1>3. LogRows(l, t.gen) = Prefix(t, n)
  BY <1>2 DEF Holds
<1>4. \A k \in 1..y : o + k <= n
  <2> HIDE DEF o, y
  <2> QED  BY <1>1, <1>2
<1>5. Prefix(t, n) = Rows(t)
  <2>1. \A b : b \in Rows(t) <=> \E k \in 1..Len(t.rows) : t.rows[k] = b
    <3> HIDE DEF t
    <3> QED  BY <1>1, RowsOf
  <2>2. \A b : b \in Prefix(t, n) <=> \E k \in 1..Len(t.rows) : t.off + k <= n /\ t.rows[k] = b
    <3> HIDE DEF t
    <3> QED  BY InPrefix
  <2>3. \A b : b \in Prefix(t, n) <=> b \in Rows(t)
    BY <1>4, <2>1, <2>2
  <2> QED  BY <2>3
<1> QED  BY <1>3, <1>5

(* MemTableFlusher::update_manifest has published the oldest memtable.     *)
LEMMA CommitWhole ==
  ASSUME Inv, Inv', Whole, NEW w \in Writers, flush[w] # "idle", ~Fenced(w),
         manifest.gen = tables[w][1].gen, manifest' = Published(tables[w][1], tables[w][1].at),
         UNCHANGED <<wal, late>>, UNCHANGED <<pc, epoch, base, last>>,
         UNCHANGED <<append, durable, queue, pos, covered, acked>>,
         \A u \in Writers \ {w} : Untouched(u),
         tables'[w] \in {tables[w], Tail(tables[w])}
  PROVE  Whole'
<1> DEFINE ts == tables[w]
           q == queue[w]
           d == durable[w]
           a == append[w]
           p == pos[w]
           t == ts[1]
           c == t.at
           l == wal
           m == manifest
           k == manifest'
           T == Tail(ts)
<1>1. pc[w] = "open" /\ End(ts[1]) <= d /\ Rest(ts, T) /\ Len(ts) > 1
  BY Flushing
<1>2. /\ d \in Nat /\ TabTyped(ts) /\ AppendOk(ts, a, d) /\ a.end \in Nat /\ CutTyped(m)
      /\ Writing(w) /\ LogTyped(l)
  BY <1>1, Serving
<1>3. Able(w)
  BY <1>2, HolderIsAble
<1>4. Basis(l, ts, a, d) /\ Serves(l, m, ts, q, a, d, p)
  BY <1>1, <1>3, ServingParts
<1>5. 1 \in 1..Len(ts) /\ 1 \in 1..Len(ts) - 1
  BY <1>1, <1>2 DEF TabTyped
<1>6. c \in Nat /\ t.gen \in Nat /\ t.gen = m.gen /\ t.rows \in Seq(Nat) /\ Len(t.rows) >= 1
  BY <1>2, <1>5 DEF TabTyped
<1>7. Rows(t) = LogRows(l, t.gen)
  <2>1. Landed(l, p, ts, a, d)
    BY <1>4 DEF Serves
  <2> HIDE DEF l, p, ts, a, d
  <2>2. LogRows(l, ts[1].gen) = Rows(ts[1])
    BY <1>1, <1>2, <1>5, <2>1, AllHeld
  <2> QED  BY <2>2
<1>8. Rows(t) # {}
  <2>1. 1 \in 1..Len(t.rows)
    BY <1>6
  <2> HIDE DEF t
  <2> QED  BY <1>6, <2>1, RowsOf
<1>9. \A s \in DOMAIN l : Data(l[s]) /\ s <= c => l[s].gen <= t.gen
  BY <1>4, <1>5 DEF Serves, AtOk
<1>10. k.gen = ts[1].gen + 1
  <2>1. m \in ShardManifests
    BY DEF Inv, Shape, Stores, ShardManifests
  <2> QED  BY <2>1 DEF Published, ShardManifests
<1>11. tables'[w] = ts \/ tables'[w] = T
  OBVIOUS
<1>12. tables'[w] = T => TabTyped(T)
  BY WriterTypedNext DEF WriterFacts
<1>13. PICK t2 : tables'[w] = t2
  OBVIOUS
<1>14. /\ Basis(l, t2, a, d) /\ Serves(l, k, t2, q, a, d, p)
       /\ \A x, e : Sending(a) /\ Sends(ts, a, d, x, e) =>
            Sends(t2, a, d, x, e) /\ e.gen > ts[1].gen
  <2>1. \A x, e : Sending(a) /\ Sends(ts, a, d, x, e) =>
          e.gen > ts[1].gen /\ (tables'[w] = T => Sends(T, a, d, x, e))
    <3>1. TabTyped(T)
      <4>1. /\ T \in Seq(MemTable(put)) /\ TablesOk(T, N) /\ put \in Nat
        <5> DEFINE n == N
                   b == put
        <5>1. /\ b \in Nat /\ ts \in Seq(MemTable(b)) /\ n \in Nat /\ d \in Nat /\ a \in Appending
              /\ TablesOk(ts, n) /\ FrozenOk(ts, d) /\ QueueOk(ts, q) /\ AppendOk(ts, a, d)
              /\ ExactOk(ts, q, a, d) /\ Len(ts) > 1 /\ ts[1].cell \in {"none", "done"}
          BY <1>1, AsIs, Typed DEF FlushOk
        <5> HIDE DEF n, b, ts, d, q, a
        <5>2. Tail(ts) \in Seq(MemTable(b)) /\ TablesOk(Tail(ts), n)
          BY <5>1, OldestGoes
        <5> QED  BY <5>1, <5>2 DEF n, b
      <4> HIDE DEF T
      <4> QED  BY <4>1, TablesTyped
    <3> HIDE DEF ts, a, d, T
    <3>2. ASSUME Sending(a), NEW x, NEW e, Sends(ts, a, d, x, e)
          PROVE  Sends(T, a, d, x, e) /\ e.gen > ts[1].gen
      BY <1>1, <1>2, <3>1, <3>2, RestAppend
    <3> QED  BY <3>2
  <2>2. CASE tables'[w] = ts
    <3>1. AtCut(k, ts, d)
      BY <1>1, <1>2, <1>10 DEF AtCut, TabTyped
    <3> QED  BY <1>4, <1>13, <2>1, <2>2, <3>1 DEF Serves
  <2>3. CASE tables'[w] = T
    <3> HIDE DEF l, m, k, ts, q, a, d, p, T
    <3>1. Basis(l, T, a, d) /\ Serves(l, k, T, q, a, d, p)
      BY <1>1, <1>2, <1>4, <1>10, <1>12, <2>3, RestKeeps
    <3> QED  BY <1>13, <2>1, <2>3, <3>1
  <2> QED  BY <1>11, <2>2, <2>3
<1>15. WriterOk(w)'
  <2>1. ServeOk(w)'
    BY <1>13, <1>14 DEF ServeOk, Basis
  <2>2. AbleOk(w)'
    BY <1>13, <1>14 DEF AbleOk, Serves
  <2>3. ClaimOk(w)' /\ ReplayOk(w)'
    BY <1>1 DEF ClaimOk, ReplayOk
  <2> QED  BY <2>1, <2>2, <2>3 DEF WriterOk
<1>16. Goes(w) /\ (Writing(w)' => Writing(w) /\ epoch'[w] = epoch[w])
  BY <1>2 DEF Goes
<1>17. ASSUME NEW r \in late, Repeats(w, r) PROVE r.entry.gen > t.gen /\ Repeats(w, r)'
  <2>1. Sending(a) /\ Sends(ts, a, d, epoch[w], r.entry)
    BY <1>17 DEF Repeats, Sending
  <2>2. Sends(t2, a, d, epoch[w], r.entry) /\ r.entry.gen > ts[1].gen
    BY <1>14, <2>1
  <2> QED  BY <1>13, <1>17, <2>2 DEF Repeats
<1> HIDE DEF t, c
<1>18. manifest' = Published(t, c)
  BY DEF t, c
<1> QED  BY <1>2, <1>6, <1>7, <1>8, <1>9, <1>15, <1>16, <1>17, <1>18, PublishStep

(* MemTableFlusher::update_manifest.                                       *)
LEMMA FlushCommitWhole ==
  ASSUME Inv, Inv', Whole, NEW w \in Writers, FlushCommit(w)
  PROVE  Whole'
<1> DEFINE ts == tables[w]
           t == ts[1]
<1>1. /\ UNCHANGED <<wal, late>> /\ UNCHANGED <<pc, epoch, base, last>>
      /\ UNCHANGED <<append, durable, queue, pos, covered, acked>>
      /\ flush[w] # "idle" /\ \E f : flush' = [flush EXCEPT ![w] = f]
  BY DEF FlushCommit, opening, ghosts, FlushTo, FlushFailed, FlushDone
<1>2. /\ pc[w] = "open" /\ flush \in [Writers -> {"idle", "check", "commit"}]
      /\ tables \in [Writers -> Seq(MemTable(put))]
  BY <1>1, Flushing
<1>3. \/ tables' = tables /\ manifest' = manifest
      \/ /\ ~Fenced(w) /\ manifest.gen = t.gen /\ manifest' = Published(t, t.at)
         /\ tables' = tables \/ tables' = [tables EXCEPT ![w] = Tail(ts)]
  BY DEF FlushCommit, FlushDone, Oldest
<1>4. \A u \in Writers \ {w} : flush'[u] = flush[u]
  BY <1>1, <1>2
<1>5. CASE tables' = tables /\ manifest' = manifest
  BY <1>1, <1>2, <1>4, <1>5, FlushIdle
<1>6. CASE /\ ~Fenced(w) /\ manifest.gen = t.gen /\ manifest' = Published(t, t.at)
           /\ tables' = tables \/ tables' = [tables EXCEPT ![w] = Tail(ts)]
  <2>1. \A u \in Writers \ {w} : Untouched(u)
    BY <1>1, <1>2, <1>4, <1>6 DEF Untouched, Same
  <2>2. tables'[w] \in {tables[w], Tail(tables[w])}
    BY <1>2, <1>6
  <2> QED  BY <1>1, <1>6, <2>1, <2>2, CommitWhole
<1> QED  BY <1>3, <1>5, <1>6

-----------------------------------------------------------------------------
(* Crashes and late requests                                               *)

(* The process stops; an append it had sent may still arrive.              *)
LEMMA CrashWhole ==
  ASSUME Inv, Inv', Whole, NEW w \in Writers, Crash(w)
  PROVE  Whole'
<1> DEFINE e == EntryOf(w)
           p == pos[w]
<1>1. /\ UNCHANGED <<wal, manifest>> /\ Goto(w, "dead") /\ Forget(w)
      /\ \/ late' = late
         \/ append[w].phase = "put" /\ late' = late \cup {[at |-> p, entry |-> e]}
  BY DEF Crash
<1>2. /\ pc'[w] = "dead" /\ \A u \in Writers \ {w} : Untouched(u)
  BY <1>1, Gone
<1>3. CASE late' = late
  BY <1>1, <1>3, DiesStep
<1>4. CASE append[w].phase = "put" /\ late' = late \cup {[at |-> p, entry |-> e]}
  <2>1. pc[w] = "open" /\ e.epoch = epoch[w]
    BY <1>4, EntryOfOk
  <2>2. Writing(w) /\ Halted(wal, p, epoch[w]) /\ epoch[w] >= 1
    BY <2>1, Serving
  <2>3. Sending(append[w]) /\ append[w].phase # "appended"
    BY <1>4 DEF Sending
  <2>4. ASSUME p \notin DOMAIN wal PROVE Landable(wal, manifest, e)
    <3>1. Able(w)
      BY <2>2, <2>4, FreeIsAble DEF Whole
    <3>2. Sends(tables[w], append[w], durable[w], epoch[w], e)
      BY <2>1, <2>3, <3>1, EntrySends
    <3> HIDE DEF e
    <3> QED  BY <2>1, <2>3, <2>4, <3>1, <3>2, AimIsNext
  <2> HIDE DEF e
  <2>5. PICK r : r.at = p /\ r.entry = e /\ \A s \in late' : s \in late \/ s = r
    BY <1>4
  <2>6. LateOk(r)'
    <3> SUFFICES ASSUME p \notin DOMAIN wal
                 PROVE  /\ Landable(wal, manifest, e)
                        /\ \A u \in Writers : ~(Writing(u)' /\ epoch'[u] = epoch[w])
      BY <1>1, <2>1, <2>5 DEF LateOk
    <3>1. ASSUME NEW u \in Writers, Writing(u)', epoch'[u] = epoch[w] PROVE FALSE
      <4>1. u # w
        BY <1>2, <3>1 DEF Writing
      <4>2. epoch[u] = epoch[w]
        BY <1>2, <3>1, <4>1 DEF Untouched, Same
      <4> QED  BY <2>2, <4>1, <4>2 DEF Whole, Epochs
    <3> QED  BY <2>4, <3>1
  <2>7. \A s \in late' : s \in late \/ (Halted(wal, s.at, s.entry.epoch) /\ LateOk(s)')
    BY <2>1, <2>2, <2>5, <2>6
  <2> QED  BY <1>1, <2>7, DiesStep
<1> QED  BY <1>1, <1>3, <1>4

(* The store applies a request in flight.                                  *)
LEMMA ApplyLateWhole ==
  ASSUME Inv, Inv', Whole, ApplyLate
  PROVE  Whole'
<1>1. PICK r \in late :
        /\ late' = late \ {r}
        /\ wal' = IF r.at \in DOMAIN wal THEN wal ELSE Land(r.at, r.entry)
        /\ UNCHANGED <<manifest, pc, epoch, base, pos, last, tables, durable, covered, queue,
                       append, flush, poisoned, put, acked>>
  BY DEF ApplyLate, opening, tasks, ghosts
<1>2. late' \subseteq late /\ \A u \in Writers : Untouched(u)
  BY <1>1 DEF Untouched, Same
<1>3. CASE r.at \in DOMAIN wal
  BY <1>1, <1>2, <1>3, IdleStep
<1>4. CASE r.at \notin DOMAIN wal
  <2> DEFINE e == r.entry
  <2>1. r.at \in 1..(N + 1)
    BY StoreTyped DEF StoreFacts
  <2>2. Grown(wal, wal', e)
    BY <1>1, <1>4, <2>1, LandGrows
  <2>3. LateOk(r)
    BY DEF Whole
  <2>4. \A u \in Writers : Goes(u)
    BY <1>2, UntouchedGoes
  <2> HIDE DEF e
  <2>5. CASE ~Data(e)
    BY <1>1, <1>2, <2>2, <2>4, <2>5, LandStep
  <2>6. CASE Data(e) /\ \A u \in Writers : ~Able(u)
    <3>1. Landable(wal, manifest, e)
      BY <1>4, <2>3, <2>6 DEF LateOk, e
    <3> QED  BY <1>1, <1>2, <2>2, <2>4, <2>6, <3>1, LandStep
  <2>7. CASE Data(e) /\ \E u \in Writers : Able(u)
    <3>1. PICK u \in Writers : Able(u)
      BY <2>7
    <3>2. epoch[u] = e.epoch /\ Writing(u)
      BY <1>4, <2>7, <3>1, LateAlone DEF Able, e
    <3>3. Repeats(u, r)
      BY <1>4, <2>3, <2>7, <3>2 DEF LateOk, e
    <3>4. /\ pc[u] = "open" /\ append[u].phase \in {"put", "failed"} /\ Doubt(append[u])
          /\ pos[u] = r.at /\ Sends(tables[u], append[u], durable[u], epoch[u], e)
      BY <3>3 DEF Repeats, e
    <3>5. Sending(append[u]) /\ append[u].phase # "appended"
      BY <3>4 DEF Sending
    <3>6. /\ pc'[u] = "open" /\ tables'[u] = tables[u] /\ durable'[u] = durable[u]
          /\ queue'[u] = queue[u] /\ epoch'[u] = epoch[u] /\ append'[u] = append[u]
          /\ pos'[u] = pos[u]
      BY <1>1, <3>4
    <3>7. pos[u] \notin DOMAIN wal
      BY <1>4, <3>4
    <3> QED  BY <1>1, <1>2, <2>2, <3>1, <3>4, <3>5, <3>6, <3>7, LandWhole
  <2> QED  BY <2>5, <2>6, <2>7
<1> QED  BY <1>3, <1>4

(* What lands, or may land, has rows or no generation.                     *)
LEMMA BlankLands ==
  ASSUME Blank, Kept(wal, wal'),
         \A p \in DOMAIN wal' : p \notin DOMAIN wal => Data(wal'[p]) \/ wal'[p].gen = 0,
         \A r \in late' : \/ r \in late \/ r.at \in DOMAIN wal
                          \/ Data(r.entry) \/ r.entry.gen = 0
  PROVE  Blank'
BY DEF Blank, Kept

(* A put-if-absent that is applied.                                        *)
LEMMA LandKeeps ==
  ASSUME NEW p, p \notin DOMAIN wal, NEW e, wal' = Land(p, e)
  PROVE  Kept(wal, wal') /\ \A q \in DOMAIN wal' : q \notin DOMAIN wal => q = p /\ wal'[q] = e
BY DEF Land, Kept

(* What a failed append may leave behind.                                  *)
LEMMA BlankFails ==
  ASSUME Blank, NEW p, NEW e, p \notin DOMAIN wal => Data(e) \/ e.gen = 0, AppendFails(p, e)
  PROVE  Blank'
<1>1. CASE UNCHANGED <<wal, late>>
  BY <1>1 DEF Blank
<1>2. CASE p \notin DOMAIN wal /\ wal' = Land(p, e) /\ UNCHANGED late
  BY <1>2, LandKeeps, BlankLands
<1>3. CASE late' = late \cup {[at |-> p, entry |-> e]} /\ UNCHANGED wal
  <2>1. \A r \in late' : r \in late \/ (r.at = p /\ r.entry = e)
    BY <1>3
  <2>2. Kept(wal, wal')
    BY <1>3 DEF Kept
  <2> QED  BY <1>3, <2>1, <2>2, BlankLands
<1> QED  BY <1>1, <1>2, <1>3 DEF AppendFails

(* The entry of an append that finds its position free has rows.           *)
LEMMA EntryHasRows ==
  ASSUME Inv, Whole, NEW w \in Writers, append[w].phase = "put", pos[w] \notin DOMAIN wal
  PROVE  Data(EntryOf(w))
<1> DEFINE e == EntryOf(w)
<1>1. pc[w] = "open"
  BY EntryOfOk
<1>2. Writing(w) /\ Sending(append[w]) /\ append[w].phase # "appended"
  BY <1>1 DEF Writing, Sending
<1>3. Able(w)
  BY <1>2, FreeIsAble DEF Whole
<1>4. Sends(tables[w], append[w], durable[w], epoch[w], e)
  BY <1>1, <1>2, <1>3, EntrySends
<1> HIDE DEF e
<1>5. Data(e)
  BY <1>1, <1>2, <1>3, <1>4, AimIsNext
<1> QED  BY <1>5 DEF e

(* The log's entries, and requests that may become entries.                *)
LEMMA BlankStep ==
  ASSUME Inv, Whole, Blank, Next
  PROVE  Blank'
<1>1. CASE UNCHANGED <<wal, late>>
  BY <1>1 DEF Blank
<1>2. CASE ApplyLate
  <2>1. PICK r \in late :
          /\ late' = late \ {r}
          /\ wal' = IF r.at \in DOMAIN wal THEN wal ELSE Land(r.at, r.entry)
    BY <1>2 DEF ApplyLate
  <2>2. CASE r.at \in DOMAIN wal
    BY <2>1, <2>2 DEF Blank
  <2>3. CASE r.at \notin DOMAIN wal
    <3>1. Data(r.entry) \/ r.entry.gen = 0
      BY <2>3 DEF Blank
    <3>2. Kept(wal, wal') /\ \A q \in DOMAIN wal' : q \notin DOMAIN wal => wal'[q] = r.entry
      BY <2>1, <2>3, LandKeeps
    <3> QED  BY <2>1, <3>1, <3>2, BlankLands
  <2> QED  BY <2>2, <2>3
<1>3. ASSUME NEW w \in Writers, WriteSentinel(w) PROVE Blank'
  <2> DEFINE e == Sentinel(w)
             p == pos[w]
  <2>1. e.gen = 0
    BY DEF Sentinel
  <2>2. \/ p \notin DOMAIN wal /\ wal' = Land(p, e) /\ UNCHANGED late
        \/ UNCHANGED <<wal, late>>
        \/ AppendFails(p, e)
    BY <1>3 DEF WriteSentinel
  <2> HIDE DEF e, p
  <2>3. CASE p \notin DOMAIN wal /\ wal' = Land(p, e) /\ UNCHANGED late
    BY <2>1, <2>3, LandKeeps, BlankLands
  <2>4. CASE AppendFails(p, e)
    BY <2>1, <2>4, BlankFails
  <2> QED  BY <1>1, <2>2, <2>3, <2>4
<1>4. ASSUME NEW w \in Writers, AppendPut(w) PROVE Blank'
  <2> DEFINE e == EntryOf(w)
             p == pos[w]
  <2>1. p \notin DOMAIN wal => Data(e)
    BY <1>4, EntryHasRows DEF AppendPut
  <2>2. \/ p \notin DOMAIN wal /\ wal' = Land(p, e) /\ UNCHANGED late
        \/ UNCHANGED <<wal, late>>
        \/ AppendFails(p, e)
    BY <1>4 DEF AppendPut
  <2> HIDE DEF e, p
  <2>3. CASE p \notin DOMAIN wal /\ wal' = Land(p, e) /\ UNCHANGED late
    BY <2>1, <2>3, LandKeeps, BlankLands
  <2>4. CASE AppendFails(p, e)
    BY <2>1, <2>4, BlankFails
  <2> QED  BY <1>1, <2>2, <2>3, <2>4
<1>5. ASSUME NEW w \in Writers, Crash(w) PROVE Blank'
  <2> DEFINE e == EntryOf(w)
             p == pos[w]
  <2>1. /\ wal' = wal
        /\ \/ UNCHANGED late
           \/ append[w].phase = "put" /\ late' = late \cup {[at |-> p, entry |-> e]}
    BY <1>5 DEF Crash
  <2>2. append[w].phase = "put" /\ p \notin DOMAIN wal => Data(e)
    BY EntryHasRows
  <2> HIDE DEF e, p
  <2>3. CASE append[w].phase = "put" /\ late' = late \cup {[at |-> p, entry |-> e]}
    <3>1. \A r \in late' : r \in late \/ (r.at = p /\ r.entry = e)
      BY <2>3
    <3>2. Kept(wal, wal')
      BY <2>1 DEF Kept
    <3> QED  BY <2>1, <2>2, <2>3, <3>1, <3>2, BlankLands
  <2> QED  BY <1>1, <2>1, <2>3
<1>6. ASSUME NEW w \in Writers,
             \/ Claim(w) \/ Discover(w) \/ ReplayEntry(w) \/ ReplayFlush(w) \/ ReplayDone(w)
             \/ Put(w) \/ Freeze(w) \/ TakeTrigger(w) \/ AppendCheck(w) \/ Advance(w) \/ Settle(w)
             \/ FlushTake(w) \/ FlushCheck(w) \/ FlushCommit(w)
      PROVE  UNCHANGED <<wal, late>>
  BY <1>6 DEF Claim, Discover, ReplayEntry, ReplayFlush, ReplayDone, Put, Freeze, TakeTrigger,
              AppendCheck, Advance, Settle, FlushTake, FlushCheck, FlushCommit, store
<1> QED  BY <1>1, <1>2, <1>3, <1>4, <1>5, <1>6 DEF Next

(* Before anything has happened.                                           *)
LEMMA InitWhole == Init => Whole /\ Blank
<1> SUFFICES ASSUME Init PROVE Whole /\ Blank
  OBVIOUS
<1>1. /\ wal = <<>> /\ late = {} /\ acked = {}
      /\ manifest.gen = 1 /\ manifest.replayAfter = 0 /\ manifest.sst = {}
      /\ \A w \in Writers : pc[w] = "new" /\ epoch[w] = 0 /\ last[w] = 0
  BY DEF Init
<1>2. DOMAIN wal = {}
  BY <1>1
<1>3. Ordered(wal) /\ AckedOk /\ Blank
  BY <1>1, <1>2 DEF Ordered, AckedOk, Blank
<1>4. Cut(wal, manifest)
  <2>1. 1..(manifest.gen - 1) = {}
    BY <1>1
  <2> QED  BY <1>1, <1>2, <2>1 DEF Cut
<1>5. Epochs
  BY <1>1 DEF Epochs, Writing
<1>6. \A w \in Writers : WriterOk(w)
  BY <1>1 DEF WriterOk, ClaimOk, ReplayOk, ServeOk, AbleOk
<1> QED  BY <1>1, <1>3, <1>4, <1>5, <1>6 DEF Whole

(* Every step of Next.                                                     *)
LEMMA NextWhole ==
  ASSUME Inv, Inv', Whole, Blank, Next, Steady
  PROVE  Whole'
<1>1. CASE ApplyLate
  BY <1>1, ApplyLateWhole
<1>2. ASSUME NEW w \in Writers,
             \/ Claim(w) \/ Discover(w) \/ WriteSentinel(w)
             \/ ReplayEntry(w) \/ ReplayFlush(w) \/ ReplayDone(w)
      PROVE  Whole'
  BY <1>2, ClaimWhole, DiscoverWhole, WriteSentinelWhole, ReplayEntryWhole, ReplayFlushWhole,
     ReplayDoneWhole
<1>3. ASSUME NEW w \in Writers,
             \/ Put(w) \/ Freeze(w)
             \/ TakeTrigger(w) \/ AppendPut(w) \/ AppendCheck(w) \/ Advance(w) \/ Settle(w)
      PROVE  Whole'
  BY <1>3, PutWhole, FreezeWhole, TakeTriggerWhole, AppendPutWhole, AppendCheckWhole,
     AdvanceWhole, SettleWhole
<1>4. ASSUME NEW w \in Writers, FlushTake(w) \/ FlushCheck(w) \/ FlushCommit(w) \/ Crash(w)
      PROVE  Whole'
  BY <1>4, FlushTakeWhole, FlushCheckWhole, FlushCommitWhole, CrashWhole
<1> QED  BY <1>1, <1>2, <1>3, <1>4 DEF Next

(* Stuttering.                                                             *)
LEMMA StutterWhole ==
  ASSUME Whole, Blank, UNCHANGED vars
  PROVE  Whole' /\ Blank'
<1>1. UNCHANGED <<wal, late, manifest, pc, epoch, base, pos, last, tables, durable, covered, queue,
                  append, acked>>
  BY DEF vars
<1>2. \A w \in Writers : (Writing(w)' <=> Writing(w)) /\ (Fenced(w)' <=> Fenced(w))
  BY <1>1 DEF Writing, Fenced
<1>3. \A w \in Writers : Able(w)' <=> Able(w)
  BY <1>1, <1>2 DEF Able
<1>4. Ordered(wal)' /\ Cut(wal, manifest)' /\ AckedOk' /\ Blank'
  BY <1>1 DEF Whole, AckedOk, Blank
<1>5. Epochs'
  BY <1>1, <1>2 DEF Whole, Epochs
<1>6. ASSUME NEW w \in Writers PROVE WriterOk(w)'
  <2>1. ClaimOk(w) /\ ReplayOk(w) /\ ServeOk(w) /\ AbleOk(w)
    BY DEF Whole, WriterOk
  <2>2. ClaimOk(w)' /\ ReplayOk(w)'
    BY <1>1, <1>3, <2>1 DEF ClaimOk, ReplayOk
  <2>3. ServeOk(w)' /\ AbleOk(w)'
    BY <1>1, <1>3, <2>1 DEF ServeOk, AbleOk
  <2> QED  BY <2>2, <2>3 DEF WriterOk
<1>7. ASSUME NEW r \in late PROVE LateOk(r)'
  <2>1. \A w \in Writers : Repeats(w, r) => Repeats(w, r)'
    BY <1>1 DEF Repeats
  <2> QED  BY <1>1, <1>2, <2>1 DEF Whole, LateOk
<1> QED  BY <1>1, <1>4, <1>5, <1>6, <1>7 DEF Whole

(* A step that is not the giving up of an unanswered append.               *)
LEMMA StepWhole ==
  ASSUME Inv, Inv', Whole, Blank, [Next]_vars, [Steady]_vars
  PROVE  Whole' /\ Blank'
BY StutterWhole, NextWhole, BlankStep

(* As long as no writer gives up an append that may have been applied, the *)
(* log is whole: in order, cut by the manifest between two generations,    *)
(* and continued by the memtables of the one writer that can change it.    *)
THEOREM RecoveryInvariance == Spec /\ [][Steady]_vars => []Whole
<1>1. Spec /\ [][Steady]_vars => [](Whole /\ Blank)
  BY Invariance, InitWhole, StepWhole, PTL DEF Spec
<1> QED  BY <1>1, PTL

-----------------------------------------------------------------------------
(* What a whole log is good for                                            *)

(* A batch is in one entry only.                                           *)
LEMMA OneEntry ==
  ASSUME NEW l, LogTyped(l), Ordered(l), NEW p \in DOMAIN l, NEW q \in DOMAIN l,
         NEW b, b \in Rows(l[p]), b \in Rows(l[q])
  PROVE  p = q
<1>1. p \in Nat /\ q \in Nat /\ l[p].rows \in Seq(Nat) /\ l[q].rows \in Seq(Nat)
  BY DEF LogTyped
<1>2. Data(l[p]) /\ Data(l[q]) /\ b \in Nat
  BY <1>1, RowsOf
<1>3. ~(b < b)
  BY <1>2
<1>4. ~(p < q) /\ ~(q < p)
  BY <1>2, <1>3 DEF Ordered, Below
<1> QED  BY <1>1, <1>4

(* The rows the manifest has published are those of older generations.     *)
LEMMA InFlushed ==
  ASSUME Whole, NEW b
  PROVE  b \in Flushed <=>
           \E s \in manifest.sst : s.gen < manifest.gen /\ b \in LogRows(wal, s.gen)
<1>1. \A s \in manifest.sst : s.gen < manifest.gen /\ Rows(s) = LogRows(wal, s.gen)
  BY DEF Whole, Cut
<1>2. b \in Flushed <=> \E s \in manifest.sst : b \in Rows(s)
  BY DEF Flushed
<1> QED  BY <1>1, <1>2

(* An entry of a published generation is in its SSTable.                   *)
LEMMA OldIsFlushed ==
  ASSUME Inv, Whole, NEW p \in DOMAIN wal, NEW b \in Rows(wal[p]), wal[p].gen < manifest.gen
  PROVE  b \in Flushed
<1>1. LogTyped(wal) /\ CutTyped(manifest) /\ Ordered(wal) /\ Cut(wal, manifest)
  BY StoreTyped DEF StoreFacts, Whole
<1>2. wal[p].rows \in Seq(Nat) /\ wal[p].gen \in Nat /\ manifest.gen \in Nat
  BY <1>1 DEF LogTyped, CutTyped
<1>3. Data(wal[p])
  BY <1>2, RowsOf
<1>4. wal[p].gen >= 1
  BY <1>1, <1>3 DEF Ordered
<1>5. wal[p].gen \in 1..(manifest.gen - 1)
  BY <1>2, <1>4
<1>6. PICK s \in manifest.sst : s.gen = wal[p].gen
  BY <1>1, <1>5 DEF Cut
<1>7. b \in LogRows(wal, s.gen)
  BY <1>6, InLogRows
<1>8. s.gen < manifest.gen
  BY <1>6
<1> QED  BY <1>7, <1>8, InFlushed

(* Replay reaches every other.                                             *)
LEMMA NewIsRebuilt ==
  ASSUME Inv, Whole, NEW p \in DOMAIN wal, NEW b \in Rows(wal[p]), ~(wal[p].gen < manifest.gen)
  PROVE  b \in Rebuilt
<1> DEFINE c == manifest.replayAfter
<1>1. /\ N \in Nat /\ DOMAIN wal = 1..N /\ LogTyped(wal) /\ CutTyped(manifest)
      /\ Ordered(wal) /\ Cut(wal, manifest)
  BY StoreTyped DEF StoreFacts, Whole
<1>2. /\ wal[p].rows \in Seq(Nat) /\ wal[p].gen \in Nat /\ manifest.gen \in Nat /\ c \in Nat
      /\ p \in Nat
  BY <1>1 DEF LogTyped, CutTyped
<1>3. Data(wal[p])
  BY <1>2, RowsOf
<1>4. ~(p <= c)
  BY <1>1, <1>3 DEF Cut
<1>5. wal[p].gen >= manifest.gen
  BY <1>2
<1>6. p > c /\ c + 1..p \subseteq 1..N
  <2> HIDE DEF c
  <2> QED  BY <1>1, <1>2, <1>4
<1>7. p \in Reached
  BY <1>1, <1>6 DEF Reached
<1> QED  BY <1>5, <1>7 DEF Rebuilt

(* An acknowledged batch is in the log.                                    *)
LEMMA AckedInLog ==
  ASSUME Whole, NEW b \in acked
  PROVE  \E p \in DOMAIN wal : b \in Rows(wal[p])
BY InAllRows DEF Whole, AckedOk

(* So it is published, or replay rebuilds it.                              *)
LEMMA WholeRecovers == Inv /\ Whole => AckedRecoverable
<1> SUFFICES ASSUME Inv, Whole, NEW b \in acked PROVE b \in Flushed \cup Rebuilt
  BY DEF AckedRecoverable
<1>1. PICK p \in DOMAIN wal : b \in Rows(wal[p])
  BY AckedInLog
<1> QED  BY <1>1, OldIsFlushed, NewIsRebuilt

(* Generations share no batch.                                             *)
LEMMA WholeSeparates == Inv /\ Whole => OneGeneration
<1> SUFFICES ASSUME Inv, Whole PROVE OneGeneration
  OBVIOUS
<1>1. LogTyped(wal) /\ CutTyped(manifest) /\ Ordered(wal) /\ Cut(wal, manifest)
  BY StoreTyped DEF StoreFacts, Whole
<1>2. ASSUME NEW b \in Flushed, b \in Rebuilt PROVE FALSE
  <2>1. PICK s \in manifest.sst : s.gen < manifest.gen /\ b \in LogRows(wal, s.gen)
    BY <1>2, InFlushed
  <2>2. PICK p \in DOMAIN wal : wal[p].gen = s.gen /\ b \in Rows(wal[p])
    BY <2>1, InLogRows
  <2>3. PICK q \in DOMAIN wal : wal[q].gen >= manifest.gen /\ b \in Rows(wal[q])
    BY <1>2 DEF Rebuilt, Reached
  <2>4. p = q
    BY <1>1, <2>2, <2>3, OneEntry
  <2>5. wal[q].gen \in Nat /\ manifest.gen \in Nat
    BY <1>1 DEF LogTyped, CutTyped
  <2> QED  BY <2>1, <2>2, <2>3, <2>4, <2>5
<1>3. ASSUME NEW s \in manifest.sst, NEW t \in manifest.sst, s # t, NEW b \in Rows(s), b \in Rows(t)
      PROVE  FALSE
  <2>1. b \in LogRows(wal, s.gen) /\ b \in LogRows(wal, t.gen)
    BY <1>1, <1>3 DEF Cut
  <2>2. PICK p \in DOMAIN wal : wal[p].gen = s.gen /\ b \in Rows(wal[p])
    BY <2>1, InLogRows
  <2>3. PICK q \in DOMAIN wal : wal[q].gen = t.gen /\ b \in Rows(wal[q])
    BY <2>1, InLogRows
  <2>4. p = q
    BY <1>1, <2>2, <2>3, OneEntry
  <2> QED  BY <1>1, <1>3, <2>2, <2>3, <2>4 DEF Cut
<1> QED  BY <1>2, <1>3 DEF OneGeneration

(* No batch is in two entries.                                             *)
LEMMA WholeOnce == Inv /\ Whole => AppendedOnce
<1> SUFFICES ASSUME Inv, Whole, NEW p \in DOMAIN wal, NEW q \in DOMAIN wal, p # q,
                    NEW b \in Rows(wal[p]), b \in Rows(wal[q])
             PROVE  FALSE
  BY DEF AppendedOnce
<1>1. LogTyped(wal) /\ Ordered(wal)
  BY StoreTyped DEF StoreFacts, Whole
<1> QED  BY <1>1, OneEntry

(* The last copy of a batch is its only one.                               *)
LEMMA LastCopy ==
  ASSUME NEW l, LogTyped(l), Ordered(l), NEW p \in DOMAIN l, NEW b \in Rows(l[p])
  PROVE  Max({q \in DOMAIN l : b \in Rows(l[q])}) = p
<1>1. {q \in DOMAIN l : b \in Rows(l[q])} = {p}
  BY OneEntry
<1>2. p \in Nat
  BY DEF LogTyped
<1>3. Max({p}) = p
  BY <1>2 DEF Max
<1> QED  BY <1>1, <1>3

(* Batches lie in the log in their order.                                  *)
LEMMA WholeRecent == Inv /\ Whole => RecencyKept
<1> SUFFICES ASSUME Inv, Whole, NEW b \in InLog, NEW c \in InLog, b < c
             PROVE  Max({p \in DOMAIN wal : b \in Rows(wal[p])})
                      <= Max({p \in DOMAIN wal : c \in Rows(wal[p])})
  BY DEF RecencyKept
<1>1. LogTyped(wal) /\ Ordered(wal)
  BY StoreTyped DEF StoreFacts, Whole
<1>2. PICK p \in DOMAIN wal : b \in Rows(wal[p])
  BY DEF InLog
<1>3. PICK q \in DOMAIN wal : c \in Rows(wal[q])
  BY DEF InLog
<1>4. /\ Max({x \in DOMAIN wal : b \in Rows(wal[x])}) = p
      /\ Max({x \in DOMAIN wal : c \in Rows(wal[x])}) = q
  BY <1>1, <1>2, <1>3, LastCopy
<1>5. /\ p \in Nat /\ q \in Nat
      /\ wal[p].rows \in Seq(Nat) /\ wal[q].rows \in Seq(Nat)
  BY <1>1 DEF LogTyped
<1>6. Data(wal[p]) /\ Data(wal[q]) /\ b \in Nat /\ c \in Nat
  BY <1>2, <1>3, <1>5, RowsOf
<1>7. ~(q < p)
  <2>1. q < p => c < b
    BY <1>1, <1>2, <1>3, <1>6 DEF Ordered, Below
  <2> QED  BY <1>6, <2>1
<1> QED  BY <1>4, <1>5, <1>7

(* The memtables leave no generation out.                                  *)
LEMMA SomeTable ==
  ASSUME NEW ts, TabTyped(ts), NEW d, Numbered(ts, d), NEW g \in Nat,
         ts[1].gen <= g, g <= ts[Len(ts)].gen
  PROVE  \E i \in 1..Len(ts) : ts[i].gen = g
<1> DEFINE n == Len(ts)
           x == ts[1].gen
           y == ts[n].gen
<1>1. n \in Nat /\ n >= 1 /\ 1 \in 1..n /\ n \in 1..n
  BY DEF TabTyped
<1>2. x \in Nat /\ y \in Nat /\ y = x + (n - 1)
  BY <1>1 DEF TabTyped, Numbered
<1>3. x <= g /\ g <= y
  OBVIOUS
<1>4. \A i \in 1..n : ts[i].gen = x + (i - 1)
  BY DEF Numbered
<1> HIDE DEF n, x, y
<1>5. g - x + 1 \in 1..n /\ x + ((g - x + 1) - 1) = g
  BY <1>1, <1>2, <1>3
<1>6. \E i \in 1..n : ts[i].gen = g
  BY <1>4, <1>5
<1> QED  BY <1>6 DEF n

(* What an able writer finds in the log from its cut on, it holds.         *)
LEMMA AbleHolds ==
  ASSUME NEW l, NEW m, NEW p, NEW ts, NEW a, NEW d \in Nat, LogTyped(l), CutTyped(m),
         TabTyped(ts), a.end \in Nat, AppendOk(ts, a, d), Landed(l, p, ts, a, d),
         Numbered(ts, d), Continues(l, ts), AtCut(m, ts, d),
         NEW q \in DOMAIN l, NEW b \in Rows(l[q]), ~(l[q].gen < m.gen)
  PROVE  \E i \in 1..Len(ts) : b \in Rows(ts[i])
<1> DEFINE g == l[q].gen
<1>1. l[q].rows \in Seq(Nat) /\ g \in Nat /\ m.gen \in Nat
  BY DEF LogTyped, CutTyped
<1>2. Data(l[q])
  BY <1>1, RowsOf
<1>3. g <= ts[Len(ts)].gen
  BY <1>2 DEF Continues
<1>4. ts[1].gen <= g
  <2>1. ts[1].gen \in Nat
    BY DEF TabTyped
  <2>2. ts[1].gen = m.gen \/ ts[1].gen + 1 = m.gen
    BY DEF AtCut
  <2> QED  BY <1>1, <2>1, <2>2
<1> HIDE DEF g
<1>5. PICK i \in 1..Len(ts) : ts[i].gen = g
  BY <1>1, <1>3, <1>4, SomeTable
<1>6. PICK n \in Nat : Holds(l, ts, n)
  BY HoldsSome
<1>7. b \in LogRows(l, g)
  BY InLogRows DEF g
<1>8. b \in Prefix(ts[i], n)
  BY <1>5, <1>6, <1>7 DEF Holds
<1>9. b \in Rows(ts[i])
  <2> DEFINE t == ts[i]
  <2>1. t.rows \in Seq(Nat) /\ b \in Prefix(t, n)
    BY <1>8 DEF TabTyped
  <2> HIDE DEF t
  <2>2. \E k \in 1..Len(t.rows) : t.rows[k] = b
    BY <2>1, InPrefix
  <2>3. b \in Rows(t)
    BY <2>1, <2>2, RowsOf
  <2> QED  BY <2>3 DEF t
<1> QED  BY <1>9

(* So the holder serves what is acknowledged.                              *)
LEMMA WholeServes == Inv /\ Whole => HolderSeesAcked
<1> SUFFICES ASSUME Inv, Whole, NEW w \in Writers, pc[w] = "open", ~Fenced(w), NEW b \in acked
             PROVE  b \in Flushed \cup Held(w)
  BY DEF HolderSeesAcked
<1>1. PICK q \in DOMAIN wal : b \in Rows(wal[q])
  BY AckedInLog
<1>2. CASE wal[q].gen < manifest.gen
  BY <1>1, <1>2, OldIsFlushed
<1>3. CASE ~(wal[q].gen < manifest.gen)
  <2> DEFINE l == wal
             m == manifest
             p == pos[w]
             ts == tables[w]
             a == append[w]
             d == durable[w]
  <2>1. /\ d \in Nat /\ LogTyped(l) /\ CutTyped(m) /\ TabTyped(ts) /\ a.end \in Nat
        /\ AppendOk(ts, a, d) /\ Numbered(ts, d)
    BY Serving
  <2>2. Able(w)
    BY Serving, HolderIsAble
  <2>3. Landed(l, p, ts, a, d) /\ Continues(l, ts) /\ AtCut(m, ts, d)
    BY <2>2, ServingAble
  <2>4. q \in DOMAIN l /\ b \in Rows(l[q]) /\ ~(l[q].gen < m.gen)
    BY <1>1, <1>3
  <2> HIDE DEF l, m, p, ts, a, d
  <2>5. PICK i \in 1..Len(ts) : b \in Rows(ts[i])
    BY <2>1, <2>3, <2>4, AbleHolds
  <2>6. ts[i] \in Range(ts)
    BY <2>1, <2>5 DEF Range, TabTyped
  <2> QED  BY <2>5, <2>6 DEF Held, ts
<1> QED  BY <1>2, <1>3

(* And replay takes every log.                                             *)
LEMMA WholeAccepts == Whole => ReplayAccepts
BY DEF Whole, WriterOk, ReplayOk, ReplayAccepts

-----------------------------------------------------------------------------
(* The properties                                                          *)

(* AckedRecoverable: a put that returned success survives the loss of      *)
(* every writer.  Its batch is in an SSTable, or replay_memtable_from_wal  *)
(* reaches it from the cursor of the manifest and does not skip it.        *)
THEOREM AckedIsRecoverable == Spec /\ [][Steady]_vars => []AckedRecoverable
BY Invariance, RecoveryInvariance, WholeRecovers, PTL

(* HolderSeesAcked: whoever holds the shard and has opened it serves every *)
(* acknowledged batch; no predecessor has a put accepted behind its back.  *)
THEOREM HolderServesAcked == Spec /\ [][Steady]_vars => []HolderSeesAcked
BY Invariance, RecoveryInvariance, WholeServes, PTL

(* OneGeneration: no batch is in two SSTables, or in an SSTable and in     *)
(* what replay rebuilds, wherever update_manifest puts its cursor.         *)
THEOREM BatchesHaveOneGeneration == Spec /\ [][Steady]_vars => []OneGeneration
BY Invariance, RecoveryInvariance, WholeSeparates, PTL

(* RecencyKept: the log keeps batches in the order of their puts, across   *)
(* generations and writers, so replay finds the newest row of a key last.  *)
THEOREM RecencyIsKept == Spec /\ [][Steady]_vars => []RecencyKept
BY Invariance, RecoveryInvariance, WholeRecent, PTL

(* AppendedOnce: append_for_target writes no batch twice.  What the append *)
(* task does after an error is the only way to the duplicate of the run    *)
(* memwal_duplicate.                                                       *)
THEOREM BatchesAreAppendedOnce == Spec /\ [][Steady]_vars => []AppendedOnce
BY Invariance, RecoveryInvariance, WholeOnce, PTL

(* ReplayAccepts: replay_memtable_from_wal refuses a log only if a batch   *)
(* is in it twice, so, with the theorem above, never.                      *)
THEOREM ReplayAlwaysAccepts == Spec /\ [][Steady]_vars => []ReplayAccepts
BY RecoveryInvariance, WholeAccepts, PTL
=============================================================================
