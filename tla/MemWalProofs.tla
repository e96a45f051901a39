----------------------------- MODULE MemWalProofs -----------------------------
(***************************************************************************)
(* The log of a MemWAL shard, for any number of writers, batches, retries  *)
(* and faults: it has no gap, and data of an older epoch never lies above  *)
(* data of a younger one.                                                  *)
(*                                                                         *)
(* The argument: whoever may still write data, a writer or a request in    *)
(* flight, aims at most one position past the end of the log.  A successor *)
(* is announced in the log before it writes: from then on an older writer  *)
(* has an entry of a younger epoch at or above the position it aims at,    *)
(* and moves past no entry once it is fenced.                              *)
(***************************************************************************)
EXTENDS MemWal, FiniteSetTheorems, WellFoundedInduction, TLAPS

-----------------------------------------------------------------------------
(* The inductive invariant                                                 *)

(* With m batches put.                                                     *)
LogEntry(m) == [epoch : Nat, gen : Nat, rows : Seq(1..m)]
Request(m)  == [at : Nat, entry : LogEntry(m)]
Cells       == {"none", "wait", "done", "failed"}
MemTable(m) == [gen : Nat, off : Nat, rows : Seq(1..m), at : Nat, cell : Cells]
Phases    == {"idle", "put", "exists", "failed", "appended", "settle"}
Appending == [phase : Phases, gen : Nat, end : Nat, exact : BOOLEAN, tries : Nat, at : Nat]
Cursor    == [gen : Nat, replayAfter : Nat, lastSeen : Nat]
Labels    == {"new", "discover", "sentinel", "replay", "open", "dead", "refused"}

(* Positions of the log.                                                   *)
N == Cardinality(DOMAIN wal)

Stores ==
  /\ put \in 0..MaxBatches /\ acked \subseteq 1..put
  /\ wal \in [DOMAIN wal -> LogEntry(put)] /\ \A p \in DOMAIN wal : Len(wal[p].rows) <= Capacity
  /\ late \subseteq Request(put) /\ \A r \in late : Len(r.entry.rows) <= Capacity
  /\ manifest \in [epoch : Nat, gen : Nat, replayAfter : Nat, lastSeen : Nat,
                   sst : SUBSET [gen : Nat, rows : Seq(1..put)]]

WriterState ==
  /\ pc \in [Writers -> Labels]
  /\ epoch \in [Writers -> Nat] /\ pos \in [Writers -> Nat] /\ last \in [Writers -> Nat]
  /\ durable \in [Writers -> Nat] /\ covered \in [Writers -> Nat]
  /\ base \in [Writers -> Cursor]
  /\ tables \in [Writers -> Seq(MemTable(put))]
  /\ queue \in [Writers -> Seq(Nat)]
  /\ append \in [Writers -> Appending]
  /\ flush \in [Writers -> {"idle", "check", "commit"}]
  /\ poisoned \in [Writers -> BOOLEAN]

Shape == Stores /\ WriterState

(* The log has no gap, and nothing points past its end.                    *)
LogOk ==
  /\ N \in Nat /\ DOMAIN wal = 1..N
  /\ manifest.replayAfter <= N
  /\ \A r \in late : r.at \in 1..(N + 1)
  /\ \A p \in DOMAIN wal : wal[p].epoch <= manifest.epoch
  /\ \A r \in late : r.entry.epoch <= manifest.epoch

(* The memtables of a writer, with n entries in the log: there is an       *)
(* active one, a frozen one holds rows, and generations ascend.            *)
TablesOk(ts, n) ==
  /\ Len(ts) >= 1
  /\ \A i \in 1..Len(ts) : Len(ts[i].rows) <= Capacity /\ ts[i].at <= n
  /\ \A i, j \in 1..Len(ts) : i < j => ts[i].gen < ts[j].gen
  /\ \A i \in 1..Len(ts) - 1 : Len(ts[i].rows) >= 1

(* A frozen memtable that the flush f may take is in the log, whose cursor *)
(* is d; a trigger in q that names a memtable is what its flush waits for. *)
Waiting(ts, g) == \E i \in 1..Len(ts) - 1 : ts[i].gen = g /\ ts[i].cell = "wait"

FrozenOk(ts, d) ==
  \A i \in 1..Len(ts) - 1 : ts[i].cell \in {"none", "done"} => End(ts[i]) <= d

QueueOk(ts, q) ==
  /\ \A k \in 1..Len(q) : q[k] # Tick => Waiting(ts, q[k])
  /\ \A k, l \in 1..Len(q) : k < l /\ q[k] # Tick => q[k] # q[l]

FlushOk(ts, f) == f # "idle" => Len(ts) > 1 /\ ts[1].cell \in {"none", "done"}

(* The append a has its memtable, and rows of it that the log lacks; one   *)
(* that a freeze asked for is what the flush of its memtable waits for.    *)
AppendOk(ts, a, d) ==
  a.phase \in {"put", "exists", "failed", "appended"} =>
    \E i \in 1..Len(ts) :
      ts[i].gen = a.gen /\ a.end <= Len(ts[i].rows) /\ d < ts[i].off + a.end

ExactOk(ts, q, a, d) ==
  a.phase # "idle" /\ a.exact = TRUE =>
    /\ a.gen # Tick /\ \A k \in 1..Len(q) : q[k] # a.gen
    /\ \E i \in 1..Len(ts) - 1 :
         /\ ts[i].gen = a.gen /\ ts[i].cell = "wait" /\ a.end = Len(ts[i].rows)
         /\ a.phase = "settle" => End(ts[i]) <= d

TasksOk(w) ==
  /\ TablesOk(tables[w], N) /\ FrozenOk(tables[w], durable[w])
  /\ QueueOk(tables[w], queue[w]) /\ FlushOk(tables[w], flush[w])
  /\ AppendOk(tables[w], append[w], durable[w])
  /\ ExactOk(tables[w], queue[w], append[w], durable[w])

(* Before and after it serves puts, a writer has one memtable and no       *)
(* tasks.                                                                  *)
QuietOk(w) ==
  pc[w] # "open" =>
    /\ Len(tables[w]) = 1 /\ queue[w] = <<>>
    /\ append[w].phase = "idle" /\ flush[w] = "idle"

PosOk(w) ==
  /\ pc[w] \in {"sentinel", "replay", "open"} => pos[w] \in 1..(N + 1)
  /\ append[w].phase = "exists" => pos[w] \in DOMAIN wal
  /\ append[w].phase \in {"appended", "settle"} => append[w].at \in 1..N
  /\ covered[w] <= N /\ base[w].replayAfter <= N
  /\ epoch[w] <= manifest.epoch
  /\ pc[w] \in {"discover", "sentinel"} => epoch[w] >= 1

Local(w) == TasksOk(w) /\ QuietOk(w) /\ PosOk(w)

(* Who may write data, and what stops it.                                  *)
Data(e)    == e.rows # <<>>
Writing(w) == pc[w] \in {"replay", "open"}
Rival(d) ==
  \/ \E w \in Writers : Writing(w) /\ epoch[w] = d
  \/ \E p \in DOMAIN wal : Data(wal[p]) /\ wal[p].epoch = d
  \/ \E r \in late : Data(r.entry) /\ r.entry.epoch = d
Stopped(p, e) == \E s \in DOMAIN wal : p <= s /\ wal[s].epoch > e
Fair(p, e)    == e >= 1 /\ \A d \in Nat : Rival(d) /\ d > e => Stopped(p, e)

Fencing ==
  /\ \A w \in Writers : Writing(w) => Fair(pos[w], epoch[w])
  /\ \A r \in late : Data(r.entry) => Fair(r.at, r.entry.epoch)
  /\ \A d \in Nat : Rival(d) /\ d >= 2 => \E s \in DOMAIN wal : wal[s].epoch = d
  /\ \A w \in Writers : \A s \in DOMAIN wal : wal[s].epoch > epoch[w] => base[w].replayAfter < s

(* Data never goes back to an older epoch.                                 *)
Ascending ==
  \A p, q \in DOMAIN wal : p < q /\ Data(wal[p]) /\ Data(wal[q]) => wal[p].epoch <= wal[q].epoch

Inv == Shape /\ LogOk /\ (\A w \in Writers : Local(w)) /\ Fencing /\ Ascending

-----------------------------------------------------------------------------
(* Numbers                                                                 *)

(* A set of natural numbers that is not empty has a least element.         *)
LEMMA Least ==
  ASSUME NEW S, S \subseteq Nat, S # {}
  PROVE  Min(S) \in S /\ \A x \in S : Min(S) <= x
<1>1. PICK x \in S : \A y \in S : ~ (<<y, x>> \in OpToRel(<, Nat))
  <2> DEFINE R == OpToRel(<, Nat)
  <2>1. IsWellFoundedOn(R, Nat)
    BY NatLessThanWellFounded
  <2> HIDE DEF R
  <2>2. \E z \in S : \A y \in S : ~ (<<y, z>> \in R)
    BY <2>1, WFMin
  <2> QED  BY <2>2 DEF R
<1>2. ASSUME NEW y \in S PROVE x <= y
  <2>1. x \in Nat /\ y \in Nat
    OBVIOUS
  <2>2. ~ (y < x)
    BY <1>1, <2>1 DEF OpToRel
  <2> QED  BY <2>1, <2>2
<1> QED  BY <1>2 DEF Min

(* The greater of two numbers.                                             *)
LEMMA MaxOfTwo ==
  ASSUME NEW a \in Nat, NEW b \in Nat
  PROVE  Max({a, b}) = IF a >= b THEN a ELSE b
BY DEF Max

(* The lesser of two numbers.                                              *)
LEMMA MinOfTwo ==
  ASSUME NEW a \in Nat, NEW b \in Nat
  PROVE  Min({a, b}) = IF a <= b THEN a ELSE b
BY DEF Min

(* BatchStore::local_end lies in the table, and tells whether the cursor   *)
(* is past it.                                                             *)
LEMMA LocalEndOk ==
  ASSUME NEW t, t.off \in Nat, Len(t.rows) \in Nat, NEW n \in Nat
  PROVE  /\ LocalEnd(t, n) \in 0..Len(t.rows)
         /\ LocalEnd(t, n) < Len(t.rows) => n < End(t)
         /\ LocalEnd(t, n) >= Len(t.rows) /\ Len(t.rows) >= 1 => End(t) <= n
<1> DEFINE a == IF n > t.off THEN n - t.off ELSE 0
<1>1. a \in Nat
  OBVIOUS
<1>2. LocalEnd(t, n) = IF a <= Len(t.rows) THEN a ELSE Len(t.rows)
  <2> HIDE DEF a
  <2>1. Min({a, Len(t.rows)}) = IF a <= Len(t.rows) THEN a ELSE Len(t.rows)
    BY <1>1, MinOfTwo
  <2> QED  BY <2>1 DEF LocalEnd, a
<1> QED  BY <1>2 DEF End

(* Where discover_next_position ends: past the last entry of a log without *)
(* gaps, whatever it starts from.                                          *)
LEMMA TipIsEnd ==
  ASSUME N \in Nat, DOMAIN wal = 1..N, NEW h \in Nat
  PROVE  Tip(h) = N + 1
<1>1. CASE h \in 1..N
  <2> DEFINE S == {p \in h + 1 .. N + h + 1 : p \notin 1..N}
  <2>1. S \subseteq Nat /\ N + 1 \in S
    BY <1>1
  <2>2. \A x \in S : N + 1 <= x
    BY <1>1
  <2>3. Tip(h) = Min(S)
    BY <1>1 DEF Tip, N
  <2> HIDE DEF S
  <2>4. Min(S) \in S /\ Min(S) <= N + 1
    BY <2>1, Least
  <2>5. Min(S) \in Nat /\ N + 1 <= Min(S)
    BY <2>1, <2>2, <2>4
  <2> QED  BY <2>3, <2>4, <2>5
<1>2. CASE h \notin 1..N /\ N = 0
  <2>1. DOMAIN wal = {}
    BY <1>2
  <2> QED  BY <1>2, <2>1 DEF Tip
<1>3. CASE h \notin 1..N /\ N # 0
  <2>1. Max(1..N) = N
    <3>1. N \in 1..N /\ \A y \in 1..N : N >= y
      BY <1>3
    <3>2. ASSUME NEW x \in 1..N, \A y \in 1..N : x >= y PROVE x = N
      BY <3>1, <3>2
    <3> QED  BY <3>1, <3>2 DEF Max
  <2>2. DOMAIN wal # {}
    BY <1>3
  <2> QED  BY <1>3, <2>1, <2>2 DEF Tip
<1> QED  BY <1>1, <1>2, <1>3

-----------------------------------------------------------------------------
(* Sequences                                                               *)

(* A function on 1..n is a sequence of length n.                           *)
LEMMA FunctionIsSeq ==
  ASSUME NEW S, NEW n \in Nat, NEW f, DOMAIN f = 1..n, f = [i \in 1..n |-> f[i]],
         \A i \in 1..n : f[i] \in S
  PROVE  f \in Seq(S) /\ Len(f) = n
OBVIOUS

(* Rows stay rows when batches are added.                                  *)
LEMMA MoreRows ==
  ASSUME NEW m \in Nat, NEW n \in Nat, m <= n, NEW s \in Seq(1..m)
  PROVE  s \in Seq(1..n)
<1>1. \A i \in 1..Len(s) : s[i] \in 1..n
  OBVIOUS
<1> QED  BY <1>1

(* A part of a sequence.                                                   *)
LEMMA PartOfSeq ==
  ASSUME NEW S, NEW s \in Seq(S), NEW m \in Nat, NEW n \in Nat, m >= 1, n <= Len(s)
  PROVE  SubSeq(s, m, n) \in Seq(S) /\ Len(SubSeq(s, m, n)) <= Len(s)
OBVIOUS

(* rotate_memtable: the last table is replaced by two.                     *)
LEMMA TwoForLast ==
  ASSUME NEW S, NEW s \in Seq(S), Len(s) >= 1, NEW a \in S, NEW b \in S
  PROVE  /\ Front(s) \o <<a, b>> \in Seq(S)
         /\ Len(Front(s) \o <<a, b>>) = Len(s) + 1
         /\ \A i \in 1..Len(s) - 1 : (Front(s) \o <<a, b>>)[i] = s[i]
         /\ (Front(s) \o <<a, b>>)[Len(s)] = a
         /\ (Front(s) \o <<a, b>>)[Len(s) + 1] = b
<1> DEFINE f == Front(s)
<1>1. f \in Seq(S) /\ Len(f) = Len(s) - 1 /\ \A i \in 1..Len(s) - 1 : f[i] = s[i]
  <2>1. Len(s) \in Nat /\ Len(s) - 1 \in Nat
    OBVIOUS
  <2>2. f = [i \in 1..Len(s) - 1 |-> s[i]]
    BY <2>1 DEF Front
  <2>3. \A i \in 1..Len(s) - 1 : f[i] = s[i] /\ s[i] \in S
    BY <2>1, <2>2
  <2> QED  BY <2>1, <2>2, <2>3
<1>2. <<a, b>> \in Seq(S) /\ Len(<<a, b>>) = 2 /\ <<a, b>>[1] = a /\ <<a, b>>[2] = b
  OBVIOUS
<1> DEFINE t == <<a, b>>
<1> HIDE DEF f, t
<1>3. /\ f \o t \in Seq(S) /\ Len(f \o t) = Len(s) + 1
      /\ \A i \in 1..Len(s) - 1 : (f \o t)[i] = f[i]
      /\ (f \o t)[Len(s)] = t[1] /\ (f \o t)[Len(s) + 1] = t[2]
  BY <1>1, <1>2 DEF t
<1> QED  BY <1>1, <1>2, <1>3 DEF f, t

(* The first trigger, or memtable, is taken away.                          *)
LEMMA WithoutFirst ==
  ASSUME NEW S, NEW s \in Seq(S), Len(s) >= 1
  PROVE  /\ Tail(s) \in Seq(S) /\ Len(Tail(s)) = Len(s) - 1
         /\ \A i \in 1..Len(s) - 1 : Tail(s)[i] = s[i + 1]
OBVIOUS

(* A trigger is added.                                                     *)
LEMMA WithLast ==
  ASSUME NEW S, NEW s \in Seq(S), NEW a \in S
  PROVE  /\ Append(s, a) \in Seq(S) /\ Len(Append(s, a)) = Len(s) + 1
         /\ \A i \in 1..Len(s) : Append(s, a)[i] = s[i]
         /\ Append(s, a)[Len(s) + 1] = a
OBVIOUS

(* One element is replaced.                                                *)
LEMMA OneChanged ==
  ASSUME NEW S, NEW s \in Seq(S), NEW k \in 1..Len(s), NEW a \in S
  PROVE  /\ [s EXCEPT ![k] = a] \in Seq(S) /\ Len([s EXCEPT ![k] = a]) = Len(s)
         /\ [s EXCEPT ![k] = a][k] = a
         /\ \A i \in 1..Len(s) : i # k => [s EXCEPT ![k] = a][i] = s[i]
<1> DEFINE f == [s EXCEPT ![k] = a]
<1>1. DOMAIN s = 1..Len(s) /\ Len(s) \in Nat
  OBVIOUS
<1>2. f = [i \in 1..Len(s) |-> IF i = k THEN a ELSE s[i]]
  BY <1>1
<1>3. f \in Seq(S) /\ Len(f) = Len(s)
  <2>1. \A i \in 1..Len(s) : s[i] \in S
    OBVIOUS
  <2> QED  BY <1>1, <1>2, <2>1
<1>4. \A i \in 1..Len(s) : f[i] = IF i = k THEN a ELSE s[i]
  BY <1>2
<1> QED  BY <1>3, <1>4

-----------------------------------------------------------------------------
(* The log grows at its end                                                *)

LogGrows ==
  /\ N' \in Nat /\ N <= N' /\ DOMAIN wal' = 1..N'
  /\ \A q \in 1..N : wal'[q] = wal[q]

(* A log without gaps grows by its next entry when a request lands on a    *)
(* free position that is not past it.                                      *)
LEMMA LandOk ==
  ASSUME N \in Nat, DOMAIN wal = 1..N, NEW p \in 1..(N + 1), p \notin DOMAIN wal,
         NEW e, wal' = Land(p, e)
  PROVE  /\ p = N + 1 /\ N' = N + 1 /\ LogGrows
         /\ wal'[N + 1] = e /\ wal' = [q \in 1..(N + 1) |-> IF q = N + 1 THEN e ELSE wal[q]]
<1>1. p = N + 1
  OBVIOUS
<1>2. DOMAIN wal \cup {p} = 1..(N + 1)
  BY <1>1
<1>3. wal' = [q \in 1..(N + 1) |-> IF q = N + 1 THEN e ELSE wal[q]]
  BY <1>1, <1>2 DEF Land
<1>4. Cardinality(1..(N + 1)) = N + 1
  <2> DEFINE k == N + 1
  <2>1. k \in Nat /\ k >= 1
    OBVIOUS
  <2> HIDE DEF k
  <2>2. Cardinality(1..k) = k - 1 + 1
    BY <2>1, FS_Interval
  <2> QED  BY <2>1, <2>2 DEF k
<1>5. N' = N + 1
  <2>1. DOMAIN wal' = 1..(N + 1)
    BY <1>3
  <2>2. N' = Cardinality(DOMAIN wal')
    BY DEF N
  <2> QED  BY <1>4, <2>1, <2>2
<1> QED  BY <1>1, <1>3, <1>5 DEF LogGrows

(* A step that leaves the log alone.                                       *)
LEMMA SameLog ==
  ASSUME N \in Nat, DOMAIN wal = 1..N, wal' = wal
  PROVE  LogGrows /\ N' = N
<1>1. N' = N
  BY DEF N
<1> QED  BY <1>1 DEF LogGrows

(* What a step does not touch of a writer.                                 *)
Same(u) ==
  /\ pc'[u] = pc[u] /\ epoch'[u] = epoch[u] /\ base'[u] = base[u] /\ pos'[u] = pos[u]
  /\ tables'[u] = tables[u] /\ durable'[u] = durable[u] /\ covered'[u] = covered[u]
  /\ queue'[u] = queue[u] /\ append'[u] = append[u] /\ flush'[u] = flush[u]

(* A step of another writer leaves the local state of u as it should be.   *)
LEMMA OthersLocal ==
  ASSUME Shape, N \in Nat, DOMAIN wal = 1..N, LogGrows, NEW u \in Writers, Local(u), Same(u),
         manifest'.epoch \in Nat, manifest.epoch <= manifest'.epoch
  PROVE  Local(u)'
<1>1. tables[u] \in Seq(MemTable(put)) /\ Len(tables[u]) \in Nat
      /\ \A i \in 1..Len(tables[u]) : tables[u][i] \in MemTable(put)
  BY DEF Shape, Stores, WriterState
<1>2. TablesOk(tables[u], N')
  <2>1. \A i \in 1..Len(tables[u]) : tables[u][i].at \in Nat
    BY <1>1 DEF MemTable
  <2> QED  BY <2>1 DEF Local, TasksOk, TablesOk, LogGrows
<1>3. TasksOk(u)'
  BY <1>2 DEF Local, TasksOk, Same
<1>5. QuietOk(u)'
  BY DEF Local, QuietOk, Same
<1>6. PosOk(u)'
  <2>1. append[u] \in Appending /\ pos[u] \in Nat /\ covered[u] \in Nat /\ epoch[u] \in Nat
        /\ base[u] \in Cursor /\ manifest.epoch \in Nat
    BY DEF Shape, Stores, WriterState
  <2>2. base[u].replayAfter \in Nat /\ append[u].at \in Nat
    BY <2>1 DEF Cursor, Appending
  <2> QED  BY <2>1, <2>2 DEF Local, PosOk, Same, LogGrows
<1> QED  BY <1>3, <1>5, <1>6 DEF Local

-----------------------------------------------------------------------------
(* Fencing                                                                 *)

(* A writer keeps its position, or moves past an entry that is not younger *)
(* than itself, or has no younger rival.                                   *)
Moves(u) ==
  \/ pos'[u] = pos[u]
  \/ /\ pos'[u] = pos[u] + 1
     /\ \/ pos[u] \in DOMAIN wal /\ wal[pos[u]].epoch <= epoch[u]
        \/ \A d \in Nat : Rival(d) => d <= epoch[u]

(* Fair in the next state, for a position and an epoch of this one.        *)
FairNext(p, e) ==
  /\ e >= 1
  /\ \A d \in Nat : Rival(d)' /\ d > e => \E s \in DOMAIN wal' : p <= s /\ wal'[s].epoch > e

(* A step in which nobody begins to write data.                            *)
LEMMA FencingStep ==
  ASSUME Inv, LogGrows, wal' \in [DOMAIN wal' -> LogEntry(put')], late' \subseteq Request(put'),
         \A u \in Writers : Writing(u)' => Writing(u) /\ epoch'[u] = epoch[u] /\ Moves(u),
         \A r \in late' : Data(r.entry) =>
            \/ r \in late
            \/ \E u \in Writers : Writing(u) /\ r.at = pos[u] /\ r.entry.epoch = epoch[u],
         \A q \in DOMAIN wal' \ DOMAIN wal : Data(wal'[q]) => Rival(wal'[q].epoch),
         \A u \in Writers :
            \/ base'[u].replayAfter = 0
            \/ epoch'[u] = epoch[u] /\ base'[u].replayAfter = base[u].replayAfter
  PROVE  Fencing'
<1>0. /\ N \in Nat /\ DOMAIN wal = 1..N
      /\ \A u \in Writers : pos[u] \in Nat /\ epoch[u] \in Nat
      /\ \A p \in DOMAIN wal : wal[p].epoch \in Nat
      /\ \A p \in DOMAIN wal' : wal'[p].epoch \in Nat
      /\ \A r \in late : r.at \in Nat /\ r.entry.epoch \in Nat
      /\ \A r \in late' : r.at \in Nat /\ r.entry.epoch \in Nat
  BY DEF Inv, Shape, Stores, WriterState, LogOk, LogEntry, Request
<1>1. ASSUME NEW d, Rival(d)' PROVE Rival(d)
  <2>1. CASE \E u \in Writers : Writing(u)' /\ epoch'[u] = d
    BY <2>1 DEF Rival
  <2>2. CASE \E p \in DOMAIN wal' : Data(wal'[p]) /\ wal'[p].epoch = d
    <3>1. PICK p \in DOMAIN wal' : Data(wal'[p]) /\ wal'[p].epoch = d
      BY <2>2
    <3>2. CASE p \in DOMAIN wal
      BY <1>0, <3>1, <3>2 DEF Rival, LogGrows
    <3> QED  BY <3>1, <3>2
  <2>3. CASE \E r \in late' : Data(r.entry) /\ r.entry.epoch = d
    BY <2>3 DEF Rival
  <2> QED  BY <1>1, <2>1, <2>2, <2>3 DEF Rival, Writing, Data
<1>2. ASSUME NEW p, NEW e, Stopped(p, e) PROVE \E s \in DOMAIN wal' : p <= s /\ wal'[s].epoch > e
  BY <1>0, <1>2 DEF Stopped, LogGrows
<1>3. ASSUME NEW p, NEW e, Fair(p, e) PROVE FairNext(p, e)
  BY <1>1, <1>2, <1>3 DEF Fair, FairNext
<1>4. \A u \in Writers : Writing(u)' => Fair(pos[u], epoch[u])'
  <2> SUFFICES ASSUME NEW u \in Writers, Writing(u)' PROVE FairNext(pos'[u], epoch'[u])
    BY DEF Fair, FairNext, Stopped
  <2>0. Writing(u) /\ epoch'[u] = epoch[u] /\ Moves(u) /\ Fair(pos[u], epoch[u])
    BY DEF Inv, Fencing
  <2>1. CASE pos'[u] = pos[u]
    BY <1>3, <2>0, <2>1
  <2>2. CASE pos'[u] = pos[u] + 1 /\ pos[u] \in DOMAIN wal /\ wal[pos[u]].epoch <= epoch[u]
    <3>1. ASSUME Stopped(pos[u], epoch[u]) PROVE Stopped(pos[u] + 1, epoch[u])
      <4>1. PICK s \in DOMAIN wal : pos[u] <= s /\ wal[s].epoch > epoch[u]
        BY <3>1 DEF Stopped
      <4>2. s # pos[u]
        BY <1>0, <2>2, <4>1
      <4> QED  BY <1>0, <4>1, <4>2 DEF Stopped
    <3>2. Fair(pos[u] + 1, epoch[u])
      BY <2>0, <3>1 DEF Fair
    <3> QED  BY <1>3, <2>0, <2>2, <3>2
  <2>3. CASE pos'[u] = pos[u] + 1 /\ \A d \in Nat : Rival(d) => d <= epoch[u]
    <3>1. Fair(pos[u] + 1, epoch[u])
      BY <1>0, <2>0, <2>3 DEF Fair
    <3> QED  BY <1>3, <2>0, <2>3, <3>1
  <2> QED  BY <2>0, <2>1, <2>2, <2>3 DEF Moves
<1>5. \A r \in late' : Data(r.entry) => Fair(r.at, r.entry.epoch)'
  <2> SUFFICES ASSUME NEW r \in late', Data(r.entry) PROVE FairNext(r.at, r.entry.epoch)
    BY DEF Fair, FairNext, Stopped
  <2>1. Fair(r.at, r.entry.epoch)
    BY DEF Inv, Fencing
  <2> QED  BY <1>3, <2>1
<1>6. \A d \in Nat : Rival(d)' /\ d >= 2 => \E s \in DOMAIN wal' : wal'[s].epoch = d
  BY <1>0, <1>1 DEF Inv, Fencing, LogGrows
<1>7. \A u \in Writers : \A s \in DOMAIN wal' :
        wal'[s].epoch > epoch'[u] => base'[u].replayAfter < s
  <2> SUFFICES ASSUME NEW u \in Writers, NEW s \in DOMAIN wal', wal'[s].epoch > epoch'[u]
               PROVE  base'[u].replayAfter < s
    OBVIOUS
  <2>1. base[u].replayAfter \in Nat /\ base[u].replayAfter <= N
    BY DEF Inv, Shape, Stores, WriterState, Cursor, Local, PosOk
  <2>2. s \in Nat /\ s >= 1
    BY DEF LogGrows
  <2>3. CASE base'[u].replayAfter = 0
    BY <2>2, <2>3
  <2>4. CASE epoch'[u] = epoch[u] /\ base'[u].replayAfter = base[u].replayAfter
    <3>1. CASE s \in DOMAIN wal
      BY <1>0, <2>4, <3>1 DEF Inv, Fencing, LogGrows
    <3>2. CASE s \notin DOMAIN wal
      BY <1>0, <2>1, <2>2, <2>4, <3>2
    <3> QED  BY <3>1, <3>2
  <2> QED  BY <2>3, <2>4
<1> QED  BY <1>4, <1>5, <1>6, <1>7 DEF Fencing, Data

(* Whoever aims at the end of the log has no younger rival.                *)
LEMMA Unstopped ==
  ASSUME Inv, NEW p, p \notin DOMAIN wal, p \in 1..(N + 1), NEW e, Fair(p, e)
  PROVE  \A d \in Nat : Rival(d) => ~(d > e)
BY DEF Fair, Stopped, Inv, LogOk

(* Data that lands without a younger rival keeps the log ascending.        *)
LEMMA AscendingStep ==
  ASSUME Inv, LogGrows, wal' \in [DOMAIN wal' -> LogEntry(put')],
         \A q \in DOMAIN wal' \ DOMAIN wal :
            /\ q = N + 1
            /\ Data(wal'[q]) => \A d \in Nat : Rival(d) => ~(d > wal'[q].epoch)
  PROVE  Ascending'
<1>0. /\ N \in Nat /\ DOMAIN wal = 1..N
      /\ \A p \in DOMAIN wal : wal[p].epoch \in Nat
      /\ \A p \in DOMAIN wal' : wal'[p].epoch \in Nat
  BY DEF Inv, Shape, Stores, WriterState, LogOk, LogEntry
<1> SUFFICES ASSUME NEW p \in DOMAIN wal', NEW q \in DOMAIN wal',
                    p < q, Data(wal'[p]), Data(wal'[q])
             PROVE  wal'[p].epoch <= wal'[q].epoch
  BY DEF Ascending, Data
<1>1. p \in DOMAIN wal
  <2>1. p \in Nat /\ q \in Nat /\ p >= 1
    BY DEF LogGrows
  <2>2. q \in DOMAIN wal \/ q = N + 1
    OBVIOUS
  <2> QED  BY <1>0, <2>1, <2>2
<1>2. wal'[p] = wal[p]
  BY <1>0, <1>1 DEF LogGrows
<1>3. CASE q \in DOMAIN wal
  <2>1. wal'[q] = wal[q]
    BY <1>0, <1>3 DEF LogGrows
  <2> QED  BY <1>1, <1>2, <1>3, <2>1 DEF Inv, Ascending
<1>4. CASE q \notin DOMAIN wal
  <2>1. Rival(wal[p].epoch)
    BY <1>1, <1>2 DEF Rival
  <2> QED  BY <1>0, <1>1, <1>2, <1>4, <2>1
<1> QED  BY <1>3, <1>4

-----------------------------------------------------------------------------
(* Steps of one writer                                                     *)

(* What the invariant says of the types of w's state.                      *)
LEMMA Typed ==
  ASSUME Inv, NEW w \in Writers
  PROVE  /\ N \in Nat /\ DOMAIN wal = 1..N
         /\ put \in Nat /\ MaxBatches \in Nat /\ Capacity \in Nat /\ Capacity >= 1
         /\ \A p \in DOMAIN wal : wal[p] \in LogEntry(put)
         /\ pc[w] \in Labels /\ epoch[w] \in Nat /\ pos[w] \in Nat /\ last[w] \in Nat
         /\ durable[w] \in Nat /\ covered[w] \in Nat
         /\ base[w] \in Cursor /\ base[w].replayAfter \in Nat /\ base[w].replayAfter <= N
         /\ queue[w] \in Seq(Nat) /\ append[w] \in Appending
         /\ manifest.epoch \in Nat /\ epoch[w] <= manifest.epoch
<1>1. MaxBatches \in Nat /\ Capacity \in Nat /\ Capacity >= 1
  BY MemWalAssumption
<1>2. /\ N \in Nat /\ DOMAIN wal = 1..N /\ manifest.epoch \in Nat
      /\ \A p \in DOMAIN wal : wal[p] \in LogEntry(put)
  BY DEF Inv, Shape, Stores, LogOk
<1>3. put \in Nat
  BY <1>1 DEF Inv, Shape, Stores
<1>4. /\ pc[w] \in Labels /\ epoch[w] \in Nat /\ pos[w] \in Nat /\ last[w] \in Nat
      /\ durable[w] \in Nat /\ covered[w] \in Nat /\ base[w] \in Cursor
      /\ queue[w] \in Seq(Nat) /\ append[w] \in Appending
  BY DEF Inv, Shape, WriterState
<1>5. base[w].replayAfter <= N /\ epoch[w] <= manifest.epoch
  BY DEF Inv, Local, PosOk
<1> QED  BY <1>1, <1>2, <1>3, <1>4, <1>5 DEF Cursor

(* And of its memtables.                                                   *)
LEMMA TypedTables ==
  ASSUME Inv, NEW w \in Writers
  PROVE  /\ tables[w] \in Seq(MemTable(put)) /\ Len(tables[w]) \in Nat /\ Len(tables[w]) >= 1
         /\ \A i \in 1..Len(tables[w]) :
              /\ tables[w][i] \in MemTable(put)
              /\ tables[w][i].gen \in Nat /\ tables[w][i].off \in Nat
              /\ tables[w][i].at \in Nat /\ tables[w][i].rows \in Seq(1..put)
              /\ Len(tables[w][i].rows) \in Nat /\ tables[w][i].cell \in Cells
         /\ Active(w) = tables[w][Len(tables[w])] /\ Oldest(w) = tables[w][1]
<1>1. tables[w] \in Seq(MemTable(put)) /\ Len(tables[w]) \in Nat /\ Len(tables[w]) >= 1
  BY DEF Inv, Shape, WriterState, Local, TasksOk, TablesOk
<1>2. \A i \in 1..Len(tables[w]) : tables[w][i] \in MemTable(put)
  BY <1>1
<1>3. \A i \in 1..Len(tables[w]) :
        /\ tables[w][i].gen \in Nat /\ tables[w][i].off \in Nat
        /\ tables[w][i].at \in Nat /\ tables[w][i].rows \in Seq(1..put)
        /\ tables[w][i].cell \in Cells
  BY <1>2 DEF MemTable
<1> QED  BY <1>1, <1>2, <1>3 DEF Active, Oldest, Last

(* A step of w that leaves the log and the requests in flight alone.       *)
LEMMA QuietStep ==
  ASSUME Inv, NEW w \in Writers, Shape', UNCHANGED <<wal, late>>,
         manifest'.epoch = manifest.epoch, manifest'.replayAfter <= N,
         \A u \in Writers \ {w} : Same(u),
         Writing(w)' => Writing(w) /\ epoch'[w] = epoch[w] /\ Moves(w),
         \/ base'[w].replayAfter = 0
         \/ epoch'[w] = epoch[w] /\ base'[w].replayAfter = base[w].replayAfter,
         Local(w)'
  PROVE  Inv'
<1>1. N \in Nat /\ DOMAIN wal = 1..N /\ LogGrows /\ N' = N /\ manifest.epoch \in Nat
  BY Typed, SameLog
<1>2. \A u \in Writers : Local(u)'
  <2> SUFFICES ASSUME NEW u \in Writers \ {w} PROVE Local(u)'
    OBVIOUS
  <2>1. Shape /\ Local(u) /\ Same(u) /\ manifest'.epoch \in Nat
        /\ manifest.epoch <= manifest'.epoch
    BY <1>1 DEF Inv
  <2> QED  BY <1>1, <2>1, OthersLocal
<1>3. wal' \in [DOMAIN wal' -> LogEntry(put')] /\ late' \subseteq Request(put')
  BY DEF Shape, Stores
<1>4. Fencing'
  <2>1. \A u \in Writers : Writing(u)' => Writing(u) /\ epoch'[u] = epoch[u] /\ Moves(u)
    BY DEF Writing, Same, Moves
  <2>2. \A u \in Writers :
          \/ base'[u].replayAfter = 0
          \/ epoch'[u] = epoch[u] /\ base'[u].replayAfter = base[u].replayAfter
    BY DEF Same
  <2>3. \A r \in late' : Data(r.entry) => r \in late
    OBVIOUS
  <2>4. DOMAIN wal' \ DOMAIN wal = {}
    OBVIOUS
  <2> QED  BY <1>1, <1>3, <2>1, <2>2, <2>3, <2>4, FencingStep
<1>5. Ascending'
  BY DEF Inv, Ascending, Data
<1>6. LogOk'
  BY <1>1 DEF Inv, LogOk
<1> QED  BY <1>2, <1>4, <1>5, <1>6 DEF Inv

(* What a process that is gone leaves is as it should be.                  *)
LEMMA ForgetOk ==
  ASSUME Inv, NEW w \in Writers, NEW l \in {"dead", "refused"}, Goto(w, l), Forget(w),
         N' \in Nat, N <= N', manifest'.epoch \in Nat, manifest.epoch <= manifest'.epoch
  PROVE  /\ WriterState' /\ Local(w)' /\ ~Writing(w)' /\ base'[w].replayAfter = 0
         /\ \A u \in Writers \ {w} : Same(u)
         /\ put' = put /\ acked' = acked
<1> DEFINE T == Table(1, 0)
           I == Idle
           B == [gen |-> 1, replayAfter |-> 0, lastSeen |-> 0]
<1>1. put' = put /\ acked' = acked
  BY DEF Forget, ghosts
<1>2. T \in MemTable(put) /\ T.rows = <<>> /\ Len(T.rows) = 0 /\ T.at = 0
      /\ MemTable(put') = MemTable(put)
  BY <1>1 DEF MemTable, Cells, Table
<1>3. <<T>> \in Seq(MemTable(put)) /\ Len(<<T>>) = 1 /\ <<T>>[1] = T
  BY <1>2
<1>4. I \in Appending /\ I.phase = "idle"
  BY DEF Idle, Appending, Phases
<1>5. B \in Cursor /\ B.replayAfter = 0
  BY DEF Cursor
<1>6. /\ pc' = [pc EXCEPT ![w] = l] /\ epoch' = [epoch EXCEPT ![w] = 0]
      /\ base' = [base EXCEPT ![w] = B] /\ pos' = [pos EXCEPT ![w] = 0]
      /\ last' = [last EXCEPT ![w] = 0] /\ tables' = [tables EXCEPT ![w] = <<T>>]
      /\ durable' = [durable EXCEPT ![w] = 0] /\ covered' = [covered EXCEPT ![w] = 0]
      /\ queue' = [queue EXCEPT ![w] = <<>>] /\ append' = [append EXCEPT ![w] = I]
      /\ flush' = [flush EXCEPT ![w] = "idle"]
      /\ poisoned' = [poisoned EXCEPT ![w] = FALSE]
  BY DEF Forget, Goto
<1>7. WriterState /\ Capacity \in Nat /\ N \in Nat /\ manifest.epoch \in Nat
  BY Typed DEF Inv, Shape
<1> HIDE DEF T, I, B
<1>8. WriterState'
  BY <1>2, <1>3, <1>4, <1>5, <1>6, <1>7 DEF WriterState, Labels
<1>9. /\ pc'[w] = l /\ epoch'[w] = 0 /\ base'[w] = B /\ pos'[w] = 0 /\ tables'[w] = <<T>>
      /\ covered'[w] = 0 /\ queue'[w] = <<>> /\ append'[w] = I /\ flush'[w] = "idle"
  BY <1>6, <1>7 DEF WriterState
<1>10. TablesOk(<<T>>, N')
  BY <1>2, <1>3, <1>7 DEF TablesOk
<1>11. TasksOk(w)' /\ QuietOk(w)'
  <2>1. FrozenOk(<<T>>, durable'[w]) /\ QueueOk(<<T>>, <<>>) /\ FlushOk(<<T>>, "idle")
    BY <1>3 DEF FrozenOk, QueueOk, FlushOk
  <2>2. AppendOk(<<T>>, I, durable'[w]) /\ ExactOk(<<T>>, <<>>, I, durable'[w])
    BY <1>4 DEF AppendOk, ExactOk
  <2> QED  BY <1>3, <1>4, <1>9, <1>10, <2>1, <2>2 DEF TasksOk, QuietOk
<1>12. PosOk(w)'
  BY <1>4, <1>5, <1>7, <1>9 DEF PosOk
<1>13. \A u \in Writers \ {w} : Same(u)
  BY <1>6, <1>7 DEF Same, WriterState
<1> QED  BY <1>1, <1>5, <1>8, <1>9, <1>10, <1>11, <1>12, <1>13 DEF Local, Writing

(* A step in which an entry lands, or a request is left in flight.         *)
LEMMA StoreStep ==
  ASSUME Inv, Shape', LogGrows, manifest' = manifest,
         \A q \in DOMAIN wal' \ DOMAIN wal :
           /\ q = N + 1 /\ wal'[q].epoch <= manifest.epoch
           /\ Data(wal'[q]) => /\ Rival(wal'[q].epoch)
                               /\ \A d \in Nat : Rival(d) => ~(d > wal'[q].epoch),
         \A r \in late' :
           \/ r \in late
           \/ /\ r.at \in 1..(N + 1) /\ r.entry.epoch <= manifest.epoch
              /\ Data(r.entry) => \E u \in Writers : /\ Writing(u) /\ r.at = pos[u]
                                                     /\ r.entry.epoch = epoch[u],
         \A u \in Writers :
           /\ Local(u)'
           /\ Writing(u)' => Writing(u) /\ epoch'[u] = epoch[u] /\ Moves(u)
           /\ \/ base'[u].replayAfter = 0
              \/ epoch'[u] = epoch[u] /\ base'[u].replayAfter = base[u].replayAfter
  PROVE  Inv'
<1>1. N \in Nat /\ DOMAIN wal = 1..N /\ N' \in Nat /\ N <= N' /\ DOMAIN wal' = 1..N'
      /\ \A q \in 1..N : wal'[q] = wal[q]
  BY DEF Inv, LogOk, LogGrows
<1>2. wal' \in [DOMAIN wal' -> LogEntry(put')] /\ late' \subseteq Request(put')
  BY DEF Shape, Stores
<1>3. Fencing'
  BY <1>2, FencingStep
<1>4. Ascending'
  BY <1>2, AscendingStep
<1>5. LogOk'
  <2>1. manifest.replayAfter \in Nat /\ manifest.replayAfter <= N
    BY DEF Inv, Shape, Stores, LogOk
  <2>2. \A r \in late' : r.at \in 1..(N' + 1) /\ r.entry.epoch <= manifest.epoch
    <3> SUFFICES ASSUME NEW r \in late' PROVE r.at \in 1..(N + 1) /\ r.entry.epoch <= manifest.epoch
      BY <1>1
    <3> QED  BY DEF Inv, LogOk
  <2>3. \A p \in DOMAIN wal' : wal'[p].epoch <= manifest.epoch
    <3> SUFFICES ASSUME NEW p \in DOMAIN wal' PROVE wal'[p].epoch <= manifest.epoch
      OBVIOUS
    <3>1. CASE p \in DOMAIN wal
      <4>1. wal'[p] = wal[p]
        BY <1>1, <3>1
      <4> QED  BY <3>1, <4>1 DEF Inv, LogOk
    <3> QED  BY <3>1
  <2> QED  BY <1>1, <2>1, <2>2, <2>3 DEF LogOk
<1> QED  BY <1>3, <1>4, <1>5 DEF Inv

(* Types of a log that has grown by an entry.                              *)
LEMMA LandTyped ==
  ASSUME Inv, put' = put, NEW p \in 1..(N + 1), p \notin DOMAIN wal,
         NEW e \in LogEntry(put), Len(e.rows) <= Capacity, wal' = Land(p, e)
  PROVE  /\ LogGrows /\ p = N + 1 /\ N' = N + 1 /\ wal'[N + 1] = e
         /\ DOMAIN wal' \ DOMAIN wal = {N + 1}
         /\ wal' \in [DOMAIN wal' -> LogEntry(put')]
         /\ \A q \in DOMAIN wal' : Len(wal'[q].rows) <= Capacity
<1>1. N \in Nat /\ DOMAIN wal = 1..N
  BY DEF Inv, LogOk
<1>2. /\ p = N + 1 /\ N' = N + 1 /\ LogGrows /\ wal'[N + 1] = e
      /\ wal' = [q \in 1..(N + 1) |-> IF q = N + 1 THEN e ELSE wal[q]]
  BY <1>1, LandOk
<1>3. LogEntry(put') = LogEntry(put)
  BY DEF LogEntry
<1>4. DOMAIN wal' = 1..(N + 1) /\ \A q \in 1..N : wal'[q] = wal[q]
  BY <1>1, <1>2
<1>5. \A q \in 1..N : wal[q] \in LogEntry(put) /\ Len(wal[q].rows) <= Capacity
  BY <1>1 DEF Inv, Shape, Stores
<1>6. \A q \in 1..(N + 1) : wal'[q] \in LogEntry(put) /\ Len(wal'[q].rows) <= Capacity
  <2> SUFFICES ASSUME NEW q \in 1..(N + 1)
               PROVE  wal'[q] \in LogEntry(put) /\ Len(wal'[q].rows) <= Capacity
    OBVIOUS
  <2>1. CASE q = N + 1
    BY <1>2, <2>1
  <2>2. CASE q # N + 1
    <3>1. q \in 1..N
      BY <1>1, <2>2
    <3> QED  BY <1>4, <1>5, <3>1
  <2> QED  BY <2>1, <2>2
<1>7. DOMAIN wal' \ DOMAIN wal = {N + 1}
  BY <1>1, <1>4
<1> QED  BY <1>2, <1>3, <1>4, <1>6, <1>7

(* A delayed request is applied.                                           *)
LEMMA ApplyLateStep ==
  ASSUME Inv, ApplyLate
  PROVE  Inv'
<1>1. PICK r \in late :
        /\ late' = late \ {r}
        /\ wal' = IF r.at \in DOMAIN wal THEN wal ELSE Land(r.at, r.entry)
  BY DEF ApplyLate
<1>2. /\ UNCHANGED <<manifest, pc, epoch, base, pos, last, tables, durable, covered, queue,
                     append, flush, poisoned, put, acked>>
  BY DEF ApplyLate, opening, tasks, ghosts
<1>3. /\ N \in Nat /\ DOMAIN wal = 1..N /\ manifest.epoch \in Nat
      /\ r \in Request(put) /\ Len(r.entry.rows) <= Capacity
      /\ r.at \in 1..(N + 1) /\ r.entry.epoch <= manifest.epoch
  BY DEF Inv, LogOk, Shape, Stores
<1>4. /\ r.entry \in LogEntry(put) /\ LogEntry(put') = LogEntry(put)
      /\ Request(put') = Request(put) /\ MemTable(put') = MemTable(put)
  BY <1>2, <1>3 DEF Request, LogEntry, MemTable
<1>5. CASE r.at \in DOMAIN wal
  <2>1. wal' = wal /\ LogGrows /\ N' = N
    BY <1>1, <1>3, <1>5, SameLog
  <2>2. Shape'
    BY <1>1, <1>2, <1>4, <2>1 DEF Inv, Shape, Stores, WriterState
  <2>3. \A u \in Writers : Local(u)'
    <3> SUFFICES ASSUME NEW u \in Writers PROVE Local(u)'
      OBVIOUS
    <3>1. Same(u) /\ Shape /\ Local(u) /\ manifest'.epoch \in Nat
          /\ manifest.epoch <= manifest'.epoch
      BY <1>2, <1>3 DEF Same, Inv
    <3> QED  BY <1>3, <2>1, <3>1, OthersLocal
  <2> QED  BY <1>1, <1>2, <2>1, <2>2, <2>3, StoreStep DEF Writing, Moves
<1>6. CASE r.at \notin DOMAIN wal
  <2>1. wal' = Land(r.at, r.entry)
    BY <1>1, <1>6
  <2> DEFINE p == r.at  e == r.entry
  <2>2. p \in 1..(N + 1) /\ p \notin DOMAIN wal /\ e \in LogEntry(put) /\ Len(e.rows) <= Capacity
        /\ wal' = Land(p, e) /\ put' = put
    BY <1>2, <1>3, <1>4, <1>6, <2>1
  <2> HIDE DEF p, e
  <2>3. /\ LogGrows /\ p = N + 1 /\ N' = N + 1 /\ wal'[N + 1] = e
        /\ DOMAIN wal' \ DOMAIN wal = {N + 1}
        /\ wal' \in [DOMAIN wal' -> LogEntry(put')]
        /\ \A q \in DOMAIN wal' : Len(wal'[q].rows) <= Capacity
    BY <2>2, LandTyped
  <2>4. Shape'
    BY <1>1, <1>2, <1>4, <2>3 DEF Inv, Shape, Stores, WriterState
  <2>5. \A u \in Writers : Local(u)'
    <3> SUFFICES ASSUME NEW u \in Writers PROVE Local(u)'
      OBVIOUS
    <3>1. Same(u) /\ Shape /\ Local(u) /\ manifest'.epoch \in Nat
          /\ manifest.epoch <= manifest'.epoch
      BY <1>2, <1>3 DEF Same, Inv
    <3> QED  BY <1>3, <2>3, <3>1, OthersLocal
  <2>6. e.epoch <= manifest.epoch /\ e.epoch \in Nat
    BY <1>3, <2>2 DEF e, LogEntry
  <2>7. ASSUME Data(e) PROVE Rival(e.epoch) /\ \A d \in Nat : Rival(d) => ~(d > e.epoch)
    <3>1. Fair(p, e.epoch)
      BY <2>7 DEF Inv, Fencing, p, e
    <3>2. Rival(e.epoch)
      BY <2>7 DEF Rival, e
    <3> QED  BY <2>2, <3>1, <3>2, Unstopped
  <2>8. \A q \in DOMAIN wal' \ DOMAIN wal : q = N + 1 /\ wal'[q] = e
    BY <2>3
  <2> QED  BY <1>1, <1>2, <2>3, <2>4, <2>5, <2>6, <2>7, <2>8, StoreStep DEF Writing, Moves
<1> QED  BY <1>5, <1>6

-----------------------------------------------------------------------------
(* Steps of the tasks of an open writer                                    *)

(* Memtables stay memtables when batches are added.                        *)
LEMMA MoreTables ==
  ASSUME NEW m \in Nat, NEW n \in Nat, m <= n
  PROVE  /\ MemTable(m) \subseteq MemTable(n) /\ Seq(MemTable(m)) \subseteq Seq(MemTable(n))
         /\ LogEntry(m) \subseteq LogEntry(n) /\ Request(m) \subseteq Request(n)
<1>1. \A s \in Seq(1..m) : s \in Seq(1..n)
  BY MoreRows
<1>2. MemTable(m) \subseteq MemTable(n)
  BY <1>1 DEF MemTable
<1>3. Seq(MemTable(m)) \subseteq Seq(MemTable(n))
  <2> SUFFICES ASSUME NEW s \in Seq(MemTable(m)) PROVE s \in Seq(MemTable(n))
    OBVIOUS
  <2>1. \A i \in 1..Len(s) : s[i] \in MemTable(n)
    BY <1>2
  <2> QED  BY <2>1
<1>4. LogEntry(m) \subseteq LogEntry(n)
  BY <1>1 DEF LogEntry
<1>5. Request(m) \subseteq Request(n)
  BY <1>4 DEF Request
<1> QED  BY <1>2, <1>3, <1>4, <1>5

(* A step of an open writer: what it holds next, with n entries in the     *)
(* log.                                                                    *)
TaskTo(w, n) ==
  /\ pos'[w] \in 1..(n + 1) /\ covered'[w] <= n
  /\ TablesOk(tables'[w], n) /\ FrozenOk(tables'[w], durable'[w])
  /\ QueueOk(tables'[w], queue'[w]) /\ FlushOk(tables'[w], flush'[w])
  /\ AppendOk(tables'[w], append'[w], durable'[w])
  /\ ExactOk(tables'[w], queue'[w], append'[w], durable'[w])
  /\ append'[w].phase = "exists" => pos'[w] \in DOMAIN wal
  /\ append'[w].phase \in {"appended", "settle"} => append'[w].at \in 1..n

(* It is as it should be.                                                  *)
LEMMA TaskLocal ==
  ASSUME Inv, NEW w \in Writers, pc[w] = "open", LogGrows, NEW n \in Nat, N' = n,
         manifest'.epoch = manifest.epoch, UNCHANGED <<pc, epoch, base>>, TaskTo(w, n)
  PROVE  Local(w)'
<1>1. /\ N \in Nat /\ DOMAIN wal = 1..N /\ N <= n
      /\ DOMAIN wal' = 1..n /\ base[w].replayAfter \in Nat /\ base[w].replayAfter <= N
      /\ epoch[w] <= manifest.epoch
  BY Typed DEF LogGrows
<1>2. TasksOk(w)'
  BY DEF TasksOk, TaskTo
<1>3. QuietOk(w)'
  BY DEF QuietOk
<1>4. PosOk(w)'
  <2>1. append'[w].phase = "exists" => pos'[w] \in DOMAIN wal'
    BY <1>1 DEF TaskTo
  <2> QED  BY <1>1, <2>1 DEF PosOk, TaskTo
<1> QED  BY <1>2, <1>3, <1>4 DEF Local

(* A step of an open writer that leaves the log alone.                     *)
LEMMA TaskStep ==
  ASSUME Inv, NEW w \in Writers, pc[w] = "open", Stores', WriterState',
         UNCHANGED <<wal, late, pc, epoch, base>>,
         manifest'.epoch = manifest.epoch, manifest'.replayAfter <= N,
         \A u \in Writers \ {w} : Same(u), Moves(w), TaskTo(w, N)
  PROVE  Inv'
<1>1. N \in Nat /\ DOMAIN wal = 1..N /\ LogGrows /\ N' = N
  BY Typed, SameLog
<1>2. Local(w)'
  BY <1>1, TaskLocal
<1>3. Shape'
  BY DEF Shape
<1> QED  BY <1>2, <1>3, QuietStep DEF Writing

-----------------------------------------------------------------------------
(* The task that flushes memtables                                         *)

(* What an open writer holds, in the terms of TaskStep.                    *)
LEMMA AsIs ==
  ASSUME Inv, NEW w \in Writers, pc[w] = "open"
  PROVE  /\ pos[w] \in 1..(N + 1)
         /\ tables[w] \in Seq(MemTable(put))
         /\ durable[w] \in Nat
         /\ covered[w] \in Nat
         /\ covered[w] <= N
         /\ queue[w] \in Seq(Nat)
         /\ append[w] \in Appending
         /\ flush \in [Writers -> {"idle", "check", "commit"}]
         /\ poisoned \in [Writers -> BOOLEAN]
         /\ TablesOk(tables[w], N) /\ FrozenOk(tables[w], durable[w])
         /\ QueueOk(tables[w], queue[w]) /\ FlushOk(tables[w], flush[w])
         /\ AppendOk(tables[w], append[w], durable[w])
         /\ ExactOk(tables[w], queue[w], append[w], durable[w])
         /\ append[w].phase = "exists" => pos[w] \in DOMAIN wal
         /\ append[w].phase \in {"appended", "settle"} => append[w].at \in 1..N
         /\ manifest.replayAfter <= N
<1>1. WriterState /\ TasksOk(w) /\ PosOk(w) /\ LogOk
  BY DEF Inv, Shape, Local
<1> QED  BY <1>1 DEF WriterState, TasksOk, PosOk, LogOk

(* A flush is taken up.                                                    *)
LEMMA FlushTakeStep ==
  ASSUME Inv, NEW w \in Writers, FlushTake(w)
  PROVE  Inv'
<1>1. UNCHANGED <<wal, late, manifest, pc, epoch, base, pos, last, tables, durable, covered,
                  queue, append, put, acked>>
  BY DEF FlushTake, store, opening, ghosts
<1>2. /\ pc[w] = "open" /\ Len(tables[w]) > 1
      /\ \/ /\ tables[w][1].cell \in {"none", "done"}
            /\ flush' = [flush EXCEPT ![w] = "check"] /\ poisoned' = poisoned
         \/ /\ flush' = [flush EXCEPT ![w] = "idle"]
            /\ poisoned' = [poisoned EXCEPT ![w] = TRUE]
  BY DEF FlushTake, FlushTo, FlushFailed, Oldest
<1>3. Shape
  BY DEF Inv
<1>4. flush' \in [Writers -> {"idle", "check", "commit"}] /\ poisoned' \in [Writers -> BOOLEAN]
  BY <1>2, AsIs
<1>5. Stores' /\ WriterState'
  BY <1>1, <1>3, <1>4 DEF Shape, Stores, WriterState
<1>6. \A u \in Writers \ {w} : Same(u)
  BY <1>1, <1>2, AsIs DEF Same
<1>7. FlushOk(tables[w], flush'[w])
  BY <1>2, AsIs DEF FlushOk
<1>8. TaskTo(w, N)
  BY <1>1, <1>2, <1>7, AsIs DEF TaskTo
<1> QED  BY <1>1, <1>2, <1>5, <1>6, <1>8, AsIs, TaskStep DEF Moves

(* The oldest memtable goes, when the log has it.                          *)
LEMMA OldestGoes ==
  ASSUME NEW m \in Nat, NEW ts \in Seq(MemTable(m)), NEW n \in Nat, NEW d \in Nat,
         NEW q, NEW a \in Appending,
         TablesOk(ts, n), FrozenOk(ts, d), QueueOk(ts, q), AppendOk(ts, a, d),
         ExactOk(ts, q, a, d), Len(ts) > 1, ts[1].cell \in {"none", "done"}
  PROVE  /\ Tail(ts) \in Seq(MemTable(m)) /\ TablesOk(Tail(ts), n) /\ FrozenOk(Tail(ts), d)
         /\ QueueOk(Tail(ts), q) /\ AppendOk(Tail(ts), a, d) /\ ExactOk(Tail(ts), q, a, d)
<1> DEFINE t2 == Tail(ts)
<1>1. Len(ts) \in Nat /\ \A i \in 1..Len(ts) : ts[i] \in MemTable(m)
  OBVIOUS
<1>2. /\ t2 \in Seq(MemTable(m)) /\ Len(t2) = Len(ts) - 1
      /\ \A i \in 1..Len(ts) - 1 : t2[i] = ts[i + 1]
  BY WithoutFirst
<1> HIDE DEF t2
<1>3. \A i \in 1..Len(ts) : i # 1 => i - 1 \in 1..Len(t2) /\ t2[i - 1] = ts[i]
  BY <1>1, <1>2
<1>4. \A i \in 1..Len(ts) - 1 : i # 1 => i - 1 \in 1..Len(t2) - 1 /\ t2[i - 1] = ts[i]
  BY <1>1, <1>2
<1>5. TablesOk(t2, n)
  <2>1. \A i \in 1..Len(t2) : i + 1 \in 1..Len(ts) /\ t2[i] = ts[i + 1]
    BY <1>1, <1>2
  <2>2. \A i, j \in 1..Len(t2) : i < j => t2[i].gen < t2[j].gen
    <3> SUFFICES ASSUME NEW i \in 1..Len(t2), NEW j \in 1..Len(t2), i < j
                 PROVE  t2[i].gen < t2[j].gen
      OBVIOUS
    <3>1. i + 1 < j + 1
      BY <1>1, <1>2
    <3> QED  BY <2>1, <3>1 DEF TablesOk
  <2>3. \A i \in 1..Len(t2) - 1 : i + 1 \in 1..Len(ts) - 1 /\ t2[i] = ts[i + 1]
    BY <1>1, <1>2
  <2>4. \A i \in 1..Len(t2) : Len(t2[i].rows) <= Capacity /\ t2[i].at <= n
    BY <2>1 DEF TablesOk
  <2>5. \A i \in 1..Len(t2) - 1 : Len(t2[i].rows) >= 1
    BY <2>3 DEF TablesOk
  <2>6. Len(t2) >= 1
    BY <1>1, <1>2
  <2> QED  BY <2>2, <2>4, <2>5, <2>6 DEF TablesOk
<1>6. FrozenOk(t2, d)
  <2> SUFFICES ASSUME NEW i \in 1..Len(t2) - 1, t2[i].cell \in {"none", "done"}
               PROVE  End(t2[i]) <= d
    BY DEF FrozenOk
  <2>1. i + 1 \in 1..Len(ts) - 1 /\ t2[i] = ts[i + 1]
    BY <1>1, <1>2
  <2> QED  BY <2>1 DEF FrozenOk
<1>7. QueueOk(t2, q)
  <2>1. ASSUME NEW g, Waiting(ts, g) PROVE Waiting(t2, g)
    BY <1>4, <2>1 DEF Waiting
  <2> QED  BY <2>1 DEF QueueOk
<1>8. AppendOk(t2, a, d)
  <2> SUFFICES ASSUME a.phase \in {"put", "exists", "failed", "appended"}
               PROVE  \E i \in 1..Len(t2) :
                        t2[i].gen = a.gen /\ a.end <= Len(t2[i].rows) /\ d < t2[i].off + a.end
    BY DEF AppendOk
  <2>1. PICK i \in 1..Len(ts) :
               ts[i].gen = a.gen /\ a.end <= Len(ts[i].rows) /\ d < ts[i].off + a.end
    BY DEF AppendOk
  <2>2. End(ts[1]) <= d
    BY <1>1 DEF FrozenOk
  <2>3. ts[1].off \in Nat /\ Len(ts[1].rows) \in Nat /\ a.end \in Nat
    <3>1. 1 \in 1..Len(ts)
      BY <1>1
    <3>2. ts[1] \in MemTable(m)
      BY <1>1, <3>1
    <3>3. ts[1].off \in Nat /\ ts[1].rows \in Seq(1..m)
      BY <3>2 DEF MemTable
    <3> QED  BY <3>3 DEF Appending
  <2>4. i # 1
    BY <2>1, <2>2, <2>3 DEF End
  <2> QED  BY <1>3, <2>1, <2>4
<1>9. ExactOk(t2, q, a, d)
  <2> SUFFICES ASSUME a.phase # "idle", a.exact = TRUE
               PROVE  \E i \in 1..Len(t2) - 1 :
                        /\ t2[i].gen = a.gen /\ t2[i].cell = "wait" /\ a.end = Len(t2[i].rows)
                        /\ a.phase = "settle" => End(t2[i]) <= d
    BY DEF ExactOk
  <2>1. PICK i \in 1..Len(ts) - 1 :
               /\ ts[i].gen = a.gen /\ ts[i].cell = "wait" /\ a.end = Len(ts[i].rows)
               /\ a.phase = "settle" => End(ts[i]) <= d
    BY DEF ExactOk
  <2>2. i # 1
    BY <2>1
  <2> QED  BY <1>4, <2>1, <2>2
<1> QED  BY <1>2, <1>5, <1>6, <1>7, <1>8, <1>9 DEF t2

(* Shard manifests, with the batches put so far.                           *)
ShardManifests == [epoch : Nat, gen : Nat, replayAfter : Nat, lastSeen : Nat,
                   sst : SUBSET [gen : Nat, rows : Seq(1..put)]]

(* What update_manifest writes.                                            *)
LEMMA PublishedOk ==
  ASSUME Inv, NEW t, t.gen \in Nat, t.rows \in Seq(1..put), NEW c \in Nat
  PROVE  /\ Published(t, c) \in ShardManifests
         /\ Published(t, c).epoch = manifest.epoch /\ Published(t, c).replayAfter = c
<1>1. manifest \in ShardManifests
  BY DEF Inv, Shape, Stores, ShardManifests
<1>2. manifest.lastSeen \in Nat /\ manifest.sst \subseteq [gen : Nat, rows : Seq(1..put)]
  BY <1>1 DEF ShardManifests
<1> DEFINE x == Max({manifest.lastSeen, c})
           S == manifest.sst \cup {[gen |-> t.gen, rows |-> t.rows]}
           g == t.gen + 1
<1>3. x \in Nat
  BY <1>2, MaxOfTwo
<1>4. S \subseteq [gen : Nat, rows : Seq(1..put)]
  BY <1>2
<1>5. g \in Nat
  OBVIOUS
<1>6. Published(t, c) =
        [manifest EXCEPT !.gen = g, !.replayAfter = c, !.lastSeen = x, !.sst = S]
  BY DEF Published
<1> HIDE DEF x, S, g
<1> QED  BY <1>1, <1>3, <1>4, <1>5, <1>6 DEF ShardManifests

(* A step of a flush in progress.                                          *)
LEMMA FlushStep ==
  ASSUME Inv, NEW w \in Writers, flush[w] # "idle",
         UNCHANGED <<wal, late, pc, epoch, base, pos, last, durable, covered, queue, append,
                     put, acked>>,
         manifest' \in ShardManifests, manifest'.epoch = manifest.epoch,
         manifest'.replayAfter <= N, poisoned' \in [Writers -> BOOLEAN],
         \/ /\ tables' = tables
            /\ \E f \in {"idle", "check", "commit"} : flush' = [flush EXCEPT ![w] = f]
         \/ FlushDone(w)
  PROVE  Inv'
<1>1. Shape /\ pc[w] = "open" /\ Len(tables[w]) > 1 /\ tables[w][1].cell \in {"none", "done"}
  BY DEF Inv, Local, QuietOk, TasksOk, FlushOk
<1>2. /\ tables \in [Writers -> Seq(MemTable(put))]
      /\ flush \in [Writers -> {"idle", "check", "commit"}]
  BY <1>1 DEF Shape, WriterState
<1> DEFINE T == Tail(tables[w])
<1>3. /\ T \in Seq(MemTable(put)) /\ TablesOk(T, N) /\ FrozenOk(T, durable[w])
      /\ QueueOk(T, queue[w]) /\ AppendOk(T, append[w], durable[w])
      /\ ExactOk(T, queue[w], append[w], durable[w])
  <2> DEFINE ts == tables[w]
             d == durable[w]
             q == queue[w]
             a == append[w]
             m == put
             n == N
  <2>1. /\ m \in Nat /\ ts \in Seq(MemTable(m)) /\ n \in Nat /\ d \in Nat /\ a \in Appending
        /\ TablesOk(ts, n) /\ FrozenOk(ts, d) /\ QueueOk(ts, q) /\ AppendOk(ts, a, d)
        /\ ExactOk(ts, q, a, d) /\ Len(ts) > 1 /\ ts[1].cell \in {"none", "done"}
    BY <1>1, AsIs, Typed
  <2> HIDE DEF ts, d, q, a, m, n
  <2>2. /\ Tail(ts) \in Seq(MemTable(m)) /\ TablesOk(Tail(ts), n) /\ FrozenOk(Tail(ts), d)
        /\ QueueOk(Tail(ts), q) /\ AppendOk(Tail(ts), a, d) /\ ExactOk(Tail(ts), q, a, d)
    BY <2>1, OldestGoes
  <2> QED  BY <2>2 DEF ts, d, q, a, m, n
<1>4. \/ tables' = tables
      \/ tables' = [tables EXCEPT ![w] = T] /\ flush' = [flush EXCEPT ![w] = "idle"]
  BY DEF FlushDone, FlushTo
<1>5. \E f \in {"idle", "check", "commit"} : flush' = [flush EXCEPT ![w] = f]
  BY DEF FlushDone, FlushTo
<1> HIDE DEF T
<1>6. /\ tables' \in [Writers -> Seq(MemTable(put))]
      /\ flush' \in [Writers -> {"idle", "check", "commit"}]
  BY <1>2, <1>3, <1>4, <1>5
<1>7. Stores' /\ WriterState'
  BY <1>1, <1>6 DEF Shape, Stores, WriterState, ShardManifests
<1>8. \A u \in Writers \ {w} : Same(u)
  BY <1>2, <1>4, <1>5 DEF Same
<1>9. TaskTo(w, N)
  <2>1. CASE tables' = tables
    <3>1. FlushOk(tables[w], flush'[w])
      BY <1>1 DEF FlushOk
    <3> QED  BY <1>1, <2>1, <3>1, AsIs DEF TaskTo
  <2>2. CASE tables' = [tables EXCEPT ![w] = T] /\ flush' = [flush EXCEPT ![w] = "idle"]
    <3>1. tables'[w] = T /\ flush'[w] = "idle"
      BY <1>2, <2>2
    <3>2. FlushOk(T, "idle")
      BY DEF FlushOk
    <3> QED  BY <1>1, <1>3, <3>1, <3>2, AsIs DEF TaskTo
  <2> QED  BY <1>4, <2>1, <2>2
<1> QED  BY <1>1, <1>7, <1>8, <1>9, TaskStep DEF Moves

(* MemTableFlusher::flush up to the manifest.                              *)
LEMMA FlushCheckStep ==
  ASSUME Inv, NEW w \in Writers, FlushCheck(w)
  PROVE  Inv'
<1>1. UNCHANGED <<wal, late, manifest, pc, epoch, base, pos, last, durable, covered, queue,
                  append, put, acked>>
  BY DEF FlushCheck, store, opening, ghosts
<1>2. /\ flush[w] = "check"
      /\ \/ FlushFailed(w) /\ UNCHANGED tables
         \/ FlushDone(w) /\ UNCHANGED poisoned
         \/ FlushTo(w, "commit") /\ UNCHANGED <<tables, poisoned>>
  BY DEF FlushCheck
<1>3. manifest' \in ShardManifests /\ manifest'.replayAfter <= N
  BY <1>1 DEF Inv, Shape, Stores, LogOk, ShardManifests
<1>4. poisoned' \in [Writers -> BOOLEAN]
  <2>1. poisoned \in [Writers -> BOOLEAN]
    BY DEF Inv, Shape, WriterState
  <2> QED  BY <1>2, <2>1 DEF FlushFailed
<1> QED  BY <1>1, <1>2, <1>3, <1>4, FlushStep DEF FlushFailed, FlushTo

(* MemTableFlusher::update_manifest.                                       *)
LEMMA FlushCommitStep ==
  ASSUME Inv, NEW w \in Writers, FlushCommit(w)
  PROVE  Inv'
<1> DEFINE t == tables[w][1]
           c == t.at
<1>1. UNCHANGED <<wal, late, pc, epoch, base, pos, last, durable, covered, queue, append,
                  put, acked>>
  BY DEF FlushCommit, opening, ghosts
<1>2. /\ flush[w] = "commit"
      /\ manifest' = manifest \/ manifest' = Published(t, c)
      /\ \/ FlushDone(w) /\ UNCHANGED poisoned
         \/ FlushFailed(w) /\ UNCHANGED tables
         \/ FlushTo(w, "check") /\ UNCHANGED <<tables, poisoned>>
  BY DEF FlushCommit, Oldest
<1>3. t.gen \in Nat /\ t.rows \in Seq(1..put) /\ c \in Nat /\ c <= N
  <2>1. Len(tables[w]) > 1 /\ Len(tables[w]) \in Nat /\ TablesOk(tables[w], N)
    BY <1>2, TypedTables DEF Inv, Local, TasksOk, FlushOk
  <2>2. 1 \in 1..Len(tables[w])
    BY <2>1
  <2> QED  BY <2>1, <2>2, TypedTables DEF TablesOk
<1> HIDE DEF t, c
<1>4. /\ manifest' \in ShardManifests /\ manifest'.replayAfter <= N
      /\ manifest'.epoch = manifest.epoch
  <2>1. CASE manifest' = manifest
    BY <2>1 DEF Inv, Shape, Stores, LogOk, ShardManifests
  <2>2. CASE manifest' = Published(t, c)
    BY <1>3, <2>2, PublishedOk
  <2> QED  BY <1>2, <2>1, <2>2
<1>5. poisoned' \in [Writers -> BOOLEAN]
  <2>1. poisoned \in [Writers -> BOOLEAN]
    BY DEF Inv, Shape, WriterState
  <2> QED  BY <1>2, <2>1 DEF FlushFailed
<1> QED  BY <1>1, <1>2, <1>4, <1>5, FlushStep DEF FlushFailed, FlushTo

-----------------------------------------------------------------------------
(* The task that appends to the log                                        *)

(* The memtable of a generation.                                           *)
LEMMA TableOfGen ==
  ASSUME Inv, NEW w \in Writers, NEW i \in 1..Len(tables[w])
  PROVE  TableOf(w, tables[w][i].gen) = tables[w][i]
<1> DEFINE ts == tables[w]
<1>1. ts \in Seq(MemTable(put)) /\ Len(ts) \in Nat /\ DOMAIN ts = 1..Len(ts)
      /\ \A k \in 1..Len(ts) : ts[k].gen \in Nat
  BY TypedTables
<1>2. \A k, l \in 1..Len(ts) : k < l => ts[k].gen < ts[l].gen
  BY DEF Inv, Local, TasksOk, TablesOk
<1>3. \A k \in 1..Len(ts) : ts[k].gen = ts[i].gen => k = i
  BY <1>1, <1>2
<1>4. Range(ts) = {ts[k] : k \in 1..Len(ts)}
  BY <1>1 DEF Range
<1>5. TableOf(w, ts[i].gen) = CHOOSE t \in Range(ts) : t.gen = ts[i].gen
  BY DEF TableOf
<1> HIDE DEF ts
<1>6. ts[i] \in Range(ts) /\ \A t \in Range(ts) : t.gen = ts[i].gen => t = ts[i]
  BY <1>3, <1>4 DEF ts
<1>7. (CHOOSE t \in Range(ts) : t.gen = ts[i].gen) = ts[i]
  BY <1>6
<1> QED  BY <1>5, <1>7 DEF ts

(* What append_for_target writes, and where.                               *)
LEMMA EntryOfOk ==
  ASSUME Inv, NEW w \in Writers, append[w].phase \in {"put", "exists", "failed", "appended"}
  PROVE  /\ pc[w] = "open" /\ pos[w] \in 1..(N + 1)
         /\ EntryOf(w) \in LogEntry(put) /\ Len(EntryOf(w).rows) <= Capacity
         /\ EntryOf(w).epoch = epoch[w]
<1>1. pc[w] = "open" /\ pos[w] \in 1..(N + 1)
  <2>1. pc[w] = "open"
    BY DEF Inv, Local, QuietOk
  <2> QED  BY <2>1, AsIs
<1>2. PICK i \in 1..Len(tables[w]) :
        tables[w][i].gen = append[w].gen /\ append[w].end <= Len(tables[w][i].rows)
  BY <1>1, AsIs DEF AppendOk
<1> DEFINE t == tables[w][i]
           s == t.rows
           l == LocalEnd(t, durable[w])
           r == SubSeq(s, l + 1, append[w].end)
<1>3. t.gen \in Nat /\ t.off \in Nat /\ s \in Seq(1..put) /\ Len(s) \in Nat
  BY TypedTables
<1>4. durable[w] \in Nat /\ append[w].end \in Nat /\ append[w].end <= Len(s) /\ epoch[w] \in Nat
      /\ Capacity \in Nat
  BY <1>2, Typed DEF Appending
<1>5. l \in Nat
  BY <1>3, <1>4, LocalEndOk
<1>6. EntryOf(w) = [epoch |-> epoch[w], gen |-> t.gen, rows |-> r]
  <2>1. TableOf(w, append[w].gen) = t
    BY <1>2, TableOfGen
  <2> QED  BY <2>1 DEF EntryOf
<1>7. Len(s) <= Capacity
  BY <1>1, AsIs DEF TablesOk
<1>8. r \in Seq(1..put) /\ Len(r) <= Len(s) /\ Len(r) \in Nat
  <2> DEFINE m == l + 1
             n == append[w].end
  <2>1. m \in Nat /\ m >= 1 /\ n \in Nat /\ n <= Len(s)
    BY <1>4, <1>5
  <2> HIDE DEF m, n, s
  <2>2. SubSeq(s, m, n) \in Seq(1..put) /\ Len(SubSeq(s, m, n)) <= Len(s)
    BY <1>3, <2>1, PartOfSeq DEF s
  <2> QED  BY <2>2 DEF m, n, s
<1>9. Len(r) <= Capacity
  BY <1>3, <1>4, <1>7, <1>8
<1> HIDE DEF t, s, l, r
<1> QED  BY <1>1, <1>3, <1>4, <1>6, <1>8, <1>9 DEF LogEntry

(* What a failed append may leave behind: an entry, or a request.          *)
LEMMA FailedTyped ==
  ASSUME Inv, NEW p \in 1..(N + 1), NEW e \in LogEntry(put), Len(e.rows) <= Capacity,
         AppendFails(p, e), UNCHANGED <<manifest, put, acked>>
  PROVE  /\ Stores' /\ LogGrows /\ N' \in Nat
         /\ \A q \in DOMAIN wal' \ DOMAIN wal : q = N + 1 /\ p = N + 1 /\ wal'[q] = e
         /\ \A r \in late' : r \in late \/ (r.at = p /\ r.entry = e)
<1>1. N \in Nat /\ DOMAIN wal = 1..N /\ Stores
  BY DEF Inv, Shape, LogOk
<1>2. p \in Nat
  BY <1>1
<1>3. CASE UNCHANGED <<wal, late>>
  <2>1. LogGrows /\ N' = N
    BY <1>1, <1>3, SameLog
  <2>2. Stores'
    BY <1>1, <1>3 DEF Stores
  <2> QED  BY <1>1, <1>3, <2>1, <2>2
<1>4. CASE p \notin DOMAIN wal /\ wal' = Land(p, e) /\ UNCHANGED late
  <2>1. /\ LogGrows /\ p = N + 1 /\ N' = N + 1 /\ wal'[N + 1] = e
        /\ DOMAIN wal' \ DOMAIN wal = {N + 1}
        /\ wal' \in [DOMAIN wal' -> LogEntry(put')]
        /\ \A q \in DOMAIN wal' : Len(wal'[q].rows) <= Capacity
    BY <1>4, LandTyped
  <2>2. Stores'
    BY <1>1, <1>4, <2>1 DEF Stores
  <2> QED  BY <1>1, <1>4, <2>1, <2>2
<1>5. CASE late' = late \cup {[at |-> p, entry |-> e]} /\ UNCHANGED wal
  <2>1. LogGrows /\ N' = N
    BY <1>1, <1>5, SameLog
  <2>2. [at |-> p, entry |-> e] \in Request(put)
    BY <1>2 DEF Request
  <2>3. Stores'
    BY <1>1, <1>5, <2>2 DEF Stores
  <2> QED  BY <1>1, <1>5, <2>1, <2>3
<1> QED  BY <1>3, <1>4, <1>5 DEF AppendFails

(* The process stops; an append it had sent may still arrive.              *)
LEMMA CrashStep ==
  ASSUME Inv, NEW w \in Writers, Crash(w)
  PROVE  Inv'
<1> DEFINE e == EntryOf(w)
<1>1. /\ UNCHANGED <<wal, manifest, put, acked>> /\ Goto(w, "dead") /\ Forget(w)
      /\ \/ late' = late
         \/ append[w].phase = "put" /\ late' = late \cup {[at |-> pos[w], entry |-> e]}
  BY DEF Crash, Forget, ghosts
<1>2. N \in Nat /\ DOMAIN wal = 1..N /\ Shape /\ manifest.epoch \in Nat
  BY Typed DEF Inv
<1>3. LogGrows /\ N' = N
  BY <1>1, <1>2, SameLog
<1>4. /\ WriterState' /\ Local(w)' /\ ~Writing(w)' /\ base'[w].replayAfter = 0
      /\ \A u \in Writers \ {w} : Same(u)
  BY <1>1, <1>2, <1>3, ForgetOk
<1>5. ASSUME append[w].phase = "put"
      PROVE  /\ e \in LogEntry(put) /\ Len(e.rows) <= Capacity /\ e.epoch = epoch[w]
             /\ pos[w] \in 1..(N + 1) /\ Writing(w) /\ epoch[w] <= manifest.epoch
  BY <1>5, EntryOfOk, Typed DEF Writing
<1> HIDE DEF e
<1>6. \A r \in late' :
        \/ r \in late
        \/ append[w].phase = "put" /\ r = [at |-> pos[w], entry |-> e]
  BY <1>1
<1>7. late' \subseteq Request(put) /\ \A r \in late' : Len(r.entry.rows) <= Capacity
  <2>1. late \subseteq Request(put) /\ \A r \in late : Len(r.entry.rows) <= Capacity
    BY <1>2 DEF Shape, Stores
  <2>2. ASSUME append[w].phase = "put" PROVE [at |-> pos[w], entry |-> e] \in Request(put)
    BY <1>2, <1>5, <2>2 DEF Request
  <2> QED  BY <1>5, <1>6, <2>1, <2>2
<1>8. Shape'
  BY <1>1, <1>2, <1>4, <1>7 DEF Shape, Stores
<1>9. \A u \in Writers : Local(u)'
  <2> SUFFICES ASSUME NEW u \in Writers \ {w} PROVE Local(u)'
    BY <1>4
  <2>1. Local(u) /\ Same(u) /\ manifest'.epoch \in Nat /\ manifest.epoch <= manifest'.epoch
    BY <1>1, <1>2, <1>4 DEF Inv
  <2> QED  BY <1>2, <1>3, <2>1, OthersLocal
<1>10. \A u \in Writers :
         /\ Writing(u)' => Writing(u) /\ epoch'[u] = epoch[u] /\ Moves(u)
         /\ \/ base'[u].replayAfter = 0
            \/ epoch'[u] = epoch[u] /\ base'[u].replayAfter = base[u].replayAfter
  BY <1>4 DEF Same, Writing, Moves
<1>11. \A r \in late' :
         \/ r \in late
         \/ /\ r.at \in 1..(N + 1) /\ r.entry.epoch <= manifest.epoch
            /\ Data(r.entry) => \E u \in Writers : /\ Writing(u) /\ r.at = pos[u]
                                                   /\ r.entry.epoch = epoch[u]
  BY <1>5, <1>6
<1>12. DOMAIN wal' \ DOMAIN wal = {}
  BY <1>1
<1> QED  BY <1>1, <1>3, <1>8, <1>9, <1>10, <1>11, <1>12, StoreStep

(* Memtables stay as they should be when the log grows.                    *)
LEMMA TablesLater ==
  ASSUME NEW m, NEW ts \in Seq(MemTable(m)), NEW k \in Nat, NEW n \in Nat, k <= n, TablesOk(ts, k)
  PROVE  TablesOk(ts, n)
<1>1. \A i \in 1..Len(ts) : ts[i] \in MemTable(m)
  OBVIOUS
<1>2. \A i \in 1..Len(ts) : ts[i].at \in Nat
  BY <1>1 DEF MemTable
<1> QED  BY <1>2 DEF TablesOk

(* An append lands, or may land later.                                     *)
LEMMA AppendLands ==
  ASSUME Inv, NEW w \in Writers, append[w].phase = "put", Stores', WriterState', LogGrows,
         UNCHANGED <<manifest, pc, epoch, base>>, \A u \in Writers \ {w} : Same(u), Moves(w),
         NEW n \in Nat, N' = n, TaskTo(w, n),
         \A q \in DOMAIN wal' \ DOMAIN wal : q = N + 1 /\ pos[w] = N + 1 /\ wal'[q] = EntryOf(w),
         \A r \in late' : r \in late \/ (r.at = pos[w] /\ r.entry = EntryOf(w))
  PROVE  Inv'
<1> DEFINE e == EntryOf(w)
<1>1. /\ e \in LogEntry(put) /\ Len(e.rows) <= Capacity /\ e.epoch = epoch[w]
      /\ pos[w] \in 1..(N + 1) /\ pc[w] = "open"
  BY EntryOfOk
<1>2. N \in Nat /\ DOMAIN wal = 1..N /\ manifest.epoch \in Nat /\ epoch[w] <= manifest.epoch
      /\ epoch[w] \in Nat
  BY Typed
<1>3. Writing(w) /\ Rival(epoch[w])
  BY <1>1 DEF Writing, Rival
<1>4. ASSUME pos[w] = N + 1 PROVE \A d \in Nat : Rival(d) => ~(d > epoch[w])
  <2> DEFINE p == pos[w]
             x == epoch[w]
  <2>1. p \notin DOMAIN wal /\ p \in 1..(N + 1) /\ Fair(p, x)
    BY <1>2, <1>3, <1>4 DEF Inv, Fencing
  <2> HIDE DEF p, x
  <2>2. \A d \in Nat : Rival(d) => ~(d > x)
    BY <2>1, Unstopped
  <2> QED  BY <2>2 DEF x
<1>5. \A u \in Writers : Local(u)'
  <2>1. Local(w)'
    BY <1>1, TaskLocal
  <2> SUFFICES ASSUME NEW u \in Writers \ {w} PROVE Local(u)'
    BY <2>1
  <2>2. Shape /\ Local(u) /\ Same(u) /\ manifest'.epoch \in Nat /\ manifest.epoch <= manifest'.epoch
    BY <1>2 DEF Inv
  <2> QED  BY <1>2, <2>2, OthersLocal
<1>6. \A u \in Writers :
        /\ Writing(u)' => Writing(u) /\ epoch'[u] = epoch[u] /\ Moves(u)
        /\ epoch'[u] = epoch[u] /\ base'[u].replayAfter = base[u].replayAfter
  BY DEF Same, Writing, Moves
<1>7. Shape'
  BY DEF Shape
<1> HIDE DEF e
<1>8. \A q \in DOMAIN wal' \ DOMAIN wal :
        /\ q = N + 1 /\ wal'[q].epoch <= manifest.epoch
        /\ Data(wal'[q]) => /\ Rival(wal'[q].epoch)
                            /\ \A d \in Nat : Rival(d) => ~(d > wal'[q].epoch)
  BY <1>1, <1>2, <1>3, <1>4 DEF e
<1>9. \A r \in late' :
        \/ r \in late
        \/ /\ r.at \in 1..(N + 1) /\ r.entry.epoch <= manifest.epoch
           /\ Data(r.entry) => \E u \in Writers : /\ Writing(u) /\ r.at = pos[u]
                                                  /\ r.entry.epoch = epoch[u]
  BY <1>1, <1>2, <1>3 DEF e
<1> QED  BY <1>5, <1>6, <1>7, <1>8, <1>9, StoreStep

(* An append goes on.                                                      *)
LEMMA Rephased ==
  ASSUME NEW ts, NEW q, NEW d, NEW a, NEW b,
         a.phase \in {"put", "exists", "failed", "appended"}, b.phase # "settle",
         b.gen = a.gen, b.end = a.end, b.exact = a.exact,
         AppendOk(ts, a, d), ExactOk(ts, q, a, d)
  PROVE  AppendOk(ts, b, d) /\ ExactOk(ts, q, b, d)
<1>1. AppendOk(ts, b, d)
  BY DEF AppendOk
<1>2. ASSUME b.phase # "idle", b.exact = TRUE
      PROVE  /\ b.gen # Tick /\ \A k \in 1..Len(q) : q[k] # b.gen
             /\ \E i \in 1..Len(ts) - 1 :
                  ts[i].gen = b.gen /\ ts[i].cell = "wait" /\ b.end = Len(ts[i].rows)
  BY <1>2 DEF ExactOk
<1>3. ExactOk(ts, q, b, d)
  BY <1>2 DEF ExactOk
<1> QED  BY <1>1, <1>3

(* append_for_target: put-if-absent at the next position.                  *)
LEMMA AppendPutStep ==
  ASSUME Inv, NEW w \in Writers, AppendPut(w)
  PROVE  Inv'
<1> DEFINE e == EntryOf(w)
           p == pos[w]
           a == append[w]
<1>1. a.phase = "put" /\ UNCHANGED <<manifest, pc, tables, durable, covered, queue, flush,
                                     poisoned, epoch, base, last, put, acked>>
  BY DEF AppendPut, opening, ghosts
<1>2. /\ e \in LogEntry(put) /\ Len(e.rows) <= Capacity /\ p \in 1..(N + 1) /\ pc[w] = "open"
  BY <1>1, EntryOfOk
<1>3. /\ N \in Nat /\ DOMAIN wal = 1..N /\ Shape /\ a \in Appending /\ epoch[w] \in Nat
      /\ append \in [Writers -> Appending] /\ pos \in [Writers -> Nat] /\ p \in Nat
  BY Typed DEF Inv, Shape, WriterState
<1>4. CASE /\ p \notin DOMAIN wal /\ wal' = Land(p, e)
           /\ append' = [append EXCEPT ![w].phase = "appended", ![w].at = p]
           /\ pos' = [pos EXCEPT ![w] = @ + 1] /\ UNCHANGED late
  <2> DEFINE b == [a EXCEPT !.phase = "appended", !.at = p]
  <2>1. /\ b \in Appending /\ b.phase = "appended" /\ b.at = p /\ b.gen = a.gen /\ b.end = a.end
        /\ b.exact = a.exact
    BY <1>3 DEF Appending, Phases
  <2>2. append' = [append EXCEPT ![w] = b] /\ append'[w] = b /\ pos'[w] = p + 1
    BY <1>3, <1>4
  <2> HIDE DEF b
  <2>3. /\ LogGrows /\ p = N + 1 /\ N' = N + 1 /\ wal'[N + 1] = e
        /\ DOMAIN wal' \ DOMAIN wal = {N + 1}
        /\ wal' \in [DOMAIN wal' -> LogEntry(put')]
        /\ \A q \in DOMAIN wal' : Len(wal'[q].rows) <= Capacity
    <3> HIDE DEF e, p
    <3> QED  BY <1>1, <1>2, <1>4, LandTyped
  <2>4. Stores' /\ WriterState'
    <3>1. Stores'
      BY <1>1, <1>3, <1>4, <2>3 DEF Shape, Stores
    <3>2. pos' \in [Writers -> Nat] /\ append' \in [Writers -> Appending]
      BY <1>3, <1>4, <2>1, <2>2
    <3> QED  BY <1>1, <1>3, <3>1, <3>2 DEF Shape, WriterState
  <2>5. \A u \in Writers \ {w} : Same(u)
    BY <1>1, <1>3, <1>4, <2>2 DEF Same
  <2>6. Moves(w)
    <3>1. Writing(w)
      BY <1>2 DEF Writing
    <3> DEFINE x == epoch[w]
    <3>2. Fair(p, x)
      BY <3>1 DEF Inv, Fencing
    <3> HIDE DEF p, x
    <3>3. \A d \in Nat : Rival(d) => ~(d > x)
      BY <1>2, <1>4, <3>2, Unstopped
    <3>4. \A d \in Nat : Rival(d) => d <= epoch[w]
      BY <1>3, <3>3 DEF x
    <3> QED  BY <2>2, <3>4 DEF Moves, p
  <2>7. TaskTo(w, N + 1)
    <3>1. TablesOk(tables[w], N + 1)
      <4> DEFINE ts == tables[w]
                 k == N
                 n == N + 1
                 m == put
      <4>1. ts \in Seq(MemTable(m)) /\ k \in Nat /\ n \in Nat /\ k <= n /\ TablesOk(ts, k)
        BY <1>2, <1>3, AsIs
      <4> HIDE DEF ts, k, n, m
      <4>2. TablesOk(ts, n)
        BY <4>1, TablesLater
      <4> QED  BY <4>2 DEF ts, n
    <3>2. AppendOk(tables[w], b, durable[w]) /\ ExactOk(tables[w], queue[w], b, durable[w])
      <4> DEFINE ts == tables[w]
                 q == queue[w]
                 d == durable[w]
      <4>1. AppendOk(ts, a, d) /\ ExactOk(ts, q, a, d)
        BY <1>2, AsIs
      <4> HIDE DEF ts, q, d, a
      <4>2. AppendOk(ts, b, d) /\ ExactOk(ts, q, b, d)
        BY <1>1, <2>1, <4>1, Rephased
      <4> QED  BY <4>2 DEF ts, q, d
    <3> QED  BY <1>1, <1>2, <1>3, <2>1, <2>2, <2>3, <3>1, <3>2, AsIs DEF TaskTo
  <2> QED  BY <1>1, <1>3, <1>4, <2>3, <2>4, <2>5, <2>6, <2>7, AppendLands
<1>5. CASE /\ p \in DOMAIN wal /\ append' = [append EXCEPT ![w].phase = "exists"]
           /\ UNCHANGED <<wal, late, pos>>
  <2> DEFINE b == [a EXCEPT !.phase = "exists"]
  <2>1. /\ b \in Appending /\ b.phase = "exists" /\ b.gen = a.gen /\ b.end = a.end
        /\ b.exact = a.exact
    BY <1>3 DEF Appending, Phases
  <2>2. append' = [append EXCEPT ![w] = b] /\ append'[w] = b
    BY <1>3, <1>5
  <2> HIDE DEF b
  <2>3. Stores' /\ WriterState'
    <3>1. append' \in [Writers -> Appending]
      BY <1>3, <2>1, <2>2
    <3> QED  BY <1>1, <1>3, <1>5, <3>1 DEF Shape, Stores, WriterState
  <2>4. \A u \in Writers \ {w} : Same(u)
    BY <1>1, <1>3, <1>5, <2>2 DEF Same
  <2>5. TaskTo(w, N)
    <3>1. AppendOk(tables[w], b, durable[w]) /\ ExactOk(tables[w], queue[w], b, durable[w])
      <4> DEFINE ts == tables[w]
                 q == queue[w]
                 d == durable[w]
      <4>1. AppendOk(ts, a, d) /\ ExactOk(ts, q, a, d)
        BY <1>2, AsIs
      <4> HIDE DEF ts, q, d, a
      <4>2. AppendOk(ts, b, d) /\ ExactOk(ts, q, b, d)
        BY <1>1, <2>1, <4>1, Rephased
      <4> QED  BY <4>2 DEF ts, q, d
    <3> QED  BY <1>1, <1>2, <1>5, <2>1, <2>2, <3>1, AsIs DEF TaskTo
  <2> QED  BY <1>1, <1>2, <1>5, <2>3, <2>4, <2>5, AsIs, TaskStep DEF Moves
<1>6. CASE /\ AppendFails(p, e) /\ append' = [append EXCEPT ![w].phase = "failed"]
           /\ UNCHANGED pos
  <2> DEFINE b == [a EXCEPT !.phase = "failed"]
  <2>1. /\ b \in Appending /\ b.phase = "failed" /\ b.gen = a.gen /\ b.end = a.end
        /\ b.exact = a.exact
    BY <1>3 DEF Appending, Phases
  <2>2. append' = [append EXCEPT ![w] = b] /\ append'[w] = b
    BY <1>3, <1>6
  <2> HIDE DEF b
  <2>3. /\ Stores' /\ LogGrows /\ N' \in Nat
        /\ \A q \in DOMAIN wal' \ DOMAIN wal : q = N + 1 /\ p = N + 1 /\ wal'[q] = e
        /\ \A r \in late' : r \in late \/ (r.at = p /\ r.entry = e)
    <3> HIDE DEF p, e
    <3> QED  BY <1>1, <1>2, <1>6, FailedTyped
  <2>4. WriterState'
    BY <1>1, <1>3, <1>6, <2>1, <2>2 DEF Shape, WriterState
  <2>5. \A u \in Writers \ {w} : Same(u)
    BY <1>1, <1>3, <1>6, <2>2 DEF Same
  <2> DEFINE n == N'
  <2>6. n \in Nat /\ N <= n
    BY <2>3 DEF LogGrows
  <2> HIDE DEF n
  <2>7. TaskTo(w, n)
    <3>1. TablesOk(tables[w], n)
      <4> DEFINE ts == tables[w]
                 k == N
                 m == put
      <4>1. ts \in Seq(MemTable(m)) /\ k \in Nat /\ k <= n /\ TablesOk(ts, k)
        BY <1>2, <1>3, <2>6, AsIs
      <4> HIDE DEF ts, k, m
      <4>2. TablesOk(ts, n)
        BY <2>6, <4>1, TablesLater
      <4> QED  BY <4>2 DEF ts
    <3>2. AppendOk(tables[w], b, durable[w]) /\ ExactOk(tables[w], queue[w], b, durable[w])
      <4> DEFINE ts == tables[w]
                 q == queue[w]
                 d == durable[w]
      <4>1. AppendOk(ts, a, d) /\ ExactOk(ts, q, a, d)
        BY <1>2, AsIs
      <4> HIDE DEF ts, q, d, a
      <4>2. AppendOk(ts, b, d) /\ ExactOk(ts, q, b, d)
        BY <1>1, <2>1, <4>1, Rephased
      <4> QED  BY <4>2 DEF ts, q, d
    <3>3. p \in 1..(n + 1) /\ covered[w] <= n
      <4>1. covered[w] \in Nat /\ covered[w] <= N
        BY <1>2, AsIs
      <4> QED  BY <1>2, <1>3, <2>6, <4>1
    <3> QED  BY <1>1, <1>2, <1>6, <2>1, <2>2, <3>1, <3>2, <3>3, AsIs DEF TaskTo
  <2>8. N' = n /\ Moves(w)
    BY <1>6 DEF n, Moves
  <2> QED  BY <1>1, <2>3, <2>4, <2>5, <2>6, <2>7, <2>8, AppendLands
<1> QED  BY <1>4, <1>5, <1>6 DEF AppendPut

-----------------------------------------------------------------------------
(* Puts and freezes                                                        *)

(* rotate_memtable and the trigger it queues.                              *)
LEMMA RotatedOk ==
  ASSUME Inv, NEW w \in Writers, NEW m \in Nat, NEW ts \in Seq(MemTable(m)), NEW q \in Seq(Nat),
         covered[w] \in Nat, covered[w] <= N, durable[w] \in Nat,
         TablesOk(ts, N), FrozenOk(ts, durable[w]), QueueOk(ts, q), FlushOk(ts, flush[w]),
         AppendOk(ts, append[w], durable[w]), ExactOk(ts, q, append[w], durable[w]),
         Len(Last(ts).rows) >= 1
  PROVE  /\ Rotated(w, ts) \in Seq(MemTable(m)) /\ Triggered(w, ts, q) \in Seq(Nat)
         /\ TablesOk(Rotated(w, ts), N) /\ FrozenOk(Rotated(w, ts), durable[w])
         /\ QueueOk(Rotated(w, ts), Triggered(w, ts, q)) /\ FlushOk(Rotated(w, ts), flush[w])
         /\ AppendOk(Rotated(w, ts), append[w], durable[w])
         /\ ExactOk(Rotated(w, ts), Triggered(w, ts, q), append[w], durable[w])
<1> DEFINE z == Len(ts)
           old == ts[z]
           owes == Len(old.rows) > LocalEnd(old, durable[w])
           c == IF owes THEN "wait" ELSE "none"
           a == [old EXCEPT !.at = covered[w], !.cell = c]
           b == Table(old.gen + 1, End(old))
           t2 == Front(ts) \o <<a, b>>
           q2 == IF owes THEN Append(q, old.gen) ELSE q
<1>1. z \in Nat /\ z >= 1 /\ z \in 1..z /\ Last(ts) = old
  BY DEF TablesOk, Last
<1>2. /\ \A i \in 1..z : ts[i] \in MemTable(m) /\ ts[i].gen \in Nat /\ ts[i].off \in Nat
      /\ old \in MemTable(m) /\ old.gen \in Nat /\ old.off \in Nat /\ old.rows \in Seq(1..m)
      /\ Len(old.rows) \in Nat /\ Len(old.rows) >= 1 /\ Len(old.rows) <= Capacity
  <2>1. \A i \in 1..z : ts[i] \in MemTable(m)
    OBVIOUS
  <2>2. \A i \in 1..z : ts[i].gen \in Nat /\ ts[i].off \in Nat /\ ts[i].rows \in Seq(1..m)
    BY <2>1 DEF MemTable
  <2>3. old \in MemTable(m) /\ old.gen \in Nat /\ old.off \in Nat /\ old.rows \in Seq(1..m)
    BY <1>1, <2>1, <2>2
  <2>4. Len(old.rows) <= Capacity
    BY <1>1 DEF TablesOk
  <2>5. Len(old.rows) \in Nat /\ Len(old.rows) >= 1
    BY <1>1, <2>3
  <2> QED  BY <2>1, <2>2, <2>3, <2>4, <2>5
<1>3. c \in Cells
  BY DEF Cells
<1>4. /\ a \in MemTable(m) /\ a.gen = old.gen /\ a.off = old.off /\ a.rows = old.rows
      /\ a.at = covered[w] /\ a.cell = c
  <2> HIDE DEF c
  <2> QED  BY <1>2, <1>3 DEF MemTable
<1>5. b \in MemTable(m) /\ b.gen = old.gen + 1 /\ b.rows = <<>> /\ Len(b.rows) = 0 /\ b.at = 0
  <2> DEFINE g == old.gen + 1
             o == End(old)
             r == <<>>
  <2>1. g \in Nat /\ o \in Nat /\ r \in Seq(1..m) /\ Len(r) = 0
    <3>1. g \in Nat /\ o \in Nat
      <4> HIDE DEF old
      <4>1. old.off + Len(old.rows) \in Nat /\ old.gen + 1 \in Nat
        BY <1>2
      <4> QED  BY <4>1 DEF End
    <3>2. r \in Seq(1..m) /\ Len(r) = 0
      OBVIOUS
    <3> QED  BY <3>1, <3>2
  <2>2. b = [gen |-> g, off |-> o, rows |-> r, at |-> 0, cell |-> "none"]
    BY DEF Table
  <2> HIDE DEF g, o, r, b
  <2>3. b \in MemTable(m) /\ b.gen = g /\ b.rows = r /\ b.at = 0
    BY <2>1, <2>2 DEF MemTable, Cells
  <2> QED  BY <2>1, <2>3 DEF g, r
<1>6. End(a) = End(old)
  BY <1>4 DEF End
<1>7. Rotated(w, ts) = t2 /\ Triggered(w, ts, q) = q2
  BY <1>1 DEF Rotated, Triggered
<1>8. owes \/ End(old) <= durable[w]
  <2> DEFINE d == durable[w]
  <2>1. d \in Nat
    OBVIOUS
  <2>2. \/ LocalEnd(old, d) < Len(old.rows)
        \/ LocalEnd(old, d) >= Len(old.rows) /\ LocalEnd(old, d) \in Nat
    <3> HIDE DEF old, d
    <3> QED  BY <1>2, <2>1, LocalEndOk
  <2>3. LocalEnd(old, d) >= Len(old.rows) => End(old) <= d
    <3> HIDE DEF old, d
    <3> QED  BY <1>2, <2>1, LocalEndOk
  <2> QED  BY <1>2, <2>2, <2>3
<1>9. c = "wait" \/ (c = "none" /\ End(old) <= durable[w])
  BY <1>8
<1> HIDE DEF a, b
<1>10. /\ t2 \in Seq(MemTable(m)) /\ Len(t2) = z + 1
       /\ \A i \in 1..z - 1 : t2[i] = ts[i]
       /\ t2[z] = a /\ t2[z + 1] = b
  BY <1>1, <1>4, <1>5, TwoForLast
<1> HIDE DEF t2, c
<1>11. \A i \in 1..z - 1 : i \in 1..z /\ i < z /\ ts[i].gen < old.gen
  BY <1>1 DEF TablesOk
<1>12. \A i \in 1..z : t2[i].gen = ts[i].gen /\ t2[i].off = ts[i].off /\ t2[i].rows = ts[i].rows
  <2> SUFFICES ASSUME NEW i \in 1..z
               PROVE  t2[i].gen = ts[i].gen /\ t2[i].off = ts[i].off /\ t2[i].rows = ts[i].rows
    OBVIOUS
  <2>1. i = z \/ i \in 1..z - 1
    BY <1>1
  <2> QED  BY <1>4, <1>10, <2>1
<1>13. \A g : Waiting(ts, g) => Waiting(t2, g) /\ g # old.gen
  <2> SUFFICES ASSUME NEW g, NEW i \in 1..z - 1, ts[i].gen = g, ts[i].cell = "wait"
               PROVE  Waiting(t2, g) /\ g # old.gen
    BY DEF Waiting
  <2>1. i \in 1..Len(t2) - 1 /\ t2[i] = ts[i]
    BY <1>1, <1>10
  <2>2. ts[i].gen < old.gen /\ ts[i].gen \in Nat
    BY <1>2, <1>11
  <2> QED  BY <1>2, <2>1, <2>2 DEF Waiting
<1>14. TablesOk(t2, N)
  <2>1. \A i \in 1..z + 1 : Len(t2[i].rows) <= Capacity /\ t2[i].at <= N
    <3> SUFFICES ASSUME NEW i \in 1..z + 1 PROVE Len(t2[i].rows) <= Capacity /\ t2[i].at <= N
      OBVIOUS
    <3>1. i = z + 1 \/ i = z \/ i \in 1..z - 1
      BY <1>1
    <3>2. N \in Nat /\ Capacity \in Nat
      BY Typed
    <3>3. CASE i = z + 1
      BY <1>5, <1>10, <3>2, <3>3
    <3>4. CASE i = z
      BY <1>2, <1>4, <1>10, <3>4
    <3>5. CASE i \in 1..z - 1
      BY <1>10, <1>11, <3>5 DEF TablesOk
    <3> QED  BY <3>1, <3>3, <3>4, <3>5
  <2>2. \A i, j \in 1..z + 1 : i < j => t2[i].gen < t2[j].gen
    <3> SUFFICES ASSUME NEW i \in 1..z + 1, NEW j \in 1..z + 1, i < j PROVE t2[i].gen < t2[j].gen
      OBVIOUS
    <3>1. i \in 1..z /\ (j = z + 1 \/ j \in 1..z)
      BY <1>1
    <3>2. CASE j \in 1..z
      BY <1>12, <3>1, <3>2 DEF TablesOk
    <3>3. CASE j = z + 1
      <4>0. i = z \/ i \in 1..z - 1
        BY <1>1, <3>1
      <4>1. ts[i].gen <= old.gen
        <5> DEFINE g == ts[i].gen
                   h == old.gen
        <5>1. g = h \/ g < h
          BY <1>11, <4>0
        <5>2. g \in Nat /\ h \in Nat
          BY <1>2, <3>1
        <5> HIDE DEF g, h
        <5>3. g <= h
          BY <5>1, <5>2
        <5> QED  BY <5>3 DEF g, h
      <4>2. ts[i].gen \in Nat /\ t2[i].gen = ts[i].gen
        BY <1>2, <1>12, <3>1
      <4> QED  BY <1>2, <1>5, <1>10, <3>3, <4>1, <4>2
    <3> QED  BY <3>1, <3>2, <3>3
  <2>3. \A i \in 1..z : Len(t2[i].rows) >= 1
    <3> SUFFICES ASSUME NEW i \in 1..z PROVE Len(t2[i].rows) >= 1
      OBVIOUS
    <3>1. i = z \/ i \in 1..z - 1
      BY <1>1
    <3> QED  BY <1>2, <1>12, <3>1 DEF TablesOk
  <2>4. Len(t2) >= 1 /\ Len(t2) = z + 1 /\ Len(t2) - 1 = z
    BY <1>1, <1>10
  <2> QED  BY <2>1, <2>2, <2>3, <2>4 DEF TablesOk
<1>15. FrozenOk(t2, durable[w])
  <2> SUFFICES ASSUME NEW i \in 1..z, t2[i].cell \in {"none", "done"}
               PROVE  End(t2[i]) <= durable[w]
    BY <1>1, <1>10 DEF FrozenOk
  <2>1. i = z \/ i \in 1..z - 1
    BY <1>1
  <2>2. CASE i = z
    BY <1>4, <1>6, <1>9, <1>10, <2>2
  <2>3. CASE i \in 1..z - 1
    BY <1>10, <2>3 DEF FrozenOk
  <2> QED  BY <2>1, <2>2, <2>3
<1>16. FlushOk(t2, flush[w])
  <2> SUFFICES ASSUME flush[w] # "idle" PROVE Len(t2) > 1 /\ t2[1].cell \in {"none", "done"}
    BY DEF FlushOk
  <2>1. z > 1 /\ ts[1].cell \in {"none", "done"}
    BY DEF FlushOk
  <2>2. 1 \in 1..z - 1
    BY <1>1, <2>1
  <2> QED  BY <1>1, <1>10, <2>1, <2>2
<1>17. AppendOk(t2, append[w], durable[w])
  <2>1. \A i \in 1..z : i \in 1..Len(t2)
    BY <1>1, <1>10
  <2> QED  BY <1>12, <2>1 DEF AppendOk
<1>18. q2 \in Seq(Nat) /\ QueueOk(t2, q2)
  <2> HIDE DEF owes, old
  <2>1. CASE ~owes
    BY <1>13, <2>1 DEF QueueOk
  <2>2. CASE owes
    <3>1. /\ q2 \in Seq(Nat) /\ Len(q2) = Len(q) + 1
          /\ \A k \in 1..Len(q) : q2[k] = q[k]
          /\ q2[Len(q) + 1] = old.gen
      BY <1>2, <2>2, WithLast
    <3>2. Waiting(t2, old.gen)
      <4>1. t2[z].gen = old.gen /\ t2[z].cell = "wait" /\ z \in 1..Len(t2) - 1
        BY <1>1, <1>4, <1>10, <2>2 DEF c
      <4> QED  BY <4>1 DEF Waiting
    <3>3. Len(q) \in Nat /\ \A k \in 1..Len(q2) : k \in 1..Len(q) \/ k = Len(q) + 1
      BY <3>1
    <3>4. \A k \in 1..Len(q2) : q2[k] # Tick => Waiting(t2, q2[k])
      BY <1>13, <3>1, <3>2, <3>3 DEF QueueOk
    <3>5. ASSUME NEW k \in 1..Len(q2), NEW l \in 1..Len(q2), k < l, q2[k] # Tick
          PROVE  q2[k] # q2[l]
      <4>1. k \in 1..Len(q) /\ q2[k] = q[k]
        BY <3>1, <3>3, <3>5
      <4>2. CASE l \in 1..Len(q)
        BY <3>1, <3>5, <4>1, <4>2 DEF QueueOk
      <4>3. CASE l = Len(q) + 1
        <5>1. Waiting(ts, q[k])
          BY <3>5, <4>1 DEF QueueOk
        <5> QED  BY <1>13, <3>1, <4>1, <4>3, <5>1
      <4> QED  BY <3>3, <4>2, <4>3
    <3> QED  BY <3>1, <3>4, <3>5 DEF QueueOk
  <2> QED  BY <2>1, <2>2
<1>19. ExactOk(t2, q2, append[w], durable[w])
  <2> DEFINE x == append[w]
             d == durable[w]
  <2>0. ExactOk(ts, q, x, d)
    OBVIOUS
  <2> HIDE DEF x, d, owes, old
  <2> SUFFICES ASSUME x.phase # "idle", x.exact = TRUE
               PROVE  /\ x.gen # Tick /\ \A k \in 1..Len(q2) : q2[k] # x.gen
                      /\ \E i \in 1..Len(t2) - 1 :
                           /\ t2[i].gen = x.gen /\ t2[i].cell = "wait" /\ x.end = Len(t2[i].rows)
                           /\ x.phase = "settle" => End(t2[i]) <= d
    BY DEF ExactOk, x, d
  <2>1. PICK i \in 1..z - 1 :
               /\ ts[i].gen = x.gen /\ ts[i].cell = "wait" /\ x.end = Len(ts[i].rows)
               /\ x.phase = "settle" => End(ts[i]) <= d
    BY <2>0 DEF ExactOk
  <2>2. i \in 1..Len(t2) - 1 /\ t2[i] = ts[i]
    BY <1>1, <1>10
  <2>3. Waiting(ts, x.gen) /\ x.gen # Tick /\ \A k \in 1..Len(q) : q[k] # x.gen
    BY <2>0, <2>1 DEF Waiting, ExactOk
  <2>4. \A k \in 1..Len(q2) : q2[k] # x.gen
    <3>1. CASE ~owes
      BY <2>3, <3>1
    <3>2. CASE owes
      <4>1. /\ Len(q2) = Len(q) + 1 /\ Len(q) \in Nat
            /\ \A k \in 1..Len(q) : q2[k] = q[k]
            /\ q2[Len(q) + 1] = old.gen
        BY <1>2, <3>2, WithLast
      <4>2. \A k \in 1..Len(q2) : k \in 1..Len(q) \/ k = Len(q) + 1
        BY <4>1
      <4> QED  BY <1>13, <2>3, <4>1, <4>2
    <3> QED  BY <3>1, <3>2
  <2> QED  BY <2>1, <2>2, <2>3, <2>4
<1> QED  BY <1>7, <1>10, <1>14, <1>15, <1>16, <1>17, <1>18, <1>19

(* force_freeze_active.                                                    *)
LEMMA FreezeStep ==
  ASSUME Inv, NEW w \in Writers, Freeze(w)
  PROVE  Inv'
<1> DEFINE ts == tables[w]
           q == queue[w]
           m == put
           T == Rotated(w, ts)
           Q == Triggered(w, ts, q)
<1>1. /\ pc[w] = "open" /\ Active(w).rows # <<>>
      /\ tables' = [tables EXCEPT ![w] = T] /\ queue' = [queue EXCEPT ![w] = Q]
      /\ UNCHANGED <<wal, late, manifest, pc, epoch, base, pos, last, durable, covered, append,
                     flush, poisoned, put, acked>>
  BY DEF Freeze, store, opening, ghosts
<1>2. /\ m \in Nat /\ ts \in Seq(MemTable(m)) /\ q \in Seq(Nat)
      /\ covered[w] \in Nat /\ covered[w] <= N /\ durable[w] \in Nat
      /\ TablesOk(ts, N) /\ FrozenOk(ts, durable[w]) /\ QueueOk(ts, q) /\ FlushOk(ts, flush[w])
      /\ AppendOk(ts, append[w], durable[w]) /\ ExactOk(ts, q, append[w], durable[w])
  BY <1>1, AsIs, Typed
<1>3. Len(Last(ts).rows) >= 1
  <2>1. Len(ts) \in Nat /\ Len(ts) \in 1..Len(ts)
    BY TypedTables
  <2>2. Active(w).rows \in Seq(1..put)
    BY <2>1, TypedTables
  <2>3. Last(ts) = Active(w)
    BY DEF Active
  <2> QED  BY <1>1, <2>2, <2>3
<1>4. /\ T \in Seq(MemTable(put)) /\ Q \in Seq(Nat)
      /\ TablesOk(T, N) /\ FrozenOk(T, durable[w])
      /\ QueueOk(T, Q) /\ FlushOk(T, flush[w])
      /\ AppendOk(T, append[w], durable[w]) /\ ExactOk(T, Q, append[w], durable[w])
  <2> HIDE DEF ts, q, m
  <2>1. /\ Rotated(w, ts) \in Seq(MemTable(m)) /\ Triggered(w, ts, q) \in Seq(Nat)
        /\ TablesOk(Rotated(w, ts), N) /\ FrozenOk(Rotated(w, ts), durable[w])
        /\ QueueOk(Rotated(w, ts), Triggered(w, ts, q)) /\ FlushOk(Rotated(w, ts), flush[w])
        /\ AppendOk(Rotated(w, ts), append[w], durable[w])
        /\ ExactOk(Rotated(w, ts), Triggered(w, ts, q), append[w], durable[w])
    BY <1>2, <1>3, RotatedOk
  <2> QED  BY <2>1 DEF m
<1> HIDE DEF T, Q
<1>5. Shape /\ tables \in [Writers -> Seq(MemTable(put))] /\ queue \in [Writers -> Seq(Nat)]
  BY DEF Inv, Shape, WriterState
<1>6. Stores' /\ WriterState'
  BY <1>1, <1>4, <1>5 DEF Shape, Stores, WriterState
<1>7. tables'[w] = T /\ queue'[w] = Q
  BY <1>1, <1>5
<1>8. \A u \in Writers \ {w} : Same(u)
  BY <1>1, <1>5 DEF Same
<1>9. TaskTo(w, N)
  BY <1>1, <1>4, <1>7, AsIs DEF TaskTo
<1> QED  BY <1>1, <1>6, <1>8, <1>9, AsIs, TaskStep DEF Moves

(* A batch is added to the active memtable.                                *)
LEMMA RowAdded ==
  ASSUME NEW m \in Nat, NEW k \in Nat, m <= k, NEW ts \in Seq(MemTable(m)),
         NEW n, NEW d, NEW q, NEW f, NEW a \in Appending,
         TablesOk(ts, n), FrozenOk(ts, d), QueueOk(ts, q), FlushOk(ts, f),
         AppendOk(ts, a, d), ExactOk(ts, q, a, d), Len(Last(ts).rows) < Capacity,
         NEW t \in MemTable(k), t.gen = Last(ts).gen, t.off = Last(ts).off,
         t.at = Last(ts).at, t.cell = Last(ts).cell, Len(t.rows) = Len(Last(ts).rows) + 1,
         NEW t2, t2 = [ts EXCEPT ![Len(ts)] = t]
  PROVE  /\ t2 \in Seq(MemTable(k)) /\ TablesOk(t2, n) /\ FrozenOk(t2, d) /\ QueueOk(t2, q)
         /\ FlushOk(t2, f) /\ AppendOk(t2, a, d) /\ ExactOk(t2, q, a, d)
         /\ Len(Last(t2).rows) >= 1
<1> DEFINE z == Len(ts)
           old == ts[z]
<1>1. z \in Nat /\ z >= 1 /\ z \in 1..z /\ Last(ts) = old /\ Capacity \in Nat
  BY MemWalAssumption DEF TablesOk, Last
<1>2. ts \in Seq(MemTable(k)) /\ \A i \in 1..z : ts[i] \in MemTable(k)
  BY MoreTables
<1>3. old \in MemTable(k) /\ old.rows \in Seq(1..k)
  <2>1. old \in MemTable(k)
    BY <1>1, <1>2
  <2> QED  BY <2>1 DEF MemTable
<1>4. Len(old.rows) \in Nat
  BY <1>3
<1>5. t2 = [ts EXCEPT ![z] = t]
  OBVIOUS
<1>6. /\ t \in MemTable(k) /\ t.gen = old.gen /\ t.off = old.off /\ t.at = old.at
      /\ Len(t.rows) = Len(old.rows) + 1 /\ t.cell = old.cell
  BY <1>1
<1>7. t2 \in Seq(MemTable(k)) /\ Len(t2) = z /\ t2[z] = t /\ \A i \in 1..z - 1 : t2[i] = ts[i]
  <2> DEFINE S == MemTable(k)
  <2>1. ts \in Seq(S) /\ z \in 1..Len(ts) /\ t \in S
    BY <1>1, <1>2, <1>6
  <2> HIDE DEF S, z
  <2>2. /\ t2 \in Seq(S) /\ Len(t2) = Len(ts) /\ t2[z] = t
        /\ \A i \in 1..Len(ts) : i # z => t2[i] = ts[i]
    <3> DEFINE g == [ts EXCEPT ![z] = t]
    <3>1. /\ g \in Seq(S) /\ Len(g) = Len(ts) /\ g[z] = t
          /\ \A i \in 1..Len(ts) : i # z => g[i] = ts[i]
      BY <2>1, OneChanged
    <3>2. t2 = g
      BY <1>5
    <3> QED  BY <3>1, <3>2
  <2> QED  BY <1>1, <2>2 DEF S, z
<1>8. Last(t2) = t
  BY <1>7 DEF Last
<1>9. \A i \in 1..z : /\ t2[i].gen = ts[i].gen /\ t2[i].off = ts[i].off /\ t2[i].at = ts[i].at
                      /\ Len(t2[i].rows) <= Capacity /\ Len(ts[i].rows) <= Len(t2[i].rows)
  <2> SUFFICES ASSUME NEW i \in 1..z
               PROVE  /\ t2[i].gen = ts[i].gen /\ t2[i].off = ts[i].off /\ t2[i].at = ts[i].at
                      /\ Len(t2[i].rows) <= Capacity /\ Len(ts[i].rows) <= Len(t2[i].rows)
    OBVIOUS
  <2>1. CASE i = z
    BY <1>1, <1>4, <1>6, <1>7, <2>1
  <2>2. CASE i # z
    <3>1. i \in 1..z - 1
      BY <1>1, <2>2
    <3>2. ts[i].rows \in Seq(1..k)
      BY <1>2 DEF MemTable
    <3> QED  BY <1>7, <3>1, <3>2 DEF TablesOk
  <2> QED  BY <2>1, <2>2
<1>10. TablesOk(t2, n)
  BY <1>7, <1>9 DEF TablesOk
<1>11. FrozenOk(t2, d) /\ FlushOk(t2, f)
  BY <1>1, <1>7 DEF FrozenOk, FlushOk
<1>12. QueueOk(t2, q)
  <2>1. \A g : Waiting(ts, g) => Waiting(t2, g)
    BY <1>7 DEF Waiting
  <2> QED  BY <2>1 DEF QueueOk
<1>13. AppendOk(t2, a, d)
  <2>1. a.end \in Nat /\ \A i \in 1..z : Len(ts[i].rows) \in Nat /\ Len(t2[i].rows) \in Nat
    <3>1. \A i \in 1..z : ts[i].rows \in Seq(1..k) /\ t2[i].rows \in Seq(1..k)
      <4>1. \A i \in 1..z : ts[i] \in MemTable(k) /\ t2[i] \in MemTable(k)
        BY <1>2, <1>7
      <4> QED  BY <4>1 DEF MemTable
    <3>2. a.end \in Nat
      BY DEF Appending
    <3> QED  BY <3>1, <3>2
  <2> QED  BY <1>7, <1>9, <2>1 DEF AppendOk
<1>14. ExactOk(t2, q, a, d)
  BY <1>7 DEF ExactOk
<1> QED  BY <1>4, <1>6, <1>7, <1>8, <1>10, <1>11, <1>12, <1>13, <1>14

(* A tick is queued.                                                       *)
LEMMA TickAdded ==
  ASSUME NEW ts, NEW q \in Seq(Nat), NEW a, NEW d, QueueOk(ts, q), ExactOk(ts, q, a, d)
  PROVE  /\ Append(q, Tick) \in Seq(Nat) /\ QueueOk(ts, Append(q, Tick))
         /\ ExactOk(ts, Append(q, Tick), a, d)
<1> DEFINE x == Tick
           p == Append(q, x)
<1>1. x \in Nat
  BY DEF Tick
<1> HIDE DEF x
<1>2. /\ p \in Seq(Nat) /\ Len(p) = Len(q) + 1 /\ Len(q) \in Nat
      /\ \A i \in 1..Len(q) : p[i] = q[i]
      /\ p[Len(q) + 1] = x
  BY <1>1, WithLast
<1> HIDE DEF p
<1>3. \A k \in 1..Len(p) : k \in 1..Len(q) \/ k = Len(q) + 1
  BY <1>2
<1>4. \A k \in 1..Len(p) : p[k] # x => Waiting(ts, p[k])
  BY <1>2, <1>3 DEF QueueOk, x
<1>5. ASSUME NEW k \in 1..Len(p), NEW l \in 1..Len(p), k < l, p[k] # x PROVE p[k] # p[l]
  <2>1. k \in 1..Len(q) /\ p[k] = q[k]
    BY <1>2, <1>3, <1>5
  <2>2. CASE l \in 1..Len(q)
    BY <1>2, <1>5, <2>1, <2>2 DEF QueueOk, x
  <2>3. CASE l = Len(q) + 1
    BY <1>2, <1>5, <2>3
  <2> QED  BY <1>3, <2>2, <2>3
<1>6. QueueOk(ts, p)
  BY <1>4, <1>5 DEF QueueOk, x
<1>7. ExactOk(ts, p, a, d)
  <2>1. ASSUME a.gen # x, \A k \in 1..Len(q) : q[k] # a.gen
        PROVE  \A k \in 1..Len(p) : p[k] # a.gen
    BY <1>2, <1>3, <2>1
  <2> QED  BY <2>1 DEF ExactOk, x
<1> QED  BY <1>2, <1>6, <1>7 DEF p, x

(* put_memtable_no_wait.                                                   *)
LEMMA PutStep ==
  ASSUME Inv, NEW w \in Writers, Put(w)
  PROVE  Inv'
<1> DEFINE ts == tables[w]
           m  == put
           k  == put + 1
           t2 == [ts EXCEPT ![Len(ts)].rows = Append(@, k)]
           q  == queue[w]
           q2 == IF k \in Crossing THEN Append(q, Tick) ELSE q
           full == Len(Last(t2).rows) >= Capacity
           T == IF full THEN Rotated(w, t2) ELSE t2
           Q == IF full THEN Triggered(w, t2, q2) ELSE q2
           n == N
           d == durable[w]
           f == flush[w]
           a == append[w]
<1>1. /\ pc[w] = "open" /\ m < MaxBatches /\ Len(Active(w).rows) < Capacity
      /\ tables' = [tables EXCEPT ![w] = T] /\ queue' = [queue EXCEPT ![w] = Q] /\ put' = k
      /\ UNCHANGED <<wal, late, manifest, pc, epoch, base, pos, last, durable, covered, append,
                     flush, poisoned, acked>>
  BY DEF Put, store, opening
<1>2. /\ m \in Nat /\ MaxBatches \in Nat /\ ts \in Seq(MemTable(m)) /\ q \in Seq(Nat)
      /\ covered[w] \in Nat /\ covered[w] <= N /\ d \in Nat /\ a \in Appending
      /\ TablesOk(ts, n) /\ FrozenOk(ts, d) /\ QueueOk(ts, q) /\ FlushOk(ts, f)
      /\ AppendOk(ts, a, d) /\ ExactOk(ts, q, a, d)
  BY <1>1, AsIs, Typed
<1>3. k \in Nat /\ m <= k /\ k \in 1..k /\ k <= MaxBatches
  <2>1. m \in Nat /\ MaxBatches \in Nat /\ m < MaxBatches
    BY <1>1, <1>2
  <2>2. k = m + 1
    OBVIOUS
  <2> HIDE DEF m, k
  <2> QED  BY <2>1, <2>2
<1>4. Len(Last(ts).rows) < Capacity
  BY <1>1 DEF Active
<1> HIDE DEF ts, m, q, n, d, f, a
<1>5. /\ t2 \in Seq(MemTable(k)) /\ TablesOk(t2, n) /\ FrozenOk(t2, d) /\ QueueOk(t2, q)
      /\ FlushOk(t2, f) /\ AppendOk(t2, a, d) /\ ExactOk(t2, q, a, d)
      /\ Len(Last(t2).rows) >= 1
  <2> HIDE DEF k
  <2> DEFINE old == Last(ts)
             r == Append(old.rows, k)
             t == [old EXCEPT !.rows = r]
             g == t2
  <2>1. old = ts[Len(ts)] /\ old \in MemTable(m)
    <3>1. Len(ts) \in Nat /\ Len(ts) >= 1
      BY <1>2 DEF TablesOk
    <3> QED  BY <1>2, <3>1 DEF Last
  <2>2. old \in MemTable(k) /\ old.rows \in Seq(1..k)
    <3>1. old \in MemTable(k)
      BY <1>2, <1>3, <2>1, MoreTables
    <3> QED  BY <3>1 DEF MemTable
  <2>3. g = [ts EXCEPT ![Len(ts)] = t]
    BY <2>1
  <2> HIDE DEF old
  <2>4. r \in Seq(1..k) /\ Len(r) = Len(old.rows) + 1
    BY <1>3, <2>2
  <2> HIDE DEF r
  <2>5. /\ t \in MemTable(k) /\ t.gen = old.gen /\ t.off = old.off /\ t.at = old.at
        /\ Len(t.rows) = Len(old.rows) + 1 /\ t.cell = old.cell
    BY <2>2, <2>4 DEF MemTable
  <2> HIDE DEF t, g
  <2>6. /\ g \in Seq(MemTable(k)) /\ TablesOk(g, n) /\ FrozenOk(g, d) /\ QueueOk(g, q)
        /\ FlushOk(g, f) /\ AppendOk(g, a, d) /\ ExactOk(g, q, a, d)
        /\ Len(Last(g).rows) >= 1
    BY <1>2, <1>3, <1>4, <2>3, <2>5, RowAdded DEF old
  <2> QED  BY <2>6 DEF g
<1> HIDE DEF t2
<1>6. q2 \in Seq(Nat) /\ QueueOk(t2, q2) /\ ExactOk(t2, q2, a, d)
  BY <1>2, <1>5, TickAdded
<1> HIDE DEF q2, k
<1>7. /\ T \in Seq(MemTable(k)) /\ Q \in Seq(Nat)
      /\ TablesOk(T, N) /\ FrozenOk(T, durable[w])
      /\ QueueOk(T, Q) /\ FlushOk(T, flush[w])
      /\ AppendOk(T, append[w], durable[w]) /\ ExactOk(T, Q, append[w], durable[w])
  <2>1. /\ TablesOk(t2, N) /\ FrozenOk(t2, durable[w]) /\ QueueOk(t2, q2) /\ FlushOk(t2, flush[w])
        /\ AppendOk(t2, append[w], durable[w]) /\ ExactOk(t2, q2, append[w], durable[w])
        /\ durable[w] \in Nat
    BY <1>2, <1>5, <1>6 DEF n, d, f, a
  <2>2. CASE ~full
    BY <1>5, <1>6, <2>1, <2>2
  <2>3. CASE full
    <3>1. /\ Rotated(w, t2) \in Seq(MemTable(k)) /\ Triggered(w, t2, q2) \in Seq(Nat)
          /\ TablesOk(Rotated(w, t2), N) /\ FrozenOk(Rotated(w, t2), durable[w])
          /\ QueueOk(Rotated(w, t2), Triggered(w, t2, q2)) /\ FlushOk(Rotated(w, t2), flush[w])
          /\ AppendOk(Rotated(w, t2), append[w], durable[w])
          /\ ExactOk(Rotated(w, t2), Triggered(w, t2, q2), append[w], durable[w])
      BY <1>2, <1>3, <1>5, <1>6, <2>1, RotatedOk
    <3> QED  BY <2>3, <3>1
  <2> QED  BY <2>2, <2>3
<1> HIDE DEF T, Q
<1>8. Shape /\ tables \in [Writers -> Seq(MemTable(k))] /\ queue \in [Writers -> Seq(Nat)]
  <2>1. Shape /\ tables \in [Writers -> Seq(MemTable(m))] /\ queue \in [Writers -> Seq(Nat)]
    BY DEF Inv, Shape, WriterState, m
  <2>2. Seq(MemTable(m)) \subseteq Seq(MemTable(k))
    BY <1>2, <1>3, MoreTables
  <2> QED  BY <2>1, <2>2
<1>9. WriterState'
  BY <1>1, <1>7, <1>8 DEF Shape, WriterState
<1>10. Stores'
  <2>1. /\ LogEntry(m) \subseteq LogEntry(k) /\ Request(m) \subseteq Request(k)
    BY <1>2, <1>3, MoreTables
  <2>2. Seq(1..m) \subseteq Seq(1..k) /\ 1..m \subseteq 1..k
    BY <1>2, <1>3, MoreRows
  <2>3. wal' \in [DOMAIN wal' -> LogEntry(put')] /\ \A p \in DOMAIN wal' : Len(wal'[p].rows) <= Capacity
    BY <1>1, <1>8, <2>1 DEF Shape, Stores, m
  <2>4. late' \subseteq Request(put') /\ \A r \in late' : Len(r.entry.rows) <= Capacity
    BY <1>1, <1>8, <2>1 DEF Shape, Stores, m
  <2>5. manifest' \in [epoch : Nat, gen : Nat, replayAfter : Nat, lastSeen : Nat,
                       sst : SUBSET [gen : Nat, rows : Seq(1..put')]]
    <3>1. [gen : Nat, rows : Seq(1..m)] \subseteq [gen : Nat, rows : Seq(1..k)]
      BY <2>2
    <3>2. manifest \in [epoch : Nat, gen : Nat, replayAfter : Nat, lastSeen : Nat,
                        sst : SUBSET [gen : Nat, rows : Seq(1..m)]]
      BY <1>8 DEF Shape, Stores, m
    <3>3. manifest.sst \subseteq [gen : Nat, rows : Seq(1..k)]
      BY <3>1, <3>2
    <3>4. manifest \in [epoch : Nat, gen : Nat, replayAfter : Nat, lastSeen : Nat,
                        sst : SUBSET [gen : Nat, rows : Seq(1..k)]]
      BY <3>2, <3>3
    <3> QED  BY <1>1, <3>4
  <2>6. put' \in 0..MaxBatches /\ acked' \subseteq 1..put'
    BY <1>1, <1>2, <1>3, <1>8, <2>2 DEF Shape, Stores, m
  <2> QED  BY <2>3, <2>4, <2>5, <2>6 DEF Stores
<1>11. tables'[w] = T /\ queue'[w] = Q
  BY <1>1, <1>8
<1>12. \A u \in Writers \ {w} : Same(u)
  BY <1>1, <1>8 DEF Same
<1>13. TaskTo(w, N)
  BY <1>1, <1>7, <1>11, AsIs DEF TaskTo
<1> QED  BY <1>1, <1>9, <1>10, <1>12, <1>13, AsIs, TaskStep DEF Moves

-----------------------------------------------------------------------------
(* Triggers and completions                                                *)

(* The completion cell of a memtable is written.                           *)
LEMMA CompleteOk ==
  ASSUME Inv, NEW w \in Writers, NEW g, NEW how \in {"done", "failed"}, NEW p \in 0..N,
         NEW q, QueueOk(tables[w], q), \A k \in 1..Len(q) : q[k] # Tick => q[k] # g,
         how = "done" => \A i \in 1..Len(tables[w]) - 1 :
                           tables[w][i].gen = g => End(tables[w][i]) <= durable[w],
         how = "failed" => \A i \in 1..Len(tables[w]) :
                             tables[w][i].gen = g => tables[w][i].cell = "wait"
  PROVE  /\ Complete(w, g, how, p) \in Seq(MemTable(put))
         /\ TablesOk(Complete(w, g, how, p), N) /\ FrozenOk(Complete(w, g, how, p), durable[w])
         /\ QueueOk(Complete(w, g, how, p), q) /\ FlushOk(Complete(w, g, how, p), flush[w])
<1> DEFINE ts == tables[w]
           d == durable[w]
           T == Complete(w, g, how, p)
           Marked(i) == [ts[i] EXCEPT !.cell = how, !.at = IF p = 0 THEN @ ELSE p]
           z == Len(ts)
<1>1. /\ ts \in Seq(MemTable(put)) /\ z \in Nat /\ z >= 1 /\ DOMAIN ts = 1..z /\ N \in Nat
      /\ \A i \in 1..z : ts[i] \in MemTable(put) /\ ts[i].at \in Nat
  <2>1. N \in Nat
    BY Typed
  <2>2. ts \in Seq(MemTable(put)) /\ z \in Nat /\ z >= 1
        /\ \A i \in 1..z : ts[i] \in MemTable(put) /\ ts[i].at \in Nat
    BY TypedTables
  <2>3. DOMAIN ts = 1..z
    BY <2>2
  <2> QED  BY <2>1, <2>2, <2>3
<1>2. TablesOk(ts, N) /\ FrozenOk(ts, d) /\ FlushOk(ts, flush[w])
  BY DEF Inv, Local, TasksOk
<1>3. T = [i \in 1..z |-> IF ts[i].gen = g THEN Marked(i) ELSE ts[i]]
  BY <1>1 DEF Complete
<1>4. ASSUME NEW i \in 1..z
      PROVE  /\ Marked(i) \in MemTable(put) /\ Marked(i).gen = ts[i].gen /\ Marked(i).off = ts[i].off
             /\ Marked(i).rows = ts[i].rows /\ Marked(i).cell = how /\ Marked(i).at <= N
  <2> DEFINE x == IF p = 0 THEN ts[i].at ELSE p
  <2>1. x \in Nat /\ x <= N
    BY <1>1, <1>2 DEF TablesOk
  <2>2. Marked(i) = [ts[i] EXCEPT !.cell = how, !.at = x]
    BY <1>1 DEF MemTable
  <2> HIDE DEF x, Marked
  <2>3. ts[i] \in MemTable(put) /\ how \in Cells
    BY <1>1 DEF Cells
  <2> QED  BY <2>1, <2>2, <2>3 DEF MemTable
<1> HIDE DEF T, Marked
<1>5. \A i \in 1..z : /\ T[i] \in MemTable(put) /\ T[i].gen = ts[i].gen /\ T[i].off = ts[i].off
                      /\ T[i].rows = ts[i].rows /\ T[i].at <= N
                      /\ T[i].cell = IF ts[i].gen = g THEN how ELSE ts[i].cell
  <2> SUFFICES ASSUME NEW i \in 1..z
               PROVE  /\ T[i] \in MemTable(put) /\ T[i].gen = ts[i].gen /\ T[i].off = ts[i].off
                      /\ T[i].rows = ts[i].rows /\ T[i].at <= N
                      /\ T[i].cell = IF ts[i].gen = g THEN how ELSE ts[i].cell
    OBVIOUS
  <2>1. CASE ts[i].gen = g
    BY <1>3, <1>4, <2>1
  <2>2. CASE ts[i].gen # g
    <3>1. T[i] = ts[i]
      BY <1>3, <2>2
    <3>2. ts[i].at <= N
      BY <1>2 DEF TablesOk
    <3> QED  BY <1>1, <2>2, <3>1, <3>2
  <2> QED  BY <2>1, <2>2
<1>6. T \in Seq(MemTable(put)) /\ Len(T) = z
  <2> DEFINE S == MemTable(put)
  <2>1. DOMAIN T = 1..z /\ T = [i \in 1..z |-> T[i]] /\ \A i \in 1..z : T[i] \in S
    BY <1>3, <1>5
  <2> HIDE DEF S, z
  <2>2. T \in Seq(S) /\ Len(T) = z
    BY <1>1, <2>1, FunctionIsSeq
  <2> QED  BY <2>2 DEF S
<1>7. TablesOk(T, N)
  <2>1. \A i \in 1..z : Len(T[i].rows) <= Capacity /\ T[i].at <= N
    BY <1>2, <1>5 DEF TablesOk
  <2>2. \A i, j \in 1..z : i < j => T[i].gen < T[j].gen
    BY <1>2, <1>5 DEF TablesOk
  <2>3. \A i \in 1..z - 1 : i \in 1..z /\ Len(T[i].rows) >= 1
    BY <1>1, <1>2, <1>5 DEF TablesOk
  <2> QED  BY <1>1, <1>6, <2>1, <2>2, <2>3 DEF TablesOk
<1>8. FrozenOk(T, d)
  <2> SUFFICES ASSUME NEW i \in 1..z - 1, T[i].cell \in {"none", "done"} PROVE End(T[i]) <= d
    BY <1>6 DEF FrozenOk
  <2>1. i \in 1..z
    BY <1>1
  <2>2. End(T[i]) = End(ts[i])
    BY <1>5, <2>1 DEF End
  <2>3. CASE ts[i].gen = g
    <3>1. how = "done"
      BY <1>5, <2>1, <2>3
    <3> QED  BY <2>2, <2>3, <3>1
  <2>4. CASE ts[i].gen # g
    BY <1>2, <1>5, <2>1, <2>2, <2>4 DEF FrozenOk
  <2> QED  BY <2>3, <2>4
<1>9. QueueOk(T, q)
  <2>1. ASSUME NEW x, Waiting(ts, x), x # g PROVE Waiting(T, x)
    <3>1. PICK i \in 1..z - 1 : ts[i].gen = x /\ ts[i].cell = "wait"
      BY <2>1 DEF Waiting
    <3>2. i \in 1..z
      BY <1>1
    <3> QED  BY <1>5, <1>6, <2>1, <3>1, <3>2 DEF Waiting
  <2> QED  BY <2>1 DEF QueueOk
<1>10. FlushOk(T, flush[w])
  <2> SUFFICES ASSUME flush[w] # "idle" PROVE Len(T) > 1 /\ T[1].cell \in {"none", "done"}
    BY DEF FlushOk
  <2>1. z > 1 /\ ts[1].cell \in {"none", "done"} /\ 1 \in 1..z
    BY <1>1, <1>2 DEF FlushOk
  <2>2. ts[1].gen = g => how = "done"
    BY <2>1
  <2> QED  BY <1>5, <1>6, <2>1, <2>2
<1> QED  BY <1>6, <1>7, <1>8, <1>9, <1>10 DEF T

(* next_pending_store finds a memtable that owes an append, if it finds    *)
(* one.                                                                    *)
LEMMA PendingOk ==
  ASSUME Inv, NEW w \in Writers, Pending(w) # 0
  PROVE  \E i \in 1..Len(tables[w]) :
           tables[w][i].gen = Pending(w) /\ End(tables[w][i]) > durable[w]
<1> DEFINE ts == tables[w]
           owing == {t \in Range(ts) : End(t) > durable[w]}
           G == {t.gen : t \in owing}
<1>1. /\ ts \in Seq(MemTable(put)) /\ DOMAIN ts = 1..Len(ts)
      /\ \A i \in 1..Len(ts) : ts[i].gen \in Nat
  BY TypedTables
<1>2. owing # {} /\ Pending(w) = Min(G)
  BY DEF Pending
<1>3. \A t \in owing : \E i \in 1..Len(ts) : t = ts[i] /\ End(ts[i]) > durable[w]
  BY <1>1 DEF Range
<1> HIDE DEF owing
<1>4. G \subseteq Nat /\ G # {}
  BY <1>1, <1>2, <1>3
<1>5. Min(G) \in G
  <2> HIDE DEF G
  <2> QED  BY <1>4, Least
<1> QED  BY <1>2, <1>3, <1>5

(* A trigger is taken from the queue.                                      *)
LEMMA TriggerTaken ==
  ASSUME NEW ts, NEW q \in Seq(Nat), q # <<>>, QueueOk(ts, q)
  PROVE  /\ Tail(q) \in Seq(Nat) /\ QueueOk(ts, Tail(q)) /\ Head(q) \in Nat
         /\ Head(q) # Tick => /\ Waiting(ts, Head(q))
                              /\ \A k \in 1..Len(Tail(q)) : Tail(q)[k] # Head(q)
<1> DEFINE p == Tail(q)
<1>1. /\ Len(q) \in Nat /\ Len(q) >= 1 /\ p \in Seq(Nat) /\ Len(p) = Len(q) - 1
      /\ \A i \in 1..Len(q) - 1 : p[i] = q[i + 1]
      /\ Head(q) = q[1] /\ Head(q) \in Nat
  BY WithoutFirst
<1> HIDE DEF p
<1>2. 1 \in 1..Len(q) /\ \A k \in 1..Len(p) : k + 1 \in 1..Len(q) /\ p[k] = q[k + 1] /\ 1 < k + 1
  BY <1>1
<1>3. QueueOk(ts, p)
  <2>1. ASSUME NEW k \in 1..Len(p), NEW l \in 1..Len(p), k < l, p[k] # Tick PROVE p[k] # p[l]
    <3>1. k + 1 < l + 1
      BY <1>1, <2>1
    <3> QED  BY <1>2, <2>1, <3>1 DEF QueueOk
  <2>2. \A k \in 1..Len(p) : p[k] # Tick => Waiting(ts, p[k])
    BY <1>2 DEF QueueOk
  <2> QED  BY <2>1, <2>2 DEF QueueOk
<1>4. ASSUME Head(q) # Tick
      PROVE  Waiting(ts, Head(q)) /\ \A k \in 1..Len(p) : p[k] # Head(q)
  BY <1>1, <1>2, <1>4 DEF QueueOk
<1> QED  BY <1>1, <1>3, <1>4 DEF p

(* WalFlushHandler::handle up to the append.                               *)
LEMMA TakeTriggerStep ==
  ASSUME Inv, NEW w \in Writers, TakeTrigger(w)
  PROVE  Inv'
<1> DEFINE ts == tables[w]
           q == queue[w]
           d == durable[w]
           Q == IF q = <<>> THEN q ELSE Tail(q)
           msg == IF q = <<>> THEN Tick ELSE Head(q)
           gen == IF msg = Tick THEN Pending(w) ELSE msg
<1>1. /\ pc[w] = "open" /\ append[w].phase = "idle" /\ queue' = [queue EXCEPT ![w] = Q]
      /\ UNCHANGED <<wal, late, manifest, pc, epoch, base, pos, last, durable, covered, flush,
                     poisoned, put, acked>>
  BY DEF TakeTrigger, store, opening, ghosts
<1>2. \/ /\ gen # 0 /\ LocalEnd(TableOf(w, gen), d) < Len(TableOf(w, gen).rows)
         /\ append' = [append EXCEPT ![w] =
              [Idle EXCEPT !.phase = "put", !.gen = gen, !.exact = msg # Tick,
                           !.end = Len(TableOf(w, gen).rows)]]
         /\ UNCHANGED tables
      \/ /\ gen # 0 /\ LocalEnd(TableOf(w, gen), d) >= Len(TableOf(w, gen).rows)
         /\ tables' = [tables EXCEPT ![w] = Complete(w, gen, "done", 0)]
         /\ UNCHANGED append
      \/ gen = 0 /\ UNCHANGED <<tables, append>>
  BY DEF TakeTrigger
<1>3. /\ ts \in Seq(MemTable(put)) /\ q \in Seq(Nat) /\ d \in Nat /\ Len(ts) \in Nat
      /\ TablesOk(ts, N) /\ FrozenOk(ts, d) /\ QueueOk(ts, q) /\ FlushOk(ts, flush[w])
      /\ N \in Nat
  BY <1>1, AsIs, Typed, TypedTables
<1>4. Q \in Seq(Nat) /\ QueueOk(ts, Q) /\ msg \in Nat
  <2> HIDE DEF ts, q
  <2>1. CASE q = <<>>
    BY <1>3, <2>1 DEF Tick
  <2>2. CASE q # <<>>
    BY <1>3, <2>2, TriggerTaken
  <2> QED  BY <2>1, <2>2
<1>5. ASSUME msg # Tick
      PROVE  gen = msg /\ Waiting(ts, msg) /\ \A k \in 1..Len(Q) : Q[k] # msg
  <2>1. q # <<>> /\ gen = msg /\ msg = Head(q) /\ Q = Tail(q)
    BY <1>5
  <2> HIDE DEF ts, q, Q, msg, gen
  <2> QED  BY <1>3, <1>5, <2>1, TriggerTaken
<1>6. \A i \in 1..Len(ts) : /\ ts[i].gen \in Nat /\ ts[i].off \in Nat /\ Len(ts[i].rows) \in Nat
                            /\ TableOf(w, ts[i].gen) = ts[i]
  BY TypedTables, TableOfGen
<1>7. ASSUME gen # 0
      PROVE  \E i \in 1..Len(ts) : /\ ts[i].gen = gen
                                   /\ msg # Tick => i \in 1..Len(ts) - 1 /\ ts[i].cell = "wait"
                                   /\ msg = Tick => End(ts[i]) > d
  <2>1. CASE msg # Tick
    <3>1. PICK i \in 1..Len(ts) - 1 : ts[i].gen = gen /\ ts[i].cell = "wait"
      BY <1>5, <2>1 DEF Waiting
    <3>2. i \in 1..Len(ts)
      BY <1>3
    <3> QED  BY <2>1, <3>1, <3>2
  <2>2. CASE msg = Tick
    BY <1>7, <2>2, PendingOk
  <2> QED  BY <2>1, <2>2
<1> HIDE DEF Q, msg, gen
<1>8. /\ Shape /\ tables \in [Writers -> Seq(MemTable(put))] /\ queue \in [Writers -> Seq(Nat)]
      /\ append \in [Writers -> Appending]
  BY DEF Inv, Shape, WriterState
<1>9. queue'[w] = Q /\ queue' \in [Writers -> Seq(Nat)]
  BY <1>1, <1>4, <1>8
<1>10. CASE gen = 0 /\ UNCHANGED <<tables, append>>
  <2>1. Stores' /\ WriterState'
    BY <1>1, <1>8, <1>9, <1>10 DEF Shape, Stores, WriterState
  <2>2. \A u \in Writers \ {w} : Same(u)
    BY <1>1, <1>8, <1>10 DEF Same
  <2>3. ExactOk(ts, Q, append[w], d) /\ AppendOk(ts, append[w], d)
    BY <1>1 DEF ExactOk, AppendOk
  <2>4. TaskTo(w, N)
    BY <1>1, <1>4, <1>9, <1>10, <2>3, AsIs DEF TaskTo
  <2> QED  BY <1>1, <1>10, <2>1, <2>2, <2>4, AsIs, TaskStep DEF Moves
<1>11. CASE /\ gen # 0 /\ LocalEnd(TableOf(w, gen), d) < Len(TableOf(w, gen).rows)
            /\ append' = [append EXCEPT ![w] =
                 [Idle EXCEPT !.phase = "put", !.gen = gen, !.exact = msg # Tick,
                              !.end = Len(TableOf(w, gen).rows)]]
            /\ UNCHANGED tables
  <2>1. PICK i \in 1..Len(ts) : /\ ts[i].gen = gen
                                /\ msg # Tick => i \in 1..Len(ts) - 1 /\ ts[i].cell = "wait"
                                /\ msg = Tick => End(ts[i]) > d
    BY <1>7, <1>11
  <2>2. TableOf(w, gen) = ts[i] /\ gen \in Nat /\ ts[i].off \in Nat /\ Len(ts[i].rows) \in Nat
    BY <1>6, <2>1
  <2> DEFINE n == Len(ts[i].rows)
             x == (msg # Tick)
             a == [Idle EXCEPT !.phase = "put", !.gen = gen, !.exact = x, !.end = n]
  <2>3. x \in BOOLEAN /\ (x = TRUE => msg # Tick) /\ n \in Nat
    BY <2>2
  <2>4. append' = [append EXCEPT ![w] = a]
    BY <1>11, <2>2
  <2>5. d < ts[i].off + n
    <3> DEFINE t == ts[i]
    <3>1. t.off \in Nat /\ Len(t.rows) \in Nat /\ LocalEnd(t, d) < Len(t.rows)
      BY <1>11, <2>2
    <3> HIDE DEF t, d
    <3>2. d < End(t)
      BY <1>3, <3>1, LocalEndOk
    <3> QED  BY <3>2 DEF End, t
  <2> HIDE DEF n, x
  <2>6. a \in Appending /\ a.phase = "put" /\ a.gen = gen /\ a.exact = x /\ a.end = n
    BY <2>2, <2>3 DEF Idle, Appending, Phases
  <2> HIDE DEF a
  <2>7. append' \in [Writers -> Appending] /\ append'[w] = a
    BY <1>8, <2>4, <2>6
  <2>8. AppendOk(ts, a, d)
    BY <2>1, <2>2, <2>5, <2>6 DEF AppendOk, n
  <2>9. ExactOk(ts, Q, a, d)
    <3> SUFFICES ASSUME x = TRUE
                 PROVE  /\ a.gen # Tick /\ \A k \in 1..Len(Q) : Q[k] # a.gen
                        /\ \E j \in 1..Len(ts) - 1 :
                             ts[j].gen = a.gen /\ ts[j].cell = "wait" /\ a.end = Len(ts[j].rows)
      BY <2>6 DEF ExactOk
    <3>1. msg # Tick
      BY <2>3
    <3> QED  BY <1>5, <2>1, <2>6, <3>1 DEF n
  <2>10. Stores' /\ WriterState'
    BY <1>1, <1>8, <1>9, <1>11, <2>7 DEF Shape, Stores, WriterState
  <2>11. \A u \in Writers \ {w} : Same(u)
    BY <1>1, <1>8, <1>11, <2>4 DEF Same
  <2>12. TaskTo(w, N)
    BY <1>1, <1>4, <1>9, <1>11, <2>6, <2>7, <2>8, <2>9, AsIs DEF TaskTo
  <2> QED  BY <1>1, <1>11, <2>10, <2>11, <2>12, AsIs, TaskStep DEF Moves
<1>12. CASE /\ gen # 0 /\ LocalEnd(TableOf(w, gen), d) >= Len(TableOf(w, gen).rows)
            /\ tables' = [tables EXCEPT ![w] = Complete(w, gen, "done", 0)]
            /\ UNCHANGED append
  <2>1. PICK i \in 1..Len(ts) : /\ ts[i].gen = gen
                                /\ msg # Tick => i \in 1..Len(ts) - 1 /\ ts[i].cell = "wait"
                                /\ msg = Tick => End(ts[i]) > d
    BY <1>7, <1>12
  <2>2. TableOf(w, gen) = ts[i] /\ gen \in Nat /\ ts[i].off \in Nat /\ Len(ts[i].rows) \in Nat
    BY <1>6, <2>1
  <2>3. \A j \in 1..Len(ts) : ts[j].gen = gen => j = i
    BY <1>3, <1>6, <2>1 DEF TablesOk
  <2>4. i \in 1..Len(ts) - 1 => End(ts[i]) <= d
    <3> DEFINE t == ts[i]
    <3>1. t.off \in Nat /\ Len(t.rows) \in Nat /\ LocalEnd(t, d) >= Len(t.rows)
      BY <1>12, <2>2
    <3>2. i \in 1..Len(ts) - 1 => Len(t.rows) >= 1
      BY <1>3 DEF TablesOk
    <3> HIDE DEF t, d
    <3>3. Len(t.rows) >= 1 => End(t) <= d
      BY <1>3, <3>1, LocalEndOk
    <3> QED  BY <3>2, <3>3 DEF t
  <2>5. \A j \in 1..Len(ts) - 1 : ts[j].gen = gen => End(ts[j]) <= d
    <3>1. \A j \in 1..Len(ts) - 1 : j \in 1..Len(ts)
      BY <1>3
    <3> QED  BY <2>3, <2>4, <3>1
  <2>6. \A k \in 1..Len(Q) : Q[k] # Tick => Q[k] # gen
    <3>1. CASE msg # Tick
      BY <1>5, <3>1
    <3>2. CASE msg = Tick
      <4> SUFFICES ASSUME NEW k \in 1..Len(Q), Q[k] # Tick, Q[k] = gen PROVE FALSE
        OBVIOUS
      <4>1. Waiting(ts, gen)
        BY <1>4 DEF QueueOk
      <4>2. PICK j \in 1..Len(ts) - 1 : ts[j].gen = gen
        BY <4>1 DEF Waiting
      <4>3. j \in 1..Len(ts)
        BY <1>3
      <4>4. End(ts[i]) <= d /\ End(ts[i]) > d
        BY <2>1, <2>3, <2>4, <3>2, <4>2, <4>3
      <4>5. End(ts[i]) \in Nat
        BY <2>2 DEF End
      <4> QED  BY <1>3, <4>4, <4>5
    <3> QED  BY <3>1, <3>2
  <2> DEFINE T == Complete(w, gen, "done", 0)
  <2>7. /\ T \in Seq(MemTable(put)) /\ TablesOk(T, N) /\ FrozenOk(T, d)
        /\ QueueOk(T, Q) /\ FlushOk(T, flush[w])
    <3> DEFINE how == "done"
               p == 0
    <3>1. how \in {"done", "failed"} /\ how = "done" /\ how # "failed" /\ p \in 0..N
      BY <1>3
    <3> HIDE DEF how, p
    <3>2. /\ Complete(w, gen, how, p) \in Seq(MemTable(put))
          /\ TablesOk(Complete(w, gen, how, p), N)
          /\ FrozenOk(Complete(w, gen, how, p), durable[w])
          /\ QueueOk(Complete(w, gen, how, p), Q) /\ FlushOk(Complete(w, gen, how, p), flush[w])
      BY <1>4, <2>5, <2>6, <3>1, CompleteOk
    <3> QED  BY <3>2 DEF how, p
  <2> HIDE DEF T
  <2>8. tables' \in [Writers -> Seq(MemTable(put))] /\ tables'[w] = T
    BY <1>8, <1>12, <2>7 DEF T
  <2>9. AppendOk(T, append[w], d) /\ ExactOk(T, Q, append[w], d)
    BY <1>1 DEF AppendOk, ExactOk
  <2>10. Stores' /\ WriterState'
    BY <1>1, <1>8, <1>9, <1>12, <2>8 DEF Shape, Stores, WriterState
  <2>11. \A u \in Writers \ {w} : Same(u)
    BY <1>1, <1>8, <1>12 DEF Same
  <2>12. TaskTo(w, N)
    BY <1>1, <1>9, <1>12, <2>7, <2>8, <2>9, AsIs DEF TaskTo
  <2> QED  BY <1>1, <1>12, <2>10, <2>11, <2>12, AsIs, TaskStep DEF Moves
<1> QED  BY <1>2, <1>10, <1>11, <1>12

(* The append is over with an error.                                       *)
LEMMA AppendErrorStep ==
  ASSUME Inv, NEW w \in Writers, append[w].phase \in {"exists", "failed"},
         NEW terminal \in BOOLEAN, AppendError(w, terminal),
         UNCHANGED <<wal, late, manifest, pc, epoch, base, pos, last, durable, covered, queue,
                     flush, put, acked>>
  PROVE  Inv'
<1> DEFINE ts == tables[w]
           q == queue[w]
           d == durable[w]
           g == append[w].gen
           T == Complete(w, g, "failed", 0)
           I == Idle
<1>1. pc[w] = "open" /\ N \in Nat /\ ExactOk(ts, q, append[w], d) /\ QueueOk(ts, q)
      /\ TablesOk(ts, N)
  <2>1. pc[w] = "open"
    BY DEF Inv, Local, QuietOk
  <2> QED  BY <2>1, AsIs, Typed
<1>2. /\ Shape /\ tables \in [Writers -> Seq(MemTable(put))]
      /\ append \in [Writers -> Appending] /\ poisoned \in [Writers -> BOOLEAN]
      /\ Len(ts) \in Nat /\ \A i \in 1..Len(ts) : ts[i].gen \in Nat
  BY TypedTables DEF Inv, Shape, WriterState
<1>3. append' = [append EXCEPT ![w] = I] /\ poisoned' = [poisoned EXCEPT ![w] = @ \/ terminal]
  BY DEF AppendError
<1>4. append[w].exact = TRUE \/ append[w].exact = FALSE
  BY <1>2 DEF Appending
<1>5. (append[w].exact = TRUE /\ tables' = [tables EXCEPT ![w] = T]) \/ tables' = tables
  BY <1>4 DEF AppendError
<1>6. poisoned' \in [Writers -> BOOLEAN]
  BY <1>2, <1>3
<1>7. I \in Appending /\ I.phase = "idle"
  BY DEF Idle, Appending, Phases
<1> HIDE DEF I
<1>8. append' \in [Writers -> Appending] /\ append'[w] = I
  BY <1>2, <1>3, <1>7
<1>9. ASSUME NEW x PROVE AppendOk(x, I, d) /\ ExactOk(x, q, I, d)
  BY <1>7 DEF AppendOk, ExactOk
<1>10. CASE tables' = tables
  <2>1. Stores' /\ WriterState'
    BY <1>2, <1>6, <1>8, <1>10 DEF Shape, Stores, WriterState
  <2>2. \A u \in Writers \ {w} : Same(u)
    BY <1>2, <1>3, <1>10 DEF Same
  <2>3. TaskTo(w, N)
    BY <1>1, <1>7, <1>8, <1>9, <1>10, AsIs DEF TaskTo
  <2> QED  BY <1>1, <2>1, <2>2, <2>3, AsIs, TaskStep DEF Moves
<1>11. CASE append[w].exact = TRUE /\ tables' = [tables EXCEPT ![w] = T]
  <2>1. /\ g # Tick /\ \A k \in 1..Len(q) : q[k] # g
        /\ \E i \in 1..Len(ts) - 1 : ts[i].gen = g /\ ts[i].cell = "wait"
    BY <1>1, <1>11 DEF ExactOk
  <2>2. PICK i \in 1..Len(ts) - 1 : ts[i].gen = g /\ ts[i].cell = "wait"
    BY <2>1
  <2>3. i \in 1..Len(ts)
    BY <1>2
  <2>4. \A j \in 1..Len(ts) : ts[j].gen = g => ts[j].cell = "wait"
    <3>1. \A j \in 1..Len(ts) : ts[j].gen = g => j = i
      BY <1>1, <1>2, <2>2, <2>3 DEF TablesOk
    <3> QED  BY <2>2, <3>1
  <2>5. /\ T \in Seq(MemTable(put)) /\ TablesOk(T, N) /\ FrozenOk(T, d)
        /\ QueueOk(T, q) /\ FlushOk(T, flush[w])
    <3> DEFINE how == "failed"
               p == 0
    <3>1. how \in {"done", "failed"} /\ how # "done" /\ p \in 0..N
      BY <1>1
    <3> HIDE DEF how, p, g, q
    <3>2. /\ Complete(w, g, how, p) \in Seq(MemTable(put))
          /\ TablesOk(Complete(w, g, how, p), N)
          /\ FrozenOk(Complete(w, g, how, p), durable[w])
          /\ QueueOk(Complete(w, g, how, p), q) /\ FlushOk(Complete(w, g, how, p), flush[w])
      BY <1>1, <2>1, <2>4, <3>1, CompleteOk
    <3> QED  BY <3>2 DEF how, p
  <2> HIDE DEF T
  <2>6. tables' \in [Writers -> Seq(MemTable(put))] /\ tables'[w] = T
    BY <1>2, <1>11, <2>5
  <2>7. Stores' /\ WriterState'
    BY <1>2, <1>6, <1>8, <2>6 DEF Shape, Stores, WriterState
  <2>8. \A u \in Writers \ {w} : Same(u)
    BY <1>2, <1>3, <1>11 DEF Same
  <2>9. TaskTo(w, N)
    BY <1>1, <1>7, <1>8, <1>9, <2>5, <2>6, AsIs DEF TaskTo
  <2> QED  BY <1>1, <2>7, <2>8, <2>9, AsIs, TaskStep DEF Moves
<1> QED  BY <1>5, <1>10, <1>11

(* check_fenced, then poison, move on, or try again.                       *)
LEMMA AppendCheckStep ==
  ASSUME Inv, NEW w \in Writers, AppendCheck(w)
  PROVE  Inv'
<1> DEFINE a == append[w]
<1>1. /\ a.phase \in {"exists", "failed"}
      /\ UNCHANGED <<wal, late, manifest, pc, epoch, base, last, durable, covered, queue,
                     flush, put, acked>>
  BY DEF AppendCheck, store, opening, ghosts
<1>2. \/ \E b \in BOOLEAN : AppendError(w, b) /\ UNCHANGED pos
      \/ /\ ~Fenced(w) /\ a.phase = "exists" /\ append' = [append EXCEPT ![w].phase = "put"]
         /\ pos' = [pos EXCEPT ![w] = @ + 1] /\ UNCHANGED <<tables, poisoned>>
      \/ /\ append' = [append EXCEPT ![w].phase = "put", ![w].tries = @ + 1]
         /\ UNCHANGED <<pos, tables, poisoned>>
  BY DEF AppendCheck
<1>3. CASE \E b \in BOOLEAN : AppendError(w, b) /\ UNCHANGED pos
  BY <1>1, <1>3, AppendErrorStep
<1>4. pc[w] = "open"
  BY <1>1 DEF Inv, Local, QuietOk
<1>5. /\ Shape /\ append \in [Writers -> Appending] /\ pos \in [Writers -> Nat]
      /\ pos[w] \in Nat /\ N \in Nat /\ DOMAIN wal = 1..N /\ a \in Appending
      /\ epoch[w] \in Nat /\ manifest.epoch \in Nat
      /\ \A p \in DOMAIN wal : wal[p].epoch \in Nat /\ wal[p].epoch <= manifest.epoch
  BY Typed DEF Inv, Shape, WriterState, LogOk, LogEntry
<1> DEFINE Goes(b) == /\ AppendOk(tables[w], b, durable[w])
                      /\ ExactOk(tables[w], queue[w], b, durable[w])
<1>6. ASSUME NEW b, b.phase = "put", b.gen = a.gen, b.end = a.end, b.exact = a.exact PROVE Goes(b)
  <2> DEFINE ts == tables[w]
             q == queue[w]
             d == durable[w]
  <2>1. AppendOk(ts, a, d) /\ ExactOk(ts, q, a, d) /\ a.phase \in {"exists", "failed"}
    BY <1>1, <1>4, AsIs
  <2> HIDE DEF ts, q, d, a
  <2>2. AppendOk(ts, b, d) /\ ExactOk(ts, q, b, d)
    BY <1>6, <2>1, Rephased
  <2> QED  BY <2>2 DEF ts, q, d
<1> HIDE DEF Goes
<1>7. CASE /\ ~Fenced(w) /\ a.phase = "exists" /\ append' = [append EXCEPT ![w].phase = "put"]
           /\ pos' = [pos EXCEPT ![w] = @ + 1] /\ UNCHANGED <<tables, poisoned>>
  <2> DEFINE b == [a EXCEPT !.phase = "put"]
  <2>1. b \in Appending /\ b.phase = "put" /\ b.gen = a.gen /\ b.end = a.end /\ b.exact = a.exact
    BY <1>5 DEF Appending, Phases
  <2>2. append' = [append EXCEPT ![w] = b] /\ append'[w] = b /\ pos'[w] = pos[w] + 1
    BY <1>5, <1>7
  <2> HIDE DEF b
  <2>3. Goes(b)
    BY <1>6, <2>1
  <2>4. append' \in [Writers -> Appending] /\ pos' \in [Writers -> Nat]
    BY <1>5, <1>7, <2>1, <2>2
  <2>5. Stores' /\ WriterState'
    BY <1>1, <1>5, <1>7, <2>4 DEF Shape, Stores, WriterState
  <2>6. \A u \in Writers \ {w} : Same(u)
    BY <1>1, <1>5, <1>7, <2>2 DEF Same
  <2>7. pos[w] \in DOMAIN wal
    BY <1>4, <1>7, AsIs
  <2>8. pos[w] + 1 \in 1..(N + 1)
    BY <1>5, <2>7
  <2>9. Moves(w)
    BY <1>5, <1>7, <2>2, <2>7 DEF Moves, Fenced
  <2>10. TaskTo(w, N)
    BY <1>1, <1>4, <1>7, <2>1, <2>2, <2>3, <2>8, AsIs DEF TaskTo, Goes
  <2> QED  BY <1>1, <1>4, <2>5, <2>6, <2>9, <2>10, AsIs, TaskStep
<1>8. CASE /\ append' = [append EXCEPT ![w].phase = "put", ![w].tries = @ + 1]
           /\ UNCHANGED <<pos, tables, poisoned>>
  <2> DEFINE n == a.tries + 1
             b == [a EXCEPT !.phase = "put", !.tries = n]
  <2>1. n \in Nat
    BY <1>5 DEF Appending
  <2>2. append' = [append EXCEPT ![w] = b] /\ append'[w] = b
    BY <1>5, <1>8
  <2> HIDE DEF n
  <2>3. b \in Appending /\ b.phase = "put" /\ b.gen = a.gen /\ b.end = a.end /\ b.exact = a.exact
    BY <1>5, <2>1 DEF Appending, Phases
  <2> HIDE DEF b
  <2>4. Goes(b)
    BY <1>6, <2>3
  <2>5. append' \in [Writers -> Appending]
    BY <1>5, <2>2, <2>3
  <2>6. Stores' /\ WriterState'
    BY <1>1, <1>5, <1>8, <2>5 DEF Shape, Stores, WriterState
  <2>7. \A u \in Writers \ {w} : Same(u)
    BY <1>1, <1>5, <1>8, <2>2 DEF Same
  <2>8. TaskTo(w, N)
    BY <1>1, <1>4, <1>8, <2>2, <2>3, <2>4, AsIs DEF TaskTo, Goes
  <2> QED  BY <1>1, <1>4, <1>8, <2>6, <2>7, <2>8, AsIs, TaskStep DEF Moves
<1> QED  BY <1>2, <1>3, <1>7, <1>8

(* The handler records the position, then completes the cell.              *)
LEMMA SettleStep ==
  ASSUME Inv, NEW w \in Writers, Settle(w)
  PROVE  Inv'
<1> DEFINE ts == tables[w]
           q == queue[w]
           d == durable[w]
           g == append[w].gen
           p == append[w].at
           T == Complete(w, g, "done", p)
           I == Idle
           c == Max({covered[w], p})
<1>1. /\ append[w].phase = "settle"
      /\ UNCHANGED <<wal, late, manifest, pc, epoch, base, pos, last, durable, queue, flush,
                     poisoned, put, acked>>
      /\ covered' = [covered EXCEPT ![w] = c] /\ append' = [append EXCEPT ![w] = I]
  BY DEF Settle, store, opening, ghosts
<1>2. pc[w] = "open"
  BY <1>1 DEF Inv, Local, QuietOk
<1>3. /\ N \in Nat /\ ExactOk(ts, q, append[w], d) /\ QueueOk(ts, q) /\ TablesOk(ts, N)
      /\ covered[w] \in Nat /\ covered[w] <= N /\ p \in 1..N /\ p \in Nat /\ p \in 0..N
  BY <1>1, <1>2, AsIs, Typed
<1>4. c \in Nat /\ c <= N
  BY <1>3, MaxOfTwo
<1>5. /\ Shape /\ tables \in [Writers -> Seq(MemTable(put))] /\ covered \in [Writers -> Nat]
      /\ append \in [Writers -> Appending] /\ append[w].exact \in BOOLEAN
      /\ Len(ts) \in Nat /\ \A i \in 1..Len(ts) : ts[i].gen \in Nat
  BY TypedTables DEF Inv, Shape, WriterState, Appending
<1>6. (append[w].exact = TRUE /\ tables' = [tables EXCEPT ![w] = T]) \/ tables' = tables
  BY <1>5 DEF Settle
<1>7. I \in Appending /\ I.phase = "idle"
  BY DEF Idle, Appending, Phases
<1> HIDE DEF I, c
<1>8. /\ append' \in [Writers -> Appending] /\ append'[w] = I
      /\ covered' \in [Writers -> Nat] /\ covered'[w] = c
  BY <1>1, <1>4, <1>5, <1>7
<1>9. ASSUME NEW x PROVE AppendOk(x, I, d) /\ ExactOk(x, q, I, d)
  BY <1>7 DEF AppendOk, ExactOk
<1>10. CASE tables' = tables
  <2>1. Stores' /\ WriterState'
    BY <1>1, <1>5, <1>8, <1>10 DEF Shape, Stores, WriterState
  <2>2. \A u \in Writers \ {w} : Same(u)
    BY <1>1, <1>5, <1>10 DEF Same
  <2>3. TaskTo(w, N)
    BY <1>1, <1>2, <1>4, <1>7, <1>8, <1>9, <1>10, AsIs DEF TaskTo
  <2> QED  BY <1>1, <1>2, <2>1, <2>2, <2>3, AsIs, TaskStep DEF Moves
<1>11. CASE append[w].exact = TRUE /\ tables' = [tables EXCEPT ![w] = T]
  <2>1. /\ g # Tick /\ \A k \in 1..Len(q) : q[k] # g
        /\ \E i \in 1..Len(ts) - 1 : ts[i].gen = g /\ End(ts[i]) <= d
    BY <1>1, <1>3, <1>11 DEF ExactOk
  <2>2. PICK i \in 1..Len(ts) - 1 : ts[i].gen = g /\ End(ts[i]) <= d
    BY <2>1
  <2>3. i \in 1..Len(ts) /\ \A j \in 1..Len(ts) - 1 : j \in 1..Len(ts)
    BY <1>5
  <2>4. \A j \in 1..Len(ts) - 1 : ts[j].gen = g => End(ts[j]) <= d
    <3>1. \A j \in 1..Len(ts) : ts[j].gen = g => j = i
      BY <1>3, <1>5, <2>2, <2>3 DEF TablesOk
    <3> QED  BY <2>2, <2>3, <3>1
  <2>5. /\ T \in Seq(MemTable(put)) /\ TablesOk(T, N) /\ FrozenOk(T, d)
        /\ QueueOk(T, q) /\ FlushOk(T, flush[w])
    <3> DEFINE how == "done"
    <3>1. how \in {"done", "failed"} /\ how # "failed" /\ p \in 0..N
      BY <1>3
    <3> HIDE DEF how, p, g, q
    <3>2. /\ Complete(w, g, how, p) \in Seq(MemTable(put))
          /\ TablesOk(Complete(w, g, how, p), N)
          /\ FrozenOk(Complete(w, g, how, p), durable[w])
          /\ QueueOk(Complete(w, g, how, p), q) /\ FlushOk(Complete(w, g, how, p), flush[w])
      BY <1>3, <2>1, <2>4, <3>1, CompleteOk
    <3> QED  BY <3>2 DEF how
  <2> HIDE DEF T
  <2>6. tables' \in [Writers -> Seq(MemTable(put))] /\ tables'[w] = T
    BY <1>5, <1>11, <2>5
  <2>7. Stores' /\ WriterState'
    BY <1>1, <1>5, <1>8, <2>6 DEF Shape, Stores, WriterState
  <2>8. \A u \in Writers \ {w} : Same(u)
    BY <1>1, <1>5, <1>11 DEF Same
  <2>9. TaskTo(w, N)
    BY <1>1, <1>2, <1>4, <1>7, <1>8, <1>9, <2>5, <2>6, AsIs DEF TaskTo
  <2> QED  BY <1>1, <1>2, <2>7, <2>8, <2>9, AsIs, TaskStep DEF Moves
<1> QED  BY <1>6, <1>10, <1>11

(* advance_durable.                                                        *)
LEMMA AdvanceStep ==
  ASSUME Inv, NEW w \in Writers, Advance(w)
  PROVE  Inv'
<1> DEFINE ts == tables[w]
           q == queue[w]
           d == durable[w]
           a == append[w]
           b == [a EXCEPT !.phase = "settle"]
           e == Max({d, TableOf(w, a.gen).off + a.end})
<1>1. /\ a.phase = "appended"
      /\ UNCHANGED <<wal, late, manifest, pc, epoch, base, pos, last, tables, covered, queue,
                     flush, poisoned, put>>
      /\ durable' = [durable EXCEPT ![w] = e] /\ append' = [append EXCEPT ![w].phase = "settle"]
  BY DEF Advance, store, opening
<1>2. pc[w] = "open"
  BY <1>1 DEF Inv, Local, QuietOk
<1>3. /\ FrozenOk(ts, d) /\ AppendOk(ts, a, d) /\ ExactOk(ts, q, a, d) /\ TablesOk(ts, N)
      /\ d \in Nat /\ a \in Appending /\ a.at \in 1..N /\ N \in Nat
  BY <1>1, <1>2, AsIs, Typed
<1>4. /\ Shape /\ append \in [Writers -> Appending] /\ durable \in [Writers -> Nat]
      /\ Len(ts) \in Nat
      /\ \A i \in 1..Len(ts) : ts[i].gen \in Nat /\ ts[i].off \in Nat /\ Len(ts[i].rows) \in Nat
  BY TypedTables DEF Inv, Shape, WriterState
<1>5. PICK i \in 1..Len(ts) : ts[i].gen = a.gen
  BY <1>1, <1>3 DEF AppendOk
<1>6. TableOf(w, a.gen) = ts[i] /\ \A j \in 1..Len(ts) : ts[j].gen = a.gen => j = i
  BY <1>3, <1>4, <1>5, TableOfGen DEF TablesOk
<1>7. a.end \in Nat /\ ts[i].off \in Nat
  BY <1>3, <1>4 DEF Appending
<1>8. e \in Nat /\ d <= e /\ ts[i].off + a.end <= e
  <2> DEFINE x == ts[i].off + a.end
  <2>1. x \in Nat /\ e = Max({d, x})
    BY <1>6, <1>7
  <2> HIDE DEF x, d, e
  <2>2. e \in Nat /\ d <= e /\ x <= e
    BY <1>3, <2>1, MaxOfTwo
  <2> QED  BY <2>2 DEF x
<1>9. /\ b \in Appending /\ b.phase = "settle" /\ b.at = a.at /\ b.gen = a.gen /\ b.end = a.end
      /\ b.exact = a.exact
  BY <1>3 DEF Appending, Phases
<1>10. append' = [append EXCEPT ![w] = b]
  BY <1>1, <1>4
<1> HIDE DEF b, e
<1>11. /\ append' \in [Writers -> Appending] /\ append'[w] = b
       /\ durable' \in [Writers -> Nat] /\ durable'[w] = e
  BY <1>1, <1>4, <1>8, <1>9, <1>10
<1>12. FrozenOk(ts, e)
  <2> SUFFICES ASSUME NEW j \in 1..Len(ts) - 1, ts[j].cell \in {"none", "done"}
               PROVE  End(ts[j]) <= e
    BY DEF FrozenOk
  <2>1. End(ts[j]) <= d /\ j \in 1..Len(ts)
    BY <1>3, <1>4 DEF FrozenOk
  <2>2. End(ts[j]) \in Nat
    BY <1>4, <2>1 DEF End
  <2> QED  BY <1>3, <1>8, <2>1, <2>2
<1>13. AppendOk(ts, b, e)
  BY <1>9 DEF AppendOk
<1>14. ExactOk(ts, q, b, e)
  <2> SUFFICES ASSUME b.exact = TRUE
               PROVE  /\ b.gen # Tick /\ \A k \in 1..Len(q) : q[k] # b.gen
                      /\ \E j \in 1..Len(ts) - 1 :
                           /\ ts[j].gen = b.gen /\ ts[j].cell = "wait" /\ b.end = Len(ts[j].rows)
                           /\ End(ts[j]) <= e
    BY DEF ExactOk
  <2>1. /\ a.gen # Tick /\ \A k \in 1..Len(q) : q[k] # a.gen
        /\ \E j \in 1..Len(ts) - 1 :
             ts[j].gen = a.gen /\ ts[j].cell = "wait" /\ a.end = Len(ts[j].rows)
    BY <1>1, <1>3, <1>9 DEF ExactOk
  <2>2. PICK j \in 1..Len(ts) - 1 :
             ts[j].gen = a.gen /\ ts[j].cell = "wait" /\ a.end = Len(ts[j].rows)
    BY <2>1
  <2>3. j \in 1..Len(ts)
    BY <1>4
  <2>4. j = i
    BY <1>6, <2>2, <2>3
  <2>5. End(ts[j]) <= e
    BY <1>8, <2>2, <2>4 DEF End
  <2> QED  BY <1>9, <2>1, <2>2, <2>5
<1>15. acked' \subseteq 1..put
  <2>1. acked \subseteq 1..put
    BY <1>4 DEF Shape, Stores
  <2> DEFINE Woken(t) == {t.rows[k] : k \in LocalEnd(t, d) + 1 .. LocalEnd(t, durable'[w])}
  <2>2. ASSUME NEW t \in Range(ts) PROVE Woken(t) \subseteq 1..put
    <3>1. PICK j \in 1..Len(ts) : t = ts[j]
      BY TypedTables DEF Range
    <3> DEFINE s == t.rows
               x == LocalEnd(t, d)
               y == LocalEnd(t, e)
    <3>2. t.off \in Nat /\ s \in Seq(1..put) /\ Len(s) \in Nat
      BY <3>1, TypedTables
    <3>3. x \in 0..Len(s) /\ y \in 0..Len(s)
      <4> HIDE DEF ts, d
      <4> QED  BY <1>3, <1>8, <3>2, LocalEndOk
    <3>4. Woken(t) = {s[k] : k \in x + 1 .. y}
      BY <1>11
    <3> HIDE DEF s, x, y, Woken
    <3>5. \A k \in x + 1 .. y : k \in 1..Len(s)
      BY <3>2, <3>3
    <3>6. \A k \in 1..Len(s) : s[k] \in 1..put
      <4> DEFINE S == 1..put
      <4>1. s \in Seq(S)
        BY <3>2
      <4> HIDE DEF S
      <4>2. \A k \in 1..Len(s) : s[k] \in S
        BY <4>1
      <4> QED  BY <4>2 DEF S
    <3> QED  BY <3>4, <3>5, <3>6
  <2>3. acked' = acked \/ acked' = acked \cup UNION {Woken(t) : t \in Range(ts)}
    BY DEF Advance
  <2> HIDE DEF Woken, ts
  <2>4. UNION {Woken(t) : t \in Range(ts)} \subseteq 1..put
    <3> SUFFICES ASSUME NEW x \in UNION {Woken(t) : t \in Range(ts)} PROVE x \in 1..put
      OBVIOUS
    <3>1. PICK t \in Range(ts) : x \in Woken(t)
      OBVIOUS
    <3> QED  BY <2>2, <3>1
  <2> QED  BY <2>1, <2>3, <2>4
<1>16. Stores' /\ WriterState'
  BY <1>1, <1>4, <1>11, <1>15 DEF Shape, Stores, WriterState
<1>17. \A u \in Writers \ {w} : Same(u)
  BY <1>1, <1>4, <1>10 DEF Same
<1>18. TaskTo(w, N)
  BY <1>1, <1>2, <1>3, <1>9, <1>11, <1>12, <1>13, <1>14, AsIs DEF TaskTo
<1> QED  BY <1>1, <1>2, <1>16, <1>17, <1>18, AsIs, TaskStep DEF Moves

-----------------------------------------------------------------------------
(* Opening the shard                                                       *)

(* A writer with one memtable and no tasks.                                *)
LEMMA Alone ==
  ASSUME NEW ts, NEW q, NEW a, NEW f, NEW d,
         Len(ts) = 1, q = <<>>, a.phase = "idle", f = "idle"
  PROVE  FrozenOk(ts, d) /\ QueueOk(ts, q) /\ FlushOk(ts, f) /\ AppendOk(ts, a, d)
         /\ ExactOk(ts, q, a, d)
BY DEF FrozenOk, QueueOk, FlushOk, AppendOk, ExactOk

(* discover_next_position.                                                 *)
LEMMA DiscoverStep ==
  ASSUME Inv, NEW w \in Writers, Discover(w)
  PROVE  Inv'
<1> DEFINE h == Max({base[w].lastSeen, base[w].replayAfter})
<1>1. /\ pc[w] = "discover" /\ pc' = [pc EXCEPT ![w] = "sentinel"]
      /\ pos' = [pos EXCEPT ![w] = Tip(h)]
      /\ UNCHANGED <<wal, late, manifest, epoch, base, last, tables, durable, covered, queue,
                     append, flush, poisoned, put, acked>>
  BY DEF Discover, Goto, store, opening, tasks, ghosts
<1>2. N \in Nat /\ DOMAIN wal = 1..N /\ Shape /\ N' = N /\ manifest.replayAfter <= N
  BY <1>1, Typed DEF Inv, N, LogOk
<1>3. Tip(h) = N + 1
  <2>1. base[w].lastSeen \in Nat /\ base[w].replayAfter \in Nat
    BY <1>2 DEF Shape, WriterState, Cursor
  <2>2. h \in Nat
    BY <2>1, MaxOfTwo
  <2> HIDE DEF h
  <2> QED  BY <1>2, <2>2, TipIsEnd
<1> DEFINE p == Tip(h)
<1>4. pos' = [pos EXCEPT ![w] = p] /\ p \in Nat /\ p >= 1 /\ p <= N + 1
  <2>1. pos' = [pos EXCEPT ![w] = p]
    BY <1>1
  <2> HIDE DEF p
  <2>2. p = N + 1
    BY <1>3 DEF p
  <2> QED  BY <1>2, <2>1, <2>2
<1> HIDE DEF p
<1>5. Shape'
  <2>1. pc \in [Writers -> Labels] /\ pos \in [Writers -> Nat]
    BY <1>2 DEF Shape, WriterState
  <2>2. pc' \in [Writers -> Labels] /\ pos' \in [Writers -> Nat]
    BY <1>1, <1>4, <2>1 DEF Labels
  <2> QED  BY <1>1, <1>2, <2>2 DEF Shape, Stores, WriterState
<1>6. pc'[w] = "sentinel" /\ pos'[w] = p
  BY <1>1, <1>2, <1>4 DEF Shape, WriterState
<1>7. \A u \in Writers \ {w} : Same(u)
  BY <1>1, <1>2, <1>4 DEF Same, Shape, WriterState
<1>8. Local(w)'
  <2>1. TasksOk(w)'
    BY <1>1, <1>2 DEF Inv, Local, TasksOk
  <2>2. QuietOk(w)'
    BY <1>1 DEF Inv, Local, QuietOk
  <2>3. PosOk(w)'
    <3>1. p \in 1..(N + 1)
      BY <1>2, <1>4
    <3>2. PosOk(w) /\ QuietOk(w)
      BY DEF Inv, Local
    <3> QED  BY <1>1, <1>2, <1>6, <3>1, <3>2 DEF PosOk, QuietOk
  <2> QED  BY <2>1, <2>2, <2>3 DEF Local
<1> QED  BY <1>1, <1>2, <1>5, <1>6, <1>7, <1>8, QuietStep DEF Writing

(* An open that fails.                                                     *)
LEMMA OpenFails ==
  ASSUME Inv, NEW w \in Writers, NEW l \in {"dead", "refused"}, Goto(w, l), Forget(w),
         UNCHANGED <<wal, late>>, manifest' \in ShardManifests,
         manifest'.epoch = manifest.epoch, manifest'.replayAfter <= N
  PROVE  Inv'
<1>1. N \in Nat /\ N' = N /\ manifest.epoch \in Nat /\ Shape
  BY Typed DEF N, Inv
<1>2. /\ WriterState' /\ Local(w)' /\ ~Writing(w)' /\ base'[w].replayAfter = 0
      /\ \A u \in Writers \ {w} : Same(u) /\ put' = put /\ acked' = acked
      /\ put' = put /\ acked' = acked
  BY <1>1, ForgetOk
<1>3. Shape'
  BY <1>1, <1>2 DEF Shape, Stores, ShardManifests
<1> QED  BY <1>2, <1>3, QuietStep

(* A writer replays the log: what it holds next.                           *)
LEMMA ReplayStep ==
  ASSUME Inv, NEW w \in Writers, pc[w] = "replay",
         NEW l \in {"replay", "open"}, pc' = [pc EXCEPT ![w] = l],
         UNCHANGED <<wal, late, epoch, base, queue, append, flush, poisoned, put, acked>>,
         manifest' \in ShardManifests, manifest'.epoch = manifest.epoch,
         manifest'.replayAfter <= N,
         NEW p \in Nat, pos' = [pos EXCEPT ![w] = p], p >= 1, p <= N + 1, Moves(w),
         NEW ts \in Seq(MemTable(put)), tables' = [tables EXCEPT ![w] = ts],
         Len(ts) = 1, TablesOk(ts, N), last' \in [Writers -> Nat],
         NEW d \in Nat, durable' = [durable EXCEPT ![w] = d],
         NEW c \in Nat, covered' = [covered EXCEPT ![w] = c], c <= N
  PROVE  Inv'
<1>1. /\ N \in Nat /\ N' = N /\ Shape /\ DOMAIN wal = 1..N
  BY Typed DEF N, Inv
<1>2. Shape'
  BY <1>1 DEF Shape, Stores, WriterState, Labels, ShardManifests
<1>3. /\ pc'[w] = l /\ pos'[w] = p /\ tables'[w] = ts /\ durable'[w] = d /\ covered'[w] = c
  BY <1>1 DEF Shape, WriterState
<1>4. \A u \in Writers \ {w} : Same(u)
  BY <1>1 DEF Same, Shape, WriterState
<1>5. queue[w] = <<>> /\ append[w].phase = "idle" /\ flush[w] = "idle"
  BY DEF Inv, Local, QuietOk
<1>6. TasksOk(w)'
  <2> DEFINE q == queue[w]
             a == append[w]
             f == flush[w]
  <2>1. q = <<>> /\ a.phase = "idle" /\ f = "idle"
    BY <1>5
  <2> HIDE DEF q, a, f
  <2>2. FrozenOk(ts, d) /\ QueueOk(ts, q) /\ FlushOk(ts, f) /\ AppendOk(ts, a, d)
        /\ ExactOk(ts, q, a, d)
    BY <2>1, Alone
  <2> QED  BY <1>1, <1>3, <2>2 DEF TasksOk, q, a, f
<1>7. QuietOk(w)'
  BY <1>3, <1>5 DEF QuietOk
<1>8. PosOk(w)'
  BY <1>1, <1>3, <1>5 DEF Inv, Local, PosOk
<1> QED  BY <1>2, <1>3, <1>4, <1>6, <1>7, <1>8, QuietStep DEF Writing, Local

(* The tip is reached.                                                     *)
LEMMA ReplayDoneStep ==
  ASSUME Inv, NEW w \in Writers, ReplayDone(w)
  PROVE  Inv'
<1> DEFINE d == End(Active(w))
           c == pos[w] - 1
           ts == tables[w]
           p == pos[w]
           l == "open"
           x == Max({manifest.lastSeen, c})
<1>1. /\ pc[w] = "replay" /\ pc' = [pc EXCEPT ![w] = l]
      /\ durable' = [durable EXCEPT ![w] = d] /\ covered' = [covered EXCEPT ![w] = c]
      /\ manifest' = manifest \/ manifest' = [manifest EXCEPT !.lastSeen = x]
      /\ UNCHANGED <<wal, late, epoch, base, last, pos, tables, queue, append, flush, poisoned,
                     put, acked>>
  BY DEF ReplayDone, Goto, opening, ghosts
<1>2. /\ p \in 1..(N + 1) /\ N \in Nat /\ Shape /\ TablesOk(ts, N) /\ Len(ts) = 1
  BY <1>1, Typed DEF Inv, Local, PosOk, TasksOk, QuietOk
<1>3. p \in Nat /\ p >= 1 /\ p <= N + 1 /\ c \in Nat /\ c <= N
  BY <1>2
<1>4. d \in Nat
  <2>1. 1 \in 1..Len(ts)
    BY <1>2
  <2>2. Active(w) = ts[1] /\ ts[1].off \in Nat /\ Len(ts[1].rows) \in Nat
    BY <1>2, <2>1, TypedTables
  <2> QED  BY <2>2 DEF End
<1>5. manifest \in ShardManifests /\ manifest.replayAfter <= N
  BY DEF Inv, Shape, Stores, ShardManifests, LogOk
<1>6. x \in Nat
  <2>1. manifest.lastSeen \in Nat
    BY <1>5 DEF ShardManifests
  <2> HIDE DEF c
  <2> QED  BY <1>3, <2>1, MaxOfTwo
<1> HIDE DEF d, c, x, l
<1>7. /\ manifest' \in ShardManifests /\ manifest'.epoch = manifest.epoch
      /\ manifest'.replayAfter <= N
  BY <1>1, <1>5, <1>6 DEF ShardManifests
<1>8. /\ pos = [pos EXCEPT ![w] = p] /\ tables = [tables EXCEPT ![w] = ts] /\ Moves(w)
      /\ ts \in Seq(MemTable(put)) /\ l \in {"replay", "open"} /\ last' \in [Writers -> Nat]
  BY <1>1, <1>2 DEF Shape, WriterState, Moves, l
<1> HIDE DEF p, ts
<1>9. pos' = [pos EXCEPT ![w] = p] /\ tables' = [tables EXCEPT ![w] = ts]
  BY <1>1, <1>8
<1> QED  BY <1>1, <1>2, <1>3, <1>4, <1>7, <1>8, <1>9, ReplayStep

(* replay_memtable_from_wal, one entry.                                    *)
LEMMA ReplayEntryStep ==
  ASSUME Inv, NEW w \in Writers, ReplayEntry(w)
  PROVE  Inv'
<1> DEFINE p == pos[w]
           e == wal[p]
           t0 == tables[w][1]
           r == t0.rows \o e.rows
           t == [t0 EXCEPT !.rows = r]
           ts == tables[w]
           l == "replay"
<1>1. /\ pc[w] = "replay" /\ p \in DOMAIN wal /\ UNCHANGED <<wal, late, manifest>>
      /\ \/ \E x \in {"dead", "refused"} : Goto(w, x) /\ Forget(w)
         \/ /\ e.epoch <= epoch[w] /\ ~Refuses(w, e) /\ pos' = [pos EXCEPT ![w] = @ + 1]
            /\ \/ UNCHANGED <<tables, last>>
               \/ /\ ~Skipped(w, e)
                  /\ tables' = [tables EXCEPT ![w][1].rows = @ \o e.rows]
                  /\ last' = [last EXCEPT ![w] = e.gen]
            /\ UNCHANGED <<pc, epoch, base, durable, covered, queue, append, flush, poisoned,
                           put, acked>>
  BY DEF ReplayEntry, store, ghosts
<1>2. manifest' \in ShardManifests /\ manifest'.replayAfter <= N /\ manifest'.epoch = manifest.epoch
  BY <1>1 DEF Inv, Shape, Stores, ShardManifests, LogOk
<1>3. CASE \E x \in {"dead", "refused"} : Goto(w, x) /\ Forget(w)
  BY <1>1, <1>2, <1>3, OpenFails
<1>4. CASE /\ e.epoch <= epoch[w] /\ ~Refuses(w, e) /\ pos' = [pos EXCEPT ![w] = @ + 1]
           /\ \/ UNCHANGED <<tables, last>>
              \/ /\ ~Skipped(w, e)
                 /\ tables' = [tables EXCEPT ![w][1].rows = @ \o e.rows]
                 /\ last' = [last EXCEPT ![w] = e.gen]
           /\ UNCHANGED <<pc, epoch, base, durable, covered, queue, append, flush, poisoned,
                          put, acked>>
  <2>1. /\ N \in Nat /\ DOMAIN wal = 1..N /\ Shape /\ TablesOk(ts, N) /\ Len(ts) = 1
        /\ p \in Nat /\ e \in LogEntry(put) /\ Capacity \in Nat
        /\ durable[w] \in Nat /\ covered[w] \in Nat /\ covered[w] <= N
    BY <1>1, Typed DEF Inv, Local, TasksOk, QuietOk, PosOk
  <2>2. /\ ts \in Seq(MemTable(put)) /\ t0 \in MemTable(put) /\ t0.rows \in Seq(1..put)
        /\ Active(w) = t0 /\ t0.at <= N /\ 1 \in 1..Len(ts)
    <3>1. 1 \in 1..Len(ts)
      BY <2>1
    <3> QED  BY <2>1, <3>1, TypedTables DEF TablesOk
  <2>3. e.rows \in Seq(1..put) /\ Len(e.rows) <= Capacity /\ e.gen \in Nat
    BY <1>1, <2>1 DEF Shape, Stores, LogEntry
  <2> DEFINE n == p + 1
             d == durable[w]
             c == covered[w]
  <2>4. /\ pos' = [pos EXCEPT ![w] = n] /\ n \in Nat /\ n >= 1 /\ n <= N + 1 /\ pos'[w] = n
    <3>1. p \in 1..N
      BY <1>1, <2>1
    <3>2. n \in Nat /\ n >= 1 /\ n <= N + 1
      BY <2>1, <3>1
    <3>3. pos' = [pos EXCEPT ![w] = n] /\ pos'[w] = n
      BY <1>4, <2>1 DEF Shape, WriterState
    <3> QED  BY <3>2, <3>3
  <2>5. Moves(w)
    BY <1>1, <1>4, <2>4 DEF Moves
  <2>6. /\ pc' = [pc EXCEPT ![w] = l] /\ durable' = [durable EXCEPT ![w] = d]
        /\ covered' = [covered EXCEPT ![w] = c] /\ l \in {"replay", "open"}
    BY <1>1, <1>4, <2>1 DEF Shape, WriterState
  <2> HIDE DEF n, d, c, l
  <2>7. d \in Nat /\ c \in Nat /\ c <= N
    BY <2>1 DEF d, c
  <2>8. CASE UNCHANGED <<tables, last>>
    <3>1. tables' = [tables EXCEPT ![w] = ts] /\ last' \in [Writers -> Nat]
      BY <2>1, <2>8 DEF Shape, WriterState
    <3> HIDE DEF ts
    <3> QED  BY <1>1, <1>2, <1>4, <2>1, <2>2, <2>4, <2>5, <2>6, <2>7, <3>1, ReplayStep
  <2>9. CASE /\ ~Skipped(w, e)
             /\ tables' = [tables EXCEPT ![w][1].rows = @ \o e.rows]
             /\ last' = [last EXCEPT ![w] = e.gen]
    <3> DEFINE s == [ts EXCEPT ![1] = t]
    <3>1. tables' = [tables EXCEPT ![w] = s] /\ last' \in [Writers -> Nat]
      BY <2>1, <2>3, <2>9 DEF Shape, WriterState
    <3>2. r \in Seq(1..put) /\ Len(r) = Len(t0.rows) + Len(e.rows)
      BY <2>2, <2>3
    <3>3. Len(r) <= Capacity
      <4>1. CASE t0.rows = <<>>
        BY <2>1, <2>2, <2>3, <3>2, <4>1
      <4>2. CASE t0.rows # <<>>
        <5> DEFINE a == Len(t0.rows)
                   b == Len(e.rows)
                   c0 == Len(r)
        <5>1. Active(w).rows = t0.rows
          BY <2>2
        <5>2. ~(a + b > Capacity)
          BY <1>4, <2>9, <4>2, <5>1 DEF Refuses
        <5>3. a \in Nat /\ b \in Nat
          BY <2>2, <2>3
        <5>4. c0 = a + b
          BY <3>2
        <5> HIDE DEF a, b, c0
        <5>5. c0 <= Capacity
          BY <2>1, <5>2, <5>3, <5>4
        <5> QED  BY <5>5 DEF c0
      <4> QED  BY <4>1, <4>2
    <3> HIDE DEF r
    <3>4. t \in MemTable(put) /\ t.rows = r /\ t.at = t0.at
      BY <2>2, <3>2 DEF MemTable
    <3> HIDE DEF t
    <3>5. /\ s \in Seq(MemTable(put)) /\ Len(s) = Len(ts) /\ s[1] = t
      <4> DEFINE S == MemTable(put)
                 k == 1
      <4>1. ts \in Seq(S) /\ k \in 1..Len(ts) /\ t \in S
        BY <2>2, <3>4
      <4> HIDE DEF S, ts, k
      <4>2. [ts EXCEPT ![k] = t] \in Seq(S) /\ Len([ts EXCEPT ![k] = t]) = Len(ts)
            /\ [ts EXCEPT ![k] = t][k] = t
        BY <4>1, OneChanged
      <4> QED  BY <4>2 DEF S, k
    <3> HIDE DEF s
    <3>6. TablesOk(s, N)
      BY <2>1, <2>2, <3>3, <3>4, <3>5 DEF TablesOk
    <3>7. Len(s) = 1
      BY <2>1, <3>5
    <3> QED  BY <1>1, <1>2, <1>4, <2>4, <2>5, <2>6, <2>7, <3>1, <3>5, <3>6, <3>7, ReplayStep
  <2> QED  BY <1>4, <2>8, <2>9
<1> QED  BY <1>1, <1>3, <1>4

(* flush_replayed_memtable.                                                *)
LEMMA ReplayFlushStep ==
  ASSUME Inv, NEW w \in Writers, ReplayFlush(w)
  PROVE  Inv'
<1> DEFINE p == pos[w]
           g == wal[p].gen
           t0 == tables[w][1]
           c0 == p - 1
           t == Table(g, End(t0))
<1>1. /\ pc[w] = "replay" /\ p \in DOMAIN wal /\ UNCHANGED <<wal, late>>
      /\ manifest' = manifest \/ manifest' = Published(Active(w), c0)
      /\ \/ Goto(w, "dead") /\ Forget(w)
         \/ /\ tables' = [tables EXCEPT ![w] = <<Table(g, End(Active(w)))>>]
            /\ UNCHANGED <<pc, pos, durable, covered, queue, append, flush, poisoned, epoch, base,
                           last, put, acked>>
  BY DEF ReplayFlush, opening, ghosts
<1>2. /\ N \in Nat /\ DOMAIN wal = 1..N /\ Shape /\ TablesOk(tables[w], N) /\ Len(tables[w]) = 1
      /\ p \in Nat /\ p >= 1 /\ p <= N /\ wal[p] \in LogEntry(put)
      /\ durable[w] \in Nat /\ covered[w] \in Nat /\ covered[w] <= N
      /\ Capacity \in Nat
  BY <1>1, Typed DEF Inv, Local, TasksOk, QuietOk, PosOk
<1>3. /\ t0.gen \in Nat /\ t0.rows \in Seq(1..put) /\ Len(t0.rows) \in Nat /\ t0.off \in Nat
      /\ Active(w) = t0
  <2>1. 1 \in 1..Len(tables[w])
    BY <1>2
  <2> QED  BY <1>2, <2>1, TypedTables
<1>4. /\ manifest' \in ShardManifests /\ manifest'.epoch = manifest.epoch
      /\ manifest'.replayAfter <= N
  <2>1. CASE manifest' = manifest
    BY <2>1 DEF Inv, Shape, Stores, ShardManifests, LogOk
  <2>2. CASE manifest' = Published(Active(w), c0)
    <3>1. c0 \in Nat /\ c0 <= N
      BY <1>2
    <3> HIDE DEF t0, c0
    <3> QED  BY <1>3, <2>2, <3>1, PublishedOk
  <2> QED  BY <1>1, <2>1, <2>2
<1>5. CASE Goto(w, "dead") /\ Forget(w)
  BY <1>1, <1>4, <1>5, OpenFails
<1>6. CASE /\ tables' = [tables EXCEPT ![w] = <<Table(g, End(Active(w)))>>]
           /\ UNCHANGED <<pc, pos, durable, covered, queue, append, flush, poisoned, epoch, base,
                          last, put, acked>>
  <2> DEFINE ts == <<t>>
             o == End(t0)
             x == <<>>
             d == durable[w]
             c == covered[w]
             l == "replay"
  <2>1. g \in Nat /\ o \in Nat
    <3>1. g \in Nat
      BY <1>2 DEF LogEntry
    <3>2. t0.off + Len(t0.rows) \in Nat
      BY <1>3
    <3> QED  BY <3>1, <3>2 DEF End
  <2>2. x \in Seq(1..put) /\ Len(x) = 0
    OBVIOUS
  <2>3. t = [gen |-> g, off |-> o, rows |-> x, at |-> 0, cell |-> "none"]
    BY DEF Table
  <2>4. tables' = [tables EXCEPT ![w] = ts]
    BY <1>3, <1>6
  <2> HIDE DEF g, o, x, t
  <2>5. t \in MemTable(put) /\ t.rows = x /\ t.at = 0
    BY <2>1, <2>2, <2>3 DEF MemTable, Cells
  <2>6. ts \in Seq(MemTable(put)) /\ Len(ts) = 1 /\ ts[1] = t
    BY <2>5
  <2> HIDE DEF ts
  <2>7. TablesOk(ts, N)
    BY <1>2, <2>2, <2>5, <2>6 DEF TablesOk
  <2>8. /\ pc' = [pc EXCEPT ![w] = l] /\ durable' = [durable EXCEPT ![w] = d]
        /\ covered' = [covered EXCEPT ![w] = c] /\ l \in {"replay", "open"}
        /\ pos' = [pos EXCEPT ![w] = p] /\ last' \in [Writers -> Nat] /\ Moves(w)
    BY <1>1, <1>2, <1>6 DEF Shape, WriterState, Moves
  <2>9. d \in Nat /\ c \in Nat /\ c <= N /\ p <= N + 1
    BY <1>2
  <2> HIDE DEF d, c, l, p
  <2> QED  BY <1>1, <1>2, <1>4, <1>6, <2>4, <2>6, <2>7, <2>8, <2>9, ReplayStep
<1> QED  BY <1>1, <1>5, <1>6

(* claim_epoch.                                                            *)
LEMMA ClaimStep ==
  ASSUME Inv, NEW w \in Writers, Claim(w)
  PROVE  Inv'
<1> DEFINE m == manifest
           E == m.epoch + 1
           B == [gen |-> m.gen, replayAfter |-> m.replayAfter, lastSeen |-> m.lastSeen]
           t == Table(m.gen, 0)
           x == <<>>
           l == IF E >= 2 THEN "discover" ELSE "replay"
           p == m.replayAfter + 1
<1>1. /\ pc[w] = "new" /\ manifest' = [m EXCEPT !.epoch = E]
      /\ UNCHANGED <<wal, late, last, durable, covered, queue, append, flush, poisoned, put, acked>>
      /\ \/ /\ epoch' = [epoch EXCEPT ![w] = E] /\ base' = [base EXCEPT ![w] = B]
            /\ tables' = [tables EXCEPT ![w] = <<t>>] /\ pos' = [pos EXCEPT ![w] = p]
            /\ pc' = [pc EXCEPT ![w] = l]
         \/ pc' = [pc EXCEPT ![w] = "dead"] /\ UNCHANGED <<epoch, base, tables, pos>>
  BY DEF Claim, Goto, ghosts
<1>2. /\ N \in Nat /\ DOMAIN wal = 1..N /\ Shape /\ N' = N /\ LogGrows /\ Capacity \in Nat
  BY <1>1, Typed, SameLog DEF Inv
<1>3. /\ m.epoch \in Nat /\ m.gen \in Nat /\ m.replayAfter \in Nat /\ m.lastSeen \in Nat
      /\ m \in ShardManifests /\ m.replayAfter <= N /\ E \in Nat
  BY <1>2 DEF Inv, Shape, Stores, ShardManifests, LogOk
<1>4. /\ manifest' \in ShardManifests /\ manifest'.epoch = E
      /\ manifest'.replayAfter = m.replayAfter
  <2> HIDE DEF E
  <2> QED  BY <1>1, <1>3 DEF ShardManifests
<1>5. x \in Seq(1..put) /\ Len(x) = 0
  OBVIOUS
<1>6. t = [gen |-> m.gen, off |-> 0, rows |-> x, at |-> 0, cell |-> "none"]
  BY DEF Table
<1> HIDE DEF t, x
<1>7. t \in MemTable(put) /\ t.rows = x /\ t.at = 0
  BY <1>3, <1>5, <1>6 DEF MemTable, Cells
<1> DEFINE ts == <<t>>
<1>8. ts \in Seq(MemTable(put)) /\ Len(ts) = 1 /\ ts[1] = t
  BY <1>7
<1> HIDE DEF ts
<1>9. TablesOk(ts, N)
  BY <1>2, <1>5, <1>7, <1>8 DEF TablesOk
<1>10. B \in Cursor /\ B.replayAfter = m.replayAfter
  BY <1>3 DEF Cursor
<1>11. p \in Nat /\ p >= 1 /\ p <= N + 1 /\ l \in Labels
  BY <1>2, <1>3 DEF Labels
<1>12. tables' = [tables EXCEPT ![w] = ts] \/ tables' = tables
  BY <1>1 DEF ts
<1>13. /\ pc \in [Writers -> Labels] /\ epoch \in [Writers -> Nat] /\ base \in [Writers -> Cursor]
       /\ tables \in [Writers -> Seq(MemTable(put))] /\ pos \in [Writers -> Nat]
  BY <1>2 DEF Shape, WriterState
<1>14. \/ /\ pc'[w] = l /\ epoch'[w] = E /\ base'[w] = B /\ tables'[w] = ts /\ pos'[w] = p
       \/ /\ pc'[w] = "dead" /\ epoch'[w] = epoch[w] /\ base'[w] = base[w]
          /\ tables'[w] = tables[w] /\ pos'[w] = pos[w]
  <2> HIDE DEF E, B, p, l, m
  <2> QED  BY <1>1, <1>13 DEF ts
<1>15. \A u \in Writers \ {w} : Same(u)
  <2> HIDE DEF E, B, p, l, m
  <2> QED  BY <1>1, <1>13 DEF Same
<1>16. Shape'
  <2> HIDE DEF E, B, p, l
  <2>1. /\ pc' \in [Writers -> Labels] /\ epoch' \in [Writers -> Nat]
        /\ base' \in [Writers -> Cursor]
        /\ tables' \in [Writers -> Seq(MemTable(put))] /\ pos' \in [Writers -> Nat]
    <3>1. CASE /\ epoch' = [epoch EXCEPT ![w] = E] /\ base' = [base EXCEPT ![w] = B]
               /\ tables' = [tables EXCEPT ![w] = <<t>>] /\ pos' = [pos EXCEPT ![w] = p]
               /\ pc' = [pc EXCEPT ![w] = l]
      <4>1. tables' = [tables EXCEPT ![w] = ts]
        BY <3>1 DEF ts
      <4>2. tables' \in [Writers -> Seq(MemTable(put))]
        BY <1>8, <1>13, <4>1
      <4>3. base' \in [Writers -> Cursor]
        BY <1>10, <1>13, <3>1
      <4>4. pc' \in [Writers -> Labels]
        BY <1>11, <1>13, <3>1
      <4>5. epoch' \in [Writers -> Nat] /\ pos' \in [Writers -> Nat]
        BY <1>3, <1>11, <1>13, <3>1
      <4> QED  BY <4>2, <4>3, <4>4, <4>5
    <3>2. CASE pc' = [pc EXCEPT ![w] = "dead"] /\ UNCHANGED <<epoch, base, tables, pos>>
      BY <1>13, <3>2 DEF Labels
    <3> QED  BY <1>1, <3>1, <3>2
  <2> QED  BY <1>1, <1>2, <1>4, <2>1 DEF Shape, Stores, WriterState, ShardManifests
<1>17. LogOk'
  <2>1. /\ \A q \in DOMAIN wal : wal[q].epoch \in Nat /\ wal[q].epoch <= m.epoch
        /\ \A r \in late : r.entry.epoch \in Nat /\ r.entry.epoch <= m.epoch
        /\ \A r \in late : r.at \in 1..(N + 1)
    BY <1>2 DEF Inv, LogOk, Shape, Stores, LogEntry, Request
  <2> QED  BY <1>1, <1>2, <1>3, <1>4, <2>1 DEF LogOk
<1>18. Local(w)'
  <2>1. queue[w] = <<>> /\ append[w].phase = "idle" /\ flush[w] = "idle" /\ Len(tables[w]) = 1
    BY <1>1 DEF Inv, Local, QuietOk
  <2>2. TasksOk(w)'
    <3>1. CASE tables'[w] = tables[w]
      BY <1>1, <1>2, <3>1 DEF Inv, Local, TasksOk
    <3>2. CASE tables'[w] = ts
      <4> DEFINE q == queue[w]
                 a == append[w]
                 f == flush[w]
                 d == durable[w]
      <4>1. q = <<>> /\ a.phase = "idle" /\ f = "idle"
        BY <2>1
      <4> HIDE DEF q, a, f, d
      <4>2. FrozenOk(ts, d) /\ QueueOk(ts, q) /\ FlushOk(ts, f) /\ AppendOk(ts, a, d)
            /\ ExactOk(ts, q, a, d)
        BY <1>8, <4>1, Alone
      <4> QED  BY <1>1, <1>2, <1>9, <3>2, <4>2 DEF TasksOk, q, a, f, d
    <3> QED  BY <1>14, <3>1, <3>2
  <2>3. QuietOk(w)'
    BY <1>1, <1>8, <1>14, <2>1 DEF QuietOk
  <2>4. PosOk(w)'
    <3>1. PosOk(w) /\ epoch[w] \in Nat
      BY <1>13 DEF Inv, Local
    <3>2. epoch'[w] <= E
      BY <1>3, <1>14, <3>1 DEF PosOk
    <3>3. pc'[w] \in {"discover", "sentinel"} => epoch'[w] >= 1
      BY <1>3, <1>14
    <3>4. base'[w].replayAfter <= N
      BY <1>3, <1>10, <1>14, <3>1 DEF PosOk
    <3>5. pc'[w] \in {"sentinel", "replay", "open"} => pos'[w] \in 1..(N + 1)
      BY <1>2, <1>11, <1>14
    <3>6. covered[w] <= N
      BY <3>1 DEF PosOk
    <3> QED  BY <1>1, <1>2, <1>4, <2>1, <3>2, <3>3, <3>4, <3>5, <3>6 DEF PosOk
  <2> QED  BY <2>2, <2>3, <2>4 DEF Local
<1>19. \A u \in Writers : Local(u)'
  <2> SUFFICES ASSUME NEW u \in Writers \ {w} PROVE Local(u)'
    BY <1>18
  <2>1. Local(u) /\ Same(u) /\ manifest'.epoch \in Nat /\ manifest.epoch <= manifest'.epoch
    BY <1>3, <1>4, <1>15 DEF Inv
  <2> QED  BY <1>2, <2>1, OthersLocal
<1>20. Fencing'
  <2>0. /\ \A q \in DOMAIN wal : wal[q].epoch \in Nat /\ wal[q].epoch < E
        /\ \A r \in late : r.entry.epoch \in Nat /\ r.entry.epoch < E
        /\ \A u \in Writers : epoch[u] \in Nat /\ epoch[u] < E
    <3>1. \A q \in DOMAIN wal : wal[q].epoch \in Nat /\ wal[q].epoch <= m.epoch
      BY <1>2 DEF Inv, LogOk, Shape, Stores, LogEntry
    <3>2. \A r \in late : r.entry.epoch \in Nat /\ r.entry.epoch <= m.epoch
      BY <1>2 DEF Inv, LogOk, Shape, Stores, LogEntry, Request
    <3>3. \A u \in Writers : epoch[u] \in Nat /\ epoch[u] <= m.epoch
      BY <1>13 DEF Inv, Local, PosOk
    <3>4. \A i \in Nat : i <= m.epoch => i < E
      BY <1>3
    <3> HIDE DEF E, m
    <3> QED  BY <3>1, <3>2, <3>3, <3>4
  <2>1. ASSUME NEW d, Rival(d)' PROVE Rival(d) \/ (Writing(w)' /\ d = E /\ E < 2)
    <3>1. CASE \E u \in Writers : Writing(u)' /\ epoch'[u] = d
      <4>1. PICK u \in Writers : Writing(u)' /\ epoch'[u] = d
        BY <3>1
      <4>2. CASE u = w
        <5>1. pc'[w] = "replay" \/ pc'[w] = "open"
          BY <4>1, <4>2 DEF Writing
        <5>2. E < 2 /\ epoch'[w] = E
          BY <1>3, <1>14, <5>1
        <5> QED  BY <4>1, <4>2, <5>2
      <4>3. CASE u # w
        BY <1>15, <4>1, <4>3 DEF Same, Writing, Rival
      <4> QED  BY <4>2, <4>3
    <3>2. CASE \E q \in DOMAIN wal' : Data(wal'[q]) /\ wal'[q].epoch = d
      BY <1>1, <3>2 DEF Rival, Data
    <3>3. CASE \E r \in late' : Data(r.entry) /\ r.entry.epoch = d
      BY <1>1, <3>3 DEF Rival, Data
    <3> QED  BY <2>1, <3>1, <3>2, <3>3 DEF Rival, Writing, Data
  <2>2. ASSUME NEW d \in Nat, Rival(d) PROVE d < E
    BY <2>0, <2>2 DEF Rival
  <2>3. ASSUME NEW y, NEW e \in Nat, Fair(y, e), e < E PROVE FairNext(y, e)
    <3>1. e >= 1
      BY <2>3 DEF Fair
    <3> SUFFICES ASSUME NEW d \in Nat, Rival(d)', d > e
                 PROVE  \E s \in DOMAIN wal' : y <= s /\ wal'[s].epoch > e
      BY <3>1 DEF FairNext
    <3>2. Rival(d)
      BY <1>3, <2>1, <2>3, <3>1
    <3> QED  BY <1>1, <2>3, <3>2 DEF Fair, Stopped
  <2>4. ASSUME NEW u \in Writers, Writing(u)' PROVE FairNext(pos'[u], epoch'[u])
    <3>1. CASE u = w
      <4>1. pc'[w] = "replay" \/ pc'[w] = "open"
        BY <2>4, <3>1 DEF Writing
      <4>2. E < 2 /\ epoch'[w] = E
        BY <1>3, <1>14, <4>1
      <4>3. E = 1
        BY <1>3, <4>2
      <4>4. ASSUME NEW d \in Nat, Rival(d)' PROVE ~(d > E)
        BY <1>3, <2>1, <2>2, <4>4
      <4> QED  BY <3>1, <4>2, <4>3, <4>4 DEF FairNext
    <3>2. CASE u # w
      <4>1. Writing(u) /\ pos'[u] = pos[u] /\ epoch'[u] = epoch[u]
        BY <1>15, <2>4, <3>2 DEF Same, Writing
      <4>2. Fair(pos[u], epoch[u])
        BY <4>1 DEF Inv, Fencing
      <4>3. epoch[u] \in Nat /\ epoch[u] < E
        BY <2>0
      <4> QED  BY <2>3, <4>1, <4>2, <4>3
    <3> QED  BY <3>1, <3>2
  <2>5. ASSUME NEW r \in late', Data(r.entry) PROVE FairNext(r.at, r.entry.epoch)
    <3>1. r \in late
      BY <1>1
    <3>2. Fair(r.at, r.entry.epoch)
      BY <2>5, <3>1 DEF Inv, Fencing
    <3> QED  BY <2>0, <2>3, <3>1, <3>2
  <2>6. ASSUME NEW d \in Nat, Rival(d)', d >= 2 PROVE \E s \in DOMAIN wal' : wal'[s].epoch = d
    <3>1. Rival(d)
      BY <1>3, <2>1, <2>6
    <3> QED  BY <1>1, <2>6, <3>1 DEF Inv, Fencing
  <2>7. ASSUME NEW u \in Writers, NEW s \in DOMAIN wal', wal'[s].epoch > epoch'[u]
        PROVE  base'[u].replayAfter < s
    <3>1. s \in DOMAIN wal /\ wal'[s] = wal[s]
      BY <1>1
    <3>2. CASE epoch'[u] = epoch[u] /\ base'[u] = base[u]
      BY <2>7, <3>1, <3>2 DEF Inv, Fencing
    <3>3. CASE epoch'[u] = E
      BY <1>3, <2>0, <2>7, <3>1, <3>3
    <3> QED  BY <1>14, <1>15, <3>2, <3>3 DEF Same
  <2>8. \A u \in Writers : Writing(u)' => Fair(pos[u], epoch[u])'
    BY <2>4 DEF Fair, FairNext, Stopped
  <2>9. \A r \in late' : Data(r.entry) => Fair(r.at, r.entry.epoch)'
    BY <2>5 DEF Fair, FairNext, Stopped
  <2> QED  BY <2>6, <2>7, <2>8, <2>9 DEF Fencing, Data
<1>21. Ascending'
  BY <1>1 DEF Inv, Ascending, Data
<1> QED  BY <1>16, <1>17, <1>19, <1>20, <1>21 DEF Inv

(* write_fence_sentinel at the end of the log: from here on the writer may *)
(* write data, and what is older has an entry of it in its way.            *)
LEMMA AnnouncedStep ==
  ASSUME Inv, NEW w \in Writers, pc[w] = "sentinel", pos[w] \notin DOMAIN wal,
         wal' = Land(pos[w], Sentinel(w)), pos' = [pos EXCEPT ![w] = base[w].replayAfter + 1],
         Goto(w, "replay"),
         UNCHANGED <<late, manifest, epoch, base, last, tables, durable, covered, queue, append,
                     flush, poisoned, put, acked>>
  PROVE  Inv'
<1> DEFINE e == Sentinel(w)
           E == epoch[w]
           k == N + 1
           b == base[w].replayAfter
           p == pos[w]
           x == <<>>
           n == b + 1
<1>1. /\ N \in Nat /\ DOMAIN wal = 1..N /\ Shape /\ E \in Nat /\ b \in Nat /\ b <= N
      /\ manifest.epoch \in Nat /\ E <= manifest.epoch /\ Capacity \in Nat
      /\ \A q \in DOMAIN wal : wal[q] \in LogEntry(put)
  BY Typed DEF Inv
<1>2. p \in 1..(N + 1) /\ E >= 1 /\ p \notin DOMAIN wal /\ wal' = Land(p, e) /\ put' = put
  BY DEF Inv, Local, PosOk
<1>3. x \in Seq(1..put) /\ Len(x) = 0
  OBVIOUS
<1>4. e = [epoch |-> E, gen |-> 0, rows |-> x]
  BY DEF Sentinel
<1>5. pos' = [pos EXCEPT ![w] = n] /\ pc' = [pc EXCEPT ![w] = "replay"]
  BY DEF Goto
<1>6. n \in Nat /\ n \in 1..(N + 1) /\ k \in Nat /\ k = N + 1
  BY <1>1
<1> HIDE DEF e, E, p, x, n, k
<1>7. e \in LogEntry(put) /\ Len(e.rows) <= Capacity /\ ~Data(e) /\ e.epoch = E
  <2>1. e \in LogEntry(put) /\ e.rows = x /\ e.epoch = E
    BY <1>1, <1>3, <1>4 DEF LogEntry
  <2>2. Len(e.rows) <= Capacity
    BY <1>1, <1>3, <2>1
  <2> QED  BY <2>1, <2>2 DEF Data, x
<1>8. /\ LogGrows /\ p = k /\ N' = k /\ wal'[k] = e /\ DOMAIN wal' \ DOMAIN wal = {k}
      /\ wal' \in [DOMAIN wal' -> LogEntry(put')]
      /\ \A q \in DOMAIN wal' : Len(wal'[q].rows) <= Capacity
  BY <1>2, <1>7, LandTyped DEF k
<1>9. /\ DOMAIN wal' = 1..k /\ \A q \in 1..N : wal'[q] = wal[q]
      /\ \A q \in DOMAIN wal' : q \in DOMAIN wal \/ q = k
  BY <1>1, <1>6, <1>8 DEF LogGrows
<1>10. Shape'
  <2>1. Stores'
    BY <1>1, <1>8 DEF Shape, Stores
  <2>2. pc \in [Writers -> Labels] /\ pos \in [Writers -> Nat]
    BY <1>1 DEF Shape, WriterState
  <2>3. pc' \in [Writers -> Labels] /\ pos' \in [Writers -> Nat]
    BY <1>5, <1>6, <2>2 DEF Labels
  <2>4. WriterState'
    BY <1>1, <2>3 DEF Shape, WriterState
  <2> QED  BY <2>1, <2>4 DEF Shape
<1>11. \A u \in Writers \ {w} : Same(u)
  BY <1>1, <1>5 DEF Same, Shape, WriterState
<1>12. pc'[w] = "replay" /\ pos'[w] = n
  BY <1>1, <1>5 DEF Shape, WriterState
<1>13. Local(w)'
  <2>1. \A i \in Nat : i <= N => i <= k
    BY <1>1, <1>6
  <2>2. TablesOk(tables[w], k)
    <3>1. \A i \in 1..Len(tables[w]) : tables[w][i].at \in Nat
      BY TypedTables
    <3> QED  BY <2>1, <3>1 DEF Inv, Local, TasksOk, TablesOk
  <2>3. TasksOk(w)'
    BY <1>8, <2>2 DEF Inv, Local, TasksOk
  <2>4. QuietOk(w)'
    BY DEF Inv, Local, QuietOk
  <2>5. PosOk(w)'
    <3>1. PosOk(w) /\ append[w].phase = "idle" /\ covered[w] \in Nat
      BY Typed DEF Inv, Local, QuietOk
    <3>2. n \in 1..(N' + 1)
      BY <1>1, <1>6, <1>8
    <3>3. covered[w] <= N' /\ base[w].replayAfter <= N'
      BY <1>1, <1>8, <2>1, <3>1 DEF PosOk
    <3> QED  BY <1>12, <3>1, <3>2, <3>3 DEF PosOk
  <2> QED  BY <2>3, <2>4, <2>5 DEF Local
<1>14. \A u \in Writers : Local(u)'
  <2> SUFFICES ASSUME NEW u \in Writers \ {w} PROVE Local(u)'
    BY <1>13
  <2>1. Local(u) /\ Same(u) /\ manifest'.epoch \in Nat /\ manifest.epoch <= manifest'.epoch
    BY <1>1, <1>11 DEF Inv
  <2> QED  BY <1>1, <1>8, <2>1, OthersLocal
<1>15. LogOk'
  <2>1. /\ manifest.replayAfter \in Nat /\ manifest.replayAfter <= N
        /\ \A r \in late : r.at \in 1..(N + 1) /\ r.entry.epoch <= manifest.epoch
        /\ \A q \in DOMAIN wal : wal[q].epoch <= manifest.epoch
    BY <1>1 DEF Inv, LogOk, Shape, Stores
  <2>2. \A q \in DOMAIN wal' : wal'[q].epoch <= manifest.epoch
    BY <1>1, <1>7, <1>8, <1>9, <2>1
  <2>3. \A r \in late : r.at \in 1..(k + 1)
    BY <1>1, <1>6, <2>1
  <2> QED  BY <1>1, <1>6, <1>8, <1>9, <2>1, <2>2, <2>3 DEF LogOk
<1>16. Ascending'
  BY <1>6, <1>7, <1>8, AscendingStep
<1>17. ASSUME NEW d, Rival(d)' PROVE Rival(d) \/ d = E
  <2>1. CASE \E u \in Writers : Writing(u)' /\ epoch'[u] = d
    <3>1. PICK u \in Writers : Writing(u)' /\ epoch'[u] = d
      BY <2>1
    <3>2. CASE u = w
      BY <3>1, <3>2 DEF E
    <3>3. CASE u # w
      BY <1>11, <3>1, <3>3 DEF Same, Writing, Rival
    <3> QED  BY <3>2, <3>3
  <2>2. CASE \E q \in DOMAIN wal' : Data(wal'[q]) /\ wal'[q].epoch = d
    <3>1. PICK q \in DOMAIN wal' : Data(wal'[q]) /\ wal'[q].epoch = d
      BY <2>2
    <3>2. q \in DOMAIN wal /\ wal'[q] = wal[q]
      BY <1>1, <1>7, <1>8, <1>9, <3>1
    <3> QED  BY <3>1, <3>2 DEF Rival
  <2>3. CASE \E r \in late' : Data(r.entry) /\ r.entry.epoch = d
    BY <2>3 DEF Rival
  <2> QED  BY <1>17, <2>1, <2>2, <2>3 DEF Rival, Writing, Data
<1>18. ASSUME NEW y \in 1..(N + 1), NEW i \in Nat, Fair(y, i) PROVE FairNext(y, i)
  <2>1. i >= 1
    BY <1>18 DEF Fair
  <2> SUFFICES ASSUME NEW d \in Nat, Rival(d)', d > i
               PROVE  \E s \in DOMAIN wal' : y <= s /\ wal'[s].epoch > i
    BY <2>1 DEF FairNext
  <2>2. CASE Rival(d)
    <3>1. PICK s \in DOMAIN wal : y <= s /\ wal[s].epoch > i
      BY <1>18, <2>2 DEF Fair, Stopped
    <3>2. s \in DOMAIN wal' /\ wal'[s] = wal[s]
      BY <1>1, <1>6, <1>9, <3>1
    <3> QED  BY <3>1, <3>2
  <2>3. CASE d = E
    <3>1. k \in DOMAIN wal' /\ y <= k /\ wal'[k].epoch > i
      BY <1>1, <1>6, <1>7, <1>8, <1>9, <2>3
    <3> QED  BY <3>1
  <2> QED  BY <1>17, <2>2, <2>3
<1>19. FairNext(n, E)
  <2> SUFFICES ASSUME NEW d \in Nat, Rival(d)', d > E
               PROVE  \E s \in DOMAIN wal' : n <= s /\ wal'[s].epoch > E
    BY <1>2 DEF FairNext
  <2>1. Rival(d) /\ d >= 2
    BY <1>1, <1>2, <1>17
  <2>2. PICK s \in DOMAIN wal : wal[s].epoch = d
    BY <2>1 DEF Inv, Fencing
  <2>3. b < s
    BY <2>2 DEF Inv, Fencing, E
  <2>4. n <= s
    BY <1>1, <2>3 DEF n
  <2>5. s \in DOMAIN wal' /\ wal'[s] = wal[s]
    BY <1>1, <1>6, <1>9
  <2> QED  BY <2>2, <2>4, <2>5
<1>20. Fencing'
  <2>1. ASSUME NEW u \in Writers, Writing(u)' PROVE FairNext(pos'[u], epoch'[u])
    <3>1. CASE u = w
      BY <1>12, <1>19, <3>1 DEF E
    <3>2. CASE u # w
      <4>1. Writing(u) /\ pos'[u] = pos[u] /\ epoch'[u] = epoch[u]
        BY <1>11, <2>1, <3>2 DEF Same, Writing
      <4>2. Fair(pos[u], epoch[u]) /\ pos[u] \in 1..(N + 1) /\ epoch[u] \in Nat
        BY <4>1, Typed DEF Inv, Fencing, Local, PosOk, Writing
      <4> QED  BY <1>18, <4>1, <4>2
    <3> QED  BY <3>1, <3>2
  <2>2. ASSUME NEW r \in late', Data(r.entry) PROVE FairNext(r.at, r.entry.epoch)
    <3>1. /\ r \in late /\ Fair(r.at, r.entry.epoch) /\ r.at \in 1..(N + 1)
          /\ r.entry.epoch \in Nat
      BY <1>1, <2>2 DEF Inv, Fencing, LogOk, Shape, Stores, Request, LogEntry
    <3> QED  BY <1>18, <3>1
  <2>3. ASSUME NEW d \in Nat, Rival(d)', d >= 2 PROVE \E s \in DOMAIN wal' : wal'[s].epoch = d
    <3>1. CASE Rival(d)
      <4>1. PICK s \in DOMAIN wal : wal[s].epoch = d
        BY <2>3, <3>1 DEF Inv, Fencing
      <4> QED  BY <1>1, <1>6, <1>9, <4>1
    <3>2. CASE d = E
      BY <1>6, <1>7, <1>8, <1>9, <1>1, <3>2
    <3> QED  BY <1>17, <2>3, <3>1, <3>2
  <2>4. ASSUME NEW u \in Writers, NEW s \in DOMAIN wal', wal'[s].epoch > epoch'[u]
        PROVE  base'[u].replayAfter < s
    <3>1. base'[u] = base[u] /\ epoch'[u] = epoch[u]
          /\ base[u].replayAfter \in Nat /\ base[u].replayAfter <= N
      BY Typed
    <3>2. CASE s \in DOMAIN wal
      BY <1>1, <1>9, <2>4, <3>1, <3>2 DEF Inv, Fencing
    <3>3. CASE s = k
      BY <1>1, <1>6, <3>1, <3>3
    <3> QED  BY <1>9, <3>2, <3>3
  <2>5. \A u \in Writers : Writing(u)' => Fair(pos[u], epoch[u])'
    BY <2>1 DEF Fair, FairNext, Stopped
  <2>6. \A r \in late' : Data(r.entry) => Fair(r.at, r.entry.epoch)'
    BY <2>2 DEF Fair, FairNext, Stopped
  <2> QED  BY <2>3, <2>4, <2>5, <2>6 DEF Fencing, Data
<1> QED  BY <1>10, <1>14, <1>15, <1>16, <1>20 DEF Inv

(* write_fence_sentinel.                                                   *)
LEMMA WriteSentinelStep ==
  ASSUME Inv, NEW w \in Writers, WriteSentinel(w)
  PROVE  Inv'
<1> DEFINE e == Sentinel(w)
           p == pos[w]
<1>1. pc[w] = "sentinel" /\ manifest' = manifest
  BY DEF WriteSentinel
<1>2. /\ N \in Nat /\ DOMAIN wal = 1..N /\ Shape /\ epoch[w] \in Nat /\ Capacity \in Nat
      /\ manifest.epoch \in Nat /\ epoch[w] <= manifest.epoch /\ p \in 1..(N + 1)
      /\ epoch[w] >= 1 /\ manifest.replayAfter <= N
  BY <1>1, Typed DEF Inv, Local, PosOk, LogOk
<1>3. CASE /\ pos[w] \notin DOMAIN wal
           /\ wal' = Land(pos[w], Sentinel(w))
           /\ pos' = [pos EXCEPT ![w] = base[w].replayAfter + 1]
           /\ Goto(w, "replay")
           /\ UNCHANGED <<late, faults, epoch, base, last>> /\ UNCHANGED tasks
           /\ UNCHANGED ghosts
  BY <1>1, <1>3, AnnouncedStep DEF tasks, ghosts
<1>4. CASE /\ Goto(w, "discover")
           /\ UNCHANGED <<wal, late, pos, faults>> /\ UNCHANGED opening
           /\ UNCHANGED tasks /\ UNCHANGED ghosts
  <2>1. /\ pc' = [pc EXCEPT ![w] = "discover"]
        /\ UNCHANGED <<wal, late, pos, manifest, epoch, base, last, tables, durable, covered,
                       queue, append, flush, poisoned, put, acked>>
    BY <1>1, <1>4 DEF Goto, opening, tasks, ghosts
  <2>2. N' = N
    BY <2>1 DEF N
  <2>3. Shape'
    BY <1>2, <2>1 DEF Shape, Stores, WriterState, Labels
  <2>4. pc'[w] = "discover" /\ \A u \in Writers \ {w} : Same(u)
    BY <1>2, <2>1 DEF Same, Shape, WriterState
  <2>5. Local(w)'
    <3>1. TasksOk(w)'
      BY <2>1, <2>2 DEF Inv, Local, TasksOk
    <3>2. QuietOk(w)'
      BY <1>1, <2>1 DEF Inv, Local, QuietOk
    <3>3. PosOk(w)'
      BY <1>1, <1>2, <2>1, <2>2, <2>4 DEF Inv, Local, PosOk
    <3> QED  BY <3>1, <3>2, <3>3 DEF Local
  <2> QED  BY <1>2, <2>1, <2>3, <2>4, <2>5, QuietStep DEF Writing
<1>5. CASE AppendFails(p, e) /\ Goto(w, "dead") /\ Forget(w)
  <2> DEFINE x == <<>>
             E == epoch[w]
  <2>1. x \in Seq(1..put) /\ Len(x) = 0
    OBVIOUS
  <2>2. e = [epoch |-> E, gen |-> 0, rows |-> x]
    BY DEF Sentinel
  <2>3. UNCHANGED <<manifest, put, acked>>
    BY <1>1, <1>5 DEF Forget, ghosts
  <2> HIDE DEF e, x, E, p
  <2>4. e \in LogEntry(put) /\ Len(e.rows) <= Capacity /\ ~Data(e) /\ e.epoch = epoch[w]
    <3>1. e \in LogEntry(put) /\ e.rows = x /\ e.epoch = E
      BY <1>2, <2>1, <2>2 DEF LogEntry, E
    <3>2. Len(e.rows) <= Capacity
      BY <1>2, <2>1, <3>1
    <3> QED  BY <3>1, <3>2 DEF Data, x, E
  <2>5. /\ Stores' /\ LogGrows /\ N' \in Nat
        /\ \A q \in DOMAIN wal' \ DOMAIN wal : q = N + 1 /\ p = N + 1 /\ wal'[q] = e
        /\ \A r \in late' : r \in late \/ (r.at = p /\ r.entry = e)
    BY <1>2, <1>5, <2>3, <2>4, FailedTyped
  <2>6. /\ WriterState' /\ Local(w)' /\ ~Writing(w)' /\ base'[w].replayAfter = 0
        /\ \A u \in Writers \ {w} : Same(u)
    <3>1. N <= N' /\ manifest'.epoch \in Nat /\ manifest.epoch <= manifest'.epoch
      BY <1>1, <1>2, <2>5 DEF LogGrows
    <3> QED  BY <1>5, <2>5, <3>1, ForgetOk
  <2>7. Shape'
    BY <2>5, <2>6 DEF Shape
  <2>8. \A u \in Writers : Local(u)'
    <3> SUFFICES ASSUME NEW u \in Writers \ {w} PROVE Local(u)'
      BY <2>6
    <3>1. Local(u) /\ Same(u) /\ manifest'.epoch \in Nat /\ manifest.epoch <= manifest'.epoch
      BY <1>1, <1>2, <2>6 DEF Inv
    <3> QED  BY <1>2, <2>5, <3>1, OthersLocal
  <2>9. \A u \in Writers :
          /\ Writing(u)' => Writing(u) /\ epoch'[u] = epoch[u] /\ Moves(u)
          /\ \/ base'[u].replayAfter = 0
             \/ epoch'[u] = epoch[u] /\ base'[u].replayAfter = base[u].replayAfter
    BY <2>6 DEF Same, Writing, Moves
  <2>10. \A r \in late' : r \in late \/ (/\ r.at \in 1..(N + 1) /\ r.entry.epoch <= manifest.epoch
                                         /\ ~Data(r.entry))
    BY <1>2, <2>4, <2>5
  <2>11. \A q \in DOMAIN wal' \ DOMAIN wal :
           q = N + 1 /\ wal'[q].epoch <= manifest.epoch /\ ~Data(wal'[q])
    BY <1>2, <2>4, <2>5
  <2> QED  BY <1>1, <2>5, <2>7, <2>8, <2>9, <2>10, <2>11, StoreStep
<1> QED  BY <1>3, <1>4, <1>5 DEF WriteSentinel

-----------------------------------------------------------------------------
(* The theorems                                                            *)

(* A new shard satisfies the invariant.                                    *)
LEMMA InitOk == Init => Inv
<1> SUFFICES ASSUME Init PROVE Inv
  OBVIOUS
<1> DEFINE T == Table(1, 0)
           I == Idle
           B == [gen |-> 1, replayAfter |-> 0, lastSeen |-> 0]
           x == <<>>
<1>1. /\ MaxBatches \in Nat /\ Capacity \in Nat /\ put = 0
  BY MemWalAssumption DEF Init
<1>2. x \in Seq(1..put) /\ Len(x) = 0 /\ x \in Seq(Nat) /\ DOMAIN x = {}
  OBVIOUS
<1>3. T = [gen |-> 1, off |-> 0, rows |-> x, at |-> 0, cell |-> "none"]
  BY DEF Table
<1>4. wal = x
  BY DEF Init
<1>5. /\ late = {} /\ acked = {}
      /\ manifest = [epoch |-> 0, gen |-> 1, replayAfter |-> 0, lastSeen |-> 0, sst |-> {}]
      /\ pc = [w \in Writers |-> "new"] /\ epoch = [w \in Writers |-> 0]
      /\ base = [w \in Writers |-> B] /\ pos = [w \in Writers |-> 0]
      /\ last = [w \in Writers |-> 0] /\ tables = [w \in Writers |-> <<T>>]
      /\ durable = [w \in Writers |-> 0] /\ covered = [w \in Writers |-> 0]
      /\ queue = [w \in Writers |-> x] /\ append = [w \in Writers |-> I]
      /\ flush = [w \in Writers |-> "idle"] /\ poisoned = [w \in Writers |-> FALSE]
  BY DEF Init
<1> HIDE DEF x, T
<1>6. T \in MemTable(put) /\ T.rows = x /\ T.at = 0
  BY <1>2, <1>3 DEF MemTable, Cells
<1> DEFINE ts == <<T>>
<1>7. ts \in Seq(MemTable(put)) /\ Len(ts) = 1 /\ ts[1] = T
  BY <1>6
<1>8. I \in Appending /\ I.phase = "idle"
  BY DEF Idle, Appending, Phases
<1>9. B \in Cursor /\ B.replayAfter = 0
  BY DEF Cursor
<1> HIDE DEF ts, I, B
<1>10. N = 0 /\ DOMAIN wal = {}
  BY <1>2, <1>4, FS_EmptySet DEF N
<1>11. WriterState
  <2>1. tables \in [Writers -> Seq(MemTable(put))]
    BY <1>5, <1>7 DEF ts
  <2>2. /\ append \in [Writers -> Appending] /\ base \in [Writers -> Cursor]
        /\ queue \in [Writers -> Seq(Nat)]
    BY <1>2, <1>5, <1>8, <1>9
  <2>3. /\ pc \in [Writers -> Labels] /\ epoch \in [Writers -> Nat] /\ pos \in [Writers -> Nat]
        /\ last \in [Writers -> Nat] /\ durable \in [Writers -> Nat]
        /\ covered \in [Writers -> Nat] /\ flush \in [Writers -> {"idle", "check", "commit"}]
    BY <1>5 DEF Labels
  <2>4. poisoned \in [Writers -> BOOLEAN]
    BY <1>5
  <2> QED  BY <2>1, <2>2, <2>3, <2>4 DEF WriterState
<1>12. Stores
  <2>1. wal \in [DOMAIN wal -> LogEntry(put)] /\ \A p \in DOMAIN wal : Len(wal[p].rows) <= Capacity
    <3>1. wal = [p \in {} |-> p]
      BY <1>4 DEF x
    <3> QED  BY <1>10, <3>1
  <2>2. manifest \in [epoch : Nat, gen : Nat, replayAfter : Nat, lastSeen : Nat,
                      sst : SUBSET [gen : Nat, rows : Seq(1..put)]]
    BY <1>5
  <2>3. put \in 0..MaxBatches /\ acked \subseteq 1..put /\ late \subseteq Request(put)
        /\ \A r \in late : Len(r.entry.rows) <= Capacity
    BY <1>1, <1>5
  <2> QED  BY <2>1, <2>2, <2>3 DEF Stores
<1>13. LogOk
  BY <1>5, <1>10 DEF LogOk
<1>14. ASSUME NEW w \in Writers PROVE Local(w)
  <2>1. /\ pc[w] = "new" /\ epoch[w] = 0 /\ base[w] = B /\ pos[w] = 0 /\ tables[w] = ts
        /\ durable[w] = 0 /\ covered[w] = 0 /\ queue[w] = x /\ append[w] = I
        /\ flush[w] = "idle"
    BY <1>5 DEF ts
  <2>2. TablesOk(ts, N)
    BY <1>1, <1>2, <1>6, <1>7, <1>10 DEF TablesOk
  <2> DEFINE f == flush[w]
             d == durable[w]
  <2>3. x = <<>> /\ f = "idle"
    BY <2>1 DEF x
  <2> HIDE DEF f, d
  <2>4. FrozenOk(ts, d) /\ QueueOk(ts, x) /\ FlushOk(ts, f) /\ AppendOk(ts, I, d)
        /\ ExactOk(ts, x, I, d)
    BY <1>7, <1>8, <2>3, Alone
  <2>5. TasksOk(w)
    BY <2>1, <2>2, <2>4 DEF TasksOk, f, d
  <2>6. QuietOk(w)
    BY <1>7, <1>8, <2>1, <2>3 DEF QuietOk
  <2>7. PosOk(w)
    BY <1>5, <1>8, <1>9, <1>10, <2>1 DEF PosOk
  <2> QED  BY <2>5, <2>6, <2>7 DEF Local
<1>15. Fencing
  <2>1. \A w \in Writers : ~Writing(w)
    BY <1>5 DEF Writing
  <2>2. \A d : ~Rival(d)
    BY <1>5, <1>10, <2>1 DEF Rival
  <2> QED  BY <1>5, <1>10, <2>1, <2>2 DEF Fencing
<1>16. Ascending
  BY <1>10 DEF Ascending
<1> QED  BY <1>11, <1>12, <1>13, <1>14, <1>15, <1>16 DEF Inv, Shape

(* Every step of the shard and of its writers preserves the invariant.     *)
LEMMA NextOk ==
  ASSUME Inv, [Next]_vars
  PROVE  Inv'
<1>1. CASE ApplyLate
  BY <1>1, ApplyLateStep
<1>2. ASSUME NEW w \in Writers, Claim(w) \/ Discover(w) \/ WriteSentinel(w)
      PROVE  Inv'
  BY <1>2, ClaimStep, DiscoverStep, WriteSentinelStep
<1>3. ASSUME NEW w \in Writers, ReplayEntry(w) \/ ReplayFlush(w) \/ ReplayDone(w)
      PROVE  Inv'
  BY <1>3, ReplayEntryStep, ReplayFlushStep, ReplayDoneStep
<1>4. ASSUME NEW w \in Writers, Put(w) \/ Freeze(w)
      PROVE  Inv'
  BY <1>4, PutStep, FreezeStep
<1>5. ASSUME NEW w \in Writers,
             TakeTrigger(w) \/ AppendPut(w) \/ AppendCheck(w) \/ Advance(w) \/ Settle(w)
      PROVE  Inv'
  BY <1>5, TakeTriggerStep, AppendPutStep, AppendCheckStep, AdvanceStep, SettleStep
<1>6. ASSUME NEW w \in Writers, FlushTake(w) \/ FlushCheck(w) \/ FlushCommit(w)
      PROVE  Inv'
  BY <1>6, FlushTakeStep, FlushCheckStep, FlushCommitStep
<1>7. ASSUME NEW w \in Writers, Crash(w)
      PROVE  Inv'
  BY <1>7, CrashStep
<1>8. CASE UNCHANGED vars
  <2>1. /\ UNCHANGED <<wal, late, manifest, pc, epoch, base, pos, last, tables, durable, covered,
                       queue, append, flush, poisoned, put, acked>>
    BY <1>8 DEF vars
  <2>2. Shape' /\ LogOk'
    BY <2>1 DEF Inv, Shape, Stores, WriterState, LogOk, N
  <2>3. \A w \in Writers : Local(w)'
    BY <2>1 DEF Inv, Local, TasksOk, QuietOk, PosOk, N
  <2>4. \A p, e : Fair(p, e) <=> Fair(p, e)'
    BY <2>1 DEF Fair, Rival, Stopped, Writing, Data
  <2>5. \A d : Rival(d)' => Rival(d)
    BY <2>1 DEF Rival, Writing, Data
  <2>6. Fencing'
    BY <2>1, <2>4, <2>5 DEF Inv, Fencing, Writing, Data
  <2>7. Ascending'
    BY <2>1 DEF Inv, Ascending, Data
  <2> QED  BY <2>2, <2>3, <2>6, <2>7 DEF Inv
<1> QED  BY <1>1, <1>2, <1>3, <1>4, <1>5, <1>6, <1>7, <1>8 DEF Next

(* Inv is an invariant of the shard.                                       *)
THEOREM Invariance == Spec => []Inv
BY InitOk, NextOk, PTL DEF Spec

(* The invariant gives the types.                                          *)
LEMMA InvTypeOK == Inv => TypeOK
<1> SUFFICES ASSUME Inv PROVE TypeOK
  OBVIOUS
<1>1. /\ MaxBatches \in Nat /\ put \in 0..MaxBatches /\ acked \subseteq 1..put
      /\ Stores /\ WriterState
  BY MemWalAssumption DEF Inv, Shape, Stores
<1>2. \A s : s \in Seq(1..put) => s \in Seq(Batches)
  BY <1>1, MoreRows DEF Batches
<1>3. \A e \in LogEntry(put) : e \in Entry
  BY <1>2 DEF LogEntry, Entry
<1>4. DOMAIN wal \subseteq Nat \ {0} /\ \A p \in DOMAIN wal : wal[p] \in Entry
  <2>1. N \in Nat /\ DOMAIN wal = 1..N
    BY DEF Inv, LogOk
  <2> QED  BY <1>1, <1>3, <2>1 DEF Stores
<1>5. \A r \in late : r.at \in Nat \ {0} /\ r.entry \in Entry
  BY <1>1, <1>3 DEF Stores, Request, Inv, LogOk
<1>6. /\ {manifest.epoch, manifest.gen, manifest.replayAfter, manifest.lastSeen} \subseteq Nat
      /\ \A s \in manifest.sst : s.gen \in Nat /\ s.rows \in Seq(Batches)
  BY <1>1, <1>2 DEF Stores
<1>7. /\ pc \in [Writers -> {"new", "discover", "sentinel", "replay", "open", "dead", "refused"}]
      /\ {epoch, pos, last, durable, covered} \subseteq [Writers -> Nat]
      /\ flush \in [Writers -> {"idle", "check", "commit"}]
      /\ poisoned \in [Writers -> BOOLEAN]
  BY <1>1 DEF WriterState, Labels
<1>8. ASSUME NEW w \in Writers
      PROVE  /\ Len(tables[w]) > 0
             /\ \A t \in Range(tables[w]) :
                  /\ {t.gen, t.off, t.at} \subseteq Nat
                  /\ t.rows \in Seq(Batches) /\ Len(t.rows) <= Capacity
                  /\ t.cell \in {"none", "wait", "done", "failed"}
             /\ append[w].phase \in {"idle", "put", "exists", "failed", "appended", "settle"}
  <2> DEFINE ts == tables[w]
  <2>1. /\ ts \in Seq(MemTable(put)) /\ Len(ts) \in Nat /\ Len(ts) >= 1
        /\ \A i \in 1..Len(ts) :
             /\ ts[i].gen \in Nat /\ ts[i].off \in Nat /\ ts[i].at \in Nat
             /\ ts[i].rows \in Seq(1..put) /\ ts[i].cell \in Cells
    BY TypedTables
  <2>2. \A i \in 1..Len(ts) : Len(ts[i].rows) <= Capacity
    BY DEF Inv, Local, TasksOk, TablesOk
  <2>3. append[w].phase \in Phases
    BY Typed DEF Appending
  <2> HIDE DEF ts
  <2>4. Range(ts) = {ts[i] : i \in 1..Len(ts)}
    BY <2>1 DEF Range
  <2>5. \A t \in Range(ts) :
          /\ {t.gen, t.off, t.at} \subseteq Nat
          /\ t.rows \in Seq(Batches) /\ Len(t.rows) <= Capacity
          /\ t.cell \in {"none", "wait", "done", "failed"}
    BY <1>2, <2>1, <2>2, <2>4 DEF Cells
  <2>6. Len(ts) > 0
    BY <2>1
  <2> QED  BY <2>3, <2>5, <2>6 DEF ts, Phases
<1> QED  BY <1>1, <1>4, <1>5, <1>6, <1>7, <1>8 DEF TypeOK

(* TypeOK: the log, the manifest and the writers' state keep their shapes, *)
(* and no memtable outgrows its capacity, in replay and in put.            *)
THEOREM TypeCorrect == Spec => []TypeOK
BY Invariance, InvTypeOK, PTL

(* LogSound: the log has no gap and never goes back to an older epoch,     *)
(* which is what replay_memtable_from_wal takes for granted, however many  *)
(* writers take the shard over and whatever requests come late.            *)
THEOREM LogIsSound == Spec => []LogSound
<1>1. Inv => LogSound
  BY DEF Inv, LogOk, Ascending, Data, LogSound, N
<1> QED  BY <1>1, Invariance, PTL
=============================================================================
