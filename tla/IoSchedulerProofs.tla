------------------------- MODULE IoSchedulerProofs -------------------------
(***************************************************************************)
(* The I/O scheduler neither leaks nor invents budget, and its loop never  *)
(* misses a wake-up, for every finite set of requests and every budget.    *)
(*                                                                         *)
(* The budget is compared with sums over the requests, so the first part   *)
(* proves what is needed about the library's sums.  A property of the      *)
(* subsets of a finite set is passed to the induction as a set, because an *)
(* operator cannot be.                                                     *)
(***************************************************************************)
EXTENDS IoScheduler, FiniteSetTheorems, TLAPS

(***************************************************************************)
(* Sums over finite sets                                                   *)
(***************************************************************************)

(* What SumFunctionOnSet(h, S) unfolds to: g[s] is the sum of h over s.    *)
Pick(s) == CHOOSE x \in s : TRUE
Unfolds(h, S, g) ==
  g = [s \in SUBSET S |-> IF s = {} THEN 0 ELSE h[Pick(s)] + g[s \ {Pick(s)}]]

(* Induction over the subsets of a finite set, with the property given as  *)
(* the set X of those that have it.                                        *)
LEMMA SubsetInduction ==
  ASSUME NEW S, IsFiniteSet(S), NEW X,
         \A s \in SUBSET S : (\A u \in SUBSET s : u # s => u \in X) => s \in X
  PROVE  SUBSET S \subseteq X
<1> DEFINE Bad == {s \in SUBSET S : s \notin X}
<1> SUFFICES ASSUME Bad # {} PROVE FALSE
  OBVIOUS
<1>a. FiniteSubsetsOf(S) = SUBSET S
  BY FS_FiniteSubsetsOfFinite
<1>b. IsWellFoundedOn(StrictSubsetOrdering(S), FiniteSubsetsOf(S))
  BY FS_StrictSubsetOrderingWellFounded
<1>1. IsWellFoundedOn(StrictSubsetOrdering(S), SUBSET S)
  BY <1>a, <1>b, Zenon
<1>c. Bad \subseteq SUBSET S
  OBVIOUS
<1> HIDE DEF Bad
<1>2. PICK s \in Bad : \A u \in Bad : ~ (<<u, s>> \in StrictSubsetOrdering(S))
  <2>1. \E s \in Bad : \A u \in Bad : ~ (<<u, s>> \in StrictSubsetOrdering(S))
    BY <1>1, <1>c, WFMin
  <2> QED  BY <2>1
<1> USE DEF Bad
<1>3. \A u \in SUBSET s : u # s => u \in X
  BY <1>2 DEF StrictSubsetOrdering
<1> QED  BY <1>2, <1>3

(* The library's sum is the value, at S, of a function that unfolds.       *)
LEMMA SumIs ==
  ASSUME NEW h, NEW S
  PROVE  SumFunctionOnSet(h, S) = (CHOOSE g : Unfolds(h, S, g))[S]
BY DEF SumFunctionOnSet, FoldFunctionOnSet, MapThenFoldSet, Unfolds, Pick

(* At most one function unfolds.                                           *)
LEMMA SumUnique ==
  ASSUME NEW S, IsFiniteSet(S), NEW h, NEW f, NEW g, Unfolds(h, S, f), Unfolds(h, S, g)
  PROVE  f[S] = g[S]
<1> DEFINE X == {s \in SUBSET S : f[s] = g[s]}
<1>1. ASSUME NEW s \in SUBSET S, \A u \in SUBSET s : u # s => u \in X
      PROVE  s \in X
  <2>1. CASE s = {}
    BY <2>1 DEF Unfolds
  <2>2. CASE s # {}
    <3>1. Pick(s) \in s
      BY <2>2 DEF Pick
    <3>2. f[s \ {Pick(s)}] = g[s \ {Pick(s)}]
      BY <3>1, <1>1
    <3>3. /\ f[s] = h[Pick(s)] + f[s \ {Pick(s)}]
          /\ g[s] = h[Pick(s)] + g[s \ {Pick(s)}]
      BY <2>2, Zenon DEF Unfolds
    <3> QED  BY <3>2, <3>3
  <2> QED  BY <2>1, <2>2
<1> HIDE DEF X
<1>2. SUBSET S \subseteq X
  BY <1>1, SubsetInduction
<1> QED  BY <1>2 DEF X

(* One does, so the sum over a set is the sum over what remains when the   *)
(* element that CHOOSE takes is removed, plus that element's value.        *)
LEMMA SumStep ==
  ASSUME NEW S, IsFiniteSet(S), NEW h
  PROVE  \A s \in SUBSET S :
           s # {} => SumFunctionOnSet(h, s)
                       = h[Pick(s)] + SumFunctionOnSet(h, s \ {Pick(s)})
<1> DEFINE Sum(s) == SumFunctionOnSet(h, s)
           X == {s \in SUBSET S : s # {} => Sum(s) = h[Pick(s)] + Sum(s \ {Pick(s)})}
<1>e. Sum({}) = 0
  <2> DEFINE g == [s \in SUBSET {} |-> 0]
  <2>1. Unfolds(h, {}, g)
    BY DEF Unfolds
  <2>2. Unfolds(h, {}, CHOOSE f : Unfolds(h, {}, f))
    BY <2>1, Zenon
  <2>3. (CHOOSE f : Unfolds(h, {}, f))[{}] = g[{}]
    BY <2>1, <2>2, SumUnique, FS_EmptySet
  <2> QED  BY <2>3, SumIs
<1>1. ASSUME NEW s \in SUBSET S, \A u \in SUBSET s : u # s => u \in X
      PROVE  s \in X
  <2> SUFFICES ASSUME s # {} PROVE Sum(s) = h[Pick(s)] + Sum(s \ {Pick(s)})
    OBVIOUS
  <2> DEFINE c == Pick(s)
             g == [u \in SUBSET s |-> IF u = s THEN h[c] + Sum(s \ {c}) ELSE Sum(u)]
  <2>1. c \in s
    BY DEF Pick
  <2> HIDE DEF Sum
  <2>2. Unfolds(h, s, g)
    <3> SUFFICES ASSUME NEW u \in SUBSET s
                 PROVE  g[u] = IF u = {} THEN 0 ELSE h[Pick(u)] + g[u \ {Pick(u)}]
      BY Zenon DEF Unfolds
    <3>1. CASE u = {}
      BY <3>1, <1>e
    <3>2. CASE u = s
      BY <3>2, <2>1
    <3>3. CASE u # {} /\ u # s
      <4>1. Pick(u) \in u
        BY <3>3 DEF Pick
      <4>2. u \in X
        BY <1>1, <3>3
      <4>3. g[u] = Sum(u) /\ g[u \ {Pick(u)}] = Sum(u \ {Pick(u)})
        BY <3>3, <4>1
      <4> QED  BY <3>3, <4>2, <4>3
    <3> QED  BY <3>1, <3>2, <3>3
  <2>3. Unfolds(h, s, CHOOSE f : Unfolds(h, s, f))
    <3> HIDE DEF g
    <3> QED  BY <2>2, Zenon
  <2>4. IsFiniteSet(s)
    BY FS_Subset
  <2>5. (CHOOSE f : Unfolds(h, s, f))[s] = g[s]
    <3> HIDE DEF g
    <3> QED BY <2>2, <2>3, <2>4, SumUnique
  <2> QED  BY <2>5, SumIs DEF Sum
<1> HIDE DEF X
<1>2. SUBSET S \subseteq X
  BY <1>1, SubsetInduction
<1> QED  BY <1>2 DEF X

(* The empty sum.                                                          *)
LEMMA SumEmpty ==
  ASSUME NEW h
  PROVE  SumFunctionOnSet(h, {}) = 0
<1> DEFINE g == [s \in SUBSET {} |-> 0]
<1>1. Unfolds(h, {}, g)
  BY DEF Unfolds
<1>2. Unfolds(h, {}, CHOOSE f : Unfolds(h, {}, f))
  <2> HIDE DEF g
  <2> QED  BY <1>1, Zenon
<1>3. (CHOOSE f : Unfolds(h, {}, f))[{}] = g[{}]
  <2> HIDE DEF g
  <2> QED  BY <1>1, <1>2, SumUnique, FS_EmptySet
<1> QED  BY <1>3, SumIs

(* A finite sum of integers is an integer.                                 *)
LEMMA SumType ==
  ASSUME NEW S, IsFiniteSet(S), NEW h, \A x \in S : h[x] \in Int
  PROVE  SumFunctionOnSet(h, S) \in Int
<1> DEFINE X == {s \in SUBSET S : SumFunctionOnSet(h, s) \in Int}
<1>1. ASSUME NEW s \in SUBSET S, \A u \in SUBSET s : u # s => u \in X
      PROVE  s \in X
  <2>1. CASE s = {}
    BY <2>1, SumEmpty
  <2>2. CASE s # {}
    <3>1. Pick(s) \in s
      BY <2>2 DEF Pick
    <3>2. SumFunctionOnSet(h, s) = h[Pick(s)] + SumFunctionOnSet(h, s \ {Pick(s)})
      BY <2>2, SumStep
    <3>3. SumFunctionOnSet(h, s \ {Pick(s)}) \in Int
      BY <1>1, <3>1
    <3> QED  BY <3>1, <3>2, <3>3
  <2> QED  BY <2>1, <2>2
<1> HIDE DEF X
<1>2. SUBSET S \subseteq X
  BY <1>1, SubsetInduction
<1> QED  BY <1>2 DEF X

(* The order does not matter: any element may be taken out first.          *)
LEMMA SumRemove ==
  ASSUME NEW S, IsFiniteSet(S), NEW h, \A x \in S : h[x] \in Int, NEW y \in S
  PROVE  SumFunctionOnSet(h, S) = h[y] + SumFunctionOnSet(h, S \ {y})
<1> DEFINE Sum(s) == SumFunctionOnSet(h, s)
           X == {s \in SUBSET S : \A x \in s : Sum(s) = h[x] + Sum(s \ {x})}
<1>0. \A s \in SUBSET S : Sum(s) \in Int
  BY SumType, FS_Subset
<1>a. \A s \in SUBSET S : s # {} => Sum(s) = h[Pick(s)] + Sum(s \ {Pick(s)})
  BY SumStep
<1> HIDE DEF Sum
<1>1. ASSUME NEW s \in SUBSET S, \A u \in SUBSET s : u # s => u \in X
      PROVE  s \in X
  <2> SUFFICES ASSUME NEW x \in s PROVE Sum(s) = h[x] + Sum(s \ {x})
    OBVIOUS
  <2> DEFINE c == Pick(s)
  <2>1. c \in s
    BY DEF Pick
  <2>2. Sum(s) = h[c] + Sum(s \ {c})
    BY <1>a
  <2> HIDE DEF c
  <2>3. CASE x = c
    BY <2>2, <2>3
  <2>4. CASE x # c
    <3>1. s \ {c} \in X /\ s \ {x} \in X
      BY <1>1, <2>1
    <3>2. Sum(s \ {c}) = h[x] + Sum((s \ {c}) \ {x})
      BY <3>1, <2>4
    <3>3. Sum(s \ {x}) = h[c] + Sum((s \ {x}) \ {c})
      BY <3>1, <2>4, <2>1
    <3>4. (s \ {x}) \ {c} = (s \ {c}) \ {x}
      OBVIOUS
    <3>5. Sum((s \ {c}) \ {x}) \in Int
      BY <1>0
    <3>6. h[c] \in Int /\ h[x] \in Int
      BY <2>1
    <3> DEFINE a == Sum(s)  b == Sum(s \ {c})  e == Sum(s \ {x})
               i == h[c]  j == h[x]  z == Sum((s \ {c}) \ {x})
    <3>7. i \in Int /\ j \in Int /\ z \in Int
      BY <3>5, <3>6
    <3>8. a = i + b /\ b = j + z /\ e = i + z
      BY <2>2, <3>2, <3>3, <3>4, Zenon
    <3> HIDE DEF a, b, e, i, j, z
    <3>9. a = j + e
      BY <3>7, <3>8
    <3> QED  BY <3>9 DEF a, j, e
  <2> QED  BY <2>3, <2>4
<1> HIDE DEF X
<1>2. SUBSET S \subseteq X
  BY <1>1, SubsetInduction
<1> QED  BY <1>2 DEF X, Sum

(* Two sums whose summands differ by d on G, and nowhere else, differ by   *)
(* the sum of d over G.                                                    *)
LEMMA SumShift ==
  ASSUME NEW S, IsFiniteSet(S), NEW G \in SUBSET S, NEW h, NEW k, NEW d,
         \A x \in S : h[x] \in Int /\ k[x] \in Int,
         \A x \in G : d[x] \in Int /\ h[x] = k[x] + d[x],
         \A x \in S \ G : h[x] = k[x]
  PROVE  SumFunctionOnSet(h, S) = SumFunctionOnSet(k, S) + SumFunctionOnSet(d, G)
<1> DEFINE H(s) == SumFunctionOnSet(h, s)
           K(s) == SumFunctionOnSet(k, s)
           D(s) == SumFunctionOnSet(d, s)
           X == {s \in SUBSET S : H(s) = K(s) + D(s \cap G)}
<1>0. \A s \in SUBSET S : H(s) \in Int /\ K(s) \in Int /\ D(s \cap G) \in Int
  BY SumType, FS_Subset
<1>a. \A s \in SUBSET S : \A x \in s : /\ H(s) = h[x] + H(s \ {x})
                                       /\ K(s) = k[x] + K(s \ {x})
  BY SumRemove, FS_Subset
<1>b. \A s \in SUBSET S : \A x \in s \cap G :
        D(s \cap G) = d[x] + D((s \cap G) \ {x})
  BY SumRemove, FS_Subset
<1>e. H({}) = 0 /\ K({}) = 0 /\ D({}) = 0
  BY SumEmpty
<1> HIDE DEF H, K, D
<1>1. ASSUME NEW s \in SUBSET S, \A u \in SUBSET s : u # s => u \in X
      PROVE  s \in X
  <2>1. CASE s = {}
    <3>1. s \cap G = {}
      BY <2>1
    <3> QED  BY <2>1, <3>1, <1>e
  <2>2. CASE s # {}
    <3>1. PICK x : x \in s
      BY <2>2
    <3>2. H(s \ {x}) = K(s \ {x}) + D((s \ {x}) \cap G)
      BY <1>1, <3>1
    <3>3. /\ H(s) = h[x] + H(s \ {x}) /\ K(s) = k[x] + K(s \ {x})
          /\ h[x] \in Int /\ k[x] \in Int
      BY <1>a, <3>1
    <3>4. /\ K(s \ {x}) \in Int /\ D((s \ {x}) \cap G) \in Int /\ K(s) \in Int
      BY <1>0
    <3>5. CASE x \in G
      <4>1. (s \ {x}) \cap G = (s \cap G) \ {x}
        OBVIOUS
      <4>2. D(s \cap G) = d[x] + D((s \cap G) \ {x})
        BY <1>b, <3>1, <3>5
      <4>3. h[x] = k[x] + d[x] /\ d[x] \in Int
        BY <3>5
      <4> DEFINE a == K(s \ {x})  b == D((s \ {x}) \cap G)
      <4>4. H(s) = h[x] + (a + b) /\ K(s) = k[x] + a /\ D(s \cap G) = d[x] + b
        BY <3>2, <3>3, <4>1, <4>2, Zenon
      <4>5. a \in Int /\ b \in Int
        BY <3>4
      <4> HIDE DEF a, b
      <4>6. H(s) = K(s) + D(s \cap G)
        BY <3>3, <4>3, <4>4, <4>5
      <4> QED  BY <4>6
    <3>6. CASE x \notin G
      <4>1. (s \ {x}) \cap G = s \cap G
        BY <3>6
      <4>2. h[x] = k[x]
        BY <3>6, <3>1
      <4> DEFINE a == K(s \ {x})  b == D(s \cap G)
      <4>3. H(s) = h[x] + (a + b) /\ K(s) = k[x] + a
        BY <3>2, <3>3, <4>1, Zenon
      <4>4. a \in Int /\ b \in Int
        BY <3>4, <4>1
      <4> HIDE DEF a, b
      <4>5. H(s) = K(s) + b
        BY <3>3, <4>2, <4>3, <4>4
      <4> QED  BY <4>5 DEF b
    <3> QED  BY <3>5, <3>6
  <2> QED  BY <2>1, <2>2
<1> HIDE DEF X
<1>2. SUBSET S \subseteq X
  BY <1>1, SubsetInduction
<1>3. S \cap G = G
  OBVIOUS
<1> QED  BY <1>2, <1>3 DEF X, H, K, D

(* The sum over one element.                                               *)
LEMMA SumSingle ==
  ASSUME NEW h, NEW x, h[x] \in Int
  PROVE  SumFunctionOnSet(h, {x}) = h[x]
<1>1. SumFunctionOnSet(h, {x}) = h[x] + SumFunctionOnSet(h, {x} \ {x})
  BY SumRemove, FS_Singleton
<1>2. {x} \ {x} = {}
  OBVIOUS
<1> QED  BY <1>1, <1>2, SumEmpty

(* Equal summands, equal sums.                                             *)
LEMMA SumSame ==
  ASSUME NEW S, IsFiniteSet(S), NEW h, NEW k,
         \A x \in S : h[x] \in Int /\ h[x] = k[x]
  PROVE  SumFunctionOnSet(h, S) = SumFunctionOnSet(k, S)
<1> DEFINE d == [x \in {} |-> 0]
<1>1. SumFunctionOnSet(h, S) = SumFunctionOnSet(k, S) + SumFunctionOnSet(d, {})
  BY SumShift
<1>2. SumFunctionOnSet(d, {}) = 0 /\ SumFunctionOnSet(k, S) \in Int
  BY SumEmpty, SumType
<1> QED  BY <1>1, <1>2

(* One summand changes by c, the sum changes by c.                         *)
LEMMA SumPoint ==
  ASSUME NEW S, IsFiniteSet(S), NEW h, NEW k, NEW y \in S, NEW c \in Int,
         \A x \in S : h[x] \in Int /\ k[x] \in Int,
         h[y] = k[y] + c,
         \A x \in S \ {y} : h[x] = k[x]
  PROVE  SumFunctionOnSet(h, S) = SumFunctionOnSet(k, S) + c
<1> DEFINE d == [x \in {y} |-> c]
<1>1. SumFunctionOnSet(h, S) = SumFunctionOnSet(k, S) + SumFunctionOnSet(d, {y})
  BY SumShift
<1>2. SumFunctionOnSet(d, {y}) = c
  BY SumSingle
<1> QED  BY <1>1, <1>2

(***************************************************************************)
(* The inductive invariant                                                 *)
(***************************************************************************)
Request ==
  [st : {"new", "submitting", "open", "ready", "gone"},
   sent : Nat, queued : Nat, running : Nat, admitted : Nat, delivered : Nat,
   err : BOOLEAN, cancelled : BOOLEAN, lost : BOOLEAN]

Shape ==
  /\ req \in [Requests -> Request]
  /\ iops \in Int /\ bytes \in Int
  /\ inflight \in [Priorities -> Int]
  /\ permit \in BOOLEAN /\ closed \in BOOLEAN /\ failFast \in BOOLEAN
  /\ loop \in {"awake", "asleep", "stopped"}

(* Every chunk that was sent is in one place, and a request that is        *)
(* answered has no chunk left in the queue or being read.                  *)
ReqOk(r, q) ==
  /\ q.sent = q.queued + q.running + q.delivered
  /\ q.sent <= Chunks[r]
  /\ q.st = "new" => q.sent = 0
  /\ q.st = "submitting" => q.sent < Chunks[r]
  /\ q.st \in {"ready", "gone"} => q.delivered = Chunks[r]

Holds(q) == IF q.st = "gone" THEN 0 ELSE q.running + q.admitted

With(p) == {q \in Requests : Priority[q] = p}

(* The three budgets, as functions of the requests f.                      *)
Reads(f) == [r \in Requests |-> f[r].running]
Bytes(f) == [r \in Requests |-> Charge(r) * Holds(f[r])]
Places(f, p) == [r \in With(p) |-> Holds(f[r])]

IopsOk     == iops = Capacity - SumFunctionOnSet(Reads(req), Requests)
BytesOk    == bytes = BufferSize - SumFunctionOnSet(Bytes(req), Requests)
InflightOk == \A p \in Priorities : inflight[p] = SumFunctionOnSet(Places(req, p), With(p))

Inv ==
  /\ Shape
  /\ \A r \in Requests : ReqOk(r, req[r])
  /\ IopsOk /\ BytesOk /\ InflightOk
  /\ SleepsOnlyWhenBlocked

(***************************************************************************)
(* Constants and sets                                                      *)
(***************************************************************************)

(* The constants of a request have their types.                            *)
LEMMA Typed ==
  ASSUME NEW r \in Requests
  PROVE  /\ Chunks[r] \in Nat /\ Chunks[r] > 0
         /\ Size[r] \in Nat /\ Charge(r) \in Nat
         /\ Priority[r] \in Priorities
BY IoSchedulerAssumption DEF Charge, Priorities, Range

(* Sums over all requests, and over those of a priority, are finite.       *)
LEMMA Finite ==
  /\ IsFiniteSet(Requests)
  /\ \A p : IsFiniteSet(With(p)) /\ With(p) \subseteq Requests
<1>1. \A p : With(p) \in SUBSET Requests
  BY DEF With
<1> QED  BY <1>1, FS_Subset, IoSchedulerAssumption

(* A product of naturals is an integer.                                    *)
LEMMA Product ==
  ASSUME NEW a \in Nat, NEW b \in Nat
  PROVE  a * b \in Int /\ a * 0 = 0
OBVIOUS

(* The summands of the budgets are integers.                               *)
LEMMA Summands ==
  ASSUME NEW f \in [Requests -> Request]
  PROVE  /\ \A r \in Requests : Holds(f[r]) \in Nat
         /\ \A r \in Requests : Reads(f)[r] \in Int /\ Reads(f)[r] = f[r].running
         /\ \A r \in Requests : Bytes(f)[r] \in Int /\ Bytes(f)[r] = Charge(r) * Holds(f[r])
         /\ \A p : \A r \in With(p) : /\ r \in Requests /\ Priority[r] = p
                                      /\ Places(f, p)[r] \in Int
                                      /\ Places(f, p)[r] = Holds(f[r])
<1>1. \A r \in Requests : f[r].running \in Nat /\ f[r].admitted \in Nat
  BY DEF Request
<1>2. \A r \in Requests : Holds(f[r]) \in Nat
  BY <1>1 DEF Holds
<1>3. ASSUME NEW r \in Requests PROVE Bytes(f)[r] \in Int /\ Bytes(f)[r] = Charge(r) * Holds(f[r])
  BY <1>2, Typed, Product DEF Bytes
<1>4. \A p : \A r \in With(p) : /\ r \in Requests /\ Priority[r] = p
                                /\ Places(f, p)[r] \in Int
                                /\ Places(f, p)[r] = Holds(f[r])
  BY <1>2 DEF Places, With
<1> QED  BY <1>1, <1>2, <1>3, <1>4 DEF Reads

(***************************************************************************)
(* Answers and refunds                                                     *)
(***************************************************************************)

(* Answering moves a request on, and none of its chunks.                   *)
LEMMA AnsweredOk ==
  ASSUME NEW r \in Requests, NEW q \in Request, ReqOk(r, q)
  PROVE  LET a == Answered(r, q)
         IN /\ a \in Request /\ ReqOk(r, a)
            /\ a.running = q.running /\ a.admitted = q.admitted
            /\ a.queued = q.queued
            /\ q.st = "gone" => a.st = "gone"
<1>1. CASE q.st = "open" /\ q.delivered = Chunks[r]
  BY <1>1 DEF Answered, Request, ReqOk
<1>2. CASE ~(q.st = "open" /\ q.delivered = Chunks[r])
  BY <1>2 DEF Answered
<1> QED  BY <1>1, <1>2

(* So does cancelling what is still in the queue.                          *)
LEMMA DroppedOk ==
  ASSUME NEW r \in Requests, NEW q \in Request, ReqOk(r, q)
  PROVE  LET a == Dropped(r, q)
         IN /\ a \in Request /\ ReqOk(r, a)
            /\ a.running = q.running /\ a.admitted = q.admitted
            /\ q.st = "gone" => a.st = "gone"
<1> DEFINE b == [q EXCEPT !.delivered = @ + q.queued, !.queued = 0, !.err = @ \/ q.queued > 0]
<1>1. b \in Request
  <2>1. q.delivered + q.queued \in Nat /\ (q.err \/ q.queued > 0) \in BOOLEAN
    BY DEF Request
  <2> DEFINE n == q.delivered + q.queued  w == (q.err \/ q.queued > 0)
  <2>2. b = [q EXCEPT !.delivered = n, !.queued = 0, !.err = w]
    BY DEF Request
  <2>3. n \in Nat /\ w \in BOOLEAN
    BY <2>1
  <2> HIDE DEF n, w, b
  <2> QED  BY <2>2, <2>3 DEF Request
<1>2. /\ b.running = q.running /\ b.admitted = q.admitted /\ b.st = q.st
      /\ b.queued = 0 /\ b.delivered = q.delivered + q.queued /\ b.sent = q.sent
  BY DEF Request
<1>3. ReqOk(r, b)
  <2>1. /\ q.queued \in Nat /\ q.running \in Nat /\ q.delivered \in Nat /\ q.sent \in Nat
        /\ Chunks[r] \in Nat
    BY Typed DEF Request
  <2> QED  BY <1>2, <2>1 DEF ReqOk
<1>4. Dropped(r, q) = Answered(r, b)
  BY DEF Dropped
<1> HIDE DEF b
<1> QED  BY <1>1, <1>2, <1>3, <1>4, AnsweredOk

(* A step changes nothing of what a request holds but to give it back.     *)
Keeps(new) ==
  /\ new \in [Requests -> Request]
  /\ \A r \in Requests :
       /\ ReqOk(r, new[r])
       /\ req[r].st = "gone" => new[r].st = "gone"
       /\ req[r].st # "gone" => new[r].running + new[r].admitted
                                  = req[r].running + req[r].admitted

(* What the refunds of a step are worth: exactly what the requests that    *)
(* end in it were holding.                                                 *)
LEMMA SettleOk ==
  ASSUME Inv, NEW new, Keeps(new), Settle(new)
  PROVE  /\ req' = new
         /\ bytes' \in Int /\ BytesOk'
         /\ inflight' \in [Priorities -> Int] /\ InflightOk'
<1> DEFINE gone == {r \in Requests : new[r].st = "gone" /\ req[r].st # "gone"}
           d    == [r \in gone |-> Charge(r) * new[r].admitted]
           e    == [r \in gone |-> new[r].admitted]
<1>1. /\ req' = new
      /\ bytes' = bytes + SumFunctionOnSet(d, gone)
      /\ inflight' = [p \in Priorities |->
           inflight[p] - SumFunctionOnSet(e, {r \in gone : Priority[r] = p})]
  BY DEF Settle
<1>2. new \in [Requests -> Request] /\ req \in [Requests -> Request]
  BY DEF Keeps, Inv, Shape
<1>3. ASSUME NEW r \in Requests
      PROVE  /\ r \in gone => Holds(new[r]) = 0 /\ Holds(req[r]) = new[r].admitted
             /\ r \notin gone => Holds(req[r]) = Holds(new[r])
             /\ new[r].admitted \in Nat
  <2>1. /\ new[r].running \in Nat /\ new[r].admitted \in Nat /\ new[r].queued \in Nat
        /\ new[r].delivered \in Nat /\ new[r].sent \in Nat
        /\ req[r].running \in Nat /\ req[r].admitted \in Nat
    BY <1>2 DEF Request
  <2>2. Chunks[r] \in Nat
    BY Typed
  <2>3. new[r].st = "gone" => new[r].running = 0
    <3>1. ReqOk(r, new[r])
      BY DEF Keeps
    <3> QED  BY <3>1, <2>1, <2>2 DEF ReqOk
  <2>4. /\ req[r].st = "gone" => new[r].st = "gone"
        /\ req[r].st # "gone" => new[r].running + new[r].admitted
                                   = req[r].running + req[r].admitted
    BY DEF Keeps
  <2> QED  BY <2>1, <2>3, <2>4 DEF Holds
<1>4. /\ gone \in SUBSET Requests
      /\ \A p : {r \in gone : Priority[r] = p} \in SUBSET With(p)
  BY DEF With
<1>5. \A r \in gone : d[r] = Charge(r) * new[r].admitted /\ e[r] = new[r].admitted
  OBVIOUS
<1> HIDE DEF gone, d, e
<1>6. bytes' \in Int /\ BytesOk'
  <2>1. ASSUME NEW r \in gone PROVE d[r] \in Int /\ Bytes(req)[r] = Bytes(new)[r] + d[r]
    <3>1. r \in Requests
      BY <1>4
    <3>2. Charge(r) \in Nat /\ new[r].admitted \in Nat
      BY <3>1, <1>3, Typed
    <3>3. d[r] \in Int /\ Charge(r) * 0 = 0
      BY <1>5, <3>2, Product
    <3>4. Bytes(new)[r] = 0 /\ Bytes(req)[r] = d[r]
      BY <3>1, <3>3, <1>2, <1>3, <1>5, Summands
    <3> QED  BY <3>3, <3>4
  <2>2. \A r \in Requests \ gone : Bytes(req)[r] = Bytes(new)[r]
    BY <1>2, <1>3, Summands
  <2>3. \A r \in Requests : Bytes(req)[r] \in Int /\ Bytes(new)[r] \in Int
    BY <1>2, Summands
  <2>4. SumFunctionOnSet(Bytes(req), Requests)
          = SumFunctionOnSet(Bytes(new), Requests) + SumFunctionOnSet(d, gone)
    BY <1>4, <2>1, <2>2, <2>3, Finite, SumShift
  <2>5. /\ SumFunctionOnSet(Bytes(new), Requests) \in Int
        /\ SumFunctionOnSet(d, gone) \in Int
    BY <1>4, <2>1, <2>3, Finite, SumType, FS_Subset
  <2>6. bytes = BufferSize - SumFunctionOnSet(Bytes(req), Requests) /\ BufferSize \in Int
    BY IoSchedulerAssumption DEF Inv, BytesOk
  <2>7. bytes' = BufferSize - SumFunctionOnSet(Bytes(new), Requests)
    BY <1>1, <2>4, <2>5, <2>6
  <2> QED  BY <2>5, <2>6, <2>7, <1>1 DEF BytesOk, Bytes
<1>7. ASSUME NEW p \in Priorities
      PROVE  inflight'[p] \in Int /\ inflight'[p] = SumFunctionOnSet(Places(new, p), With(p))
  <2> DEFINE G == {r \in gone : Priority[r] = p}
  <2>1. \A r \in G : e[r] \in Int /\ Places(req, p)[r] = Places(new, p)[r] + e[r]
    <3> SUFFICES ASSUME NEW r \in G
                 PROVE  e[r] \in Int /\ Places(req, p)[r] = Places(new, p)[r] + e[r]
      OBVIOUS
    <3>1. r \in With(p) /\ r \in Requests /\ r \in gone
      BY <1>4
    <3>2. e[r] \in Nat
      BY <3>1, <1>3, <1>5
    <3>3. Places(new, p)[r] = 0 /\ Places(req, p)[r] = e[r]
      BY <3>1, <1>2, <1>3, <1>5, Summands
    <3> QED  BY <3>2, <3>3
  <2>2. \A r \in With(p) \ G : Places(req, p)[r] = Places(new, p)[r]
    BY <1>2, <1>3, Summands
  <2>3. \A r \in With(p) : Places(req, p)[r] \in Int /\ Places(new, p)[r] \in Int
    BY <1>2, Summands
  <2>a. G \in SUBSET With(p)
    BY <1>4
  <2>b. inflight'[p] = inflight[p] - SumFunctionOnSet(e, G)
    BY <1>1
  <2> HIDE DEF G
  <2>4. SumFunctionOnSet(Places(req, p), With(p))
          = SumFunctionOnSet(Places(new, p), With(p)) + SumFunctionOnSet(e, G)
    BY <2>a, <2>1, <2>2, <2>3, Finite, SumShift
  <2>5. /\ SumFunctionOnSet(Places(new, p), With(p)) \in Int
        /\ SumFunctionOnSet(e, G) \in Int
    BY <2>a, <2>1, <2>3, Finite, SumType, FS_Subset
  <2>6. inflight[p] = SumFunctionOnSet(Places(req, p), With(p))
    BY DEF Inv, InflightOk
  <2> QED  BY <2>b, <2>4, <2>5, <2>6
<1>8. inflight' \in [Priorities -> Int]
  BY <1>1, <1>7
<1>9. InflightOk'
  BY <1>1, <1>7 DEF InflightOk, Places
<1> QED  BY <1>1, <1>6, <1>8, <1>9

(* The IOPS are the same while nobody starts or ends a read.               *)
LEMMA IopsKept ==
  ASSUME Inv, req' \in [Requests -> Request], UNCHANGED iops,
         \A r \in Requests : req'[r].running = req[r].running
  PROVE  IopsOk'
<1>1. PICK new \in [Requests -> Request] : new = req'
  OBVIOUS
<1>2. req \in [Requests -> Request]
  BY DEF Inv, Shape
<1>3. \A r \in Requests : Reads(req)[r] \in Int /\ Reads(req)[r] = Reads(new)[r]
  BY <1>1, <1>2, Summands
<1>4. SumFunctionOnSet(Reads(req), Requests) = SumFunctionOnSet(Reads(new), Requests)
  BY <1>3, Finite, SumSame
<1> QED  BY <1>1, <1>4 DEF Inv, IopsOk, Reads

(* A loop that is blocked stays so while the queue and the budget stay.    *)
LEMMA StillBlocked ==
  ASSUME SleepsOnlyWhenBlocked, UNCHANGED <<iops, bytes, inflight, permit, loop>>,
         \A r \in Requests : req'[r].queued = req[r].queued
  PROVE  SleepsOnlyWhenBlocked'
<1>1. Head' = Head
  <2>1. Queued' = Queued
    BY DEF Queued
  <2> QED  BY <2>1 DEF Head
<1>2. \A r : CanDeliver(r)' <=> CanDeliver(r)
  BY DEF CanDeliver, MinInFlight
<1> QED  BY <1>1, <1>2 DEF SleepsOnlyWhenBlocked

(***************************************************************************)
(* The steps                                                               *)
(***************************************************************************)

(* Initially nothing is held.                                              *)
LEMMA InitOk == Init => Inv
<1> SUFFICES ASSUME Init PROVE Inv
  OBVIOUS
<1>1. Shape
  <2>1. req \in [Requests -> Request]
    BY DEF Init, Request
  <2>2. Capacity \in Int /\ BufferSize \in Int
    BY IoSchedulerAssumption
  <2>3. permit \in BOOLEAN /\ closed \in BOOLEAN /\ failFast \in BOOLEAN
    BY DEF Init
  <2>4. inflight \in [Priorities -> Int] /\ loop \in {"awake", "asleep", "stopped"}
    BY DEF Init
  <2>5. iops \in Int /\ bytes \in Int
    BY <2>2 DEF Init
  <2> QED  BY <2>1, <2>3, <2>4, <2>5 DEF Shape
<1>2. \A r \in Requests : ReqOk(r, req[r])
  BY Typed DEF Init, ReqOk
<1>3. req \in [Requests -> Request]
  BY <1>1 DEF Shape
<1>4. \A r \in Requests : Holds(req[r]) = 0 /\ req[r].running = 0
  BY DEF Init, Holds
<1>5. ASSUME NEW S \in SUBSET Requests, NEW h, \A r \in S : h[r] = 0
      PROVE  SumFunctionOnSet(h, S) = 0
  <2>1. IsFiniteSet(S) /\ IsFiniteSet({})
    BY Finite, FS_Subset, FS_EmptySet
  <2> DEFINE X == {s \in SUBSET S : SumFunctionOnSet(h, s) = 0}
  <2>2. ASSUME NEW s \in SUBSET S, \A u \in SUBSET s : u # s => u \in X
        PROVE  s \in X
    <3>1. CASE s = {}
      BY <3>1, SumEmpty
    <3>2. CASE s # {}
      <4>1. PICK x : x \in s
        BY <3>2
      <4>2. SumFunctionOnSet(h, s) = h[x] + SumFunctionOnSet(h, s \ {x})
        BY <4>1, <2>1, <1>5, SumRemove, FS_Subset
      <4>3. SumFunctionOnSet(h, s \ {x}) = 0
        BY <2>2, <4>1
      <4> QED  BY <4>1, <4>2, <4>3, <1>5
    <3> QED  BY <3>1, <3>2
  <2> HIDE DEF X
  <2>3. SUBSET S \subseteq X
    BY <2>1, <2>2, SubsetInduction
  <2> QED  BY <2>3 DEF X
<1>6. IopsOk
  <2>1. SumFunctionOnSet(Reads(req), Requests) = 0
    BY <1>3, <1>4, <1>5, Summands
  <2> QED  BY <2>1, IoSchedulerAssumption DEF IopsOk, Init
<1>7. BytesOk
  <2>1. \A r \in Requests : Bytes(req)[r] = 0
    BY <1>3, <1>4, Summands, Typed, Product
  <2>2. SumFunctionOnSet(Bytes(req), Requests) = 0
    BY <2>1, <1>5
  <2> QED  BY <2>2, IoSchedulerAssumption DEF BytesOk, Init
<1>8. InflightOk
  <2> SUFFICES ASSUME NEW p \in Priorities
               PROVE  inflight[p] = SumFunctionOnSet(Places(req, p), With(p))
    BY DEF InflightOk
  <2>1. \A r \in With(p) : Places(req, p)[r] = 0
    BY <1>3, <1>4, Summands
  <2>2. SumFunctionOnSet(Places(req, p), With(p)) = 0
    BY <2>1, <1>5, Finite
  <2> QED  BY <2>2 DEF Init
<1>9. SleepsOnlyWhenBlocked
  BY DEF Init, SleepsOnlyWhenBlocked
<1> QED  BY <1>1, <1>2, <1>6, <1>7, <1>8, <1>9 DEF Inv

(* A step that settles preserves the invariant if it keeps the requests,   *)
(* the IOPS and either notifies the loop or leaves it blocked.             *)
LEMMA SettleStep ==
  ASSUME Inv, NEW new, Keeps(new), Settle(new), IopsOk', SleepsOnlyWhenBlocked',
         iops' \in Int, permit' \in BOOLEAN, closed' \in BOOLEAN,
         UNCHANGED <<loop, failFast>>
  PROVE  Inv'
<1>1. /\ req' = new /\ bytes' \in Int /\ BytesOk'
      /\ inflight' \in [Priorities -> Int] /\ InflightOk'
  BY SettleOk
<1>2. Shape'
  <2>1. Priorities' = Priorities
    BY DEF Priorities
  <2> QED  BY <1>1, <2>1 DEF Shape, Inv, Keeps
<1>3. \A r \in Requests : ReqOk(r, req'[r])
  BY <1>1 DEF Keeps
<1> QED  BY <1>1, <1>2, <1>3 DEF Inv, ReqOk

(* A chunk enters the queue: nothing is held for it yet, and the loop is   *)
(* notified.                                                               *)
LEMMA PushStep ==
  ASSUME Inv, NEW r \in Requests, Push(r)
  PROVE  Inv'
<1> DEFINE q == [req[r] EXCEPT !.sent = @ + 1, !.queued = @ + 1,
                               !.st = IF req[r].sent + 1 = Chunks[r] THEN "open" ELSE @]
           new == [req EXCEPT ![r] = Answered(r, q)]
<1>1. /\ req \in [Requests -> Request] /\ req[r] \in Request
      /\ \A s \in Requests : ReqOk(s, req[s])
  BY DEF Inv, Shape
<1>2. req[r].st = "submitting" /\ Settle(new) /\ permit' = TRUE
      /\ UNCHANGED <<iops, loop, closed, failFast>>
  BY DEF Push
<1>3. /\ q \in Request
      /\ q.sent = req[r].sent + 1 /\ q.queued = req[r].queued + 1
      /\ q.running = req[r].running /\ q.admitted = req[r].admitted
      /\ q.delivered = req[r].delivered
      /\ q.st = IF req[r].sent + 1 = Chunks[r] THEN "open" ELSE "submitting"
  <2> DEFINE i == req[r].sent + 1  j == req[r].queued + 1
             k == IF i = Chunks[r] THEN "open" ELSE "submitting"
  <2>1. i \in Nat /\ j \in Nat /\ k \in {"open", "submitting"}
    BY <1>1 DEF Request
  <2>2. q = [req[r] EXCEPT !.sent = i, !.queued = j, !.st = k]
    BY <1>1, <1>2 DEF Request
  <2>3. k = IF req[r].sent + 1 = Chunks[r] THEN "open" ELSE "submitting"
    OBVIOUS
  <2> HIDE DEF k, q
  <2> QED  BY <1>1, <2>1, <2>2, <2>3 DEF Request
<1>4. ReqOk(r, q)
  <2>1. /\ req[r].queued \in Nat /\ req[r].running \in Nat /\ req[r].delivered \in Nat
        /\ req[r].sent \in Nat /\ Chunks[r] \in Nat
    BY <1>1, Typed DEF Request
  <2>2. ReqOk(r, req[r])
    BY <1>1
  <2> HIDE DEF q
  <2> QED  BY <1>2, <1>3, <2>1, <2>2 DEF ReqOk
<1> HIDE DEF q
<1>5. Keeps(new)
  <2>1. /\ Answered(r, q) \in Request /\ ReqOk(r, Answered(r, q))
        /\ Answered(r, q).running = q.running /\ Answered(r, q).admitted = q.admitted
    BY <1>3, <1>4, AnsweredOk
  <2> QED  BY <1>1, <1>2, <1>3, <2>1 DEF Keeps
<1>6. IopsOk'
  <2>1. req' = new
    BY <1>2 DEF Settle
  <2>2. Answered(r, q).running = q.running
    BY <1>3, <1>4, AnsweredOk
  <2>3. new \in [Requests -> Request]
    BY <1>5 DEF Keeps
  <2> QED  BY <1>1, <1>2, <1>3, <2>1, <2>2, <2>3, IopsKept
<1>7. SleepsOnlyWhenBlocked'
  BY <1>2 DEF SleepsOnlyWhenBlocked
<1> HIDE DEF new
<1> QED  BY <1>2, <1>5, <1>6, <1>7, SettleStep DEF Inv, Shape

(* A response is taken or given up on: Consume, and Abandon of a response  *)
(* that is ready.                                                          *)
LEMMA ReleaseKeeps ==
  ASSUME Inv, NEW r \in Requests, NEW lost \in BOOLEAN, req[r].st = "ready"
  PROVE  LET new == [req EXCEPT ![r] = [req[r] EXCEPT !.st = "gone", !.lost = lost]]
         IN Keeps(new) /\ \A s \in Requests : new[s].running = req[s].running
<1>1. /\ req \in [Requests -> Request] /\ req[r] \in Request
      /\ \A s \in Requests : ReqOk(s, req[s])
  BY DEF Inv, Shape
<1> DEFINE q == [req[r] EXCEPT !.st = "gone", !.lost = lost]
<1>2. /\ q \in Request /\ q.st = "gone"
      /\ q.sent = req[r].sent /\ q.queued = req[r].queued
      /\ q.running = req[r].running /\ q.admitted = req[r].admitted
      /\ q.delivered = req[r].delivered
  BY <1>1 DEF Request
<1>3. ReqOk(r, q)
  <2>1. ReqOk(r, req[r])
    BY <1>1
  <2> HIDE DEF q
  <2> QED  BY <1>2, <2>1 DEF ReqOk
<1> HIDE DEF q
<1> QED  BY <1>1, <1>2, <1>3 DEF Keeps, q

(* The caller takes its data, which refunds what the request held.         *)
LEMMA ConsumeStep ==
  ASSUME Inv, NEW r \in Requests, Consume(r)
  PROVE  Inv'
<1> DEFINE new == [req EXCEPT ![r] = [req[r] EXCEPT !.st = "gone", !.lost = req[r].lost]]
<1>1. req \in [Requests -> Request]
  BY DEF Inv, Shape
<1>2. new = [req EXCEPT ![r].st = "gone"]
  BY <1>1 DEF Request
<1>3. req[r].st = "ready" /\ Settle(new) /\ permit' = TRUE
      /\ UNCHANGED <<iops, loop, closed, failFast>>
  BY <1>2 DEF Consume
<1>4. Keeps(new) /\ \A s \in Requests : new[s].running = req[s].running
  <2>1. req[r].lost \in BOOLEAN
    BY <1>1 DEF Request
  <2> QED  BY <1>3, <2>1, ReleaseKeeps
<1> HIDE DEF new
<1>5. IopsOk'
  <2>1. req' = new
    BY <1>3 DEF Settle
  <2> QED  BY <1>3, <1>4, <2>1, IopsKept DEF Keeps
<1>6. SleepsOnlyWhenBlocked'
  BY <1>3 DEF SleepsOnlyWhenBlocked
<1> QED  BY <1>3, <1>4, <1>5, <1>6, SettleStep DEF Inv, Shape

(* The caller drops the future: a response that is ready is refunded, one  *)
(* that is not stays charged until it is.                                  *)
LEMMA AbandonStep ==
  ASSUME Inv, NEW r \in Requests, Abandon(r)
  PROVE  Inv'
<1>1. /\ req \in [Requests -> Request] /\ req[r] \in Request
      /\ \A s \in Requests : ReqOk(s, req[s])
  BY DEF Inv, Shape
<1>2. CASE req[r].st = "ready"
  <2> DEFINE new == [req EXCEPT ![r] = [req[r] EXCEPT !.st = "gone", !.lost = TRUE]]
  <2>1. new = [req EXCEPT ![r].lost = TRUE, ![r].st = IF @ = "ready" THEN "gone" ELSE @]
    BY <1>1, <1>2 DEF Request
  <2>2. Settle(new) /\ permit' = TRUE /\ UNCHANGED <<iops, loop, closed, failFast>>
    BY <2>1, <1>2 DEF Abandon
  <2>3. Keeps(new) /\ \A s \in Requests : new[s].running = req[s].running
    BY <1>2, ReleaseKeeps
  <2> HIDE DEF new
  <2>4. IopsOk'
    <3>1. req' = new
      BY <2>2 DEF Settle
    <3> QED  BY <2>2, <2>3, <3>1, IopsKept DEF Keeps
  <2>5. SleepsOnlyWhenBlocked'
    BY <2>2 DEF SleepsOnlyWhenBlocked
  <2> QED  BY <2>2, <2>3, <2>4, <2>5, SettleStep DEF Inv, Shape
<1>3. CASE req[r].st = "open"
  <2> DEFINE q == [req[r] EXCEPT !.lost = TRUE]
             new == [req EXCEPT ![r] = q]
  <2>1. new = [req EXCEPT ![r].lost = TRUE, ![r].st = IF @ = "ready" THEN "gone" ELSE @]
    BY <1>1, <1>3 DEF Request
  <2>2. Settle(new) /\ permit' = permit /\ UNCHANGED <<iops, loop, closed, failFast>>
    BY <2>1, <1>3 DEF Abandon, Inv, Shape
  <2>3. /\ q \in Request /\ q.st = "open"
        /\ q.sent = req[r].sent /\ q.queued = req[r].queued
        /\ q.running = req[r].running /\ q.admitted = req[r].admitted
        /\ q.delivered = req[r].delivered
    BY <1>1, <1>3 DEF Request
  <2>4. ReqOk(r, q)
    <3>1. ReqOk(r, req[r])
      BY <1>1
    <3> HIDE DEF q
    <3> QED  BY <1>3, <2>3, <3>1 DEF ReqOk
  <2> HIDE DEF q
  <2>5. /\ Keeps(new)
        /\ \A s \in Requests : /\ new[s].running = req[s].running
                               /\ new[s].queued = req[s].queued
                               /\ new[s].st = req[s].st
    BY <1>1, <1>3, <2>3, <2>4 DEF Keeps
  <2> HIDE DEF new
  <2>6. UNCHANGED <<bytes, inflight>>
    <3> DEFINE gone == {s \in Requests : new[s].st = "gone" /\ req[s].st # "gone"}
    <3>1. gone = {} /\ \A p : {s \in gone : Priority[s] = p} = {}
      BY <2>5
    <3>2. /\ bytes' = bytes + SumFunctionOnSet([s \in gone |-> Charge(s) * new[s].admitted], gone)
          /\ inflight' = [p \in Priorities |->
               inflight[p] - SumFunctionOnSet([s \in gone |-> new[s].admitted],
                                              {s \in gone : Priority[s] = p})]
      BY <2>2 DEF Settle
    <3> HIDE DEF gone
    <3>3. /\ SumFunctionOnSet([s \in gone |-> Charge(s) * new[s].admitted], gone) = 0
          /\ \A p : SumFunctionOnSet([s \in gone |-> new[s].admitted],
                                     {s \in gone : Priority[s] = p}) = 0
      BY <3>1, SumEmpty
    <3>4. bytes \in Int /\ inflight \in [Priorities -> Int]
      BY DEF Inv, Shape
    <3>5. bytes' = bytes
      BY <3>2, <3>3, <3>4
    <3>6. inflight' = [p \in Priorities |-> inflight[p] - 0]
      BY <3>2, <3>3
    <3>7. inflight' = inflight
      BY <3>4, <3>6
    <3> QED  BY <3>5, <3>7
  <2>7. req' = new
    BY <2>2 DEF Settle
  <2>8. IopsOk'
    BY <2>2, <2>5, <2>7, IopsKept DEF Keeps
  <2>9. SleepsOnlyWhenBlocked'
    BY <2>2, <2>5, <2>6, <2>7, StillBlocked DEF Inv
  <2> QED  BY <2>2, <2>5, <2>8, <2>9, SettleStep DEF Inv, Shape
<1> QED  BY <1>2, <1>3 DEF Abandon

(* Everything in the queue is cancelled; requests that end so refund only  *)
(* the chunks that were admitted.                                          *)
LEMMA CloseStep ==
  ASSUME Inv, Close
  PROVE  Inv'
<1> DEFINE new == [r \in Requests |-> Dropped(r, req[r])]
<1>1. /\ req \in [Requests -> Request]
      /\ \A s \in Requests : ReqOk(s, req[s])
  BY DEF Inv, Shape
<1>2. /\ Settle(new) /\ permit' = TRUE /\ closed' = TRUE
      /\ UNCHANGED <<iops, loop, failFast>>
  BY DEF Close
<1>3. ASSUME NEW s \in Requests
      PROVE  /\ new[s] \in Request /\ ReqOk(s, new[s])
             /\ new[s].running = req[s].running /\ new[s].admitted = req[s].admitted
             /\ req[s].st = "gone" => new[s].st = "gone"
  <2>1. new[s] = Dropped(s, req[s]) /\ req[s] \in Request
    BY <1>1
  <2> HIDE DEF new
  <2> QED  BY <1>1, <2>1, DroppedOk
<1>4. Keeps(new)
  <2>1. new \in [Requests -> Request]
    BY <1>3
  <2> HIDE DEF new
  <2> QED  BY <1>3, <2>1 DEF Keeps
<1> HIDE DEF new
<1>5. IopsOk'
  <2>1. req' = new
    BY <1>2 DEF Settle
  <2> QED  BY <1>2, <1>3, <1>4, <2>1, IopsKept DEF Keeps
<1>6. SleepsOnlyWhenBlocked'
  BY <1>2 DEF SleepsOnlyWhenBlocked
<1> QED  BY <1>2, <1>4, <1>5, <1>6, SettleStep DEF Inv, Shape

(* A read ends: its IOP is free, its bytes stay with the response, or come *)
(* back with it if this was the last chunk of a lost one.                  *)
LEMMA CompleteStep ==
  ASSUME Inv, NEW r \in Requests, NEW ok \in BOOLEAN, Complete(r, ok)
  PROVE  Inv'
<1> DEFINE q == [req[r] EXCEPT !.running = @ - 1, !.delivered = @ + 1,
                               !.admitted = @ + 1, !.err = @ \/ ~ok]
           cancel == failFast /\ ~ok /\ ~req[r].cancelled
           b == [q EXCEPT !.cancelled = TRUE]
           a == IF cancel THEN Dropped(r, b) ELSE Answered(r, q)
           new == [req EXCEPT ![r] = a]
<1>1. /\ req \in [Requests -> Request] /\ req[r] \in Request
      /\ \A s \in Requests : ReqOk(s, req[s])
  BY DEF Inv, Shape
<1>2. /\ req[r].running > 0 /\ Settle(new) /\ permit' = TRUE /\ iops' = iops + 1
      /\ UNCHANGED <<loop, closed, failFast>>
  BY DEF Complete
<1>t. /\ req[r].queued \in Nat /\ req[r].running \in Nat /\ req[r].delivered \in Nat
      /\ req[r].sent \in Nat /\ req[r].admitted \in Nat /\ Chunks[r] \in Nat
  BY <1>1, Typed DEF Request
<1>3. /\ q \in Request /\ b \in Request
      /\ q.sent = req[r].sent /\ q.queued = req[r].queued /\ q.st = req[r].st
      /\ q.running = req[r].running - 1 /\ q.admitted = req[r].admitted + 1
      /\ q.delivered = req[r].delivered + 1
      /\ b.sent = q.sent /\ b.queued = q.queued /\ b.st = q.st
      /\ b.running = q.running /\ b.admitted = q.admitted /\ b.delivered = q.delivered
  <2> DEFINE i == req[r].running - 1  j == req[r].delivered + 1
             k == req[r].admitted + 1  w == req[r].err \/ ~ok
  <2>1. i \in Nat /\ j \in Nat /\ k \in Nat /\ w \in BOOLEAN
    BY <1>2, <1>t
  <2>2. q = [req[r] EXCEPT !.running = i, !.delivered = j, !.admitted = k, !.err = w]
    BY <1>1 DEF Request
  <2>3. i = req[r].running - 1 /\ j = req[r].delivered + 1 /\ k = req[r].admitted + 1
    OBVIOUS
  <2> HIDE DEF i, j, k, w, q
  <2>4. /\ q \in Request
        /\ q.sent = req[r].sent /\ q.queued = req[r].queued /\ q.st = req[r].st
        /\ q.running = i /\ q.admitted = k /\ q.delivered = j
    BY <1>1, <2>1, <2>2 DEF Request
  <2>5. /\ b \in Request
        /\ b.sent = q.sent /\ b.queued = q.queued /\ b.st = q.st
        /\ b.running = q.running /\ b.admitted = q.admitted /\ b.delivered = q.delivered
    BY <2>4 DEF Request
  <2> QED  BY <2>3, <2>4, <2>5
<1> HIDE DEF b, q
<1>4. ReqOk(r, req[r])
  BY <1>1
<1>5. ReqOk(r, q) /\ ReqOk(r, b) /\ req[r].st # "gone"
  <2>1. req[r].st \notin {"ready", "gone"}
    BY <1>2, <1>4, <1>t DEF ReqOk
  <2>2. ReqOk(r, q)
    BY <1>2, <1>3, <1>4, <1>t, <2>1 DEF ReqOk
  <2>3. ReqOk(r, b)
    BY <1>3, <2>2 DEF ReqOk
  <2> QED  BY <2>1, <2>2, <2>3
<1>6. a \in Request /\ ReqOk(r, a) /\ a.running = q.running /\ a.admitted = q.admitted
  <2>1. CASE cancel
    BY <2>1, <1>3, <1>5, DroppedOk
  <2>2. CASE ~cancel
    BY <2>2, <1>3, <1>5, AnsweredOk
  <2> QED  BY <2>1, <2>2
<1> HIDE DEF a
<1>7. Keeps(new)
  <2>1. a.running + a.admitted = req[r].running + req[r].admitted
    BY <1>3, <1>6, <1>t
  <2> QED  BY <1>1, <1>5, <1>6, <2>1 DEF Keeps
<1>8. IopsOk' /\ iops' \in Int
  <2>1. new \in [Requests -> Request] /\ req' = new
    BY <1>2, <1>7 DEF Keeps, Settle
  <2>2. new[r].running = req[r].running - 1 /\ \A s \in Requests \ {r} : new[s] = req[s]
    BY <1>1, <1>3, <1>6
  <2> HIDE DEF new
  <2>3. Reads(new)[r] = Reads(req)[r] + (-1)
    <3>1. Reads(new)[r] = new[r].running /\ Reads(req)[r] = req[r].running
      BY <1>1, <2>1, Summands
    <3> QED  BY <3>1, <2>2, <1>t
  <2>4. \A s \in Requests \ {r} : Reads(new)[s] = Reads(req)[s]
    BY <1>1, <2>1, <2>2, Summands
  <2>5. \A s \in Requests : Reads(new)[s] \in Int /\ Reads(req)[s] \in Int
    BY <1>1, <2>1, Summands
  <2> DEFINE c == -1
  <2>a. c \in Int /\ Reads(new)[r] = Reads(req)[r] + c
    BY <2>3
  <2> HIDE DEF c
  <2>b. SumFunctionOnSet(Reads(new), Requests) = SumFunctionOnSet(Reads(req), Requests) + c
    BY <2>a, <2>4, <2>5, Finite, SumPoint
  <2>6. SumFunctionOnSet(Reads(new), Requests) = SumFunctionOnSet(Reads(req), Requests) + (-1)
    BY <2>b DEF c
  <2>7. SumFunctionOnSet(Reads(req), Requests) \in Int
    BY <2>5, Finite, SumType
  <2>8. iops = Capacity - SumFunctionOnSet(Reads(req), Requests) /\ Capacity \in Int
    BY IoSchedulerAssumption DEF Inv, IopsOk
  <2>9. iops' = Capacity - SumFunctionOnSet(Reads(new), Requests)
    BY <1>2, <2>6, <2>7, <2>8
  <2> QED  BY <1>2, <2>1, <2>6, <2>7, <2>8, <2>9 DEF IopsOk, Reads
<1>9. SleepsOnlyWhenBlocked'
  BY <1>2 DEF SleepsOnlyWhenBlocked
<1> HIDE DEF new
<1> QED  BY <1>2, <1>7, <1>8, <1>9, SettleStep DEF Inv, Shape

(* A chunk that is started takes an IOP, its bytes and its place.  Its     *)
(* request cannot have been answered: one of its chunks was in the queue.  *)
LEMMA AdmitStep ==
  ASSUME Inv, NEW r \in Requests, Admit(r)
  PROVE  Inv'
<1> DEFINE q == [req[r] EXCEPT !.queued = @ - 1, !.running = @ + 1]
           new == [req EXCEPT ![r] = q]
<1>1. /\ req \in [Requests -> Request] /\ req[r] \in Request
      /\ \A s \in Requests : ReqOk(s, req[s])
      /\ iops \in Int /\ bytes \in Int /\ inflight \in [Priorities -> Int]
  BY DEF Inv, Shape
<1>2. /\ loop = "awake" /\ req[r].queued > 0
      /\ inflight' = [inflight EXCEPT ![Priority[r]] = @ + 1]
      /\ iops' = iops - 1 /\ bytes' = bytes - Charge(r)
      /\ UNCHANGED <<permit, loop, closed, failFast>>
  BY DEF Admit, Head, Queued
<1>3. req' = new
  BY <1>1 DEF Admit, Request
<1>t. /\ req[r].queued \in Nat /\ req[r].running \in Nat /\ req[r].delivered \in Nat
      /\ req[r].sent \in Nat /\ req[r].admitted \in Nat /\ Chunks[r] \in Nat
  BY <1>1, Typed DEF Request
<1>4. /\ q \in Request
      /\ q.sent = req[r].sent /\ q.queued = req[r].queued - 1 /\ q.st = req[r].st
      /\ q.running = req[r].running + 1 /\ q.admitted = req[r].admitted
      /\ q.delivered = req[r].delivered
  <2> DEFINE i == req[r].queued - 1  j == req[r].running + 1
  <2>1. i \in Nat /\ j \in Nat
    BY <1>2, <1>t
  <2>2. q = [req[r] EXCEPT !.queued = i, !.running = j]
    BY <1>1 DEF Request
  <2>3. i = req[r].queued - 1 /\ j = req[r].running + 1
    OBVIOUS
  <2> HIDE DEF i, j, q
  <2> QED  BY <1>1, <2>1, <2>2, <2>3 DEF Request
<1> HIDE DEF q
<1>5. ReqOk(r, q) /\ req[r].st # "gone"
  <2>0. ReqOk(r, req[r])
    BY <1>1
  <2>1. req[r].st \notin {"ready", "gone"}
    BY <1>2, <2>0, <1>t DEF ReqOk
  <2>2. ReqOk(r, q)
    BY <1>2, <1>4, <2>0, <1>t, <2>1 DEF ReqOk
  <2> QED  BY <2>1, <2>2
<1>6. /\ new \in [Requests -> Request] /\ new[r] = q
      /\ \A s \in Requests \ {r} : new[s] = req[s]
  BY <1>1, <1>4
<1>7. Holds(new[r]) = Holds(req[r]) + 1
  BY <1>4, <1>5, <1>6, <1>t DEF Holds
<1> HIDE DEF new
<1>8. IopsOk'
  <2>3. Reads(new)[r] = Reads(req)[r] + 1
    BY <1>1, <1>4, <1>6, Summands
  <2>4. \A s \in Requests \ {r} : Reads(new)[s] = Reads(req)[s]
    BY <1>1, <1>6, Summands
  <2>5. \A s \in Requests : Reads(new)[s] \in Int /\ Reads(req)[s] \in Int
    BY <1>1, <1>6, Summands
  <2>6. SumFunctionOnSet(Reads(new), Requests) = SumFunctionOnSet(Reads(req), Requests) + 1
    <3> DEFINE c == 1
    <3>1. c \in Int /\ Reads(new)[r] = Reads(req)[r] + c
      BY <2>3
    <3> HIDE DEF c
    <3>2. SumFunctionOnSet(Reads(new), Requests) = SumFunctionOnSet(Reads(req), Requests) + c
      BY <3>1, <2>4, <2>5, Finite, SumPoint
    <3> QED  BY <3>2 DEF c
  <2>7. SumFunctionOnSet(Reads(req), Requests) \in Int
    BY <2>5, Finite, SumType
  <2>8. iops = Capacity - SumFunctionOnSet(Reads(req), Requests) /\ Capacity \in Int
    BY IoSchedulerAssumption DEF Inv, IopsOk
  <2>9. iops' = Capacity - SumFunctionOnSet(Reads(new), Requests)
    BY <1>2, <2>6, <2>7, <2>8
  <2> QED  BY <1>3, <2>9 DEF IopsOk, Reads
<1>9. BytesOk'
  <2>1. Charge(r) \in Nat /\ Holds(req[r]) \in Nat
    BY <1>1, Typed, Summands
  <2>2. Charge(r) * (Holds(req[r]) + 1) = Charge(r) * Holds(req[r]) + Charge(r)
    BY <2>1
  <2>3. Bytes(new)[r] = Bytes(req)[r] + Charge(r)
    BY <1>1, <1>6, <1>7, <2>2, Summands
  <2>4. \A s \in Requests \ {r} : Bytes(new)[s] = Bytes(req)[s]
    BY <1>1, <1>6, Summands
  <2>5. \A s \in Requests : Bytes(new)[s] \in Int /\ Bytes(req)[s] \in Int
    BY <1>1, <1>6, Summands
  <2>6. SumFunctionOnSet(Bytes(new), Requests)
          = SumFunctionOnSet(Bytes(req), Requests) + Charge(r)
    BY <2>1, <2>3, <2>4, <2>5, Finite, SumPoint
  <2>7. SumFunctionOnSet(Bytes(req), Requests) \in Int
    BY <2>5, Finite, SumType
  <2>8. bytes = BufferSize - SumFunctionOnSet(Bytes(req), Requests) /\ BufferSize \in Int
    BY IoSchedulerAssumption DEF Inv, BytesOk
  <2>9. bytes' = BufferSize - SumFunctionOnSet(Bytes(new), Requests)
    BY <1>2, <2>1, <2>6, <2>7, <2>8
  <2> QED  BY <1>3, <2>9 DEF BytesOk, Bytes
<1>10. InflightOk'
  <2> SUFFICES ASSUME NEW p \in Priorities
               PROVE  inflight'[p] = SumFunctionOnSet(Places(new, p), With(p))
    BY <1>3 DEF InflightOk, Places
  <2>1. \A s \in With(p) : Places(new, p)[s] \in Int /\ Places(req, p)[s] \in Int
    BY <1>1, <1>6, Summands
  <2>2. \A s \in With(p) \ {r} : Places(new, p)[s] = Places(req, p)[s]
    BY <1>1, <1>6, Summands
  <2>3. /\ inflight[p] = SumFunctionOnSet(Places(req, p), With(p))
        /\ SumFunctionOnSet(Places(req, p), With(p)) \in Int
    BY <2>1, Finite, SumType DEF Inv, InflightOk
  <2>4. CASE Priority[r] = p
    <3>1. r \in With(p)
      BY <2>4 DEF With
    <3>2. Places(new, p)[r] = Places(req, p)[r] + 1
      BY <3>1, <1>1, <1>6, <1>7, Summands
    <3>3. SumFunctionOnSet(Places(new, p), With(p))
            = SumFunctionOnSet(Places(req, p), With(p)) + 1
      <4> DEFINE c == 1
      <4>1. c \in Int /\ Places(new, p)[r] = Places(req, p)[r] + c
        BY <3>2
      <4> HIDE DEF c
      <4>2. SumFunctionOnSet(Places(new, p), With(p))
              = SumFunctionOnSet(Places(req, p), With(p)) + c
        BY <3>1, <4>1, <2>1, <2>2, Finite, SumPoint
      <4> QED  BY <4>2 DEF c
    <3>4. inflight'[p] = inflight[p] + 1
      BY <1>1, <1>2, <2>4
    <3> QED  BY <3>3, <3>4, <2>3
  <2>5. CASE Priority[r] # p
    <3>1. r \notin With(p)
      BY <2>5 DEF With
    <3>2. SumFunctionOnSet(Places(new, p), With(p)) = SumFunctionOnSet(Places(req, p), With(p))
      BY <3>1, <2>1, <2>2, Finite, SumSame
    <3>3. inflight'[p] = inflight[p]
      BY <1>1, <1>2, <2>5
    <3> QED  BY <3>2, <3>3, <2>3
  <2> QED  BY <2>4, <2>5
<1>11. Shape'
  <2>1. Priorities' = Priorities /\ Charge(r) \in Nat
    BY Typed DEF Priorities
  <2>2. inflight' \in [Priorities -> Int]
    <3>1. \A p \in Priorities : inflight[p] \in Int /\ inflight[p] + 1 \in Int
      BY <1>1
    <3> QED  BY <1>1, <1>2, <3>1
  <2>3. iops' \in Int /\ bytes' \in Int
    BY <1>1, <1>2, <2>1
  <2> QED  BY <1>2, <1>3, <1>6, <2>1, <2>2, <2>3 DEF Shape, Inv
<1>12. \A s \in Requests : ReqOk(s, req'[s])
  BY <1>1, <1>3, <1>5, <1>6
<1>13. SleepsOnlyWhenBlocked'
  BY <1>2 DEF SleepsOnlyWhenBlocked
<1> QED  BY <1>8, <1>9, <1>10, <1>11, <1>12, <1>13 DEF Inv, ReqOk

(* A request that begins to be submitted holds nothing.                    *)
LEMMA SubmitStep ==
  ASSUME Inv, NEW r \in Requests, Submit(r)
  PROVE  Inv'
<1> DEFINE q == [req[r] EXCEPT !.st = "submitting"]
           new == [req EXCEPT ![r] = q]
<1>1. /\ req \in [Requests -> Request] /\ req[r] \in Request
      /\ \A s \in Requests : ReqOk(s, req[s])
  BY DEF Inv, Shape
<1>2. /\ req[r].st = "new"
      /\ UNCHANGED <<iops, bytes, inflight, permit, loop, closed, failFast>>
  BY DEF Submit
<1>3. req' = new
  BY <1>1 DEF Submit, Request
<1>4. /\ q \in Request /\ q.st = "submitting"
      /\ q.sent = req[r].sent /\ q.queued = req[r].queued
      /\ q.running = req[r].running /\ q.admitted = req[r].admitted
      /\ q.delivered = req[r].delivered
  BY <1>1 DEF Request
<1> HIDE DEF q
<1>5. ReqOk(r, q)
  <2>1. ReqOk(r, req[r]) /\ Chunks[r] \in Nat /\ Chunks[r] > 0
    BY <1>1, Typed
  <2> QED  BY <1>2, <1>4, <2>1 DEF ReqOk
<1>6. /\ new \in [Requests -> Request]
      /\ \A s \in Requests : /\ new[s].running = req[s].running
                             /\ new[s].queued = req[s].queued
                             /\ Holds(new[s]) = Holds(req[s])
                             /\ ReqOk(s, new[s])
  BY <1>1, <1>2, <1>4, <1>5 DEF Holds
<1> HIDE DEF new
<1>7. IopsOk'
  BY <1>2, <1>3, <1>6, IopsKept
<1>8. BytesOk'
  <2>1. \A s \in Requests : Bytes(req)[s] \in Int /\ Bytes(req)[s] = Bytes(new)[s]
    BY <1>1, <1>6, Summands
  <2>2. SumFunctionOnSet(Bytes(req), Requests) = SumFunctionOnSet(Bytes(new), Requests)
    BY <2>1, Finite, SumSame
  <2> QED  BY <1>2, <1>3, <2>2 DEF Inv, BytesOk, Bytes
<1>9. InflightOk'
  <2> SUFFICES ASSUME NEW p \in Priorities
               PROVE  inflight'[p] = SumFunctionOnSet(Places(new, p), With(p))
    BY <1>3 DEF InflightOk, Places
  <2>1. \A s \in With(p) : Places(req, p)[s] \in Int /\ Places(req, p)[s] = Places(new, p)[s]
    BY <1>1, <1>6, Summands
  <2>2. SumFunctionOnSet(Places(req, p), With(p)) = SumFunctionOnSet(Places(new, p), With(p))
    BY <2>1, Finite, SumSame
  <2> QED  BY <1>2, <2>2 DEF Inv, InflightOk
<1>10. Shape'
  <2>1. Priorities' = Priorities
    BY DEF Priorities
  <2> QED  BY <1>2, <1>3, <1>6, <2>1 DEF Shape, Inv
<1>11. SleepsOnlyWhenBlocked'
  BY <1>2, <1>3, <1>6, StillBlocked DEF Inv
<1> QED  BY <1>3, <1>6, <1>7, <1>8, <1>9, <1>10, <1>11 DEF Inv, ReqOk

(* Steps of the loop alone: it sleeps only after it has found the head     *)
(* blocked.                                                                *)
LEMMA LoopStep ==
  ASSUME Inv, Sleep \/ Wake \/ UNCHANGED vars
  PROVE  Inv'
<1>1. UNCHANGED <<req, iops, bytes, inflight, closed, failFast>>
  BY DEF Sleep, Wake, vars
<1>2. /\ IopsOk' /\ BytesOk' /\ InflightOk'
      /\ \A r \in Requests : ReqOk(r, req[r])'
  BY <1>1 DEF Inv, IopsOk, BytesOk, InflightOk, Reads, Bytes, Places, ReqOk
<1>3. Shape'
  <2>1. Priorities' = Priorities
    BY DEF Priorities
  <2> QED  BY <1>1, <2>1 DEF Inv, Shape, Sleep, Wake, vars
<1>4. SleepsOnlyWhenBlocked'
  <2>1. CASE Sleep
    <3>1. Head' = Head
      BY <1>1 DEF Head, Queued
    <3>2. \A r : CanDeliver(r)' <=> CanDeliver(r)
      BY <1>1 DEF CanDeliver, MinInFlight
    <3> QED  BY <2>1, <3>1, <3>2 DEF Sleep, SleepsOnlyWhenBlocked
  <2>2. CASE Wake
    BY <2>2 DEF Wake, SleepsOnlyWhenBlocked
  <2>3. CASE UNCHANGED vars
    BY <2>3, StillBlocked DEF Inv, vars
  <2> QED  BY <2>1, <2>2, <2>3
<1> QED  BY <1>2, <1>3, <1>4 DEF Inv

(* The invariant holds in every behaviour of the scheduler.                *)
THEOREM Invariance == Spec => []Inv
<1>1. Inv /\ [Next]_vars => Inv'
  BY SubmitStep, PushStep, ConsumeStep, AbandonStep, AdmitStep, CompleteStep,
     CloseStep, LoopStep DEF Next
<1> QED  BY <1>1, InitOk, PTL DEF Spec

(* Conservation of the budget: whatever is cancelled, abandoned or closed, *)
(* IOPS, bytes and priorities in flight are what the running reads and     *)
(* the responses not yet dropped account for (IoQueueState).               *)
THEOREM Conservation == Spec => []AccountsBalance
<1>1. Inv => AccountsBalance
  <2> SUFFICES ASSUME Inv PROVE AccountsBalance
    OBVIOUS
  <2>1. /\ SumFunction([r \in Requests |-> req[r].running])
             = SumFunctionOnSet(Reads(req), Requests)
        /\ SumFunction([r \in Requests |-> Charge(r) * Holding(r)])
             = SumFunctionOnSet(Bytes(req), Requests)
        /\ \A p : SumFunction([r \in {q \in Requests : Priority[q] = p} |-> Holding(r)])
                    = SumFunctionOnSet(Places(req, p), With(p))
    BY DEF SumFunction, Reads, Bytes, Places, With, Holding, Holds
  <2>2. \A r \in Requests :
          /\ req[r].sent = req[r].queued + req[r].running + req[r].delivered
          /\ req[r].sent <= Chunks[r]
          /\ req[r].st = "gone" => req[r].delivered = Chunks[r]
    BY DEF Inv, ReqOk
  <2> QED  BY <2>1, <2>2 DEF Inv, IopsOk, BytesOk, InflightOk, AccountsBalance
<1> QED  BY <1>1, Invariance, PTL

(* No lost wake-up: when run_io_loop waits and no notification is on its   *)
(* way, the head of the queue cannot be started.                           *)
THEOREM NoLostWakeUp == Spec => []SleepsOnlyWhenBlocked
<1>1. Inv => SleepsOnlyWhenBlocked
  BY DEF Inv
<1> QED  BY <1>1, Invariance, PTL
=============================================================================
