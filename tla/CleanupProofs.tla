---------------------------- MODULE CleanupProofs ----------------------------
(***************************************************************************)
(* What a cleanup may take is taken from nobody, for any number of         *)
(* transactions, versions and cleanups, and for every threshold that       *)
(* transactions and inspections keep to.                                   *)
(*                                                                         *)
(* A version is kept if it is live, no cleanup has begun to remove it and  *)
(* it is not exposed.  The core of the invariant says that no file of a    *)
(* kept version is gone or about to be deleted.  Its hard case is the      *)
(* version that is published after a cleanup has listed the manifests: it  *)
(* has the files of the version that was the latest then, and files so     *)
(* young that the threshold protects them.                                 *)
(***************************************************************************)
EXTENDS Cleanup, WellFoundedInduction, TLAPS

(***************************************************************************)
(* The inductive invariant                                                 *)
(***************************************************************************)
Phases == {"idle", "branches", "refs", "list", "inspect", "delete"}

Manifest == [files : SUBSET Files, ts : Nat, live : BOOLEAN]

Cleaner ==
  [pc : Phases, rv : Nat, cutoff : Int, child : BOOLEAN, tags : SUBSET Versions,
   roots : SUBSET Nat, listed : SUBSET Versions, since : Nat,
   referenced : SUBSET Files, verified : SUBSET Files, drop : SUBSET Files,
   old : SUBSET Versions, failed : BOOLEAN]

Shape ==
  /\ now \in Nat
  /\ stored \in [Files -> Nat \cup {Absent}]
  /\ txn \in [Txns -> {"idle", "open", "committed"}]
  /\ manifest \in [Versions -> Manifest]
  /\ tip \in Versions
  /\ restore \in [files : SUBSET Files, open : BOOLEAN, exposed : BOOLEAN]
  /\ tag \in [v : Versions \cup {0}, exposed : BOOLEAN]
  /\ tagging \in [op : {"none", "create", "update"}, v : Versions \cup {0}, exposed : BOOLEAN]
  /\ branch \in [st : {"none", "claimed", "ready"}, root : Versions \cup {0},
                 files : SUBSET Files, exposed : BOOLEAN]
  /\ cleaner \in [Cleaners -> Cleaner]
  /\ doomed \in SUBSET Versions
  /\ exposed \in SUBSET Versions

(* A file that is there, and that no cleanup is going to delete.           *)
Safe(f) == stored[f] # Absent /\ \A c \in Cleaners : f \notin cleaner[c].drop

(* A version that no cleanup has begun to remove, nor could have missed.   *)
Kept(v) == v \in Versions /\ manifest[v].live /\ v \notin doomed /\ v \notin exposed

Committed(f) == f \in Txns => txn[f] = "committed"

(* Only versions up to the tip have files: files of transactions that have *)
(* committed, written before the version.                                  *)
VersionOk(v) ==
  /\ manifest[v].live => v <= tip /\ manifest[v].files # {} /\ manifest[v].ts <= now
  /\ \A f \in manifest[v].files :
       v <= tip /\ Committed(f) /\ stored[f] <= manifest[v].ts

(* The heart of the matter: a kept version has all its files.              *)
IntactOk == \A v \in Versions : Kept(v) => \A f \in manifest[v].files : Safe(f)

TipOk ==
  /\ manifest[tip].live
  /\ \A v \in doomed : v < tip
  /\ \A v \in exposed : v <= tip

(* What is removed, or being removed, is older than every cleanup keeps.   *)
ExpiredOk ==
  \A v \in 1..tip :
    v \in doomed \/ ~manifest[v].live => now - manifest[v].ts > Min(Retentions)

(* A file that has not been committed can be deleted only when it is too   *)
(* late to commit it.                                                      *)
OpenOk(t) ==
  /\ stored[t] <= now
  /\ txn[t] = "idle" => /\ stored[t] = Absent
                        /\ \A c \in Cleaners : t \notin cleaner[c].drop
  /\ txn[t] = "open" /\ ~Safe(t) => now > Threshold /\ now > stored[t] + Threshold

RestoreOk ==
  restore.open =>
    /\ restore.files # {}
    /\ \A f \in restore.files : Committed(f) /\ stored[f] <= now
    /\ ~restore.exposed => /\ \A f \in restore.files : Safe(f)
                           /\ ~Overtaken(AfterList)

(* A version that no cleanup removes, nor is going to.                     *)
Spared(v) == Kept(v) /\ \A c \in Cleaners : ~Missed(c, v)

(* A tag and an operation that is about to write one name such a version,  *)
(* unless a cleanup had read the tags before.                              *)
TagOk ==
  /\ tag.v = 0 => tag = NoTag
  /\ tagging.v = 0 => tagging = NoTagging
  /\ tag.v # 0 /\ ~tag.exposed => Spared(tag.v)
  /\ tagging.v # 0 /\ ~tagging.exposed => Spared(tagging.v)

BranchOk ==
  /\ branch.st = "none" <=> branch = NoBranch
  /\ branch.st # "none" => branch.root # 0
  /\ branch.st # "none" /\ ~branch.exposed =>
       /\ Kept(branch.root)
       /\ branch.st = "claimed" => ~Overtaken(AfterRefs)
       /\ branch.st = "ready" => branch.files = manifest[branch.root].files
       /\ \A c \in Cleaners :
            /\ cleaner[c].pc = "refs" => cleaner[c].child \/ ~Expired(c, branch.root)
            /\ cleaner[c].pc \in {"list", "inspect"} =>
                 branch.root \in cleaner[c].roots \/ ~Expired(c, branch.root)

(* A cleanup that has listed the manifests: T was the latest version.  If  *)
(* T is still there, then what was published since has the files of T and  *)
(* files too young to be deleted, that no listed version has.              *)
Young(c, T, f) ==
  /\ \A u \in Versions : u <= T => f \notin manifest[u].files
  /\ stored[f] = Absent \/ stored[f] + MaxTxn >= cleaner[c].since

ListedOk(c, T) ==
  /\ cleaner[c].rv <= T
  /\ \A v \in cleaner[c].listed : v <= T
  /\ \A v \in Versions : manifest[v].live /\ v <= T => v \in cleaner[c].listed
  /\ manifest[T].live =>
       \A v \in Versions :
         v > T /\ v \notin exposed =>
           \A f \in manifest[v].files : f \in manifest[T].files \/ Young(c, T, f)

CleanerOk(c) ==
  /\ cleaner[c].pc \in Reading =>
       /\ cleaner[c].since <= now /\ now <= cleaner[c].since + MaxInspect
       /\ cleaner[c].cutoff + Min(Retentions) <= cleaner[c].since
       /\ cleaner[c].rv <= tip
  /\ \A v \in cleaner[c].old : v < tip /\ (v \in doomed \/ ~manifest[v].live)
  /\ cleaner[c].pc = "inspect" => \E T \in cleaner[c].listed : T <= tip /\ ListedOk(c, T)
  /\ cleaner[c].pc = "delete" =>
       \A f \in cleaner[c].verified :
         /\ Committed(f)
         /\ \/ f \in cleaner[c].referenced \/ stored[f] = Absent
            \/ f \in cleaner[c].drop \/ cleaner[c].failed

Core ==
  /\ \A v \in Versions : VersionOk(v)
  /\ IntactOk /\ TipOk /\ ExpiredOk
  /\ \A t \in Txns : OpenOk(t)

Inv ==
  /\ Shape /\ Core
  /\ RestoreOk /\ TagOk /\ BranchOk
  /\ \A c \in Cleaners : CleanerOk(c)

(***************************************************************************)
(* Least and greatest times                                                *)
(***************************************************************************)

(* A set of natural numbers that is not empty has a least element.         *)
LEMMA Least ==
  ASSUME NEW S, S \subseteq Nat, S # {}
  PROVE  Min(S) \in S /\ \A x \in S : Min(S) <= x
<1>1. \E x \in S : \A y \in S : ~ (<<y, x>> \in OpToRel(<, Nat))
  <2> DEFINE R == OpToRel(<, Nat)
  <2>1. IsWellFoundedOn(R, Nat)
    BY NatLessThanWellFounded
  <2> HIDE DEF R
  <2>2. \E x \in S : \A y \in S : ~ (<<y, x>> \in R)
    BY <2>1, WFMin
  <2> QED  BY <2>2 DEF R
<1>2. \E x \in S : \A y \in S : x <= y
  <2>1. PICK x \in S : \A y \in S : ~ (<<y, x>> \in OpToRel(<, Nat))
    BY <1>1
  <2>2. ASSUME NEW y \in S PROVE x <= y
    <3>1. x \in Nat /\ y \in Nat
      OBVIOUS
    <3>2. ~ (y < x)
      BY <2>1, <3>1 DEF OpToRel
    <3> QED  BY <3>1, <3>2
  <2> QED  BY <2>2
<1> QED  BY <1>2 DEF Min

(* And a greatest one, if it is bounded.                                   *)
LEMMA Greatest ==
  ASSUME NEW S, S \subseteq Nat, S # {}, NEW n \in Nat, \A x \in S : x <= n
  PROVE  Max(S) \in S /\ \A x \in S : x <= Max(S)
<1> DEFINE D == {n - x : x \in S}
<1>1. D \subseteq Nat /\ D # {}
  <2>1. ASSUME NEW x \in S PROVE n - x \in Nat
    <3>1. x \in Nat /\ x <= n
      OBVIOUS
    <3> QED  BY <3>1
  <2> QED  BY <2>1
<1>2. Min(D) \in D /\ \A d \in D : Min(D) <= d
  <2> HIDE DEF D
  <2> QED  BY <1>1, Least
<1>3. PICK m \in S : Min(D) = n - m
  BY <1>2
<1>4. ASSUME NEW x \in S PROVE x <= m
  <2>1. n - x \in D
    OBVIOUS
  <2>2. Min(D) <= n - x
    BY <1>2, <2>1
  <2>3. m \in Nat /\ x \in Nat
    OBVIOUS
  <2> QED  BY <1>3, <2>2, <2>3
<1>5. \E y \in S : \A x \in S : y >= x
  BY <1>4
<1>6. Max(S) \in S /\ \A x \in S : Max(S) >= x
  BY <1>5 DEF Max
<1> QED  BY <1>6

(* The retention that every cleanup observes.                              *)
LEMMA Retention ==
  Min(Retentions) \in Nat /\ \A a \in Retentions : a \in Nat /\ Min(Retentions) <= a
BY CleanupAssumption, Least

(* The constants have their types.                                         *)
LEMMA Constants ==
  /\ Threshold \in Nat /\ MaxTxn \in Nat /\ MaxInspect \in Nat /\ MaxVersions \in Nat
  /\ MaxTxn + MaxInspect <= Threshold
  /\ Versions \subseteq Nat /\ 0 \notin Versions /\ 1 \in Versions /\ Absent = -1
  /\ Txns \subseteq Files /\ Base \in Files
BY CleanupAssumption DEF Versions, Absent, Files

(***************************************************************************)
(* What a step that does not touch a part of the state leaves alone        *)
(***************************************************************************)
Unmoved == UNCHANGED <<now, stored, txn, manifest, tip, doomed, exposed>>

(* Versions and files: a step that only forgets what it would delete.      *)
LEMMA CoreFrame ==
  ASSUME Core, Unmoved, \A c \in Cleaners : cleaner'[c].drop \subseteq cleaner[c].drop
  PROVE  Core'
<1>1. /\ now' = now /\ stored' = stored /\ txn' = txn /\ manifest' = manifest
      /\ tip' = tip /\ doomed' = doomed /\ exposed' = exposed
  BY DEF Unmoved
<1>2. \A f : Safe(f) => Safe(f)'
  BY <1>1 DEF Safe
<1>3. (\A v \in Versions : VersionOk(v))' /\ TipOk' /\ ExpiredOk'
  BY <1>1 DEF Core, VersionOk, Committed, TipOk, ExpiredOk
<1>4. IntactOk'
  BY <1>1, <1>2 DEF Core, IntactOk, Kept
<1>5. ASSUME NEW t \in Txns PROVE OpenOk(t)'
  BY <1>1, <1>2 DEF Core, OpenOk
<1> QED  BY <1>3, <1>4, <1>5 DEF Core

(* The restore under way, if no cleanup lists the manifests.               *)
LEMMA RestoreFrame ==
  ASSUME RestoreOk, UNCHANGED <<restore, stored, txn, now>>,
         \A c \in Cleaners : /\ cleaner'[c].drop \subseteq cleaner[c].drop
                             /\ cleaner'[c].pc \in AfterList => cleaner[c].pc \in AfterList
  PROVE  RestoreOk'
<1>1. \A f : (Safe(f) => Safe(f)') /\ (Committed(f) => Committed(f)')
  BY DEF Safe, Committed
<1>2. ~Overtaken(AfterList) => ~Overtaken(AfterList)'
  BY DEF Overtaken, AfterList
<1> QED  BY <1>1, <1>2 DEF RestoreOk

(* The tag, if no cleanup turns to a version that it had spared.           *)
LEMMA SparedFrame ==
  ASSUME TagOk, UNCHANGED <<tag, tagging>>, \A v : Spared(v) => Spared(v)'
  PROVE  TagOk'
BY DEF TagOk, NoTag, NoTagging

(* In particular if no cleanup reads the tags.                             *)
LEMMA TagFrame ==
  ASSUME TagOk, UNCHANGED <<tag, tagging, manifest, doomed, exposed>>,
         \A c \in Cleaners : cleaner'[c].pc \in {"list", "inspect"} =>
                               /\ cleaner[c].pc \in {"list", "inspect"}
                               /\ cleaner'[c].tags = cleaner[c].tags
                               /\ cleaner'[c].rv = cleaner[c].rv
                               /\ cleaner'[c].cutoff = cleaner[c].cutoff
  PROVE  TagOk'
<1>1. \A v : Spared(v) => Spared(v)'
  BY DEF Spared, Kept, Missed, Removable, Expired
<1> QED  BY <1>1, SparedFrame

(* The branch, if no cleanup reads the branches.                           *)
LEMMA BranchFrame ==
  ASSUME BranchOk, UNCHANGED <<branch, manifest, doomed, exposed>>,
         \A c \in Cleaners :
           /\ cleaner'[c].pc = "refs" =>
                /\ cleaner[c].pc = "refs"
                /\ cleaner'[c].child = cleaner[c].child
                /\ cleaner'[c].cutoff = cleaner[c].cutoff
           /\ cleaner'[c].pc \in {"list", "inspect"} =>
                /\ cleaner[c].pc \in {"list", "inspect"}
                /\ cleaner'[c].roots = cleaner[c].roots
                /\ cleaner'[c].cutoff = cleaner[c].cutoff
           /\ cleaner'[c].pc \in AfterRefs => cleaner[c].pc \in AfterRefs
  PROVE  BranchOk'
<1>1. ~Overtaken(AfterRefs) => ~Overtaken(AfterRefs)'
  BY DEF Overtaken, AfterRefs
<1>2. branch' = branch /\ manifest' = manifest /\ doomed' = doomed /\ exposed' = exposed
  OBVIOUS
<1> QED  BY <1>1, <1>2 DEF BranchOk, Kept, NoBranch, Expired

(* A cleanup, while others act.                                            *)
LEMMA CleanerFrame ==
  ASSUME NEW c \in Cleaners, CleanerOk(c), Unmoved, cleaner'[c] = cleaner[c]
  PROVE  CleanerOk(c)'
<1>1. /\ now' = now /\ stored' = stored /\ txn' = txn /\ manifest' = manifest
      /\ tip' = tip /\ doomed' = doomed /\ exposed' = exposed
  BY DEF Unmoved
<1>2. \A T : ListedOk(c, T)' <=> ListedOk(c, T)
  BY <1>1 DEF ListedOk, Young
<1> QED  BY <1>1, <1>2 DEF CleanerOk, Committed

(* What Goto does to the cleanups.                                         *)
LEMMA Moved ==
  ASSUME Shape, NEW c \in Cleaners, NEW rec, Goto(c, rec)
  PROVE  /\ cleaner'[c] = rec
         /\ \A d \in Cleaners : d # c => cleaner'[d] = cleaner[d]
         /\ rec \in Cleaner => cleaner' \in [Cleaners -> Cleaner]
BY DEF Shape, Goto

(***************************************************************************)
(* Steps of transactions, restores, tags and branches                      *)
(***************************************************************************)

(* Version 1 has its file, and nobody has done anything yet.               *)
LEMMA InitOk == Init => Inv
<1> SUFFICES ASSUME Init PROVE Inv
  OBVIOUS
<1> USE Constants
<1>0. /\ now = 0 /\ stored = [f \in Files |-> IF f = Base THEN 0 ELSE Absent]
      /\ txn = [t \in Txns |-> "idle"]
      /\ manifest = [v \in Versions |->
           IF v = 1 THEN [files |-> {Base}, ts |-> 0, live |-> TRUE] ELSE NoVersion]
      /\ tip = 1 /\ restore = NoRestore /\ tagging = NoTagging /\ branch = NoBranch
      /\ tag \in {NoTag, [v |-> 1, exposed |-> FALSE]}
      /\ cleaner = [c \in Cleaners |-> Idle] /\ doomed = {} /\ exposed = {}
  BY DEF Init
<1>1. \A c \in Cleaners : cleaner[c].pc = "idle" /\ cleaner[c].drop = {} /\ cleaner[c].old = {}
  BY <1>0 DEF Idle
<1>2. Shape
  <2>1. Idle \in Cleaner
    BY DEF Idle, Cleaner, Phases
  <2>2. manifest \in [Versions -> Manifest]
    BY <1>0 DEF NoVersion, Manifest
  <2>3. stored \in [Files -> Nat \cup {Absent}]
    BY <1>0
  <2>4. cleaner \in [Cleaners -> Cleaner]
    BY <1>0, <2>1
  <2>5. tag \in [v : Versions \cup {0}, exposed : BOOLEAN]
    <3>1. tag = NoTag \/ tag = [v |-> 1, exposed |-> FALSE]
      BY <1>0
    <3> DEFINE S == [v : Versions \cup {0}, exposed : BOOLEAN]
    <3>2. NoTag \in S
      BY DEF NoTag
    <3>3. [v |-> 1, exposed |-> FALSE] \in S
      OBVIOUS
    <3> HIDE DEF S
    <3>4. tag \in S
      BY <3>1, <3>2, <3>3
    <3> QED  BY <3>4 DEF S
  <2> QED  BY <1>0, <2>2, <2>3, <2>4, <2>5 DEF Shape, NoRestore, NoTagging, NoBranch
<1>3. ASSUME NEW v \in Versions PROVE VersionOk(v)
  <2>1. CASE v = 1
    <3>1. manifest[v] = [files |-> {Base}, ts |-> 0, live |-> TRUE]
      BY <1>0, <2>1
    <3>2. stored[Base] = 0 /\ Base \notin Txns
      BY <1>0, CleanupAssumption
    <3> QED  BY <1>0, <2>1, <3>1, <3>2 DEF VersionOk, Committed
  <2>2. CASE v # 1
    BY <1>0, <2>2 DEF VersionOk, NoVersion
  <2> QED  BY <2>1, <2>2
<1>4. IntactOk
  <2>1. \A v \in Versions : \A f \in manifest[v].files : f = Base
    BY <1>0 DEF NoVersion
  <2>2. Safe(Base)
    BY <1>0, <1>1 DEF Safe
  <2> QED  BY <2>1, <2>2 DEF IntactOk
<1>5. TipOk
  BY <1>0 DEF TipOk
<1>6. ExpiredOk
  <2>1. \A v \in 1..tip : v = 1
    BY <1>0
  <2> QED  BY <1>0, <2>1 DEF ExpiredOk
<1>7. \A t \in Txns : OpenOk(t)
  BY <1>0, <1>1, CleanupAssumption DEF OpenOk
<1>8. RestoreOk /\ BranchOk
  BY <1>0 DEF RestoreOk, NoRestore, BranchOk, NoBranch
<1>t. TagOk
  <2>1. Spared(1)
    <3>1. Kept(1)
      BY <1>0 DEF Kept
    <3> QED  BY <1>1, <3>1 DEF Spared, Missed
  <2>2. tag = NoTag \/ tag.v = 1
    BY <1>0
  <2> QED  BY <1>0, <2>1, <2>2 DEF TagOk, NoTag, NoTagging
<1>9. \A c \in Cleaners : CleanerOk(c)
  BY <1>1 DEF CleanerOk, Reading
<1> QED  BY <1>2, <1>3, <1>4, <1>5, <1>6, <1>7, <1>8, <1>t, <1>9 DEF Inv, Core

(* Time passes: what was too late stays too late, and a cleanup that still *)
(* reads has not exceeded its time.                                        *)
LEMMA TickStep ==
  ASSUME Inv, Tick
  PROVE  Inv'
<1>0. /\ now' = now + 1 /\ now \in Nat
      /\ \A c \in Cleaners : cleaner[c].pc \in Reading => now < cleaner[c].since + MaxInspect
      /\ stored' = stored /\ txn' = txn /\ manifest' = manifest /\ tip' = tip
      /\ restore' = restore /\ tag' = tag /\ tagging' = tagging /\ branch' = branch
      /\ cleaner' = cleaner /\ doomed' = doomed /\ exposed' = exposed
  BY DEF Tick, Inv, Shape
<1>1. Shape'
  BY <1>0 DEF Inv, Shape
<1>2. ASSUME NEW v \in Versions PROVE VersionOk(v)'
  <2>1. VersionOk(v) /\ manifest[v].ts \in Nat
    BY DEF Inv, Core, Shape, Manifest
  <2>2. manifest[v].ts <= now => manifest[v].ts <= now + 1
    BY <1>0, <2>1
  <2> QED  BY <1>0, <2>1, <2>2 DEF VersionOk, Committed
<1>3. IntactOk' /\ TipOk'
  BY <1>0 DEF Inv, Core, IntactOk, Kept, Safe, TipOk
<1>4. ExpiredOk'
  <2> SUFFICES ASSUME NEW v \in 1..tip, v \in doomed \/ ~manifest[v].live
               PROVE  now' - manifest[v].ts > Min(Retentions)
    <3>1. tip' = tip /\ manifest' = manifest /\ doomed' = doomed
      BY <1>0
    <3> QED  BY <3>1, Zenon DEF ExpiredOk
  <2>1. now - manifest[v].ts > Min(Retentions)
    BY DEF Inv, Core, ExpiredOk
  <2>2. v \in Versions
    BY Constants DEF Inv, Shape, Versions
  <2>3. manifest[v].ts \in Nat
    BY <2>2 DEF Inv, Shape, Manifest
  <2> QED  BY <1>0, <2>1, <2>3, Retention
<1>5. ASSUME NEW t \in Txns PROVE OpenOk(t)'
  <2>1. OpenOk(t) /\ stored[t] \in Int
    BY Constants DEF Inv, Core, Shape
  <2>2. Safe(t)' <=> Safe(t)
    BY <1>0 DEF Safe
  <2>3. txn[t] = "open" /\ ~Safe(t) => now + 1 > Threshold /\ now + 1 > stored[t] + Threshold
    BY <1>0, <2>1, Constants DEF OpenOk
  <2> QED  BY <1>0, <2>1, <2>2, <2>3 DEF OpenOk
<1>6. RestoreOk'
  <2>1. \A f \in restore.files : stored[f] \in Int
    BY Constants DEF Inv, Shape
  <2>2. \A f \in restore.files : stored[f] <= now => stored[f] <= now + 1
    BY <1>0, <2>1
  <2> QED  BY <1>0, <2>2 DEF Inv, RestoreOk, Safe, Committed, Overtaken
<1>7. TagOk' /\ BranchOk'
  BY <1>0, TagFrame, BranchFrame DEF Inv
<1>8. ASSUME NEW c \in Cleaners PROVE CleanerOk(c)'
  <2>1. CleanerOk(c) /\ cleaner[c].since \in Nat
    BY DEF Inv, Shape, Cleaner
  <2>2. cleaner[c].pc \in Reading => /\ cleaner[c].since <= now + 1
                                     /\ now + 1 <= cleaner[c].since + MaxInspect
    BY <1>0, <2>1, Constants DEF CleanerOk
  <2>3. \A T : ListedOk(c, T)' <=> ListedOk(c, T)
    BY <1>0 DEF ListedOk, Young
  <2> QED  BY <1>0, <2>1, <2>2, <2>3 DEF CleanerOk, Committed
<1> QED  BY <1>1, <1>2, <1>3, <1>4, <1>5, <1>6, <1>7, <1>8 DEF Inv, Core

(* A transaction writes its file, which nothing referred to before.        *)
LEMMA WriteStep ==
  ASSUME Inv, NEW t \in Txns, Write(t)
  PROVE  Inv'
<1>0. /\ txn[t] = "idle" /\ txn' = [txn EXCEPT ![t] = "open"]
      /\ stored' = [stored EXCEPT ![t] = now]
      /\ now' = now /\ manifest' = manifest /\ tip' = tip
      /\ restore' = restore /\ tag' = tag /\ tagging' = tagging /\ branch' = branch
      /\ cleaner' = cleaner /\ doomed' = doomed /\ exposed' = exposed
  BY DEF Write
<1>a. /\ txn \in [Txns -> {"idle", "open", "committed"}]
      /\ stored \in [Files -> Nat \cup {Absent}] /\ now \in Nat /\ t \in Files
  BY Constants DEF Inv, Shape
<1>b. /\ \A f \in Files : f # t => stored'[f] = stored[f]
      /\ stored'[t] = now /\ txn'[t] = "open" /\ \A u \in Txns : u # t => txn'[u] = txn[u]
  BY <1>0, <1>a
<1>c. \A f : Committed(f) => f # t /\ Committed(f)'
  BY <1>0, <1>b DEF Committed
<1>d. \A f \in Files : f # t => (Safe(f)' <=> Safe(f))
  BY <1>0, <1>b DEF Safe
<1>1. Shape'
  BY <1>0, <1>a DEF Inv, Shape
<1>f. \A v \in Versions : manifest[v].files \subseteq Files
  BY DEF Inv, Shape, Manifest
<1>2. ASSUME NEW v \in Versions PROVE VersionOk(v)'
  <2>1. VersionOk(v)
    BY DEF Inv, Core
  <2> QED  BY <1>0, <1>b, <1>c, <1>f, <2>1 DEF VersionOk
<1>3. IntactOk'
  <2>1. \A v \in Versions : \A f \in manifest[v].files : f \in Files /\ f # t
    BY <1>c, <1>f DEF Inv, Core, VersionOk
  <2> QED  BY <1>0, <1>d, <2>1 DEF Inv, Core, IntactOk, Kept
<1>4. TipOk' /\ ExpiredOk'
  BY <1>0 DEF Inv, Core, TipOk, ExpiredOk
<1>5. ASSUME NEW u \in Txns PROVE OpenOk(u)'
  <2>1. CASE u = t
    <3>1. Safe(t)'
      <4>1. \A c \in Cleaners : t \notin cleaner[c].drop
        BY <1>0 DEF Inv, Core, OpenOk
      <4> QED  BY <1>0, <1>a, <1>b, <4>1, Constants DEF Safe
    <3> QED  BY <2>1, <1>0, <1>a, <1>b, <3>1 DEF OpenOk
  <2>2. CASE u # t
    <3>1. u \in Files /\ OpenOk(u)
      BY Constants DEF Inv, Core
    <3> QED  BY <1>0, <1>b, <1>d, <2>2, <3>1 DEF OpenOk
  <2> QED  BY <2>1, <2>2
<1>6. RestoreOk'
  <2>1. restore.files \subseteq Files
    BY DEF Inv, Shape
  <2>2. Overtaken(AfterList)' <=> Overtaken(AfterList)
    BY <1>0 DEF Overtaken
  <2> QED  BY <1>0, <1>b, <1>c, <1>d, <2>1, <2>2 DEF Inv, RestoreOk
<1>7. TagOk' /\ BranchOk'
  BY <1>0, TagFrame, BranchFrame DEF Inv
<1>8. ASSUME NEW c \in Cleaners PROVE CleanerOk(c)'
  <2>1. CleanerOk(c) /\ cleaner[c].verified \subseteq Files
    BY DEF Inv, Shape, Cleaner
  <2>2. \A v \in Versions : \A f \in manifest[v].files : stored'[f] = stored[f]
    BY <1>b, <1>c, <1>f DEF Inv, Core, VersionOk
  <2>3. \A T : ListedOk(c, T) => ListedOk(c, T)'
    <3> SUFFICES ASSUME NEW T, ListedOk(c, T) PROVE ListedOk(c, T)'
      OBVIOUS
    <3>1. \A v \in Versions : \A f \in manifest[v].files : Young(c, T, f) => Young(c, T, f)'
      BY <1>0, <2>2 DEF Young
    <3> QED  BY <1>0, <3>1 DEF ListedOk
  <2>4. \A f \in cleaner[c].verified :
          Committed(f) => Committed(f)' /\ stored'[f] = stored[f]
    BY <1>b, <1>c, <2>1
  <2> QED  BY <1>0, <2>1, <2>3, <2>4 DEF CleanerOk
<1> QED  BY <1>1, <1>2, <1>3, <1>4, <1>5, <1>6, <1>7, <1>8 DEF Inv, Core

(* A restore reads a version that is kept, or is exposed from the start.   *)
LEMMA RestoreReadStep ==
  ASSUME Inv, NEW v \in Versions, RestoreRead(v)
  PROVE  Inv'
<1>0. /\ manifest[v].live
      /\ restore' = [files |-> manifest[v].files, open |-> TRUE,
                     exposed |-> Overtaken(AfterList) \/ v \in doomed \cup exposed]
      /\ Unmoved /\ tag' = tag /\ tagging' = tagging /\ branch' = branch /\ cleaner' = cleaner
  BY DEF RestoreRead, Unmoved
<1>a. manifest[v] \in Manifest
  BY DEF Inv, Shape
<1>1. Shape'
  <2>1. manifest[v].files \in SUBSET Files
    BY <1>a DEF Manifest
  <2>2. (Overtaken(AfterList) \/ v \in doomed \cup exposed) \in BOOLEAN
    OBVIOUS
  <2>3. restore' \in [files : SUBSET Files, open : BOOLEAN, exposed : BOOLEAN]
    BY <1>0, <2>1, <2>2
  <2> QED  BY <1>0, <2>3 DEF Inv, Shape, Unmoved
<1>2. Core'
  BY <1>0, CoreFrame DEF Inv
<1>3. TagOk' /\ BranchOk'
  BY <1>0, TagFrame, BranchFrame DEF Inv, Unmoved
<1>4. ASSUME NEW c \in Cleaners PROVE CleanerOk(c)'
  BY <1>0, CleanerFrame DEF Inv
<1>5. RestoreOk'
  <2>1. VersionOk(v)
    BY DEF Inv, Core
  <2>2. \A f \in manifest[v].files : stored[f] \in Int /\ stored[f] <= now
    <3>1. \A f \in manifest[v].files : stored[f] \in Int
      BY <1>a, Constants DEF Inv, Shape, Manifest
    <3>2. manifest[v].ts \in Nat /\ now \in Nat
      BY <1>a DEF Inv, Shape, Manifest
    <3> QED  BY <1>0, <2>1, <3>1, <3>2 DEF VersionOk
  <2>3. v \notin doomed \cup exposed => \A f \in manifest[v].files : Safe(f)
    BY <1>0 DEF Inv, Core, IntactOk, Kept
  <2>4. /\ Overtaken(AfterList)' <=> Overtaken(AfterList)
        /\ \A f : (Safe(f)' <=> Safe(f)) /\ (Committed(f)' <=> Committed(f))
    BY <1>0 DEF Overtaken, Safe, Committed, Unmoved
  <2>5. restore'.files = manifest[v].files
    BY <1>0
  <2>6. ~restore'.exposed => ~Overtaken(AfterList) /\ v \notin doomed \cup exposed
    BY <1>0
  <2>7. /\ manifest[v].files # {}
        /\ \A f \in manifest[v].files : Committed(f)
    BY <1>0, <2>1 DEF VersionOk
  <2>8. stored' = stored /\ now' = now
    BY <1>0 DEF Unmoved
  <2> QED  BY <2>2, <2>3, <2>4, <2>5, <2>6, <2>7, <2>8 DEF RestoreOk
<1> QED  BY <1>1, <1>2, <1>3, <1>4, <1>5 DEF Inv

(* What holds of the latest version: it is kept unless it is exposed.      *)
LEMMA TipKept ==
  ASSUME Inv
  PROVE  /\ tip \in Versions /\ tip \in Nat /\ manifest[tip].live /\ tip \notin doomed
         /\ manifest[tip].files # {} /\ manifest[tip].files \subseteq Files
         /\ \A f \in manifest[tip].files : Committed(f) /\ stored[f] <= now
         /\ tip \notin exposed => \A f \in manifest[tip].files : Safe(f)
<1>1. /\ tip \in Versions /\ tip \in Nat /\ manifest[tip] \in Manifest /\ now \in Nat
      /\ stored \in [Files -> Nat \cup {Absent}]
  BY Constants DEF Inv, Shape
<1>2. manifest[tip].live /\ tip \notin doomed
  BY <1>1 DEF Inv, Core, TipOk
<1>3. VersionOk(tip)
  BY <1>1 DEF Inv, Core
<1>4. \A f \in manifest[tip].files : f \in Files /\ stored[f] \in Int
  BY <1>1, Constants DEF Manifest
<1>5. \A f \in manifest[tip].files : stored[f] <= now
  <2>1. manifest[tip].ts \in Nat
    BY <1>1 DEF Manifest
  <2> QED  BY <1>1, <1>2, <1>3, <1>4, <2>1 DEF VersionOk
<1>6. tip \notin exposed => \A f \in manifest[tip].files : Safe(f)
  BY <1>1, <1>2 DEF Inv, Core, IntactOk, Kept
<1> QED  BY <1>1, <1>2, <1>3, <1>4, <1>5, <1>6 DEF VersionOk

(* A version is published: Commit and RestoreCommit.                       *)
LEMMA PublishStep ==
  ASSUME Inv, NEW fs, fs \in SUBSET Files, fs # {}, Publish(fs),
         now' = now, stored' = stored, cleaner' = cleaner, doomed' = doomed,
         tag' = tag, tagging' = tagging, branch' = branch,
         txn' \in [Txns -> {"idle", "open", "committed"}],
         \A t \in Txns : txn'[t] = txn[t] \/ txn'[t] = "committed",
         exposed' = exposed \/ exposed' = exposed \cup {tip + 1},
         \A f \in fs : Committed(f)' /\ stored[f] <= now,
         tip + 1 \notin exposed' => \A f \in fs : Safe(f),
         \A c \in Cleaners : \A T \in Versions :
           cleaner[c].pc = "inspect" /\ tip + 1 \notin exposed' /\ T <= tip
             /\ ListedOk(c, T) /\ manifest[T].live
             => \A f \in fs : f \in manifest[T].files \/ Young(c, T, f)
  PROVE  /\ Core' /\ TagOk' /\ BranchOk'
         /\ \A c \in Cleaners : CleanerOk(c)'
         /\ manifest' \in [Versions -> Manifest] /\ tip' \in Versions
         /\ exposed' \in SUBSET Versions
<1> DEFINE w == tip + 1
<1>0. /\ tip' = w /\ tip \in Nat /\ w \in Versions /\ w \in Nat /\ tip < w
      /\ manifest' = [manifest EXCEPT ![w] = [files |-> fs, ts |-> now, live |-> TRUE]]
      /\ manifest \in [Versions -> Manifest] /\ now \in Nat
      /\ tip \in Versions
  <2>1. /\ tip' = w /\ manifest \in [Versions -> Manifest] /\ now \in Nat /\ tip \in Versions
        /\ manifest' = [manifest EXCEPT ![w] = [files |-> fs, ts |-> now, live |-> TRUE]]
        /\ tip < MaxVersions
    BY DEF Publish, Inv, Shape
  <2>2. tip \in Nat /\ w \in Nat /\ w \in Versions /\ tip < w
    BY <2>1, Constants DEF Versions
  <2> QED  BY <2>1, <2>2
<1>v. Versions \subseteq Nat /\ \A v \in Versions : v <= tip => v <= w /\ v # w /\ v < w
  BY <1>0, Constants
<1>1. /\ manifest'[w] = [files |-> fs, ts |-> now, live |-> TRUE]
      /\ \A v \in Versions : v # w => manifest'[v] = manifest[v]
  BY <1>0
<1> HIDE DEF w
<1>2. manifest' \in [Versions -> Manifest] /\ tip' \in Versions
  <2>1. [files |-> fs, ts |-> now, live |-> TRUE] \in Manifest
    BY <1>0 DEF Manifest
  <2> QED  BY <1>0, <2>1
<1>3. exposed' \in SUBSET Versions /\ \A v \in Versions : v # w => (v \in exposed' <=> v \in exposed)
  <2>1. exposed \in SUBSET Versions
    BY DEF Inv, Shape
  <2> QED  BY <1>0, <2>1 DEF w
<1>4. \A f : (Safe(f)' <=> Safe(f)) /\ (Committed(f) => Committed(f)')
  BY DEF Safe, Committed
<1>e. w \notin doomed
  BY <1>0 DEF Inv, Core, TipOk
<1>k. \A v \in Versions : v # w => (Kept(v)' <=> Kept(v))
  BY <1>1, <1>3 DEF Kept
<1>w. manifest[w].files = {} /\ ~manifest[w].live
  <2>1. VersionOk(w) /\ ~(w <= tip)
    BY <1>0 DEF Inv, Core
  <2> QED  BY <2>1, <1>0 DEF VersionOk, Manifest
<1>5. ASSUME NEW v \in Versions PROVE VersionOk(v)'
  <2>1. CASE v = w
    BY <1>0, <1>1, <2>1 DEF VersionOk
  <2>2. CASE v # w
    <3>1. VersionOk(v) /\ v \in Nat
      BY <1>v DEF Inv, Core
    <3> QED  BY <1>0, <1>1, <1>v, <1>4, <2>2, <3>1 DEF VersionOk
  <2> QED  BY <2>1, <2>2
<1>6. IntactOk'
  <2> SUFFICES ASSUME NEW v \in Versions, Kept(v)', NEW f \in manifest'[v].files
               PROVE  Safe(f)
    BY <1>4 DEF IntactOk
  <2>1. CASE v = w
    BY <1>1, <2>1 DEF Kept, w
  <2>2. CASE v # w
    BY <1>1, <1>k, <2>2 DEF Inv, Core, IntactOk
  <2> QED  BY <2>1, <2>2
<1>7. TipOk'
  <2>1. \A v \in doomed : v \in Versions /\ v <= tip
    BY <1>0, Constants DEF Inv, Shape, Core, TipOk
  <2>2. \A v \in exposed' : v \in Versions /\ v <= w
    <3>1. \A v \in exposed : v <= tip
      BY DEF Inv, Core, TipOk
    <3>2. \A v \in exposed' : v \in Versions /\ (v \in exposed \/ v = w)
      BY <1>3
    <3>3. \A v \in exposed' : v \in Versions /\ (v <= tip \/ v = w)
      BY <3>1, <3>2
    <3>4. ASSUME NEW v \in Versions, v <= tip \/ v = w PROVE v <= w
      <4>1. v \in Nat /\ tip \in Nat /\ w \in Nat /\ tip < w
        BY <1>0, <1>v
      <4> HIDE DEF w
      <4> QED  BY <3>4, <4>1
    <3> QED  BY <3>3, <3>4
  <2> QED  BY <1>0, <1>1, <1>v, <2>1, <2>2 DEF TipOk
<1>8. ExpiredOk'
  <2> SUFFICES ASSUME NEW v \in 1..w, v \in doomed \/ ~manifest'[v].live
               PROVE  now - manifest'[v].ts > Min(Retentions)
    BY <1>0 DEF ExpiredOk
  <2>1. v # w
    BY <1>1, <1>e
  <2>2. v \in Versions /\ v \in 1..tip
    BY <1>0, <2>1, Constants DEF Versions, w
  <2> QED  BY <1>1, <2>1, <2>2 DEF Inv, Core, ExpiredOk
<1>9. ASSUME NEW t \in Txns PROVE OpenOk(t)'
  BY <1>4 DEF Inv, Core, OpenOk
<1>10. TagOk'
  <2>1. ASSUME NEW v, Spared(v) PROVE Spared(v)'
    <3>1. v # w /\ v \in Versions /\ Kept(v)
      BY <1>w, <2>1 DEF Spared, Kept
    <3>2. Kept(v)' /\ manifest'[v] = manifest[v]
      BY <1>1, <1>k, <3>1
    <3> QED  BY <2>1, <3>2 DEF Spared, Missed, Removable, Expired
  <2> QED  BY <2>1, SparedFrame DEF Inv
<1>11. BranchOk'
  <2>1. branch.st # "none" /\ ~branch.exposed =>
          Kept(branch.root)' /\ branch.root # w /\ branch.root \in Versions
    <3> SUFFICES ASSUME Kept(branch.root)
                 PROVE  Kept(branch.root)' /\ branch.root # w /\ branch.root \in Versions
      BY DEF Inv, BranchOk
    <3>1. branch.root # w /\ branch.root \in Versions
      BY <1>w DEF Kept
    <3> QED  BY <1>k, <3>1
  <2>2. Overtaken(AfterRefs)' <=> Overtaken(AfterRefs)
    BY DEF Overtaken
  <2>3. branch.st # "none" /\ ~branch.exposed => manifest'[branch.root] = manifest[branch.root]
    BY <1>1, <2>1
  <2> QED  BY <2>1, <2>2, <2>3 DEF Inv, BranchOk, NoBranch, Expired
<1>12. ASSUME NEW c \in Cleaners PROVE CleanerOk(c)'
  <2>0. CleanerOk(c) /\ cleaner[c] \in Cleaner
    BY DEF Inv, Shape
  <2>1. ASSUME NEW T \in Versions, T <= tip, ListedOk(c, T), cleaner[c].pc = "inspect"
        PROVE  ListedOk(c, T)'
    <3>1. T # w /\ manifest'[T] = manifest[T] /\ T \in Nat
      BY <1>1, <1>v, <2>1
    <3>2. \A u \in Versions : u <= T => u <= tip /\ u # w
      BY <1>0, <1>v, <2>1
    <3>3. \A f : Young(c, T, f) => Young(c, T, f)'
      BY <1>1, <3>2 DEF Young
    <3>4. \A v \in Versions : manifest'[v].live /\ v <= T => v \in cleaner[c].listed
      BY <1>1, <2>1, <3>2 DEF ListedOk
    <3>5. ASSUME NEW v \in Versions, v > T, v \notin exposed', manifest[T].live,
                 NEW f \in manifest'[v].files
          PROVE  f \in manifest'[T].files \/ Young(c, T, f)'
      <4>1. CASE v = w
        BY <1>1, <2>1, <3>1, <3>3, <3>5, <4>1 DEF w
      <4>2. CASE v # w
        BY <1>1, <1>3, <2>1, <3>1, <3>3, <3>5, <4>2 DEF ListedOk
      <4> QED  BY <4>1, <4>2
    <3> QED  BY <2>1, <3>1, <3>4, <3>5 DEF ListedOk
  <2>2. cleaner[c].pc = "inspect" =>
          \E T \in cleaner[c].listed : T <= w /\ ListedOk(c, T)'
    <3> SUFFICES ASSUME cleaner[c].pc = "inspect"
                 PROVE  \E T \in cleaner[c].listed : T <= w /\ ListedOk(c, T)'
      OBVIOUS
    <3>1. PICK T \in cleaner[c].listed : T <= tip /\ ListedOk(c, T)
      BY <2>0 DEF CleanerOk
    <3>2. T \in Versions
      BY <2>0, <3>1 DEF Cleaner
    <3> QED  BY <2>1, <3>1, <3>2, <1>v
  <2>3. \A v \in cleaner[c].old : v < w /\ (v \in doomed \/ ~manifest'[v].live)
    <3>1. \A v \in cleaner[c].old : v \in Versions /\ v <= tip
      <4>1. \A v \in cleaner[c].old : v \in Versions /\ v < tip
        BY <2>0 DEF Cleaner, CleanerOk
      <4>2. \A v \in Versions : v < tip => v <= tip
        BY <1>0, <1>v
      <4> QED  BY <4>1, <4>2
    <3> QED  BY <1>1, <1>v, <2>0, <3>1 DEF CleanerOk
  <2>4. cleaner[c].pc \in Reading => cleaner[c].rv <= w
    <3>1. cleaner[c].rv \in Nat
      BY <2>0 DEF Cleaner
    <3> QED  BY <1>0, <2>0, <3>1 DEF CleanerOk
  <2> QED  BY <1>0, <1>4, <2>0, <2>2, <2>3, <2>4 DEF CleanerOk
<1> QED  BY <1>2, <1>3, <1>5, <1>6, <1>7, <1>8, <1>9, <1>10, <1>11, <1>12 DEF Core

(* A commit: its file is still there, since it is not too late; and it is  *)
(* too young for every cleanup that has not listed its version.            *)
LEMMA CommitStep ==
  ASSUME Inv, NEW t \in Txns, NEW append \in BOOLEAN, Commit(t, append)
  PROVE  Inv'
<1> DEFINE fs == IF append THEN manifest[tip].files \cup {t} ELSE {t}
<1>0. /\ txn[t] = "open" /\ now <= stored[t] + MaxTxn /\ Publish(fs)
      /\ exposed' = IF append /\ tip \in exposed THEN exposed \cup {tip + 1} ELSE exposed
      /\ txn' = [txn EXCEPT ![t] = "committed"]
      /\ now' = now /\ stored' = stored /\ restore' = restore /\ tag' = tag /\ tagging' = tagging
      /\ branch' = branch /\ cleaner' = cleaner /\ doomed' = doomed
  BY DEF Commit
<1>1. /\ txn \in [Txns -> {"idle", "open", "committed"}] /\ t \in Files
      /\ stored[t] \in Nat \cup {Absent} /\ now \in Nat
  BY Constants DEF Inv, Shape
<1>2. /\ txn' \in [Txns -> {"idle", "open", "committed"}]
      /\ txn'[t] = "committed"
      /\ \A u \in Txns : txn'[u] = txn[u] \/ txn'[u] = "committed"
      /\ \A f : Committed(f) => Committed(f)'
  BY <1>0, <1>1 DEF Committed
<1>3. Safe(t)
  <2>1. ~Safe(t) => now > Threshold /\ now > stored[t] + Threshold
    BY <1>0 DEF Inv, Core, OpenOk
  <2> QED  BY <1>0, <1>1, <2>1, Constants
<1>4. stored[t] \in Nat
  BY <1>1, <1>3 DEF Safe
<1>5. stored[t] <= now
  BY DEF Inv, Core, OpenOk
<1>6. /\ fs \in SUBSET Files /\ fs # {}
      /\ \A f \in fs : Committed(f)' /\ stored[f] <= now
  <2>1. Committed(t)'
    BY <1>2 DEF Committed
  <2> QED  BY <1>1, <1>2, <1>5, <2>1, TipKept
<1>7. tip + 1 \notin exposed' => \A f \in fs : Safe(f)
  BY <1>0, <1>3, TipKept
<1>8. ASSUME NEW c \in Cleaners, NEW T \in Versions, cleaner[c].pc = "inspect",
             tip + 1 \notin exposed', T <= tip, ListedOk(c, T), manifest[T].live,
             NEW f \in fs
      PROVE  f \in manifest[T].files \/ Young(c, T, f)
  <2>1. CASE f = t
    <3>1. \A u \in Versions : t \notin manifest[u].files
      BY <1>0 DEF Inv, Core, VersionOk, Committed
    <3>2. cleaner[c].since \in Nat /\ cleaner[c].since <= now
      BY <1>8 DEF Inv, Shape, Cleaner, CleanerOk, Reading
    <3>3. stored[t] + MaxTxn >= cleaner[c].since
      BY <1>0, <1>1, <1>4, <3>2, Constants
    <3> QED  BY <2>1, <3>1, <3>3 DEF Young
  <2>2. CASE f # t
    <3>1. append /\ f \in manifest[tip].files /\ tip \notin exposed
      BY <1>0, <1>8, <2>2
    <3>2. CASE T = tip
      BY <3>1, <3>2
    <3>3. CASE T # tip
      <4>1. tip > T /\ tip \in Versions
        BY <1>8, <3>3, TipKept, Constants
      <4> QED  BY <1>8, <3>1, <4>1 DEF ListedOk
    <3> QED  BY <3>2, <3>3
  <2> QED  BY <2>1, <2>2
<1>9. exposed' = exposed \/ exposed' = exposed \cup {tip + 1}
  BY <1>0
<1> HIDE DEF fs
<1>10. /\ Core' /\ TagOk' /\ BranchOk'
       /\ \A c \in Cleaners : CleanerOk(c)'
       /\ manifest' \in [Versions -> Manifest] /\ tip' \in Versions
       /\ exposed' \in SUBSET Versions
  BY <1>0, <1>2, <1>6, <1>7, <1>8, <1>9, PublishStep
<1>11. Shape'
  BY <1>0, <1>2, <1>10 DEF Inv, Shape
<1>12. RestoreOk'
  <2>1. Overtaken(AfterList)' <=> Overtaken(AfterList)
    BY <1>0 DEF Overtaken
  <2>2. \A f : Safe(f)' <=> Safe(f)
    BY <1>0 DEF Safe
  <2> QED  BY <1>0, <1>2, <2>1, <2>2 DEF Inv, RestoreOk
<1> QED  BY <1>10, <1>11, <1>12 DEF Inv

(* A restore commits: if it is not exposed, no cleanup has listed the      *)
(* manifests.                                                              *)
LEMMA RestoreCommitStep ==
  ASSUME Inv, RestoreCommit
  PROVE  Inv'
<1> DEFINE fs == restore.files
<1>0. /\ restore.open /\ Publish(fs)
      /\ exposed' = IF restore.exposed THEN exposed \cup {tip + 1} ELSE exposed
      /\ restore' = NoRestore
      /\ now' = now /\ stored' = stored /\ txn' = txn /\ tag' = tag /\ tagging' = tagging
      /\ branch' = branch /\ cleaner' = cleaner /\ doomed' = doomed
  BY DEF RestoreCommit
<1>1. /\ fs \in SUBSET Files /\ fs # {}
      /\ txn' \in [Txns -> {"idle", "open", "committed"}]
      /\ \A u \in Txns : txn'[u] = txn[u] \/ txn'[u] = "committed"
  BY <1>0 DEF Inv, Shape, RestoreOk
<1>2. \A f \in fs : Committed(f)' /\ stored[f] <= now
  BY <1>0 DEF Inv, RestoreOk, Committed
<1>3. tip + 1 \notin exposed' => ~restore.exposed
  BY <1>0
<1>4. tip + 1 \notin exposed' => \A f \in fs : Safe(f)
  BY <1>0, <1>3 DEF Inv, RestoreOk
<1>5. \A c \in Cleaners : cleaner[c].pc = "inspect" => tip + 1 \in exposed'
  BY <1>0, <1>3 DEF Inv, RestoreOk, Overtaken, AfterList
<1>6. exposed' = exposed \/ exposed' = exposed \cup {tip + 1}
  BY <1>0
<1> HIDE DEF fs
<1>7. /\ Core' /\ TagOk' /\ BranchOk'
      /\ \A c \in Cleaners : CleanerOk(c)'
      /\ manifest' \in [Versions -> Manifest] /\ tip' \in Versions
      /\ exposed' \in SUBSET Versions
  BY <1>0, <1>1, <1>2, <1>4, <1>5, <1>6, PublishStep
<1>8. Shape'
  BY <1>0, <1>7 DEF Inv, Shape, NoRestore
<1>9. RestoreOk'
  BY <1>0 DEF RestoreOk, NoRestore
<1> QED  BY <1>7, <1>8, <1>9 DEF Inv

(* An operation on the tag begins: the version is spared, or the operation *)
(* is exposed from the start.                                              *)
LEMMA CheckTagStep ==
  ASSUME Inv, NEW op \in {"create", "update"}, NEW v \in Versions, CheckTag(op, v)
  PROVE  Inv'
<1> DEFINE e == v \in doomed \cup exposed \/ \E c \in Cleaners : Missed(c, v)
<1>0. /\ Unmoved /\ restore' = restore /\ tag' = tag /\ branch' = branch /\ cleaner' = cleaner
      /\ manifest[v].live /\ tagging' = [op |-> op, v |-> v, exposed |-> e]
  BY DEF CheckTag, Unmoved
<1>1. /\ Core' /\ RestoreOk' /\ BranchOk' /\ \A c \in Cleaners : CleanerOk(c)'
  BY <1>0, CoreFrame, RestoreFrame, BranchFrame, CleanerFrame DEF Inv, Unmoved
<1>2. e \in BOOLEAN /\ v # 0 /\ (~e => Spared(v))
  BY <1>0, Constants DEF Spared, Kept
<1>3. \A u : Spared(u)' <=> Spared(u)
  BY <1>0 DEF Unmoved, Spared, Kept, Missed, Removable, Expired
<1> HIDE DEF e
<1>4. /\ tagging' \in [op : {"none", "create", "update"}, v : Versions \cup {0}, exposed : BOOLEAN]
      /\ tagging'.v = v /\ tagging'.exposed = e
  BY <1>0, <1>2
<1>5. TagOk'
  BY <1>0, <1>2, <1>3, <1>4 DEF Inv, TagOk, NoTag
<1>6. Shape'
  BY <1>0, <1>4 DEF Inv, Shape, Unmoved
<1> QED  BY <1>1, <1>5, <1>6 DEF Inv

(* The tag is read again, written or deleted.                              *)
LEMMA TagStep ==
  ASSUME Inv, RereadTag \/ PutTag \/ DeleteTag
  PROVE  Inv'
<1>0. /\ Unmoved /\ restore' = restore /\ branch' = branch /\ cleaner' = cleaner
  BY DEF RereadTag, PutTag, DeleteTag, Unmoved
<1>1. /\ Core' /\ RestoreOk' /\ BranchOk' /\ \A c \in Cleaners : CleanerOk(c)'
  BY <1>0, CoreFrame, RestoreFrame, BranchFrame, CleanerFrame DEF Inv, Unmoved
<1>2. \A u : Spared(u)' <=> Spared(u)
  BY <1>0 DEF Unmoved, Spared, Kept, Missed, Removable, Expired
<1>3. /\ tag \in [v : Versions \cup {0}, exposed : BOOLEAN]
      /\ tagging \in [op : {"none", "create", "update"}, v : Versions \cup {0}, exposed : BOOLEAN]
      /\ TagOk
  BY DEF Inv, Shape
<1> DEFINE Typed(t, g) ==
      /\ t \in [v : Versions \cup {0}, exposed : BOOLEAN]
      /\ g \in [op : {"none", "create", "update"}, v : Versions \cup {0}, exposed : BOOLEAN]
<1>4. NoTagging.v = 0 /\ NoTag.v = 0 /\ Typed(NoTag, NoTagging)
  BY DEF NoTag, NoTagging
<1>5. Typed(tag', tagging') /\ TagOk'
  <2>1. CASE DeleteTag
    <3>1. tag' = NoTag /\ tagging' = tagging
      BY <2>1 DEF DeleteTag
    <3> QED  BY <1>2, <1>3, <1>4, <3>1 DEF TagOk
  <2>2. CASE RereadTag
    <3>1. /\ tag' = tag /\ tag # NoTag
          /\ tagging' = [op |-> "update", v |-> tag.v, exposed |-> tag.exposed]
      BY <2>2 DEF RereadTag
    <3>2. tagging'.v = tag.v /\ tagging'.exposed = tag.exposed /\ tag.v # 0
      BY <1>3, <3>1 DEF TagOk
    <3>3. Typed(tag', tagging')
      BY <1>3, <3>1
    <3> QED  BY <1>2, <1>3, <3>1, <3>2, <3>3 DEF TagOk
  <2>3. CASE PutTag
    <3>1. /\ tagging # NoTagging /\ tagging' = NoTagging
          /\ tag' = tag \/ tag' = [v |-> tagging.v, exposed |-> tagging.exposed]
      BY <2>3 DEF PutTag
    <3>2. tagging.v # 0
      BY <1>3, <3>1 DEF TagOk
    <3>3. tag' = tag \/ (tag'.v = tagging.v /\ tag'.exposed = tagging.exposed)
      BY <3>1
    <3>4. Typed(tag', tagging')
      BY <1>3, <1>4, <3>1
    <3> QED  BY <1>2, <1>3, <1>4, <3>1, <3>2, <3>3, <3>4 DEF TagOk
  <2> QED  BY <2>1, <2>2, <2>3
<1>6. Shape'
  BY <1>0, <1>5 DEF Inv, Shape, Unmoved
<1> QED  BY <1>1, <1>5, <1>6 DEF Inv

(* The branch is claimed, cloned or deleted.  A clone of a kept version    *)
(* shares files that are safe.                                             *)
LEMMA BranchStep ==
  ASSUME Inv, CloneBranch \/ DeleteBranch \/ \E v \in Versions : ClaimBranch(v)
  PROVE  Inv'
<1>0. /\ Unmoved /\ restore' = restore /\ tag' = tag /\ tagging' = tagging /\ cleaner' = cleaner
  BY DEF CloneBranch, DeleteBranch, ClaimBranch, Unmoved
<1>1. /\ Core' /\ RestoreOk' /\ TagOk' /\ \A c \in Cleaners : CleanerOk(c)'
  BY <1>0, CoreFrame, RestoreFrame, TagFrame, CleanerFrame DEF Inv, Unmoved
<1> DEFINE Typed(b) == b \in [st : {"none", "claimed", "ready"}, root : Versions \cup {0},
                              files : SUBSET Files, exposed : BOOLEAN]
<1>k. \A v : Kept(v)' <=> Kept(v)
  BY <1>0 DEF Kept, Unmoved
<1>2. Typed(branch') /\ BranchOk'
  <2>1. CASE DeleteBranch
    BY <2>1 DEF DeleteBranch, BranchOk, NoBranch
  <2>2. ASSUME NEW v \in Versions, ClaimBranch(v) PROVE Typed(branch') /\ BranchOk'
    <3> DEFINE e == \/ Overtaken(AfterBranches) \/ ~manifest[v].live
                    \/ v \in doomed \cup exposed
    <3>1. branch' = [st |-> "claimed", root |-> v, files |-> {}, exposed |-> e]
      BY <2>2 DEF ClaimBranch
    <3>2. e \in BOOLEAN
      OBVIOUS
    <3>3. ~e => /\ Kept(v)
                /\ \A c \in Cleaners : cleaner'[c].pc \notin AfterBranches
      BY <1>0, <3>1 DEF Kept, Overtaken
    <3> HIDE DEF e
    <3>4. /\ branch'.st = "claimed" /\ branch'.root = v /\ branch'.exposed = e
          /\ branch' # NoBranch /\ v # 0
      BY <3>1, Constants DEF NoBranch
    <3>5. BranchOk'
      BY <1>k, <3>3, <3>4 DEF BranchOk, Overtaken, AfterBranches, AfterRefs
    <3> QED  BY <3>1, <3>2, <3>5
  <2>3. CASE CloneBranch
    <3>0. Typed(branch)
      BY DEF Inv, Shape
    <3>1. /\ branch.st = "claimed" /\ manifest[branch.root].live
          /\ branch' = [branch EXCEPT !.st = "ready", !.files = manifest[branch.root].files]
      BY <2>3 DEF CloneBranch
    <3>2. branch.root \in Versions /\ branch # NoBranch
      <4>1. branch # NoBranch
        BY <3>1 DEF NoBranch
      <4> QED  BY <4>1, <3>0, <3>1 DEF Inv, BranchOk
    <3>3. manifest[branch.root].files \in SUBSET Files
      BY <3>2 DEF Inv, Shape, Manifest
    <3>4. /\ Typed(branch') /\ branch'.st = "ready" /\ branch'.root = branch.root
          /\ branch'.files = manifest[branch.root].files /\ branch'.exposed = branch.exposed
      BY <3>0, <3>1, <3>3
    <3>5. branch' # NoBranch
      BY <3>4 DEF NoBranch
    <3>6. ~branch.exposed =>
            /\ Kept(branch.root)
            /\ \A c \in Cleaners :
                 /\ cleaner[c].pc = "refs" => cleaner[c].child \/ ~Expired(c, branch.root)
                 /\ cleaner[c].pc \in {"list", "inspect"} =>
                      branch.root \in cleaner[c].roots \/ ~Expired(c, branch.root)
      BY <3>1 DEF Inv, BranchOk
    <3>7. \A c : Expired(c, branch.root)' <=> manifest[branch'.root].ts < cleaner[c].cutoff
      BY <1>0 DEF Expired, Unmoved
    <3>8. manifest' = manifest
      BY <1>0 DEF Unmoved
    <3>9. BranchOk'
      BY <1>0, <1>k, <3>2, <3>4, <3>5, <3>6, <3>8, Constants DEF BranchOk, Expired
    <3> QED  BY <3>4, <3>9
  <2> QED  BY <2>1, <2>2, <2>3
<1>3. Shape'
  BY <1>0, <1>2 DEF Inv, Shape, Unmoved
<1> QED  BY <1>1, <1>2, <1>3 DEF Inv

(***************************************************************************)
(* Steps of a cleanup                                                      *)
(***************************************************************************)

(* An idle cleanup owes nothing.                                           *)
LEMMA IdleFields ==
  /\ Idle \in Cleaner /\ Idle.pc = "idle" /\ Idle.drop = {} /\ Idle.old = {}
BY DEF Idle, Cleaner, Phases

(* A cleanup starts: it will keep what the smallest retention covers.      *)
LEMMA StartStep ==
  ASSUME Inv, NEW c \in Cleaners, NEW lag \in Lags, NEW age \in Retentions, Start(c, lag, age)
  PROVE  Inv'
<1> DEFINE rec == [Idle EXCEPT !.pc = "branches", !.rv = tip - lag, !.cutoff = now - age,
                               !.since = now]
<1>0. /\ cleaner[c] = Idle /\ lag < tip /\ Goto(c, rec)
      /\ Unmoved /\ restore' = restore /\ tag' = tag /\ tagging' = tagging /\ branch' = branch
  BY DEF Start, Unmoved
<1>1. /\ now \in Nat /\ tip \in Nat /\ lag \in Nat /\ age \in Nat /\ Min(Retentions) <= age
      /\ Min(Retentions) \in Nat
  BY Constants, Retention, CleanupAssumption DEF Inv, Shape
<1>2. tip - lag \in Nat /\ tip - lag <= tip /\ now - age \in Int
      /\ (now - age) + Min(Retentions) <= now
  BY <1>0, <1>1
<1>3. /\ rec \in Cleaner /\ rec.pc = "branches" /\ rec.rv = tip - lag
      /\ rec.cutoff = now - age /\ rec.since = now
      /\ rec.drop = {} /\ rec.old = {}
  BY <1>1, <1>2 DEF Idle, Cleaner, Phases
<1> HIDE DEF rec
<1>4. /\ cleaner'[c] = rec /\ \A d \in Cleaners : d # c => cleaner'[d] = cleaner[d]
      /\ cleaner' \in [Cleaners -> Cleaner]
  BY <1>0, <1>3, Moved DEF Inv
<1>5. Shape'
  BY <1>0, <1>4 DEF Inv, Shape, Unmoved
<1>6. Core'
  BY <1>0, <1>3, <1>4, CoreFrame DEF Inv
<1>7. RestoreOk'
  BY <1>0, <1>3, <1>4, RestoreFrame DEF Inv, Unmoved, AfterList
<1>8. TagOk'
  BY <1>0, <1>3, <1>4, TagFrame DEF Inv, Unmoved
<1>9. BranchOk'
  BY <1>0, <1>3, <1>4, BranchFrame DEF Inv, Unmoved, AfterRefs
<1>10. ASSUME NEW d \in Cleaners PROVE CleanerOk(d)'
  <2>1. CASE d = c
    <3>1. tip' = tip /\ now' = now
      BY <1>0 DEF Unmoved
    <3>2. now <= now + MaxInspect /\ now <= now
      BY <1>1, Constants
    <3> QED  BY <1>2, <1>3, <1>4, <2>1, <3>1, <3>2 DEF CleanerOk
  <2>2. CASE d # c
    BY <1>0, <1>4, <2>2, CleanerFrame DEF Inv
  <2> QED  BY <2>1, <2>2
<1> QED  BY <1>5, <1>6, <1>7, <1>8, <1>9, <1>10 DEF Inv

(* It lists the branches: one that is not exposed has its source version,  *)
(* so that it is taken into account if the source expires.                 *)
LEMMA ListBranchesStep ==
  ASSUME Inv, NEW c \in Cleaners, ListBranches(c)
  PROVE  Inv'
<1> DEFINE ch == branch # NoBranch /\ (~manifest[branch.root].live \/ Expired(c, branch.root))
           rec == [cleaner[c] EXCEPT !.pc = "refs", !.child = ch]
<1>0. /\ cleaner[c].pc = "branches" /\ Goto(c, rec)
      /\ Unmoved /\ restore' = restore /\ tag' = tag /\ tagging' = tagging /\ branch' = branch
  BY DEF ListBranches, Unmoved
<1>c. ch \in BOOLEAN
  OBVIOUS
<1>b. branch # NoBranch /\ Expired(c, branch.root) => ch
  OBVIOUS
<1>1. cleaner[c] \in Cleaner
  BY DEF Inv, Shape
<1> HIDE DEF ch
<1>2. /\ rec \in Cleaner /\ rec.pc = "refs" /\ rec.child = ch
      /\ rec.rv = cleaner[c].rv /\ rec.cutoff = cleaner[c].cutoff
      /\ rec.since = cleaner[c].since /\ rec.drop = cleaner[c].drop /\ rec.old = cleaner[c].old
  BY <1>1, <1>c DEF Cleaner, Phases
<1> HIDE DEF rec
<1>3. /\ cleaner'[c] = rec /\ \A d \in Cleaners : d # c => cleaner'[d] = cleaner[d]
      /\ cleaner' \in [Cleaners -> Cleaner]
  BY <1>0, <1>2, Moved DEF Inv
<1>4. Shape'
  BY <1>0, <1>3 DEF Inv, Shape, Unmoved
<1>5. Core'
  BY <1>0, <1>2, <1>3, CoreFrame DEF Inv
<1>6. RestoreOk'
  BY <1>0, <1>2, <1>3, RestoreFrame DEF Inv, Unmoved, AfterList
<1>7. TagOk'
  BY <1>0, <1>2, <1>3, TagFrame DEF Inv, Unmoved
<1>8. BranchOk'
  <2>1. manifest' = manifest /\ doomed' = doomed /\ exposed' = exposed /\ branch' = branch
    BY <1>0 DEF Unmoved
  <2>2. \A v : Kept(v)' <=> Kept(v)
    BY <2>1 DEF Kept
  <2>3. ~Overtaken(AfterRefs) => ~Overtaken(AfterRefs)'
    BY <1>2, <1>3 DEF Overtaken, AfterRefs
  <2>4. ASSUME NEW d \in Cleaners, branch.st # "none", ~branch.exposed
        PROVE  /\ cleaner'[d].pc = "refs" => cleaner'[d].child \/ ~Expired(d, branch.root)'
               /\ cleaner'[d].pc \in {"list", "inspect"} =>
                    branch.root \in cleaner'[d].roots \/ ~Expired(d, branch.root)'
    <3>1. CASE d = c
      <4>1. branch # NoBranch
        BY <2>4 DEF NoBranch
      <4>2. Expired(c, branch.root)' <=> Expired(c, branch.root)
        BY <1>2, <1>3, <2>1 DEF Expired
      <4> QED  BY <1>2, <1>3, <1>b, <3>1, <4>1, <4>2
    <3>2. CASE d # c
      <4>1. Expired(d, branch.root)' <=> Expired(d, branch.root)
        BY <1>3, <2>1, <3>2 DEF Expired
      <4> QED  BY <1>3, <2>4, <3>2, <4>1 DEF Inv, BranchOk
    <3> QED  BY <3>1, <3>2
  <2>5. branch.st # "none" /\ ~branch.exposed =>
          /\ Kept(branch.root)
          /\ branch.st = "claimed" => ~Overtaken(AfterRefs)
          /\ branch.st = "ready" => branch.files = manifest[branch.root].files
    BY DEF Inv, BranchOk
  <2>6. (branch.st = "none" <=> branch = NoBranch) /\ (branch.st # "none" => branch.root # 0)
    BY DEF Inv, BranchOk
  <2> QED  BY <2>1, <2>2, <2>3, <2>4, <2>5, <2>6 DEF BranchOk, NoBranch
<1>9. ASSUME NEW d \in Cleaners PROVE CleanerOk(d)'
  <2>1. CASE d = c
    <3>1. CleanerOk(c)
      BY DEF Inv
    <3> QED  BY <1>0, <1>2, <1>3, <2>1, <3>1 DEF CleanerOk, Unmoved, Reading
  <2>2. CASE d # c
    BY <1>0, <1>3, <2>2, CleanerFrame DEF Inv
  <2> QED  BY <2>1, <2>2
<1> QED  BY <1>4, <1>5, <1>6, <1>7, <1>8, <1>9 DEF Inv

(* It reads the tags and the branch's files: the tag is among them, and    *)
(* the source of the branch if it is expired.  An operation on the tag     *)
(* that has yet to write it is missed.                                     *)
LEMMA ReadReferencesStep ==
  ASSUME Inv, NEW c \in Cleaners, ReadReferences(c)
  PROVE  Inv'
<1> DEFINE used == IF cleaner[c].child THEN branch.files ELSE {}
           rts  == IF used = {} THEN {} ELSE {branch.root}
           tgs  == {tag.v} \ {0}
           miss == \/ tagging.exposed
                   \/ tagging # NoTagging /\ tagging.v # tag.v /\ Removable(c, tagging.v)
           e    == branch.exposed \/ branch.st = "claimed"
           rec == [cleaner[c] EXCEPT !.pc = "list", !.tags = tgs, !.referenced = used,
                                     !.roots = rts]
<1>0. /\ cleaner[c].pc = "refs" /\ Goto(c, rec)
      /\ branch' = [branch EXCEPT !.exposed = e]
      /\ tagging' = [tagging EXCEPT !.exposed = miss]
      /\ Unmoved /\ restore' = restore /\ tag' = tag
  BY DEF ReadReferences, Unmoved
<1>1. /\ cleaner[c] \in Cleaner /\ tag.v \in Versions \cup {0}
      /\ branch \in [st : {"none", "claimed", "ready"}, root : Versions \cup {0},
                     files : SUBSET Files, exposed : BOOLEAN]
  BY DEF Inv, Shape
<1>2. /\ used \in SUBSET Files /\ rts \in SUBSET Nat /\ tgs \in SUBSET Versions
      /\ e \in BOOLEAN
  <2>1. used \in SUBSET Files /\ rts \in SUBSET {branch.root}
    BY <1>1
  <2>2. tgs \in SUBSET Versions
    BY <1>1
  <2>4. branch.root \in Nat
    <3>1. branch.root \in Versions \cup {0}
      BY <1>1
    <3>2. \A x \in Versions \cup {0} : x \in Nat
      BY Constants
    <3> QED  BY <3>1, <3>2
  <2>3. e \in BOOLEAN
    BY Zenon
  <2> HIDE DEF used, rts, tgs, e
  <2> QED  BY <2>1, <2>2, <2>3, <2>4
<1>r. cleaner[c].child /\ branch.files # {} => branch.root \in rts
  OBVIOUS
<1>t. tag.v # 0 => tag.v \in tgs
  OBVIOUS
<1>x. /\ miss \in BOOLEAN
      /\ ~miss /\ tagging # NoTagging =>
           ~tagging.exposed /\ (tagging.v = tag.v \/ ~Removable(c, tagging.v))
  <2>1. tagging.exposed \in BOOLEAN
    BY DEF Inv, Shape
  <2> QED  BY <2>1
<1>e. ~e => ~branch.exposed /\ branch.st # "claimed"
  OBVIOUS
<1> HIDE DEF used, rts, tgs, e, miss
<1>g. /\ tagging' \in [op : {"none", "create", "update"}, v : Versions \cup {0}, exposed : BOOLEAN]
      /\ tagging'.op = tagging.op /\ tagging'.v = tagging.v /\ tagging'.exposed = miss
  <2>1. tagging \in [op : {"none", "create", "update"}, v : Versions \cup {0}, exposed : BOOLEAN]
    BY DEF Inv, Shape
  <2> QED  BY <1>0, <1>x, <2>1
<1>3. /\ rec \in Cleaner /\ rec.pc = "list" /\ rec.tags = tgs /\ rec.roots = rts
      /\ rec.rv = cleaner[c].rv /\ rec.cutoff = cleaner[c].cutoff
      /\ rec.since = cleaner[c].since /\ rec.drop = cleaner[c].drop /\ rec.old = cleaner[c].old
  BY <1>1, <1>2 DEF Cleaner, Phases
<1>4. /\ branch' \in [st : {"none", "claimed", "ready"}, root : Versions \cup {0},
                      files : SUBSET Files, exposed : BOOLEAN]
      /\ branch'.st = branch.st /\ branch'.root = branch.root /\ branch'.files = branch.files
      /\ branch'.exposed = e
  BY <1>0, <1>1, <1>2
<1> HIDE DEF rec
<1>5. /\ cleaner'[c] = rec /\ \A d \in Cleaners : d # c => cleaner'[d] = cleaner[d]
      /\ cleaner' \in [Cleaners -> Cleaner]
  BY <1>0, <1>3, Moved DEF Inv
<1>6. Shape'
  BY <1>0, <1>4, <1>5, <1>g DEF Inv, Shape, Unmoved
<1>7. Core'
  BY <1>0, <1>3, <1>5, CoreFrame DEF Inv
<1>8. RestoreOk'
  BY <1>0, <1>3, <1>5, RestoreFrame DEF Inv, Unmoved, AfterList
<1>m. manifest' = manifest /\ doomed' = doomed /\ exposed' = exposed
  BY <1>0 DEF Unmoved
<1>k. \A v : Kept(v)' <=> Kept(v)
  BY <1>m DEF Kept
<1>9. TagOk'
  <2>1. ASSUME NEW v, Spared(v), v \in tgs \/ ~Removable(c, v)
        PROVE  Spared(v)'
    <3>1. ASSUME NEW d \in Cleaners PROVE ~Missed(d, v)'
      <4>1. CASE d = c
        <5>1. Removable(c, v)' <=> Removable(c, v)
          BY <1>3, <1>5, <1>m DEF Removable, Expired
        <5> QED  BY <1>3, <1>5, <2>1, <4>1, <5>1 DEF Missed
      <4>2. CASE d # c
        BY <1>5, <1>m, <2>1, <4>2 DEF Spared, Missed, Removable, Expired
      <4> QED  BY <4>1, <4>2
    <3> QED  BY <1>k, <2>1, <3>1 DEF Spared
  <2>2. TagOk
    BY DEF Inv
  <2>3. tag.v # 0 /\ ~tag.exposed => Spared(tag.v)'
    BY <1>0, <1>t, <2>1, <2>2 DEF TagOk
  <2>4. tagging.v # 0 /\ ~miss => Spared(tagging.v)'
    <3> SUFFICES ASSUME tagging.v # 0, ~miss PROVE Spared(tagging.v)'
      OBVIOUS
    <3>1. tagging # NoTagging
      BY DEF NoTagging
    <3>2. Spared(tagging.v) /\ (tagging.v = tag.v \/ ~Removable(c, tagging.v))
      BY <1>x, <2>2, <3>1 DEF TagOk
    <3> QED  BY <1>g, <1>t, <2>1, <3>2
  <2>5. tagging.v = 0 => tagging' = NoTagging
    <3> SUFFICES ASSUME tagging.v = 0 PROVE tagging' = NoTagging
      OBVIOUS
    <3>1. tagging = NoTagging
      BY <2>2 DEF TagOk
    <3>2. miss = FALSE
      BY <1>x, <3>1 DEF miss, NoTagging
    <3>3. tagging'.op = "none" /\ tagging'.v = 0 /\ tagging'.exposed = FALSE
      BY <1>g, <3>1, <3>2 DEF NoTagging
    <3> QED  BY <1>g, <3>3 DEF NoTagging
  <2> QED  BY <1>0, <1>g, <2>2, <2>3, <2>4, <2>5 DEF TagOk, NoTag
<1>10. BranchOk'
  <2>1. /\ branch.st = "none" <=> branch = NoBranch
        /\ branch.st # "none" => branch.root # 0
    BY DEF Inv, BranchOk
  <2>2. branch'.st = "none" <=> branch' = NoBranch
    <3>1. ASSUME branch = NoBranch PROVE branch' = NoBranch
      <4>1. e = FALSE
        BY <3>1 DEF e, NoBranch
      <4> QED  BY <1>0, <3>1, <4>1 DEF NoBranch
    <3>2. branch' = NoBranch => branch'.st = "none"
      BY DEF NoBranch
    <3> QED  BY <1>4, <2>1, <3>1, <3>2
  <2>3. ASSUME branch.st # "none", ~e
        PROVE  /\ branch.st = "ready" /\ Kept(branch.root) /\ ~branch.exposed
               /\ branch.files = manifest[branch.root].files /\ branch.files # {}
               /\ \A d \in Cleaners :
                    /\ cleaner[d].pc = "refs" => cleaner[d].child \/ ~Expired(d, branch.root)
                    /\ cleaner[d].pc \in {"list", "inspect"} =>
                         branch.root \in cleaner[d].roots \/ ~Expired(d, branch.root)
    <3>1. branch.st = "ready" /\ ~branch.exposed
      BY <1>1, <1>e, <2>3
    <3>2. /\ Kept(branch.root) /\ branch.files = manifest[branch.root].files
          /\ \A d \in Cleaners :
               /\ cleaner[d].pc = "refs" => cleaner[d].child \/ ~Expired(d, branch.root)
               /\ cleaner[d].pc \in {"list", "inspect"} =>
                    branch.root \in cleaner[d].roots \/ ~Expired(d, branch.root)
      BY <2>3, <3>1 DEF Inv, BranchOk
    <3>3. manifest[branch.root].files # {}
      BY <3>2 DEF Kept, Inv, Core, VersionOk
    <3> QED  BY <3>1, <3>2, <3>3
  <2>4. ASSUME NEW d \in Cleaners, branch.st # "none", ~e
        PROVE  /\ cleaner'[d].pc = "refs" =>
                    cleaner'[d].child \/ ~(manifest[branch.root].ts < cleaner'[d].cutoff)
               /\ cleaner'[d].pc \in {"list", "inspect"} =>
                    \/ branch.root \in cleaner'[d].roots
                    \/ ~(manifest[branch.root].ts < cleaner'[d].cutoff)
    <3>1. CASE d = c
      <4>1. branch.root \in rts \/ ~Expired(c, branch.root)
        BY <1>0, <1>r, <2>3, <2>4
      <4> QED  BY <1>3, <1>5, <3>1, <4>1 DEF Expired
    <3>2. CASE d # c
      BY <1>5, <2>3, <2>4, <3>2 DEF Expired
    <3> QED  BY <3>1, <3>2
  <2> QED  BY <1>4, <1>k, <1>m, <2>1, <2>2, <2>3, <2>4 DEF BranchOk, Expired
<1>11. ASSUME NEW d \in Cleaners PROVE CleanerOk(d)'
  <2>1. CASE d = c
    <3>1. CleanerOk(c)
      BY DEF Inv
    <3> QED  BY <1>0, <1>3, <1>5, <2>1, <3>1 DEF CleanerOk, Unmoved, Reading
  <2>2. CASE d # c
    BY <1>0, <1>5, <2>2, CleanerFrame DEF Inv
  <2> QED  BY <2>1, <2>2
<1> QED  BY <1>6, <1>7, <1>8, <1>9, <1>10, <1>11 DEF Inv

(* It lists the manifests; a restore that is under way is exposed.         *)
LEMMA ListManifestsStep ==
  ASSUME Inv, NEW c \in Cleaners, ListManifests(c)
  PROVE  Inv'
<1> DEFINE ls == {v \in Versions : manifest[v].live}
           rec == [cleaner[c] EXCEPT !.pc = "inspect", !.listed = ls]
<1>0. /\ cleaner[c].pc = "list" /\ Goto(c, rec)
      /\ restore' = [restore EXCEPT !.exposed = restore.open]
      /\ Unmoved /\ branch' = branch /\ tag' = tag /\ tagging' = tagging
  BY DEF ListManifests, Unmoved
<1>1. /\ cleaner[c] \in Cleaner
      /\ restore \in [files : SUBSET Files, open : BOOLEAN, exposed : BOOLEAN]
  BY DEF Inv, Shape
<1>2. /\ rec \in Cleaner /\ rec.pc = "inspect" /\ rec.tags = cleaner[c].tags
      /\ rec.roots = cleaner[c].roots /\ rec.listed = ls
      /\ rec.rv = cleaner[c].rv /\ rec.cutoff = cleaner[c].cutoff
      /\ rec.since = cleaner[c].since /\ rec.drop = cleaner[c].drop /\ rec.old = cleaner[c].old
  <2>1. ls \in SUBSET Versions
    OBVIOUS
  <2> HIDE DEF ls
  <2> QED  BY <1>1, <2>1 DEF Cleaner, Phases
<1> HIDE DEF rec
<1>3. /\ cleaner'[c] = rec /\ \A d \in Cleaners : d # c => cleaner'[d] = cleaner[d]
      /\ cleaner' \in [Cleaners -> Cleaner]
  BY <1>0, <1>2, Moved DEF Inv
<1>4. /\ restore' \in [files : SUBSET Files, open : BOOLEAN, exposed : BOOLEAN]
      /\ restore'.files = restore.files /\ restore'.open = restore.open
      /\ restore'.exposed = restore.open
  BY <1>0, <1>1
<1>5. Shape'
  BY <1>0, <1>3, <1>4 DEF Inv, Shape, Unmoved
<1>6. Core'
  BY <1>0, <1>2, <1>3, CoreFrame DEF Inv
<1>7. RestoreOk'
  <2>1. \A f : Committed(f) => Committed(f)'
    BY <1>0 DEF Committed, Unmoved
  <2>2. stored' = stored /\ now' = now
    BY <1>0 DEF Unmoved
  <2> QED  BY <1>4, <2>1, <2>2 DEF Inv, RestoreOk
<1>8. TagOk'
  BY <1>0, <1>2, <1>3, TagFrame DEF Inv, Unmoved
<1>9. BranchOk'
  BY <1>0, <1>2, <1>3, BranchFrame DEF Inv, Unmoved, AfterRefs
<1>10. ASSUME NEW d \in Cleaners PROVE CleanerOk(d)'
  <2>1. CASE d = c
    <3>1. CleanerOk(c)
      BY DEF Inv
    <3>2. tip \in ls /\ tip \in Versions /\ tip \in Nat
      BY TipKept
    <3>3. cleaner[c].rv <= tip
      BY <1>0, <3>1 DEF CleanerOk, Reading
    <3>4. \A v \in Versions : manifest[v].live => v <= tip
      BY DEF Inv, Core, VersionOk
    <3>5. \A v \in Versions : v > tip => manifest[v].files = {}
      <4>1. \A v \in Versions : v > tip => ~(v <= tip)
        BY <3>2, Constants
      <4> QED  BY <4>1 DEF Inv, Core, VersionOk
    <3>6. /\ tip' = tip /\ manifest' = manifest /\ exposed' = exposed /\ now' = now
          /\ doomed' = doomed
      BY <1>0 DEF Unmoved
    <3>7. ListedOk(c, tip)'
      BY <1>2, <1>3, <3>3, <3>4, <3>5, <3>6 DEF ListedOk
    <3>8. \E T \in cleaner'[c].listed : T <= tip' /\ ListedOk(c, T)'
      <4>1. tip \in cleaner'[c].listed /\ tip <= tip' /\ ListedOk(c, tip)'
        BY <1>2, <1>3, <3>2, <3>6, <3>7
      <4>2. PICK T : T = tip
        OBVIOUS
      <4>3. ListedOk(c, T)'
        BY <3>7, <4>2, <3>6 DEF ListedOk, Young
      <4> QED  BY <4>1, <4>2, <4>3
    <3> QED  BY <1>0, <1>2, <1>3, <2>1, <3>1, <3>6, <3>8 DEF CleanerOk, Reading
  <2>2. CASE d # c
    BY <1>0, <1>3, <2>2, CleanerFrame DEF Inv
  <2> QED  BY <2>1, <2>2
<1> QED  BY <1>5, <1>6, <1>7, <1>8, <1>9, <1>10 DEF Inv

(* It ends, dies, or gives up on an object: nothing is left to delete that *)
(* was not before.                                                         *)
LEMMA GiveUpStep ==
  ASSUME Inv, NEW c \in Cleaners, DeleteFails(c) \/ Finish(c) \/ Crash(c)
  PROVE  Inv'
<1>0. /\ cleaner[c].pc = "delete" /\ cleaner[c] \in Cleaner
      /\ Unmoved /\ restore' = restore /\ tag' = tag /\ tagging' = tagging /\ branch' = branch
  BY DEF DeleteFails, Finish, Swept, Crash, Unmoved, Inv, Shape
<1>1. PICK rec \in Cleaner :
        /\ Goto(c, rec)
        /\ rec.drop \subseteq cleaner[c].drop /\ rec.old \subseteq cleaner[c].old
        /\ \/ rec.pc = "idle"
           \/ rec.pc = "delete" /\ rec.verified = cleaner[c].verified /\ rec.failed
  <2>1. CASE Finish(c) \/ Crash(c)
    <3>1. Goto(c, Idle)
      BY <2>1 DEF Finish, Crash
    <3> QED  BY <3>1, IdleFields
  <2>2. CASE DeleteFails(c)
    <3>1. CASE \E f \in cleaner[c].drop :
                 Goto(c, [cleaner[c] EXCEPT !.drop = @ \ {f}, !.failed = TRUE])
      <4>1. PICK f \in cleaner[c].drop :
              Goto(c, [cleaner[c] EXCEPT !.drop = @ \ {f}, !.failed = TRUE])
        BY <3>1
      <4> DEFINE r == [cleaner[c] EXCEPT !.drop = @ \ {f}, !.failed = TRUE]
      <4>2. /\ r \in Cleaner /\ r.drop \subseteq cleaner[c].drop /\ r.old = cleaner[c].old
            /\ r.pc = "delete" /\ r.verified = cleaner[c].verified /\ r.failed
        BY <1>0 DEF Cleaner
      <4> HIDE DEF r
      <4> QED  BY <4>1, <4>2 DEF r
    <3>2. CASE \E v \in cleaner[c].old :
                 Goto(c, [cleaner[c] EXCEPT !.old = @ \ {v}, !.failed = TRUE])
      <4>1. PICK v \in cleaner[c].old :
              Goto(c, [cleaner[c] EXCEPT !.old = @ \ {v}, !.failed = TRUE])
        BY <3>2
      <4> DEFINE r == [cleaner[c] EXCEPT !.old = @ \ {v}, !.failed = TRUE]
      <4>2. /\ r \in Cleaner /\ r.old \subseteq cleaner[c].old /\ r.drop = cleaner[c].drop
            /\ r.pc = "delete" /\ r.verified = cleaner[c].verified /\ r.failed
        BY <1>0 DEF Cleaner
      <4> HIDE DEF r
      <4> QED  BY <4>1, <4>2 DEF r
    <3> QED  BY <2>2, <3>1, <3>2 DEF DeleteFails
  <2> QED  BY <2>1, <2>2
<1>2. /\ cleaner'[c] = rec /\ \A d \in Cleaners : d # c => cleaner'[d] = cleaner[d]
      /\ cleaner' \in [Cleaners -> Cleaner]
  BY <1>1, Moved DEF Inv
<1>3. Shape'
  BY <1>0, <1>2 DEF Inv, Shape, Unmoved
<1>4. Core'
  BY <1>0, <1>1, <1>2, CoreFrame DEF Inv
<1>5. RestoreOk'
  BY <1>0, <1>1, <1>2, RestoreFrame DEF Inv, Unmoved, AfterList
<1>6. TagOk'
  BY <1>0, <1>1, <1>2, TagFrame DEF Inv, Unmoved
<1>7. BranchOk'
  BY <1>0, <1>1, <1>2, BranchFrame DEF Inv, Unmoved, AfterRefs
<1>8. ASSUME NEW d \in Cleaners PROVE CleanerOk(d)'
  <2>1. CASE d = c
    <3>1. CleanerOk(c)
      BY DEF Inv
    <3> QED  BY <1>0, <1>1, <1>2, <2>1, <3>1 DEF CleanerOk, Unmoved, Reading, Committed
  <2>2. CASE d # c
    BY <1>0, <1>2, <2>2, CleanerFrame DEF Inv
  <2> QED  BY <2>1, <2>2
<1> QED  BY <1>3, <1>4, <1>5, <1>6, <1>7, <1>8 DEF Inv

(* An object is deleted.  No kept version, no restore that could still     *)
(* commit and no transaction that is in time needs it.                     *)
LEMMA DeleteFileStep ==
  ASSUME Inv, NEW c \in Cleaners, NEW f \in Files, DeleteFile(c, f)
  PROVE  Inv'
<1> DEFINE rec == [cleaner[c] EXCEPT !.drop = @ \ {f}]
<1>0. /\ cleaner[c].pc = "delete" /\ f \in cleaner[c].drop
      /\ stored' = [stored EXCEPT ![f] = Absent] /\ Goto(c, rec)
      /\ now' = now /\ txn' = txn /\ manifest' = manifest /\ tip' = tip
      /\ doomed' = doomed /\ exposed' = exposed
      /\ restore' = restore /\ tag' = tag /\ tagging' = tagging /\ branch' = branch
  BY DEF DeleteFile
<1>1. /\ cleaner[c] \in Cleaner /\ stored \in [Files -> Nat \cup {Absent}] /\ now \in Nat
  BY DEF Inv, Shape
<1>2. /\ rec \in Cleaner /\ rec.pc = "delete" /\ rec.drop = cleaner[c].drop \ {f}
      /\ rec.verified = cleaner[c].verified /\ rec.referenced = cleaner[c].referenced
      /\ rec.old = cleaner[c].old /\ rec.failed = cleaner[c].failed
  BY <1>0, <1>1 DEF Cleaner
<1> HIDE DEF rec
<1>3. /\ cleaner'[c] = rec /\ \A d \in Cleaners : d # c => cleaner'[d] = cleaner[d]
      /\ cleaner' \in [Cleaners -> Cleaner]
  BY <1>0, <1>2, Moved DEF Inv
<1>4. /\ stored' \in [Files -> Nat \cup {Absent}] /\ stored'[f] = Absent
      /\ \A g \in Files : g # f => stored'[g] = stored[g]
      /\ \A g \in Files : stored[g] \in Int /\ stored'[g] \in Int /\ stored'[g] <= stored[g]
  BY <1>0, <1>1, Constants
<1>5. ~Safe(f) /\ \A g \in Files : Safe(g) => Safe(g)'
  <2>1. ~Safe(f)
    BY <1>0 DEF Safe
  <2>2. ASSUME NEW g \in Files, Safe(g) PROVE Safe(g)'
    <3>1. g # f /\ stored'[g] # Absent
      BY <1>4, <2>1, <2>2 DEF Safe
    <3>2. \A d \in Cleaners : g \notin cleaner'[d].drop
      BY <1>2, <1>3, <2>2 DEF Safe
    <3> QED  BY <3>1, <3>2 DEF Safe
  <2> QED  BY <2>1, <2>2
<1>p. \A d \in Cleaners : /\ cleaner'[d].pc = cleaner[d].pc
                          /\ cleaner'[d].drop \subseteq cleaner[d].drop
  BY <1>0, <1>2, <1>3
<1>6. Shape'
  BY <1>0, <1>3, <1>4 DEF Inv, Shape
<1>7. ASSUME NEW v \in Versions PROVE VersionOk(v)'
  <2>1. VersionOk(v) /\ manifest[v].ts \in Nat /\ manifest[v].files \subseteq Files
    BY DEF Inv, Core, Shape, Manifest
  <2>2. \A g \in manifest[v].files : stored[g] <= manifest[v].ts => stored'[g] <= manifest[v].ts
    BY <1>4, <2>1
  <2> QED  BY <1>0, <2>1, <2>2 DEF VersionOk, Committed
<1>8. IntactOk'
  <2>1. \A v \in Versions : manifest[v].files \subseteq Files
    BY DEF Inv, Shape, Manifest
  <2> QED  BY <1>0, <1>5, <2>1 DEF Inv, Core, IntactOk, Kept
<1>9. TipOk' /\ ExpiredOk'
  BY <1>0 DEF Inv, Core, TipOk, ExpiredOk
<1>10. ASSUME NEW t \in Txns PROVE OpenOk(t)'
  <2>1. OpenOk(t) /\ t \in Files
    BY Constants DEF Inv, Core
  <2>2. stored'[t] <= now
    BY <1>1, <1>4, <2>1 DEF OpenOk
  <2>3. txn[t] = "idle" => /\ stored'[t] = Absent
                           /\ \A d \in Cleaners : t \notin cleaner'[d].drop
    BY <1>4, <1>p, <2>1 DEF OpenOk
  <2>4. ASSUME txn[t] = "open", ~Safe(t)' PROVE now > Threshold /\ now > stored'[t] + Threshold
    <3>1. ~Safe(t)
      BY <1>5, <2>1, <2>4
    <3>2. now > Threshold /\ now > stored[t] + Threshold
      BY <2>1, <2>4, <3>1 DEF OpenOk
    <3> QED  BY <1>1, <1>4, <2>1, <3>2, Constants
  <2> QED  BY <1>0, <2>2, <2>3, <2>4 DEF OpenOk
<1>11. RestoreOk'
  <2>1. restore.files \subseteq Files
    BY DEF Inv, Shape
  <2>2. Overtaken(AfterList)' <=> Overtaken(AfterList)
    BY <1>p DEF Overtaken
  <2>3. \A g \in restore.files : stored[g] <= now => stored'[g] <= now
    BY <1>1, <1>4, <2>1
  <2>4. \A g : Committed(g) => Committed(g)'
    BY <1>0 DEF Committed
  <2> QED  BY <1>0, <1>5, <2>1, <2>2, <2>3, <2>4 DEF Inv, RestoreOk
<1>12. TagOk'
  BY <1>0, <1>2, <1>3, TagFrame DEF Inv
<1>13. BranchOk'
  BY <1>0, <1>2, <1>3, BranchFrame DEF Inv
<1>14. ASSUME NEW d \in Cleaners PROVE CleanerOk(d)'
  <2>0. CleanerOk(d) /\ cleaner[d] \in Cleaner
    BY DEF Inv, Shape
  <2>1. \A v \in cleaner'[d].old : v < tip /\ (v \in doomed \/ ~manifest[v].live)
    BY <1>2, <1>3, <2>0 DEF CleanerOk
  <2>2. \A g \in Files : stored[g] = Absent => stored'[g] = Absent
    BY <1>4
  <2>3. ASSUME cleaner'[d].pc = "delete", NEW g \in cleaner'[d].verified
        PROVE  /\ Committed(g)'
               /\ \/ g \in cleaner'[d].referenced \/ stored'[g] = Absent
                  \/ g \in cleaner'[d].drop \/ cleaner'[d].failed
    <3>1. cleaner[d].pc = "delete" /\ g \in cleaner[d].verified /\ g \in Files
      BY <1>2, <1>3, <1>p, <2>0, <2>3 DEF Cleaner
    <3>2. Committed(g) /\ \/ g \in cleaner[d].referenced \/ stored[g] = Absent
                          \/ g \in cleaner[d].drop \/ cleaner[d].failed
      BY <2>0, <3>1 DEF CleanerOk
    <3>3. Committed(g)'
      BY <1>0, <3>2 DEF Committed
    <3>4. g \in cleaner[d].drop => g \in cleaner'[d].drop \/ stored'[g] = Absent
      BY <1>2, <1>3, <1>4
    <3> QED  BY <1>2, <1>3, <2>2, <3>1, <3>2, <3>3, <3>4
  <2>4. CASE d = c
    BY <1>0, <1>2, <1>3, <2>1, <2>3, <2>4 DEF CleanerOk, Reading
  <2>5. CASE d # c
    <3>1. cleaner'[d] = cleaner[d]
      BY <1>3, <2>5
    <3>2. \A T : ListedOk(d, T) => ListedOk(d, T)'
      <4> SUFFICES ASSUME NEW T, ListedOk(d, T) PROVE ListedOk(d, T)'
        OBVIOUS
      <4>1. \A g \in Files : Young(d, T, g) => Young(d, T, g)'
        <5> SUFFICES ASSUME NEW g \in Files, Young(d, T, g) PROVE Young(d, T, g)'
          OBVIOUS
        <5>1. stored'[g] = Absent \/ stored'[g] = stored[g]
          BY <1>4
        <5> QED  BY <1>0, <3>1, <5>1 DEF Young
      <4>2. \A v \in Versions : manifest[v].files \subseteq Files
        BY DEF Inv, Shape, Manifest
      <4> QED  BY <1>0, <3>1, <4>1, <4>2 DEF ListedOk
    <3> QED  BY <1>0, <2>0, <2>1, <2>3, <3>1, <3>2 DEF CleanerOk
  <2> QED  BY <2>4, <2>5
<1> QED  BY <1>6, <1>7, <1>8, <1>9, <1>10, <1>11, <1>12, <1>13, <1>14 DEF Inv, Core

(* A manifest is deleted: it was doomed, so that nothing is built on it.   *)
LEMMA DeleteManifestStep ==
  ASSUME Inv, NEW c \in Cleaners, NEW v \in Versions, DeleteManifest(c, v)
  PROVE  Inv'
<1> DEFINE rec == [cleaner[c] EXCEPT !.old = @ \ {v}]
<1>0. /\ cleaner[c].pc = "delete" /\ v \in cleaner[c].old
      /\ manifest' = [manifest EXCEPT ![v].live = FALSE, ![v].files = {}]
      /\ doomed' = doomed \ {v} /\ Goto(c, rec)
      /\ now' = now /\ stored' = stored /\ txn' = txn /\ tip' = tip /\ exposed' = exposed
      /\ restore' = restore /\ tag' = tag /\ tagging' = tagging /\ branch' = branch
  BY DEF DeleteManifest
<1>1. /\ cleaner[c] \in Cleaner /\ manifest \in [Versions -> Manifest] /\ manifest[v] \in Manifest
      /\ tip \in Nat /\ Versions \subseteq Nat /\ doomed \subseteq Versions
  BY TipKept, Constants DEF Inv, Shape
<1>2. /\ rec \in Cleaner /\ rec.pc = "delete" /\ rec.drop = cleaner[c].drop
      /\ rec.verified = cleaner[c].verified /\ rec.referenced = cleaner[c].referenced
      /\ rec.old = cleaner[c].old \ {v} /\ rec.failed = cleaner[c].failed
  BY <1>0, <1>1 DEF Cleaner
<1> HIDE DEF rec
<1>3. /\ cleaner'[c] = rec /\ \A d \in Cleaners : d # c => cleaner'[d] = cleaner[d]
      /\ cleaner' \in [Cleaners -> Cleaner]
  BY <1>0, <1>2, Moved DEF Inv
<1>4. /\ manifest' \in [Versions -> Manifest]
      /\ ~manifest'[v].live /\ manifest'[v].files = {} /\ manifest'[v].ts = manifest[v].ts
      /\ \A u \in Versions : u # v => manifest'[u] = manifest[u]
  BY <1>0, <1>1 DEF Manifest
<1>5. v < tip /\ (v \in doomed \/ ~manifest[v].live) /\ v # tip
  <2>1. v < tip /\ (v \in doomed \/ ~manifest[v].live)
    BY <1>0 DEF Inv, CleanerOk
  <2> QED  BY <1>1, <2>1
<1>p. \A d \in Cleaners : /\ cleaner'[d].pc = cleaner[d].pc
                          /\ cleaner'[d].drop = cleaner[d].drop
  BY <1>0, <1>2, <1>3
<1>s. \A f : (Safe(f)' <=> Safe(f)) /\ (Committed(f)' <=> Committed(f))
  BY <1>0, <1>p DEF Safe, Committed
<1>k. \A u : /\ Kept(u) => u # v /\ Kept(u)' /\ manifest'[u] = manifest[u]
             /\ Kept(u)' => u # v /\ Kept(u)
  <2>1. ~Kept(v) /\ ~Kept(v)'
    BY <1>4, <1>5 DEF Kept
  <2> QED  BY <1>0, <1>4, <2>1 DEF Kept
<1>6. Shape'
  BY <1>0, <1>3, <1>4 DEF Inv, Shape
<1>7. ASSUME NEW u \in Versions PROVE VersionOk(u)'
  <2>1. VersionOk(u)
    BY DEF Inv, Core
  <2> QED  BY <1>0, <1>4, <1>s, <2>1 DEF VersionOk
<1>8. IntactOk'
  BY <1>4, <1>k, <1>s DEF Inv, Core, IntactOk
<1>9. TipOk'
  BY <1>0, <1>4, <1>5, TipKept DEF Inv, Core, TipOk
<1>10. ExpiredOk'
  <2> SUFFICES ASSUME NEW u \in 1..tip, u \in doomed' \/ ~manifest'[u].live
               PROVE  now - manifest'[u].ts > Min(Retentions)
    BY <1>0 DEF ExpiredOk
  <2>1. u \in Versions
    BY Constants DEF Inv, Shape, Versions
  <2>2. CASE u = v
    BY <1>4, <1>5, <2>2 DEF Inv, Core, ExpiredOk
  <2>3. CASE u # v
    BY <1>0, <1>4, <2>1, <2>3 DEF Inv, Core, ExpiredOk
  <2> QED  BY <2>2, <2>3
<1>11. ASSUME NEW t \in Txns PROVE OpenOk(t)'
  BY <1>0, <1>p, <1>s DEF Inv, Core, OpenOk
<1>12. RestoreOk'
  BY <1>0, <1>p, RestoreFrame DEF Inv
<1>13. TagOk'
  <2>1. ASSUME NEW u, Spared(u) PROVE Spared(u)'
    <3>1. Kept(u)' /\ manifest'[u] = manifest[u]
      BY <1>k, <2>1 DEF Spared
    <3>2. \A d \in Cleaners : cleaner'[d].pc \in {"list", "inspect"} => cleaner'[d] = cleaner[d]
      BY <1>2, <1>3
    <3> QED  BY <2>1, <3>1, <3>2 DEF Spared, Missed, Removable, Expired
  <2> QED  BY <1>0, <2>1, SparedFrame DEF Inv
<1>14. BranchOk'
  <2>1. branch.st # "none" /\ ~branch.exposed => manifest'[branch.root] = manifest[branch.root]
    BY <1>k DEF Inv, BranchOk
  <2>2. Overtaken(AfterRefs)' <=> Overtaken(AfterRefs)
    BY <1>p DEF Overtaken
  <2>3. \A d \in Cleaners : cleaner'[d].pc \in {"refs", "list", "inspect"} =>
                              cleaner'[d] = cleaner[d]
    BY <1>2, <1>3
  <2> QED  BY <1>0, <1>k, <2>1, <2>2, <2>3 DEF Inv, BranchOk, NoBranch, Expired
<1>15. ASSUME NEW d \in Cleaners PROVE CleanerOk(d)'
  <2>0. CleanerOk(d) /\ cleaner[d] \in Cleaner
    BY DEF Inv, Shape
  <2>1. \A u \in cleaner'[d].old : u < tip /\ (u \in doomed' \/ ~manifest'[u].live)
    <3> SUFFICES ASSUME NEW u \in cleaner'[d].old
                 PROVE  u < tip /\ (u \in doomed' \/ ~manifest'[u].live)
      OBVIOUS
    <3>1. u \in cleaner[d].old /\ u \in Versions
      BY <1>2, <1>3, <2>0 DEF Cleaner
    <3>2. u < tip /\ (u \in doomed \/ ~manifest[u].live)
      BY <2>0, <3>1 DEF CleanerOk
    <3> QED  BY <1>0, <1>4, <3>1, <3>2
  <2>2. ASSUME cleaner'[d].pc = "delete", NEW g \in cleaner'[d].verified
        PROVE  /\ Committed(g)'
               /\ \/ g \in cleaner'[d].referenced \/ stored'[g] = Absent
                  \/ g \in cleaner'[d].drop \/ cleaner'[d].failed
    BY <1>0, <1>2, <1>3, <1>p, <1>s, <2>0, <2>2 DEF CleanerOk
  <2>3. CASE d = c
    BY <1>0, <1>2, <1>3, <2>1, <2>2, <2>3 DEF CleanerOk, Reading
  <2>4. CASE d # c
    <3>1. cleaner'[d] = cleaner[d]
      BY <1>3, <2>4
    <3>2. ASSUME NEW T \in Versions, ListedOk(d, T) PROVE ListedOk(d, T)'
      <4>1. \A u \in Versions : /\ manifest'[u].files \subseteq manifest[u].files
                                /\ manifest'[u].live => manifest[u].live
        BY <1>4
      <4>2. \A g : Young(d, T, g) => Young(d, T, g)'
        BY <1>0, <3>1, <4>1 DEF Young
      <4>3. manifest'[T].live => manifest'[T] = manifest[T]
        BY <1>4
      <4> QED  BY <1>0, <3>1, <3>2, <4>1, <4>2, <4>3 DEF ListedOk
    <3>3. cleaner[d].listed \subseteq Versions
      BY <2>0 DEF Cleaner
    <3>4. cleaner'[d].pc = "inspect" => \E T \in cleaner'[d].listed : T <= tip' /\ ListedOk(d, T)'
      BY <1>0, <2>0, <3>1, <3>2, <3>3 DEF CleanerOk
    <3> QED  BY <1>0, <2>0, <2>1, <2>2, <3>1, <3>4 DEF CleanerOk
  <2> QED  BY <2>3, <2>4
<1> QED  BY <1>6, <1>7, <1>8, <1>9, <1>10, <1>11, <1>12, <1>13, <1>14, <1>15 DEF Inv, Core

(* The decision what to delete.  Versions that were listed are kept or     *)
(* doomed.  What was published since has the files of the version that was *)
(* the latest then, which is referenced or stops the cleanup, and files    *)
(* that are younger than the threshold.                                    *)
LEMMA InspectStep ==
  ASSUME Inv, NEW c \in Cleaners, NEW strict \in BOOLEAN, Inspect(c, strict)
  PROVE  Inv'
<1> DEFINE found == {v \in cleaner[c].listed : manifest[v].live}
           kept  == {v \in found : InWorkingSet(c, v)}
           old   == found \ kept
           late  == {v \in cleaner[c].tags : v \in found /\ Removable(c, v)}
           stop  == \/ \E v \in cleaner[c].listed \ found : v >= cleaner[c].rv
                    \/ strict /\ late # {}
           referenced == cleaner[c].referenced \cup FilesOf(kept)
           verified   == FilesOf(old)
           threshold  == now - Threshold
           drop == {f \in Files : /\ Garbage(f, referenced, verified, threshold)
                                  /\ Listed(f, kept, old, threshold)}
           rec == [Idle EXCEPT !.pc = "delete", !.referenced = referenced,
                               !.verified = verified, !.drop = drop, !.old = old]
<1>0. /\ cleaner[c].pc = "inspect"
      /\ Goto(c, IF stop THEN Idle ELSE rec)
      /\ doomed' = IF stop THEN doomed ELSE doomed \cup old
      /\ now' = now /\ stored' = stored /\ txn' = txn /\ manifest' = manifest /\ tip' = tip
      /\ restore' = restore /\ tag' = tag /\ tagging' = tagging /\ branch' = branch
      /\ exposed' = exposed
  BY DEF Inspect
<1>c. /\ cleaner[c] \in Cleaner /\ CleanerOk(c) /\ cleaner[c].listed \subseteq Versions
      /\ cleaner[c].rv \in Nat /\ cleaner[c].cutoff \in Int /\ cleaner[c].since \in Nat
  BY DEF Inv, Shape, Cleaner
<1>t. /\ cleaner[c].since <= now /\ now <= cleaner[c].since + MaxInspect
      /\ cleaner[c].cutoff + Min(Retentions) <= cleaner[c].since
      /\ cleaner[c].rv <= tip /\ now \in Nat /\ tip \in Nat
  BY <1>0, <1>c, TipKept DEF CleanerOk, Reading, Inv, Shape
<1>m. manifest \in [Versions -> Manifest] /\ stored \in [Files -> Nat \cup {Absent}]
  BY DEF Inv, Shape
<1>1. CASE stop
  <2>1. /\ cleaner'[c] = Idle /\ \A d \in Cleaners : d # c => cleaner'[d] = cleaner[d]
        /\ cleaner' \in [Cleaners -> Cleaner]
    <3>1. Goto(c, Idle)
      BY <1>0, <1>1
    <3> QED  BY <3>1, IdleFields, Moved DEF Inv
  <2>2. Unmoved
    BY <1>0, <1>1 DEF Unmoved
  <2> HIDE DEF stop
  <2>3. Shape'
    BY <1>0, <2>1, <2>2 DEF Inv, Shape, Unmoved
  <2>4. Core'
    BY <2>1, <2>2, CoreFrame, IdleFields DEF Inv
  <2>5. RestoreOk'
    BY <1>0, <2>1, RestoreFrame, IdleFields DEF Inv, AfterList
  <2>6. TagOk'
    BY <1>0, <2>1, <2>2, TagFrame, IdleFields DEF Inv, Unmoved
  <2>7. BranchOk'
    BY <1>0, <2>1, <2>2, BranchFrame, IdleFields DEF Inv, Unmoved, AfterRefs
  <2>8. ASSUME NEW d \in Cleaners PROVE CleanerOk(d)'
    <3>1. CASE d = c
      BY <2>1, <3>1, IdleFields DEF CleanerOk, Reading
    <3>2. CASE d # c
      BY <2>1, <2>2, <3>2, CleanerFrame DEF Inv
    <3> QED  BY <3>1, <3>2
  <2> QED  BY <2>3, <2>4, <2>5, <2>6, <2>7, <2>8 DEF Inv
<1>2. CASE ~stop
  \* What was found and what is made of it
  <2>1. /\ found \subseteq Versions /\ kept \subseteq Versions /\ old \subseteq Versions
        /\ \A v \in cleaner[c].listed : manifest[v].live => v \in kept \/ v \in old
    BY <1>c
  <2>2. ASSUME NEW v \in old
        PROVE  /\ v \in Versions /\ v \in cleaner[c].listed /\ manifest[v].live
               /\ ~InWorkingSet(c, v)
    BY <1>c, <2>2
  <2>3. \A v \in cleaner[c].listed : v >= cleaner[c].rv => manifest[v].live
    BY <1>2
  <2>4. \A v \in Versions : manifest[v].files \subseteq Files
    BY <1>m DEF Manifest
  <2>5. referenced \subseteq Files /\ verified \subseteq Files /\ drop \subseteq Files
    <3>1. cleaner[c].referenced \subseteq Files
      BY <1>c DEF Cleaner
    <3> HIDE DEF kept, old
    <3> QED  BY <2>1, <2>4, <3>1 DEF FilesOf
  <2>6. /\ rec \in Cleaner /\ rec.pc = "delete" /\ rec.referenced = referenced
        /\ rec.verified = verified /\ rec.drop = drop /\ rec.old = old
    <3> HIDE DEF referenced, verified, drop, old
    <3>1. old \in SUBSET Versions /\ referenced \in SUBSET Files /\ verified \in SUBSET Files
          /\ drop \in SUBSET Files
      BY <2>1, <2>5
    <3> QED  BY <3>1, IdleFields DEF Cleaner, Phases
  <2>7. \A v \in kept : manifest[v].files \subseteq referenced
    <3> HIDE DEF kept
    <3> QED  BY DEF FilesOf
  <2>8. ASSUME NEW f \in drop
        PROVE  /\ f \in Files /\ stored[f] # Absent /\ f \notin referenced
               /\ stored[f] < now - Threshold \/ f \in verified
    <3> HIDE DEF referenced, verified
    <3> QED  BY <2>8 DEF Garbage
  <2>9. \A f \in verified : \E v \in old : f \in manifest[v].files
    <3> HIDE DEF old
    <3> QED  BY DEF FilesOf
  <2>10. /\ Goto(c, rec) /\ doomed' = doomed \cup old
    BY <1>0, <1>2
  <2>11. ASSUME NEW f \in verified, f \notin referenced, stored[f] # Absent PROVE f \in drop
    <3>1. f \in Files
      BY <2>5, <2>11
    <3>2. Garbage(f, referenced, verified, threshold)
      BY <2>11 DEF Garbage
    <3>3. Listed(f, kept, old, threshold)
      <4> HIDE DEF kept, old, threshold
      <4> SUFFICES ASSUME kept # {}, ~(Max(TimesOf(old)) > Min(TimesOf(kept)))
                   PROVE  stored[f] <= Min(TimesOf(kept))
        <5>1. PICK v \in old : f \in manifest[v].files
          BY <2>9, <2>11
        <5> QED  BY <5>1 DEF Listed
      <4>1. PICK v \in old : f \in manifest[v].files
        BY <2>9, <2>11
      <4>2. /\ v \in Versions /\ manifest[v].ts \in Nat
            /\ \A u \in Versions : manifest[u].ts \in Nat
        BY <1>m, <2>1, <4>1 DEF Manifest
      <4>3. TimesOf(old) \subseteq Nat /\ TimesOf(kept) \subseteq Nat /\ TimesOf(kept) # {}
            /\ manifest[v].ts \in TimesOf(old)
        BY <2>1, <4>1, <4>2 DEF TimesOf
      <4>4. \A x \in TimesOf(old) : x <= now
        <5> SUFFICES ASSUME NEW u \in old PROVE manifest[u].ts <= now
          BY DEF TimesOf
        <5>1. u \in Versions /\ manifest[u].live
          BY <2>2
        <5> QED  BY <5>1 DEF Inv, Core, VersionOk
      <4>5. /\ Max(TimesOf(old)) \in Nat /\ manifest[v].ts <= Max(TimesOf(old))
        BY <1>t, <4>3, <4>4, Greatest
      <4>6. Min(TimesOf(kept)) \in Nat
        BY <4>3, Least
      <4>7. stored[f] \in Int /\ stored[f] <= manifest[v].ts
        <5>1. VersionOk(v)
          BY <4>2 DEF Inv, Core
        <5> QED  BY <1>m, <3>1, <4>1, <5>1, Constants DEF VersionOk
      <4> QED  BY <4>2, <4>5, <4>6, <4>7
    <3> HIDE DEF referenced, verified, threshold, kept, old
    <3> QED  BY <3>1, <3>2, <3>3
  <2>12. ASSUME NEW v \in old
         PROVE  /\ v < tip /\ now - manifest[v].ts > Min(Retentions)
                /\ v \notin cleaner[c].tags
                /\ v \in cleaner[c].roots => FALSE
                /\ Expired(c, v) /\ Removable(c, v)
    <3>1. /\ v \in Versions /\ ~(cleaner[c].rv <= v) /\ Expired(c, v)
          /\ v \notin cleaner[c].tags /\ v \notin cleaner[c].roots
      BY <2>2 DEF InWorkingSet
    <3>2. v \in Nat /\ manifest[v].ts \in Nat
      BY <1>m, <3>1, Constants DEF Manifest
    <3>3. manifest[v].ts < cleaner[c].cutoff
      BY <3>1 DEF Expired
    <3>4. Removable(c, v)
      BY <1>c, <3>1, <3>2 DEF Removable
    <3> QED  BY <1>c, <1>t, <3>1, <3>2, <3>3, <3>4, Retention
  <2> HIDE DEF found, kept, old, late, stop, referenced, verified, drop, rec, threshold
  <2>13. /\ cleaner'[c] = rec /\ \A d \in Cleaners : d # c => cleaner'[d] = cleaner[d]
         /\ cleaner' \in [Cleaners -> Cleaner]
    BY <2>6, <2>10, Moved DEF Inv
  <2>14. Shape'
    BY <1>0, <2>1, <2>10, <2>13 DEF Inv, Shape
  <2>15. \A f : Committed(f)' <=> Committed(f)
    BY <1>0 DEF Committed
  <2>16. \A v : Kept(v)' <=> Kept(v) /\ v \notin old
    BY <1>0, <2>10 DEF Kept
  \* The files of the versions that are kept are not deleted
  <2>17. ASSUME NEW v \in Versions, Kept(v), v \notin old, NEW f \in manifest[v].files
         PROVE  f \notin drop
    <3>1. manifest[v].live /\ v \notin exposed
      BY <2>17 DEF Kept
    <3>2. CASE v \in cleaner[c].listed
      <4>1. v \in kept
        BY <2>1, <2>17, <3>1, <3>2
      <4> QED  BY <2>7, <2>8, <2>17, <4>1
    <3>3. CASE v \notin cleaner[c].listed
      <4>1. PICK T \in cleaner[c].listed : T <= tip /\ ListedOk(c, T)
        BY <1>0, <1>c DEF CleanerOk
      <4>2. T \in Versions /\ T \in Nat /\ v \in Nat /\ cleaner[c].rv <= T
        BY <1>c, <4>1, Constants DEF ListedOk
      <4>3. manifest[T].live
        BY <2>3, <4>1, <4>2
      <4>4. T \in kept
        <5>1. InWorkingSet(c, T)
          BY <4>2 DEF InWorkingSet
        <5> QED  BY <4>1, <4>3, <5>1 DEF kept, found
      <4>5. v > T
        BY <3>1, <3>3, <4>1, <4>2 DEF ListedOk
      <4>6. f \in manifest[T].files \/ Young(c, T, f)
        BY <2>17, <3>1, <4>1, <4>3, <4>5 DEF ListedOk
      <4>7. CASE f \in manifest[T].files
        BY <2>7, <2>8, <4>4, <4>7
      <4>8. ASSUME Young(c, T, f), f \in drop PROVE FALSE
        <5>1. f \in Files /\ stored[f] # Absent /\ stored[f] \in Nat
          BY <1>m, <2>8, <4>8
        <5>2. f \notin verified
          <6>1. \A u \in old : u \in Versions /\ u <= T
            BY <2>2, <4>1 DEF ListedOk
          <6> QED  BY <2>9, <4>8, <6>1 DEF Young
        <5>3. stored[f] < now - Threshold
          BY <2>8, <4>8, <5>2
        <5>4. stored[f] + MaxTxn >= cleaner[c].since
          BY <4>8, <5>1 DEF Young
        <5> QED  BY <1>c, <1>t, <5>1, <5>3, <5>4, Constants
      <4> QED  BY <4>6, <4>7, <4>8
    <3> QED  BY <3>2, <3>3
  <2>18. \A f : Safe(f) /\ f \notin drop => Safe(f)'
    BY <1>0, <2>6, <2>13 DEF Safe
  <2>19. \A v \in Versions : VersionOk(v)'
    BY <1>0, <2>15 DEF Inv, Core, VersionOk
  <2>20. IntactOk'
    <3> SUFFICES ASSUME NEW v \in Versions, Kept(v)', NEW f \in manifest[v].files PROVE Safe(f)'
      BY <1>0 DEF IntactOk
    <3>1. Kept(v) /\ v \notin old
      BY <2>16
    <3>2. Safe(f) /\ f \notin drop
      BY <2>17, <3>1 DEF Inv, Core, IntactOk
    <3> QED  BY <2>18, <3>2
  <2>21. TipOk'
    BY <1>0, <2>10, <2>12 DEF Inv, Core, TipOk
  <2>22. ExpiredOk'
    BY <1>0, <2>10, <2>12 DEF Inv, Core, ExpiredOk
  <2>23. ASSUME NEW t \in Txns PROVE OpenOk(t)'
    <3>1. OpenOk(t) /\ t \in Files
      BY Constants DEF Inv, Core
    <3>2. ASSUME t \in drop PROVE txn[t] # "idle" /\ (txn[t] = "open" => stored[t] < now - Threshold)
      <4>1. stored[t] # Absent /\ (stored[t] < now - Threshold \/ t \in verified)
        BY <2>8, <3>2
      <4>2. t \in verified => txn[t] = "committed"
        BY <2>1, <2>9 DEF Inv, Core, VersionOk, Committed
      <4> QED  BY <3>1, <4>1, <4>2 DEF OpenOk
    <3>3. t \notin drop /\ (\A d \in Cleaners : t \notin cleaner[d].drop)
            => \A d \in Cleaners : t \notin cleaner'[d].drop
      BY <2>6, <2>13
    <3>4. t \in drop /\ txn[t] = "open" => now > Threshold /\ now > stored[t] + Threshold
      <4>1. t \in drop => stored[t] \in Nat
        BY <1>m, <2>8, <3>1
      <4> QED  BY <1>t, <3>2, <4>1, Constants
    <3> QED  BY <1>0, <2>18, <3>1, <3>2, <3>3, <3>4 DEF OpenOk
  <2>24. RestoreOk'
    <3>1. restore.open => restore.exposed
      BY <1>0 DEF Inv, RestoreOk, Overtaken, AfterList
    <3> QED  BY <1>0, <2>15, <3>1 DEF Inv, RestoreOk
  <2>25. TagOk'
    <3>1. \A d \in Cleaners : cleaner'[d].pc \in {"list", "inspect"} => cleaner'[d] = cleaner[d]
      BY <2>6, <2>13
    <3>2. ASSUME NEW v, Spared(v) PROVE Spared(v)'
      <4>1. Kept(v) /\ (v \in cleaner[c].tags \/ ~Removable(c, v))
        BY <1>0, <3>2 DEF Spared, Missed
      <4>2. Kept(v)'
        BY <1>0, <2>10, <2>12, <4>1 DEF Kept
      <4> QED  BY <1>0, <3>1, <3>2, <4>2 DEF Spared, Missed, Removable, Expired
    <3> QED  BY <1>0, <3>2, SparedFrame DEF Inv
  <2>26. BranchOk'
    <3>1. branch.st # "none" /\ ~branch.exposed =>
            Kept(branch.root) /\ (branch.root \in cleaner[c].roots \/ ~Expired(c, branch.root))
      BY <1>0 DEF Inv, BranchOk
    <3>2. branch.st # "none" /\ ~branch.exposed => Kept(branch.root)'
      BY <1>0, <2>10, <2>12, <3>1 DEF Kept
    <3>3. \A d \in Cleaners : cleaner'[d].pc \in {"refs", "list", "inspect"} =>
                                cleaner'[d] = cleaner[d]
      BY <2>6, <2>13
    <3>4. ~Overtaken(AfterRefs) => ~Overtaken(AfterRefs)'
      BY <1>0, <2>6, <2>13 DEF Overtaken, AfterRefs
    <3> QED  BY <1>0, <3>2, <3>3, <3>4 DEF Inv, BranchOk, NoBranch, Expired
  <2>27. ASSUME NEW d \in Cleaners PROVE CleanerOk(d)'
    <3>1. CASE d = c
      <4>1. \A v \in old : v < tip /\ v \in doomed'
        BY <2>10, <2>12
      <4>2. ASSUME NEW f \in verified
            PROVE  Committed(f) /\ (f \in referenced \/ stored[f] = Absent \/ f \in drop)
        <5>1. Committed(f)
          BY <2>1, <2>9 DEF Inv, Core, VersionOk
        <5> QED  BY <2>11, <5>1
      <4> QED  BY <1>0, <2>6, <2>13, <2>15, <3>1, <4>1, <4>2 DEF CleanerOk, Reading
    <3>2. CASE d # c
      <4>0. CleanerOk(d) /\ cleaner'[d] = cleaner[d]
        BY <2>13, <3>2 DEF Inv
      <4>1. \A T : ListedOk(d, T)' <=> ListedOk(d, T)
        BY <1>0, <4>0 DEF ListedOk, Young
      <4> QED  BY <1>0, <2>10, <2>15, <4>0, <4>1 DEF CleanerOk
    <3> QED  BY <3>1, <3>2
  <2> QED  BY <2>14, <2>19, <2>20, <2>21, <2>22, <2>23, <2>24, <2>25, <2>26, <2>27 DEF Inv, Core
<1> QED  BY <1>1, <1>2

(***************************************************************************)
(* Theorems                                                                *)
(***************************************************************************)

(* Nothing happens.                                                        *)
LEMMA Stuttering ==
  ASSUME Inv, UNCHANGED vars
  PROVE  Inv'
<1>1. /\ Unmoved /\ restore' = restore /\ tag' = tag /\ tagging' = tagging
      /\ branch' = branch /\ cleaner' = cleaner
  BY DEF vars, Unmoved
<1>2. Core' /\ RestoreOk' /\ TagOk' /\ BranchOk' /\ \A c \in Cleaners : CleanerOk(c)'
  BY <1>1, CoreFrame, RestoreFrame, TagFrame, BranchFrame, CleanerFrame DEF Inv, Unmoved
<1>3. Shape'
  BY <1>1 DEF Inv, Shape, Unmoved
<1> QED  BY <1>2, <1>3 DEF Inv

(* The invariant holds in every behaviour, whatever is cleaned up when.    *)
THEOREM Invariance == Spec => []Inv
<1>1. Inv /\ [Next]_vars => Inv'
  <2> SUFFICES ASSUME Inv, [Next]_vars PROVE Inv'
    OBVIOUS
  <2>1. CASE Tick \/ RestoreCommit \/ RereadTag \/ PutTag \/ DeleteTag \/ CloneBranch \/ DeleteBranch
    BY <2>1, TickStep, RestoreCommitStep, TagStep, BranchStep
  <2>2. ASSUME NEW t \in Txns, Write(t) \/ \E append \in BOOLEAN : Commit(t, append)
        PROVE  Inv'
    BY <2>2, WriteStep, CommitStep
  <2>3. ASSUME NEW v \in Versions,
               \/ RestoreRead(v) \/ ClaimBranch(v)
               \/ \E op \in {"create", "update"} : CheckTag(op, v)
        PROVE  Inv'
    BY <2>3, RestoreReadStep, CheckTagStep, BranchStep
  <2>4. ASSUME NEW c \in Cleaners,
               \/ \E lag \in Lags, age \in Retentions : Start(c, lag, age)
               \/ ListBranches(c) \/ ReadReferences(c) \/ ListManifests(c)
               \/ \E strict \in BOOLEAN : Inspect(c, strict)
               \/ DeleteFails(c) \/ Finish(c) \/ Crash(c)
               \/ \E f \in Files : DeleteFile(c, f)
               \/ \E v \in Versions : DeleteManifest(c, v)
        PROVE  Inv'
    BY <2>4, StartStep, ListBranchesStep, ReadReferencesStep, ListManifestsStep,
       InspectStep, GiveUpStep, DeleteFileStep, DeleteManifestStep
  <2>5. CASE UNCHANGED vars
    BY <2>5, Stuttering
  <2> QED  BY <2>1, <2>2, <2>3, <2>4, <2>5 DEF Next
<1> QED  BY <1>1, InitOk, PTL DEF Spec

(* The latest version, and every one younger than the shortest retention,  *)
(* is readable whatever cleanups and commits do meanwhile (CleanupTask).   *)
THEOREM RetainedVersions == Spec => []VersionsReadable
<1>1. Inv => VersionsReadable
  <2> SUFFICES ASSUME Inv, NEW v \in 1..tip, v \notin exposed,
                      v = tip \/ now - manifest[v].ts <= Min(Retentions)
               PROVE  Readable(v)
    BY DEF VersionsReadable
  <2>1. v \in Versions /\ manifest[v].ts \in Nat /\ now \in Nat
    <3>1. v \in Versions
      BY Constants DEF Inv, Shape, Versions
    <3> QED  BY <3>1 DEF Inv, Shape, Manifest
  <2>2. v = tip => manifest[v].live /\ v \notin doomed
    BY TipKept
  <2>3. v # tip => manifest[v].live /\ v \notin doomed
    <3>1. v \in doomed \/ ~manifest[v].live => now - manifest[v].ts > Min(Retentions)
      BY DEF Inv, Core, ExpiredOk
    <3> QED  BY <2>1, <3>1, Retention
  <2>4. Kept(v)
    BY <2>1, <2>2, <2>3 DEF Kept
  <2> QED  BY <2>4 DEF Inv, Core, IntactOk, Kept, Safe, Readable
<1> QED  BY <1>1, Invariance, PTL

(* A tag keeps its version readable (CleanupInspection.tagged_old_versions)*)
(* unless it was written (Tags::create, update, replace_metadata) after a  *)
(* cleanup had read the tags that was going to remove the version.         *)
THEOREM TagsKeep == Spec => []TaggedReadable
<1>1. Inv => TaggedReadable
  BY DEF Inv, Core, TagOk, Spared, IntactOk, Kept, Safe, NoTag, Readable, TaggedReadable
<1> QED  BY <1>1, Invariance, PTL

(* A branch that was complete when the running cleanups read it keeps the  *)
(* files it shares with main (retain_branch_lineage_files).                *)
THEOREM BranchesKeep == Spec => []BranchReadable
<1>1. Inv => BranchReadable
  <2> SUFFICES ASSUME Inv, branch.st = "ready", ~branch.exposed
               PROVE  \A f \in branch.files : stored[f] # Absent
    BY DEF BranchReadable
  <2>1. Kept(branch.root) /\ branch.files = manifest[branch.root].files
    BY DEF Inv, BranchOk
  <2> QED  BY <2>1 DEF Inv, Core, IntactOk, Kept, Safe
<1> QED  BY <1>1, Invariance, PTL

(* A cleanup that removes versions without a failure removes every file    *)
(* that only they used (delete_unreferenced_files).                        *)
THEOREM NothingOrphaned == Spec => []NoOrphans
<1>1. Inv => NoOrphans
  BY DEF Inv, CleanerOk, NoOrphans, Swept
<1> QED  BY <1>1, Invariance, PTL
=============================================================================
