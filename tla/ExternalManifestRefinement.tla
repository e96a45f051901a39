--------------------- MODULE ExternalManifestRefinement ---------------------
(***************************************************************************)
(* Two results about the external manifest handler that rest on its        *)
(* inductive invariant: asking for the latest version yields one no older  *)
(* than every commit acknowledged before, and the handler implements the   *)
(* write-once version log (VersionLog).                                    *)
(***************************************************************************)
EXTENDS ExternalManifestProofs

-----------------------------------------------------------------------------
(* Freshness                                                               *)

(* The labels between the choice of a version and the end of its read.     *)
Resolving == {"adopt", "index", "head", "copy", "verify", "publish", "delete", "read"}

(* A process that resolves a version for reading resolves one no older     *)
(* than its floor, and one that falls back to a listing did so when no     *)
(* commit through the external store had been acknowledged.                *)
FreshInv ==
  \A p \in Procs :
    /\ pc[p] \in Resolving /\ mode[p] # "commit" => \A v \in floor[p] : v <= ver[p]
    /\ pc[p] = "list" => \A v \in floor[p] : v <= LegacyVersions

(* A step that leaves q's floor alone and takes q no further into a        *)
(* resolution keeps q fresh.                                               *)
Settled(q) ==
  /\ floor'[q] = floor[q]
  /\ pc'[q] \in Resolving /\ mode'[q] # "commit" =>
       pc[q] \in Resolving /\ mode[q] # "commit" /\ ver'[q] = ver[q]
  /\ pc'[q] = "list" => pc[q] = "list"

(* Every row was reserved at or above an acknowledged version; so is the   *)
(* newest row.                                                             *)
LEMMA NewestIsFresh ==
  ASSUME LegacyVersions <= 1, Inv, NEW v \in Versions, Newest(v),
         NEW u \in Acknowledged
  PROVE  u <= v
  <1>0. TypeOK /\ RowInv
    BY DEF Inv
  <1>1. CASE u \in Versions \cap 1..LegacyVersions
    BY <1>1, BoundAssumption DEF Versions
  <1>2. ASSUME NEW w \in Writers, result[w] = "ok", u = ver[w] PROVE u <= v
    <2>1. ver[w] \in Versions /\ canonical[ver[w]] = w
      BY <1>2 DEF Inv, LocalInv, ResultInv, TargetInv, Procs
    <2>2. ver[w] \in Recorded
      BY <1>0, <2>1 DEF RowInv, Recorded
    <2>3. QED
      BY <1>2, <2>2 DEF Newest
  <1>3. QED
    BY <1>1, <1>2 DEF Acknowledged

(* With no row at all, nothing beyond the legacy versions is acknowledged. *)
LEMMA NoRowNoCommit ==
  ASSUME Inv, Recorded = {}, NEW u \in Acknowledged
  PROVE  u <= LegacyVersions
  <1>0. TypeOK /\ RowInv
    BY DEF Inv
  <1>1. ASSUME NEW w \in Writers, result[w] = "ok" PROVE FALSE
    <2>1. ver[w] \in Versions /\ canonical[ver[w]] = w
      BY <1>1 DEF Inv, LocalInv, ResultInv, TargetInv, Procs
    <2>2. ver[w] \in Recorded
      BY <1>0, <2>1 DEF RowInv, Recorded
    <2>3. QED
      BY <2>2
  <1>2. u \in 1..LegacyVersions
    BY <1>1 DEF Acknowledged
  <1>3. QED
    BY <1>2, BoundAssumption

(* A query for the latest version starts fresh.                            *)
LEMMA ResolveLatestFresh ==
  ASSUME LegacyVersions <= 1, NEW p \in Procs, Inv, FreshInv, ResolveLatest(p)
  PROVE  FreshInv'
  <1>0. TypeOK
    BY DEF Inv
  <1>1. floor'[p] = Acknowledged /\ \A q \in Procs \ {p} : Settled(q)
    BY <1>0 DEF ResolveLatest, Examine, Goto, TypeOK, Settled
  <1>2. CASE Recorded = {} /\ Goto(p, "list") /\ UNCHANGED <<ver, seen>>
    <2>1. pc'[p] = "list"
      BY <1>0, <1>2 DEF Goto, TypeOK
    <2>2. \A u \in Acknowledged : u <= LegacyVersions
      BY <1>2, NoRowNoCommit
    <2>3. QED
      BY <1>1, <2>1, <2>2 DEF FreshInv, Settled, Resolving
  <1>3. ASSUME NEW v \in Versions, Newest(v), Examine(p, v, "list") PROVE FreshInv'
    <2>1. ver'[p] = v
      BY <1>0, <1>3 DEF Examine, TypeOK
    <2>2. pc'[p] # "list"
      <3>1. record[v].path \in {"staging", "final"}
        BY <1>0, <1>3 DEF Newest, Recorded, TypeOK, Records
      <3>2. CASE record[v].path = "staging"
        BY <1>0, <1>3, <3>2 DEF Examine, Goto, TypeOK
      <3>3. CASE record[v].path = "final"
        BY <1>0, <1>3, <3>3 DEF Examine, Goto, TypeOK
      <3>4. QED
        BY <3>1, <3>2, <3>3
    <2>3. \A u \in Acknowledged : u <= v
      BY <1>3, NewestIsFresh
    <2>4. QED
      BY <1>1, <2>1, <2>2, <2>3 DEF FreshInv, Settled
  <1>4. QED
    BY <1>2, <1>3 DEF ResolveLatest

(* The listing finds at least the legacy versions.                         *)
LEMMA ListLatestFresh ==
  ASSUME NEW p \in Procs, Inv, FreshInv, ListLatest(p)
  PROVE  FreshInv'
  <1>0. TypeOK /\ RowInv /\ \A u \in floor[p] : u \in Versions /\ u <= LegacyVersions
    BY DEF Inv, FreshInv, TypeOK, ListLatest
  <1>1. floor' = floor /\ \A q \in Procs \ {p} : Settled(q)
    BY <1>0 DEF ListLatest, Goto, TypeOK, Settled
  <1>2. pc'[p] = "read" => \A u \in floor[p] : u <= ver'[p]
    <2>1. SUFFICES ASSUME pc'[p] = "read" PROVE \A u \in floor[p] : u <= ver'[p]
      OBVIOUS
    <2>2. PICK v \in Listed : (\A u \in Listed : u <= v) /\ ver' = [ver EXCEPT ![p] = v]
      BY <1>0, <2>1 DEF ListLatest, Goto, TypeOK
    <2>3. floor[p] \subseteq Listed
      BY <1>0, ProcAssumption DEF RowInv, Listed
    <2>4. QED
      BY <1>0, <2>2, <2>3 DEF TypeOK
  <1>3. pc'[p] \in {"read", "stage", "idle"}
    BY <1>0 DEF ListLatest, Goto, TypeOK
  <1>4. QED
    BY <1>1, <1>2, <1>3 DEF FreshInv, Settled, Resolving

(* Every other step keeps every process fresh.                             *)
LEMMA NextFresh ==
  ASSUME LegacyVersions <= 1, Inv, FreshInv, [Next]_vars
  PROVE  FreshInv'
  <1>0. TypeOK /\ \A q \in Procs : ProcInv(q)
    BY DEF Inv, LocalInv
  <1>1. ASSUME \A q \in Procs : Settled(q) PROVE FreshInv'
    BY <1>1 DEF FreshInv, Settled
  <1>2. ASSUME NEW p \in Procs, NEW v \in Versions, ResolveVersion(p, v) PROVE FreshInv'
    <2>1. floor'[p] = {} /\ \A q \in Procs \ {p} : Settled(q)
      BY <1>0, <1>2 DEF ResolveVersion, Examine, Goto, TypeOK, Settled
    <2>2. QED
      BY <2>1 DEF FreshInv, Settled
  <1>3. ASSUME NEW p \in Procs,
               \/ FindUnrecorded(p) \/ ResolveError(p)
               \/ HeadFinal(p) \/ HeadCopied(p) \/ ReadManifest(p) \/ CopyStaging(p)
        PROVE  FreshInv'
    <2>1. /\ UNCHANGED <<mode, ver, floor>> /\ pc[p] # "done"
          /\ pc'[p] \in {"idle", "recheck", "done", "index", "read", "verify", "publish",
                         "catchup"}
          /\ pc'[p] \in Resolving => pc[p] \in Resolving
          /\ \A q \in Procs \ {p} : pc'[q] = pc[q]
      <3>1. CASE Fail(p)
        BY <1>0, <1>3, <3>1, FailEffect
        DEF FindUnrecorded, ResolveError, HeadFinal, HeadCopied, ReadManifest, CopyStaging,
            Resolving
      <3>2. CASE ~Fail(p)
        BY <1>0, <1>3, <3>2
        DEF FindUnrecorded, ResolveError, HeadFinal, HeadCopied, ReadManifest, CopyStaging,
            Goto, Report, TypeOK, Resolving
      <3>3. QED
        BY <3>1, <3>2
    <2>2. QED
      BY <1>1, <2>1 DEF Settled
  <1>4. ASSUME NEW p \in Procs, IndexUnrecorded(p) PROVE FreshInv'
    BY <1>0, <1>1, <1>4 DEF IndexUnrecorded, Goto, TypeOK, Settled, Resolving
  <1>5. ASSUME NEW p \in Procs, PublishFinal(p) \/ DeleteStaged(p) PROVE FreshInv'
    BY <1>0, <1>1, <1>5
    DEF PublishFinal, DeleteStaged, Finalized, Report, Goto, TypeOK, Settled, Resolving
  <1>6. ASSUME NEW w \in Writers, Commit(w) PROVE FreshInv'
    <2>1. w \in Procs
      BY DEF Procs
    <2>2. CASE CatchUp(w)
      BY <1>0, <1>1, <2>1, <2>2 DEF CatchUp, Goto, TypeOK, Settled, Resolving
    <2>3. CASE StageManifest(w) \/ LoseOrRetain(w) \/ DropStaging(w)
      BY <1>0, <1>1, <2>1, <2>3
      DEF StageManifest, LoseOrRetain, DropStaging, Goto, TypeOK, Settled, Resolving
    <2>4. CASE ReserveVersion(w)
      BY <1>0, <1>1, <2>1, <2>4 DEF ReserveVersion, AfterReserve, Goto, TypeOK, Settled, ProcInv
    <2>5. QED
      BY <1>6, <2>2, <2>3, <2>4 DEF Commit
  <1>7. ASSUME NEW p \in Procs, Crash(p) PROVE FreshInv'
    BY <1>0, <1>1, <1>7 DEF Crash, Goto, TypeOK, Settled, Resolving
  <1>8. ASSUME NEW w \in Writers, ApplyLate(w) PROVE FreshInv'
    BY <1>1, <1>8 DEF ApplyLate, local, Settled
  <1>9. CASE UNCHANGED vars
    BY <1>1, <1>9 DEF vars, Settled
  <1>10. QED
    BY <1>2, <1>3, <1>4, <1>5, <1>6, <1>7, <1>8, <1>9, ResolveLatestFresh, ListLatestFresh
    DEF Next, Step

(* resolve_latest_location returns a version no older than every commit    *)
(* acknowledged before it was called.                                      *)
THEOREM FreshReads ==
  ASSUME LegacyVersions <= 1
  PROVE  Spec => []LatestIsFresh
  <1>1. Init => FreshInv
    BY DEF Init, FreshInv
  <1>2. Inv /\ FreshInv /\ [Next]_vars => FreshInv'
    BY NextFresh
  <1>3. Inv /\ FreshInv => LatestIsFresh
    BY DEF Inv, LocalInv, ProcInv, FreshInv, LatestIsFresh, Resolving
  <1>4. QED
    BY <1>1, <1>2, <1>3, Invariance, PTL DEF Spec

-----------------------------------------------------------------------------
(* The refinement of VersionLog                                            *)

(* The manifest that owns version v: the one its row selects, or the       *)
(* object itself for a version without a row.                              *)
Owner(v) == IF record[v].path = "none" THEN canonical[v] ELSE record[v].of

chosenBar == [v \in Versions |-> Owner(v)]

(* A writer that has been told nothing is told something.                  *)
Reports(w) ==
  /\ result[w] = "none"
  /\ \E x \in {"ok", "lost", "unknown"} : result' = [result EXCEPT ![w] = x]

(* A step that changes no owner, and tells at most one writer its outcome, *)
(* is a step of the log: the invariant makes the outcome true.             *)
LEMMA QuietStep ==
  ASSUME Inv, Inv', \A v \in Versions : Owner(v)' = Owner(v),
         result' = result \/ \E w \in Writers : Reports(w)
  PROVE  [Log!Next]_(Log!vars)
  <1>1. chosenBar' = chosenBar
    BY DEF chosenBar
  <1>2. CASE result' = result
    BY <1>1, <1>2 DEF Log!vars, chosenBar, Owner
  <1>3. ASSUME NEW w \in Writers, Reports(w) PROVE Log!Report(w)
    <2>0. TypeOK /\ RowInv' /\ OutcomesAreTrue' /\ TypeOK'
      BY InvOutcomes, PTL DEF Inv
    <2>1. PICK x \in {"ok", "lost", "unknown"} : result' = [result EXCEPT ![w] = x]
      BY <1>3 DEF Reports
    <2>2. result'[w] = x /\ result[w] = "none"
      BY <1>3, <2>0, <2>1 DEF TypeOK, Reports
    <2>3. CASE x = "unknown"
      BY <1>1, <2>1, <2>2, <2>3 DEF Log!Report, chosenBar, Owner
    <2>4. CASE x = "ok"
      <3>1. PICK v \in Versions : canonical'[v] = w
        BY <2>0, <2>2, <2>4 DEF OutcomesAreTrue, Inv, LocalInv, ResultInv, TargetInv, Procs
      <3>2. Owner(v)' = w
        BY <2>0, <3>1, ProcAssumption DEF Owner, RowInv, TypeOK, Records, Procs
      <3>3. chosenBar[v] = w
        BY <3>2 DEF chosenBar
      <3>4. QED
        BY <1>1, <2>1, <2>2, <2>4, <3>1, <3>3
        DEF Log!Report, Log!Versions, Versions, chosenBar, Owner
    <2>5. CASE x = "lost"
      <3>1. \A v \in Versions : chosenBar[v] # w
        BY <1>1, <2>0, <2>2, <2>5 DEF OutcomesAreTrue, chosenBar, Owner
      <3>2. QED
        BY <1>1, <2>1, <2>2, <2>5, <3>1
        DEF Log!Report, Log!Versions, Versions, chosenBar, Owner
    <2>6. QED
      BY <2>1, <2>3, <2>4, <2>5
  <1>4. QED
    BY <1>2, <1>3 DEF Log!Next

(* Only a process that has reported nothing reports.                       *)
LEMMA FailReports ==
  ASSUME NEW p \in Procs, Inv, Fail(p), pc[p] # "done"
  PROVE  result' = result \/ \E w \in Writers : Reports(w)
  <1>1. CASE p \in Writers
    <2>1. result[p] = "none"
      BY <1>1 DEF Inv, LocalInv, ResultInv
    <2>2. QED
      BY <1>1, <2>1, ProcAssumption DEF Fail, VerifyFailed, Report, Reports
  <1>2. CASE p \notin Writers
    BY <1>2 DEF Fail
  <1>3. QED
    BY <1>1, <1>2

(* ... and neither does finalizing report twice.                           *)
LEMMA FinalizedReports ==
  ASSUME NEW p \in Procs, Inv, Finalized(p), pc[p] # "done"
  PROVE  result' = result \/ \E w \in Writers : Reports(w)
  BY DEF Inv, LocalInv, ResultInv, Finalized, Report, Reports

(* A reservation that takes effect decides the version in favour of its    *)
(* writer; one that finds a row changes nothing.                           *)
LEMMA ReservedChooses ==
  ASSUME NEW w \in Writers, Inv, mode[w] # "open", record' = Reserved(w),
         UNCHANGED <<canonical, result>>
  PROVE  [Log!Next]_(Log!vars)
  <1>0. /\ TypeOK /\ RowInv /\ OwnerInv(w) /\ TargetInv(w) /\ ResultInv(w)
        /\ ver[w] \in Versions /\ ver[w] > LegacyVersions /\ w # NoManifest
    BY ProcAssumption DEF Inv, LocalInv, TargetInv, Procs
  <1>1. CASE record[ver[w]].path # "none"
    BY <1>1 DEF Reserved, Log!vars
  <1>2. CASE record[ver[w]].path = "none"
    <2>1. canonical[ver[w]] = NoManifest
      <3>1. canonical[ver[w]] # LegacyManifest
        BY <1>0, BoundAssumption DEF RowInv, Versions
      <3>2. QED
        BY <1>0, <1>2, <3>1 DEF TypeOK, RowInv, Manifests
    <2>2. chosenBar[ver[w]] = NoManifest
      BY <1>0, <1>2, <2>1 DEF chosenBar, Owner
    <2>3. ASSUME NEW u \in Versions PROVE chosenBar[u] # w
      <3>1. record[u].of # w
        <4>1. SUFFICES ASSUME record[u].of = w PROVE FALSE
          OBVIOUS
        <4>2. ver[w] = u
          BY <1>0, <4>1 DEF OwnerInv
        <4>3. QED
          BY <1>0, <1>2, <4>1, <4>2 DEF RowInv
      <3>2. record[u].path = "none" => canonical[u] # w
        BY <1>0 DEF RowInv
      <3>3. QED
        BY <3>1, <3>2 DEF chosenBar, Owner
    <2>4. result[w] \in {"none", "unknown"}
      <3>1. result[w] # "ok" /\ result[w] # "lost"
        BY <1>0, <2>1 DEF ResultInv
      <3>2. QED
        BY <1>0, <3>1 DEF TypeOK
    <2>5. chosenBar' = [chosenBar EXCEPT ![ver[w]] = w]
      <3>1. ASSUME NEW u \in Versions
            PROVE  Owner(u)' = IF u = ver[w] THEN w ELSE Owner(u)
        BY <1>0, <1>2 DEF Reserved, StagingOf, Owner, TypeOK
      <3>2. QED
        BY <1>0, <3>1 DEF chosenBar
    <2>6. PICK v \in Log!Versions : v = ver[w]
      BY <1>0 DEF Log!Versions, Versions
    <2>7. Log!Choose(w, v)
      BY <2>2, <2>3, <2>4, <2>5, <2>6
      DEF Log!Choose, Log!Versions, Versions, chosenBar, Owner
    <2>8. QED
      BY <2>7 DEF Log!Next
  <1>3. QED
    BY <1>1, <1>2

(* Every step of the handler is a step of the log or changes nothing of    *)
(* it.                                                                     *)
LEMMA NextRefines ==
  ASSUME Inv, Inv', [Next]_vars
  PROVE  [Log!Next]_(Log!vars)
  <1>0. TypeOK /\ RowInv /\ \A q \in Procs : ProcInv(q)
    BY DEF Inv, LocalInv
  <1>1. ASSUME record' = record, canonical' = canonical,
               result' = result \/ \E w \in Writers : Reports(w)
        PROVE  [Log!Next]_(Log!vars)
    BY <1>1, QuietStep DEF Owner
  <1>2. ASSUME NEW p \in Procs,
               \/ ResolveLatest(p) \/ ListLatest(p) \/ FindUnrecorded(p)
               \/ (\E v \in Versions : ResolveVersion(p, v))
               \/ ResolveError(p) \/ HeadFinal(p) \/ HeadCopied(p) \/ Crash(p)
        PROVE  [Log!Next]_(Log!vars)
    <2>1. record' = record /\ canonical' = canonical
      BY <1>2
      DEF ResolveLatest, ListLatest, FindUnrecorded, ResolveVersion, ResolveError,
          HeadFinal, HeadCopied, Crash, store
    <2>2. result' = result \/ (Fail(p) /\ pc[p] # "done")
      BY <1>2
      DEF ResolveLatest, ListLatest, FindUnrecorded, ResolveVersion, ResolveError,
          HeadFinal, HeadCopied, Crash
    <2>3. QED
      BY <1>1, <2>1, <2>2, FailReports
  <1>3. ASSUME NEW p \in Procs, ReadManifest(p) PROVE [Log!Next]_(Log!vars)
    <2>1. record' = record /\ canonical' = canonical /\ pc[p] = "read"
      BY <1>3 DEF ReadManifest, store
    <2>2. CASE p \in Writers /\ Report(p, Verdict(p))
      <3>1. result[p] = "none"
        BY <2>1, <2>2 DEF Inv, LocalInv, ResultInv
      <3>2. Verdict(p) \in {"ok", "lost", "unknown"}
        BY DEF Verdict
      <3>3. Reports(p)
        BY <2>2, <3>1, <3>2 DEF Report, Reports
      <3>4. QED
        BY <1>1, <2>1, <2>2, <3>3
    <2>3. CASE Fail(p) \/ result' = result
      BY <1>1, <2>1, <2>3, FailReports
    <2>4. QED
      BY <1>3, <2>2, <2>3 DEF ReadManifest
  <1>4. ASSUME NEW p \in Procs, IndexUnrecorded(p) PROVE [Log!Next]_(Log!vars)
    <2>1. ver[p] \in Versions /\ seen[p] = FinalOf(canonical[ver[p]])
      BY <1>0, <1>4 DEF IndexUnrecorded, ProcInv
    <2>2. \A v \in Versions : Owner(v)' = Owner(v)
      BY <1>0, <1>4, <2>1 DEF IndexUnrecorded, Owner, FinalOf, TypeOK
    <2>3. QED
      BY <1>4, <2>2, QuietStep DEF IndexUnrecorded
  <1>5. ASSUME NEW p \in Procs, CopyStaging(p) PROVE [Log!Next]_(Log!vars)
    <2>1. ver[p] \in Versions /\ record[ver[p]].path # "none"
      BY <1>0, <1>5 DEF CopyStaging, ProcInv
    <2>2. \A v \in Versions : Owner(v)' = Owner(v)
      BY <1>0, <1>5, <2>1 DEF CopyStaging, Owner, TypeOK
    <2>3. result' = result \/ \E w \in Writers : Reports(w)
      BY <1>5, FailReports DEF CopyStaging
    <2>4. QED
      BY <2>2, <2>3, QuietStep
  <1>6. ASSUME NEW p \in Procs, PublishFinal(p) \/ DeleteStaged(p)
        PROVE  [Log!Next]_(Log!vars)
    <2>1. ver[p] \in Versions /\ record[ver[p]].path # "none"
            /\ record[ver[p]].of = seen[p].of
      BY <1>0, <1>6 DEF PublishFinal, DeleteStaged, ProcInv
    <2>2. \A v \in Versions : Owner(v)' = Owner(v)
      BY <1>0, <1>6, <2>1 DEF PublishFinal, DeleteStaged, Owner, FinalOf, TypeOK
    <2>3. result' = result \/ \E w \in Writers : Reports(w)
      BY <1>6, FinalizedReports DEF PublishFinal, DeleteStaged
    <2>4. QED
      BY <2>2, <2>3, QuietStep
  <1>7. ASSUME NEW w \in Writers,
               CatchUp(w) \/ StageManifest(w) \/ LoseOrRetain(w) \/ DropStaging(w)
        PROVE  [Log!Next]_(Log!vars)
    BY <1>1, <1>7 DEF CatchUp, StageManifest, LoseOrRetain, DropStaging, store
  <1>8. ASSUME NEW w \in Writers, ReserveVersion(w) PROVE [Log!Next]_(Log!vars)
    <2>1. mode[w] # "open"
      BY <1>0, <1>8 DEF ReserveVersion, ProcInv, Procs
    <2>2. /\ UNCHANGED <<canonical, result>>
          /\ record' = Reserved(w) \/ record' = record
      BY <1>8 DEF ReserveVersion
    <2>3. QED
      BY <1>1, <2>1, <2>2, ReservedChooses
  <1>9. ASSUME NEW w \in Writers, ApplyLate(w) PROVE [Log!Next]_(Log!vars)
    <2>1. mode[w] # "open"
      BY <1>9 DEF ApplyLate, Inv, LocalInv, OwnerInv, Procs
    <2>2. QED
      BY <1>9, <2>1, ReservedChooses DEF ApplyLate, local
  <1>10. CASE UNCHANGED vars
    BY <1>1, <1>10 DEF vars
  <1>11. QED
    BY <1>2, <1>3, <1>4, <1>5, <1>6, <1>7, <1>8, <1>9, <1>10 DEF Next, Step, Commit

(* The handler implements the write-once version log: every version is     *)
(* decided once, by its row, and every report agrees with the decision.    *)
THEOREM Refinement ==
  ASSUME LegacyVersions <= 1
  PROVE  Spec => ImplementsVersionLog
  <1>1. Init => Log!Init
    BY DEF Init, Log!Init, Log!Versions, Versions, NoRecord
  <1>2. Inv /\ Inv' /\ [Next]_vars => [Log!Next]_(Log!vars)
    BY NextRefines
  <1>3. QED
    BY <1>1, <1>2, Invariance, PTL DEF Spec, ImplementsVersionLog, Log!Spec
=============================================================================
