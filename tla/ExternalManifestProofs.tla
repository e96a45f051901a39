----------------------- MODULE ExternalManifestProofs -----------------------
(***************************************************************************)
(* Safety of the external manifest handler for any set of writers and      *)
(* readers, any number of versions and any number of faults, provided at   *)
(* most one version predates the external store.                           *)
(*                                                                         *)
(* The inductive invariant Inv has a part about the stores (RowInv,        *)
(* OrderInv) and a part about each process (LocalInv).  A step of process  *)
(* p that leaves the stores alone cannot disturb another process           *)
(* (LocalStep); the steps that write to a store are treated one by one.    *)
(***************************************************************************)
EXTENDS ExternalManifest, TLAPS

(* Rows and canonical objects agree: a row selects one manifest, the       *)
(* canonical object is that manifest or is missing, and while it is        *)
(* missing the staged object survives.                                     *)
RowInv ==
  \A v \in Versions :
    /\ record[v].path = "none" => record[v].of = NoManifest
    /\ record[v].path = "staging" =>
         /\ record[v].of \in Writers
         /\ canonical[v] \in {NoManifest, record[v].of}
         /\ canonical[v] = NoManifest => record[v].of \in staging
    /\ record[v].path = "final" =>
         canonical[v] = record[v].of /\ canonical[v] # NoManifest
    /\ canonical[v] \in Writers => record[v].path # "none"
    /\ canonical[v] = LegacyManifest <=> v <= LegacyVersions

(* Versions are reserved and materialized in order.                        *)
OrderInv ==
  \A u, v \in Versions :
    u < v /\ (canonical[v] # NoManifest \/ record[v].path # "none")
      => canonical[u] # NoManifest

(* A writer owns only the version it targets, and a reservation of its in  *)
(* flight still has its staged object if it can win.                       *)
OwnerInv(w) ==
  /\ \A v \in Versions : record[v].of = w => mode[w] # "open" /\ ver[w] = v
  /\ pc[w] = "reserve" =>
       w \in staging /\ w \notin late /\ \A v \in Versions : record[v].of # w
  /\ w \in late =>
       /\ mode[w] # "open"
       /\ record[ver[w]].path = "none" => w \in staging
  /\ pc[w] = "drop" =>
       record[ver[w]].path # "none" /\ record[ver[w]] # StagingOf(w)

(* The version a writer targets did not predate the store, and everything  *)
(* below it is materialized.                                               *)
TargetInv(w) ==
  pc[w] = "stage" \/ mode[w] # "open" =>
    /\ ver[w] \in Versions
    /\ ver[w] > LegacyVersions
    /\ \A u \in Versions : u < ver[w] => canonical[u] # NoManifest

(* What a writer has been told, and how often it looked.                   *)
ResultInv(w) ==
  /\ result[w] # "none" => pc[w] = "done"
  /\ result[w] = "ok" => mode[w] # "open" /\ canonical[ver[w]] = w
  /\ result[w] = "lost" /\ mode[w] # "open" =>
       canonical[ver[w]] \notin {w, NoManifest}
  /\ pc[w] # "done" => tries[w] < VerifyAttempts

(* Where a process is, given its mode, and what it knows there.            *)
ProcInv(p) ==
  /\ pc[p] \in {"list", "catchup", "stage"} => mode[p] = "open"
  /\ pc[p] \in {"reserve", "recheck", "drop"} => mode[p] = "commit"
  /\ pc[p] \in {"catchup", "stage"} => p \in Writers
  /\ mode[p] # "open" => p \in Writers
  /\ pc[p] \in {"idle", "adopt", "index", "head", "read"} => mode[p] # "commit"
  /\ pc[p] \in {"adopt", "index", "head", "copy", "verify", "publish", "delete",
                "read", "catchup"} => ver[p] \in Versions
  /\ pc[p] \in {"copy", "verify", "publish", "delete"} =>
       /\ seen[p].of \in Writers
       /\ record[ver[p]].path # "none"
       /\ record[ver[p]].of = seen[p].of
       /\ mode[p] = "commit" => seen[p].of = p
  /\ pc[p] \in {"verify", "publish", "delete"} => canonical[ver[p]] = seen[p].of
  /\ pc[p] = "delete" => record[ver[p]].path = "final"
  /\ pc[p] \in {"index", "head"} => seen[p] = FinalOf(canonical[ver[p]])
  /\ pc[p] \in {"index", "head", "read", "catchup"} => canonical[ver[p]] # NoManifest

LocalInv(p) ==
  /\ ProcInv(p)
  /\ p \in Writers => OwnerInv(p) /\ TargetInv(p) /\ ResultInv(p)

(* The inductive invariant.                                                *)
Inv ==
  /\ TypeOK
  /\ RowInv
  /\ OrderInv
  /\ \A p \in Procs : LocalInv(p)

-----------------------------------------------------------------------------
(* Rows of the three kinds are records of the right type.                  *)
LEMMA RecordsTyped ==
  /\ NoRecord \in Records
  /\ \A m \in Manifests : FinalOf(m) \in Records /\ StagingOf(m) \in Records
  BY DEF Records, NoRecord, FinalOf, StagingOf, Manifests

(* Acknowledged commits are versions.                                      *)
LEMMA AckTyped == Inv => Acknowledged \subseteq Versions
  BY BoundAssumption
  DEF Inv, TypeOK, Acknowledged, LocalInv, ResultInv, TargetInv, Procs, Versions

(* The initial state satisfies the invariant.                              *)
LEMMA InitInv == Init => Inv
  <1> SUFFICES ASSUME Init PROVE Inv
    OBVIOUS
  <1>1. TypeOK
    <2>1. record \in [Versions -> Records] /\ seen \in [Procs -> Records]
      BY RecordsTyped DEF Init
    <2>2. canonical \in [Versions -> Manifests \cup {NoManifest}]
      BY DEF Init, Manifests
    <2>3. QED
      BY <2>1, <2>2, BoundAssumption DEF Init, TypeOK, Labels
  <1>2. RowInv
    BY ProcAssumption, BoundAssumption DEF Init, RowInv, NoRecord, Procs, Versions
  <1>3. OrderInv
    BY ProcAssumption, BoundAssumption DEF Init, OrderInv, NoRecord, Versions
  <1>4. ASSUME NEW p \in Procs PROVE LocalInv(p)
    <2>1. ProcInv(p)
      BY DEF Init, ProcInv
    <2>2. ASSUME p \in Writers PROVE OwnerInv(p)
      BY <2>2, ProcAssumption DEF Init, OwnerInv, NoRecord, Procs
    <2>3. TargetInv(p)
      BY DEF Init, TargetInv
    <2>4. ASSUME p \in Writers PROVE ResultInv(p)
      <3>1. result[p] = "none" /\ tries[p] = 0
        BY <2>4 DEF Init
      <3>2. 0 < VerifyAttempts
        BY BoundAssumption
      <3>3. QED
        BY <3>1, <3>2 DEF ResultInv
    <2>5. QED
      BY <2>1, <2>2, <2>3, <2>4 DEF LocalInv
  <1>5. QED
    BY <1>1, <1>2, <1>3, <1>4 DEF Inv

(* A process the step does not touch.                                      *)
Same(q) ==
  /\ pc'[q] = pc[q]
  /\ mode'[q] = mode[q]
  /\ ver'[q] = ver[q]
  /\ seen'[q] = seen[q]
  /\ q \in Writers => tries'[q] = tries[q] /\ result'[q] = result[q]

(* A step that leaves the stores alone preserves the invariant of every    *)
(* process it does not touch.                                              *)
LEMMA LocalStep ==
  ASSUME NEW p \in Procs, Inv, UNCHANGED store, TypeOK', LocalInv(p)',
         \A q \in Procs \ {p} : Same(q)
  PROVE  Inv'
  <1>1. RowInv' /\ OrderInv'
    BY DEF Inv, RowInv, OrderInv, store
  <1>2. ASSUME NEW q \in Procs \ {p} PROVE LocalInv(q)'
    <2>1. ProcInv(q)'
      BY <1>2 DEF Inv, LocalInv, ProcInv, Same, store
    <2>2. ASSUME q \in Writers PROVE OwnerInv(q)' /\ TargetInv(q)'
      BY <1>2, <2>2 DEF Inv, LocalInv, OwnerInv, TargetInv, Same, store
    <2>3. ASSUME q \in Writers PROVE ResultInv(q)'
      BY <1>2, <2>3 DEF Inv, LocalInv, ResultInv, Same, store
    <2>4. QED
      BY <2>1, <2>2, <2>3 DEF LocalInv
  <1>3. QED
    BY <1>1, <1>2 DEF Inv

(* What a failed request does to the process that issued it.               *)
LEMMA FailEffect ==
  ASSUME NEW p \in Procs, Inv, Fail(p), pc[p] # "done"
  PROVE  /\ mode' = mode
         /\ pc' \in [Procs -> Labels]
         /\ tries' \in [Writers -> 0..VerifyAttempts]
         /\ result' \in [Writers -> {"none", "ok", "lost", "unknown"}]
         /\ \A q \in Procs \ {p} : pc'[q] = pc[q]
         /\ \A w \in Writers \ {p} : tries'[w] = tries[w] /\ result'[w] = result[w]
         /\ pc'[p] \in {"idle", "recheck", "done"}
         /\ pc'[p] = "recheck" => p \in Writers /\ mode[p] = "commit"
         /\ pc'[p] = "idle" => mode[p] # "commit"
         /\ p \in Writers =>
              /\ result'[p] # "none" => pc'[p] = "done"
              /\ result'[p] # "ok"
              /\ result'[p] = "lost" => mode[p] = "open"
              /\ pc'[p] # "done" => tries'[p] < VerifyAttempts
  <1> USE DEF Goto, Report
  <1>0. /\ TypeOK
        /\ ProcInv(p)
        /\ p \in Writers => ResultInv(p)
    BY DEF Inv, LocalInv
  <1>1. CASE p \in Readers /\ Goto(p, "idle") /\ UNCHANGED <<mode, tries, result>>
    BY <1>0, <1>1, ProcAssumption DEF TypeOK, Labels, ProcInv
  <1>2. CASE p \in Writers /\ mode[p] = "open" /\ Report(p, "lost") /\ UNCHANGED <<mode, tries>>
    BY <1>0, <1>2 DEF TypeOK, Labels
  <1>3. CASE p \in Writers /\ mode[p] = "commit" /\ Goto(p, "recheck")
               /\ UNCHANGED <<mode, tries, result>>
    BY <1>0, <1>3 DEF TypeOK, Labels, ResultInv
  <1>4. CASE p \in Writers /\ mode[p] = "verify" /\ VerifyFailed(p) /\ UNCHANGED mode
    <2>1. tries[p] \in Nat /\ tries[p] < VerifyAttempts /\ result[p] = "none"
      BY <1>0, <1>4 DEF TypeOK, ResultInv
    <2>2. /\ tries' \in [Writers -> 0..VerifyAttempts]
          /\ tries'[p] = tries[p] + 1
          /\ \A w \in Writers \ {p} : tries'[w] = tries[w]
      BY <1>0, <1>4, <2>1, BoundAssumption DEF TypeOK, VerifyFailed
    <2>3. CASE tries[p] + 1 >= VerifyAttempts
      BY <1>0, <1>4, <2>1, <2>2, <2>3 DEF TypeOK, Labels, VerifyFailed
    <2>4. CASE ~(tries[p] + 1 >= VerifyAttempts)
      <3>1. tries'[p] < VerifyAttempts
        BY <2>1, <2>2, <2>4, BoundAssumption
      <3>2. QED
        BY <1>0, <1>4, <2>1, <2>2, <2>4, <3>1 DEF TypeOK, Labels, VerifyFailed
    <2>5. QED
      BY <2>3, <2>4
  <1>5. QED
    BY <1>1, <1>2, <1>3, <1>4 DEF Fail

(* A process whose request failed, and which changed nothing else, keeps   *)
(* its part of the invariant.                                              *)
LEMMA FailStep ==
  ASSUME NEW p \in Procs, Inv, Fail(p), pc[p] \notin {"done", "stage", "drop", "reserve"},
         UNCHANGED <<store, ver, seen, floor>>, faults' \in 0..MaxFaults
  PROVE  Inv'
  <1>1. TypeOK'
    BY FailEffect DEF Inv, TypeOK, store
  <1>2. \A q \in Procs \ {p} : Same(q)
    BY FailEffect DEF Same
  <1>3. ProcInv(p)'
    BY FailEffect DEF Inv, LocalInv, ProcInv
  <1>4. ASSUME p \in Writers PROVE OwnerInv(p)' /\ TargetInv(p)' /\ ResultInv(p)'
    <2>1. OwnerInv(p)'
      BY <1>4, FailEffect DEF Inv, LocalInv, OwnerInv, store
    <2>2. TargetInv(p)'
      BY <1>4, FailEffect DEF Inv, LocalInv, TargetInv, store
    <2>3. ResultInv(p)'
      BY <1>4, FailEffect DEF ResultInv
    <2>4. QED
      BY <2>1, <2>2, <2>3
  <1>5. QED
    BY <1>1, <1>2, <1>3, <1>4, LocalStep DEF LocalInv

-----------------------------------------------------------------------------
(* Acting on the row of version v keeps the invariant.                     *)
LEMMA ExamineStep ==
  ASSUME NEW p \in Procs, NEW v \in Versions, NEW missing \in {"list", "adopt"},
         Inv, pc[p] = "idle", mode[p] # "open" => v = ver[p],
         missing = "list" => record[v].path # "none",
         Examine(p, v, missing), floor' \in [Procs -> SUBSET Versions],
         UNCHANGED <<store, mode, tries, result, faults>>
  PROVE  Inv'
  <1>0. TypeOK /\ RowInv /\ LocalInv(p) /\ record[v] \in Records
    BY DEF Inv, TypeOK
  <1>1. /\ pc' \in [Procs -> Labels]
        /\ pc'[p] \in {missing, "head", "copy"}
        /\ pc'[p] = missing <=> record[v].path = "none"
        /\ pc'[p] = "head" <=> record[v].path = "final"
        /\ pc'[p] = "copy" <=> record[v].path = "staging"
        /\ \A q \in Procs \ {p} : pc'[q] = pc[q]
    <2>1. record[v].path \in {"none", "staging", "final"}
      BY <1>0 DEF Records
    <2>3. CASE record[v].path = "none"
      BY <1>0, <2>3 DEF Examine, Goto, TypeOK, Labels
    <2>4. CASE record[v].path = "staging"
      BY <1>0, <2>4 DEF Examine, Goto, TypeOK, Labels
    <2>5. CASE record[v].path = "final"
      BY <1>0, <2>5 DEF Examine, Goto, TypeOK, Labels
    <2>6. QED
      BY <2>1, <2>3, <2>4, <2>5
  <1>2. /\ ver' \in [Procs -> 0..MaxVersion] /\ ver'[p] = v
        /\ seen' \in [Procs -> Records] /\ seen'[p] = record[v]
        /\ \A q \in Procs \ {p} : ver'[q] = ver[q] /\ seen'[q] = seen[q]
    BY <1>0 DEF Examine, TypeOK, Versions
  <1>3. TypeOK'
    BY <1>0, <1>1, <1>2 DEF TypeOK, store
  <1>4. ProcInv(p)'
    <2>1. record[v].path = "final" =>
            record[v] = FinalOf(canonical[v]) /\ canonical[v] # NoManifest
      BY <1>0 DEF RowInv, FinalOf, Records
    <2>2. record[v].path = "staging" => record[v].of \in Writers
      BY <1>0 DEF RowInv
    <2>3. mode[p] # "commit" /\ (mode[p] # "open" => p \in Writers)
      BY <1>0 DEF LocalInv, ProcInv
    <2>4. pc'[p] = "list" => FALSE
      BY <1>1
    <2>5. QED
      BY <1>1, <1>2, <2>1, <2>2, <2>3, <2>4 DEF ProcInv, store
  <1>5. ASSUME p \in Writers PROVE OwnerInv(p)' /\ TargetInv(p)' /\ ResultInv(p)'
    <2>1. OwnerInv(p)'
      BY <1>0, <1>1, <1>2, <1>5 DEF LocalInv, OwnerInv, store
    <2>2. TargetInv(p)'
      BY <1>0, <1>1, <1>2, <1>5 DEF LocalInv, TargetInv, store
    <2>3. ResultInv(p)'
      BY <1>0, <1>1, <1>2, <1>5 DEF LocalInv, ResultInv, store
    <2>4. QED
      BY <2>1, <2>2, <2>3
  <1>6. \A q \in Procs \ {p} : Same(q)
    BY <1>1, <1>2 DEF Same
  <1>7. QED
    BY <1>3, <1>4, <1>5, <1>6, LocalStep DEF LocalInv

(* A step of p to another label that changes neither the stores nor        *)
(* anything else of p keeps the invariant if the label is right for p.     *)
LEMMA GotoStep ==
  ASSUME NEW p \in Procs, NEW label \in Labels, Inv, pc[p] # "done",
         label \notin {"reserve", "drop", "stage"}, Goto(p, label), ProcInv(p)',
         floor' \in [Procs -> SUBSET Versions], faults' \in 0..MaxFaults,
         UNCHANGED <<store, mode, ver, seen, tries, result>>
  PROVE  Inv'
  <1>1. /\ pc' \in [Procs -> Labels] /\ pc'[p] = label
        /\ \A q \in Procs \ {p} : pc'[q] = pc[q]
    BY DEF Inv, TypeOK, Goto
  <1>2. TypeOK'
    BY <1>1 DEF Inv, TypeOK, store
  <1>3. \A q \in Procs \ {p} : Same(q)
    BY <1>1 DEF Same
  <1>4. ASSUME p \in Writers PROVE OwnerInv(p)' /\ TargetInv(p)' /\ ResultInv(p)'
    BY <1>1, <1>4 DEF Inv, LocalInv, OwnerInv, TargetInv, ResultInv, store
  <1>5. QED
    BY <1>2, <1>3, <1>4, LocalStep DEF LocalInv

(* resolve_latest_location preserves the invariant.                        *)
LEMMA ResolveLatestInv ==
  ASSUME NEW p \in Procs, Inv, ResolveLatest(p)
  PROVE  Inv'
  <1>0. TypeOK /\ LocalInv(p)
    BY DEF Inv
  <1>1. floor' \in [Procs -> SUBSET Versions]
    BY <1>0, AckTyped DEF ResolveLatest, TypeOK
  <1>2. CASE Goto(p, "list") /\ UNCHANGED <<ver, seen>>
    <2>1. ProcInv(p)'
      BY <1>0, <1>2 DEF ResolveLatest, LocalInv, ProcInv, Goto, TypeOK
    <2>2. QED
      BY <1>0, <1>1, <1>2, <2>1, GotoStep DEF ResolveLatest, Labels, TypeOK
  <1>3. ASSUME NEW v \in Versions, Newest(v), Examine(p, v, "list") PROVE Inv'
    BY <1>0, <1>1, <1>3, ExamineStep DEF ResolveLatest, Newest, Recorded
  <1>4. QED
    BY <1>2, <1>3 DEF ResolveLatest

(* resolve_version_location preserves the invariant.                       *)
LEMMA ResolveVersionInv ==
  ASSUME NEW p \in Procs, NEW v \in Versions, Inv, ResolveVersion(p, v)
  PROVE  Inv'
  <1>0. TypeOK /\ LocalInv(p)
    BY DEF Inv
  <1>1. floor' \in [Procs -> SUBSET Versions]
    BY <1>0 DEF ResolveVersion, TypeOK
  <1>2. mode[p] # "open" => v = ver[p]
    BY <1>0 DEF ResolveVersion, LocalInv, ProcInv, TypeOK
  <1>3. QED
    BY <1>1, <1>2, ExamineStep DEF ResolveVersion

(* The listing of current_manifest_path preserves the invariant.           *)
LEMMA ListLatestInv ==
  ASSUME NEW p \in Procs, Inv, ListLatest(p)
  PROVE  Inv'
  <1>0. TypeOK /\ RowInv /\ LocalInv(p) /\ pc[p] = "list" /\ mode[p] = "open"
    BY DEF Inv, LocalInv, ProcInv, ListLatest
  <1>1. CASE /\ Listed = {}
             /\ ver' = [ver EXCEPT ![p] = IF p \in Writers THEN 1 ELSE 0]
             /\ Goto(p, IF p \in Writers THEN "stage" ELSE "idle")
    <2>1. TypeOK' /\ \A q \in Procs \ {p} : Same(q)
      BY <1>0, <1>1, BoundAssumption DEF TypeOK, ListLatest, Goto, Labels, Same, store
    <2>2. ProcInv(p)'
      BY <1>0, <1>1 DEF TypeOK, ListLatest, Goto, ProcInv, LocalInv
    <2>3. ASSUME p \in Writers PROVE OwnerInv(p)' /\ ResultInv(p)'
      BY <1>0, <1>1, <2>3 DEF TypeOK, ListLatest, Goto, LocalInv, OwnerInv, ResultInv, store
    <2>4. ASSUME p \in Writers PROVE TargetInv(p)'
      <3>1. 1 \in Versions /\ canonical[1] = NoManifest
        BY <1>1, BoundAssumption DEF Versions, Listed
      <3>2. LegacyVersions = 0
        BY <1>0, <3>1, BoundAssumption, ProcAssumption DEF RowInv
      <3>3. ver'[p] = 1
        BY <1>0, <1>1, <2>4 DEF TypeOK
      <3>4. QED
        BY <3>1, <3>2, <3>3 DEF TargetInv, Versions
    <2>5. QED
      BY <2>1, <2>2, <2>3, <2>4, LocalStep DEF ListLatest, LocalInv
  <1>2. ASSUME NEW v \in Listed, ver' = [ver EXCEPT ![p] = v], Goto(p, "read") PROVE Inv'
    <2>0. v \in Versions /\ v \in 0..MaxVersion /\ canonical[v] # NoManifest
      BY <1>2 DEF Listed, Versions
    <2>1. TypeOK' /\ \A q \in Procs \ {p} : Same(q)
      BY <1>0, <1>2, <2>0 DEF TypeOK, ListLatest, Goto, Labels, Same, store
    <2>2. ProcInv(p)'
      BY <1>0, <1>2, <2>0 DEF TypeOK, ListLatest, Goto, ProcInv, store
    <2>3. ASSUME p \in Writers PROVE OwnerInv(p)' /\ ResultInv(p)' /\ TargetInv(p)'
      BY <1>0, <1>2, <2>3
      DEF TypeOK, ListLatest, Goto, LocalInv, OwnerInv, ResultInv, TargetInv, store
    <2>4. QED
      BY <2>1, <2>2, <2>3, LocalStep DEF ListLatest, LocalInv
  <1>3. QED
    BY <1>1, <1>2 DEF ListLatest

(* Finding an object without a row preserves the invariant.                *)
LEMMA FindUnrecordedInv ==
  ASSUME NEW p \in Procs, Inv, FindUnrecorded(p)
  PROVE  Inv'
  <1>0. /\ TypeOK /\ LocalInv(p) /\ pc[p] = "adopt"
        /\ ver[p] \in Versions /\ mode[p] # "commit"
    BY DEF Inv, LocalInv, ProcInv, FindUnrecorded
  <1>1. CASE canonical[ver[p]] = NoManifest /\ Fail(p) /\ UNCHANGED seen
    BY <1>0, <1>1, FailStep DEF FindUnrecorded, TypeOK, store
  <1>2. CASE /\ canonical[ver[p]] # NoManifest
             /\ seen' = [seen EXCEPT ![p] = FinalOf(canonical[ver[p]])]
             /\ Goto(p, "index")
             /\ UNCHANGED <<mode, tries, result>>
    <2>0. FinalOf(canonical[ver[p]]) \in Records
      BY <1>0, <1>2, RecordsTyped DEF TypeOK
    <2>1. TypeOK' /\ \A q \in Procs \ {p} : Same(q)
      BY <1>0, <1>2, <2>0 DEF TypeOK, FindUnrecorded, Goto, Labels, Same, store
    <2>2. ProcInv(p)'
      BY <1>0, <1>2 DEF TypeOK, FindUnrecorded, Goto, LocalInv, ProcInv, store
    <2>3. ASSUME p \in Writers PROVE OwnerInv(p)' /\ ResultInv(p)' /\ TargetInv(p)'
      BY <1>0, <1>2, <2>3
      DEF TypeOK, FindUnrecorded, Goto, LocalInv, OwnerInv, ResultInv, TargetInv, store
    <2>4. QED
      BY <2>1, <2>2, <2>3, LocalStep DEF FindUnrecorded, LocalInv
  <1>3. QED
    BY <1>1, <1>2 DEF FindUnrecorded

(* A failed read of a resolution preserves the invariant.                  *)
LEMMA ResolveErrorInv ==
  ASSUME NEW p \in Procs, Inv, ResolveError(p)
  PROVE  Inv'
  BY FailStep, BoundAssumption DEF ResolveError, Fault, Inv, TypeOK, store

(* Checking a finalized row against its object preserves the invariant.    *)
LEMMA HeadFinalInv ==
  ASSUME NEW p \in Procs, Inv, HeadFinal(p)
  PROVE  Inv'
  <1>0. TypeOK /\ LocalInv(p) /\ pc[p] = "head"
    BY DEF Inv, HeadFinal
  <1>1. CASE Goto(p, "read") /\ UNCHANGED <<mode, tries, result, faults>>
    <2>1. ProcInv(p)'
      BY <1>0, <1>1 DEF HeadFinal, LocalInv, ProcInv, Goto, TypeOK, store
    <2>2. QED
      BY <1>0, <1>1, <2>1, GotoStep DEF HeadFinal, Labels, TypeOK
  <1>2. CASE Fail(p) /\ (UNCHANGED faults \/ Fault)
    BY <1>0, <1>2, FailStep, BoundAssumption DEF HeadFinal, Fault, TypeOK
  <1>3. QED
    BY <1>1, <1>2 DEF HeadFinal

(* Checking the copied object preserves the invariant.                     *)
LEMMA HeadCopiedInv ==
  ASSUME NEW p \in Procs, Inv, HeadCopied(p)
  PROVE  Inv'
  <1>0. TypeOK /\ LocalInv(p) /\ pc[p] = "verify"
    BY DEF Inv, HeadCopied
  <1>1. CASE Goto(p, "publish") /\ UNCHANGED <<mode, tries, result, faults>>
    <2>1. ProcInv(p)'
      BY <1>0, <1>1 DEF HeadCopied, LocalInv, ProcInv, Goto, TypeOK, store
    <2>2. QED
      BY <1>0, <1>1, <2>1, GotoStep DEF HeadCopied, Labels, TypeOK
  <1>2. CASE Fail(p) /\ (UNCHANGED faults \/ Fault)
    BY <1>0, <1>2, FailStep, BoundAssumption DEF HeadCopied, Fault, TypeOK
  <1>3. QED
    BY <1>1, <1>2 DEF HeadCopied

(* Reading the resolved manifest, verify_commit_outcome included,          *)
(* preserves the invariant.                                                *)
LEMMA ReadManifestInv ==
  ASSUME NEW p \in Procs, Inv, ReadManifest(p)
  PROVE  Inv'
  <1>0. /\ TypeOK /\ LocalInv(p) /\ pc[p] = "read"
        /\ ver[p] \in Versions /\ canonical[ver[p]] # NoManifest
    BY DEF Inv, LocalInv, ProcInv, ReadManifest
  <1>1. CASE p \in Readers /\ Goto(p, "idle") /\ UNCHANGED <<mode, tries, result, faults>>
    <2>1. ProcInv(p)'
      BY <1>0, <1>1 DEF LocalInv, ProcInv, Goto, TypeOK
    <2>2. QED
      BY <1>0, <1>1, <2>1, GotoStep DEF ReadManifest, Labels, TypeOK
  <1>2. CASE p \in Writers /\ mode[p] = "open" /\ Goto(p, "catchup")
               /\ UNCHANGED <<mode, tries, result, faults>>
    <2>1. ProcInv(p)'
      BY <1>0, <1>2 DEF ReadManifest, ProcInv, Goto, TypeOK, store
    <2>2. QED
      BY <1>0, <1>2, <2>1, GotoStep DEF ReadManifest, Labels, TypeOK
  <1>3. CASE p \in Writers /\ mode[p] = "verify" /\ Report(p, Verdict(p))
               /\ UNCHANGED <<mode, tries, faults>>
    <2>0. Verdict(p) \in {"ok", "lost"}
      BY DEF Verdict
    <2>1. TypeOK' /\ \A q \in Procs \ {p} : Same(q)
      BY <1>0, <1>3, <2>0 DEF TypeOK, ReadManifest, Report, Goto, Labels, Same, store
    <2>2. ProcInv(p)'
      BY <1>0, <1>3 DEF TypeOK, Report, Goto, ProcInv
    <2>3. OwnerInv(p)' /\ TargetInv(p)'
      BY <1>0, <1>3
      DEF TypeOK, ReadManifest, Report, Goto, LocalInv, OwnerInv, TargetInv, store
    <2>4. ResultInv(p)'
      <3>1. pc'[p] = "done" /\ result'[p] = Verdict(p)
        BY <1>0, <1>3 DEF TypeOK, Report, Goto
      <3>2. QED
        BY <1>0, <1>3, <3>1 DEF ResultInv, ReadManifest, Verdict, store
    <2>5. QED
      BY <2>1, <2>2, <2>3, <2>4, LocalStep DEF ReadManifest, LocalInv
  <1>4. CASE Fault /\ Fail(p)
    BY <1>0, <1>4, FailStep, BoundAssumption DEF ReadManifest, Fault, TypeOK
  <1>5. QED
    BY <1>1, <1>2, <1>3, <1>4 DEF ReadManifest

(* load_new_transactions and the choice of the target preserve the         *)
(* invariant.  This is where it matters how many versions predate the      *)
(* store: a strict overwrite that opened version v targets v + 1.          *)
LEMMA CatchUpInv ==
  ASSUME NEW w \in Writers, LegacyVersions <= 1, Inv, CatchUp(w)
  PROVE  Inv'
  <1>0. /\ w \in Procs /\ TypeOK /\ RowInv /\ OrderInv /\ LocalInv(w) /\ pc[w] = "catchup"
        /\ mode[w] = "open" /\ ver[w] \in Versions /\ canonical[ver[w]] # NoManifest
    BY DEF Inv, LocalInv, ProcInv, CatchUp, Procs
  <1>1. PICK v \in Bases(w) : v < MaxVersion /\ ver' = [ver EXCEPT ![w] = v + 1]
    BY DEF CatchUp
  <1>2. v \in Versions /\ canonical[v] # NoManifest
    BY <1>0 DEF Bases, Listed
  <1>3. /\ v \in Nat /\ v > 0 /\ v + 1 \in Versions /\ v + 1 \in 0..MaxVersion
        /\ v + 1 > LegacyVersions
    BY <1>1, <1>2, BoundAssumption DEF Versions
  <1>4. TypeOK' /\ \A q \in Procs \ {w} : Same(q)
    BY <1>0, <1>1, <1>3 DEF TypeOK, CatchUp, Goto, Labels, Same, store
  <1>5. ProcInv(w)'
    BY <1>0 DEF TypeOK, CatchUp, Goto, ProcInv
  <1>6. OwnerInv(w)' /\ ResultInv(w)'
    BY <1>0 DEF TypeOK, CatchUp, Goto, LocalInv, OwnerInv, ResultInv, store
  <1>7. TargetInv(w)'
    <2>1. ver'[w] = v + 1
      BY <1>0, <1>1 DEF TypeOK
    <2>2. ASSUME NEW u \in Versions, u < v + 1 PROVE canonical[u] # NoManifest
      <3>1. u < v \/ u = v
        BY <1>3, <2>2 DEF Versions
      <3>2. QED
        BY <1>0, <1>2, <3>1 DEF OrderInv
    <2>3. QED
      BY <1>3, <2>1, <2>2 DEF TargetInv, CatchUp, store
  <1>8. QED
    BY <1>0, <1>4, <1>5, <1>6, <1>7, LocalStep DEF CatchUp, LocalInv

(* The recheck of lose_or_retain preserves the invariant.                  *)
LEMMA LoseOrRetainInv ==
  ASSUME NEW w \in Writers, Inv, LoseOrRetain(w)
  PROVE  Inv'
  <1>0. w \in Procs /\ TypeOK /\ LocalInv(w) /\ pc[w] = "recheck" /\ mode[w] = "commit"
    BY DEF Inv, LocalInv, ProcInv, LoseOrRetain, Procs
  <1>1. TypeOK' /\ \A q \in Procs \ {w} : Same(q)
    BY <1>0, BoundAssumption DEF TypeOK, LoseOrRetain, Goto, Fault, Labels, Same, store
  <1>2. CASE ProvenLost(w) /\ Goto(w, "drop") /\ UNCHANGED <<mode, faults>>
    BY <1>0, <1>1, <1>2, LocalStep
    DEF TypeOK, LoseOrRetain, Goto, ProvenLost, LocalInv, ProcInv, OwnerInv, TargetInv,
        ResultInv, store
  <1>3. CASE Goto(w, "idle") /\ mode' = [mode EXCEPT ![w] = "verify"]
    BY <1>0, <1>1, <1>3, LocalStep
    DEF TypeOK, LoseOrRetain, Goto, LocalInv, ProcInv, OwnerInv, TargetInv, ResultInv, store
  <1>4. QED
    BY <1>2, <1>3 DEF LoseOrRetain

(* A crash preserves the invariant.                                        *)
LEMMA CrashInv ==
  ASSUME NEW p \in Procs, Inv, Crash(p)
  PROVE  Inv'
  <1>0. TypeOK /\ LocalInv(p) /\ pc[p] # "done"
    BY DEF Inv, Crash
  <1>1. faults' \in 0..MaxFaults /\ floor' \in [Procs -> SUBSET Versions]
    BY <1>0, BoundAssumption DEF Crash, Fault, TypeOK
  <1>2. CASE p \in Readers
    <2>1. Goto(p, "idle")
      BY <1>2 DEF Crash
    <2>2. ProcInv(p)'
      BY <1>0, <1>2, <2>1, ProcAssumption DEF Crash, Goto, LocalInv, ProcInv, TypeOK
    <2>3. QED
      BY <1>0, <1>1, <2>1, <2>2, GotoStep DEF Crash, Labels
  <1>3. CASE p \notin Readers
    <2>1. Goto(p, "crashed")
      BY <1>3 DEF Crash
    <2>2. ProcInv(p)'
      BY <1>0, <2>1 DEF Crash, Goto, LocalInv, ProcInv, TypeOK
    <2>3. QED
      BY <1>0, <1>1, <2>1, <2>2, GotoStep DEF Crash, Labels
  <1>4. QED
    BY <1>2, <1>3

-----------------------------------------------------------------------------
(* How the stores may change under a process q that takes no step: rows    *)
(* are added for others or finalized, objects are added, and a staged      *)
(* object of q that is still needed stays.                                 *)
Grows(q) ==
  /\ \A v \in Versions :
       \/ record'[v] = record[v]
       \/ record[v].path = "none" /\ record'[v].of # q
       \/ /\ record[v].path # "none"
          /\ record'[v].path = "final" /\ record'[v].of = record[v].of
  /\ \A v \in Versions : canonical'[v] = canonical[v] \/ canonical[v] = NoManifest
  /\ q \in late' => q \in late
  /\ q \in staging /\ q \notin staging' =>
       pc[q] # "reserve" /\ (q \in late => record[ver[q]].path # "none")

(* Such a change preserves the invariant of q.                             *)
LEMMA GrowStep ==
  ASSUME NEW q \in Procs, Inv, Same(q), Grows(q)
  PROVE  LocalInv(q)'
  <1>0. TypeOK /\ RowInv /\ LocalInv(q)
    BY DEF Inv
  <1>1. ASSUME NEW v \in Versions, record[v].path # "none"
        PROVE  /\ record'[v].path # "none" /\ record'[v].of = record[v].of
               /\ record[v].path = "final" => record'[v].path = "final"
               /\ record'[v] = record[v] \/ record'[v].path = "final"
    BY <1>1 DEF Grows
  <1>2. ASSUME NEW v \in Versions, canonical[v] # NoManifest
        PROVE  canonical'[v] = canonical[v]
    BY <1>2 DEF Grows
  <1>3. ProcInv(q)'
    <2>1. ver[q] \in Versions =>
            /\ record[ver[q]].path # "none" =>
                 /\ record'[ver[q]].path # "none"
                 /\ record'[ver[q]].of = record[ver[q]].of
            /\ record[ver[q]].path = "final" => record'[ver[q]].path = "final"
            /\ canonical[ver[q]] # NoManifest => canonical'[ver[q]] = canonical[ver[q]]
      BY <1>1, <1>2
    <2>2. NoManifest \notin Writers
      BY ProcAssumption DEF Procs
    <2>3. QED
      BY <1>0, <2>1, <2>2 DEF LocalInv, ProcInv, Same
  <1>4. ASSUME q \in Writers PROVE OwnerInv(q)'
    <2>0. OwnerInv(q) /\ TargetInv(q) /\ ProcInv(q)
      BY <1>0, <1>4 DEF LocalInv
    <2>1. ASSUME NEW v \in Versions, record'[v].of = q
          PROVE  mode'[q] # "open" /\ ver'[q] = v /\ pc'[q] # "reserve"
      BY <2>0, <2>1 DEF Grows, OwnerInv, Same
    <2>2. pc'[q] = "reserve" => q \in staging' /\ q \notin late'
      BY <2>0 DEF Grows, OwnerInv, Same
    <2>3. ASSUME q \in late'
          PROVE  mode'[q] # "open" /\ (record'[ver'[q]].path = "none" => q \in staging')
      <3>1. q \in late /\ mode[q] # "open" /\ ver[q] \in Versions
        BY <2>0, <2>3 DEF Grows, OwnerInv, TargetInv
      <3>2. QED
        BY <1>1, <2>0, <3>1 DEF Grows, OwnerInv, Same
    <2>4. pc'[q] = "drop" => record'[ver'[q]].path # "none" /\ record'[ver'[q]] # StagingOf(q)
      <3>1. pc[q] = "drop" => ver[q] \in Versions
        BY <2>0 DEF TargetInv, ProcInv
      <3>2. QED
        BY <1>1, <2>0, <3>1 DEF OwnerInv, Same, StagingOf
    <2>5. QED
      BY <2>1, <2>2, <2>3, <2>4 DEF OwnerInv
  <1>5. ASSUME q \in Writers PROVE TargetInv(q)'
    BY <1>0, <1>2, <1>5 DEF LocalInv, TargetInv, Same
  <1>6. ASSUME q \in Writers PROVE ResultInv(q)'
    <2>1. mode[q] # "open" => ver[q] \in Versions
      BY <1>0, <1>6 DEF LocalInv, TargetInv
    <2>2. q # NoManifest
      BY ProcAssumption
    <2>3. QED
      BY <1>0, <1>2, <1>6, <2>1, <2>2 DEF LocalInv, ResultInv, Same
  <1>7. QED
    BY <1>3, <1>4, <1>5, <1>6 DEF LocalInv

(* The owner of a row targets the row's version, so it owns no other row.  *)
LEMMA OwnerUnique ==
  ASSUME Inv, NEW u \in Versions, NEW v \in Versions, record[u].of \in Writers,
         record[v].of = record[u].of
  PROVE  u = v
  BY DEF Inv, LocalInv, OwnerInv, Procs

(* Adding the row of an object found without one preserves the invariant.  *)
LEMMA IndexUnrecordedInv ==
  ASSUME NEW p \in Procs, Inv, IndexUnrecorded(p)
  PROVE  Inv'
  <1>0. /\ TypeOK /\ RowInv /\ OrderInv /\ LocalInv(p) /\ pc[p] = "index"
        /\ ver[p] \in Versions /\ seen[p] = FinalOf(canonical[ver[p]])
        /\ canonical[ver[p]] # NoManifest /\ mode[p] # "commit"
    BY DEF Inv, LocalInv, ProcInv, IndexUnrecorded
  <1> DEFINE v == ver[p]
  <1>1. /\ record' \in [Versions -> Records]
        /\ \A u \in Versions : \/ record'[u] = record[u]
                               \/ u = v /\ record[v].path = "none" /\ record'[v] = seen[p]
    BY <1>0 DEF IndexUnrecorded, TypeOK
  <1>2. canonical[v] \in Writers => record[v].path # "none"
    BY <1>0 DEF RowInv
  <1>3. seen[p].path = "final" /\ seen[p].of = canonical[v]
    BY <1>0 DEF FinalOf
  <1>4. TypeOK'
    BY <1>0, <1>1, BoundAssumption DEF IndexUnrecorded, TypeOK, Fault, Goto, Labels
  <1>5. RowInv'
    BY <1>0, <1>1, <1>3 DEF IndexUnrecorded, RowInv
  <1>6. OrderInv'
    BY <1>0, <1>1 DEF IndexUnrecorded, OrderInv
  <1>7. ASSUME NEW q \in Procs \ {p} PROVE LocalInv(q)'
    <2>1. Same(q)
      BY <1>0 DEF IndexUnrecorded, Goto, TypeOK, Same
    <2>2. CASE q \in Writers
      <3>1. Grows(q)
        BY <1>1, <1>2, <1>3, <2>2 DEF IndexUnrecorded, Grows
      <3>2. QED
        BY <2>1, <3>1, GrowStep
    <2>3. CASE q \notin Writers
      <3>1. canonical[v] \in Manifests
        BY <1>0 DEF TypeOK
      <3>2. canonical[v] # q
        BY <2>3, <3>1, ProcAssumption DEF Manifests
      <3>3. Grows(q)
        BY <1>1, <1>3, <3>2 DEF IndexUnrecorded, Grows
      <3>4. QED
        BY <2>1, <3>3, GrowStep
    <2>4. QED
      BY <2>2, <2>3
  <1>8. ProcInv(p)'
    BY <1>0 DEF IndexUnrecorded, Goto, LocalInv, ProcInv, TypeOK
  <1>9. ASSUME p \in Writers PROVE OwnerInv(p)'
    <2>1. ASSUME NEW u \in Versions, record'[u].of = p PROVE record[u] = record'[u]
      BY <1>1, <1>2, <1>3, <1>9, <2>1
    <2>2. pc'[p] = "read"
      BY <1>0 DEF IndexUnrecorded, Goto, TypeOK
    <2>3. record'[v].path = "none" => record[v].path = "none"
      BY <1>0, <1>1, <1>3
    <2>4. QED
      BY <1>0, <1>9, <2>1, <2>2, <2>3 DEF IndexUnrecorded, LocalInv, OwnerInv
  <1>10. ASSUME p \in Writers PROVE TargetInv(p)' /\ ResultInv(p)'
    BY <1>0, <1>10 DEF IndexUnrecorded, Goto, LocalInv, TargetInv, ResultInv, TypeOK
  <1>11. QED
    BY <1>4, <1>5, <1>6, <1>7, <1>8, <1>9, <1>10 DEF Inv, LocalInv

(* The copy of a staged manifest preserves the invariant: it creates the   *)
(* canonical object, or overwrites it with the same manifest.              *)
LEMMA CopyStagingInv ==
  ASSUME NEW p \in Procs, Inv, CopyStaging(p)
  PROVE  Inv'
  <1>0. /\ TypeOK /\ RowInv /\ OrderInv /\ LocalInv(p) /\ pc[p] = "copy"
        /\ ver[p] \in Versions /\ seen[p].of \in Writers
        /\ record[ver[p]].path # "none" /\ record[ver[p]].of = seen[p].of
    BY DEF Inv, LocalInv, ProcInv, CopyStaging
  <1> DEFINE v == ver[p]
  <1>1. canonical[v] \in {NoManifest, seen[p].of}
    BY <1>0 DEF RowInv, TypeOK, Records
  <1>2. CASE /\ seen[p].of \in staging
             /\ canonical' = [canonical EXCEPT ![v] = seen[p].of]
             /\ \/ Goto(p, "verify") /\ UNCHANGED <<mode, tries, result, faults>>
                \/ Fault /\ Fail(p)
    <2>1. /\ canonical' \in [Versions -> Manifests \cup {NoManifest}]
          /\ canonical'[v] = seen[p].of
          /\ \A u \in Versions \ {v} : canonical'[u] = canonical[u]
      BY <1>0, <1>2 DEF TypeOK, Manifests
    <2>2. /\ pc' \in [Procs -> Labels] /\ mode' = mode
          /\ tries' \in [Writers -> 0..VerifyAttempts]
          /\ result' \in [Writers -> {"none", "ok", "lost", "unknown"}]
          /\ faults' \in 0..MaxFaults
          /\ \A q \in Procs \ {p} : Same(q)
      <3>1. CASE Goto(p, "verify") /\ UNCHANGED <<mode, tries, result, faults>>
        BY <1>0, <3>1 DEF TypeOK, Goto, Labels, CopyStaging, Same
      <3>2. CASE Fault /\ Fail(p)
        BY <1>0, <3>2, FailEffect, BoundAssumption DEF TypeOK, Fault, CopyStaging, Same
      <3>3. QED
        BY <1>2, <3>1, <3>2
    <2>3. TypeOK'
      BY <1>0, <2>1, <2>2 DEF CopyStaging, TypeOK
    <2>4. RowInv'
      <3>0. seen[p].of # NoManifest /\ seen[p].of # LegacyManifest
        BY <1>0, ProcAssumption DEF Procs
      <3>1. ASSUME NEW u \in Versions
            PROVE  \/ canonical'[u] = canonical[u]
                   \/ u = v /\ canonical[u] = NoManifest /\ canonical'[u] = seen[p].of
        BY <1>1, <2>1
      <3>2. NoManifest # LegacyManifest
        BY ProcAssumption
      <3>3. record' = record /\ staging' = staging
        BY DEF CopyStaging
      <3>4. QED
        BY <1>0, <3>0, <3>1, <3>2, <3>3 DEF RowInv
    <2>5. OrderInv'
      BY <1>0, <1>1, <2>1, ProcAssumption DEF CopyStaging, OrderInv, Procs
    <2>6. \A q \in Procs : Grows(q)
      BY <1>1, <2>1 DEF CopyStaging, Grows
    <2>7. ASSUME NEW q \in Procs \ {p} PROVE LocalInv(q)'
      BY <2>2, <2>6, <2>7, GrowStep
    <2>8. LocalInv(p)'
      <3>0. canonical[v] # NoManifest => canonical'[v] = canonical[v]
        BY <1>1, <2>1
      <3>1. CASE Goto(p, "verify") /\ UNCHANGED <<mode, tries, result, faults>>
        <4>1. ProcInv(p)'
          BY <1>0, <2>1, <3>1 DEF CopyStaging, Goto, LocalInv, ProcInv, TypeOK
        <4>2. ASSUME p \in Writers PROVE OwnerInv(p)' /\ ResultInv(p)'
          BY <1>0, <3>0, <3>1, <4>2, ProcAssumption
          DEF CopyStaging, Goto, LocalInv, OwnerInv, ResultInv, TypeOK
        <4>3. ASSUME p \in Writers PROVE TargetInv(p)'
          BY <1>0, <2>1, <3>1, <4>3, ProcAssumption
          DEF CopyStaging, Goto, LocalInv, TargetInv, TypeOK, Procs
        <4>4. QED
          BY <4>1, <4>2, <4>3 DEF LocalInv
      <3>2. CASE Fault /\ Fail(p)
        <4>1. ProcInv(p)'
          BY <1>0, <3>2, FailEffect DEF CopyStaging, LocalInv, ProcInv
        <4>2. ASSUME p \in Writers PROVE OwnerInv(p)' /\ ResultInv(p)'
          BY <1>0, <3>2, <4>2, FailEffect DEF CopyStaging, LocalInv, OwnerInv, ResultInv
        <4>3. ASSUME p \in Writers PROVE TargetInv(p)'
          BY <1>0, <2>1, <3>2, <4>3, FailEffect, ProcAssumption
          DEF CopyStaging, LocalInv, TargetInv, Procs
        <4>4. QED
          BY <4>1, <4>2, <4>3 DEF LocalInv
      <3>3. QED
        BY <1>2, <3>1, <3>2
    <2>9. QED
      BY <2>3, <2>4, <2>5, <2>7, <2>8 DEF Inv
  <1>3. CASE seen[p].of \notin staging /\ Goto(p, "verify")
               /\ UNCHANGED <<canonical, mode, tries, result, faults>>
    <2>1. canonical[v] = seen[p].of
      BY <1>0, <1>1, <1>3 DEF RowInv, TypeOK, Records
    <2>2. ProcInv(p)'
      BY <1>0, <1>3, <2>1 DEF CopyStaging, Goto, LocalInv, ProcInv, TypeOK
    <2>3. QED
      BY <1>0, <1>3, <2>2, GotoStep DEF CopyStaging, Labels, TypeOK, store
  <1>4. CASE Fault /\ Fail(p) /\ UNCHANGED canonical
    BY <1>0, <1>4, FailStep, BoundAssumption DEF CopyStaging, Fault, TypeOK, store
  <1>5. QED
    BY <1>2, <1>3, <1>4 DEF CopyStaging

(* A finalized process that committed reports success; a helper goes on.   *)
LEMMA FinalizedStep ==
  ASSUME NEW p \in Procs, Inv, Finalized(p), pc[p] \in {"publish", "delete"}
  PROVE  /\ pc' \in [Procs -> Labels]
         /\ result' \in [Writers -> {"none", "ok", "lost", "unknown"}]
         /\ pc'[p] = "done" <=> mode[p] = "commit"
         /\ pc'[p] \in {"read", "done"}
         /\ p \in Writers =>
              IF mode[p] = "commit" THEN result'[p] = "ok" ELSE result'[p] = "none"
         /\ \A q \in Procs \ {p} : pc'[q] = pc[q]
         /\ \A w \in Writers \ {p} : result'[w] = result[w]
  <1>0. TypeOK /\ ProcInv(p) /\ (p \in Writers => ResultInv(p))
    BY DEF Inv, LocalInv
  <1>1. CASE p \in Writers /\ mode[p] = "commit"
    BY <1>0, <1>1 DEF Finalized, Report, Goto, TypeOK, Labels
  <1>2. CASE ~(p \in Writers /\ mode[p] = "commit")
    BY <1>0, <1>2 DEF Finalized, Goto, TypeOK, Labels, ProcInv, ResultInv
  <1>3. QED
    BY <1>1, <1>2

(* Pointing the row at the canonical object preserves the invariant.       *)
LEMMA PublishFinalInv ==
  ASSUME NEW p \in Procs, Inv, PublishFinal(p)
  PROVE  Inv'
  <1>0. /\ TypeOK /\ RowInv /\ OrderInv /\ LocalInv(p) /\ pc[p] = "publish"
        /\ ver[p] \in Versions /\ seen[p].of \in Writers
        /\ record[ver[p]].path # "none" /\ record[ver[p]].of = seen[p].of
        /\ canonical[ver[p]] = seen[p].of
        /\ mode[p] = "commit" => seen[p].of = p
    BY DEF Inv, LocalInv, ProcInv, PublishFinal
  <1> DEFINE v == ver[p]
  <1>1. /\ record' \in [Versions -> Records]
        /\ \A u \in Versions :
             \/ record'[u] = record[u]
             \/ /\ u = v /\ record'[v].path = "final"
                /\ record'[v].of = record[v].of
    <2>1. FinalOf(seen[p].of) \in Records
      BY <1>0, RecordsTyped DEF Manifests
    <2>2. FinalOf(seen[p].of).path = "final" /\ FinalOf(seen[p].of).of = seen[p].of
      BY DEF FinalOf
    <2>3. QED
      BY <1>0, <2>1, <2>2 DEF PublishFinal, TypeOK
  <1>2. /\ pc' \in [Procs -> Labels]
        /\ result' \in [Writers -> {"none", "ok", "lost", "unknown"}]
        /\ pc'[p] \in {"read", "done", "delete"}
        /\ pc'[p] = "delete" => record'[v].path = "final"
        /\ pc'[p] = "read" => mode[p] # "commit"
        /\ p \in Writers =>
             /\ result'[p] \in {"none", "ok"}
             /\ result'[p] = "ok" => pc'[p] = "done" /\ mode[p] = "commit"
        /\ \A q \in Procs \ {p} : Same(q)
    <2>1. CASE Finalized(p)
      BY <1>0, <2>1, FinalizedStep DEF PublishFinal, Same
    <2>2. CASE record' = [record EXCEPT ![v] = FinalOf(seen[p].of)] /\ Goto(p, "delete")
                 /\ UNCHANGED <<result, faults>>
      BY <1>0, <2>2
      DEF PublishFinal, Goto, TypeOK, Labels, Same, LocalInv, ResultInv, FinalOf
    <2>3. QED
      BY <2>1, <2>2 DEF PublishFinal
  <1>3. faults' \in 0..MaxFaults
    BY <1>0, BoundAssumption DEF PublishFinal, Fault, TypeOK
  <1>4. TypeOK'
    BY <1>0, <1>1, <1>2, <1>3 DEF PublishFinal, TypeOK
  <1>5. RowInv'
    <2>1. seen[p].of # NoManifest
      BY <1>0, ProcAssumption DEF Procs
    <2>2. QED
      BY <1>0, <1>1, <2>1 DEF PublishFinal, RowInv
  <1>6. OrderInv'
    BY <1>0, <1>1 DEF PublishFinal, OrderInv
  <1>7. ASSUME NEW q \in Procs PROVE Grows(q)
    BY <1>0, <1>1 DEF PublishFinal, Grows
  <1>8. ASSUME NEW q \in Procs \ {p} PROVE LocalInv(q)'
    BY <1>2, <1>7, <1>8, GrowStep
  <1>9. ProcInv(p)'
    <2>1. seen[p].of # NoManifest
      BY <1>0, ProcAssumption DEF Procs
    <2>2. QED
      BY <1>0, <1>1, <1>2, <2>1 DEF PublishFinal, LocalInv, ProcInv
  <1>10. ASSUME p \in Writers PROVE OwnerInv(p)' /\ TargetInv(p)'
    <2>1. \A u \in Versions : record'[u].of = record[u].of
      BY <1>1
    <2>2. \A u \in Versions : record'[u].path = "none" => record[u].path = "none"
      BY <1>0, <1>1
    <2>3. QED
      BY <1>0, <1>2, <1>10, <2>1, <2>2 DEF PublishFinal, LocalInv, OwnerInv, TargetInv
  <1>11. ASSUME p \in Writers PROVE ResultInv(p)'
    BY <1>0, <1>2, <1>11 DEF PublishFinal, LocalInv, ResultInv
  <1>12. QED
    BY <1>4, <1>5, <1>6, <1>8, <1>9, <1>10, <1>11 DEF Inv, LocalInv

(* Deleting the staged object of a finalized row preserves the invariant.  *)
LEMMA DeleteStagedInv ==
  ASSUME NEW p \in Procs, Inv, DeleteStaged(p)
  PROVE  Inv'
  <1>0. /\ TypeOK /\ RowInv /\ OrderInv /\ LocalInv(p) /\ pc[p] = "delete"
        /\ ver[p] \in Versions /\ seen[p].of \in Writers
        /\ record[ver[p]].path = "final" /\ record[ver[p]].of = seen[p].of
        /\ canonical[ver[p]] = seen[p].of
        /\ mode[p] = "commit" => seen[p].of = p
    BY DEF Inv, LocalInv, ProcInv, DeleteStaged
  <1> DEFINE w == seen[p].of
  <1>1. /\ w \in Procs /\ OwnerInv(w)
        /\ ver[w] = ver[p] /\ mode[w] # "open" /\ pc[w] # "reserve"
    BY <1>0 DEF Inv, LocalInv, OwnerInv, Procs
  <1>2. staging' \subseteq staging /\ \A x \in staging \ {w} : x \in staging'
    BY DEF DeleteStaged
  <1>3. TypeOK'
    BY <1>0, <1>2, FinalizedStep, BoundAssumption DEF DeleteStaged, TypeOK, Fault
  <1>4. RowInv'
    <2>1. ASSUME NEW u \in Versions, record[u].path = "staging" PROVE record[u].of # w
      BY <1>0, <2>1, OwnerUnique
    <2>2. QED
      BY <1>0, <1>2, <2>1 DEF DeleteStaged, RowInv
  <1>5. OrderInv'
    BY <1>0 DEF DeleteStaged, OrderInv
  <1>6. ASSUME NEW q \in Procs PROVE Grows(q)
    BY <1>0, <1>1, <1>2 DEF DeleteStaged, Grows
  <1>7. ASSUME NEW q \in Procs \ {p} PROVE LocalInv(q)'
    <2>1. Same(q)
      BY <1>0, FinalizedStep DEF DeleteStaged, Same
    <2>2. QED
      BY <1>6, <2>1, GrowStep
  <1>8. ProcInv(p)'
    <2>1. w # NoManifest
      BY <1>0, ProcAssumption DEF Procs
    <2>2. QED
      BY <1>0, <2>1, FinalizedStep DEF DeleteStaged, LocalInv, ProcInv
  <1>9. ASSUME p \in Writers PROVE OwnerInv(p)' /\ TargetInv(p)'
    BY <1>0, <1>1, <1>2, <1>9, FinalizedStep
    DEF DeleteStaged, LocalInv, OwnerInv, TargetInv
  <1>10. ASSUME p \in Writers PROVE ResultInv(p)'
    BY <1>0, <1>10, FinalizedStep DEF DeleteStaged, LocalInv, ResultInv
  <1>11. QED
    BY <1>3, <1>4, <1>5, <1>7, <1>8, <1>9, <1>10 DEF Inv, LocalInv

(* Staging a manifest preserves the invariant.                             *)
LEMMA StageManifestInv ==
  ASSUME NEW w \in Writers, Inv, StageManifest(w)
  PROVE  Inv'
  <1>0. /\ w \in Procs /\ TypeOK /\ RowInv /\ OrderInv /\ LocalInv(w)
        /\ pc[w] = "stage" /\ mode[w] = "open"
    BY DEF Inv, LocalInv, ProcInv, StageManifest, Procs
  <1>1. /\ staging' \in SUBSET Writers /\ staging \subseteq staging'
        /\ faults' \in 0..MaxFaults
        /\ pc' \in [Procs -> Labels] /\ pc'[w] \in {"reserve", "idle"}
        /\ mode' \in [Procs -> {"open", "commit", "verify"}]
        /\ pc'[w] = "reserve" => mode'[w] = "commit" /\ w \in staging'
        /\ pc'[w] = "idle" => mode'[w] = "verify"
        /\ \A q \in Procs \ {w} : Same(q)
    BY <1>0, BoundAssumption DEF StageManifest, Fault, Goto, TypeOK, Labels, Same
  <1>2. TypeOK' /\ RowInv' /\ OrderInv'
    BY <1>0, <1>1 DEF StageManifest, TypeOK, RowInv, OrderInv
  <1>3. ASSUME NEW q \in Procs \ {w} PROVE LocalInv(q)'
    BY <1>1, <1>3, GrowStep DEF StageManifest, Grows
  <1>4. LocalInv(w)'
    BY <1>0, <1>1
    DEF StageManifest, LocalInv, ProcInv, OwnerInv, TargetInv, ResultInv, TypeOK
  <1>5. QED
    BY <1>2, <1>3, <1>4 DEF Inv

(* Dropping a staged object proven lost preserves the invariant.           *)
LEMMA DropStagingInv ==
  ASSUME NEW w \in Writers, Inv, DropStaging(w)
  PROVE  Inv'
  <1>0. /\ w \in Procs /\ TypeOK /\ RowInv /\ OrderInv /\ LocalInv(w)
        /\ pc[w] = "drop" /\ mode[w] = "commit"
        /\ record[ver[w]].path # "none" /\ record[ver[w]] # StagingOf(w)
    BY DEF Inv, LocalInv, ProcInv, OwnerInv, DropStaging, Procs
  <1>1. /\ staging' \subseteq staging /\ \A x \in staging \ {w} : x \in staging'
        /\ faults' \in 0..MaxFaults
        /\ pc' \in [Procs -> Labels] /\ pc'[w] = "idle"
        /\ mode' \in [Procs -> {"open", "commit", "verify"}] /\ mode'[w] = "verify"
        /\ \A q \in Procs \ {w} : Same(q)
    BY <1>0, BoundAssumption DEF DropStaging, Fault, Goto, TypeOK, Labels, Same
  <1>2. TypeOK' /\ OrderInv'
    BY <1>0, <1>1 DEF DropStaging, TypeOK, OrderInv
  <1>3. RowInv'
    <2>1. ASSUME NEW u \in Versions, record[u].path = "staging" PROVE record[u].of # w
      <3>1. SUFFICES ASSUME record[u].of = w PROVE FALSE
        OBVIOUS
      <3>2. ver[w] = u
        BY <1>0, <3>1 DEF LocalInv, OwnerInv
      <3>3. record[u] = StagingOf(w)
        BY <1>0, <2>1, <3>1 DEF TypeOK, Records, StagingOf
      <3>4. QED
        BY <1>0, <3>2, <3>3
    <2>2. QED
      BY <1>0, <1>1, <2>1 DEF DropStaging, RowInv
  <1>4. ASSUME NEW q \in Procs \ {w} PROVE LocalInv(q)'
    BY <1>1, <1>4, GrowStep DEF DropStaging, Grows
  <1>5. LocalInv(w)'
    BY <1>0, <1>1
    DEF DropStaging, LocalInv, ProcInv, OwnerInv, TargetInv, ResultInv, TypeOK
  <1>6. QED
    BY <1>2, <1>3, <1>4, <1>5 DEF Inv

(* put_if_not_exists by a writer whose staged object survives preserves    *)
(* the parts of the invariant about the stores.                            *)
LEMMA ReservedRows ==
  ASSUME NEW w \in Writers, Inv, mode[w] # "open",
         record[ver[w]].path = "none" => w \in staging,
         record' = Reserved(w) \/ record' = record, UNCHANGED <<canonical, staging>>
  PROVE  /\ record' \in [Versions -> Records]
         /\ RowInv' /\ OrderInv'
         /\ ver[w] \in Versions
         /\ \A u \in Versions :
              \/ record'[u] = record[u]
              \/ u = ver[w] /\ record[u].path = "none" /\ record'[u] = StagingOf(w)
  <1>0. TypeOK /\ RowInv /\ OrderInv /\ TargetInv(w)
    BY DEF Inv, LocalInv, Procs
  <1>1. /\ ver[w] \in Versions /\ ver[w] > LegacyVersions
        /\ \A u \in Versions : u < ver[w] => canonical[u] # NoManifest
    BY <1>0 DEF TargetInv
  <1>2. StagingOf(w) \in Records /\ StagingOf(w).path = "staging" /\ StagingOf(w).of = w
    BY RecordsTyped DEF Manifests, StagingOf
  <1>3. /\ record' \in [Versions -> Records]
        /\ \A u \in Versions :
             \/ record'[u] = record[u]
             \/ u = ver[w] /\ record[u].path = "none" /\ record'[u] = StagingOf(w)
    BY <1>0, <1>1, <1>2 DEF TypeOK, Reserved
  <1>4. record[ver[w]].path = "none" => canonical[ver[w]] = NoManifest
    <2>1. canonical[ver[w]] # LegacyManifest
      BY <1>0, <1>1, BoundAssumption DEF RowInv, Versions
    <2>2. QED
      BY <1>0, <1>1, <2>1 DEF TypeOK, RowInv, Manifests
  <1>5. RowInv'
    BY <1>0, <1>2, <1>3, <1>4 DEF RowInv
  <1>6. OrderInv'
    BY <1>0, <1>1, <1>3 DEF OrderInv
  <1>7. QED
    BY <1>1, <1>3, <1>5, <1>6

(* Reserving a version preserves the invariant.                            *)
LEMMA ReserveVersionInv ==
  ASSUME NEW w \in Writers, Inv, ReserveVersion(w)
  PROVE  Inv'
  <1>0. /\ w \in Procs /\ TypeOK /\ LocalInv(w)
        /\ pc[w] = "reserve" /\ mode[w] = "commit" /\ w \in staging
        /\ \A v \in Versions : record[v].of # w
    BY DEF Inv, LocalInv, ProcInv, OwnerInv, ReserveVersion, Procs
  <1>1. record' = Reserved(w) \/ record' = record
    BY DEF ReserveVersion
  <1>2. /\ record' \in [Versions -> Records]
        /\ RowInv' /\ OrderInv'
        /\ ver[w] \in Versions
        /\ \A u \in Versions :
             \/ record'[u] = record[u]
             \/ u = ver[w] /\ record[u].path = "none" /\ record'[u] = StagingOf(w)
    BY <1>0, <1>1, ReservedRows DEF ReserveVersion
  <1>3. StagingOf(w) \in Records /\ StagingOf(w).path = "staging" /\ StagingOf(w).of = w
    BY RecordsTyped DEF Manifests, StagingOf
  <1>4. /\ late' \subseteq Writers /\ late' \subseteq late \cup {w}
        /\ faults' \in 0..MaxFaults
        /\ seen' \in [Procs -> Records] /\ seen'[w] = StagingOf(w)
        /\ pc' \in [Procs -> Labels] /\ pc'[w] \in {"copy", "recheck"}
        /\ pc'[w] = "copy" => record'[ver[w]] = StagingOf(w)
        /\ \A q \in Procs \ {w} : Same(q)
    BY <1>0, <1>2, <1>3, BoundAssumption
    DEF ReserveVersion, AfterReserve, Reserved, Fault, Goto, TypeOK, Labels, Same
  <1>5. TypeOK'
    BY <1>0, <1>2, <1>4 DEF ReserveVersion, TypeOK
  <1>6. ASSUME NEW q \in Procs \ {w} PROVE LocalInv(q)'
    <2>1. Grows(q)
      BY <1>2, <1>3, <1>4, <1>6 DEF ReserveVersion, Grows
    <2>2. QED
      BY <1>4, <2>1, GrowStep
  <1>7. ProcInv(w)'
    BY <1>0, <1>2, <1>3, <1>4 DEF ReserveVersion, ProcInv
  <1>8. OwnerInv(w)'
    BY <1>0, <1>2, <1>3, <1>4 DEF ReserveVersion, OwnerInv
  <1>9. TargetInv(w)' /\ ResultInv(w)'
    BY <1>0, <1>4 DEF ReserveVersion, LocalInv, TargetInv, ResultInv
  <1>10. QED
    BY <1>2, <1>5, <1>6, <1>7, <1>8, <1>9 DEF Inv, LocalInv

(* A reservation that arrives late preserves the invariant.                *)
LEMMA ApplyLateInv ==
  ASSUME NEW w \in Writers, Inv, ApplyLate(w)
  PROVE  Inv'
  <1>0. /\ w \in Procs /\ TypeOK /\ LocalInv(w) /\ w \in late /\ mode[w] # "open"
        /\ record[ver[w]].path = "none" => w \in staging
        /\ pc[w] # "reserve"
    BY DEF Inv, LocalInv, OwnerInv, ApplyLate, Procs
  <1>1. /\ record' \in [Versions -> Records]
        /\ RowInv' /\ OrderInv'
        /\ ver[w] \in Versions
        /\ \A u \in Versions :
             \/ record'[u] = record[u]
             \/ u = ver[w] /\ record[u].path = "none" /\ record'[u] = StagingOf(w)
    BY <1>0, ReservedRows DEF ApplyLate
  <1>2. StagingOf(w).path = "staging" /\ StagingOf(w).of = w
    BY DEF StagingOf
  <1>3. TypeOK' /\ \A q \in Procs : Same(q)
    BY <1>0, <1>1 DEF ApplyLate, TypeOK, local, Same
  <1>4. ASSUME NEW q \in Procs \ {w} PROVE LocalInv(q)'
    <2>1. Grows(q)
      BY <1>1, <1>2, <1>4 DEF ApplyLate, Grows
    <2>2. QED
      BY <1>3, <2>1, GrowStep
  <1>5. ProcInv(w)'
    BY <1>0, <1>1 DEF ApplyLate, local, LocalInv, ProcInv
  <1>6. OwnerInv(w)'
    BY <1>0, <1>1, <1>2 DEF ApplyLate, local, LocalInv, OwnerInv
  <1>7. TargetInv(w)' /\ ResultInv(w)'
    BY <1>0 DEF ApplyLate, local, LocalInv, TargetInv, ResultInv
  <1>8. QED
    BY <1>1, <1>3, <1>4, <1>5, <1>6, <1>7 DEF Inv, LocalInv

-----------------------------------------------------------------------------
(* Every step preserves the invariant.                                     *)
LEMMA NextInv ==
  ASSUME LegacyVersions <= 1, Inv, [Next]_vars
  PROVE  Inv'
  <1>1. ASSUME NEW p \in Procs, Step(p) PROVE Inv'
    BY <1>1, ResolveLatestInv, ListLatestInv, ResolveVersionInv, FindUnrecordedInv,
       IndexUnrecordedInv, ResolveErrorInv, HeadFinalInv, CopyStagingInv, HeadCopiedInv,
       PublishFinalInv, DeleteStagedInv, ReadManifestInv
    DEF Step
  <1>2. ASSUME NEW w \in Writers, Commit(w) PROVE Inv'
    BY <1>2, CatchUpInv, StageManifestInv, ReserveVersionInv, LoseOrRetainInv,
       DropStagingInv
    DEF Commit
  <1>3. CASE UNCHANGED vars
    BY <1>3
    DEF vars, Inv, TypeOK, RowInv, OrderInv, LocalInv, ProcInv, OwnerInv, TargetInv,
        ResultInv
  <1>4. QED
    BY <1>1, <1>2, <1>3, CrashInv, ApplyLateInv DEF Next

(* Inv is an invariant of the handler, whatever the number of writers,     *)
(* readers, versions, verification reads and faults.                       *)
THEOREM Invariance ==
  ASSUME LegacyVersions <= 1
  PROVE  Spec => []Inv
  <1>1. Init => Inv
    BY InitInv
  <1>2. Inv /\ [Next]_vars => Inv'
    BY NextInv
  <1>3. QED
    BY <1>1, <1>2, PTL DEF Spec

(* Every variable of the handler always holds a value of its domain.       *)
THEOREM TypeCorrect ==
  ASSUME LegacyVersions <= 1
  PROVE  Spec => []TypeOK
  <1>1. Inv => TypeOK
    BY DEF Inv
  <1>2. QED
    BY <1>1, Invariance, PTL

(* finalize_staged and finalize_manifest never materialize a manifest the  *)
(* external store did not select.                                          *)
THEOREM SelectedOnly ==
  ASSUME LegacyVersions <= 1
  PROVE  Spec => []OnlySelectedMaterialized
  <1>1. Inv => OnlySelectedMaterialized
    BY ProcAssumption
    DEF Inv, TypeOK, RowInv, Records, OnlySelectedMaterialized, Procs
  <1>2. QED
    BY <1>1, Invariance, PTL

(* A row can be resolved at any time: no deletion of a staged object, by   *)
(* its writer or by a helper, orphans a row.                               *)
THEOREM AlwaysRecoverable ==
  ASSUME LegacyVersions <= 1
  PROVE  Spec => []RowsRecoverable
  <1>1. Inv => RowsRecoverable
    BY DEF Inv, RowInv, RowsRecoverable
  <1>2. QED
    BY <1>1, Invariance, PTL

(* The invariant makes what writers are told true.                         *)
LEMMA InvOutcomes == Inv => OutcomesAreTrue
  <1> SUFFICES ASSUME Inv, NEW w \in Writers
               PROVE  /\ result[w] = "ok" => canonical[ver[w]] = w
                      /\ result[w] = "lost" =>
                           /\ \A v \in Versions : w \notin {canonical[v], record[v].of}
                           /\ w \in late => record[ver[w]].path # "none"
    BY DEF OutcomesAreTrue
  <1>0. TypeOK /\ RowInv /\ OwnerInv(w) /\ TargetInv(w) /\ ResultInv(w) /\ w # NoManifest
    BY ProcAssumption DEF Inv, LocalInv, Procs
  <1>1. result[w] = "ok" => canonical[ver[w]] = w
    BY <1>0 DEF ResultInv
  <1>2. ASSUME result[w] = "lost", NEW v \in Versions PROVE w # record[v].of
    <2>1. SUFFICES ASSUME record[v].of = w PROVE FALSE
      OBVIOUS
    <2>2. mode[w] # "open" /\ ver[w] = v
      BY <1>0, <2>1 DEF OwnerInv
    <2>3. canonical[v] # w /\ canonical[v] # NoManifest
      BY <1>0, <1>2, <2>2 DEF ResultInv
    <2>4. QED
      BY <1>0, <2>1, <2>3 DEF RowInv, TypeOK, Records
  <1>3. ASSUME result[w] = "lost", NEW v \in Versions PROVE w # canonical[v]
    BY <1>0, <1>2, <1>3 DEF RowInv, TypeOK, Records
  <1>4. ASSUME result[w] = "lost", w \in late PROVE record[ver[w]].path # "none"
    <2>1. mode[w] # "open"
      BY <1>0, <1>4 DEF OwnerInv
    <2>2. ver[w] \in Versions /\ ver[w] > LegacyVersions /\ canonical[ver[w]] # NoManifest
      BY <1>0, <1>4, <2>1 DEF TargetInv, ResultInv
    <2>3. canonical[ver[w]] # LegacyManifest
      BY <1>0, <2>2, BoundAssumption DEF RowInv, Versions
    <2>4. QED
      BY <1>0, <2>2, <2>3 DEF TypeOK, RowInv, Manifests
  <1>5. QED
    BY <1>1, <1>2, <1>3, <1>4

(* A commit call that reports success owns its version; one that reports a *)
(* conflict owns none and has no reservation in flight that could win.     *)
THEOREM TrueOutcomes ==
  ASSUME LegacyVersions <= 1
  PROVE  Spec => []OutcomesAreTrue
  BY InvOutcomes, Invariance, PTL

(* The canonical manifests trail the external store by one version at      *)
(* most.                                                                   *)
THEOREM OneBehind ==
  ASSUME LegacyVersions <= 1
  PROVE  Spec => []AtMostOneBehind
  <1>1. Inv => AtMostOneBehind
    BY DEF Inv, OrderInv, AtMostOneBehind, Recorded
  <1>2. QED
    BY <1>1, Invariance, PTL

(* Under the invariant no step changes a materialized manifest.            *)
LEMMA StepKeepsCanonical ==
  ASSUME Inv, Next, NEW v \in Versions, canonical[v] # NoManifest
  PROVE  canonical'[v] = canonical[v]
  <1>1. ASSUME NEW p \in Procs, CopyStaging(p) PROVE canonical'[v] = canonical[v]
    <2>1. /\ TypeOK /\ RowInv /\ ver[p] \in Versions
          /\ record[ver[p]].path # "none" /\ record[ver[p]].of = seen[p].of
      BY <1>1 DEF Inv, LocalInv, ProcInv, CopyStaging
    <2>2. canonical[ver[p]] \in {NoManifest, seen[p].of}
      BY <2>1 DEF RowInv, TypeOK, Records
    <2>3. QED
      BY <1>1, <2>1, <2>2 DEF CopyStaging, TypeOK
  <1>2. ASSUME NEW p \in Procs, Step(p) PROVE canonical'[v] = canonical[v]
    BY <1>1, <1>2
    DEF Step, ResolveLatest, ListLatest, ResolveVersion, FindUnrecorded, IndexUnrecorded,
        ResolveError, HeadFinal, HeadCopied, PublishFinal, DeleteStaged, ReadManifest, store
  <1>3. ASSUME NEW w \in Writers, Commit(w) PROVE canonical'[v] = canonical[v]
    BY <1>3
    DEF Commit, CatchUp, StageManifest, ReserveVersion, LoseOrRetain, DropStaging, store
  <1>4. QED
    BY <1>2, <1>3 DEF Next, Crash, ApplyLate, store

(* finalize_manifest may be completed by any number of readers and writers *)
(* and never rolls back or replaces a materialized canonical manifest.     *)
THEOREM WriteOnce ==
  ASSUME LegacyVersions <= 1
  PROVE  Spec => CanonicalNeverChanges
  <1>1. Inv /\ [Next]_vars =>
          [\A v \in Versions :
             canonical[v] # NoManifest => canonical'[v] = canonical[v]]_vars
    BY StepKeepsCanonical
  <1>2. QED
    BY <1>1, Invariance, PTL DEF Spec, CanonicalNeverChanges
=============================================================================
