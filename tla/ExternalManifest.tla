-------------------------- MODULE ExternalManifest --------------------------
(***************************************************************************)
(* The commit handler that coordinates writers through an external         *)
(* manifest store (rust/lance-table/src/io/commit/external_manifest.rs).   *)
(*                                                                         *)
(* A writer stages its manifest under a unique name, reserves the version  *)
(* in the external store, copies the staged object to the canonical path,  *)
(* points the record at that path and drops the staged object.  Any        *)
(* reader that meets a record still naming a staged object performs the    *)
(* last three steps itself.  Every request to either store is one atomic   *)
(* step here, every request may fail, and a failed request may have been   *)
(* applied, may be lost, or may still be applied later.                    *)
(*                                                                         *)
(* A writer is one call of commit: a retry of the commit loop stages under *)
(* a new name and is another member of Writers.                            *)
(***************************************************************************)
EXTENDS Naturals

CONSTANTS
  Writers,          \* commit attempts
  Readers,          \* processes that resolve versions and help
  StrictWriters,    \* writers that overwrite at read_version + 1, unrebased
  MaxVersion,       \* bound: versions are 1..MaxVersion
  LegacyVersions,   \* versions committed before the external store was used
  VerifyAttempts,   \* COMMIT_VERIFICATION_ATTEMPTS
  MaxFaults,        \* bound: failed requests and crashes in a behaviour
  Size,             \* Size[m]: length of manifest m in bytes
  LegacyManifest,   \* contents of a manifest that predates the store
  NoManifest        \* absence of an object or record

Procs     == Writers \cup Readers
Versions  == 1..MaxVersion
Manifests == Writers \cup {LegacyManifest}

ASSUME ProcAssumption ==
  /\ Writers \cap Readers = {}
  /\ StrictWriters \subseteq Writers
  /\ LegacyManifest \notin Procs
  /\ NoManifest \notin Procs \cup {LegacyManifest}

ASSUME BoundAssumption ==
  /\ MaxVersion \in Nat \ {0}
  /\ LegacyVersions \in 0..MaxVersion
  /\ VerifyAttempts \in Nat \ {0}
  /\ MaxFaults \in Nat

VARIABLES
  record,      \* record[v]: the row of the external store for version v
  canonical,   \* canonical[v]: the object at the canonical path of version v
  staging,     \* writers whose staged manifest object exists
  late,        \* writers whose reservation request is still in flight after
               \* the writer was told, or decided, that it had failed
  pc,          \* pc[p]: where process p is
  mode,        \* mode[p]: "open", "commit" or "verify"
  ver,         \* ver[p]: version p resolves, or commits to
  seen,        \* seen[p]: the row p is acting on
  tries,       \* tries[w]: failed verification reads
  result,      \* result[w]: what w reports about its commit
  floor,       \* floor[p]: versions acknowledged before p asked for the latest
  faults       \* faults that have happened

store == <<record, canonical, staging, late>>
local == <<pc, mode, ver, seen, tries, result>>
vars  == <<record, canonical, staging, late, pc, mode, ver, seen, tries,
           result, floor, faults>>

NoRecord     == [path |-> "none", of |-> NoManifest]
StagingOf(w) == [path |-> "staging", of |-> w]
FinalOf(m)   == [path |-> "final", of |-> m]
Records      == [path : {"none", "staging", "final"},
                 of : Manifests \cup {NoManifest}]

Recorded == {v \in Versions : record[v].path # "none"}
Listed   == {v \in Versions : canonical[v] # NoManifest}

Labels == {"idle", "list", "adopt", "index", "head", "copy", "verify",
           "publish", "delete", "read", "catchup", "stage", "reserve",
           "recheck", "drop", "done", "crashed"}

Init ==
  /\ record = [v \in Versions |-> NoRecord]
  /\ canonical = [v \in Versions |-> IF v <= LegacyVersions
                                     THEN LegacyManifest ELSE NoManifest]
  /\ staging = {}
  /\ late = {}
  /\ pc = [p \in Procs |-> "idle"]
  /\ mode = [p \in Procs |-> "open"]
  /\ ver = [p \in Procs |-> 0]
  /\ seen = [p \in Procs |-> NoRecord]
  /\ tries = [w \in Writers |-> 0]
  /\ result = [w \in Writers |-> "none"]
  /\ floor = [p \in Procs |-> {}]
  /\ faults = 0

Goto(p, label) == pc' = [pc EXCEPT ![p] = label]

Report(w, what) ==
  /\ Goto(w, "done")
  /\ result' = [result EXCEPT ![w] = what]

Fault == faults < MaxFaults /\ faults' = faults + 1

(* Deviations: the outcome of a not-found read is taken as final, one read *)
(* too many is made, and failed reads are not counted.                     *)
VerifyFailed_Definitive(w) == Report(w, "lost") /\ UNCHANGED tries
VerifyFailed_OneTooMany(w) ==
  /\ tries' = [tries EXCEPT ![w] = @ + 1]
  /\ IF tries[w] >= VerifyAttempts
     THEN Report(w, "unknown")
     ELSE Goto(w, "idle") /\ UNCHANGED result
VerifyFailed_Uncounted(w) == Goto(w, "idle") /\ UNCHANGED <<tries, result>>

(* A failed verification read is retried until the attempts are used up,   *)
(* and then the status is unknown: this handler's not-found is never       *)
(* definitive.                                                             *)
VerifyFailed(w) ==
  /\ tries' = [tries EXCEPT ![w] = @ + 1]
  /\ IF tries[w] + 1 >= VerifyAttempts
     THEN Report(w, "unknown")
     ELSE Goto(w, "idle") /\ UNCHANGED result

(***************************************************************************)
(* Where a process goes when the request it issued fails.  A failed open   *)
(* never reaches the commit; a failed commit re-reads the record.          *)
(***************************************************************************)
Fail(p) ==
  \/ /\ p \in Readers
     /\ Goto(p, "idle")
     /\ UNCHANGED <<mode, tries, result>>
  \/ /\ p \in Writers /\ mode[p] = "open"
     /\ Report(p, "lost")
     /\ UNCHANGED <<mode, tries>>
  \/ /\ p \in Writers /\ mode[p] = "commit"
     /\ Goto(p, "recheck")
     /\ UNCHANGED <<mode, tries, result>>
  \/ /\ p \in Writers /\ mode[p] = "verify"
     /\ VerifyFailed(p)
     /\ UNCHANGED mode

(***************************************************************************)
(* Resolving a version                                                     *)
(***************************************************************************)

(* Deviation: a row that names a staged object is read as if it were final. *)
Examine_NoHelp(p, v, missing) ==
  /\ ver' = [ver EXCEPT ![p] = v]
  /\ seen' = [seen EXCEPT ![p] = record[v]]
  /\ Goto(p, IF record[v].path = "none" THEN missing ELSE "read")

(* What to do with a row that was read: a staged path is finalized, a      *)
(* canonical path is checked against the object, no row means asking the   *)
(* object store.                                                           *)
Examine(p, v, missing) ==
  /\ ver' = [ver EXCEPT ![p] = v]
  /\ seen' = [seen EXCEPT ![p] = record[v]]
  /\ Goto(p, CASE record[v].path = "none"    -> missing
               [] record[v].path = "final"   -> "head"
               [] record[v].path = "staging" -> "copy")

Acknowledged == {ver[w] : w \in {x \in Writers : result[x] = "ok"}}
                  \cup (Versions \cap 1..LegacyVersions)

(* Deviation: the query for the latest row is not ordered.                 *)
Newest_Unordered(v) == v \in Recorded

(* The row a query for the latest version returns.                         *)
Newest(v) == v \in Recorded /\ \A u \in Recorded : u <= v

(* resolve_latest_location: the newest row, or a listing if there is none. *)
ResolveLatest(p) ==
  /\ pc[p] = "idle" /\ mode[p] = "open"
  /\ floor' = [floor EXCEPT ![p] = Acknowledged]
  /\ \/ /\ Recorded = {}
        /\ Goto(p, "list")
        /\ UNCHANGED <<ver, seen>>
     \/ \E v \in Versions : Newest(v) /\ Examine(p, v, "list")
  /\ UNCHANGED <<store, mode, tries, result, faults>>

(* current_manifest_path: the newest canonical manifest.  A writer that    *)
(* finds none creates the dataset at version 1.                            *)
ListLatest(p) ==
  /\ pc[p] = "list"
  /\ \/ \E v \in Listed :
          /\ \A u \in Listed : u <= v
          /\ ver' = [ver EXCEPT ![p] = v]
          /\ Goto(p, "read")
     \/ /\ Listed = {}
        /\ ver' = [ver EXCEPT ![p] = IF p \in Writers THEN 1 ELSE 0]
        /\ Goto(p, IF p \in Writers THEN "stage" ELSE "idle")
  /\ UNCHANGED <<store, mode, seen, tries, result, floor, faults>>

(* resolve_version_location, for a version a caller asks for, or for the   *)
(* version whose outcome a writer verifies.                                *)
ResolveVersion(p, v) ==
  /\ pc[p] = "idle"
  /\ mode[p] = "verify" => v = ver[p]
  /\ floor' = [floor EXCEPT ![p] = {}]
  /\ Examine(p, v, "adopt")
  /\ UNCHANGED <<store, mode, tries, result, faults>>

(* No row: look for the object, for a dataset that is not on board yet.    *)
FindUnrecorded(p) ==
  /\ pc[p] = "adopt"
  /\ \/ /\ canonical[ver[p]] # NoManifest
        /\ seen' = [seen EXCEPT ![p] = FinalOf(canonical[ver[p]])]
        /\ Goto(p, "index")
        /\ UNCHANGED <<mode, tries, result>>
     \/ /\ canonical[ver[p]] = NoManifest
        /\ Fail(p)
        /\ UNCHANGED seen
  /\ UNCHANGED <<store, ver, floor, faults>>

(* ... and index it.  A failure is logged and ignored.                     *)
IndexUnrecorded(p) ==
  /\ pc[p] = "index"
  /\ \/ /\ record' = IF record[ver[p]].path = "none"
                     THEN [record EXCEPT ![ver[p]] = seen[p]]
                     ELSE record
        /\ UNCHANGED faults
     \/ Fault /\ UNCHANGED record
  /\ Goto(p, "read")
  /\ UNCHANGED <<canonical, staging, late, mode, ver, seen, tries, result, floor>>

(* Any of the read requests of a resolution may fail.                      *)
ResolveError(p) ==
  /\ pc[p] \in {"list", "adopt", "catchup"} \/ (pc[p] = "idle" /\ p \in Writers)
  /\ Fault
  /\ Fail(p)
  /\ UNCHANGED <<store, ver, seen, floor>>

SizeMatches(p) ==
  /\ canonical[ver[p]] # NoManifest
  /\ Size[canonical[ver[p]]] = Size[seen[p].of]

(* verify_finalized_manifest_location: HEAD the canonical object.          *)
HeadFinal(p) ==
  /\ pc[p] = "head"
  /\ \/ /\ SizeMatches(p)
        /\ Goto(p, "read")
        /\ UNCHANGED <<mode, tries, result, faults>>
     \/ /\ \/ ~SizeMatches(p) /\ UNCHANGED faults
           \/ Fault
        /\ Fail(p)
  /\ UNCHANGED <<store, ver, seen, floor>>

(***************************************************************************)
(* Finalizing a staged manifest: finalize_staged for the writer that       *)
(* reserved it, finalize_manifest for everybody who helps.                 *)
(***************************************************************************)

(* The copy overwrites whatever is at the canonical path.  NotFound means  *)
(* somebody else may have finished: the canonical object decides.          *)
CopyStaging(p) ==
  /\ pc[p] = "copy"
  /\ \/ /\ seen[p].of \in staging
        /\ canonical' = [canonical EXCEPT ![ver[p]] = seen[p].of]
        /\ \/ /\ Goto(p, "verify")
              /\ UNCHANGED <<mode, tries, result, faults>>
           \/ Fault /\ Fail(p)
     \/ /\ seen[p].of \notin staging
        /\ Goto(p, "verify")
        /\ UNCHANGED <<canonical, mode, tries, result, faults>>
     \/ /\ Fault /\ Fail(p)
        /\ UNCHANGED canonical
  /\ UNCHANGED <<record, staging, late, ver, seen, floor>>

HeadCopied(p) ==
  /\ pc[p] = "verify"
  /\ \/ /\ SizeMatches(p)
        /\ Goto(p, "publish")
        /\ UNCHANGED <<mode, tries, result, faults>>
     \/ /\ \/ ~SizeMatches(p) /\ UNCHANGED faults
           \/ Fault
        /\ Fail(p)
  /\ UNCHANGED <<store, ver, seen, floor>>

(* A finalized commit is a success; a helper goes on to read.              *)
Finalized(p) ==
  IF p \in Writers /\ mode[p] = "commit"
  THEN Report(p, "ok")
  ELSE Goto(p, "read") /\ UNCHANGED result

(* put_if_exists of the canonical path.  When it fails the staged object   *)
(* is kept for another helper and the commit stands.                       *)
PublishFinal(p) ==
  /\ pc[p] = "publish"
  /\ \/ /\ record[ver[p]].path # "none"
        /\ record' = [record EXCEPT ![ver[p]] = FinalOf(seen[p].of)]
        /\ \/ /\ Goto(p, "delete")
              /\ UNCHANGED <<result, faults>>
           \/ Fault /\ Finalized(p)
     \/ /\ Fault /\ Finalized(p)
        /\ UNCHANGED record
  /\ UNCHANGED <<canonical, staging, late, mode, ver, seen, tries, floor>>

DeleteStaged(p) ==
  /\ pc[p] = "delete"
  /\ \/ staging' = staging \ {seen[p].of} /\ UNCHANGED faults
     \/ Fault /\ UNCHANGED staging
  /\ Finalized(p)
  /\ UNCHANGED <<record, canonical, late, mode, ver, seen, tries, floor>>

(***************************************************************************)
(* Reading the resolved manifest                                           *)
(***************************************************************************)

(* Deviation: whatever manifest is found is taken for another writer's.    *)
Verdict_AlwaysForeign(w) == "lost"

(* verify_commit_outcome: the committed transaction is compared with w's.  *)
Verdict(w) == IF canonical[ver[w]] = w THEN "ok" ELSE "lost"

(* A reader is done; a writer has opened the version it starts from, or    *)
(* compares the committed transaction with its own.                        *)
ReadManifest(p) ==
  /\ pc[p] = "read"
  /\ \/ /\ p \in Readers
        /\ Goto(p, "idle")
        /\ UNCHANGED <<mode, tries, result, faults>>
     \/ /\ p \in Writers /\ mode[p] = "open"
        /\ Goto(p, "catchup")
        /\ UNCHANGED <<mode, tries, result, faults>>
     \/ /\ p \in Writers /\ mode[p] = "verify"
        /\ Report(p, Verdict(p))
        /\ UNCHANGED <<mode, tries, faults>>
     \/ Fault /\ Fail(p)
  /\ UNCHANGED <<store, ver, seen, floor>>

(***************************************************************************)
(* Committing                                                              *)
(***************************************************************************)

(* Deviation: reservations count as committed versions.                    *)
Bases_FromIndex(w) == {v \in Recorded : Newest(v)}

(* The commit loop lists the canonical manifests above the version it      *)
(* opened and builds on the newest; a strict overwrite stays put.          *)
Bases(w) ==
  IF w \in StrictWriters THEN {ver[w]}
  ELSE {v \in Listed : \A u \in Listed : u <= v}

(* load_new_transactions and the choice of target_version.                 *)
CatchUp(w) ==
  /\ pc[w] = "catchup"
  /\ \E v \in Bases(w) :
       /\ v < MaxVersion
       /\ ver' = [ver EXCEPT ![w] = v + 1]
  /\ Goto(w, "stage")
  /\ UNCHANGED <<store, mode, seen, tries, result, floor, faults>>

(* commit, step 1: write the manifest under a staging name.                *)
StageManifest(w) ==
  /\ pc[w] = "stage"
  /\ \/ /\ staging' = staging \cup {w}
        /\ Goto(w, "reserve")
        /\ mode' = [mode EXCEPT ![w] = "commit"]
        /\ UNCHANGED faults
     \/ /\ Fault
        /\ staging' \in {staging, staging \cup {w}}
        /\ Goto(w, "idle")
        /\ mode' = [mode EXCEPT ![w] = "verify"]
  /\ UNCHANGED <<record, canonical, late, ver, seen, tries, result, floor>>

(* Deviation: the reservation is a plain put.                              *)
Reserved_Unconditional(w) == [record EXCEPT ![ver[w]] = StagingOf(w)]

(* The effect of put_if_not_exists on the rows.                            *)
Reserved(w) ==
  IF record[ver[w]].path = "none"
  THEN [record EXCEPT ![ver[w]] = StagingOf(w)]
  ELSE record

(* Deviation: the answer of the reservation is ignored.                    *)
AfterReserve_IgnoreConflict(w) == "copy"

AfterReserve(w) == IF record[ver[w]].path = "none" THEN "copy" ELSE "recheck"

(* commit, step 2: put_if_not_exists.  A request that fails was applied,   *)
(* was not, or is still on its way.                                        *)
ReserveVersion(w) ==
  /\ pc[w] = "reserve"
  /\ seen' = [seen EXCEPT ![w] = StagingOf(w)]
  /\ \/ /\ record' = Reserved(w)
        /\ Goto(w, AfterReserve(w))
        /\ UNCHANGED <<late, faults>>
     \/ /\ Fault
        /\ \/ record' = Reserved(w) /\ UNCHANGED late
           \/ UNCHANGED <<record, late>>
           \/ late' = late \cup {w} /\ UNCHANGED record
        /\ Goto(w, "recheck")
  /\ UNCHANGED <<canonical, staging, mode, ver, tries, result, floor>>

(* Deviation: any row at all is taken as proof of a loss.                  *)
ProvenLost_AnyRow(w) == record[ver[w]].path # "none"

ProvenLost(w) ==
  record[ver[w]].path # "none" /\ record[ver[w]] # StagingOf(w)

(* lose_or_retain: a row that names another path proves the staged object  *)
(* lost; otherwise it is kept.  Either way the loop is told of a conflict  *)
(* and verifies the outcome.                                               *)
LoseOrRetain(w) ==
  /\ pc[w] = "recheck"
  /\ \/ /\ ProvenLost(w)
        /\ Goto(w, "drop")
        /\ UNCHANGED <<mode, faults>>
     \/ /\ \/ ~ProvenLost(w) /\ UNCHANGED faults
           \/ Fault
        /\ Goto(w, "idle")
        /\ mode' = [mode EXCEPT ![w] = "verify"]
  /\ UNCHANGED <<store, ver, seen, tries, result, floor>>

(* delete_staging, best effort.                                            *)
DropStaging(w) ==
  /\ pc[w] = "drop"
  /\ \/ staging' = staging \ {w} /\ UNCHANGED faults
     \/ Fault /\ UNCHANGED staging
  /\ Goto(w, "idle")
  /\ mode' = [mode EXCEPT ![w] = "verify"]
  /\ UNCHANGED <<record, canonical, late, ver, seen, tries, result, floor>>

(***************************************************************************)
(* The environment                                                         *)
(***************************************************************************)

(* The external store applies a reservation its writer gave up on.         *)
ApplyLate(w) ==
  /\ w \in late
  /\ late' = late \ {w}
  /\ record' = Reserved(w)
  /\ UNCHANGED <<canonical, staging, local, floor, faults>>

(* A process dies between two requests.  A reader starts again.            *)
Crash(p) ==
  /\ pc[p] \notin {"done", "crashed"}
  /\ Fault
  /\ Goto(p, IF p \in Readers THEN "idle" ELSE "crashed")
  /\ UNCHANGED <<store, mode, ver, seen, tries, result, floor>>

Step(p) ==
  \/ ResolveLatest(p)
  \/ ListLatest(p)
  \/ \E v \in Versions : ResolveVersion(p, v)
  \/ FindUnrecorded(p)
  \/ IndexUnrecorded(p)
  \/ ResolveError(p)
  \/ HeadFinal(p)
  \/ CopyStaging(p)
  \/ HeadCopied(p)
  \/ PublishFinal(p)
  \/ DeleteStaged(p)
  \/ ReadManifest(p)

Commit(w) ==
  \/ CatchUp(w)
  \/ StageManifest(w)
  \/ ReserveVersion(w)
  \/ LoseOrRetain(w)
  \/ DropStaging(w)

Next ==
  \/ \E p \in Procs : Step(p) \/ Crash(p)
  \/ \E w \in Writers : Commit(w) \/ ApplyLate(w)

Spec == Init /\ [][Next]_vars

(***************************************************************************)
(* Fairness: a process that can issue its next request does so, a request  *)
(* in flight arrives, and somebody keeps asking for the latest version.    *)
(***************************************************************************)
Fairness ==
  /\ \A p \in Procs : WF_vars(Step(p))
  /\ \A w \in Writers : WF_vars(Commit(w)) /\ WF_vars(ApplyLate(w))
  /\ \A r \in Readers : SF_vars(ResolveLatest(r))

FairSpec == Spec /\ Fairness

-----------------------------------------------------------------------------
(* Every variable holds a value of its domain.                             *)
TypeOK ==
  /\ record \in [Versions -> Records]
  /\ canonical \in [Versions -> Manifests \cup {NoManifest}]
  /\ staging \subseteq Writers
  /\ late \subseteq Writers
  /\ pc \in [Procs -> Labels]
  /\ mode \in [Procs -> {"open", "commit", "verify"}]
  /\ ver \in [Procs -> 0..MaxVersion]
  /\ seen \in [Procs -> Records]
  /\ tries \in [Writers -> 0..VerifyAttempts]
  /\ result \in [Writers -> {"none", "ok", "lost", "unknown"}]
  /\ floor \in [Procs -> SUBSET Versions]
  /\ faults \in 0..MaxFaults

(* A version's canonical manifest is the commit point: once materialized   *)
(* its contents never change, whoever copies, retries, helps or crashes.   *)
CanonicalNeverChanges ==
  [][\A v \in Versions :
       canonical[v] # NoManifest => canonical'[v] = canonical[v]]_vars

(* Only the manifest the external store selected is ever materialized: a   *)
(* writer that lost the reservation never reaches the canonical path.      *)
OnlySelectedMaterialized ==
  \A v \in Versions :
    canonical[v] \in Writers => record[v].of = canonical[v]

(* A row can always be resolved: the staged object it names still exists,  *)
(* or the canonical object already holds the same manifest.                *)
RowsRecoverable ==
  \A v \in Versions :
    /\ record[v].path = "staging" =>
         record[v].of \in staging \/ canonical[v] = record[v].of
    /\ record[v].path = "final" => canonical[v] = record[v].of

(* A writer told that it committed owns its version, and one told that it  *)
(* lost owns none and has no reservation that could still win one.         *)
OutcomesAreTrue ==
  \A w \in Writers :
    /\ result[w] = "ok" => canonical[ver[w]] = w
    /\ result[w] = "lost" =>
         /\ \A v \in Versions : w \notin {canonical[v], record[v].of}
         /\ w \in late => record[ver[w]].path # "none"

(* The canonical manifests trail the reservations by one version at most,  *)
(* so a reader that ignores the external store is one commit behind.       *)
AtMostOneBehind ==
  \A v \in Recorded : \A u \in Versions : u < v => canonical[u] # NoManifest

(* Asking for the latest version yields one no older than every commit     *)
(* acknowledged before the question was asked.                             *)
LatestIsFresh ==
  \A p \in Procs : pc[p] = "read" => \A v \in floor[p] : v <= ver[p]

(* A reserved version is eventually materialized, though its writer may    *)
(* have died: a helping reader finishes the commit.                        *)
ReservationsMaterialize ==
  \A v \in Versions :
    record[v].path = "staging" ~> canonical[v] # NoManifest

(* Every writer that does not crash comes to report an outcome.            *)
WritersReport ==
  \A w \in Writers : <>(pc[w] \in {"done", "crashed"})

(* The handler implements the write-once version log: the row selects the  *)
(* owner of a version, and reports agree with the selection.               *)
Log == INSTANCE VersionLog WITH
  chosen  <- [v \in Versions |-> IF record[v].path = "none" THEN canonical[v]
                                                           ELSE record[v].of],
  outcome <- result

ImplementsVersionLog == Log!Spec
=============================================================================
