-------------------------- MODULE CommitTransaction --------------------------
(***************************************************************************)
(* commit_transaction (rust/lance/src/io/commit.rs): the optimistic commit *)
(* loop.  A transaction catches up with the versions committed since the   *)
(* one it read, checks itself against each, writes its transaction file,   *)
(* and asks the commit handler to create the next version.  A failed       *)
(* answer proves nothing, so the loop reads the version back before it     *)
(* deletes the file, retries, or reports.                                  *)
(*                                                                         *)
(* The handler is the write-once version log that VersionLog promises; its *)
(* answers may be lost, wrong or late.                                     *)
(***************************************************************************)
EXTENDS Naturals, Sequences

CONSTANTS
  Txns,         \* transactions, each committed by one call
  Creators,     \* transactions that create the dataset (commit_new_dataset)
  Conflicts,    \* <<t, u>>: check_txn refuses t once u has been committed
  Rebased,      \* transactions whose rebase moves read_version (delete, update)
  Large,        \* transactions too large to be inlined in the manifest
  Strict,       \* overwrites with num_retries = 0
  Conditional,  \* commits with an expected_latest_version
  NumRetries,   \* CommitConfig::num_retries
  Definitive,   \* is_version_not_found_definitive
  Propagate,    \* propagate_commit_error_after_success
  LateWrites,   \* whether a failed manifest write may still be applied later
  MaxFaults     \* bound: failed requests, wrong answers and crashes

Pinned == Creators \cup Strict \cup Conditional

ASSUME TxnAssumption ==
  /\ Conflicts \subseteq Txns \X Txns
  /\ Pinned \cup Rebased \cup Large \subseteq Txns
  /\ Pinned \cap Rebased = {}
  /\ Conditional \cap (Creators \cup Strict) = {}

ASSUME BoundAssumption == NumRetries \in Nat /\ MaxFaults \in Nat

(* A handler may call its not-found definitive only if no write of its can *)
(* show up after the answer.                                               *)
ASSUME HandlerAssumption ==
  /\ {Definitive, Propagate, LateWrites} \subseteq BOOLEAN
  /\ Definitive => ~LateWrites

VARIABLES
  log,        \* log[v]: the manifest of version v
  files,      \* names of the transaction files that exist
  late,       \* manifest writes still in flight after an error was reported
  pc,         \* pc[t]: where t's commit loop is
  read,       \* read[t]: the version t was built from
  rv,         \* rv[t]: read_version as recorded in t
  base,       \* base[t]: version of the dataset the attempt builds on
  attempt,    \* attempt[t]: conflicts so far
  error,      \* error[t]: "conflict" or "other", the handler's last answer
  result,     \* result[t]: what the call returned
  faults      \* faults that have happened

vars == <<log, files, late, pc, read, rv, base, attempt, error, result, faults>>

Labels == {"start", "load", "file", "commit", "verify", "record",
           "cleanup", "done", "crashed"}

(* The manifest of an attempt names its transaction file and may hold the  *)
(* transaction itself.  The file is named for the read version and uuid.   *)
ManifestOf(t) == [txn |-> t, rv |-> rv[t], inline |-> t \notin Large]
FileOf(m)     == <<m.rv, m.txn>>

(* Deviation: the target is chosen as the write is issued.                 *)
Target_Newest(t) == Len(log) + 1

(* target_version: the version after the one the attempt builds on.        *)
Target(t) == base[t] + 1

(* num_attempts: conditional commits and creations have one, a strict      *)
(* overwrite has num_retries = 0 and hence one.                            *)
Attempts(t) == IF t \in Pinned \/ NumRetries = 0 THEN 1 ELSE NumRetries

Init ==
  /\ log = <<>>
  /\ files = {}
  /\ late = {}
  /\ pc = [t \in Txns |-> "start"]
  /\ read = [t \in Txns |-> 0]
  /\ rv = [t \in Txns |-> 0]
  /\ base = [t \in Txns |-> 0]
  /\ attempt = [t \in Txns |-> 0]
  /\ error = [t \in Txns |-> "none"]
  /\ result = [t \in Txns |-> "none"]
  /\ faults = 0

Goto(t, label) == pc' = [pc EXCEPT ![t] = label]

Return(t, what) ==
  /\ Goto(t, "done")
  /\ result' = [result EXCEPT ![t] = what]

Fault == faults < MaxFaults /\ faults' = faults + 1

(***************************************************************************)
(* Catching up                                                             *)
(***************************************************************************)

(* commit_transaction starts from a transaction built on some version.     *)
Submit(t) ==
  /\ pc[t] = "start" /\ t \notin Creators
  /\ \E v \in DOMAIN log :
       /\ read' = [read EXCEPT ![t] = v]
       /\ rv' = [rv EXCEPT ![t] = v]
       /\ base' = [base EXCEPT ![t] = v]
  /\ Goto(t, "load")
  /\ UNCHANGED <<log, files, late, attempt, error, result, faults>>

(* do_commit_new_dataset, when the builder found no table: there is        *)
(* nothing to catch up with.                                               *)
CreateDataset(t) ==
  /\ pc[t] = "start" /\ t \in Creators
  /\ log = <<>>
  /\ Goto(t, "file")
  /\ UNCHANGED <<log, files, late, read, rv, base, attempt, error, result, faults>>

(* A manifest's transaction is read inline or from the file it names.      *)
Readable(m) == m.inline \/ FileOf(m) \in files

(* Deviation: the first version after the base is skipped.                 *)
Newer_SkipsFirst(t) == (base[t] + 2)..Len(log)

(* Versions committed since the attempt's base.                            *)
Newer(t) == (base[t] + 1)..Len(log)

(* load_and_sort_new_transactions, check_txn over each, finish.            *)
Rebase(t) ==
  /\ pc[t] = "load" /\ t \notin Pinned
  /\ \/ /\ \A v \in Newer(t) : Readable(log[v]) /\ <<t, log[v].txn>> \notin Conflicts
        /\ base' = [base EXCEPT ![t] = Len(log)]
        /\ rv' = IF t \in Rebased THEN [rv EXCEPT ![t] = Len(log)] ELSE rv
        /\ Goto(t, "file")
        /\ UNCHANGED <<result, faults>>
     \/ /\ \/ /\ \E v \in Newer(t) : ~Readable(log[v]) \/ <<t, log[v].txn>> \in Conflicts
              /\ UNCHANGED faults
           \/ Fault
        /\ Return(t, "failed")
        /\ UNCHANGED <<rv, base>>
  /\ UNCHANGED <<log, files, late, read, attempt, error>>

(* A conditional commit only checks that the table has not moved; a strict *)
(* overwrite checks nothing.                                               *)
CheckPinned(t) ==
  /\ pc[t] = "load" /\ t \in Pinned
  /\ \/ /\ t \in Conditional => Len(log) = read[t]
        /\ Goto(t, "file")
        /\ UNCHANGED <<result, faults>>
     \/ /\ t \in Conditional
        /\ \/ Len(log) # read[t] /\ UNCHANGED faults
           \/ Fault
        /\ Return(t, "failed")
  /\ UNCHANGED <<log, files, late, read, rv, base, attempt, error>>

(***************************************************************************)
(* Attempting                                                              *)
(***************************************************************************)

(* write_transaction_file: a plain put.                                    *)
WriteTransactionFile(t) ==
  /\ pc[t] = "file"
  /\ \/ /\ files' = files \cup {FileOf(ManifestOf(t))}
        /\ Goto(t, "commit")
        /\ UNCHANGED <<result, faults>>
     \/ /\ Fault
        /\ files' \in {files, files \cup {FileOf(ManifestOf(t))}}
        /\ Return(t, "failed")
  /\ UNCHANGED <<log, late, read, rv, base, attempt, error>>

(* Building or validating the manifest fails before anything is written.   *)
RefuseManifest(t) ==
  /\ pc[t] = "commit"
  /\ Fault
  /\ files' \in {files, files \ {FileOf(ManifestOf(t))}}
  /\ Return(t, "failed")
  /\ UNCHANGED <<log, late, read, rv, base, attempt, error>>

(* The handler creates version v only if it does not exist yet.            *)
Created(v, m) == IF Len(log) + 1 = v THEN Append(log, m) ELSE log

(* write_manifest_file, and the handler's answer.  Under a fault the write *)
(* was applied, was not, or is in flight, and the answer is either error.  *)
CommitManifest(t) ==
  /\ pc[t] = "commit"
  /\ \/ /\ Len(log) = base[t]
        /\ log' = Created(Target(t), ManifestOf(t))
        /\ Goto(t, "record")
        /\ UNCHANGED <<late, error, result, faults>>
     \/ /\ Len(log) # base[t]
        /\ error' = [error EXCEPT ![t] = "conflict"]
        /\ Goto(t, "verify")
        /\ UNCHANGED <<log, late, result, faults>>
     \/ /\ Fault
        /\ \E e \in {"conflict", "other"} : error' = [error EXCEPT ![t] = e]
        /\ \/ log' = Created(Target(t), ManifestOf(t)) /\ UNCHANGED late
           \/ UNCHANGED <<log, late>>
           \/ /\ LateWrites
              /\ late' = late \cup {[ver |-> Target(t), man |-> ManifestOf(t)]}
              /\ UNCHANGED log
        /\ Goto(t, "verify")
        /\ UNCHANGED result
  /\ UNCHANGED <<files, read, rv, base, attempt>>

(***************************************************************************)
(* Settling a failed attempt                                               *)
(***************************************************************************)

(* Deviations: an error is taken at its word, the transaction is compared  *)
(* as submitted instead of as rebased, and every not-found is definitive.  *)
Outcome_TrustsError(t) == "foreign"
Outcome_ComparesSubmitted(t) ==
  IF Target(t) \in DOMAIN log
  THEN IF FileOf(log[Target(t)]) = <<read[t], t>> THEN "ours" ELSE "foreign"
  ELSE IF Definitive THEN "absent" ELSE "unknown"
Outcome_NotFoundIsFinal(t) ==
  IF Target(t) \in DOMAIN log
  THEN IF FileOf(log[Target(t)]) = FileOf(ManifestOf(t)) THEN "ours" ELSE "foreign"
  ELSE "absent"

(* verify_commit_outcome, without read failures.                           *)
Outcome(t) ==
  IF Target(t) \in DOMAIN log
  THEN LET m == log[Target(t)] IN
       IF ~Readable(m) THEN "unknown"
       ELSE IF FileOf(m) = FileOf(ManifestOf(t)) THEN "ours" ELSE "foreign"
  ELSE IF Definitive THEN "absent" ELSE "unknown"

VerifyOutcome(t) ==
  /\ pc[t] = "verify"
  /\ \/ /\ Outcome(t) = "ours"
        /\ Goto(t, "record")
        /\ UNCHANGED <<result, faults>>
     \/ /\ Outcome(t) \in {"foreign", "absent"}
        /\ Goto(t, "cleanup")
        /\ UNCHANGED <<result, faults>>
     \/ /\ \/ Outcome(t) = "unknown" /\ UNCHANGED faults
           \/ Fault
        /\ Return(t, "unknown")
  /\ UNCHANGED <<log, files, late, read, rv, base, attempt, error>>

(* A commit that landed is a success, though some handlers still have      *)
(* their error returned.                                                   *)
RecordSuccess(t) ==
  /\ pc[t] = "record"
  /\ Return(t, IF error[t] = "other" /\ Propagate THEN "landed_error" ELSE "ok")
  /\ UNCHANGED <<log, files, late, read, rv, base, attempt, error, faults>>

(* Deviation: the attempts are not counted.                                *)
NextAttempt_NotCounted(t) == attempt[t]

(* next_attempt_i.                                                         *)
NextAttempt(t) == attempt[t] + 1

(* Deviation: one attempt too many.                                        *)
MayRetry_OneTooMany(t) == error[t] = "conflict" /\ NextAttempt(t) <= Attempts(t)

(* Only a conflict is retried, while attempts are left.                    *)
MayRetry(t) == error[t] = "conflict" /\ NextAttempt(t) < Attempts(t)

(* cleanup_transaction_file, best effort, then the next attempt unless the *)
(* error was final, the attempts are used up or the timeout has passed.    *)
CleanupTransactionFile(t) ==
  /\ pc[t] = "cleanup"
  /\ \/ files' = files \ {FileOf(ManifestOf(t))} /\ UNCHANGED faults
     \/ Fault /\ UNCHANGED files
  /\ \/ /\ MayRetry(t)
        /\ attempt' = [attempt EXCEPT ![t] = NextAttempt(t)]
        /\ Goto(t, "load")
        /\ UNCHANGED result
     \/ /\ Return(t, "failed")
        /\ UNCHANGED attempt
  /\ UNCHANGED <<log, late, read, rv, base, error>>

(***************************************************************************)
(* The environment                                                         *)
(***************************************************************************)

(* A manifest write that had been reported as failed reaches the store.    *)
ApplyLate ==
  /\ \E w \in late :
       /\ late' = late \ {w}
       /\ log' = Created(w.ver, w.man)
  /\ UNCHANGED <<files, pc, read, rv, base, attempt, error, result, faults>>

Crash(t) ==
  /\ pc[t] \notin {"start", "done", "crashed"}
  /\ Fault
  /\ Goto(t, "crashed")
  /\ UNCHANGED <<log, files, late, read, rv, base, attempt, error, result>>

Step(t) ==
  \/ Submit(t)
  \/ CreateDataset(t)
  \/ Rebase(t)
  \/ CheckPinned(t)
  \/ WriteTransactionFile(t)
  \/ RefuseManifest(t)
  \/ CommitManifest(t)
  \/ VerifyOutcome(t)
  \/ RecordSuccess(t)
  \/ CleanupTransactionFile(t)

Next == ApplyLate \/ \E t \in Txns : Step(t) \/ Crash(t)

Spec == Init /\ [][Next]_vars

(* A running commit issues its next request.  Nothing is assumed of a      *)
(* write in flight.                                                        *)
FairSpec == Spec /\ \A t \in Txns : WF_vars(Step(t))

-----------------------------------------------------------------------------
Names     == Nat \X Txns
Manifests == [txn : Txns, rv : Nat, inline : BOOLEAN]

(* Every variable holds a value of its domain, and no commit makes more    *)
(* attempts than it is configured for.                                     *)
TypeOK ==
  /\ log \in Seq(Manifests)
  /\ files \subseteq Names
  /\ late \subseteq [ver : Nat, man : Manifests]
  /\ pc \in [Txns -> Labels]
  /\ read \in [Txns -> Nat]
  /\ rv \in [Txns -> Nat]
  /\ base \in [Txns -> Nat]
  /\ attempt \in [Txns -> Nat]
  /\ \A t \in Txns : attempt[t] < Attempts(t)
  /\ error \in [Txns -> {"none", "conflict", "other"}]
  /\ result \in [Txns -> {"none", "ok", "failed", "unknown", "landed_error"}]
  /\ faults \in 0..MaxFaults

Landed(t) == \E v \in DOMAIN log : log[v].txn = t

(* The transaction file a committed manifest names is never deleted, by    *)
(* the clean-up of the attempt that wrote it or of any other attempt.      *)
TransactionFilesIntact == \A v \in DOMAIN log : FileOf(log[v]) \in files

(* A transaction makes at most one version, however often it is retried    *)
(* and whatever the handler answered.                                      *)
AppliedAtMostOnce ==
  \A u, v \in DOMAIN log : log[u].txn = log[v].txn => u = v

(* A call that returns success has committed.  One that returns a failure  *)
(* has not, and no write of its that is still in flight can.               *)
ReturnsAreTrue ==
  \A t \in Txns :
    /\ result[t] \in {"ok", "landed_error"} => Landed(t)
    /\ result[t] = "failed" =>
         /\ ~Landed(t)
         /\ \A w \in late : w.man.txn = t => w.ver <= Len(log)

(* Every committed transaction was checked against each one that came      *)
(* between the version it read and its own; strict and conditional ones    *)
(* directly follow the version they read.                                  *)
NothingUnchecked ==
  \A v \in DOMAIN log :
    LET t == log[v].txn IN
    IF t \in Pinned
    THEN v = read[t] + 1
    ELSE \A u \in (read[t] + 1)..(v - 1) : <<t, log[u].txn>> \notin Conflicts

(* Every call that does not crash returns.                                 *)
CallsReturn ==
  \A t \in Txns : pc[t] # "start" ~> pc[t] \in {"done", "crashed"}

(* The loop implements the table history its callers rely on.  A returned  *)
(* error that hides a landed commit promises no more than an unknown one.  *)
History == INSTANCE TableHistory WITH
  history  <- [v \in DOMAIN log |-> log[v].txn],
  snapshot <- read,
  outcome  <- [t \in Txns |->
                 IF pc[t] = "start" THEN "unsubmitted"
                 ELSE IF result[t] = "landed_error" THEN "unknown"
                 ELSE result[t]]

ImplementsTableHistory == History!Spec
=============================================================================
