# Lance: specifications of its concurrent parts

Lance is a columnar table format and library. A table is a directory on an
object store; every version of it is an immutable manifest object, and a commit
is the creation of the next manifest. The TLA+ modules here model

* how writers agree on the next version, how a writer finds out what became of
  its commit when answers are lost, and what readers may see meanwhile;
* how cleanup removes old versions beside all that;
* how the writers of a MemWAL shard (a write-ahead log in front of a table) take
  it over from each other without losing an acknowledged row;
* how the I/O scheduler shares a budget between readers that wait for each other.

All paths below are relative to the repository; `external_manifest.rs`,
`dynamodb.rs` and `table commit.rs` are under `rust/lance-table/src/io/commit*`,
`commit.rs` is `rust/lance/src/io/commit.rs`, `cleanup.rs`, `refs.rs` and
`mem_wal/` are under `rust/lance/src/dataset/`, `scheduler.rs` is
`rust/lance-io/src/scheduler.rs`.

## The system and its parts

| Part | State | Operations | Hard because | Modelled in |
|---|---|---|---|---|
| Optimistic commit loop (`commit.rs`) | transaction (with a moving `read_version`), transaction file, dataset the attempt builds on, attempt count | `commit_transaction`, `do_commit_new_dataset`, `verify_commit_outcome`, `cleanup_transaction_file` | a failed answer proves nothing; other commits land between check and write | `CommitTransaction`, `TableHistory` |
| `CommitHandler` contract (`table commit.rs`) | manifests by version | `commit`, `resolve_latest_location`, `resolve_version_location` | must decide every version once | `VersionLog` |
| External manifest handler (`external_manifest.rs`) | rows of the external store, staged and canonical manifest objects | `commit`, `put`, `finalize_staged`, `finalize_manifest`, `lose_or_retain`, resolution | two stores, no transaction across them; readers finish the writers' work | `ExternalManifest` |
| DynamoDB store (`dynamodb.rs`) | one row per version | `put_if_not_exists`, `put_if_exists`, `get_manifest_location`, `get_latest_manifest_location` | lost and late answers | `ExternalManifest` |
| Other handlers (`table commit.rs`) | lock leases, temporary objects | `CommitLock` with `LeaseGuard`, `RenameCommitHandler`, `UnsafeCommitHandler` | a lease is released from `Drop` while the write may be in flight | not modelled |
| Version hint and listing (`table commit.rs` 306-707) | the hint object | `write_version_hint`, upward probing, gap filling | unordered best-effort writes | not modelled (`ShardManifest` has the same scheme for shards) |
| Conflict resolver (`commit/conflict_resolver*`) | the transaction being rebased | `check_txn`, `finish` | a pairwise compatibility matrix over about fifteen operations | a constant relation in `CommitTransaction` |
| Detached commits (`commit.rs` 1310-1600) | manifests outside the chain | `do_commit_detached_transaction` | random versions | not modelled |
| Cleanup (`dataset/cleanup.rs`) | referenced files, retained versions | `run`, `process_manifests`, `delete_unreferenced_files`, `auto_cleanup_hook` | deletes what a commit in progress may reference | `Cleanup` |
| Tags and branches (`dataset/refs.rs`) | reference files | create, update, delete | race with cleanup and with commits on the branch | `Cleanup` |
| MemWAL shard writer (`mem_wal/wal.rs`, `write/`, `memtable/`) | the log, memtables by generation, cursors, completion cells, a poison latch | `open`, `put`, `force_freeze_active`, `append_for_target`, `flush_memtable`, replay | fencing of a writer that still runs; three tasks and two cursors | `MemWal` |
| MemWAL shard manifest (`mem_wal/manifest.rs`) | manifest versions, a hint, a cached position per store | `claim_epoch`, `commit_update`, `check_fenced`, `initialize_shard`, `prune_versions_before` | pruning removes the file that would reject a stale write | `ShardManifest` |
| I/O scheduler (`rust/lance-io/src/scheduler.rs`) | priority queue, byte budget | `submit`, `next_task`, `on_bytes_consumed`, cancel | back-pressure against priorities; callers and loop wait for each other | `IoScheduler` |
| Compaction, schema evolution, scanner, file format, encodings, indices, bindings | data of one version | | data transformation, no protocol of their own: they end in a commit | not modelled |

The loop calls a handler; a handler talks to the object store and, here, to
DynamoDB; readers call the same resolution code as writers. Nothing else is
shared: there are no messages between processes. Cleanup and the MemWAL share
the object store with the writers and nothing else; a MemWAL flush ends in an
SSTable that is merged into the table by an ordinary commit. Every read of a data
file goes through the scheduler.

What makes the core correct:

* the handler: a version is decided once and never rewritten; every reservation
  can be completed by anybody; reports are true;
* the loop: a transaction enters the history at most once, checked against
  everything it skipped; a landed manifest never loses its transaction file;
  what the caller is told is true;
* readers: never older than what was acknowledged before they asked;
* cleanup: nothing that a retained, tagged or branched version references is
  deleted, and nothing that was only referenced by a removed version is
  forgotten;
* MemWAL: an acknowledged batch survives any crash and any takeover, once, in the
  generation and in the order it was put;
* scheduler: reservations are returned exactly once, and every request ends.

## Modules

| Module | What it is |
|---|---|
| `VersionLog` | abstract specification of a handler: a write-once map from versions to manifests with truthful reports |
| `ExternalManifest` | the external-store protocol, one action per request; implements `VersionLog` |
| `MCExternalManifest` | its instances for TLC |
| `ExternalManifestProofs` | inductive invariant and safety theorems |
| `ExternalManifestRefinement` | freshness of reads and the refinement theorem |
| `TableHistory` | abstract specification of committing transactions |
| `CommitTransaction` | the commit loop over a handler that behaves as `VersionLog` promises; implements `TableHistory` |
| `MCCommitTransaction` | its instances for TLC |
| `CommitTransactionProofs` | inductive invariant, safety theorems and the refinement of `TableHistory` |
| `Cleanup`, `MCCleanup` | garbage collection beside transactions, restores, a tag, a branch and another cleanup |
| `CleanupProofs` | inductive invariant and safety theorems |
| `MemWal`, `MCMemWal` | the log, the memtables and the writers of one MemWAL shard |
| `MemWalProofs` | inductive invariant, the shape of the log |
| `MemWalRecovery` | second inductive invariant, what the log is good for: recovery, order, one generation per batch |
| `ShardManifest`, `MCShardManifest` | the versioned manifest files of a shard, with cached positions and pruning |
| `ShardManifestProofs` | inductive invariant, fencing and the version order |
| `IoScheduler`, `MCIoScheduler` | the standard I/O queue, its loop and its callers |
| `IoSchedulerProofs` | lemmas about sums over finite sets, conservation of the budget, no lost wake-up |

`CommitTransaction` uses a version log (`log`, `Created`) rather than the
protocol itself: `ExternalManifest` is shown to implement the log, so the two
levels are checked separately. The loop's outcome check appears in both: in
`ExternalManifest` because it goes through the resolution code and helps other
writers, in `CommitTransaction` because deleting the transaction file and
retrying depend on it.

`MemWal` treats a manifest update as one atomic step that checks the epoch and
installs the successor; `ShardManifest` is about why the files behind it allow
that. `Cleanup` treats a commit as one step; `CommitTransaction` has its detail.

Operators whose names contain an underscore (`Reserved_Unconditional`,
`Outcome_TrustsError`, ...) are deviations: plausible mistakes in the operator
that follows them. No specification uses them; `PROJECT.json` lists which
property excludes each.

### ExternalManifest

| State | In the code |
|---|---|
| `record[v]` | the DynamoDB row of version `v`: no row, a staged path, or the canonical path, and whose manifest that path holds |
| `canonical[v]` | contents of the object at `manifest_path(v)` |
| `staging` | writers whose uniquely named staged object exists |
| `late` | reservations sent, given up on, not yet applied |
| `pc`, `mode`, `ver`, `seen` | where a process is, why it resolves (`open`, `commit`, `verify`), the version and the row it acts on |
| `tries`, `result` | the attempts of `verify_commit_outcome`, what the writer reports |
| `floor` | history variable: versions acknowledged when the process asked for the latest |
| `faults` | faults so far |

| Actions | In the code |
|---|---|
| `ResolveLatest`, `ListLatest` | `resolve_latest_location`: newest row, else listing |
| `ResolveVersion`, `FindUnrecorded`, `IndexUnrecorded`, `ResolveError` | `resolve_version_location`, including the on-boarding of versions without a row; its `put_if_not_exists` failure is only logged |
| `HeadFinal` | `verify_finalized_manifest_location` |
| `CopyStaging`, `HeadCopied` | `copy_or_verify_final_manifest`: overwriting COPY, NotFound falls back to the canonical object, sizes compared |
| `PublishFinal`, `DeleteStaged` | the rest of `finalize_staged` and `finalize_manifest` |
| `CatchUp` | the loop's choice of the version to build on: newest *listed* manifest (DynamoDB has no `list_versions`), or the read version for a strict overwrite |
| `StageManifest`, `ReserveVersion` | `commit`, `ExternalManifestStore::put` |
| `LoseOrRetain`, `DropStaging` | `lose_or_retain`, `delete_staging` |
| `ReadManifest`, `VerifyFailed` | `try_read_manifest_at` and the loop of `verify_commit_outcome` |
| `Crash`, `ApplyLate` | the environment |

Each action is one request. A request that fails did or did not take effect; a
reservation may take effect later. A late COPY or row update is not a case of
its own: it repeats a write whose effect depends on nothing but the selected
staged object. A reader that crashes starts again. The size check is
modelled through the constant `Size`; the instances give every manifest the same
size, so that the check never helps.

### CommitTransaction

| State | In the code |
|---|---|
| `log[v]` | manifest of version `v`: its transaction, the `read_version` recorded in it, whether the transaction is inline |
| `files` | transaction files, named `{read_version}-{uuid}.txn` |
| `late` | manifest writes reported as failed and still in flight |
| `read`, `rv`, `base` | the version the caller read, the transaction's current `read_version`, the dataset the attempt builds on |
| `attempt`, `error`, `result` | `backoff.attempt()`, the handler's answer, what the call returned |

`Rebase` is `load_and_sort_new_transactions`, `check_txn` over each (the
relation `Conflicts`) and `finish`, which moves `read_version` for deletes and
updates (`Rebased`); `CheckPinned` is the conditional and the strict case;
`RefuseManifest` is any error between writing the transaction file and writing
the manifest (only some of those paths delete the file); `CommitManifest` is
`write_manifest_file` with the handler's answer, which under a fault is either
error whatever happened; `VerifyOutcome`, `RecordSuccess` and
`CleanupTransactionFile` are the three ways the loop settles. A creation
(`CreateDataset`) goes through the same steps with one attempt at version 1.
`landed_error` is what `propagate_commit_error_after_success` makes of a commit
that landed.

`HandlerAssumption` says that a handler calls its not-found definitive only if
none of its writes can be applied after the answer. The code relies on this for
`ConditionalPutCommitHandler` and `RenameCommitHandler`; whether a request
abandoned by the HTTP client can still be applied is outside this repository.

### Cleanup

| State | In the code |
|---|---|
| `stored[f]` | when object `f` was written, `Absent` when there is none; `Kind[f]` is the directory it is in, which decides how it is listed |
| `manifest[v]`, `tip` | manifests with the files they reference and their timestamps |
| `txn`, `restore` | transactions that have written their file, a restore that has read its source |
| `tag`, `tagging` | the tag file; an operation that has checked its version, or read the tag, and has yet to write it |
| `branch` | a branch: its reference is claimed, then its clone is committed |
| `cleaner[c]` | where a `CleanupTask` is and what it has read: `CleanupInspection` |
| `doomed`, `exposed` | history: versions being removed; versions, tags and branches made behind a cleanup that had read past them |

`ListBranches`, `ReadReferences`, `ListManifests` and `Inspect` are the reads of
`run` in its order; deletes are one object at a time, in any order (the code
streams them concurrently), may fail, and may be cut off by a crash.
`CheckTag` is `build_tag_content_by_ref`, with which `Tags::create` and
`Tags::update` find out that the version exists; `RereadTag` is the read of
`replace_metadata`, which writes back the version the tag had. `PutTag` is the
write of all three, some requests later: it looks neither at the version nor,
except for `create`, at the tag. `ClaimBranch` allows for the same gap: the
version it names was looked up earlier and may be gone. In the initial states
version 1 has a tag or has none.

One clock is assumed. The code compares the `last_modified` of objects, which
the store assigns, with the timestamps writers put in their manifests
(`listing_unmodified_since`, cleanup.rs 502-527) and with the cleanup's own
clock (the retention and `UNVERIFIED_THRESHOLD_DAYS`). Nothing in the code
bounds how far these clocks are apart; `NoOrphans` depends on the first
comparison, `VersionsReadable` on the second, and both hold if they agree.

Two limits of the code are visible in the properties. First, an uncommitted
file is protected by its age alone (`UNVERIFIED_THRESHOLD_DAYS`), and the
threshold is taken after the manifests are read, so the assumption is
`MaxTxn + MaxInspect <= Threshold`: a transaction and an inspection together
take less than seven days. Second, references that are made behind a running
cleanup are not protected: a branch claimed after the branches were read or
cloned after they were inspected, a restore of a version the cleanup has
already decided to remove, and a tag written after the tags were read by a
cleanup that is going to remove its version. The last includes a cleanup that
runs from start to end between the check of the version and the write of the
tag: no cleanup is running any more when the tag is written, and the tag names
a version that is gone. `exposed` marks exactly these, and the properties speak
of the rest: a tag on a version that no cleanup in progress was going to remove
is covered, also when the tag moves, is deleted and put back by a late
`replace_metadata`, or when a cleanup dies half-way. The documentation says of
tags that "Tagged versions are exempt from cleanup"
(docs/src/guide/read_and_write.md 885) and makes no such exception.

### MemWal

| State | In the code |
|---|---|
| `wal[p]` | entry at position `p`: writer epoch, generation, batches; a fence sentinel has none |
| `late` | appends in flight after their writer gave up |
| `manifest` | epoch, `current_generation`, `replay_after_wal_entry_position`, `wal_entry_position_last_seen`, SSTables |
| `tables[w]` | frozen memtables, oldest first, and the active one: generation, global offset, batches, frozen-at marker, completion cell |
| `durable[w]`, `covered[w]` | `WriterCursors::durable`, `last_flushed_wal_entry_position` |
| `queue[w]`, `append[w]`, `flush[w]` | the triggers, the append and the memtable flush in progress |
| `poisoned[w]` | `terminal_error` |
| `put`, `acked` | history: batches put, batches whose put returned success |

`Claim`, `Discover`, `WriteSentinel`, `ReplayEntry`, `ReplayFlush`, `ReplayDone`
are `open`; `Put` and `Freeze` run under the state lock; `TakeTrigger`,
`AppendPut`, `AppendCheck`, `Advance`, `Settle` are the append task, one step per
request or lock; `FlushTake`, `FlushCheck`, `FlushCommit` the flush task. A writer is one life of
a `ShardWriter`: a reopen is another member of `Writers`. `Crash` is also `abort`.

`replay_after_wal_entry_position` may go back: when nothing was owed at the
freeze, the marker of the frozen table is the last position known *then*, and
the position of an append that was just ending is missed. The documentation says
it "is the most recent 1-based WAL position covered by an SSTable"
(docs/src/format/table/mem_wal.md 304). It is harmless because replay also
compares generations: the deviation `Skipped_Sentinels`, which drops that
comparison, breaks `OneGeneration`.

### ShardManifest

| State | In the code |
|---|---|
| `files[v]` | manifest file of version `v`: its epoch and age |
| `latest[h]` | the store's position: version, epoch and the age of its confirmation (`confirmed_at`) |
| `epoch[h]` | the epoch its writer holds |
| `op[t]` | the call a task is in; tasks share the stores of their writer |
| `late` | writes in flight after their task gave up |

Time appears as ages that saturate. `MaxStall` bounds how long one attempt, or a
write the client gave up on, may take; with `MAX_POSITION_AGE + MaxStall <
MIN_PRUNE_AGE` no stale write finds its version pruned. The code has no such
bound: the margin between the two constants stands for it. The version hint is
not a variable: it is written in any order and may fail, so a search starts from
any version that exists or from the listing. The age of a position that a write
confirms is counted from the start of its PUT, as `confirmed_at` is, which is
some moment of the attempt.

### IoScheduler

| State | In the code |
|---|---|
| `req[r]` | chunks of a request that were pushed, are queued, running, delivered, and how many of them were admitted; its error, cancellation and whether its future was dropped |
| `iops`, `bytes` | `iops_avail`, `bytes_avail` (may be negative) |
| `inflight` | `priorities_in_flight` as a bag |
| `permit`, `loop` | `Notify` and the task of `run_io_loop` |
| `failFast` | the error mode, chosen once |

A completion callback is one step; what it does in between (delivering, cancelling,
returning the IOP) is visible to nobody but the loop, which waits for the notification
that ends it.

The scheduler relies on its callers: "as long as all requests are consumed in
priority order then the backpressure mechanism should not deadlock"
(`stress_backpressure`), with the exception of `can_deliver_without_warning`,
where an admitted request may have a more urgent one scheduled behind it.
`Submit` states this discipline: a caller submits a more urgent request behind
one it has not consumed only when that one has been admitted. Without it the
model deadlocks, e.g. when a caller waits for a request that was never admitted
while the more urgent one it submitted afterwards holds the budget.

## Runs

| Run | Asks | Result |
|---|---|---|
| `external_safety` | 2 writers (one a strict overwrite), 1 reader, 3 versions, 1 from before the store, 1 verification attempt, 2 faults | passes |
| `external_liveness` | 2 writers, 1 reader, 2 versions, 2 verification attempts, 1 fault, fair | passes |
| `external_onboarding` | as the first, with 2 versions from before the store and no fault | violated: see the finding |
| `commit_safety` | creation, conditional append, rebased delete, retried overwrite; definitive handler; 2 faults | passes |
| `commit_late` | two creations, a rebased delete, a strict overwrite, two of them kept only in files; writes that land late, not-found never definitive; 2 faults, fair | passes |
| `cleanup` | 2 cleanups, 2 transactions, version 1 tagged or not, 1 restore, tag operation, branch or failure, 3 versions, 2 ticks | passes |
| `cleanup_branch` | one cleanup and a branch | violated: see the findings |
| `memwal` | 2 writers, 3 batches, memtables of 2, 1 retry, 1 fault | passes |
| `memwal_duplicate` | the same with 2 batches | violated: see the findings |
| `memwal_skipped` | 1 writer, 2 batches, memtables of 1, 2 failed requests | violated: see the findings |
| `shard_manifest` | 2 writers, one with two tasks; 3 versions, pruning, 1 failed write | passes |
| `io_scheduler` | 2 callers, 4 requests of 1 or 2 chunks, 2 IOPS, 3 bytes; fair | passes |

Bounds. Two writers and a reader are the smallest set in which a loser, a winner
and a helper act on one version; the third version lets a writer build on a
version a helper completed. `VerifyAttempts` is 1 or 2 instead of 3: attempts
are independent. Two faults allow a lost answer followed by a crash, or a crash
of the writer and of its helper. `CommitTransaction` bounds nothing but faults:
four transactions make at most four versions, and `NumRetries` is 2, so that a
retry and its exhaustion both occur. Writers stop after one call; behaviours end when all are done, so
the commit runs do not check for deadlock; the same is true of the other
bounded modules. The readers of `ExternalManifest` never stop, and its runs
check it.

In `Cleanup` two transactions make three versions: one to remove, one to keep,
and the latest. With `Threshold` 1, `MaxInspect` 1 and `MaxTxn` 0 the assumption
on them is an equality, so a file that is committed while a cleanup runs is
deleted if the threshold is off by one; two ticks are an age beyond the
threshold. A second cleanup is there because both delete from what they read,
and because a tag may be checked before one and written after it. The single
event is a restore, an operation on the tag, a branch, a failed delete or a
crash; the tag that version 1 may have from the start lets each of the others
happen beside a tag. `Lags` is {0, 1}: a cleanup on the newest handle removes
most, one on an older handle leaves versions it must take for new.
`Retentions` is {0}: only the latest version is too young to remove. The two
transactions write deletion files, whose listing depends on what is kept; in
this instance a data file old enough for its own exception is listed anyway.
The theorems have none of these bounds. `cleanup_branch` has one cleanup and
three ticks. In `MemWal` the third batch is the one that
follows a full memtable, so a freeze, a tick and a younger generation all occur,
and two writers are a takeover. One fault is a lost answer, a late write or a
failed check; with two of them `AckedRecoverable`, `HolderSeesAcked` and
`RecencyKept` do not hold, which is the finding of `memwal_skipped`. `LogSound`
is proved for any number of writers and faults, the others for any number of
both in the behaviours without the step behind the two findings. In `ShardManifest` two tasks on one store and a rival are the smallest set in which
a position is shared and stale; three versions allow a claim, a commit and the
claim that overtakes it. In `IoScheduler` the largest request needs more than the
buffer, so it can only be read through the exceptions of the budget.

Fairness. A process that can issue its next request does (weak fairness per
process: an async task is polled until done), a reservation in flight arrives,
and strong fairness of `ResolveLatest` for readers: somebody keeps asking for
the latest version. The last is an assumption about the users of the table, not
the code: nothing in it completes a reservation in the background.
`commit_late` needs only that running calls take steps; nothing is assumed
of writes in flight.
`io_scheduler` assumes weak fairness of the loop, of reads, of the rest of a
submission and of callers that take the answer they wait for: the loop is a
task of its own, reads end or fail, and a caller awaits its future. Nobody is
assumed to abandon anything or to close the scheduler.

## Findings

`external_onboarding`: only versions with a row are protected by the
reservation. A dataset with versions 1 and 2 from before the store was adopted
has no rows; `resolve_version_location` (external_manifest.rs 843-877) indexes
the one version it was asked for. A strict overwrite with `read_version` 1
checks out version 1 (commit.rs 1779-1789), targets version 2 (1946),
`put_if_not_exists` succeeds, and the COPY replaces the canonical manifest of
version 2. The comment at external_manifest.rs 632-634 says finalizing "must not
roll back an already materialized canonical manifest", and
docs/src/format/table/transaction.md 738-739 that "the canonical manifest bytes
in object storage remain authoritative". With at most one such version the
properties hold, and the theorems assume `LegacyVersions <= 1`.

`memwal_duplicate`: a PUT of a log entry lands and its answer is lost; the retry
finds the position taken and poisons the writer, "We can't advance-and-rewrite
(would duplicate)" (wal.rs 1338-1341). But `WalFlusher::flush` (wal.rs 817-842)
never looks at the latch, and the append task goes on handling triggers: the
next one finds the same batches pending, calls `append_for_target` anew, counts
the writer's own entry as an ordinary conflict and writes the batches again at
the next position. The comment of `test_append_lost_ack_poisons_without_duplicate`
(wal.rs 2756-2757) says that this never happens; the test calls the appender
once. No acknowledged batch is lost by this (the other properties hold with the
duplicate), but a generation that fills its memtable is then refused by replay
(replay.rs 217-241): `ReplayAccepts` says that with one fault this is the only
way to be refused.

`memwal_skipped`: two memtables are frozen and their appends are queued. The PUT
of the first fails, and so does the read of the manifest in `check_fenced` that
follows it (wal.rs 1369), whose error is returned as it is: it carries no fence
reason, so `WalFlusher::flush` poisons nothing (wal.rs 77, 836-840). The flush task does,
when it comes to the completion cell of that memtable (handlers.rs 475-480), but it may
still be retrying an older one. The append task takes the next trigger, appends
the second memtable, and `advance_durable` (wal.rs 918) moves the one cursor
past both. The puts of the first memtable return success; its batches are
nowhere in the log, and a crash loses them. `ShardWriterConfig::durable_write` "Guarantees no data
loss on crash" (config.rs 39), and `resolve_next_pending` says "WAL entries must
be appended in global batch-position order for the writer's lifetime"
(handlers.rs 207). The same gap misleads replay: it rebuilds the second
generation under the number of the first, and a later replay may refuse the log.

`cleanup_branch`: `create_branch` claims the branch reference and commits the
clone afterwards (dataset.rs 703-718). A cleanup that inspects the branch in
between finds no manifest of it and keeps neither its files nor its source
version, which may have expired; the clone is then committed over files that
are being deleted. docs/src/guide/tags_and_branches.md 233: "Lance ensures that
cleanup does not delete files still referenced by any branch." The run is for stores
that list an absent directory as empty, as object stores do.

## Proofs

Each component has its theorems in a module of its own. All of them hold for
every value of the constants that satisfies the module's named assumptions.
`Invariance` in each module is the inductive invariant; the others follow from it.
The theorems of `MemWalRecovery` have one hypothesis besides the specification,
`Steady`, explained below.

| Module | Theorem | States |
|---|---|---|
| `ExternalManifestProofs` | `TypeCorrect` | `TypeOK` |
| | `SelectedOnly` | `OnlySelectedMaterialized` |
| | `AlwaysRecoverable` | `RowsRecoverable` |
| | `TrueOutcomes` | `OutcomesAreTrue` |
| | `OneBehind` | `AtMostOneBehind` |
| | `WriteOnce` | `CanonicalNeverChanges` |
| `ExternalManifestRefinement` | `FreshReads` | `LatestIsFresh` |
| | `Refinement` | `ImplementsVersionLog` |
| `CommitTransactionProofs` | `TypeCorrect` | `TypeOK` |
| | `FilesIntact` | `TransactionFilesIntact` |
| | `AtMostOnce` | `AppliedAtMostOnce` |
| | `TruthfulReturns` | `ReturnsAreTrue` |
| | `EverythingChecked` | `NothingUnchecked` |
| | `Refinement` | `ImplementsTableHistory` |
| `CleanupProofs` | `RetainedVersions` | `VersionsReadable` |
| | `TagsKeep` | `TaggedReadable` |
| | `BranchesKeep` | `BranchReadable` |
| | `NothingOrphaned` | `NoOrphans` |
| `ShardManifestProofs` | `TypeCorrect` | `TypeOK` |
| | `Fencing` | `EpochsFence` |
| | `CurrentRefresh` | `RefreshIsCurrent` |
| | `WrittenOnce` | `NeverRewritten` |
| `MemWalProofs` | `TypeCorrect` | `TypeOK` |
| | `LogIsSound` | `LogSound` |
| `MemWalRecovery` | `RecoveryInvariance` | `Whole`, if `Steady` |
| | `AckedIsRecoverable` | `AckedRecoverable`, if `Steady` |
| | `HolderServesAcked` | `HolderSeesAcked`, if `Steady` |
| | `BatchesHaveOneGeneration` | `OneGeneration`, if `Steady` |
| | `RecencyIsKept` | `RecencyKept`, if `Steady` |
| | `BatchesAreAppendedOnce` | `AppendedOnce`, if `Steady` |
| | `ReplayAlwaysAccepts` | `ReplayAccepts`, if `Steady` |
| `IoSchedulerProofs` | `Conservation` | `AccountsBalance` |
| | `NoLostWakeUp` | `SleepsOnlyWhenBlocked` |

### ExternalManifest

Assumed: `LegacyVersions <= 1`, the bounds are numbers, a size function.
None of the stated properties is inductive: each says something about the
stores, and what keeps it true is what the processes still intend to do.
`Inv` therefore adds, to the type invariant:

* `RowInv`: what a row and the canonical object of a version may hold together,
  and which staged objects must exist;
* `OrderInv`: below a row every version is materialized, so versions are
  reserved in order;
* `LocalInv(p)` for each process: the row it acts on is still the row of that
  version or a completed form of it (`ProcInv`), a writer's manifest occurs
  nowhere but at the version it targets and nowhere before it asked
  (`OwnerInv`), everything below its target is materialized and the target did
  not predate the store (`TargetInv`), its report agrees with the stores
  (`ResultInv`).

The argument: the stores change in four ways only (a row appears, a row becomes
final, a canonical object appears, a staged object disappears), and each is
shown once to preserve the local invariants of the processes that did not act
(`GrowStep`, `FinalizedStep` and their like). Each action then needs its own
effect and one of these lemmas. `LegacyVersions <= 1` enters through
`TargetInv`, by which no writer targets a version from before the store: with
two of them, a strict overwrite of the first targets the second.

`FreshReads` adds to `Inv` that a process on its way from `ResolveLatest` to
reading has a version no older than any in its `floor`. `Refinement` maps
`chosen[v]` to the row's manifest, or to the canonical object where there is no
row, and `outcome` to `result`: reservations are `Choose`, reports are `Report`,
everything else stutters.

### CommitTransaction

Assumed: kinds of transactions exclude each other as in the code, and a handler
that calls its not-found definitive leaves no write behind
(`HandlerAssumption`). The conflict relation is arbitrary. `Inv` adds to the
type invariant and `TransactionFilesIntact`, for each transaction:

* `Placed`: what it has committed is the manifest of its last attempt, at its
  present target;
* `InFlight`: a write of its in flight aims at a version that is taken, or is
  its last attempt's, whose transaction file still exists;
* `CaughtUp`: it has been checked against everything between the version it
  read and the one it builds on;
* `KnownOutcome`: what it may conclude at each label about its last attempt.

The crux is that a transaction which can still move its target, or delete its
transaction file, has nothing in the log and nothing in flight that could get
there (`Unlanded`). Appending to the log preserves this for the others because
a version is created once. The refinement maps `applied` to the transactions of
the log, `AppliedAtMostOnce` being what makes that a map.

### Cleanup

Assumed: `MaxTxn + MaxInspect <= Threshold`, that is, a transaction and a
cleanup's inspection together are shorter than the age below which a cleanup
spares unreferenced files (seven days in the code, `UNVERIFIED_THRESHOLD_DAYS`).
A version is *kept* if it is live, no cleanup has set out to remove it
(`doomed`, a ghost) and it was not restored behind a running cleanup
(`exposed`). The core of `Inv` is that every file of a kept version is present
and in no cleanup's list of files to delete; around it are the shapes of tags,
branches, restores and open transactions, and `CleanerOk` for each cleanup.
For tags the invariant needs more than *kept*: a version is *spared* if besides
no cleanup that has read the tags without it is going to remove it. The tag
names such a version, and so does an operation that has yet to write it, unless
they are exposed; a spared version stays so until a cleanup reads the tags, and
that cleanup either finds it or exposes the operation.

The hard case is a version published after a cleanup has listed the manifests,
which it therefore does not know. `ListedOk` says that such a version has the
files of the version that was the latest at the listing, which the cleanup
counts as referenced, and files that no listed version has and that are at most
`MaxTxn` older than the listing: these are younger than the threshold when the
cleanup gets to them. `NothingOrphaned` rests on the bound with which the
listing of removed versions stops: no removed version's file is younger than
the oldest version kept.

### ShardManifest

Assumed: `MaxPositionAge + MaxStall < MinPruneAge` (in the code an hour, and the
stall of one request, against a day). The argument is about time. What
a store or a task takes for the newest version was the newest when its age
began, so its successor, if it exists by now, is no older than that age. A file
of such an age is not pruned. So as long as anybody may attempt to write a
version, the file that rejects the attempt is there: versions are written once
and in order, which gives fencing and the currency of a refresh. Hints are not
in the invariant at all: whatever a hint says, the scan from it ends at the
newest version, because the files that exist are those between two versions.

### IoScheduler

Assumed: finitely many requests. `AccountsBalance` compares what is available
with sums over the requests, so the first part of the module proves what is
needed about `SumFunctionOnSet` of the community modules: that it does not
depend on the order of summation, and what it does when one summand changes.
The library's induction theorems take an operator as a parameter, which the
provers cannot instantiate; `SubsetInduction` takes the property as a set
instead, and rests on the strict subset relation being well-founded.

The invariant says for each request what its counters may be together
(`ReqOk`), and for each of the three accounts that it equals the budget less the
sum of what the requests hold. `SleepsOnlyWhenBlocked` is inductive with these:
every step that could make a queued chunk startable leaves a permit for the loop.

### MemWal

Assumed: the capacity and the bounds are numbers; nothing about the writers, of
which there may be any number, or about which puts cross a threshold. `LogSound`
is about the log only, and what keeps it true is where everybody who may still
write aims. `Inv` has four parts besides the types:

* `LogOk`: positions are 1 to `N`, and no cursor and no request in flight is
  past `N + 1`;
* `TasksOk(w)`: the memtables, triggers, append and flush of a writer fit each
  other, so that the memtable an append is for is still there when its entry is
  built. A frozen memtable leaves only when the log has all of it, and a trigger
  or an append that a freeze asked for belongs to a memtable that waits for it;
* `QuietOk(w)`, `PosOk(w)`: what holds before and after a writer serves puts,
  and that it aims at `N + 1` at most;
* `Fencing`: if anybody with epoch `d` may write data, or has, then everyone
  older who still may has an entry of a younger epoch at or above the position
  it aims at. It cannot write there, and it moves past no such entry: replay
  stops at it, and an append that finds its position taken checks the manifest,
  whose epoch is at least `d`.

`Fencing` becomes true for a new epoch in the step that writes its sentinel
(`AnnouncedStep`): the sentinel lands at the end of the log, where it is in
everybody's way. This is where the order in `open` matters: the writer
replays, and may write, only after its sentinel is in the log. The writer itself
may by then have a successor; that one's sentinel is above the cursor the
writer starts its replay from, because a cursor was at most the end of the log
when the epoch was claimed.

### MemWalRecovery

The other properties of `MemWal`, with `OneGeneration` as the possible exception,
are false of the code as it is: they fail where the append task goes on after an
append that ended in an error. It does not know whether the request was
applied, or still will be, and it does not look at the latch that poisons the writer (`WalFlusher::flush`, wal.rs 817-842). From there
it repeats batches (`memwal_duplicate`) or skips a generation
(`memwal_skipped`), and a log with a gap misleads every later replay. The
theorems are about the behaviours without that step,

    Spec /\ [][Steady]_vars => []AckedRecoverable

and likewise for the others. `Steady` says of a step that ends an append with an
error and leaves its writer open (`GivesUp`) that the position was taken and the
writer fenced. Everything else stays: any number of writers and takeovers at any
moment, requests that fail, that are applied without an answer, that are applied
long after their writer is gone, failed flushes and claims, and crashes anywhere,
also with an append in flight. The writer whose answer is lost may try again;
what it may not do is run out of retries, fail to read the manifest or meet its
own entry, and carry on. So the theorems say that the two findings have one
cause, and what is enough to remove it: a writer that ends, to be opened again,
at the first append it cannot account for.

None of the properties is inductive. They speak of the log, the manifest and
what was acknowledged; what keeps them true is what the one writer that may
change the log is about to write. `Whole` has these parts:

* `Ordered(wal)`: batches and generations ascend along the log, no generation is
  left out, and none has more rows than replay has room for;
* `Cut(wal, manifest)`: the manifest cuts the log between two generations. The
  generations below `current_generation` have exactly one SSTable each with
  exactly their rows, and no entry at or below the replay cursor is of a later
  one. (The cursor itself may go back, so nothing is said of where it is.)
* `Epochs`: an epoch is claimed once, and whoever still writes, or has a request
  in flight, has the youngest epoch of the log or a younger entry in its way;
* `ClaimOk`, `ReplayOk`: what a writer has collected while it opens the shard is
  one generation, all of it up to its position, so that the entry of a later
  generation shows that the collected one is complete and may be published;
* `ServeOk`: an open writer counts as durable only what is in the log, even if
  it has lost the shard;
* `AbleOk`: a writer is able if it has the youngest epoch of the log and its
  position is free, or it is not fenced. The memtables of an able writer continue the
  log: the log holds exactly a first part of its batches, up to `durable` or up
  to the end of an append that landed without its knowledge (`Landed`); its
  oldest memtable is the next to be published or has just been (`AtCut`); every
  frozen memtable that waits for its append has a trigger, in order (`Owned`,
  `InTurn`);
* `LateOk`: a request in flight at a free position would be a correct next entry
  (`Landable`), and its writer, if it is still there, is still repeating it.

That writers are able one at a time is not assumed: it follows from `Epochs`. A
step of another writer leaves the able one alone, because whatever it could
append collides; a publication by a writer that is not fenced is by the able
one, and moves the cut by one generation. `Blank`, which is inductive together
with `Whole`, says that an entry without rows has no generation. From
`Whole` each property follows in a few steps: a batch is in one entry only
(`OneEntry`), an entry below the cut is in its SSTable (`OldIsFlushed`), and
every other one is reached by replay (`NewIsRebuilt`) and held by the able
writer (`AbleHolds`).

### Only model-checked

The liveness properties of `ExternalManifest`, `CommitTransaction` and
`IoScheduler`, whose fairness is out of the prover's reach. Of `MemWal`, what
the run `memwal` shows beyond the theorems: with one fault the properties hold
in behaviours that are not `Steady` too, since the first error does not yet make a
gap. `OneGeneration` may hold of all behaviours. TLC finds no counterexample for
memtables of one batch with two writers and four faults and with three writers
and two faults; where a generation is skipped, it depends on which logs replay
refuses, and a proof has to say what those are.

## Not modelled

In the commit path: rows without a size, ETags, predecessor identities and
`commit_after`, deletion of a dataset, the V1 path fall-back of
`default_resolve_version`, branch-existence checks, versions missing because
cleanup removed them, session caches, `disable_transaction_file`, the files a
shallow clone stages. Time: the retry timeout is a nondeterministic
end of the loop.

In cleanup: thinning (`KeepOne`), version filters, `delete_unverified`, the
cascade into branches, managed blobs, fragment-reuse maps, `forget_version`,
empty directories, `explain`. Of tags and branches: two creators of one name,
nested branches, branch directories.

In MemWAL: WAL-only mode, index cursors and visibility, `close`, backpressure,
blob sidecars and targets, entries without a generation, schema changes,
`fence_shard`, sealed shards, compaction of SSTables and the garbage collection
of log entries.

In the scheduler: the lite queue, no-backpressure mode, coalescing, statistics.

Whole parts: the lock, rename and unsafe handlers and the version hint of tables
(a second and third implementation of `VersionLog`); detached commits (one
create-if-absent write); the conflict resolver, a pairwise matrix over fragment
contents, which `CommitTransaction` takes as an arbitrary relation; compaction,
schema evolution, scanner, file format, encodings, indices and bindings, which
transform data of one version and have no protocol of their own.

## Plan

Done: `VersionLog`, `ExternalManifest`, `TableHistory`, `CommitTransaction`,
`Cleanup`, `MemWal`, `ShardManifest`, `IoScheduler`, and proofs for each. Every
safety invariant that a passing run checks is stated by a theorem. Next:

1. `OneGeneration` without `Steady`;
2. the lock handlers and the version hint against `VersionLog`.
