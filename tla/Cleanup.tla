------------------------------- MODULE Cleanup -------------------------------
(***************************************************************************)
(* Garbage collection of old versions (rust/lance/src/dataset/cleanup.rs)  *)
(* beside everything that goes on meanwhile: transactions that have        *)
(* written their files and not yet committed, restores, tags and branches  *)
(* (refs.rs), and other cleanups.  Nothing is locked: a cleanup reads the  *)
(* references and the manifests one after the other, decides, and deletes  *)
(* object by object.                                                       *)
(*                                                                         *)
(* A transaction t writes one file, also named t, and commits it as one    *)
(* version; commits are atomic here (CommitTransaction has the detail).    *)
(* There is one tag and one branch, both of main, and one operation on the *)
(* tag at a time.                                                          *)
(*                                                                         *)
(* There is one clock.  The code compares times of three: the store's      *)
(* last_modified of an object, the timestamp a writer puts in a manifest,  *)
(* and the cleanup's own; that they agree is an assumption of the model.   *)
(***************************************************************************)
EXTENDS Integers, FiniteSets, FiniteSetsExt

CONSTANTS
  Txns,         \* transactions, and the files they write
  Base,         \* the file of version 1
  Kind,         \* Kind[f]: "data", "deletion" or "index"
  Cleaners,
  Threshold,    \* UNVERIFIED_THRESHOLD_DAYS
  Lags,         \* how many versions the handle of a cleanup may be behind
  Retentions,   \* ages a caller may pass as older_than
  MaxTxn,       \* the longest time from a file's write to its commit
  MaxInspect,   \* the longest time from the start of a cleanup to its deletes
  MaxVersions, MaxTime, MaxRuns, MaxEvents   \* bounds

Files    == Txns \cup {Base}
Versions == 1..MaxVersions

(* Age is the only protection of an uncommitted file: transactions and     *)
(* inspections together must be shorter than the threshold.                *)
ASSUME CleanupAssumption ==
  /\ Base \notin Txns
  /\ Kind \in [Files -> {"data", "deletion", "index"}]
  /\ Lags \subseteq Nat /\ Retentions \subseteq Nat /\ Retentions # {}
  /\ {Threshold, MaxTxn, MaxInspect, MaxVersions, MaxTime, MaxRuns, MaxEvents}
       \subseteq Nat
  /\ MaxTxn + MaxInspect <= Threshold
  /\ MaxVersions >= 1

VARIABLES
  now,
  stored,     \* stored[f]: when f was written; Absent if it is not there
  txn,        \* txn[t]: "idle", "open" or "committed"
  manifest,   \* manifest[v]: the version's files, its time, and if it is live
  tip,        \* the latest version
  restore,    \* a restore that has read its manifest and not committed yet
  tag,        \* the version the tag names, if there is one
  tagging,    \* an operation on the tag that has yet to write it
  branch,     \* the branch: its reference and what its manifests need of main
  cleaner,    \* cleaner[c]: a cleanup and what it has read
  doomed,     \* live versions that some cleanup has begun to remove
  exposed,    \* versions restored behind a running cleanup, or built on one
  runs, events   \* counters: cleanups; references, restores and faults

vars == <<now, stored, txn, manifest, tip, restore, tag, tagging, branch, cleaner,
          doomed, exposed, runs, events>>

Absent    == -1
NoVersion == [files |-> {}, ts |-> 0, live |-> FALSE]
NoRestore == [files |-> {}, open |-> FALSE, exposed |-> FALSE]
NoTag     == [v |-> 0, exposed |-> FALSE]
NoTagging == [op |-> "none", v |-> 0, exposed |-> FALSE]
NoBranch  == [st |-> "none", root |-> 0, files |-> {}, exposed |-> FALSE]
Idle      == [pc |-> "idle", rv |-> 0, cutoff |-> 0,
              child |-> FALSE, tags |-> {}, roots |-> {}, listed |-> {}, since |-> 0,
              referenced |-> {}, verified |-> {}, drop |-> {}, old |-> {}, failed |-> FALSE]

(* Version 1 exists, and may have a tag.                                   *)
Init ==
  /\ now = 0
  /\ stored = [f \in Files |-> IF f = Base THEN 0 ELSE Absent]
  /\ txn = [t \in Txns |-> "idle"]
  /\ manifest = [v \in Versions |->
       IF v = 1 THEN [files |-> {Base}, ts |-> 0, live |-> TRUE] ELSE NoVersion]
  /\ tip = 1
  /\ restore = NoRestore
  /\ tag \in {NoTag, [v |-> 1, exposed |-> FALSE]} /\ tagging = NoTagging
  /\ branch = NoBranch
  /\ cleaner = [c \in Cleaners |-> Idle]
  /\ doomed = {}
  /\ exposed = {}
  /\ runs = 0 /\ events = 0

(* A cleanup that has read the branches, the tags or the list of manifests *)
(* does not see what is made afterwards.                                   *)
AfterBranches == {"refs", "list", "inspect", "delete"}
AfterRefs     == {"list", "inspect", "delete"}
AfterList     == {"inspect", "delete"}
Reading       == {"branches", "refs", "list", "inspect"}

Overtaken(phases) == \E c \in Cleaners : cleaner[c].pc \in phases

(***************************************************************************)
(* Time: a cleanup has read everything within MaxInspect; its deletes may  *)
(* take any time.                                                          *)
(***************************************************************************)
Tick ==
  /\ now < MaxTime
  /\ \A c \in Cleaners : cleaner[c].pc \in Reading => now < cleaner[c].since + MaxInspect
  /\ now' = now + 1
  /\ UNCHANGED <<stored, txn, manifest, tip, restore, tag, tagging, branch, cleaner,
                 doomed, exposed, runs, events>>

(***************************************************************************)
(* Transactions                                                            *)
(***************************************************************************)
Write(t) ==
  /\ txn[t] = "idle"
  /\ txn' = [txn EXCEPT ![t] = "open"]
  /\ stored' = [stored EXCEPT ![t] = now]
  /\ UNCHANGED <<now, manifest, tip, restore, tag, tagging, branch, cleaner,
                 doomed, exposed, runs, events>>

Publish(files) ==
  /\ tip < MaxVersions
  /\ tip' = tip + 1
  /\ manifest' = [manifest EXCEPT ![tip + 1] = [files |-> files, ts |-> now, live |-> TRUE]]

(* An append adds its file to the latest version; an overwrite replaces    *)
(* everything.  A transaction that never commits has failed, or died.      *)
Commit(t, append) ==
  /\ txn[t] = "open"
  /\ now <= stored[t] + MaxTxn
  /\ Publish(IF append THEN manifest[tip].files \cup {t} ELSE {t})
  /\ exposed' = IF append /\ tip \in exposed THEN exposed \cup {tip + 1} ELSE exposed
  /\ txn' = [txn EXCEPT ![t] = "committed"]
  /\ UNCHANGED <<now, stored, restore, tag, tagging, branch, cleaner, doomed, runs, events>>

(* Operation::Restore reads the old manifest, then commits it as the next  *)
(* version.                                                                *)
RestoreRead(v) ==
  /\ ~restore.open /\ events < MaxEvents
  /\ v < tip /\ manifest[v].live
  /\ restore' = [files |-> manifest[v].files, open |-> TRUE,
                 exposed |-> Overtaken(AfterList) \/ v \in doomed \cup exposed]
  /\ events' = events + 1
  /\ UNCHANGED <<now, stored, txn, manifest, tip, tag, tagging, branch, cleaner,
                 doomed, exposed, runs>>

RestoreCommit ==
  /\ restore.open
  /\ Publish(restore.files)
  /\ exposed' = IF restore.exposed THEN exposed \cup {tip + 1} ELSE exposed
  /\ restore' = NoRestore
  /\ UNCHANGED <<now, stored, txn, tag, tagging, branch, cleaner, doomed, runs, events>>

(***************************************************************************)
(* Tags and branches                                                       *)
(***************************************************************************)

(* A cleanup removes the versions before the one it was asked for on that  *)
(* are older than the time it was given, unless something refers to them.  *)
Expired(c, v) == manifest[v].ts < cleaner[c].cutoff
Removable(c, v) == v < cleaner[c].rv /\ Expired(c, v)

(* A cleanup that has read the tags and is going to remove v.              *)
Missed(c, v) ==
  cleaner[c].pc \in {"list", "inspect"} /\ Removable(c, v) /\ v \notin cleaner[c].tags

(* Tags::create and Tags::update look first whether the version exists     *)
(* (build_tag_content_by_ref) ...                                          *)
CheckTag(op, v) ==
  /\ tagging = NoTagging
  /\ events < MaxEvents /\ events' = events + 1
  /\ op = "update" => tag # NoTag
  /\ manifest[v].live
  /\ tagging' = [op |-> op, v |-> v,
                 exposed |-> \/ v \in doomed \cup exposed
                             \/ \E c \in Cleaners : Missed(c, v)]
  /\ UNCHANGED <<now, stored, txn, manifest, tip, restore, tag, branch, cleaner,
                 doomed, exposed, runs>>

(* ... replace_metadata reads the tag as it is ...                         *)
RereadTag ==
  /\ tagging = NoTagging /\ tag # NoTag
  /\ events < MaxEvents /\ events' = events + 1
  /\ tagging' = [op |-> "update", v |-> tag.v, exposed |-> tag.exposed]
  /\ UNCHANGED <<now, stored, txn, manifest, tip, restore, tag, branch, cleaner,
                 doomed, exposed, runs>>

(* ... and the tag is written later, whatever has become of the version;   *)
(* create fails if the tag is there, update does not if it is gone.        *)
PutTag ==
  /\ tagging # NoTagging
  /\ tag' = IF tagging.op = "create" /\ tag # NoTag THEN tag
            ELSE [v |-> tagging.v, exposed |-> tagging.exposed]
  /\ tagging' = NoTagging
  /\ UNCHANGED <<now, stored, txn, manifest, tip, restore, branch, cleaner,
                 doomed, exposed, runs, events>>

DeleteTag ==
  /\ tag # NoTag
  /\ tag' = NoTag
  /\ UNCHANGED <<now, stored, txn, manifest, tip, restore, tagging, branch, cleaner,
                 doomed, exposed, runs, events>>

(* create_branch claims the name first, of a version that was there when   *)
(* it was looked up ...                                                    *)
ClaimBranch(v) ==
  /\ branch = NoBranch
  /\ events < MaxEvents /\ events' = events + 1
  /\ v <= tip
  /\ branch' = [st |-> "claimed", root |-> v, files |-> {},
                exposed |-> \/ Overtaken(AfterBranches) \/ ~manifest[v].live
                            \/ v \in doomed \cup exposed]
  /\ UNCHANGED <<now, stored, txn, manifest, tip, restore, tag, tagging, cleaner,
                 doomed, exposed, runs>>

(* ... and then commits a clone of the source version, whose files it      *)
(* shares.                                                                 *)
CloneBranch ==
  /\ branch.st = "claimed"
  /\ manifest[branch.root].live
  /\ branch' = [branch EXCEPT !.st = "ready", !.files = manifest[branch.root].files]
  /\ UNCHANGED <<now, stored, txn, manifest, tip, restore, tag, tagging, cleaner,
                 doomed, exposed, runs, events>>

DeleteBranch ==
  /\ branch # NoBranch
  /\ branch' = NoBranch
  /\ UNCHANGED <<now, stored, txn, manifest, tip, restore, tag, tagging, cleaner,
                 doomed, exposed, runs, events>>

(***************************************************************************)
(* A cleanup                                                               *)
(***************************************************************************)
Goto(c, rec) == cleaner' = [cleaner EXCEPT ![c] = rec]

(* It is asked for on a dataset handle that may be old, for versions older *)
(* than a time.                                                            *)
Start(c, lag, age) ==
  /\ cleaner[c] = Idle /\ runs < MaxRuns
  /\ lag < tip
  /\ runs' = runs + 1
  /\ Goto(c, [Idle EXCEPT !.pc = "branches", !.rv = tip - lag, !.cutoff = now - age,
                          !.since = now])
  /\ UNCHANGED <<now, stored, txn, manifest, tip, restore, tag, tagging, branch,
                 doomed, exposed, events>>

(* Deviation: a branch matters only while its source version is kept.      *)
ListBranches_Kept(c) ==
  /\ cleaner[c].pc = "branches"
  /\ Goto(c, [cleaner[c] EXCEPT !.pc = "refs",
       !.child = branch # NoBranch /\ manifest[branch.root].live /\ ~Expired(c, branch.root)])
  /\ UNCHANGED <<now, stored, txn, manifest, tip, restore, tag, tagging, branch,
                 doomed, exposed, runs, events>>

(* find_referenced_branches: a branch matters if its source version would  *)
(* be removed or is gone already.                                          *)
ListBranches(c) ==
  /\ cleaner[c].pc = "branches"
  /\ Goto(c, [cleaner[c] EXCEPT !.pc = "refs",
       !.child = branch # NoBranch /\ (~manifest[branch.root].live \/ Expired(c, branch.root))])
  /\ UNCHANGED <<now, stored, txn, manifest, tip, restore, tag, tagging, branch,
                 doomed, exposed, runs, events>>

(* The tags, and then (retain_branch_lineage_files) the files of main that *)
(* the branch's manifests use, with the source version if there are any.   *)
(* A branch that is only claimed has no manifest to read.                  *)
ReadReferences(c) ==
  /\ cleaner[c].pc = "refs"
  /\ LET used == IF cleaner[c].child THEN branch.files ELSE {}
     IN Goto(c, [cleaner[c] EXCEPT !.pc = "list", !.tags = {tag.v} \ {0},
                                   !.referenced = used,
                                   !.roots = IF used = {} THEN {} ELSE {branch.root}])
  /\ branch' = [branch EXCEPT !.exposed = @ \/ branch.st = "claimed"]
  /\ tagging' = [tagging EXCEPT !.exposed =
       @ \/ (tagging # NoTagging /\ tagging.v # tag.v /\ Removable(c, tagging.v))]
  /\ UNCHANGED <<now, stored, txn, manifest, tip, restore, tag,
                 doomed, exposed, runs, events>>

ListManifests(c) ==
  /\ cleaner[c].pc = "list"
  /\ Goto(c, [cleaner[c] EXCEPT !.pc = "inspect",
                                !.listed = {v \in Versions : manifest[v].live}])
  /\ restore' = [restore EXCEPT !.exposed = restore.open]
  /\ UNCHANGED <<now, stored, txn, manifest, tip, tag, tagging, branch,
                 doomed, exposed, runs, events>>

(* Deviation: a tag does not keep a version that is old.                   *)
InWorkingSet_Untagged(c, v) ==
  \/ cleaner[c].rv <= v
  \/ ~Expired(c, v)
  \/ v \in cleaner[c].roots

InWorkingSet(c, v) ==
  \/ cleaner[c].rv <= v
  \/ ~Expired(c, v)
  \/ v \in cleaner[c].tags
  \/ v \in cleaner[c].roots

FilesOf(vs) == UNION {manifest[v].files : v \in vs}
TimesOf(vs) == {manifest[v].ts : v \in vs}

(* Deviation: the listing always stops at the earliest version kept.       *)
Listed_UpToKept(f, kept, old, threshold) ==
  \/ Kind[f] = "index" \/ kept = {}
  \/ stored[f] <= Min(TimesOf(kept))
  \/ Kind[f] = "data" /\ stored[f] <= threshold

(* Which objects a listing returns: those not modified since the earliest  *)
(* version kept, unless a version that is newer than it is removed         *)
(* (listing_unmodified_since); data files in any case up to the threshold; *)
(* and all index files.                                                    *)
Listed(f, kept, old, threshold) ==
  \/ Kind[f] = "index" \/ kept = {}
  \/ old # {} /\ Max(TimesOf(old)) > Min(TimesOf(kept))
  \/ stored[f] <= Min(TimesOf(kept))
  \/ Kind[f] = "data" /\ stored[f] <= threshold

(* Deviation: recent files that no manifest references are deleted too.    *)
Garbage_Recent(f, referenced, verified, threshold) ==
  /\ stored[f] # Absent /\ f \notin referenced

(* cleanup_file_if_not_referenced: recent files go only if a manifest that *)
(* is being removed references them.                                       *)
Garbage(f, referenced, verified, threshold) ==
  /\ stored[f] # Absent /\ f \notin referenced
  /\ stored[f] < threshold \/ f \in verified

(* process_manifests reads what was listed, minus what another cleanup has *)
(* removed since; it refuses if asked to when an expired version is tagged *)
(* (error_if_tagged_old_versions).  Then the threshold is taken and the    *)
(* objects are listed.                                                     *)
Inspect(c, strict) ==
  /\ cleaner[c].pc = "inspect"
  /\ LET found == {v \in cleaner[c].listed : manifest[v].live}
         kept  == {v \in found : InWorkingSet(c, v)}
         old   == found \ kept
         late  == {v \in cleaner[c].tags : v \in found /\ Removable(c, v)}
         stop  == \/ \E v \in cleaner[c].listed \ found : v >= cleaner[c].rv
                  \/ strict /\ late # {}
         referenced == cleaner[c].referenced \cup FilesOf(kept)
         verified   == FilesOf(old)
         threshold  == now - Threshold
         drop == {f \in Files : /\ Garbage(f, referenced, verified, threshold)
                                /\ Listed(f, kept, old, threshold)}
     IN /\ Goto(c, IF stop THEN Idle
                   ELSE [Idle EXCEPT !.pc = "delete", !.referenced = referenced,
                                     !.verified = verified, !.drop = drop, !.old = old])
        /\ doomed' = IF stop THEN doomed ELSE doomed \cup old
  /\ UNCHANGED <<now, stored, txn, manifest, tip, restore, tag, tagging, branch,
                 exposed, runs, events>>

(* Objects and manifests are deleted concurrently; one that cannot be      *)
(* deleted is counted and left for the next cleanup.                       *)
DeleteFile(c, f) ==
  /\ cleaner[c].pc = "delete" /\ f \in cleaner[c].drop
  /\ stored' = [stored EXCEPT ![f] = Absent]
  /\ Goto(c, [cleaner[c] EXCEPT !.drop = @ \ {f}])
  /\ UNCHANGED <<now, txn, manifest, tip, restore, tag, tagging, branch,
                 doomed, exposed, runs, events>>

DeleteManifest(c, v) ==
  /\ cleaner[c].pc = "delete" /\ v \in cleaner[c].old
  /\ manifest' = [manifest EXCEPT ![v].live = FALSE, ![v].files = {}]
  /\ doomed' = doomed \ {v}
  /\ Goto(c, [cleaner[c] EXCEPT !.old = @ \ {v}])
  /\ UNCHANGED <<now, stored, txn, tip, restore, tag, tagging, branch, exposed, runs, events>>

DeleteFails(c) ==
  /\ cleaner[c].pc = "delete" /\ events < MaxEvents
  /\ events' = events + 1
  /\ \/ \E f \in cleaner[c].drop :
          Goto(c, [cleaner[c] EXCEPT !.drop = @ \ {f}, !.failed = TRUE])
     \/ \E v \in cleaner[c].old :
          Goto(c, [cleaner[c] EXCEPT !.old = @ \ {v}, !.failed = TRUE])
  /\ UNCHANGED <<now, stored, txn, manifest, tip, restore, tag, tagging, branch,
                 doomed, exposed, runs>>

Swept(c) == cleaner[c].pc = "delete" /\ cleaner[c].drop = {} /\ cleaner[c].old = {}

Finish(c) ==
  /\ Swept(c)
  /\ Goto(c, Idle)
  /\ UNCHANGED <<now, stored, txn, manifest, tip, restore, tag, tagging, branch,
                 doomed, exposed, runs, events>>

(* The process dies: what was deleted stays deleted.  A cleanup that fails *)
(* while it still reads has changed nothing.                               *)
Crash(c) ==
  /\ cleaner[c].pc = "delete" /\ events < MaxEvents
  /\ events' = events + 1
  /\ Goto(c, Idle)
  /\ UNCHANGED <<now, stored, txn, manifest, tip, restore, tag, tagging, branch,
                 doomed, exposed, runs>>

Next ==
  \/ Tick \/ RestoreCommit \/ RereadTag \/ PutTag \/ DeleteTag \/ CloneBranch \/ DeleteBranch
  \/ \E t \in Txns : Write(t) \/ \E append \in BOOLEAN : Commit(t, append)
  \/ \E v \in Versions :
       \/ RestoreRead(v) \/ ClaimBranch(v)
       \/ \E op \in {"create", "update"} : CheckTag(op, v)
  \/ \E c \in Cleaners :
       \/ \E lag \in Lags, age \in Retentions : Start(c, lag, age)
       \/ ListBranches(c) \/ ReadReferences(c) \/ ListManifests(c)
       \/ \E strict \in BOOLEAN : Inspect(c, strict)
       \/ DeleteFails(c) \/ Finish(c) \/ Crash(c)
       \/ \E f \in Files : DeleteFile(c, f)
       \/ \E v \in Versions : DeleteManifest(c, v)

Spec == Init /\ [][Next]_vars

(***************************************************************************)
(* Properties                                                              *)
(***************************************************************************)
Readable(v) == manifest[v].live /\ \A f \in manifest[v].files : stored[f] # Absent

(* No cleanup takes a file from the latest version, or from one that is    *)
(* younger than every cleanup was asked to keep, whatever commits while it *)
(* runs.  Not covered: a version restored behind a running cleanup.        *)
VersionsReadable ==
  \A v \in 1..tip :
    v \notin exposed /\ (v = tip \/ now - manifest[v].ts <= Min(Retentions)) => Readable(v)

(* A tag keeps its version and the files of it, whatever cleanups start    *)
(* after it is written and however they end.  Not covered: a tag written   *)
(* after a cleanup has read the tags that was going to remove its version; *)
(* the version may even be gone when the tag is written.                   *)
TaggedReadable == tag # NoTag /\ ~tag.exposed => Readable(tag.v)

(* A branch keeps the files it shares with its source, if it was complete  *)
(* when cleanups read it, even after the source version expires.           *)
BranchReadable ==
  branch.st = "ready" /\ ~branch.exposed => \A f \in branch.files : stored[f] # Absent

(* A cleanup that removes versions without a failure leaves no file behind *)
(* that only they referenced: nothing would identify it afterwards.        *)
NoOrphans ==
  \A c \in Cleaners :
    Swept(c) /\ ~cleaner[c].failed
      => \A f \in cleaner[c].verified \ cleaner[c].referenced : stored[f] = Absent

(* "Lance ensures that cleanup does not delete files still referenced by   *)
(* any branch" (docs/src/guide/tags_and_branches.md:233).                  *)
BranchFilesKept ==
  branch.st = "ready" => \A f \in branch.files : stored[f] # Absent
=============================================================================
