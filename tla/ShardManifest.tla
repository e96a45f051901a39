--------------------------- MODULE ShardManifest ---------------------------
(***************************************************************************)
(* ShardManifestStore (rust/lance/src/dataset/mem_wal/manifest.rs): the    *)
(* versioned manifest files of one MemWAL shard.  Versions are created     *)
(* with put-if-absent and old ones are pruned, so the file that would      *)
(* reject a writer that lost its shard can be gone: what keeps such a      *)
(* writer out is that it builds on no position older than MaxPositionAge   *)
(* and that nothing younger than MinPruneAge is deleted.                   *)
(*                                                                         *)
(* Time is kept as ages that stop growing once they no longer matter.      *)
(***************************************************************************)
EXTENDS Naturals, Sequences, FiniteSets, FiniteSetsExt

CONSTANTS
  Handles,         \* ShardManifestStores, one per writer
  Tasks,           \* tasks that use them
  HandleOf,        \* HandleOf[t]: the store that t shares
  Calls,           \* Calls[t]: the operations that t calls
  ScanBatch,       \* manifest_scan_batch_size
  MaxPositionAge,  \* MAX_POSITION_AGE
  MinPruneAge,     \* MIN_PRUNE_AGE
  MaxStall,        \* how long an attempt, or a request it gave up on, may take
  MaxVersions,     \* bound: versions written
  MaxFaults        \* bound: failed writes

(* The margin MIN_PRUNE_AGE leaves over MAX_POSITION_AGE is for stalls.    *)
ASSUME ShardManifestAssumption ==
  /\ HandleOf \in [Tasks -> Handles]
  /\ Calls \in [Tasks -> SUBSET {"claim", "init", "check", "commit"}]
  /\ ScanBatch \in Nat \ {0}
  /\ {MaxPositionAge, MinPruneAge, MaxStall, MaxVersions, MaxFaults} \subseteq Nat
  /\ MaxPositionAge + MaxStall < MinPruneAge

VARIABLES
  files,     \* files[v]: the manifest of version v, for every v that exists
  late,      \* writes still in flight after their task gave up on them
  latest,    \* latest[h]: the position of store h
  epoch,     \* epoch[h]: the epoch its writer claimed, 0 for none
  op,        \* op[t]: the operation t is in
  faults

vars == <<files, late, latest, epoch, op, faults>>

NoPosition == [version |-> 0, epoch |-> 0, age |-> 0]
Idle == [kind |-> "none", phase |-> "idle", cur |-> 0, epoch |-> 0, age |-> 0,
         lost |-> FALSE]

Tip        == IF DOMAIN files = {} THEN 0 ELSE Max(DOMAIN files)
Cap        == Max({MaxStall, MaxPositionAge + 1})
Older(a)   == Min({a + 1, Cap})
Fault      == faults < MaxFaults /\ faults' = faults + 1
Store(t)   == HandleOf[t]
Now(t, F)  == \E f \in F : op' = [op EXCEPT ![t] = f]

Init ==
  /\ files = <<>>
  /\ late = {}
  /\ latest = [h \in Handles |-> NoPosition]
  /\ epoch = [h \in Handles |-> 0]
  /\ op = [t \in Tasks |-> Idle]
  /\ faults = 0

(***************************************************************************)
(* The position of a store                                                 *)
(***************************************************************************)

(* cache: never back to an older version; the same one again renews it.    *)
Cached(h, m) ==
  IF \/ m.version > latest[h].version
     \/ m.version = latest[h].version /\ m.age < latest[h].age
  THEN [latest EXCEPT ![h] = m]
  ELSE latest

Invalidated(h) == [latest EXCEPT ![h] = NoPosition]

(* Deviation: a position is trusted however old it is.                     *)
Fresh_AnyAge(h) == latest[h].version # 0

(* fresh_cached                                                            *)
Fresh(h) == latest[h].version # 0 /\ latest[h].age <= MaxPositionAge

(***************************************************************************)
(* refresh_latest: scan_latest, then adopt what it found                   *)
(***************************************************************************)

(* find_latest_version begins from the version version_hint.json names, if *)
(* it exists, else from the newest one listed.  The hint is written after  *)
(* each write, in no order and perhaps without effect: it names any        *)
(* version written so far, or none.                                        *)
Scan(kind, lost, target) ==
  [kind : {kind}, phase : {"scan"}, cur : DOMAIN files \cup {Tip},
   epoch : {target}, age : {0}, lost : {lost}]

(* Deviation: the version the hint names is taken for the newest.          *)
Found_Hint(t) == op[t].cur

(* It ends: batches of HEAD requests, until one of them finds nothing.     *)
Found(t) ==
  LET ahead(u) == DOMAIN files \cap (u + 1 .. u + ScanBatch)
  IN Max({op[t].cur} \cup {v \in DOMAIN files : \A u \in op[t].cur .. v - 1 : ahead(u) # {}})

(* Deviation: after a failed write, a claim takes the epoch it finds for   *)
(* its own.                                                                *)
Decided_Mine(t, m) ==
  LET o   == op[t]
      put == [o EXCEPT !.phase = "put", !.cur = m.version, !.epoch = m.epoch]
  IN CASE o.kind = "claim" /\ ~o.lost -> {put}
       [] o.kind = "claim" /\ o.lost  -> IF m.epoch >= o.epoch
                                         THEN {[o EXCEPT !.phase = "landed", !.cur = m.version - 1,
                                                         !.epoch = m.epoch - 1]}
                                         ELSE Scan("claim", FALSE, 0)
       [] o.kind = "commit" -> IF m.version # 0 /\ m.epoch = epoch[Store(t)]
                               THEN {put} ELSE {Idle}
       [] o.kind = "init"   -> IF m.version = 0 /\ ~o.lost THEN {put} ELSE {Idle}
       [] o.kind = "check"  -> {Idle}

(* What the caller may do with the manifest m it refreshed to:             *)
(* claim_epoch, try_commit_update, initialize_shard or check_fenced.       *)
Decided(t, m) ==
  LET o   == op[t]
      put == [o EXCEPT !.phase = "put", !.cur = m.version, !.epoch = m.epoch]
  IN CASE o.kind = "claim" /\ ~o.lost -> {put}
       [] o.kind = "claim" /\ o.lost  -> IF m.epoch >= o.epoch THEN {Idle}
                                         ELSE Scan("claim", FALSE, 0)
       [] o.kind = "commit" -> IF m.version # 0 /\ m.epoch = epoch[Store(t)]
                               THEN {put} ELSE {Idle}
       [] o.kind = "init"   -> IF m.version = 0 /\ ~o.lost THEN {put} ELSE {Idle}
       [] o.kind = "check"  -> {Idle}

(* read_version, which fails when the version was pruned meanwhile.        *)
Adopt(t) ==
  /\ op[t].phase = "scan"
  /\ \/ /\ Found(t) \in DOMAIN files
        /\ LET m == [version |-> Found(t), epoch |-> files[Found(t)].epoch, age |-> op[t].age]
           IN latest' = Cached(Store(t), m) /\ Now(t, Decided(t, m))
     \/ /\ Found(t) = 0
        /\ Now(t, Decided(t, NoPosition)) /\ UNCHANGED latest
  /\ UNCHANGED <<files, late, epoch, faults>>

(* A HEAD, GET or LIST fails and ends the operation.                       *)
ReadFails(t) ==
  /\ op[t].phase = "scan"
  /\ Now(t, {Idle})
  /\ UNCHANGED <<files, late, latest, epoch, faults>>

(***************************************************************************)
(* The operations                                                          *)
(***************************************************************************)
Begin(t, kind) == op[t].phase = "idle" /\ kind \in Calls[t]

ClaimEpoch(t) ==
  /\ Begin(t, "claim") /\ epoch[Store(t)] = 0
  /\ Now(t, Scan("claim", FALSE, 0))
  /\ UNCHANGED <<files, late, latest, epoch, faults>>

(* On a shard that has a manifest, initialize_shard is a refresh and no    *)
(* more, as check_fenced: it is called here when there was none.           *)
InitializeShard(t) ==
  /\ Begin(t, "init") /\ Tip = 0
  /\ Now(t, Scan("init", FALSE, 0))
  /\ UNCHANGED <<files, late, latest, epoch, faults>>

CheckFenced(t) ==
  /\ Begin(t, "check") /\ epoch[Store(t)] # 0
  /\ Now(t, Scan("check", FALSE, 0))
  /\ UNCHANGED <<files, late, latest, epoch, faults>>

(* try_commit_update: a fresh position needs no read.  A newer epoch there *)
(* fences the writer.                                                      *)
CommitUpdate(t) ==
  /\ Begin(t, "commit") /\ epoch[Store(t)] # 0
  /\ Now(t, IF ~Fresh(Store(t)) THEN Scan("commit", FALSE, 0)
            ELSE IF latest[Store(t)].epoch # epoch[Store(t)] THEN {Idle}
            ELSE {[Idle EXCEPT !.kind = "commit", !.phase = "put",
                               !.cur = latest[Store(t)].version, !.epoch = epoch[Store(t)]]})
  /\ UNCHANGED <<files, late, latest, epoch, faults>>

(***************************************************************************)
(* write                                                                   *)
(***************************************************************************)
Successor(t) ==
  [version |-> op[t].cur + 1,
   epoch   |-> IF op[t].kind = "claim" THEN op[t].epoch + 1 ELSE op[t].epoch]

(* put-if-absent creates the file of m.                                    *)
Create(m) ==
  files' = [v \in DOMAIN files \cup {m.version} |->
              IF v = m.version THEN [epoch |-> m.epoch, age |-> 0] ELSE files[v]]

(* What follows a write that did not return success.  A conflict of        *)
(* commit_update is retried or, the budget spent, returned.                *)
Rejected(t, conflict) ==
  CASE op[t].kind = "commit" -> IF conflict THEN {Idle} \cup Scan("commit", FALSE, 0) ELSE {Idle}
    [] op[t].kind = "claim"  -> Scan("claim", TRUE, Successor(t).epoch)
    [] op[t].kind = "init"   -> Scan("init", TRUE, 0)

(* Deviation: a write that failed is taken for one that landed.            *)
Put_Hopeful(t) ==
  /\ op[t].phase = "put" /\ op[t].cur < MaxVersions
  /\ LET m     == Successor(t)
         stale == m.version <= latest[Store(t)].version
         free  == m.version \notin DOMAIN files
     IN \/ /\ ~stale /\ free
           /\ Create(m)
           /\ Now(t, {[op[t] EXCEPT !.phase = "landed", !.age = a] : a \in 0 .. op[t].age})
           /\ UNCHANGED <<late, latest, faults>>
        \/ /\ stale \/ ~free
           /\ latest' = Invalidated(Store(t))
           /\ Now(t, Rejected(t, TRUE))
           /\ UNCHANGED <<files, late, faults>>
        \/ /\ ~stale /\ Fault
           /\ latest' = Cached(Store(t), [version |-> m.version, epoch |-> m.epoch, age |-> 0])
           /\ Now(t, Rejected(t, FALSE))
           /\ \/ UNCHANGED <<files, late>>
              \/ free /\ Create(m) /\ UNCHANGED late
              \/ late' = late \cup {[m |-> m, age |-> op[t].age]} /\ UNCHANGED files
  /\ UNCHANGED epoch

(* write: put-if-absent of the successor, unless the store's own position  *)
(* shows that the version is taken.  Any error drops the position.  From   *)
(* here on age is the time since the PUT began, within the attempt.        *)
Put(t) ==
  /\ op[t].phase = "put" /\ op[t].cur < MaxVersions
  /\ LET m     == Successor(t)
         stale == m.version <= latest[Store(t)].version
         free  == m.version \notin DOMAIN files
     IN \/ /\ ~stale /\ free
           /\ Create(m)
           /\ Now(t, {[op[t] EXCEPT !.phase = "landed", !.age = a] : a \in 0 .. op[t].age})
           /\ UNCHANGED <<late, latest, faults>>
        \/ /\ stale \/ ~free
           /\ latest' = Invalidated(Store(t))
           /\ Now(t, Rejected(t, TRUE))
           /\ UNCHANGED <<files, late, faults>>
        \/ /\ ~stale /\ Fault
           /\ latest' = Invalidated(Store(t))
           /\ Now(t, Rejected(t, FALSE))
           /\ \/ UNCHANGED <<files, late>>
              \/ free /\ Create(m) /\ UNCHANGED late
              \/ late' = late \cup {[m |-> m, age |-> op[t].age]} /\ UNCHANGED files
  /\ UNCHANGED epoch

(* The write returned: the version becomes the position and the caller has *)
(* its success.                                                            *)
Landed(t) ==
  /\ op[t].phase = "landed"
  /\ LET m == Successor(t)
     IN /\ latest' = Cached(Store(t), [version |-> m.version, epoch |-> m.epoch, age |-> op[t].age])
        /\ epoch' = IF op[t].kind = "claim" THEN [epoch EXCEPT ![Store(t)] = m.epoch] ELSE epoch
  /\ Now(t, {Idle})
  /\ UNCHANGED <<files, late, faults>>

(* The object store applies, or drops, a write that was given up on.       *)
ApplyLate ==
  \E r \in late :
    /\ late' = late \ {r}
    /\ \/ r.m.version \notin DOMAIN files /\ Create(r.m)
       \/ UNCHANGED files
    /\ UNCHANGED <<latest, epoch, op, faults>>

(***************************************************************************)
(* prune_versions_before deletes one version at a time, oldest first, and  *)
(* neither the latest one nor one that is younger than MinPruneAge.        *)
(***************************************************************************)
Prunable == {v \in DOMAIN files : /\ v = Min(DOMAIN files) /\ v < Tip
                                  /\ files[v].age >= MinPruneAge}

Prune ==
  \E v \in Prunable :
    /\ files' = [u \in DOMAIN files \ {v} |-> files[u]]
    /\ UNCHANGED <<late, latest, epoch, op, faults>>

(* Time passes.  No attempt at a write, and no write in flight, lasts      *)
(* longer than MaxStall.                                                   *)
Tick ==
  /\ \A t \in Tasks : op[t].phase \in {"scan", "put"} => op[t].age < MaxStall
  /\ \A r \in late : r.age < MaxStall
  /\ files' = [v \in DOMAIN files |-> [files[v] EXCEPT !.age = Min({@ + 1, MinPruneAge})]]
  /\ late' = {[r EXCEPT !.age = @ + 1] : r \in late}
  /\ latest' = [h \in Handles |-> IF latest[h].version = 0 THEN NoPosition
                                  ELSE [latest[h] EXCEPT !.age = Older(@)]]
  /\ op' = [t \in Tasks |-> IF op[t].phase = "idle" THEN op[t]
                            ELSE [op[t] EXCEPT !.age = Older(@)]]
  /\ UNCHANGED <<epoch, faults>>

Next ==
  \/ \E t \in Tasks :
       \/ ClaimEpoch(t) \/ InitializeShard(t) \/ CheckFenced(t) \/ CommitUpdate(t)
       \/ Adopt(t) \/ ReadFails(t) \/ Put(t) \/ Landed(t)
  \/ ApplyLate \/ Prune \/ Tick

Spec == Init /\ [][Next]_vars

(***************************************************************************)
(* Properties                                                              *)
(***************************************************************************)
Position == [version : Nat, epoch : Nat, age : Nat]

(* The shapes of the files, of the stores' positions and of the            *)
(* operations; a position is a version that was written.                   *)
TypeOK ==
  /\ DOMAIN files \subseteq Nat \ {0}
  /\ \A v \in DOMAIN files : files[v].epoch \in Nat /\ files[v].age \in 0 .. MinPruneAge
  /\ \A r \in late : {r.m.version, r.m.epoch} \subseteq Nat /\ r.age \in 0 .. MaxStall
  /\ \A h \in Handles : latest[h] \in Position /\ latest[h].version <= Tip
  /\ epoch \in [Handles -> Nat]
  /\ \A t \in Tasks :
       /\ op[t].kind \in {"none", "claim", "commit", "init", "check"}
       /\ op[t].phase \in {"idle", "scan", "put", "landed"}
       /\ op[t].age \in 0 .. Cap /\ op[t].cur <= Tip

(* The versions have no gap, and none is ever written a second time        *)
(* although pruning removes the file that would reject the second write:   *)
(* every version created is the successor of the newest one.               *)
NeverRewritten ==
  [][ /\ DOMAIN files' \ DOMAIN files \subseteq {Tip + 1}
      /\ \A v \in DOMAIN files' \ {Tip'} : v + 1 \in DOMAIN files' ]_vars

(* Fencing: no version goes back to an older epoch, so nothing a writer    *)
(* commits lands once its successor has claimed the shard, and no two      *)
(* writers were granted the same epoch.                                    *)
EpochsFence ==
  /\ \A v \in DOMAIN files : v + 1 \in DOMAIN files => files[v + 1].epoch >= files[v].epoch
  /\ \A h, k \in Handles : epoch[h] = epoch[k] /\ epoch[h] # 0 => h = k
  /\ \A h \in Handles : epoch[h] # 0 => epoch[h] <= files[Tip].epoch

(* refresh_latest is never behind: whatever the hint pointed at and        *)
(* whatever was pruned since, the version it goes on to read is the newest *)
(* one or no longer there.  This is what check_fenced relies on.           *)
RefreshIsCurrent ==
  \A t \in Tasks : op[t].phase = "scan" /\ Found(t) # Tip => Found(t) \notin DOMAIN files \cup {0}
=============================================================================
