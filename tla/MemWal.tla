------------------------------- MODULE MemWal -------------------------------
(***************************************************************************)
(* One MemWAL shard (rust/lance/src/dataset/mem_wal): its write-ahead log, *)
(* its manifest and the writers that take it over from each other.         *)
(*                                                                         *)
(* A writer claims an epoch in the manifest, fences its predecessor with a *)
(* sentinel at the log's tip, replays the log, and then serves puts: a put *)
(* goes to the active memtable, a task appends memtables to the log, and a *)
(* second task turns frozen memtables into SSTables and moves the replay   *)
(* cursor.  Nothing stops the predecessor but the entries it collides with *)
(* and the epoch in the manifest.                                          *)
(*                                                                         *)
(* A manifest update is one step here; ShardManifest shows how the         *)
(* versioned files behind it give that.                                    *)
(***************************************************************************)
EXTENDS Naturals, Sequences, FiniteSets, SequencesExt, FiniteSetsExt

CONSTANTS
  Writers,      \* lives of a ShardWriter, each from one call of open
  Capacity,     \* max_memtable_batches
  MaxRetries,   \* max_wal_persist_retries
  Crossing,     \* batches whose put crosses the log buffer's size or age limit
  LostAcks,     \* whether a failed request may have been, or still be, applied
  MaxBatches,   \* bound: batches put
  MaxFaults     \* bound: failed requests and requests a crash leaves in flight

ASSUME MemWalAssumption ==
  /\ {Capacity, MaxBatches} \subseteq Nat \ {0}
  /\ {MaxRetries, MaxFaults} \subseteq Nat
  /\ LostAcks \in BOOLEAN
  /\ Crossing \subseteq Nat

VARIABLES
  wal,        \* wal[p]: the entry at position p, for every p that exists
  late,       \* appends still in flight after their writer gave up on them
  manifest,   \* the latest shard manifest
  pc,         \* pc[w]: where the life of w is
  epoch,      \* epoch[w]: the epoch w claimed
  base,       \* base[w]: the manifest w claimed the shard with
  pos,        \* pos[w]: next position to replay, then to append at
  last,       \* last[w]: last_replayed_generation, 0 for none
  tables,     \* tables[w]: frozen memtables, oldest first, and the active one
  durable,    \* durable[w]: count of w's batches the log holds
  covered,    \* covered[w]: last_flushed_wal_entry_position
  queue,      \* queue[w]: flush triggers, a generation or Tick
  append,     \* append[w]: the log append in progress
  flush,      \* flush[w]: the memtable flush in progress
  poisoned,   \* poisoned[w]: terminal_error is set
  put,        \* batches put so far, numbered in that order
  acked,      \* batches whose put returned success
  faults

vars == <<wal, late, manifest, pc, epoch, base, pos, last, tables, durable,
          covered, queue, append, flush, poisoned, put, acked, faults>>

store  == <<wal, late, manifest>>
opening == <<epoch, base, last>>
tasks  == <<tables, durable, covered, queue, append, flush, poisoned>>
ghosts == <<put, acked>>

Batches == 1 .. MaxBatches
Tick    == 0
Idle    == [phase |-> "idle", gen |-> 0, end |-> 0, exact |-> FALSE,
            tries |-> 0, at |-> 0]

Table(gen, off) == [gen |-> gen, off |-> off, rows |-> <<>>, at |-> 0, cell |-> "none"]
Active(w)       == Last(tables[w])
End(t)          == t.off + Len(t.rows)
TableOf(w, g)   == CHOOSE t \in Range(tables[w]) : t.gen = g

(* BatchStore::local_end: a writer-global count as a position in a table.  *)
LocalEnd(t, n) == Min({IF n > t.off THEN n - t.off ELSE 0, Len(t.rows)})

Sentinel(w)  == [epoch |-> epoch[w], gen |-> 0, rows |-> <<>>]
Land(p, e)   == [q \in DOMAIN wal \cup {p} |-> IF q = p THEN e ELSE wal[q]]
Goto(w, l)   == pc' = [pc EXCEPT ![w] = l]
Fault        == faults < MaxFaults /\ faults' = faults + 1
Fenced(w)    == manifest.epoch > epoch[w]

Init ==
  /\ wal = <<>>
  /\ late = {}
  /\ manifest = [epoch |-> 0, gen |-> 1, replayAfter |-> 0, lastSeen |-> 0, sst |-> {}]
  /\ pc = [w \in Writers |-> "new"]
  /\ epoch = [w \in Writers |-> 0]
  /\ base = [w \in Writers |-> [gen |-> 1, replayAfter |-> 0, lastSeen |-> 0]]
  /\ pos = [w \in Writers |-> 0]
  /\ last = [w \in Writers |-> 0]
  /\ tables = [w \in Writers |-> <<Table(1, 0)>>]
  /\ durable = [w \in Writers |-> 0]
  /\ covered = [w \in Writers |-> 0]
  /\ queue = [w \in Writers |-> <<>>]
  /\ append = [w \in Writers |-> Idle]
  /\ flush = [w \in Writers |-> "idle"]
  /\ poisoned = [w \in Writers |-> FALSE]
  /\ put = 0
  /\ acked = {}
  /\ faults = 0

(***************************************************************************)
(* Requests that may be lost.  An append that fails was not applied, was   *)
(* applied, or is applied later, if its position is still free then.       *)
(***************************************************************************)
AppendFails(p, e) ==
  /\ Fault
  /\ \/ UNCHANGED <<wal, late>>
     \/ LostAcks /\ p \notin DOMAIN wal /\ wal' = Land(p, e) /\ UNCHANGED late
     \/ LostAcks /\ late' = late \cup {[at |-> p, entry |-> e]} /\ UNCHANGED wal

(* The store applies a delayed put-if-absent.                              *)
ApplyLate ==
  \E r \in late :
    /\ late' = late \ {r}
    /\ wal' = IF r.at \in DOMAIN wal THEN wal ELSE Land(r.at, r.entry)
    /\ UNCHANGED <<manifest, pc, pos, faults>> /\ UNCHANGED opening
    /\ UNCHANGED tasks /\ UNCHANGED ghosts

(* The process is gone with everything it held in memory.                  *)
Forget(w) ==
  /\ base' = [base EXCEPT ![w] = [gen |-> 1, replayAfter |-> 0, lastSeen |-> 0]]
  /\ pos' = [pos EXCEPT ![w] = 0]
  /\ last' = [last EXCEPT ![w] = 0]
  /\ tables' = [tables EXCEPT ![w] = <<Table(1, 0)>>]
  /\ durable' = [durable EXCEPT ![w] = 0]
  /\ covered' = [covered EXCEPT ![w] = 0]
  /\ queue' = [queue EXCEPT ![w] = <<>>]
  /\ append' = [append EXCEPT ![w] = Idle]
  /\ flush' = [flush EXCEPT ![w] = "idle"]
  /\ poisoned' = [poisoned EXCEPT ![w] = FALSE]
  /\ epoch' = [epoch EXCEPT ![w] = 0]
  /\ UNCHANGED ghosts

(***************************************************************************)
(* ShardWriter::open                                                       *)
(***************************************************************************)

(* Deviation: the predecessor is not fenced with an entry of the log.      *)
Claim_NoSentinel(w) ==
  /\ pc[w] = "new"
  /\ manifest' = [manifest EXCEPT !.epoch = @ + 1]
  /\ \/ /\ epoch' = [epoch EXCEPT ![w] = manifest.epoch + 1]
        /\ base' = [base EXCEPT ![w] = [gen |-> manifest.gen,
                                        replayAfter |-> manifest.replayAfter,
                                        lastSeen |-> manifest.lastSeen]]
        /\ tables' = [tables EXCEPT ![w] = <<Table(manifest.gen, 0)>>]
        /\ pos' = [pos EXCEPT ![w] = manifest.replayAfter + 1]
        /\ Goto(w, "replay")
        /\ UNCHANGED faults
     \/ /\ LostAcks /\ Fault /\ Goto(w, "dead")
        /\ UNCHANGED <<epoch, base, tables, pos>>
  /\ UNCHANGED <<wal, late, last, durable, covered, queue, append, flush, poisoned>>
  /\ UNCHANGED ghosts

(* claim_epoch: a new manifest version with the next epoch.  A claim whose *)
(* acknowledgement is lost fails and leaves the epoch raised.              *)
Claim(w) ==
  /\ pc[w] = "new"
  /\ manifest' = [manifest EXCEPT !.epoch = @ + 1]
  /\ \/ /\ epoch' = [epoch EXCEPT ![w] = manifest.epoch + 1]
        /\ base' = [base EXCEPT ![w] = [gen |-> manifest.gen,
                                        replayAfter |-> manifest.replayAfter,
                                        lastSeen |-> manifest.lastSeen]]
        /\ tables' = [tables EXCEPT ![w] = <<Table(manifest.gen, 0)>>]
        /\ pos' = [pos EXCEPT ![w] = manifest.replayAfter + 1]
        /\ Goto(w, IF manifest.epoch + 1 >= 2 THEN "discover" ELSE "replay")
        /\ UNCHANGED faults
     \/ /\ LostAcks /\ Fault /\ Goto(w, "dead")
        /\ UNCHANGED <<epoch, base, tables, pos>>
  /\ UNCHANGED <<wal, late, last, durable, covered, queue, append, flush, poisoned>>
  /\ UNCHANGED ghosts

(* discover_next_position: probe forward from the cursor the manifest      *)
(* names, or, when there is no entry there, list the log.                  *)
Tip(hint) ==
  IF hint \in DOMAIN wal
  THEN Min({p \in hint + 1 .. Cardinality(DOMAIN wal) + hint + 1 : p \notin DOMAIN wal})
  ELSE IF DOMAIN wal = {} THEN 1 ELSE Max(DOMAIN wal) + 1

Discover(w) ==
  /\ pc[w] = "discover"
  /\ pos' = [pos EXCEPT ![w] = Tip(Max({base[w].lastSeen, base[w].replayAfter}))]
  /\ Goto(w, "sentinel")
  /\ UNCHANGED faults /\ UNCHANGED store /\ UNCHANGED opening
  /\ UNCHANGED tasks /\ UNCHANGED ghosts

(* write_fence_sentinel: another entry at the position means the tip has   *)
(* moved; an error ends the open.                                          *)
WriteSentinel(w) ==
  /\ pc[w] = "sentinel"
  /\ \/ /\ pos[w] \notin DOMAIN wal
        /\ wal' = Land(pos[w], Sentinel(w))
        /\ pos' = [pos EXCEPT ![w] = base[w].replayAfter + 1]
        /\ Goto(w, "replay")
        /\ UNCHANGED <<late, faults, epoch, base, last>> /\ UNCHANGED tasks
        /\ UNCHANGED ghosts
     \/ /\ pos[w] \in DOMAIN wal
        /\ Goto(w, "discover")
        /\ UNCHANGED <<wal, late, pos, faults>> /\ UNCHANGED opening
        /\ UNCHANGED tasks /\ UNCHANGED ghosts
     \/ /\ AppendFails(pos[w], Sentinel(w))
        /\ Goto(w, "dead")
        /\ Forget(w)
  /\ UNCHANGED manifest

(* MemTableFlusher::update_manifest: publish a table as an SSTable and     *)
(* move the replay cursor.                                                 *)
Published(t, cursor) ==
  [manifest EXCEPT !.gen = t.gen + 1,
                   !.replayAfter = cursor,
                   !.lastSeen = Max({@, cursor}),
                   !.sst = @ \cup {[gen |-> t.gen, rows |-> t.rows]}]

(* Deviation: replay relies on its cursor and does not compare             *)
(* generations.                                                            *)
Skipped_Sentinels(w, e) == e.rows = <<>>

(* An entry of a generation that has its SSTable, or a sentinel.           *)
Skipped(w, e) == e.rows = <<>> \/ e.gen < base[w].gen

(* Deviation: replay collects every generation in one memtable.            *)
Rotates_Never(w, e) == FALSE

(* The entry starts a generation after the one being rebuilt.              *)
Rotates(w, e) == ~Skipped(w, e) /\ e.gen > Active(w).gen /\ Active(w).rows # <<>>

Refuses(w, e) ==
  \/ e.gen # 0 /\ e.gen < last[w]
  \/ /\ ~Skipped(w, e)
     /\ Active(w).rows # <<>>
     /\ Len(Active(w).rows) + Len(e.rows) > Capacity

(* replay_memtable_from_wal, one entry.                                    *)
ReplayEntry(w) ==
  /\ pc[w] = "replay" /\ pos[w] \in DOMAIN wal
  /\ LET e == wal[pos[w]] IN
       \/ /\ e.epoch > epoch[w]
          /\ Goto(w, "dead") /\ Forget(w)
       \/ /\ e.epoch <= epoch[w] /\ ~Rotates(w, e) /\ Refuses(w, e)
          /\ Goto(w, "refused") /\ Forget(w)
       \/ /\ e.epoch <= epoch[w] /\ ~Rotates(w, e) /\ ~Refuses(w, e)
          /\ pos' = [pos EXCEPT ![w] = @ + 1]
          /\ IF Skipped(w, e)
             THEN UNCHANGED <<tables, last>>
             ELSE /\ tables' = [tables EXCEPT ![w][1].rows = @ \o e.rows]
                  /\ last' = [last EXCEPT ![w] = e.gen]
          /\ UNCHANGED <<pc, epoch, base, durable, covered, queue, append, flush, poisoned>>
          /\ UNCHANGED ghosts
  /\ UNCHANGED faults /\ UNCHANGED store

(* flush_replayed_memtable: the generation that is complete becomes an     *)
(* SSTable before the next one is rebuilt.                                 *)
ReplayFlush(w) ==
  /\ pc[w] = "replay" /\ pos[w] \in DOMAIN wal
  /\ wal[pos[w]].epoch <= epoch[w]
  /\ Rotates(w, wal[pos[w]])
  /\ LET ok == ~Fenced(w) /\ manifest.gen = Active(w).gen
         published == manifest' = Published(Active(w), pos[w] - 1)
     IN \/ /\ ok /\ published
           /\ tables' = [tables EXCEPT ![w] = <<Table(wal[pos[w]].gen, End(Active(w)))>>]
           /\ UNCHANGED <<pc, pos, durable, covered, queue, append, flush, poisoned, faults>>
           /\ UNCHANGED opening /\ UNCHANGED ghosts
        \/ /\ ~ok /\ Goto(w, "dead") /\ Forget(w)
           /\ UNCHANGED <<manifest, faults>>
        \/ /\ Fault /\ Goto(w, "dead") /\ Forget(w)
           /\ UNCHANGED manifest \/ (LostAcks /\ ok /\ published)
  /\ UNCHANGED <<wal, late>>

(* The first missing entry is the tip.  The cursor is published as a hint, *)
(* and whether that works does not matter.                                 *)
ReplayDone(w) ==
  /\ pc[w] = "replay" /\ pos[w] \notin DOMAIN wal
  /\ \/ manifest' = [manifest EXCEPT !.lastSeen = Max({@, pos[w] - 1})]
        /\ pos[w] - 1 > base[w].lastSeen /\ ~Fenced(w) /\ UNCHANGED faults
     \/ (pos[w] - 1 <= base[w].lastSeen \/ Fenced(w)) /\ UNCHANGED <<manifest, faults>>
     \/ pos[w] - 1 > base[w].lastSeen /\ Fault /\ UNCHANGED manifest
  /\ durable' = [durable EXCEPT ![w] = End(Active(w))]
  /\ covered' = [covered EXCEPT ![w] = pos[w] - 1]
  /\ Goto(w, "open")
  /\ UNCHANGED <<wal, late, pos, tables, queue, append, flush, poisoned>>
  /\ UNCHANGED opening /\ UNCHANGED ghosts

(***************************************************************************)
(* Puts and freezes, under the writer's state lock                         *)
(***************************************************************************)

(* rotate_memtable: the outgoing table remembers how far the log was       *)
(* covered, and owes an append if it holds batches the log does not.       *)
Rotated(w, ts) ==
  LET old  == Last(ts)
      owes == Len(old.rows) > LocalEnd(old, durable[w])
  IN Front(ts) \o <<[old EXCEPT !.at = covered[w], !.cell = IF owes THEN "wait" ELSE "none"],
                    Table(old.gen + 1, End(old))>>

Triggered(w, ts, q) ==
  LET old == Last(ts)
  IN IF Len(old.rows) > LocalEnd(old, durable[w]) THEN Append(q, old.gen) ELSE q

(* Deviation: a put does not look whether the table has room.              *)
Put_NoRoom(w) ==
  /\ pc[w] = "open" /\ ~poisoned[w]
  /\ put < MaxBatches
  /\ LET ts   == [tables[w] EXCEPT ![Len(tables[w])].rows = Append(@, put + 1)]
         q    == IF put + 1 \in Crossing THEN Append(queue[w], Tick) ELSE queue[w]
         full == Len(Last(ts).rows) >= Capacity
     IN /\ tables' = [tables EXCEPT ![w] = IF full THEN Rotated(w, ts) ELSE ts]
        /\ queue' = [queue EXCEPT ![w] = IF full THEN Triggered(w, ts, q) ELSE q]
  /\ put' = put + 1
  /\ UNCHANGED <<pc, pos, durable, covered, append, flush, poisoned, acked, faults>>
  /\ UNCHANGED store /\ UNCHANGED opening

(* put_memtable_no_wait: insert, ask for an append when the put crosses a  *)
(* threshold, freeze when the table is full.                               *)
Put(w) ==
  /\ pc[w] = "open" /\ ~poisoned[w]
  /\ put < MaxBatches
  /\ Len(Active(w).rows) < Capacity
  /\ LET ts   == [tables[w] EXCEPT ![Len(tables[w])].rows = Append(@, put + 1)]
         q    == IF put + 1 \in Crossing THEN Append(queue[w], Tick) ELSE queue[w]
         full == Len(Last(ts).rows) >= Capacity
     IN /\ tables' = [tables EXCEPT ![w] = IF full THEN Rotated(w, ts) ELSE ts]
        /\ queue' = [queue EXCEPT ![w] = IF full THEN Triggered(w, ts, q) ELSE q]
  /\ put' = put + 1
  /\ UNCHANGED <<pc, pos, durable, covered, append, flush, poisoned, acked, faults>>
  /\ UNCHANGED store /\ UNCHANGED opening

(* force_freeze_active, and the freeze a put makes when the table is too   *)
(* large or has no room for the next one.                                  *)
Freeze(w) ==
  /\ pc[w] = "open" /\ ~poisoned[w]
  /\ Active(w).rows # <<>>
  /\ tables' = [tables EXCEPT ![w] = Rotated(w, @)]
  /\ queue' = [queue EXCEPT ![w] = Triggered(w, tables[w], @)]
  /\ UNCHANGED <<pc, pos, durable, covered, append, flush, poisoned, faults>>
  /\ UNCHANGED store /\ UNCHANGED opening /\ UNCHANGED ghosts

(***************************************************************************)
(* The task that appends to the log                                        *)
(***************************************************************************)

(* The completion cell of a frozen table, written when its append is over. *)
Complete(w, g, how, p) ==
  [i \in DOMAIN tables[w] |->
     IF tables[w][i].gen = g
     THEN [tables[w][i] EXCEPT !.cell = how, !.at = IF p = 0 THEN @ ELSE p]
     ELSE tables[w][i]]

(* next_pending_store: the oldest table that still owes an append.         *)
Pending(w) ==
  LET owing == {t \in Range(tables[w]) : End(t) > durable[w]}
  IN IF owing = {} THEN 0 ELSE Min({t.gen : t \in owing})

(* WalFlushHandler::handle up to the append: a tick picks its table now, a *)
(* freeze named its table.  Messages go before the ticker.                 *)
TakeTrigger(w) ==
  /\ pc[w] = "open" /\ append[w].phase = "idle"
  /\ LET msg == IF queue[w] = <<>> THEN Tick ELSE Head(queue[w])
         gen == IF msg = Tick THEN Pending(w) ELSE msg
     IN /\ queue[w] = <<>> => gen # 0
        /\ queue' = [queue EXCEPT ![w] = IF @ = <<>> THEN @ ELSE Tail(@)]
        /\ \/ /\ gen # 0 /\ LocalEnd(TableOf(w, gen), durable[w]) < Len(TableOf(w, gen).rows)
              /\ append' = [append EXCEPT ![w] =
                   [Idle EXCEPT !.phase = "put", !.gen = gen, !.exact = msg # Tick,
                                !.end = Len(TableOf(w, gen).rows)]]
              /\ UNCHANGED tables
           \/ /\ gen # 0 /\ LocalEnd(TableOf(w, gen), durable[w]) >= Len(TableOf(w, gen).rows)
              /\ tables' = [tables EXCEPT ![w] = Complete(w, gen, "done", 0)]
              /\ UNCHANGED append
           \/ gen = 0 /\ UNCHANGED <<tables, append>>
  /\ UNCHANGED <<pc, pos, durable, covered, flush, poisoned, faults>>
  /\ UNCHANGED store /\ UNCHANGED opening /\ UNCHANGED ghosts

EntryOf(w) ==
  LET t == TableOf(w, append[w].gen)
  IN [epoch |-> epoch[w], gen |-> t.gen,
      rows |-> SubSeq(t.rows, LocalEnd(t, durable[w]) + 1, append[w].end)]

(* Deviation: a failed append is tried again at the next position.         *)
AppendPut_Onwards(w) ==
  /\ append[w].phase = "put"
  /\ \/ /\ pos[w] \notin DOMAIN wal
        /\ wal' = Land(pos[w], EntryOf(w))
        /\ append' = [append EXCEPT ![w].phase = "appended", ![w].at = pos[w]]
        /\ pos' = [pos EXCEPT ![w] = @ + 1]
        /\ UNCHANGED <<late, faults>>
     \/ /\ pos[w] \in DOMAIN wal
        /\ append' = [append EXCEPT ![w].phase = "exists"]
        /\ UNCHANGED <<wal, late, pos, faults>>
     \/ /\ AppendFails(pos[w], EntryOf(w))
        /\ append' = [append EXCEPT ![w].phase = "failed"]
        /\ pos' = [pos EXCEPT ![w] = @ + 1]
  /\ UNCHANGED <<manifest, pc, tables, durable, covered, queue, flush, poisoned>>
  /\ UNCHANGED opening /\ UNCHANGED ghosts

(* append_for_target: put-if-absent at the next position.                  *)
AppendPut(w) ==
  /\ append[w].phase = "put"
  /\ \/ /\ pos[w] \notin DOMAIN wal
        /\ wal' = Land(pos[w], EntryOf(w))
        /\ append' = [append EXCEPT ![w].phase = "appended", ![w].at = pos[w]]
        /\ pos' = [pos EXCEPT ![w] = @ + 1]
        /\ UNCHANGED <<late, faults>>
     \/ /\ pos[w] \in DOMAIN wal
        /\ append' = [append EXCEPT ![w].phase = "exists"]
        /\ UNCHANGED <<wal, late, pos, faults>>
     \/ /\ AppendFails(pos[w], EntryOf(w))
        /\ append' = [append EXCEPT ![w].phase = "failed"]
        /\ UNCHANGED pos
  /\ UNCHANGED <<manifest, pc, tables, durable, covered, queue, flush, poisoned>>
  /\ UNCHANGED opening /\ UNCHANGED ghosts

(* The append is over with an error, terminal (it poisons) or not.  A tick *)
(* reports to nobody.                                                      *)
AppendError(w, terminal) ==
  /\ append' = [append EXCEPT ![w] = Idle]
  /\ poisoned' = [poisoned EXCEPT ![w] = @ \/ terminal]
  /\ tables' = IF append[w].exact
               THEN [tables EXCEPT ![w] = Complete(w, append[w].gen, "failed", 0)]
               ELSE tables

(* Deviation: an occupied position is an ordinary conflict, whoever wrote  *)
(* it.                                                                     *)
AppendCheck_Unfenced(w) ==
  /\ append[w].phase \in {"exists", "failed"}
  /\ \/ /\ Fenced(w) /\ append[w].phase = "failed"
        /\ AppendError(w, TRUE) /\ UNCHANGED <<pos, faults>>
     \/ /\ Fault
        /\ AppendError(w, FALSE) /\ UNCHANGED pos
     \/ /\ append[w].phase = "exists"
        /\ IF append[w].tries > 0
           THEN AppendError(w, TRUE) /\ UNCHANGED pos
           ELSE /\ append' = [append EXCEPT ![w].phase = "put"]
                /\ pos' = [pos EXCEPT ![w] = @ + 1]
                /\ UNCHANGED <<tables, poisoned>>
        /\ UNCHANGED faults
     \/ /\ ~Fenced(w) /\ append[w].phase = "failed"
        /\ IF append[w].tries >= MaxRetries
           THEN AppendError(w, TRUE)
           ELSE /\ append' = [append EXCEPT ![w].phase = "put", ![w].tries = @ + 1]
                /\ UNCHANGED <<tables, poisoned>>
        /\ UNCHANGED <<pos, faults>>
  /\ UNCHANGED <<pc, durable, covered, queue, flush>>
  /\ UNCHANGED store /\ UNCHANGED opening /\ UNCHANGED ghosts

(* The answer was no: check_fenced, which may fail itself, then poison,    *)
(* move on, or try again.                                                  *)
AppendCheck(w) ==
  /\ append[w].phase \in {"exists", "failed"}
  /\ \/ /\ Fenced(w)
        /\ AppendError(w, TRUE) /\ UNCHANGED <<pos, faults>>
     \/ /\ Fault
        /\ AppendError(w, FALSE) /\ UNCHANGED pos
     \/ /\ ~Fenced(w) /\ append[w].phase = "exists"
        /\ IF append[w].tries > 0
           THEN AppendError(w, TRUE) /\ UNCHANGED pos
           ELSE /\ append' = [append EXCEPT ![w].phase = "put"]
                /\ pos' = [pos EXCEPT ![w] = @ + 1]
                /\ UNCHANGED <<tables, poisoned>>
        /\ UNCHANGED faults
     \/ /\ ~Fenced(w) /\ append[w].phase = "failed"
        /\ IF append[w].tries >= MaxRetries
           THEN AppendError(w, TRUE)
           ELSE /\ append' = [append EXCEPT ![w].phase = "put", ![w].tries = @ + 1]
                /\ UNCHANGED <<tables, poisoned>>
        /\ UNCHANGED <<pos, faults>>
  /\ UNCHANGED <<pc, durable, covered, queue, flush>>
  /\ UNCHANGED store /\ UNCHANGED opening /\ UNCHANGED ghosts

(* advance_durable, which wakes the puts that wait for these batches; they *)
(* succeed unless the writer is poisoned.                                  *)
Advance(w) ==
  /\ append[w].phase = "appended"
  /\ durable' = [durable EXCEPT ![w] =
       Max({@, TableOf(w, append[w].gen).off + append[w].end})]
  /\ acked' = IF poisoned[w] THEN acked
              ELSE acked \cup UNION {{t.rows[i] : i \in LocalEnd(t, durable[w]) + 1
                                                      .. LocalEnd(t, durable'[w])} :
                                       t \in Range(tables[w])}
  /\ append' = [append EXCEPT ![w].phase = "settle"]
  /\ UNCHANGED <<pc, pos, tables, covered, queue, flush, poisoned, put, faults>>
  /\ UNCHANGED store /\ UNCHANGED opening

(* The handler records the position, then completes the cell.              *)
Settle(w) ==
  /\ append[w].phase = "settle"
  /\ covered' = [covered EXCEPT ![w] = Max({@, append[w].at})]
  /\ tables' = IF append[w].exact
               THEN [tables EXCEPT ![w] = Complete(w, append[w].gen, "done", append[w].at)]
               ELSE tables
  /\ append' = [append EXCEPT ![w] = Idle]
  /\ UNCHANGED <<pc, pos, durable, queue, flush, poisoned, faults>>
  /\ UNCHANGED store /\ UNCHANGED opening /\ UNCHANGED ghosts

(***************************************************************************)
(* The task that turns frozen memtables into SSTables, oldest first        *)
(***************************************************************************)
Oldest(w)      == tables[w][1]
FlushTo(w, l)  == flush' = [flush EXCEPT ![w] = l]
FlushFailed(w) == FlushTo(w, "idle") /\ poisoned' = [poisoned EXCEPT ![w] = TRUE]
FlushDone(w)   == FlushTo(w, "idle") /\ tables' = [tables EXCEPT ![w] = Tail(@)]

(* flush_memtable: a poisoned writer publishes nothing more; otherwise the *)
(* append queued at the freeze must be over.                               *)
FlushTake(w) ==
  /\ pc[w] = "open" /\ flush[w] = "idle" /\ Len(tables[w]) > 1
  /\ ~poisoned[w]
  /\ \/ Oldest(w).cell \in {"none", "done"} /\ FlushTo(w, "check") /\ UNCHANGED poisoned
     \/ Oldest(w).cell = "failed" /\ FlushFailed(w)
  /\ UNCHANGED <<pc, pos, tables, durable, covered, queue, append, faults>>
  /\ UNCHANGED store /\ UNCHANGED opening /\ UNCHANGED ghosts

(* MemTableFlusher::flush up to the manifest: check_fenced, then           *)
(* already_published and the other preconditions.                          *)
FlushCheck(w) ==
  /\ flush[w] = "check"
  /\ LET t     == Oldest(w)
         owing == LocalEnd(t, durable[w]) < Len(t.rows)
     IN \/ /\ Fenced(w) \/ manifest.gen < t.gen \/ (manifest.gen = t.gen /\ owing)
           /\ FlushFailed(w) /\ UNCHANGED tables
        \/ /\ ~Fenced(w) /\ manifest.gen > t.gen
           /\ FlushDone(w) /\ UNCHANGED poisoned
        \/ /\ ~Fenced(w) /\ manifest.gen = t.gen /\ ~owing
           /\ FlushTo(w, "commit") /\ UNCHANGED <<tables, poisoned>>
  /\ UNCHANGED <<pc, pos, durable, covered, queue, append, faults>>
  /\ UNCHANGED store /\ UNCHANGED opening /\ UNCHANGED ghosts

(* Deviation: the cursor is the newest position appended, not the table's  *)
(* own.                                                                    *)
FlushCommit_Latest(w) ==
  /\ flush[w] = "commit"
  /\ LET t  == Oldest(w)
         ok == ~Fenced(w) /\ manifest.gen = t.gen
     IN \/ /\ ok /\ manifest' = Published(t, covered[w])
           /\ FlushDone(w) /\ UNCHANGED <<poisoned, faults>>
        \/ /\ ~ok /\ FlushFailed(w) /\ UNCHANGED <<manifest, tables, faults>>
        \/ /\ Fault /\ FlushTo(w, "check") /\ UNCHANGED <<tables, poisoned>>
           /\ \/ UNCHANGED manifest
              \/ LostAcks /\ ok /\ manifest' = Published(t, covered[w])
  /\ UNCHANGED <<wal, late, pc, pos, durable, covered, queue, append>>
  /\ UNCHANGED opening /\ UNCHANGED ghosts

(* update_manifest; any other error is retried from the top.               *)
FlushCommit(w) ==
  /\ flush[w] = "commit"
  /\ LET t  == Oldest(w)
         ok == ~Fenced(w) /\ manifest.gen = t.gen
     IN \/ /\ ok /\ manifest' = Published(t, t.at)
           /\ FlushDone(w) /\ UNCHANGED <<poisoned, faults>>
        \/ /\ ~ok /\ FlushFailed(w) /\ UNCHANGED <<manifest, tables, faults>>
        \/ /\ Fault /\ FlushTo(w, "check") /\ UNCHANGED <<tables, poisoned>>
           /\ \/ UNCHANGED manifest
              \/ LostAcks /\ ok /\ manifest' = Published(t, t.at)
  /\ UNCHANGED <<wal, late, pc, pos, durable, covered, queue, append>>
  /\ UNCHANGED opening /\ UNCHANGED ghosts

(***************************************************************************)
(* The process stops, by abort or by a crash; an append it had sent may    *)
(* still arrive.                                                           *)
(***************************************************************************)
Crash(w) ==
  /\ pc[w] \notin {"new", "dead", "refused"}
  /\ Goto(w, "dead") /\ Forget(w)
  /\ \/ UNCHANGED <<late, faults>>
     \/ /\ LostAcks /\ Fault /\ append[w].phase = "put"
        /\ late' = late \cup {[at |-> pos[w], entry |-> EntryOf(w)]}
  /\ UNCHANGED <<wal, manifest>>

Next ==
  \/ ApplyLate
  \/ \E w \in Writers :
       \/ Claim(w) \/ Discover(w) \/ WriteSentinel(w)
       \/ ReplayEntry(w) \/ ReplayFlush(w) \/ ReplayDone(w)
       \/ Put(w) \/ Freeze(w)
       \/ TakeTrigger(w) \/ AppendPut(w) \/ AppendCheck(w) \/ Advance(w) \/ Settle(w)
       \/ FlushTake(w) \/ FlushCheck(w) \/ FlushCommit(w)
       \/ Crash(w)

Spec == Init /\ [][Next]_vars

(***************************************************************************)
(* Properties                                                              *)
(***************************************************************************)
Entry == [epoch : Nat, gen : Nat, rows : Seq(Batches)]

(* The shapes of the log, the manifest and the writers' state.             *)
TypeOK ==
  /\ DOMAIN wal \subseteq Nat \ {0}
  /\ \A p \in DOMAIN wal : wal[p] \in Entry
  /\ \A r \in late : r.at \in Nat \ {0} /\ r.entry \in Entry
  /\ {manifest.epoch, manifest.gen, manifest.replayAfter, manifest.lastSeen} \subseteq Nat
  /\ \A s \in manifest.sst : s.gen \in Nat /\ s.rows \in Seq(Batches)
  /\ pc \in [Writers -> {"new", "discover", "sentinel", "replay", "open", "dead", "refused"}]
  /\ {epoch, pos, last, durable, covered} \subseteq [Writers -> Nat]
  /\ \A w \in Writers :
       /\ Len(tables[w]) > 0
       /\ \A t \in Range(tables[w]) :
            /\ {t.gen, t.off, t.at} \subseteq Nat
            /\ t.rows \in Seq(Batches) /\ Len(t.rows) <= Capacity
            /\ t.cell \in {"none", "wait", "done", "failed"}
       /\ append[w].phase \in {"idle", "put", "exists", "failed", "appended", "settle"}
  /\ flush \in [Writers -> {"idle", "check", "commit"}]
  /\ poisoned \in [Writers -> BOOLEAN]
  /\ acked \subseteq 1 .. put /\ put \in 0 .. MaxBatches

Rows(e)   == {e.rows[i] : i \in DOMAIN e.rows}
Flushed   == UNION {Rows(s) : s \in manifest.sst}
Held(w)   == UNION {Rows(t) : t \in Range(tables[w])}
InLog     == UNION {Rows(wal[p]) : p \in DOMAIN wal}

(* What a writer that opened the shard now would rebuild.                  *)
Reached   == {p \in DOMAIN wal : p > manifest.replayAfter
                                 /\ manifest.replayAfter + 1 .. p \subseteq DOMAIN wal}
Rebuilt   == UNION {Rows(wal[p]) : p \in {q \in Reached : wal[q].gen >= manifest.gen}}

(* A put that returned success survives the loss of every writer: its      *)
(* batch is in an SSTable, or replay reaches it and does not skip it.      *)
AckedRecoverable == acked \subseteq Flushed \cup Rebuilt

(* The writer that holds the shard and has opened it serves every batch    *)
(* that was ever acknowledged, by whichever writer: a predecessor cannot   *)
(* have a put accepted behind its back.                                    *)
HolderSeesAcked ==
  \A w \in Writers : pc[w] = "open" /\ ~Fenced(w) => acked \subseteq Flushed \cup Held(w)

(* What replay takes for granted: if entry N is missing, entry N + 1 does  *)
(* not exist (the first missing entry ends the log), and data entries      *)
(* never go back to an older epoch, whatever late requests and             *)
(* half-finished takeovers leave in the log.                               *)
LogSound ==
  /\ DOMAIN wal = 1 .. Cardinality(DOMAIN wal)
  /\ \A p, q \in DOMAIN wal :
       p < q /\ wal[p].rows # <<>> /\ wal[q].rows # <<>> => wal[p].epoch <= wal[q].epoch

(* No batch ends up in two generations: it is in one SSTable at most, and  *)
(* replay never rebuilds a batch that has one.                             *)
OneGeneration ==
  /\ Flushed \cap Rebuilt = {}
  /\ \A s, t \in manifest.sst : s # t => Rows(s) \cap Rows(t) = {}

(* Replay order decides which row of a primary key is the newest, so the   *)
(* last copy of an older batch never lies above that of a younger one,     *)
(* across generations and writers.                                         *)
RecencyKept ==
  LET lastAt(b) == Max({p \in DOMAIN wal : b \in Rows(wal[p])})
  IN \A b, c \in InLog : b < c => lastAt(b) <= lastAt(c)

(* append_for_target must not "advance-and-rewrite (would duplicate)": no  *)
(* batch is in two entries of the log.                                     *)
AppendedOnce ==
  \A p, q \in DOMAIN wal : p # q => Rows(wal[p]) \cap Rows(wal[q]) = {}

(* A shard can be opened again, whatever its writers did to it: the one    *)
(* log that replay refuses is a log with a batch written twice.            *)
ReplayAccepts == (\E w \in Writers : pc[w] = "refused") => ~AppendedOnce
=============================================================================
