---------------------- MODULE CommitTransactionProofs ----------------------
(***************************************************************************)
(* What the optimistic commit loop guarantees for any transactions, any    *)
(* number of retries and faults, and any behaviour of the commit handler.  *)
(*                                                                         *)
(* The argument: a transaction that may still change its target has        *)
(* nothing in the log, and every write of its that is in flight aims at a  *)
(* version that is taken.  From the moment it asks the handler, it keeps   *)
(* its target and its manifest until it has seen that version taken by     *)
(* another or knows that no write of its can show up.                      *)
(***************************************************************************)
EXTENDS CommitTransaction, TLAPS

-----------------------------------------------------------------------------
(* The inductive invariant                                                 *)

(* Labels at which the loop may still move its target, or delete its file. *)
Open == {"start", "load", "file", "commit", "cleanup"}

(* Nothing of t has been committed, and no write in flight can commit it.  *)
Unlanded(t) ==
  /\ ~Landed(t)
  /\ \A w \in late : w.man.txn = t => w.ver <= Len(log)

(* What t has committed is the manifest of its last attempt, at its        *)
(* target.                                                                 *)
Placed(t) ==
  \A v \in DOMAIN log : log[v].txn = t => v = Target(t) /\ log[v] = ManifestOf(t)

(* A write of t in flight comes too late, or it is the last attempt's and  *)
(* the transaction file it names exists.                                   *)
InFlight(t) ==
  \A w \in late : w.man.txn = t =>
    \/ w.ver <= Len(log)
    \/ w.ver = Target(t) /\ w.man = ManifestOf(t) /\ FileOf(w.man) \in files

(* t has been checked against all it builds on that it did not read.       *)
CaughtUp(t) ==
  /\ read[t] <= base[t] /\ base[t] <= Len(log)
  /\ t \in Pinned => base[t] = read[t]
  /\ t \notin Pinned =>
       \A u \in (read[t] + 1)..base[t] : <<t, log[u].txn>> \notin Conflicts
  /\ pc[t] = "start" \/ t \in Creators => read[t] = 0

(* What t's place in the loop, or its answer, says about the table.        *)
KnownOutcome(t) ==
  /\ pc[t] \in Open \/ result[t] = "failed" => Unlanded(t)
  /\ pc[t] = "record" \/ result[t] \in {"ok", "landed_error"} => Landed(t)
  /\ pc[t] = "commit" => FileOf(ManifestOf(t)) \in files
  /\ pc[t] # "done" => result[t] = "none"

TxnInv(t) == Placed(t) /\ InFlight(t) /\ CaughtUp(t) /\ KnownOutcome(t)

Inv ==
  /\ TypeOK
  /\ ~LateWrites => late = {}
  /\ TransactionFilesIntact
  /\ \A t \in Txns : TxnInv(t)

(* The four properties the runs check follow.                              *)
LEMMA InvImplies ==
  ASSUME Inv
  PROVE  /\ AppliedAtMostOnce
         /\ ReturnsAreTrue
         /\ NothingUnchecked
  <1>0. TypeOK /\ \A t \in Txns : TxnInv(t)
    BY DEF Inv
  <1>1. \A v \in DOMAIN log : log[v] \in Manifests /\ log[v].txn \in Txns /\ v \in 1..Len(log)
    <2>1. log \in Seq(Manifests)
      BY <1>0 DEF TypeOK
    <2>2. DOMAIN log = 1..Len(log) /\ \A v \in DOMAIN log : log[v] \in Manifests
      BY <2>1
    <2>3. QED
      BY <2>2 DEF Manifests
  <1>2. AppliedAtMostOnce
    <2>1. SUFFICES ASSUME NEW u \in DOMAIN log, NEW v \in DOMAIN log, log[u].txn = log[v].txn
          PROVE  u = v
      BY DEF AppliedAtMostOnce
    <2>2. Placed(log[u].txn)
      BY <1>0, <1>1 DEF TxnInv
    <2>3. QED
      BY <2>1, <2>2 DEF Placed
  <1>3. ReturnsAreTrue
    BY <1>0 DEF ReturnsAreTrue, TxnInv, KnownOutcome, Unlanded
  <1>4. NothingUnchecked
    <2>1. SUFFICES ASSUME NEW v \in DOMAIN log
          PROVE  LET t == log[v].txn IN
                 IF t \in Pinned
                 THEN v = read[t] + 1
                 ELSE \A u \in (read[t] + 1)..(v - 1) : <<t, log[u].txn>> \notin Conflicts
      BY DEF NothingUnchecked
    <2> DEFINE t == log[v].txn
    <2>2. t \in Txns /\ v = base[t] + 1
      BY <1>0, <1>1 DEF TxnInv, Placed, Target
    <2>3. base[t] \in Nat /\ v - 1 = base[t] /\ CaughtUp(t)
      BY <1>0, <2>2 DEF TypeOK, TxnInv
    <2>4. QED
      BY <2>2, <2>3 DEF CaughtUp
  <1>5. QED
    BY <1>2, <1>3, <1>4

(* Before the first call there is nothing.                                 *)
LEMMA InitInv == Init => Inv
  <1>1. SUFFICES ASSUME Init PROVE Inv
    OBVIOUS
  <1>2. DOMAIN log = {} /\ Len(log) = 0
    BY <1>1 DEF Init
  <1>3. TypeOK
    <2>1. \A t \in Txns : Attempts(t) \in Nat /\ Attempts(t) > 0
      BY BoundAssumption DEF Attempts
    <2>2. log \in Seq(Manifests)
      BY <1>1 DEF Init
    <2>3. QED
      BY <1>1, <2>1, <2>2, BoundAssumption DEF Init, TypeOK, Labels
  <1>4. ASSUME NEW t \in Txns PROVE TxnInv(t)
    BY <1>1, <1>2, <1>4 DEF Init, TxnInv, Placed, InFlight, CaughtUp, KnownOutcome,
       Unlanded, Landed
  <1>5. QED
    BY <1>1, <1>2, <1>3, <1>4 DEF Inv, Init, TransactionFilesIntact

-----------------------------------------------------------------------------
(* Steps of one transaction, seen by the others                            *)

(* The log keeps what it has.                                              *)
Kept ==
  /\ log' \in Seq(Manifests)
  /\ Len(log) <= Len(log')
  /\ \A v \in DOMAIN log : v \in DOMAIN log' /\ log'[v] = log[v]

(* u's loop does not move, and the step commits nothing of u, sends no     *)
(* write of u and deletes no file of u.                                    *)
Aside(u) ==
  /\ pc'[u] = pc[u] /\ read'[u] = read[u] /\ rv'[u] = rv[u]
  /\ base'[u] = base[u] /\ result'[u] = result[u]
  /\ \A v \in DOMAIN log' : log'[v].txn = u => v \in DOMAIN log
  /\ \A w \in late' : w.man.txn = u => w \in late
  /\ \A r \in Nat : <<r, u>> \in files => <<r, u>> \in files'

(* Such a step keeps what the invariant says of u.                         *)
LEMMA AsideKeeps ==
  ASSUME Inv, Kept, NEW u \in Txns, Aside(u)
  PROVE  TxnInv(u)'
  <1>0. TypeOK /\ TxnInv(u) /\ Len(log) \in Nat /\ Len(log') \in Nat
    BY DEF Inv, TypeOK, Kept
  <1>1. /\ Target(u)' = Target(u) /\ ManifestOf(u)' = ManifestOf(u)
        /\ FileOf(ManifestOf(u)) = <<rv[u], u>> /\ FileOf(ManifestOf(u))' = <<rv[u], u>>
    BY DEF Aside, Target, ManifestOf, FileOf
  <1>2. Landed(u)' <=> Landed(u)
    BY DEF Landed, Aside, Kept
  <1>3. Placed(u)'
    BY <1>0, <1>1 DEF TxnInv, Placed, Aside, Kept
  <1>4. InFlight(u)'
    <2>1. SUFFICES ASSUME NEW w \in late', w.man.txn = u
          PROVE  \/ w.ver <= Len(log')
                 \/ w.ver = Target(u) /\ w.man = ManifestOf(u) /\ FileOf(w.man) \in files'
      BY <1>1 DEF InFlight, FileOf
    <2>2. w \in late /\ w.ver \in Nat
      BY <1>0, <2>1 DEF Aside, TypeOK
    <2>3. CASE w.ver <= Len(log)
      BY <1>0, <2>2, <2>3 DEF Kept
    <2>4. CASE w.ver = Target(u) /\ w.man = ManifestOf(u) /\ FileOf(w.man) \in files
      BY <1>0, <1>1, <2>4 DEF Aside, TypeOK
    <2>5. QED
      BY <1>0, <2>1, <2>2, <2>3, <2>4 DEF TxnInv, InFlight
  <1>5. CaughtUp(u)'
    <2>1. base[u] \in Nat /\ read[u] \in Nat /\ CaughtUp(u)
      BY <1>0 DEF TypeOK, TxnInv
    <2>2. \A v \in (read[u] + 1)..base[u] : v \in DOMAIN log /\ log'[v] = log[v]
      BY <1>0, <2>1 DEF CaughtUp, Kept, TypeOK
    <2>3. QED
      BY <1>0, <2>1, <2>2 DEF CaughtUp, Aside, Kept
  <1>6. KnownOutcome(u)'
    <2>1. Unlanded(u) => Unlanded(u)'
      BY <1>0, <1>2 DEF Unlanded, Aside, Kept, TypeOK
    <2>2. FileOf(ManifestOf(u)) \in files => FileOf(ManifestOf(u))' \in files'
      BY <1>0, <1>1 DEF Aside, TypeOK
    <2>3. QED
      BY <1>0, <1>2, <2>1, <2>2 DEF TxnInv, KnownOutcome, Aside
  <1>7. QED
    BY <1>3, <1>4, <1>5, <1>6 DEF TxnInv

(* What the others keep and the acting transaction establishes is the      *)
(* invariant.                                                              *)
LEMMA ActorSuffices ==
  ASSUME Inv, NEW t \in Txns, Kept, \A u \in Txns \ {t} : Aside(u),
         TypeOK', ~LateWrites => late' = {}, TransactionFilesIntact', TxnInv(t)'
  PROVE  Inv'
  <1>1. \A u \in Txns : TxnInv(u)'
    BY AsideKeeps
  <1>2. QED
    BY <1>1 DEF Inv

(* A write through the handler appends or changes nothing.                 *)
LEMMA CreatedKeeps ==
  ASSUME TypeOK, NEW m \in Manifests, NEW v \in Nat, log' = Created(v, m)
  PROVE  /\ Kept
         /\ \A i \in DOMAIN log' :
              \/ i \in DOMAIN log
              \/ i = v /\ v = Len(log) + 1 /\ log'[i] = m
         /\ v = Len(log) + 1 => v \in DOMAIN log' /\ log'[v] = m /\ Len(log') = v
  <1>0. log \in Seq(Manifests) /\ Len(log) \in Nat
    BY DEF TypeOK
  <1>1. CASE Len(log) + 1 = v
    <2>1. log' = Append(log, m)
      BY <1>1 DEF Created
    <2>2. QED
      BY <1>0, <1>1, <2>1 DEF Kept
  <1>2. CASE Len(log) + 1 # v
    <2>1. log' = log
      BY <1>2 DEF Created
    <2>2. QED
      BY <1>0, <1>2, <2>1 DEF Kept
  <1>3. QED
    BY <1>1, <1>2

(* A step that leaves the log alone keeps it.                              *)
LEMMA SameLogKept ==
  ASSUME TypeOK, log' = log
  PROVE  Kept
  BY DEF TypeOK, Kept

(* The manifest of an attempt is one.                                      *)
LEMMA ManifestOfType ==
  ASSUME TypeOK, NEW t \in Txns
  PROVE  /\ ManifestOf(t) \in Manifests /\ ManifestOf(t).txn = t
         /\ FileOf(ManifestOf(t)) = <<rv[t], t>> /\ rv[t] \in Nat
         /\ Target(t) = base[t] + 1 /\ Target(t) \in Nat /\ base[t] \in Nat
         /\ read[t] \in Nat /\ attempt[t] \in Nat
  BY DEF TypeOK, ManifestOf, Manifests, FileOf, Target

-----------------------------------------------------------------------------
(* Catching up                                                             *)

(* A call starts on a version that exists, or with an empty table.         *)
LEMMA SubmitInv ==
  ASSUME Inv, NEW t \in Txns, Submit(t) \/ CreateDataset(t)
  PROVE  Inv'
  <1>0. TypeOK /\ TxnInv(t) /\ UNCHANGED <<log, files, late, attempt, error, result, faults>>
    BY DEF Inv, Submit, CreateDataset
  <1>1. Kept
    BY <1>0, SameLogKept
  <1>2. PICK l \in {"load", "file"} : pc' = [pc EXCEPT ![t] = l]
    BY DEF Submit, CreateDataset, Goto
  <1>3. PICK v \in Nat, r \in Nat :
          /\ read' = [read EXCEPT ![t] = v] /\ rv' = [rv EXCEPT ![t] = r]
          /\ base' = [base EXCEPT ![t] = v]
          /\ v <= Len(log) /\ (t \in Creators => v = 0)
    <2>1. CASE Submit(t)
      <3>1. PICK v \in DOMAIN log : /\ read' = [read EXCEPT ![t] = v]
                                    /\ rv' = [rv EXCEPT ![t] = v]
                                    /\ base' = [base EXCEPT ![t] = v]
        BY <2>1 DEF Submit
      <3>2. v \in Nat /\ v <= Len(log)
        BY <1>0 DEF TypeOK
      <3>3. QED
        BY <2>1, <3>1, <3>2 DEF Submit
    <2>2. CASE CreateDataset(t)
      <3>1. read[t] = 0 /\ base[t] = 0 /\ t \in Creators
        BY <1>0, <2>2 DEF CreateDataset, TxnInv, CaughtUp, Pinned
      <3>2. /\ UNCHANGED <<read, rv, base>> /\ rv[t] \in Nat /\ 0 <= Len(log)
            /\ read = [read EXCEPT ![t] = 0] /\ base = [base EXCEPT ![t] = 0]
            /\ rv = [rv EXCEPT ![t] = rv[t]]
        BY <1>0, <2>2, <3>1 DEF CreateDataset, TypeOK
      <3>3. QED
        BY <3>1, <3>2
    <2>3. QED
      BY <2>1, <2>2
  <1>4. \A u \in Txns \ {t} : Aside(u)
    BY <1>0, <1>2, <1>3 DEF Aside, TypeOK
  <1>5. TypeOK'
    BY <1>0, <1>2, <1>3 DEF TypeOK, Labels, Attempts
  <1>6. TxnInv(t)'
    <2>1. Unlanded(t) /\ pc[t] = "start" /\ result[t] = "none"
      BY <1>0 DEF TxnInv, KnownOutcome, Open, Submit, CreateDataset
    <2>2. Unlanded(t)'
      BY <1>0, <2>1 DEF Unlanded, Landed
    <2>3. Placed(t)' /\ InFlight(t)'
      BY <2>2 DEF Placed, InFlight, Unlanded, Landed
    <2>4. pc'[t] \in {"load", "file"} /\ read'[t] = v /\ base'[t] = v
      BY <1>0, <1>2, <1>3 DEF TypeOK
    <2>5. CaughtUp(t)'
      BY <1>0, <1>3, <2>4 DEF CaughtUp
    <2>6. KnownOutcome(t)'
      BY <1>0, <2>1, <2>2, <2>4 DEF KnownOutcome
    <2>7. QED
      BY <2>3, <2>5, <2>6 DEF TxnInv
  <1>7. QED
    BY <1>0, <1>1, <1>4, <1>5, <1>6, ActorSuffices DEF Inv, TransactionFilesIntact

(* Moving the base is safe because nothing of t is or can become visible.  *)
LEMMA RebaseInv ==
  ASSUME Inv, NEW t \in Txns, Rebase(t) \/ CheckPinned(t)
  PROVE  Inv'
  <1>0. /\ TypeOK /\ TxnInv(t) /\ pc[t] = "load"
        /\ UNCHANGED <<log, files, late, read, attempt, error>>
    BY DEF Inv, Rebase, CheckPinned
  <1>1. Kept
    BY <1>0, SameLogKept
  <1>2. PICK l \in {"file", "done"}, r \in {"none", "failed"} :
          /\ pc' = [pc EXCEPT ![t] = l] /\ result' = [result EXCEPT ![t] = r]
          /\ l # "done" => r = "none"
          /\ faults' \in 0..MaxFaults
    <2>1. result[t] = "none" /\ result = [result EXCEPT ![t] = "none"]
      BY <1>0 DEF TxnInv, KnownOutcome, TypeOK
    <2>2. faults' = faults \/ Fault => faults' \in 0..MaxFaults
      BY <1>0, BoundAssumption DEF TypeOK, Fault
    <2>3. \/ Goto(t, "file") /\ UNCHANGED <<result, faults>>
          \/ Return(t, "failed") /\ (UNCHANGED faults \/ Fault)
      BY DEF Rebase, CheckPinned
    <2>4. QED
      BY <2>1, <2>2, <2>3 DEF Goto, Return
  <1>3. PICK n \in Nat, b \in Nat :
          /\ rv' = [rv EXCEPT ![t] = n] /\ base' = [base EXCEPT ![t] = b]
          /\ \/ b = base[t]
             \/ /\ b = Len(log) /\ t \notin Pinned
                /\ \A v \in Newer(t) : <<t, log[v].txn>> \notin Conflicts
    <2>1. /\ rv[t] \in Nat /\ base[t] \in Nat /\ Len(log) \in Nat
          /\ rv = [rv EXCEPT ![t] = rv[t]] /\ base = [base EXCEPT ![t] = base[t]]
      BY <1>0 DEF TypeOK
    <2>2. CASE UNCHANGED <<rv, base>>
      BY <2>1, <2>2
    <2>3. CASE /\ t \notin Pinned
               /\ \A v \in Newer(t) : <<t, log[v].txn>> \notin Conflicts
               /\ base' = [base EXCEPT ![t] = Len(log)]
               /\ rv' = IF t \in Rebased THEN [rv EXCEPT ![t] = Len(log)] ELSE rv
      BY <2>1, <2>3
    <2>4. QED
      BY <2>2, <2>3 DEF Rebase, CheckPinned
  <1>4. \A u \in Txns \ {t} : Aside(u)
    BY <1>0, <1>2, <1>3 DEF Aside, TypeOK
  <1>5. TypeOK'
    BY <1>0, <1>2, <1>3 DEF TypeOK, Labels, Attempts
  <1>6. TxnInv(t)'
    <2>1. Unlanded(t)
      BY <1>0 DEF TxnInv, KnownOutcome, Open
    <2>2. Unlanded(t)'
      BY <1>0, <2>1 DEF Unlanded, Landed
    <2>3. Placed(t)' /\ InFlight(t)'
      BY <2>2 DEF Placed, InFlight, Unlanded, Landed
    <2>4. /\ pc'[t] \in {"file", "done"} /\ result'[t] \in {"none", "failed"}
          /\ pc'[t] # "done" => result'[t] = "none"
      BY <1>0, <1>2 DEF TypeOK
    <2>5. CaughtUp(t)'
      <3>1. base'[t] = b /\ CaughtUp(t) /\ base[t] \in Nat /\ read[t] \in Nat /\ Len(log) \in Nat
        BY <1>0, <1>3 DEF TypeOK, TxnInv
      <3>2. CASE b = base[t]
        BY <1>0, <2>4, <3>1, <3>2 DEF CaughtUp
      <3>3. CASE /\ b = Len(log) /\ t \notin Pinned
                 /\ \A v \in Newer(t) : <<t, log[v].txn>> \notin Conflicts
        <4>1. ASSUME NEW u \in (read[t] + 1)..Len(log) PROVE <<t, log[u].txn>> \notin Conflicts
          <5>1. u \in (read[t] + 1)..base[t] \/ u \in Newer(t)
            BY <3>1 DEF Newer
          <5>2. QED
            BY <3>1, <3>3, <5>1 DEF CaughtUp
        <4>2. QED
          BY <1>0, <2>4, <3>1, <3>3, <4>1 DEF CaughtUp, Pinned
      <3>4. QED
        BY <1>3, <3>2, <3>3
    <2>6. KnownOutcome(t)'
      BY <1>0, <2>2, <2>4 DEF KnownOutcome
    <2>7. QED
      BY <2>3, <2>5, <2>6 DEF TxnInv
  <1>7. QED
    BY <1>0, <1>1, <1>4, <1>5, <1>6, ActorSuffices DEF Inv, TransactionFilesIntact

-----------------------------------------------------------------------------
(* Attempting                                                              *)

(* A step of a loop that leaves the log, the writes in flight and its own  *)
(* target alone, while nothing of it is or can become visible, may do what *)
(* it likes with its own transaction file.                                 *)
LEMMA OpenStepInv ==
  ASSUME Inv, NEW t \in Txns, Unlanded(t),
         UNCHANGED <<log, late, read, rv, base>>,
         NEW l \in Labels, pc' = [pc EXCEPT ![t] = l],
         NEW r \in {"none", "failed"}, result' = [result EXCEPT ![t] = r],
         l \notin {"start", "record"}, l # "done" => r = "none",
         files' \in {files, files \cup {FileOf(ManifestOf(t))}, files \ {FileOf(ManifestOf(t))}},
         l = "commit" => FileOf(ManifestOf(t)) \in files',
         NEW a \in Nat, attempt' = [attempt EXCEPT ![t] = a], a < Attempts(t),
         error' = error, faults' \in 0..MaxFaults
  PROVE  Inv'
  <1>0. TypeOK /\ TxnInv(t)
    BY DEF Inv
  <1>1. Kept
    BY <1>0, SameLogKept
  <1>2. /\ FileOf(ManifestOf(t)) = <<rv[t], t>> /\ rv[t] \in Nat
        /\ ManifestOf(t)' = ManifestOf(t) /\ FileOf(ManifestOf(t))' = <<rv[t], t>>
    BY <1>0, ManifestOfType DEF ManifestOf, FileOf
  <1>3. \A u \in Txns \ {t} : Aside(u)
    BY <1>0, <1>2 DEF Aside, TypeOK
  <1>4. TypeOK'
    <2>1. files' \subseteq Names
      BY <1>0, <1>2 DEF TypeOK, Names
    <2>2. \A u \in Txns : attempt'[u] < Attempts(u)
      BY <1>0 DEF TypeOK
    <2>3. QED
      BY <1>0, <2>1, <2>2 DEF TypeOK, Attempts
  <1>5. TransactionFilesIntact'
    <2>1. SUFFICES ASSUME NEW v \in DOMAIN log PROVE FileOf(log[v]) \in files'
      BY DEF TransactionFilesIntact, FileOf
    <2>2. FileOf(log[v]) \in files
      BY DEF Inv, TransactionFilesIntact
    <2>3. FileOf(log[v]) # <<rv[t], t>>
      BY DEF Unlanded, Landed, FileOf
    <2>4. QED
      BY <1>2, <2>2, <2>3
  <1>6. TxnInv(t)'
    <2>1. Unlanded(t)'
      BY DEF Unlanded, Landed
    <2>2. Placed(t)' /\ InFlight(t)'
      BY <2>1 DEF Placed, InFlight, Unlanded, Landed
    <2>3. pc'[t] = l /\ result'[t] = r
      BY <1>0 DEF TypeOK
    <2>4. CaughtUp(t)'
      BY <1>0, <2>3 DEF CaughtUp, TxnInv
    <2>5. KnownOutcome(t)'
      BY <1>2, <2>1, <2>3 DEF KnownOutcome
    <2>6. QED
      BY <2>2, <2>4, <2>5 DEF TxnInv
  <1>7. QED
    BY <1>1, <1>3, <1>4, <1>5, <1>6, ActorSuffices DEF Inv

(* Facts that the steps below share.                                       *)
LEMMA OpenFacts ==
  ASSUME Inv, NEW t \in Txns, pc[t] \in Open
  PROVE  /\ TypeOK /\ Unlanded(t) /\ result[t] = "none"
         /\ result = [result EXCEPT ![t] = "none"]
         /\ attempt = [attempt EXCEPT ![t] = attempt[t]]
         /\ attempt[t] \in Nat /\ attempt[t] < Attempts(t)
         /\ UNCHANGED faults \/ Fault => faults' \in 0..MaxFaults
  <1>1. TypeOK /\ TxnInv(t)
    BY DEF Inv
  <1>2. result[t] = "none"
    BY <1>1 DEF TxnInv, KnownOutcome, Open
  <1>3. UNCHANGED faults \/ Fault => faults' \in 0..MaxFaults
    BY <1>1, BoundAssumption DEF TypeOK, Fault
  <1>4. QED
    BY <1>1, <1>2, <1>3 DEF TypeOK, TxnInv, KnownOutcome

(* Before the handler is asked, t's file is t's own business.              *)
LEMMA WriteTransactionFileInv ==
  ASSUME Inv, NEW t \in Txns, WriteTransactionFile(t) \/ RefuseManifest(t)
  PROVE  Inv'
  <1>0. /\ pc[t] \in Open /\ UNCHANGED <<log, late, read, rv, base, attempt, error>>
        /\ files' \in {files, files \cup {FileOf(ManifestOf(t))},
                       files \ {FileOf(ManifestOf(t))}}
        /\ UNCHANGED faults \/ Fault
    BY DEF WriteTransactionFile, RefuseManifest, Open
  <1>1. \/ /\ Goto(t, "commit") /\ UNCHANGED result
           /\ files' = files \cup {FileOf(ManifestOf(t))}
        \/ Return(t, "failed")
    BY DEF WriteTransactionFile, RefuseManifest
  <1>2. CASE /\ Goto(t, "commit") /\ UNCHANGED result
             /\ files' = files \cup {FileOf(ManifestOf(t))}
    <2>1. "commit" \in Labels /\ FileOf(ManifestOf(t)) \in files'
      BY <1>2 DEF Labels
    <2>2. QED
      BY <1>0, <1>2, <2>1, OpenFacts, OpenStepInv DEF Goto
  <1>3. CASE Return(t, "failed")
    BY <1>0, <1>3, OpenFacts, OpenStepInv DEF Goto, Return, Labels
  <1>4. QED
    BY <1>1, <1>2, <1>3

(* The write that is acknowledged, and the one that is not.                *)
LEMMA CommitManifestInv ==
  ASSUME Inv, NEW t \in Txns, CommitManifest(t)
  PROVE  Inv'
  <1> DEFINE m == ManifestOf(t)
             w == [ver |-> Target(t), man |-> m]
  <1>0. /\ TypeOK /\ TxnInv(t) /\ pc[t] = "commit" /\ Unlanded(t) /\ result[t] = "none"
        /\ FileOf(m) \in files
        /\ UNCHANGED <<files, read, rv, base, attempt, result>>
    BY OpenFacts DEF Inv, CommitManifest, Open, TxnInv, KnownOutcome
  <1>1. /\ m \in Manifests /\ m.txn = t /\ FileOf(m) = <<rv[t], t>> /\ Target(t) \in Nat
        /\ Target(t) = base[t] + 1 /\ base[t] \in Nat
        /\ Target(t)' = Target(t) /\ ManifestOf(t)' = m
    BY <1>0, ManifestOfType DEF ManifestOf, Target
  <1>2. faults' \in 0..MaxFaults
    BY <1>0, BoundAssumption DEF CommitManifest, Fault, TypeOK
  <1>3. /\ pc' = [pc EXCEPT ![t] = pc'[t]] /\ pc'[t] \in {"record", "verify"}
        /\ pc'[t] = "record" => Len(log) = base[t] /\ log' = Created(Target(t), m)
    <2>1. \/ Goto(t, "record") /\ Len(log) = base[t] /\ log' = Created(Target(t), m)
          \/ Goto(t, "verify")
      BY DEF CommitManifest
    <2>2. QED
      BY <1>0, <2>1 DEF Goto, TypeOK
  <1>4. error' \in [Txns -> {"none", "conflict", "other"}]
    BY <1>0 DEF CommitManifest, TypeOK
  <1>5. \/ log' = Created(Target(t), m) /\ late' = late
        \/ log' = log /\ late' = late
        \/ log' = log /\ LateWrites /\ late' = late \cup {w}
    BY DEF CommitManifest
  <1>6. /\ Kept
        /\ \A i \in DOMAIN log' :
             i \in DOMAIN log \/ (i = Target(t) /\ log'[i] = m)
    <2>1. CASE log' = Created(Target(t), m)
      BY <1>0, <1>1, <2>1, CreatedKeeps
    <2>2. CASE log' = log
      BY <1>0, <2>2, SameLogKept
    <2>3. QED
      BY <1>5, <2>1, <2>2
  <1>7. \A u \in late' : u \in late \/ u = w
    BY <1>5
  <1>8. \A u \in Txns \ {t} : Aside(u)
    BY <1>0, <1>1, <1>3, <1>6, <1>7 DEF Aside, TypeOK
  <1>9. TypeOK'
    <2>1. log' \in Seq(Manifests)
      BY <1>6 DEF Kept
    <2>2. late' \subseteq [ver : Nat, man : Manifests]
      BY <1>0, <1>1, <1>5 DEF TypeOK
    <2>3. pc' \in [Txns -> Labels]
      BY <1>0, <1>3 DEF TypeOK, Labels
    <2>4. QED
      BY <1>0, <1>2, <1>4, <2>1, <2>2, <2>3 DEF TypeOK, Attempts
  <1>10. ~LateWrites => late' = {}
    BY <1>5 DEF Inv
  <1>11. TransactionFilesIntact'
    BY <1>0, <1>6 DEF TransactionFilesIntact, Inv, FileOf, Kept
  <1>12. TxnInv(t)'
    <2>1. Placed(t)'
      BY <1>0, <1>1, <1>6 DEF Placed, Unlanded, Landed, Kept
    <2>2. InFlight(t)'
      <3>1. SUFFICES ASSUME NEW x \in late', x.man.txn = t
            PROVE  \/ x.ver <= Len(log')
                   \/ x.ver = Target(t) /\ x.man = m /\ FileOf(x.man) \in files
        BY <1>0, <1>1 DEF InFlight, FileOf
      <3>2. CASE x \in late
        BY <1>0, <1>6, <3>1, <3>2 DEF Unlanded, Kept, TypeOK
      <3>3. CASE x = w
        BY <1>0, <3>3
      <3>4. QED
        BY <1>7, <3>2, <3>3
    <2>3. CaughtUp(t)'
      <3>1. read[t] \in Nat /\ CaughtUp(t) /\ Len(log) \in Nat /\ Len(log') \in Nat
        BY <1>0, <1>6 DEF TypeOK, TxnInv, Kept
      <3>2. \A v \in (read[t] + 1)..base[t] : v \in DOMAIN log /\ log'[v] = log[v]
        BY <1>0, <1>1, <1>6, <3>1 DEF CaughtUp, Kept, TypeOK
      <3>3. pc'[t] # "start" /\ pc[t] # "start"
        BY <1>0, <1>3 DEF TypeOK
      <3>4. QED
        BY <1>0, <1>1, <1>6, <3>1, <3>2, <3>3 DEF CaughtUp, Kept
    <2>4. KnownOutcome(t)'
      <3>1. result'[t] = "none"
        BY <1>0
      <3>2. pc'[t] = "record" => Landed(t)'
        BY <1>0, <1>1, <1>3, CreatedKeeps DEF Landed
      <3>3. QED
        BY <1>3, <3>1, <3>2 DEF KnownOutcome, Open
    <2>5. QED
      BY <2>1, <2>2, <2>3, <2>4 DEF TxnInv
  <1>13. QED
    BY <1>6, <1>8, <1>9, <1>10, <1>11, <1>12, ActorSuffices

-----------------------------------------------------------------------------
(* Settling a failed attempt                                               *)

(* A step that only moves t's loop on, and to a place it has earned.       *)
LEMMA LocalStepInv ==
  ASSUME Inv, NEW t \in Txns,
         UNCHANGED <<log, files, late, read, rv, base, attempt, error>>,
         NEW l \in Labels, pc' = [pc EXCEPT ![t] = l], l \notin {"start", "commit"},
         NEW r \in {"none", "ok", "failed", "unknown", "landed_error"},
         result' = [result EXCEPT ![t] = r], l # "done" => r = "none",
         l \in Open \/ r = "failed" => Unlanded(t),
         l = "record" \/ r \in {"ok", "landed_error"} => Landed(t),
         faults' \in 0..MaxFaults
  PROVE  Inv'
  <1>0. TypeOK /\ TxnInv(t)
    BY DEF Inv
  <1>1. Kept
    BY <1>0, SameLogKept
  <1>2. \A u \in Txns \ {t} : Aside(u)
    BY <1>0 DEF Aside, TypeOK
  <1>3. TypeOK'
    BY <1>0 DEF TypeOK, Attempts
  <1>4. TxnInv(t)'
    <2>1. pc'[t] = l /\ result'[t] = r
      BY <1>0 DEF TypeOK
    <2>2. Placed(t)' /\ InFlight(t)'
      BY <1>0 DEF TxnInv, Placed, InFlight, ManifestOf, Target, FileOf
    <2>3. CaughtUp(t)'
      BY <1>0, <2>1 DEF TxnInv, CaughtUp
    <2>4. (Unlanded(t) => Unlanded(t)') /\ (Landed(t) => Landed(t)')
      BY DEF Unlanded, Landed
    <2>5. KnownOutcome(t)'
      BY <2>1, <2>4 DEF KnownOutcome
    <2>6. QED
      BY <2>2, <2>3, <2>5 DEF TxnInv
  <1>5. QED
    BY <1>1, <1>2, <1>3, <1>4, ActorSuffices DEF Inv, TransactionFilesIntact

(* Reading the target version back tells whose it is: only t's last        *)
(* attempt can have put t there.                                           *)
LEMMA OutcomeIsTrue ==
  ASSUME Inv, NEW t \in Txns
  PROVE  /\ Outcome(t) = "ours" => Landed(t)
         /\ Outcome(t) \in {"foreign", "absent"} => Unlanded(t)
  <1>0. TypeOK /\ TxnInv(t) /\ FileOf(ManifestOf(t)) = <<rv[t], t>>
    BY ManifestOfType DEF Inv
  <1>1. Outcome(t) = "ours" => Landed(t)
    BY <1>0 DEF Outcome, Landed, FileOf
  <1>2. ASSUME Outcome(t) = "foreign" PROVE Unlanded(t)
    <2>1. Target(t) \in DOMAIN log /\ FileOf(log[Target(t)]) # <<rv[t], t>>
      BY <1>0, <1>2 DEF Outcome
    <2>2. ~Landed(t)
      BY <1>0, <2>1 DEF Landed, TxnInv, Placed
    <2>3. Target(t) <= Len(log)
      BY <1>0, <2>1 DEF TypeOK
    <2>4. QED
      BY <1>0, <2>2, <2>3 DEF Unlanded, TxnInv, InFlight
  <1>3. ASSUME Outcome(t) = "absent" PROVE Unlanded(t)
    <2>1. Target(t) \notin DOMAIN log /\ Definitive
      BY <1>3 DEF Outcome
    <2>2. late = {}
      BY <2>1, HandlerAssumption DEF Inv
    <2>3. QED
      BY <1>0, <2>1, <2>2 DEF Unlanded, Landed, TxnInv, Placed
  <1>4. QED
    BY <1>1, <1>2, <1>3

(* The loop goes on as what it read back entitles it to.                   *)
LEMMA VerifyOutcomeInv ==
  ASSUME Inv, NEW t \in Txns, VerifyOutcome(t)
  PROVE  Inv'
  <1>0. /\ TypeOK /\ TxnInv(t) /\ pc[t] = "verify"
        /\ UNCHANGED <<log, files, late, read, rv, base, attempt, error>>
    BY DEF Inv, VerifyOutcome
  <1>1. result[t] = "none" /\ result = [result EXCEPT ![t] = "none"]
    BY <1>0 DEF TxnInv, KnownOutcome, TypeOK
  <1>2. faults' \in 0..MaxFaults
    BY <1>0, BoundAssumption DEF VerifyOutcome, Fault, TypeOK
  <1>3. CASE Outcome(t) = "ours" /\ Goto(t, "record") /\ UNCHANGED result
    <2>1. "record" \in Labels /\ "record" \notin Open
      BY DEF Labels, Open
    <2>2. QED
      BY <1>0, <1>1, <1>2, <1>3, <2>1, OutcomeIsTrue, LocalStepInv DEF Goto
  <1>4. CASE Outcome(t) \in {"foreign", "absent"} /\ Goto(t, "cleanup") /\ UNCHANGED result
    <2>1. "cleanup" \in Labels
      BY DEF Labels
    <2>2. QED
      BY <1>0, <1>1, <1>2, <1>4, <2>1, OutcomeIsTrue, LocalStepInv DEF Goto
  <1>5. CASE Return(t, "unknown")
    <2>1. "done" \in Labels /\ "done" \notin Open
      BY DEF Labels, Open
    <2>2. QED
      BY <1>0, <1>2, <1>5, <2>1, LocalStepInv DEF Goto, Return
  <1>6. QED
    BY <1>3, <1>4, <1>5 DEF VerifyOutcome

(* Success is only reported of what has landed.                            *)
LEMMA RecordSuccessInv ==
  ASSUME Inv, NEW t \in Txns, RecordSuccess(t)
  PROVE  Inv'
  <1>0. /\ TypeOK /\ TxnInv(t) /\ Landed(t)
        /\ UNCHANGED <<log, files, late, read, rv, base, attempt, error, faults>>
    BY DEF Inv, RecordSuccess, TxnInv, KnownOutcome
  <1>1. PICK r \in {"ok", "landed_error"} : Return(t, r)
    BY DEF RecordSuccess
  <1>2. "done" \in Labels /\ "done" \notin Open /\ faults' \in 0..MaxFaults
    BY <1>0 DEF Labels, Open, TypeOK
  <1>3. QED
    BY <1>0, <1>1, <1>2, LocalStepInv DEF Goto, Return

(* The clean-up deletes a file that no version names, and a retry stays    *)
(* within its attempts.                                                    *)
LEMMA CleanupTransactionFileInv ==
  ASSUME Inv, NEW t \in Txns, CleanupTransactionFile(t)
  PROVE  Inv'
  <1>0. /\ pc[t] \in Open /\ UNCHANGED <<log, late, read, rv, base, error>>
        /\ files' \in {files, files \cup {FileOf(ManifestOf(t))},
                       files \ {FileOf(ManifestOf(t))}}
        /\ UNCHANGED faults \/ Fault
    BY DEF CleanupTransactionFile, Open
  <1>1. CASE /\ MayRetry(t) /\ attempt' = [attempt EXCEPT ![t] = NextAttempt(t)]
             /\ Goto(t, "load") /\ UNCHANGED result
    <2>1. "load" \in Labels /\ NextAttempt(t) \in Nat /\ NextAttempt(t) < Attempts(t)
      BY <1>0, <1>1, OpenFacts DEF Labels, NextAttempt, MayRetry
    <2>2. QED
      BY <1>0, <1>1, <2>1, OpenFacts, OpenStepInv DEF Goto
  <1>2. CASE Return(t, "failed") /\ UNCHANGED attempt
    BY <1>0, <1>2, OpenFacts, OpenStepInv DEF Goto, Return, Labels
  <1>3. QED
    BY <1>1, <1>2 DEF CleanupTransactionFile

-----------------------------------------------------------------------------
(* The environment                                                         *)

(* A call that stops anywhere leaves the table as it was.                  *)
LEMMA CrashInv ==
  ASSUME Inv, NEW t \in Txns, Crash(t)
  PROVE  Inv'
  <1>0. /\ TypeOK /\ TxnInv(t) /\ pc' = [pc EXCEPT ![t] = "crashed"]
        /\ UNCHANGED <<log, files, late, read, rv, base, attempt, error, result>>
        /\ pc[t] # "done"
    BY DEF Inv, Crash, Goto
  <1>1. result[t] = "none" /\ result = [result EXCEPT ![t] = "none"]
    BY <1>0 DEF TxnInv, KnownOutcome, TypeOK
  <1>2. faults' \in 0..MaxFaults
    BY <1>0, BoundAssumption DEF Crash, Fault, TypeOK
  <1>3. "crashed" \in Labels /\ "crashed" \notin Open
    BY DEF Labels, Open
  <1>4. QED
    BY <1>0, <1>1, <1>2, <1>3, LocalStepInv

(* A write that was given up on and is applied after all puts the last     *)
(* attempt's manifest at its target, or fails.                             *)
LEMMA ApplyLateInv ==
  ASSUME Inv, ApplyLate
  PROVE  Inv'
  <1>0. /\ TypeOK /\ UNCHANGED <<files, pc, read, rv, base, attempt, error, result, faults>>
        /\ log \in Seq(Manifests) /\ Len(log) \in Nat
    BY DEF Inv, ApplyLate, TypeOK
  <1>1. PICK w \in late : late' = late \ {w} /\ log' = Created(w.ver, w.man)
    BY DEF ApplyLate
  <1> DEFINE t == w.man.txn
  <1>2. w.ver \in Nat /\ w.man \in Manifests /\ t \in Txns
    BY <1>0 DEF TypeOK, Manifests
  <1>3. /\ Kept
        /\ \A i \in DOMAIN log' :
             \/ i \in DOMAIN log
             \/ i = w.ver /\ w.ver = Len(log) + 1 /\ log'[i] = w.man
    BY <1>0, <1>1, <1>2, CreatedKeeps
  <1>4. \A u \in Txns \ {t} : Aside(u)
    BY <1>0, <1>1, <1>3 DEF Aside
  <1>5. TypeOK'
    BY <1>0, <1>1, <1>3 DEF TypeOK, Attempts, Kept
  <1>6. TxnInv(t) /\ Target(t)' = Target(t) /\ ManifestOf(t)' = ManifestOf(t)
    BY <1>0, <1>2 DEF Inv, Target, ManifestOf
  <1>7. w.ver = Len(log) + 1 =>
          w.ver = Target(t) /\ w.man = ManifestOf(t) /\ FileOf(w.man) \in files
    BY <1>0, <1>2, <1>6 DEF TxnInv, InFlight
  <1>8. TransactionFilesIntact'
    BY <1>0, <1>3, <1>7 DEF TransactionFilesIntact, Inv, FileOf, Kept
  <1>9. TxnInv(t)'
    <2>1. Placed(t)'
      BY <1>0, <1>3, <1>6, <1>7 DEF Placed, TxnInv, Kept
    <2>2. InFlight(t)'
      BY <1>0, <1>1, <1>3, <1>6 DEF InFlight, TxnInv, Kept, TypeOK, FileOf
    <2>3. CaughtUp(t)'
      <3>1. read[t] \in Nat /\ base[t] \in Nat /\ CaughtUp(t) /\ Len(log') \in Nat
        BY <1>0, <1>2, <1>3, <1>6 DEF TypeOK, TxnInv, Kept
      <3>2. \A v \in (read[t] + 1)..base[t] : v \in DOMAIN log /\ log'[v] = log[v]
        BY <1>0, <1>3, <3>1 DEF CaughtUp, Kept
      <3>3. QED
        BY <1>0, <1>3, <3>1, <3>2 DEF CaughtUp, Kept
    <2>4. KnownOutcome(t)'
      <3>1. Landed(t) => Landed(t)'
        BY <1>3 DEF Landed, Kept
      <3>2. ASSUME Unlanded(t) PROVE Unlanded(t)'
        <4>1. w.ver <= Len(log)
          BY <3>2 DEF Unlanded
        <4>2. ~Landed(t)'
          BY <1>0, <1>2, <1>3, <3>2, <4>1 DEF Unlanded, Landed, Kept
        <4>3. QED
          BY <1>0, <1>1, <1>3, <3>2, <4>2 DEF Unlanded, Kept, TypeOK
      <3>3. QED
        BY <1>0, <1>6, <3>1, <3>2 DEF KnownOutcome, TxnInv, FileOf
    <2>5. QED
      BY <2>1, <2>2, <2>3, <2>4 DEF TxnInv
  <1>10. ~LateWrites => late' = {}
    BY <1>1 DEF Inv
  <1>11. QED
    BY <1>2, <1>3, <1>4, <1>5, <1>8, <1>9, <1>10, ActorSuffices

-----------------------------------------------------------------------------
(* The results                                                             *)

(* Every step preserves the invariant.                                     *)
LEMMA NextInv ==
  ASSUME Inv, [Next]_vars
  PROVE  Inv'
  <1>1. ASSUME NEW t \in Txns, Step(t) PROVE Inv'
    BY <1>1, SubmitInv, RebaseInv, WriteTransactionFileInv, CommitManifestInv,
       VerifyOutcomeInv, RecordSuccessInv, CleanupTransactionFileInv DEF Step
  <1>2. CASE UNCHANGED vars
    <2>1. TypeOK'
      BY <1>2 DEF Inv, TypeOK, vars, Attempts
    <2>2. \A t \in Txns : TxnInv(t)'
      BY <1>2 DEF Inv, TxnInv, Placed, InFlight, CaughtUp, KnownOutcome, Unlanded, Landed,
         Target, ManifestOf, FileOf, vars
    <2>3. QED
      BY <1>2, <2>1, <2>2 DEF Inv, TransactionFilesIntact, vars
  <1>3. QED
    BY <1>1, <1>2, ApplyLateInv, CrashInv DEF Next

(* The invariant holds in every reachable state.                           *)
THEOREM Invariance == Spec => []Inv
  BY InitInv, NextInv, PTL DEF Spec

(* Every variable keeps its domain and no commit makes more attempts than  *)
(* it is configured for.                                                   *)
THEOREM TypeCorrect == Spec => []TypeOK
  <1>1. Inv => TypeOK
    BY DEF Inv
  <1>2. QED
    BY <1>1, Invariance, PTL

(* No clean-up deletes the transaction file a committed manifest names.    *)
THEOREM FilesIntact == Spec => []TransactionFilesIntact
  <1>1. Inv => TransactionFilesIntact
    BY DEF Inv
  <1>2. QED
    BY <1>1, Invariance, PTL

(* A transaction makes at most one version, whatever the handler answers.  *)
THEOREM AtMostOnce == Spec => []AppliedAtMostOnce
  BY InvImplies, Invariance, PTL

(* What commit_transaction returns is true, and stays true.                *)
THEOREM TruthfulReturns == Spec => []ReturnsAreTrue
  BY InvImplies, Invariance, PTL

(* Whatever is committed was checked against all that came in between.     *)
THEOREM EverythingChecked == Spec => []NothingUnchecked
  BY InvImplies, Invariance, PTL

-----------------------------------------------------------------------------
(* The loop implements the table history                                   *)

(* The history and the outcomes that the loop's state stands for.          *)
HistoryBar == [v \in DOMAIN log |-> log[v].txn]
OutcomeBar == [t \in Txns |->
                 IF pc[t] = "start" THEN "unsubmitted"
                 ELSE IF result[t] = "landed_error" THEN "unknown"
                 ELSE result[t]]

(* A manifest that reaches the log is a transaction that lands: it has not *)
(* landed before, its caller has not been told otherwise, and it has been  *)
(* checked up to the version it follows.                                   *)
LEMMA AppendLands ==
  ASSUME Inv, NEW t \in Txns, ~Landed(t), pc[t] # "start", result[t] # "failed",
         Len(log) = base[t], NEW m \in Manifests, m.txn = t, log' = Append(log, m),
         read' = read, OutcomeBar' = OutcomeBar
  PROVE  History!Next
  <1>0. TypeOK /\ TxnInv(t) /\ log \in Seq(Manifests) /\ Len(log) \in Nat
    BY DEF Inv, TypeOK
  <1>1. /\ DOMAIN log = 1..Len(log) /\ DOMAIN log' = 1..(Len(log) + 1)
        /\ \A v \in 1..Len(log) : log'[v] = log[v]
        /\ log'[Len(log) + 1] = m
    BY <1>0
  <1>2. HistoryBar \in Seq(Txns) /\ Len(HistoryBar) = Len(log) /\ DOMAIN HistoryBar = DOMAIN log
    <2>1. \A v \in 1..Len(log) : log[v].txn \in Txns
      <3>1. \A v \in 1..Len(log) : log[v] \in Manifests
        BY <1>0
      <3>2. QED
        BY <3>1 DEF Manifests
    <2>2. HistoryBar = [v \in 1..Len(log) |-> log[v].txn]
      BY <1>1 DEF HistoryBar
    <2>3. QED
      BY <1>0, <1>1, <2>1, <2>2
  <1>3. HistoryBar' = Append(HistoryBar, t)
    BY <1>0, <1>1, <1>2 DEF HistoryBar
  <1>4. OutcomeBar[t] \in {"none", "unknown"}
    BY <1>0 DEF OutcomeBar, TxnInv, KnownOutcome, TypeOK
  <1>5. ~\E v \in DOMAIN HistoryBar : HistoryBar[v] = t
    BY <1>2 DEF HistoryBar, Landed
  <1>6. IF t \in Pinned THEN Len(HistoryBar) = read[t]
        ELSE \A v \in (read[t] + 1)..Len(HistoryBar) : <<t, HistoryBar[v]>> \notin Conflicts
    <2>1. CaughtUp(t) /\ read[t] \in Nat
      BY <1>0 DEF TxnInv, TypeOK
    <2>2. CASE t \in Pinned
      BY <1>2, <2>1, <2>2 DEF CaughtUp
    <2>3. CASE t \notin Pinned
      <3>1. ASSUME NEW v \in (read[t] + 1)..Len(HistoryBar)
            PROVE  <<t, HistoryBar[v]>> \notin Conflicts
        <4>1. v \in DOMAIN log /\ HistoryBar[v] = log[v].txn
          BY <1>0, <1>1, <1>2, <2>1 DEF HistoryBar
        <4>2. QED
          BY <1>2, <2>1, <2>3, <4>1 DEF CaughtUp
      <3>2. QED
        BY <2>3, <3>1
    <2>4. QED
      BY <2>2, <2>3
  <1>7. History!Land(t)
    BY <1>3, <1>4, <1>5, <1>6 DEF History!Land, History!InHistory, HistoryBar, OutcomeBar
  <1>8. QED
    BY <1>7 DEF History!Next

(* A step that leaves the log alone changes nothing or submits or reports. *)
LEMMA QuietStep ==
  ASSUME Inv, Inv', NEW t \in Txns, log' = log, pc[t] # "start", read' = read,
         pc' = [pc EXCEPT ![t] = pc'[t]], pc'[t] # "start",
         result' = result \/ (result' = [result EXCEPT ![t] = result'[t]] /\ pc[t] # "done")
  PROVE  [History!Next]_(History!vars)
  <1>0. TypeOK /\ TypeOK' /\ TxnInv(t) /\ TxnInv(t)'
    BY DEF Inv
  <1>1. HistoryBar' = HistoryBar /\ Landed(t)' = Landed(t)
    BY DEF HistoryBar, Landed
  <1>2. CASE result' = result
    <2>1. OutcomeBar' = OutcomeBar
      BY <1>0, <1>2 DEF OutcomeBar, TypeOK
    <2>2. QED
      BY <1>1, <2>1 DEF History!vars, HistoryBar, OutcomeBar
  <1>3. CASE result' = [result EXCEPT ![t] = result'[t]] /\ pc[t] # "done" /\ result' # result
    <2>1. result[t] = "none"
      BY <1>0, <1>3 DEF TxnInv, KnownOutcome
    <2>2. result'[t] \in {"ok", "failed", "unknown", "landed_error"}
      BY <1>0, <1>3, <2>1 DEF TypeOK
    <2>3. OutcomeBar[t] = "none"
      BY <2>1 DEF OutcomeBar
    <2>4. OutcomeBar' = [OutcomeBar EXCEPT ![t] = OutcomeBar'[t]]
      BY <1>0, <1>3 DEF OutcomeBar, TypeOK
    <2>5. \/ OutcomeBar'[t] = "ok" /\ Landed(t)
          \/ OutcomeBar'[t] = "failed" /\ ~Landed(t)
          \/ OutcomeBar'[t] = "unknown"
      BY <1>0, <1>1, <2>2 DEF OutcomeBar, TxnInv, KnownOutcome, Unlanded
    <2>6. Landed(t) <=> \E v \in DOMAIN HistoryBar : HistoryBar[v] = t
      BY DEF Landed, HistoryBar
    <2>7. History!Report(t)
      BY <1>1, <2>3, <2>4, <2>5, <2>6
      DEF History!Report, History!InHistory, HistoryBar, OutcomeBar
    <2>8. QED
      BY <2>7 DEF History!Next
  <1>4. QED
    BY <1>2, <1>3

(* Starting a call submits its transaction.                                *)
LEMMA SubmitSubmits ==
  ASSUME Inv, NEW t \in Txns, Submit(t) \/ CreateDataset(t)
  PROVE  History!Next
  <1>0. /\ TypeOK /\ TxnInv(t) /\ UNCHANGED <<log, result>> /\ pc[t] = "start"
        /\ pc' = [pc EXCEPT ![t] = pc'[t]] /\ pc'[t] \in {"load", "file"}
    BY DEF Inv, Submit, CreateDataset, Goto, TypeOK
  <1>1. result[t] = "none" /\ read[t] = 0
    BY <1>0 DEF TxnInv, KnownOutcome, CaughtUp
  <1>2. OutcomeBar[t] = "unsubmitted" /\ OutcomeBar' = [OutcomeBar EXCEPT ![t] = "none"]
    BY <1>0, <1>1 DEF OutcomeBar, TypeOK
  <1>3. HistoryBar' = HistoryBar /\ DOMAIN HistoryBar = DOMAIN log
    BY <1>0 DEF HistoryBar
  <1>4. \E v \in IF t \in Creators THEN {0} ELSE DOMAIN HistoryBar :
          read' = [read EXCEPT ![t] = v]
    <2>1. CASE Submit(t)
      BY <1>3, <2>1 DEF Submit
    <2>2. CASE CreateDataset(t)
      <3>1. read' = [read EXCEPT ![t] = 0] /\ t \in Creators
        BY <1>0, <1>1, <2>2 DEF CreateDataset, TypeOK
      <3>2. QED
        BY <3>1
    <2>3. QED
      BY <2>1, <2>2
  <1>5. History!Submit(t)
    BY <1>2, <1>3, <1>4 DEF History!Submit, HistoryBar, OutcomeBar
  <1>6. QED
    BY <1>5 DEF History!Next

(* Every step of the loop is a step of the table history, or none.         *)
LEMMA NextRefines ==
  ASSUME Inv, Inv', [Next]_vars
  PROVE  [History!Next]_(History!vars)
  <1>0. TypeOK /\ TypeOK' /\ \A t \in Txns : TxnInv(t)
    BY DEF Inv
  <1>1. ASSUME NEW t \in Txns,
               \/ Rebase(t) \/ CheckPinned(t) \/ WriteTransactionFile(t) \/ RefuseManifest(t)
               \/ VerifyOutcome(t) \/ RecordSuccess(t) \/ CleanupTransactionFile(t) \/ Crash(t)
        PROVE  [History!Next]_(History!vars)
    <2>1. /\ log' = log /\ read' = read /\ pc[t] \notin {"start", "done"}
      BY <1>1
      DEF Rebase, CheckPinned, WriteTransactionFile, RefuseManifest, VerifyOutcome,
          RecordSuccess, CleanupTransactionFile, Crash
    <2>2. \E l \in Labels \ {"start"} : Goto(t, l)
      BY <1>1
      DEF Rebase, CheckPinned, WriteTransactionFile, RefuseManifest, VerifyOutcome,
          RecordSuccess, CleanupTransactionFile, Crash, Return, Labels
    <2>3. pc' = [pc EXCEPT ![t] = pc'[t]] /\ pc'[t] # "start"
      BY <1>0, <2>2 DEF Goto, TypeOK
    <2>4. result' = result \/ \E r \in {"ok", "failed", "unknown", "landed_error"} : Return(t, r)
      BY <1>1
      DEF Rebase, CheckPinned, WriteTransactionFile, RefuseManifest, VerifyOutcome,
          RecordSuccess, CleanupTransactionFile, Crash
    <2>5. result' = result \/ result' = [result EXCEPT ![t] = result'[t]]
      BY <1>0, <2>4 DEF Return, TypeOK
    <2>6. QED
      BY <2>1, <2>3, <2>5, QuietStep
  <1>2. ASSUME NEW t \in Txns, CommitManifest(t) PROVE [History!Next]_(History!vars)
    <2>1. /\ UNCHANGED <<read, result>> /\ pc[t] = "commit"
          /\ pc' = [pc EXCEPT ![t] = pc'[t]] /\ pc'[t] # "start"
          /\ log' = log \/ log' = Created(Target(t), ManifestOf(t))
      BY <1>0, <1>2 DEF CommitManifest, Goto, TypeOK
    <2>2. CASE log' = log
      BY <2>1, <2>2, QuietStep
    <2>3. CASE log' # log
      <3>1. log' = Append(log, ManifestOf(t)) /\ Len(log) + 1 = Target(t)
        BY <2>1, <2>3 DEF Created
      <3>2. Unlanded(t) /\ result[t] = "none"
        BY <1>0, <2>1 DEF TxnInv, KnownOutcome, Open
      <3>3. OutcomeBar' = OutcomeBar
        BY <1>0, <2>1 DEF OutcomeBar, TypeOK
      <3>4. Len(log) = base[t] /\ ManifestOf(t) \in Manifests /\ ManifestOf(t).txn = t
        <4>1. base[t] \in Nat /\ Len(log) \in Nat /\ Target(t) = base[t] + 1
          BY <1>0, ManifestOfType DEF TypeOK
        <4>2. QED
          BY <1>0, <3>1, <4>1, ManifestOfType
      <3>5. QED
        BY <2>1, <3>1, <3>2, <3>3, <3>4, AppendLands DEF Unlanded
    <2>4. QED
      BY <2>2, <2>3
  <1>3. CASE ApplyLate
    <2>1. PICK w \in late : log' = Created(w.ver, w.man)
      BY <1>3 DEF ApplyLate
    <2> DEFINE t == w.man.txn
    <2>2. UNCHANGED <<read, result, pc>>
      BY <1>3 DEF ApplyLate
    <2>3. OutcomeBar' = OutcomeBar
      BY <2>2 DEF OutcomeBar
    <2>4. w.ver \in Nat /\ w.man \in Manifests /\ t \in Txns /\ Len(log) \in Nat
      BY <1>0 DEF TypeOK, Manifests
    <2>5. CASE log' = log
      <3>1. HistoryBar' = HistoryBar
        BY <2>5 DEF HistoryBar
      <3>2. QED
        BY <2>2, <2>3, <3>1 DEF History!vars, HistoryBar, OutcomeBar
    <2>6. CASE log' # log
      <3>1. log' = Append(log, w.man) /\ w.ver = Len(log) + 1
        BY <2>1, <2>6 DEF Created
      <3>2. w.ver = Target(t)
        BY <1>0, <2>4, <3>1 DEF TxnInv, InFlight
      <3>3. ~Unlanded(t)
        BY <2>4, <3>1 DEF Unlanded
      <3>4. pc[t] # "start" /\ result[t] # "failed"
        BY <1>0, <2>4, <3>3 DEF TxnInv, KnownOutcome, Open
      <3>5. Len(log) = base[t]
        BY <1>0, <2>4, <3>1, <3>2, ManifestOfType
      <3>6. ~Landed(t)
        <4>1. Len(log) + 1 \notin DOMAIN log
          BY <1>0 DEF TypeOK
        <4>2. QED
          BY <1>0, <2>4, <3>1, <3>2, <4>1 DEF Landed, TxnInv, Placed
      <3>7. QED
        BY <2>2, <2>3, <2>4, <3>1, <3>4, <3>5, <3>6, AppendLands
    <2>7. QED
      BY <2>5, <2>6
  <1>4. CASE UNCHANGED vars
    BY <1>4 DEF vars, History!vars
  <1>5. QED
    BY <1>1, <1>2, <1>3, <1>4, SubmitSubmits DEF Next, Step

(* commit_transaction implements the table history its callers rely on:    *)
(* one history, each transaction in it at most once and only where it was  *)
(* checked, and answers that agree with it.                                *)
THEOREM Refinement == Spec => ImplementsTableHistory
  <1>1. Init => History!Init
    <2>1. SUFFICES ASSUME Init PROVE History!Init
      OBVIOUS
    <2>2. HistoryBar = <<>>
      BY <2>1 DEF Init, HistoryBar
    <2>3. QED
      BY <2>1, <2>2 DEF Init, History!Init, HistoryBar
  <1>2. Inv /\ Inv' /\ [Next]_vars => [History!Next]_(History!vars)
    BY NextRefines
  <1>3. QED
    BY <1>1, <1>2, Invariance, PTL DEF Spec, ImplementsTableHistory, History!Spec
=============================================================================
