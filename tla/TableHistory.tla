---------------------------- MODULE TableHistory ----------------------------
(***************************************************************************)
(* What committing a transaction promises to its caller: the versions of a *)
(* table form one history; a transaction enters it at most once, and only  *)
(* if it is compatible with everything that was committed after the        *)
(* version it read; the caller is told the truth about it.                 *)
(***************************************************************************)
EXTENDS Naturals, Sequences

CONSTANTS
  Txns,        \* transactions submitted to the table
  Creators,    \* transactions that create the table
  Conflicts,   \* <<t, u>>: t cannot be rebased over u
  Pinned       \* transactions that may only follow the version they read

VARIABLES
  history,     \* history[v]: the transaction that made version v
  snapshot,    \* snapshot[t]: the version t read, 0 for an empty table
  outcome      \* outcome[t]: what t's caller has been told

vars == <<history, snapshot, outcome>>

InHistory(t) == \E v \in DOMAIN history : history[v] = t

Init ==
  /\ history = <<>>
  /\ snapshot = [t \in Txns |-> 0]
  /\ outcome = [t \in Txns |-> "unsubmitted"]

Submit(t) ==
  /\ outcome[t] = "unsubmitted"
  /\ \E v \in IF t \in Creators THEN {0} ELSE DOMAIN history :
       snapshot' = [snapshot EXCEPT ![t] = v]
  /\ outcome' = [outcome EXCEPT ![t] = "none"]
  /\ UNCHANGED history

Land(t) ==
  /\ outcome[t] \in {"none", "unknown"}
  /\ ~InHistory(t)
  /\ IF t \in Pinned
     THEN Len(history) = snapshot[t]
     ELSE \A v \in (snapshot[t] + 1)..Len(history) : <<t, history[v]>> \notin Conflicts
  /\ history' = Append(history, t)
  /\ UNCHANGED <<snapshot, outcome>>

Report(t) ==
  /\ outcome[t] = "none"
  /\ \/ InHistory(t) /\ outcome' = [outcome EXCEPT ![t] = "ok"]
     \/ ~InHistory(t) /\ outcome' = [outcome EXCEPT ![t] = "failed"]
     \/ outcome' = [outcome EXCEPT ![t] = "unknown"]
  /\ UNCHANGED <<history, snapshot>>

Next == \E t \in Txns : Submit(t) \/ Land(t) \/ Report(t)

Spec == Init /\ [][Next]_vars
=============================================================================
