----------------------------- MODULE VersionLog -----------------------------
(***************************************************************************)
(* What a commit handler promises to the commit loop: a write-once map     *)
(* from versions to manifests.  Each version is decided at most once, each *)
(* attempt can win only the version it asked for, and what an attempt is   *)
(* told about its own commit agrees with the map.  Nothing here says how   *)
(* the decision is made; ExternalManifest implements this specification.   *)
(***************************************************************************)
EXTENDS Naturals

CONSTANTS
  Writers,          \* commit attempts, each with one manifest of its own
  MaxVersion,       \* versions considered are 1..MaxVersion
  LegacyVersions,   \* versions 1..LegacyVersions predate this handler
  LegacyManifest,   \* the manifest of a version that predates the handler
  NoManifest        \* marks a version nobody has won

VARIABLES
  chosen,           \* chosen[v]: the manifest that owns version v
  outcome           \* outcome[w]: what attempt w has been told

vars == <<chosen, outcome>>

Versions == 1..MaxVersion

Init ==
  /\ chosen = [v \in Versions |-> IF v <= LegacyVersions THEN LegacyManifest
                                                         ELSE NoManifest]
  /\ outcome = [w \in Writers |-> "none"]

(* A version is decided once, and the winner wins nothing else.            *)
Choose(w, v) ==
  /\ chosen[v] = NoManifest
  /\ \A u \in Versions : chosen[u] # w
  /\ outcome[w] \in {"none", "unknown"}
  /\ chosen' = [chosen EXCEPT ![v] = w]
  /\ UNCHANGED outcome

(* Success is reported only to a winner, failure only to a loser; a report *)
(* of an unknown status commits to nothing.                                *)
Report(w) ==
  /\ outcome[w] = "none"
  /\ \/ /\ \E v \in Versions : chosen[v] = w
        /\ outcome' = [outcome EXCEPT ![w] = "ok"]
     \/ /\ \A v \in Versions : chosen[v] # w
        /\ outcome' = [outcome EXCEPT ![w] = "lost"]
     \/ outcome' = [outcome EXCEPT ![w] = "unknown"]
  /\ UNCHANGED chosen

Next == \E w \in Writers : Report(w) \/ \E v \in Versions : Choose(w, v)

Spec == Init /\ [][Next]_vars
=============================================================================
