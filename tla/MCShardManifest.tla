--------------------------- MODULE MCShardManifest ---------------------------
(***************************************************************************)
(* An instance of ShardManifest for TLC: a writer whose flush task shares  *)
(* its store, and a second writer with a store of its own.                 *)
(***************************************************************************)
EXTENDS ShardManifest, TLC

CONSTANTS a, b, a1, a2, b1

Owner   == a1 :> a @@ a2 :> a @@ b1 :> b
CallsOf == a1 :> {"claim", "check"} @@ a2 :> {"commit"} @@ b1 :> {"init", "claim", "commit"}
=============================================================================
