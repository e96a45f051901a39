--------------------------- MODULE MCIoScheduler ---------------------------
(***************************************************************************)
(* An instance of IoScheduler for TLC: one caller with a large request and *)
(* a more urgent one after it, a second caller with a request that is less *)
(* urgent, and one request that bypasses backpressure.                     *)
(***************************************************************************)
EXTENDS IoScheduler, TLC

CONSTANTS x, y, big, late, other, index

CallerOf   == big :> x @@ late :> x @@ other :> y @@ index :> y
RankOf     == big :> 1 @@ late :> 2 @@ other :> 2 @@ index :> 1
PriorityOf == big :> 2 @@ late :> 1 @@ other :> 3 @@ index :> 2
ChunksOf   == big :> 2 @@ late :> 1 @@ other :> 1 @@ index :> 1
SizeOf     == big :> 2 @@ late :> 1 @@ other :> 2 @@ index :> 1
=============================================================================
