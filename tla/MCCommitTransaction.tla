------------------------ MODULE MCCommitTransaction ------------------------
(* Small instances of CommitTransaction: a creation, an append, a delete   *)
(* that is rebased, and an overwrite.                                      *)
EXTENDS CommitTransaction

CONSTANTS create, append, delete, overwrite

(* The delete and the overwrite exclude each other; appends exclude        *)
(* nothing.                                                                *)
MCConflicts == {<<delete, overwrite>>, <<overwrite, delete>>}
=============================================================================
