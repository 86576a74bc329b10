------------------------- MODULE MCCheckpointStore --------------------------
(* Small instances of CheckpointStore. *)
EXTENDS CheckpointStore, TLC

\* No action and no property tells processes, ceremonies or seats apart.
Symmetric == Permutations(Procs) \union Permutations(Ceremonies) \union Permutations(Seats)
=============================================================================
