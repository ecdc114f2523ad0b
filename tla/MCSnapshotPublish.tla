------------------------- MODULE MCSnapshotPublish -------------------------
(* Model values for SnapshotPublish: one record per day page. *)
EXTENDS SnapshotPublish, TLC

CONSTANTS r1, r2

MCPageOf == r1 :> 1 @@ r2 :> 2

\* Calls are only ever told apart by their own local state and token.
CallSymmetry == Permutations(Attempts) \cup Permutations(Reopens)
=============================================================================
