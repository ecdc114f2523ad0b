--------------------------- MODULE MCBillingClose ---------------------------
(* Model values for BillingClose. *)
EXTENDS BillingClose, TLC

CONSTANTS t1, t2, u

MCPageOf == [t \in Traces |-> IF t = t1 THEN 1 ELSE NumPages]

CallSymmetry ==
  Permutations(Closers) \cup Permutations(Reopeners) \cup Permutations(Ingests)
=============================================================================
