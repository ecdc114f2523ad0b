--------------------------- MODULE MCProjections ---------------------------
(* The smaller instance: the source keeps correcting trace 1, which has no *)
(* session; trace 2 waits for its price, and two recomputes of its session *)
(* overlap.  The larger one has both traces in the session.                *)
EXTENDS Projections, TLC

MCSessionOf == <<NoSession, "s">>
MCShared == <<"s", "s">>
MCChannelOf == <<"web", "none">>
Sym == Permutations(Writers) \cup Permutations(Agents)
=============================================================================
