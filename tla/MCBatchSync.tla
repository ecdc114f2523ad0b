---------------------------- MODULE MCBatchSync ----------------------------
(* Model values for BatchSync: rows 1 and 3 share a session, row 2 is broken. *)
EXTENDS BatchSync

MCRows == 1..3
MCSessionOf == [r \in MCRows |-> IF r = 2 THEN 2 ELSE 1]
MCPoison == {2}
=============================================================================
