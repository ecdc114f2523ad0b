---------------------------- MODULE MonthLedger ----------------------------
(***************************************************************************)
(* What the close of a billing month promises, with none of the machinery: *)
(* a month is open or closed; a close appends ONE bill, whole, and flips   *)
(* the month in the same step; a reopen flips it back and keeps every      *)
(* bill; a bill never changes afterwards.  The promise is the one written  *)
(* on BillingSnapshotRepository.insertWithPeriodClose (inputs + header +   *)
(* flip become visible atomically, snapshots are immutable, a concurrent   *)
(* close publishes nothing).  SnapshotPublish is shown to implement it.    *)
(***************************************************************************)
EXTENDS Naturals

CONSTANT Records    \* the usage records a bill may hold

VARIABLES
  closed,           \* is the month frozen?
  version,          \* how many bills were ever published
  bills             \* bills[v] is the set of records bill v charges

ledger == <<closed, version, bills>>

Init ==
  /\ closed = FALSE
  /\ version = 0
  /\ bills = [v \in 1..0 |-> {}]

Close(rows) ==
  /\ ~closed
  /\ closed' = TRUE
  /\ version' = version + 1
  /\ bills' = [v \in 1..(version + 1) |->
                 IF v = version + 1 THEN rows ELSE bills[v]]

Reopen ==
  /\ closed
  /\ closed' = FALSE
  /\ UNCHANGED <<version, bills>>

Next ==
  \/ \E rows \in SUBSET Records : Close(rows)
  \/ Reopen

Spec == Init /\ [][Next]_ledger
=============================================================================
