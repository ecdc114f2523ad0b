--------------------------- MODULE MonthCalendar ---------------------------
(***************************************************************************)
(* The calendar of billing months as its readers see it: months end, traces*)
(* land in any month, a month that is over may be closed, a closed month   *)
(* may be reopened.  WHO closes WHAT, and in which order, is left open:    *)
(* CloseScheduler implements this specification, and BillList relies on    *)
(* nothing more.                                                           *)
(***************************************************************************)
EXTENDS Integers

CONSTANT LastMonth     \* months 1..LastMonth have traffic

ASSUME CalendarAssumption == LastMonth \in Nat \ {0}

Months == 1..LastMonth
NoMonth == LastMonth + 1

VARIABLES
  ended,      \* how many months are over
  traced,     \* months with a trace in the store
  doc         \* billing_periods: status, or "absent"

months == <<ended, traced, doc>>

Statuses == {"absent", "open", "closed"}

CalendarTypeOK ==
  /\ ended \in 0..LastMonth
  /\ traced \in SUBSET Months
  /\ doc \in [Months -> Statuses]

Closed == {m \in Months : doc[m] = "closed"}

\* A document with status 'open' exists only through an audited reopen.
Reopened == {m \in Months : doc[m] = "open"}

CalendarInit ==
  /\ ended \in 0..LastMonth
  /\ traced \in SUBSET Months
  /\ doc = [m \in Months |-> "absent"]

MonthEnds ==
  /\ ended < LastMonth
  /\ ended' = ended + 1
  /\ UNCHANGED <<traced, doc>>

\* Nothing at the ingest boundary refuses a date, past or future.
Arrive(m) ==
  /\ traced' = traced \cup {m}
  /\ UNCHANGED <<ended, doc>>

CloseMonth(m) ==
  /\ m <= ended
  /\ doc[m] # "closed"
  /\ doc' = [doc EXCEPT ![m] = "closed"]
  /\ UNCHANGED <<ended, traced>>

ReopenMonth(m) ==
  /\ doc[m] = "closed"
  /\ doc' = [doc EXCEPT ![m] = "open"]
  /\ UNCHANGED <<ended, traced>>

CalendarNext ==
  \/ MonthEnds
  \/ \E m \in Months : Arrive(m) \/ CloseMonth(m) \/ ReopenMonth(m)

CalendarSpec == CalendarInit /\ [][CalendarNext]_months
=============================================================================
