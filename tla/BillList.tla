------------------------------ MODULE BillList ------------------------------
(***************************************************************************)
(* ListBillsDbUseCase.list(): the period documents and the earliest trace  *)
(* are read in parallel, the live scan is bounded by firstOpenMonthStart,  *)
(* closed months outside it come from their snapshots, reopened ones from  *)
(* a probe.  Four reads at four instants, while months close and reopen    *)
(* and traces arrive: no bill with money may be missing from the answer.   *)
(***************************************************************************)
EXTENDS MonthCalendar, FiniteSetsExt

VARIABLES
  list,      \* local state of one call of list()
  there      \* history: months with a trace, not in the future, at the call

reader == <<list, there>>
vars == <<months, reader>>

NoDocs == [m \in Months |-> "unread"]

ListStates ==
  [pc : {"idle", "read", "scan", "probe", "done", "failed"},
   docs : [Months -> Statuses \cup {"unread"}],
   earliest : 0..NoMonth,        \* 0: not read yet
   shown : SUBSET Months, todo : SUBSET Months]

TypeOK ==
  /\ CalendarTypeOK
  /\ list \in ListStates
  /\ list.pc = "probe" => list.todo \cap list.shown = {}    \* no month twice
  /\ there \in SUBSET Months

Init ==
  /\ CalendarInit
  /\ list = [pc |-> "idle", docs |-> NoDocs, earliest |-> 0, shown |-> {}, todo |-> {}]
  /\ there = {}

-----------------------------------------------------------------------------
(* firstOpenMonthStart, on the documents and the anchor a call has read. *)

ClosedIn(docs) == {m \in Months : docs[m] = "closed"}
ReopenedIn(docs) == {m \in Months : docs[m] = "open"}

\* Faulty: anchored on the lifecycle documents alone.
AnchorOnClosed(docs, earliest) == Min(ClosedIn(docs))

\* The earlier of the earliest closed month and the earliest trace's month.
Anchor(docs, earliest) == Min(ClosedIn(docs) \cup {earliest})

\* The walk over closed months stops at the first that is not; an earlier
\* reopened month pulls the bound back.  No closed month: no bound.
FirstOpenMonth(docs, earliest) ==
  IF ClosedIn(docs) = {} THEN 1
  ELSE Min({m \in 1..NoMonth : m >= Anchor(docs, earliest) /\ m \notin ClosedIn(docs)}
           \cup ReopenedIn(docs))

-----------------------------------------------------------------------------
(* list() *)

StartList ==
  /\ list.pc = "idle"
  /\ list' = [list EXCEPT !.pc = "read"]
  /\ there' = {m \in traced : m <= ended + 1}
  /\ UNCHANGED months

\* Promise.all: the two reads land in either order.
ReadDocs ==
  /\ list.pc = "read"
  /\ list.docs = NoDocs
  /\ list' = [list EXCEPT !.docs = doc, !.pc = IF list.earliest = 0 THEN "read" ELSE "scan"]
  /\ UNCHANGED <<months, there>>

ReadEarliest ==
  /\ list.pc = "read"
  /\ list.earliest = 0
  /\ list' = [list EXCEPT !.earliest = Min(traced \cup {NoMonth}),
                          !.pc = IF list.docs = NoDocs THEN "read" ELSE "scan"]
  /\ UNCHANGED <<months, there>>

\* resolvePeriodStatus = 'future': later than the current month, not closed.
Future(m) == m > ended + 1 /\ list.docs[m] # "closed"

\* listBills from the bound, minus the future rows.
Rows == {m \in traced : m >= FirstOpenMonth(list.docs, list.earliest) /\ ~Future(m)}

\* Faulty: a row does not take its document off the map.
LeftoversAll(rows) == ReopenedIn(list.docs)

Leftovers(rows) == ReopenedIn(list.docs) \ rows

\* Closed documents with no row are served from their snapshots; reopened
\* ones with no row are probed.
Scan ==
  /\ list.pc = "scan"
  /\ list' = [list EXCEPT !.shown = Rows \cup ClosedIn(list.docs),
                          !.todo = Leftovers(Rows),
                          !.pc = "probe"]
  /\ UNCHANGED <<months, there>>

\* reopenedLeftoverItem: an all-zero bill, or a loud failure of the whole call
\* when the store holds a trace of the month after all.
ProbeLeftover(m) ==
  /\ list.pc = "probe"
  /\ m \in list.todo
  /\ list' = IF m \in traced THEN [list EXCEPT !.pc = "failed", !.todo = {m}]
             ELSE [list EXCEPT !.todo = @ \ {m}, !.shown = @ \cup {m}]
  /\ UNCHANGED <<months, there>>

Answer ==
  /\ list.pc = "probe"
  /\ list.todo = {}
  /\ list' = [list EXCEPT !.pc = "done"]
  /\ UNCHANGED <<months, there>>

ListNext ==
  \/ StartList \/ ReadDocs \/ ReadEarliest \/ Scan \/ Answer
  \/ \E m \in Months : ProbeLeftover(m)

Next ==
  \/ CalendarNext /\ UNCHANGED reader
  \/ ListNext

Spec == Init /\ [][Next]_vars

-----------------------------------------------------------------------------
(* "The live scan can never drop a month that carries money, whatever the  *)
(* lifecycle history" (billing-period-model.ts): a list that is answered   *)
(* shows every month that carried a trace when the call began, and a list  *)
(* that fails does so over a month whose first trace arrived meanwhile.    *)
ListComplete ==
  /\ list.pc = "done" => there \subseteq list.shown
  /\ list.pc = "failed" => list.todo \cap there = {}
=============================================================================
