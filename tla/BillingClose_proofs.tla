------------------------- MODULE BillingClose_proofs -------------------------
(***************************************************************************)
(* Proofs about BillingClose, for any number of traces, pages, closes,     *)
(* reopens, ingestions and sweeps: what a bill holds, what the quarantine  *)
(* marks, and what a re-close absorbs.                                     *)
(***************************************************************************)
EXTENDS BillingClose, TLAPS

-----------------------------------------------------------------------------
(* The invariant. *)

Stamped == {t \in Traces : trace[t].status = "stamped"}

\* The traces the month could ever charge, at the pending guard or later.
Settled == Stamped \cup Unmeasured

\* The collections: a bill charges stamped traces, a reconciliation scanned
\* stored ones, and the records of the past are not ahead of the present.
StoreInv ==
  /\ closed => ended /\ version > 0
  /\ \A t \in Traces : trace[t].status = "unmeasured" => t \in Unmeasured
  /\ \A t \in Traces : decidedAt[t] <= version
  /\ \A v \in 1..version : bills[v] \subseteq Stamped /\ scanned[v] \subseteq Stored

\* An ingestion that decided against the mark did so before the close that
\* closed the month, if it is closed.
Ingesting(i) ==
  /\ ingest[i].status = "unmeasured" => ingest[i].trace \in Unmeasured
  /\ ingest[i].pc = "insert" =>
       /\ ingest[i].decided <= version
       /\ ingest[i].quarantined \/ ~closed \/ ingest[i].decided < version

\* A call that looks for its version has read nothing yet.
Fresh(c) ==
  /\ closer[c].pc \in {"find", "guard", "version"} => closer[c].page = 1 /\ closer[c].billed = {}
  /\ closer[c].pc \in {"find", "guard", "done"} => asked[c] = {}
  /\ closer[c].pc \notin {"find", "done"} => ended
  /\ closer[c].pc \in {"guard", "version"} => closer[c].known <= version
  /\ closer[c].pc \in {"version", "read"} => asked[c] \subseteq Settled

\* A call that reads has, of the pages behind it, all that it was asked for
\* and all that the newest bill charges, unless that bill made it lose.
Reading(c) ==
  closer[c].pc = "read" =>
    /\ closer[c].version \in 1..(version + 1) /\ closer[c].billed \subseteq Stamped
    /\ \A t \in asked[c] \ Unmeasured : PageOf[t] < closer[c].page => t \in closer[c].billed
    /\ closer[c].version = version + 1 /\ version > 0 =>
         \A t \in bills[version] : PageOf[t] < closer[c].page => t \in closer[c].billed

\* Flagged since pass 2 went by, by the reconciliation of an older version.
MarkedBehind(t) == flaggedBy[t] \in 1..(version - 1)

\* A reconciliation works for a published version: pass 1 leaves what the bill
\* charges alone, pass 2 touches nothing else.
Reconciling(c) ==
  /\ closer[c].pc \in {"published", "flag", "absorb"} =>
       /\ closer[c].version \in 1..version /\ closer[c].billed = bills[closer[c].version]
       /\ asked[c] \ Unmeasured \subseteq closer[c].billed
  /\ closer[c].pc \in {"flag", "absorb"} => closer[c].month \subseteq Stored
  /\ closer[c].pc = "flag" =>
       /\ closer[c].todo \subseteq Stored /\ closer[c].todo \cap closer[c].billed = {}
       /\ \A t \in closer[c].month : t \in closer[c].billed \/ t \in closer[c].todo \/ trace[t].flagged
  /\ closer[c].pc = "absorb" =>
       /\ closer[c].todo \subseteq closer[c].billed
       /\ \A t \in closer[c].month : t \in closer[c].billed \/ trace[t].flagged
       /\ closer[c].version = version =>
            \A t \in closer[c].billed \ closer[c].todo : t \in Unresolved => MarkedBehind(t)

Closing(c) == Fresh(c) /\ Reading(c) /\ Reconciling(c)

\* ResolvedOnceBilled, for a reopened month too.
Resolved == version > 0 => \A t \in bills[version] \cap scanned[version] : t \in Unresolved => MarkedBehind(t)

Adjudicated ==
  /\ StoreInv /\ AdjudicatedByScan /\ LateIsFlagged /\ Resolved
  /\ AbsorptionNamesItsBill /\ RecloseKeepsBilled

CloseInv ==
  /\ TypeOK /\ Adjudicated
  /\ \A i \in Ingests : Ingesting(i)
  /\ \A c \in Closers : Closing(c)

-----------------------------------------------------------------------------
(* What the calls of one another may count on. *)

\* The history of a month: bills and stored traces stay, a stamp and a mark
\* are final, and what the newest bill charges is marked by older versions only.
Later ==
  /\ ended => ended'
  /\ version' \in Nat /\ version <= version' /\ \A v \in 1..version : bills'[v] = bills[v]
  /\ closed' => closed \/ version < version'
  /\ \A t \in Traces : trace[t].status = "stamped" => trace'[t].status = "stamped"
  /\ \A t \in Traces : trace[t].status # "absent" =>
       trace'[t].status # "absent" /\ (trace[t].flagged => trace'[t].flagged)
  /\ version' = version /\ version > 0 =>
       \A t \in bills[version] : (t \in Unresolved)' => t \in Unresolved \/ MarkedBehind(t)'
  /\ version' = version /\ version > 0 =>
       \A t \in bills[version] : t \in Unresolved => flaggedBy'[t] = flaggedBy[t]

LEMMA CloserTyped ==
  ASSUME TypeOK, NEW c \in Closers
  PROVE  /\ closer \in [Closers -> CloserStates] /\ closer[c] \in CloserStates
         /\ closer[c].pc \in ClosePhases /\ closer[c].known \in Nat /\ closer[c].version \in Nat
         /\ closer[c].page \in 1..(NumPages + 1) /\ closer[c].billed \in SUBSET Traces
         /\ closer[c].month \in SUBSET Traces /\ closer[c].todo \in SUBSET Traces
         /\ asked \in [Closers -> SUBSET Traces] /\ asked[c] \in SUBSET Traces
         /\ version \in Nat /\ NumPages \in Nat
  BY MonthAssumption DEF TypeOK, CloserStates

LEMMA TraceTyped ==
  ASSUME TypeOK, NEW t \in Traces
  PROVE  /\ trace \in [Traces -> TraceDocs] /\ trace[t] \in TraceDocs
         /\ trace[t].status \in Statuses /\ trace[t].flagged \in BOOLEAN /\ trace[t].absorbed \in Nat
         /\ decidedAt \in [Traces -> Nat] /\ flaggedBy \in [Traces -> Nat]
         /\ decidedAt[t] \in Nat /\ flaggedBy[t] \in Nat /\ version \in Nat
  BY DEF TypeOK, TraceDocs

LEMMA IngestTyped ==
  ASSUME TypeOK, NEW i \in Ingests
  PROVE  /\ ingest \in [Ingests -> IngestStates] /\ ingest[i] \in IngestStates
         /\ ingest[i].seen \in BOOLEAN /\ ingest[i].quarantined \in BOOLEAN
         /\ ingest[i].status \in Statuses /\ ingest[i].trace \in Traces /\ ingest[i].decided \in Nat
         /\ ingest[i].pc \in {"cycle", "price", "fresh", "insert", "done"} /\ version \in Nat
  BY DEF TypeOK, IngestStates

\* A call that takes no step keeps its promise while others work.
LEMMA CloserWaits ==
  ASSUME TypeOK, Later, NEW c \in Closers, Closing(c),
         closer'[c] = closer[c], asked'[c] = asked[c]
  PROVE  Closing(c)'
<1>1. version \in Nat /\ version' \in Nat /\ version <= version' /\ \A v \in 1..version : bills'[v] = bills[v]
  BY DEF TypeOK, Later
<1>2. Stamped \subseteq Stamped' /\ Stored \subseteq Stored' /\ Settled \subseteq Settled'
  BY DEF Later, Stamped, Stored, Settled
<1>3. \A t \in Stored : trace[t].flagged => trace'[t].flagged
  BY DEF Later, Stored
<1>4. Fresh(c)'
  BY <1>1, <1>2, CloserTyped DEF Later, Closing, Fresh
<1>5. Reading(c)'
  <2> SUFFICES ASSUME closer[c].pc = "read" PROVE Reading(c)'
    BY DEF Reading
  <2>1. /\ closer[c].version \in 1..(version + 1) /\ closer[c].billed \subseteq Stamped
        /\ \A t \in asked[c] \ Unmeasured : PageOf[t] < closer[c].page => t \in closer[c].billed
        /\ closer[c].version = version + 1 /\ version > 0 =>
             \A t \in bills[version] : PageOf[t] < closer[c].page => t \in closer[c].billed
    BY DEF Closing, Reading
  <2>2. ASSUME closer[c].version = version' + 1, version' > 0
        PROVE  version' = version /\ bills'[version'] = bills[version]
    <3>1. closer[c].version \in Nat /\ closer[c].version <= version + 1
      BY <1>1, <2>1, CloserTyped
    <3>2. \A x, v, w \in Nat : v <= w /\ x <= v + 1 /\ x = w + 1 => w = v
      OBVIOUS
    <3>3. version' = version
      BY <1>1, <2>2, <3>1, <3>2
    <3>4. QED
      BY <1>1, <2>2, <3>3
  <2>3. QED
    BY <1>1, <1>2, <2>1, <2>2 DEF Reading
<1>6. Reconciling(c)'
  <2>1. ASSUME closer[c].pc \in {"published", "flag", "absorb"}
        PROVE  /\ closer[c].version \in 1..version' /\ closer[c].billed = bills'[closer[c].version]
               /\ asked[c] \ Unmeasured \subseteq closer[c].billed
    BY <1>1, <2>1 DEF Closing, Reconciling
  <2>2. ASSUME closer[c].pc \in {"flag", "absorb"} PROVE closer[c].month \subseteq Stored'
    BY <1>2, <2>2 DEF Closing, Reconciling
  <2>3. ASSUME closer[c].pc = "flag"
        PROVE  /\ closer[c].todo \subseteq Stored' /\ closer[c].todo \cap closer[c].billed = {}
               /\ \A t \in closer[c].month : t \in closer[c].billed \/ t \in closer[c].todo \/ trace'[t].flagged
    BY <1>2, <1>3, <2>3 DEF Closing, Reconciling
  <2>4. ASSUME closer[c].pc = "absorb"
        PROVE  /\ closer[c].todo \subseteq closer[c].billed
               /\ \A t \in closer[c].month : t \in closer[c].billed \/ trace'[t].flagged
    BY <1>2, <1>3, <2>4 DEF Closing, Reconciling
  <2>5. ASSUME closer[c].pc = "absorb", closer[c].version = version',
               NEW t \in closer[c].billed \ closer[c].todo, (t \in Unresolved)'
        PROVE  MarkedBehind(t)'
    <3>1. /\ closer[c].version \in 1..version /\ closer[c].billed = bills[closer[c].version]
          /\ closer[c].version = version => (t \in Unresolved => MarkedBehind(t))
      BY <2>5 DEF Closing, Reconciling
    <3>2. version' = version /\ version > 0 /\ t \in bills[version]
      BY <1>1, <2>5, <3>1
    <3>3. t \in Unresolved \/ MarkedBehind(t)'
      BY <2>5, <3>2 DEF Later
    <3>4. t \in Unresolved => flaggedBy'[t] = flaggedBy[t] /\ MarkedBehind(t)
      <4>1. t \in Unresolved => flaggedBy'[t] = flaggedBy[t]
        BY <3>2 DEF Later
      <4>2. QED
        BY <2>5, <3>1, <3>2, <4>1
    <3>5. QED
      BY <3>2, <3>3, <3>4 DEF MarkedBehind
  <2>6. QED
    BY <2>1, <2>2, <2>3, <2>4, <2>5 DEF Reconciling
<1>7. QED
  BY <1>4, <1>5, <1>6 DEF Closing

LEMMA IngestWaits ==
  ASSUME TypeOK, Later, NEW i \in Ingests, Ingesting(i), ingest'[i] = ingest[i]
  PROVE  Ingesting(i)'
<1>1. version \in Nat /\ version' \in Nat /\ version <= version' /\ ingest[i].decided \in Nat
  BY IngestTyped DEF TypeOK, Later
<1>2. QED
  BY <1>1 DEF Later, Ingesting

\* Steps that leave the collections alone.
LEMMA QuietStep ==
  ASSUME TypeOK, Adjudicated, ended => ended',
         UNCHANGED <<trace, closed, version, bills, decidedAt, flaggedBy, scanned>>
  PROVE  Later /\ Adjudicated'
<1>1. (Stored' = Stored) /\ (Stamped' = Stamped) /\ (Unresolved' = Unresolved)
  BY DEF Stored, Stamped, Unresolved
<1>2. Later
  BY <1>1 DEF Later, TypeOK
<1>3. StoreInv'
  BY <1>1 DEF Adjudicated, StoreInv
<1>4. AdjudicatedByScan' /\ LateIsFlagged' /\ AbsorptionNamesItsBill' /\ RecloseKeepsBilled'
  BY <1>1 DEF Adjudicated, AdjudicatedByScan, LateIsFlagged, AbsorptionNamesItsBill, RecloseKeepsBilled
<1>5. Resolved'
  BY <1>1 DEF Adjudicated, Resolved, MarkedBehind
<1>6. QED
  BY <1>2, <1>3, <1>4, <1>5 DEF Adjudicated

LEMMA OverTyped ==
  /\ Over \in CloserStates /\ Over.pc = "done" /\ Over.page = 1 /\ Over.billed = {}
  BY MonthAssumption DEF Over, CloserStates, ClosePhases

\* A step of one close.
LEMMA CloserStepKeeps ==
  ASSUME CloseInv, NEW c \in Closers, NEW s \in CloserStates, NEW a \in SUBSET Traces,
         closer' = [closer EXCEPT ![c] = s], asked' = [asked EXCEPT ![c] = a],
         UNCHANGED <<ended, priced, reopener, ingest, sweep, decidedAt>>,
         trace' \in [Traces -> TraceDocs], flaggedBy' \in [Traces -> Nat],
         closed' \in BOOLEAN, version' \in Nat,
         bills' \in [1..version' -> SUBSET Traces], scanned' \in [1..version' -> SUBSET Traces],
         Later, Adjudicated', Closing(c)'
  PROVE  CloseInv'
<1>1. TypeOK /\ closer \in [Closers -> CloserStates] /\ asked \in [Closers -> SUBSET Traces]
  BY DEF CloseInv, TypeOK
<1>2. TypeOK'
  BY <1>1 DEF TypeOK
<1>3. ASSUME NEW i \in Ingests PROVE Ingesting(i)'
  BY <1>1, IngestWaits DEF CloseInv
<1>4. ASSUME NEW d \in Closers, d # c PROVE Closing(d)'
  <2>1. closer'[d] = closer[d] /\ asked'[d] = asked[d]
    BY <1>1, <1>4
  <2>2. QED
    BY <1>1, <1>4, <2>1, CloserWaits DEF CloseInv
<1>5. QED
  BY <1>2, <1>3, <1>4 DEF CloseInv

\* A step of a close that writes nothing.
LEMMA CloserLooks ==
  ASSUME CloseInv, NEW c \in Closers, NEW s \in CloserStates, NEW a \in SUBSET Traces,
         closer' = [closer EXCEPT ![c] = s], asked' = [asked EXCEPT ![c] = a],
         UNCHANGED <<ended, priced, reopener, ingest, sweep, decidedAt, trace, flaggedBy,
                     closed, version, bills, scanned>>,
         Closing(c)'
  PROVE  CloseInv'
<1>1. TypeOK /\ Adjudicated
  BY DEF CloseInv
<1>2. Later /\ Adjudicated'
  BY <1>1, QuietStep
<1>3. /\ trace' \in [Traces -> TraceDocs] /\ flaggedBy' \in [Traces -> Nat]
      /\ closed' \in BOOLEAN /\ version' \in Nat
      /\ bills' \in [1..version' -> SUBSET Traces] /\ scanned' \in [1..version' -> SUBSET Traces]
  BY <1>1 DEF TypeOK
<1>4. QED
  BY <1>2, <1>3, CloserStepKeeps

-----------------------------------------------------------------------------
(* The close, step by step. *)

LEMMA FindKeeps ==
  ASSUME CloseInv, NEW c \in Closers, Find(c)
  PROVE  CloseInv'
<1> DEFINE repair == [closer[c] EXCEPT !.pc = "published", !.version = version, !.billed = bills[version]]
           begin == [closer[c] EXCEPT !.pc = "guard", !.known = version]
           s == IF closed THEN repair ELSE begin
<1>1. TypeOK /\ Adjudicated /\ Closing(c)
  BY DEF CloseInv
<1>2. /\ closer[c].pc = "find" /\ ended /\ closer' = [closer EXCEPT ![c] = s]
      /\ UNCHANGED <<priced, trace, closed, version, bills, reopener, ingest, sweep, ended>>
      /\ UNCHANGED <<decidedAt, flaggedBy, scanned, asked>>
  BY <1>1, CloserTyped DEF Find, ledger, past
<1>3. asked[c] = {} /\ closer[c].page = 1 /\ closer[c].billed = {} /\ asked' = [asked EXCEPT ![c] = {}]
  BY <1>1, <1>2, CloserTyped DEF Closing, Fresh
<1>4. closed => version \in 1..version /\ bills[version] \in SUBSET Traces
  BY <1>1 DEF Adjudicated, StoreInv, TypeOK
<1>5. CASE closed
  <2>1. repair \in CloserStates /\ repair.pc = "published" /\ repair.version = version
        /\ repair.billed = bills[version]
    BY <1>1, <1>4, <1>5, CloserTyped DEF CloserStates, ClosePhases
  <2>2. closer'[c] = repair /\ closer' = [closer EXCEPT ![c] = repair] /\ asked'[c] = {}
    BY <1>1, <1>2, <1>3, <1>5, CloserTyped
  <2> HIDE DEF repair, s
  <2>3. Closing(c)'
    BY <1>2, <1>4, <1>5, <2>1, <2>2 DEF Closing, Fresh, Reading, Reconciling
  <2>4. QED
    BY <1>2, <1>3, <2>1, <2>2, <2>3, CloserLooks
<1>6. CASE ~closed
  <2>1. begin \in CloserStates /\ begin.pc = "guard" /\ begin.known = version
        /\ begin.page = 1 /\ begin.billed = {}
    BY <1>1, <1>3, CloserTyped DEF CloserStates, ClosePhases
  <2>2. closer'[c] = begin /\ closer' = [closer EXCEPT ![c] = begin] /\ asked'[c] = {}
    BY <1>1, <1>2, <1>3, <1>6, CloserTyped
  <2>3. version \in Nat
    BY <1>1, CloserTyped
  <2> HIDE DEF begin, s
  <2>4. Closing(c)'
    BY <1>2, <2>1, <2>2, <2>3 DEF Closing, Fresh, Reading, Reconciling
  <2>5. QED
    BY <1>2, <1>3, <2>1, <2>2, <2>4, CloserLooks
<1>7. QED
  BY <1>5, <1>6

\* A call that is over promises nothing.
LEMMA OverStands ==
  ASSUME NEW c \in Closers, closer'[c] = Over, asked'[c] = {}
  PROVE  Closing(c)'
  BY OverTyped DEF Closing, Fresh, Reading, Reconciling

LEMMA PendingGuardKeeps ==
  ASSUME CloseInv, NEW c \in Closers, PendingGuard(c)
  PROVE  CloseInv'
<1>1. TypeOK /\ Adjudicated /\ Closing(c)
  BY DEF CloseInv
<1>2. /\ closer[c].pc = "guard"
      /\ UNCHANGED <<ended, priced, trace, closed, version, bills, reopener, ingest, sweep,
                     decidedAt, flaggedBy, scanned>>
  BY DEF PendingGuard, ledger
<1>3. asked[c] = {} /\ closer[c].page = 1 /\ closer[c].billed = {} /\ ended /\ closer[c].known <= version
  BY <1>1, <1>2 DEF Closing, Fresh
<1>4. CASE \E t \in Traces : BlocksClose(t)
  <2>1. closer' = [closer EXCEPT ![c] = Over] /\ asked' = [asked EXCEPT ![c] = {}]
    BY <1>1, <1>3, <1>4, CloserTyped DEF PendingGuard
  <2>2. closer'[c] = Over /\ asked'[c] = {}
    BY <1>1, <2>1, CloserTyped
  <2>3. QED
    BY <1>2, <2>1, <2>2, OverTyped, OverStands, CloserLooks
<1>5. CASE ~\E t \in Traces : BlocksClose(t)
  <2> DEFINE s == [closer[c] EXCEPT !.pc = "version"]
  <2>1. closer' = [closer EXCEPT ![c] = s] /\ asked' = [asked EXCEPT ![c] = Stored]
    BY <1>1, <1>5, CloserTyped DEF PendingGuard
  <2>2. s \in CloserStates /\ s.pc = "version" /\ s.known = closer[c].known /\ s.page = 1 /\ s.billed = {}
    BY <1>1, <1>3, CloserTyped DEF CloserStates, ClosePhases
  <2> HIDE DEF s
  <2>3. closer'[c] = s /\ asked'[c] = Stored /\ Stored \in SUBSET Traces
    BY <1>1, <2>1, CloserTyped DEF Stored
  <2>4. Stored \subseteq Settled
    <3> SUFFICES ASSUME NEW t \in Traces, trace[t].status # "absent" PROVE t \in Settled
      BY DEF Stored
    <3>1. trace[t].status \in {"stamped", "unmeasured"}
      BY <1>1, <1>5, TraceTyped DEF Statuses, BlocksClose
    <3>2. QED
      BY <1>1, <3>1 DEF Adjudicated, StoreInv, Settled, Stamped
  <2>5. Settled' = Settled
    BY <1>2 DEF Settled, Stamped
  <2>6. Closing(c)'
    BY <1>2, <1>3, <2>2, <2>3, <2>4, <2>5 DEF Closing, Fresh, Reading, Reconciling
  <2>7. QED
    BY <1>2, <2>1, <2>2, <2>3, <2>6, CloserLooks
<1>6. QED
  BY <1>4, <1>5

LEMMA ChooseVersionKeeps ==
  ASSUME CloseInv, NEW c \in Closers, ChooseVersion(c)
  PROVE  CloseInv'
<1> DEFINE s == [closer[c] EXCEPT !.version = version + 1, !.pc = "read"]
<1>1. TypeOK /\ Adjudicated /\ Closing(c)
  BY DEF CloseInv
<1>2. /\ closer[c].pc = "version"
      /\ UNCHANGED <<ended, priced, trace, closed, version, bills, reopener, ingest, sweep>>
      /\ UNCHANGED <<decidedAt, flaggedBy, scanned, asked>>
  BY DEF ChooseVersion, ledger, past
<1>3. closer[c].page = 1 /\ closer[c].billed = {} /\ ended /\ closer[c].known <= version
      /\ asked[c] \subseteq Settled
  BY <1>1, <1>2 DEF Closing, Fresh
<1>4. (IF closer[c].known > version THEN closer[c].known ELSE version) = version
  BY <1>1, <1>3, CloserTyped
<1>5. closer' = [closer EXCEPT ![c] = s] /\ asked' = [asked EXCEPT ![c] = asked[c]]
  BY <1>1, <1>2, <1>4, CloserTyped DEF ChooseVersion
<1>6. s \in CloserStates /\ s.pc = "read" /\ s.version = version + 1 /\ s.page = 1 /\ s.billed = {}
  <2>1. version + 1 \in Nat
    BY <1>1, CloserTyped
  <2>2. QED
    BY <1>1, <1>3, <2>1, CloserTyped DEF CloserStates, ClosePhases
<1> HIDE DEF s
<1>7. closer'[c] = s /\ asked'[c] = asked[c] /\ Settled' = Settled
  BY <1>1, <1>2, <1>5, CloserTyped DEF Settled, Stamped
<1>8. \A t \in Traces : ~(PageOf[t] < 1)
  BY MonthAssumption
<1>9. Closing(c)'
  <2>1. Fresh(c)' /\ Reconciling(c)'
    BY <1>2, <1>3, <1>6, <1>7 DEF Fresh, Reconciling
  <2>2. Reading(c)'
    <3>1. version \in Nat /\ asked[c] \in SUBSET Traces
      BY <1>1, CloserTyped
    <3>2. version > 0 => bills[version] \in SUBSET Traces
      BY <1>1 DEF TypeOK
    <3>3. QED
      BY <1>2, <1>6, <1>7, <1>8, <3>1, <3>2 DEF Reading
  <2>3. QED
    BY <2>1, <2>2 DEF Closing
<1>10. QED
  BY <1>1, <1>2, <1>5, <1>6, <1>9, CloserTyped, CloserLooks

LEMMA ReadPageKeeps ==
  ASSUME CloseInv, NEW c \in Closers, ReadPage(c)
  PROVE  CloseInv'
<1> DEFINE page == {t \in Traces : trace[t].status = "stamped" /\ PageOf[t] = closer[c].page}
           s == [closer[c] EXCEPT !.billed = closer[c].billed \cup page, !.page = closer[c].page + 1]
<1>1. TypeOK /\ Adjudicated /\ Closing(c)
  BY DEF CloseInv
<1>2. /\ closer[c].pc = "read" /\ closer[c].page <= NumPages
      /\ UNCHANGED <<ended, priced, trace, closed, version, bills, reopener, ingest, sweep>>
      /\ UNCHANGED <<decidedAt, flaggedBy, scanned, asked>>
  BY DEF ReadPage, PagesLeft, ledger, past
<1>3. closer' = [closer EXCEPT ![c] = s] /\ asked' = [asked EXCEPT ![c] = asked[c]]
  BY <1>1, <1>2, CloserTyped DEF ReadPage
<1>4. /\ s \in CloserStates /\ s.pc = "read" /\ s.version = closer[c].version
      /\ s.page = closer[c].page + 1 /\ s.billed = closer[c].billed \cup page
  <2>1. closer[c].page + 1 \in 1..(NumPages + 1) /\ closer[c].billed \cup page \in SUBSET Traces
    BY <1>1, <1>2, CloserTyped
  <2>2. QED
    BY <1>1, <1>2, <2>1, CloserTyped DEF CloserStates
<1> HIDE DEF s
<1>5. closer'[c] = s /\ asked'[c] = asked[c] /\ Settled' = Settled /\ Stamped' = Stamped
  BY <1>1, <1>2, <1>3, CloserTyped DEF Settled, Stamped
<1>6. ended /\ asked[c] \subseteq Settled
  BY <1>1, <1>2 DEF Closing, Fresh
<1>7. /\ closer[c].version \in 1..(version + 1) /\ closer[c].billed \subseteq Stamped
      /\ \A t \in asked[c] \ Unmeasured : PageOf[t] < closer[c].page => t \in closer[c].billed
      /\ closer[c].version = version + 1 /\ version > 0 =>
           \A t \in bills[version] : PageOf[t] < closer[c].page => t \in closer[c].billed
  BY <1>1, <1>2 DEF Closing, Reading
<1>8. \A t \in Stamped : PageOf[t] < s.page => PageOf[t] < closer[c].page \/ t \in page
  <2> SUFFICES ASSUME NEW t \in Stamped, PageOf[t] < closer[c].page + 1
               PROVE  PageOf[t] < closer[c].page \/ PageOf[t] = closer[c].page
    BY <1>4 DEF Stamped
  <2>1. PageOf[t] \in Nat /\ closer[c].page \in Nat
    BY <1>1, MonthAssumption, CloserTyped DEF Stamped
  <2>2. QED
    BY <2>1
<1>9. Reading(c)'
  <2>1. \A t \in asked[c] \ Unmeasured : PageOf[t] < s.page => t \in s.billed
    BY <1>4, <1>6, <1>7, <1>8 DEF Settled
  <2>2. closer[c].version = version + 1 /\ version > 0 =>
          \A t \in bills[version] : PageOf[t] < s.page => t \in s.billed
    <3>1. version > 0 => bills[version] \subseteq Stamped
      BY <1>1 DEF Adjudicated, StoreInv, TypeOK
    <3>2. QED
      BY <1>4, <1>7, <1>8, <3>1
  <2>3. s.billed \subseteq Stamped
    BY <1>4, <1>7 DEF Stamped
  <2>4. QED
    BY <1>2, <1>4, <1>5, <1>7, <2>1, <2>2, <2>3 DEF Reading
<1>10. Closing(c)'
  BY <1>2, <1>4, <1>5, <1>6, <1>9 DEF Closing, Fresh, Reconciling
<1>11. QED
  BY <1>1, <1>2, <1>3, <1>4, <1>10, CloserTyped, CloserLooks

LEMMA PublishKeeps ==
  ASSUME CloseInv, NEW c \in Closers, Publish(c)
  PROVE  CloseInv'
<1>1. TypeOK /\ Adjudicated /\ Closing(c)
  BY DEF CloseInv
<1>2. /\ closer[c].pc = "read" /\ ~(closer[c].page <= NumPages)
      /\ UNCHANGED <<ended, priced, trace, reopener, ingest, sweep, decidedAt, flaggedBy>>
  BY DEF Publish, PagesLeft
<1>3. CASE ~(~closed /\ closer[c].version = version + 1)
  <2>1. /\ closer' = [closer EXCEPT ![c] = Over] /\ asked' = [asked EXCEPT ![c] = {}]
        /\ UNCHANGED <<closed, version, bills, scanned>>
    BY <1>3 DEF Publish, ledger
  <2>2. closer'[c] = Over /\ asked'[c] = {}
    BY <1>1, <2>1, CloserTyped
  <2>3. QED
    BY <1>2, <2>1, <2>2, OverTyped, OverStands, CloserLooks
<1>4. CASE ~closed /\ closer[c].version = version + 1
  <2> DEFINE s == [closer[c] EXCEPT !.pc = "published"]
             b == closer[c].billed
  <2>1. /\ closed' = TRUE /\ version' = version + 1
        /\ bills' = [v \in 1..(version + 1) |-> IF v = version + 1 THEN b ELSE bills[v]]
        /\ scanned' = [v \in 1..(version + 1) |-> IF v = version + 1 THEN {} ELSE scanned[v]]
        /\ closer' = [closer EXCEPT ![c] = s] /\ asked' = [asked EXCEPT ![c] = asked[c]]
    BY <1>1, <1>4, CloserTyped DEF Publish, Ledger!Close
  <2>2. s \in CloserStates /\ s.pc = "published" /\ s.version = version + 1 /\ s.billed = b
    BY <1>1, <1>4, CloserTyped DEF CloserStates, ClosePhases
  <2> HIDE DEF s
  <2>3. closer'[c] = s /\ asked'[c] = asked[c] /\ b \in SUBSET Traces /\ version \in Nat
    BY <1>1, <2>1, CloserTyped
  <2>4. ended /\ b \subseteq Stamped
    BY <1>1, <1>2 DEF Closing, Fresh, Reading
  <2>5. \A t \in Traces : PageOf[t] < closer[c].page
    <3> SUFFICES ASSUME NEW t \in Traces PROVE PageOf[t] < closer[c].page
      OBVIOUS
    <3>1. PageOf[t] \in 1..NumPages /\ closer[c].page \in 1..(NumPages + 1) /\ NumPages \in Nat
      BY <1>1, MonthAssumption, CloserTyped
    <3>2. QED
      BY <1>2, <3>1
  <2>6. asked[c] \ Unmeasured \subseteq b
    BY <1>1, <1>2, <2>5, CloserTyped DEF Closing, Reading
  <2>7. version > 0 => bills[version] \subseteq b
    <3>1. version > 0 => bills[version] \subseteq Traces
      BY <1>1 DEF TypeOK
    <3>2. QED
      BY <1>1, <1>2, <1>4, <2>5, <3>1 DEF Closing, Reading
  <2>8. /\ version' \in Nat /\ version < version' /\ version' \notin 1..version /\ version' \in 1..version'
        /\ \A v \in 1..version : v \in 1..version' /\ v # version'
        /\ \A v \in 1..version' : v \in 1..version \/ v = version'
    BY <2>1, <2>3
  <2>9. /\ bills'[version'] = b /\ scanned'[version'] = {}
        /\ \A v \in 1..version : bills'[v] = bills[v] /\ scanned'[v] = scanned[v]
    BY <2>1, <2>8
  <2>10. bills' \in [1..version' -> SUBSET Traces] /\ scanned' \in [1..version' -> SUBSET Traces]
    <3>1. \A v \in 1..version : bills[v] \in SUBSET Traces /\ scanned[v] \in SUBSET Traces
      BY <1>1 DEF TypeOK
    <3>2. QED
      BY <2>1, <2>3, <2>8, <3>1
  <2>11. (Stored' = Stored) /\ (Stamped' = Stamped) /\ (Unresolved' = Unresolved)
    BY <1>2 DEF Stored, Stamped, Unresolved
  <2>12. Later
    BY <1>2, <2>3, <2>8, <2>9 DEF Later
  <2>13. StoreInv'
    <3>1. \A t \in Traces : decidedAt[t] <= version'
      <4> SUFFICES ASSUME NEW t \in Traces PROVE decidedAt[t] <= version'
        OBVIOUS
      <4>1. decidedAt[t] <= version /\ decidedAt[t] \in Nat
        BY <1>1, TraceTyped DEF Adjudicated, StoreInv
      <4>2. QED
        BY <2>3, <2>8, <4>1
    <3>2. \A v \in 1..version' : bills'[v] \subseteq Stamped /\ scanned'[v] \subseteq Stored
      BY <1>1, <2>4, <2>8, <2>9 DEF Adjudicated, StoreInv
    <3>3. QED
      BY <1>1, <1>2, <2>3, <2>4, <2>8, <2>11, <3>1, <3>2 DEF Adjudicated, StoreInv
  <2>14. AdjudicatedByScan'
    BY <1>1, <1>2, <2>8, <2>9 DEF Adjudicated, AdjudicatedByScan
  <2>15. LateIsFlagged'
    <3>1. \A t \in Traces : decidedAt[t] < version'
      <4> SUFFICES ASSUME NEW t \in Traces PROVE decidedAt[t] < version'
        OBVIOUS
      <4>1. decidedAt[t] <= version /\ decidedAt[t] \in Nat
        BY <1>1, TraceTyped DEF Adjudicated, StoreInv
      <4>2. QED
        BY <2>3, <2>8, <4>1
    <3>2. QED
      BY <1>2, <2>11, <3>1 DEF LateIsFlagged, Stored
  <2>16. Resolved'
    BY <2>9 DEF Resolved
  <2>17. AbsorptionNamesItsBill'
    BY <1>1, <1>2, <2>8, <2>9 DEF Adjudicated, AbsorptionNamesItsBill
  <2>18. RecloseKeepsBilled'
    <3> SUFFICES ASSUME NEW v \in 1..version', v + 1 \in 1..version' PROVE bills'[v] \subseteq bills'[v + 1]
      BY DEF RecloseKeepsBilled
    <3>1. CASE v + 1 \in 1..version
      <4>1. v \in 1..version
        BY <2>3, <3>1
      <4>2. QED
        BY <1>1, <2>9, <3>1, <4>1 DEF Adjudicated, RecloseKeepsBilled
    <3>2. CASE v + 1 \notin 1..version
      <4>1. v + 1 = version' /\ v = version /\ version > 0 /\ version \in 1..version
        BY <2>1, <2>3, <3>2
      <4>2. QED
        BY <2>7, <2>9, <4>1
    <3>3. QED
      BY <3>1, <3>2
  <2>19. Closing(c)'
    BY <1>2, <2>2, <2>3, <2>4, <2>6, <2>8, <2>9, <2>1 DEF Closing, Fresh, Reading, Reconciling
  <2>20. Adjudicated'
    BY <2>13, <2>14, <2>15, <2>16, <2>17, <2>18 DEF Adjudicated
  <2>21. trace' \in [Traces -> TraceDocs] /\ flaggedBy' \in [Traces -> Nat] /\ closed' \in BOOLEAN
    BY <1>1, <1>2, <2>1 DEF TypeOK
  <2>22. asked[c] \in SUBSET Traces
    BY <1>1, CloserTyped
  <2>23. QED
    BY <1>2, <2>1, <2>2, <2>8, <2>10, <2>12, <2>19, <2>20, <2>21, <2>22, CloserStepKeeps
<1>5. QED
  BY <1>3, <1>4

LEMMA ScanMonthKeeps ==
  ASSUME CloseInv, NEW c \in Closers, ScanMonth(c)
  PROVE  CloseInv'
<1> DEFINE s == [closer[c] EXCEPT !.pc = "flag", !.month = Stored, !.todo = Stored \ closer[c].billed]
<1>1. TypeOK /\ Adjudicated /\ Closing(c)
  BY DEF CloseInv
<1>2. /\ closer[c].pc = "published"
      /\ UNCHANGED <<ended, priced, trace, closed, version, bills, reopener, ingest, sweep>>
      /\ UNCHANGED <<decidedAt, flaggedBy, scanned, asked>>
  BY DEF ScanMonth, ledger, past
<1>3. closer' = [closer EXCEPT ![c] = s] /\ asked' = [asked EXCEPT ![c] = asked[c]]
  BY <1>1, <1>2, CloserTyped DEF ScanMonth, NotBilled
<1>4. /\ s \in CloserStates /\ s.pc = "flag" /\ s.version = closer[c].version /\ s.billed = closer[c].billed
      /\ s.month = Stored /\ s.todo = Stored \ closer[c].billed
  <2>1. Stored \in SUBSET Traces
    BY DEF Stored
  <2> HIDE DEF Stored
  <2>2. QED
    BY <1>1, <2>1, CloserTyped DEF CloserStates, ClosePhases
<1> HIDE DEF s
<1>5. closer'[c] = s /\ asked'[c] = asked[c] /\ Stored' = Stored
  BY <1>1, <1>2, <1>3, CloserTyped DEF Stored
<1>6. ended /\ closer[c].version \in 1..version /\ closer[c].billed = bills[closer[c].version]
      /\ asked[c] \ Unmeasured \subseteq closer[c].billed
  BY <1>1, <1>2 DEF Closing, Fresh, Reconciling
<1>7. Closing(c)'
  BY <1>2, <1>4, <1>5, <1>6 DEF Closing, Fresh, Reading, Reconciling
<1>8. QED
  BY <1>1, <1>2, <1>3, <1>4, <1>7, CloserTyped, CloserLooks

\* Steps that write to the traces only: what is left to show is what the
\* step does to the traces it touches.
LEMMA TracesWritten ==
  ASSUME TypeOK, Adjudicated, Later,
         UNCHANGED <<ended, closed, version, bills, scanned>>,
         \A t \in Traces : trace'[t].status = "unmeasured" => t \in Unmeasured,
         \A t \in Traces : decidedAt'[t] <= version,
         \A t \in Traces : \/ trace[t].status = "absent"
                           \/ decidedAt'[t] = decidedAt[t],
         closed => \A t \in Traces : trace[t].status = "absent" /\ trace'[t].status # "absent" =>
                     trace'[t].flagged \/ decidedAt'[t] < version,
         AbsorptionNamesItsBill'
  PROVE  Adjudicated'
<1>1. Stored \subseteq Stored' /\ Stamped \subseteq Stamped' /\ version \in Nat
  BY DEF Later, Stored, Stamped, TypeOK
<1>2. StoreInv'
  BY <1>1 DEF Adjudicated, StoreInv
<1>3. AdjudicatedByScan'
  <2>1. \A v \in 1..version : scanned[v] \subseteq Stored
    BY DEF Adjudicated, StoreInv
  <2>2. QED
    BY <2>1 DEF Adjudicated, AdjudicatedByScan, Later, Stored
<1>4. LateIsFlagged'
  <2> SUFFICES ASSUME closed, NEW t \in Traces, trace'[t].status # "absent", t \notin bills[version]
               PROVE  trace'[t].flagged \/ decidedAt'[t] < version
    BY DEF LateIsFlagged, Stored
  <2>1. CASE trace[t].status = "absent"
    BY <2>1
  <2>2. CASE trace[t].status # "absent"
    <3>1. trace[t].flagged \/ decidedAt[t] < version
      BY <2>2 DEF Adjudicated, LateIsFlagged, Stored
    <3>2. QED
      BY <2>2, <3>1 DEF Later
  <2>3. QED
    BY <2>1, <2>2
<1>5. Resolved'
  <2> SUFFICES ASSUME version > 0, NEW t \in bills[version] \cap scanned[version], (t \in Unresolved)'
               PROVE  MarkedBehind(t)'
    BY DEF Resolved
  <2>1. t \in Unresolved \/ MarkedBehind(t)'
    BY DEF Later
  <2>2. t \in Unresolved => MarkedBehind(t) /\ flaggedBy'[t] = flaggedBy[t]
    BY DEF Adjudicated, Resolved, Later
  <2>3. QED
    BY <2>1, <2>2 DEF MarkedBehind
<1>6. RecloseKeepsBilled'
  BY DEF Adjudicated, RecloseKeepsBilled
<1>7. QED
  BY <1>2, <1>3, <1>4, <1>5, <1>6 DEF Adjudicated

LEMMA FlagNextKeeps ==
  ASSUME CloseInv, NEW c \in Closers, FlagNext(c)
  PROVE  CloseInv'
<1>1. TypeOK /\ Adjudicated /\ Closing(c)
  BY DEF CloseInv
<1>2. /\ closer[c].pc = "flag"
      /\ UNCHANGED <<ended, priced, closed, version, bills, reopener, ingest, sweep, decidedAt, scanned, asked>>
  BY DEF FlagNext, ledger
<1>3. /\ ended /\ closer[c].version \in 1..version /\ closer[c].billed = bills[closer[c].version]
      /\ asked[c] \ Unmeasured \subseteq closer[c].billed
      /\ closer[c].month \subseteq Stored /\ closer[c].todo \subseteq Stored
      /\ closer[c].todo \cap closer[c].billed = {}
      /\ \A t \in closer[c].month : t \in closer[c].billed \/ t \in closer[c].todo \/ trace[t].flagged
  BY <1>1, <1>2 DEF Closing, Fresh, Reconciling
<1>4. asked' = [asked EXCEPT ![c] = asked[c]] /\ asked[c] \in SUBSET Traces /\ version \in Nat
  BY <1>1, <1>2, CloserTyped
<1>5. CASE closer[c].todo = {} /\ closer' = [closer EXCEPT ![c].pc = "absorb", ![c].todo = closer[c].billed]
           /\ UNCHANGED <<trace, flaggedBy>>
  <2> DEFINE s == [closer[c] EXCEPT !.pc = "absorb", !.todo = closer[c].billed]
  <2>1. closer' = [closer EXCEPT ![c] = s]
    BY <1>1, <1>5, CloserTyped
  <2>2. /\ s \in CloserStates /\ s.pc = "absorb" /\ s.version = closer[c].version /\ s.billed = closer[c].billed
        /\ s.month = closer[c].month /\ s.todo = closer[c].billed
    BY <1>1, CloserTyped DEF CloserStates, ClosePhases
  <2> HIDE DEF s
  <2>3. closer'[c] = s /\ asked'[c] = asked[c] /\ Stored' = Stored
    BY <1>1, <1>4, <1>5, <2>1, CloserTyped DEF Stored
  <2>4. Closing(c)'
    BY <1>2, <1>3, <1>5, <2>2, <2>3 DEF Closing, Fresh, Reading, Reconciling
  <2>5. QED
    BY <1>2, <1>4, <1>5, <2>1, <2>2, <2>4, CloserLooks
<1>6. ASSUME NEW t \in closer[c].todo,
             closer' = [closer EXCEPT ![c].todo = closer[c].todo \ {t}],
             IF trace[t].flagged
             THEN UNCHANGED <<trace, flaggedBy>>
             ELSE /\ trace' = [trace EXCEPT ![t].flagged = TRUE]
                  /\ flaggedBy' = [flaggedBy EXCEPT ![t] = closer[c].version]
      PROVE  CloseInv'
  <2> DEFINE s == [closer[c] EXCEPT !.todo = closer[c].todo \ {t}]
  <2>1. closer' = [closer EXCEPT ![c] = s]
    BY <1>1, <1>6, CloserTyped
  <2>2. /\ s \in CloserStates /\ s.pc = "flag" /\ s.version = closer[c].version /\ s.billed = closer[c].billed
        /\ s.month = closer[c].month /\ s.todo = closer[c].todo \ {t}
    BY <1>1, <1>2, CloserTyped DEF CloserStates
  <2> HIDE DEF s
  <2>3. closer'[c] = s /\ asked'[c] = asked[c] /\ t \in Traces /\ t \in Stored
    BY <1>1, <1>2, <1>3, <2>1, <1>6, CloserTyped
  <2>4. /\ trace' \in [Traces -> TraceDocs] /\ flaggedBy' \in [Traces -> Nat]
        /\ trace'[t].flagged
        /\ \A u \in Traces : /\ trace'[u].status = trace[u].status /\ trace'[u].absorbed = trace[u].absorbed
                             /\ u # t => trace'[u] = trace[u]
                             /\ u # t => flaggedBy'[u] = flaggedBy[u]
        /\ trace[t].flagged => trace'[t] = trace[t] /\ flaggedBy'[t] = flaggedBy[t]
        /\ ~trace[t].flagged => flaggedBy'[t] = closer[c].version
    <3>1. CASE trace[t].flagged
      BY <1>1, <1>6, <2>3, <3>1, TraceTyped
    <3>2. CASE ~trace[t].flagged
      <4>1. trace' = [trace EXCEPT ![t].flagged = TRUE] /\ flaggedBy' = [flaggedBy EXCEPT ![t] = closer[c].version]
        BY <1>6, <3>2
      <4>2. closer[c].version \in Nat /\ flaggedBy \in [Traces -> Nat]
        BY <1>1, <2>3, CloserTyped, TraceTyped
      <4>3. /\ flaggedBy' \in [Traces -> Nat] /\ flaggedBy'[t] = closer[c].version
            /\ \A u \in Traces : u # t => flaggedBy'[u] = flaggedBy[u]
        BY <2>3, <4>1, <4>2
      <4>4. /\ trace' \in [Traces -> TraceDocs] /\ trace'[t].flagged
            /\ trace'[t].status = trace[t].status /\ trace'[t].absorbed = trace[t].absorbed
            /\ \A u \in Traces : u # t => trace'[u] = trace[u]
        BY <1>1, <2>3, <4>1, TraceTyped DEF TraceDocs
      <4>5. QED
        BY <3>2, <4>3, <4>4
    <3>3. QED
      BY <3>1, <3>2
  <2>5. Stored' = Stored /\ Stamped' = Stamped
    BY <2>4 DEF Stored, Stamped
  <2>6. \A u \in Traces : trace[u].flagged => trace'[u].flagged /\ flaggedBy'[u] = flaggedBy[u]
    BY <2>4
  <2>7. t \notin bills[closer[c].version]
    BY <1>3, <1>6
  <2>8. ASSUME version > 0, NEW u \in bills[version], (u \in Unresolved)' PROVE u \in Unresolved \/ MarkedBehind(u)'
    <3>1. u \in Traces
      BY <2>8 DEF Unresolved, Stored
    <3>2. CASE u # t \/ trace[t].flagged
      <4>1. trace'[u] = trace[u]
        BY <2>4, <3>1, <3>2
      <4>2. QED
        BY <2>5, <2>8, <4>1 DEF Unresolved
    <3>3. CASE u = t /\ ~trace[t].flagged
      <4>1. flaggedBy'[u] = closer[c].version /\ closer[c].version # version
        BY <2>4, <2>7, <2>8, <3>3
      <4>2. closer[c].version \in 1..(version - 1)
        BY <1>3, <1>4, <4>1
      <4>3. QED
        BY <1>2, <4>1, <4>2 DEF MarkedBehind
    <3>4. QED
      BY <3>2, <3>3
  <2>9. \A u \in Traces : u \in Unresolved => flaggedBy'[u] = flaggedBy[u]
    BY <2>6 DEF Unresolved
  <2>10. Later
    <3>1. \A u \in Unresolved : u \in Traces
      BY DEF Unresolved, Stored
    <3>2. QED
      BY <1>2, <1>4, <2>4, <2>6, <2>8, <2>9, <3>1 DEF Later
  <2>11. AbsorptionNamesItsBill'
    BY <1>1, <1>2, <2>4, <2>6 DEF Adjudicated, AbsorptionNamesItsBill
  <2>12. Adjudicated'
    <3>1. /\ \A u \in Traces : trace'[u].status = "unmeasured" => u \in Unmeasured
          /\ \A u \in Traces : decidedAt'[u] <= version
      BY <1>1, <1>2, <2>4 DEF Adjudicated, StoreInv
    <3>2. QED
      BY <1>1, <1>2, <2>4, <2>10, <2>11, <3>1, TracesWritten
  <2>13. Closing(c)'
    <3>1. \A u \in s.month : u \in s.billed \/ u \in s.todo \/ trace'[u].flagged
      <4>1. \A u \in closer[c].month : u \in Traces
        BY <1>1, CloserTyped
      <4>2. QED
        BY <1>3, <2>2, <2>4, <2>6, <4>1
    <3>2. QED
      BY <1>2, <1>3, <2>2, <2>3, <2>5, <3>1 DEF Closing, Fresh, Reading, Reconciling
  <2>14. closed' \in BOOLEAN /\ version' \in Nat
         /\ bills' \in [1..version' -> SUBSET Traces] /\ scanned' \in [1..version' -> SUBSET Traces]
    BY <1>1, <1>2 DEF TypeOK
  <2>15. QED
    BY <1>2, <1>4, <2>1, <2>2, <2>4, <2>10, <2>12, <2>13, <2>14, CloserStepKeeps
<1>7. QED
  BY <1>5, <1>6 DEF FlagNext

LEMMA AbsorbNextKeeps ==
  ASSUME CloseInv, NEW c \in Closers, AbsorbNext(c)
  PROVE  CloseInv'
<1>1. TypeOK /\ Adjudicated /\ Closing(c)
  BY DEF CloseInv
<1>2. /\ closer[c].pc = "absorb"
      /\ UNCHANGED <<ended, priced, closed, version, bills, reopener, ingest, sweep, decidedAt, flaggedBy>>
  BY DEF AbsorbNext, ledger
<1>3. /\ ended /\ closer[c].version \in 1..version /\ closer[c].billed = bills[closer[c].version]
      /\ asked[c] \ Unmeasured \subseteq closer[c].billed
      /\ closer[c].month \subseteq Stored /\ closer[c].todo \subseteq closer[c].billed
      /\ \A t \in closer[c].month : t \in closer[c].billed \/ trace[t].flagged
      /\ closer[c].version = version =>
           \A t \in closer[c].billed \ closer[c].todo : t \in Unresolved => MarkedBehind(t)
  BY <1>1, <1>2 DEF Closing, Fresh, Reconciling
<1>4. version \in Nat /\ flaggedBy \in [Traces -> Nat] /\ closer[c].version \in Nat
      /\ scanned \in [1..version -> SUBSET Traces] /\ bills \in [1..version -> SUBSET Traces]
  BY <1>1, CloserTyped DEF TypeOK
<1>5. CASE /\ closer[c].todo = {} /\ closer' = [closer EXCEPT ![c] = Over]
           /\ asked' = [asked EXCEPT ![c] = {}] /\ UNCHANGED trace
           /\ scanned' = [scanned EXCEPT ![closer[c].version] = scanned[closer[c].version] \cup closer[c].month]
  <2>1. closer'[c] = Over /\ asked'[c] = {}
    BY <1>1, <1>5, CloserTyped
  <2>2. /\ scanned' \in [1..version -> SUBSET Traces]
        /\ scanned'[closer[c].version] = scanned[closer[c].version] \cup closer[c].month
        /\ \A v \in 1..version : v # closer[c].version => scanned'[v] = scanned[v]
    BY <1>1, <1>3, <1>4, <1>5, CloserTyped
  <2>3. (Stored' = Stored) /\ (Stamped' = Stamped) /\ (Unresolved' = Unresolved)
    BY <1>5 DEF Stored, Stamped, Unresolved
  <2>4. Later
    BY <1>2, <1>4, <1>5, <2>3 DEF Later
  <2>5. StoreInv'
    <3>1. \A v \in 1..version : scanned'[v] \subseteq Stored
      BY <1>1, <1>3, <2>2 DEF Adjudicated, StoreInv
    <3>2. QED
      BY <1>1, <1>2, <1>5, <2>3, <3>1 DEF Adjudicated, StoreInv
  <2>6. AdjudicatedByScan'
    <3> SUFFICES ASSUME NEW v \in 1..version, NEW t \in scanned'[v]
                 PROVE  t \in bills[v] \/ trace[t].flagged
      BY <1>2, <1>5 DEF AdjudicatedByScan
    <3>1. CASE t \in scanned[v]
      BY <1>1, <3>1 DEF Adjudicated, AdjudicatedByScan
    <3>2. CASE t \notin scanned[v]
      BY <1>3, <2>2, <3>2
    <3>3. QED
      BY <3>1, <3>2
  <2>7. LateIsFlagged' /\ AbsorptionNamesItsBill' /\ RecloseKeepsBilled'
    BY <1>1, <1>2, <1>5, <2>3 DEF Adjudicated, LateIsFlagged, AbsorptionNamesItsBill, RecloseKeepsBilled
  <2>8. Resolved'
    <3> SUFFICES ASSUME version > 0, NEW t \in bills[version], t \in scanned'[version], t \in Unresolved
                 PROVE  MarkedBehind(t)
      BY <1>2, <2>3 DEF Resolved, MarkedBehind
    <3>1. CASE closer[c].version = version
      BY <1>3, <1>5, <3>1
    <3>2. CASE closer[c].version # version
      <4>1. version \in 1..version /\ scanned'[version] = scanned[version]
        BY <1>4, <2>2, <3>2
      <4>2. QED
        BY <1>1, <4>1 DEF Adjudicated, Resolved
    <3>3. QED
      BY <3>1, <3>2
  <2>9. Adjudicated'
    BY <2>5, <2>6, <2>7, <2>8 DEF Adjudicated
  <2>10. trace' \in [Traces -> TraceDocs] /\ closed' \in BOOLEAN /\ {} \in SUBSET Traces
    BY <1>1, <1>2, <1>5 DEF TypeOK
  <2>11. QED
    BY <1>2, <1>4, <1>5, <2>1, <2>2, <2>4, <2>9, <2>10, OverTyped, OverStands, CloserStepKeeps
<1>6. ASSUME NEW t \in closer[c].todo,
             closer' = [closer EXCEPT ![c].todo = closer[c].todo \ {t}],
             trace' = IF trace[t].flagged
                      THEN [trace EXCEPT ![t].absorbed = closer[c].version] ELSE trace,
             UNCHANGED <<asked, scanned>>
      PROVE  CloseInv'
  <2> DEFINE s == [closer[c] EXCEPT !.todo = closer[c].todo \ {t}]
  <2>1. closer' = [closer EXCEPT ![c] = s] /\ asked' = [asked EXCEPT ![c] = asked[c]]
        /\ asked[c] \in SUBSET Traces
    BY <1>1, <1>6, CloserTyped
  <2>2. /\ s \in CloserStates /\ s.pc = "absorb" /\ s.version = closer[c].version /\ s.billed = closer[c].billed
        /\ s.month = closer[c].month /\ s.todo = closer[c].todo \ {t}
    BY <1>1, <1>2, CloserTyped DEF CloserStates
  <2> HIDE DEF s
  <2>3. closer'[c] = s /\ asked'[c] = asked[c] /\ t \in Traces /\ t \in bills[closer[c].version]
    BY <1>1, <1>3, <2>1, <1>6, CloserTyped
  <2>4. /\ trace' \in [Traces -> TraceDocs]
        /\ \A u \in Traces : /\ trace'[u].status = trace[u].status /\ trace'[u].flagged = trace[u].flagged
                             /\ u # t => trace'[u] = trace[u]
        /\ trace[t].flagged => trace'[t].absorbed = closer[c].version
        /\ ~trace[t].flagged => trace'[t] = trace[t]
    <3>1. CASE ~trace[t].flagged
      BY <1>1, <1>6, <2>3, <3>1, TraceTyped
    <3>2. CASE trace[t].flagged
      <4>1. trace' = [trace EXCEPT ![t].absorbed = closer[c].version]
        BY <1>6, <3>2
      <4>2. QED
        BY <1>1, <1>4, <2>3, <3>2, <4>1, TraceTyped DEF TraceDocs
    <3>3. QED
      BY <3>1, <3>2
  <2>5. Stored' = Stored /\ Stamped' = Stamped
    BY <2>4 DEF Stored, Stamped
  <2>6. t \notin Unresolved'
    <3>1. closer[c].version # 0
      BY <1>3, <1>4
    <3>2. QED
      BY <2>3, <2>4, <3>1 DEF Unresolved
  <2>7. \A u \in Traces : u # t => (u \in Unresolved' <=> u \in Unresolved)
    BY <2>4, <2>5 DEF Unresolved
  <2>8. Unresolved' \subseteq Unresolved /\ Unresolved' \subseteq Traces
    BY <2>5, <2>6, <2>7 DEF Unresolved, Stored
  <2>9. Later
    BY <1>2, <1>4, <2>4, <2>8 DEF Later
  <2>10. AbsorptionNamesItsBill'
    <3> SUFFICES ASSUME NEW u \in Traces, trace'[u].absorbed # 0
                 PROVE  /\ trace'[u].flagged /\ trace'[u].absorbed \in 1..version
                        /\ u \in bills[trace'[u].absorbed]
      BY <1>2 DEF AbsorptionNamesItsBill
    <3>1. CASE trace'[u] = trace[u]
      BY <1>1, <3>1 DEF Adjudicated, AbsorptionNamesItsBill
    <3>2. CASE trace'[u] # trace[u]
      <4>1. u = t /\ trace[t].flagged
        BY <2>4, <3>2
      <4>2. QED
        BY <1>3, <2>3, <2>4, <4>1
    <3>3. QED
      BY <3>1, <3>2
  <2>11. Adjudicated'
    <3>1. /\ \A u \in Traces : trace'[u].status = "unmeasured" => u \in Unmeasured
          /\ \A u \in Traces : decidedAt'[u] <= version
      BY <1>1, <1>2, <2>4 DEF Adjudicated, StoreInv
    <3>2. QED
      BY <1>1, <1>2, <1>6, <2>4, <2>9, <2>10, <3>1, TracesWritten
  <2>12. Closing(c)'
    <3>1. \A u \in closer[c].month : u \in Traces
      BY <1>1, CloserTyped
    <3>2. ASSUME s.version = version, NEW u \in s.billed \ s.todo, u \in Unresolved' PROVE MarkedBehind(u)'
      <4>1. u # t /\ u \in closer[c].billed \ closer[c].todo /\ u \in Unresolved
        BY <2>2, <2>6, <2>8, <3>2
      <4>2. QED
        BY <1>2, <1>3, <2>2, <3>2, <4>1 DEF MarkedBehind
    <3>3. Reconciling(c)'
      BY <1>2, <1>3, <2>2, <2>3, <2>4, <2>5, <3>1, <3>2 DEF Reconciling
    <3>4. QED
      BY <1>2, <1>3, <2>2, <2>3, <3>3 DEF Closing, Fresh, Reading
  <2>13. flaggedBy' \in [Traces -> Nat] /\ closed' \in BOOLEAN /\ version' \in Nat
         /\ bills' \in [1..version' -> SUBSET Traces] /\ scanned' \in [1..version' -> SUBSET Traces]
    BY <1>1, <1>2, <1>6 DEF TypeOK
  <2>14. QED
    BY <1>2, <2>1, <2>2, <2>4, <2>9, <2>11, <2>12, <2>13, CloserStepKeeps
<1>7. QED
  BY <1>5, <1>6 DEF AbsorbNext, Marked

-----------------------------------------------------------------------------
(* Ingestion and the reprocess sweep. *)

\* A step of one ingestion.
LEMMA IngestStepKeeps ==
  ASSUME CloseInv, NEW i \in Ingests, NEW s \in IngestStates,
         ingest' = [ingest EXCEPT ![i] = s],
         UNCHANGED <<ended, priced, closed, version, bills, closer, reopener, sweep, flaggedBy, scanned, asked>>,
         trace' \in [Traces -> TraceDocs], decidedAt' \in [Traces -> Nat],
         Later, Adjudicated', Ingesting(i)'
  PROVE  CloseInv'
<1>1. TypeOK /\ ingest \in [Ingests -> IngestStates]
  BY DEF CloseInv, TypeOK
<1>2. TypeOK'
  BY <1>1 DEF TypeOK
<1>3. ASSUME NEW j \in Ingests, j # i PROVE Ingesting(j)'
  <2>1. ingest'[j] = ingest[j]
    BY <1>1, <1>3
  <2>2. QED
    BY <1>1, <1>3, <2>1, IngestWaits DEF CloseInv
<1>4. ASSUME NEW c \in Closers PROVE Closing(c)'
  BY <1>1, CloserWaits DEF CloseInv
<1>5. QED
  BY <1>2, <1>3, <1>4 DEF CloseInv

\* An ingestion that has not written yet.
LEMMA IngestLooks ==
  ASSUME CloseInv, NEW i \in Ingests, NEW s \in IngestStates,
         ingest' = [ingest EXCEPT ![i] = s],
         UNCHANGED <<ended, priced, trace, closed, version, bills, closer, reopener, sweep,
                     decidedAt, flaggedBy, scanned, asked>>,
         Ingesting(i)'
  PROVE  CloseInv'
<1>1. TypeOK /\ Adjudicated
  BY DEF CloseInv
<1>2. Later /\ Adjudicated'
  BY <1>1, QuietStep
<1>3. trace' \in [Traces -> TraceDocs] /\ decidedAt' \in [Traces -> Nat]
  BY <1>1 DEF TypeOK
<1>4. QED
  BY <1>2, <1>3, IngestStepKeeps

LEMMA StartCycleKeeps ==
  ASSUME CloseInv, NEW i \in Ingests, StartCycle(i)
  PROVE  CloseInv'
<1> DEFINE s == [ingest[i] EXCEPT !.pc = "price", !.seen = closed]
<1>1. TypeOK /\ Ingesting(i)
  BY DEF CloseInv
<1>2. UNCHANGED <<ended, priced, trace, closed, version, bills, closer, reopener, sweep,
                  decidedAt, flaggedBy, scanned, asked>>
  BY DEF StartCycle, ledger, past
<1>3. ingest' = [ingest EXCEPT ![i] = s]
  BY <1>1, IngestTyped DEF StartCycle
<1>4. s \in IngestStates /\ s.pc = "price" /\ s.status = ingest[i].status /\ s.trace = ingest[i].trace
  <2>1. closed \in BOOLEAN
    BY <1>1 DEF TypeOK
  <2>2. QED
    BY <1>1, <2>1, IngestTyped DEF IngestStates
<1> HIDE DEF s
<1>5. ingest'[i] = s
  BY <1>1, <1>3, IngestTyped
<1>6. Ingesting(i)'
  BY <1>1, <1>4, <1>5 DEF Ingesting
<1>7. QED
  BY <1>2, <1>3, <1>4, <1>6, IngestLooks

LEMMA PriceAndClockKeeps ==
  ASSUME CloseInv, NEW i \in Ingests, PriceAndClock(i)
  PROVE  CloseInv'
<1> DEFINE s == [ingest[i] EXCEPT !.status = StampStatus(ingest[i].trace), !.quarantined = ingest[i].seen,
                                  !.decided = version,
                                  !.pc = IF ingest[i].seen \/ ~ended THEN "insert" ELSE "fresh"]
<1>1. TypeOK /\ StoreInv
  BY DEF CloseInv, Adjudicated
<1>2. UNCHANGED <<ended, priced, trace, closed, version, bills, closer, reopener, sweep,
                  decidedAt, flaggedBy, scanned, asked>>
  BY DEF PriceAndClock, ledger, past
<1>3. ingest' = [ingest EXCEPT ![i] = s]
  BY <1>1, IngestTyped DEF PriceAndClock
<1>4. /\ s \in IngestStates /\ s.pc = IF ingest[i].seen \/ ~ended THEN "insert" ELSE "fresh"
      /\ s.status = StampStatus(ingest[i].trace) /\ s.trace = ingest[i].trace
      /\ s.quarantined = ingest[i].seen /\ s.decided = version
  <2>1. StampStatus(ingest[i].trace) \in Statuses
    BY DEF StampStatus, Statuses
  <2> HIDE DEF StampStatus
  <2>2. QED
    BY <1>1, <2>1, IngestTyped DEF IngestStates
<1> HIDE DEF s
<1>5. ingest'[i] = s /\ version \in Nat
  BY <1>1, <1>3, IngestTyped
<1>6. s.status = "unmeasured" => s.trace \in Unmeasured
  BY <1>4 DEF StampStatus
<1>7. Ingesting(i)'
  BY <1>1, <1>2, <1>4, <1>5, <1>6 DEF Ingesting, StoreInv
<1>8. QED
  BY <1>2, <1>3, <1>4, <1>7, IngestLooks

LEMMA FreshnessKeeps ==
  ASSUME CloseInv, NEW i \in Ingests, Freshness(i)
  PROVE  CloseInv'
<1> DEFINE s == [ingest[i] EXCEPT !.quarantined = closed, !.decided = version, !.pc = "insert"]
<1>1. TypeOK /\ Ingesting(i)
  BY DEF CloseInv
<1>2. UNCHANGED <<ended, priced, trace, closed, version, bills, closer, reopener, sweep,
                  decidedAt, flaggedBy, scanned, asked>>
  BY DEF Freshness, ledger, past
<1>3. ingest' = [ingest EXCEPT ![i] = s]
  BY <1>1, IngestTyped DEF Freshness, FreshlyClosed
<1>4. /\ s \in IngestStates /\ s.pc = "insert" /\ s.status = ingest[i].status /\ s.trace = ingest[i].trace
      /\ s.quarantined = closed /\ s.decided = version
  <2>1. closed \in BOOLEAN
    BY <1>1 DEF TypeOK
  <2>2. QED
    BY <1>1, <2>1, IngestTyped DEF IngestStates
<1> HIDE DEF s
<1>5. ingest'[i] = s /\ version \in Nat
  BY <1>1, <1>3, IngestTyped
<1>6. Ingesting(i)'
  BY <1>1, <1>2, <1>4, <1>5 DEF Ingesting
<1>7. QED
  BY <1>2, <1>3, <1>4, <1>6, IngestLooks

LEMMA InsertKeeps ==
  ASSUME CloseInv, NEW i \in Ingests, Insert(i)
  PROVE  CloseInv'
<1> DEFINE t == ingest[i].trace
           s == [ingest[i] EXCEPT !.pc = "done", !.seen = FALSE, !.quarantined = FALSE,
                                  !.status = "absent", !.decided = 0]
<1>1. TypeOK /\ Adjudicated /\ Ingesting(i) /\ t \in Traces
  BY IngestTyped DEF CloseInv
<1>2. /\ ingest[i].pc = "insert"
      /\ UNCHANGED <<ended, priced, closed, version, bills, closer, reopener, sweep, flaggedBy, scanned, asked>>
  BY DEF Insert, ledger
<1>3. ingest' = [ingest EXCEPT ![i] = s]
  BY <1>1, IngestTyped DEF Insert
<1>4. s \in IngestStates /\ s.pc = "done" /\ s.status = "absent"
  BY <1>1, IngestTyped DEF IngestStates, Statuses
<1>5. Ingesting(i)'
  <2> HIDE DEF s
  <2>1. ingest'[i] = s
    BY <1>1, <1>3, IngestTyped
  <2>2. QED
    BY <1>4, <2>1 DEF Ingesting
<1>6. CASE trace[t].status # "absent"
  <2>1. UNCHANGED <<trace, decidedAt>>
    BY <1>1, <1>6 DEF Insert, AlreadyStored, Stored
  <2> HIDE DEF s, t
  <2>2. QED
    BY <1>2, <1>3, <1>4, <1>5, <2>1, IngestLooks
<1>7. CASE trace[t].status = "absent"
  <2>1. /\ trace' = [trace EXCEPT ![t].status = ingest[i].status, ![t].flagged = ingest[i].quarantined]
        /\ decidedAt' = [decidedAt EXCEPT ![t] = ingest[i].decided]
    BY <1>1, <1>7 DEF Insert, AlreadyStored, Stored
  <2>2. ingest[i].status \in Statuses /\ ingest[i].quarantined \in BOOLEAN /\ ingest[i].decided \in Nat
    BY <1>1, IngestTyped
  <2> HIDE DEF s, t
  <2>3. /\ trace' \in [Traces -> TraceDocs] /\ trace'[t].status = ingest[i].status
        /\ trace'[t].flagged = ingest[i].quarantined /\ trace'[t].absorbed = trace[t].absorbed
        /\ \A u \in Traces : u # t => trace'[u] = trace[u]
    BY <1>1, <2>1, <2>2, TraceTyped DEF TraceDocs
  <2>4. /\ decidedAt' \in [Traces -> Nat] /\ decidedAt'[t] = ingest[i].decided
        /\ \A u \in Traces : u # t => decidedAt'[u] = decidedAt[u]
    BY <1>1, <2>1, <2>2, TraceTyped
  <2>5. t \notin Stamped /\ t \notin Stored /\ trace[t].absorbed = 0
    <3>1. t \notin Stamped /\ t \notin Stored
      BY <1>7 DEF Stamped, Stored
    <3>2. QED
      BY <1>1, <3>1 DEF Adjudicated, StoreInv, AbsorptionNamesItsBill
  <2>6. version > 0 => t \notin bills[version] /\ bills[version] \subseteq Traces
    <3>1. version > 0 => version \in 1..version /\ bills[version] \subseteq Traces
      BY <1>1 DEF TypeOK
    <3>2. QED
      BY <1>1, <2>5, <3>1 DEF Adjudicated, StoreInv
  <2>7. version > 0 => \A u \in bills[version] : u \in Unresolved' <=> u \in Unresolved
    BY <2>3, <2>6 DEF Unresolved, Stored
  <2>8. Later
    <3>1. version \in Nat
      BY <1>1, IngestTyped
    <3>2. \A u \in Traces : trace[u].status # "absent" => trace'[u] = trace[u]
      BY <1>7, <2>3
    <3>3. QED
      BY <1>2, <1>7, <2>7, <3>1, <3>2 DEF Later
  <2>9. AbsorptionNamesItsBill'
    <3> SUFFICES ASSUME NEW u \in Traces, trace'[u].absorbed # 0
                 PROVE  /\ trace'[u].flagged /\ trace'[u].absorbed \in 1..version
                        /\ u \in bills[trace'[u].absorbed]
      BY <1>2 DEF AbsorptionNamesItsBill
    <3>1. u # t /\ trace'[u] = trace[u]
      BY <2>3, <2>5
    <3>2. QED
      BY <1>1, <3>1 DEF Adjudicated, AbsorptionNamesItsBill
  <2>10. ingest[i].decided <= version /\ (ingest[i].quarantined \/ ~closed \/ ingest[i].decided < version)
         /\ (ingest[i].status = "unmeasured" => t \in Unmeasured)
    BY <1>1, <1>2 DEF Ingesting, t
  <2>11. Adjudicated'
    <3>1. \A u \in Traces : trace'[u].status = "unmeasured" => u \in Unmeasured
      BY <1>1, <2>3, <2>10 DEF Adjudicated, StoreInv
    <3>2. \A u \in Traces : decidedAt'[u] <= version
      BY <1>1, <2>4, <2>10 DEF Adjudicated, StoreInv
    <3>3. \A u \in Traces : trace[u].status = "absent" \/ decidedAt'[u] = decidedAt[u]
      BY <1>7, <2>4
    <3>4. closed => \A u \in Traces : trace[u].status = "absent" /\ trace'[u].status # "absent" =>
                      trace'[u].flagged \/ decidedAt'[u] < version
      BY <2>3, <2>4, <2>10
    <3>5. QED
      BY <1>1, <1>2, <2>8, <2>9, <3>1, <3>2, <3>3, <3>4, TracesWritten
  <2>12. QED
    BY <1>2, <1>3, <1>4, <1>5, <2>3, <2>4, <2>8, <2>11, IngestStepKeeps
<1>8. QED
  BY <1>6, <1>7

\* A step that no close and no ingestion takes.
LEMMA OthersKeep ==
  ASSUME CloseInv, TypeOK', Later, Adjudicated', UNCHANGED <<closer, ingest, asked>>
  PROVE  CloseInv'
<1>1. TypeOK
  BY DEF CloseInv
<1>2. ASSUME NEW i \in Ingests PROVE Ingesting(i)'
  BY <1>1, IngestWaits DEF CloseInv
<1>3. ASSUME NEW c \in Closers PROVE Closing(c)'
  BY <1>1, CloserWaits DEF CloseInv
<1>4. QED
  BY <1>2, <1>3 DEF CloseInv

\* The clock, the price, a call that only looks, and a stutter.
LEMMA IdleKeeps ==
  ASSUME CloseInv, ended => ended', ended' \in BOOLEAN, priced' \in BOOLEAN,
         reopener' \in [Reopeners -> {"find", "mark", "done"}],
         sweep' \in [Sweeps -> {"start", "open", "done"}],
         UNCHANGED <<trace, closed, version, bills, closer, ingest, decidedAt, flaggedBy, scanned, asked>>
  PROVE  CloseInv'
<1>1. TypeOK /\ Adjudicated
  BY DEF CloseInv
<1>2. TypeOK'
  BY <1>1 DEF TypeOK
<1>3. QED
  BY <1>1, <1>2, QuietStep, OthersKeep

LEMMA SweepStampKeeps ==
  ASSUME CloseInv, NEW s \in Sweeps, NEW t \in Traces, SweepStamp(s, t)
  PROVE  CloseInv'
<1>1. TypeOK /\ Adjudicated /\ "stamped" \in Statuses
  BY DEF CloseInv, Statuses
<1>2. /\ trace[t].status = "pending" /\ trace' = [trace EXCEPT ![t].status = "stamped"]
      /\ UNCHANGED <<ended, priced, closed, version, bills, closer, reopener, ingest, sweep>>
      /\ UNCHANGED <<decidedAt, flaggedBy, scanned, asked>>
  BY DEF SweepStamp, ledger, calls, past
<1>3. /\ trace' \in [Traces -> TraceDocs] /\ trace'[t].status = "stamped"
      /\ trace'[t].flagged = trace[t].flagged /\ trace'[t].absorbed = trace[t].absorbed
      /\ \A u \in Traces : u # t => trace'[u] = trace[u]
  BY <1>1, <1>2, TraceTyped DEF TraceDocs
<1>4. \A u \in Traces : trace'[u].flagged = trace[u].flagged /\ trace'[u].absorbed = trace[u].absorbed
  BY <1>3
<1>5. Unresolved' = Unresolved /\ Stored' = Stored
  BY <1>2, <1>3 DEF Unresolved, Stored
<1>6. Later
  BY <1>1, <1>2, <1>3, <1>5, TraceTyped DEF Later
<1>7. AbsorptionNamesItsBill'
  BY <1>1, <1>2, <1>4 DEF Adjudicated, AbsorptionNamesItsBill
<1>8. Adjudicated'
  <2>1. /\ \A u \in Traces : trace'[u].status = "unmeasured" => u \in Unmeasured
        /\ \A u \in Traces : decidedAt'[u] <= version
    BY <1>1, <1>2, <1>3 DEF Adjudicated, StoreInv
  <2>2. QED
    BY <1>1, <1>2, <1>3, <1>6, <1>7, <2>1, TracesWritten
<1>9. TypeOK'
  BY <1>1, <1>2, <1>3 DEF TypeOK
<1>10. QED
  BY <1>2, <1>6, <1>8, <1>9, OthersKeep

\* The reopen keeps every bill, and whoever decided while the month was closed
\* is older than the next close.
LEMMA MarkReopenedKeeps ==
  ASSUME CloseInv, NEW x \in Reopeners, MarkReopened(x)
  PROVE  CloseInv'
<1>1. TypeOK /\ Adjudicated
  BY DEF CloseInv
<1>2. /\ reopener' = [reopener EXCEPT ![x] = "done"]
      /\ UNCHANGED <<ended, priced, trace, version, bills, closer, ingest, sweep>>
      /\ UNCHANGED <<decidedAt, flaggedBy, scanned, asked>>
      /\ closed' = FALSE
  BY <1>1 DEF MarkReopened, ledger, past, Ledger!Reopen, TypeOK
<1>3. (Stored' = Stored) /\ (Stamped' = Stamped) /\ (Unresolved' = Unresolved)
  BY <1>2 DEF Stored, Stamped, Unresolved
<1>4. Later
  BY <1>1, <1>2, <1>3 DEF Later, TypeOK
<1>5. StoreInv'
  BY <1>1, <1>2, <1>3 DEF Adjudicated, StoreInv
<1>6. AdjudicatedByScan' /\ LateIsFlagged' /\ AbsorptionNamesItsBill' /\ RecloseKeepsBilled'
  BY <1>1, <1>2 DEF Adjudicated, AdjudicatedByScan, LateIsFlagged, AbsorptionNamesItsBill, RecloseKeepsBilled
<1>7. Resolved'
  BY <1>1, <1>2, <1>3 DEF Adjudicated, Resolved, MarkedBehind
<1>8. TypeOK'
  BY <1>1, <1>2 DEF TypeOK
<1>9. QED
  BY <1>2, <1>4, <1>5, <1>6, <1>7, <1>8, OthersKeep DEF Adjudicated

-----------------------------------------------------------------------------
(* The invariant of the close. *)

LEMMA InitHolds ==
  Init => CloseInv
<1> SUFFICES ASSUME Init PROVE CloseInv
  OBVIOUS
<1> DEFINE begin == [Over EXCEPT !.pc = "find"]
<1>1. /\ version = 0 /\ closed = FALSE /\ bills = [v \in 1..0 |-> {}]
      /\ scanned = [v \in 1..0 |-> {}] /\ ended = FALSE
      /\ trace = [t \in Traces |-> [status |-> "absent", flagged |-> FALSE, absorbed |-> 0]]
      /\ decidedAt = [t \in Traces |-> 0] /\ closer = [c \in Closers |-> begin]
      /\ asked = [c \in Closers |-> {}]
  BY DEF Init, Ledger!Init
<1>2. begin \in CloserStates /\ begin.pc = "find" /\ begin.page = 1 /\ begin.billed = {}
  BY MonthAssumption DEF Over, CloserStates, ClosePhases
<1> HIDE DEF begin
<1>3. \A i \in Ingests : ingest[i] \in IngestStates /\ ingest[i].pc = "cycle" /\ ingest[i].status = "absent"
  <2>1. \A i \in Ingests : ingest[i] \in
          [pc : {"cycle"}, seen : {FALSE}, quarantined : {FALSE}, status : {"absent"},
           trace : Traces, decided : {0}]
    BY DEF Init
  <2>2. \A d \in [pc : {"cycle"}, seen : {FALSE}, quarantined : {FALSE}, status : {"absent"},
                  trace : Traces, decided : {0}] :
          d \in IngestStates /\ d.pc = "cycle" /\ d.status = "absent"
    <3>1. {FALSE} \subseteq BOOLEAN /\ {"absent"} \subseteq Statuses /\ {0} \subseteq Nat
          /\ {"cycle"} \subseteq {"cycle", "price", "fresh", "insert", "done"}
      BY DEF Statuses
    <3>2. QED
      BY <3>1, Zenon DEF IngestStates
  <2>3. QED
    BY <2>1, <2>2
<1>4. ingest \in [Ingests -> IngestStates]
  <2>1. ingest = [i \in Ingests |-> ingest[i]]
    BY DEF Init
  <2>2. QED
    BY <1>3, <2>1
<1>5. TypeOK
  <2>1. trace \in [Traces -> TraceDocs]
    BY <1>1 DEF TraceDocs, Statuses
  <2>2. closer \in [Closers -> CloserStates] /\ asked \in [Closers -> SUBSET Traces]
    BY <1>1, <1>2
  <2>3. bills \in [1..version -> SUBSET Traces] /\ scanned \in [1..version -> SUBSET Traces]
    BY <1>1
  <2>4. /\ priced \in BOOLEAN /\ flaggedBy \in [Traces -> Nat] /\ decidedAt \in [Traces -> Nat]
        /\ reopener \in [Reopeners -> {"find", "mark", "done"}]
        /\ sweep \in [Sweeps -> {"start", "open", "done"}]
    BY DEF Init
  <2>5. QED
    BY <1>1, <1>4, <2>1, <2>2, <2>3, <2>4 DEF TypeOK
<1>6. Adjudicated
  BY <1>1 DEF Adjudicated, StoreInv, AdjudicatedByScan, LateIsFlagged, Resolved,
              AbsorptionNamesItsBill, RecloseKeepsBilled
<1>7. \A i \in Ingests : Ingesting(i)
  BY <1>3 DEF Ingesting
<1>8. \A c \in Closers : Closing(c)
  BY <1>1, <1>2 DEF Closing, Fresh, Reading, Reconciling
<1>9. QED
  BY <1>5, <1>6, <1>7, <1>8 DEF CloseInv

LEMMA NextKeeps ==
  ASSUME CloseInv, [Next]_vars
  PROVE  CloseInv'
<1>1. TypeOK
  BY DEF CloseInv
<1>2. ASSUME NEW c \in Closers, CloserStep(c) PROVE CloseInv'
  BY <1>2, FindKeeps, PendingGuardKeeps, ChooseVersionKeeps, ReadPageKeeps, PublishKeeps,
     ScanMonthKeeps, FlagNextKeeps, AbsorbNextKeeps DEF CloserStep
<1>3. ASSUME NEW i \in Ingests, IngestStep(i) PROVE CloseInv'
  BY <1>3, StartCycleKeeps, PriceAndClockKeeps, FreshnessKeeps, InsertKeeps DEF IngestStep
<1>4. CASE MonthEnds
  <2>1. /\ ended' = TRUE
        /\ UNCHANGED <<priced, trace, closed, version, bills, closer, reopener, ingest, sweep>>
        /\ UNCHANGED <<decidedAt, flaggedBy, scanned, asked>>
    BY <1>4 DEF MonthEnds, ledger, calls, past
  <2>2. QED
    BY <1>1, <2>1, IdleKeeps DEF TypeOK
<1>5. CASE RegisterPrice
  <2>1. /\ priced' = TRUE
        /\ UNCHANGED <<ended, trace, closed, version, bills, closer, reopener, ingest, sweep>>
        /\ UNCHANGED <<decidedAt, flaggedBy, scanned, asked>>
    BY <1>5 DEF RegisterPrice, ledger, calls, past
  <2>2. QED
    BY <1>1, <2>1, IdleKeeps DEF TypeOK
<1>6. ASSUME NEW x \in Reopeners, ReopenFind(x) PROVE CloseInv'
  <2>1. /\ reopener' = [reopener EXCEPT ![x] = IF closed THEN "mark" ELSE "done"]
        /\ UNCHANGED <<ended, priced, trace, closed, version, bills, closer, ingest, sweep>>
        /\ UNCHANGED <<decidedAt, flaggedBy, scanned, asked>>
    BY <1>6 DEF ReopenFind, ledger, past
  <2>2. reopener' \in [Reopeners -> {"find", "mark", "done"}]
    BY <1>1, <2>1 DEF TypeOK
  <2>3. QED
    BY <1>1, <2>1, <2>2, IdleKeeps DEF TypeOK
<1>7. ASSUME NEW s \in Sweeps, SweepStart(s) PROVE CloseInv'
  <2>1. /\ sweep' = [sweep EXCEPT ![s] = IF closed THEN "done" ELSE "open"]
        /\ UNCHANGED <<ended, priced, trace, closed, version, bills, closer, reopener, ingest>>
        /\ UNCHANGED <<decidedAt, flaggedBy, scanned, asked>>
    BY <1>7 DEF SweepStart, ledger, past
  <2>2. sweep' \in [Sweeps -> {"start", "open", "done"}]
    BY <1>1, <2>1 DEF TypeOK
  <2>3. QED
    BY <1>1, <2>1, <2>2, IdleKeeps DEF TypeOK
<1>8. CASE UNCHANGED vars
  <2>1. UNCHANGED <<ended, priced, trace, ledger, calls, past>>
    BY <1>8 DEF vars
  <2>2. /\ UNCHANGED <<ended, priced, trace, closed, version, bills, closer, reopener, ingest, sweep>>
        /\ UNCHANGED <<decidedAt, flaggedBy, scanned, asked>>
    BY <2>1 DEF ledger, calls, past
  <2>3. QED
    BY <1>1, <2>2, IdleKeeps DEF TypeOK
<1>9. QED
  BY <1>2, <1>3, <1>4, <1>5, <1>6, <1>7, <1>8, MarkReopenedKeeps, SweepStampKeeps DEF Next

LEMMA Invariance ==
  Spec => []CloseInv
<1>1. CloseInv /\ [Next]_vars => CloseInv'
  BY NextKeeps
<1>2. QED
  BY InitHolds, <1>1, PTL DEF Spec

-----------------------------------------------------------------------------
(* The theorems. *)

\* Every document, header and local of close, reopen, ingestSourceTrace and the
\* reprocess sweep keeps its shape: in particular there is one bill, and one
\* record of scans, for every version up to the current one.
THEOREM CloseTypes == Spec => []TypeOK
<1>1. CloseInv => TypeOK
  BY DEF CloseInv
<1>2. QED
  BY <1>1, Invariance, PTL

\* The close that published a version billed every trace that was in the store
\* at its pending guard, except what no bill charges, however many price
\* registrations, marks, reopens and rival closes came in between.
THEOREM CloseBillsItsGuard == Spec => []CloseBillsWhatItSaw
<1>1. CloseInv => CloseBillsWhatItSaw
  BY DEF CloseInv, CloseBillsWhatItSaw, Closing, Reconciling
<1>2. QED
  BY <1>1, Invariance, PTL

\* reconcileQuarantineAfterClose, once done, has left no trace of its month
\* scan in between: billed by its version, or marked; also after the crash of
\* another reconciliation, a repair of an older version or a reopen.
THEOREM NothingInBetween == Spec => []AdjudicatedByScan
<1>1. CloseInv => AdjudicatedByScan
  BY DEF CloseInv, Adjudicated
<1>2. QED
  BY <1>1, Invariance, PTL

\* What enters a closed month unmarked and unbilled decided so before that
\* close committed: ingestSourceTrace's second look at the period catches every
\* set of closed months that the cycle read too early.
THEOREM LateEntriesFlagged == Spec => []LateIsFlagged
<1>1. CloseInv => LateIsFlagged
  BY DEF CloseInv, Adjudicated
<1>2. QED
  BY <1>1, Invariance, PTL

\* After pass 2 of the current version's reconciliation, what that version
\* bills can be open quarantine only through pass 1 of an older version's
\* reconciliation that is still running.
THEOREM BilledIsSettled == Spec => []ResolvedOnceBilled
<1>1. CloseInv => ResolvedOnceBilled
  BY DEF CloseInv, Adjudicated, StoreInv, Resolved, ResolvedOnceBilled, MarkedBehind
<1>2. QED
  BY <1>1, Invariance, PTL

\* absorbedInSnapshotVersion is only ever written over a mark, with a version
\* whose published bill charges the trace.
THEOREM AbsorptionIsHonest == Spec => []AbsorptionNamesItsBill
<1>1. CloseInv => AbsorptionNamesItsBill
  BY DEF CloseInv, Adjudicated
<1>2. QED
  BY <1>1, Invariance, PTL

\* A re-close is a superset of every bill before it: a close whose day pages
\* were read before a rival's publish loses on the version it chose.
THEOREM BillsOnlyGrow == Spec => []RecloseKeepsBilled
<1>1. CloseInv => RecloseKeepsBilled
  BY DEF CloseInv, Adjudicated
<1>2. QED
  BY <1>1, Invariance, PTL
=============================================================================
