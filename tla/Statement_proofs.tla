--------------------------- MODULE Statement_proofs ---------------------------
(***************************************************************************)
(* Proofs about statements. First how a close publishes one                *)
(* (SnapshotPublish), for every set of attempts, reopens, records and      *)
(* pages: type correctness, the inductive invariant behind the safety      *)
(* properties, and the implementation of MonthLedger. Then what is in it   *)
(* (StatementFold, StatementViews), for every set of usage records: the    *)
(* live statement and the closed one are the same, and every column, share *)
(* and bar of both adds up.                                                *)
(***************************************************************************)
EXTENDS SnapshotPublish, StatementViews, OrderLemmas, SequenceTheorems, FunctionTheorems

Working   == {"version", "fetch", "stage"}
Versioned == {"fetch", "stage", "discard", "sweep"}

(***************************************************************************)
(* The inductive invariant, in named parts.                                *)
(***************************************************************************)

\* The period counts the bills; a closed month has one.
PeriodInv ==
  /\ period.status = "closed" => period.snapshotVersion >= 1
  /\ period.status = "absent" => period.snapshotVersion = 0

\* An attempt at work chose a version at most one above the newest bill, above
\* the one it saw, and a month closed under its feet has a bill it did not see.
AttemptOK(a) ==
  LET s == attempt[a] IN
  /\ s.pc \in Working => s.known <= period.snapshotVersion
  /\ s.pc \in Working /\ period.status = "closed" => s.known < period.snapshotVersion
  /\ s.pc \in {"fetch", "stage"} =>
       s.known < s.version /\ s.version <= period.snapshotVersion + 1
  /\ s.pc = "sweep" =>
       /\ s.outcome = "closed"
       /\ \E h \in headers : h.version = s.version /\ h.token = a
  /\ s.outcome \in {"conflict", "refused"} => s.known < period.snapshotVersion
  /\ s.pc \in {"idle"} \cup Working => s.outcome = "none"
  /\ s.pc = "idle" => s.known = 0

AttemptInv == \A a \in Attempts : AttemptOK(a)

\* A header's attempt is past its commit: it stages and discards nothing more.
HeaderInv ==
  \A h \in headers : attempt[h.token].pc \in {"sweep", "done", "dead"}

\* The row attempt a stages for record r.
RowOf(a, r) == [version |-> attempt[a].version, token |-> a, record |-> r]

\* An attempt's rows lie under the key of the version it chose, and while it
\* stages a version nobody published (whose sweep would delete them), its rows
\* are what it folded and does not still hold; the pages are disjoint, so what
\* it folded lies in the pages before this one.
RowsOK(a) ==
  LET s == attempt[a] IN
  /\ \A r \in rows : r.token = a =>
       /\ s.pc \notin {"idle", "version"}
       /\ s.pc \in Versioned => r.version = s.version
  /\ s.pc \in {"idle", "version"} => s.buffer = {} /\ s.folded = {}
  /\ s.pc = "fetch" => s.buffer = {}
  /\ s.pc = "stage" => s.buffer \subseteq s.folded
  /\ s.pc \in {"fetch", "stage"} /\ ~HeaderExists(s.version) =>
       \A r \in Records : RowOf(a, r) \in rows <=> r \in s.folded \ s.buffer
  /\ s.pc \in {"fetch", "stage"} => \A r \in s.folded : PageOf[r] < s.page

RowInv == \A a \in Attempts : RowsOK(a)

\* PublishedIntact, stated on the area the header names.
AreaIntact ==
  \A h \in headers : \A r \in Records :
    [version |-> h.version, token |-> h.token, record |-> r] \in rows
      <=> r \in h.statement

IInv ==
  /\ TypeOK
  /\ PeriodInv
  /\ AttemptInv
  /\ VersionsGapless
  /\ HeaderInv
  /\ RowInv
  /\ AreaIntact
  /\ NoLeftovers
  /\ AuditTellsLifecycle

-----------------------------------------------------------------------------
(* Lemmas about the operators. *)

\* A gapless set of headers has its highest version where the period says.
LEMMA HighestIsCounter ==
  ASSUME TypeOK, VersionsGapless
  PROVE  HighestVersion = period.snapshotVersion
<1> DEFINE N == period.snapshotVersion
<1>1. N \in Nat
  BY DEF TypeOK, Periods
<1>2. {h.version : h \in headers} = 1..N
  BY DEF VersionsGapless
<1>3. CASE headers = {}
  <2>1. N = 0
    <3> SUFFICES ASSUME N # 0 PROVE FALSE
      OBVIOUS
    <3>1. 1 \in 1..N
      BY <1>1
    <3> QED BY <1>2, <1>3, <3>1
  <2> QED BY <1>3, <2>1 DEF HighestVersion
<1>4. CASE headers # {}
  <2>1. N \in 1..N
    <3>1. PICK h \in headers : TRUE
      BY <1>4
    <3>2. h.version \in 1..N
      BY <1>2
    <3> QED BY <1>1, <3>2
  <2>2. \A h \in headers : h.version \in 1..N
    BY <1>2
  <2>3. N \in {h.version : h \in headers} /\ \A h \in headers : h.version <= N
    BY <1>1, <1>2, <2>1, <2>2
  <2>4. \A v \in {h.version : h \in headers} :
          (\A h \in headers : h.version <= v) => v = N
    <3> SUFFICES ASSUME NEW v \in {h.version : h \in headers},
                        \A h \in headers : h.version <= v
                 PROVE  v = N
      OBVIOUS
    <3>1. v \in 1..N
      BY <1>2
    <3>2. PICK h \in headers : h.version = N
      BY <2>3
    <3>3. N <= v
      BY <3>2
    <3> QED BY <1>1, <3>1, <3>3
  <2> QED BY <1>4, <2>3, <2>4 DEF HighestVersion
<1> QED BY <1>3, <1>4

\* Readers of version v of a gapless ledger see the area of its one header.
LEMMA PublishedIsArea ==
  ASSUME VersionsGapless, AreaIntact, NEW h \in headers, h.statement \subseteq Records
  PROVE  PublishedRows(h.version) = h.statement
<1>1. \A g \in headers : g.version = h.version => g = h
  BY DEF VersionsGapless
<1>2. \A r \in Records :
        r \in PublishedRows(h.version)
          <=> [version |-> h.version, token |-> h.token, record |-> r] \in rows
  BY <1>1 DEF PublishedRows
<1>3. \A r \in Records : r \in PublishedRows(h.version) <=> r \in h.statement
  BY <1>2 DEF AreaIntact
<1>4. PublishedRows(h.version) \subseteq Records
  BY DEF PublishedRows
<1> QED BY <1>3, <1>4

\* NextVersion is the successor of the larger of its arguments.
LEMMA NextVersionAbove ==
  ASSUME NEW known \in Nat, NEW highest \in Nat
  PROVE  /\ NextVersion(known, highest) \in Nat
         /\ known < NextVersion(known, highest)
         /\ known <= highest => NextVersion(known, highest) = highest + 1
BY DEF NextVersion

-----------------------------------------------------------------------------
(* Each step preserves the invariant. *)

USE DEF Working, Versioned, Phases, Outcomes, AttemptStates, Periods, Headers, Rows, Audits

\* What remains of a call's locals once it is over.
LEMMA OverLocals ==
  ASSUME NEW s \in AttemptStates, NEW cleaned \in BOOLEAN
  PROVE  /\ Idle \in AttemptStates
         /\ Returned(s, cleaned) \in AttemptStates
         /\ Returned(s, cleaned).pc = "done"
         /\ Returned(s, cleaned).outcome = s.outcome
         /\ Returned(s, cleaned).known = s.known
         /\ Returned(s, cleaned).cleaned = cleaned
<1>1. 1 \in 1..(NumPages + 1)
  BY PagesAssumption
<1>2. Idle \in AttemptStates
  BY <1>1 DEF Idle
<1> QED BY <1>1, <1>2 DEF Returned, Idle

\* What attempt a does to its own rows leaves the other attempts' rows in order.
LEMMA RowFrame ==
  ASSUME RowInv, NEW a \in Attempts, RowsOK(a)',
         \A b \in Attempts \ {a} : attempt'[b] = attempt[b],
         headers \subseteq headers',
         \A r \in rows' : r \in rows \/ r.token = a,
         \A b \in Attempts \ {a} : ~HeaderExists(attempt[b].version)' =>
           \A r \in Records : RowOf(b, r) \in rows' <=> RowOf(b, r) \in rows
  PROVE  RowInv'
<1> SUFFICES ASSUME NEW b \in Attempts \ {a}
             PROVE  RowsOK(b)'
  BY DEF RowInv
<1>1. attempt'[b] = attempt[b] /\ RowsOK(b)
  BY DEF RowInv
<1>2. \A r \in Records : RowOf(b, r)' = RowOf(b, r)
  BY <1>1 DEF RowOf
<1>3. HeaderExists(attempt[b].version) => HeaderExists(attempt[b].version)'
  BY <1>1 DEF HeaderExists
<1>4. \A r \in rows' : r.token = b => r \in rows
  OBVIOUS
<1> QED BY <1>1, <1>2, <1>3, <1>4 DEF RowsOK

LEMMA BeginInv ==
  ASSUME IInv, NEW a \in Attempts, Begin(a)
  PROVE  IInv'
<1> USE DEF IInv
<1> DEFINE refused == [attempt[a] EXCEPT !.pc = "done", !.outcome = "refused", !.cleaned = TRUE]
           begun == [attempt[a] EXCEPT !.pc = "version", !.known = period.snapshotVersion]
           s == IF period.status = "closed" THEN refused ELSE begun
<1>1. /\ attempt[a] \in AttemptStates
      /\ attempt \in [Attempts -> AttemptStates]
      /\ period.snapshotVersion \in Nat
  BY DEF TypeOK
<1>2. attempt[a].pc = "idle" /\ attempt[a].known = 0 /\ attempt[a].outcome = "none"
  BY DEF Begin, AttemptInv, AttemptOK
<1>3. UNCHANGED <<usage, period, audit, headers, rows, reopen>>
  BY DEF Begin
<1>4. attempt' = [attempt EXCEPT ![a] = s] /\ s \in AttemptStates
  BY <1>1 DEF Begin
<1>5. TypeOK'
  BY <1>3, <1>4 DEF TypeOK
<1>6. PeriodInv' /\ VersionsGapless' /\ AreaIntact' /\ AuditTellsLifecycle'
  BY <1>3 DEF PeriodInv, VersionsGapless, AreaIntact, AuditTellsLifecycle
<1>7. AttemptInv'
  BY <1>1, <1>2, <1>3, <1>4 DEF AttemptInv, AttemptOK, PeriodInv
<1>8. HeaderInv'
  BY <1>1, <1>2, <1>3, <1>4 DEF HeaderInv, TypeOK
<1>9. RowInv'
  <2>1. RowsOK(a)'
    BY <1>1, <1>2, <1>3, <1>4 DEF RowInv, RowsOK
  <2> QED BY <1>1, <1>3, <1>4, <2>1, RowFrame
<1>10. NoLeftovers'
  BY <1>1, <1>2, <1>3, <1>4 DEF NoLeftovers, RowInv, RowsOK, TypeOK
<1> QED BY <1>5, <1>6, <1>7, <1>8, <1>9, <1>10

LEMMA ChooseVersionInv ==
  ASSUME IInv, NEW a \in Attempts, ChooseVersion(a)
  PROVE  IInv'
<1> USE DEF IInv
<1> DEFINE v == period.snapshotVersion + 1
           s == [attempt[a] EXCEPT !.version = v, !.pc = "fetch"]
<1>1. /\ attempt[a] \in AttemptStates
      /\ attempt \in [Attempts -> AttemptStates]
      /\ period.snapshotVersion \in Nat
  BY DEF TypeOK
<1>2. HighestVersion = period.snapshotVersion
  BY HighestIsCounter
<1>3. attempt[a].pc = "version" /\ attempt[a].known <= period.snapshotVersion
  BY DEF ChooseVersion, AttemptInv, AttemptOK
<1>4. NextVersion(attempt[a].known, HighestVersion) = v
  BY <1>1, <1>2, <1>3, NextVersionAbove
<1>5. attempt' = [attempt EXCEPT ![a] = s] /\ s \in AttemptStates
  BY <1>1, <1>4 DEF ChooseVersion
<1>6. UNCHANGED <<usage, period, audit, headers, rows, reopen>>
  BY DEF ChooseVersion
<1>7. TypeOK'
  BY <1>5, <1>6 DEF TypeOK
<1>8. PeriodInv' /\ VersionsGapless' /\ AreaIntact' /\ AuditTellsLifecycle'
  BY <1>6 DEF PeriodInv, VersionsGapless, AreaIntact, AuditTellsLifecycle
<1>9. AttemptInv'
  BY <1>1, <1>3, <1>5, <1>6 DEF AttemptInv, AttemptOK
<1>10. HeaderInv'
  BY <1>1, <1>3, <1>5, <1>6 DEF HeaderInv, TypeOK
<1>11. RowInv'
  <2>1. \A r \in rows : r.token # a
    BY <1>3 DEF RowInv, RowsOK
  <2>2. attempt[a].buffer = {} /\ attempt[a].folded = {}
    BY <1>3 DEF RowInv, RowsOK
  <2>3. attempt'[a] = s
    BY <1>1, <1>5
  <2>4. RowsOK(a)'
    BY <1>1, <1>3, <1>6, <2>1, <2>2, <2>3 DEF RowsOK, RowOf
  <2> QED BY <1>1, <1>5, <1>6, <2>4, RowFrame
<1>12. NoLeftovers'
  BY <1>1, <1>3, <1>5, <1>6 DEF NoLeftovers, TypeOK
<1> QED BY <1>7, <1>8, <1>9, <1>10, <1>11, <1>12

LEMMA FetchPageInv ==
  ASSUME IInv, NEW a \in Attempts, FetchPage(a)
  PROVE  IInv'
<1> USE DEF IInv
<1> DEFINE page == {r \in usage : PageOf[r] = attempt[a].page}
           pc == IF page = {} THEN "fetch" ELSE "stage"
           s == [attempt[a] EXCEPT !.folded = @ \cup page, !.buffer = page, !.page = @ + 1,
                                   !.pc = pc]
<1>1. /\ attempt[a] \in AttemptStates
      /\ attempt \in [Attempts -> AttemptStates]
      /\ period.snapshotVersion \in Nat
      /\ page \subseteq Records
  BY DEF TypeOK
<1>2. attempt[a].pc = "fetch" /\ attempt[a].page <= NumPages
  BY DEF FetchPage, MorePages
<1>3. attempt' = [attempt EXCEPT ![a] = s] /\ s \in AttemptStates
  <2>1. attempt[a].page + 1 \in 1..(NumPages + 1)
    BY <1>1, <1>2, PagesAssumption
  <2>2. pc \in {"fetch", "stage"}
    OBVIOUS
  <2>3. attempt[a].folded \cup page \in SUBSET Records
    BY <1>1
  <2>4. s \in AttemptStates
    BY <1>1, <2>1, <2>2, <2>3
  <2> QED BY <1>1, <2>4 DEF FetchPage
<1>4. UNCHANGED <<usage, period, audit, headers, rows, reopen>>
  BY DEF FetchPage
<1>5. /\ s.pc \in {"fetch", "stage"} /\ (s.pc = "fetch" => s.buffer = {})
      /\ s.version = attempt[a].version /\ s.known = attempt[a].known
      /\ s.outcome = attempt[a].outcome
      /\ s.buffer = page /\ s.folded = attempt[a].folded \cup page
      /\ s.page = attempt[a].page + 1
  BY <1>1
<1> HIDE DEF s
<1>6. TypeOK'
  BY <1>3, <1>4 DEF TypeOK
<1>7. PeriodInv' /\ VersionsGapless' /\ AreaIntact' /\ AuditTellsLifecycle'
  BY <1>4 DEF PeriodInv, VersionsGapless, AreaIntact, AuditTellsLifecycle
<1>8. AttemptInv'
  BY <1>1, <1>2, <1>3, <1>4, <1>5 DEF AttemptInv, AttemptOK
<1>9. HeaderInv'
  BY <1>1, <1>2, <1>3, <1>4, <1>5 DEF HeaderInv, TypeOK
<1>10. RowInv'
  <2>1. \A r \in page : r \notin attempt[a].folded /\ PageOf[r] < attempt[a].page + 1
    BY <1>1, <1>2, PagesAssumption DEF RowInv, RowsOK
  <2>2. \A r \in s.folded : PageOf[r] < s.page
    BY <1>1, <1>2, <1>5, <2>1, PagesAssumption DEF RowInv, RowsOK
  <2>3. ~HeaderExists(s.version) => \A r \in Records :
          RowOf(a, r) \in rows <=> r \in s.folded \ s.buffer
    BY <1>1, <1>2, <1>5, <2>1 DEF RowInv, RowsOK
  <2>4. attempt'[a] = s /\ \A r \in Records : RowOf(a, r)' = RowOf(a, r)
    BY <1>1, <1>3, <1>5 DEF RowOf
  <2>5. RowsOK(a)'
    BY <1>2, <1>4, <1>5, <2>2, <2>3, <2>4 DEF RowInv, RowsOK, HeaderExists
  <2> QED BY <1>1, <1>3, <1>4, <2>5, RowFrame
<1>11. NoLeftovers'
  BY <1>1, <1>2, <1>3, <1>4, <1>5 DEF NoLeftovers, TypeOK
<1> QED BY <1>6, <1>7, <1>8, <1>9, <1>10, <1>11

LEMMA StageChunkInv ==
  ASSUME IInv, NEW a \in Attempts, StageChunk(a)
  PROVE  IInv'
<1> USE DEF IInv
<1>1. PICK chunk \in SUBSET attempt[a].buffer :
        /\ rows' = rows \cup [version : {attempt[a].version}, token : {a}, record : chunk]
        /\ attempt' = [attempt EXCEPT
             ![a].buffer = @ \ chunk,
             ![a].pc = IF attempt[a].buffer = chunk THEN "fetch" ELSE "stage"]
  BY DEF StageChunk
<1> DEFINE pc == IF attempt[a].buffer = chunk THEN "fetch" ELSE "stage"
           s == [attempt[a] EXCEPT !.buffer = @ \ chunk, !.pc = pc]
<1>2. /\ attempt[a] \in AttemptStates
      /\ attempt \in [Attempts -> AttemptStates]
      /\ period.snapshotVersion \in Nat
      /\ attempt[a].pc = "stage"
      /\ chunk \subseteq Records
  BY DEF TypeOK, StageChunk
<1>3. attempt' = [attempt EXCEPT ![a] = s] /\ s \in AttemptStates
  BY <1>1, <1>2
<1>4. UNCHANGED <<usage, period, audit, headers, reopen>>
  BY DEF StageChunk
<1>5. /\ s.pc \in {"fetch", "stage"} /\ (s.pc = "fetch" => s.buffer = {})
      /\ s.version = attempt[a].version /\ s.known = attempt[a].known
      /\ s.outcome = attempt[a].outcome /\ s.page = attempt[a].page
      /\ s.buffer = attempt[a].buffer \ chunk /\ s.folded = attempt[a].folded
  BY <1>2
<1>6. \A v, b, r : [version |-> v, token |-> b, record |-> r] \in rows'
        <=> \/ [version |-> v, token |-> b, record |-> r] \in rows
            \/ v = attempt[a].version /\ b = a /\ r \in chunk
  BY <1>1
<1> DEFINE fresh == [version : {attempt[a].version}, token : {a}, record : chunk]
<1>7. /\ rows' = rows \cup fresh
      /\ \A r \in fresh : r \in Rows /\ r.version = attempt[a].version /\ r.token = a
  BY <1>1, <1>2
<1> HIDE DEF s, fresh
<1>8. TypeOK'
  BY <1>2, <1>3, <1>4, <1>7 DEF TypeOK
<1>9. PeriodInv' /\ VersionsGapless' /\ AuditTellsLifecycle'
  BY <1>4 DEF PeriodInv, VersionsGapless, AuditTellsLifecycle
<1>10. AreaIntact'
  <2>1. \A h \in headers : h.token # a
    BY <1>2 DEF HeaderInv
  <2> QED BY <1>4, <1>6, <2>1 DEF AreaIntact
<1>11. AttemptInv'
  BY <1>2, <1>3, <1>4, <1>5 DEF AttemptInv, AttemptOK
<1>12. HeaderInv'
  BY <1>2, <1>3, <1>4, <1>5 DEF HeaderInv, TypeOK
<1>13. RowInv'
  <2>1. attempt'[a] = s /\ \A r \in Records : RowOf(a, r)' = RowOf(a, r)
    BY <1>2, <1>3, <1>5 DEF RowOf
  <2>2. \A r \in rows' : r \in rows \/ (r.version = attempt[a].version /\ r.token = a)
    BY <1>7
  <2>3. ~HeaderExists(s.version) => \A r \in Records :
          RowOf(a, r) \in rows' <=> r \in s.folded \ s.buffer
    BY <1>2, <1>5, <1>6 DEF RowInv, RowsOK, RowOf
  <2>4. RowsOK(a)'
    BY <1>2, <1>4, <1>5, <2>1, <2>2, <2>3 DEF RowInv, RowsOK, HeaderExists
  <2>5. \A b \in Attempts \ {a} : \A r \in Records :
          RowOf(b, r) \in rows' <=> RowOf(b, r) \in rows
    BY <1>6 DEF RowOf
  <2> QED BY <1>2, <1>3, <1>4, <2>2, <2>4, <2>5, RowFrame
<1>14. NoLeftovers'
  BY <1>2, <1>3, <1>4, <1>5, <1>7 DEF NoLeftovers, TypeOK
<1> QED BY <1>8, <1>9, <1>10, <1>11, <1>12, <1>13, <1>14

LEMMA PublishInv ==
  ASSUME IInv, NEW a \in Attempts, Publish(a)
  PROVE  IInv'
<1> USE DEF IInv
<1> DEFINE v == attempt[a].version
           N == period.snapshotVersion
           bill == [version |-> v, token |-> a, statement |-> attempt[a].folded]
           s == [attempt[a] EXCEPT !.pc = "sweep", !.outcome = "closed"]
<1>1. /\ attempt[a] \in AttemptStates
      /\ attempt \in [Attempts -> AttemptStates]
      /\ N \in Nat /\ v \in Nat
  BY DEF TypeOK
<1>2. attempt[a].pc = "fetch" /\ ~HeaderExists(v) /\ period.status # "closed"
  BY DEF Publish, ReadyToPublish, CommitBy, Flippable
<1>3. /\ headers' = headers \cup {bill}
      /\ period' = [status |-> "closed", snapshotVersion |-> v]
      /\ audit' = Append(audit, [action |-> "close", snapshotVersion |-> v])
      /\ UNCHANGED <<usage, rows, reopen>>
  BY DEF Publish, CommitBy
<1>4. attempt' = [attempt EXCEPT ![a] = s] /\ s \in AttemptStates
  BY <1>1 DEF Publish
<1>5. v = N + 1
  <2>1. v > 0 /\ v <= N + 1
    BY <1>1, <1>2 DEF AttemptInv, AttemptOK
  <2>2. v \notin 1..N
    BY <1>2 DEF HeaderExists, VersionsGapless
  <2> QED BY <1>1, <2>1, <2>2
<1>6. TypeOK'
  <2>1. bill \in Headers /\ period' \in Periods
    BY <1>1, <1>3
  <2>2. [action |-> "close", snapshotVersion |-> v] \in Audits
    BY <1>1
  <2>3. audit' \in Seq(Audits)
    BY <1>3, <2>2 DEF TypeOK
  <2> QED BY <1>1, <1>3, <1>4, <2>1, <2>3 DEF TypeOK
<1>7. PeriodInv'
  BY <1>1, <1>3, <1>5 DEF PeriodInv
<1>8. VersionsGapless'
  <2>1. {h.version : h \in headers'} = {h.version : h \in headers} \cup {v}
    <3>1. \A h \in headers' : h.version = v \/ h \in headers
      BY <1>3
    <3>2. bill \in headers' /\ bill.version = v /\ \A h \in headers : h \in headers'
      BY <1>3
    <3> HIDE DEF bill
    <3> QED BY <3>1, <3>2
  <2>2. (1..N) \cup {v} = 1..(N + 1)
    BY <1>1, <1>5
  <2>3. period'.snapshotVersion = N + 1
    BY <1>3, <1>5
  <2>4. \A g, h \in headers' : g.version = h.version => g = h
    BY <1>2, <1>3 DEF VersionsGapless, HeaderExists
  <2> QED BY <2>1, <2>2, <2>3, <2>4 DEF VersionsGapless
<1>9. AuditTellsLifecycle'
  <2>1. Len(audit) = 2 * N /\ audit \in Seq(Audits)
    BY <1>2 DEF AuditTellsLifecycle, TypeOK
  <2>2. Len(audit') = 2 * (N + 1) - 1
    BY <1>1, <1>3, <2>1
  <2>3. \A i \in 1..(2 * N) : audit'[i] = audit[i]
    BY <1>1, <1>3, <2>1
  <2>4. audit'[2 * (N + 1) - 1] = [action |-> "close", snapshotVersion |-> N + 1]
    <3>1. 2 * (N + 1) - 1 = Len(audit) + 1
      BY <1>1, <2>1
    <3>2. audit'[Len(audit) + 1] = [action |-> "close", snapshotVersion |-> v]
      BY <1>3, <2>1
    <3> QED BY <1>5, <3>1, <3>2
  <2>5. period'.status = "closed" /\ period'.snapshotVersion = N + 1
    BY <1>3, <1>5
  <2>6. \A w \in 1..(N + 1) :
          audit'[2 * w - 1] = [action |-> "close", snapshotVersion |-> w]
    <3> SUFFICES ASSUME NEW w \in 1..(N + 1)
                 PROVE  audit'[2 * w - 1] = [action |-> "close", snapshotVersion |-> w]
      OBVIOUS
    <3>1. CASE w = N + 1
      BY <2>4, <3>1
    <3>2. CASE w # N + 1
      <4>1. w \in 1..N /\ 2 * w - 1 \in 1..(2 * N)
        BY <1>1, <3>2
      <4> QED BY <2>3, <4>1 DEF AuditTellsLifecycle
    <3> QED BY <3>1, <3>2
  <2>7. \A w \in 1..(N + 1) : 2 * w <= Len(audit') => audit'[2 * w].action = "reopen"
    <3> SUFFICES ASSUME NEW w \in 1..(N + 1), 2 * w <= 2 * (N + 1) - 1
                 PROVE  audit'[2 * w].action = "reopen"
      BY <2>2
    <3>1. w \in 1..N
      BY <1>1
    <3>2. 2 * w \in 1..(2 * N) /\ 2 * w <= Len(audit)
      BY <1>1, <2>1, <3>1
    <3>3. audit[2 * w].action = "reopen"
      BY <3>1, <3>2 DEF AuditTellsLifecycle
    <3> QED BY <2>3, <3>2, <3>3
  <2> QED BY <2>2, <2>5, <2>6, <2>7 DEF AuditTellsLifecycle
<1>10. AreaIntact'
  <2>1. \A r \in Records :
          [version |-> v, token |-> a, record |-> r] \in rows <=> r \in attempt[a].folded
    BY <1>1, <1>2 DEF RowInv, RowsOK, RowOf
  <2>2. \A h \in headers' : h \in headers \/ h = bill
    BY <1>3
  <2>3. \A r \in Records :
          [version |-> bill.version, token |-> bill.token, record |-> r] \in rows
            <=> r \in bill.statement
    BY <2>1
  <2> HIDE DEF bill
  <2> QED BY <1>3, <2>2, <2>3 DEF AreaIntact
<1>11. AttemptInv'
  <2>1. \E h \in headers' : h.version = s.version /\ h.token = a
    <3>1. bill \in headers' /\ bill.version = v /\ bill.token = a /\ s.version = v
      BY <1>1, <1>3
    <3> QED BY <3>1
  <2>2. \A b \in Attempts \ {a} : attempt'[b] = attempt[b]
    BY <1>1, <1>4
  <2>3. attempt'[a] = s /\ s.pc = "sweep" /\ s.outcome = "closed"
    BY <1>1, <1>4
  <2>4. period'.snapshotVersion = N + 1
    BY <1>3, <1>5
  <2>5. \A b \in Attempts : attempt[b].known \in Nat /\ attempt[b].version \in Nat
    BY <1>1
  <2>6. \A h \in headers : h \in headers'
    BY <1>3
  <2> HIDE DEF s
  <2> QED BY <1>1, <2>1, <2>2, <2>3, <2>4, <2>5, <2>6 DEF AttemptInv, AttemptOK
<1>12. HeaderInv'
  BY <1>1, <1>2, <1>3, <1>4 DEF HeaderInv, TypeOK
<1>13. RowInv'
  <2>1. RowsOK(a)'
    BY <1>1, <1>2, <1>3, <1>4 DEF RowInv, RowsOK
  <2>2. headers \subseteq headers'
    BY <1>3
  <2> QED BY <1>1, <1>3, <1>4, <2>1, <2>2, RowFrame
<1>14. NoLeftovers'
  BY <1>1, <1>2, <1>3, <1>4 DEF NoLeftovers, TypeOK
<1> QED BY <1>6, <1>7, <1>8, <1>9, <1>10, <1>11, <1>12, <1>13, <1>14

\* A call that gives up, returns or is killed, touching nothing but its locals.
LEMMA LeavesInv ==
  ASSUME IInv, NEW a \in Attempts, NEW s \in AttemptStates,
         attempt' = [attempt EXCEPT ![a] = s],
         UNCHANGED <<usage, period, audit, headers, rows, reopen>>,
         s.pc \in {"discard", "done", "dead"},
         s.pc = "discard" => /\ attempt[a].pc \in {"fetch", "stage"}
                             /\ s.version = attempt[a].version,
         s.outcome \in {"conflict", "refused"} => s.known < period.snapshotVersion,
         s.pc = "done" /\ s.cleaned /\ s.outcome # "closed" => \A r \in rows : r.token # a
  PROVE  IInv'
<1> USE DEF IInv
<1>1. /\ attempt[a] \in AttemptStates
      /\ attempt'[a] = s
      /\ \A b \in Attempts \ {a} : attempt'[b] = attempt[b]
  BY DEF TypeOK
<1>2. TypeOK'
  BY DEF TypeOK
<1>3. PeriodInv' /\ VersionsGapless' /\ AreaIntact' /\ AuditTellsLifecycle'
  BY DEF PeriodInv, VersionsGapless, AreaIntact, AuditTellsLifecycle
<1>4. AttemptInv'
  BY <1>1 DEF AttemptInv, AttemptOK
<1>5. HeaderInv'
  BY <1>1 DEF HeaderInv, TypeOK
<1>6. RowInv'
  <2>1. RowsOK(a)'
    BY <1>1 DEF RowInv, RowsOK
  <2> QED BY <1>1, <2>1, RowFrame
<1>7. NoLeftovers'
  BY <1>1 DEF NoLeftovers, TypeOK
<1> QED BY <1>2, <1>3, <1>4, <1>5, <1>6, <1>7

\* Losing the commit, one way or the other: another close published meanwhile.
LEMMA LostCommitInv ==
  ASSUME IInv, NEW a \in Attempts, RefusedByHeader(a) \/ LosesFlip(a)
  PROVE  IInv'
<1> DEFINE outcome == IF RefusedByHeader(a) THEN "refused" ELSE "conflict"
           s == [attempt[a] EXCEPT !.pc = "discard", !.outcome = outcome]
<1>1. attempt[a] \in AttemptStates /\ attempt \in [Attempts -> AttemptStates]
  BY DEF IInv, TypeOK
<1>2. /\ attempt[a].pc = "fetch"
      /\ HeaderExists(attempt[a].version) \/ period.status = "closed"
      /\ UNCHANGED <<usage, period, audit, headers, rows, reopen>>
  BY DEF RefusedByHeader, LosesFlip, ReadyToPublish, Flippable
<1>3. s \in AttemptStates /\ s.pc = "discard"
      /\ s.version = attempt[a].version /\ s.known = attempt[a].known
  BY <1>1
<1>4. attempt' = [attempt EXCEPT ![a] = s]
  BY <1>1 DEF RefusedByHeader, LosesFlip
<1>5. attempt[a].known < period.snapshotVersion
  <2>1. attempt[a].known < attempt[a].version /\ attempt[a].known \in Nat
    BY <1>1, <1>2 DEF IInv, AttemptInv, AttemptOK
  <2>2. CASE HeaderExists(attempt[a].version)
    <3>1. attempt[a].version \in 1..period.snapshotVersion
      BY <2>2 DEF HeaderExists, IInv, VersionsGapless
    <3>2. period.snapshotVersion \in Nat
      BY DEF IInv, TypeOK
    <3> QED BY <1>1, <2>1, <3>1, <3>2
  <2>3. CASE period.status = "closed"
    BY <1>2, <2>3 DEF IInv, AttemptInv, AttemptOK
  <2> QED BY <1>2, <2>2, <2>3
<1> HIDE DEF s
<1> QED BY <1>2, <1>3, <1>4, <1>5, LeavesInv

LEMMA FailInv ==
  ASSUME IInv, NEW a \in Attempts, Fail(a)
  PROVE  IInv'
<1>1. attempt[a] \in AttemptStates /\ attempt \in [Attempts -> AttemptStates]
  BY DEF IInv, TypeOK
<1>2. UNCHANGED <<usage, period, audit, headers, rows, reopen>>
  BY DEF Fail
<1>3. CASE attempt[a].pc = "version"
  <2> DEFINE s == [Returned(attempt[a], TRUE) EXCEPT !.outcome = "failed"]
  <2>1. s \in AttemptStates /\ s.pc = "done" /\ s.outcome = "failed"
    <3>1. Returned(attempt[a], TRUE) \in AttemptStates
      BY <1>1, OverLocals
    <3>2. Returned(attempt[a], TRUE).pc = "done"
      BY <1>1, OverLocals
    <3> QED BY <3>1, <3>2
  <2>2. attempt' = [attempt EXCEPT ![a] = s]
    BY <1>1, <1>3 DEF Fail
  <2>3. \A r \in rows : r.token # a
    BY <1>3 DEF IInv, RowInv, RowsOK
  <2> HIDE DEF s
  <2> QED BY <1>2, <2>1, <2>2, <2>3, LeavesInv
<1>4. CASE attempt[a].pc # "version"
  <2> DEFINE s == [attempt[a] EXCEPT !.outcome = "failed", !.pc = "discard"]
  <2>1. /\ s \in AttemptStates /\ s.pc = "discard" /\ s.outcome = "failed"
        /\ s.version = attempt[a].version
    BY <1>1
  <2>2. attempt' = [attempt EXCEPT ![a] = s] /\ attempt[a].pc \in {"fetch", "stage"}
    BY <1>1, <1>4 DEF Fail
  <2> HIDE DEF s
  <2> QED BY <1>2, <2>1, <2>2, LeavesInv
<1> QED BY <1>3, <1>4

LEMMA CrashInv ==
  ASSUME IInv, NEW a \in Attempts, Crash(a)
  PROVE  IInv'
<1> DEFINE s == [Idle EXCEPT !.pc = "dead"]
<1>1. s \in AttemptStates /\ s.pc = "dead" /\ s.outcome = "none"
  <2>1. Idle \in AttemptStates
    BY OverLocals DEF IInv, TypeOK
  <2>2. Idle.outcome = "none"
    BY DEF Idle
  <2> QED BY <2>1, <2>2
<1>2. /\ attempt' = [attempt EXCEPT ![a] = s]
      /\ UNCHANGED <<usage, period, audit, headers, rows, reopen>>
  BY DEF Crash
<1> HIDE DEF s
<1> QED BY <1>1, <1>2, LeavesInv

\* The cleanup of a lost or failed attempt removes its area and nothing else.
LEMMA DiscardInv ==
  ASSUME IInv, NEW a \in Attempts, Discard(a)
  PROVE  IInv'
<1> USE DEF IInv
<1> DEFINE v == attempt[a].version
           gone == Area(v, a)
           s == Returned(attempt[a], TRUE)
           f == Returned(attempt[a], FALSE)
<1>1. attempt[a] \in AttemptStates /\ attempt \in [Attempts -> AttemptStates]
  BY DEF TypeOK
<1>2. attempt[a].pc = "discard"
  BY DEF Discard
<1>3. UNCHANGED <<usage, period, audit, headers, reopen>>
  BY DEF Discard
<1>4. s \in AttemptStates /\ s.pc = "done" /\ s.outcome = attempt[a].outcome
      /\ s.known = attempt[a].known /\ s.cleaned = TRUE
  BY <1>1, OverLocals
<1>5. f \in AttemptStates /\ f.pc = "done" /\ f.outcome = attempt[a].outcome
      /\ f.known = attempt[a].known /\ f.cleaned = FALSE
  BY <1>1, OverLocals
<1>6. CASE rows' = rows /\ attempt' = [attempt EXCEPT ![a] = f]
  <2>1. f.outcome \in {"conflict", "refused"} => f.known < period.snapshotVersion
    BY <1>5 DEF AttemptInv, AttemptOK
  <2> HIDE DEF f
  <2> QED BY <1>3, <1>5, <1>6, <2>1, LeavesInv
<1>7. CASE rows' = rows \ gone /\ attempt' = [attempt EXCEPT ![a] = s]
  <2> HIDE DEF s, f
  <2>1. attempt'[a] = s /\ \A b \in Attempts \ {a} : attempt'[b] = attempt[b]
    BY <1>1, <1>7
  <2>2. \A r \in gone : r.token = a
    BY DEF Area
  <2>3. \A r \in rows' : r \in rows /\ r.token # a
    BY <1>2, <1>7 DEF RowInv, RowsOK, Area
  <2>4. TypeOK'
    BY <1>3, <1>4, <1>7 DEF TypeOK
  <2>5. PeriodInv' /\ VersionsGapless' /\ AuditTellsLifecycle'
    BY <1>3 DEF PeriodInv, VersionsGapless, AuditTellsLifecycle
  <2>6. AreaIntact'
    <3>1. \A h \in headers : h.token # a
      BY <1>2 DEF HeaderInv
    <3> HIDE DEF gone
    <3> QED BY <1>3, <1>7, <2>2, <3>1 DEF AreaIntact
  <2>7. AttemptInv'
    BY <1>3, <1>4, <2>1 DEF AttemptInv, AttemptOK
  <2>8. HeaderInv'
    BY <1>3, <1>4, <2>1 DEF HeaderInv, TypeOK
  <2>9. RowInv'
    <3>1. RowsOK(a)'
      BY <1>4, <2>1, <2>3 DEF RowsOK
    <3>2. \A b \in Attempts \ {a} : \A r \in Records :
            RowOf(b, r) \in rows' <=> RowOf(b, r) \in rows
      <4> HIDE DEF gone
      <4> QED BY <1>7, <2>2 DEF RowOf
    <3> QED BY <1>3, <2>1, <2>3, <3>1, <3>2, RowFrame
  <2>10. NoLeftovers'
    BY <1>4, <2>1, <2>3 DEF NoLeftovers, TypeOK
  <2> QED BY <2>4, <2>5, <2>6, <2>7, <2>8, <2>9, <2>10
<1> QED BY <1>6, <1>7 DEF Discard

\* The sweep removes the areas of its version that no header names.
LEMMA SweepInv ==
  ASSUME IInv, NEW a \in Attempts, Sweep(a)
  PROVE  IInv'
<1> USE DEF IInv
<1> DEFINE v == attempt[a].version
           gone == Superseded(v, a)
           s == Returned(attempt[a], TRUE)
           f == Returned(attempt[a], FALSE)
<1>1. attempt[a] \in AttemptStates /\ attempt \in [Attempts -> AttemptStates]
  BY DEF TypeOK
<1>2. attempt[a].pc = "sweep"
  BY DEF Sweep
<1>3. UNCHANGED <<usage, period, audit, headers, reopen>>
  BY DEF Sweep
<1>4. attempt[a].outcome = "closed" /\ \E h \in headers : h.version = v /\ h.token = a
  BY <1>2 DEF AttemptInv, AttemptOK
<1>5. s \in AttemptStates /\ s.pc = "done" /\ s.outcome = "closed"
  BY <1>1, <1>4, OverLocals
<1>6. f \in AttemptStates /\ f.pc = "done" /\ f.outcome = "closed"
  BY <1>1, <1>4, OverLocals
<1>7. CASE rows' = rows /\ attempt' = [attempt EXCEPT ![a] = f]
  <2> HIDE DEF f
  <2> QED BY <1>3, <1>6, <1>7, LeavesInv
<1>8. CASE rows' = rows \ gone /\ attempt' = [attempt EXCEPT ![a] = s]
  <2> HIDE DEF s, f
  <2>1. attempt'[a] = s /\ \A b \in Attempts \ {a} : attempt'[b] = attempt[b]
    BY <1>1, <1>8
  <2>2. \A r \in gone : r.version = v /\ r.token # a
    BY DEF Superseded
  <2>3. \A r \in rows' : r \in rows
    BY <1>8
  <2>4. TypeOK'
    BY <1>3, <1>5, <1>8 DEF TypeOK
  <2>5. PeriodInv' /\ VersionsGapless' /\ AuditTellsLifecycle'
    BY <1>3 DEF PeriodInv, VersionsGapless, AuditTellsLifecycle
  <2>6. AreaIntact'
    <3>1. \A h \in headers : h.version = v => h.token = a
      BY <1>4 DEF VersionsGapless
    <3> HIDE DEF gone, v
    <3> QED BY <1>3, <1>8, <2>2, <3>1 DEF AreaIntact
  <2>7. AttemptInv'
    BY <1>3, <1>5, <2>1 DEF AttemptInv, AttemptOK
  <2>8. HeaderInv'
    BY <1>3, <1>5, <2>1 DEF HeaderInv, TypeOK
  <2>9. RowInv'
    <3>1. RowsOK(a)'
      BY <1>2, <1>5, <2>1, <2>3 DEF RowInv, RowsOK
    <3>3. \A b \in Attempts \ {a} : attempt[b].version # v =>
            \A r \in Records : RowOf(b, r) \in rows' <=> RowOf(b, r) \in rows
      <4> HIDE DEF gone, v
      <4> QED BY <1>8, <2>2 DEF RowOf
    <3>4. \A b \in Attempts \ {a} : ~HeaderExists(attempt[b].version)' =>
            \A r \in Records : RowOf(b, r) \in rows' <=> RowOf(b, r) \in rows
      BY <1>3, <1>4, <2>1, <3>3 DEF HeaderExists
    <3> QED BY <1>3, <2>1, <2>3, <3>1, <3>4, RowFrame
  <2>10. NoLeftovers'
    BY <1>5, <2>1, <2>3 DEF NoLeftovers, TypeOK
  <2> QED BY <2>4, <2>5, <2>6, <2>7, <2>8, <2>9, <2>10
<1> QED BY <1>7, <1>8 DEF Sweep

LEMMA ReopenFindInv ==
  ASSUME IInv, NEW x \in Reopens, ReopenFind(x)
  PROVE  IInv'
<1> USE DEF IInv
<1>1. UNCHANGED <<usage, period, audit, headers, rows, attempt>>
  BY DEF ReopenFind
<1>2. reopen' \in [Reopens -> ReopenStates]
  BY DEF ReopenFind, TypeOK, ReopenStates
<1>3. TypeOK'
  BY <1>1, <1>2 DEF TypeOK
<1>4. PeriodInv' /\ VersionsGapless' /\ AreaIntact' /\ AuditTellsLifecycle'
  BY <1>1 DEF PeriodInv, VersionsGapless, AreaIntact, AuditTellsLifecycle
<1>5. AttemptInv' /\ HeaderInv' /\ RowInv' /\ NoLeftovers'
  BY <1>1 DEF AttemptInv, AttemptOK, HeaderInv, RowInv, RowsOK, RowOf, HeaderExists, NoLeftovers
<1> QED BY <1>3, <1>4, <1>5

LEMMA UsageArrivesInv ==
  ASSUME IInv, NEW r \in Records, UsageArrives(r)
  PROVE  IInv'
<1> USE DEF IInv
<1>1. UNCHANGED <<period, audit, headers, rows, attempt, reopen>>
  BY DEF UsageArrives
<1>2. TypeOK'
  BY <1>1 DEF UsageArrives, TypeOK
<1>3. PeriodInv' /\ VersionsGapless' /\ AreaIntact' /\ AuditTellsLifecycle'
  BY <1>1 DEF PeriodInv, VersionsGapless, AreaIntact, AuditTellsLifecycle
<1>4. AttemptInv' /\ HeaderInv' /\ RowInv' /\ NoLeftovers'
  BY <1>1 DEF AttemptInv, AttemptOK, HeaderInv, RowInv, RowsOK, RowOf, HeaderExists, NoLeftovers
<1> QED BY <1>2, <1>3, <1>4

\* A guarded reopen adds one entry to the trail of a closed month.
LEMMA MarkReopenedInv ==
  ASSUME IInv, NEW x \in Reopens, MarkReopened(x)
  PROVE  IInv'
<1> USE DEF IInv
<1> DEFINE N == period.snapshotVersion
           entry == [action |-> "reopen", snapshotVersion |-> reopen[x].previous]
<1>1. /\ UNCHANGED <<usage, headers, rows, attempt>>
      /\ reopen' = [reopen EXCEPT ![x].pc = "done"]
      /\ N \in Nat /\ period \in Periods
      /\ reopen[x] \in ReopenStates /\ reopen \in [Reopens -> ReopenStates]
  BY DEF MarkReopened, TypeOK
<1>2. reopen' \in [Reopens -> ReopenStates]
  BY <1>1 DEF ReopenStates
<1>3. CASE ~Reopenable(period)
  <2>1. UNCHANGED <<period, audit>>
    BY <1>3 DEF MarkReopened
  <2>2. TypeOK'
    BY <1>1, <1>2, <2>1 DEF TypeOK
  <2>3. PeriodInv' /\ VersionsGapless' /\ AreaIntact' /\ AuditTellsLifecycle'
    BY <1>1, <2>1 DEF PeriodInv, VersionsGapless, AreaIntact, AuditTellsLifecycle
  <2>4. AttemptInv' /\ HeaderInv' /\ RowInv' /\ NoLeftovers'
    BY <1>1, <2>1 DEF AttemptInv, AttemptOK, HeaderInv, RowInv, RowsOK, RowOf, HeaderExists,
                      NoLeftovers
  <2> QED BY <2>2, <2>3, <2>4
<1>4. CASE Reopenable(period)
  <2>1. /\ period.status = "closed"
        /\ period' = [period EXCEPT !.status = "open"]
        /\ audit' = Append(audit, entry)
    BY <1>4 DEF MarkReopened, Reopenable
  <2>2. period' \in Periods /\ period'.status = "open" /\ period'.snapshotVersion = N
    BY <1>1, <2>1
  <2>3. audit' \in Seq(Audits)
    <3>1. entry \in Audits
      BY <1>1 DEF ReopenStates
    <3>2. audit \in Seq(Audits)
      BY DEF TypeOK
    <3> HIDE DEF entry
    <3> QED BY <2>1, <3>1, <3>2
  <2>4. TypeOK'
    BY <1>1, <1>2, <2>2, <2>3 DEF TypeOK
  <2>5. PeriodInv' /\ VersionsGapless' /\ AreaIntact'
    BY <1>1, <2>2 DEF PeriodInv, VersionsGapless, AreaIntact
  <2>6. AttemptInv' /\ HeaderInv' /\ RowInv' /\ NoLeftovers'
    BY <1>1, <2>1, <2>2 DEF AttemptInv, AttemptOK, HeaderInv, RowInv, RowsOK, RowOf,
                            HeaderExists, NoLeftovers
  <2>7. AuditTellsLifecycle'
    <3>1. N >= 1 /\ Len(audit) = 2 * N - 1 /\ audit \in Seq(Audits)
      BY <2>1 DEF PeriodInv, AuditTellsLifecycle, TypeOK
    <3>2. entry.action = "reopen"
      OBVIOUS
    <3> HIDE DEF entry
    <3>3. Len(audit') = 2 * N /\ audit'[2 * N] = entry
      BY <1>1, <2>1, <3>1
    <3>4. \A i \in 1..(2 * N - 1) : audit'[i] = audit[i]
      BY <1>1, <2>1, <3>1
    <3>5. \A v \in 1..N : audit'[2 * v - 1] = [action |-> "close", snapshotVersion |-> v]
      <4> SUFFICES ASSUME NEW v \in 1..N
                   PROVE  audit'[2 * v - 1] = [action |-> "close", snapshotVersion |-> v]
        OBVIOUS
      <4>1. 2 * v - 1 \in 1..(2 * N - 1)
        BY <1>1
      <4> QED BY <3>4, <4>1 DEF AuditTellsLifecycle
    <3>6. \A v \in 1..N : 2 * v <= Len(audit') => audit'[2 * v].action = "reopen"
      <4> SUFFICES ASSUME NEW v \in 1..N
                   PROVE  audit'[2 * v].action = "reopen"
        OBVIOUS
      <4>1. CASE v = N
        BY <3>2, <3>3, <4>1
      <4>2. CASE v # N
        <5>1. 2 * v \in 1..(2 * N - 1) /\ 2 * v <= Len(audit)
          BY <1>1, <3>1, <4>2
        <5>2. audit[2 * v].action = "reopen"
          BY <5>1 DEF AuditTellsLifecycle
        <5> QED BY <3>4, <5>1, <5>2
      <4> QED BY <4>1, <4>2
    <3> QED BY <2>2, <3>3, <3>5, <3>6 DEF AuditTellsLifecycle
  <2> QED BY <2>4, <2>5, <2>6, <2>7
<1> QED BY <1>3, <1>4

-----------------------------------------------------------------------------
(* The theorems. *)

LEMMA InitInv == Init => IInv
<1> SUFFICES ASSUME Init PROVE IInv
  OBVIOUS
<1>1. attempt \in [Attempts -> AttemptStates] /\ \A a \in Attempts : attempt[a] = Idle
  <2>1. Idle \in AttemptStates
    <3>1. 1 \in 1..(NumPages + 1)
      BY PagesAssumption
    <3> QED BY <3>1 DEF Idle
  <2> QED BY <2>1 DEF Init
<1>2. TypeOK
  BY <1>1 DEF Init, TypeOK, ReopenStates
<1>3. PeriodInv /\ VersionsGapless /\ HeaderInv /\ AreaIntact
  BY DEF Init, PeriodInv, VersionsGapless, HeaderInv, AreaIntact
<1>4. AttemptInv /\ RowInv /\ NoLeftovers
  BY <1>1 DEF Init, Idle, AttemptInv, AttemptOK, RowInv, RowsOK, NoLeftovers
<1>5. AuditTellsLifecycle
  BY DEF Init, AuditTellsLifecycle
<1> QED BY <1>2, <1>3, <1>4, <1>5 DEF IInv

LEMMA NextInv == IInv /\ [Next]_vars => IInv'
<1> SUFFICES ASSUME IInv, [Next]_vars PROVE IInv'
  OBVIOUS
<1>1. CASE UNCHANGED vars
  <2>1. UNCHANGED <<usage, period, audit, headers, rows, attempt, reopen>>
    BY <1>1 DEF vars
  <2>2. TypeOK' /\ PeriodInv' /\ VersionsGapless' /\ AreaIntact' /\ AuditTellsLifecycle'
    BY <2>1 DEF IInv, TypeOK, PeriodInv, VersionsGapless, AreaIntact, AuditTellsLifecycle
  <2>3. AttemptInv' /\ HeaderInv' /\ RowInv' /\ NoLeftovers'
    BY <2>1 DEF IInv, AttemptInv, AttemptOK, HeaderInv, RowInv, RowsOK, RowOf, HeaderExists,
                NoLeftovers
  <2> QED BY <2>2, <2>3 DEF IInv
<1>2. CASE \E a \in Attempts : AttemptStep(a)
  <2>1. PICK a \in Attempts : AttemptStep(a)
    BY <1>2
  <2> QED BY <2>1, BeginInv, ChooseVersionInv, FetchPageInv, StageChunkInv, PublishInv,
             LostCommitInv, FailInv, DiscardInv, SweepInv, CrashInv DEF AttemptStep
<1>3. CASE \E x \in Reopens : ReopenStep(x)
  BY <1>3, ReopenFindInv, MarkReopenedInv DEF ReopenStep
<1>4. CASE \E r \in Records : UsageArrives(r)
  BY <1>4, UsageArrivesInv
<1> QED BY <1>1, <1>2, <1>3, <1>4 DEF Next

\* The area a header names is what readers of its version see.
LEMMA InvIntact == IInv => PublishedIntact
<1> SUFFICES ASSUME IInv, NEW h \in headers
             PROVE  PublishedRows(h.version) = h.statement
  BY DEF PublishedIntact
<1>1. h.statement \subseteq Records
  BY DEF IInv, TypeOK
<1> QED BY <1>1, PublishedIsArea DEF IInv

\* The inductive invariant holds in every reachable state.
THEOREM Inductive == Spec => []IInv
<1> QED BY InitInv, NextInv, PTL DEF Spec

\* Every variable keeps its type.
THEOREM TypeCorrect == Spec => []TypeOK
<1>1. IInv => TypeOK
  BY DEF IInv
<1> QED BY <1>1, Inductive, PTL

\* Bills are numbered 1, 2, 3, ..., whatever the close attempts overtook.
THEOREM Gapless == Spec => []VersionsGapless
<1>1. IInv => VersionsGapless
  BY DEF IInv
<1> QED BY <1>1, Inductive, PTL

\* The audit trail is the month's life: close, reopen, close, ...
THEOREM AuditTrail == Spec => []AuditTellsLifecycle
<1>1. IInv => AuditTellsLifecycle
  BY DEF IInv
<1> QED BY <1>1, Inductive, PTL

\* A published bill keeps exactly the rows its statement was folded from.
THEOREM Intact == Spec => []PublishedIntact
<1>1. IInv => PublishedIntact
  BY InvIntact
<1> QED BY <1>1, Inductive, PTL

\* A close that cleaned up after itself left no row behind.
THEOREM CleanReturn == Spec => []NoLeftovers
<1>1. IInv => NoLeftovers
  BY DEF IInv
<1> QED BY <1>1, Inductive, PTL

\* A close that began on an open month is refused only by a newer bill.
THEOREM NeverWedged == Spec => []NoWedge
<1>1. IInv => NoWedge
  BY DEF IInv, AttemptInv, AttemptOK, NoWedge, TypeOK
<1> QED BY <1>1, Inductive, PTL

-----------------------------------------------------------------------------
(* The staged protocol implements the atomic ledger. *)

Bills == [v \in 1..period.snapshotVersion |-> PublishedRows(v)]

\* What readers of a bill see never changes once it is published.
LEMMA BillStable ==
  ASSUME IInv, IInv', headers \subseteq headers', NEW v \in 1..period.snapshotVersion
  PROVE  PublishedRows(v)' = PublishedRows(v)
<1>1. PICK h \in headers : h.version = v
  BY DEF IInv, VersionsGapless
<1>2. PublishedRows(v) = h.statement
  BY <1>1, InvIntact DEF PublishedIntact
<1>3. PublishedIntact'
  BY InvIntact, PTL
<1>4. PublishedRows(v)' = h.statement
  BY <1>1, <1>3 DEF PublishedIntact
<1> QED BY <1>2, <1>4

\* A step that leaves the period and the headers alone is a stuttering step.
LEMMA QuietStep ==
  ASSUME IInv, IInv', UNCHANGED <<period, headers>>
  PROVE  UNCHANGED Ledger!ledger
<1>1. \A v \in 1..period.snapshotVersion : PublishedRows(v)' = PublishedRows(v)
  BY BillStable
<1>2. Bills' = Bills
  BY <1>1 DEF Bills
<1> QED BY <1>2 DEF Bills, Ledger!ledger

LEMMA PublishCloses ==
  ASSUME IInv, IInv', NEW a \in Attempts, Publish(a)
  PROVE  Ledger!Close(attempt[a].folded)
<1> DEFINE N == period.snapshotVersion
           rs == attempt[a].folded
           bill == [version |-> attempt[a].version, token |-> a, statement |-> rs]
<1>1. /\ attempt[a] \in AttemptStates /\ N \in Nat
      /\ attempt[a].pc = "fetch" /\ ~HeaderExists(attempt[a].version)
      /\ period.status # "closed"
      /\ headers' = headers \cup {bill}
      /\ period' = [status |-> "closed", snapshotVersion |-> attempt[a].version]
  BY DEF IInv, TypeOK, Publish, ReadyToPublish, CommitBy, Flippable
<1>2. attempt[a].version = N + 1
  <2>1. attempt[a].version > 0 /\ attempt[a].version <= N + 1
    BY <1>1 DEF IInv, AttemptInv, AttemptOK
  <2>2. attempt[a].version \notin 1..N
    BY <1>1 DEF HeaderExists, IInv, VersionsGapless
  <2> QED BY <1>1, <2>1, <2>2
<1>3. period'.status = "closed" /\ period'.snapshotVersion = N + 1
  BY <1>1, <1>2
<1>4. \A v \in 1..N : PublishedRows(v)' = PublishedRows(v)
  BY <1>1, BillStable
<1>5. \A v \in 1..(N + 1) : v = N + 1 => PublishedRows(v)' = rs
  <2>1. bill \in headers' /\ bill.version = N + 1 /\ bill.statement = rs
    BY <1>1, <1>2
  <2>2. PublishedIntact'
    BY InvIntact, PTL
  <2> HIDE DEF bill, rs
  <2>3. \A h \in headers' : PublishedRows(h.version)' = h.statement
    BY <2>2 DEF PublishedIntact
  <2> QED BY <2>1, <2>3
<1>6. Bills' = [v \in 1..(N + 1) |-> IF v = N + 1 THEN rs ELSE Bills[v]]
  <2>1. \A v \in 1..(N + 1) : v # N + 1 => v \in 1..N
    BY <1>1
  <2>2. \A v \in 1..(N + 1) :
          PublishedRows(v)' = IF v = N + 1 THEN rs ELSE Bills[v]
    <3> TAKE v \in 1..(N + 1)
    <3>1. CASE v = N + 1
      BY <1>5, <3>1
    <3>2. CASE v # N + 1
      BY <1>4, <2>1, <3>2 DEF Bills
    <3> QED BY <3>1, <3>2
  <2> QED BY <1>3, <2>2 DEF Bills
<1> QED BY <1>1, <1>3, <1>6 DEF Bills, Ledger!Close

LEMMA ReopenedReopens ==
  ASSUME IInv, IInv', NEW x \in Reopens, MarkReopened(x), Reopenable(period)
  PROVE  Ledger!Reopen
<1>1. /\ period.status = "closed" /\ period' = [period EXCEPT !.status = "open"]
      /\ period \in Periods /\ UNCHANGED headers
  BY DEF MarkReopened, Reopenable, IInv, TypeOK
<1>2. period'.status = "open" /\ period'.snapshotVersion = period.snapshotVersion
  BY <1>1
<1>3. \A v \in 1..period.snapshotVersion : PublishedRows(v)' = PublishedRows(v)
  BY <1>1, BillStable
<1>4. Bills' = Bills
  BY <1>2, <1>3 DEF Bills
<1> QED BY <1>1, <1>2, <1>4 DEF Bills, Ledger!Reopen

\* Every behaviour of the staged protocol, read through findCurrent and the
\* usage readers, is a behaviour of the atomic ledger: whole bills, one per
\* close, never changed afterwards.
THEOREM Refinement == Spec => ImplementsLedger
<1>1. Init => Ledger!Init
  <2> SUFFICES ASSUME Init PROVE Ledger!Init
    OBVIOUS
  <2>1. period.status # "closed" /\ period.snapshotVersion = 0
    BY DEF Init
  <2>2. Bills = [v \in 1..0 |-> {}]
    <3>1. \A v \in 1..0 : PublishedRows(v) = {}
      OBVIOUS
    <3> QED BY <2>1, <3>1 DEF Bills
  <2> QED BY <2>1, <2>2 DEF Bills, Ledger!Init
<1>2. IInv /\ IInv' /\ [Next]_vars => [Ledger!Next]_(Ledger!ledger)
  <2> SUFFICES ASSUME IInv, IInv', [Next]_vars
               PROVE  [Ledger!Next]_(Ledger!ledger)
    OBVIOUS
  <2>1. CASE UNCHANGED <<period, headers>>
    BY <2>1, QuietStep
  <2>2. ASSUME NEW a \in Attempts, Publish(a)
        PROVE  Ledger!Next
    <3>1. attempt[a].folded \in SUBSET Records
      BY DEF IInv, TypeOK
    <3> QED BY <2>2, <3>1, PublishCloses DEF Ledger!Next
  <2>3. ASSUME NEW x \in Reopens, MarkReopened(x), Reopenable(period)
        PROVE  Ledger!Next
    BY <2>3, ReopenedReopens DEF Ledger!Next
  <2>4. \/ UNCHANGED <<period, headers>>
        \/ \E a \in Attempts : Publish(a)
        \/ \E x \in Reopens : MarkReopened(x) /\ Reopenable(period)
    BY DEF vars, Next, AttemptStep, ReopenStep, Begin, ChooseVersion, FetchPage, StageChunk,
           RefusedByHeader, LosesFlip, Fail, Discard, Sweep, Crash, ReopenFind, MarkReopened,
           UsageArrives
  <2> QED BY <2>1, <2>2, <2>3, <2>4
<1> QED BY <1>1, <1>2, Inductive, PTL DEF Spec, ImplementsLedger, Ledger!Spec

-----------------------------------------------------------------------------
(***************************************************************************)
(* Sums over finite sets: the terms may be taken one by one, renamed,      *)
(* taken part by part, and compared term by term.                          *)
(***************************************************************************)

\* A claim that holds of a set when it holds of the set without any one of
\* its elements holds of every finite set.
LEMMA OneLess ==
  ASSUME NEW S, IsFiniteSet(S), NEW Good,
         \A T \in SUBSET S : (\A x \in T : T \ {x} \in Good) => T \in Good
  PROVE  S \in Good
<1> DEFINE Bad == {k \in Nat : \E T \in SUBSET S : T \notin Good /\ Cardinality(T) = k}
<1> SUFFICES ASSUME S \notin Good PROVE FALSE
  OBVIOUS
<1>1. Cardinality(S) \in Bad
  BY FS_CardinalityType
<1>2. PICK k \in Bad : \A j \in Bad : k <= j
  <2>1. Bad \subseteq Nat
    OBVIOUS
  <2> HIDE DEF Bad
  <2>2. QED
    BY <1>1, <2>1, MinOfNat
<1>3. PICK T \in SUBSET S : T \notin Good /\ Cardinality(T) = k
  BY <1>2
<1>4. IsFiniteSet(T) /\ k \in Nat
  BY FS_Subset
<1>5. PICK x \in T : T \ {x} \notin Good
  BY <1>3
<1>6. Cardinality(T \ {x}) = k - 1 /\ Cardinality(T \ {x}) \in Nat /\ T \ {x} \in SUBSET S
  <2>1. IsFiniteSet(T \ {x})
    BY <1>4, FS_Subset
  <2>2. QED
    BY <1>3, <1>4, <1>5, <2>1, FS_RemoveElement, FS_CardinalityType
<1>7. k - 1 \in Bad
  BY <1>5, <1>6
<1>8. QED
  BY <1>2, <1>4, <1>7

\* A claim that holds of no element, and stays true as elements are added.
LEMMA OneMore ==
  ASSUME NEW S, IsFiniteSet(S), NEW Good, {} \in Good,
         \A T \in SUBSET S : \A x \in S \ T : T \in Good => T \cup {x} \in Good
  PROVE  S \in Good
<1>1. ASSUME NEW T \in SUBSET S, \A x \in T : T \ {x} \in Good
      PROVE  T \in Good
  <2>1. CASE T = {}
    BY <2>1
  <2>2. CASE T # {}
    <3>1. PICK x \in T : TRUE
      BY <2>2
    <3>2. T \ {x} \in SUBSET S /\ x \in S \ (T \ {x}) /\ (T \ {x}) \cup {x} = T
      BY <3>1
    <3>3. QED
      BY <1>1, <3>1, <3>2
  <2>3. QED
    BY <2>1, <2>2
<1>2. QED
  BY <1>1, OneLess

\* The recursion of a sum, on the set itself.
LEMMA SumPicked ==
  ASSUME NEW f, NEW S, IsFiniteSet(S)
  PROVE  /\ S = {} => SumFunctionOnSet(f, S) = 0
         /\ S # {} => /\ Picked(S) \in S
                      /\ SumFunctionOnSet(f, S) = f[Picked(S)] + SumFunctionOnSet(f, S \ {Picked(S)})
<1>1. ASSUME NEW T
      PROVE  SumFunctionOnSet(f, T) = Table(f, T)[T]
  BY DEF SumFunctionOnSet, FoldFunctionOnSet, MapThenFoldSet, Table, Picked
<1>2. ASSUME NEW T \in SUBSET S
      PROVE  Table(f, S)[T] = Table(f, T)[T]
  <2> DEFINE Good == {s \in SUBSET T : Table(f, S)[s] = Table(f, T)[s]}
  <2>1. IsFiniteSet(T)
    BY FS_Subset
  <2>2. {} \in Good
    BY <2>1, TableEmpty
  <2>3. ASSUME NEW s \in SUBSET T, s # {}, s \ {Picked(s)} \in Good
        PROVE  s \in Good
    <3>1. s \in SUBSET S
      OBVIOUS
    <3>2. Table(f, S)[s] = f[Picked(s)] + Table(f, S)[s \ {Picked(s)}]
      BY <2>3, <3>1, TableStep
    <3>3. Table(f, T)[s] = f[Picked(s)] + Table(f, T)[s \ {Picked(s)}]
      BY <2>1, <2>3, TableStep
    <3>4. QED
      BY <2>3, <3>2, <3>3
  <2> HIDE DEF Good
  <2>4. Good \in SUBSET SUBSET T
    BY DEF Good
  <2>5. T \in Good
    BY <2>1, <2>2, <2>3, <2>4, SmallestSet
  <2>6. QED
    BY <2>5 DEF Good
<1>3. S = {} => Table(f, S)[S] = 0
  BY TableStep
<1>4. S # {} => /\ Picked(S) \in S
                /\ Table(f, S)[S] = f[Picked(S)] + Table(f, S)[S \ {Picked(S)}]
  BY TableStep
<1>5. S \ {Picked(S)} \in SUBSET S
  OBVIOUS
<1>6. Table(f, S)[S \ {Picked(S)}] = SumFunctionOnSet(f, S \ {Picked(S)})
  BY <1>1, <1>2, <1>5
<1>7. QED
  BY <1>1, <1>3, <1>4, <1>6

\* The sum of nothing.
LEMMA SumNone ==
  ASSUME NEW f
  PROVE  SumFunctionOnSet(f, {}) = 0
<1>1. IsFiniteSet({})
  BY FS_EmptySet
<1>2. QED
  BY <1>1, SumPicked

\* A sum of integers is an integer.
LEMMA SumInt ==
  ASSUME NEW f, NEW S, IsFiniteSet(S), \A x \in S : f[x] \in Int
  PROVE  SumFunctionOnSet(f, S) \in Int
<1> DEFINE Good == {T \in SUBSET S : SumFunctionOnSet(f, T) \in Int}
<1>1. ASSUME NEW T \in SUBSET S, \A x \in T : T \ {x} \in Good
      PROVE  T \in Good
  <2>1. IsFiniteSet(T)
    BY FS_Subset
  <2>2. CASE T = {}
    <3>1. SumFunctionOnSet(f, T) = 0
      BY <2>1, <2>2, SumPicked
    <3>2. QED
      BY <3>1
  <2>3. CASE T # {}
    <3>1. SumFunctionOnSet(f, T) = f[Picked(T)] + SumFunctionOnSet(f, T \ {Picked(T)})
      BY <2>1, <2>3, SumPicked
    <3>2. Picked(T) \in T
      BY <2>3, PickedIn
    <3>3. QED
      BY <1>1, <3>1, <3>2
  <2>4. QED
    BY <2>2, <2>3
<1> HIDE DEF Good
<1>2. S \in Good
  BY <1>1, OneLess
<1>3. QED
  BY <1>2 DEF Good

\* The order in which a sum picks its elements does not matter.
LEMMA SumWithout ==
  ASSUME NEW f, NEW S, IsFiniteSet(S), \A x \in S : f[x] \in Int, NEW y \in S
  PROVE  SumFunctionOnSet(f, S) = f[y] + SumFunctionOnSet(f, S \ {y})
<1> DEFINE Good == {T \in SUBSET S : \A x \in T :
                      SumFunctionOnSet(f, T) = f[x] + SumFunctionOnSet(f, T \ {x})}
<1>1. ASSUME NEW T \in SUBSET S, \A x \in T : T \ {x} \in Good
      PROVE  T \in Good
  <2> SUFFICES ASSUME NEW x \in T
               PROVE  SumFunctionOnSet(f, T) = f[x] + SumFunctionOnSet(f, T \ {x})
    OBVIOUS
  <2>1. IsFiniteSet(T)
    BY FS_Subset
  <2>2. PICK p \in T : SumFunctionOnSet(f, T) = f[p] + SumFunctionOnSet(f, T \ {p})
    BY <2>1, SumPicked
  <2>3. CASE p = x
    BY <2>2, <2>3
  <2>4. CASE p # x
    <3> DEFINE rest == SumFunctionOnSet(f, (T \ {p}) \ {x})
    <3>1. SumFunctionOnSet(f, T \ {p}) = f[x] + rest
      BY <1>1, <2>2, <2>4
    <3>2. SumFunctionOnSet(f, T \ {x}) = f[p] + SumFunctionOnSet(f, (T \ {x}) \ {p})
      BY <1>1, <2>2, <2>4
    <3>3. (T \ {x}) \ {p} = (T \ {p}) \ {x}
      OBVIOUS
    <3>4. rest \in Int
      <4>1. IsFiniteSet((T \ {p}) \ {x})
        BY <2>1, FS_Subset
      <4>2. QED
        BY <4>1, SumInt
    <3>5. f[p] \in Int /\ f[x] \in Int
      OBVIOUS
    <3> HIDE DEF rest
    <3>6. SumFunctionOnSet(f, T \ {x}) = f[p] + rest
      BY <3>2, <3>3 DEF rest
    <3>7. QED
      BY <2>2, <3>1, <3>4, <3>5, <3>6
  <2>5. QED
    BY <2>3, <2>4
<1> HIDE DEF Good
<1>2. S \in Good
  BY <1>1, OneLess
<1>3. QED
  BY <1>2 DEF Good

\* One term more.
LEMMA SumWith ==
  ASSUME NEW f, NEW S, IsFiniteSet(S), \A x \in S : f[x] \in Int, NEW y, y \notin S, f[y] \in Int
  PROVE  SumFunctionOnSet(f, S \cup {y}) = f[y] + SumFunctionOnSet(f, S)
<1>1. IsFiniteSet(S \cup {y}) /\ (S \cup {y}) \ {y} = S
  BY FS_AddElement
<1>2. QED
  BY <1>1, SumWithout

\* Sums of the same terms are the same.
LEMMA SumSame ==
  ASSUME NEW f, NEW g, NEW S, IsFiniteSet(S), \A x \in S : f[x] = g[x]
  PROVE  SumFunctionOnSet(f, S) = SumFunctionOnSet(g, S)
<1> DEFINE Good == {T \in SUBSET S : SumFunctionOnSet(f, T) = SumFunctionOnSet(g, T)}
<1>1. ASSUME NEW T \in SUBSET S, \A x \in T : T \ {x} \in Good
      PROVE  T \in Good
  <2>1. IsFiniteSet(T)
    BY FS_Subset
  <2>2. CASE T = {}
    BY <2>1, <2>2, SumPicked
  <2>3. CASE T # {}
    <3>1. SumFunctionOnSet(f, T) = f[Picked(T)] + SumFunctionOnSet(f, T \ {Picked(T)})
      BY <2>1, <2>3, SumPicked
    <3>2. SumFunctionOnSet(g, T) = g[Picked(T)] + SumFunctionOnSet(g, T \ {Picked(T)})
      BY <2>1, <2>3, SumPicked
    <3>3. Picked(T) \in T
      BY <2>3, PickedIn
    <3>4. QED
      BY <1>1, <3>1, <3>2, <3>3
  <2>4. QED
    BY <2>2, <2>3
<1> HIDE DEF Good
<1>2. S \in Good
  BY <1>1, OneLess
<1>3. QED
  BY <1>2 DEF Good

\* The sum of one term.
LEMMA SumOne ==
  ASSUME NEW f, NEW x, f[x] \in Int
  PROVE  SumFunctionOnSet(f, {x}) = f[x]
<1>1. IsFiniteSet({x}) /\ {x} \ {x} = {}
  BY FS_Singleton
<1>2. SumFunctionOnSet(f, {x}) = f[x] + SumFunctionOnSet(f, {})
  BY <1>1, SumWithout
<1>3. QED
  BY <1>2, SumNone

\* The sum over two sets apart.
LEMMA SumUnion ==
  ASSUME NEW f, NEW S, IsFiniteSet(S), NEW T, IsFiniteSet(T), S \cap T = {},
         \A x \in S \cup T : f[x] \in Int
  PROVE  SumFunctionOnSet(f, S \cup T) = SumFunctionOnSet(f, S) + SumFunctionOnSet(f, T)
<1> DEFINE Good == {U \in SUBSET T : SumFunctionOnSet(f, S \cup U)
                                       = SumFunctionOnSet(f, S) + SumFunctionOnSet(f, U)}
<1>0. SumFunctionOnSet(f, S) \in Int
  BY SumInt
<1>1. {} \in Good
  <2>1. S \cup {} = S
    OBVIOUS
  <2>2. QED
    BY <1>0, <2>1, SumNone
<1>2. ASSUME NEW U \in SUBSET T, NEW y \in T \ U, U \in Good
      PROVE  U \cup {y} \in Good
  <2>1. IsFiniteSet(U) /\ IsFiniteSet(S \cup U)
    BY FS_Subset, FS_Union
  <2>2. S \cup (U \cup {y}) = (S \cup U) \cup {y} /\ y \notin S \cup U
    OBVIOUS
  <2>3. SumFunctionOnSet(f, U \cup {y}) = f[y] + SumFunctionOnSet(f, U)
    BY <2>1, SumWith
  <2>4. SumFunctionOnSet(f, (S \cup U) \cup {y}) = f[y] + SumFunctionOnSet(f, S \cup U)
    BY <2>1, <2>2, SumWith
  <2>5. SumFunctionOnSet(f, U) \in Int /\ f[y] \in Int
    BY <2>1, SumInt
  <2>6. SumFunctionOnSet(f, S \cup U) = SumFunctionOnSet(f, S) + SumFunctionOnSet(f, U)
    BY <1>2
  <2>7. SumFunctionOnSet(f, S \cup (U \cup {y})) = SumFunctionOnSet(f, S) + SumFunctionOnSet(f, U \cup {y})
    <3>1. SumFunctionOnSet(f, S \cup (U \cup {y})) = f[y] + SumFunctionOnSet(f, S \cup U)
      BY <2>2, <2>4
    <3>2. QED
      BY <1>0, <2>3, <2>5, <2>6, <3>1
  <2>8. QED
    BY <2>7
<1> HIDE DEF Good
<1>3. T \in Good
  BY <1>1, <1>2, OneMore
<1>4. QED
  BY <1>3 DEF Good

Mixes(h, a, f, b, g, S) == \A x \in S : f[x] \in Int /\ g[x] \in Int /\ h[x] = a * f[x] + b * g[x]

\* Sums are linear.
LEMMA SumScaled ==
  ASSUME NEW f, NEW g, NEW h, NEW S, IsFiniteSet(S), NEW a \in Int, NEW b \in Int,
         Mixes(h, a, f, b, g, S)
  PROVE  SumFunctionOnSet(h, S) = a * SumFunctionOnSet(f, S) + b * SumFunctionOnSet(g, S)
<1> DEFINE Good == {T \in SUBSET S : SumFunctionOnSet(h, T)
                                       = a * SumFunctionOnSet(f, T) + b * SumFunctionOnSet(g, T)}
<1>1. {} \in Good
  <2>1. /\ SumFunctionOnSet(h, {}) = 0 /\ SumFunctionOnSet(f, {}) = 0 /\ SumFunctionOnSet(g, {}) = 0
    BY SumNone
  <2>2. 0 = a * 0 + b * 0
    OBVIOUS
  <2>3. QED
    BY <2>1, <2>2
<1>2. ASSUME NEW T \in SUBSET S, NEW y \in S \ T, T \in Good
      PROVE  T \cup {y} \in Good
  <2> DEFINE F == SumFunctionOnSet(f, T)
             G == SumFunctionOnSet(g, T)
  <2>1. IsFiniteSet(T)
    BY FS_Subset
  <2>2. F \in Int /\ G \in Int /\ f[y] \in Int /\ g[y] \in Int /\ h[y] \in Int
    <3>1. /\ \A x \in T : f[x] \in Int /\ g[x] \in Int
          /\ f[y] \in Int /\ g[y] \in Int /\ h[y] \in Int
      BY DEF Mixes
    <3>2. (\A x \in T : f[x] \in Int) /\ \A x \in T : g[x] \in Int
      BY <3>1
    <3>3. QED
      BY <2>1, <3>1, <3>2, SumInt
  <2>3. /\ \A x \in T : h[x] \in Int
        /\ \A x \in T : f[x] \in Int
        /\ \A x \in T : g[x] \in Int
    BY DEF Mixes
  <2>4. /\ SumFunctionOnSet(f, T \cup {y}) = f[y] + F
        /\ SumFunctionOnSet(g, T \cup {y}) = g[y] + G
    BY <2>1, <2>2, <2>3, SumWith
  <2>5. SumFunctionOnSet(h, T \cup {y}) = h[y] + SumFunctionOnSet(h, T)
    BY <2>1, <2>2, <2>3, SumWith
  <2>6. SumFunctionOnSet(h, T) = a * F + b * G /\ h[y] = a * f[y] + b * g[y]
    BY <1>2 DEF Mixes
  <2> HIDE DEF F, G
  <2>7. /\ a * (f[y] + F) = a * f[y] + a * F
        /\ b * (g[y] + G) = b * g[y] + b * G
    BY <2>2
  <2>8. a * f[y] \in Int /\ a * F \in Int /\ b * g[y] \in Int /\ b * G \in Int
    BY <2>2
  <2>9. SumFunctionOnSet(h, T \cup {y}) = a * (f[y] + F) + b * (g[y] + G)
    BY <2>5, <2>6, <2>7, <2>8
  <2>10. SumFunctionOnSet(h, T \cup {y}) = a * SumFunctionOnSet(f, T \cup {y}) + b * SumFunctionOnSet(g, T \cup {y})
    BY <2>4, <2>9
  <2>11. QED
    BY <2>10
<1> HIDE DEF Good
<1>3. S \in Good
  BY <1>1, <1>2, OneMore
<1>4. QED
  BY <1>3 DEF Good

\* Terms that are close to each other have close sums.
LEMMA SumNear ==
  ASSUME NEW f, NEW g, NEW S, IsFiniteSet(S), NEW low \in Int, NEW high \in Int,
         \A x \in S : f[x] \in Int /\ g[x] \in Int /\ low <= f[x] - g[x] /\ f[x] - g[x] <= high
  PROVE  /\ low * Cardinality(S) <= SumFunctionOnSet(f, S) - SumFunctionOnSet(g, S)
         /\ SumFunctionOnSet(f, S) - SumFunctionOnSet(g, S) <= high * Cardinality(S)
<1> DEFINE Good == {T \in SUBSET S :
              /\ low * Cardinality(T) <= SumFunctionOnSet(f, T) - SumFunctionOnSet(g, T)
              /\ SumFunctionOnSet(f, T) - SumFunctionOnSet(g, T) <= high * Cardinality(T)}
<1>1. {} \in Good
  <2>1. SumFunctionOnSet(f, {}) = 0 /\ SumFunctionOnSet(g, {}) = 0 /\ Cardinality({}) = 0
    BY SumNone, FS_EmptySet
  <2>2. low * 0 = 0 /\ high * 0 = 0 /\ 0 - 0 = 0 /\ 0 <= 0
    OBVIOUS
  <2>3. QED
    BY <2>1, <2>2
<1>2. ASSUME NEW T \in SUBSET S, NEW y \in S \ T, T \in Good
      PROVE  T \cup {y} \in Good
  <2> DEFINE F == SumFunctionOnSet(f, T)
             G == SumFunctionOnSet(g, T)
             n == Cardinality(T)
  <2>1. IsFiniteSet(T)
    BY FS_Subset
  <2>2. F \in Int /\ G \in Int /\ f[y] \in Int /\ g[y] \in Int /\ n \in Int
    BY <2>1, SumInt, FS_CardinalityType
  <2>3. /\ SumFunctionOnSet(f, T \cup {y}) = f[y] + F
        /\ SumFunctionOnSet(g, T \cup {y}) = g[y] + G
        /\ Cardinality(T \cup {y}) = n + 1
    BY <2>1, SumWith, FS_AddElement
  <2>4. low * n <= F - G /\ F - G <= high * n /\ low <= f[y] - g[y] /\ f[y] - g[y] <= high
    BY <1>2
  <2> HIDE DEF F, G, n
  <2>5. low * (n + 1) = low * n + low /\ high * (n + 1) = high * n + high
    BY <2>2
  <2>6. low * n \in Int /\ high * n \in Int
    BY <2>2
  <2>7. low * (n + 1) <= (f[y] + F) - (g[y] + G) /\ (f[y] + F) - (g[y] + G) <= high * (n + 1)
    BY <2>2, <2>4, <2>5, <2>6
  <2>8. QED
    BY <2>3, <2>7
<1> HIDE DEF Good
<1>3. S \in Good
  BY <1>1, <1>2, OneMore
<1>4. QED
  BY <1>3 DEF Good

\* No larger terms, no larger sum.
LEMMA SumAtMost ==
  ASSUME NEW f, NEW g, NEW S, IsFiniteSet(S), \A x \in S : f[x] \in Int /\ g[x] \in Int /\ f[x] <= g[x]
  PROVE  SumFunctionOnSet(f, S) <= SumFunctionOnSet(g, S)
<1> DEFINE Good == {T \in SUBSET S : SumFunctionOnSet(f, T) <= SumFunctionOnSet(g, T)}
<1>1. {} \in Good
  BY SumNone
<1>2. ASSUME NEW T \in SUBSET S, NEW y \in S \ T, T \in Good
      PROVE  T \cup {y} \in Good
  <2>1. IsFiniteSet(T)
    BY FS_Subset
  <2>2. /\ SumFunctionOnSet(f, T \cup {y}) = f[y] + SumFunctionOnSet(f, T)
        /\ SumFunctionOnSet(g, T \cup {y}) = g[y] + SumFunctionOnSet(g, T)
    BY <2>1, SumWith
  <2>3. SumFunctionOnSet(f, T) \in Int /\ SumFunctionOnSet(g, T) \in Int
    BY <2>1, SumInt
  <2>4. SumFunctionOnSet(f, T) <= SumFunctionOnSet(g, T) /\ f[y] <= g[y] /\ f[y] \in Int /\ g[y] \in Int
    BY <1>2
  <2>5. QED
    BY <2>2, <2>3, <2>4
<1> HIDE DEF Good
<1>3. S \in Good
  BY <1>1, <1>2, OneMore
<1>4. QED
  BY <1>3 DEF Good

\* A sum of zeros.
LEMMA SumZeros ==
  ASSUME NEW f, NEW S, IsFiniteSet(S), \A x \in S : f[x] = 0
  PROVE  SumFunctionOnSet(f, S) = 0
<1> DEFINE Good == {T \in SUBSET S : SumFunctionOnSet(f, T) = 0}
<1>1. {} \in Good
  BY SumNone
<1>2. ASSUME NEW T \in SUBSET S, NEW y \in S \ T, T \in Good
      PROVE  T \cup {y} \in Good
  <2>1. IsFiniteSet(T)
    BY FS_Subset
  <2>2. SumFunctionOnSet(f, T \cup {y}) = f[y] + SumFunctionOnSet(f, T)
    BY <2>1, SumWith
  <2>3. QED
    BY <1>2, <2>2
<1> HIDE DEF Good
<1>3. S \in Good
  BY <1>1, <1>2, OneMore
<1>4. QED
  BY <1>3 DEF Good

\* A sum of naturals is a natural, and no term is more than it.
LEMMA SumNat ==
  ASSUME NEW f, NEW S, IsFiniteSet(S), \A x \in S : f[x] \in Nat
  PROVE  /\ SumFunctionOnSet(f, S) \in Nat
         /\ \A x \in S : f[x] <= SumFunctionOnSet(f, S)
<1>1. ASSUME NEW T, IsFiniteSet(T), \A x \in T : f[x] \in Nat
      PROVE  SumFunctionOnSet(f, T) \in Nat
  <2> DEFINE zero == [x \in T |-> 0]
  <2>1. \A x \in T : zero[x] = 0
    OBVIOUS
  <2>2. SumFunctionOnSet(zero, T) = 0
    BY <1>1, <2>1, SumZeros
  <2>3. \A x \in T : zero[x] \in Int /\ f[x] \in Int /\ zero[x] <= f[x]
    BY <1>1
  <2>4. SumFunctionOnSet(zero, T) <= SumFunctionOnSet(f, T)
    BY <1>1, <2>3, SumAtMost
  <2>5. SumFunctionOnSet(f, T) \in Int
    BY <1>1, <2>3, SumInt
  <2>6. QED
    BY <2>2, <2>4, <2>5
<1>2. ASSUME NEW x \in S
      PROVE  f[x] <= SumFunctionOnSet(f, S)
  <2>1. IsFiniteSet(S \ {x})
    BY FS_Subset
  <2>2. SumFunctionOnSet(f, S \ {x}) \in Nat
    BY <1>1, <2>1
  <2>3. SumFunctionOnSet(f, S) = f[x] + SumFunctionOnSet(f, S \ {x})
    BY SumWithout
  <2>4. QED
    BY <2>2, <2>3
<1>3. QED
  BY <1>1, <1>2

\* s gives every element of B to one index of A.
Numbers(s, A, B) ==
  /\ \A i \in A : s[i] \in B
  /\ \A i, j \in A : s[i] = s[j] => i = j
  /\ \A b \in B : \E i \in A : s[i] = b

\* g holds what f holds, under the names h gives.
Follows(g, f, h, T) == \A x \in T : f[h[x]] \in Int /\ g[x] = f[h[x]]

\* The terms may be named otherwise.
LEMMA SumAlong ==
  ASSUME NEW f, NEW S, NEW T, IsFiniteSet(T), NEW h, Numbers(h, T, S), NEW g, Follows(g, f, h, T)
  PROVE  SumFunctionOnSet(g, T) = SumFunctionOnSet(f, S) /\ IsFiniteSet(S)
<1> DEFINE Image(U) == {h[x] : x \in U}
           Good == {U \in SUBSET T : /\ IsFiniteSet(Image(U))
                                     /\ SumFunctionOnSet(g, U) = SumFunctionOnSet(f, Image(U))}
<1>1. {} \in Good
  <2>1. Image({}) = {}
    OBVIOUS
  <2>2. QED
    BY <2>1, SumNone, FS_EmptySet
<1>2. ASSUME NEW U \in SUBSET T, NEW y \in T \ U, U \in Good
      PROVE  U \cup {y} \in Good
  <2>1. IsFiniteSet(U)
    BY FS_Subset
  <2>2. Image(U \cup {y}) = Image(U) \cup {h[y]}
    OBVIOUS
  <2>3. h[y] \notin Image(U)
    BY DEF Numbers
  <2>4. IsFiniteSet(Image(U)) /\ SumFunctionOnSet(g, U) = SumFunctionOnSet(f, Image(U))
    BY <1>2
  <2>5. (\A x \in Image(U) : f[x] \in Int) /\ f[h[y]] \in Int
    BY DEF Follows
  <2>6. (\A x \in U : g[x] \in Int) /\ g[y] = f[h[y]] /\ g[y] \in Int
    BY DEF Follows
  <2> HIDE DEF Image
  <2>7. SumFunctionOnSet(f, Image(U) \cup {h[y]}) = f[h[y]] + SumFunctionOnSet(f, Image(U))
    BY <2>3, <2>4, <2>5, SumWith
  <2>8. SumFunctionOnSet(g, U \cup {y}) = g[y] + SumFunctionOnSet(g, U)
    BY <2>1, <2>6, SumWith
  <2>9. IsFiniteSet(Image(U) \cup {h[y]})
    BY <2>4, FS_AddElement
  <2>10. QED
    BY <2>2, <2>4, <2>6, <2>7, <2>8, <2>9
<1>3. Image(T) = S
  <2>1. \A z \in Image(T) : z \in S
    BY DEF Numbers
  <2>2. \A z \in S : z \in Image(T)
    BY DEF Numbers
  <2>3. QED
    BY <2>1, <2>2
<1> HIDE DEF Good, Image
<1>4. T \in Good
  BY <1>1, <1>2, OneMore
<1>5. QED
  BY <1>3, <1>4 DEF Good

\* The parts make up S, each element in one of them.
Splits(part, M, S) ==
  /\ \A i \in M : part[i] \subseteq S
  /\ \A x \in S : \E i \in M : x \in part[i]
  /\ \A i, j \in M : \A x \in S : x \in part[i] /\ x \in part[j] => i = j

\* A sum may be taken part by part.
LEMMA SumOfParts ==
  ASSUME NEW f, NEW S, IsFiniteSet(S), \A x \in S : f[x] \in Int,
         NEW M, IsFiniteSet(M), NEW part, Splits(part, M, S), NEW c,
         \A i \in M : c[i] = SumFunctionOnSet(f, part[i])
  PROVE  SumFunctionOnSet(c, M) = SumFunctionOnSet(f, S)
<1> DEFINE Parts(N) == {x \in S : \E i \in N : x \in part[i]}
           Good == {N \in SUBSET M : SumFunctionOnSet(c, N) = SumFunctionOnSet(f, Parts(N))}
<1>1. {} \in Good
  <2>1. Parts({}) = {}
    OBVIOUS
  <2>2. QED
    BY <2>1, SumNone
<1>2. ASSUME NEW N \in SUBSET M, NEW i \in M \ N, N \in Good
      PROVE  N \cup {i} \in Good
  <2>1. IsFiniteSet(N)
    BY FS_Subset
  <2>2. Parts(N \cup {i}) = part[i] \cup Parts(N)
    BY DEF Splits
  <2>3. part[i] \cap Parts(N) = {}
    BY DEF Splits
  <2>4. part[i] \subseteq S /\ Parts(N) \subseteq S
    BY DEF Splits
  <2>5. SumFunctionOnSet(c, N) = SumFunctionOnSet(f, Parts(N)) /\ c[i] = SumFunctionOnSet(f, part[i])
    BY <1>2
  <2>6. \A j \in M : c[j] \in Int
    <3> SUFFICES ASSUME NEW j \in M PROVE c[j] \in Int
      OBVIOUS
    <3>1. IsFiniteSet(part[j]) /\ \A x \in part[j] : f[x] \in Int
      BY FS_Subset DEF Splits
    <3>2. QED
      BY <3>1, SumInt
  <2> HIDE DEF Parts
  <2>7. IsFiniteSet(part[i]) /\ IsFiniteSet(Parts(N))
    BY <2>4, FS_Subset
  <2>8. SumFunctionOnSet(f, part[i] \cup Parts(N)) = SumFunctionOnSet(f, part[i]) + SumFunctionOnSet(f, Parts(N))
    <3>1. \A x \in part[i] \cup Parts(N) : f[x] \in Int
      BY <2>4
    <3>2. QED
      BY <2>3, <2>7, <3>1, SumUnion
  <2>9. SumFunctionOnSet(c, N \cup {i}) = c[i] + SumFunctionOnSet(c, N)
    BY <2>1, <2>6, SumWith
  <2>10. QED
    BY <2>2, <2>5, <2>8, <2>9
<1>3. Parts(M) = S
  BY DEF Splits
<1> HIDE DEF Good, Parts
<1>4. M \in Good
  BY <1>1, <1>2, OneMore
<1>5. QED
  BY <1>3, <1>4 DEF Good

-----------------------------------------------------------------------------
(***************************************************************************)
(* Sorted lists. Array.sort is modelled by the place of every position, so *)
(* a sort is what the places say: a list of the same elements, no later    *)
(* term before an earlier one.                                             *)
(***************************************************************************)

\* L orders I from first to last.
LinearOn(L, I) ==
  /\ \A i \in I : <<i, i>> \in L
  /\ \A i, j \in I : i = j \/ <<i, j>> \in L \/ <<j, i>> \in L
  /\ \A i, j \in I : <<i, j>> \in L /\ <<j, i>> \in L => i = j
  /\ \A i, j, k \in I : <<i, j>> \in L /\ <<j, k>> \in L => <<i, k>> \in L

\* The elements up to i in the order L.
UpTo(I, L, i) == {j \in I : <<j, i>> \in L}

\* place numbers I in the order L.
Ranked(place, L, I) ==
  /\ Cardinality(I) \in Nat
  /\ \A i \in I : place[i] \in 1..Cardinality(I)
  /\ \A i, j \in I : <<i, j>> \in L /\ i # j => place[i] < place[j]
  /\ \A i, j \in I : place[i] = place[j] => i = j
  /\ \A p \in 1..Cardinality(I) : \E i \in I : place[i] = p

\* A linear order ranks a finite set: place counts the elements up to each.
LEMMA Places ==
  ASSUME NEW I, IsFiniteSet(I), NEW L, LinearOn(L, I),
         NEW place, place = [i \in I |-> Cardinality(UpTo(I, L, i))]
  PROVE  Ranked(place, L, I)
<1> DEFINE n == Cardinality(I)
<1>1. n \in Nat
  BY FS_CardinalityType
<1>2. ASSUME NEW i \in I
      PROVE  /\ IsFiniteSet(UpTo(I, L, i)) /\ Cardinality(UpTo(I, L, i)) \in 1..n
             /\ place[i] = Cardinality(UpTo(I, L, i))
  <2>1. UpTo(I, L, i) \in SUBSET I /\ i \in UpTo(I, L, i)
    BY DEF UpTo, LinearOn
  <2>2. IsFiniteSet(UpTo(I, L, i)) /\ Cardinality(UpTo(I, L, i)) <= n
    BY <2>1, FS_Subset
  <2>3. Cardinality(UpTo(I, L, i)) # 0
    BY <2>1, <2>2, FS_EmptySet
  <2>4. Cardinality(UpTo(I, L, i)) \in Nat
    BY <2>2, FS_CardinalityType
  <2>5. QED
    BY <1>1, <2>2, <2>3, <2>4
<1>3. ASSUME NEW i \in I, NEW j \in I, <<i, j>> \in L, i # j
      PROVE  place[i] < place[j]
  <2>1. UpTo(I, L, i) \in SUBSET UpTo(I, L, j)
    BY <1>3 DEF UpTo, LinearOn
  <2>2. UpTo(I, L, i) # UpTo(I, L, j)
    <3>1. j \in UpTo(I, L, j) /\ j \notin UpTo(I, L, i)
      BY <1>3 DEF UpTo, LinearOn
    <3>2. QED
      BY <3>1
  <2>3. /\ Cardinality(UpTo(I, L, i)) <= Cardinality(UpTo(I, L, j))
        /\ Cardinality(UpTo(I, L, i)) # Cardinality(UpTo(I, L, j))
    BY <1>2, <2>1, <2>2, FS_Subset
  <2>4. QED
    BY <1>2, <2>3
<1>4. ASSUME NEW i \in I, NEW j \in I, place[i] = place[j]
      PROVE  i = j
  <2>1. place[i] \in Int /\ place[j] \in Int
    BY <1>2
  <2>2. i = j \/ place[i] < place[j] \/ place[j] < place[i]
    BY <1>3 DEF LinearOn
  <2>3. QED
    BY <1>4, <2>1, <2>2
<1>5. place \in Injection(I, 1..n)
  <2>1. place \in [I -> 1..n]
    BY <1>2
  <2>2. \A i, j \in DOMAIN place : place[i] = place[j] => i = j
    BY <1>4
  <2>3. QED
    BY <2>1, <2>2 DEF Injection, IsInjective
<1>6. place \in Surjection(I, 1..n)
  <2>1. IsFiniteSet(1..n) /\ Cardinality(1..n) = n
    BY <1>1, FS_Interval
  <2>2. QED
    BY <1>5, <2>1, FS_Injection
<1>7. \A p \in 1..n : \E i \in I : place[i] = p
  BY <1>6 DEF Surjection
<1>8. QED
  BY <1>1, <1>2, <1>3, <1>4, <1>7 DEF Ranked

\* A chain of integer terms compares as a strict linear order.
LEMMA BeforeOrder ==
  ASSUME NEW w \in Nat, NEW s \in [1..w -> Int], NEW t \in [1..w -> Int], NEW u \in [1..w -> Int]
  PROVE  /\ ~Before(s, s)
         /\ ~(Before(s, t) /\ Before(t, s))
         /\ s # t => Before(s, t) \/ Before(t, s)
         /\ Before(s, t) /\ Before(t, u) => Before(s, u)
<1>1. ~Before(s, s)
  BY DEF Before
<1>2. ASSUME Before(s, t), Before(t, s)
      PROVE  FALSE
  <2>1. PICK i \in 1..w : s[i] < t[i] /\ \A j \in 1..(i - 1) : s[j] = t[j]
    BY <1>2 DEF Before
  <2>2. PICK k \in 1..w : t[k] < s[k] /\ \A j \in 1..(k - 1) : s[j] = t[j]
    BY <1>2 DEF Before
  <2>3. i < k \/ i = k \/ k < i
    OBVIOUS
  <2>4. CASE i < k
    BY <2>1, <2>2, <2>4
  <2>5. CASE k < i
    BY <2>1, <2>2, <2>5
  <2>6. QED
    BY <2>1, <2>2, <2>3, <2>4, <2>5
<1>3. ASSUME s # t
      PROVE  Before(s, t) \/ Before(t, s)
  <2> DEFINE D == {i \in 1..w : s[i] # t[i]}
  <2>1. D \in SUBSET Nat /\ \E i \in 1..w : i \in D
    BY <1>3
  <2>2. Min(D) \in D /\ \A i \in D : Min(D) <= i
    <3> HIDE DEF D
    <3>1. QED
      BY <2>1, MinOfNat
  <2>3. PICK i \in D : \A j \in D : i <= j
    BY <2>2
  <2>4. \A j \in 1..(i - 1) : s[j] = t[j]
    BY <2>3
  <2>5. s[i] < t[i] \/ t[i] < s[i]
    BY <2>3
  <2>6. QED
    BY <2>4, <2>5 DEF Before
<1>4. ASSUME Before(s, t), Before(t, u)
      PROVE  Before(s, u)
  <2>1. PICK i \in 1..w : s[i] < t[i] /\ \A j \in 1..(i - 1) : s[j] = t[j]
    BY <1>4 DEF Before
  <2>2. PICK k \in 1..w : t[k] < u[k] /\ \A j \in 1..(k - 1) : t[j] = u[j]
    BY <1>4 DEF Before
  <2>3. CASE i <= k
    <3>1. s[i] < u[i] /\ \A j \in 1..(i - 1) : s[j] = u[j]
      BY <2>1, <2>2, <2>3
    <3>2. QED
      BY <3>1 DEF Before
  <2>4. CASE k < i
    <3>1. s[k] < u[k] /\ \A j \in 1..(k - 1) : s[j] = u[j]
      BY <2>1, <2>2, <2>4
    <3>2. QED
      BY <3>1 DEF Before
  <2>5. QED
    BY <2>3, <2>4
<1>5. QED
  BY <1>1, <1>2, <1>3, <1>4

\* A function on 1..n is a sequence, which AsTuple leaves as it is.
LEMMA TupleIs ==
  ASSUME NEW n \in Nat, NEW S, NEW s \in [1..n -> S]
  PROVE  s \in Seq(S) /\ AsTuple(s) = s /\ Len(s) = n
<1>1. s \in Seq(S)
  BY SeqDef
<1>2. QED
  BY <1>1, ConcatEmptySeq, LenProperties DEF AsTuple

\* How two positions compare: by their terms, else as they stand.
NotAfter(I, terms) ==
  {p \in I \X I : \/ Before(terms[p[1]], terms[p[2]])
                  \/ ~Before(terms[p[2]], terms[p[1]]) /\ p[1] <= p[2]}

\* Ties broken by position, terms order the positions of a list.
LEMMA NotAfterOrder ==
  ASSUME NEW I \in SUBSET Int, NEW w \in Nat, NEW terms \in [I -> [1..w -> Int]],
         NEW L, L = NotAfter(I, terms)
  PROVE  LinearOn(L, I)
<1>1. ASSUME NEW i \in I, NEW j \in I
      PROVE  <<i, j>> \in L <=> \/ Before(terms[i], terms[j])
                                \/ ~Before(terms[j], terms[i]) /\ i <= j
  BY DEF NotAfter
<1>2. ASSUME NEW i \in I, NEW j \in I
      PROVE  <<i, j>> \in L <=> \/ Before(terms[i], terms[j])
                                \/ terms[i] = terms[j] /\ i <= j
  BY <1>1, BeforeOrder
<1>3. \A i \in I : <<i, i>> \in L
  BY <1>2
<1>4. ASSUME NEW i \in I, NEW j \in I
      PROVE  i = j \/ <<i, j>> \in L \/ <<j, i>> \in L
  <2>1. terms[i] = terms[j] \/ Before(terms[i], terms[j]) \/ Before(terms[j], terms[i])
    BY BeforeOrder
  <2>2. QED
    BY <1>2, <2>1
<1>5. ASSUME NEW i \in I, NEW j \in I, <<i, j>> \in L, <<j, i>> \in L
      PROVE  i = j
  <2>1. ~(Before(terms[i], terms[j]) /\ Before(terms[j], terms[i])) /\ ~Before(terms[i], terms[i])
    BY BeforeOrder
  <2>2. QED
    BY <1>2, <1>5, <2>1
<1>6. ASSUME NEW i \in I, NEW j \in I, NEW k \in I, <<i, j>> \in L, <<j, k>> \in L
      PROVE  <<i, k>> \in L
  <2>1. Before(terms[i], terms[j]) /\ Before(terms[j], terms[k]) => Before(terms[i], terms[k])
    BY BeforeOrder
  <2>2. QED
    BY <1>2, <1>6, <2>1
<1>7. QED
  BY <1>3, <1>4, <1>5, <1>6 DEF LinearOn

\* What Arranged promises: every position once, no later term before an
\* earlier one.
LEMMA ArrangedIs ==
  ASSUME NEW I \in SUBSET Int, IsFiniteSet(I), NEW w \in Nat, NEW terms \in [I -> [1..w -> Int]]
  PROVE  /\ Cardinality(I) \in Nat
         /\ Arranged(I, terms) \in [1..Cardinality(I) -> I]
         /\ \A p, q \in 1..Cardinality(I) : Arranged(I, terms)[p] = Arranged(I, terms)[q] => p = q
         /\ \A i \in I : \E p \in 1..Cardinality(I) : Arranged(I, terms)[p] = i
         /\ \A p, q \in 1..Cardinality(I) :
              p < q => ~Before(terms[Arranged(I, terms)[q]], terms[Arranged(I, terms)[p]])
         /\ \A p \in 1..Cardinality(I) :
              Cardinality(UpTo(I, NotAfter(I, terms), Arranged(I, terms)[p])) = p
<1> DEFINE L == NotAfter(I, terms)
           place == [i \in I |-> Cardinality(UpTo(I, L, i))]
           n == Cardinality(I)
           o == [p \in 1..n |-> CHOOSE i \in I : place[i] = p]
<1>1. LinearOn(L, I)
  BY NotAfterOrder
<1>2. ASSUME NEW i \in I
      PROVE  place[i] = Cardinality({j \in I : \/ Before(terms[j], terms[i])
                                               \/ ~Before(terms[i], terms[j]) /\ j <= i})
  <2>1. \A j \in I : <<j, i>> \in L <=> \/ Before(terms[j], terms[i])
                                        \/ ~Before(terms[i], terms[j]) /\ j <= i
    BY DEF NotAfter
  <2>2. UpTo(I, L, i) = {j \in I : \/ Before(terms[j], terms[i])
                                   \/ ~Before(terms[i], terms[j]) /\ j <= i}
    BY <2>1 DEF UpTo
  <2>3. QED
    BY <2>2
<1>3. Ranked(place, L, I)
  <2> HIDE DEF L
  <2>1. QED
    BY <1>1, Places
<1>4. Arranged(I, terms) = AsTuple(o)
  <2> HIDE DEF place
  <2>1. \A p \in 1..n : o[p] = CHOOSE i \in I : Cardinality({j \in I :
                                \/ Before(terms[j], terms[i])
                                \/ ~Before(terms[i], terms[j]) /\ j <= i}) = p
    BY <1>2
  <2>2. QED
    BY <2>1 DEF Arranged
<1> HIDE DEF place
<1>0. /\ n \in Nat
      /\ \A i \in I : place[i] \in 1..n
      /\ \A i, j \in I : <<i, j>> \in L /\ i # j => place[i] < place[j]
      /\ \A i, j \in I : place[i] = place[j] => i = j
      /\ \A p \in 1..n : \E i \in I : place[i] = p
  BY <1>3 DEF Ranked
<1>5. \A p \in 1..n : o[p] \in I /\ place[o[p]] = p
  BY <1>0
<1>6. o \in [1..n -> I]
  BY <1>5
<1> HIDE DEF o, n
<1>7. Arranged(I, terms) = o
  BY <1>0, <1>4, <1>6, TupleIs
<1>8. \A p, q \in 1..n : o[p] = o[q] => p = q
  BY <1>5
<1>9. \A i \in I : \E p \in 1..n : o[p] = i
  BY <1>0, <1>5
<1>10. ASSUME NEW p \in 1..n, NEW q \in 1..n, p < q
       PROVE  ~Before(terms[o[q]], terms[o[p]])
  <2>1. o[p] \in I /\ o[q] \in I /\ o[p] # o[q] /\ place[o[p]] = p /\ place[o[q]] = q
    BY <1>5, <1>10
  <2>2. <<o[q], o[p]>> \notin L
    <3>1. <<o[q], o[p]>> \in L => place[o[q]] < place[o[p]]
      BY <1>0, <2>1
    <3>2. p \in Int /\ q \in Int
      BY <1>0
    <3>3. QED
      BY <1>10, <2>1, <3>1, <3>2
  <2>3. QED
    BY <2>1, <2>2 DEF NotAfter
<1>11. \A p \in 1..n : Cardinality(UpTo(I, L, o[p])) = p
  BY <1>5 DEF place
<1>12. QED
  BY <1>0, <1>6, <1>7, <1>8, <1>9, <1>10, <1>11 DEF n

\* The interval 1..n has n elements.
LEMMA UpToN ==
  ASSUME NEW n \in Nat
  PROVE  IsFiniteSet(1..n) /\ Cardinality(1..n) = n
<1>1. IsFiniteSet(1..n) /\ Cardinality(1..n) = IF 1 > n THEN 0 ELSE n - 1 + 1
  BY FS_Interval
<1>2. QED
  BY <1>1

\* order names every element of I once, from 1 on.
Listing(order, I) ==
  /\ IsFiniteSet(I) /\ Cardinality(I) \in Nat
  /\ order \in [1..Cardinality(I) -> I]
  /\ \A p, q \in 1..Cardinality(I) : order[p] = order[q] => p = q
  /\ \A i \in I : \E p \in 1..Cardinality(I) : order[p] = i

\* A column summed in another order.
LEMMA SumListed ==
  ASSUME NEW I, NEW order, Listing(order, I), NEW f, NEW g, \A i \in I : f[i] \in Int,
         \A p \in 1..Cardinality(I) : g[p] = f[order[p]]
  PROVE  SumFunctionOnSet(g, 1..Cardinality(I)) = SumFunctionOnSet(f, I)
<1> DEFINE P == 1..Cardinality(I)
<1>1. IsFiniteSet(P)
  BY FS_Interval DEF Listing
<1>2. Follows(g, f, order, P) /\ Numbers(order, P, I)
  BY DEF Listing, Numbers, Follows
<1> HIDE DEF P
<1>3. SumFunctionOnSet(g, P) = SumFunctionOnSet(f, I)
  BY <1>1, <1>2, SumAlong
<1>4. QED
  BY <1>3 DEF P

\* Arranged names every position once.
LEMMA ArrangedLists ==
  ASSUME NEW I \in SUBSET Int, IsFiniteSet(I), NEW w \in Nat, NEW terms \in [I -> [1..w -> Int]]
  PROVE  Listing(Arranged(I, terms), I)
  BY ArrangedIs DEF Listing

\* The positions in I as they stand.
InPlace(I) == Arranged(I, [i \in I |-> <<>>])

\* So it does when no terms reorder them.
LEMMA InPlaceLists ==
  ASSUME NEW I \in SUBSET Int, IsFiniteSet(I)
  PROVE  Listing(InPlace(I), I)
<1>1. <<>> \in [1..0 -> Int]
  OBVIOUS
<1>2. [i \in I |-> <<>>] \in [I -> [1..0 -> Int]]
  BY <1>1
<1>3. QED
  BY <1>2, ArrangedLists DEF InPlace

\* A list read in some order.
ListRead(s, order) == AsTuple([p \in DOMAIN order |-> s[order[p]]])

\* t is what s holds at the positions order names, in that order.
ReadOff(t, s, order, n, S) ==
  /\ t \in [1..n -> S] /\ t \in Seq(S) /\ Len(t) = n
  /\ \A p \in 1..n : t[p] = s[order[p]]

\* A list read in an order that names each of its positions once.
LEMMA ListedTuple ==
  ASSUME NEW I, NEW order, Listing(order, I), NEW S, NEW s, \A i \in I : s[i] \in S,
         NEW t, t = ListRead(s, order)
  PROVE  ReadOff(t, s, order, Cardinality(I), S)
<1> DEFINE u == [p \in DOMAIN order |-> s[order[p]]]
<1>1. Cardinality(I) \in Nat /\ DOMAIN order = 1..Cardinality(I) /\ u \in [1..Cardinality(I) -> S]
  BY DEF Listing
<1>2. t = AsTuple(u)
  BY DEF ListRead
<1> HIDE DEF u
<1>3. t = u /\ u \in Seq(S) /\ Len(u) = Cardinality(I)
  BY <1>1, <1>2, TupleIs
<1>4. \A p \in 1..Cardinality(I) : u[p] = s[order[p]]
  BY <1>1 DEF u
<1>5. QED
  BY <1>1, <1>3, <1>4 DEF ReadOff

\* What a filter returns.
LEMMA KeptIs ==
  ASSUME NEW I \in SUBSET Int, IsFiniteSet(I), NEW S, NEW s, \A i \in I : s[i] \in S
  PROVE  /\ Listing(InPlace(I), I)
         /\ ReadOff(Kept(s, I), s, InPlace(I), Cardinality(I), S)
<1>1. Listing(InPlace(I), I)
  BY InPlaceLists
<1>2. Kept(s, I) = ListRead(s, InPlace(I))
  BY DEF Kept, InPlace, ListRead
<1> DEFINE order == InPlace(I)
           t == Kept(s, I)
<1> HIDE DEF order, t
<1>3. t = ListRead(s, order) /\ Listing(order, I) /\ \A i \in I : s[i] \in S
  BY <1>1, <1>2 DEF order, t
<1>4. ReadOff(t, s, order, Cardinality(I), S)
  BY <1>3, ListedTuple
<1>5. QED
  BY <1>3, <1>4 DEF order, t

\* What a sort returns.
LEMMA SortedIs ==
  ASSUME NEW S, NEW s \in Seq(S), NEW w \in Nat, NEW terms \in [DOMAIN s -> [1..w -> Int]]
  PROVE  /\ Listing(Arranged(DOMAIN s, terms), DOMAIN s)
         /\ Len(s) \in Nat /\ DOMAIN s = 1..Len(s) /\ Cardinality(DOMAIN s) = Len(s)
         /\ ReadOff(SortedBy(s, terms), s, Arranged(DOMAIN s, terms), Len(s), S)
<1>1. /\ Len(s) \in Nat /\ DOMAIN s = 1..Len(s) /\ s \in [1..Len(s) -> S]
      /\ Cardinality(DOMAIN s) = Len(s) /\ IsFiniteSet(DOMAIN s) /\ DOMAIN s \in SUBSET Int
  <2>1. Len(s) \in Nat /\ DOMAIN s = 1..Len(s) /\ s \in [1..Len(s) -> S]
    BY LenProperties
  <2>2. Cardinality(1..Len(s)) = Len(s) /\ IsFiniteSet(1..Len(s))
    BY <2>1, UpToN
  <2>3. QED
    BY <2>1, <2>2
<1>2. Listing(Arranged(DOMAIN s, terms), DOMAIN s)
  BY <1>1, ArrangedLists
<1>3. SortedBy(s, terms) = ListRead(s, Arranged(DOMAIN s, terms))
  BY DEF SortedBy, ListRead
<1>4. \A i \in DOMAIN s : s[i] \in S
  BY <1>1
<1> DEFINE t == SortedBy(s, terms)
<1> HIDE DEF t
<1> DEFINE I == DOMAIN s
           order == Arranged(I, terms)
<1>5. Listing(order, I) /\ t = ListRead(s, order) /\ \A i \in I : s[i] \in S
  BY <1>2, <1>3, <1>4 DEF t
<1> HIDE DEF I, order
<1>6. ReadOff(t, s, order, Cardinality(I), S)
  BY <1>5, ListedTuple
<1>7. QED
  BY <1>1, <1>2, <1>6 DEF t, I, order

\* The positions of a column of keys, by key.
Groups(owned, keys) ==
  /\ Len(owned) \in Nat /\ DOMAIN owned = 1..Len(owned) /\ owned \in Seq(SUBSET DOMAIN keys)
  /\ \A g \in DOMAIN owned : /\ owned[g] \subseteq DOMAIN keys /\ owned[g] # {}
                             /\ \A i \in owned[g] : owned[g] = Holding(keys, keys[i])
  /\ \A i \in DOMAIN keys : \E g \in DOMAIN owned : i \in owned[g]
  /\ \A g, h \in DOMAIN owned : \A i \in DOMAIN keys : i \in owned[g] /\ i \in owned[h] => g = h

\* What a Map of keys returns: every position under its own key.
LEMMA GroupedIs ==
  ASSUME NEW n \in Nat, NEW keys, DOMAIN keys = 1..n
  PROVE  Groups(Grouped(keys), keys)
<1> DEFINE firsts == {i \in DOMAIN keys : \A j \in Holding(keys, keys[i]) : i <= j}
           order == InPlace(firsts)
           m == Cardinality(firsts)
           held == [i \in DOMAIN keys |-> Holding(keys, keys[i])]
           owned == Grouped(keys)
<1>1. firsts \in SUBSET Int /\ IsFiniteSet(firsts) /\ firsts \subseteq DOMAIN keys
  <2>1. IsFiniteSet(1..n)
    BY FS_Interval
  <2>2. firsts \in SUBSET (1..n)
    OBVIOUS
  <2>3. QED
    BY <2>1, <2>2, FS_Subset
<1>2. ASSUME NEW i \in DOMAIN keys
      PROVE  \E j \in firsts : keys[j] = keys[i]
  <2> DEFINE H == Holding(keys, keys[i])
  <2>1. H \in SUBSET Nat /\ i \in H /\ \A j \in H : j \in DOMAIN keys /\ keys[j] = keys[i]
    BY DEF Holding
  <2> HIDE DEF H
  <2>2. Min(H) \in H /\ \A j \in H : Min(H) <= j
    BY <2>1, MinOfNat
  <2>3. Holding(keys, keys[Min(H)]) = H
    BY <2>1, <2>2 DEF H
  <2>4. QED
    BY <2>1, <2>2, <2>3
<1>3. ASSUME NEW i \in firsts, NEW j \in firsts, keys[i] = keys[j]
      PROVE  i = j
  <2>1. i <= j /\ j <= i /\ i \in Int /\ j \in Int
    BY <1>1, <1>3 DEF Holding
  <2>2. QED
    BY <2>1
<1>4. owned = ListRead(held, order)
  <2>1. Listing(order, firsts)
    <3> HIDE DEF firsts
    <3>1. QED
      BY <1>1, InPlaceLists
  <2>2. \A p \in DOMAIN order : order[p] \in DOMAIN keys
    BY <2>1 DEF Listing
  <2>3. Grouped(keys) = AsTuple([g \in DOMAIN order |-> Holding(keys, keys[order[g]])])
    BY DEF Grouped, InPlace
  <2> HIDE DEF order
  <2>4. [g \in DOMAIN order |-> Holding(keys, keys[order[g]])] = [p \in DOMAIN order |-> held[order[p]]]
    BY <2>2
  <2>5. QED
    BY <2>3, <2>4 DEF ListRead
<1> HIDE DEF firsts
<1>5. Listing(order, firsts)
  BY <1>1, InPlaceLists
<1>6. \A i \in firsts : held[i] \in SUBSET DOMAIN keys
  BY <1>1 DEF Holding
<1> HIDE DEF order, owned
<1>7. /\ owned \in [1..m -> SUBSET DOMAIN keys] /\ owned \in Seq(SUBSET DOMAIN keys)
      /\ Len(owned) = m /\ \A p \in 1..m : owned[p] = held[order[p]]
  <2> HIDE DEF held, m
  <2> DEFINE S == SUBSET DOMAIN keys
  <2> HIDE DEF S
  <2>1. ReadOff(owned, held, order, Cardinality(firsts), S)
    <3>1. \A i \in firsts : held[i] \in S
      BY <1>6 DEF S
    <3>2. QED
      BY <1>4, <1>5, <3>1, ListedTuple
  <2>2. QED
    BY <2>1 DEF m, S, ReadOff
<1>8. m \in Nat /\ \A p \in 1..m : order[p] \in firsts /\ owned[p] = Holding(keys, keys[order[p]])
  BY <1>1, <1>5, <1>7 DEF Listing
<1>9. ASSUME NEW g \in 1..m
      PROVE  /\ owned[g] \subseteq DOMAIN keys /\ owned[g] # {}
             /\ \A i \in owned[g] : owned[g] = Holding(keys, keys[i])
  BY <1>1, <1>8 DEF Holding
<1>10. ASSUME NEW i \in DOMAIN keys
       PROVE  \E g \in 1..m : i \in owned[g]
  <2>1. PICK j \in firsts : keys[j] = keys[i]
    BY <1>2
  <2>2. PICK p \in 1..m : order[p] = j
    BY <1>5 DEF Listing
  <2>3. QED
    BY <1>8, <2>1, <2>2 DEF Holding
<1>11. ASSUME NEW g \in 1..m, NEW h \in 1..m, NEW i \in DOMAIN keys, i \in owned[g], i \in owned[h]
       PROVE  g = h
  <2>1. keys[order[g]] = keys[i] /\ keys[order[h]] = keys[i]
    BY <1>8, <1>11 DEF Holding
  <2>2. order[g] = order[h]
    BY <1>3, <1>8, <2>1
  <2>3. QED
    BY <1>5, <2>2 DEF Listing
<1> HIDE DEF m, held
<1>12. QED
  BY <1>7, <1>8, <1>9, <1>10, <1>11 DEF Groups, owned

\* The elements of R up to a by their terms.
Below(R, T, a) == {e \in R : e = a \/ Before(T[e], T[a])}

OneToOne(s) == \A i, j \in DOMAIN s : s[i] = s[j] => i = j

\* A set numbered by another has as many elements.
LEMMA SameCount ==
  ASSUME NEW A, IsFiniteSet(A), NEW B, NEW s, Numbers(s, A, B)
  PROVE  IsFiniteSet(B) /\ Cardinality(B) = Cardinality(A)
<1> DEFINE h == [i \in A |-> s[i]]
<1>1. h \in [A -> B] /\ \A i \in A : h[i] = s[i]
  BY DEF Numbers
<1> HIDE DEF h
<1>2. h \in Surjection(A, B)
  BY <1>1 DEF Surjection, Numbers
<1>3. h \in Injection(A, B)
  BY <1>1 DEF Injection, IsInjective, Numbers
<1>4. IsFiniteSet(B) /\ (Cardinality(B) = Cardinality(A) <=> h \in Injection(A, B))
  BY <1>2, FS_Surjection
<1>5. QED
  BY <1>3, <1>4

\* A list sorted by terms of its elements.
ByTerms(s, T) == SortedBy(s, [i \in DOMAIN s |-> T[s[i]]])

\* The terms T tell the elements of R apart.
TellsApart(T, R, w) == T \in [R -> [1..w -> Int]] /\ \A a, b \in R : T[a] = T[b] => a = b

\* An element's place in a sorted list is the number of elements up to it.
LEMMA SortedRank ==
  ASSUME NEW S, NEW s \in Seq(S), OneToOne(s), NEW R, R = Range(s), NEW w \in Nat,
         NEW T, TellsApart(T, R, w), NEW p \in 1..Len(s)
  PROVE  /\ ByTerms(s, T)[p] \in R
         /\ IsFiniteSet(Below(R, T, ByTerms(s, T)[p]))
         /\ Cardinality(Below(R, T, ByTerms(s, T)[p])) = p
<1> DEFINE I == DOMAIN s
           terms == [i \in I |-> T[s[i]]]
           order == Arranged(I, terms)
           i == order[p]
           A == UpTo(I, NotAfter(I, terms), i)
<1>0. \A j \in I : s[j] \in R
  BY DEF Range
<1>1. terms \in [I -> [1..w -> Int]]
  BY <1>0 DEF TellsApart
<1>2. /\ Len(s) \in Nat /\ I = 1..Len(s) /\ Cardinality(I) = Len(s) /\ I \in SUBSET Int /\ IsFiniteSet(I)
  <2>1. Len(s) \in Nat /\ DOMAIN s = 1..Len(s)
    BY LenProperties
  <2>2. QED
    BY <2>1, UpToN
<1>3. Cardinality(A) = p /\ i \in I
  <2> HIDE DEF terms, I
  <2>1. /\ order \in [1..Cardinality(I) -> I]
        /\ \A q \in 1..Cardinality(I) : Cardinality(UpTo(I, NotAfter(I, terms), order[q])) = q
    BY <1>1, <1>2, ArrangedIs
  <2>2. QED
    BY <1>2, <2>1
<1>4. SortedBy(s, terms)[p] = s[i]
  <2> HIDE DEF terms
  <2>1. ReadOff(SortedBy(s, terms), s, Arranged(DOMAIN s, terms), Len(s), S)
    BY <1>1, SortedIs
  <2>2. QED
    BY <2>1 DEF ReadOff
<1> DEFINE B == Below(R, T, s[i])
<1>5. ASSUME NEW j \in I
      PROVE  j \in A <=> s[j] \in B
  <2>1. terms[j] = T[s[j]] /\ terms[i] = T[s[i]] /\ s[j] \in R /\ s[i] \in R
    BY <1>0, <1>3
  <2>7. T[s[j]] \in [1..w -> Int] /\ T[s[i]] \in [1..w -> Int]
    BY <2>1 DEF TellsApart
  <2>2. j \in A <=> \/ Before(T[s[j]], T[s[i]])
                    \/ ~Before(T[s[i]], T[s[j]]) /\ j <= i
    BY <1>3, <2>1 DEF UpTo, NotAfter
  <2>3. s[j] \in B <=> s[j] = s[i] \/ Before(T[s[j]], T[s[i]])
    BY <2>1 DEF Below
  <2>4. CASE j = i
    <3>1. ~Before(T[s[i]], T[s[i]])
      BY <2>7, BeforeOrder
    <3>2. QED
      <4>1. j <= i
        BY <1>2, <2>4
      <4>2. s[j] = s[i] /\ ~Before(T[s[i]], T[s[j]])
        BY <2>4, <3>1
      <4> HIDE DEF A, B, i
      <4>3. QED
        BY <2>2, <2>3, <4>1, <4>2
  <2>5. CASE j # i
    <3>1. s[j] # s[i]
      BY <1>3, <2>5 DEF OneToOne
    <3>2. T[s[j]] # T[s[i]]
      BY <2>1, <3>1 DEF TellsApart
    <3>3. Before(T[s[j]], T[s[i]]) \/ Before(T[s[i]], T[s[j]])
      BY <2>7, <3>2, BeforeOrder
    <3>4. QED
      BY <2>2, <2>3, <3>1, <3>3
  <2>6. QED
    BY <2>4, <2>5
<1>6. A \subseteq I /\ B \subseteq R /\ IsFiniteSet(A)
  <2>1. A \subseteq I /\ B \subseteq R
    BY DEF UpTo, Below
  <2>2. A \in SUBSET I
    BY <2>1
  <2> HIDE DEF A
  <2>3. QED
    BY <1>2, <2>1, <2>2, FS_Subset
<1>7. \A b \in R : \E j \in I : s[j] = b
  BY DEF Range
<1>8. \A j \in A : s[j] \in B
  BY <1>5, <1>6
<1>9. \A b \in B : \E j \in A : s[j] = b
  BY <1>5, <1>6, <1>7
<1>10. \A j, k \in A : s[j] = s[k] => j = k
  BY <1>6 DEF OneToOne
<1>14. Numbers(s, A, B)
  BY <1>8, <1>9, <1>10 DEF Numbers
<1> HIDE DEF A, B, I, order, terms, i
<1>11. IsFiniteSet(B) /\ Cardinality(B) = Cardinality(A)
  BY <1>6, <1>14, SameCount
<1>12. s[i] \in R
  BY <1>0, <1>3
<1>13. QED
  BY <1>3, <1>4, <1>11, <1>12 DEF B, terms, I, ByTerms

\* Elements with different terms are not of the same rank.
LEMMA BelowApart ==
  ASSUME NEW R, NEW w \in Nat, NEW T \in [R -> [1..w -> Int]], NEW a \in R, NEW b \in R,
         Before(T[a], T[b]), IsFiniteSet(Below(R, T, a)), IsFiniteSet(Below(R, T, b))
  PROVE  Cardinality(Below(R, T, a)) # Cardinality(Below(R, T, b))
<1>1. \A e \in R : Before(T[e], T[a]) => Before(T[e], T[b])
  BY BeforeOrder
<1>2. Below(R, T, a) \in SUBSET Below(R, T, b)
  BY <1>1 DEF Below
<1>3. b \in Below(R, T, b) /\ b \notin Below(R, T, a)
  <2>1. ~Before(T[b], T[a]) /\ ~Before(T[a], T[a])
    BY BeforeOrder
  <2>2. a # b
    BY <2>1
  <2>3. QED
    BY <2>1, <2>2 DEF Below
<1>4. Below(R, T, a) # Below(R, T, b)
  BY <1>3
<1>5. QED
  BY <1>2, <1>4, FS_Subset

\* Two lists of the same elements are the same list once sorted by terms
\* that tell the elements apart.
LEMMA SameSorted ==
  ASSUME NEW S, NEW s \in Seq(S), OneToOne(s), NEW t \in Seq(S), OneToOne(t),
         Range(s) = Range(t), NEW w \in Nat,
         NEW T, TellsApart(T, Range(s), w)
  PROVE  ByTerms(s, T) = ByTerms(t, T)
<1> DEFINE R == Range(s)
           x == ByTerms(s, T)
           y == ByTerms(t, T)
<1>1. Len(s) \in Nat /\ DOMAIN s = 1..Len(s) /\ Len(t) \in Nat /\ DOMAIN t = 1..Len(t)
  BY LenProperties
<1>2. Len(s) = Len(t)
  <2>1. IsFiniteSet(DOMAIN s) /\ Cardinality(DOMAIN s) = Len(s)
    BY <1>1, UpToN
  <2>2. IsFiniteSet(DOMAIN t) /\ Cardinality(DOMAIN t) = Len(t)
    BY <1>1, UpToN
  <2>3. Numbers(s, DOMAIN s, R)
    BY DEF Range, OneToOne, Numbers
  <2>4. Numbers(t, DOMAIN t, R)
    BY DEF Range, OneToOne, Numbers
  <2> DEFINE P == DOMAIN s
             Q == DOMAIN t
  <2> HIDE DEF R, P, Q
  <2>5. Cardinality(R) = Cardinality(P)
    BY <2>1, <2>3, SameCount DEF P
  <2>6. Cardinality(R) = Cardinality(Q)
    BY <2>2, <2>4, SameCount DEF Q
  <2>7. QED
    BY <2>1, <2>2, <2>5, <2>6 DEF P, Q
<1>3. x \in Seq(S) /\ Len(x) = Len(s)
  <2>1. [i \in DOMAIN s |-> T[s[i]]] \in [DOMAIN s -> [1..w -> Int]]
    BY DEF Range, TellsApart
  <2>2. ReadOff(x, s, Arranged(DOMAIN s, [i \in DOMAIN s |-> T[s[i]]]), Len(s), S)
    BY <2>1, SortedIs DEF ByTerms
  <2>3. QED
    BY <2>2 DEF ReadOff
<1>4. y \in Seq(S) /\ Len(y) = Len(s)
  <2>1. [i \in DOMAIN t |-> T[t[i]]] \in [DOMAIN t -> [1..w -> Int]]
    BY DEF Range, TellsApart
  <2>2. ReadOff(y, t, Arranged(DOMAIN t, [i \in DOMAIN t |-> T[t[i]]]), Len(t), S)
    BY <2>1, SortedIs DEF ByTerms
  <2>3. QED
    BY <1>2, <2>2 DEF ReadOff
<1>5. ASSUME NEW p \in 1..Len(s)
      PROVE  x[p] = y[p]
  <2>1. x[p] \in R /\ IsFiniteSet(Below(R, T, x[p])) /\ Cardinality(Below(R, T, x[p])) = p
    BY SortedRank
  <2>2. y[p] \in R /\ IsFiniteSet(Below(R, T, y[p])) /\ Cardinality(Below(R, T, y[p])) = p
    <3>1. R = Range(t) /\ p \in 1..Len(t) /\ TellsApart(T, R, w)
      BY <1>2
    <3> HIDE DEF R
    <3>2. QED
      BY <3>1, SortedRank
  <2> HIDE DEF x, y
  <2>3. T \in [R -> [1..w -> Int]]
    BY DEF TellsApart
  <2>4. T[x[p]] \in [1..w -> Int] /\ T[y[p]] \in [1..w -> Int]
    BY <2>1, <2>2, <2>3
  <2> HIDE DEF R
  <2>5. ~Before(T[x[p]], T[y[p]]) /\ ~Before(T[y[p]], T[x[p]])
    BY <2>1, <2>2, <2>3, BelowApart
  <2>6. T[x[p]] = T[y[p]]
    BY <2>4, <2>5, BeforeOrder
  <2>7. QED
    BY <2>1, <2>2, <2>6 DEF TellsApart, R
<1> HIDE DEF x, y
<1>6. x = y
  BY <1>1, <1>3, <1>4, <1>5, SeqEqual
<1>7. QED
  BY <1>6 DEF x, y

-----------------------------------------------------------------------------
(***************************************************************************)
(* Rounding half up, and the largest remainder: the integer parts of a     *)
(* whole add up to it.                                                     *)
(***************************************************************************)

\* Total is the sum over the positions.
LEMMA TotalIs ==
  ASSUME NEW c
  PROVE  Total(c) = SumFunctionOnSet(c, DOMAIN c)
  BY DEF Total, SumFunction, SumFunctionOnSet, FoldFunction, FoldFunctionOnSet

\* Division with remainder.
LEMMA DivIs ==
  ASSUME NEW a \in Int, NEW d \in Nat \ {0}
  PROVE  /\ a \div d \in Int /\ a % d \in 0..(d - 1)
         /\ a = d * (a \div d) + (a % d)
<1>1. a \div d \in Int
  OBVIOUS
<1>2. a % d \in 0..(d - 1)
  OBVIOUS
<1>3. a = d * (a \div d) + (a % d)
  BY Z3
<1>4. QED
  BY <1>1, <1>2, <1>3

\* Division of naturals.
LEMMA DivNat ==
  ASSUME NEW a \in Nat, NEW d \in Nat \ {0}
  PROVE  a \div d \in Nat /\ a % d \in 0..(d - 1)
<1>1. a \div d >= 0
  OBVIOUS
<1>2. a \div d \in Int /\ a % d \in 0..(d - 1)
  BY DivIs
<1>3. QED
  BY <1>1, <1>2

\* Less than a step apart is no step apart.
LEMMA TimesLess ==
  ASSUME NEW d \in Nat \ {0}, NEW x \in Int, NEW y \in Int, d * x < d * y + d
  PROVE  x <= y
<1> SUFFICES ASSUME x > y PROVE FALSE
  OBVIOUS
<1> DEFINE k == x - y - 1
<1>1. k \in Nat /\ x = y + 1 + k
  OBVIOUS
<1> HIDE DEF k
<1>2. d * x = d * y + d + d * k
  BY <1>1
<1>3. d * k \in Nat /\ d * y \in Int
  BY <1>1
<1>4. QED
  BY <1>2, <1>3

\* Half-up rounding misses by half a unit at most.
LEMMA HalfUpIs ==
  ASSUME NEW a \in Int, NEW d \in Nat \ {0}
  PROVE  /\ HalfUp(a, d) \in Int
         /\ 2 * (d * HalfUp(a, d)) <= 2 * a + d
         /\ 2 * (d * HalfUp(a, d)) >= 2 * a - d
         /\ a >= 0 => HalfUp(a, d) >= 0
<1> DEFINE h == d \div 2
           r == (a + h) % d
           q == (a + h) \div d
<1>1. h \in Nat /\ 2 * h <= d /\ 2 * h >= d - 1
  OBVIOUS
<1> HIDE DEF h
<1>2. q \in Int /\ r \in 0..(d - 1) /\ a + h = d * q + r
  <2> DEFINE b == a + h
  <2>1. b \in Int /\ q = b \div d /\ r = b % d
    BY <1>1
  <2> HIDE DEF b, q, r
  <2>2. b \div d \in Int /\ b % d \in 0..(d - 1) /\ b = d * (b \div d) + (b % d)
    BY <2>1, DivIs
  <2>3. QED
    BY <2>1, <2>2 DEF b
<1>3. HalfUp(a, d) = q
  BY DEF HalfUp, h
<1> HIDE DEF q, r
<1>4. d * q \in Int
  BY <1>2
<1>5. 2 * (d * q) <= 2 * a + d /\ 2 * (d * q) >= 2 * a - d
  BY <1>1, <1>2, <1>4
<1>6. ASSUME a >= 0 PROVE q >= 0
  <2>1. d * 0 < d * q + d
    BY <1>1, <1>2, <1>4, <1>6
  <2>2. QED
    BY <1>2, <2>1, TimesLess
<1>7. QED
  BY <1>2, <1>3, <1>5, <1>6

\* A whole number of units is not rounded.
LEMMA HalfUpExact ==
  ASSUME NEW b \in Int, NEW d \in Nat \ {0}
  PROVE  HalfUp(b * d, d) = b /\ HalfUp(d * b, d) = b
<1> DEFINE q == HalfUp(d * b, d)
<1>1. d * b \in Int /\ b * d = d * b
  OBVIOUS
<1>2. q \in Int /\ 2 * (d * q) <= 2 * (d * b) + d /\ 2 * (d * q) >= 2 * (d * b) - d
  BY <1>1, HalfUpIs
<1> HIDE DEF q
<1>3. d * q \in Int
  BY <1>2
<1>4. q <= b
  <2>1. d * q < d * b + d
    BY <1>1, <1>2, <1>3
  <2>2. QED
    BY <1>2, <2>1, TimesLess
<1>5. b <= q
  <2>1. d * b < d * q + d
    BY <1>1, <1>2, <1>3
  <2>2. QED
    BY <1>2, <2>1, TimesLess
<1>6. q = b
  BY <1>2, <1>4, <1>5
<1>7. QED
  BY <1>1, <1>6 DEF q

Plus(h, f, g, S) == \A x \in S : f[x] \in Int /\ g[x] \in Int /\ h[x] = f[x] + g[x]

Minus(h, f, g, S) == \A x \in S : f[x] \in Int /\ g[x] \in Int /\ h[x] = f[x] - g[x]

\* The sum of term-wise sums.
LEMMA SumPlus ==
  ASSUME NEW f, NEW g, NEW h, NEW S, IsFiniteSet(S),
         Plus(h, f, g, S)
  PROVE  SumFunctionOnSet(h, S) = SumFunctionOnSet(f, S) + SumFunctionOnSet(g, S)
<1> DEFINE a == 1
           b == 1
<1>1. a \in Int /\ b \in Int /\ a = 1 /\ b = 1
  OBVIOUS
<1>6. a \in Int /\ b \in Int
  OBVIOUS
<1> HIDE DEF a, b
<1>2. Mixes(h, a, f, b, g, S)
  BY <1>1 DEF Plus, Mixes
<1>3. SumFunctionOnSet(h, S) = a * SumFunctionOnSet(f, S) + b * SumFunctionOnSet(g, S)
  BY <1>2, <1>6, SumScaled
<1>4. SumFunctionOnSet(f, S) \in Int /\ SumFunctionOnSet(g, S) \in Int
  <2>1. (\A x \in S : f[x] \in Int) /\ (\A x \in S : g[x] \in Int)
    BY DEF Plus
  <2>2. QED
    BY <2>1, SumInt
<1>5. QED
  BY <1>1, <1>3, <1>4

\* The sum of term-wise differences.
LEMMA SumMinus ==
  ASSUME NEW f, NEW g, NEW h, NEW S, IsFiniteSet(S),
         Minus(h, f, g, S)
  PROVE  SumFunctionOnSet(h, S) = SumFunctionOnSet(f, S) - SumFunctionOnSet(g, S)
<1> DEFINE a == 1
           b == -1
<1>1. a \in Int /\ b \in Int /\ a = 1 /\ b = -1
  OBVIOUS
<1>6. a \in Int /\ b \in Int
  OBVIOUS
<1> HIDE DEF a, b
<1>2. Mixes(h, a, f, b, g, S)
  BY <1>1 DEF Minus, Mixes
<1>3. SumFunctionOnSet(h, S) = a * SumFunctionOnSet(f, S) + b * SumFunctionOnSet(g, S)
  BY <1>2, <1>6, SumScaled
<1>4. SumFunctionOnSet(f, S) \in Int /\ SumFunctionOnSet(g, S) \in Int
  <2>1. (\A x \in S : f[x] \in Int) /\ (\A x \in S : g[x] \in Int)
    BY DEF Minus
  <2>2. QED
    BY <2>1, SumInt
<1>5. QED
  BY <1>1, <1>3, <1>4

Times(h, a, f, S) == \A x \in S : f[x] \in Int /\ h[x] = a * f[x]

\* A common factor.
LEMMA SumTimes ==
  ASSUME NEW f, NEW h, NEW S, IsFiniteSet(S), NEW a \in Int, Times(h, a, f, S)
  PROVE  SumFunctionOnSet(h, S) = a * SumFunctionOnSet(f, S)
<1> DEFINE b == 0
<1>1. b \in Int /\ \A x \in Int : b * x = 0
  OBVIOUS
<1>2. b \in Int
  OBVIOUS
<1> HIDE DEF b
<1>3. Mixes(h, a, f, b, f, S)
  <2> SUFFICES ASSUME NEW x \in S PROVE f[x] \in Int /\ h[x] = a * f[x] + b * f[x]
    BY DEF Mixes
  <2>1. f[x] \in Int /\ h[x] = a * f[x] /\ a * f[x] \in Int
    BY DEF Times
  <2>2. QED
    BY <1>1, <2>1
<1>4. SumFunctionOnSet(h, S) = a * SumFunctionOnSet(f, S) + b * SumFunctionOnSet(f, S)
  BY <1>2, <1>3, SumScaled
<1>5. SumFunctionOnSet(f, S) \in Int
  <2>1. \A x \in S : f[x] \in Int
    BY DEF Times
  <2>2. QED
    BY <2>1, SumInt
<1> DEFINE F == SumFunctionOnSet(f, S)
<1> HIDE DEF F
<1>6. a * F \in Int /\ b * F = 0 /\ SumFunctionOnSet(h, S) = a * F + b * F
  BY <1>1, <1>4, <1>5 DEF F
<1>7. QED
  BY <1>6 DEF F

\* A sum of ones counts.
LEMMA SumOnes ==
  ASSUME NEW f, NEW S, IsFiniteSet(S), \A x \in S : f[x] = 1
  PROVE  SumFunctionOnSet(f, S) = Cardinality(S)
<1> DEFINE zero == [x \in S |-> 0]
<1>1. \A x \in S : zero[x] = 0
  OBVIOUS
<1> HIDE DEF zero
<1>2. SumFunctionOnSet(zero, S) = 0
  BY <1>1, SumZeros
<1>3. \A x \in S : f[x] \in Int /\ zero[x] \in Int /\ 1 <= f[x] - zero[x] /\ f[x] - zero[x] <= 1
  BY <1>1
<1>4. /\ 1 * Cardinality(S) <= SumFunctionOnSet(f, S) - SumFunctionOnSet(zero, S)
      /\ SumFunctionOnSet(f, S) - SumFunctionOnSet(zero, S) <= 1 * Cardinality(S)
  BY <1>3, SumNear
<1>5. SumFunctionOnSet(f, S) \in Int
  <2>1. \A x \in S : f[x] \in Int
    OBVIOUS
  <2>2. QED
    BY <2>1, SumInt
<1>6. Cardinality(S) \in Nat
  BY FS_CardinalityType
<1>7. QED
  BY <1>2, <1>4, <1>5, <1>6

\* The remainders in the order they are rounded up, ties to the lowest index.
Leads(rest, I) == {p \in I \X I : rest[p[1]] > rest[p[2]] \/ (rest[p[1]] = rest[p[2]] /\ p[1] <= p[2])}

Ahead(rest, I, i) == {j \in I : rest[j] > rest[i] \/ (rest[j] = rest[i] /\ j < i)}

\* The remainders are linearly ordered.
LEMMA LeadsOrder ==
  ASSUME NEW I \in SUBSET Int, NEW rest \in [I -> Int]
  PROVE  LinearOn(Leads(rest, I), I)
<1>1. \A i, j \in I : <<i, j>> \in Leads(rest, I)
                         <=> rest[i] > rest[j] \/ (rest[i] = rest[j] /\ i <= j)
  BY DEF Leads
<1>2. QED
  BY <1>1 DEF LinearOn

\* Exactly the first `deficit` remainders are rounded up.
LEMMA Rounded ==
  ASSUME NEW n \in Nat, NEW rest \in [1..n -> Int], NEW deficit \in 0..n,
         NEW f, \A i \in 1..n : f[i] = IF Cardinality(Ahead(rest, 1..n, i)) < deficit THEN 1 ELSE 0
  PROVE  SumFunctionOnSet(f, 1..n) = deficit
<1> DEFINE I == 1..n
           L == Leads(rest, I)
           place == [i \in I |-> Cardinality(UpTo(I, L, i))]
           g == [p \in I |-> IF p <= deficit THEN 1 ELSE 0]
<1>1. IsFiniteSet(I) /\ Cardinality(I) = n /\ I \in SUBSET Int
  BY UpToN
<1>2. Ranked(place, L, I)
  <2>1. LinearOn(L, I)
    BY <1>1, LeadsOrder
  <2> HIDE DEF L, I
  <2>2. QED
    BY <1>1, <2>1, Places
<1>3. ASSUME NEW i \in I
      PROVE  Cardinality(Ahead(rest, I, i)) = place[i] - 1
  <2>1. \A j \in I : <<j, i>> \in L <=> rest[j] > rest[i] \/ (rest[j] = rest[i] /\ j <= i)
    BY DEF Leads
  <2>2. UpTo(I, L, i) = Ahead(rest, I, i) \cup {i}
    BY <2>1 DEF UpTo, Ahead
  <2>3. i \notin Ahead(rest, I, i) /\ Ahead(rest, I, i) \in SUBSET I
    BY DEF Ahead
  <2>4. IsFiniteSet(Ahead(rest, I, i))
    BY <1>1, <2>3, FS_Subset
  <2>5. Cardinality(UpTo(I, L, i)) = Cardinality(Ahead(rest, I, i)) + 1
    BY <2>2, <2>3, <2>4, FS_AddElement
  <2>6. Cardinality(Ahead(rest, I, i)) \in Nat
    BY <2>4, FS_CardinalityType
  <2>7. QED
    BY <2>5, <2>6
<1>4. /\ \A i \in I : place[i] \in I /\ g[place[i]] \in Int /\ f[i] = g[place[i]]
      /\ \A i, j \in I : place[i] = place[j] => i = j
      /\ \A p \in I : \E i \in I : place[i] = p
  <2>1. /\ \A i \in I : place[i] \in I
        /\ \A i, j \in I : place[i] = place[j] => i = j
        /\ \A p \in I : \E i \in I : place[i] = p
    BY <1>1, <1>2 DEF Ranked
  <2>2. ASSUME NEW i \in I
        PROVE  g[place[i]] \in Int /\ f[i] = g[place[i]]
    <3>1. f[i] = IF Cardinality(Ahead(rest, I, i)) < deficit THEN 1 ELSE 0
      OBVIOUS
    <3>2. place[i] \in I /\ Cardinality(Ahead(rest, I, i)) = place[i] - 1
      BY <1>3, <2>1
    <3> HIDE DEF place
    <3>3. g[place[i]] = IF place[i] <= deficit THEN 1 ELSE 0
      BY <3>2
    <3>4. QED
      BY <3>1, <3>2, <3>3
  <2>3. QED
    BY <2>1, <2>2
<1>5. SumFunctionOnSet(f, I) = SumFunctionOnSet(g, I)
  <2> HIDE DEF place, g, I
  <2>1. Follows(f, g, place, I) /\ Numbers(place, I, I)
    BY <1>4 DEF Numbers, Follows
  <2>2. QED
    BY <1>1, <2>1, SumAlong
<1>6. SumFunctionOnSet(g, I) = deficit
  <2> DEFINE A == 1..deficit
             B == (deficit + 1)..n
  <2>1. IsFiniteSet(A) /\ Cardinality(A) = deficit /\ IsFiniteSet(B)
    BY UpToN, FS_Interval
  <2>2. /\ \A p \in A : g[p] = 1 
        /\ \A p \in B : g[p] = 0
        /\ A \cap B = {} /\ A \cup B = I
        /\ \A p \in A \cup B : g[p] \in Int
    OBVIOUS
  <2> HIDE DEF A, B, g, I
  <2>3. SumFunctionOnSet(g, A) = deficit /\ SumFunctionOnSet(g, B) = 0
    BY <2>1, <2>2, SumOnes, SumZeros
  <2>4. SumFunctionOnSet(g, A \cup B) = SumFunctionOnSet(g, A) + SumFunctionOnSet(g, B)
    BY <2>1, <2>2, SumUnion
  <2>5. SumFunctionOnSet(g, I) = SumFunctionOnSet(g, A \cup B)
    BY ONLY <2>2, Zenon
  <2>6. QED
    BY <2>3, <2>4, <2>5
<1>7. QED
  BY <1>5, <1>6

Floors(scaled, unit) == [i \in DOMAIN scaled |-> scaled[i] \div unit]

\* The integer parts of a whole add up to it, if it is as far from the sum of
\* the floors as roundings up can take it.
LEMMA LargestCloses ==
  ASSUME NEW n \in Nat, NEW scaled \in [1..n -> Nat], NEW unit \in Nat \ {0}, NEW whole \in Int,
         whole - SumFunctionOnSet(Floors(scaled, unit), 1..n) \in 0..n
  PROVE  /\ LargestRemainder(scaled, unit, whole) \in [1..n -> Nat]
         /\ SumFunctionOnSet(LargestRemainder(scaled, unit, whole), 1..n) = whole
<1> DEFINE I == 1..n
           floors == Floors(scaled, unit)
           parts == LargestRemainder(scaled, unit, whole)
           rest == [i \in I |-> scaled[i] % unit]
           deficit == whole - SumFunctionOnSet(floors, I)
           one == [i \in I |-> IF Cardinality(Ahead(rest, I, i)) < deficit THEN 1 ELSE 0]
           sum == [i \in I |-> floors[i] + one[i]]
<1>1. ASSUME NEW i \in I
      PROVE  /\ floors[i] \in Nat /\ rest[i] \in Int /\ one[i] \in 0..1 /\ one[i] \in Int
             /\ sum[i] \in Nat /\ sum[i] = floors[i] + one[i]
  <2> DEFINE a == scaled[i]
  <2>1. a \in Nat /\ floors[i] = a \div unit /\ rest[i] = a % unit
    BY DEF Floors
  <2> HIDE DEF a, rest, floors
  <2>2. a \div unit \in Nat /\ a % unit \in 0..(unit - 1)
    BY <2>1, DivNat
  <2>3. floors[i] \in Nat /\ rest[i] \in Int
    BY <2>1, <2>2
  <2>4. one[i] \in 0..1 /\ one[i] \in Int
    OBVIOUS
  <2> HIDE DEF one
  <2>5. sum[i] = floors[i] + one[i]
    OBVIOUS
  <2> HIDE DEF sum, parts
  <2>6. QED
    BY <2>3, <2>4, <2>5
<1>8. IsFiniteSet(I)
  BY UpToN
<1>2. parts = sum
  <2>1. DOMAIN scaled = I
    OBVIOUS
  <2>2. Total(floors) = SumFunctionOnSet(floors, I)
    BY <2>1, TotalIs DEF Floors
  <2>3. ASSUME NEW i \in I
        PROVE  {j \in I : rest[j] > rest[i] \/ (rest[j] = rest[i] /\ j < i)} = Ahead(rest, I, i)
    BY DEF Ahead
  <2>4. parts = AsTuple(sum)
    BY <2>1, <2>2, <2>3 DEF LargestRemainder, Floors
  <2>5. sum \in [1..n -> Nat]
    BY <1>1
  <2> HIDE DEF sum, parts
  <2>6. QED
    BY <2>4, <2>5, TupleIs
<1>3. SumFunctionOnSet(one, I) = deficit
  <2>1. rest \in [1..n -> Int] /\ deficit \in 0..n
    BY <1>1
  <2>2. \A i \in 1..n : one[i] = IF Cardinality(Ahead(rest, 1..n, i)) < deficit THEN 1 ELSE 0
    OBVIOUS
  <2> HIDE DEF rest, deficit, one, floors
  <2>3. QED
    BY <2>1, <2>2, Rounded
<1> HIDE DEF I, floors, rest, deficit, one, sum, parts
<1>4. SumFunctionOnSet(sum, I) = SumFunctionOnSet(floors, I) + SumFunctionOnSet(one, I)
  <2>1. Plus(sum, floors, one, I)
    BY <1>1 DEF Plus
  <2>2. QED
    BY <1>8, <2>1, SumPlus
<1>5. SumFunctionOnSet(floors, I) \in Int
  <2>1. \A i \in I : floors[i] \in Int
    BY <1>1
  <2>2. QED
    BY <1>8, <2>1, SumInt
<1>6. parts \in [1..n -> Nat]
  BY <1>1, <1>2 DEF sum, I
<1>7. QED
  BY <1>2, <1>3, <1>4, <1>5, <1>6 DEF deficit, I, parts

\* The floors of n parts fall short of their sum by less than n units.
LEMMA FloorsNear ==
  ASSUME NEW n \in Nat, NEW scaled \in [1..n -> Nat], NEW unit \in Nat \ {0}
  PROVE  /\ SumFunctionOnSet(scaled, 1..n) \in Nat
         /\ SumFunctionOnSet(Floors(scaled, unit), 1..n) \in Nat
         /\ unit * SumFunctionOnSet(Floors(scaled, unit), 1..n) <= SumFunctionOnSet(scaled, 1..n)
         /\ SumFunctionOnSet(scaled, 1..n)
              <= unit * SumFunctionOnSet(Floors(scaled, unit), 1..n) + (unit - 1) * n
<1> DEFINE I == 1..n
           floors == Floors(scaled, unit)
           whole == [i \in I |-> unit * floors[i]]
<1>2. IsFiniteSet(I) /\ Cardinality(I) = n
  BY UpToN
<1>3. ASSUME NEW i \in I
      PROVE  /\ scaled[i] \in Nat /\ floors[i] \in Nat /\ whole[i] \in Int
             /\ 0 <= scaled[i] - whole[i] /\ scaled[i] - whole[i] <= unit - 1
             /\ whole[i] = unit * floors[i]
  <2> DEFINE a == scaled[i]
             q == floors[i]
             r == a % unit
             d == unit * q
  <2>1. a \in Nat /\ q = a \div unit /\ whole[i] = unit * q
    BY DEF Floors
  <2> HIDE DEF a, whole, q
  <2>2. q \in Nat /\ r \in 0..(unit - 1)
    BY <2>1, DivNat
  <2>6. a = unit * (a \div unit) + (a % unit)
    <3>1. a \in Int
      BY <2>1
    <3>2. QED
      BY ONLY <3>1, DivIs, unit \in Nat \ {0}
  <2>3. a = d + r /\ d \in Int
    BY <2>1, <2>2, <2>6
  <2> HIDE DEF r, d
  <2>4. 0 <= a - d /\ a - d <= unit - 1
    BY <2>1, <2>2, <2>3
  <2>5. QED
    BY <2>1, <2>2, <2>3, <2>4 DEF a, q, d
<1> DEFINE C == SumFunctionOnSet(scaled, I)
           F == SumFunctionOnSet(floors, I)
           W == SumFunctionOnSet(whole, I)
<1> HIDE DEF I, floors, whole
<1>4. C \in Nat
  <2>1. \A i \in I : scaled[i] \in Nat
    BY <1>3
  <2>2. QED
    BY <1>2, <2>1, SumNat
<1>5. F \in Nat
  <2>1. \A i \in I : floors[i] \in Nat
    BY <1>3
  <2>2. QED
    BY <1>2, <2>1, SumNat
<1>6. W = unit * F
  <2>1. Times(whole, unit, floors, I)
    BY <1>3 DEF Times
  <2>2. QED
    BY <1>2, <2>1, SumTimes
<1>7. 0 <= C - W /\ C - W <= (unit - 1) * n
  <2> DEFINE low == 0
             high == unit - 1
  <2>1. low \in Int /\ high \in Int /\ low * n = 0
    OBVIOUS
  <2>2. \A i \in I : scaled[i] \in Int /\ whole[i] \in Int /\ low <= scaled[i] - whole[i] /\ scaled[i] - whole[i] <= high
    BY <1>3
  <2> HIDE DEF low, high
  <2>3. low * Cardinality(I) <= C - W /\ C - W <= high * Cardinality(I)
    BY <1>2, <2>1, <2>2, SumNear
  <2>4. QED
    BY <1>2, <2>1, <2>3 DEF high
<1> HIDE DEF C, F, W
<1>8. unit * F \in Int /\ (unit - 1) * n \in Int
  BY <1>5
<1>9. unit * F <= C /\ C <= unit * F + (unit - 1) * n
  BY <1>4, <1>6, <1>7, <1>8
<1>10. QED
  BY <1>4, <1>5, <1>9 DEF C, F, I, floors

\* The cents of the parts add up to the cents of their sum.
THEOREM ReconcileCloses ==
  ASSUME NEW n \in Nat, NEW costs \in [1..n -> Nat]
  PROVE  /\ ReconcileDisplayCents(costs) \in [1..n -> Nat]
         /\ SumFunctionOnSet(ReconcileDisplayCents(costs), 1..n)
              = HalfUp(SumFunctionOnSet(costs, 1..n), PerCent)
<1> DEFINE F == SumFunctionOnSet(Floors(costs, PerCent), 1..n)
           C == SumFunctionOnSet(costs, 1..n)
           d == PerCent
           whole == HalfUp(C, d)
<1>1. d \in Nat \ {0}
  BY FoldAssumption
<1>2. C \in Nat /\ F \in Nat /\ d * F <= C /\ C <= d * F + (d - 1) * n
  BY <1>1, FloorsNear
<1>3. ReconcileDisplayCents(costs) = LargestRemainder(costs, d, whole)
  <2>1. Total(costs) = C
    BY TotalIs
  <2>2. QED
    BY <2>1 DEF ReconcileDisplayCents
<1> HIDE DEF F, C, d
<1>4. whole \in Int /\ 2 * (d * whole) <= 2 * C + d /\ 2 * (d * whole) >= 2 * C - d
  <2>1. C \in Int
    BY <1>2
  <2>2. QED
    BY <1>1, <2>1, HalfUpIs
<1> HIDE DEF whole
<1>5. d * F \in Int /\ d * whole \in Int /\ d * n \in Int /\ (d - 1) * n = d * n - n /\ d * (F + n) = d * F + d * n
  BY <1>1, <1>2, <1>4
<1>6. F <= whole
  <2>1. d * F < d * whole + d
    BY <1>1, <1>2, <1>4, <1>5
  <2>2. QED
    BY <1>1, <1>2, <1>4, <2>1, TimesLess
<1>7. whole <= F + n
  <2>1. d * whole < d * (F + n) + d
    BY <1>1, <1>2, <1>4, <1>5
  <2>2. QED
    BY <1>1, <1>2, <1>4, <2>1, TimesLess
<1>8. whole - F \in 0..n
  BY <1>2, <1>4, <1>6, <1>7
<1>9. /\ LargestRemainder(costs, d, whole) \in [1..n -> Nat]
      /\ SumFunctionOnSet(LargestRemainder(costs, d, whole), 1..n) = whole
  <2>1. whole - SumFunctionOnSet(Floors(costs, d), 1..n) \in 0..n /\ d \in Nat \ {0} /\ whole \in Int
    BY <1>1, <1>4, <1>8 DEF F, d
  <2>2. QED
    BY <2>1, LargestCloses
<1>10. QED
  BY <1>3, <1>9 DEF whole, C, d

\* The shares of something that is not nothing add up to the whole.
THEOREM SharesClose ==
  ASSUME NEW n \in Nat, NEW weights \in [1..n -> Nat], NEW whole \in Nat
  PROVE  /\ ShareBasisPoints(weights, whole) \in [1..n -> Nat]
         /\ SumFunctionOnSet(weights, 1..n) > 0
              => SumFunctionOnSet(ShareBasisPoints(weights, whole), 1..n) = whole
<1> DEFINE I == 1..n
           scaled == [i \in I |-> weights[i] * whole]
           d == SumFunctionOnSet(weights, I)
           F == SumFunctionOnSet(Floors(scaled, d), I)
           C == SumFunctionOnSet(scaled, I)
<1>1. IsFiniteSet(I) /\ d \in Nat
  <2>1. \A i \in I : weights[i] \in Nat
    OBVIOUS
  <2>2. IsFiniteSet(I)
    BY UpToN
  <2> HIDE DEF I
  <2>3. QED
    BY <2>1, <2>2, SumNat
<1>2. Total(weights) = d
  BY TotalIs
<1>3. CASE d = 0
  BY <1>2, <1>3 DEF ShareBasisPoints
<1>4. CASE d # 0
  <2>1. scaled \in [1..n -> Nat]
    OBVIOUS
  <2>2. ShareBasisPoints(weights, whole) = LargestRemainder(scaled, d, whole)
    <3> HIDE DEF d
    <3>1. QED
      BY <1>2, <1>4 DEF ShareBasisPoints
  <2>3. C = d * whole
    <3>1. Times(scaled, whole, weights, I)
      BY DEF Times
    <3>2. C = whole * d
      <4> HIDE DEF scaled, I
      <4>1. QED
        BY <1>1, <3>1, SumTimes
    <3> HIDE DEF C, d
    <3>3. QED
      BY <1>1, <3>2
  <2> HIDE DEF d
  <2>4. d \in Nat \ {0}
    BY <1>1, <1>4
  <2> HIDE DEF scaled
  <2>5. F \in Nat /\ d * F <= C /\ C <= d * F + (d - 1) * n
    BY <2>1, <2>4, FloorsNear
  <2> HIDE DEF F, C
  <2>6. d * F \in Int /\ d * whole \in Int /\ d * n \in Int /\ (d - 1) * n = d * n - n /\ d * (F + n) = d * F + d * n
    BY <2>4, <2>5
  <2>7. F <= whole
    <3>1. d * F < d * whole + d
      BY <2>3, <2>4, <2>5, <2>6
    <3>2. QED
      BY <2>4, <2>5, <3>1, TimesLess
  <2>8. whole <= F + n
    <3>1. d * whole < d * (F + n) + d
      BY <2>3, <2>4, <2>5, <2>6
    <3>2. QED
      BY <2>4, <2>5, <3>1, TimesLess
  <2>9. whole - F \in 0..n /\ whole \in Int
    BY <2>5, <2>7, <2>8
  <2>10. /\ LargestRemainder(scaled, d, whole) \in [1..n -> Nat]
         /\ SumFunctionOnSet(LargestRemainder(scaled, d, whole), 1..n) = whole
    BY <2>1, <2>4, <2>9, LargestCloses DEF F
  <2>11. QED
    BY <2>2, <2>10
<1>5. QED
  BY <1>3, <1>4

-----------------------------------------------------------------------------
(***************************************************************************)
(* Stamps: what each trace contributes. The ledger of a fold has one line  *)
(* for every key of the stamps it has seen, which sums them.               *)
(***************************************************************************)

\* The stamped costs of the traces in T, as pairs of a trace and a position.
Stamps(T) == UNION {{x} \X DOMAIN UsageOf[x].costs : x \in T}

StampOf(s) == StampedLines(UsageOf[s[1]])[s[2]]
KeyOf(s) == LineKey(StampOf(s))
StampTokens == [s \in Stamps(Usages) |-> StampOf(s).tokens]
StampCost == [s \in Stamps(Usages) |-> StampOf(s).cost]

Keyed(T, k) == {s \in Stamps(T) : KeyOf(s) = k}

Line == [agent : Nat, version : Nat, model : Nat, type : Range(TokenTypes), price : Nat,
         from : Nat, tokens : Nat, cost : Nat, cents : Nat]

\* A line sums the stamps of its key.
LineSums(l, T) ==
  /\ Keyed(T, LineKey(l)) # {}
  /\ l.tokens = SumFunctionOnSet(StampTokens, Keyed(T, LineKey(l)))
  /\ l.cost = SumFunctionOnSet(StampCost, Keyed(T, LineKey(l)))

\* One line for every key of the stamps of T.
LedgerIs(lines, T) ==
  /\ lines \in Seq(Line)
  /\ \A i, j \in DOMAIN lines : LineKey(lines[i]) = LineKey(lines[j]) => i = j
  /\ \A s \in Stamps(T) : \E i \in DOMAIN lines : LineKey(lines[i]) = KeyOf(s)
  /\ \A i \in DOMAIN lines : LineSums(lines[i], T)

\* The lines a trace is stamped with are lines, one per token type.
LEMMA StampIs ==
  ASSUME NEW x \in Usages, NEW new, new = StampedLines(UsageOf[x]), NEW n, n = Len(UsageOf[x].costs)
  PROVE  /\ n \in Nat /\ DOMAIN UsageOf[x].costs = 1..n
         /\ new \in [1..n -> Line]
         /\ \A i \in 1..n : StampOf(<<x, i>>) = new[i] /\ new[i].cents = 0
         /\ \A i, j \in 1..n : new[i].type = new[j].type => i = j
<1> DEFINE u == UsageOf[x]
           costs == u.costs
<1>1. /\ u \in [agent : Nat, version : Nat, model : Nat, costs : Seq(StampedCost)]
      /\ IsInjective([i \in DOMAIN costs |-> costs[i].type])
  BY UsageAssumption
<1>2. costs \in Seq(StampedCost) /\ u.agent \in Nat /\ u.version \in Nat /\ u.model \in Nat
  BY <1>1
<1>3. n \in Nat /\ DOMAIN costs = 1..n /\ \A i \in 1..n : costs[i] \in StampedCost
  <2> HIDE DEF costs
  <2>1. n = Len(costs)
    BY DEF costs
  <2>2. QED
    BY <1>2, <2>1, LenProperties, ElementOfSeq
<1>4. \A i, j \in 1..n : costs[i].type = costs[j].type => i = j
  <2> DEFINE f == [i \in DOMAIN costs |-> costs[i].type]
  <2> HIDE DEF costs
  <2>1. DOMAIN f = 1..n /\ \A i \in 1..n : f[i] = costs[i].type
    BY <1>3
  <2>2. IsInjective(f)
    BY <1>1
  <2> HIDE DEF f
  <2>3. QED
    BY <2>1, <2>2 DEF IsInjective
<1>5. ASSUME NEW i \in 1..n
      PROVE  CostMicrocents(costs[i].tokens, costs[i].price) \in Nat
  <2> DEFINE a == costs[i].tokens * costs[i].price
  <2>1. costs[i].tokens \in Nat /\ costs[i].price \in Nat
    BY <1>3 DEF StampedCost
  <2> HIDE DEF costs
  <2>2. a \in Int /\ a >= 0
    BY <2>1
  <2> HIDE DEF a
  <2>3. HalfUp(a, Unit) \in Int /\ HalfUp(a, Unit) >= 0
    BY <2>2, HalfUpIs, FoldAssumption
  <2>4. QED
    BY <2>3 DEF CostMicrocents, a
<1>6. /\ DOMAIN new = 1..n
      /\ \A i \in 1..n : new[i] = [agent |-> u.agent, version |-> u.version, model |-> u.model,
                                   type |-> costs[i].type, price |-> costs[i].price, from |-> costs[i].from,
                                   tokens |-> costs[i].tokens,
                                   cost |-> CostMicrocents(costs[i].tokens, costs[i].price), cents |-> 0]
  BY <1>3 DEF StampedLines
<1> HIDE DEF costs, u
<1>7. ASSUME NEW i \in 1..n
      PROVE  new[i] \in Line /\ new[i].type = costs[i].type /\ new[i].cents = 0
  <2>1. /\ costs[i].type \in Range(TokenTypes) /\ costs[i].price \in Nat
        /\ costs[i].from \in Nat /\ costs[i].tokens \in Nat
    BY <1>3 DEF StampedCost
  <2> DEFINE c == CostMicrocents(costs[i].tokens, costs[i].price)
             R == Range(TokenTypes)
  <2>2. c \in Nat /\ costs[i].type \in R
    BY <1>5, <2>1
  <2>3. new[i] = [agent |-> u.agent, version |-> u.version, model |-> u.model,
                  type |-> costs[i].type, price |-> costs[i].price, from |-> costs[i].from,
                  tokens |-> costs[i].tokens, cost |-> c, cents |-> 0]
    BY <1>6
  <2>4. Line = [agent : Nat, version : Nat, model : Nat, type : R, price : Nat,
                from : Nat, tokens : Nat, cost : Nat, cents : Nat]
    BY DEF Line
  <2> HIDE DEF c, R
  <2>5. QED
    BY <1>2, <2>1, <2>2, <2>3, <2>4
<1>8. new = [i \in 1..n |-> new[i]]
  <2>1. DOMAIN new = 1..n /\ new = [i \in DOMAIN new |-> new[i]]
    BY <1>6 DEF StampedLines
  <2>2. QED
    BY <2>1
<1>9. new \in [1..n -> Line]
  BY <1>7, <1>8
<1>10. \A i \in 1..n : StampOf(<<x, i>>) = new[i]
  BY DEF StampOf
<1>11. QED
  BY <1>3, <1>4, <1>7, <1>9, <1>10 DEF costs, u

\* A trace more: its own stamps are added to those of T.
LEMMA StampsWith ==
  ASSUME NEW T \in SUBSET Usages, NEW x \in Usages \ T, NEW n, n = Len(UsageOf[x].costs)
  PROVE  /\ Stamps(T \cup {x}) = Stamps(T) \cup ({x} \X (1..n))
         /\ Stamps(T) \cap ({x} \X (1..n)) = {}
         /\ Stamps(T) \subseteq Stamps(Usages) /\ Stamps(T \cup {x}) \subseteq Stamps(Usages)
<1>1. DOMAIN UsageOf[x].costs = 1..n
  BY StampIs
<1>2. \A s : s \in Stamps(T) => s[1] \in T
  BY DEF Stamps
<1>3. \A s : s \in {x} \X (1..n) => s[1] = x
  OBVIOUS
<1>4. Stamps(T \cup {x}) = Stamps(T) \cup ({x} \X (1..n))
  BY <1>1 DEF Stamps
<1>5. Stamps(T) \cap ({x} \X (1..n)) = {}
  BY <1>2, <1>3
<1>6. Stamps(T) \subseteq Stamps(Usages) /\ Stamps(T \cup {x}) \subseteq Stamps(Usages)
  BY DEF Stamps
<1>7. QED
  BY <1>4, <1>5, <1>6

\* A stamp is a line, with its tokens and its cost.
LEMMA StampIn ==
  ASSUME NEW s \in Stamps(Usages)
  PROVE  /\ StampOf(s) \in Line /\ StampOf(s).cents = 0
         /\ StampTokens[s] = StampOf(s).tokens /\ StampTokens[s] \in Nat
         /\ StampCost[s] = StampOf(s).cost /\ StampCost[s] \in Nat
<1>1. PICK x \in Usages : s \in {x} \X DOMAIN UsageOf[x].costs
  BY DEF Stamps
<1>2. PICK i \in DOMAIN UsageOf[x].costs : s = <<x, i>>
  BY <1>1
<1> DEFINE new == StampedLines(UsageOf[x])
           n == Len(UsageOf[x].costs)
<1>3. /\ DOMAIN UsageOf[x].costs = 1..n
      /\ new \in [1..n -> Line]
      /\ \A j \in 1..n : StampOf(<<x, j>>) = new[j] /\ new[j].cents = 0
  BY StampIs
<1> HIDE DEF new, n
<1>4. StampOf(s) \in Line /\ StampOf(s).cents = 0
  BY <1>2, <1>3
<1>5. StampOf(s).tokens \in Nat /\ StampOf(s).cost \in Nat
  BY <1>4 DEF Line
<1>6. StampTokens[s] = StampOf(s).tokens /\ StampCost[s] = StampOf(s).cost
  BY DEF StampTokens, StampCost
<1>7. QED
  BY <1>4, <1>5, <1>6

\* The stamps of a key among those of one trace.
Matching(new, n, k) == {i \in 1..n : LineKey(new[i]) = k}

OwnStamps(x, k, new, n, same) ==
  new = StampedLines(UsageOf[x]) /\ n = Len(UsageOf[x].costs) /\ same = Matching(new, n, k)

\* What the stamps of a trace add to those of a key.
LEMMA KeyedWith ==
  ASSUME NEW T \in SUBSET Usages, IsFiniteSet(Stamps(T)), NEW x \in Usages \ T, NEW k,
         NEW new, NEW n, NEW same, OwnStamps(x, k, new, n, same)
  PROVE  /\ IsFiniteSet(Keyed(T, k)) /\ IsFiniteSet(same)
         /\ Keyed(T \cup {x}, k) = Keyed(T, k) \cup ({x} \X same)
         /\ SumFunctionOnSet(StampTokens, Keyed(T \cup {x}, k))
              = SumFunctionOnSet(StampTokens, Keyed(T, k)) + SumFunctionOnSet(TokensOf(new), same)
         /\ SumFunctionOnSet(StampCost, Keyed(T \cup {x}, k))
              = SumFunctionOnSet(StampCost, Keyed(T, k)) + SumFunctionOnSet(CostOf(new), same)
         /\ SumFunctionOnSet(TokensOf(new), same) \in Nat
         /\ SumFunctionOnSet(CostOf(new), same) \in Nat
<1> DEFINE K == Keyed(T, k)
           A == {x} \X same
<1>19. new = StampedLines(UsageOf[x]) /\ n = Len(UsageOf[x].costs) /\ same = Matching(new, n, k)
  BY DEF OwnStamps
<1>1. /\ n \in Nat /\ new \in [1..n -> Line]
      /\ \A i \in 1..n : StampOf(<<x, i>>) = new[i]
  BY <1>19, StampIs
<1>2. /\ Stamps(T \cup {x}) = Stamps(T) \cup ({x} \X (1..n))
      /\ Stamps(T) \cap ({x} \X (1..n)) = {}
      /\ Stamps(T) \subseteq Stamps(Usages) /\ Stamps(T \cup {x}) \subseteq Stamps(Usages)
  BY <1>19, StampsWith
<1>3. Keyed(T \cup {x}, k) = K \cup A
  <2>1. \A i \in 1..n : KeyOf(<<x, i>>) = LineKey(new[i])
    BY <1>1 DEF KeyOf
  <2>2. A = {s \in {x} \X (1..n) : KeyOf(s) = k}
    BY <1>19, <2>1 DEF Matching
  <2> HIDE DEF A
  <2>3. QED
    BY <1>2, <2>2 DEF Keyed
<1>4. IsFiniteSet(K) /\ K \subseteq Stamps(T)
  <2>1. K \in SUBSET Stamps(T)
    BY DEF Keyed
  <2>2. QED
    BY <2>1, FS_Subset
<1>5. IsFiniteSet(same) /\ same \subseteq 1..n
  <2>1. same \in SUBSET (1..n)
    BY <1>19 DEF Matching
  <2>2. IsFiniteSet(1..n)
    BY <1>1, UpToN
  <2>3. QED
    BY <2>1, <2>2, FS_Subset
<1>6. ASSUME NEW i \in same
      PROVE  /\ <<x, i>> \in Stamps(Usages)
             /\ StampTokens[<<x, i>>] = TokensOf(new)[i] /\ StampCost[<<x, i>>] = CostOf(new)[i]
             /\ TokensOf(new)[i] \in Nat /\ CostOf(new)[i] \in Nat
  <2>1. <<x, i>> \in Stamps(Usages)
    BY <1>2, <1>5
  <2>2. i \in DOMAIN new /\ StampOf(<<x, i>>) = new[i]
    BY <1>1, <1>5
  <2>3. TokensOf(new)[i] = new[i].tokens /\ CostOf(new)[i] = new[i].cost
    BY <2>2 DEF TokensOf, CostOf
  <2>4. QED
    BY <2>1, <2>2, <2>3, StampIn
<1> DEFINE h == [i \in same |-> <<x, i>>]
<1>7. /\ Numbers(h, same, A)
      /\ Follows(TokensOf(new), StampTokens, h, same)
      /\ Follows(CostOf(new), StampCost, h, same)
  BY <1>6 DEF Numbers, Follows
<1> HIDE DEF h
<1>8. /\ SumFunctionOnSet(TokensOf(new), same) = SumFunctionOnSet(StampTokens, A)
      /\ SumFunctionOnSet(CostOf(new), same) = SumFunctionOnSet(StampCost, A)
      /\ IsFiniteSet(A)
  BY <1>5, <1>7, SumAlong
<1>9. K \cap A = {} /\ K \cup A \subseteq Stamps(Usages)
  BY <1>2, <1>4, <1>5
<1> HIDE DEF K, A
<1>10. /\ \A s \in K \cup A : StampTokens[s] \in Int
       /\ \A s \in K \cup A : StampCost[s] \in Int
  BY <1>9, StampIn
<1>11. SumFunctionOnSet(StampTokens, K \cup A) = SumFunctionOnSet(StampTokens, K) + SumFunctionOnSet(StampTokens, A)
  BY <1>4, <1>8, <1>9, <1>10, SumUnion
<1>12. SumFunctionOnSet(StampCost, K \cup A) = SumFunctionOnSet(StampCost, K) + SumFunctionOnSet(StampCost, A)
  BY <1>4, <1>8, <1>9, <1>10, SumUnion
<1>13. SumFunctionOnSet(TokensOf(new), same) \in Nat
  <2>1. \A i \in same : TokensOf(new)[i] \in Nat
    BY <1>6
  <2>2. QED
    BY <1>5, <2>1, SumNat
<1>14. SumFunctionOnSet(CostOf(new), same) \in Nat
  <2>1. \A i \in same : CostOf(new)[i] \in Nat
    BY <1>6
  <2>2. QED
    BY <1>5, <2>1, SumNat
<1> DEFINE U == Keyed(T \cup {x}, k)
           V == K \cup A
<1>15. U = V
  BY <1>3
<1>16. V = K \cup A
  OBVIOUS
<1> HIDE DEF U, V
<1>17. /\ SumFunctionOnSet(StampTokens, U) = SumFunctionOnSet(StampTokens, V)
       /\ SumFunctionOnSet(StampCost, U) = SumFunctionOnSet(StampCost, V)
  BY <1>15
<1>18. QED
  BY <1>3, <1>4, <1>5, <1>8, <1>11, <1>12, <1>13, <1>14, <1>17 DEF K, A, U, V

WithSums(l, a, b) == [l EXCEPT !.tokens = a, !.cost = b]

\* A line with other sums keeps its key.
LEMMA LineWith ==
  ASSUME NEW l \in Line, NEW a \in Nat, NEW b \in Nat
  PROVE  /\ WithSums(l, a, b) \in Line /\ LineKey(WithSums(l, a, b)) = LineKey(l)
         /\ WithSums(l, a, b).cents = l.cents
         /\ WithSums(l, a, b).tokens = a /\ WithSums(l, a, b).cost = b
<1> DEFINE R == Range(TokenTypes)
           m == WithSums(l, a, b)
<1>1. Line = [agent : Nat, version : Nat, model : Nat, type : R, price : Nat,
              from : Nat, tokens : Nat, cost : Nat, cents : Nat]
  BY DEF Line
<1> HIDE DEF R
<1>2. m \in Line
  BY <1>1 DEF WithSums
<1>3. /\ m.agent = l.agent /\ m.version = l.version /\ m.model = l.model /\ m.type = l.type
      /\ m.price = l.price /\ m.from = l.from /\ m.cents = l.cents
      /\ m.tokens = a /\ m.cost = b
  BY <1>1 DEF WithSums
<1>4. LineKey(m) = LineKey(l)
  BY <1>3 DEF LineKey
<1>5. QED
  BY <1>2, <1>3, <1>4

\* The ledger of one trace more is the one AddRecordLines makes.
LEMMA LedgerWith ==
  ASSUME NEW T \in SUBSET Usages, IsFiniteSet(Stamps(T)), NEW x \in Usages \ T,
         NEW lines, LedgerIs(lines, T), \A i \in DOMAIN lines : lines[i].cents = 0
  PROVE  /\ LedgerIs(AddRecordLines(lines, UsageOf[x]), T \cup {x})
         /\ \A i \in DOMAIN AddRecordLines(lines, UsageOf[x]) : AddRecordLines(lines, UsageOf[x])[i].cents = 0
<1> DEFINE new == StampedLines(UsageOf[x])
           n == Len(UsageOf[x].costs)
           m == Len(lines)
           same(k) == Matching(new, n, k)
           moreTokens(k) == SumFunctionOnSet(TokensOf(new), same(k))
           moreCost(k) == SumFunctionOnSet(CostOf(new), same(k))
           fresh == {i \in 1..n : \A j \in 1..m : LineKey(lines[j]) # LineKey(new[i])}
           old == [j \in 1..m |-> [lines[j] EXCEPT !.tokens = lines[j].tokens + moreTokens(LineKey(lines[j])),
                                                  !.cost = lines[j].cost + moreCost(LineKey(lines[j]))]]
           added == Kept(new, fresh)
           c == Cardinality(fresh)
           order == InPlace(fresh)
           out == AddRecordLines(lines, UsageOf[x])
           U == T \cup {x}
<1>1. /\ n \in Nat
      /\ new \in [1..n -> Line] /\ DOMAIN new = 1..n
      /\ \A i \in 1..n : StampOf(<<x, i>>) = new[i] /\ new[i].cents = 0
      /\ \A i, j \in 1..n : new[i].type = new[j].type => i = j
  <2>1. x \in Usages /\ new = StampedLines(UsageOf[x]) /\ n = Len(UsageOf[x].costs)
    OBVIOUS
  <2> HIDE DEF n, new
  <2>2. /\ n \in Nat /\ new \in [1..n -> Line]
        /\ \A i \in 1..n : StampOf(<<x, i>>) = new[i] /\ new[i].cents = 0
        /\ \A i, j \in 1..n : new[i].type = new[j].type => i = j
    BY <2>1, StampIs
  <2>3. QED
    BY <2>2
<1>2. /\ lines \in Seq(Line)
      /\ \A i, j \in DOMAIN lines : LineKey(lines[i]) = LineKey(lines[j]) => i = j
      /\ \A s \in Stamps(T) : \E i \in DOMAIN lines : LineKey(lines[i]) = KeyOf(s)
      /\ \A i \in DOMAIN lines : LineSums(lines[i], T)
  BY DEF LedgerIs
<1>3. m \in Nat /\ DOMAIN lines = 1..m /\ \A i \in 1..m : lines[i] \in Line
  BY <1>2, LenProperties, ElementOfSeq
<1>4. out = old \o added
  <2>1. \A j \in 1..m : {i \in DOMAIN new : LineKey(new[i]) = LineKey(lines[j])} = same(LineKey(lines[j]))
    BY <1>1 DEF Matching
  <2>2. {i \in DOMAIN new : \A j \in DOMAIN lines : LineKey(lines[j]) # LineKey(new[i])} = fresh
    BY <1>1, <1>3
  <2> HIDE DEF new, fresh, m
  <2>3. QED
    BY <1>3, <2>1, <2>2 DEF AddRecordLines, new
<1>5. /\ Stamps(U) = Stamps(T) \cup ({x} \X (1..n))
      /\ Stamps(T) \cap ({x} \X (1..n)) = {}
  <2>1. n = Len(UsageOf[x].costs) /\ U = T \cup {x}
    OBVIOUS
  <2> HIDE DEF n
  <2>2. QED
    BY <2>1, StampsWith
<1>6. ASSUME NEW k
      PROVE  /\ Keyed(U, k) = Keyed(T, k) \cup ({x} \X same(k))
             /\ SumFunctionOnSet(StampTokens, Keyed(U, k)) = SumFunctionOnSet(StampTokens, Keyed(T, k)) + moreTokens(k)
             /\ SumFunctionOnSet(StampCost, Keyed(U, k)) = SumFunctionOnSet(StampCost, Keyed(T, k)) + moreCost(k)
             /\ moreTokens(k) \in Nat /\ moreCost(k) \in Nat
  <2> DEFINE S == same(k)
  <2>1. OwnStamps(x, k, new, n, S)
    BY DEF OwnStamps
  <2> HIDE DEF S, new, n
  <2>2. /\ Keyed(U, k) = Keyed(T, k) \cup ({x} \X S)
        /\ SumFunctionOnSet(StampTokens, Keyed(U, k)) = SumFunctionOnSet(StampTokens, Keyed(T, k)) + SumFunctionOnSet(TokensOf(new), S)
        /\ SumFunctionOnSet(StampCost, Keyed(U, k)) = SumFunctionOnSet(StampCost, Keyed(T, k)) + SumFunctionOnSet(CostOf(new), S)
        /\ SumFunctionOnSet(TokensOf(new), S) \in Nat
        /\ SumFunctionOnSet(CostOf(new), S) \in Nat
    <3>1. IsFiniteSet(Keyed(T, k)) /\ IsFiniteSet(S)
          /\ Keyed(T \cup {x}, k) = Keyed(T, k) \cup ({x} \X S)
          /\ SumFunctionOnSet(StampTokens, Keyed(T \cup {x}, k))
              = SumFunctionOnSet(StampTokens, Keyed(T, k)) + SumFunctionOnSet(TokensOf(new), S)
          /\ SumFunctionOnSet(StampCost, Keyed(T \cup {x}, k))
              = SumFunctionOnSet(StampCost, Keyed(T, k)) + SumFunctionOnSet(CostOf(new), S)
          /\ SumFunctionOnSet(TokensOf(new), S) \in Nat
          /\ SumFunctionOnSet(CostOf(new), S) \in Nat
      BY <2>1, KeyedWith
    <3>2. QED
      BY <3>1 DEF U
  <2>3. QED
    BY <2>2 DEF S
<1> HIDE DEF new, n, same, moreTokens, moreCost, out, U
<1>7. ASSUME NEW j \in 1..m
      PROVE  /\ old[j] \in Line /\ LineKey(old[j]) = LineKey(lines[j]) /\ old[j].cents = 0
             /\ LineSums(old[j], U)
  <2> DEFINE k == LineKey(lines[j])
             a == lines[j].tokens + moreTokens(k)
             b == lines[j].cost + moreCost(k)
  <2>1. lines[j] \in Line /\ LineSums(lines[j], T) /\ lines[j].cents = 0
    BY <1>2, <1>3
  <2>2. lines[j].tokens \in Nat /\ lines[j].cost \in Nat
    BY <2>1 DEF Line
  <2>3. old[j] = [lines[j] EXCEPT !.tokens = a, !.cost = b]
    OBVIOUS
  <2> HIDE DEF k
  <2>4. a \in Nat /\ b \in Nat
    BY <1>6, <2>2
  <2> HIDE DEF old
  <2>5. /\ Keyed(T, k) # {} /\ lines[j].tokens = SumFunctionOnSet(StampTokens, Keyed(T, k))
        /\ lines[j].cost = SumFunctionOnSet(StampCost, Keyed(T, k))
    BY <2>1 DEF LineSums, k
  <2>6. /\ Keyed(U, k) # {} /\ a = SumFunctionOnSet(StampTokens, Keyed(U, k))
        /\ b = SumFunctionOnSet(StampCost, Keyed(U, k))
    <3>1. /\ Keyed(U, k) = Keyed(T, k) \cup ({x} \X same(k))
          /\ SumFunctionOnSet(StampTokens, Keyed(U, k)) = SumFunctionOnSet(StampTokens, Keyed(T, k)) + moreTokens(k)
          /\ SumFunctionOnSet(StampCost, Keyed(U, k)) = SumFunctionOnSet(StampCost, Keyed(T, k)) + moreCost(k)
      BY <1>6
    <3>2. QED
      BY <2>5, <3>1
  <2> HIDE DEF a, b
  <2>7. /\ old[j] \in Line /\ LineKey(old[j]) = LineKey(lines[j]) /\ old[j].cents = 0
        /\ old[j].tokens = a /\ old[j].cost = b
    <3>1. lines[j] \in Line /\ a \in Nat /\ b \in Nat
      BY <2>1, <2>4
    <3> DEFINE l == lines[j]
               o == old[j]
    <3>2. l \in Line /\ o = WithSums(l, a, b)
      BY <2>3, <3>1 DEF WithSums
    <3> HIDE DEF l, o
    <3>6. l \in Line
      BY ONLY <3>2
    <3>5. /\ WithSums(l, a, b) \in Line /\ LineKey(WithSums(l, a, b)) = LineKey(l)
          /\ WithSums(l, a, b).cents = l.cents
          /\ WithSums(l, a, b).tokens = a /\ WithSums(l, a, b).cost = b
      BY ONLY <2>4, <3>6, LineWith
    <3>3. o \in Line /\ LineKey(o) = LineKey(l) /\ o.cents = l.cents /\ o.tokens = a /\ o.cost = b
      BY ONLY <3>2, <3>5
    <3>4. QED
      BY <2>1, <3>3 DEF l, o
  <2>8. LineKey(old[j]) = k
    BY <2>7 DEF k
  <2>9. QED
    BY <2>6, <2>7, <2>8 DEF LineSums
<1>8. /\ fresh \in SUBSET Int /\ IsFiniteSet(fresh) /\ fresh \subseteq 1..n /\ c \in Nat
      /\ \A i \in fresh : new[i] \in Line
  <2>1. fresh \in SUBSET (1..n)
    OBVIOUS
  <2>2. IsFiniteSet(1..n)
    BY <1>1, UpToN
  <2> HIDE DEF fresh
  <2>3. IsFiniteSet(fresh)
    BY <2>1, <2>2, FS_Subset
  <2>4. QED
    BY <1>1, <2>1, <2>3, FS_CardinalityType
<1>9. /\ Listing(order, fresh)
      /\ ReadOff(added, new, order, c, Line)
  <2> HIDE DEF fresh
  <2>1. QED
    BY <1>8, KeptIs
<1>10. ASSUME NEW i \in fresh
       PROVE  /\ new[i].cents = 0 /\ LineSums(new[i], U)
  <2> DEFINE k == LineKey(new[i])
  <2>1. i \in 1..n /\ new[i].cents = 0 /\ new[i] \in Line
    BY <1>1, <1>8
  <2>2. same(k) = {i}
    <3>1. \A j \in 1..n : LineKey(new[j]) = LineKey(new[i]) => j = i
      BY <1>1, <2>1 DEF LineKey
    <3>2. QED
      BY <2>1, <3>1 DEF same, Matching
  <2>3. Keyed(T, k) = {}
    <3> SUFFICES ASSUME NEW s \in Stamps(T), KeyOf(s) = k PROVE FALSE
      BY DEF Keyed
    <3>1. PICK j \in 1..m : LineKey(lines[j]) = k
      BY <1>2, <1>3
    <3>2. QED
      BY <3>1
  <2>4. SumFunctionOnSet(StampTokens, Keyed(T, k)) = 0 /\ SumFunctionOnSet(StampCost, Keyed(T, k)) = 0
    BY <2>3, SumNone
  <2>5. /\ TokensOf(new)[i] = new[i].tokens /\ CostOf(new)[i] = new[i].cost
        /\ TokensOf(new)[i] \in Int /\ CostOf(new)[i] \in Int
    BY <1>1, <2>1 DEF TokensOf, CostOf, Line
  <2>6. moreTokens(k) = new[i].tokens /\ moreCost(k) = new[i].cost
    <3> DEFINE S == same(k)
    <3>1. SumFunctionOnSet(TokensOf(new), {i}) = TokensOf(new)[i] /\ SumFunctionOnSet(CostOf(new), {i}) = CostOf(new)[i]
      BY <2>5, SumOne
    <3>2. S = {i}
      BY <2>2
    <3> HIDE DEF S
    <3>3. SumFunctionOnSet(TokensOf(new), S) = SumFunctionOnSet(TokensOf(new), {i})
          /\ SumFunctionOnSet(CostOf(new), S) = SumFunctionOnSet(CostOf(new), {i})
      BY <3>2, Zenon
    <3>4. QED
      BY <2>5, <3>1, <3>3 DEF S, moreTokens, moreCost
  <2>7. Keyed(U, k) # {}
    <3>1. Keyed(U, k) = Keyed(T, k) \cup ({x} \X same(k))
      BY <1>6
    <3>2. QED
      BY <2>2, <3>1, <<x, i>> \in {x} \X same(k)
  <2>8. /\ SumFunctionOnSet(StampTokens, Keyed(U, k)) = new[i].tokens
        /\ SumFunctionOnSet(StampCost, Keyed(U, k)) = new[i].cost
    <3>1. new[i].tokens \in Int /\ new[i].cost \in Int
      BY <2>1 DEF Line
    <3>2. /\ SumFunctionOnSet(StampTokens, Keyed(U, k)) = SumFunctionOnSet(StampTokens, Keyed(T, k)) + moreTokens(k)
          /\ SumFunctionOnSet(StampCost, Keyed(U, k)) = SumFunctionOnSet(StampCost, Keyed(T, k)) + moreCost(k)
      BY <1>6
    <3> HIDE DEF k
    <3>3. QED
      BY <2>4, <2>6, <3>1, <3>2
  <2>9. QED
    BY <2>1, <2>7, <2>8 DEF LineSums
<1>11. /\ Len(old) = m /\ old \in Seq(Line) /\ Len(added) = c /\ added \in Seq(Line)
  <2>1. old \in [1..m -> Line]
    BY <1>7
  <2> HIDE DEF old, added, c, m
  <2>2. old \in Seq(Line) /\ Len(old) = m
    BY <1>3, <2>1, TupleIs
  <2>3. QED
    BY <1>9, <2>2 DEF ReadOff
<1> HIDE DEF old, added, c, m, order
<1>12. /\ out \in Seq(Line) /\ DOMAIN out = 1..(m + c)
       /\ \A i \in 1..m : out[i] = old[i]
       /\ \A i \in (m + 1)..(m + c) : out[i] = added[i - m]
  <2>1. /\ out \in Seq(Line) /\ Len(out) = m + c
        /\ \A i \in 1..(m + c) : out[i] = IF i <= m THEN old[i] ELSE added[i - m]
    BY <1>4, <1>11, ConcatProperties
  <2>2. QED
    <3>1. m + c \in Nat /\ DOMAIN out = 1..(m + c)
      BY <1>3, <1>8, <2>1, LenProperties
    <3>2. /\ \A i \in 1..m : i \in 1..(m + c) /\ i <= m
          /\ \A i \in (m + 1)..(m + c) : i \in 1..(m + c) /\ ~(i <= m)
      BY <1>3, <1>8
    <3>3. QED
      BY <2>1, <3>1, <3>2
<1>13. ASSUME NEW i \in (m + 1)..(m + c)
       PROVE  order[i - m] \in fresh /\ out[i] = new[order[i - m]]
  <2>1. i - m \in 1..c
    BY <1>3, <1>8
  <2>2. out[i] = added[i - m]
    BY <1>12
  <2>3. QED
    BY <1>9, <2>1, <2>2 DEF ReadOff, Listing, c
<1>14. \A i \in DOMAIN out : i \in 1..m \/ i \in (m + 1)..(m + c)
  BY <1>3, <1>8, <1>12
<1>15. ASSUME NEW i \in DOMAIN out
       PROVE  LineSums(out[i], U) /\ out[i].cents = 0
  <2>1. CASE i \in 1..m
    BY <1>7, <1>12, <2>1
  <2>2. CASE i \in (m + 1)..(m + c)
    BY <1>10, <1>13, <2>2
  <2>3. QED
    BY <1>14, <2>1, <2>2
<1>16. ASSUME NEW i \in DOMAIN out, NEW j \in DOMAIN out, LineKey(out[i]) = LineKey(out[j])
       PROVE  i = j
  <2>1. CASE i \in 1..m /\ j \in 1..m
    <3>1. LineKey(lines[i]) = LineKey(lines[j])
      BY <1>7, <1>12, <1>16, <2>1
    <3>2. QED
      BY <1>2, <1>3, <2>1, <3>1
  <2>2. CASE i \in 1..m /\ j \in (m + 1)..(m + c)
    <3>1. LineKey(out[i]) = LineKey(lines[i])
      BY <1>7, <1>12, <2>2
    <3>2. order[j - m] \in fresh /\ out[j] = new[order[j - m]]
      BY <1>13, <2>2
    <3>3. QED
      BY <1>16, <2>2, <3>1, <3>2
  <2>3. CASE i \in (m + 1)..(m + c) /\ j \in 1..m
    <3>1. LineKey(out[j]) = LineKey(lines[j])
      BY <1>7, <1>12, <2>3
    <3>2. order[i - m] \in fresh /\ out[i] = new[order[i - m]]
      BY <1>13, <2>3
    <3>3. QED
      BY <1>16, <2>3, <3>1, <3>2
  <2>4. CASE i \in (m + 1)..(m + c) /\ j \in (m + 1)..(m + c)
    <3>1. /\ order[i - m] \in fresh /\ out[i] = new[order[i - m]]
          /\ order[j - m] \in fresh /\ out[j] = new[order[j - m]]
      BY <1>13, <2>4
    <3>2. new[order[i - m]].type = new[order[j - m]].type
      BY <1>16, <3>1 DEF LineKey
    <3>3. order[i - m] = order[j - m]
      BY <1>1, <1>8, <3>1, <3>2
    <3>4. i - m \in 1..c /\ j - m \in 1..c
      BY <1>3, <1>8, <2>4
    <3>5. i - m = j - m
      BY <1>9, <3>3, <3>4 DEF Listing, c
    <3>6. i \in Int /\ j \in Int /\ m \in Int
      BY <1>3, <1>8, <2>4
    <3>7. QED
      BY <3>5, <3>6
  <2>5. QED
    BY <1>14, <2>1, <2>2, <2>3, <2>4
<1>17. ASSUME NEW s \in Stamps(U)
       PROVE  \E i \in DOMAIN out : LineKey(out[i]) = KeyOf(s)
  <2>1. ASSUME NEW j \in 1..m, LineKey(lines[j]) = KeyOf(s)
        PROVE  \E i \in DOMAIN out : LineKey(out[i]) = KeyOf(s)
    <3>1. j \in DOMAIN out
      BY <1>3, <1>8, <1>12
    <3>2. LineKey(out[j]) = KeyOf(s)
      BY <1>7, <1>12, <2>1
    <3>3. QED
      BY <3>1, <3>2
  <2>2. CASE s \in Stamps(T)
    BY <1>2, <1>3, <2>1, <2>2
  <2>3. CASE s \in {x} \X (1..n)
    <3>1. PICK i \in 1..n : s = <<x, i>>
      BY <2>3
    <3>2. KeyOf(s) = LineKey(new[i])
      BY <1>1, <3>1 DEF KeyOf
    <3>3. CASE i \in fresh
      <4>1. PICK p \in 1..c : order[p] = i
        BY <1>9, <3>3 DEF Listing, c
      <4>2. m + p \in (m + 1)..(m + c) /\ m + p \in DOMAIN out /\ (m + p) - m = p
        BY <1>3, <1>8, <1>12
      <4> DEFINE q == m + p
      <4>3. q \in (m + 1)..(m + c) /\ q \in DOMAIN out /\ q - m = p
        BY <4>2
      <4> HIDE DEF q
      <4>4. out[q] = new[i]
        BY <1>13, <4>1, <4>3
      <4>5. QED
        BY <3>2, <4>3, <4>4
    <3>4. CASE i \notin fresh
      BY <2>1, <3>2, <3>4
    <3>5. QED
      BY <3>3, <3>4
  <2>4. QED
    BY <1>5, <2>2, <2>3
<1>18. QED
  BY <1>12, <1>15, <1>16, <1>17 DEF LedgerIs, out, U

-----------------------------------------------------------------------------
(***************************************************************************)
(* The price versions a fold has seen.                                     *)
(***************************************************************************)

Version == [model : Nat, type : Range(TokenTypes), price : Nat, from : Nat]

VersionsOf(T) == {VersionOf(StampOf(s)) : s \in Stamps(T)}

VersionList(seen, T) == seen \in Seq(Version) /\ OneToOne(seen) /\ Range(seen) = VersionsOf(T)

\* The price version of a line.
LEMMA VersionIs ==
  ASSUME NEW l \in Line
  PROVE  VersionOf(l) \in Version /\ VersionOf(l).type = l.type
<1> DEFINE R == Range(TokenTypes)
<1>1. /\ Line = [agent : Nat, version : Nat, model : Nat, type : R, price : Nat,
                 from : Nat, tokens : Nat, cost : Nat, cents : Nat]
      /\ Version = [model : Nat, type : R, price : Nat, from : Nat]
  BY DEF Line, Version
<1> HIDE DEF R
<1>2. QED
  BY <1>1 DEF VersionOf

\* A trace more: the price versions it is the first to use are appended.
LEMMA VersionsWith ==
  ASSUME NEW T \in SUBSET Usages, NEW x \in Usages \ T, NEW seen, VersionList(seen, T)
  PROVE  VersionList(AddRecordPriceVersions(seen, UsageOf[x]), T \cup {x})
<1> DEFINE new == StampedLines(UsageOf[x])
           n == Len(UsageOf[x].costs)
           m == Len(seen)
           used == [i \in 1..n |-> VersionOf(new[i])]
           fresh == {i \in 1..n : used[i] \notin Range(seen)}
           added == Kept(used, fresh)
           c == Cardinality(fresh)
           order == InPlace(fresh)
           out == AddRecordPriceVersions(seen, UsageOf[x])
           U == T \cup {x}
<1>1. /\ n \in Nat
      /\ new \in [1..n -> Line] /\ DOMAIN new = 1..n /\ DOMAIN UsageOf[x].costs = 1..n
      /\ \A i \in 1..n : StampOf(<<x, i>>) = new[i]
      /\ \A i, j \in 1..n : new[i].type = new[j].type => i = j
  <2>1. x \in Usages /\ new = StampedLines(UsageOf[x]) /\ n = Len(UsageOf[x].costs)
    OBVIOUS
  <2> HIDE DEF n, new
  <2>2. /\ n \in Nat /\ new \in [1..n -> Line] /\ DOMAIN UsageOf[x].costs = 1..n
        /\ \A i \in 1..n : StampOf(<<x, i>>) = new[i]
        /\ \A i, j \in 1..n : new[i].type = new[j].type => i = j
    BY <2>1, StampIs
  <2>3. QED
    BY <2>2
<1>2. seen \in Seq(Version) /\ OneToOne(seen) /\ Range(seen) = VersionsOf(T)
  BY DEF VersionList
<1>3. m \in Nat /\ DOMAIN seen = 1..m
  BY <1>2, LenProperties
<1>4. out = seen \o added
  <2>1. [i \in DOMAIN UsageOf[x].costs |-> VersionOf(StampedLines(UsageOf[x])[i])] = used
    BY <1>1
  <2>2. {i \in DOMAIN used : used[i] \notin Range(seen)} = fresh
    OBVIOUS
  <2> HIDE DEF used, fresh, new, n
  <2>3. QED
    BY <2>1, <2>2 DEF AddRecordPriceVersions
<1>5. Stamps(U) = Stamps(T) \cup ({x} \X (1..n))
  <2>1. n = Len(UsageOf[x].costs) /\ U = T \cup {x}
    OBVIOUS
  <2> HIDE DEF n
  <2>2. QED
    BY <2>1, StampsWith
<1> HIDE DEF new, n, out, U
<1>6. /\ \A i \in 1..n : used[i] \in Version /\ used[i] = VersionOf(StampOf(<<x, i>>))
      /\ \A i, j \in 1..n : used[i] = used[j] => i = j
  <2>1. \A i \in 1..n : used[i] \in Version /\ used[i].type = new[i].type
    BY <1>1, VersionIs
  <2>2. \A i \in 1..n : used[i] = VersionOf(StampOf(<<x, i>>))
    BY <1>1
  <2> HIDE DEF used
  <2>3. \A i, j \in 1..n : used[i] = used[j] => i = j
    BY <1>1, <2>1
  <2>4. QED
    BY <2>1, <2>2, <2>3
<1> HIDE DEF used
<1>8. /\ fresh \in SUBSET Int /\ IsFiniteSet(fresh) /\ fresh \subseteq 1..n /\ c \in Nat
      /\ \A i \in fresh : used[i] \in Version
  <2>1. fresh \in SUBSET (1..n)
    OBVIOUS
  <2>2. IsFiniteSet(1..n)
    BY <1>1, UpToN
  <2> HIDE DEF fresh
  <2>3. IsFiniteSet(fresh)
    BY <2>1, <2>2, FS_Subset
  <2>4. \A i \in fresh : used[i] \in Version
    BY <1>6, <2>1
  <2>5. c \in Nat
    BY <2>3, FS_CardinalityType
  <2>6. QED
    BY <2>1, <2>3, <2>4, <2>5
<1>9. /\ Listing(order, fresh)
      /\ ReadOff(added, used, order, c, Version)
  <2> HIDE DEF fresh
  <2>1. QED
    BY <1>8, KeptIs
<1>11. /\ Len(added) = c /\ added \in Seq(Version)
  BY <1>9 DEF ReadOff
<1> HIDE DEF added, c, m, order
<1>12. /\ out \in Seq(Version) /\ DOMAIN out = 1..(m + c)
       /\ \A i \in 1..m : out[i] = seen[i]
       /\ \A i \in (m + 1)..(m + c) : out[i] = added[i - m]
  <2>1. /\ out \in Seq(Version) /\ Len(out) = m + c
        /\ \A i \in 1..(m + c) : out[i] = IF i <= m THEN seen[i] ELSE added[i - m]
    BY <1>2, <1>4, <1>11, ConcatProperties DEF m
  <2>2. m + c \in Nat /\ DOMAIN out = 1..(m + c)
    BY <1>3, <1>8, <2>1, LenProperties
  <2>3. /\ \A i \in 1..m : i \in 1..(m + c) /\ i <= m
        /\ \A i \in (m + 1)..(m + c) : i \in 1..(m + c) /\ ~(i <= m)
    BY <1>3, <1>8
  <2>4. QED
    BY <2>1, <2>2, <2>3
<1>13. ASSUME NEW i \in (m + 1)..(m + c)
       PROVE  i - m \in 1..c /\ order[i - m] \in fresh /\ out[i] = used[order[i - m]]
  <2>1. i - m \in 1..c
    BY <1>3, <1>8
  <2>2. out[i] = added[i - m]
    BY <1>12
  <2>3. QED
    BY <1>9, <2>1, <2>2 DEF ReadOff, Listing, c
<1>14. \A i \in DOMAIN out : i \in 1..m \/ i \in (m + 1)..(m + c)
  BY <1>3, <1>8, <1>12
<1>15. \A i \in 1..m : seen[i] \in Range(seen)
  BY <1>3 DEF Range
<1>16. ASSUME NEW i \in DOMAIN out, NEW j \in DOMAIN out, out[i] = out[j]
       PROVE  i = j
  <2>1. CASE i \in 1..m /\ j \in 1..m
    BY <1>2, <1>3, <1>12, <1>16, <2>1 DEF OneToOne
  <2>2. CASE i \in 1..m /\ j \in (m + 1)..(m + c)
    BY <1>12, <1>13, <1>15, <1>16, <2>2
  <2>3. CASE i \in (m + 1)..(m + c) /\ j \in 1..m
    BY <1>12, <1>13, <1>15, <1>16, <2>3
  <2>4. CASE i \in (m + 1)..(m + c) /\ j \in (m + 1)..(m + c)
    <3>1. /\ i - m \in 1..c /\ order[i - m] \in fresh /\ out[i] = used[order[i - m]]
          /\ j - m \in 1..c /\ order[j - m] \in fresh /\ out[j] = used[order[j - m]]
      BY <1>13, <2>4
    <3>2. order[i - m] = order[j - m]
      BY <1>6, <1>8, <1>16, <3>1
    <3>3. i - m = j - m
      BY <1>9, <3>1, <3>2 DEF Listing, c
    <3>4. i \in Int /\ j \in Int /\ m \in Int
      BY <1>3, <1>8, <2>4
    <3>5. QED
      BY <3>3, <3>4
  <2>5. QED
    BY <1>14, <2>1, <2>2, <2>3, <2>4
<1>17. \A v \in Range(out) : v \in VersionsOf(U)
  <2> SUFFICES ASSUME NEW i \in DOMAIN out PROVE out[i] \in VersionsOf(U)
    BY DEF Range
  <2>1. CASE i \in 1..m
    <3>1. out[i] \in VersionsOf(T)
      BY <1>2, <1>12, <1>15, <2>1
    <3>2. QED
      BY <1>5, <3>1 DEF VersionsOf
  <2>2. CASE i \in (m + 1)..(m + c)
    <3>1. order[i - m] \in 1..n /\ out[i] = used[order[i - m]]
      BY <1>8, <1>13, <2>2
    <3>2. out[i] = VersionOf(StampOf(<<x, order[i - m]>>)) /\ <<x, order[i - m]>> \in Stamps(U)
      BY <1>5, <1>6, <3>1
    <3>3. QED
      BY <3>2 DEF VersionsOf
  <2>3. QED
    BY <1>14, <2>1, <2>2
<1>18. \A v \in VersionsOf(U) : v \in Range(out)
  <2> SUFFICES ASSUME NEW s \in Stamps(U) PROVE \E i \in DOMAIN out : out[i] = VersionOf(StampOf(s))
    BY DEF Range, VersionsOf
  <2>1. ASSUME VersionOf(StampOf(s)) \in Range(seen)
        PROVE  \E i \in DOMAIN out : out[i] = VersionOf(StampOf(s))
    <3>1. PICK i \in 1..m : seen[i] = VersionOf(StampOf(s))
      BY <1>3, <2>1 DEF Range
    <3>2. i \in DOMAIN out /\ out[i] = VersionOf(StampOf(s))
      BY <1>3, <1>8, <1>12, <3>1
    <3>3. QED
      BY <3>2
  <2>2. CASE s \in Stamps(T)
    <3>1. VersionOf(StampOf(s)) \in VersionsOf(T)
      BY <2>2 DEF VersionsOf
    <3>2. QED
      BY <1>2, <2>1, <3>1
  <2>3. CASE s \in {x} \X (1..n)
    <3>1. PICK i \in 1..n : s = <<x, i>>
      BY <2>3
    <3>2. used[i] = VersionOf(StampOf(s))
      BY <1>6, <3>1
    <3>3. CASE i \in fresh
      <4>1. PICK p \in 1..c : order[p] = i
        BY <1>9, <3>3 DEF Listing, c
      <4> DEFINE q == m + p
      <4>2. q \in (m + 1)..(m + c) /\ q \in DOMAIN out /\ q - m = p
        BY <1>3, <1>8, <1>12
      <4> HIDE DEF q
      <4>3. out[q] = used[i]
        BY <1>13, <4>1, <4>2
      <4>4. QED
        BY <3>2, <4>2, <4>3
    <3>4. CASE i \notin fresh
      BY <2>1, <3>2, <3>4
    <3>5. QED
      BY <3>3, <3>4
  <2>4. QED
    BY <1>5, <2>2, <2>3
<1>19. Range(out) = VersionsOf(U)
  BY <1>17, <1>18
<1>20. OneToOne(out)
  BY <1>16 DEF OneToOne
<1>21. QED
  BY <1>12, <1>19, <1>20 DEF VersionList, out, U

-----------------------------------------------------------------------------
(***************************************************************************)
(* The cache figures of a fold: sums over the traces it has seen, the      *)
(* tokens its reads would have cost as input bucketed by the trace's own   *)
(* input price.                                                            *)
(***************************************************************************)

Has(u, type) == \E i \in DOMAIN StampedLines(u) : StampedLines(u)[i].type = type
Of(u, type) == StampedLines(u)[CHOOSE i \in DOMAIN StampedLines(u) : StampedLines(u)[i].type = type]

\* A trace whose cache reads count, and one whose reads have an input price.
Reads(u) == Has(u, "cache_read") /\ Of(u, "cache_read").tokens # 0
PricedRead(u) == Reads(u) /\ Has(u, "input")

CacheRead == [x \in Usages |-> IF Reads(UsageOf[x]) THEN Of(UsageOf[x], "cache_read").tokens ELSE 0]
CacheReadCost == [x \in Usages |-> IF Reads(UsageOf[x]) THEN Of(UsageOf[x], "cache_read").cost ELSE 0]
CacheWriteCost == [x \in Usages |-> IF Has(UsageOf[x], "cache_write") THEN Of(UsageOf[x], "cache_write").cost ELSE 0]
Unpriceable == [x \in Usages |-> IF Reads(UsageOf[x]) /\ ~Has(UsageOf[x], "input") THEN 1 ELSE 0]
InputPrice(x) == Of(UsageOf[x], "input").price
ReadAt(p) ==
  [x \in Usages |-> IF PricedRead(UsageOf[x]) /\ InputPrice(x) = p THEN Of(UsageOf[x], "cache_read").tokens ELSE 0]
InputPrices(T) == {InputPrice(x) : x \in {y \in T : PricedRead(UsageOf[y])}}

\* The cache figures of the traces in T, whatever the order they came in.
CacheOf(T) ==
  [read |-> SumFunctionOnSet(CacheRead, T), readCost |-> SumFunctionOnSet(CacheReadCost, T),
   writeCost |-> SumFunctionOnSet(CacheWriteCost, T), unpriceable |-> SumFunctionOnSet(Unpriceable, T),
   atInput |-> [p \in InputPrices(T) |-> SumFunctionOnSet(ReadAt(p), T)]]

\* The line of a token type has naturals.
LEMMA OfIs ==
  ASSUME NEW x \in Usages, NEW type, Has(UsageOf[x], type)
  PROVE  /\ Of(UsageOf[x], type).tokens \in Nat /\ Of(UsageOf[x], type).cost \in Nat
         /\ Of(UsageOf[x], type).price \in Nat
<1> DEFINE new == StampedLines(UsageOf[x])
           n == Len(UsageOf[x].costs)
           i == CHOOSE j \in DOMAIN new : new[j].type = type
<1>1. new \in [1..n -> Line]
  BY StampIs
<1>2. i \in DOMAIN new
  BY DEF Has
<1>3. new[i] \in Line /\ Of(UsageOf[x], type) = new[i]
  BY <1>1, <1>2 DEF Of
<1>4. QED
  BY <1>3 DEF Line

\* What a trace adds to the cache figures is a natural.
LEMMA CacheFunctions ==
  ASSUME NEW x \in Usages
  PROVE  /\ CacheRead[x] \in Nat /\ CacheReadCost[x] \in Nat /\ CacheWriteCost[x] \in Nat
         /\ Unpriceable[x] \in Nat /\ \A p : ReadAt(p)[x] \in Nat
<1>1. CacheRead[x] \in Nat /\ CacheReadCost[x] \in Nat
  BY OfIs DEF CacheRead, CacheReadCost, Reads
<1>2. CacheWriteCost[x] \in Nat
  BY OfIs DEF CacheWriteCost
<1>3. Unpriceable[x] \in Nat
  BY DEF Unpriceable
<1>4. ASSUME NEW p
      PROVE  ReadAt(p)[x] \in Nat
  BY OfIs DEF ReadAt, PricedRead, Reads
<1>5. QED
  BY <1>1, <1>2, <1>3, <1>4

Figures(r, c, w, k, g) == [read |-> r, readCost |-> c, writeCost |-> w, unpriceable |-> k, atInput |-> g]

BucketsWith(g, p, t) ==
  [q \in DOMAIN g \cup {p} |-> (IF q \in DOMAIN g THEN g[q] ELSE 0) + (IF q = p THEN t ELSE 0)]

WriteAdded(c, cost) == [c EXCEPT !.writeCost = @ + cost]
ReadAdded(c, read) == [c EXCEPT !.read = @ + read.tokens, !.readCost = @ + read.cost]
Missed(c) == [c EXCEPT !.unpriceable = @ + 1]
Bucketed(c, p, t) ==
  [c EXCEPT !.atInput = [q \in DOMAIN @ \cup {p} |-> (IF q \in DOMAIN @ THEN @[q] ELSE 0) + (IF q = p THEN t ELSE 0)]]

\* AddCache figure by figure.
LEMMA AddCacheIs ==
  ASSUME NEW u, NEW r \in Nat, NEW c \in Nat, NEW w \in Nat, NEW k \in Nat, NEW g
  PROVE  AddCache(Figures(r, c, w, k, g), u)
           = Figures(IF Reads(u) THEN r + Of(u, "cache_read").tokens ELSE r,
                     IF Reads(u) THEN c + Of(u, "cache_read").cost ELSE c,
                     IF Has(u, "cache_write") THEN w + Of(u, "cache_write").cost ELSE w,
                     IF Reads(u) /\ ~Has(u, "input") THEN k + 1 ELSE k,
                     IF PricedRead(u) THEN BucketsWith(g, Of(u, "input").price, Of(u, "cache_read").tokens) ELSE g)
<1> DEFINE paid == Figures(r, c, IF Has(u, "cache_write") THEN w + Of(u, "cache_write").cost ELSE w, k, g)
           read == Of(u, "cache_read")
           seen == Figures(r + read.tokens, c + read.cost,
                           IF Has(u, "cache_write") THEN w + Of(u, "cache_write").cost ELSE w, k, g)
           p == Of(u, "input").price
           f == Figures(r, c, w, k, g)
<1>1. AddCache(f, u)
        = LET paid1 == IF Has(u, "cache_write") THEN WriteAdded(f, Of(u, "cache_write").cost) ELSE f
              seen1 == ReadAdded(paid1, read)
          IN IF ~Has(u, "cache_read") \/ read.tokens = 0 THEN paid1
             ELSE IF ~Has(u, "input") THEN Missed(seen1)
             ELSE Bucketed(seen1, p, read.tokens)
  BY DEF AddCache, Has, Of, WriteAdded, ReadAdded, Missed, Bucketed
<1>2. (IF Has(u, "cache_write") THEN WriteAdded(f, Of(u, "cache_write").cost) ELSE f) = paid
  BY DEF Figures, WriteAdded
<1>3. ReadAdded(paid, read) = seen
  <2> DEFINE v == IF Has(u, "cache_write") THEN w + Of(u, "cache_write").cost ELSE w
             a == r + read.tokens
             b == c + read.cost
             y == Figures(r, c, v, k, g)
  <2>1. y = [read |-> r, readCost |-> c, writeCost |-> v, unpriceable |-> k, atInput |-> g]
    BY DEF Figures
  <2>2. ReadAdded(y, read) = [y EXCEPT !.read = @ + read.tokens, !.readCost = @ + read.cost]
    BY DEF ReadAdded
  <2> HIDE DEF v, y
  <2>3. y.read = r /\ y.readCost = c
    BY <2>1
  <2>4. ReadAdded(y, read) = [y EXCEPT !.read = a, !.readCost = b]
    BY <2>2, <2>3
  <2> HIDE DEF a, b
  <2>5. ReadAdded(y, read) = Figures(a, b, v, k, g)
    BY <2>1, <2>4 DEF Figures
  <2>6. QED
    BY <2>5 DEF a, b, v, y
<1>5. AddCache(f, u)
        = IF ~Has(u, "cache_read") \/ read.tokens = 0 THEN paid
          ELSE IF ~Has(u, "input") THEN Missed(seen)
          ELSE Bucketed(seen, p, read.tokens)
  <2> HIDE DEF f, paid, seen, read, p
  <2>1. QED
    BY <1>1, <1>2, <1>3
<1>6. CASE ~Reads(u)
  <2>1. AddCache(f, u) = paid
    BY <1>5, <1>6 DEF Reads
  <2>2. QED
    BY <1>6, <2>1 DEF PricedRead
<1>7. CASE Reads(u) /\ ~Has(u, "input")
  <2>1. AddCache(f, u) = Missed(seen)
    BY <1>5, <1>7 DEF Reads
  <2>2. QED
    BY <1>7, <2>1 DEF PricedRead, Figures, Missed
<1>8. CASE Reads(u) /\ Has(u, "input")
  <2>1. AddCache(f, u) = Bucketed(seen, p, read.tokens)
    BY <1>5, <1>8 DEF Reads
  <2>2. Bucketed(seen, p, read.tokens) = [seen EXCEPT !.atInput = BucketsWith(g, p, read.tokens)]
    BY DEF Bucketed, BucketsWith, Figures
  <2>3. QED
    BY <1>8, <2>1, <2>2 DEF PricedRead, Figures
<1>9. QED
  BY <1>6, <1>7, <1>8

\* A trace more: its cache reads are bucketed by its own input price.
LEMMA CacheWith ==
  ASSUME NEW T \in SUBSET Usages, IsFiniteSet(T), NEW x \in Usages \ T
  PROVE  AddCache(CacheOf(T), UsageOf[x]) = CacheOf(T \cup {x})
<1> DEFINE u == UsageOf[x]
           U == T \cup {x}
           p0 == InputPrice(x)
           t0 == Of(u, "cache_read").tokens
           G(S) == [p \in InputPrices(S) |-> SumFunctionOnSet(ReadAt(p), S)]
           r == SumFunctionOnSet(CacheRead, T)
           c == SumFunctionOnSet(CacheReadCost, T)
           w == SumFunctionOnSet(CacheWriteCost, T)
           k == SumFunctionOnSet(Unpriceable, T)
<1>1. /\ \A y \in U : CacheRead[y] \in Nat /\ CacheReadCost[y] \in Nat /\ CacheWriteCost[y] \in Nat
      /\ \A y \in U : Unpriceable[y] \in Nat
      /\ \A y \in U : \A p : ReadAt(p)[y] \in Nat
  BY CacheFunctions
<1>2. ASSUME NEW f, \A y \in U : f[y] \in Nat
      PROVE  /\ SumFunctionOnSet(f, U) = f[x] + SumFunctionOnSet(f, T)
             /\ SumFunctionOnSet(f, T) \in Nat /\ f[x] \in Nat
  <2>1. (\A y \in T : f[y] \in Nat) /\ (\A y \in T : f[y] \in Int) /\ f[x] \in Nat /\ f[x] \in Int /\ x \notin T
    BY <1>2
  <2>2. QED
    BY <2>1, SumWith, SumNat
<1>3. /\ SumFunctionOnSet(CacheRead, U) = (IF Reads(u) THEN r + t0 ELSE r) /\ r \in Nat
      /\ SumFunctionOnSet(CacheReadCost, U) = (IF Reads(u) THEN c + Of(u, "cache_read").cost ELSE c) /\ c \in Nat
      /\ SumFunctionOnSet(CacheWriteCost, U) = (IF Has(u, "cache_write") THEN w + Of(u, "cache_write").cost ELSE w)
      /\ w \in Nat
      /\ SumFunctionOnSet(Unpriceable, U) = (IF Reads(u) /\ ~Has(u, "input") THEN k + 1 ELSE k) /\ k \in Nat
  <2>1. /\ SumFunctionOnSet(CacheRead, U) = CacheRead[x] + r /\ r \in Nat /\ CacheRead[x] \in Nat
        /\ SumFunctionOnSet(CacheReadCost, U) = CacheReadCost[x] + c /\ c \in Nat /\ CacheReadCost[x] \in Nat
    BY <1>1, <1>2
  <2>2. /\ SumFunctionOnSet(CacheWriteCost, U) = CacheWriteCost[x] + w /\ w \in Nat /\ CacheWriteCost[x] \in Nat
        /\ SumFunctionOnSet(Unpriceable, U) = Unpriceable[x] + k /\ k \in Nat /\ Unpriceable[x] \in Nat
    BY <1>1, <1>2
  <2>3. /\ CacheRead[x] = (IF Reads(u) THEN t0 ELSE 0)
        /\ CacheReadCost[x] = (IF Reads(u) THEN Of(u, "cache_read").cost ELSE 0)
        /\ CacheWriteCost[x] = (IF Has(u, "cache_write") THEN Of(u, "cache_write").cost ELSE 0)
        /\ Unpriceable[x] = (IF Reads(u) /\ ~Has(u, "input") THEN 1 ELSE 0)
    BY DEF CacheRead, CacheReadCost, CacheWriteCost, Unpriceable
  <2> HIDE DEF r, c, w, k, U, u
  <2>4. QED
    BY <2>1, <2>2, <2>3
<1>4. ASSUME NEW p
      PROVE  SumFunctionOnSet(ReadAt(p), U)
               = SumFunctionOnSet(ReadAt(p), T) + (IF PricedRead(u) /\ p0 = p THEN t0 ELSE 0)
  <2>1. \A y \in U : ReadAt(p)[y] \in Nat
    BY <1>1
  <2>2. /\ SumFunctionOnSet(ReadAt(p), U) = ReadAt(p)[x] + SumFunctionOnSet(ReadAt(p), T)
        /\ SumFunctionOnSet(ReadAt(p), T) \in Nat /\ ReadAt(p)[x] \in Nat
    BY <1>2, <2>1
  <2>3. ReadAt(p)[x] = IF PricedRead(u) /\ p0 = p THEN t0 ELSE 0
    BY DEF ReadAt
  <2> HIDE DEF U, u, p0, t0
  <2>4. QED
    BY <2>2, <2>3
<1>5. ASSUME NEW p, p \notin InputPrices(T)
      PROVE  SumFunctionOnSet(ReadAt(p), T) = 0
  <2>1. \A y \in T : ReadAt(p)[y] = 0
    BY <1>5 DEF ReadAt, InputPrices
  <2>2. QED
    BY <2>1, SumZeros
<1>6. ASSUME NEW p, p \in InputPrices(T)
      PROVE  SumFunctionOnSet(ReadAt(p), T) \in Nat
  <2>1. \A y \in T : ReadAt(p)[y] \in Nat
    BY <1>1
  <2>2. QED
    BY <2>1, SumNat
<1>7. InputPrices(U) = InputPrices(T) \cup (IF PricedRead(u) THEN {p0} ELSE {})
  BY DEF InputPrices
<1>8. G(U) = IF PricedRead(u) THEN BucketsWith(G(T), p0, t0) ELSE G(T)
  <2>1. CASE PricedRead(u)
    <3>1. InputPrices(U) = InputPrices(T) \cup {p0} /\ DOMAIN G(T) = InputPrices(T)
      BY <1>7, <2>1
    <3>2. t0 \in Nat
      BY <2>1, OfIs DEF PricedRead, Reads
    <3> HIDE DEF u, U, p0, t0
    <3>3. ASSUME NEW q \in InputPrices(T) \cup {p0}
          PROVE  SumFunctionOnSet(ReadAt(q), U)
                   = (IF q \in InputPrices(T) THEN G(T)[q] ELSE 0) + (IF q = p0 THEN t0 ELSE 0)
      <4>1. CASE q \in InputPrices(T)
        <5>1. G(T)[q] = SumFunctionOnSet(ReadAt(q), T)
          BY <4>1
        <5> HIDE DEF G
        <5>2. QED
          BY <1>4, <2>1, <4>1, <5>1
      <4>2. CASE q \notin InputPrices(T)
        BY <1>4, <1>5, <2>1, <4>2
      <4>3. QED
        BY <4>1, <4>2
    <3>4. G(U) = [q \in InputPrices(T) \cup {p0} |-> SumFunctionOnSet(ReadAt(q), U)]
      BY <3>1
    <3>5. BucketsWith(G(T), p0, t0) = [q \in InputPrices(T) \cup {p0} |->
                                         (IF q \in InputPrices(T) THEN G(T)[q] ELSE 0) + (IF q = p0 THEN t0 ELSE 0)]
      BY <3>1 DEF BucketsWith
    <3> HIDE DEF G
    <3>6. QED
      BY <2>1, <3>3, <3>4, <3>5
  <2>2. CASE ~PricedRead(u)
    <3>1. InputPrices(U) = InputPrices(T)
      BY <1>7, <2>2
    <3> HIDE DEF u, U, p0, t0
    <3>2. \A q \in InputPrices(T) : SumFunctionOnSet(ReadAt(q), U) = SumFunctionOnSet(ReadAt(q), T)
      BY <1>4, <1>6, <2>2
    <3>3. QED
      BY <2>2, <3>1, <3>2
  <2>3. QED
    BY <2>1, <2>2
<1>9. CacheOf(T) = Figures(r, c, w, k, G(T))
  BY DEF CacheOf, Figures
<1>10. CacheOf(U) = Figures(SumFunctionOnSet(CacheRead, U), SumFunctionOnSet(CacheReadCost, U),
                            SumFunctionOnSet(CacheWriteCost, U), SumFunctionOnSet(Unpriceable, U), G(U))
  BY DEF CacheOf, Figures
<1> DEFINE g == G(T)
<1>11. p0 = Of(u, "input").price
  BY DEF InputPrice
<1> HIDE DEF r, c, w, k, U, u, p0, t0, G, g
<1>12. AddCache(Figures(r, c, w, k, g), u)
         = Figures(IF Reads(u) THEN r + Of(u, "cache_read").tokens ELSE r,
                   IF Reads(u) THEN c + Of(u, "cache_read").cost ELSE c,
                   IF Has(u, "cache_write") THEN w + Of(u, "cache_write").cost ELSE w,
                   IF Reads(u) /\ ~Has(u, "input") THEN k + 1 ELSE k,
                   IF PricedRead(u) THEN BucketsWith(g, Of(u, "input").price, Of(u, "cache_read").tokens) ELSE g)
  BY <1>3, AddCacheIs
<1>13. AddCache(CacheOf(T), u) = CacheOf(U)
  BY <1>3, <1>8, <1>9, <1>10, <1>11, <1>12 DEF g, t0
<1>14. QED
  BY <1>13 DEF u, U

-----------------------------------------------------------------------------
(***************************************************************************)
(* The inductive invariant: what a fold has accumulated is a function of   *)
(* the set of traces it has seen.                                          *)
(***************************************************************************)

Folded(acc) ==
  /\ acc.fed \in SUBSET Usages /\ IsFiniteSet(acc.fed) /\ IsFiniteSet(Stamps(acc.fed))
  /\ LedgerIs(acc.lines, acc.fed) /\ \A i \in DOMAIN acc.lines : acc.lines[i].cents = 0
  /\ acc.cache = CacheOf(acc.fed)
  /\ VersionList(acc.versions, acc.fed)

FoldInv == DOMAIN fold = Folds /\ \A f \in Folds : Folded(fold[f])

\* A fold of nothing satisfies the invariant.
LEMMA NothingFolded == Folded(Nothing)
<1>1. /\ Nothing.fed = {} /\ Nothing.lines = <<>> /\ Nothing.versions = <<>> /\ Nothing.cache = NoCache
  BY DEF Nothing
<1>2. Stamps({}) = {}
  BY DEF Stamps
<1>3. IsFiniteSet({})
  BY FS_EmptySet
<1>4. LedgerIs(<<>>, {})
  <2>1. <<>> \in Seq(Line) /\ DOMAIN <<>> = {}
    OBVIOUS
  <2>2. QED
    BY <1>2, <2>1 DEF LedgerIs
<1>5. VersionList(<<>>, {})
  <2>1. <<>> \in Seq(Version) /\ DOMAIN <<>> = {}
    OBVIOUS
  <2>2. QED
    BY <1>2, <2>1 DEF VersionList, OneToOne, Range, VersionsOf
<1>6. CacheOf({}) = NoCache
  <2>1. InputPrices({}) = {}
    BY DEF InputPrices
  <2>2. \A f : SumFunctionOnSet(f, {}) = 0
    BY SumNone
  <2>3. [p \in InputPrices({}) |-> SumFunctionOnSet(ReadAt(p), {})] = [p \in {} |-> 0]
    BY <2>1
  <2>4. QED
    BY <2>2, <2>3 DEF CacheOf, NoCache
<1>7. \A i \in DOMAIN <<>> : <<>>[i].cents = 0
  OBVIOUS
<1>8. QED
  BY <1>1, <1>2, <1>3, <1>4, <1>5, <1>6, <1>7 DEF Folded

\* A fold step preserves the invariant.
LEMMA FoldedWith ==
  ASSUME NEW acc, Folded(acc), NEW x \in Usages \ acc.fed,
         NEW next, next = [lines |-> AddRecordLines(acc.lines, UsageOf[x]),
                           cache |-> AddCache(acc.cache, UsageOf[x]),
                           versions |-> AddRecordPriceVersions(acc.versions, UsageOf[x]),
                           fed |-> acc.fed \cup {x}]
  PROVE  Folded(next)
<1> DEFINE T == acc.fed
           U == T \cup {x}
           lines == acc.lines
           versions == acc.versions
           n == Len(UsageOf[x].costs)
<1>1. /\ T \in SUBSET Usages /\ IsFiniteSet(T) /\ IsFiniteSet(Stamps(T))
      /\ LedgerIs(lines, T) /\ \A i \in DOMAIN lines : lines[i].cents = 0
  BY DEF Folded
<1>2. acc.cache = CacheOf(T) /\ VersionList(versions, T) /\ x \in Usages \ T
  BY DEF Folded
<1> HIDE DEF T, lines, versions
<1>3. U \in SUBSET Usages /\ IsFiniteSet(U)
  BY <1>1, <1>2, FS_AddElement
<1>4. IsFiniteSet(Stamps(U))
  <2>1. Stamps(U) = Stamps(T) \cup ({x} \X (1..n)) /\ n \in Nat
    <3>1. n = Len(UsageOf[x].costs) /\ x \in Usages \ T /\ x \in Usages /\ T \in SUBSET Usages
      BY <1>1, <1>2
    <3> DEFINE new == StampedLines(UsageOf[x])
    <3>2. new = StampedLines(UsageOf[x])
      OBVIOUS
    <3> HIDE DEF n, new
    <3>3. Stamps(T \cup {x}) = Stamps(T) \cup ({x} \X (1..n))
      BY <3>1, StampsWith
    <3>4. n \in Nat
      BY <3>1, <3>2, StampIs
    <3>5. QED
      BY <3>3, <3>4
  <2> HIDE DEF n, U
  <2>2. IsFiniteSet({x}) /\ IsFiniteSet(1..n)
    BY <2>1, UpToN, FS_Singleton
  <2> DEFINE A == {x}
             B == 1..n
  <2> HIDE DEF A, B
  <2>3. IsFiniteSet(A \X B)
    BY <2>2, FS_Product DEF A, B
  <2> DEFINE P == Stamps(T)
             Q == A \X B
  <2>4. Stamps(U) = P \cup Q
    BY <2>1 DEF A, B
  <2>5. IsFiniteSet(P) /\ IsFiniteSet(Q)
    BY <1>1, <2>3
  <2> HIDE DEF P, Q
  <2>6. IsFiniteSet(P \cup Q)
    BY <2>5, FS_Union
  <2>7. QED
    BY <2>4, <2>6, Zenon
<1>5. LedgerIs(AddRecordLines(lines, UsageOf[x]), U)
      /\ \A i \in DOMAIN AddRecordLines(lines, UsageOf[x]) : AddRecordLines(lines, UsageOf[x])[i].cents = 0
  BY <1>1, <1>2, LedgerWith
<1>6. VersionList(AddRecordPriceVersions(versions, UsageOf[x]), U)
  BY <1>1, <1>2, VersionsWith
<1>7. AddCache(acc.cache, UsageOf[x]) = CacheOf(U)
  BY <1>1, <1>2, CacheWith
<1>8. /\ next.fed = U /\ next.cache = CacheOf(U)
      /\ next.lines = AddRecordLines(lines, UsageOf[x]) /\ next.versions = AddRecordPriceVersions(versions, UsageOf[x])
  BY <1>7 DEF T, U, lines, versions
<1> HIDE DEF U
<1>9. QED
  BY <1>3, <1>4, <1>5, <1>6, <1>8 DEF Folded

\* However a statement was folded, what it has accumulated is a function of
\* the traces it has seen.
THEOREM FoldIsOfTraces == FoldSpec => []FoldInv
<1>1. FoldInit => FoldInv
  BY NothingFolded DEF FoldInit, FoldInv
<1>2. FoldInv /\ [FoldNext]_fold => FoldInv'
  <2> SUFFICES ASSUME FoldInv, [FoldNext]_fold PROVE FoldInv'
    OBVIOUS
  <2>1. CASE UNCHANGED fold
    BY <2>1 DEF FoldInv
  <2>2. ASSUME NEW f \in Folds, NEW x \in Usages, AddUsage(f, x)
        PROVE  FoldInv'
    <3> DEFINE acc == fold[f]
               next == [lines |-> AddRecordLines(acc.lines, UsageOf[x]),
                        cache |-> AddCache(acc.cache, UsageOf[x]),
                        versions |-> AddRecordPriceVersions(acc.versions, UsageOf[x]),
                        fed |-> acc.fed \cup {x}]
    <3>1. x \in Usages \ acc.fed /\ fold' = [fold EXCEPT ![f] = next]
      BY <2>2 DEF AddUsage
    <3>2. Folded(acc)
      BY DEF FoldInv
    <3>3. Folded(next)
      <4> HIDE DEF acc
      <4>1. QED
        BY <3>1, <3>2, FoldedWith
    <3> HIDE DEF next, acc
    <3>4. DOMAIN fold' = Folds /\ \A g \in Folds : fold'[g] = IF g = f THEN next ELSE fold[g]
      BY <3>1 DEF FoldInv
    <3>5. QED
      BY <3>3, <3>4 DEF FoldInv
  <2>3. QED
    BY <2>1, <2>2 DEF FoldNext
<1>3. QED
  BY <1>1, <1>2, PTL DEF FoldSpec

-----------------------------------------------------------------------------
(***************************************************************************)
(* Two folds of the same traces finish to the same statement: their lists  *)
(* hold the same elements, and the comparators tell all of them apart.     *)
(***************************************************************************)

\* The fields of a line.
LEMMA LineFields ==
  ASSUME NEW l \in Line
  PROVE  /\ l.agent \in Nat /\ l.version \in Nat /\ l.model \in Nat /\ l.type \in Range(TokenTypes)
         /\ l.price \in Nat /\ l.from \in Nat /\ l.tokens \in Nat /\ l.cost \in Nat /\ l.cents \in Nat
<1> DEFINE R == Range(TokenTypes)
<1>1. Line = [agent : Nat, version : Nat, model : Nat, type : R, price : Nat,
              from : Nat, tokens : Nat, cost : Nat, cents : Nat]
  BY DEF Line
<1> HIDE DEF R
<1>2. QED
  BY <1>1 DEF R

\* A line is its key and its sums.
LEMMA LineEqual ==
  ASSUME NEW l \in Line, NEW m \in Line, LineKey(l) = LineKey(m),
         l.tokens = m.tokens, l.cost = m.cost, l.cents = m.cents
  PROVE  l = m
<1> DEFINE R == Range(TokenTypes)
<1>1. Line = [agent : Nat, version : Nat, model : Nat, type : R, price : Nat,
              from : Nat, tokens : Nat, cost : Nat, cents : Nat]
  BY DEF Line
<1>2. /\ l.agent = m.agent /\ l.version = m.version /\ l.model = m.model /\ l.type = m.type
      /\ l.price = m.price /\ l.from = m.from
  BY DEF LineKey
<1> HIDE DEF R
<1>3. QED
  BY <1>1, <1>2

\* The rank of a token type names it.
LEMMA TypeRankIs ==
  ASSUME NEW t \in Range(TokenTypes)
  PROVE  TypeRank(t) \in 1..4 /\ TokenTypes[TypeRank(t)] = t
<1>1. DOMAIN TokenTypes = 1..4
  BY DEF TokenTypes
<1>2. \E i \in DOMAIN TokenTypes : TokenTypes[i] = t
  BY DEF Range
<1>3. TypeRank(t) \in DOMAIN TokenTypes /\ TokenTypes[TypeRank(t)] = t
  BY <1>2 DEF TypeRank
<1>4. QED
  BY <1>1, <1>3

\* compareLines has six integer terms.
LEMMA CompareTerms ==
  ASSUME NEW l \in Line
  PROVE  CompareLines(l) \in [1..6 -> Int]
<1>1. /\ l.agent \in Int /\ l.version \in Int /\ l.model \in Int /\ l.price \in Int /\ l.from \in Int
      /\ TypeRank(l.type) \in Int
  BY LineFields, TypeRankIs
<1>2. QED
  BY <1>1 DEF CompareLines

\* compareLines tells any two keys apart.
LEMMA CompareTotal ==
  ASSUME NEW l \in Line, NEW m \in Line, CompareLines(l) = CompareLines(m)
  PROVE  LineKey(l) = LineKey(m)
<1>1. /\ l.agent = m.agent /\ l.version = m.version /\ l.model = m.model
      /\ TypeRank(l.type) = TypeRank(m.type) /\ l.from = m.from /\ l.price = m.price
  BY DEF CompareLines
<1>2. l.type = m.type
  BY <1>1, LineFields, TypeRankIs
<1>3. QED
  BY <1>1, <1>2 DEF LineKey

\* The fields of a price version.
LEMMA VersionFields ==
  ASSUME NEW v \in Version
  PROVE  v.model \in Nat /\ v.type \in Range(TokenTypes) /\ v.price \in Nat /\ v.from \in Nat
<1> DEFINE R == Range(TokenTypes)
<1>1. Version = [model : Nat, type : R, price : Nat, from : Nat]
  BY DEF Version
<1> HIDE DEF R
<1>2. QED
  BY <1>1 DEF R

\* The comparator of price versions tells any two apart.
LEMMA VersionTotal ==
  ASSUME NEW v \in Version, NEW w \in Version, VersionTerms(v) = VersionTerms(w)
  PROVE  v = w
<1> DEFINE R == Range(TokenTypes)
<1>1. Version = [model : Nat, type : R, price : Nat, from : Nat]
  BY DEF Version
<1>2. /\ v.model = w.model /\ TypeRank(v.type) = TypeRank(w.type) /\ v.from = w.from /\ v.price = w.price
  BY DEF VersionTerms
<1>3. v.type = w.type
  BY <1>2, VersionFields, TypeRankIs
<1> HIDE DEF R
<1>4. QED
  BY <1>1, <1>2, <1>3

\* It has four integer terms.
LEMMA VersionTermsAre ==
  ASSUME NEW v \in Version
  PROVE  VersionTerms(v) \in [1..4 -> Int]
<1>1. v.model \in Int /\ TypeRank(v.type) \in Int /\ v.from \in Int /\ v.price \in Int
  BY VersionFields, TypeRankIs
<1>2. QED
  BY <1>1 DEF VersionTerms

NoCents(s) == \A i \in DOMAIN s : s[i].cents = 0

\* Two ledgers of the same traces hold the same lines.
LEMMA SameLines ==
  ASSUME NEW T, NEW s, NEW t, LedgerIs(s, T), LedgerIs(t, T), NoCents(s), NoCents(t)
  PROVE  \A l \in Range(s) : l \in Range(t)
<1> SUFFICES ASSUME NEW i \in DOMAIN s PROVE \E j \in DOMAIN t : t[j] = s[i]
  BY DEF Range
<1>1. s[i] \in Line /\ LineSums(s[i], T)
  BY ElementOfSeq, LenProperties DEF LedgerIs
<1>2. PICK x \in Keyed(T, LineKey(s[i])) : TRUE
  BY <1>1 DEF LineSums
<1>3. x \in Stamps(T) /\ KeyOf(x) = LineKey(s[i])
  BY DEF Keyed
<1>4. PICK j \in DOMAIN t : LineKey(t[j]) = LineKey(s[i])
  BY <1>3 DEF LedgerIs
<1>5. t[j] \in Line /\ LineSums(t[j], T)
  BY ElementOfSeq, LenProperties DEF LedgerIs
<1>6. t[j].tokens = s[i].tokens /\ t[j].cost = s[i].cost /\ t[j].cents = s[i].cents
  BY <1>1, <1>4, <1>5 DEF LineSums, NoCents
<1>7. t[j] = s[i]
  BY <1>1, <1>4, <1>5, <1>6, LineEqual
<1>8. QED
  BY <1>7

\* compareLines tells the lines of a ledger apart.
LEMMA LedgerApart ==
  ASSUME NEW T, NEW s, LedgerIs(s, T)
  PROVE  /\ s \in Seq(Line) /\ OneToOne(s)
         /\ TellsApart([l \in Range(s) |-> CompareLines(l)], Range(s), 6)
<1>1. s \in Seq(Line) /\ \A i, j \in DOMAIN s : LineKey(s[i]) = LineKey(s[j]) => i = j
  BY DEF LedgerIs
<1>2. \A i \in DOMAIN s : s[i] \in Line
  BY <1>1, ElementOfSeq, LenProperties
<1> DEFINE R == Range(s)
           C == [l \in R |-> CompareLines(l)]
<1>3. R \subseteq Line
  BY <1>2 DEF Range
<1>4. \A a, b \in R : LineKey(a) = LineKey(b) => a = b
  BY <1>1 DEF Range
<1> HIDE DEF R
<1>5. C \in [R -> [1..6 -> Int]]
  BY <1>3, CompareTerms
<1>6. \A a, b \in R : C[a] = C[b] => a = b
  <2> SUFFICES ASSUME NEW a \in R, NEW b \in R, C[a] = C[b] PROVE a = b
    OBVIOUS
  <2>1. CompareLines(a) = CompareLines(b) /\ a \in Line /\ b \in Line
    BY <1>3
  <2>2. QED
    BY <1>4, <2>1, CompareTotal
<1>7. TellsApart(C, R, 6)
  BY <1>5, <1>6 DEF TellsApart
<1>8. QED
  BY <1>1, <1>7 DEF OneToOne, R

\* So does the comparator of price versions with a list of them.
LEMMA VersionsApart ==
  ASSUME NEW T, NEW s, VersionList(s, T)
  PROVE  TellsApart([v \in Range(s) |-> VersionTerms(v)], Range(s), 4)
<1>1. \A i \in DOMAIN s : s[i] \in Version
  BY ElementOfSeq, LenProperties DEF VersionList
<1> DEFINE R == Range(s)
           C == [v \in R |-> VersionTerms(v)]
<1>3. R \subseteq Version
  BY <1>1 DEF Range
<1> HIDE DEF R
<1>5. C \in [R -> [1..4 -> Int]]
  BY <1>3, VersionTermsAre
<1>6. \A a, b \in R : C[a] = C[b] => a = b
  <2> SUFFICES ASSUME NEW a \in R, NEW b \in R, C[a] = C[b] PROVE a = b
    OBVIOUS
  <2>1. VersionTerms(a) = VersionTerms(b) /\ a \in Version /\ b \in Version
    BY <1>3
  <2>2. QED
    BY <2>1, VersionTotal
<1>7. TellsApart(C, R, 4)
  BY <1>5, <1>6 DEF TellsApart
<1>8. QED
  BY <1>7 DEF R

LinesSorted(s) == SortedBy(s, [i \in DOMAIN s |-> CompareLines(s[i])])
VersionsSorted(s) == SortedBy(s, [i \in DOMAIN s |-> VersionTerms(s[i])])

\* Two ledgers of the same traces sort to the same lines.
LEMMA SameLinesSorted ==
  ASSUME NEW T, NEW s, NEW t, LedgerIs(s, T), LedgerIs(t, T), NoCents(s), NoCents(t)
  PROVE  LinesSorted(s) = LinesSorted(t)
<1> DEFINE R == Range(s)
           C == [l \in R |-> CompareLines(l)]
<1>1. R = Range(t)
  <2>1. \A l \in Range(s) : l \in Range(t)
    BY SameLines
  <2>2. \A l \in Range(t) : l \in Range(s)
    BY SameLines
  <2>3. QED
    BY <2>1, <2>2
<1>2. s \in Seq(Line) /\ t \in Seq(Line) /\ OneToOne(s) /\ OneToOne(t) /\ TellsApart(C, R, 6)
  BY LedgerApart
<1>3. \A i \in DOMAIN s : s[i] \in R
  BY DEF Range
<1>4. \A i \in DOMAIN t : t[i] \in R
  BY <1>1 DEF Range
<1>5. R = Range(s)
  OBVIOUS
<1> HIDE DEF R
<1>6. [i \in DOMAIN s |-> CompareLines(s[i])] = [i \in DOMAIN s |-> C[s[i]]]
  BY <1>3
<1>7. [i \in DOMAIN t |-> CompareLines(t[i])] = [i \in DOMAIN t |-> C[t[i]]]
  BY <1>4
<1>8. LinesSorted(s) = ByTerms(s, C) /\ LinesSorted(t) = ByTerms(t, C)
  BY <1>6, <1>7 DEF LinesSorted, ByTerms
<1> DEFINE w == 6
<1>11. w \in Nat /\ Range(s) = Range(t) /\ TellsApart(C, Range(s), w)
  BY <1>1, <1>2, <1>5
<1> HIDE DEF C, w
<1>9. ByTerms(s, C) = ByTerms(t, C)
  BY <1>2, <1>11, SameSorted
<1>10. QED
  BY <1>8, <1>9

\* Two version lists of the same traces sort to the same list.
LEMMA SameVersionsSorted ==
  ASSUME NEW T, NEW s, NEW t, VersionList(s, T), VersionList(t, T)
  PROVE  VersionsSorted(s) = VersionsSorted(t)
<1> DEFINE R == Range(s)
           C == [v \in R |-> VersionTerms(v)]
<1>1. R = Range(t)
  BY DEF VersionList
<1>2. s \in Seq(Version) /\ t \in Seq(Version) /\ OneToOne(s) /\ OneToOne(t) /\ TellsApart(C, R, 4)
  BY VersionsApart DEF VersionList
<1>3. \A i \in DOMAIN s : s[i] \in R
  BY DEF Range
<1>4. \A i \in DOMAIN t : t[i] \in R
  BY <1>1 DEF Range
<1>5. R = Range(s)
  OBVIOUS
<1> HIDE DEF R
<1>6. [i \in DOMAIN s |-> VersionTerms(s[i])] = [i \in DOMAIN s |-> C[s[i]]]
  BY <1>3
<1>7. [i \in DOMAIN t |-> VersionTerms(t[i])] = [i \in DOMAIN t |-> C[t[i]]]
  BY <1>4
<1>8. VersionsSorted(s) = ByTerms(s, C) /\ VersionsSorted(t) = ByTerms(t, C)
  BY <1>6, <1>7 DEF VersionsSorted, ByTerms
<1> DEFINE w == 4
<1>11. w \in Nat /\ Range(s) = Range(t) /\ TellsApart(C, Range(s), w)
  BY <1>1, <1>2, <1>5
<1> HIDE DEF C, w
<1>9. ByTerms(s, C) = ByTerms(t, C)
  BY <1>2, <1>11, SameSorted
<1>10. QED
  BY <1>8, <1>9

\* Folds that have seen the same traces finish to the same statement.
THEOREM SameStatement ==
  ASSUME NEW a, Folded(a), NEW b, Folded(b), a.fed = b.fed
  PROVE  FinishStatement(a) = FinishStatement(b)
<1>1. LinesSorted(a.lines) = LinesSorted(b.lines)
  <2> DEFINE s == a.lines
             t == b.lines
             T == a.fed
  <2>1. LedgerIs(s, T) /\ NoCents(s) /\ LedgerIs(t, T) /\ NoCents(t)
    BY DEF Folded, NoCents
  <2> HIDE DEF s, t, T
  <2>2. LinesSorted(s) = LinesSorted(t)
    BY <2>1, SameLinesSorted
  <2>3. QED
    BY <2>2 DEF s, t
<1>2. VersionsSorted(a.versions) = VersionsSorted(b.versions)
  BY SameVersionsSorted DEF Folded
<1>3. DisplayLines(a.lines) = DisplayLines(b.lines)
  BY <1>1 DEF DisplayLines, LinesSorted
<1>4. a.cache = b.cache
  BY DEF Folded
<1>5. \A x : FinishStatement(x)
               = LET lines == DisplayLines(x.lines)
                     agents == BuildAgentGroups(lines)
                     total == Total(CostOf(lines))
                 IN [total |-> total, totalCents |-> HalfUp(total, PerCent),
                     count |-> Cardinality(x.fed), tokens |-> Total(TokensOf(lines)),
                     lines |-> lines, agents |-> agents,
                     mix |-> BuildModelShares(lines), mixByAgent |-> BuildModelMixByAgent(lines, agents),
                     cache |-> FinishCache(x.cache), versions |-> VersionsSorted(x.versions)]
  BY DEF FinishStatement, VersionsSorted
<1>6. QED
  BY <1>2, <1>3, <1>4, <1>5

-----------------------------------------------------------------------------
(***************************************************************************)
(* The lines of a statement, and the cents they show.                      *)
(***************************************************************************)

\* A list in another order is the same ledger.
LEMMA LedgerListed ==
  ASSUME NEW T, NEW s, LedgerIs(s, T), NEW order, Listing(order, DOMAIN s),
         NEW t, ReadOff(t, s, order, Len(s), Line)
  PROVE  LedgerIs(t, T)
<1> DEFINE n == Len(s)
<1>1. n \in Nat /\ DOMAIN s = 1..n /\ Cardinality(DOMAIN s) = n
  <2>1. s \in Seq(Line)
    BY DEF LedgerIs
  <2>2. n \in Nat /\ DOMAIN s = 1..n
    BY <2>1, LenProperties
  <2> HIDE DEF n
  <2>3. Cardinality(1..n) = n
    BY <2>2, UpToN
  <2>4. QED
    BY <2>2, <2>3
<1>2. /\ order \in [1..n -> 1..n]
      /\ \A p, q \in 1..n : order[p] = order[q] => p = q
      /\ \A i \in 1..n : \E p \in 1..n : order[p] = i
  BY <1>1 DEF Listing
<1>3. t \in Seq(Line) /\ DOMAIN t = 1..n /\ \A p \in 1..n : t[p] = s[order[p]]
  BY <1>1 DEF ReadOff
<1> HIDE DEF n
<1>4. \A p, q \in DOMAIN t : LineKey(t[p]) = LineKey(t[q]) => p = q
  BY <1>1, <1>2, <1>3 DEF LedgerIs
<1>5. ASSUME NEW x \in Stamps(T)
      PROVE  \E p \in DOMAIN t : LineKey(t[p]) = KeyOf(x)
  <2>1. PICK i \in 1..n : LineKey(s[i]) = KeyOf(x)
    BY <1>1 DEF LedgerIs
  <2>2. PICK p \in 1..n : order[p] = i
    BY <1>2
  <2>3. QED
    BY <1>3, <2>1, <2>2
<1>6. \A p \in DOMAIN t : LineSums(t[p], T)
  BY <1>1, <1>2, <1>3 DEF LedgerIs
<1>7. QED
  BY <1>3, <1>4, <1>5, <1>6 DEF LedgerIs

\* Lines that differ in the cents they show are the same ledger.
LEMMA LedgerShown ==
  ASSUME NEW T, NEW s, LedgerIs(s, T), NEW t, t \in Seq(Line), DOMAIN t = DOMAIN s,
         \A i \in DOMAIN s : /\ LineKey(t[i]) = LineKey(s[i])
                             /\ t[i].tokens = s[i].tokens /\ t[i].cost = s[i].cost
  PROVE  LedgerIs(t, T)
<1>1. \A i \in DOMAIN t : LineSums(t[i], T)
  BY DEF LedgerIs, LineSums
<1>2. QED
  BY <1>1 DEF LedgerIs

WithCents(l, c) == [l EXCEPT !.cents = c]

\* A line with other cents keeps its key and its sums.
LEMMA CentsWith ==
  ASSUME NEW l \in Line, NEW c \in Nat
  PROVE  /\ WithCents(l, c) \in Line /\ LineKey(WithCents(l, c)) = LineKey(l)
         /\ WithCents(l, c).tokens = l.tokens /\ WithCents(l, c).cost = l.cost
         /\ WithCents(l, c).cents = c
<1> DEFINE R == Range(TokenTypes)
           m == WithCents(l, c)
<1>1. Line = [agent : Nat, version : Nat, model : Nat, type : R, price : Nat,
              from : Nat, tokens : Nat, cost : Nat, cents : Nat]
  BY DEF Line
<1> HIDE DEF R
<1>2. m \in Line
  BY <1>1 DEF WithCents
<1>3. /\ m.agent = l.agent /\ m.version = l.version /\ m.model = l.model /\ m.type = l.type
      /\ m.price = l.price /\ m.from = l.from /\ m.cents = c
      /\ m.tokens = l.tokens /\ m.cost = l.cost
  BY <1>1 DEF WithCents
<1>4. LineKey(m) = LineKey(l)
  BY <1>3 DEF LineKey
<1>5. QED
  BY <1>2, <1>3, <1>4

\* What a list of lines has, column by column.
LEMMA LineColumns ==
  ASSUME NEW s \in Seq(Line)
  PROVE  /\ Len(s) \in Nat /\ DOMAIN s = 1..Len(s) /\ IsFiniteSet(DOMAIN s)
         /\ \A i \in DOMAIN s : s[i] \in Line
         /\ CostOf(s) \in [1..Len(s) -> Nat] /\ TokensOf(s) \in [1..Len(s) -> Nat]
         /\ CentsOf(s) \in [1..Len(s) -> Nat]
         /\ \A i \in DOMAIN s : /\ CostOf(s)[i] = s[i].cost /\ TokensOf(s)[i] = s[i].tokens
                                /\ CentsOf(s)[i] = s[i].cents
<1>1. Len(s) \in Nat /\ DOMAIN s = 1..Len(s) /\ \A i \in DOMAIN s : s[i] \in Line
  BY LenProperties, ElementOfSeq
<1>2. IsFiniteSet(DOMAIN s)
  BY <1>1, UpToN
<1>3. \A i \in DOMAIN s : s[i].cost \in Nat /\ s[i].tokens \in Nat /\ s[i].cents \in Nat
  BY <1>1, LineFields
<1>4. QED
  BY <1>1, <1>2, <1>3 DEF CostOf, TokensOf, CentsOf

\* The lines of a statement: the ledger, and cents that close.
Shown(lines, T) ==
  /\ LedgerIs(lines, T)
  /\ Total(CentsOf(lines)) = HalfUp(Total(CostOf(lines)), PerCent)

\* The displayed lines are the ledger, with cents that close.
LEMMA DisplayIs ==
  ASSUME NEW T, NEW lines, LedgerIs(lines, T)
  PROVE  Shown(DisplayLines(lines), T)
<1> DEFINE sorted == LinesSorted(lines)
           cents == ReconcileDisplayCents(CostOf(sorted))
           n == Len(lines)
           shown == [i \in 1..n |-> WithCents(sorted[i], cents[i])]
           D == DisplayLines(lines)
<1>1. lines \in Seq(Line) /\ n \in Nat /\ DOMAIN lines = 1..n
  BY LenProperties DEF LedgerIs
<1>2. LedgerIs(sorted, T) /\ Len(sorted) = n
  <2> DEFINE terms == [i \in DOMAIN lines |-> CompareLines(lines[i])]
             order == Arranged(DOMAIN lines, terms)
             w == 6
  <2>1. \A i \in DOMAIN lines : lines[i] \in Line
    BY <1>1, LineColumns
  <2>2. terms \in [DOMAIN lines -> [1..w -> Int]] /\ w \in Nat
    BY <2>1, CompareTerms
  <2>3. sorted = SortedBy(lines, terms)
    BY DEF LinesSorted
  <2> HIDE DEF w, terms
  <2>4. Listing(order, DOMAIN lines) /\ ReadOff(SortedBy(lines, terms), lines, order, n, Line)
    BY <1>1, <2>2, SortedIs
  <2> HIDE DEF order, sorted
  <2>5. LedgerIs(sorted, T)
    BY <2>3, <2>4, LedgerListed
  <2>6. QED
    BY <2>3, <2>4, <2>5 DEF ReadOff
<1> HIDE DEF sorted
<1>3. /\ DOMAIN sorted = 1..n /\ \A i \in 1..n : sorted[i] \in Line
      /\ CostOf(sorted) \in [1..n -> Nat] /\ \A i \in 1..n : CostOf(sorted)[i] = sorted[i].cost
  BY <1>2, LineColumns DEF LedgerIs
<1>4. cents \in [1..n -> Nat] /\ SumFunctionOnSet(cents, 1..n) = HalfUp(SumFunctionOnSet(CostOf(sorted), 1..n), PerCent)
  BY <1>1, <1>3, ReconcileCloses
<1>5. D = AsTuple(shown)
  <2>1. D = AsTuple([i \in DOMAIN sorted |-> [sorted[i] EXCEPT !.cents = cents[i]]])
    BY DEF DisplayLines, sorted, LinesSorted
  <2>2. QED
    BY <1>3, <2>1 DEF WithCents
<1> HIDE DEF cents
<1>6. ASSUME NEW i \in 1..n
      PROVE  /\ shown[i] \in Line /\ LineKey(shown[i]) = LineKey(sorted[i])
             /\ shown[i].tokens = sorted[i].tokens /\ shown[i].cost = sorted[i].cost
             /\ shown[i].cents = cents[i]
  BY <1>3, <1>4, CentsWith
<1>7. shown \in [1..n -> Line]
  BY <1>6
<1> HIDE DEF shown, n, D
<1>8. D = shown /\ D \in Seq(Line) /\ Len(D) = n
  BY <1>1, <1>5, <1>7, TupleIs
<1>9. DOMAIN D = 1..n
  BY <1>7, <1>8
<1>10. LedgerIs(D, T)
  BY <1>2, <1>3, <1>6, <1>8, <1>9, LedgerShown
<1>11. \A i \in 1..n : CentsOf(D)[i] = cents[i] /\ CostOf(D)[i] = CostOf(sorted)[i]
  BY <1>3, <1>6, <1>8, <1>9 DEF CentsOf, CostOf
<1>12. DOMAIN CentsOf(D) = 1..n /\ DOMAIN CostOf(D) = 1..n /\ IsFiniteSet(1..n)
  BY <1>1, <1>9, UpToN DEF CentsOf, CostOf
<1>13. Total(CentsOf(D)) = SumFunctionOnSet(cents, 1..n)
  <2> DEFINE I == 1..n
  <2>1. (\A i \in I : CentsOf(D)[i] = cents[i]) /\ DOMAIN CentsOf(D) = I /\ IsFiniteSet(I)
    BY <1>11, <1>12
  <2> HIDE DEF I
  <2>2. SumFunctionOnSet(CentsOf(D), I) = SumFunctionOnSet(cents, I)
    BY <2>1, SumSame
  <2>3. QED
    BY <2>1, <2>2, TotalIs DEF I
<1>14. Total(CostOf(D)) = SumFunctionOnSet(CostOf(sorted), 1..n)
  <2> DEFINE I == 1..n
  <2>1. (\A i \in I : CostOf(D)[i] = CostOf(sorted)[i]) /\ DOMAIN CostOf(D) = I /\ IsFiniteSet(I)
    BY <1>11, <1>12
  <2> HIDE DEF I
  <2>2. SumFunctionOnSet(CostOf(D), I) = SumFunctionOnSet(CostOf(sorted), I)
    BY <2>1, SumSame
  <2>3. QED
    BY <2>1, <2>2, TotalIs DEF I
<1>15. QED
  BY <1>4, <1>10, <1>13, <1>14 DEF Shown, D

-----------------------------------------------------------------------------
(***************************************************************************)
(* The agents of a statement, the dearest first, and their shares.         *)
(***************************************************************************)

\* Groups share out the positions.
LEMMA GroupsSplit ==
  ASSUME NEW owned, NEW keys, Groups(owned, keys)
  PROVE  Splits(owned, DOMAIN owned, DOMAIN keys)
  BY DEF Groups, Splits

\* The parts in another order.
LEMMA SplitsListed ==
  ASSUME NEW M, NEW S, NEW part, Splits(part, M, S), NEW order, Listing(order, M),
         NEW own, own = [p \in 1..Cardinality(M) |-> part[order[p]]]
  PROVE  Splits(own, 1..Cardinality(M), S)
<1> DEFINE n == Cardinality(M)
<1>1. /\ \A p \in 1..n : order[p] \in M
      /\ \A p, q \in 1..n : order[p] = order[q] => p = q
      /\ \A i \in M : \E p \in 1..n : order[p] = i
  BY DEF Listing
<1> HIDE DEF n
<1>2. \A p \in 1..n : own[p] = part[order[p]]
  BY DEF n
<1>3. \A p \in 1..n : own[p] \subseteq S
  BY <1>1, <1>2 DEF Splits
<1>4. \A x \in S : \E p \in 1..n : x \in own[p]
  BY <1>1, <1>2 DEF Splits
<1>5. \A p, q \in 1..n : \A x \in S : x \in own[p] /\ x \in own[q] => p = q
  BY <1>1, <1>2 DEF Splits
<1>6. QED
  BY <1>3, <1>4, <1>5 DEF Splits, n

AgentRow(lines, own) ==
  [agent |-> lines[CHOOSE i \in own : TRUE].agent, version |-> lines[CHOOSE i \in own : TRUE].version,
   tokens |-> SumFunctionOnSet(TokensOf(lines), own),
   cost |-> SumFunctionOnSet(CostOf(lines), own),
   cents |-> SumFunctionOnSet(CentsOf(lines), own),
   bp |-> 0, byType |-> CostByType(lines, own)]

\* What an agent's group says, whatever its share.
AgentIs(a, lines, own) ==
  /\ own \subseteq DOMAIN lines /\ own # {} /\ own = Holding(AgentKeysOf(lines), <<a.agent, a.version>>)
  /\ a.agent \in Nat /\ a.version \in Nat
  /\ a.tokens = SumFunctionOnSet(TokensOf(lines), own) /\ a.tokens \in Nat
  /\ a.cost = SumFunctionOnSet(CostOf(lines), own) /\ a.cost \in Nat
  /\ a.cents = SumFunctionOnSet(CentsOf(lines), own) /\ a.cents \in Nat
  /\ a.byType = CostByType(lines, own)

\* The sums of some lines are naturals.
LEMMA SumsIn ==
  ASSUME NEW s \in Seq(Line), NEW own \in SUBSET DOMAIN s
  PROVE  /\ IsFiniteSet(own)
         /\ SumFunctionOnSet(TokensOf(s), own) \in Nat /\ SumFunctionOnSet(CostOf(s), own) \in Nat
         /\ SumFunctionOnSet(CentsOf(s), own) \in Nat
<1>1. IsFiniteSet(own)
  BY LineColumns, FS_Subset
<1>2. \A i \in own : TokensOf(s)[i] \in Nat
  BY LineColumns
<1>3. \A i \in own : CostOf(s)[i] \in Nat
  BY LineColumns
<1>4. \A i \in own : CentsOf(s)[i] \in Nat
  BY LineColumns
<1>5. SumFunctionOnSet(TokensOf(s), own) \in Nat
  BY <1>1, <1>2, SumNat
<1>6. SumFunctionOnSet(CostOf(s), own) \in Nat
  BY <1>1, <1>3, SumNat
<1>7. SumFunctionOnSet(CentsOf(s), own) \in Nat
  BY <1>1, <1>4, SumNat
<1>8. QED
  BY <1>1, <1>5, <1>6, <1>7

\* A group of lines sums to its agent's row.
LEMMA AgentRowIs ==
  ASSUME NEW s \in Seq(Line), NEW owned, Groups(owned, AgentKeysOf(s)), NEW g \in DOMAIN owned
  PROVE  AgentIs(AgentRow(s, owned[g]), s, owned[g])
<1> DEFINE own == owned[g]
           i == CHOOSE j \in own : TRUE
           a == AgentRow(s, own)
<1>1. DOMAIN AgentKeysOf(s) = DOMAIN s /\ \A j \in DOMAIN s : AgentKeysOf(s)[j] = <<s[j].agent, s[j].version>>
  BY DEF AgentKeysOf
<1>2. own \subseteq DOMAIN s /\ own # {} /\ \A j \in own : own = Holding(AgentKeysOf(s), AgentKeysOf(s)[j])
  BY <1>1 DEF Groups
<1>3. i \in own
  BY <1>2
<1>4. s[i].agent \in Nat /\ s[i].version \in Nat
  BY <1>2, <1>3, LineColumns, LineFields
<1> HIDE DEF own
<1>5. /\ SumFunctionOnSet(TokensOf(s), own) \in Nat /\ SumFunctionOnSet(CostOf(s), own) \in Nat
      /\ SumFunctionOnSet(CentsOf(s), own) \in Nat
  BY <1>2, SumsIn
<1>6. a.agent = s[i].agent /\ a.version = s[i].version
  BY DEF AgentRow
<1>7. own = Holding(AgentKeysOf(s), <<a.agent, a.version>>)
  BY <1>1, <1>2, <1>3, <1>6
<1>8. /\ a.tokens = SumFunctionOnSet(TokensOf(s), own) /\ a.cost = SumFunctionOnSet(CostOf(s), own)
      /\ a.cents = SumFunctionOnSet(CentsOf(s), own) /\ a.byType = CostByType(s, own)
  BY DEF AgentRow
<1> HIDE DEF a, i
<1>9. AgentIs(a, s, own)
  BY <1>2, <1>4, <1>5, <1>6, <1>7, <1>8 DEF AgentIs
<1>10. QED
  BY <1>9 DEF a, own

AgentRows(lines) ==
  AsTuple([g \in DOMAIN Grouped(AgentKeysOf(lines)) |-> AgentRow(lines, Grouped(AgentKeysOf(lines))[g])])

AgentTerms(groups) == [g \in DOMAIN groups |-> <<-groups[g].cost, groups[g].agent, groups[g].version>>]

AgentsSorted(lines) == SortedBy(AgentRows(lines), AgentTerms(AgentRows(lines)))

\* The agents of a statement share out its lines, the dearest first.
AgentsFit(A, own, lines) ==
  /\ A \in Seq(Range(A)) /\ Len(A) \in Nat /\ DOMAIN A = 1..Len(A)
  /\ Splits(own, DOMAIN A, DOMAIN lines)
  /\ \A i \in DOMAIN A : AgentIs(A[i], lines, own[i]) /\ A[i].cost <= A[1].cost

\* The rows, one per group, before they are sorted.
LEMMA AgentRowsAre ==
  ASSUME NEW s \in Seq(Line)
  PROVE  /\ Groups(Grouped(AgentKeysOf(s)), AgentKeysOf(s))
         /\ Len(AgentRows(s)) \in Nat /\ DOMAIN AgentRows(s) = 1..Len(AgentRows(s))
         /\ DOMAIN AgentRows(s) = DOMAIN Grouped(AgentKeysOf(s))
         /\ AgentRows(s) \in Seq(Range(AgentRows(s)))
         /\ \A g \in DOMAIN AgentRows(s) : AgentRows(s)[g] = AgentRow(s, Grouped(AgentKeysOf(s))[g])
         /\ \A g \in DOMAIN AgentRows(s) : AgentIs(AgentRows(s)[g], s, Grouped(AgentKeysOf(s))[g])
<1> DEFINE keys == AgentKeysOf(s)
           n == Len(s)
           owned == Grouped(keys)
           m == Len(owned)
           list == [g \in 1..m |-> AgentRow(s, owned[g])]
           R == AgentRows(s)
           S == Range(R)
<1>1. n \in Nat /\ DOMAIN keys = 1..n
  BY LineColumns DEF AgentKeysOf
<1>2. Groups(owned, keys)
  <2> HIDE DEF keys
  <2>1. QED
    BY <1>1, GroupedIs
<1>3. m \in Nat /\ DOMAIN owned = 1..m
  BY <1>2 DEF Groups
<1>4. R = AsTuple(list)
  BY <1>3 DEF AgentRows
<1>5. list \in [1..m -> {list[g] : g \in 1..m}]
  OBVIOUS
<1>6. \A g \in 1..m : AgentIs(list[g], s, owned[g])
  BY <1>2, <1>3, AgentRowIs
<1>12. \A g \in 1..m : list[g] = AgentRow(s, owned[g])
  OBVIOUS
<1> HIDE DEF list, owned, m, R
<1>7. R = list /\ Len(R) = m
  BY <1>3, <1>4, <1>5, TupleIs
<1>8. DOMAIN R = 1..m
  BY <1>5, <1>7
<1>9. R \in [1..m -> S]
  <2>1. \A g \in 1..m : R[g] \in S
    BY <1>8 DEF Range
  <2>2. R = [g \in 1..m |-> R[g]]
    BY <1>5, <1>7
  <2> HIDE DEF S
  <2>3. QED
    BY <2>1, <2>2
<1>10. R \in Seq(S)
  <2> HIDE DEF S
  <2>1. QED
    BY <1>3, <1>9, TupleIs
<1>11. QED
  BY <1>2, <1>3, <1>6, <1>7, <1>8, <1>10, <1>12 DEF owned, R

\* The sorted groups of a statement, before their shares are set.
AgentsRead(R, own, lines) ==
  /\ Len(R) \in Nat /\ DOMAIN R = 1..Len(R)
  /\ Splits(own, DOMAIN R, DOMAIN lines)
  /\ \A i \in DOMAIN R : R[i] = AgentRow(lines, own[i])
  /\ \A i \in DOMAIN R : AgentIs(R[i], lines, own[i])
  /\ \A i \in DOMAIN R : R[i].cost <= R[1].cost

\* The comparator of agents has three integer terms.
LEMMA AgentTermsAre ==
  ASSUME NEW s \in Seq(Line), NEW R, R = AgentRows(s)
  PROVE  AgentTerms(R) \in [DOMAIN R -> [1..3 -> Int]]
<1>1. \A g \in DOMAIN R : R[g].cost \in Nat /\ R[g].agent \in Nat /\ R[g].version \in Nat
  BY AgentRowsAre DEF AgentIs
<1>2. \A g \in DOMAIN R : <<-R[g].cost, R[g].agent, R[g].version>> \in [1..3 -> Int]
  BY <1>1
<1>3. QED
  BY <1>2 DEF AgentTerms

\* A list sorted by falling cost has the dearest first.
LEMMA DearestFirst ==
  ASSUME NEW c \in Int, NEW d \in Int, NEW s, NEW t, s[1] = -c, t[1] = -d, 1 \in DOMAIN s, ~Before(s, t)
  PROVE  c <= d
<1>1. \A j \in 1..(1 - 1) : s[j] = t[j]
  OBVIOUS
<1>2. ~(s[1] < t[1])
  BY <1>1 DEF Before
<1>3. QED
  BY <1>2

\* The rows sorted still share out the lines.
LEMMA AgentsSortedAre ==
  ASSUME NEW s \in Seq(Line)
  PROVE  \E own : AgentsRead(AgentsSorted(s), own, s)
<1> DEFINE R == AgentRows(s)
           S == Range(R)
           terms == AgentTerms(R)
           owned == Grouped(AgentKeysOf(s))
           I == DOMAIN R
           order == Arranged(I, terms)
           m == Len(R)
           sorted == AgentsSorted(s)
           own == [p \in 1..m |-> owned[order[p]]]
           w == 3
<1>1. /\ m \in Nat /\ I = 1..m /\ I = DOMAIN owned /\ R \in Seq(S)
      /\ \A g \in I : R[g] = AgentRow(s, owned[g])
      /\ \A g \in I : AgentIs(R[g], s, owned[g])
  BY AgentRowsAre
<1>2. Splits(owned, I, DOMAIN s)
  <2>1. Groups(owned, AgentKeysOf(s)) /\ DOMAIN AgentKeysOf(s) = DOMAIN s
    BY AgentRowsAre DEF AgentKeysOf
  <2> HIDE DEF owned
  <2>2. QED
    BY <1>1, <2>1, GroupsSplit
<1>3. terms \in [I -> [1..w -> Int]] /\ w \in Nat
  BY AgentTermsAre
<1>4. sorted = SortedBy(R, terms)
  BY DEF AgentsSorted
<1>5. \A g \in I : terms[g] = <<-R[g].cost, R[g].agent, R[g].version>>
  BY DEF AgentTerms
<1>19. \A g \in I : R[g].cost \in Nat
  BY <1>1 DEF AgentIs
<1> HIDE DEF R, S, terms, owned, sorted, w, I
<1>16. \A g \in I : terms[g][1] = -R[g].cost /\ 1 \in DOMAIN terms[g] /\ R[g].cost \in Int
  BY <1>5, <1>19
<1> USE DEF I
<1>6. Listing(order, I) /\ Cardinality(I) = m /\ ReadOff(sorted, R, order, m, S)
  BY <1>1, <1>3, <1>4, SortedIs
<1>7. IsFiniteSet(I) /\ I \in SUBSET Int
  BY <1>1, UpToN
<1>8. \A p, q \in 1..m : p < q => ~Before(terms[order[q]], terms[order[p]])
  <2> HIDE DEF I, m
  <2>1. QED
    BY <1>3, <1>6, <1>7, ArrangedIs
<1>9. \A p \in 1..m : order[p] \in I
  BY <1>6 DEF Listing
<1> HIDE DEF order, I, m
<1>10. Splits(own, 1..m, DOMAIN s)
  BY <1>2, <1>6, SplitsListed
<1>11. m \in Nat /\ DOMAIN sorted = 1..m /\ Len(sorted) = m /\ \A p \in 1..m : sorted[p] = R[order[p]]
  BY <1>1, <1>6 DEF ReadOff
<1>12. \A p \in 1..m : own[p] = owned[order[p]]
  OBVIOUS
<1> HIDE DEF own
<1>13. \A p \in 1..m : sorted[p] = AgentRow(s, own[p])
  BY <1>1, <1>9, <1>11, <1>12
<1>14. \A p \in 1..m : AgentIs(sorted[p], s, own[p])
  BY <1>1, <1>9, <1>11, <1>12
<1>15. ASSUME NEW p \in 1..m
       PROVE  sorted[p].cost <= sorted[1].cost
  <2>1. CASE p = 1
    BY <1>9, <1>11, <1>16, <2>1
  <2>2. CASE p # 1
    <3>1. 1 \in 1..m /\ 1 < p
      BY <1>11, <2>2
    <3>2. ~Before(terms[order[p]], terms[order[1]])
      BY <1>8, <3>1
    <3>3. order[p] \in I /\ order[1] \in I
      BY <1>9, <3>1
    <3>4. R[order[p]].cost <= R[order[1]].cost
      BY <1>16, <3>2, <3>3, DearestFirst
    <3>5. QED
      BY <1>11, <3>1, <3>4
  <2>3. QED
    BY <2>1, <2>2
<1>17. AgentsRead(sorted, own, s)
  BY <1>10, <1>11, <1>13, <1>14, <1>15 DEF AgentsRead
<1>18. QED
  BY <1>17 DEF sorted

WithBp(a, b) == [a EXCEPT !.bp = b]

\* A share changes nothing else of a row.
LEMMA BpWith ==
  ASSUME NEW lines, NEW own, AgentIs(AgentRow(lines, own), lines, own), NEW b
  PROVE  /\ AgentIs(WithBp(AgentRow(lines, own), b), lines, own)
         /\ WithBp(AgentRow(lines, own), b).cost = AgentRow(lines, own).cost
         /\ WithBp(AgentRow(lines, own), b).bp = b
<1> DEFINE a == AgentRow(lines, own)
           c == WithBp(a, b)
<1>1. /\ c.agent = a.agent /\ c.version = a.version /\ c.tokens = a.tokens /\ c.cost = a.cost
      /\ c.cents = a.cents /\ c.byType = a.byType /\ c.bp = b
  BY DEF WithBp, AgentRow
<1> HIDE DEF a, c
<1>2. AgentIs(c, lines, own)
  BY <1>1 DEF AgentIs, a
<1>3. QED
  BY <1>1, <1>2 DEF a, c

\* The shares of the agents close at the whole.
AgentsShare(A) ==
  /\ BpOf(A) \in [DOMAIN A -> Nat] /\ CostOf(A) \in [DOMAIN A -> Nat]
  /\ SumFunctionOnSet(CostOf(A), DOMAIN A) > 0 => SumFunctionOnSet(BpOf(A), DOMAIN A) = FullBp

\* What BuildAgentGroups returns.
LEMMA AgentsAre ==
  ASSUME NEW s \in Seq(Line)
  PROVE  \E own : AgentsFit(BuildAgentGroups(s), own, s) /\ AgentsShare(BuildAgentGroups(s))
<1> DEFINE R == AgentsSorted(s)
           n == Len(R)
           shares == ShareBasisPoints(CostOf(R), FullBp)
           list == [i \in 1..n |-> WithBp(R[i], shares[i])]
           A == BuildAgentGroups(s)
<1>1. PICK own : AgentsRead(R, own, s)
  BY AgentsSortedAre
<1>2. n \in Nat /\ DOMAIN R = 1..n
  BY <1>1 DEF AgentsRead
<1>3. A = AsTuple([i \in DOMAIN R |-> [R[i] EXCEPT !.bp = shares[i]]])
  BY DEF BuildAgentGroups, AgentsSorted, AgentRows, AgentTerms, AgentRow
<1>4. A = AsTuple(list)
  BY <1>2, <1>3 DEF WithBp
<1>5. CostOf(R) \in [1..n -> Nat] /\ \A i \in 1..n : CostOf(R)[i] = R[i].cost
  BY <1>1, <1>2 DEF CostOf, AgentsRead, AgentIs
<1>6. /\ shares \in [1..n -> Nat]
      /\ SumFunctionOnSet(CostOf(R), 1..n) > 0 => SumFunctionOnSet(shares, 1..n) = FullBp
  BY <1>2, <1>5, SharesClose, FoldAssumption
<1>7. \A i \in 1..n : list[i] = WithBp(R[i], shares[i])
  OBVIOUS
<1>8. list \in [1..n -> Range(list)]
  BY DEF Range
<1> HIDE DEF R, n, shares, list, A
<1>9. ASSUME NEW i \in 1..n
      PROVE  AgentIs(list[i], s, own[i]) /\ list[i].cost = R[i].cost /\ list[i].bp = shares[i]
  <2>1. R[i] = AgentRow(s, own[i]) /\ AgentIs(R[i], s, own[i])
    BY <1>1, <1>2 DEF AgentsRead
  <2>2. QED
    BY <1>7, <2>1, BpWith
<1>10. A = list /\ A \in Seq(Range(A)) /\ Len(A) = n
  BY <1>2, <1>4, <1>8, TupleIs
<1>11. DOMAIN A = 1..n
  BY <1>8, <1>10
<1>12. AgentsFit(A, own, s)
  <2>1. \A i \in DOMAIN A : AgentIs(A[i], s, own[i])
    BY <1>9, <1>10, <1>11
  <2>2. ASSUME NEW i \in DOMAIN A
        PROVE  A[i].cost <= A[1].cost
    <3>1. R[i].cost <= R[1].cost /\ 1 \in 1..n /\ i \in 1..n
      BY <1>1, <1>2, <1>11 DEF AgentsRead
    <3>2. QED
      BY <1>9, <1>10, <3>1
  <2>3. Splits(own, DOMAIN A, DOMAIN s)
    BY <1>1, <1>2, <1>11 DEF AgentsRead
  <2>4. QED
    BY <1>2, <1>10, <1>11, <2>1, <2>2, <2>3 DEF AgentsFit
<1>13. \A i \in 1..n : CostOf(A)[i] = CostOf(R)[i] /\ BpOf(A)[i] = shares[i]
  BY <1>5, <1>9, <1>10, <1>11 DEF CostOf, BpOf
<1>14. DOMAIN CostOf(A) = 1..n /\ DOMAIN BpOf(A) = 1..n /\ IsFiniteSet(1..n)
  BY <1>2, <1>11, UpToN DEF CostOf, BpOf
<1>15. /\ SumFunctionOnSet(CostOf(A), 1..n) = SumFunctionOnSet(CostOf(R), 1..n)
       /\ SumFunctionOnSet(BpOf(A), 1..n) = SumFunctionOnSet(shares, 1..n)
  <2> DEFINE I == 1..n
  <2>1. (\A i \in I : CostOf(A)[i] = CostOf(R)[i]) /\ (\A i \in I : BpOf(A)[i] = shares[i]) /\ IsFiniteSet(I)
    BY <1>13, <1>14
  <2> HIDE DEF I
  <2>2. QED
    BY <2>1, SumSame DEF I
<1>16. CostOf(A) \in [1..n -> Nat] /\ BpOf(A) \in [1..n -> Nat]
  <2>1. ASSUME NEW i \in 1..n
        PROVE  A[i].cost \in Nat /\ A[i].bp \in Nat
    <3>1. CostOf(R)[i] \in Nat /\ shares[i] \in Nat
      BY ONLY <1>5, <1>6, i \in 1..n
    <3>2. A[i].cost = R[i].cost /\ A[i].bp = shares[i] /\ CostOf(R)[i] = R[i].cost
      BY <1>5, <1>9, <1>10
    <3>3. QED
      BY ONLY <3>1, <3>2
  <2>2. QED
    BY <1>11, <2>1 DEF CostOf, BpOf
<1>17. AgentsShare(A)
  BY <1>6, <1>11, <1>15, <1>16 DEF AgentsShare
<1>18. QED
  BY <1>12, <1>17 DEF A

-----------------------------------------------------------------------------
(***************************************************************************)
(* The models of a statement, and their shares.                            *)
(***************************************************************************)

ModelRow(lines, own) ==
  [model |-> lines[CHOOSE i \in own : TRUE].model,
   tokens |-> SumFunctionOnSet(TokensOf(lines), own),
   cost |-> SumFunctionOnSet(CostOf(lines), own), costBp |-> 0, tokenBp |-> 0]

\* What a model's share says of the lines it sums.
ModelIs(a, lines, own) ==
  /\ own \subseteq DOMAIN lines /\ own # {} /\ own = Holding(ModelsOf(lines), a.model)
  /\ a.model \in Nat
  /\ a.tokens = SumFunctionOnSet(TokensOf(lines), own) /\ a.tokens \in Nat
  /\ a.cost = SumFunctionOnSet(CostOf(lines), own) /\ a.cost \in Nat

\* A group of lines sums to its model's row.
LEMMA ModelRowIs ==
  ASSUME NEW s \in Seq(Line), NEW owned, Groups(owned, ModelsOf(s)), NEW g \in DOMAIN owned
  PROVE  ModelIs(ModelRow(s, owned[g]), s, owned[g])
<1> DEFINE own == owned[g]
           i == CHOOSE j \in own : TRUE
           a == ModelRow(s, own)
<1>1. DOMAIN ModelsOf(s) = DOMAIN s /\ \A j \in DOMAIN s : ModelsOf(s)[j] = s[j].model
  BY DEF ModelsOf
<1>2. own \subseteq DOMAIN s /\ own # {} /\ \A j \in own : own = Holding(ModelsOf(s), ModelsOf(s)[j])
  BY <1>1 DEF Groups
<1>3. i \in own
  BY <1>2
<1>4. s[i].model \in Nat
  BY <1>2, <1>3, LineColumns, LineFields
<1> HIDE DEF own
<1>5. SumFunctionOnSet(TokensOf(s), own) \in Nat /\ SumFunctionOnSet(CostOf(s), own) \in Nat
  BY <1>2, SumsIn
<1>6. a.model = s[i].model
  BY DEF ModelRow
<1>7. own = Holding(ModelsOf(s), a.model)
  BY <1>1, <1>2, <1>3, <1>6
<1>8. a.tokens = SumFunctionOnSet(TokensOf(s), own) /\ a.cost = SumFunctionOnSet(CostOf(s), own)
  BY DEF ModelRow
<1> HIDE DEF a, i
<1>9. ModelIs(a, s, own)
  BY <1>2, <1>4, <1>5, <1>6, <1>7, <1>8 DEF ModelIs
<1>10. QED
  BY <1>9 DEF a, own

ModelRows(lines) ==
  AsTuple([g \in DOMAIN Grouped(ModelsOf(lines)) |-> ModelRow(lines, Grouped(ModelsOf(lines))[g])])

ModelTerms(groups) == [m \in DOMAIN groups |-> <<-groups[m].cost, groups[m].model>>]

ModelsSorted(lines) == SortedBy(ModelRows(lines), ModelTerms(ModelRows(lines)))

\* The rows, one per group, before they are sorted.
LEMMA ModelRowsAre ==
  ASSUME NEW s \in Seq(Line)
  PROVE  /\ Groups(Grouped(ModelsOf(s)), ModelsOf(s))
         /\ Len(ModelRows(s)) \in Nat /\ DOMAIN ModelRows(s) = 1..Len(ModelRows(s))
         /\ DOMAIN ModelRows(s) = DOMAIN Grouped(ModelsOf(s))
         /\ ModelRows(s) \in Seq(Range(ModelRows(s)))
         /\ \A g \in DOMAIN ModelRows(s) : ModelRows(s)[g] = ModelRow(s, Grouped(ModelsOf(s))[g])
         /\ \A g \in DOMAIN ModelRows(s) : ModelIs(ModelRows(s)[g], s, Grouped(ModelsOf(s))[g])
<1> DEFINE keys == ModelsOf(s)
           n == Len(s)
           owned == Grouped(keys)
           m == Len(owned)
           list == [g \in 1..m |-> ModelRow(s, owned[g])]
           R == ModelRows(s)
           S == Range(R)
<1>1. n \in Nat /\ DOMAIN keys = 1..n
  BY LineColumns DEF ModelsOf
<1>2. Groups(owned, keys)
  <2> HIDE DEF keys
  <2>1. QED
    BY <1>1, GroupedIs
<1>3. m \in Nat /\ DOMAIN owned = 1..m
  BY <1>2 DEF Groups
<1>4. R = AsTuple(list)
  BY <1>3 DEF ModelRows
<1>5. list \in [1..m -> {list[g] : g \in 1..m}]
  OBVIOUS
<1>6. \A g \in 1..m : ModelIs(list[g], s, owned[g])
  BY <1>2, <1>3, ModelRowIs
<1>12. \A g \in 1..m : list[g] = ModelRow(s, owned[g])
  OBVIOUS
<1> HIDE DEF list, owned, m, R
<1>7. R = list /\ Len(R) = m
  BY <1>3, <1>4, <1>5, TupleIs
<1>8. DOMAIN R = 1..m
  BY <1>5, <1>7
<1>9. R \in [1..m -> S]
  <2>1. \A g \in 1..m : R[g] \in S
    BY <1>8 DEF Range
  <2>2. R = [g \in 1..m |-> R[g]]
    BY <1>5, <1>7
  <2> HIDE DEF S
  <2>3. QED
    BY <2>1, <2>2
<1>10. R \in Seq(S)
  <2> HIDE DEF S
  <2>1. QED
    BY <1>3, <1>9, TupleIs
<1>11. QED
  BY <1>2, <1>3, <1>6, <1>7, <1>8, <1>10, <1>12 DEF owned, R

ModelsRead(R, own, lines) ==
  /\ Len(R) \in Nat /\ DOMAIN R = 1..Len(R)
  /\ Splits(own, DOMAIN R, DOMAIN lines)
  /\ \A i \in DOMAIN R : R[i] = ModelRow(lines, own[i])
  /\ \A i \in DOMAIN R : ModelIs(R[i], lines, own[i])

\* The comparator of models has two integer terms.
LEMMA ModelTermsAre ==
  ASSUME NEW s \in Seq(Line), NEW R, R = ModelRows(s)
  PROVE  ModelTerms(R) \in [DOMAIN R -> [1..2 -> Int]]
<1>1. \A g \in DOMAIN R : R[g].cost \in Nat /\ R[g].model \in Nat
  BY ModelRowsAre DEF ModelIs
<1>2. \A g \in DOMAIN R : <<-R[g].cost, R[g].model>> \in [1..2 -> Int]
  BY <1>1
<1>3. QED
  BY <1>2 DEF ModelTerms

\* The rows sorted still share out the lines.
LEMMA ModelsSortedAre ==
  ASSUME NEW s \in Seq(Line)
  PROVE  \E own : ModelsRead(ModelsSorted(s), own, s)
<1> DEFINE R == ModelRows(s)
           S == Range(R)
           terms == ModelTerms(R)
           owned == Grouped(ModelsOf(s))
           I == DOMAIN R
           order == Arranged(I, terms)
           m == Len(R)
           sorted == ModelsSorted(s)
           own == [p \in 1..m |-> owned[order[p]]]
           w == 2
<1>1. /\ m \in Nat /\ I = 1..m /\ I = DOMAIN owned /\ R \in Seq(S)
      /\ \A g \in I : R[g] = ModelRow(s, owned[g])
      /\ \A g \in I : ModelIs(R[g], s, owned[g])
  BY ModelRowsAre
<1>2. Splits(owned, I, DOMAIN s)
  <2>1. Groups(owned, ModelsOf(s)) /\ DOMAIN ModelsOf(s) = DOMAIN s
    BY ModelRowsAre DEF ModelsOf
  <2> HIDE DEF owned
  <2>2. QED
    BY <1>1, <2>1, GroupsSplit
<1>3. terms \in [I -> [1..w -> Int]] /\ w \in Nat
  BY ModelTermsAre
<1>4. sorted = SortedBy(R, terms)
  BY DEF ModelsSorted
<1> HIDE DEF R, S, terms, owned, sorted, w
<1>6. Listing(order, I) /\ Cardinality(I) = m /\ ReadOff(sorted, R, order, m, S)
  BY <1>1, <1>3, <1>4, SortedIs
<1>9. \A p \in 1..m : order[p] \in I
  BY <1>6 DEF Listing
<1> HIDE DEF order, I, m
<1>10. Splits(own, 1..m, DOMAIN s)
  BY <1>2, <1>6, SplitsListed
<1>11. m \in Nat /\ DOMAIN sorted = 1..m /\ Len(sorted) = m /\ \A p \in 1..m : sorted[p] = R[order[p]]
  BY <1>1, <1>6 DEF ReadOff
<1>12. \A p \in 1..m : own[p] = owned[order[p]]
  OBVIOUS
<1> HIDE DEF own
<1>13. \A p \in 1..m : sorted[p] = ModelRow(s, own[p])
  BY <1>1, <1>9, <1>11, <1>12
<1>14. \A p \in 1..m : ModelIs(sorted[p], s, own[p])
  BY <1>1, <1>9, <1>11, <1>12
<1>17. ModelsRead(sorted, own, s)
  BY <1>10, <1>11, <1>13, <1>14 DEF ModelsRead
<1>18. QED
  BY <1>17 DEF sorted

WithBps(a, b, c) == [a EXCEPT !.costBp = b, !.tokenBp = c]

\* Shares change nothing else of a row.
LEMMA BpsWith ==
  ASSUME NEW lines, NEW own, ModelIs(ModelRow(lines, own), lines, own), NEW b, NEW c
  PROVE  /\ ModelIs(WithBps(ModelRow(lines, own), b, c), lines, own)
         /\ WithBps(ModelRow(lines, own), b, c).cost = ModelRow(lines, own).cost
         /\ WithBps(ModelRow(lines, own), b, c).costBp = b
         /\ WithBps(ModelRow(lines, own), b, c).tokenBp = c
<1> DEFINE a == ModelRow(lines, own)
           d == WithBps(a, b, c)
<1>1. /\ d.model = a.model /\ d.tokens = a.tokens /\ d.cost = a.cost
      /\ d.costBp = b /\ d.tokenBp = c
  BY DEF WithBps, ModelRow
<1> HIDE DEF a, d
<1>2. ModelIs(d, lines, own)
  BY <1>1 DEF ModelIs, a
<1>3. QED
  BY <1>1, <1>2 DEF a, d

CostBpOf(s) == [i \in DOMAIN s |-> s[i].costBp]
TokenBpOf(s) == [i \in DOMAIN s |-> s[i].tokenBp]

\* The model shares of a statement share out its lines, and close.
ModelsFit(M, own, lines) ==
  /\ Len(M) \in Nat /\ DOMAIN M = 1..Len(M)
  /\ Splits(own, DOMAIN M, DOMAIN lines)
  /\ \A i \in DOMAIN M : ModelIs(M[i], lines, own[i])
  /\ CostOf(M) \in [DOMAIN M -> Nat]
  /\ SumFunctionOnSet(CostOf(M), DOMAIN M) > 0 => SumFunctionOnSet(CostBpOf(M), DOMAIN M) = FullBp
  /\ Total(TokensOf(lines)) > 0 => SumFunctionOnSet(TokenBpOf(M), DOMAIN M) = FullBp

\* What BuildModelShares returns.
LEMMA ModelsAre ==
  ASSUME NEW s \in Seq(Line)
  PROVE  \E own : ModelsFit(BuildModelShares(s), own, s)
<1> DEFINE R == ModelsSorted(s)
           n == Len(R)
           whole == IF Total(TokensOf(s)) = 0 THEN 0 ELSE FullBp
           costs == ShareBasisPoints(CostOf(R), FullBp)
           tokens == ShareBasisPoints(TokensOf(R), whole)
           list == [i \in 1..n |-> WithBps(R[i], costs[i], tokens[i])]
           M == BuildModelShares(s)
           D == DOMAIN s
<1>1. PICK own : ModelsRead(R, own, s)
  BY ModelsSortedAre
<1>2. n \in Nat /\ DOMAIN R = 1..n
  BY <1>1 DEF ModelsRead
<1>3. M = AsTuple([i \in DOMAIN R |-> [R[i] EXCEPT !.costBp = costs[i], !.tokenBp = tokens[i]]])
  BY DEF BuildModelShares, ModelsSorted, ModelRows, ModelTerms, ModelRow
<1>4. M = AsTuple(list)
  BY <1>2, <1>3 DEF WithBps
<1>5. /\ CostOf(R) \in [1..n -> Nat] /\ \A i \in 1..n : CostOf(R)[i] = R[i].cost
      /\ TokensOf(R) \in [1..n -> Nat] /\ \A i \in 1..n : TokensOf(R)[i] = R[i].tokens
  BY <1>1, <1>2 DEF CostOf, TokensOf, ModelsRead, ModelIs
<1>6. /\ costs \in [1..n -> Nat]
      /\ SumFunctionOnSet(CostOf(R), 1..n) > 0 => SumFunctionOnSet(costs, 1..n) = FullBp
  BY <1>2, <1>5, SharesClose, FoldAssumption
<1>7. \A i \in 1..n : list[i] = WithBps(R[i], costs[i], tokens[i])
  OBVIOUS
<1>8. list \in [1..n -> Range(list)]
  BY DEF Range
<1>18. whole \in Nat
  BY FoldAssumption
<1> HIDE DEF R, n, costs, list, M, whole
<1>19. /\ tokens \in [1..n -> Nat]
       /\ SumFunctionOnSet(TokensOf(R), 1..n) > 0 => SumFunctionOnSet(tokens, 1..n) = whole
  BY <1>2, <1>5, <1>18, SharesClose
<1> HIDE DEF tokens
<1>20. SumFunctionOnSet(TokensOf(R), 1..n) = Total(TokensOf(s))
  <2> DEFINE I == 1..n
             f == TokensOf(s)
             c == TokensOf(R)
  <2>6. IsFiniteSet(I)
    BY <1>2, UpToN
  <2>7. IsFiniteSet(D) /\ D = 1..Len(s) /\ f \in [1..Len(s) -> Nat]
    BY LineColumns
  <2>1. IsFiniteSet(I) /\ IsFiniteSet(D) /\ (\A x \in D : f[x] \in Int) /\ DOMAIN f = D
    BY <2>6, <2>7
  <2>2. \A i \in I : c[i] = SumFunctionOnSet(f, own[i])
    BY <1>1, <1>2, <1>5 DEF ModelsRead, ModelIs
  <2>3. Splits(own, I, D)
    BY <1>1, <1>2 DEF ModelsRead
  <2> HIDE DEF I, f, c, D
  <2>4. SumFunctionOnSet(c, I) = SumFunctionOnSet(f, D)
    BY <2>1, <2>2, <2>3, SumOfParts
  <2>5. QED
    BY <2>1, <2>4, TotalIs DEF I, f, c
<1>9. ASSUME NEW i \in 1..n
      PROVE  /\ ModelIs(list[i], s, own[i]) /\ list[i].cost = R[i].cost
             /\ list[i].costBp = costs[i] /\ list[i].tokenBp = tokens[i]
  <2>1. R[i] = ModelRow(s, own[i]) /\ ModelIs(R[i], s, own[i])
    BY <1>1, <1>2 DEF ModelsRead
  <2>2. QED
    BY <1>7, <2>1, BpsWith
<1>10. M = list /\ Len(M) = n
  BY <1>2, <1>4, <1>8, TupleIs
<1>11. DOMAIN M = 1..n
  BY <1>8, <1>10
<1>13. \A i \in 1..n : CostOf(M)[i] = CostOf(R)[i] /\ CostBpOf(M)[i] = costs[i] /\ TokenBpOf(M)[i] = tokens[i]
  BY <1>5, <1>9, <1>10, <1>11 DEF CostOf, CostBpOf, TokenBpOf
<1>15. /\ SumFunctionOnSet(CostOf(M), 1..n) = SumFunctionOnSet(CostOf(R), 1..n)
       /\ SumFunctionOnSet(CostBpOf(M), 1..n) = SumFunctionOnSet(costs, 1..n)
       /\ SumFunctionOnSet(TokenBpOf(M), 1..n) = SumFunctionOnSet(tokens, 1..n)
  <2> DEFINE I == 1..n
  <2>1. (\A i \in I : CostOf(M)[i] = CostOf(R)[i]) /\ (\A i \in I : CostBpOf(M)[i] = costs[i]) /\ IsFiniteSet(I)
    BY <1>2, <1>13, UpToN
  <2>3. \A i \in I : TokenBpOf(M)[i] = tokens[i]
    BY <1>13
  <2> HIDE DEF I
  <2>2. QED
    BY <2>1, <2>3, SumSame DEF I
<1>16. CostOf(M) \in [1..n -> Nat]
  <2>1. \A i \in 1..n : M[i].cost \in Nat
    BY <1>5, <1>9, <1>10
  <2>2. QED
    BY <1>11, <2>1 DEF CostOf
<1>17. /\ Len(M) \in Nat /\ DOMAIN M = 1..Len(M) /\ Splits(own, DOMAIN M, DOMAIN s)
       /\ \A i \in DOMAIN M : ModelIs(M[i], s, own[i])
  BY <1>1, <1>2, <1>9, <1>10, <1>11 DEF ModelsRead
<1>21. Total(TokensOf(s)) > 0 => whole = FullBp
  BY DEF whole
<1>22. ModelsFit(M, own, s)
  BY <1>6, <1>11, <1>15, <1>16, <1>17, <1>19, <1>20, <1>21 DEF ModelsFit
<1>23. QED
  BY <1>22 DEF M

\* V lists the rows in another order, each with its part.
Reordered(V, own, row, owned, order, m) ==
  /\ Len(V) = m /\ DOMAIN V = 1..m
  /\ \A p \in 1..m : order[p] \in 1..m
  /\ \A p \in 1..m : own[p] = owned[order[p]]
  /\ \A p \in 1..m : V[p] = row[order[p]]

\* A sort of rows takes their parts along.
LEMMA RowsSorted ==
  ASSUME NEW m \in Nat, NEW row, DOMAIN row = 1..m, row = [g \in 1..m |-> row[g]], NEW w \in Nat,
         NEW terms \in [1..m -> [1..w -> Int]], NEW S, NEW owned, Splits(owned, 1..m, S)
  PROVE  \E own, order : /\ Splits(own, 1..m, S)
                         /\ Reordered(SortedBy(AsTuple(row), terms), own, row, owned, order, m)
<1> DEFINE R == AsTuple(row)
           I == 1..m
           order == Arranged(I, terms)
           own == [p \in I |-> owned[order[p]]]
           W == Range(row)
           V == SortedBy(R, terms)
<1>1. R = row /\ R \in Seq(W) /\ Len(R) = m
  <2>1. \A g \in 1..m : row[g] \in W
    BY DEF Range
  <2> HIDE DEF W
  <2>2. row \in [1..m -> W]
    BY <2>1
  <2>3. QED
    BY <2>2, TupleIs
<1>2. DOMAIN R = I
  BY <1>1
<1> HIDE DEF R, W, order, V
<1>3. Listing(order, I) /\ Cardinality(I) = m /\ ReadOff(V, R, order, m, W)
  BY <1>1, <1>2, SortedIs DEF order, V
<1> HIDE DEF I
<1>4. Splits(own, 1..m, S)
  BY <1>3, SplitsListed DEF I
<1>5. Len(V) = m /\ DOMAIN V = 1..m
  BY <1>3 DEF ReadOff
<1>6. \A p \in 1..m : order[p] \in 1..m /\ V[p] = row[order[p]]
  BY <1>1, <1>3 DEF ReadOff, Listing, I
<1>7. \A p \in 1..m : own[p] = owned[order[p]]
  BY DEF I
<1> HIDE DEF own
<1>8. Reordered(V, own, row, owned, order, m)
  BY <1>5, <1>6, <1>7 DEF Reordered
<1>9. QED
  BY <1>4, <1>8 DEF V, R

\* What the agents' groups sum to.
LEMMA AgentSums ==
  ASSUME NEW s \in Seq(Line), NEW A, NEW own, AgentsFit(A, own, s)
  PROVE  /\ Total(CentsOf(A)) = Total(CentsOf(s)) /\ Total(TokensOf(A)) = Total(TokensOf(s))
         /\ Total(CostOf(A)) = Total(CostOf(s))
<1> DEFINE I == DOMAIN A
           D == DOMAIN s
           f1 == CentsOf(s)
           f2 == TokensOf(s)
           f3 == CostOf(s)
           c1 == CentsOf(A)
           c2 == TokensOf(A)
           c3 == CostOf(A)
<1>1. IsFiniteSet(I)
  BY UpToN DEF AgentsFit
<1>2. IsFiniteSet(D) /\ D = 1..Len(s) /\ f1 \in [1..Len(s) -> Nat] /\ f2 \in [1..Len(s) -> Nat] /\ f3 \in [1..Len(s) -> Nat]
  BY LineColumns
<1>3. (\A x \in D : f1[x] \in Int) /\ (\A x \in D : f2[x] \in Int) /\ (\A x \in D : f3[x] \in Int)
  BY <1>2
<1>4. DOMAIN f1 = D /\ DOMAIN f2 = D /\ DOMAIN f3 = D /\ DOMAIN c1 = I /\ DOMAIN c2 = I /\ DOMAIN c3 = I
  BY DEF CentsOf, TokensOf, CostOf
<1>5. \A i \in I : c1[i] = SumFunctionOnSet(f1, own[i])
  BY DEF CentsOf, AgentsFit, AgentIs
<1>6. \A i \in I : c2[i] = SumFunctionOnSet(f2, own[i])
  BY DEF TokensOf, AgentsFit, AgentIs
<1>7. \A i \in I : c3[i] = SumFunctionOnSet(f3, own[i])
  BY DEF CostOf, AgentsFit, AgentIs
<1>8. Splits(own, I, D)
  BY DEF AgentsFit
<1> HIDE DEF I, D, f1, f2, f3, c1, c2, c3
<1>9. SumFunctionOnSet(c1, I) = SumFunctionOnSet(f1, D)
  BY <1>1, <1>2, <1>3, <1>5, <1>8, SumOfParts
<1>10. SumFunctionOnSet(c2, I) = SumFunctionOnSet(f2, D)
  BY <1>1, <1>2, <1>3, <1>6, <1>8, SumOfParts
<1>11. SumFunctionOnSet(c3, I) = SumFunctionOnSet(f3, D)
  BY <1>1, <1>2, <1>3, <1>7, <1>8, SumOfParts
<1>12. Total(c1) = Total(f1) /\ Total(c2) = Total(f2) /\ Total(c3) = Total(f3)
  BY <1>4, <1>9, <1>10, <1>11, TotalIs
<1>13. QED
  BY <1>12 DEF f1, f2, f3, c1, c2, c3

\* What the models' groups sum to.
LEMMA ModelSums ==
  ASSUME NEW s \in Seq(Line), NEW M, NEW own, ModelsFit(M, own, s)
  PROVE  /\ SumFunctionOnSet(CostOf(M), DOMAIN M) = Total(CostOf(s)) /\ Total(CostOf(M)) = Total(CostOf(s))
         /\ DOMAIN CostOf(M) = DOMAIN M
<1> DEFINE I == DOMAIN M
           D == DOMAIN s
           f3 == CostOf(s)
           c3 == CostOf(M)
<1>1. IsFiniteSet(I)
  BY UpToN DEF ModelsFit
<1>2. IsFiniteSet(D) /\ D = 1..Len(s) /\ f3 \in [1..Len(s) -> Nat]
  BY LineColumns
<1>3. \A x \in D : f3[x] \in Int
  BY <1>2
<1>4. DOMAIN f3 = D /\ DOMAIN c3 = I
  BY DEF CostOf
<1>7. \A i \in I : c3[i] = SumFunctionOnSet(f3, own[i])
  BY DEF CostOf, ModelsFit, ModelIs
<1>8. Splits(own, I, D)
  BY DEF ModelsFit
<1> HIDE DEF I, D, f3, c3
<1>11. SumFunctionOnSet(c3, I) = SumFunctionOnSet(f3, D)
  BY <1>1, <1>2, <1>3, <1>7, <1>8, SumOfParts
<1>12. Total(c3) = Total(f3) /\ SumFunctionOnSet(c3, I) = Total(f3)
  BY <1>4, <1>11, TotalIs
<1>13. QED
  BY <1>4, <1>12 DEF f3, c3, I

-----------------------------------------------------------------------------
(***************************************************************************)
(* The donut: the versions of an agent merged.                             *)
(***************************************************************************)

SliceRow(agents, own) ==
  [agent |-> agents[CHOOSE i \in own : TRUE].agent,
   cents |-> SumFunctionOnSet(CentsOf(agents), own),
   cost |-> SumFunctionOnSet(CostOf(agents), own),
   bp |-> SumFunctionOnSet(BpOf(agents), own)]

\* A donut closes as the agents it merges do.
MixFits(V, A) ==
  /\ Len(V) \in Nat /\ DOMAIN V = 1..Len(V) /\ (DOMAIN A # {} => Len(V) > 0)
  /\ BpOf(V) \in [1..Len(V) -> Nat]
  /\ Total(CentsOf(V)) = Total(CentsOf(A))
  /\ SumFunctionOnSet(BpOf(V), DOMAIN V) = SumFunctionOnSet(BpOf(A), DOMAIN A)

\* What AgentMixView returns.
LEMMA AgentMixIs ==
  ASSUME NEW n \in Nat, NEW A, DOMAIN A = 1..n, CostOf(A) \in [1..n -> Nat],
         CentsOf(A) \in [1..n -> Nat], BpOf(A) \in [1..n -> Nat]
  PROVE  MixFits(AgentMixView(A), A)
<1> DEFINE keys == AgentsOf(A)
           owned == Grouped(keys)
           m == Len(owned)
           row == [g \in 1..m |-> SliceRow(A, owned[g])]
           terms == [g \in 1..m |-> <<-SumFunctionOnSet(CostOf(A), owned[g])>>]
           V == SortedBy(AsTuple(row), terms)
           D == DOMAIN A
           w == 1
           f1 == CentsOf(A)
           f2 == BpOf(A)
           c1 == CentsOf(V)
           c2 == BpOf(V)
<1>1. DOMAIN keys = 1..n
  BY DEF AgentsOf
<1>2. Groups(owned, keys)
  <2> HIDE DEF keys
  <2>1. QED
    BY <1>1, GroupedIs
<1>3. m \in Nat /\ DOMAIN owned = 1..m
  BY <1>2 DEF Groups
<1>4. Splits(owned, 1..m, D)
  <2>1. D = DOMAIN keys
    BY <1>1
  <2> HIDE DEF keys, owned
  <2>2. QED
    BY <1>2, <1>3, <2>1, GroupsSplit
<1>5. IsFiniteSet(D)
  BY UpToN
<1>6. \A g \in 1..m : owned[g] \subseteq D /\ IsFiniteSet(owned[g])
  BY <1>4, <1>5, FS_Subset DEF Splits
<1>7. AgentMixView(A) = V
  <2> DEFINE sl == AsTuple([g \in DOMAIN owned |-> SliceRow(A, owned[g])])
  <2>1. AgentMixView(A) = SortedBy(sl, [g \in DOMAIN sl |-> <<-sl[g].cost>>])
    BY DEF AgentMixView, SliceRow
  <2>2. sl = AsTuple(row)
    BY <1>3
  <2>3. row \in [1..m -> Range(row)]
    BY DEF Range
  <2>5. \A g \in 1..m : row[g].cost = SumFunctionOnSet(CostOf(A), owned[g])
    BY DEF SliceRow
  <2> HIDE DEF sl, row, owned, m
  <2>4. sl = row /\ DOMAIN sl = 1..m
    BY <1>3, <2>2, <2>3, TupleIs
  <2>6. [g \in DOMAIN sl |-> <<-sl[g].cost>>] = terms
    BY <2>4, <2>5
  <2>7. QED
    BY <2>1, <2>2, <2>6
<1>8. terms \in [1..m -> [1..w -> Int]] /\ w \in Nat
  <2>1. ASSUME NEW g \in 1..m
        PROVE  SumFunctionOnSet(CostOf(A), owned[g]) \in Nat
    <3> DEFINE o == owned[g]
    <3>1. (\A i \in o : CostOf(A)[i] \in Nat) /\ IsFiniteSet(o)
      BY <1>6
    <3> HIDE DEF o
    <3>2. SumFunctionOnSet(CostOf(A), o) \in Nat
      BY <3>1, SumNat
    <3>3. QED
      BY <3>2 DEF o
  <2>2. QED
    BY <2>1
<1>9. DOMAIN row = 1..m /\ row = [g \in 1..m |-> row[g]]
  OBVIOUS
<1>10. \A g \in 1..m : /\ row[g].cents = SumFunctionOnSet(f1, owned[g])
                       /\ row[g].bp = SumFunctionOnSet(f2, owned[g])
  BY DEF SliceRow
<1> HIDE DEF row, owned, m, terms, keys, w, V, D
<1>11. PICK own, order : Splits(own, 1..m, D) /\ Reordered(V, own, row, owned, order, m)
  BY <1>3, <1>4, <1>8, <1>9, RowsSorted DEF V
<1>12. Len(V) = m /\ DOMAIN V = 1..m
  BY <1>11 DEF Reordered
<1>13. \A p \in 1..m : V[p].cents = SumFunctionOnSet(f1, own[p]) /\ V[p].bp = SumFunctionOnSet(f2, own[p])
  <2> TAKE p \in 1..m
  <2>1. order[p] \in 1..m /\ own[p] = owned[order[p]] /\ V[p] = row[order[p]]
    BY <1>11 DEF Reordered
  <2> HIDE DEF f1, f2
  <2>2. QED
    BY <1>10, <2>1
<1>14. DOMAIN f1 = D /\ DOMAIN f2 = D /\ DOMAIN c1 = 1..m /\ DOMAIN c2 = 1..m
  BY <1>12 DEF CentsOf, BpOf, D
<1>15. \A p \in 1..m : c1[p] = SumFunctionOnSet(f1, own[p])
  BY <1>12, <1>13 DEF CentsOf
<1>16. \A p \in 1..m : c2[p] = SumFunctionOnSet(f2, own[p])
  BY <1>12, <1>13 DEF BpOf
<1>17. (\A x \in D : f1[x] \in Nat) /\ (\A x \in D : f2[x] \in Nat)
  BY DEF D
<1>18. IsFiniteSet(1..m)
  BY <1>3, UpToN
<1>23. c2 = [p \in 1..m |-> c2[p]]
  BY <1>12 DEF BpOf
<1> HIDE DEF f1, f2, c1, c2
<1>19. SumFunctionOnSet(c1, 1..m) = SumFunctionOnSet(f1, D) /\ SumFunctionOnSet(c2, 1..m) = SumFunctionOnSet(f2, D)
  <2> DEFINE I == 1..m
  <2>1. /\ IsFiniteSet(I) /\ Splits(own, I, D) /\ \A p \in I : c1[p] = SumFunctionOnSet(f1, own[p])
    BY <1>11, <1>15, <1>18
  <2>2. \A p \in I : c2[p] = SumFunctionOnSet(f2, own[p])
    BY <1>16
  <2>3. (\A x \in D : f1[x] \in Int) /\ (\A x \in D : f2[x] \in Int)
    BY <1>17
  <2> HIDE DEF I
  <2>4. SumFunctionOnSet(c1, I) = SumFunctionOnSet(f1, D)
    BY <1>5, <2>1, <2>3, SumOfParts
  <2>5. SumFunctionOnSet(c2, I) = SumFunctionOnSet(f2, D)
    BY <1>5, <2>1, <2>2, <2>3, SumOfParts
  <2>6. QED
    BY <2>4, <2>5 DEF I
<1>20. Total(c1) = Total(f1)
  BY <1>14, <1>19, TotalIs
<1>21. \A p \in 1..m : c2[p] \in Nat
  <2> TAKE p \in 1..m
  <2> DEFINE o == own[p]
  <2>1. o \subseteq D
    BY <1>11 DEF Splits
  <2>2. IsFiniteSet(o) /\ \A i \in o : f2[i] \in Nat
    BY <1>5, <1>17, <2>1, FS_Subset
  <2> HIDE DEF o
  <2>3. SumFunctionOnSet(f2, o) \in Nat
    BY <2>2, SumNat
  <2>4. QED
    BY <1>16, <2>3 DEF o
<1>22. D # {} => m > 0
  <2>1. ASSUME NEW x \in D
        PROVE  m > 0
    <3>1. \E p \in 1..m : x \in own[p]
      BY <1>11 DEF Splits
    <3>2. QED
      BY <1>3, <3>1
  <2>2. QED
    BY <2>1
<1>24. MixFits(V, A)
  <2>1. c2 \in [1..m -> Nat]
    BY <1>21, <1>23
  <2>2. QED
    BY <1>3, <1>12, <1>19, <1>20, <1>22, <2>1 DEF MixFits, c1, c2, f1, f2, D
<1>25. QED
  BY <1>7, <1>24

-----------------------------------------------------------------------------
(***************************************************************************)
(* The cache panel, and what a statement is made of.                       *)
(***************************************************************************)

\* The image of a finite set is finite.
LEMMA ImageFinite ==
  ASSUME NEW S, IsFiniteSet(S), NEW f, f = [x \in S |-> f[x]], NEW T, T = {f[x] : x \in S}
  PROVE  IsFiniteSet(T)
<1>1. f \in [S -> T]
  OBVIOUS
<1>2. f \in Surjection(S, T)
  BY <1>1 DEF Surjection
<1>3. QED
  BY <1>2, FS_Surjection

\* The buckets of a fold are finitely many prices.
LEMMA InputPricesAre ==
  ASSUME NEW T \in SUBSET Usages, IsFiniteSet(T)
  PROVE  IsFiniteSet(InputPrices(T)) /\ InputPrices(T) \subseteq Nat
<1> DEFINE S == {y \in T : PricedRead(UsageOf[y])}
           f == [x \in S |-> InputPrice(x)]
<1>1. IsFiniteSet(S) /\ \A x \in S : x \in Usages /\ Has(UsageOf[x], "input")
  BY FS_Subset DEF PricedRead
<1>2. \A x \in S : InputPrice(x) \in Nat
  BY <1>1, OfIs DEF InputPrice
<1>3. InputPrices(T) = {f[x] : x \in S} /\ f = [x \in S |-> f[x]]
  BY DEF InputPrices
<1>5. InputPrices(T) \subseteq Nat
  BY <1>2 DEF InputPrices
<1> DEFINE P == InputPrices(T)
<1> HIDE DEF S, f, P
<1>4. IsFiniteSet(P)
  BY <1>1, <1>3, ImageFinite DEF P
<1>6. QED
  BY <1>4, <1>5 DEF P

\* A cost is a natural.
LEMMA CostMicrocentsIs ==
  ASSUME NEW t \in Nat, NEW p \in Nat
  PROVE  CostMicrocents(t, p) \in Nat
<1> DEFINE a == t * p
<1>1. a \in Nat /\ Unit \in Nat \ {0}
  BY FoldAssumption
<1> HIDE DEF a
<1>2. HalfUp(a, Unit) \in Int /\ HalfUp(a, Unit) >= 0
  BY <1>1, HalfUpIs
<1>3. QED
  BY <1>2 DEF CostMicrocents, a

\* The cache panel: what reads would have cost, less what they did and what
\* writing cost, is what was saved.
CacheCloses(cache) == cache.net + cache.write + cache.actual = cache.asInput

\* The cache figures of a statement are those of its traces.
LEMMA CacheFigures ==
  ASSUME NEW T \in SUBSET Usages, IsFiniteSet(T), NEW c, c = CacheOf(T)
  PROVE  /\ c.readCost \in Nat /\ c.writeCost \in Nat
         /\ FinishCache(c).asInput \in Nat
         /\ FinishCache(c).readCost = c.readCost /\ FinishCache(c).writeCost = c.writeCost
<1> DEFINE P == InputPrices(T)
           g == c.atInput
           h == [p \in DOMAIN g |-> CostMicrocents(g[p], p)]
<1>1. /\ c.readCost = SumFunctionOnSet(CacheReadCost, T)
      /\ c.writeCost = SumFunctionOnSet(CacheWriteCost, T)
      /\ g = [p \in P |-> SumFunctionOnSet(ReadAt(p), T)]
  BY DEF CacheOf
<1>2. \A x \in T : CacheReadCost[x] \in Nat
  BY CacheFunctions
<1>3. \A x \in T : CacheWriteCost[x] \in Nat
  BY CacheFunctions
<1>4. c.readCost \in Nat /\ c.writeCost \in Nat
  BY <1>1, <1>2, <1>3, SumNat
<1>5. ASSUME NEW p \in P
      PROVE  g[p] \in Nat
  <2> DEFINE f == ReadAt(p)
  <2>1. \A x \in T : f[x] \in Nat
    BY CacheFunctions
  <2> HIDE DEF f
  <2>2. SumFunctionOnSet(f, T) \in Nat
    BY <2>1, SumNat
  <2> HIDE DEF g
  <2>3. QED
    BY <1>1, <2>2 DEF f
<1>6. IsFiniteSet(P) /\ P \subseteq Nat
  BY InputPricesAre
<1>7. DOMAIN g = P
  BY <1>1
<1> HIDE DEF P, g
<1>8. \A p \in P : h[p] \in Nat
  BY <1>5, <1>6, <1>7, CostMicrocentsIs
<1>9. DOMAIN h = P
  BY <1>7
<1>10. FinishCache(c).asInput = Total(h)
  BY DEF FinishCache, g
<1>11. FinishCache(c).readCost = c.readCost /\ FinishCache(c).writeCost = c.writeCost
  BY DEF FinishCache
<1> HIDE DEF h
<1>12. Total(h) \in Nat
  BY <1>6, <1>8, <1>9, SumNat, TotalIs
<1>13. QED
  BY <1>4, <1>10, <1>11, <1>12

\* The cache panel closes.
LEMMA CacheShown ==
  ASSUME NEW T \in SUBSET Usages, IsFiniteSet(T)
  PROVE  CacheCloses(CacheSavingsView(FinishCache(CacheOf(T))))
<1> DEFINE c == CacheOf(T)
           d == FinishCache(c)
           v == CacheSavingsView(d)
           a == HalfUp(d.readCost, PerCent)
           i == HalfUp(d.asInput, PerCent)
           w == HalfUp(d.writeCost, PerCent)
<1>1. d.readCost \in Int /\ d.asInput \in Int /\ d.writeCost \in Int
  <2> HIDE DEF c
  <2>1. c = CacheOf(T)
    BY DEF c
  <2>2. QED
    BY <2>1, CacheFigures
<1>2. PerCent \in Nat \ {0}
  BY FoldAssumption
<1>3. v.net = i - a - w /\ v.write = w /\ v.actual = a /\ v.asInput = i
  BY DEF CacheSavingsView
<1> HIDE DEF c, d, v
<1>4. a \in Int /\ i \in Int /\ w \in Int
  BY <1>1, <1>2, HalfUpIs
<1> HIDE DEF a, i, w
<1>5. CacheCloses(v)
  BY <1>3, <1>4 DEF CacheCloses
<1>6. QED
  BY <1>5 DEF c, d, v

\* What a statement of the traces in T is made of.
Statement(s, T) ==
  /\ T \in SUBSET Usages /\ IsFiniteSet(T) /\ IsFiniteSet(Stamps(T))
  /\ Shown(s.lines, T)
  /\ s.total = Total(CostOf(s.lines)) /\ s.totalCents = HalfUp(s.total, PerCent)
  /\ s.count = Cardinality(T) /\ s.tokens = Total(TokensOf(s.lines))
  /\ s.agents = BuildAgentGroups(s.lines) /\ s.mix = BuildModelShares(s.lines)
  /\ s.mixByAgent = BuildModelMixByAgent(s.lines, s.agents)
  /\ s.cache = FinishCache(CacheOf(T))

\* FinishStatement makes a statement of the traces folded.
LEMMA StatementIs ==
  ASSUME NEW acc, Folded(acc)
  PROVE  Statement(FinishStatement(acc), acc.fed)
<1> DEFINE L == DisplayLines(acc.lines)
           A == BuildAgentGroups(L)
           s == FinishStatement(acc)
<1>1. Shown(L, acc.fed)
  BY DisplayIs DEF Folded
<1>2. /\ s.lines = L /\ s.total = Total(CostOf(L)) /\ s.totalCents = HalfUp(Total(CostOf(L)), PerCent)
      /\ s.count = Cardinality(acc.fed) /\ s.tokens = Total(TokensOf(L))
      /\ s.agents = A /\ s.mix = BuildModelShares(L)
      /\ s.mixByAgent = BuildModelMixByAgent(L, A)
      /\ s.cache = FinishCache(acc.cache)
  BY DEF FinishStatement
<1> HIDE DEF L, s
<1>3. Statement(s, acc.fed)
  BY <1>1, <1>2 DEF Statement, Folded
<1>4. QED
  BY <1>3 DEF s

\* The totals of a statement are naturals.
LEMMA StatementTotals ==
  ASSUME NEW T, NEW s, Statement(s, T)
  PROVE  /\ s.lines \in Seq(Line) /\ s.total \in Nat /\ s.tokens \in Nat
         /\ s.total = SumFunctionOnSet(CostOf(s.lines), DOMAIN s.lines)
         /\ s.totalCents = Total(CentsOf(s.lines))
<1> DEFINE L == s.lines
           f == CostOf(L)
           g == TokensOf(L)
           D == DOMAIN L
<1>1. L \in Seq(Line) /\ s.total = Total(f) /\ s.tokens = Total(g) /\ s.totalCents = Total(CentsOf(L))
  BY DEF Statement, Shown, LedgerIs
<1>2. IsFiniteSet(D) /\ D = 1..Len(L) /\ f \in [1..Len(L) -> Nat] /\ g \in [1..Len(L) -> Nat]
  BY <1>1, LineColumns
<1>3. DOMAIN f = D /\ DOMAIN g = D /\ (\A x \in D : f[x] \in Nat) /\ \A x \in D : g[x] \in Nat
  BY <1>2
<1> HIDE DEF f, g, D
<1>4. Total(f) \in Nat /\ Total(g) \in Nat /\ Total(f) = SumFunctionOnSet(f, D)
  BY <1>2, <1>3, SumNat, TotalIs
<1>5. QED
  BY <1>1, <1>4 DEF f, D

-----------------------------------------------------------------------------
(***************************************************************************)
(* Every column of a statement closes.                                     *)
(***************************************************************************)

\* The lines of one agent, as they stand.
LEMMA LinesOfIs ==
  ASSUME NEW s \in Seq(Line), NEW own, NEW a, AgentIs(a, s, own)
  PROVE  /\ Listing(InPlace(own), own) /\ LinesOf(s, a) \in Seq(Line)
         /\ ReadOff(LinesOf(s, a), s, InPlace(own), Cardinality(own), Line)
<1>1. own \subseteq DOMAIN s /\ own = Holding(AgentKeysOf(s), <<a.agent, a.version>>)
  BY DEF AgentIs
<1>2. DOMAIN s = 1..Len(s) /\ Len(s) \in Nat /\ \A i \in DOMAIN s : s[i] \in Line
  BY LineColumns
<1>3. own \in SUBSET Int /\ IsFiniteSet(own) /\ \A i \in own : s[i] \in Line
  BY <1>1, <1>2, SumsIn
<1>4. LinesOf(s, a) = Kept(s, own)
  BY <1>1 DEF LinesOf
<1>5. Listing(InPlace(own), own) /\ ReadOff(Kept(s, own), s, InPlace(own), Cardinality(own), Line)
  BY <1>3, KeptIs
<1>6. QED
  BY <1>4, <1>5 DEF ReadOff

OfModel(s, own, x) == {j \in own : s[j].model = x}
ModelCents(s, own, M) == [i \in DOMAIN M |-> SumFunctionOnSet(CentsOf(s), OfModel(s, own, M[i].model))]

\* The models of an agent share out its lines.
LEMMA ModelsSplit ==
  ASSUME NEW s \in Seq(Line), NEW own, NEW a, AgentIs(a, s, own),
         NEW M, NEW held, ModelsFit(M, held, LinesOf(s, a)),
         NEW part, part = [i \in DOMAIN M |-> OfModel(s, own, M[i].model)]
  PROVE  Splits(part, DOMAIN M, own)
<1> DEFINE K == LinesOf(s, a)
           order == InPlace(own)
           n == Cardinality(own)
<1>1. Listing(order, own) /\ K \in Seq(Line) /\ ReadOff(K, s, order, n, Line)
  BY LinesOfIs
<1>2. DOMAIN K = 1..n /\ \A p \in 1..n : K[p] = s[order[p]]
  BY <1>1 DEF ReadOff
<1>3. \A i \in own : \E p \in 1..n : order[p] = i
  BY <1>1 DEF Listing
<1>4. /\ Splits(held, DOMAIN M, DOMAIN K)
      /\ \A i \in DOMAIN M : held[i] # {} /\ held[i] = Holding(ModelsOf(K), M[i].model)
  BY DEF ModelsFit, ModelIs
<1>5. \A p \in 1..n : \A x : p \in Holding(ModelsOf(K), x) <=> K[p].model = x
  BY <1>2 DEF Holding, ModelsOf
<1>6. \A i \in DOMAIN M : part[i] = {j \in own : s[j].model = M[i].model}
  BY DEF OfModel
<1> HIDE DEF K, order, n
<1>7. ASSUME NEW x \in own
      PROVE  \E i \in DOMAIN M : x \in part[i]
  <2>1. PICK p \in 1..n : order[p] = x
    BY <1>3
  <2>2. PICK i \in DOMAIN M : p \in held[i]
    BY <1>2, <1>4 DEF Splits
  <2>3. s[x].model = M[i].model
    BY <1>2, <1>4, <1>5, <2>1, <2>2
  <2>4. QED
    BY <1>6, <2>3
<1>8. ASSUME NEW i \in DOMAIN M, NEW j \in DOMAIN M, NEW x \in own, x \in part[i], x \in part[j]
      PROVE  i = j
  <2>1. M[i].model = M[j].model
    BY <1>6, <1>8
  <2>2. held[i] = held[j] /\ held[i] # {} /\ held[i] \subseteq DOMAIN K
    BY <1>4, <2>1 DEF Splits
  <2>3. QED
    BY <1>4, <2>2 DEF Splits
<1>9. \A i \in DOMAIN M : part[i] \subseteq own
  BY <1>6
<1>10. QED
  BY <1>7, <1>8, <1>9 DEF Splits

\* The cents of an agent's models add up to the agent's.
LEMMA ModelCentsClose ==
  ASSUME NEW s \in Seq(Line), NEW own, NEW a, AgentIs(a, s, own)
  PROVE  Total(ModelCents(s, own, BuildModelShares(LinesOf(s, a)))) = a.cents
<1> DEFINE M == BuildModelShares(LinesOf(s, a))
           I == DOMAIN M
           f == CentsOf(s)
           c == ModelCents(s, own, M)
           part == [i \in DOMAIN M |-> OfModel(s, own, M[i].model)]
<1>1. LinesOf(s, a) \in Seq(Line)
  BY LinesOfIs
<1>2. PICK held : ModelsFit(M, held, LinesOf(s, a))
  BY <1>1, ModelsAre
<1>3. Splits(part, I, own)
  <2> HIDE DEF M
  <2>1. QED
    BY <1>2, ModelsSplit
<1>4. IsFiniteSet(I)
  BY <1>2, UpToN DEF ModelsFit
<1>5. DOMAIN c = I /\ \A i \in I : c[i] = SumFunctionOnSet(f, part[i])
  BY DEF ModelCents
<1>6. own \subseteq DOMAIN s /\ a.cents = SumFunctionOnSet(f, own)
  BY DEF AgentIs
<1>7. IsFiniteSet(own)
  BY <1>6, SumsIn
<1>8. \A x \in own : f[x] \in Int
  <2>1. f \in [1..Len(s) -> Nat] /\ DOMAIN s = 1..Len(s)
    BY LineColumns
  <2> HIDE DEF f
  <2>2. QED
    BY <1>6, <2>1
<1> HIDE DEF I, f, c, part
<1>9. SumFunctionOnSet(c, I) = SumFunctionOnSet(f, own)
  BY <1>3, <1>4, <1>5, <1>7, <1>8, SumOfParts
<1>10. QED
  BY <1>5, <1>6, <1>9, TotalIs DEF c

\* Every column of a statement, of its views and of its exports closes.
LEMMA StatementCloses ==
  ASSUME NEW T, NEW s, Statement(s, T)
  PROVE  Closes(s, SummaryView(s))
<1> DEFINE L == s.lines
           A == s.agents
           M == s.mix
           view == SummaryView(s)
           csv == StatementCsv(view)
           page == StatementPrintHtml(view)
           n == Len(A)
<1>1. /\ L \in Seq(Line) /\ s.total \in Nat /\ s.tokens \in Nat /\ s.totalCents = Total(CentsOf(L))
      /\ s.total = Total(CostOf(L)) /\ s.totalCents = HalfUp(s.total, PerCent)
      /\ s.tokens = Total(TokensOf(L)) /\ A = BuildAgentGroups(L) /\ M = BuildModelShares(L)
      /\ s.mixByAgent = BuildModelMixByAgent(L, A) /\ s.cache = FinishCache(CacheOf(T))
      /\ T \in SUBSET Usages /\ IsFiniteSet(T)
  BY StatementTotals DEF Statement
<1>2. PICK own : AgentsFit(A, own, L) /\ AgentsShare(A)
  BY <1>1, AgentsAre
<1>3. PICK held : ModelsFit(M, held, L)
  BY <1>1, ModelsAre
<1>4. /\ view.totalCents = s.totalCents /\ view.tokens = s.tokens /\ view.lines = L
      /\ view.agents = AgentGroupViews(s) /\ view.agentMix = AgentMixView(A)
      /\ view.modelMix = ModelMixCents(M)
      /\ view.modelsOf = [i \in DOMAIN s.mixByAgent |-> AgentModelDisplayCents(L, s.mixByAgent[i])]
      /\ view.cache = CacheSavingsView(s.cache)
  BY DEF SummaryView
<1>5. /\ csv.rows = [i \in DOMAIN view.lines |-> [tokens |-> view.lines[i].tokens, cents |-> view.lines[i].cents]]
      /\ csv.footer.tokens = view.tokens /\ csv.footer.cents = view.totalCents
  BY DEF StatementCsv
<1>6. /\ page.agents = [i \in DOMAIN view.agents |-> [tokens |-> view.agents[i].tokens, cents |-> view.agents[i].cents]]
      /\ page.hero = view.totalCents
  BY DEF StatementPrintHtml
<1>7. /\ DOMAIN view.agents = DOMAIN A
      /\ \A i \in DOMAIN A : view.agents[i].tokens = A[i].tokens /\ view.agents[i].cents = A[i].cents
  BY <1>4 DEF AgentGroupViews, AgentGroupView
<1>8. DOMAIN s.mixByAgent = DOMAIN A
  BY <1>1 DEF BuildModelMixByAgent
<1>9. \A i \in DOMAIN A : /\ s.mixByAgent[i].agent = A[i].agent /\ s.mixByAgent[i].version = A[i].version
                          /\ s.mixByAgent[i].models = BuildModelShares(LinesOf(L, A[i]))
  BY <1>1 DEF BuildModelMixByAgent
<1> HIDE DEF view, csv, page, L, A, M
<1>10. CentsOf(csv.rows) = CentsOf(L) /\ TokensOf(csv.rows) = TokensOf(L)
  BY <1>4, <1>5 DEF CentsOf, TokensOf
<1>11. CentsOf(page.agents) = CentsOf(A) /\ TokensOf(page.agents) = TokensOf(A)
  BY <1>6, <1>7 DEF CentsOf, TokensOf
<1>12. Total(CentsOf(csv.rows)) = csv.footer.cents /\ Total(TokensOf(csv.rows)) = csv.footer.tokens
  BY <1>1, <1>4, <1>5, <1>10
<1>13. /\ Total(CentsOf(page.agents)) = page.hero /\ Total(TokensOf(page.agents)) = view.tokens
       /\ Total(CostOf(A)) = s.total
  <2>1. Total(CentsOf(A)) = Total(CentsOf(L)) /\ Total(TokensOf(A)) = Total(TokensOf(L)) /\ Total(CostOf(A)) = Total(CostOf(L))
    BY <1>1, <1>2, AgentSums
  <2>2. QED
    BY <1>1, <1>4, <1>6, <1>11, <2>1
<1>14. n \in Nat /\ DOMAIN A = 1..n /\ \A i \in 1..n : A[i].cents \in Nat
  BY <1>2 DEF AgentsFit, AgentIs
<1>15. CentsOf(A) \in [1..n -> Nat] /\ CostOf(A) \in [1..n -> Nat] /\ BpOf(A) \in [1..n -> Nat]
  BY <1>2, <1>14 DEF CentsOf, AgentsShare
<1>16. MixFits(AgentMixView(A), A)
  <2> HIDE DEF n
  <2>1. QED
    BY <1>14, <1>15, AgentMixIs
<1>17. Total(CentsOf(view.agentMix)) = view.totalCents
  BY <1>1, <1>2, <1>4, <1>16, AgentSums DEF MixFits
<1>18. Total(view.modelMix) = view.totalCents
  <2> DEFINE m == Len(M)
             c == CostOf(M)
             r == ReconcileDisplayCents(c)
  <2>1. m \in Nat /\ DOMAIN M = 1..m /\ c \in [1..m -> Nat]
    BY <1>3 DEF ModelsFit
  <2>2. SumFunctionOnSet(c, 1..m) = s.total
    BY <1>1, <1>3, <2>1, ModelSums
  <2> HIDE DEF m, c
  <2>3. r \in [1..m -> Nat] /\ SumFunctionOnSet(r, 1..m) = HalfUp(SumFunctionOnSet(c, 1..m), PerCent)
    BY <2>1, ReconcileCloses
  <2>4. DOMAIN r = 1..m
    BY <2>3
  <2> HIDE DEF r
  <2>5. Total(r) = HalfUp(s.total, PerCent)
    BY <2>2, <2>3, <2>4, TotalIs
  <2>6. QED
    BY <1>1, <1>4, <2>5 DEF ModelMixCents, r, c
<1>19. ASSUME NEW i \in DOMAIN view.agents
       PROVE  Total(view.modelsOf[i]) = view.agents[i].cents
  <2> DEFINE x == s.mixByAgent[i]
  <2>1. i \in DOMAIN A /\ AgentIs(A[i], L, own[i])
    BY <1>2, <1>7, <1>19 DEF AgentsFit
  <2>2. view.modelsOf[i] = AgentModelDisplayCents(L, x)
    BY <1>4, <1>8, <2>1
  <2>3. own[i] = Holding(AgentKeysOf(L), <<x.agent, x.version>>) /\ x.models = BuildModelShares(LinesOf(L, A[i]))
    BY <1>9, <2>1 DEF AgentIs
  <2> HIDE DEF x
  <2>4. AgentModelDisplayCents(L, x) = ModelCents(L, own[i], x.models)
    BY <2>3 DEF AgentModelDisplayCents, ModelCents, OfModel
  <2>5. Total(ModelCents(L, own[i], BuildModelShares(LinesOf(L, A[i])))) = A[i].cents
    BY <1>1, <2>1, ModelCentsClose
  <2>6. QED
    BY <1>7, <2>1, <2>2, <2>3, <2>4, <2>5
<1>20. s.total > 0 => Total(BpOf(A)) = FullBp
  <2>1. DOMAIN CostOf(A) = DOMAIN A /\ DOMAIN BpOf(A) = DOMAIN A
    BY DEF CostOf, BpOf
  <2>2. SumFunctionOnSet(CostOf(A), DOMAIN A) = s.total
    BY <1>13, <2>1, TotalIs
  <2>3. QED
    BY <1>2, <2>1, <2>2, TotalIs DEF AgentsShare
<1>21. s.total > 0 => Total([i \in DOMAIN M |-> M[i].costBp]) = FullBp
  <2>1. DOMAIN CostBpOf(M) = DOMAIN M /\ CostBpOf(M) = [i \in DOMAIN M |-> M[i].costBp]
    BY DEF CostBpOf
  <2>2. SumFunctionOnSet(CostOf(M), DOMAIN M) = s.total
    BY <1>1, <1>3, ModelSums
  <2>3. QED
    BY <1>3, <2>1, <2>2, TotalIs DEF ModelsFit
<1>22. s.tokens > 0 => Total([i \in DOMAIN M |-> M[i].tokenBp]) = FullBp
  <2>1. DOMAIN TokenBpOf(M) = DOMAIN M /\ TokenBpOf(M) = [i \in DOMAIN M |-> M[i].tokenBp]
    BY DEF TokenBpOf
  <2>2. QED
    BY <1>1, <1>3, <2>1, TotalIs DEF ModelsFit
<1>23. view.cache.net + view.cache.write + view.cache.actual = view.cache.asInput
  BY <1>1, <1>4, CacheShown DEF CacheCloses
<1>24. QED
  BY <1>12, <1>13, <1>17, <1>18, <1>19, <1>20, <1>21, <1>22, <1>23 DEF Closes, A, M, csv, page, view

-----------------------------------------------------------------------------
(***************************************************************************)
(* Bars: percentages rounded one by one.                                   *)
(***************************************************************************)

\* A percentage misses by half a unit at most.
LEMMA PartOfIs ==
  ASSUME NEW c \in Nat, NEW d \in Nat \ {0}
  PROVE  /\ PartOf(c, d) \in Int
         /\ 2 * (d * PartOf(c, d)) <= 2 * (FullBp * c) + d
         /\ 2 * (d * PartOf(c, d)) >= 2 * (FullBp * c) - d
<1> DEFINE a == c * FullBp
<1>1. a \in Int /\ a = FullBp * c /\ d > 0
  BY FoldAssumption
<1>2. PartOf(c, d) = HalfUp(a, d)
  BY <1>1 DEF PartOf
<1> HIDE DEF a
<1>3. QED
  BY <1>1, <1>2, HalfUpIs

\* Dividing by d.
LEMMA Within ==
  ASSUME NEW d \in Nat \ {0}, NEW x \in Int, NEW n \in Nat, d * x <= d * n + d, d * x >= 0 - (d * n + d)
  PROVE  x \in -(n + 1)..(n + 1)
<1>1. x <= n + 1
  <2>1. d * (n + 1) = d * n + d
    OBVIOUS
  <2>2. d * x < d * (n + 1) + d
    BY <2>1
  <2>3. QED
    BY <2>2, TimesLess
<1>2. 0 - x <= n + 1
  <2>1. d * (n + 1) = d * n + d /\ d * (0 - x) = 0 - d * x
    OBVIOUS
  <2>2. d * (0 - x) < d * (n + 1) + d
    BY <2>1
  <2>3. QED
    BY <2>2, TimesLess
<1>3. QED
  BY <1>1, <1>2

Parts(parts, c, d, K) ==
  /\ DOMAIN parts = K
  /\ \A k \in K : c[k] \in Nat
  /\ \A k \in K : parts[k] = PartOf(c[k], d)

\* Rounded one by one, the parts of a whole miss the whole rounded by half a
\* unit each at most.
LEMMA PartsTile ==
  ASSUME NEW K, IsFiniteSet(K), NEW c, NEW d \in Nat, NEW parts, Parts(parts, c, d, K)
  PROVE  Tiles(parts, PartOf(SumFunctionOnSet(c, K), d))
<1> DEFINE n == Cardinality(K)
           C == SumFunctionOnSet(c, K)
           P == SumFunctionOnSet(parts, K)
           W == PartOf(C, d)
<1>1. n \in Nat
  BY FS_CardinalityType
<1>2. C \in Nat
  BY SumNat DEF Parts
<1>3. Total(parts) = P
  BY TotalIs DEF Parts
<1>4. 2 * (W - P) \in -(n + 1)..(n + 1) => Tiles(parts, W)
  BY <1>3 DEF Tiles, Parts
<1>5. CASE d = 0
  <2>1. W = 0
    BY <1>5 DEF PartOf
  <2>2. \A k \in K : parts[k] = 0
    BY <1>5 DEF Parts, PartOf
  <2>3. P = 0
    BY <2>2, SumZeros
  <2> HIDE DEF W, P, n
  <2>4. 2 * (W - P) \in -(n + 1)..(n + 1)
    BY <1>1, <2>1, <2>3
  <2>5. QED
    BY <1>4, <2>4 DEF W
<1>6. CASE d # 0
  <2> DEFINE e == [k \in K |-> (2 * d) * parts[k]]
             f == [k \in K |-> (2 * FullBp) * c[k]]
             low == 0 - d
  <2>1. d \in Nat \ {0} /\ FullBp \in Nat
    BY <1>6, FoldAssumption
  <2>2. ASSUME NEW k \in K
        PROVE  /\ parts[k] \in Int /\ c[k] \in Nat /\ e[k] = (2 * d) * parts[k] /\ f[k] = (2 * FullBp) * c[k]
               /\ e[k] \in Int /\ f[k] \in Int /\ low <= e[k] - f[k] /\ e[k] - f[k] <= d
    <3> DEFINE p == parts[k]
               x == c[k]
    <3>1. p = PartOf(x, d) /\ x \in Nat /\ e[k] = (2 * d) * p /\ f[k] = (2 * FullBp) * x
      BY DEF Parts
    <3> HIDE DEF p, x, e, f
    <3>2. p \in Int /\ 2 * (d * p) <= 2 * (FullBp * x) + d /\ 2 * (d * p) >= 2 * (FullBp * x) - d
      BY <2>1, <3>1, PartOfIs
    <3>3. (2 * d) * p = 2 * (d * p) /\ (2 * FullBp) * x = 2 * (FullBp * x)
      BY <2>1, <3>1, <3>2
    <3>4. d * p \in Int /\ FullBp * x \in Int
      BY <2>1, <3>1, <3>2
    <3>5. e[k] = 2 * (d * p) /\ f[k] = 2 * (FullBp * x)
      BY <3>1, <3>3
    <3> DEFINE u == d * p
               v == FullBp * x
    <3>6. e[k] = 2 * u /\ f[k] = 2 * v /\ u \in Int /\ v \in Int /\ 2 * u <= 2 * v + d /\ 2 * u >= 2 * v - d
      BY <3>2, <3>4, <3>5
    <3> HIDE DEF u, v
    <3>7. e[k] \in Int /\ f[k] \in Int /\ low <= e[k] - f[k] /\ e[k] - f[k] <= d
      BY <3>6
    <3>8. QED
      BY <3>1, <3>2, <3>7 DEF p, x
  <2>3. low \in Int /\ low = 0 - d
    OBVIOUS
  <2> DEFINE E == SumFunctionOnSet(e, K)
             F == SumFunctionOnSet(f, K)
  <2> HIDE DEF e, f, low
  <2>4. low * n <= E - F /\ E - F <= d * n
    <3>1. \A k \in K : e[k] \in Int /\ f[k] \in Int /\ low <= e[k] - f[k] /\ e[k] - f[k] <= d
      BY <2>2
    <3>2. QED
      BY <2>3, <3>1, SumNear
  <2>5. E = (2 * d) * P
    <3> DEFINE a == 2 * d
    <3>1. a \in Int /\ Times(e, a, parts, K)
      BY <2>2 DEF Times
    <3> HIDE DEF a
    <3>2. SumFunctionOnSet(e, K) = a * SumFunctionOnSet(parts, K)
      BY <3>1, SumTimes
    <3>3. QED
      BY <3>2 DEF a
  <2>6. F = (2 * FullBp) * C
    <3> DEFINE a == 2 * FullBp
    <3>1. a \in Int /\ Times(f, a, c, K)
      BY <2>1, <2>2 DEF Times
    <3> HIDE DEF a
    <3>2. SumFunctionOnSet(f, K) = a * SumFunctionOnSet(c, K)
      BY <3>1, SumTimes
    <3>3. QED
      BY <3>2 DEF a
  <2>7. P \in Int
    BY <2>2, SumInt
  <2>8. W \in Int /\ 2 * (d * W) <= 2 * (FullBp * C) + d /\ 2 * (d * W) >= 2 * (FullBp * C) - d
    BY <1>2, <2>1, PartOfIs
  <2> HIDE DEF E, F, P, C, W, n
  <2>9. 2 * (W - P) \in -(n + 1)..(n + 1)
    <3> DEFINE x == 2 * (W - P)
               dW == d * W
               dP == d * P
               FC == FullBp * C
               dn == d * n
    <3>1. d * x = 2 * dW - 2 * dP /\ dW \in Int /\ dP \in Int /\ FC \in Int /\ dn \in Int
      BY <1>1, <1>2, <2>1, <2>7, <2>8
    <3>2. E = 2 * dP /\ F = 2 * FC /\ low * n = 0 - dn
      BY <1>1, <1>2, <2>1, <2>3, <2>5, <2>6, <2>7
    <3>3. 2 * dW <= 2 * FC + d /\ 2 * dW >= 2 * FC - d
      BY <2>8
    <3>4. 0 - dn <= 2 * dP - 2 * FC /\ 2 * dP - 2 * FC <= dn
      BY <2>4, <3>2
    <3> HIDE DEF dW, dP, FC, dn
    <3>5. d * x <= dn + d /\ d * x >= 0 - (dn + d)
      BY <2>1, <3>1, <3>3, <3>4
    <3>6. d * x <= d * n + d /\ d * x >= 0 - (d * n + d)
      BY <3>5 DEF dn
    <3>7. x \in Int
      BY <2>7, <2>8
    <3> HIDE DEF x
    <3>8. x \in -(n + 1)..(n + 1)
      BY <1>1, <2>1, <3>6, <3>7, Within
    <3>9. QED
      BY <3>8 DEF x
  <2>10. QED
    BY <1>4, <2>9 DEF W, C
<1>7. QED
  BY <1>5, <1>6 DEF W, C

\* Costs by token type, as the bars split them.
TypeCosts(byType, cost) ==
  /\ DOMAIN byType \subseteq Range(TokenTypes)
  /\ \A t \in DOMAIN byType : byType[t] \in Nat
  /\ cost = SumFunctionOnSet(byType, DOMAIN byType)

\* There are four token types.
LEMMA TypesAre ==
  /\ IsFiniteSet(Range(TokenTypes)) /\ DOMAIN TokenTypes = 1..4
  /\ \A i, j \in 1..4 : TokenTypes[i] = TokenTypes[j] => i = j
<1>1. DOMAIN TokenTypes = 1..4 /\ \A i, j \in 1..4 : TokenTypes[i] = TokenTypes[j] => i = j
  BY DEF TokenTypes
<1>2. IsFiniteSet(1..4)
  BY UpToN
<1> DEFINE I == 1..4
<1>4. TokenTypes = [i \in I |-> TokenTypes[i]] /\ Range(TokenTypes) = {TokenTypes[i] : i \in I}
  <2>1. TokenTypes = [i \in DOMAIN TokenTypes |-> TokenTypes[i]]
    BY DEF TokenTypes
  <2>2. QED
    BY <1>1, <2>1 DEF Range
<1> HIDE DEF I
<1>3. IsFiniteSet(Range(TokenTypes))
  BY <1>2, <1>4, ImageFinite DEF I
<1>5. QED
  BY <1>1, <1>3

\* The segments of a bar tile it.
LEMMA SegmentsTile ==
  ASSUME NEW byType, NEW cost, TypeCosts(byType, cost), NEW track \in Nat
  PROVE  Tiles(ToSegments(byType, track), PartOf(cost, track))
<1> DEFINE N == TokenTypes
           B == DOMAIN byType
           I == {i \in DOMAIN N : N[i] \in B /\ byType[N[i]] > 0}
           kinds == Kept(N, I)
           order == InPlace(I)
           n == Cardinality(I)
           K == 1..n
           c == [k \in K |-> byType[kinds[k]]]
           b == [i \in I |-> byType[N[i]]]
           parts == ToSegments(byType, track)
           Q == {t \in B : byType[t] > 0}
           Z == {t \in B : ~(byType[t] > 0)}
<1>1. DOMAIN N = 1..4 /\ (\A i, j \in 1..4 : N[i] = N[j] => i = j) /\ IsFiniteSet(Range(N)) /\ Range(N) = {N[i] : i \in DOMAIN N}
  BY TypesAre DEF Range
<1>2. B \subseteq Range(N) /\ (\A t \in B : byType[t] \in Nat) /\ cost = SumFunctionOnSet(byType, B)
  BY DEF TypeCosts
<1>3. I \in SUBSET Int /\ IsFiniteSet(I)
  <2>1. IsFiniteSet(1..4)
    BY UpToN
  <2>2. I \subseteq 1..4
    BY <1>1
  <2>3. QED
    BY <2>1, <2>2, FS_Subset
<1>4. IsFiniteSet(B) /\ IsFiniteSet(Q) /\ IsFiniteSet(Z)
  BY <1>1, <1>2, FS_Subset
<1>5. parts = [i \in DOMAIN kinds |-> PartOf(byType[kinds[i]], track)]
  BY DEF ToSegments
<1>6. \A i \in I : i \in 1..4 /\ N[i] \in B /\ byType[N[i]] \in Nat /\ byType[N[i]] > 0
  BY <1>1, <1>2
<1>7. \A t \in Q : \E i \in I : N[i] = t
  BY <1>1, <1>2
<1>8. Q \cap Z = {} /\ Q \cup Z = B /\ (\A t \in Z : byType[t] = 0) /\ \A i \in I : N[i] \in Q
  BY <1>2
<1> HIDE DEF N, B, I, parts, order, kinds, Q, Z
<1>9. Listing(order, I) /\ ReadOff(kinds, N, order, n, Range(N))
  <2>1. \A i \in I : N[i] \in Range(N)
    BY <1>2, <1>6
  <2> DEFINE S == Range(N)
  <2> HIDE DEF S
  <2>2. Listing(InPlace(I), I) /\ ReadOff(Kept(N, I), N, InPlace(I), Cardinality(I), S)
    BY <1>3, <2>1, KeptIs DEF S
  <2>3. QED
    BY <2>2 DEF order, kinds, S
<1>10. n \in Nat /\ DOMAIN kinds = K /\ \A k \in K : order[k] \in I /\ kinds[k] = N[order[k]]
  BY <1>9 DEF ReadOff, Listing
<1>11. \A k \in K : c[k] = b[order[k]] /\ c[k] \in Nat
  BY <1>6, <1>10
<1>12. IsFiniteSet(K)
  BY <1>10, UpToN
<1>13. Parts(parts, c, track, K)
  BY <1>5, <1>10, <1>11 DEF Parts
<1>14. \A i \in I : b[i] \in Int /\ b[i] = byType[N[i]] /\ byType[N[i]] \in Int
  BY <1>6
<1> HIDE DEF n, K, c, b
<1>15. SumFunctionOnSet(c, K) = SumFunctionOnSet(b, I)
  <2>1. \A k \in 1..Cardinality(I) : c[k] = b[order[k]]
    BY <1>11 DEF K, n
  <2>2. SumFunctionOnSet(c, 1..Cardinality(I)) = SumFunctionOnSet(b, I)
    BY <1>9, <1>14, <2>1, SumListed
  <2>3. QED
    BY <2>2 DEF K, n
<1>16. SumFunctionOnSet(b, I) = SumFunctionOnSet(byType, Q)
  <2>1. Numbers(N, I, Q)
    BY <1>1, <1>6, <1>7, <1>8 DEF Numbers
  <2>2. Follows(b, byType, N, I)
    BY <1>14 DEF Follows
  <2>3. QED
    BY <1>3, <2>1, <2>2, SumAlong
<1>17. SumFunctionOnSet(byType, B) = SumFunctionOnSet(byType, Q)
  <2>1. SumFunctionOnSet(byType, Z) = 0
    BY <1>4, <1>8, SumZeros
  <2>2. \A t \in Q \cup Z : byType[t] \in Int
    BY <1>2, <1>8
  <2>3. SumFunctionOnSet(byType, Q \cup Z) = SumFunctionOnSet(byType, Q) + SumFunctionOnSet(byType, Z)
    BY <1>4, <1>8, <2>2, SumUnion
  <2>4. \A t \in Q : byType[t] \in Int
    BY <2>2
  <2>5. SumFunctionOnSet(byType, Q) \in Int
    BY <1>4, <2>4, SumInt
  <2>6. QED
    BY <1>8, <2>1, <2>3, <2>5
<1>18. SumFunctionOnSet(c, K) = cost
  BY <1>2, <1>15, <1>16, <1>17
<1>19. Tiles(parts, PartOf(cost, track))
  BY <1>12, <1>13, <1>18, PartsTile
<1>20. QED
  BY <1>19 DEF parts

\* The costs of some lines by their type.
LEMMA ByTypeIs ==
  ASSUME NEW s \in Seq(Line), NEW own \in SUBSET DOMAIN s
  PROVE  TypeCosts(CostByType(s, own), SumFunctionOnSet(CostOf(s), own))
<1> DEFINE f == CostOf(s)
           types == {s[i].type : i \in own}
           part == [t \in types |-> {i \in own : s[i].type = t}]
           c == CostByType(s, own)
<1>1. IsFiniteSet(own) /\ \A i \in own : s[i].type \in Range(TokenTypes)
  BY SumsIn, LineColumns, LineFields
<1>2. \A i \in own : f[i] \in Nat
  <2>1. f \in [1..Len(s) -> Nat] /\ DOMAIN s = 1..Len(s)
    BY LineColumns
  <2> HIDE DEF f
  <2>2. QED
    BY <2>1
<1>3. DOMAIN c = types /\ \A t \in types : c[t] = SumFunctionOnSet(f, part[t])
  BY DEF CostByType
<1>4. types \subseteq Range(TokenTypes) /\ IsFiniteSet(types)
  <2>1. types \subseteq Range(TokenTypes)
    BY <1>1
  <2>2. QED
    BY <2>1, TypesAre, FS_Subset
<1>5. Splits(part, types, own)
  <2>1. \A t \in types : part[t] = {i \in own : s[i].type = t}
    OBVIOUS
  <2>2. \A i \in own : s[i].type \in types
    OBVIOUS
  <2> HIDE DEF part, types
  <2>3. QED
    BY <2>1, <2>2 DEF Splits
<1> HIDE DEF f, types, part, c
<1>6. ASSUME NEW t \in types
      PROVE  c[t] \in Nat
  <2> DEFINE p == part[t]
  <2>1. p \subseteq own
    BY <1>5 DEF Splits
  <2>2. IsFiniteSet(p) /\ \A i \in p : f[i] \in Nat
    BY <1>1, <1>2, <2>1, FS_Subset
  <2> HIDE DEF p
  <2>3. SumFunctionOnSet(f, p) \in Nat
    BY <2>2, SumNat
  <2>4. QED
    BY <1>3, <2>3 DEF p
<1>7. SumFunctionOnSet(c, types) = SumFunctionOnSet(f, own)
  <2>1. (\A i \in own : f[i] \in Int) /\ \A t \in types : c[t] = SumFunctionOnSet(f, part[t])
    BY <1>2, <1>3
  <2>2. QED
    BY <1>1, <1>4, <1>5, <2>1, SumOfParts
<1>8. TypeCosts(c, SumFunctionOnSet(f, own))
  BY <1>3, <1>4, <1>6, <1>7 DEF TypeCosts
<1>9. QED
  BY <1>8 DEF c, f

-----------------------------------------------------------------------------
(***************************************************************************)
(* Cards and donuts.                                                       *)
(***************************************************************************)

\* The cents of an agent's lines, listed under its card.
LEMMA CardCloses ==
  ASSUME NEW s \in Seq(Line), NEW own, NEW a, AgentIs(a, s, own)
  PROVE  Total(CentsOf(LinesOf(s, a))) = a.cents
<1> DEFINE K == LinesOf(s, a)
           order == InPlace(own)
           n == Cardinality(own)
           f == CentsOf(s)
           g == CentsOf(K)
<1>1. Listing(order, own) /\ ReadOff(K, s, order, n, Line)
  BY LinesOfIs
<1>2. DOMAIN K = 1..n /\ \A p \in 1..n : K[p] = s[order[p]] /\ order[p] \in own
  BY <1>1 DEF ReadOff, Listing
<1>3. own \subseteq DOMAIN s /\ a.cents = SumFunctionOnSet(f, own)
  BY DEF AgentIs
<1>4. \A i \in own : f[i] \in Nat /\ f[i] = s[i].cents
  BY <1>3, LineColumns
<1> HIDE DEF order, n, K
<1>5. DOMAIN g = 1..n /\ \A p \in 1..n : g[p] = f[order[p]]
  BY <1>2, <1>4 DEF CentsOf
<1> HIDE DEF f, g
<1>6. SumFunctionOnSet(g, 1..n) = SumFunctionOnSet(f, own)
  <2>1. \A p \in 1..Cardinality(own) : g[p] = f[order[p]]
    BY <1>5 DEF n
  <2>2. \A i \in own : f[i] \in Int
    BY <1>4
  <2>3. QED
    BY <1>1, <2>1, <2>2, SumListed DEF n
<1>7. QED
  BY <1>3, <1>5, <1>6, TotalIs DEF K, g

\* The whole is the full track.
LEMMA WholeIsFull ==
  ASSUME NEW c \in Nat, c > 0
  PROVE  PartOf(c, c) = FullBp
<1>1. FullBp \in Int /\ c \in Nat \ {0}
  BY FoldAssumption
<1>2. HalfUp(c * FullBp, c) = FullBp
  BY <1>1, HalfUpExact
<1>3. QED
  BY <1>2 DEF PartOf

\* The last slice of a donut ends where the shares add up.
LEMMA DonutCloses ==
  ASSUME NEW n \in Nat, n > 0, NEW bps \in [1..n -> Nat]
  PROVE  Slices(bps)[Cardinality(DOMAIN Slices(bps))].end = SumFunctionOnSet(bps, 1..n)
<1>1. DOMAIN Slices(bps) = 1..n /\ Cardinality(1..n) = n /\ n \in 1..n
  BY UpToN DEF Slices
<1>2. Slices(bps)[n].end = SumFunctionOnSet(bps, 1..n)
  BY <1>1 DEF Slices
<1>3. QED
  BY <1>1, <1>2

\* Cards and donuts of a statement that costs something.
LEMMA StatementDrawn ==
  ASSUME NEW T, NEW s, Statement(s, T)
  PROVE  Drawn(s, SummaryView(s))
<1> SUFFICES ASSUME s.total > 0
             PROVE  Drawn(s, SummaryView(s))
  BY DEF Drawn
<1> DEFINE L == s.lines
           A == s.agents
           view == SummaryView(s)
           n == Len(A)
           widest == A[1].cost
           V == AgentMixView(A)
<1>1. /\ L \in Seq(Line) /\ s.total \in Nat /\ s.total = Total(CostOf(L)) /\ A = BuildAgentGroups(L)
  BY StatementTotals DEF Statement
<1>2. PICK own : AgentsFit(A, own, L) /\ AgentsShare(A)
  BY <1>1, AgentsAre
<1>3. view.agents = AgentGroupViews(s) /\ view.agentMix = V
  BY DEF SummaryView
<1>4. /\ DOMAIN view.agents = DOMAIN A
      /\ \A i \in DOMAIN A : /\ view.agents[i].bar = PartOf(A[i].cost, widest)
                             /\ view.agents[i].segments = ToSegments(A[i].byType, widest)
                             /\ view.agents[i].lines = LinesOf(L, A[i])
                             /\ view.agents[i].cents = A[i].cents
  BY <1>3 DEF AgentGroupViews, AgentGroupView
<1> HIDE DEF L, A, view, V
<1>5. Total(CostOf(A)) = s.total
  BY <1>1, <1>2, AgentSums
<1>6. n \in Nat /\ DOMAIN A = 1..n /\ \A i \in 1..n : AgentIs(A[i], L, own[i]) /\ A[i].cost <= A[1].cost
  BY <1>2 DEF AgentsFit
<1>7. \A i \in 1..n : A[i].cost \in Nat /\ A[i].cents \in Nat
  BY <1>6 DEF AgentIs
<1>8. /\ CostOf(A) \in [1..n -> Nat] /\ CentsOf(A) \in [1..n -> Nat] /\ BpOf(A) \in [1..n -> Nat]
      /\ \A i \in 1..n : CostOf(A)[i] = A[i].cost
  BY <1>2, <1>6, <1>7 DEF CostOf, CentsOf, AgentsShare
<1> HIDE DEF n
<1>9. SumFunctionOnSet(CostOf(A), 1..n) = s.total
  BY <1>5, <1>8, TotalIs
<1>10. 1 \in 1..n /\ widest \in Nat /\ widest > 0
  <2>1. IsFiniteSet(1..n)
    BY <1>6, UpToN
  <2>2. \E i \in 1..n : CostOf(A)[i] # 0
    <3>1. SUFFICES ASSUME \A i \in 1..n : CostOf(A)[i] = 0
                   PROVE  FALSE
      OBVIOUS
    <3> DEFINE I == 1..n
    <3> HIDE DEF I
    <3>2. SumFunctionOnSet(CostOf(A), I) = 0
      BY <2>1, <3>1, SumZeros DEF I
    <3>3. QED
      BY <1>1, <1>9, <3>2 DEF I
  <2>3. PICK i \in 1..n : A[i].cost # 0
    BY <1>8, <2>2
  <2>4. 1 \in 1..n
    BY <1>6
  <2>5. QED
    BY <1>6, <1>7, <2>3, <2>4
<1>11. view.agents[1].bar = FullBp
  <2> HIDE DEF widest
  <2>1. view.agents[1].bar = PartOf(widest, widest)
    BY <1>4, <1>6, <1>10 DEF widest
  <2>2. QED
    BY <1>10, <2>1, WholeIsFull
<1> HIDE DEF widest
<1>12. ASSUME NEW i \in DOMAIN view.agents
       PROVE  Total(CentsOf(view.agents[i].lines)) = view.agents[i].cents
  BY <1>1, <1>4, <1>6, CardCloses
<1>13. ASSUME NEW i \in DOMAIN view.agents
       PROVE  Tiles(view.agents[i].segments, view.agents[i].bar)
  <2>1. AgentIs(A[i], L, own[i]) /\ i \in DOMAIN A
    BY <1>4, <1>6
  <2>2. own[i] \in SUBSET DOMAIN L /\ A[i].byType = CostByType(L, own[i]) /\ A[i].cost = SumFunctionOnSet(CostOf(L), own[i])
    BY <2>1 DEF AgentIs
  <2>3. TypeCosts(A[i].byType, A[i].cost)
    BY <1>1, <2>2, ByTypeIs
  <2>4. Tiles(ToSegments(A[i].byType, widest), PartOf(A[i].cost, widest))
    BY <1>10, <2>3, SegmentsTile
  <2>5. QED
    BY <1>4, <2>1, <2>4
<1>14. Slices(BpOf(V))[Cardinality(DOMAIN Slices(BpOf(V)))].end = FullBp
  <2> DEFINE m == Len(V)
             b == BpOf(V)
  <2>1. MixFits(V, A)
    BY <1>6, <1>8, AgentMixIs DEF V
  <2>2. m \in Nat /\ m > 0 /\ b \in [1..m -> Nat] /\ DOMAIN V = 1..m
    BY <1>6, <1>10, <2>1 DEF MixFits
  <2>3. SumFunctionOnSet(b, 1..m) = SumFunctionOnSet(BpOf(A), DOMAIN A)
    BY <2>1, <2>2 DEF MixFits
  <2>4. SumFunctionOnSet(BpOf(A), DOMAIN A) = FullBp
    BY <1>2, <1>6, <1>9 DEF AgentsShare
  <2> HIDE DEF m, b
  <2>5. Slices(b)[Cardinality(DOMAIN Slices(b))].end = SumFunctionOnSet(b, 1..m)
    BY <2>2, DonutCloses
  <2>6. QED
    BY <2>3, <2>4, <2>5 DEF b
<1>15. QED
  BY <1>3, <1>11, <1>12, <1>13, <1>14 DEF Drawn, view

-----------------------------------------------------------------------------
(***************************************************************************)
(* The bar of an open month, from the stamps themselves.                   *)
(***************************************************************************)

\* Lines of one key agree on agent, version, model and type.
LEMMA KeyFields ==
  ASSUME NEW l, NEW m, LineKey(l) = LineKey(m)
  PROVE  l.agent = m.agent /\ l.version = m.version /\ l.model = m.model /\ l.type = m.type
  BY DEF LineKey

\* The lines at I are those of the stamps X.
Matches(I, X, L, T) ==
  /\ I \subseteq DOMAIN L /\ X \subseteq Stamps(T)
  /\ \A i \in DOMAIN L : \A x \in Stamps(T) : LineKey(L[i]) = KeyOf(x) => (i \in I <=> x \in X)

\* The costs of a statement's lines are those of the stamps they sum.
LEMMA SameSums ==
  ASSUME NEW T \in SUBSET Usages, IsFiniteSet(Stamps(T)), NEW L, LedgerIs(L, T),
         NEW I, NEW X, Matches(I, X, L, T)
  PROVE  /\ SumFunctionOnSet(CostOf(L), I) = SumFunctionOnSet(StampCost, X)
         /\ I = {} <=> X = {}
         /\ IsFiniteSet(X) /\ IsFiniteSet(I)
<1> DEFINE part == [i \in I |-> Keyed(T, LineKey(L[i]))]
           c == CostOf(L)
           f == StampCost
<1>1. L \in Seq(Line) /\ I \in SUBSET DOMAIN L /\ X \subseteq Stamps(T)
  BY DEF LedgerIs, Matches
<1>2. IsFiniteSet(X) /\ IsFiniteSet(I)
  BY <1>1, SumsIn, FS_Subset
<1>3. \A x \in X : f[x] \in Int
  <2>1. Stamps(T) \subseteq Stamps(Usages)
    BY DEF Stamps
  <2>2. QED
    BY <1>1, <2>1, StampIn
<1>4. \A i \in I : /\ part[i] = {x \in Stamps(T) : KeyOf(x) = LineKey(L[i])} /\ part[i] # {}
                   /\ c[i] = SumFunctionOnSet(f, part[i])
  <2>1. \A i \in I : i \in DOMAIN L /\ LineSums(L[i], T) /\ c[i] = L[i].cost
    BY <1>1 DEF LedgerIs, CostOf
  <2> HIDE DEF c, f
  <2>2. \A i \in I : part[i] = Keyed(T, LineKey(L[i]))
    OBVIOUS
  <2> HIDE DEF part
  <2>3. QED
    BY <2>1, <2>2 DEF LineSums, Keyed, f
<1> HIDE DEF c, f, part
<1>5. \A x \in X : \E i \in I : x \in part[i]
  <2> TAKE x \in X
  <2>1. PICK i \in DOMAIN L : LineKey(L[i]) = KeyOf(x)
    BY <1>1 DEF LedgerIs
  <2>2. i \in I
    BY <1>1, <2>1 DEF Matches
  <2>3. QED
    BY <1>1, <1>4, <2>1, <2>2
<1>6. \A i \in I : part[i] \subseteq X
  BY <1>1, <1>4 DEF Matches
<1>7. \A i, j \in I : \A x \in X : x \in part[i] /\ x \in part[j] => i = j
  BY <1>1, <1>4 DEF LedgerIs
<1>8. Splits(part, I, X)
  BY <1>5, <1>6, <1>7 DEF Splits
<1>9. \A i \in I : c[i] = SumFunctionOnSet(f, part[i])
  BY <1>4
<1>10. SumFunctionOnSet(c, I) = SumFunctionOnSet(f, X)
  BY <1>2, <1>3, <1>8, <1>9, SumOfParts
<1>11. I = {} <=> X = {}
  BY <1>4, <1>5, <1>6
<1>12. QED
  BY <1>2, <1>10, <1>11 DEF c, f

TypedStamps(X, t) == {x \in X : StampOf(x).type = t}

\* What some stamps cost, by type.
ByTypes(X) ==
  [t \in {StampOf(x).type : x \in X} |-> SumFunctionOnSet(StampCost, TypedStamps(X, t))]
Cell(X) == [cost |-> SumFunctionOnSet(StampCost, X), byType |-> ByTypes(X)]

TypedLines(L, I, t) == {i \in I : L[i].type = t}

\* Lines that match stamps match them type by type.
LEMMA TypedMatch ==
  ASSUME NEW T, NEW L, NEW I, NEW X, Matches(I, X, L, T), NEW t
  PROVE  Matches(TypedLines(L, I, t), TypedStamps(X, t), L, T)
<1>1. \A i \in DOMAIN L : \A x \in Stamps(T) : LineKey(L[i]) = KeyOf(x) => L[i].type = StampOf(x).type
  BY KeyFields DEF KeyOf
<1>2. QED
  BY <1>1 DEF Matches, TypedLines, TypedStamps

\* So do their costs.
LEMMA TypedSums ==
  ASSUME NEW T \in SUBSET Usages, IsFiniteSet(Stamps(T)), NEW L, LedgerIs(L, T),
         NEW I, NEW X, Matches(I, X, L, T)
  PROVE  CostByType(L, I) = ByTypes(X)
<1> DEFINE c == CostByType(L, I)
           b == ByTypes(X)
           TI == {L[i].type : i \in I}
           TX == {StampOf(x).type : x \in X}
<1>1. c = [t \in TI |-> SumFunctionOnSet(CostOf(L), TypedLines(L, I, t))]
  BY DEF CostByType, TypedLines
<1>2. b = [t \in TX |-> SumFunctionOnSet(StampCost, TypedStamps(X, t))]
  BY DEF ByTypes
<1>3. ASSUME NEW t
      PROVE  /\ SumFunctionOnSet(CostOf(L), TypedLines(L, I, t)) = SumFunctionOnSet(StampCost, TypedStamps(X, t))
             /\ TypedLines(L, I, t) = {} <=> TypedStamps(X, t) = {}
  BY TypedMatch, SameSums
<1>4. \A t : t \in TI <=> TypedLines(L, I, t) # {}
  BY DEF TypedLines
<1>5. \A t : t \in TX <=> TypedStamps(X, t) # {}
  BY DEF TypedStamps
<1> HIDE DEF TI, TX
<1>6. TI = TX
  BY <1>3, <1>4, <1>5
<1>7. QED
  BY <1>1, <1>2, <1>3, <1>6

AgentStamps(T, a) == {x \in Stamps(T) : StampOf(x).agent = a}
ModelStamps(T, m) == {x \in Stamps(T) : StampOf(x).model = m}

\* The bar of a month, from its stamps.
BarOf(T) ==
  [total |-> SumFunctionOnSet(StampCost, Stamps(T)), byType |-> ByTypes(Stamps(T)),
   byAgent |-> [a \in {StampOf(x).agent : x \in Stamps(T)} |-> Cell(AgentStamps(T, a))],
   byModel |-> [m \in {StampOf(x).model : x \in Stamps(T)} |-> Cell(ModelStamps(T, m))]]

\* The unwound stamps.
LEMMA UnwoundIs ==
  ASSUME NEW T \in SUBSET Usages, IsFiniteSet(Stamps(T)), NEW H \in SUBSET Stamps(T)
  PROVE  /\ DOMAIN Unwound(T) = Stamps(T)
         /\ \A x \in Stamps(T) : Unwound(T)[x] = StampOf(x)
         /\ \A x \in Stamps(T) : x \in Stamps(Usages)
         /\ IsFiniteSet(H)
         /\ SumFunctionOnSet(CostOf(Unwound(T)), H) = SumFunctionOnSet(StampCost, H)
         /\ CostByType(Unwound(T), H) = ByTypes(H)
<1> DEFINE U == Unwound(T)
           f == CostOf(U)
           c == CostByType(U, H)
           TY == {StampOf(x).type : x \in H}
<1>1. DOMAIN U = Stamps(T) /\ \A x \in Stamps(T) : U[x] = StampOf(x)
  BY DEF Unwound, Stamps, StampOf
<1>2. \A x \in Stamps(T) : x \in Stamps(Usages)
  BY DEF Stamps
<1>3. \A x \in Stamps(T) : StampCost[x] = StampOf(x).cost
  BY <1>2, StampIn
<1> HIDE DEF U
<1>4. \A x \in H : f[x] = StampCost[x]
  BY <1>1, <1>3 DEF CostOf
<1>5. ASSUME NEW t
      PROVE  TypedStamps(H, t) \subseteq H /\ {x \in H : U[x].type = t} = TypedStamps(H, t)
  BY <1>1 DEF TypedStamps
<1>6. c = [t \in {U[x].type : x \in H} |-> SumFunctionOnSet(f, {x \in H : U[x].type = t})]
  BY DEF CostByType
<1>7. {U[x].type : x \in H} = TY
  BY <1>1
<1>8. IsFiniteSet(H)
  BY FS_Subset
<1> HIDE DEF f, c
<1>9. SumFunctionOnSet(f, H) = SumFunctionOnSet(StampCost, H)
  BY <1>4, <1>8, SumSame
<1>10. ASSUME NEW t
       PROVE  SumFunctionOnSet(f, {x \in H : U[x].type = t}) = SumFunctionOnSet(StampCost, TypedStamps(H, t))
  <2> DEFINE X == TypedStamps(H, t)
  <2>1. IsFiniteSet(X) /\ (\A x \in X : f[x] = StampCost[x]) /\ {x \in H : U[x].type = t} = X
    BY <1>4, <1>5, <1>8, FS_Subset
  <2> HIDE DEF X
  <2>2. SumFunctionOnSet(f, X) = SumFunctionOnSet(StampCost, X)
    BY <2>1, SumSame
  <2>3. QED
    BY <2>1, <2>2 DEF X
<1> HIDE DEF TY
<1>11. c = [t \in TY |-> SumFunctionOnSet(StampCost, TypedStamps(H, t))]
  BY <1>6, <1>7, <1>10
<1>12. c = ByTypes(H)
  BY <1>11 DEF ByTypes, TY
<1>13. QED
  BY <1>1, <1>2, <1>8, <1>9, <1>12 DEF U, f, c

CellsOf(U, keys) ==
  [k \in Range(keys) |-> [cost |-> SumFunctionOnSet(CostOf(U), Holding(keys, k)),
                          byType |-> CostByType(U, Holding(keys, k))]]

AgentSet(T) == {StampOf(x).agent : x \in Stamps(T)}
ModelSet(T) == {StampOf(x).model : x \in Stamps(T)}
TypeSet(X) == {StampOf(x).type : x \in X}

AgentCells(T) == [a \in AgentSet(T) |-> Cell(AgentStamps(T, a))]
ModelCells(T) == [m \in ModelSet(T) |-> Cell(ModelStamps(T, m))]

\* The cells of the aggregation are those of the stamps.
LEMMA CellsAre ==
  ASSUME NEW T \in SUBSET Usages, IsFiniteSet(Stamps(T))
  PROVE  /\ CellsOf(Unwound(T), AgentsOf(Unwound(T))) = AgentCells(T)
         /\ CellsOf(Unwound(T), ModelsOf(Unwound(T))) = ModelCells(T)
<1> DEFINE U == Unwound(T)
           S == Stamps(T)
           ka == AgentsOf(U)
           km == ModelsOf(U)
<1>1. DOMAIN U = S /\ \A x \in S : U[x] = StampOf(x)
  <2>1. S \in SUBSET S
    OBVIOUS
  <2>2. QED
    BY <2>1, UnwoundIs
<1>2. ASSUME NEW H \in SUBSET S
      PROVE  [cost |-> SumFunctionOnSet(CostOf(U), H), byType |-> CostByType(U, H)] = Cell(H)
  BY UnwoundIs DEF Cell
<1> HIDE DEF U
<1>3. DOMAIN ka = S /\ DOMAIN km = S /\ \A x \in S : ka[x] = StampOf(x).agent /\ km[x] = StampOf(x).model
  BY <1>1 DEF AgentsOf, ModelsOf
<1> HIDE DEF ka, km, S
<1>4. Range(ka) = AgentSet(T) /\ Range(km) = ModelSet(T)
  BY <1>3 DEF Range, AgentSet, ModelSet, S
<1>5. ASSUME NEW k
      PROVE  Holding(ka, k) = AgentStamps(T, k) /\ Holding(km, k) = ModelStamps(T, k)
  BY <1>3 DEF Holding, AgentStamps, ModelStamps, S
<1>6. ASSUME NEW k
      PROVE  AgentStamps(T, k) \in SUBSET S /\ ModelStamps(T, k) \in SUBSET S
  BY DEF AgentStamps, ModelStamps, S
<1>7. \A k : [cost |-> SumFunctionOnSet(CostOf(U), Holding(ka, k)), byType |-> CostByType(U, Holding(ka, k))]
               = Cell(AgentStamps(T, k))
  BY <1>2, <1>5, <1>6
<1>8. \A k : [cost |-> SumFunctionOnSet(CostOf(U), Holding(km, k)), byType |-> CostByType(U, Holding(km, k))]
               = Cell(ModelStamps(T, k))
  BY <1>2, <1>5, <1>6
<1>9. CellsOf(U, ka) = AgentCells(T)
  BY <1>4, <1>7 DEF CellsOf, AgentCells
<1>10. CellsOf(U, km) = ModelCells(T)
  BY <1>4, <1>8 DEF CellsOf, ModelCells
<1>11. QED
  BY <1>9, <1>10 DEF ka, km, U

OfType(B, t) == [a \in {b \in DOMAIN B : t \in DOMAIN B[b].byType} |-> B[a].byType[t]]

\* RollupOf, its local definitions named.
LEMMA RollupForm ==
  ASSUME NEW T, NEW U, U = Unwound(T), NEW B, B = CellsOf(U, AgentsOf(U))
  PROVE  RollupOf(T) = [total |-> Total(CostOf(B)),
                        byType |-> [t \in UNION {DOMAIN B[a].byType : a \in DOMAIN B} |-> Total(OfType(B, t))],
                        byAgent |-> B, byModel |-> CellsOf(U, ModelsOf(U))]
  BY DEF RollupOf, CellsOf, OfType

\* The agents share out any stamps.
LEMMA AgentsSplit ==
  ASSUME NEW T \in SUBSET Usages, IsFiniteSet(Stamps(T)), NEW X \in SUBSET Stamps(T),
         NEW M, M = {a \in AgentSet(T) : AgentStamps(T, a) \cap X # {}},
         NEW part, part = [a \in M |-> AgentStamps(T, a) \cap X]
  PROVE  Splits(part, M, X) /\ IsFiniteSet(M)
<1> DEFINE S == Stamps(T)
           f == [x \in S |-> StampOf(x).agent]
<1>1. IsFiniteSet(AgentSet(T))
  <2>1. f = [x \in S |-> f[x]] /\ AgentSet(T) = {f[x] : x \in S}
    BY DEF AgentSet
  <2> HIDE DEF f, S
  <2> DEFINE A == AgentSet(T)
  <2> HIDE DEF A
  <2>2. IsFiniteSet(A)
    BY <2>1, ImageFinite DEF S, A
  <2>3. QED
    BY <2>2 DEF A
<1>2. IsFiniteSet(M)
  BY <1>1, FS_Subset
<1>3. \A a \in M : part[a] = {x \in X : StampOf(x).agent = a}
  BY DEF AgentStamps
<1>4. \A x \in X : StampOf(x).agent \in M
  BY DEF AgentStamps, AgentSet
<1>7. \A x \in X : x \in part[StampOf(x).agent]
  BY <1>3, <1>4
<1>8. \A a \in M : \A x \in part[a] : x \in X /\ StampOf(x).agent = a
  BY <1>3
<1> DEFINE N == M
<1> HIDE DEF N
<1>9. (\A x \in X : StampOf(x).agent \in N) /\ \A a \in N : \A x \in part[a] : x \in X /\ StampOf(x).agent = a
  BY <1>4, <1>8 DEF N
<1>10. Splits(part, N, X)
  BY <1>7, <1>9 DEF Splits
<1>5. Splits(part, M, X)
  BY <1>10 DEF N
<1>6. QED
  BY <1>2, <1>5

\* What some stamps cost is a natural.
LEMMA StampCosts ==
  ASSUME NEW T \in SUBSET Usages, IsFiniteSet(Stamps(T)), NEW X \in SUBSET Stamps(T)
  PROVE  IsFiniteSet(X) /\ (\A x \in X : StampCost[x] \in Nat) /\ SumFunctionOnSet(StampCost, X) \in Nat
<1>1. IsFiniteSet(X)
  BY FS_Subset
<1>2. \A x \in X : StampCost[x] \in Nat
  <2>1. \A x \in X : x \in Stamps(Usages)
    BY DEF Stamps
  <2>2. QED
    BY <2>1, StampIn
<1> DEFINE f == StampCost
<1> HIDE DEF f
<1>3. SumFunctionOnSet(f, X) \in Nat
  BY <1>1, <1>2, SumNat DEF f
<1>4. QED
  BY <1>1, <1>2, <1>3 DEF f

\* The bar of an open month adds up its cells.
LEMMA RollupBar ==
  ASSUME NEW T \in SUBSET Usages, IsFiniteSet(Stamps(T))
  PROVE  RollupOf(T) = BarOf(T)
<1> DEFINE B == AgentCells(T)
           S == Stamps(T)
           A == AgentSet(T)
           f == StampCost
           TY == TypeSet(S)
<1>1. RollupOf(T) = [total |-> Total(CostOf(B)),
                     byType |-> [t \in UNION {DOMAIN B[a].byType : a \in DOMAIN B} |-> Total(OfType(B, t))],
                     byAgent |-> B, byModel |-> ModelCells(T)]
  <2>1. CellsOf(Unwound(T), AgentsOf(Unwound(T))) = B /\ CellsOf(Unwound(T), ModelsOf(Unwound(T))) = ModelCells(T)
    BY CellsAre
  <2> DEFINE U == Unwound(T)
             C == CellsOf(U, AgentsOf(U))
  <2>2. U = Unwound(T) /\ C = CellsOf(U, AgentsOf(U)) /\ C = B /\ CellsOf(U, ModelsOf(U)) = ModelCells(T)
    BY <2>1
  <2> HIDE DEF B, U, C
  <2>3. RollupOf(T) = [total |-> Total(CostOf(C)),
                       byType |-> [t \in UNION {DOMAIN C[a].byType : a \in DOMAIN C} |-> Total(OfType(C, t))],
                       byAgent |-> C, byModel |-> CellsOf(U, ModelsOf(U))]
    BY <2>2, RollupForm
  <2>4. QED
    BY <2>2, <2>3
<1>2. DOMAIN B = A /\ \A a \in A : B[a] = Cell(AgentStamps(T, a))
  BY DEF AgentCells
<1>3. \A a \in A : /\ B[a].cost = SumFunctionOnSet(f, AgentStamps(T, a))
                   /\ B[a].byType = ByTypes(AgentStamps(T, a))
  BY <1>2 DEF Cell
<1>4. \A a : AgentStamps(T, a) \subseteq S
  BY DEF AgentStamps
<1>5. \A a \in A : AgentStamps(T, a) # {}
  BY DEF AgentStamps, AgentSet
<1>6. IsFiniteSet(S) /\ \A x \in S : f[x] \in Int
  <2>1. S \in SUBSET Stamps(T)
    OBVIOUS
  <2>2. QED
    BY <2>1, StampCosts
<1> HIDE DEF B, S, A, f
<1>7. Total(CostOf(B)) = SumFunctionOnSet(f, S)
  <2> DEFINE part == [a \in A |-> AgentStamps(T, a) \cap S]
             c == CostOf(B)
  <2>1. A = {a \in AgentSet(T) : AgentStamps(T, a) \cap S # {}}
    BY <1>4, <1>5 DEF A
  <2>2. S \in SUBSET Stamps(T)
    BY DEF S
  <2>3. Splits(part, A, S) /\ IsFiniteSet(A)
    BY <2>1, <2>2, AgentsSplit
  <2>4. DOMAIN c = A /\ \A a \in A : c[a] = SumFunctionOnSet(f, part[a])
    <3>1. \A a \in A : part[a] = AgentStamps(T, a)
      BY <1>4
    <3> HIDE DEF part
    <3>2. QED
      BY <1>2, <1>3, <3>1 DEF CostOf
  <2> HIDE DEF part, c
  <2>5. SumFunctionOnSet(c, A) = SumFunctionOnSet(f, S)
    BY <1>6, <2>3, <2>4, SumOfParts
  <2>6. QED
    BY <2>4, <2>5, TotalIs DEF c
<1>8. \A a \in A : /\ DOMAIN B[a].byType = TypeSet(AgentStamps(T, a))
                   /\ \A t \in TypeSet(AgentStamps(T, a)) :
                        B[a].byType[t] = SumFunctionOnSet(f, TypedStamps(AgentStamps(T, a), t))
  BY <1>3 DEF ByTypes, TypeSet, f
<1>9. \A x \in S : StampOf(x).agent \in A /\ x \in AgentStamps(T, StampOf(x).agent)
  BY DEF S, A, AgentSet, AgentStamps
<1>10. UNION {DOMAIN B[a].byType : a \in DOMAIN B} = TY
  <2>1. \A t \in TY : \E a \in A : t \in DOMAIN B[a].byType
    BY <1>8, <1>9 DEF TypeSet
  <2>2. \A a \in A : \A t \in DOMAIN B[a].byType : t \in TY
    BY <1>4, <1>8 DEF TypeSet
  <2> HIDE DEF TY
  <2>3. QED
    BY <1>2, <2>1, <2>2
<1> HIDE DEF TY
<1>11. ASSUME NEW t \in TY
       PROVE  Total(OfType(B, t)) = SumFunctionOnSet(f, TypedStamps(S, t))
  <2> DEFINE X == TypedStamps(S, t)
             M == {b \in DOMAIN B : t \in DOMAIN B[b].byType}
             part == [a \in M |-> AgentStamps(T, a) \cap X]
             c == OfType(B, t)
  <2>1. X \in SUBSET Stamps(T) /\ X \subseteq S
    BY DEF TypedStamps, S
  <2>2. \A a : TypedStamps(AgentStamps(T, a), t) = AgentStamps(T, a) \cap X
    BY <1>4 DEF TypedStamps
  <2>3. \A a \in A : t \in TypeSet(AgentStamps(T, a)) <=> AgentStamps(T, a) \cap X # {}
    BY <2>2 DEF TypeSet, TypedStamps
  <2>4. M = {a \in AgentSet(T) : AgentStamps(T, a) \cap X # {}}
    BY <1>2, <1>8, <2>3 DEF A
  <2>5. DOMAIN c = M /\ \A a \in M : c[a] = B[a].byType[t] /\ a \in A /\ t \in TypeSet(AgentStamps(T, a))
    BY <1>2, <1>8 DEF OfType
  <2> HIDE DEF M, X
  <2>6. Splits(part, M, X) /\ IsFiniteSet(M)
    BY <2>1, <2>4, AgentsSplit
  <2>7. \A a \in M : part[a] = AgentStamps(T, a) \cap X
    OBVIOUS
  <2> HIDE DEF c, part
  <2>8. \A a \in M : c[a] = SumFunctionOnSet(f, part[a])
    <3> TAKE a \in M
    <3>1. a \in A /\ t \in TypeSet(AgentStamps(T, a)) /\ c[a] = B[a].byType[t]
      BY <2>5
    <3>2. B[a].byType[t] = SumFunctionOnSet(f, TypedStamps(AgentStamps(T, a), t))
      BY <1>8, <3>1
    <3>3. part[a] = TypedStamps(AgentStamps(T, a), t)
      BY <2>2, <2>7
    <3>4. QED
      BY <3>1, <3>2, <3>3
  <2>9. IsFiniteSet(X) /\ \A x \in X : f[x] \in Int
    BY <1>6, <2>1, FS_Subset
  <2>10. SumFunctionOnSet(c, M) = SumFunctionOnSet(f, X)
    BY <2>6, <2>8, <2>9, SumOfParts
  <2>11. QED
    BY <2>5, <2>10, TotalIs DEF c, X
<1>12. [t \in UNION {DOMAIN B[a].byType : a \in DOMAIN B} |-> Total(OfType(B, t))] = ByTypes(S)
  <2>1. [t \in UNION {DOMAIN B[a].byType : a \in DOMAIN B} |-> Total(OfType(B, t))]
          = [t \in TY |-> SumFunctionOnSet(f, TypedStamps(S, t))]
    BY <1>10, <1>11
  <2>2. QED
    BY <2>1 DEF ByTypes, TY, TypeSet, f
<1>13. BarOf(T) = [total |-> SumFunctionOnSet(f, S), byType |-> ByTypes(S), byAgent |-> B, byModel |-> ModelCells(T)]
  BY DEF BarOf, f, S, B, AgentCells, ModelCells, AgentSet, ModelSet
<1>14. QED
  BY <1>1, <1>7, <1>12, <1>13

-----------------------------------------------------------------------------
(***************************************************************************)
(* The bar of a closed month, from its snapshot.                           *)
(***************************************************************************)

CostIn(A, g, t) == IF t \in DOMAIN A[g].byType THEN A[g].byType[t] ELSE 0

\* Versions of one agent, merged.
Merged(A, H) ==
  [cost |-> SumFunctionOnSet(CostOf(A), H),
   byType |-> [t \in UNION {DOMAIN A[g].byType : g \in H} |-> SumFunctionOnSet([g \in H |-> CostIn(A, g, t)], H)]]

\* FromSnapshotOf, its local definitions named.
LEMMA SnapshotForm ==
  ASSUME NEW s
  PROVE  FromSnapshotOf(s)
           = [total |-> s.total,
              byType |-> CostByType(s.lines, DOMAIN s.lines),
              byAgent |-> [a \in Range(AgentsOf(s.agents)) |-> Merged(s.agents, Holding(AgentsOf(s.agents), a))],
              byModel |-> [m \in Range(ModelsOf(s.mix)) |->
                [cost |-> SumFunctionOnSet(CostOf(s.mix), Holding(ModelsOf(s.mix), m)),
                 byType |-> CostByType(s.lines, Holding(ModelsOf(s.lines), m))]]]
  BY DEF FromSnapshotOf, Merged, CostIn

AgentLines(L, a) == {i \in DOMAIN L : L[i].agent = a}
ModelLines(L, m) == {i \in DOMAIN L : L[i].model = m}

\* All lines match all stamps, agent by agent and model by model.
LEMMA AllMatch ==
  ASSUME NEW T, NEW L
  PROVE  /\ Matches(DOMAIN L, Stamps(T), L, T)
         /\ \A a : Matches(AgentLines(L, a), AgentStamps(T, a), L, T)
         /\ \A m : Matches(ModelLines(L, m), ModelStamps(T, m), L, T)
<1>1. \A i \in DOMAIN L : \A x \in Stamps(T) : LineKey(L[i]) = KeyOf(x) => L[i].agent = StampOf(x).agent /\ L[i].model = StampOf(x).model
  BY KeyFields DEF KeyOf
<1>2. Matches(DOMAIN L, Stamps(T), L, T)
  BY DEF Matches
<1>3. \A a : Matches(AgentLines(L, a), AgentStamps(T, a), L, T)
  BY <1>1 DEF Matches, AgentLines, AgentStamps
<1>4. \A m : Matches(ModelLines(L, m), ModelStamps(T, m), L, T)
  BY <1>1 DEF Matches, ModelLines, ModelStamps
<1>5. QED
  BY <1>2, <1>3, <1>4

\* The groups of an agent share out its lines.
LEMMA VersionsSplit ==
  ASSUME NEW L, NEW A, NEW own, AgentsFit(A, own, L), NEW a,
         NEW H, H = Holding(AgentsOf(A), a)
  PROVE  /\ Splits(own, H, AgentLines(L, a)) /\ H \subseteq DOMAIN A
         /\ H = {} <=> AgentLines(L, a) = {}
<1>1. H = {g \in DOMAIN A : A[g].agent = a}
  BY DEF Holding, AgentsOf
<1>2. /\ Splits(own, DOMAIN A, DOMAIN L)
      /\ \A g \in DOMAIN A : own[g] # {} /\ own[g] = Holding(AgentKeysOf(L), <<A[g].agent, A[g].version>>)
  BY DEF AgentsFit, AgentIs
<1>3. \A g \in DOMAIN A : \A i \in own[g] : i \in DOMAIN L /\ L[i].agent = A[g].agent
  <2> TAKE g \in DOMAIN A
  <2> TAKE i \in own[g]
  <2>1. i \in DOMAIN AgentKeysOf(L) /\ AgentKeysOf(L)[i] = <<A[g].agent, A[g].version>>
    BY <1>2 DEF Holding
  <2>2. i \in DOMAIN L /\ <<L[i].agent, L[i].version>> = <<A[g].agent, A[g].version>>
    BY <2>1 DEF AgentKeysOf
  <2>3. QED
    BY <2>2
<1>4. \A g \in H : own[g] \subseteq AgentLines(L, a)
  BY <1>1, <1>3 DEF AgentLines
<1>5. \A i \in AgentLines(L, a) : \E g \in H : i \in own[g]
  <2> TAKE i \in AgentLines(L, a)
  <2>1. i \in DOMAIN L /\ L[i].agent = a
    BY DEF AgentLines
  <2>2. PICK g \in DOMAIN A : i \in own[g]
    BY <1>2, <2>1 DEF Splits
  <2>3. g \in H
    BY <1>1, <1>3, <2>1, <2>2
  <2>4. QED
    BY <2>2, <2>3
<1>6. \A g, h \in H : \A i \in AgentLines(L, a) : i \in own[g] /\ i \in own[h] => g = h
  BY <1>1, <1>2 DEF Splits, AgentLines
<1>7. Splits(own, H, AgentLines(L, a))
  BY <1>4, <1>5, <1>6 DEF Splits
<1>8. H \subseteq DOMAIN A
  BY <1>1
<1>9. H = {} <=> AgentLines(L, a) = {}
  BY <1>2, <1>4, <1>5, <1>8
<1>10. QED
  BY <1>7, <1>8, <1>9

\* Merging the versions of an agent adds up its lines by type.
LEMMA MergedIs ==
  ASSUME NEW L \in Seq(Line), NEW A, NEW own, AgentsFit(A, own, L), NEW a,
         NEW H, H = Holding(AgentsOf(A), a)
  PROVE  Merged(A, H) = [cost |-> SumFunctionOnSet(CostOf(L), AgentLines(L, a)),
                         byType |-> CostByType(L, AgentLines(L, a))]
<1> DEFINE I == AgentLines(L, a)
           f == CostOf(L)
           types == {L[i].type : i \in I}
<1>1. Splits(own, H, I) /\ H \subseteq DOMAIN A
  BY VersionsSplit
<1>2. IsFiniteSet(H)
  <2>1. Len(A) \in Nat /\ DOMAIN A = 1..Len(A)
    BY DEF AgentsFit
  <2>2. IsFiniteSet(DOMAIN A)
    BY <2>1, UpToN
  <2>3. QED
    BY <1>1, <2>2, FS_Subset
<1>3. I \subseteq DOMAIN L
  BY DEF AgentLines
<1>4. IsFiniteSet(I)
  BY <1>3, SumsIn
<1>5. \A i \in I : f[i] \in Int
  <2>1. f \in [1..Len(L) -> Nat] /\ DOMAIN L = 1..Len(L)
    BY LineColumns
  <2> HIDE DEF f, I
  <2>2. QED
    BY <1>3, <2>1
<1>6. \A g \in H : /\ A[g].cost = SumFunctionOnSet(f, own[g])
                   /\ A[g].byType = CostByType(L, own[g])
  BY <1>1 DEF AgentsFit, AgentIs
<1>7. \A g \in H : CostOf(A)[g] = SumFunctionOnSet(f, own[g])
  BY <1>1, <1>6 DEF CostOf
<1> HIDE DEF I, f
<1>8. SumFunctionOnSet(CostOf(A), H) = SumFunctionOnSet(f, I)
  <2> DEFINE c == CostOf(A)
  <2>1. \A g \in H : c[g] = SumFunctionOnSet(f, own[g])
    BY <1>7
  <2> HIDE DEF c
  <2>2. SumFunctionOnSet(c, H) = SumFunctionOnSet(f, I)
    BY <1>1, <1>2, <1>4, <1>5, <2>1, SumOfParts
  <2>3. QED
    BY <2>2 DEF c
<1>9. \A g \in H : /\ DOMAIN A[g].byType = {L[i].type : i \in own[g]}
                   /\ \A t \in DOMAIN A[g].byType : A[g].byType[t] = SumFunctionOnSet(f, TypedLines(L, own[g], t))
  BY <1>6 DEF CostByType, TypedLines, f
<1>10. UNION {DOMAIN A[g].byType : g \in H} = types
  <2>1. \A t \in types : \E g \in H : t \in DOMAIN A[g].byType
    BY <1>1, <1>9 DEF Splits
  <2>2. \A g \in H : \A t \in DOMAIN A[g].byType : t \in types
    BY <1>1, <1>9 DEF Splits
  <2> HIDE DEF types
  <2>3. QED
    BY <2>1, <2>2
<1>11. ASSUME NEW t
       PROVE  SumFunctionOnSet([g \in H |-> CostIn(A, g, t)], H) = SumFunctionOnSet(f, TypedLines(L, I, t))
  <2> DEFINE c == [g \in H |-> CostIn(A, g, t)]
             J == TypedLines(L, I, t)
             part == [g \in H |-> TypedLines(L, own[g], t)]
  <2>1. IsFiniteSet(J) /\ \A i \in J : f[i] \in Int
    BY <1>4, <1>5, FS_Subset DEF TypedLines
  <2>2. \A g \in H : part[g] = {i \in own[g] : L[i].type = t}
    BY DEF TypedLines
  <2>3. J = {i \in I : L[i].type = t}
    BY DEF TypedLines
  <2>4. \A g \in H : c[g] = CostIn(A, g, t)
    OBVIOUS
  <2>8. \A g \in H : part[g] = TypedLines(L, own[g], t)
    OBVIOUS
  <2> HIDE DEF c, J, part
  <2>5. Splits(part, H, J)
    <3>1. \A g \in H : part[g] \subseteq J
      BY <1>1, <2>2, <2>3 DEF Splits
    <3>2. \A i \in J : \E g \in H : i \in part[g]
      BY <1>1, <2>2, <2>3 DEF Splits
    <3>3. \A g, h \in H : \A i \in J : i \in part[g] /\ i \in part[h] => g = h
      BY <1>1, <2>2, <2>3 DEF Splits
    <3>4. QED
      BY <3>1, <3>2, <3>3 DEF Splits
  <2>6. ASSUME NEW g \in H
        PROVE  c[g] = SumFunctionOnSet(f, part[g])
    <3>1. CASE t \in DOMAIN A[g].byType
      BY <1>9, <2>4, <2>8, <3>1 DEF CostIn
    <3>2. CASE t \notin DOMAIN A[g].byType
      <4>1. part[g] = {}
        BY <1>9, <2>2, <3>2
      <4>2. c[g] = 0
        BY <2>4, <3>2 DEF CostIn
      <4>3. QED
        BY <4>1, <4>2, SumNone
    <3>3. QED
      BY <3>1, <3>2
  <2>7. SumFunctionOnSet(c, H) = SumFunctionOnSet(f, J)
    BY <1>2, <2>1, <2>5, <2>6, SumOfParts
  <2>9. QED
    BY <2>7 DEF c, J
<1> HIDE DEF types
<1>12. [t \in UNION {DOMAIN A[g].byType : g \in H} |-> SumFunctionOnSet([g \in H |-> CostIn(A, g, t)], H)]
         = [t \in types |-> SumFunctionOnSet(f, TypedLines(L, I, t))]
  BY <1>10, <1>11
<1>13. CostByType(L, I) = [t \in types |-> SumFunctionOnSet(f, TypedLines(L, I, t))]
  BY DEF CostByType, TypedLines, types, f
<1>14. QED
  BY <1>8, <1>12, <1>13 DEF Merged, I, f

\* A model's share is that of its lines.
LEMMA ModelHeld ==
  ASSUME NEW L \in Seq(Line), NEW M, NEW held, ModelsFit(M, held, L), NEW m,
         NEW H, H = Holding(ModelsOf(M), m)
  PROVE  /\ H = {} <=> ModelLines(L, m) = {}
         /\ H # {} => SumFunctionOnSet(CostOf(M), H) = SumFunctionOnSet(CostOf(L), ModelLines(L, m))
<1>1. H = {g \in DOMAIN M : M[g].model = m}
  BY DEF Holding, ModelsOf
<1>2. /\ Splits(held, DOMAIN M, DOMAIN L)
      /\ \A g \in DOMAIN M : /\ held[g] # {} /\ held[g] = Holding(ModelsOf(L), M[g].model)
                             /\ M[g].cost = SumFunctionOnSet(CostOf(L), held[g]) /\ M[g].cost \in Nat
  BY DEF ModelsFit, ModelIs
<1>3. \A x : Holding(ModelsOf(L), x) = ModelLines(L, x)
  BY DEF Holding, ModelsOf, ModelLines
<1>4. \A g \in H : held[g] = ModelLines(L, m) /\ held[g] # {} /\ g \in DOMAIN M
  BY <1>1, <1>2, <1>3
<1>5. ASSUME NEW i \in ModelLines(L, m)
      PROVE  \E g \in H : i \in held[g]
  <2>1. i \in DOMAIN L /\ L[i].model = m
    BY DEF ModelLines
  <2>2. PICK g \in DOMAIN M : i \in held[g]
    BY <1>2, <2>1 DEF Splits
  <2>3. i \in ModelLines(L, M[g].model)
    BY <1>2, <1>3, <2>2
  <2>4. L[i].model = M[g].model
    BY <2>3 DEF ModelLines
  <2>5. QED
    BY <1>1, <2>1, <2>2, <2>4
<1>6. H = {} <=> ModelLines(L, m) = {}
  BY <1>4, <1>5
<1>7. ASSUME NEW g \in H
      PROVE  SumFunctionOnSet(CostOf(M), H) = SumFunctionOnSet(CostOf(L), ModelLines(L, m))
  <2>1. H = {g}
    <3>1. \A h \in H : h = g
      BY <1>2, <1>4 DEF Splits
    <3>2. QED
      BY <3>1
  <2>2. CostOf(M)[g] = M[g].cost /\ M[g].cost \in Int
    <3>1. g \in DOMAIN M
      BY <1>4
    <3>2. M[g].cost \in Nat
      BY <1>2, <3>1
    <3>3. CostOf(M)[g] = M[g].cost
      BY <3>1 DEF CostOf
    <3>4. QED
      BY <3>2, <3>3
  <2> DEFINE c == CostOf(M)
  <2>3. c[g] \in Int /\ c[g] = SumFunctionOnSet(CostOf(L), ModelLines(L, m))
    BY <1>2, <1>4, <2>2
  <2> HIDE DEF c
  <2>4. SumFunctionOnSet(c, {g}) = c[g]
    BY <2>3, SumOne
  <2>5. QED
    BY <2>1, <2>3, <2>4 DEF c
<1>8. QED
  BY <1>6, <1>7

\* The bar of a closed month is that of its stamps.
LEMMA SnapshotBar ==
  ASSUME NEW T, NEW s, Statement(s, T)
  PROVE  FromSnapshotOf(s) = BarOf(T)
<1> DEFINE L == s.lines
           A == s.agents
           M == s.mix
           D == DOMAIN L
<1>1. /\ L \in Seq(Line) /\ s.total = SumFunctionOnSet(CostOf(L), D) /\ A = BuildAgentGroups(L)
      /\ M = BuildModelShares(L) /\ LedgerIs(L, T) /\ T \in SUBSET Usages /\ IsFiniteSet(Stamps(T))
  BY StatementTotals DEF Statement, Shown
<1>2. PICK own : AgentsFit(A, own, L)
  BY <1>1, AgentsAre
<1>3. PICK held : ModelsFit(M, held, L)
  BY <1>1, ModelsAre
<1>4. FromSnapshotOf(s)
        = [total |-> s.total, byType |-> CostByType(L, D),
           byAgent |-> [a \in Range(AgentsOf(A)) |-> Merged(A, Holding(AgentsOf(A), a))],
           byModel |-> [m \in Range(ModelsOf(M)) |->
             [cost |-> SumFunctionOnSet(CostOf(M), Holding(ModelsOf(M), m)),
              byType |-> CostByType(L, Holding(ModelsOf(L), m))]]]
  BY SnapshotForm
<1>5. BarOf(T) = [total |-> SumFunctionOnSet(StampCost, Stamps(T)), byType |-> ByTypes(Stamps(T)),
                  byAgent |-> [a \in AgentSet(T) |-> Cell(AgentStamps(T, a))],
                  byModel |-> [m \in ModelSet(T) |-> Cell(ModelStamps(T, m))]]
  BY DEF BarOf, AgentSet, ModelSet
<1> HIDE DEF L, A, M, D
<1>6. s.total = SumFunctionOnSet(StampCost, Stamps(T)) /\ CostByType(L, D) = ByTypes(Stamps(T))
  <2>1. Matches(D, Stamps(T), L, T)
    BY AllMatch DEF D
  <2>2. SumFunctionOnSet(CostOf(L), D) = SumFunctionOnSet(StampCost, Stamps(T))
    BY <1>1, <2>1, SameSums
  <2>3. CostByType(L, D) = ByTypes(Stamps(T))
    BY <1>1, <2>1, TypedSums
  <2>4. QED
    BY <1>1, <2>2, <2>3
<1>7. ASSUME NEW a
      PROVE  /\ Merged(A, Holding(AgentsOf(A), a)) = Cell(AgentStamps(T, a))
             /\ Holding(AgentsOf(A), a) = {} <=> AgentStamps(T, a) = {}
  <2> DEFINE H == Holding(AgentsOf(A), a)
             I == AgentLines(L, a)
             X == AgentStamps(T, a)
  <2>1. Matches(I, X, L, T)
    BY AllMatch
  <2>2. H = Holding(AgentsOf(A), a)
    OBVIOUS
  <2> HIDE DEF H
  <2>3. Merged(A, H) = [cost |-> SumFunctionOnSet(CostOf(L), I), byType |-> CostByType(L, I)]
    BY <1>1, <1>2, <2>2, MergedIs
  <2>4. H = {} <=> I = {}
    BY <1>2, <2>2, VersionsSplit
  <2> HIDE DEF I, X
  <2>5. SumFunctionOnSet(CostOf(L), I) = SumFunctionOnSet(StampCost, X) /\ (I = {} <=> X = {})
    BY <1>1, <2>1, SameSums
  <2>6. CostByType(L, I) = ByTypes(X)
    BY <1>1, <2>1, TypedSums
  <2>7. QED
    BY <2>3, <2>4, <2>5, <2>6 DEF Cell, H, X
<1>8. ASSUME NEW m
      PROVE  /\ Holding(ModelsOf(M), m) = {} <=> ModelStamps(T, m) = {}
             /\ Holding(ModelsOf(M), m) # {} =>
                  [cost |-> SumFunctionOnSet(CostOf(M), Holding(ModelsOf(M), m)),
                   byType |-> CostByType(L, Holding(ModelsOf(L), m))] = Cell(ModelStamps(T, m))
  <2> DEFINE H == Holding(ModelsOf(M), m)
             I == ModelLines(L, m)
             X == ModelStamps(T, m)
  <2>1. Matches(I, X, L, T)
    BY AllMatch
  <2>2. H = Holding(ModelsOf(M), m)
    OBVIOUS
  <2>8. Holding(ModelsOf(L), m) = I
    BY DEF Holding, ModelsOf, ModelLines
  <2> HIDE DEF H
  <2>3. /\ H = {} <=> I = {}
        /\ H # {} => SumFunctionOnSet(CostOf(M), H) = SumFunctionOnSet(CostOf(L), I)
    BY <1>1, <1>3, <2>2, ModelHeld
  <2> HIDE DEF I, X
  <2>5. SumFunctionOnSet(CostOf(L), I) = SumFunctionOnSet(StampCost, X) /\ (I = {} <=> X = {})
    BY <1>1, <2>1, SameSums
  <2>6. CostByType(L, I) = ByTypes(X)
    BY <1>1, <2>1, TypedSums
  <2>7. QED
    BY <2>3, <2>5, <2>6, <2>8 DEF Cell, H, X
<1>9. Range(AgentsOf(A)) = AgentSet(T)
  <2>1. \A a : a \in Range(AgentsOf(A)) <=> Holding(AgentsOf(A), a) # {}
    BY DEF Range, Holding
  <2>2. \A a : a \in AgentSet(T) <=> AgentStamps(T, a) # {}
    BY DEF AgentSet, AgentStamps
  <2>3. QED
    BY <1>7, <2>1, <2>2
<1>10. Range(ModelsOf(M)) = ModelSet(T) /\ \A m \in ModelSet(T) : Holding(ModelsOf(M), m) # {}
  <2>1. \A m : m \in Range(ModelsOf(M)) <=> Holding(ModelsOf(M), m) # {}
    BY DEF Range, Holding
  <2>2. \A m : m \in ModelSet(T) <=> ModelStamps(T, m) # {}
    BY DEF ModelSet, ModelStamps
  <2>3. QED
    BY <1>8, <2>1, <2>2
<1>11. [a \in Range(AgentsOf(A)) |-> Merged(A, Holding(AgentsOf(A), a))] = [a \in AgentSet(T) |-> Cell(AgentStamps(T, a))]
  BY <1>7, <1>9
<1>12. [m \in Range(ModelsOf(M)) |->
          [cost |-> SumFunctionOnSet(CostOf(M), Holding(ModelsOf(M), m)),
           byType |-> CostByType(L, Holding(ModelsOf(L), m))]]
         = [m \in ModelSet(T) |-> Cell(ModelStamps(T, m))]
  BY <1>8, <1>10
<1>13. QED
  BY <1>4, <1>5, <1>6, <1>11, <1>12

-----------------------------------------------------------------------------
(***************************************************************************)
(* The chart of two months, the open one among them.                       *)
(***************************************************************************)

\* One split of a bar: its entries add up to it.
EntriesFit(f, total) ==
  /\ IsFiniteSet(DOMAIN f)
  /\ \A k \in DOMAIN f : f[k].cost \in Nat
  /\ SumFunctionOnSet(CostOf(f), DOMAIN f) = total

BarFits(b) ==
  /\ b.total \in Nat /\ TypeCosts(b.byType, b.total)
  /\ EntriesFit(b.byAgent, b.total) /\ EntriesFit(b.byModel, b.total)

\* The models share out the stamps of a month.
LEMMA ModelsSplitStamps ==
  ASSUME NEW T \in SUBSET Usages, IsFiniteSet(Stamps(T))
  PROVE  /\ Splits([m \in ModelSet(T) |-> ModelStamps(T, m)], ModelSet(T), Stamps(T))
         /\ IsFiniteSet(ModelSet(T))
<1> DEFINE S == Stamps(T)
           f == [x \in S |-> StampOf(x).model]
           M == ModelSet(T)
           part == [m \in M |-> ModelStamps(T, m)]
<1>1. f = [x \in S |-> f[x]] /\ M = {f[x] : x \in S}
  BY DEF ModelSet
<1>2. \A m \in M : part[m] = {x \in S : StampOf(x).model = m}
  BY DEF ModelStamps
<1>3. \A x \in S : StampOf(x).model \in M
  BY DEF ModelSet
<1> HIDE DEF f, M, part, S
<1>4. IsFiniteSet(M)
  BY <1>1, ImageFinite DEF S
<1>5. Splits(part, M, S)
  BY <1>2, <1>3 DEF Splits
<1>6. QED
  BY <1>4, <1>5 DEF M, part, S

\* So do the agents.
LEMMA AgentsSplitStamps ==
  ASSUME NEW T \in SUBSET Usages, IsFiniteSet(Stamps(T))
  PROVE  /\ Splits([a \in AgentSet(T) |-> AgentStamps(T, a)], AgentSet(T), Stamps(T))
         /\ IsFiniteSet(AgentSet(T))
<1> DEFINE S == Stamps(T)
           f == [x \in S |-> StampOf(x).agent]
           M == AgentSet(T)
           part == [m \in M |-> AgentStamps(T, m)]
<1>1. f = [x \in S |-> f[x]] /\ M = {f[x] : x \in S}
  BY DEF AgentSet
<1>2. \A m \in M : part[m] = {x \in S : StampOf(x).agent = m}
  BY DEF AgentStamps
<1>3. \A x \in S : StampOf(x).agent \in M
  BY DEF AgentSet
<1> HIDE DEF f, M, part, S
<1>4. IsFiniteSet(M)
  BY <1>1, ImageFinite DEF S
<1>5. Splits(part, M, S)
  BY <1>2, <1>3 DEF Splits
<1>6. QED
  BY <1>4, <1>5 DEF M, part, S

\* Cells of parts that share out the stamps add up to them.
LEMMA CellsFit ==
  ASSUME NEW T \in SUBSET Usages, IsFiniteSet(Stamps(T)), NEW M, IsFiniteSet(M), NEW part,
         Splits(part, M, Stamps(T)), NEW f, f = [m \in M |-> Cell(part[m])]
  PROVE  EntriesFit(f, SumFunctionOnSet(StampCost, Stamps(T)))
<1> DEFINE S == Stamps(T)
           h == StampCost
           c == CostOf(f)
<1>1. ASSUME NEW m \in M
      PROVE  f[m].cost = SumFunctionOnSet(h, part[m]) /\ f[m].cost \in Nat
  <2>1. part[m] \in SUBSET Stamps(T)
    BY DEF Splits
  <2>2. QED
    BY <2>1, StampCosts DEF Cell
<1>2. DOMAIN f = M /\ \A m \in M : c[m] = SumFunctionOnSet(h, part[m])
  BY <1>1 DEF CostOf
<1>3. IsFiniteSet(S) /\ \A x \in S : h[x] \in Int
  <2>1. S \in SUBSET Stamps(T)
    OBVIOUS
  <2>2. QED
    BY <2>1, StampCosts
<1> HIDE DEF h, c, S
<1>4. Splits(part, M, S)
  BY DEF S
<1>5. SumFunctionOnSet(c, M) = SumFunctionOnSet(h, S)
  BY <1>2, <1>3, <1>4, SumOfParts
<1>6. QED
  BY <1>1, <1>2, <1>5 DEF EntriesFit, c, h, S

\* The bar of a month adds up, split by split.
LEMMA BarIs ==
  ASSUME NEW T \in SUBSET Usages, IsFiniteSet(Stamps(T))
  PROVE  BarFits(BarOf(T))
<1> DEFINE b == BarOf(T)
           S == Stamps(T)
           f == StampCost
           ma == AgentSet(T)
           mm == ModelSet(T)
           pa == [a \in ma |-> AgentStamps(T, a)]
           pm == [m \in mm |-> ModelStamps(T, m)]
<1>1. /\ b.total = SumFunctionOnSet(f, S) /\ b.byType = ByTypes(S)
      /\ b.byAgent = [a \in ma |-> Cell(pa[a])]
      /\ b.byModel = [m \in mm |-> Cell(pm[m])]
  BY DEF BarOf, AgentSet, ModelSet
<1>2. S \in SUBSET Stamps(T)
  OBVIOUS
<1>3. IsFiniteSet(S) /\ (\A x \in S : f[x] \in Nat) /\ SumFunctionOnSet(f, S) \in Nat
  BY <1>2, StampCosts
<1>4. Splits(pa, ma, S) /\ IsFiniteSet(ma) /\ Splits(pm, mm, S) /\ IsFiniteSet(mm)
  BY AgentsSplitStamps, ModelsSplitStamps
<1> HIDE DEF b, f, ma, mm, pa, pm
<1>5. EntriesFit(b.byAgent, b.total)
  BY <1>1, <1>4, CellsFit DEF f
<1>6. EntriesFit(b.byModel, b.total)
  BY <1>1, <1>4, CellsFit DEF f
<1>7. TypeCosts(ByTypes(S), SumFunctionOnSet(f, S))
  <2> DEFINE c == ByTypes(S)
             types == TypeSet(S)
             part == [t \in types |-> TypedStamps(S, t)]
  <2>1. DOMAIN c = types /\ \A t \in types : c[t] = SumFunctionOnSet(f, TypedStamps(S, t))
    BY DEF ByTypes, TypeSet, f
  <2>2. types \subseteq Range(TokenTypes)
    <3>1. \A x \in S : x \in Stamps(Usages)
      BY DEF Stamps
    <3>2. \A x \in S : StampOf(x).type \in Range(TokenTypes)
      BY <3>1, StampIn, LineFields
    <3>3. QED
      BY <3>2 DEF TypeSet
  <2>3. IsFiniteSet(types)
    BY <2>2, TypesAre, FS_Subset
  <2>4. \A t \in types : TypedStamps(S, t) \in SUBSET Stamps(T)
    BY DEF TypedStamps
  <2>5. \A t \in types : c[t] \in Nat
    <3> TAKE t \in types
    <3> DEFINE X == TypedStamps(S, t)
    <3>1. c[t] = SumFunctionOnSet(f, X) /\ X \in SUBSET Stamps(T)
      BY <2>1, <2>4
    <3> HIDE DEF X
    <3>2. SumFunctionOnSet(f, X) \in Nat
      BY <3>1, StampCosts DEF f
    <3>3. QED
      BY <3>1, <3>2
  <2>6. \A t \in types : part[t] = TypedStamps(S, t)
    OBVIOUS
  <2>7. \A t \in types : part[t] = {x \in S : StampOf(x).type = t}
    BY DEF TypedStamps
  <2>8. \A x \in S : StampOf(x).type \in types
    BY DEF TypeSet
  <2> HIDE DEF c, types, part, S
  <2>9. Splits(part, types, S)
    BY <2>7, <2>8 DEF Splits
  <2>10. (\A t \in types : c[t] = SumFunctionOnSet(f, part[t])) /\ \A x \in S : f[x] \in Int
    BY <1>3, <2>1, <2>6
  <2>11. SumFunctionOnSet(c, types) = SumFunctionOnSet(f, S)
    BY <1>3, <2>3, <2>9, <2>10, SumOfParts
  <2>12. QED
    BY <2>1, <2>2, <2>5, <2>11 DEF TypeCosts, c
<1>8. QED
  BY <1>1, <1>3, <1>5, <1>6, <1>7 DEF BarFits, b

Tallest(months) == Max({0} \cup {months[i].total : i \in DOMAIN months})
Point(x, tallest) == [height |-> PartOf(x.cost, tallest), segments |-> ToSegments(x.byType, x.cost)]
Entry(f, k) == IF k \in DOMAIN f THEN f[k] ELSE NoBar
AgentUnion(months) == UNION {DOMAIN months[i].byAgent : i \in DOMAIN months}
ModelUnion(months) == UNION {DOMAIN months[i].byModel : i \in DOMAIN months}

\* SeriesView, its local definitions named.
LEMMA SeriesForm ==
  ASSUME NEW months, NEW i \in DOMAIN months
  PROVE  LET v == SeriesView(months)
             t == Tallest(months)
             total == [cost |-> months[i].total, byType |-> months[i].byType]
         IN /\ v.total[i] = Point(total, t)
            /\ DOMAIN v.agents = AgentUnion(months) /\ DOMAIN v.models = ModelUnion(months)
            /\ \A k \in AgentUnion(months) : v.agents[k][i] = Point(Entry(months[i].byAgent, k), t)
            /\ \A k \in ModelUnion(months) : v.models[k][i] = Point(Entry(months[i].byModel, k), t)
  BY DEF SeriesView, Tallest, Point, Entry, AgentUnion, ModelUnion

\* The tallest of two months.
LEMMA TallestIs ==
  ASSUME NEW months, DOMAIN months = 1..2, \A i \in 1..2 : months[i].total \in Nat
  PROVE  /\ Tallest(months) \in Nat
         /\ \A i \in 1..2 : months[i].total <= Tallest(months)
         /\ \A i \in 1..2 : (\A j \in 1..2 : months[j].total <= months[i].total) => Tallest(months) = months[i].total
<1> DEFINE a == months[1].total
           b == months[2].total
           S == {0} \cup {months[i].total : i \in DOMAIN months}
<1>1. S = {0, a, b}
  <2>1. {months[i].total : i \in 1..2} = {a, b}
    OBVIOUS
  <2>2. QED
    BY <2>1
<1>2. a \in Nat /\ b \in Nat
  OBVIOUS
<1>3. Tallest(months) = Max(S)
  BY DEF Tallest
<1> HIDE DEF a, b, S
<1>4. \E x \in S : \A y \in S : x >= y
  <2>1. CASE a <= b
    BY <1>1, <1>2, <2>1
  <2>2. CASE b <= a
    BY <1>1, <1>2, <2>2
  <2>3. QED
    BY <1>2, <2>1, <2>2
<1>5. Max(S) \in S /\ \A y \in S : Max(S) >= y
  BY <1>4 DEF Max
<1>6. Max(S) \in Nat /\ a <= Max(S) /\ b <= Max(S) /\ (Max(S) = 0 \/ Max(S) = a \/ Max(S) = b)
  BY <1>1, <1>2, <1>5
<1>7. \A i \in 1..2 : months[i].total = a \/ months[i].total = b
  BY DEF a, b
<1>8. ASSUME NEW i \in 1..2, \A j \in 1..2 : months[j].total <= months[i].total
      PROVE  Max(S) = months[i].total
  <2> DEFINE x == months[i].total
  <2>1. a <= x /\ b <= x /\ x \in Nat
    BY <1>8 DEF a, b
  <2>2. x \in S
    BY <1>1, <1>7
  <2>3. x <= Max(S)
    BY <1>5, <1>6, <2>1, <2>2
  <2> HIDE DEF x
  <2>4. Max(S) = x
    BY <1>2, <1>6, <2>1, <2>3
  <2>5. QED
    BY <2>4 DEF x
<1>9. \A i \in 1..2 : months[i].total <= Max(S)
  BY <1>6, <1>7
<1>10. QED
  BY <1>3, <1>6, <1>8, <1>9

\* The entries of a month, those it does not have counted as nothing.
LEMMA EntriesTile ==
  ASSUME NEW f, NEW total, EntriesFit(f, total), NEW K, IsFiniteSet(K), DOMAIN f \subseteq K,
         NEW d \in Nat, NEW heights, DOMAIN heights = K,
         \A k \in K : heights[k] = PartOf(Entry(f, k).cost, d)
  PROVE  Tiles(heights, PartOf(total, d))
<1> DEFINE D == DOMAIN f
           Z == K \ D
           c == [k \in K |-> Entry(f, k).cost]
           h == CostOf(f)
<1>1. \A k \in D : f[k].cost \in Nat /\ h[k] = f[k].cost
  BY DEF EntriesFit, CostOf
<1>2. \A k \in D : c[k] = h[k] /\ c[k] \in Nat
  BY <1>1 DEF Entry
<1>3. \A k \in Z : c[k] = 0
  BY DEF Entry, NoBar
<1>4. IsFiniteSet(D) /\ IsFiniteSet(Z) /\ D \cap Z = {} /\ D \cup Z = K
  BY FS_Subset
<1>14. \A k \in K : k \in D \/ k \in Z
  OBVIOUS
<1>5. \A k \in K : c[k] \in Nat
  <2> HIDE DEF D, Z, c
  <2>1. QED
    BY <1>2, <1>3, <1>14
<1>6. SumFunctionOnSet(h, D) = total
  BY DEF EntriesFit
<1>7. \A k \in K : c[k] = Entry(f, k).cost
  OBVIOUS
<1> HIDE DEF D, Z, c, h
<1>8. SumFunctionOnSet(c, D) = SumFunctionOnSet(h, D)
  BY <1>2, <1>4, SumSame
<1>9. SumFunctionOnSet(c, Z) = 0
  BY <1>3, <1>4, SumZeros
<1>10. SumFunctionOnSet(c, K) = total
  <2>1. \A k \in D \cup Z : c[k] \in Int
    BY <1>4, <1>5
  <2>2. SumFunctionOnSet(c, D \cup Z) = SumFunctionOnSet(c, D) + SumFunctionOnSet(c, Z)
    BY <1>4, <2>1, SumUnion
  <2>3. \A k \in D : c[k] \in Int
    BY <2>1
  <2>4. SumFunctionOnSet(c, D) \in Int
    BY <1>4, <2>3, SumInt
  <2>6. D \cup Z = K
    BY <1>4
  <2>7. SumFunctionOnSet(c, D \cup Z) = SumFunctionOnSet(c, K)
    BY <2>6, Zenon
  <2> DEFINE x == SumFunctionOnSet(c, D \cup Z)
             y == SumFunctionOnSet(c, D)
  <2> HIDE DEF x, y
  <2>8. x = y + 0 /\ y \in Int
    BY <1>9, <2>2, <2>4 DEF x, y
  <2>9. x = y
    BY <2>8
  <2>5. QED
    BY <1>6, <1>8, <2>7, <2>9 DEF x, y
<1>11. Parts(heights, c, d, K)
  BY <1>5, <1>7 DEF Parts
<1>12. Tiles(heights, PartOf(SumFunctionOnSet(c, K), d))
  BY <1>11, PartsTile
<1>13. QED
  BY <1>10, <1>12

\* The chart of two months.
LEMMA ChartIs ==
  ASSUME NEW b, BarFits(b), NEW c, BarFits(c)
  PROVE  Charted(<<b, c>>)
<1> DEFINE months == <<b, c>>
           v == SeriesView(months)
           t == Tallest(months)
           KA == AgentUnion(months)
           KM == ModelUnion(months)
<1>1. DOMAIN months = 1..2 /\ \A i \in 1..2 : BarFits(months[i])
  OBVIOUS
<1> HIDE DEF months
<1>2. \A i \in 1..2 : months[i].total \in Nat
  BY <1>1 DEF BarFits
<1>3. t \in Nat
  BY <1>1, <1>2, TallestIs
<1>9. \A i \in 1..2 : (\A j \in 1..2 : months[j].total <= months[i].total) => t = months[i].total
  BY <1>1, <1>2, TallestIs
<1>4. IsFiniteSet(KA) /\ IsFiniteSet(KM) /\ \A i \in 1..2 : DOMAIN months[i].byAgent \subseteq KA /\ DOMAIN months[i].byModel \subseteq KM
  <2> DEFINE a1 == DOMAIN months[1].byAgent
             a2 == DOMAIN months[2].byAgent
             m1 == DOMAIN months[1].byModel
             m2 == DOMAIN months[2].byModel
  <2>1. KA = a1 \cup a2 /\ KM = m1 \cup m2
    <3>1. KA = UNION {DOMAIN months[i].byAgent : i \in 1..2} /\ KM = UNION {DOMAIN months[i].byModel : i \in 1..2}
      BY <1>1 DEF AgentUnion, ModelUnion
    <3>2. \A i \in 1..2 : i = 1 \/ i = 2
      OBVIOUS
    <3>3. 1 \in 1..2 /\ 2 \in 1..2
      OBVIOUS
    <3> HIDE DEF KA, KM
    <3>4. KA = a1 \cup a2
      BY <3>1, <3>2, <3>3
    <3>5. KM = m1 \cup m2
      BY <3>1, <3>2, <3>3
    <3>6. QED
      BY <3>4, <3>5
  <2>2. IsFiniteSet(a1) /\ IsFiniteSet(a2) /\ IsFiniteSet(m1) /\ IsFiniteSet(m2)
    BY <1>1 DEF BarFits, EntriesFit
  <2>3. IsFiniteSet(a1 \cup a2)
    BY <2>2, FS_Union
  <2>4. IsFiniteSet(m1 \cup m2)
    BY <2>2, FS_Union
  <2>5. \A i \in 1..2 : i = 1 \/ i = 2
    OBVIOUS
  <2>6. QED
    BY <2>1, <2>3, <2>4, <2>5
<1>5. ASSUME NEW i \in 1..2
      PROVE  /\ v.total[i].height = PartOf(months[i].total, t)
             /\ v.total[i].segments = ToSegments(months[i].byType, months[i].total)
             /\ DOMAIN v.agents = KA /\ DOMAIN v.models = KM
             /\ \A k \in KA : v.agents[k][i].height = PartOf(Entry(months[i].byAgent, k).cost, t)
             /\ \A k \in KM : v.models[k][i].height = PartOf(Entry(months[i].byModel, k).cost, t)
  <2>1. i \in DOMAIN months
    BY <1>1
  <2>2. /\ v.total[i] = Point([cost |-> months[i].total, byType |-> months[i].byType], t)
        /\ DOMAIN v.agents = KA /\ DOMAIN v.models = KM
        /\ \A k \in KA : v.agents[k][i] = Point(Entry(months[i].byAgent, k), t)
        /\ \A k \in KM : v.models[k][i] = Point(Entry(months[i].byModel, k), t)
    BY <2>1, SeriesForm
  <2> HIDE DEF v, t, KA, KM
  <2> DEFINE x == [cost |-> months[i].total, byType |-> months[i].byType]
  <2>3. x.cost = months[i].total /\ x.byType = months[i].byType
    OBVIOUS
  <2>4. v.total[i] = Point(x, t)
    BY <2>2
  <2> HIDE DEF x
  <2>5. v.total[i].height = PartOf(months[i].total, t) /\ v.total[i].segments = ToSegments(months[i].byType, months[i].total)
    BY <2>3, <2>4 DEF Point
  <2>6. \A k \in KA : v.agents[k][i].height = PartOf(Entry(months[i].byAgent, k).cost, t)
    <3> TAKE k \in KA
    <3> DEFINE e == Entry(months[i].byAgent, k)
    <3>1. v.agents[k][i] = Point(e, t)
      BY <2>2
    <3> HIDE DEF e
    <3>2. v.agents[k][i].height = PartOf(e.cost, t)
      BY <3>1 DEF Point
    <3>3. QED
      BY <3>2 DEF e
  <2>7. \A k \in KM : v.models[k][i].height = PartOf(Entry(months[i].byModel, k).cost, t)
    <3> TAKE k \in KM
    <3> DEFINE e == Entry(months[i].byModel, k)
    <3>1. v.models[k][i] = Point(e, t)
      BY <2>2
    <3> HIDE DEF e
    <3>2. v.models[k][i].height = PartOf(e.cost, t)
      BY <3>1 DEF Point
    <3>3. QED
      BY <3>2 DEF e
  <2>8. QED
    BY <2>2, <2>5, <2>6, <2>7
<1> HIDE DEF v, t, KA, KM
<1>6. ASSUME NEW i \in 1..2
      PROVE  /\ months[i].total > 0 => Tiles(v.total[i].segments, FullBp)
             /\ Tiles([k \in DOMAIN v.agents |-> v.agents[k][i].height], v.total[i].height)
             /\ Tiles([k \in DOMAIN v.models |-> v.models[k][i].height], v.total[i].height)
             /\ (\A j \in 1..2 : months[j].total <= months[i].total) /\ months[i].total > 0
                  => v.total[i].height = FullBp
  <2> DEFINE m == months[i]
             ha == [k \in KA |-> v.agents[k][i].height]
             hm == [k \in KM |-> v.models[k][i].height]
  <2>1. /\ m.total \in Nat /\ TypeCosts(m.byType, m.total)
        /\ EntriesFit(m.byAgent, m.total) /\ EntriesFit(m.byModel, m.total)
    BY <1>1 DEF BarFits
  <2>2. m.total > 0 => PartOf(m.total, m.total) = FullBp
    BY <2>1, WholeIsFull
  <2>3. Tiles(v.total[i].segments, PartOf(m.total, m.total))
    BY <1>5, <2>1, SegmentsTile
  <2>4. Tiles(ha, PartOf(m.total, t))
    <3>1. DOMAIN ha = KA /\ \A k \in KA : ha[k] = PartOf(Entry(m.byAgent, k).cost, t)
      BY <1>5
    <3>2. DOMAIN m.byAgent \subseteq KA
      BY <1>4
    <3> HIDE DEF ha, m
    <3>3. QED
      BY <1>3, <1>4, <2>1, <3>1, <3>2, EntriesTile
  <2>5. Tiles(hm, PartOf(m.total, t))
    <3>1. DOMAIN hm = KM /\ \A k \in KM : hm[k] = PartOf(Entry(m.byModel, k).cost, t)
      BY <1>5
    <3>2. DOMAIN m.byModel \subseteq KM
      BY <1>4
    <3> HIDE DEF hm, m
    <3>3. QED
      BY <1>3, <1>4, <2>1, <3>1, <3>2, EntriesTile
  <2>6. (\A j \in 1..2 : months[j].total <= m.total) => t = m.total
    BY <1>9
  <2>7. DOMAIN v.agents = KA /\ DOMAIN v.models = KM /\ v.total[i].height = PartOf(m.total, t)
    BY <1>5
  <2>8. QED
    BY <2>2, <2>3, <2>4, <2>5, <2>6, <2>7
<1>7. Charted(months)
  BY <1>1, <1>6 DEF Charted, v
<1>8. QED
  BY <1>7 DEF months

-----------------------------------------------------------------------------
(***************************************************************************)
(* A comparison of two statements.                                         *)
(***************************************************************************)

CostAt(s, k) == SumFunctionOnSet(CostOf(s.agents), Holding(AgentKeysOf(s.agents), k))
CompareKeys(now, before) == AgentKeysOf(now.agents) \o AgentKeysOf(before.agents)
KeyAt(keys, own) == keys[CHOOSE j \in own : TRUE]
CompareRow(now, before, k) ==
  [key |-> k, cost |-> CostAt(now, k), previous |-> CostAt(before, k),
   delta |-> CostAt(now, k) - CostAt(before, k)]
CompareRows(now, before) ==
  LET keys == CompareKeys(now, before) owned == Grouped(keys)
  IN [i \in DOMAIN owned |-> CompareRow(now, before, KeyAt(keys, owned[i]))]

\* Comparison, its local definitions named.
LEMMA ComparisonForm ==
  ASSUME NEW now, NEW before, now.count # 0, NEW list, list = AsTuple(CompareRows(now, before))
  PROVE  Comparison(now, before)
           = [byAgent |-> SortedBy(list, [i \in DOMAIN list |-> <<-list[i].cost>>]),
              delta |-> now.total - before.total]
<1>1. ~(now.count = 0 /\ before.count = 0)
  OBVIOUS
<1>2. QED
  BY <1>1 DEF Comparison, CompareRows, CompareRow, CostAt, CompareKeys, KeyAt

\* The keys of a column, split by the keys of the comparison.
KeyedBy(ka, keys, owned) == [g \in DOMAIN owned |-> Holding(ka, KeyAt(keys, owned[g]))]

\* Every position of a column whose keys are all compared is under one key.
LEMMA KeysSplit ==
  ASSUME NEW keys, NEW owned, Groups(owned, keys), NEW ka,
         \A x \in DOMAIN ka : \E j \in DOMAIN keys : keys[j] = ka[x]
  PROVE  Splits(KeyedBy(ka, keys, owned), DOMAIN owned, DOMAIN ka)
<1> DEFINE part == KeyedBy(ka, keys, owned)
<1>1. \A g \in DOMAIN owned : part[g] = {x \in DOMAIN ka : ka[x] = KeyAt(keys, owned[g])}
  BY DEF KeyedBy, Holding
<1>2. /\ \A g \in DOMAIN owned : /\ owned[g] \subseteq DOMAIN keys /\ owned[g] # {}
                                 /\ \A i \in owned[g] : owned[g] = Holding(keys, keys[i])
      /\ \A i \in DOMAIN keys : \E g \in DOMAIN owned : i \in owned[g]
      /\ \A g, h \in DOMAIN owned : \A i \in DOMAIN keys : i \in owned[g] /\ i \in owned[h] => g = h
  BY DEF Groups
<1>3. \A g \in DOMAIN owned : owned[g] = Holding(keys, KeyAt(keys, owned[g]))
  BY <1>2 DEF KeyAt
<1> HIDE DEF part
<1>4. ASSUME NEW x \in DOMAIN ka
      PROVE  \E g \in DOMAIN owned : x \in part[g]
  <2>1. PICK j \in DOMAIN keys : keys[j] = ka[x]
    OBVIOUS
  <2>2. PICK g \in DOMAIN owned : j \in owned[g]
    BY <1>2
  <2>3. j \in Holding(keys, KeyAt(keys, owned[g]))
    BY <1>3, <2>2
  <2>4. keys[j] = KeyAt(keys, owned[g])
    BY <2>3 DEF Holding
  <2>5. QED
    BY <1>1, <2>1, <2>4
<1>5. ASSUME NEW g \in DOMAIN owned, NEW h \in DOMAIN owned, NEW x \in DOMAIN ka, x \in part[g], x \in part[h]
      PROVE  g = h
  <2>1. KeyAt(keys, owned[g]) = KeyAt(keys, owned[h])
    BY <1>1, <1>5
  <2>2. owned[g] = owned[h]
    BY <1>3, <2>1
  <2>3. QED
    BY <1>2, <2>2
<1>6. \A g \in DOMAIN owned : part[g] \subseteq DOMAIN ka
  BY <1>1
<1>7. QED
  BY <1>4, <1>5, <1>6 DEF Splits, part

\* The agents of a statement, as a comparison reads them.
Compared(s) ==
  /\ Len(s.agents) \in Nat /\ DOMAIN s.agents = 1..Len(s.agents)
  /\ CostOf(s.agents) \in [1..Len(s.agents) -> Nat]
  /\ SumFunctionOnSet(CostOf(s.agents), 1..Len(s.agents)) = s.total /\ s.total \in Nat

\* A statement is what a comparison expects.
LEMMA ComparedIs ==
  ASSUME NEW T, NEW s, Statement(s, T)
  PROVE  Compared(s)
<1> DEFINE L == s.lines
           A == s.agents
           n == Len(A)
<1>1. /\ L \in Seq(Line) /\ s.total \in Nat /\ s.total = Total(CostOf(L)) /\ A = BuildAgentGroups(L)
  BY StatementTotals DEF Statement
<1>2. PICK own : AgentsFit(A, own, L) /\ AgentsShare(A)
  BY <1>1, AgentsAre
<1>3. Total(CostOf(A)) = s.total
  BY <1>1, <1>2, AgentSums
<1>4. n \in Nat /\ DOMAIN A = 1..n
  BY <1>2 DEF AgentsFit
<1>5. CostOf(A) \in [DOMAIN A -> Nat] /\ DOMAIN CostOf(A) = DOMAIN A
  BY <1>2 DEF AgentsShare
<1>6. SumFunctionOnSet(CostOf(A), 1..n) = s.total
  BY <1>3, <1>4, <1>5, TotalIs
<1>7. QED
  BY <1>1, <1>4, <1>5, <1>6 DEF Compared

\* The keys of a comparison are those of both statements.
LEMMA KeysAre ==
  ASSUME NEW now, Compared(now), NEW before, Compared(before),
         NEW keys, keys = CompareKeys(now, before),
         NEW ka, ka = AgentKeysOf(now.agents), NEW kb, kb = AgentKeysOf(before.agents)
  PROVE  /\ Groups(Grouped(keys), keys)
         /\ \A x \in DOMAIN ka : \E j \in DOMAIN keys : keys[j] = ka[x]
         /\ \A x \in DOMAIN kb : \E j \in DOMAIN keys : keys[j] = kb[x]
<1> DEFINE n == Len(now.agents)
           m == Len(before.agents)
           R == Range(ka) \cup Range(kb)
<1>1. n \in Nat /\ m \in Nat /\ DOMAIN ka = 1..n /\ DOMAIN kb = 1..m
  BY DEF Compared, AgentKeysOf
<1>2. ka = [i \in 1..n |-> ka[i]] /\ kb = [i \in 1..m |-> kb[i]]
  BY <1>1 DEF AgentKeysOf
<1>3. (\A i \in 1..n : ka[i] \in R) /\ \A i \in 1..m : kb[i] \in R
  BY <1>1 DEF Range
<1>4. keys = ka \o kb
  BY DEF CompareKeys
<1> HIDE DEF n, m, R
<1>5. ka \in [1..n -> R] /\ kb \in [1..m -> R]
  BY <1>2, <1>3
<1>6. ka \in Seq(R) /\ kb \in Seq(R) /\ Len(ka) = n /\ Len(kb) = m
  BY <1>1, <1>5, TupleIs
<1>7. /\ keys \in Seq(R) /\ Len(keys) = n + m
      /\ \A i \in 1..(n + m) : keys[i] = IF i <= n THEN ka[i] ELSE kb[i - n]
  BY <1>4, <1>6, ConcatProperties
<1>8. DOMAIN keys = 1..(n + m)
  BY <1>7, LenProperties
<1>9. Groups(Grouped(keys), keys)
  <2>1. n + m \in Nat
    BY <1>1
  <2>2. QED
    BY <1>8, <2>1, GroupedIs
<1>10. ASSUME NEW x \in 1..n
       PROVE  x \in DOMAIN keys /\ keys[x] = ka[x]
  BY <1>1, <1>7, <1>8
<1>11. ASSUME NEW x \in 1..m
       PROVE  n + x \in DOMAIN keys /\ keys[n + x] = kb[x]
  <2>1. n + x \in 1..(n + m) /\ ~(n + x <= n) /\ (n + x) - n = x
    BY <1>1
  <2>2. QED
    BY <1>7, <1>8, <2>1
<1>12. QED
  BY <1>1, <1>9, <1>10, <1>11

Moved(t, s, order, m) == \A p \in 1..m : order[p] \in 1..m /\ t[p] = s[order[p]]
SumsParts(b, f, part, m) == \A g \in 1..m : b[g] = SumFunctionOnSet(f, part[g])

\* A column of a list of rows that sum the parts of a statement's agents.
LEMMA ColumnSums ==
  ASSUME NEW m \in Nat, NEW own, NEW part, NEW order, Moved(own, part, order, m),
         NEW n \in Nat, Splits(own, 1..m, 1..n), NEW f \in [1..n -> Nat],
         NEW c, DOMAIN c = 1..m, NEW b, SumsParts(b, f, part, m), Moved(c, b, order, m)
  PROVE  Total(c) = SumFunctionOnSet(f, 1..n) /\ \A p \in 1..m : c[p] \in Nat
<1> DEFINE I == 1..m
           J == 1..n
<1>1. IsFiniteSet(I) /\ IsFiniteSet(J)
  BY UpToN
<1>2. \A p \in I : c[p] = SumFunctionOnSet(f, own[p])
  BY DEF Moved, SumsParts
<1>3. Splits(own, I, J) /\ (\A x \in J : f[x] \in Nat) /\ DOMAIN c = I
  OBVIOUS
<1> HIDE DEF I, J
<1>4. SumFunctionOnSet(c, I) = SumFunctionOnSet(f, J)
  <2>1. \A x \in J : f[x] \in Int
    BY <1>3
  <2>2. QED
    BY <1>1, <1>2, <1>3, <2>1, SumOfParts
<1>5. ASSUME NEW p \in I
      PROVE  c[p] \in Nat
  <2> DEFINE o == own[p]
  <2>1. o \subseteq J
    BY <1>3 DEF Splits
  <2>2. IsFiniteSet(o) /\ \A x \in o : f[x] \in Nat
    BY <1>1, <1>3, <2>1, FS_Subset
  <2> HIDE DEF o
  <2>3. SumFunctionOnSet(f, o) \in Nat
    BY <2>2, SumNat
  <2>4. QED
    BY <1>2, <2>3 DEF o
<1>6. QED
  BY <1>3, <1>4, <1>5, TotalIs DEF I, J

\* The columns of a comparison add up.
LEMMA ComparisonIs ==
  ASSUME NEW now, Compared(now), NEW before, Compared(before), now.count # 0,
         NEW list, list = Comparison(now, before).byAgent
  PROVE  /\ Total(CostOf(list)) = now.total
         /\ Total([i \in DOMAIN list |-> list[i].previous]) = before.total
         /\ Total([i \in DOMAIN list |-> list[i].delta]) = now.total - before.total
         /\ Comparison(now, before).delta = now.total - before.total
<1> DEFINE keys == CompareKeys(now, before)
           owned == Grouped(keys)
           m == Len(owned)
           ka == AgentKeysOf(now.agents)
           kb == AgentKeysOf(before.agents)
           pa == KeyedBy(ka, keys, owned)
           pb == KeyedBy(kb, keys, owned)
           n == Len(now.agents)
           k == Len(before.agents)
           fa == CostOf(now.agents)
           fb == CostOf(before.agents)
           row == CompareRows(now, before)
           R == AsTuple(row)
           terms == [g \in 1..m |-> <<-row[g].cost>>]
           w == 1
           V == SortedBy(R, terms)
           b1 == [g \in 1..m |-> row[g].cost]
           b2 == [g \in 1..m |-> row[g].previous]
           c1 == CostOf(list)
           c2 == [i \in DOMAIN list |-> list[i].previous]
           c3 == [i \in DOMAIN list |-> list[i].delta]
<1>1. /\ n \in Nat /\ k \in Nat /\ DOMAIN ka = 1..n /\ DOMAIN kb = 1..k
      /\ fa \in [1..n -> Nat] /\ fb \in [1..k -> Nat]
      /\ SumFunctionOnSet(fa, 1..n) = now.total /\ SumFunctionOnSet(fb, 1..k) = before.total
      /\ now.total \in Nat /\ before.total \in Nat
  BY DEF Compared, AgentKeysOf
<1>2. /\ Groups(owned, keys)
      /\ \A x \in DOMAIN ka : \E j \in DOMAIN keys : keys[j] = ka[x]
      /\ \A x \in DOMAIN kb : \E j \in DOMAIN keys : keys[j] = kb[x]
  <2>1. keys = CompareKeys(now, before) /\ ka = AgentKeysOf(now.agents) /\ kb = AgentKeysOf(before.agents)
    OBVIOUS
  <2> HIDE DEF keys, ka, kb
  <2>2. QED
    BY <2>1, KeysAre
<1>3. m \in Nat /\ DOMAIN owned = 1..m
  BY <1>2 DEF Groups
<1>4. row = [i \in 1..m |-> CompareRow(now, before, KeyAt(keys, owned[i]))]
  BY <1>3 DEF CompareRows
<1>5. ASSUME NEW g \in 1..m
      PROVE  /\ row[g].cost = SumFunctionOnSet(fa, pa[g]) /\ row[g].previous = SumFunctionOnSet(fb, pb[g])
             /\ row[g].delta = row[g].cost - row[g].previous
  <2> DEFINE x == KeyAt(keys, owned[g])
  <2>1. row[g] = CompareRow(now, before, x) /\ g \in DOMAIN owned
    BY <1>3, <1>4
  <2>2. pa[g] = Holding(ka, x) /\ pb[g] = Holding(kb, x)
    BY <2>1 DEF KeyedBy
  <2> HIDE DEF x, row, pa, pb
  <2>3. QED
    BY <2>1, <2>2 DEF CompareRow, CostAt
<1> HIDE DEF keys, owned, ka, kb, n, k, fa, fb
<1>6. Splits(pa, 1..m, 1..n) /\ Splits(pb, 1..m, 1..k)
  <2>1. Splits(pa, DOMAIN owned, DOMAIN ka)
    BY <1>2, KeysSplit
  <2>2. Splits(pb, DOMAIN owned, DOMAIN kb)
    BY <1>2, KeysSplit
  <2> HIDE DEF pa, pb
  <2>3. QED
    BY <1>1, <1>3, <2>1, <2>2
<1> HIDE DEF row, pa, pb, m
<1>7. DOMAIN row = 1..m /\ row = [g \in 1..m |-> row[g]]
  BY <1>4
<1>8. R = row /\ DOMAIN R = 1..m
  <2>1. row \in [1..m -> Range(row)]
    <3>1. \A g \in 1..m : row[g] \in Range(row)
      BY <1>7 DEF Range
    <3>2. QED
      BY <1>7, <3>1
  <2>2. QED
    BY <1>3, <1>7, <2>1, TupleIs
<1>9. Comparison(now, before) = [byAgent |-> SortedBy(R, [i \in DOMAIN R |-> <<-R[i].cost>>]), delta |-> now.total - before.total]
  <2> HIDE DEF R
  <2>1. R = AsTuple(CompareRows(now, before))
    BY DEF R, row
  <2>2. QED
    BY <2>1, ComparisonForm
<1>10. list = V /\ Comparison(now, before).delta = now.total - before.total
  <2>1. [i \in DOMAIN R |-> <<-R[i].cost>>] = terms
    BY <1>8
  <2> HIDE DEF R, terms
  <2>2. QED
    BY <1>9, <2>1
<1>11. \A g \in 1..m : row[g].cost \in Nat
  <2> TAKE g \in 1..m
  <2> DEFINE X == pa[g]
  <2>1. X \subseteq 1..n
    BY <1>6 DEF Splits
  <2>2. IsFiniteSet(1..n) /\ IsFiniteSet(X)
    BY <1>1, <2>1, UpToN, FS_Subset
  <2>3. \A x \in X : fa[x] \in Nat
    BY <1>1, <2>1
  <2> HIDE DEF X
  <2>4. SumFunctionOnSet(fa, X) \in Nat
    BY <2>2, <2>3, SumNat
  <2>5. QED
    BY <1>5, <2>4 DEF X
<1>12. terms \in [1..m -> [1..w -> Int]] /\ w \in Nat
  BY <1>11
<1> HIDE DEF terms, w
<1>13. PICK o1, r1 : Splits(o1, 1..m, 1..n) /\ Reordered(V, o1, row, pa, r1, m)
  BY <1>3, <1>6, <1>7, <1>12, RowsSorted
<1>14. PICK o2, r2 : Splits(o2, 1..m, 1..k) /\ Reordered(V, o2, row, pb, r2, m)
  BY <1>3, <1>6, <1>7, <1>12, RowsSorted
<1> HIDE DEF V
<1>15. DOMAIN list = 1..m
  BY <1>10, <1>13 DEF Reordered
<1>16. Moved(c1, b1, r1, m) /\ Moved(o1, pa, r1, m)
  BY <1>10, <1>13, <1>15 DEF Reordered, CostOf, Moved
<1>17. Moved(c2, b2, r2, m) /\ Moved(o2, pb, r2, m)
  BY <1>10, <1>14, <1>15 DEF Reordered, Moved
<1>18. SumsParts(b1, fa, pa, m) /\ SumsParts(b2, fb, pb, m)
  BY <1>5 DEF SumsParts
<1>19. DOMAIN c1 = 1..m /\ DOMAIN c2 = 1..m /\ DOMAIN c3 = 1..m
  BY <1>15 DEF CostOf
<1>20. \A p \in 1..m : c3[p] = c1[p] - c2[p]
  <2> TAKE p \in 1..m
  <2>1. r1[p] \in 1..m /\ list[p] = row[r1[p]]
    BY <1>10, <1>13 DEF Reordered
  <2>2. list[p].delta = list[p].cost - list[p].previous
    BY <1>5, <2>1
  <2>3. QED
    BY <1>15, <2>2 DEF CostOf
<1> HIDE DEF b1, b2, c1, c2, c3
<1>21. Total(c1) = SumFunctionOnSet(fa, 1..n) /\ \A p \in 1..m : c1[p] \in Nat
  BY <1>1, <1>3, <1>13, <1>16, <1>18, <1>19, ColumnSums
<1>22. Total(c2) = SumFunctionOnSet(fb, 1..k) /\ \A p \in 1..m : c2[p] \in Nat
  BY <1>1, <1>3, <1>14, <1>17, <1>18, <1>19, ColumnSums
<1>23. Total(c3) = Total(c1) - Total(c2)
  <2> DEFINE I == 1..m
  <2>1. IsFiniteSet(I) /\ Minus(c3, c1, c2, I)
    BY <1>3, <1>20, <1>21, <1>22, UpToN DEF Minus
  <2> HIDE DEF I
  <2>2. SumFunctionOnSet(c3, I) = SumFunctionOnSet(c1, I) - SumFunctionOnSet(c2, I)
    BY <2>1, SumMinus
  <2>3. QED
    BY <1>19, <2>2, TotalIs DEF I
<1>24. QED
  BY <1>1, <1>10, <1>21, <1>22, <1>23 DEF c1, c2, c3

\* Two rounded totals and their rounded difference: three half cents.
LEMMA DeltaNear ==
  ASSUME NEW a \in Nat, NEW b \in Nat
  PROVE  DeltaView(a - b).cents - (HalfUp(a, PerCent) - HalfUp(b, PerCent)) \in -1..1
<1> DEFINE P == PerCent
           d == a - b
           z == IF d < 0 THEN -d ELSE d
           A == HalfUp(a, P)
           B == HalfUp(b, P)
           Z == HalfUp(z, P)
           D == IF d < 0 THEN -Z ELSE Z
           x == D - (A - B)
<1>1. P \in Nat \ {0} /\ z \in Int /\ a \in Int /\ b \in Int
  BY FoldAssumption
<1>2. DeltaView(d).cents = D
  BY DEF DeltaView
<1>3. A \in Int /\ 2 * (P * A) <= 2 * a + P /\ 2 * (P * A) >= 2 * a - P
  BY <1>1, HalfUpIs
<1>4. B \in Int /\ 2 * (P * B) <= 2 * b + P /\ 2 * (P * B) >= 2 * b - P
  BY <1>1, HalfUpIs
<1>5. Z \in Int /\ 2 * (P * Z) <= 2 * z + P /\ 2 * (P * Z) >= 2 * z - P
  <2> HIDE DEF z, P
  <2>1. QED
    BY <1>1, HalfUpIs
<1> HIDE DEF A, B, Z, P
<1>6. D \in Int /\ 2 * (P * D) <= 2 * (a - b) + P /\ 2 * (P * D) >= 2 * (a - b) - P
  <2>1. CASE d < 0
    <3>1. z = b - a /\ D = -Z
      BY <2>1
    <3>2. P * (-Z) = -(P * Z) /\ P * Z \in Int
      BY <1>1, <1>5
    <3> DEFINE u == P * Z
    <3> HIDE DEF u, z
    <3>3. P * D = -u /\ u \in Int /\ 2 * u <= 2 * (b - a) + P /\ 2 * u >= 2 * (b - a) - P
      BY <1>5, <3>1, <3>2 DEF u
    <3>4. QED
      BY <1>1, <1>5, <3>1, <3>3
  <2>2. CASE ~(d < 0)
    <3>1. z = a - b /\ D = Z
      BY <2>2
    <3>2. QED
      BY <1>5, <3>1
  <2>3. QED
    BY <2>1, <2>2
<1> HIDE DEF D, d
<1>7. P * (2 * x) <= 3 * P /\ P * (2 * x) >= -(3 * P) /\ x \in Int
  <2> DEFINE pa == P * A
             pb == P * B
             pd == P * D
  <2>1. P * (2 * x) = 2 * pd - 2 * pa + 2 * pb /\ pa \in Int /\ pb \in Int /\ pd \in Int /\ x \in Int
    BY <1>1, <1>3, <1>4, <1>6
  <2>2. 2 * pa <= 2 * a + P /\ 2 * pa >= 2 * a - P /\ 2 * pb <= 2 * b + P /\ 2 * pb >= 2 * b - P
    BY <1>3, <1>4
  <2>3. 2 * pd <= 2 * (a - b) + P /\ 2 * pd >= 2 * (a - b) - P
    BY <1>6
  <2> HIDE DEF pa, pb, pd
  <2> DEFINE y == P * (2 * x)
  <2>4. y = 2 * pd - 2 * pa + 2 * pb
    BY <2>1
  <2> HIDE DEF y, x
  <2>5. y <= 3 * P /\ y >= -(3 * P)
    BY <1>1, <2>1, <2>2, <2>3, <2>4
  <2>6. QED
    BY <2>1, <2>5 DEF y
<1> HIDE DEF x
<1>8. 2 * x <= 3
  <2>1. P * (2 * x) < P * 3 + P
    BY <1>1, <1>7
  <2>2. QED
    BY <1>1, <1>7, <2>1, TimesLess
<1>9. -(2 * x) <= 3
  <2> DEFINE y == -(2 * x)
  <2>1. P * y = -(P * (2 * x)) /\ y \in Int
    BY <1>1, <1>7
  <2>2. P * y < P * 3 + P
    BY <1>1, <1>7, <2>1
  <2> HIDE DEF y
  <2>3. y <= 3
    BY <1>1, <2>1, <2>2, TimesLess
  <2>4. QED
    BY <2>3 DEF y
<1>10. x \in -1..1
  BY <1>7, <1>8, <1>9
<1>11. QED
  BY <1>2, <1>10 DEF x, D, d, A, B, P

\* The comparison of two statements accounts for their difference.
LEMMA StatementAccounts ==
  ASSUME NEW T, NEW now, Statement(now, T), T # {}, NEW U, NEW before, Statement(before, U)
  PROVE  Accounts(now, before)
<1> DEFINE c == Comparison(now, before)
           list == c.byAgent
<1>1. Compared(now) /\ Compared(before)
  BY ComparedIs
<1>2. now.count # 0
  <2>1. IsFiniteSet(T) /\ now.count = Cardinality(T)
    BY DEF Statement
  <2>2. QED
    BY <2>1, FS_EmptySet
<1>3. /\ Total(CostOf(list)) = now.total
      /\ Total([i \in DOMAIN list |-> list[i].previous]) = before.total
      /\ Total([i \in DOMAIN list |-> list[i].delta]) = now.total - before.total
      /\ c.delta = now.total - before.total
  BY <1>1, <1>2, ComparisonIs
<1>4. ComparisonView(c).total.cents = DeltaView(c.delta).cents
  BY DEF ComparisonView
<1>5. now.totalCents = HalfUp(now.total, PerCent) /\ before.totalCents = HalfUp(before.total, PerCent)
  BY DEF Statement
<1>6. now.total \in Nat /\ before.total \in Nat
  BY <1>1 DEF Compared
<1> HIDE DEF c
<1>7. ComparisonView(c).total.cents - (now.totalCents - before.totalCents) \in -1..1
  BY <1>3, <1>4, <1>5, <1>6, DeltaNear
<1>8. QED
  BY <1>3, <1>7 DEF Accounts, c

-----------------------------------------------------------------------------
(***************************************************************************)
(* The theorem.                                                            *)
(***************************************************************************)

\* What FoldInv says of the statements of two folds.
LEMMA FoldedMeansClosed == FoldInv => ClosedEqualsLive
<1> SUFFICES ASSUME FoldInv PROVE ClosedEqualsLive
  OBVIOUS
<1>1. ASSUME NEW f \in Folds, fold[f].fed # {}
      PROVE  LET statement == FinishStatement(fold[f]) IN
             /\ Closes(statement, SummaryView(statement)) /\ Drawn(statement, SummaryView(statement))
             /\ FromSnapshotOf(statement) = RollupOf(fold[f].fed)
             /\ \A g \in Folds : Charted(<<FromSnapshotOf(statement), RollupOf(fold[g].fed)>>)
             /\ \A g \in Folds : /\ fold[f].fed = fold[g].fed => statement = FinishStatement(fold[g])
                                 /\ Accounts(statement, FinishStatement(fold[g]))
  <2> DEFINE a == fold[f]
             s == FinishStatement(a)
             T == a.fed
  <2>1. Folded(a) /\ \A g \in Folds : Folded(fold[g])
    BY DEF FoldInv
  <2>2. Statement(s, T) /\ T \in SUBSET Usages /\ IsFiniteSet(Stamps(T)) /\ T # {}
    <3> HIDE DEF a
    <3>1. QED
      BY <1>1, <2>1, StatementIs DEF Folded, a
  <2> HIDE DEF s, T, a
  <2>3. Closes(s, SummaryView(s)) /\ Drawn(s, SummaryView(s))
    BY <2>2, StatementCloses, StatementDrawn
  <2>4. FromSnapshotOf(s) = BarOf(T) /\ RollupOf(T) = BarOf(T) /\ BarFits(BarOf(T))
    BY <2>2, SnapshotBar, RollupBar, BarIs
  <2>5. ASSUME NEW g \in Folds
        PROVE  /\ Charted(<<FromSnapshotOf(s), RollupOf(fold[g].fed)>>)
               /\ T = fold[g].fed => s = FinishStatement(fold[g])
               /\ Accounts(s, FinishStatement(fold[g]))
    <3> DEFINE b == fold[g]
               U == b.fed
    <3>1. Folded(b)
      BY <2>1
    <3> HIDE DEF b
    <3>2. Statement(FinishStatement(b), U) /\ U \in SUBSET Usages /\ IsFiniteSet(Stamps(U))
      BY <3>1, StatementIs DEF Folded
    <3>3. T = U => s = FinishStatement(b)
      BY <2>1, <3>1, SameStatement DEF s, T
    <3> HIDE DEF U
    <3>4. RollupOf(U) = BarOf(U) /\ BarFits(BarOf(U))
      BY <3>2, RollupBar, BarIs
    <3>5. Charted(<<FromSnapshotOf(s), RollupOf(U)>>)
      BY <2>4, <3>4, ChartIs
    <3>6. Accounts(s, FinishStatement(b))
      BY <2>2, <3>2, StatementAccounts
    <3>7. QED
      BY <3>3, <3>5, <3>6 DEF b, U
  <2>6. QED
    BY <2>3, <2>4, <2>5 DEF s, T, a
<1>2. QED
  BY <1>1 DEF ClosedEqualsLive

\* Over every set of traces and every order of folding them, statements,
\* their views, charts and comparisons close, and a closed month equals the
\* live one.
THEOREM ClosedIsLive == FoldSpec => []ClosedEqualsLive
  BY FoldIsOfTraces, FoldedMeansClosed, PTL

=============================================================================
