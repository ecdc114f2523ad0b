--------------------------- MODULE Archive_proofs ---------------------------
(***************************************************************************)
(* Proofs about the archive and what is derived from it.  WindowSync, for  *)
(* any number of rows, writes, windows and page sizes: what a windowed     *)
(* sync stores is what the source finally says, and a run that ends well   *)
(* has accounted for every row it was to fetch.  Projections, for any      *)
(* number of traces, sessions and writers: a facet counts what its option  *)
(* lists, a listed session is what its page shows, and a rebuild that      *)
(* reports success dropped no insert.                                      *)
(***************************************************************************)
EXTENDS WindowSync, Projections, OrderLemmas

-----------------------------------------------------------------------------
(* WindowSync: the invariant. *)

\* What the source finally says of a row, as the run reads it.
FinalRow(r) == [row |-> r, says |-> WritesOf[r][Final(r)]]

SourceStates == [SourceRows -> [writes : Nat, updatedAt : Nat]]

\* A row still being built was heard of within the quiet period.
SourceInv ==
  /\ sourceTime \in Nat /\ source \in SourceStates
  /\ \A r \in SourceRows : source[r].writes \in 0..Final(r)
  /\ \A r \in SourceRows : source[r].writes > 0 /\ ~Complete(r) => source[r].updatedAt + Quiet >= sourceTime

\* It parses, what was corrupt of it was rebuilt, and the rebuilding recorded.
Usable(r) ==
  /\ FinalRow(r).says.shape = "whole"
  /\ SalvageIsSafe(FinalTrace(r))
  /\ FinalTrace(r).corrupt # {} => <<"summary_salvaged", r>> \in poison

\* What is archived is the final trace, clipped to fit, its salvage recorded.
ArchiveInv ==
  /\ archive = [r \in SourceRows |-> archive[r]]
  /\ \A r \in SourceRows :
       \/ archive[r] = Unarchived
       \/ archive[r] = MapToTrace(FinalTrace(r)) /\ Usable(r) /\ ~Unstorable(r)

RunStates ==
  [number : Nat, pc : {"query", "spans", "ingest", "truncation", "done", "failed"},
   from : Int, to : Int, ceiling : Int, at : Int, id : Nat,
   raw : SUBSET {FinalRow(r) : r \in SourceRows}, page : SUBSET {FinalTrace(r) : r \in SourceRows},
   fetched : Nat, failed : Nat, truncated : 0..NRows, owed : SUBSET SourceRows]

\* Recorded, except for the truncation the run is about to record.
Accounted(r) ==
  IF archive[r].stored
  THEN archive[r].clipped # {} => \/ <<"content_truncation", r>> \in parked
                                  \/ run.pc = "truncation" /\ run.truncated = r
  ELSE <<"summary", r>> \in poison \/ <<"oversized_unstorable", r>> \in parked

\* What the page of the run does not hold lies behind all of it, and the page is full.
Beyond(r) == Cardinality(run.raw) >= PageSize /\ \A x \in run.raw : Later(r, x.row)

\* The rows the run has read are complete; what it owes and has not accounted
\* for is ahead of its cursor: in the page, or beyond it.
RunInv ==
  run = NoRun \/
    /\ run \in RunStates
    /\ run.ceiling + Quiet <= sourceTime
    /\ run.pc = "spans" => \A x \in run.raw : Complete(x.row)
    /\ \A x \in run.page : Usable(x.row)
    /\ run.pc \in {"ingest", "truncation"} /\ Dated(run.raw) = {} => Cardinality(run.raw) < PageSize
    /\ \A r \in run.owed : Complete(r) /\ InWindow(r)
    /\ run.pc = "query" => \A r \in run.owed : Accounted(r) \/ AfterCursor(r)
    /\ run.pc = "spans" =>
         \A r \in run.owed : Accounted(r) \/ FinalRow(r) \in run.raw \/ Beyond(r)
    /\ run.pc \in {"ingest", "truncation"} =>
         \A r \in run.owed : Accounted(r) \/ FinalTrace(r) \in run.page \/ Beyond(r)
    /\ run.pc = "done" => \A r \in run.owed : Accounted(r)

WindowInv == SourceInv /\ ArchiveInv /\ RunInv

-----------------------------------------------------------------------------
(* WindowSync: rows in the order of the query.                             *)

LEMMA WindowConstants ==
  /\ NRows \in Nat \ {0} /\ PageSize \in Nat \ {0} /\ BreakerMin \in Nat \ {0} /\ BreakerMin <= PageSize
  /\ MaxTime \in Nat \ {0} /\ MaxRuns \in Nat \ {0} /\ Quiet \in Nat /\ Margin \in Nat
  /\ SourceRows \subseteq Nat \ {0} /\ IsFiniteSet(SourceRows)
  /\ \A r \in SourceRows : StartOf[r] \in Nat /\ Final(r) \in Nat \ {0}
  /\ \A window \in Windows : window.from \in Nat /\ window.to \in Nat
<1>1. {NRows, PageSize, BreakerMin, MaxTime, MaxRuns, Cap} \subseteq Nat \ {0}
  BY WindowAssumption
<1>2. NRows \in Nat \ {0} /\ PageSize \in Nat \ {0} /\ BreakerMin \in Nat \ {0}
      /\ MaxTime \in Nat \ {0} /\ MaxRuns \in Nat \ {0}
  BY <1>1
<1>3. IsFiniteSet(SourceRows) /\ SourceRows \subseteq Nat \ {0}
  BY <1>2, FS_Interval DEF SourceRows
<1>4. \A r \in SourceRows : StartOf[r] \in Nat /\ Final(r) \in Nat \ {0}
  <2> TAKE r \in SourceRows
  <2>1. StartOf \in [SourceRows -> 0..MaxTime] /\ Len(WritesOf[r]) \in Nat \ {0}
    BY WindowAssumption
  <2>2. QED
    BY <1>2, <2>1 DEF Final
<1>5. QED
  BY <1>2, <1>3, <1>4, WindowAssumption

LEMMA LaterOrders ==
  /\ \A r, s \in SourceRows : r = s \/ Later(r, s) \/ Later(s, r)
  /\ \A r, s \in SourceRows : Later(r, s) => r # s /\ ~Later(s, r)
  /\ \A r, s, t \in SourceRows : Later(r, s) /\ Later(s, t) => Later(r, t)
<1>1. \A r \in SourceRows : StartOf[r] \in Int /\ r \in Int
  BY WindowConstants
<1>2. QED
  BY <1>1 DEF Later

LEMMA Earliest ==
  ASSUME NEW S \in SUBSET SourceRows, S # {}
  PROVE  \E e \in S : \A y \in S : y = e \/ Later(y, e)
<1> DEFINE R == {p \in SourceRows \X SourceRows : Later(p[1], p[2])}
<1>1. IsFiniteSet(S)
  BY WindowConstants, FS_Subset
<1>2. \A x, y \in SourceRows : <<x, y>> \in R <=> Later(x, y)
  OBVIOUS
<1> HIDE DEF R
<1>3. \A x, y \in S : x = y \/ <<x, y>> \in R \/ <<y, x>> \in R
  BY <1>2, LaterOrders
<1>4. \A x, y, z \in S : <<x, y>> \in R /\ <<y, z>> \in R => <<x, z>> \in R
  BY <1>2, LaterOrders
<1>5. \E e \in S : \A y \in S : y = e \/ <<y, e>> \in R
  BY <1>1, <1>3, <1>4, LastExists
<1>6. QED
  BY <1>2, <1>5

LEMMA Latest ==
  ASSUME NEW S \in SUBSET SourceRows, S # {}
  PROVE  \E e \in S : \A y \in S : y = e \/ Later(e, y)
<1> DEFINE R == {p \in SourceRows \X SourceRows : Later(p[2], p[1])}
<1>1. IsFiniteSet(S)
  BY WindowConstants, FS_Subset
<1>2. \A x, y \in SourceRows : <<x, y>> \in R <=> Later(y, x)
  OBVIOUS
<1> HIDE DEF R
<1>3. \A x, y \in S : x = y \/ <<x, y>> \in R \/ <<y, x>> \in R
  BY <1>2, LaterOrders
<1>4. \A x, y, z \in S : <<x, y>> \in R /\ <<y, z>> \in R => <<x, z>> \in R
  BY <1>2, LaterOrders
<1>5. \E e \in S : \A y \in S : y = e \/ <<y, e>> \in R
  BY <1>1, <1>3, <1>4, LastExists
<1>6. QED
  BY <1>2, <1>5

\* A page misses a row only when it is full, and of rows before it.
LEMMA PageOfFirst ==
  ASSUME NEW rows \in SUBSET SourceRows, NEW n \in Nat \ {0}
  PROVE  /\ FirstRows(rows, n) \subseteq rows
         /\ rows # {} => FirstRows(rows, n) # {}
         /\ \A r \in rows \ FirstRows(rows, n) :
              /\ Cardinality(FirstRows(rows, n)) >= n
              /\ \A s \in FirstRows(rows, n) : Later(r, s)
<1> DEFINE Before(r) == {s \in rows : Later(r, s)}
           First == FirstRows(rows, n)
<1>1. First = {r \in rows : Cardinality(Before(r)) < n}
  BY DEF FirstRows
<1>2. \A r \in rows : IsFiniteSet(Before(r)) /\ Cardinality(Before(r)) \in Nat
  <2> TAKE r \in rows
  <2>1. Before(r) \subseteq SourceRows
    OBVIOUS
  <2>2. QED
    BY <2>1, WindowConstants, FS_Subset, FS_CardinalityType
<1>3. First \subseteq rows /\ IsFiniteSet(First) /\ Cardinality(First) \in Nat
  <2>1. First \subseteq SourceRows
    BY <1>1
  <2>2. QED
    BY <1>1, <2>1, WindowConstants, FS_Subset, FS_CardinalityType
<1>4. ASSUME NEW r \in rows, NEW s \in rows, Later(r, s)
      PROVE  Cardinality(Before(s)) <= Cardinality(Before(r))
  <2>1. Before(s) \subseteq Before(r)
    BY <1>4, LaterOrders
  <2>2. QED
    BY <1>2, <2>1, FS_Subset
<1>5. \A r \in rows : r \in First <=> ~(Cardinality(Before(r)) >= n)
  <2> TAKE r \in rows
  <2>1. Cardinality(Before(r)) \in Nat
    BY <1>2
  <2>2. r \in First <=> Cardinality(Before(r)) < n
    BY <1>1
  <2> HIDE DEF First, Before
  <2>3. QED
    BY <2>1, <2>2
<1>6. ASSUME rows # {}
      PROVE  First # {}
  <2>1. PICK e \in rows : \A y \in rows : y = e \/ Later(y, e)
    BY <1>6, Earliest
  <2>2. Before(e) = {}
    BY <2>1, LaterOrders
  <2>3. Cardinality(Before(e)) = 0
    BY <2>2, FS_EmptySet
  <2>4. QED
    BY <1>1, <2>3
<1>7. ASSUME NEW r \in rows \ First
      PROVE  Cardinality(First) >= n
  <2>1. rows \ First # {} /\ rows \ First \in SUBSET SourceRows
    BY <1>7
  <2>2. PICK e \in rows \ First : \A y \in rows \ First : y = e \/ Later(y, e)
    BY <2>1, Earliest
  <2>3. Before(e) \subseteq First
    BY <2>2, LaterOrders
  <2>4. Cardinality(Before(e)) >= n
    BY <1>5, <2>2
  <2>5. Cardinality(Before(e)) <= Cardinality(First)
    BY <1>3, <2>3, FS_Subset
  <2>6. QED
    BY <1>2, <1>3, <2>4, <2>5
<1>8. ASSUME NEW r \in rows \ First, NEW s \in First
      PROVE  Later(r, s)
  <2>1. Cardinality(Before(r)) >= n /\ ~(Cardinality(Before(s)) >= n) /\ r \in rows /\ s \in rows
    BY <1>5, <1>3
  <2>2. ~Later(s, r)
    <3>1. SUFFICES ASSUME Later(s, r) PROVE FALSE
      OBVIOUS
    <3>2. Cardinality(Before(r)) <= Cardinality(Before(s))
      BY <1>4, <2>1, <3>1
    <3>3. Cardinality(Before(r)) \in Nat /\ Cardinality(Before(s)) \in Nat
      BY <1>2, <2>1
    <3> HIDE DEF Before
    <3>4. QED
      BY <2>1, <3>2, <3>3
  <2>3. r # s /\ r \in SourceRows /\ s \in SourceRows
    BY <1>3
  <2>4. QED
    BY <2>2, <2>3, LaterOrders
<1>9. QED
  BY <1>3, <1>6, <1>7, <1>8

-----------------------------------------------------------------------------
(* WindowSync: the source, and what is read of it.                         *)

LEMMA FinalRows ==
  ASSUME NEW r \in SourceRows
  PROVE  /\ FinalRow(r).row = r
         /\ FinalTrace(r).row = r
         /\ FinalTrace(r) = MapSummaryTrace(FinalRow(r), Readable(FinalRow(r).says.spans))
<1>1. FinalRow(r).row = r
  BY DEF FinalRow
<1>2. FinalTrace(r) = MapSummaryTrace(FinalRow(r), Readable(FinalRow(r).says.spans))
  BY DEF FinalTrace, FinalRow
<1>3. MapSummaryTrace(FinalRow(r), Readable(FinalRow(r).says.spans)).row = FinalRow(r).row
  BY DEF MapSummaryTrace
<1>4. QED
  BY <1>1, <1>2, <1>3

LEMMA RowsRead ==
  ASSUME NEW page \in SUBSET SourceRows
  PROVE  /\ IsFiniteSet({FinalRow(r) : r \in page})
         /\ Cardinality({FinalRow(r) : r \in page}) = Cardinality(page)
<1> DEFINE read == {FinalRow(r) : r \in page}
           f == [r \in page |-> FinalRow(r)]
<1>1. f \in [page -> read] /\ \A r \in page : f[r] = FinalRow(r)
  OBVIOUS
<1>2. \A r, s \in page : f[r] = f[s] => r = s
  BY <1>1, FinalRows
<1>3. \A x \in read : \E r \in page : f[r] = x
  BY <1>1
<1> HIDE DEF f
<1>4. f \in Surjection(page, read)
  BY <1>1, <1>3 DEF Surjection
<1>5. f \in Injection(page, read)
  BY <1>1, <1>2 DEF Injection, IsInjective
<1>6. IsFiniteSet(page)
  BY WindowConstants, FS_Subset
<1> HIDE DEF read
<1>7. IsFiniteSet(read)
  BY <1>4, <1>6, FS_Surjection
<1>8. Cardinality(read) <= Cardinality(page)
  BY <1>4, <1>6, FS_Surjection
<1>9. Cardinality(page) <= Cardinality(read)
  BY <1>5, <1>7, FS_Injection
<1>10. Cardinality(read) = Cardinality(page)
  BY <1>6, <1>7, <1>8, <1>9, FS_CardinalityType
<1>11. QED
  BY <1>7, <1>10 DEF read

LEMMA TracesRead == IsFiniteSet({FinalTrace(r) : r \in SourceRows})
<1> DEFINE read == {FinalTrace(r) : r \in SourceRows}
           f == [r \in SourceRows |-> FinalTrace(r)]
<1>1. f \in [SourceRows -> read] /\ \A x \in read : \E r \in SourceRows : f[r] = x
  OBVIOUS
<1> HIDE DEF f
<1>2. f \in Surjection(SourceRows, read)
  BY <1>1 DEF Surjection
<1> HIDE DEF read
<1>3. IsFiniteSet(read)
  BY <1>2, WindowConstants, FS_Surjection
<1>4. QED
  BY <1>3 DEF read

\* A row the quiet period lets through has all its spans.
LEMMA SettledIsComplete ==
  ASSUME SourceInv, NEW r \in SourceRows, NEW from, NEW to, NEW ceiling \in Int,
         ceiling + Quiet <= sourceTime, Eligible(r, from, to, ceiling)
  PROVE  Complete(r)
<1>1. source[r] \in [writes : Nat, updatedAt : Nat] /\ sourceTime \in Nat
  BY DEF SourceInv, SourceStates
<1>2. source[r].updatedAt \in Nat /\ Quiet \in Nat
  BY <1>1, WindowConstants
<1>3. source[r].writes > 0 /\ source[r].updatedAt < ceiling
  BY DEF Eligible
<1>4. ~Complete(r) => source[r].updatedAt + Quiet >= sourceTime
  BY <1>3 DEF SourceInv
<1>5. QED
  BY <1>1, <1>2, <1>3, <1>4

LEMMA SourceKept ==
  ASSUME SourceInv, UNCHANGED <<sourceTime, source>>
  PROVE  SourceInv'
BY DEF SourceInv, SourceStates, Complete, Final

LEMMA InitialWindow ==
  ASSUME WindowInit
  PROVE  WindowInv
<1>1. SourceInv
  BY WindowConstants DEF WindowInit, SourceInv, SourceStates, Complete
<1>2. ArchiveInv
  BY DEF WindowInit, ArchiveInv
<1>3. RunInv
  BY DEF WindowInit, RunInv
<1>4. QED
  BY <1>1, <1>2, <1>3 DEF WindowInv

LEMMA RowInWindow ==
  ASSUME NEW r \in SourceRows, UNCHANGED run, UNCHANGED source[r]
  PROVE  (Complete(r) <=> Complete(r)') /\ (InWindow(r) <=> InWindow(r)')
BY DEF Complete, Final, InWindow, Eligible

\* Time and the source may move on: what is complete stays as it is.
LEMMA SourceMovesOn ==
  ASSUME WindowInv, SourceInv', sourceTime' >= sourceTime,
         UNCHANGED <<archive, poison, parked, run>>,
         \A r \in SourceRows : Complete(r) => source'[r] = source[r]
  PROVE  WindowInv'
<1>1. archive' = archive /\ poison' = poison /\ parked' = parked /\ run' = run
  OBVIOUS
<1>2. ArchiveInv'
  BY <1>1 DEF WindowInv, ArchiveInv, Usable
<1>3. RunInv'
  <2> SUFFICES ASSUME run # NoRun PROVE RunInv'
    BY <1>1 DEF RunInv
  <2>1. RunInv
    BY DEF WindowInv
  <2>2. run \in RunStates /\ run.ceiling \in Int /\ run.owed \subseteq SourceRows
        /\ run.raw \subseteq {FinalRow(r) : r \in SourceRows}
    BY <2>1 DEF RunInv, RunStates
  <2>3. sourceTime \in Nat /\ sourceTime' \in Nat /\ Quiet \in Nat
    BY WindowConstants DEF WindowInv, SourceInv
  <2>4. run'.ceiling + Quiet <= sourceTime'
    BY <1>1, <2>1, <2>2, <2>3 DEF RunInv
  <2>5. \A x \in run.raw : x.row \in SourceRows
    BY <2>2, FinalRows
  <2>6. \A r \in SourceRows : Complete(r) => Complete(r)' /\ (InWindow(r) => InWindow(r)')
    BY <1>1, RowInWindow
  <2>7. \A r \in run.owed : Complete(r)' /\ InWindow(r)'
    BY <2>1, <2>2, <2>6 DEF RunInv
  <2>8. \A r \in run.owed : (Accounted(r) <=> Accounted(r)') /\ (Beyond(r) <=> Beyond(r)')
                            /\ (AfterCursor(r) <=> AfterCursor(r)')
    BY <1>1 DEF Accounted, Beyond, AfterCursor
  <2>9. run.pc = "spans" => \A x \in run.raw : Complete(x.row)'
    BY <2>1, <2>5, <2>6 DEF RunInv
  <2>10. \A x \in run.page : Usable(x.row)'
    BY <1>1, <2>1 DEF RunInv, Usable
  <2>11. run' \in RunStates
    BY <1>1, <2>2
  <2>12. run'.pc \in {"ingest", "truncation"} /\ Dated(run'.raw) = {} => Cardinality(run'.raw) < PageSize
    BY <1>1, <2>1 DEF RunInv
  <2>13. /\ run.pc = "query" => \A r \in run.owed : Accounted(r)' \/ AfterCursor(r)'
         /\ run.pc = "spans" =>
              \A r \in run.owed : Accounted(r)' \/ FinalRow(r) \in run.raw \/ Beyond(r)'
         /\ run.pc \in {"ingest", "truncation"} =>
              \A r \in run.owed : Accounted(r)' \/ FinalTrace(r) \in run.page \/ Beyond(r)'
         /\ run.pc = "done" => \A r \in run.owed : Accounted(r)'
    BY <2>1, <2>8 DEF RunInv
  <2>14. QED
    BY <1>1, <2>4, <2>7, <2>9, <2>10, <2>11, <2>12, <2>13 DEF RunInv
<1>4. QED
  BY <1>2, <1>3 DEF WindowInv

LEMMA SourceClockKeepsWindow ==
  ASSUME WindowInv, SourceClockTicks
  PROVE  WindowInv'
<1>1. sourceTime' = sourceTime + 1 /\ source' = source /\ UNCHANGED <<archive, poison, parked, run>>
  BY DEF SourceClockTicks
<1>2. sourceTime \in Nat /\ Quiet \in Nat
  BY WindowConstants DEF WindowInv, SourceInv
<1>3. ASSUME NEW r \in SourceRows, source[r].writes > 0, ~Complete(r)
      PROVE  source[r].updatedAt + Quiet >= sourceTime + 1
  <2>1. source[r] \in [writes : Nat, updatedAt : Nat]
    BY DEF WindowInv, SourceInv, SourceStates
  <2>2. source[r].updatedAt + Quiet > sourceTime
    BY <1>3, <2>1 DEF SourceClockTicks
  <2>3. QED
    BY <1>2, <2>1, <2>2
<1>4. SourceInv'
  BY <1>1, <1>2, <1>3 DEF WindowInv, SourceInv, SourceStates, Complete, Final
<1>5. QED
  BY <1>1, <1>2, <1>4, SourceMovesOn

LEMMA SourceWritesKeepsWindow ==
  ASSUME WindowInv, NEW r \in SourceRows, SourceWrites(r)
  PROVE  WindowInv'
<1>1. /\ ~Complete(r) /\ sourceTime' = sourceTime /\ UNCHANGED <<archive, poison, parked, run>>
      /\ source' = [source EXCEPT ![r] = [writes |-> @.writes + 1, updatedAt |-> sourceTime]]
  BY DEF SourceWrites
<1>2. sourceTime \in Nat /\ Quiet \in Nat /\ source \in SourceStates /\ Final(r) \in Nat
  BY WindowConstants DEF WindowInv, SourceInv
<1>3. source' \in SourceStates
  BY <1>1, <1>2 DEF SourceStates
<1>4. /\ source'[r].writes = source[r].writes + 1 /\ source'[r].updatedAt = sourceTime
      /\ \A q \in SourceRows : q # r => source'[q] = source[q]
  BY <1>1, <1>2 DEF SourceStates
<1>5. source[r].writes \in 0..Final(r) /\ source[r].writes # Final(r)
  BY <1>1 DEF WindowInv, SourceInv, Complete
<1>6. \A q \in SourceRows : source'[q].writes \in 0..Final(q)
  BY <1>2, <1>4, <1>5 DEF WindowInv, SourceInv
<1>7. \A q \in SourceRows : source'[q].writes > 0 /\ source'[q].writes # Final(q) =>
                              source'[q].updatedAt + Quiet >= sourceTime
  BY <1>2, <1>4 DEF WindowInv, SourceInv, Complete
<1>8. SourceInv'
  BY <1>1, <1>2, <1>3, <1>6, <1>7 DEF SourceInv, SourceStates, Complete, Final
<1>9. \A q \in SourceRows : Complete(q) => source'[q] = source[q]
  BY <1>1, <1>4
<1>10. QED
  BY <1>1, <1>2, <1>8, <1>9, SourceMovesOn

-----------------------------------------------------------------------------
(* WindowSync: the run.                                                    *)

LEMMA RunFields ==
  ASSUME WindowInv, run.pc # "none"
  PROVE  /\ run \in RunStates
         /\ run.number \in Nat /\ run.ceiling \in Int /\ run.from \in Int /\ run.to \in Int
         /\ run.at \in Int /\ run.id \in Nat /\ run.owed \subseteq SourceRows
         /\ run.raw \subseteq {FinalRow(r) : r \in SourceRows}
         /\ run.page \subseteq {FinalTrace(r) : r \in SourceRows}
         /\ run.fetched \in Nat /\ run.failed \in Nat /\ run.truncated \in 0..NRows
         /\ sourceTime \in Nat /\ Quiet \in Nat /\ run.ceiling + Quiet <= sourceTime
         /\ \A x \in run.page : Usable(x.row)
         /\ \A r \in run.owed : Complete(r) /\ InWindow(r)
<1>1. run # NoRun
  BY DEF NoRun
<1>2. /\ run \in RunStates /\ run.ceiling + Quiet <= sourceTime
      /\ \A x \in run.page : Usable(x.row)
      /\ \A r \in run.owed : Complete(r) /\ InWindow(r)
  BY <1>1 DEF WindowInv, RunInv
<1>3. sourceTime \in Nat /\ Quiet \in Nat
  BY WindowConstants DEF WindowInv, SourceInv
<1>4. /\ run.number \in Nat /\ run.ceiling \in Int /\ run.from \in Int /\ run.to \in Int
      /\ run.at \in Int /\ run.id \in Nat /\ run.owed \subseteq SourceRows
  BY <1>2 DEF RunStates
<1>5. /\ run.raw \subseteq {FinalRow(r) : r \in SourceRows}
      /\ run.page \subseteq {FinalTrace(r) : r \in SourceRows}
      /\ run.fetched \in Nat /\ run.failed \in Nat /\ run.truncated \in 0..NRows
  BY <1>2 DEF RunStates
<1>6. QED
  BY <1>2, <1>3, <1>4, <1>5

LEMMA StartKeepsWindow ==
  ASSUME WindowInv, NEW window \in Windows, StartSync(window)
  PROVE  WindowInv'
<1> DEFINE ceiling == sourceTime - Quiet
           to == IF window.to <= ceiling THEN window.to ELSE ceiling
           empty == window.to > ceiling /\ window.from >= ceiling
           owed == {r \in SourceRows : ~empty /\ Eligible(r, window.from, to, ceiling)}
<1>1. run' = [number |-> Runs + 1, pc |-> IF empty THEN "done" ELSE "query",
              from |-> window.from, to |-> to, ceiling |-> ceiling,
              at |-> -1, id |-> 0, raw |-> {}, page |-> {},
              fetched |-> 0, failed |-> 0, truncated |-> 0, owed |-> owed]
  BY DEF StartSync
<1>2. UNCHANGED <<sourceTime, source, archive, poison, parked>>
  BY DEF StartSync
<1>3. sourceTime \in Nat /\ Quiet \in Nat /\ window.from \in Nat /\ window.to \in Nat /\ NRows \in Nat
  BY WindowConstants DEF WindowInv, SourceInv
<1>4. ceiling \in Int /\ to \in Int /\ ceiling + Quiet <= sourceTime
  BY <1>3
<1>5. Runs \in Nat
  <2>1. CASE run = NoRun
    BY <2>1 DEF Runs
  <2>2. CASE run # NoRun
    BY <2>2 DEF Runs, WindowInv, RunInv, RunStates
  <2>3. QED
    BY <2>1, <2>2
<1> HIDE DEF ceiling, to, empty
<1>6. \A r \in owed : Complete(r) /\ Eligible(r, window.from, to, ceiling)
  <2> TAKE r \in owed
  <2>1. Eligible(r, window.from, to, ceiling)
    OBVIOUS
  <2>2. Complete(r)
    BY <1>4, <2>1, SettledIsComplete DEF WindowInv
  <2>3. QED
    BY <2>1, <2>2
<1>7. empty => owed = {}
  OBVIOUS
<1>8. owed \subseteq SourceRows
  OBVIOUS
<1> HIDE DEF owed
<1>9. run' \in RunStates
  BY <1>1, <1>3, <1>4, <1>5, <1>8 DEF RunStates
<1>10. \A r \in owed : Complete(r)' /\ InWindow(r)'
  BY <1>1, <1>2, <1>6 DEF Complete, Final, InWindow, Eligible
<1>11. \A r \in owed : AfterCursor(r)'
  BY <1>1, <1>8, WindowConstants DEF AfterCursor
<1>12. RunInv'
  BY <1>1, <1>2, <1>4, <1>7, <1>9, <1>10, <1>11 DEF RunInv
<1>13. ArchiveInv' /\ SourceInv'
  BY <1>2, SourceKept DEF WindowInv, ArchiveInv, Usable
<1>14. QED
  BY <1>12, <1>13 DEF WindowInv

LEMMA QueryKeepsWindow ==
  ASSUME WindowInv, QueryPage
  PROVE  WindowInv'
<1> DEFINE rows == {r \in SourceRows : InWindow(r) /\ AfterCursor(r)}
           page == FirstRows(rows, PageSize)
           read == {[row |-> r, says |-> WritesOf[r][source[r].writes]] : r \in page}
<1>1. run.pc = "query" /\ UNCHANGED <<sourceTime, source, archive, poison, parked>>
      /\ run' = IF page = {} THEN [run EXCEPT !.pc = "done"]
                ELSE [run EXCEPT !.pc = "spans", !.raw = read]
  BY DEF QueryPage
<1>2. /\ run \in RunStates /\ run.owed \subseteq SourceRows /\ run.ceiling \in Int
      /\ run.ceiling + Quiet <= sourceTime
      /\ \A x \in run.page : Usable(x.row)
      /\ \A r \in run.owed : Complete(r) /\ InWindow(r)
  BY <1>1, RunFields
<1>3. \A r \in run.owed : Accounted(r) \/ AfterCursor(r)
  BY <1>1 DEF WindowInv, RunInv, NoRun
<1>4. /\ rows \subseteq SourceRows /\ page \subseteq rows
      /\ rows # {} => page # {}
      /\ \A r \in rows \ page : Cardinality(page) >= PageSize /\ \A s \in page : Later(r, s)
  <2>1. PageSize \in Nat \ {0} /\ rows \in SUBSET SourceRows
    BY WindowConstants
  <2>2. QED
    BY <2>1, PageOfFirst
<1>5. \A r \in rows : Complete(r)
  BY <1>2, SettledIsComplete DEF WindowInv, InWindow
<1>6. \A r \in run.owed : Accounted(r) \/ r \in rows
  BY <1>2, <1>3
<1> HIDE DEF rows, page
<1>7. read = {FinalRow(r) : r \in page}
  BY <1>4, <1>5 DEF FinalRow, Complete
<1> HIDE DEF read
<1>8. /\ run'.raw = IF page = {} THEN run.raw ELSE read
      /\ run'.pc = IF page = {} THEN "done" ELSE "spans"
      /\ \A f \in {"number", "from", "to", "ceiling", "at", "id", "page", "fetched", "failed",
                   "truncated", "owed"} : run'[f] = run[f]
  BY <1>1, <1>2 DEF RunStates
<1>9. run' \in RunStates
  <2>1. read \subseteq {FinalRow(r) : r \in SourceRows}
    BY <1>4, <1>7
  <2>2. QED
    BY <1>1, <1>2, <2>1 DEF RunStates
<1>10. \A r \in run.owed : Complete(r)' /\ InWindow(r)'
  BY <1>1, <1>2, <1>8 DEF Complete, Final, InWindow, Eligible
<1>11. \A r \in SourceRows : Accounted(r) => Accounted(r)'
  BY <1>1 DEF Accounted
<1>12. ASSUME page # {}, NEW r \in run.owed, ~Accounted(r)
       PROVE  FinalRow(r) \in run'.raw \/ Beyond(r)'
  <2>1. r \in rows
    BY <1>6, <1>12
  <2>2. CASE r \in page
    BY <1>7, <1>8, <1>12, <2>2
  <2>3. CASE r \notin page
    <3>1. Cardinality(page) >= PageSize /\ \A s \in page : Later(r, s)
      BY <1>4, <2>1, <2>3
    <3>2. Cardinality(read) = Cardinality(page)
      BY <1>4, <1>7, RowsRead
    <3>3. \A x \in read : Later(r, x.row)
      BY <1>4, <1>7, <3>1, FinalRows
    <3>4. QED
      BY <1>8, <1>12, <3>1, <3>2, <3>3 DEF Beyond
  <2>4. QED
    BY <2>2, <2>3
<1>13. page # {} => \A x \in run'.raw : Complete(x.row)'
  BY <1>1, <1>4, <1>5, <1>7, <1>8, FinalRows DEF Complete, Final
<1>14. page = {} => \A r \in run.owed : Accounted(r)
  BY <1>4, <1>6
<1>15. \A x \in run'.page : Usable(x.row)'
  BY <1>1, <1>2, <1>8 DEF Usable
<1>16. run'.ceiling + Quiet <= sourceTime' /\ run'.owed = run.owed
  BY <1>1, <1>2, <1>8
<1>17. RunInv'
  BY <1>2, <1>8, <1>9, <1>10, <1>11, <1>12, <1>13, <1>14, <1>15, <1>16 DEF RunInv
<1>18. ArchiveInv' /\ SourceInv'
  BY <1>1, SourceKept DEF WindowInv, ArchiveInv, Usable
<1>19. QED
  BY <1>17, <1>18 DEF WindowInv

\* The window of a batch holds every span of a row of it that is complete.
LEMMA AllSpansFetched ==
  ASSUME NEW batch, NEW r \in SourceRows, FinalRow(r) \in batch, Complete(r)
  PROVE  SpansFetched(batch, r) = FinalRow(r).says.spans
<1>1. FinalRow(r).row = r /\ FinalRow(r).says = WritesOf[r][source[r].writes]
  BY DEF FinalRow, Complete
<1>2. Final(r) \in 1..Len(WritesOf[r]) /\ StartOf[r] \in Nat /\ Margin \in Nat
  BY WindowConstants DEF Final
<1>3. ASSUME NEW span \in FinalRow(r).says.spans
      PROVE  InSpanWindow(batch, span.at)
  <2>1. /\ WritesOf[r][Final(r)].lasts \in Nat
        /\ \A s \in WritesOf[r][Final(r)].spans :
             s.at \in (StartOf[r] - Margin)..(StartOf[r] + WritesOf[r][Final(r)].lasts + Margin)
    BY <1>2, WindowAssumption
  <2>2. span.at \in (StartOf[r] - Margin)..(StartOf[r] + FinalRow(r).says.lasts + Margin)
    BY <1>3, <2>1 DEF FinalRow
  <2>3. StartOf[r] - Margin <= span.at /\ span.at <= StartOf[r] + FinalRow(r).says.lasts + Margin
    BY <2>2
  <2>4. QED
    BY <1>1, <2>3 DEF InSpanWindow
<1>4. QED
  BY <1>1, <1>3 DEF SpansFetched

LEMMA FetchKeepsWindow ==
  ASSUME WindowInv, FetchSpans
  PROVE  WindowInv'
<1> DEFINE parsed == {x \in run.raw : x.says.shape = "whole"}
           fetched(x) == SpansFetched(parsed, x.row)
           mapped == {MapSummaryTrace(x, Readable(fetched(x))) : x \in parsed}
           traces == {x \in mapped : SalvageIsSafe(x)}
           unread == {x.row : x \in run.raw \ parsed} \cup {x.row : x \in mapped \ traces}
           salvaged == {x.row : x \in {y \in traces : y.corrupt # {}}}
           given == {x.row : x \in {y \in parsed : Readable(fetched(y)) # fetched(y)}}
           tooBad == Cardinality(run.raw) >= BreakerMin /\ traces = {}
<1>1. /\ run.pc = "spans"
      /\ sourceTime' = sourceTime /\ source' = source /\ archive' = archive /\ parked' = parked
      /\ poison' = poison \cup Poisoned("summary", unread)
                          \cup Poisoned("summary_salvaged", salvaged) \cup Poisoned("span", given)
      /\ run' = IF tooBad THEN [run EXCEPT !.pc = "failed"]
                ELSE [run EXCEPT !.pc = "ingest", !.page = traces,
                                 !.fetched = Cardinality(traces), !.failed = 0]
  BY DEF FetchSpans
<1>2. /\ run \in RunStates /\ run.owed \subseteq SourceRows /\ run.ceiling + Quiet <= sourceTime
      /\ run.raw \subseteq {FinalRow(r) : r \in SourceRows}
      /\ \A x \in run.page : Usable(x.row)
      /\ \A r \in run.owed : Complete(r) /\ InWindow(r)
  BY <1>1, RunFields
<1>3. /\ \A x \in run.raw : Complete(x.row)
      /\ \A r \in run.owed : Accounted(r) \/ FinalRow(r) \in run.raw \/ Beyond(r)
  BY <1>1 DEF WindowInv, RunInv, NoRun
<1>4. \A x \in run.raw : x.row \in SourceRows /\ x = FinalRow(x.row)
  BY <1>2, FinalRows
<1>5. \A x \in parsed : MapSummaryTrace(x, Readable(fetched(x))) = FinalTrace(x.row)
  <2> TAKE x \in parsed
  <2>1. x \in run.raw /\ x.row \in SourceRows /\ x = FinalRow(x.row) /\ Complete(x.row)
    BY <1>3, <1>4
  <2>2. FinalRow(x.row) \in parsed
    BY <2>1
  <2> HIDE DEF parsed
  <2>3. SpansFetched(parsed, x.row) = FinalRow(x.row).says.spans
    BY <2>1, <2>2, AllSpansFetched
  <2>4. FinalTrace(x.row) = MapSummaryTrace(FinalRow(x.row), Readable(FinalRow(x.row).says.spans))
    BY <2>1, FinalRows
  <2>5. QED
    BY <2>1, <2>3, <2>4
<1>6. mapped = {FinalTrace(x.row) : x \in parsed}
  BY <1>5
<1>7. /\ \A x \in run.raw : x \notin parsed => x.row \in unread
      /\ \A x \in parsed : ~SalvageIsSafe(FinalTrace(x.row)) => x.row \in unread
      /\ \A x \in parsed : SalvageIsSafe(FinalTrace(x.row)) => FinalTrace(x.row) \in traces
  <2>1. \A x \in run.raw : x \notin parsed => x.row \in unread
    OBVIOUS
  <2>2. ASSUME NEW x \in parsed, ~SalvageIsSafe(FinalTrace(x.row))
        PROVE  x.row \in unread
    <3>1. FinalTrace(x.row) \in mapped \ traces /\ FinalTrace(x.row).row = x.row
      BY <1>4, <1>6, <2>2, FinalRows
    <3>2. QED
      BY <3>1
  <2>3. ASSUME NEW x \in parsed, SalvageIsSafe(FinalTrace(x.row))
        PROVE  FinalTrace(x.row) \in traces
    BY <1>6, <2>3
  <2>4. QED
    BY <2>1, <2>2, <2>3
<1>8. \A x \in traces : \E r \in SourceRows :
        /\ x = FinalTrace(r) /\ x.row = r /\ FinalRow(r).says.shape = "whole" /\ SalvageIsSafe(x)
        /\ x.corrupt # {} => r \in salvaged
  <2> TAKE x \in traces
  <2>1. PICK y \in parsed : x = FinalTrace(y.row)
    BY <1>6
  <2>2. y.row \in SourceRows /\ y = FinalRow(y.row) /\ y.says.shape = "whole" /\ x.row = y.row
    BY <1>4, <2>1, FinalRows
  <2>3. QED
    BY <2>1, <2>2
<1> HIDE DEF unread, salvaged, given
<1>9. /\ \A e \in poison : e \in poison'
      /\ \A r \in unread : <<"summary", r>> \in poison'
      /\ \A r \in salvaged : <<"summary_salvaged", r>> \in poison'
  BY <1>1 DEF Poisoned
<1>10. \A x \in traces : Usable(x.row)'
  BY <1>8, <1>9 DEF Usable
<1>11. \A r \in SourceRows : Usable(r) => Usable(r)'
  BY <1>9 DEF Usable
<1>12. tooBad \/ (Dated(run.raw) = {} => Cardinality(run.raw) < PageSize)
  <2> SUFFICES ASSUME ~tooBad, Dated(run.raw) = {} PROVE Cardinality(run.raw) < PageSize
    OBVIOUS
  <2>1. parsed = {}
    BY DEF Dated
  <2>2. traces = {}
    BY <2>1
  <2>3. ~(Cardinality(run.raw) >= BreakerMin)
    BY <2>2
  <2>4. Cardinality(run.raw) \in Nat
    <3>1. IsFiniteSet({FinalRow(r) : r \in SourceRows})
      BY RowsRead
    <3>2. QED
      BY <1>2, <3>1, FS_Subset, FS_CardinalityType
  <2>5. QED
    BY <2>3, <2>4, WindowConstants
<1>13. \A r \in run.owed : r \in SourceRows /\ (archive[r].stored => Usable(r))
  BY <1>2 DEF WindowInv, ArchiveInv, Unarchived
<1>14. \A r \in run.owed : Accounted(r) => Accounted(r)'
  BY <1>1, <1>2, <1>9 DEF Accounted, RunStates
<1>15. ASSUME NEW r \in run.owed, FinalRow(r) \in run.raw
       PROVE  FinalTrace(r) \in traces \/ Accounted(r)'
  <2>1. FinalRow(r).row = r /\ r \in SourceRows
    BY <1>13, FinalRows
  <2>2. CASE FinalRow(r) \in parsed /\ SalvageIsSafe(FinalTrace(r))
    BY <1>7, <2>1, <2>2
  <2>3. CASE ~(FinalRow(r) \in parsed /\ SalvageIsSafe(FinalTrace(r)))
    <3>1. r \in unread
      BY <1>7, <1>15, <2>1, <2>3
    <3>2. ~Usable(r)
      BY <1>15, <2>3 DEF Usable
    <3>3. archive'[r].stored = archive[r].stored /\ ~archive[r].stored
      BY <1>1, <1>13, <3>2
    <3>4. QED
      BY <1>9, <3>1, <3>3 DEF Accounted
  <2>4. QED
    BY <2>2, <2>3
<1>16. traces \subseteq {FinalTrace(r) : r \in SourceRows} /\ Cardinality(traces) \in Nat
  <2>1. traces \subseteq {FinalTrace(r) : r \in SourceRows}
    BY <1>8
  <2>2. IsFiniteSet({FinalTrace(r) : r \in SourceRows})
    BY TracesRead
  <2>3. QED
    BY <2>1, <2>2, FS_Subset, FS_CardinalityType
<1> HIDE DEF traces
<1>17. /\ run'.pc = IF tooBad THEN "failed" ELSE "ingest"
       /\ run'.page = IF tooBad THEN run.page ELSE traces
       /\ run'.raw = run.raw /\ run'.owed = run.owed /\ run'.ceiling = run.ceiling
       /\ run'.from = run.from /\ run'.to = run.to
  BY <1>1, <1>2 DEF RunStates
<1>18. run' \in RunStates
  BY <1>1, <1>2, <1>16 DEF RunStates
<1>19. \A r \in run.owed : Complete(r)' /\ InWindow(r)'
  BY <1>1, <1>2, <1>17 DEF Complete, Final, InWindow, Eligible
<1>20. \A r \in SourceRows : Beyond(r) => Beyond(r)'
  BY <1>17 DEF Beyond
<1>21. \A x \in run'.page : Usable(x.row)'
  BY <1>2, <1>10, <1>17, <1>11, RunFields, <1>1, FinalRows
<1>22. ~tooBad => \A r \in run.owed : Accounted(r)' \/ FinalTrace(r) \in run'.page \/ Beyond(r)'
  BY <1>3, <1>13, <1>14, <1>15, <1>17, <1>20
<1>23. run'.ceiling + Quiet <= sourceTime'
  BY <1>1, <1>2, <1>17
<1> HIDE DEF tooBad
<1>24. RunInv'
  BY <1>12, <1>17, <1>18, <1>19, <1>21, <1>22, <1>23 DEF RunInv
<1>25. ArchiveInv' /\ SourceInv'
  BY <1>1, <1>11, SourceKept DEF WindowInv, ArchiveInv
<1>26. QED
  BY <1>24, <1>25 DEF WindowInv

LEMMA FirstOnPage ==
  ASSUME WindowInv, run.pc = "ingest", run.page # {}
  PROVE  FirstOfPage \in run.page
<1> DEFINE rows == {x.row : x \in run.page}
<1>1. \A x \in run.page : x.row \in SourceRows /\ x = FinalTrace(x.row)
  BY RunFields, FinalRows
<1>2. rows \in SUBSET SourceRows /\ rows # {}
  BY <1>1
<1>3. PICK e \in rows : \A y \in rows : y = e \/ Later(y, e)
  BY <1>2, Earliest
<1>4. PICK x \in run.page : x.row = e
  OBVIOUS
<1>5. \A y \in run.page : y = x \/ Later(y.row, x.row)
  <2> TAKE y \in run.page
  <2>1. y.row \in rows
    OBVIOUS
  <2>2. CASE y.row = e
    BY <1>1, <1>4, <2>2
  <2>3. CASE Later(y.row, e)
    BY <1>4, <2>3
  <2>4. QED
    BY <1>3, <2>1, <2>2, <2>3
<1>6. QED
  BY <1>5 DEF FirstOfPage

LEMMA IngestKeepsWindow ==
  ASSUME WindowInv, IngestTrace
  PROVE  WindowInv'
<1> DEFINE x == FirstOfPage
           rest == [run EXCEPT !.page = @ \ {x}]
<1>1. run.pc = "ingest" /\ run.page # {} /\ UNCHANGED <<sourceTime, source, poison>>
  BY DEF IngestTrace
<1>2. \/ /\ Unstorable(x.row) /\ parked' = Parked("oversized_unstorable", x.row)
         /\ run' = [rest EXCEPT !.failed = @ + 1] /\ archive' = archive
      \/ /\ ~Unstorable(x.row) /\ parked' = parked
         /\ archive' = IF archive[x.row].stored THEN archive
                       ELSE [archive EXCEPT ![x.row] = MapToTrace(x)]
         /\ run' = IF Clipped(x.row) = {} THEN rest
                   ELSE [rest EXCEPT !.pc = "truncation", !.truncated = x.row]
  BY DEF IngestTrace
<1>3. x \in run.page
  BY <1>1, FirstOnPage
<1> HIDE DEF x
<1>4. /\ run \in RunStates /\ run.owed \subseteq SourceRows /\ run.ceiling + Quiet <= sourceTime
      /\ run.page \subseteq {FinalTrace(r) : r \in SourceRows} /\ run.failed \in Nat
      /\ \A y \in run.page : Usable(y.row)
      /\ \A r \in run.owed : Complete(r) /\ InWindow(r)
  BY <1>1, RunFields
<1>5. /\ Dated(run.raw) = {} => Cardinality(run.raw) < PageSize
      /\ \A r \in run.owed : Accounted(r) \/ FinalTrace(r) \in run.page \/ Beyond(r)
  BY <1>1 DEF WindowInv, RunInv, NoRun
<1>6. x.row \in SourceRows /\ x = FinalTrace(x.row) /\ Usable(x.row)
  BY <1>3, <1>4, FinalRows
<1>7. /\ run'.page = run.page \ {x} /\ run'.raw = run.raw /\ run'.owed = run.owed
      /\ run'.ceiling = run.ceiling /\ run'.from = run.from /\ run'.to = run.to
      /\ run'.pc \in {"ingest", "truncation"}
      /\ run' \in RunStates
  <2>1. /\ rest.page = run.page \ {x} /\ rest.raw = run.raw /\ rest.owed = run.owed
        /\ rest.ceiling = run.ceiling /\ rest.from = run.from /\ rest.to = run.to
        /\ rest.pc = "ingest" /\ rest.failed \in Nat
    BY <1>1, <1>4 DEF RunStates
  <2>2. rest \in RunStates
    BY <1>4 DEF RunStates
  <2>3. x.row \in 0..NRows
    BY <1>6, WindowConstants DEF SourceRows
  <2> HIDE DEF rest
  <2>4. CASE run' = [rest EXCEPT !.failed = @ + 1]
    <3>1. rest.failed + 1 \in Nat
      BY <2>1
    <3>2. QED
      BY <2>1, <2>2, <2>4, <3>1 DEF RunStates
  <2>5. CASE run' = rest
    BY <2>1, <2>2, <2>5
  <2>6. CASE run' = [rest EXCEPT !.pc = "truncation", !.truncated = x.row]
    BY <2>1, <2>2, <2>3, <2>6 DEF RunStates
  <2>7. QED
    BY <1>2, <2>4, <2>5, <2>6
<1>8. \A r \in SourceRows :
        \/ archive[r] = Unarchived
        \/ archive[r] = MapToTrace(FinalTrace(r)) /\ Usable(r) /\ ~Unstorable(r)
  BY DEF WindowInv, ArchiveInv
<1>9. archive = [r \in SourceRows |-> archive[r]]
  BY DEF WindowInv, ArchiveInv
<1>10. /\ archive' = [r \in SourceRows |-> archive'[r]]
       /\ \A r \in SourceRows : r # x.row => archive'[r] = archive[r]
       /\ \/ archive'[x.row] = archive[x.row]
          \/ archive'[x.row] = MapToTrace(x) /\ ~Unstorable(x.row)
  BY <1>2, <1>6, <1>9
<1>11. ArchiveInv'
  <2>1. \A r \in SourceRows : Usable(r) <=> Usable(r)'
    BY <1>1 DEF Usable
  <2>2. \A r \in SourceRows :
          \/ archive'[r] = Unarchived
          \/ archive'[r] = MapToTrace(FinalTrace(r)) /\ Usable(r) /\ ~Unstorable(r)
    BY <1>6, <1>8, <1>10
  <2>3. QED
    BY <1>10, <2>1, <2>2 DEF ArchiveInv
<1>12. \A e \in parked : e \in parked'
  BY <1>2 DEF Parked
<1>13. ASSUME NEW r \in run.owed, r # x.row
       PROVE  Accounted(r)' \/ FinalTrace(r) \in run'.page \/ Beyond(r)'
  <2>1. archive'[r] = archive[r] /\ r \in SourceRows /\ FinalTrace(r) # x
    BY <1>4, <1>10, <1>13, FinalRows
  <2>2. CASE Accounted(r)
    BY <1>1, <1>12, <2>1, <2>2 DEF Accounted
  <2>3. CASE FinalTrace(r) \in run.page
    BY <1>7, <2>1, <2>3
  <2>4. CASE Beyond(r)
    BY <1>7, <2>4 DEF Beyond
  <2>5. QED
    BY <1>5, <2>2, <2>3, <2>4
<1>14. ASSUME NEW r \in run.owed, r = x.row
       PROVE  Accounted(r)'
  <2>1. CASE Unstorable(x.row)
    <3>1. archive'[x.row] = Unarchived /\ <<"oversized_unstorable", x.row>> \in parked'
      BY <1>2, <1>6, <1>8, <2>1 DEF Parked
    <3>2. ~archive'[x.row].stored
      BY <3>1 DEF Unarchived
    <3>3. QED
      BY <1>14, <3>1, <3>2 DEF Accounted
  <2>2. CASE ~Unstorable(x.row)
    <3>1. archive'[x.row] = MapToTrace(x)
      BY <1>2, <1>6, <1>8, <1>9, <2>2 DEF Unarchived
    <3>2. archive'[x.row].stored /\ archive'[x.row].clipped = Clipped(x.row)
      BY <3>1 DEF MapToTrace
    <3>3. Clipped(x.row) = {} \/ (run'.pc = "truncation" /\ run'.truncated = x.row)
      BY <1>2, <1>4, <2>2 DEF RunStates
    <3>4. QED
      BY <1>14, <3>2, <3>3 DEF Accounted
  <2>3. QED
    BY <2>1, <2>2
<1>15. \A r \in run.owed : Accounted(r)' \/ FinalTrace(r) \in run'.page \/ Beyond(r)'
  BY <1>13, <1>14
<1>16. \A r \in run.owed : Complete(r)' /\ InWindow(r)'
  BY <1>1, <1>4, <1>7 DEF Complete, Final, InWindow, Eligible
<1>17. \A y \in run'.page : Usable(y.row)'
  BY <1>1, <1>4, <1>7 DEF Usable
<1>18. run'.ceiling + Quiet <= sourceTime'
  BY <1>1, <1>4, <1>7
<1>19. RunInv'
  BY <1>5, <1>7, <1>15, <1>16, <1>17, <1>18 DEF RunInv
<1>20. SourceInv'
  BY <1>1, SourceKept DEF WindowInv
<1>21. QED
  BY <1>11, <1>19, <1>20 DEF WindowInv

LEMMA TruncationKeepsWindow ==
  ASSUME WindowInv, RecordTruncation
  PROVE  WindowInv'
<1>1. /\ run.pc = "truncation" /\ UNCHANGED <<sourceTime, source, archive, poison>>
      /\ parked' = parked \cup {<<"content_truncation", run.truncated>>}
      /\ run' = [run EXCEPT !.pc = "ingest", !.truncated = 0]
  BY DEF RecordTruncation, Parked
<1>2. /\ run \in RunStates /\ run.owed \subseteq SourceRows /\ run.ceiling + Quiet <= sourceTime
      /\ \A y \in run.page : Usable(y.row)
      /\ \A r \in run.owed : Complete(r) /\ InWindow(r)
  BY <1>1, RunFields
<1>3. /\ Dated(run.raw) = {} => Cardinality(run.raw) < PageSize
      /\ \A r \in run.owed : Accounted(r) \/ FinalTrace(r) \in run.page \/ Beyond(r)
  BY <1>1 DEF WindowInv, RunInv, NoRun
<1>4. /\ run'.page = run.page /\ run'.raw = run.raw /\ run'.owed = run.owed
      /\ run'.ceiling = run.ceiling /\ run'.from = run.from /\ run'.to = run.to
      /\ run'.pc = "ingest" /\ run' \in RunStates
  <2>1. 0 \in 0..NRows
    BY WindowConstants
  <2>2. QED
    BY <1>1, <1>2, <2>1 DEF RunStates
<1>5. \A r \in SourceRows : (Accounted(r) => Accounted(r)') /\ (Beyond(r) => Beyond(r)')
  BY <1>1, <1>4 DEF Accounted, Beyond
<1>6. \A r \in run.owed : Accounted(r)' \/ FinalTrace(r) \in run'.page \/ Beyond(r)'
  BY <1>2, <1>3, <1>4, <1>5
<1>7. \A r \in run.owed : Complete(r)' /\ InWindow(r)'
  BY <1>1, <1>2, <1>4 DEF Complete, Final, InWindow, Eligible
<1>8. \A y \in run'.page : Usable(y.row)'
  BY <1>1, <1>2, <1>4 DEF Usable
<1>9. RunInv'
  BY <1>1, <1>2, <1>3, <1>4, <1>6, <1>7, <1>8 DEF RunInv
<1>10. ArchiveInv' /\ SourceInv'
  BY <1>1, SourceKept DEF WindowInv, ArchiveInv, Usable
<1>11. QED
  BY <1>9, <1>10 DEF WindowInv

\* The cursor moves to the last row of the page whose instant can be read.
LEMMA LastOfDated ==
  ASSUME WindowInv, run.pc = "ingest", Dated(run.raw) # {}
  PROVE  /\ LastOf(Dated(run.raw)) \in run.raw
         /\ LastOf(Dated(run.raw)).row \in SourceRows
<1> DEFINE dated == Dated(run.raw)
           rows == {x.row : x \in dated}
<1>1. \A x \in dated : x \in run.raw /\ x.row \in SourceRows /\ x = FinalRow(x.row)
  BY RunFields, FinalRows DEF Dated
<1>2. rows \in SUBSET SourceRows /\ rows # {}
  BY <1>1
<1> HIDE DEF dated
<1>3. PICK e \in rows : \A y \in rows : y = e \/ Later(e, y)
  BY <1>2, Latest
<1>4. PICK x \in dated : x.row = e
  OBVIOUS
<1>5. \A y \in dated : y = x \/ Later(x.row, y.row)
  <2> TAKE y \in dated
  <2>1. y.row \in rows
    OBVIOUS
  <2>2. CASE y.row = e
    BY <1>1, <1>4, <2>2
  <2>3. CASE Later(e, y.row)
    BY <1>4, <2>3
  <2>4. QED
    BY <1>3, <2>1, <2>2, <2>3
<1>6. LastOf(dated) \in dated
  BY <1>5 DEF LastOf
<1>7. QED
  BY <1>1, <1>6 DEF dated

LEMMA EndKeepsWindow ==
  ASSUME WindowInv, EndPage
  PROVE  WindowInv'
<1> DEFINE last == LastOf(Dated(run.raw)).row
           next == [run EXCEPT !.at = StartOf[last], !.id = last, !.pc = "query", !.raw = {}]
           short == Cardinality(run.raw) < PageSize \/ Dated(run.raw) = {}
<1>1. run.pc = "ingest" /\ run.page = {} /\ UNCHANGED <<sourceTime, source, archive, poison, parked>>
  BY DEF EndPage
<1>2. \/ run' = [run EXCEPT !.pc = "failed"]
      \/ short /\ run' = [run EXCEPT !.pc = "done"]
      \/ ~short /\ run' = next
  BY DEF EndPage
<1>3. /\ run \in RunStates /\ run.owed \subseteq SourceRows /\ run.ceiling + Quiet <= sourceTime
      /\ run.raw \subseteq {FinalRow(r) : r \in SourceRows}
      /\ \A r \in run.owed : Complete(r) /\ InWindow(r)
  BY <1>1, RunFields
<1>4. /\ Dated(run.raw) = {} => Cardinality(run.raw) < PageSize
      /\ \A r \in run.owed : Accounted(r) \/ Beyond(r)
  BY <1>1 DEF WindowInv, RunInv, NoRun
<1>5. Cardinality(run.raw) \in Nat
  <2>1. IsFiniteSet({FinalRow(r) : r \in SourceRows})
    BY RowsRead
  <2>2. QED
    BY <1>3, <2>1, FS_Subset, FS_CardinalityType
<1>6. short => \A r \in run.owed : Accounted(r)
  BY <1>4, <1>5, WindowConstants DEF Beyond
<1>7. \A r \in SourceRows : Accounted(r) => Accounted(r)'
  BY <1>1 DEF Accounted
<1>8. ~short => /\ last \in SourceRows
                /\ \A r \in run.owed : Accounted(r) \/ Later(r, last)
  <2> SUFFICES ASSUME ~short PROVE last \in SourceRows /\ \A r \in run.owed : Accounted(r) \/ Later(r, last)
    OBVIOUS
  <2>1. LastOf(Dated(run.raw)) \in run.raw /\ last \in SourceRows
    BY <1>1, LastOfDated
  <2>2. QED
    BY <1>4, <2>1 DEF Beyond
<1> HIDE DEF last, short
<1>9. /\ run'.page = run.page /\ run'.owed = run.owed
      /\ run'.ceiling = run.ceiling /\ run'.from = run.from /\ run'.to = run.to
      /\ run' \in RunStates
  <2>1. CASE run' = [run EXCEPT !.pc = "failed"]
    BY <1>3, <2>1 DEF RunStates
  <2>2. CASE run' = [run EXCEPT !.pc = "done"]
    BY <1>3, <2>2 DEF RunStates
  <2>3. CASE ~short /\ run' = next
    <3>1. last \in SourceRows /\ last \in Nat /\ StartOf[last] \in Int
      BY <1>8, <2>3, WindowConstants
    <3>2. QED
      BY <1>3, <2>3, <3>1 DEF RunStates
  <2>4. QED
    BY <1>2, <2>1, <2>2, <2>3
<1>10. \/ run'.pc = "failed"
       \/ run'.pc = "done" /\ short
       \/ run'.pc = "query" /\ ~short /\ run'.at = StartOf[last] /\ run'.id = last
  BY <1>2, <1>3 DEF RunStates
<1>11. run'.pc = "done" => \A r \in run.owed : Accounted(r)'
  BY <1>3, <1>6, <1>7, <1>10
<1>12. run'.pc = "query" => \A r \in run.owed : Accounted(r)' \/ AfterCursor(r)'
  BY <1>3, <1>7, <1>8, <1>10 DEF AfterCursor, Later
<1>13. \A r \in run.owed : Complete(r)' /\ InWindow(r)'
  BY <1>1, <1>3, <1>9 DEF Complete, Final, InWindow, Eligible
<1>14. run'.ceiling + Quiet <= sourceTime' /\ run'.page = {}
  BY <1>1, <1>3, <1>9
<1>15. RunInv'
  BY <1>9, <1>10, <1>11, <1>12, <1>13, <1>14 DEF RunInv
<1>16. ArchiveInv' /\ SourceInv'
  BY <1>1, SourceKept DEF WindowInv, ArchiveInv, Usable
<1>17. QED
  BY <1>15, <1>16 DEF WindowInv

LEMMA AbortKeepsWindow ==
  ASSUME WindowInv, SyncAborts
  PROVE  WindowInv'
<1>1. /\ run.pc # "none" /\ run' = [run EXCEPT !.pc = "failed"]
      /\ UNCHANGED <<sourceTime, source, archive, poison, parked>>
  BY DEF SyncAborts, Finished
<1>2. /\ run \in RunStates /\ run.owed \subseteq SourceRows /\ run.ceiling + Quiet <= sourceTime
      /\ \A y \in run.page : Usable(y.row)
      /\ \A r \in run.owed : Complete(r) /\ InWindow(r)
  BY <1>1, RunFields
<1>3. /\ run'.page = run.page /\ run'.owed = run.owed
      /\ run'.ceiling = run.ceiling /\ run'.from = run.from /\ run'.to = run.to
      /\ run'.pc = "failed" /\ run' \in RunStates
  BY <1>1, <1>2 DEF RunStates
<1>4. \A r \in run.owed : Complete(r)' /\ InWindow(r)'
  BY <1>1, <1>2, <1>3 DEF Complete, Final, InWindow, Eligible
<1>5. \A y \in run'.page : Usable(y.row)'
  BY <1>1, <1>2, <1>3 DEF Usable
<1>6. RunInv'
  BY <1>1, <1>2, <1>3, <1>4, <1>5 DEF RunInv
<1>7. ArchiveInv' /\ SourceInv'
  BY <1>1, SourceKept DEF WindowInv, ArchiveInv, Usable
<1>8. QED
  BY <1>6, <1>7 DEF WindowInv

LEMMA StutterKeepsWindow ==
  ASSUME WindowInv, UNCHANGED windowVars
  PROVE  WindowInv'
<1>1. UNCHANGED <<archive, poison, parked, run>> /\ sourceTime' = sourceTime /\ source' = source
  BY DEF windowVars
<1>2. SourceInv'
  BY <1>1, SourceKept DEF WindowInv
<1>3. sourceTime' >= sourceTime
  BY <1>1 DEF WindowInv, SourceInv
<1>4. QED
  BY <1>1, <1>2, <1>3, SourceMovesOn

-----------------------------------------------------------------------------
(* WindowSync: the theorem.                                                *)

LEMMA StepKeepsWindow ==
  ASSUME WindowInv, [WindowNext]_windowVars
  PROVE  WindowInv'
<1>1. CASE SourceClockTicks
  BY <1>1, SourceClockKeepsWindow
<1>2. CASE \E r \in SourceRows : SourceWrites(r)
  BY <1>2, SourceWritesKeepsWindow
<1>3. CASE \E window \in Windows : StartSync(window)
  BY <1>3, StartKeepsWindow
<1>4. CASE QueryPage
  BY <1>4, QueryKeepsWindow
<1>5. CASE FetchSpans
  BY <1>5, FetchKeepsWindow
<1>6. CASE IngestTrace
  BY <1>6, IngestKeepsWindow
<1>7. CASE RecordTruncation
  BY <1>7, TruncationKeepsWindow
<1>8. CASE EndPage
  BY <1>8, EndKeepsWindow
<1>9. CASE SyncAborts
  BY <1>9, AbortKeepsWindow
<1>10. CASE UNCHANGED windowVars
  BY <1>10, StutterKeepsWindow
<1>11. QED
  BY <1>1, <1>2, <1>3, <1>4, <1>5, <1>6, <1>7, <1>8, <1>9, <1>10 DEF WindowNext

LEMMA WindowInvIsHonest ==
  ASSUME WindowInv
  PROVE  WindowHonest
<1>1. \A r \in SourceRows :
        \/ archive[r] = Unarchived
        \/ archive[r] = MapToTrace(FinalTrace(r)) /\ Usable(r)
  BY DEF WindowInv, ArchiveInv
<1>2. \A r \in SourceRows : archive[r].stored =>
        /\ archive[r] = MapToTrace(FinalTrace(r)) /\ Usable(r)
        /\ archive[r].tokens = FinalTrace(r).tokens /\ archive[r].model = FinalTrace(r).model
        /\ archive[r].total = SumTokens(FinalTrace(r).tokens)
  BY <1>1 DEF MapToTrace, Unarchived
<1>3. \A r \in SourceRows : archive[r].stored =>
        \A t \in FinalTrace(r).corrupt : archive[r].tokens[t] > 0
  BY <1>2 DEF Usable, SalvageIsSafe
<1>4. run.pc = "ingest" => \A x \in run.page : ~Diverges(x)
  <2> SUFFICES ASSUME run.pc = "ingest", NEW x \in run.page PROVE ~Diverges(x)
    OBVIOUS
  <2>1. x.row \in SourceRows /\ x = FinalTrace(x.row)
    BY RunFields, FinalRows
  <2>2. QED
    BY <1>2, <2>1 DEF Diverges
<1>5. ASSUME run.pc = "done", NEW r \in run.owed
      PROVE  IF archive[r].stored
             THEN /\ FinalTrace(r).corrupt # {} => <<"summary_salvaged", r>> \in poison
                  /\ archive[r].clipped # {} => <<"content_truncation", r>> \in parked
             ELSE \/ <<"summary", r>> \in poison
                  \/ <<"oversized_unstorable", r>> \in parked
  <2>1. Accounted(r) /\ r \in SourceRows
    BY <1>5, RunFields DEF WindowInv, RunInv, NoRun
  <2>2. archive[r].stored => Usable(r)
    BY <1>2, <2>1
  <2>3. QED
    BY <1>5, <2>1, <2>2 DEF Accounted, Usable
<1>6. QED
  BY <1>2, <1>3, <1>4, <1>5 DEF WindowHonest

(* No trace is archived half way: "ingesting it mid-flight freezes an      *)
(* undercharged stamp forever" (quiet-period.ts). And a run that ends well *)
(* has accounted for every row that was ready when it began, whatever      *)
(* earlier runs left half done (fetchTracesPaged and its page cursor).     *)
THEOREM ArchiveIsFinal == WindowSpec => []WindowHonest
<1>1. WindowInit => WindowInv
  BY InitialWindow
<1>2. WindowInv /\ [WindowNext]_windowVars => WindowInv'
  BY StepKeepsWindow
<1>3. WindowInv => WindowHonest
  BY WindowInvIsHonest
<1>4. QED
  BY <1>1, <1>2, <1>3, PTL DEF WindowSpec

-----------------------------------------------------------------------------
(* Sums and counts per key: what a write moves them by. *)

\* A sum of naturals is a natural.
LEMMA SumTyped ==
  ASSUME NEW S, IsFiniteSet(S), NEW f, \A x \in S : f[x] \in Nat
  PROVE  Table(f, S)[S] \in Nat
<1> DEFINE Good == {s \in SUBSET S : Table(f, S)[s] \in Nat}
<1>1. {} \in Good
  BY TableEmpty
<1>2. ASSUME NEW s \in SUBSET S, s # {}, s \ {Picked(s)} \in Good
      PROVE  s \in Good
  BY <1>2, TableStep
<1> HIDE DEF Good
<1>3. Good \in SUBSET SUBSET S
  BY DEF Good
<1>4. S \in Good
  BY <1>1, <1>2, <1>3, SmallestSet
<1>5. QED
  BY <1>4 DEF Good

\* When one term grows by d, so does the sum.
LEMMA SumMoves ==
  ASSUME NEW S, IsFiniteSet(S), NEW f, NEW h, \A x \in S : f[x] \in Nat,
         NEW y \in S, NEW d \in Int, h[y] = f[y] + d, h[y] \in Nat, \A x \in S \ {y} : h[x] = f[x]
  PROVE  Table(h, S)[S] = Table(f, S)[S] + d
<1> DEFINE Good == {s \in SUBSET S : /\ Table(f, S)[s] \in Nat
                                     /\ Table(h, S)[s] = Table(f, S)[s] + (IF y \in s THEN d ELSE 0)}
<1>1. {} \in Good
  <2>1. Table(f, S)[{}] = 0 /\ Table(h, S)[{}] = 0
    BY TableEmpty
  <2>2. QED
    BY <2>1
<1>2. ASSUME NEW s \in SUBSET S, s # {}, s \ {Picked(s)} \in Good
      PROVE  s \in Good
  <2> DEFINE t == s \ {Picked(s)}
  <2>1. /\ Picked(s) \in s /\ Picked(s) \in S
        /\ Table(f, S)[s] = f[Picked(s)] + Table(f, S)[t] /\ Table(h, S)[s] = h[Picked(s)] + Table(h, S)[t]
    BY <1>2, TableStep
  <2>2. /\ Table(f, S)[t] \in Nat /\ f[Picked(s)] \in Nat
        /\ Table(h, S)[t] = Table(f, S)[t] + (IF y \in t THEN d ELSE 0)
    BY <1>2, <2>1
  <2>3. CASE y = Picked(s)
    BY <2>1, <2>2, <2>3
  <2>4. CASE y # Picked(s)
    <3>1. (y \in s <=> y \in t) /\ h[Picked(s)] = f[Picked(s)]
      BY <2>1, <2>4
    <3>2. QED
      BY <2>1, <2>2, <3>1
  <2>5. QED
    BY <2>3, <2>4
<1> HIDE DEF Good
<1>3. Good \in SUBSET SUBSET S
  BY DEF Good
<1>4. S \in Good
  BY <1>1, <1>2, <1>3, SmallestSet
<1>5. QED
  BY <1>4 DEF Good

WithKey(T, key, x) == {t \in T : key[t] = x}

\* The sum of the counts per key counts what has one of the keys.
LEMMA SumOfCounts ==
  ASSUME NEW S, IsFiniteSet(S), NEW T, IsFiniteSet(T), NEW key, NEW f,
         \A x \in S : f[x] = Cardinality(WithKey(T, key, x))
  PROVE  Table(f, S)[S] = Cardinality({t \in T : key[t] \in S})
<1> DEFINE With(s) == {t \in T : key[t] \in s}
           Good == {s \in SUBSET S : Table(f, S)[s] = Cardinality(With(s))}
<1>1. {} \in Good
  <2>1. With({}) = {}
    OBVIOUS
  <2>2. Table(f, S)[{}] = 0
    BY TableEmpty
  <2>3. QED
    BY <2>1, <2>2, FS_EmptySet
<1>2. ASSUME NEW s \in SUBSET S, s # {}, s \ {Picked(s)} \in Good
      PROVE  s \in Good
  <2> DEFINE x == Picked(s)
             u == s \ {x}
             One == WithKey(T, key, x)
  <2>1. x \in s /\ x \in S /\ Table(f, S)[s] = f[x] + Table(f, S)[u]
    BY <1>2, TableStep
  <2>2. IsFiniteSet(One) /\ IsFiniteSet(With(u))
    BY FS_Subset DEF WithKey
  <2>3. With(s) = One \cup With(u) /\ One \cap With(u) = {}
    <3> HIDE DEF x
    <3>1. QED
      BY <2>1 DEF WithKey
  <2>4. /\ Cardinality(One) \in Nat /\ Cardinality(With(u)) \in Nat
        /\ Cardinality(With(s)) = Cardinality(One) + Cardinality(With(u)) - 0
    <3> HIDE DEF One, With
    <3>1. Cardinality(One) \in Nat /\ Cardinality(With(u)) \in Nat
      BY <2>2, FS_CardinalityType
    <3>2. Cardinality(One \cup With(u)) = Cardinality(One) + Cardinality(With(u)) - Cardinality(One \cap With(u))
      BY <2>2, FS_Union
    <3>3. Cardinality(One \cap With(u)) = 0
      BY <2>3, FS_EmptySet
    <3>4. QED
      BY <2>3, <3>1, <3>2, <3>3
  <2>5. f[x] = Cardinality(One) /\ Table(f, S)[u] = Cardinality(With(u))
    BY <1>2, <2>1
  <2> HIDE DEF One, With, x, u
  <2>6. Table(f, S)[s] = Cardinality(With(s))
    BY <2>1, <2>4, <2>5
  <2>7. QED
    BY <2>6
<1> HIDE DEF Good, With
<1>3. Good \in SUBSET SUBSET S
  BY DEF Good
<1>4. S \in Good
  BY <1>1, <1>2, <1>3, SmallestSet
<1>5. QED
  BY <1>4 DEF Good, With

-----------------------------------------------------------------------------
(* Projections: the invariant. *)

CubeTotal(counts) == SumOver(counts, Tuples)

\* The cube is the archive's, unless a swap dropped a write; and it counts
\* every trace as long as no swap dropped an insert.  The same of the copy a
\* rebuild is about to swap in.
CubeInv ==
  /\ drift = {} => cube = CubeOf(stored)
  /\ "insert" \notin drift => CubeTotal(cube) >= StoredCount
  /\ job.pc = "read" /\ job.of = "cube" =>
       /\ job.wrote = {} => job.cube = CubeOf(stored)
       /\ "insert" \notin job.wrote => CubeTotal(job.cube) >= StoredCount

\* The archive only grows past the count a job sampled, and an insert that
\* the swap drops has made it grow.
JobInv ==
  /\ job.pc \in {"idle", "sampled"} => job.wrote = {}
  /\ job.pc \in {"sampled", "read", "swapped"} => job.count <= StoredCount
  /\ job.pc \in {"read", "swapped"} /\ "insert" \in job.wrote => job.count < StoredCount
  /\ job.pc = "done" /\ job.ok => "insert" \notin job.wrote

TouchInv ==
  \A w \in Writers : /\ touch[w].pc = "idle" => touch[w].session = NoSession
                     /\ touch[w].pc # "idle" => touch[w].session \in Sessions
                     /\ w \notin touch[w].behind

Touched(s) == \E w \in Writers : touch[w].session = s

\* A merge whose read is out of date has somebody behind it who will read, or
\* has read, later.
MergeInv ==
  \A w \in Writers, s \in Sessions :
    touch[w].pc = "merge" /\ touch[w].session = s /\ ~touch[w].overtaken =>
      \/ touch[w].seen = SummaryOf(s)
      \/ \E v \in Writers : touch[v].session = s
                            /\ (touch[v].pc = "touch" \/ (touch[v].pc = "merge" /\ v \in touch[w].behind))

SummaryInv ==
  /\ \A s \in Sessions \ doubt : Touched(s) \/ summaries[s] = SummaryOf(s)
  /\ job.pc = "read" /\ job.of = "sessions" =>
       \A s \in Sessions \ job.since : Touched(s) \/ job.summaries[s] = SummaryOf(s)

ProjectionsInv == ProjectionsTypeOK /\ CubeInv /\ JobInv /\ TouchInv /\ MergeInv /\ SummaryInv

-----------------------------------------------------------------------------
(* What the stores count. *)

TraceDocs == {Absent} \cup [agent : Agents, status : {"pending_price", "stamped"}]

Locals == [pc : {"idle", "touch", "merge"}, session : Sessions \cup {NoSession},
           seen : Summaries, behind : SUBSET Writers, overtaken : BOOLEAN]

Jobs == [pc : {"idle", "sampled", "read", "swapped", "done"}, of : {"cube", "sessions"},
         count : 0..NTraces, moved : SUBSET {WorkerKey, GuardKey}, cube : [Tuples -> Nat],
         summaries : [Sessions -> Summaries], since : SUBSET Sessions,
         wrote : SUBSET {"insert", "attribution"}, ok : BOOLEAN]

LEMMA Instance ==
  /\ NTraces \in Nat /\ IsFiniteSet(Traces) /\ Cardinality(Traces) = NTraces /\ IsFiniteSet(Tuples)
  /\ NoSession \notin Sessions /\ NoSession \notin Agents /\ ChainLimit \in Nat /\ ChainLimit > 0
  /\ \A t \in Traces : ChannelOf[t] \in Channels \cup {NoChannel} /\ SessionOf[t] \in Sessions \cup {NoSession}
  /\ IsFiniteSet(Agents) /\ IsFiniteSet(Channels \cup {NoChannel})
<1>1. /\ NTraces \in Nat /\ NoSession \notin Sessions /\ NoSession \notin Agents /\ ChainLimit \in Nat /\ ChainLimit > 0
      /\ \A t \in Traces : ChannelOf[t] \in Channels \cup {NoChannel} /\ SessionOf[t] \in Sessions \cup {NoSession}
      /\ IsFiniteSet(Agents) /\ IsFiniteSet(Channels)
  BY ProjectionsAssumption
<1>2. IsFiniteSet(Traces) /\ Cardinality(Traces) = NTraces
  BY <1>1, FS_Interval DEF Traces
<1>3. IsFiniteSet(Channels \cup {NoChannel})
  BY <1>1, FS_AddElement
<1>4. IsFiniteSet(Tuples)
  BY <1>1, <1>3, FS_Product DEF Tuples
<1>5. QED
  BY <1>1, <1>2, <1>3, <1>4

LEMMA CountTyped ==
  ASSUME NEW T \in SUBSET Traces
  PROVE  IsFiniteSet(T) /\ Cardinality(T) \in Nat /\ Cardinality(T) \in 0..NTraces
         /\ (Cardinality(T) = 0 <=> T = {})
<1>1. IsFiniteSet(T) /\ Cardinality(T) <= NTraces
  BY Instance, FS_Subset
<1>2. Cardinality(T) \in Nat /\ (Cardinality(T) = 0 <=> T = {})
  BY <1>1, FS_CardinalityType, FS_EmptySet
<1>3. QED
  BY <1>1, <1>2, Instance

LEMMA AllTyped ==
  ProjectionsTypeOK <=>
    /\ stored \in [Traces -> TraceDocs] /\ cube \in [Tuples -> Nat] /\ summaries \in [Sessions -> Summaries]
    /\ touch \in [Writers -> Locals] /\ job \in Jobs
    /\ doubt \in SUBSET Sessions /\ drift \in SUBSET {"insert", "attribution"}
  BY DEF ProjectionsTypeOK, TraceDocs, Locals, Jobs

LEMMA DocTyped ==
  ASSUME ProjectionsTypeOK, NEW t \in Traces
  PROVE  /\ stored[t].agent \in Agents \cup {NoSession} /\ (IsStored(t) => stored[t].agent \in Agents)
         /\ ~IsStored(t) => stored[t].agent = NoSession /\ stored[t].status = "absent"
         /\ stored[t] \in TraceDocs
<1>1. stored[t] \in TraceDocs
  BY AllTyped
<1>2. QED
  BY <1>1 DEF TraceDocs, IsStored, Absent

LEMMA SummaryTyped ==
  ASSUME ProjectionsTypeOK, NEW s
  PROVE  SummaryOf(s) \in Summaries
<1>1. Members(s) \in SUBSET Traces /\ {t \in Members(s) : stored[t].status = "pending_price"} \in SUBSET Traces
  BY DEF Members
<1>2. CASE Members(s) = {}
  BY <1>2, Instance DEF SummaryOf, NoSummary, Summaries
<1>3. CASE Members(s) # {}
  <2>1. Min(Members(s)) \in Members(s)
    <3>1. Members(s) \in SUBSET Nat
      BY <1>1, Instance DEF Traces
    <3>2. QED
      BY <1>3, <3>1, MinOfNat
  <2>2. stored[Min(Members(s))].agent \in Agents
    BY <2>1, DocTyped DEF Members
  <2>3. /\ Cardinality(Members(s)) \in 0..NTraces
        /\ Cardinality({t \in Members(s) : stored[t].status = "pending_price"}) \in 0..NTraces
    BY <1>1, CountTyped
  <2>4. QED
    BY <1>3, <2>2, <2>3 DEF SummaryOf, Summaries
<1>4. QED
  BY <1>2, <1>3

LEMMA CubeTyped ==
  ASSUME NEW docs
  PROVE  CubeOf(docs) \in [Tuples -> Nat]
<1>1. \A u \in Tuples : {t \in Traces : <<docs[t].agent, ChannelOf[t]>> = u} \in SUBSET Traces
  OBVIOUS
<1>2. \A u \in Tuples : Cardinality({t \in Traces : <<docs[t].agent, ChannelOf[t]>> = u}) \in Nat
  BY <1>1, CountTyped
<1>3. QED
  BY <1>2 DEF CubeOf

\* A session's summary hangs on the traces of the session alone.
LEMMA SummaryUnmoved ==
  ASSUME NEW s, \A t \in Traces : SessionOf[t] = s => stored'[t] = stored[t]
  PROVE  SummaryOf(s)' = SummaryOf(s)
<1>1. Members(s)' = Members(s)
  BY DEF Members, IsStored
<1>2. {t \in Members(s) : stored[t].status = "pending_price"}' = {t \in Members(s) : stored[t].status = "pending_price"}
  BY <1>1 DEF Members
<1>3. CASE Members(s) = {}
  BY <1>1, <1>3 DEF SummaryOf
<1>4. CASE Members(s) # {}
  <2>1. Min(Members(s)) \in Members(s)
    <3>1. Members(s) \in SUBSET Nat
      BY Instance DEF Traces, Members
    <3>2. QED
      BY <1>4, <3>1, MinOfNat
  <2>2. stored'[Min(Members(s))] = stored[Min(Members(s))]
    BY <2>1 DEF Members
  <2>3. QED
    BY <1>1, <1>2, <1>4, <2>2 DEF SummaryOf
<1>5. QED
  BY <1>3, <1>4

\* One document changes: its tuple loses it, and the new one gains it.
LEMMA CountMoves ==
  ASSUME NEW docs, NEW docs2, NEW t \in Traces, \A n \in Traces \ {t} : docs2[n] = docs[n],
         NEW x, x = <<docs[t].agent, ChannelOf[t]>>, NEW y, y = <<docs2[t].agent, ChannelOf[t]>>,
         x # y, NEW u \in Tuples
  PROVE  /\ u = x => CubeOf(docs)[u] > 0 /\ CubeOf(docs2)[u] = CubeOf(docs)[u] - 1
         /\ u = y => CubeOf(docs2)[u] = CubeOf(docs)[u] + 1
         /\ u \notin {x, y} => CubeOf(docs2)[u] = CubeOf(docs)[u]
<1> DEFINE With(d) == {n \in Traces : <<d[n].agent, ChannelOf[n]>> = u}
<1>1. CubeOf(docs)[u] = Cardinality(With(docs)) /\ CubeOf(docs2)[u] = Cardinality(With(docs2))
  BY DEF CubeOf
<1>2. /\ IsFiniteSet(With(docs)) /\ Cardinality(With(docs)) \in Nat /\ (Cardinality(With(docs)) = 0 <=> With(docs) = {})
      /\ IsFiniteSet(With(docs2)) /\ Cardinality(With(docs2)) \in Nat
  <2>1. With(docs) \in SUBSET Traces /\ With(docs2) \in SUBSET Traces
    OBVIOUS
  <2> HIDE DEF With
  <2>2. QED
    BY <2>1, CountTyped
<1>3. /\ u = x => t \in With(docs) /\ With(docs2) = With(docs) \ {t}
      /\ u = y => t \notin With(docs) /\ With(docs2) = With(docs) \cup {t}
      /\ u \notin {x, y} => With(docs2) = With(docs)
  <2>1. \A n \in Traces \ {t} : n \in With(docs2) <=> n \in With(docs)
    OBVIOUS
  <2>2. (t \in With(docs) <=> u = x) /\ (t \in With(docs2) <=> u = y)
    OBVIOUS
  <2>3. With(docs) \subseteq Traces /\ With(docs2) \subseteq Traces
    OBVIOUS
  <2> HIDE DEF With
  <2>4. QED
    BY <2>1, <2>2, <2>3
<1> HIDE DEF With
<1>4. CASE u = x
  BY <1>1, <1>2, <1>3, <1>4, FS_RemoveElement
<1>5. CASE u = y
  BY <1>1, <1>2, <1>3, <1>5, FS_AddElement
<1>6. CASE u \notin {x, y}
  BY <1>1, <1>3, <1>6
<1>7. QED
  BY <1>4, <1>5, <1>6

LEMMA TotalTyped ==
  ASSUME NEW counts \in [Tuples -> Nat]
  PROVE  CubeTotal(counts) \in Nat /\ CubeTotal(counts) = Table(counts, Tuples)[Tuples]
<1>1. CubeTotal(counts) = Table(counts, Tuples)[Tuples]
  BY SumIsTable DEF CubeTotal
<1>2. QED
  BY <1>1, SumTyped, Instance

\* What the archive's own cube adds up to.
LEMMA TotalOfArchive ==
  ASSUME ProjectionsTypeOK
  PROVE  CubeTotal(CubeOf(stored)) = StoredCount
<1> DEFINE key == [t \in Traces |-> <<stored[t].agent, ChannelOf[t]>>]
           counts == CubeOf(stored)
<1>1. \A u \in Tuples : counts[u] = Cardinality(WithKey(Traces, key, u))
  <2> SUFFICES ASSUME NEW u \in Tuples PROVE counts[u] = Cardinality(WithKey(Traces, key, u))
    OBVIOUS
  <2>1. WithKey(Traces, key, u) = {t \in Traces : <<stored[t].agent, ChannelOf[t]>> = u}
    BY DEF WithKey
  <2>2. QED
    BY <2>1 DEF CubeOf
<1>2. {t \in Traces : key[t] \in Tuples} = {t \in Traces : IsStored(t)}
  <2>1. \A t \in Traces : key[t] \in Tuples <=> IsStored(t)
    <3> SUFFICES ASSUME NEW t \in Traces PROVE key[t] \in Tuples <=> IsStored(t)
      OBVIOUS
    <3>1. key[t] = <<stored[t].agent, ChannelOf[t]>> /\ ChannelOf[t] \in Channels \cup {NoChannel}
      BY Instance
    <3>2. key[t] \in Tuples <=> stored[t].agent \in Agents
      BY <3>1 DEF Tuples
    <3>3. QED
      BY <3>2, DocTyped, Instance
  <2>2. QED
    BY <2>1
<1> HIDE DEF key, counts
<1>3. Table(counts, Tuples)[Tuples] = Cardinality({t \in Traces : key[t] \in Tuples})
  <2>1. IsFiniteSet(Tuples) /\ IsFiniteSet(Traces)
    BY Instance
  <2>2. QED
    BY <1>1, <2>1, SumOfCounts
<1>4. CubeTotal(counts) = Table(counts, Tuples)[Tuples]
  BY CubeTyped, TotalTyped DEF counts
<1>5. QED
  BY <1>2, <1>3, <1>4 DEF StoredCount, counts

LEMMA TotalMoves ==
  ASSUME NEW counts \in [Tuples -> Nat], NEW moved \in [Tuples -> Nat], NEW u \in Tuples, NEW d \in Int,
         moved[u] = counts[u] + d, \A x \in Tuples \ {u} : moved[x] = counts[x]
  PROVE  CubeTotal(moved) = CubeTotal(counts) + d
<1>1. moved[u] \in Nat /\ IsFiniteSet(Tuples) /\ \A x \in Tuples : counts[x] \in Nat
  BY Instance
<1>2. Table(moved, Tuples)[Tuples] = Table(counts, Tuples)[Tuples] + d
  BY <1>1, SumMoves
<1>3. QED
  BY <1>2, TotalTyped

LEMMA StoredTyped ==
  /\ StoredCount \in 0..NTraces /\ StoredCount \in Nat
  /\ (\A t \in Traces : IsStored(t)' <=> IsStored(t)) => StoredCount' = StoredCount
<1>1. {t \in Traces : IsStored(t)} \in SUBSET Traces
  OBVIOUS
<1>2. StoredCount \in 0..NTraces /\ StoredCount \in Nat
  BY <1>1, CountTyped DEF StoredCount
<1>3. ASSUME \A t \in Traces : IsStored(t)' <=> IsStored(t) PROVE StoredCount' = StoredCount
  <2>1. {t \in Traces : IsStored(t)}' = {t \in Traces : IsStored(t)}
    BY <1>3
  <2>2. QED
    BY <2>1 DEF StoredCount
<1>4. QED
  BY <1>2, <1>3

LEMMA StoredGrows ==
  ASSUME NEW t \in Traces, ~IsStored(t), IsStored(t)',
         \A n \in Traces \ {t} : stored'[n] = stored[n]
  PROVE  StoredCount' = StoredCount + 1
<1> DEFINE T == {n \in Traces : IsStored(n)}
<1>1. T' = T \cup {t} /\ t \notin T
  BY DEF IsStored
<1>2. IsFiniteSet(T)
  <2>1. T \in SUBSET Traces
    OBVIOUS
  <2>2. QED
    BY <2>1, CountTyped
<1>3. Cardinality(T \cup {t}) = Cardinality(T) + 1
  BY <1>1, <1>2, FS_AddElement
<1>4. QED
  BY <1>1, <1>3 DEF StoredCount

-----------------------------------------------------------------------------
(* Writers. *)

LEMMA LocalTyped ==
  ASSUME ProjectionsTypeOK, NEW w \in Writers
  PROVE  /\ touch[w] \in Locals /\ touch[w].pc \in {"idle", "touch", "merge"}
         /\ touch[w].session \in Sessions \cup {NoSession} /\ touch[w].seen \in Summaries
         /\ touch[w].behind \subseteq Writers /\ touch[w].overtaken \in BOOLEAN
<1>1. touch[w] \in Locals
  BY AllTyped
<1>2. QED
  BY <1>1 DEF Locals

LEMMA TouchingTyped ==
  ASSUME NEW s \in Sessions \cup {NoSession}
  PROVE  /\ Idle \in Locals /\ Idle.pc = "idle" /\ Idle.session = NoSession /\ Idle.behind = {}
         /\ Touching(s) \in Locals /\ Touching(s).session = s /\ Touching(s).behind = {}
         /\ Touching(s).pc = IF s = NoSession THEN "idle" ELSE "touch"
<1>1. NoSummary \in Summaries
  BY Instance DEF NoSummary, Summaries
<1>2. Idle \in Locals /\ Idle.pc = "idle" /\ Idle.session = NoSession /\ Idle.behind = {}
  BY <1>1 DEF Idle, Locals
<1>3. QED
  BY <1>2 DEF Touching, Locals

\* After a write, whoever made it has the session to recompute: nothing else
\* is claimed of that session until he has, and no other session has moved.
LEMMA WriteTouches ==
  ASSUME ProjectionsInv, NEW w \in Writers, NEW t \in Traces, touch[w].pc = "idle",
         touch' = [touch EXCEPT ![w] = Touching(SessionOf[t])],
         \A n \in Traces \ {t} : stored'[n] = stored[n], UNCHANGED <<summaries, doubt>>,
         job'.pc = job.pc, job'.of = job.of, job'.since = job.since, job'.summaries = job.summaries
  PROVE  touch' \in [Writers -> Locals] /\ TouchInv' /\ MergeInv' /\ SummaryInv'
<1> DEFINE q == SessionOf[t]
<1>1. /\ ProjectionsTypeOK /\ TouchInv /\ MergeInv /\ SummaryInv /\ touch \in [Writers -> Locals]
      /\ q \in Sessions \cup {NoSession} /\ NoSession \notin Sessions
  BY AllTyped, Instance DEF ProjectionsInv
<1>2. touch'[w] = Touching(q) /\ \A v \in Writers \ {w} : touch'[v] = touch[v]
  BY <1>1
<1>3. touch' \in [Writers -> Locals]
  BY <1>1, TouchingTyped
<1>4. /\ touch'[w].session = q /\ touch'[w].pc = (IF q = NoSession THEN "idle" ELSE "touch")
      /\ touch'[w].behind = {} /\ touch[w].session = NoSession
  BY <1>1, <1>2, TouchingTyped DEF TouchInv
<1>5. TouchInv'
  BY <1>1, <1>2, <1>4 DEF TouchInv
<1>6. ASSUME NEW s \in Sessions, s # q
      PROVE  SummaryOf(s)' = SummaryOf(s)
  <2>1. \A n \in Traces : SessionOf[n] = s => stored'[n] = stored[n]
    BY <1>6
  <2>2. QED
    BY <2>1, SummaryUnmoved
<1>7. ASSUME NEW s \in Sessions
      PROVE  /\ s = q => Touched(s)'
             /\ Touched(s) => Touched(s)'
  BY <1>1, <1>2, <1>4 DEF Touched
<1>8. MergeInv'
  <2> SUFFICES ASSUME NEW v \in Writers, NEW s \in Sessions,
                      touch'[v].pc = "merge", touch'[v].session = s, ~touch'[v].overtaken
               PROVE  \/ touch'[v].seen = SummaryOf(s)'
                      \/ \E u \in Writers : touch'[u].session = s
                           /\ (touch'[u].pc = "touch" \/ (touch'[u].pc = "merge" /\ u \in touch'[v].behind))
    BY DEF MergeInv
  <2>1. v # w /\ touch'[v] = touch[v]
    BY <1>2, <1>4
  <2>2. CASE s = q
    BY <1>1, <1>4, <2>2
  <2>3. CASE s # q
    <3>1. CASE touch[v].seen = SummaryOf(s)
      BY <1>6, <2>1, <2>3, <3>1
    <3>2. CASE touch[v].seen # SummaryOf(s)
      <4>1. PICK u \in Writers : touch[u].session = s
                           /\ (touch[u].pc = "touch" \/ (touch[u].pc = "merge" /\ u \in touch[v].behind))
        BY <1>1, <2>1, <3>2 DEF MergeInv
      <4>2. u # w /\ touch'[u] = touch[u]
        BY <1>1, <1>2, <1>4, <4>1
      <4>3. QED
        BY <2>1, <4>1, <4>2
    <3>3. QED
      BY <3>1, <3>2
  <2>4. QED
    BY <2>2, <2>3
<1>9. SummaryInv'
  <2>1. ASSUME NEW s \in Sessions \ doubt' PROVE Touched(s)' \/ summaries'[s] = SummaryOf(s)'
    BY <1>1, <1>6, <1>7, <2>1 DEF SummaryInv
  <2>2. ASSUME job'.pc = "read", job'.of = "sessions", NEW s \in Sessions \ job'.since
        PROVE  Touched(s)' \/ job'.summaries[s] = SummaryOf(s)'
    BY <1>1, <1>6, <1>7, <2>2 DEF SummaryInv
  <2>3. QED
    BY <2>1, <2>2 DEF SummaryInv
<1>10. QED
  BY <1>3, <1>5, <1>8, <1>9

\* A write under a job that sits before its swap is put down.
LEMMA WrittenTyped ==
  ASSUME ProjectionsTypeOK, NEW kind \in {"insert", "attribution"}
  PROVE  /\ Written(kind) \in Jobs
         /\ Written(kind).pc = job.pc /\ Written(kind).of = job.of /\ Written(kind).since = job.since
         /\ Written(kind).summaries = job.summaries /\ Written(kind).cube = job.cube
         /\ Written(kind).count = job.count /\ Written(kind).ok = job.ok
         /\ Written(kind).wrote = IF job.pc = "read" /\ job.of = "cube" THEN job.wrote \cup {kind} ELSE job.wrote
<1>1. job \in Jobs
  BY AllTyped
<1>2. job.wrote \cup {kind} \in SUBSET {"insert", "attribution"}
  BY <1>1 DEF Jobs
<1>3. QED
  BY <1>1, <1>2 DEF Written, Jobs

LEMMA InsertTraceKeeps ==
  ASSUME ProjectionsInv, NEW w \in Writers, NEW t \in Traces, NEW a \in Agents, InsertTrace(w, t, a)
  PROVE  ProjectionsInv'
<1> DEFINE entry == [agent |-> a, status |-> ArrivalStatus(t)]
           x == <<stored[t].agent, ChannelOf[t]>>
           y == <<a, ChannelOf[t]>>
<1>1. /\ ProjectionsTypeOK /\ CubeInv /\ JobInv /\ ~IsStored(t) /\ touch[w].pc = "idle"
      /\ stored' = [stored EXCEPT ![t] = entry] /\ cube' = Increment(y)
      /\ touch' = [touch EXCEPT ![w] = Touching(SessionOf[t])] /\ job' = Written("insert")
      /\ UNCHANGED <<summaries, doubt, drift>>
  BY DEF ProjectionsInv, InsertTrace
<1>2. entry \in TraceDocs /\ entry.agent = a /\ entry # Absent
  BY Instance DEF TraceDocs, ArrivalStatus, Absent
<1> HIDE DEF entry
<1>3. /\ stored \in [Traces -> TraceDocs] /\ cube \in [Tuples -> Nat] /\ job \in Jobs
      /\ stored' \in [Traces -> TraceDocs] /\ stored'[t] = entry
      /\ \A n \in Traces \ {t} : stored'[n] = stored[n]
  BY <1>1, <1>2, AllTyped
<1>4. y \in Tuples /\ x \notin Tuples /\ x # y
  BY <1>1, DocTyped, Instance DEF Tuples
<1>5. /\ cube' = [cube EXCEPT ![y] = cube[y] + 1] /\ cube[y] + 1 \in Nat
      /\ cube' \in [Tuples -> Nat] /\ CubeTotal(cube') = CubeTotal(cube) + 1
  <2>1. cube' = [cube EXCEPT ![y] = cube[y] + 1] /\ cube[y] + 1 \in Nat
    BY <1>1, <1>3, <1>4 DEF Increment
  <2>2. y \in Tuples
    BY <1>4
  <2> HIDE DEF y
  <2>3. /\ cube' \in [Tuples -> Nat] /\ cube'[y] = cube[y] + 1 /\ 1 \in Int
        /\ \A u \in Tuples \ {y} : cube'[u] = cube[u]
    BY <1>3, <2>1, <2>2
  <2>4. CubeTotal(cube') = CubeTotal(cube) + 1
    BY <1>3, <2>2, <2>3, TotalMoves
  <2>5. QED
    BY <2>1, <2>3, <2>4
<1>6. StoredCount' = StoredCount + 1 /\ StoredCount \in Nat
  <2>1. IsStored(t)'
    BY <1>2, <1>3 DEF IsStored
  <2>2. QED
    BY <1>1, <1>3, <2>1, StoredGrows, StoredTyped
<1>7. /\ touch' \in [Writers -> Locals] /\ TouchInv' /\ MergeInv' /\ SummaryInv'
      /\ job' \in Jobs /\ job'.pc = job.pc /\ job'.of = job.of /\ job'.count = job.count /\ job'.ok = job.ok
      /\ job'.wrote = IF job.pc = "read" /\ job.of = "cube" THEN job.wrote \cup {"insert"} ELSE job.wrote
  <2>1. /\ job' \in Jobs /\ job'.pc = job.pc /\ job'.of = job.of /\ job'.count = job.count /\ job'.ok = job.ok
        /\ job'.wrote = IF job.pc = "read" /\ job.of = "cube" THEN job.wrote \cup {"insert"} ELSE job.wrote
        /\ job'.since = job.since /\ job'.summaries = job.summaries
    BY <1>1, WrittenTyped
  <2>2. QED
    BY <1>1, <1>3, <2>1, WriteTouches
<1>8. ProjectionsTypeOK'
  <2>1. summaries' \in [Sessions -> Summaries] /\ doubt' \in SUBSET Sessions
        /\ drift' \in SUBSET {"insert", "attribution"}
    BY <1>1, AllTyped
  <2>2. QED
    BY <1>3, <1>5, <1>7, <2>1 DEF ProjectionsTypeOK, TraceDocs, Locals, Jobs
<1>9. JobInv'
  <2>1. job.count \in Nat
    BY <1>3 DEF Jobs
  <2>2. QED
    BY <1>1, <1>6, <1>7, <2>1 DEF JobInv
<1>10. CubeInv'
  <2>1. ASSUME drift = {} PROVE cube' = CubeOf(stored')
    <3>1. cube = CubeOf(stored) /\ CubeOf(stored') \in [Tuples -> Nat]
      BY <1>1, <2>1, CubeTyped DEF CubeInv
    <3>2. ASSUME NEW u \in Tuples PROVE cube'[u] = CubeOf(stored')[u]
      <4>1. /\ u = y => CubeOf(stored')[u] = CubeOf(stored)[u] + 1
            /\ u \notin {x, y} => CubeOf(stored')[u] = CubeOf(stored)[u]
        <5>1. y = <<stored'[t].agent, ChannelOf[t]>>
          BY <1>2, <1>3
        <5> HIDE DEF y
        <5>2. QED
          BY <1>3, <1>4, <5>1, CountMoves
      <4>2. u # x
        BY <1>4
      <4> HIDE DEF x, y
      <4>3. QED
        BY <1>3, <1>5, <3>1, <4>1, <4>2
    <3>3. QED
      BY <1>5, <3>1, <3>2
  <2>2. ASSUME "insert" \notin drift PROVE CubeTotal(cube') >= StoredCount'
    BY <1>1, <1>3, <1>5, <1>6, <2>2, TotalTyped DEF CubeInv
  <2>3. job'.pc = "read" /\ job'.of = "cube" => job'.wrote # {} /\ "insert" \in job'.wrote
    BY <1>7
  <2>4. QED
    BY <1>1, <2>1, <2>2, <2>3 DEF CubeInv
<1>11. QED
  BY <1>7, <1>8, <1>9, <1>10 DEF ProjectionsInv

LEMMA AttributeKeeps ==
  ASSUME ProjectionsInv, NEW w \in Writers, NEW t \in Traces, NEW a \in Agents, Attribute(w, t, a)
  PROVE  ProjectionsInv'
<1> DEFINE x == <<stored[t].agent, ChannelOf[t]>>
           y == <<a, ChannelOf[t]>>
<1>1. /\ ProjectionsTypeOK /\ CubeInv /\ JobInv /\ IsStored(t) /\ touch[w].pc = "idle"
      /\ touch' = [touch EXCEPT ![w] = Touching(SessionOf[t])] /\ UNCHANGED <<summaries, doubt, drift>>
  BY DEF ProjectionsInv, Attribute
<1>2. /\ stored \in [Traces -> TraceDocs] /\ cube \in [Tuples -> Nat] /\ job \in Jobs
      /\ summaries' \in [Sessions -> Summaries] /\ doubt' \in SUBSET Sessions
      /\ drift' \in SUBSET {"insert", "attribution"}
  BY <1>1, AllTyped
<1>3. CASE stored[t].agent = a
  <2>1. UNCHANGED <<stored, cube, job>>
    BY <1>3 DEF Attribute
  <2>2. touch' \in [Writers -> Locals] /\ TouchInv' /\ MergeInv' /\ SummaryInv'
    BY <1>1, <2>1, WriteTouches
  <2>3. ProjectionsTypeOK'
    BY <1>2, <2>1, <2>2 DEF ProjectionsTypeOK, TraceDocs, Locals, Jobs
  <2>4. StoredCount' = StoredCount
    BY <2>1, StoredTyped DEF IsStored
  <2>5. CubeInv' /\ JobInv'
    BY <1>1, <2>1, <2>4 DEF CubeInv, JobInv
  <2>6. QED
    BY <2>2, <2>3, <2>5 DEF ProjectionsInv
<1>4. CASE stored[t].agent # a
  <2> DEFINE entry == [stored[t] EXCEPT !.agent = a]
             drop == IF cube[x] > 0 THEN cube[x] - 1 ELSE cube[x]
  <2>1. stored' = [stored EXCEPT ![t] = entry] /\ cube' = Delta(x, y) /\ job' = Written("attribution")
    BY <1>2, <1>4 DEF Attribute
  <2>2. entry \in TraceDocs /\ entry.agent = a /\ entry # Absent
    <3>1. stored[t] \in [agent : Agents, status : {"pending_price", "stamped"}]
      BY <1>1, <1>2, DocTyped DEF TraceDocs, IsStored
    <3>2. entry \in [agent : Agents, status : {"pending_price", "stamped"}] /\ entry.agent = a
      BY <3>1
    <3>3. entry # Absent
      BY <3>2, Instance DEF Absent
    <3>4. QED
      BY <3>2, <3>3 DEF TraceDocs
  <2> HIDE DEF entry
  <2>3. /\ stored' \in [Traces -> TraceDocs] /\ stored'[t] = entry
        /\ \A n \in Traces \ {t} : stored'[n] = stored[n]
    BY <1>2, <2>1, <2>2
  <2>4. x \in Tuples /\ y \in Tuples /\ x # y /\ y = <<stored'[t].agent, ChannelOf[t]>>
    BY <1>1, <1>4, <2>2, <2>3, DocTyped, Instance DEF Tuples
  <2>5. cube' = [[cube EXCEPT ![x] = drop] EXCEPT ![y] = cube[y] + 1] /\ drop \in Nat /\ cube[y] + 1 \in Nat
        /\ cube[x] \in Nat /\ cube[y] \in Nat
    <3>1. cube[x] \in Nat /\ cube[y] \in Nat
      BY <1>2, <2>4
    <3>2. cube' = [cube EXCEPT ![x] = drop, ![y] = cube[y] + 1]
      <4>1. [cube EXCEPT ![x] = drop][y] = cube[y]
        BY <1>2, <2>4
      <4>2. QED
        BY <1>2, <2>1, <2>4, <4>1 DEF Delta
    <3>3. QED
      BY <3>1, <3>2
  <2> HIDE DEF x, y
  <2>6. /\ cube' \in [Tuples -> Nat] /\ cube'[x] = drop /\ cube'[y] = cube[y] + 1
        /\ \A u \in Tuples \ {x, y} : cube'[u] = cube[u]
    <3> HIDE DEF drop
    <3>1. QED
      BY <1>2, <2>4, <2>5
  <2>7. CubeTotal(cube') >= CubeTotal(cube) /\ CubeTotal(cube') \in Nat /\ CubeTotal(cube) \in Nat
    <3> DEFINE less == [cube EXCEPT ![x] = drop]
               d == drop - cube[x]
    <3>1. d \in Int /\ d >= -1 /\ drop = cube[x] + d
      BY <2>5
    <3>2. /\ less \in [Tuples -> Nat] /\ less[x] = cube[x] + d /\ less[y] = cube[y]
          /\ \A u \in Tuples \ {x} : less[u] = cube[u]
      <4> HIDE DEF d, drop
      <4>1. QED
        BY <1>2, <2>4, <2>5, <3>1
    <3> HIDE DEF less, d, drop
    <3>3. CubeTotal(less) = CubeTotal(cube) + d
      BY <1>2, <2>4, <3>1, <3>2, TotalMoves
    <3>4. CubeTotal(cube') = CubeTotal(less) + 1
      <4>1. cube'[y] = less[y] + 1 /\ 1 \in Int /\ \A u \in Tuples \ {y} : cube'[u] = less[u]
        <5>1. less[x] = cube'[x]
          BY <2>6, <3>1, <3>2
        <5>2. QED
          BY <2>6, <3>2, <5>1
      <4>2. QED
        BY <2>4, <2>6, <3>2, <4>1, TotalMoves
    <3>5. CubeTotal(cube') \in Nat /\ CubeTotal(cube) \in Nat /\ CubeTotal(less) \in Nat
      BY <1>2, <2>6, <3>2, TotalTyped
    <3>6. QED
      BY <3>1, <3>3, <3>4, <3>5
  <2>8. StoredCount' = StoredCount /\ StoredCount \in Nat
    <3>1. \A n \in Traces : IsStored(n)' <=> IsStored(n)
      BY <1>1, <2>2, <2>3 DEF IsStored
    <3>2. QED
      BY <3>1, StoredTyped
  <2>9. /\ touch' \in [Writers -> Locals] /\ TouchInv' /\ MergeInv' /\ SummaryInv'
        /\ job' \in Jobs /\ job'.pc = job.pc /\ job'.of = job.of /\ job'.count = job.count /\ job'.ok = job.ok
        /\ job'.wrote = (IF job.pc = "read" /\ job.of = "cube" THEN job.wrote \cup {"attribution"} ELSE job.wrote)
        /\ job'.cube = job.cube
    <3>1. /\ job' \in Jobs /\ job'.pc = job.pc /\ job'.of = job.of /\ job'.count = job.count /\ job'.ok = job.ok
          /\ job'.wrote = (IF job.pc = "read" /\ job.of = "cube" THEN job.wrote \cup {"attribution"} ELSE job.wrote)
          /\ job'.since = job.since /\ job'.summaries = job.summaries /\ job'.cube = job.cube
      BY <1>1, <2>1, WrittenTyped
    <3>2. QED
      BY <1>1, <2>3, <3>1, WriteTouches
  <2>10. ProjectionsTypeOK'
    BY <1>2, <2>3, <2>6, <2>9 DEF ProjectionsTypeOK, TraceDocs, Locals, Jobs
  <2>11. JobInv'
    BY <1>1, <2>8, <2>9 DEF JobInv
  <2>12. CubeInv'
    <3>1. ASSUME drift = {} PROVE cube' = CubeOf(stored')
      <4>1. cube = CubeOf(stored) /\ CubeOf(stored') \in [Tuples -> Nat]
        BY <1>1, <3>1, CubeTyped DEF CubeInv
      <4>2. ASSUME NEW u \in Tuples PROVE cube'[u] = CubeOf(stored')[u]
        <5>1. /\ u = x => CubeOf(stored)[u] > 0 /\ CubeOf(stored')[u] = CubeOf(stored)[u] - 1
              /\ u = y => CubeOf(stored')[u] = CubeOf(stored)[u] + 1
              /\ u \notin {x, y} => CubeOf(stored')[u] = CubeOf(stored)[u]
          <6>1. x = <<stored[t].agent, ChannelOf[t]>>
            BY DEF x
          <6>2. /\ \A n \in Traces \ {t} : stored'[n] = stored[n]
                /\ y = <<stored'[t].agent, ChannelOf[t]>> /\ x # y
            BY <2>3, <2>4
          <6>3. QED
            BY <6>1, <6>2, CountMoves
        <5>2. QED
          BY <2>6, <4>1, <5>1
      <4>3. QED
        BY <2>6, <4>1, <4>2
    <3>2. ASSUME "insert" \notin drift PROVE CubeTotal(cube') >= StoredCount'
      BY <1>1, <2>7, <2>8, <3>2 DEF CubeInv
    <3>3. ASSUME job'.pc = "read", job'.of = "cube"
          PROVE  job'.wrote # {} /\ ("insert" \notin job'.wrote => CubeTotal(job'.cube) >= StoredCount')
      BY <1>1, <2>8, <2>9, <3>3 DEF CubeInv
    <3>4. QED
      BY <1>1, <3>1, <3>2, <3>3 DEF CubeInv
  <2>13. QED
    BY <2>9, <2>10, <2>11, <2>12 DEF ProjectionsInv
<1>5. QED
  BY <1>3, <1>4

LEMMA StampTraceKeeps ==
  ASSUME ProjectionsInv, NEW w \in Writers, NEW t \in Traces, StampTrace(w, t)
  PROVE  ProjectionsInv'
<1> DEFINE entry == [stored[t] EXCEPT !.status = "stamped"]
<1>1. /\ ProjectionsTypeOK /\ CubeInv /\ JobInv /\ touch[w].pc = "idle" /\ stored[t].status = "pending_price"
      /\ stored' = [stored EXCEPT ![t] = entry] /\ touch' = [touch EXCEPT ![w] = Touching(SessionOf[t])]
      /\ UNCHANGED <<cube, summaries, job, doubt, drift>>
  BY DEF ProjectionsInv, StampTrace
<1>2. IsStored(t) /\ entry \in TraceDocs /\ entry.agent = stored[t].agent /\ entry # Absent
  <2>1. stored[t] \in [agent : Agents, status : {"pending_price", "stamped"}] /\ IsStored(t)
    BY <1>1, DocTyped DEF TraceDocs, IsStored
  <2>2. entry \in [agent : Agents, status : {"pending_price", "stamped"}] /\ entry.agent = stored[t].agent
    BY <2>1
  <2>3. entry # Absent
    BY <2>2, Instance DEF Absent
  <2>4. QED
    BY <2>1, <2>2, <2>3 DEF TraceDocs
<1> HIDE DEF entry
<1>3. /\ stored' \in [Traces -> TraceDocs] /\ stored'[t] = entry
      /\ \A n \in Traces \ {t} : stored'[n] = stored[n]
  BY <1>1, <1>2, AllTyped
<1>4. /\ touch' \in [Writers -> Locals] /\ TouchInv' /\ MergeInv' /\ SummaryInv'
  BY <1>1, <1>3, WriteTouches
<1>5. StoredCount' = StoredCount
  <2>1. \A n \in Traces : IsStored(n)' <=> IsStored(n)
    BY <1>2, <1>3 DEF IsStored
  <2>2. QED
    BY <2>1, StoredTyped
<1>6. CubeOf(stored') = CubeOf(stored)
  <2>1. \A n \in Traces : stored'[n].agent = stored[n].agent
    BY <1>2, <1>3
  <2>2. \A u \in Tuples : {n \in Traces : <<stored'[n].agent, ChannelOf[n]>> = u}
                            = {n \in Traces : <<stored[n].agent, ChannelOf[n]>> = u}
    BY <2>1
  <2>3. QED
    BY <2>2 DEF CubeOf
<1>7. ProjectionsTypeOK'
  BY <1>1, <1>3, <1>4, AllTyped DEF ProjectionsTypeOK, TraceDocs, Locals, Jobs
<1>8. CubeInv' /\ JobInv'
  BY <1>1, <1>5, <1>6 DEF CubeInv, JobInv
<1>9. QED
  BY <1>4, <1>7, <1>8 DEF ProjectionsInv

LEMMA SinceTyped ==
  ASSUME ProjectionsTypeOK, NEW s \in Sessions
  PROVE  /\ Since(s) \in Jobs
         /\ Since(s).pc = job.pc /\ Since(s).of = job.of /\ Since(s).wrote = job.wrote
         /\ Since(s).summaries = job.summaries /\ Since(s).cube = job.cube
         /\ Since(s).count = job.count /\ Since(s).ok = job.ok
         /\ Since(s).since = IF job.pc = "read" /\ job.of = "sessions" THEN job.since \cup {s} ELSE job.since
<1>1. job \in Jobs
  BY AllTyped
<1>2. job.since \cup {s} \in SUBSET Sessions
  BY <1>1 DEF Jobs
<1>3. QED
  BY <1>1, <1>2 DEF Since, Jobs

\* A recompute leaves the archive and the cube alone.
LEMMA RecomputeKeeps ==
  ASSUME ProjectionsInv, UNCHANGED <<stored, cube, drift>>, job' \in Jobs,
         job'.pc = job.pc, job'.of = job.of, job'.wrote = job.wrote, job'.cube = job.cube,
         job'.count = job.count, job'.ok = job.ok,
         touch' \in [Writers -> Locals], summaries' \in [Sessions -> Summaries], doubt' \in SUBSET Sessions
  PROVE  /\ ProjectionsTypeOK' /\ CubeInv' /\ JobInv'
         /\ \A s : SummaryOf(s)' = SummaryOf(s)
<1>1. \A s : SummaryOf(s)' = SummaryOf(s)
  BY SummaryUnmoved
<1>2. StoredCount' = StoredCount
  BY StoredTyped DEF IsStored
<1>3. stored' = stored /\ cube' = cube /\ drift' = drift
  OBVIOUS
<1>4. ProjectionsTypeOK'
  BY <1>3, AllTyped DEF ProjectionsInv, ProjectionsTypeOK, TraceDocs, Locals, Jobs
<1>5. CubeInv'
  BY <1>2, <1>3 DEF ProjectionsInv, CubeInv
<1>6. JobInv'
  BY <1>2 DEF ProjectionsInv, JobInv
<1>7. QED
  BY <1>1, <1>4, <1>5, <1>6

LEMMA MergeReadKeeps ==
  ASSUME ProjectionsInv, NEW w \in Writers, MergeRead(w)
  PROVE  ProjectionsInv'
<1> DEFINE s == touch[w].session
<1>1. /\ ProjectionsTypeOK /\ TouchInv /\ MergeInv /\ SummaryInv /\ touch[w].pc = "touch"
      /\ touch' = [v \in Writers |->
                     IF v = w THEN [touch[w] EXCEPT !.pc = "merge", !.seen = SummaryOf(s),
                                                    !.behind = {}, !.overtaken = FALSE]
                     ELSE IF v \in Merging(s) THEN [touch[v] EXCEPT !.behind = @ \cup {w}]
                     ELSE touch[v]]
      /\ UNCHANGED <<stored, cube, summaries, job, doubt, drift>>
  BY DEF ProjectionsInv, MergeRead, stores
<1>2. s \in Sessions
  BY <1>1 DEF TouchInv
<1> HIDE DEF s
<1>3. \A v \in Writers : touch[v] \in Locals
  BY <1>1, AllTyped
<1>4. /\ touch'[w].pc = "merge" /\ touch'[w].session = s /\ touch'[w].seen = SummaryOf(s)
      /\ touch'[w].behind = {} /\ ~touch'[w].overtaken /\ touch'[w] \in Locals
  <2>1. touch'[w] = [touch[w] EXCEPT !.pc = "merge", !.seen = SummaryOf(s), !.behind = {}, !.overtaken = FALSE]
    BY <1>1
  <2>2. SummaryOf(s) \in Summaries
    BY <1>1, SummaryTyped
  <2>3. QED
    BY <1>3, <2>1, <2>2 DEF Locals, s
<1>5. ASSUME NEW v \in Writers \ {w}
      PROVE  /\ touch'[v].pc = touch[v].pc /\ touch'[v].session = touch[v].session /\ touch'[v].seen = touch[v].seen
             /\ touch'[v].overtaken = touch[v].overtaken /\ touch'[v] \in Locals
             /\ touch'[v].behind = touch[v].behind \cup (IF v \in Merging(s) THEN {w} ELSE {})
  <2>1. touch'[v] = IF v \in Merging(s) THEN [touch[v] EXCEPT !.behind = @ \cup {w}] ELSE touch[v]
    BY <1>1
  <2>2. QED
    BY <1>3, <2>1 DEF Locals
<1>6. touch' \in [Writers -> Locals]
  <2>1. \A v \in Writers : touch'[v] \in Locals
    BY <1>4, <1>5
  <2>2. \E f : touch' = [v \in Writers |-> f[v]]
    <3>1. touch' = [v \in Writers |-> touch'[v]]
      BY <1>1
    <3>2. QED
      BY <3>1
  <2>3. QED
    BY <2>1, <2>2
<1>7. /\ ProjectionsTypeOK' /\ CubeInv' /\ JobInv'
      /\ \A q : SummaryOf(q)' = SummaryOf(q)
  BY <1>1, <1>6, AllTyped, RecomputeKeeps
<1>8. TouchInv'
  BY <1>1, <1>2, <1>4, <1>5 DEF TouchInv
<1>9. \A v \in Writers : touch'[v].session = touch[v].session
  BY <1>4, <1>5 DEF s
<1>10. MergeInv'
  <2> SUFFICES ASSUME NEW v \in Writers, NEW q \in Sessions,
                      touch'[v].pc = "merge", touch'[v].session = q, ~touch'[v].overtaken
               PROVE  \/ touch'[v].seen = SummaryOf(q)'
                      \/ \E u \in Writers : touch'[u].session = q
                           /\ (touch'[u].pc = "touch" \/ (touch'[u].pc = "merge" /\ u \in touch'[v].behind))
    BY DEF MergeInv
  <2>1. CASE v = w
    BY <1>4, <1>7, <2>1
  <2>2. CASE v # w
    <3>1. CASE touch[v].seen = SummaryOf(q)
      BY <1>5, <1>7, <2>2, <3>1
    <3>2. CASE touch[v].seen # SummaryOf(q)
      <4>1. PICK u \in Writers : touch[u].session = q
                           /\ (touch[u].pc = "touch" \/ (touch[u].pc = "merge" /\ u \in touch[v].behind))
        BY <1>1, <1>5, <2>2, <3>2 DEF MergeInv
      <4>2. CASE u = w
        <5>1. v \in Merging(s)
          BY <1>5, <2>2, <4>1, <4>2 DEF Merging, s
        <5>2. QED
          BY <1>4, <1>5, <2>2, <4>1, <4>2, <5>1 DEF s
      <4>3. CASE u # w
        BY <1>5, <2>2, <4>1, <4>3
      <4>4. QED
        BY <4>2, <4>3
    <3>3. QED
      BY <3>1, <3>2
  <2>3. QED
    BY <2>1, <2>2
<1>11. SummaryInv'
  BY <1>1, <1>7, <1>9 DEF SummaryInv, Touched
<1>12. QED
  BY <1>7, <1>8, <1>10, <1>11 DEF ProjectionsInv

LEMMA MergeWriteKeeps ==
  ASSUME ProjectionsInv, NEW w \in Writers, MergeWrite(w)
  PROVE  ProjectionsInv'
<1> DEFINE s == touch[w].session
<1>1. /\ ProjectionsTypeOK /\ TouchInv /\ MergeInv /\ SummaryInv /\ touch[w].pc = "merge"
      /\ summaries' = [summaries EXCEPT ![s] = touch[w].seen]
      /\ doubt' = (IF touch[w].overtaken THEN doubt \cup {s} ELSE doubt \ {s})
      /\ touch' = Overtake(s, {w}) /\ job' = Since(s)
      /\ UNCHANGED <<stored, cube, drift>>
  BY DEF ProjectionsInv, MergeWrite, Merged
<1>2. s \in Sessions
  BY <1>1 DEF TouchInv
<1> HIDE DEF s
<1>3. \A v \in Writers : touch[v] \in Locals
  BY <1>1, AllTyped
<1>4. touch'[w] = Idle
  BY <1>1 DEF Overtake
<1>5. ASSUME NEW v \in Writers \ {w}
      PROVE  /\ touch'[v].pc = touch[v].pc /\ touch'[v].session = touch[v].session /\ touch'[v].seen = touch[v].seen
             /\ touch'[v] \in Locals
             /\ touch'[v].behind = touch[v].behind \ (IF v \in Merging(s) THEN {w} ELSE {})
             /\ touch'[v].overtaken = (touch[v].overtaken \/ (v \in Merging(s) /\ w \in touch[v].behind))
  <2>1. touch'[v] = IF v \in Merging(s)
                    THEN [touch[v] EXCEPT !.overtaken = @ \/ touch[v].behind \cap {w} # {}, !.behind = @ \ {w}]
                    ELSE touch[v]
    BY <1>1 DEF Overtake
  <2>2. CASE v \in Merging(s)
    <3>1. touch'[v] = [touch[v] EXCEPT !.overtaken = touch[v].overtaken \/ touch[v].behind \cap {w} # {},
                                       !.behind = touch[v].behind \ {w}]
      BY <1>3, <2>1, <2>2 DEF Locals
    <3>2. (touch[v].overtaken \/ touch[v].behind \cap {w} # {}) \in BOOLEAN /\ touch[v].behind \ {w} \in SUBSET Writers
      BY <1>3 DEF Locals
    <3>3. touch'[v].overtaken = (touch[v].overtaken \/ touch[v].behind \cap {w} # {})
          /\ touch'[v].behind = touch[v].behind \ {w} /\ touch'[v].pc = touch[v].pc
          /\ touch'[v].session = touch[v].session /\ touch'[v].seen = touch[v].seen
      BY <1>3, <3>1 DEF Locals
    <3>4. touch'[v] \in Locals
      BY <1>3, <3>1, <3>2 DEF Locals
    <3>5. touch[v].behind \cap {w} # {} <=> w \in touch[v].behind
      OBVIOUS
    <3>6. QED
      BY <2>2, <3>3, <3>4, <3>5
  <2>3. CASE v \notin Merging(s)
    <3>1. touch'[v] = touch[v] /\ touch[v].overtaken \in BOOLEAN
      BY <1>3, <2>1, <2>3 DEF Locals
    <3>2. QED
      BY <1>3, <2>3, <3>1
  <2>4. QED
    BY <2>2, <2>3
<1>6. touch' \in [Writers -> Locals]
  <2>1. \A v \in Writers : touch'[v] \in Locals
    BY <1>4, <1>5, <1>2, TouchingTyped
  <2>2. touch' = [v \in Writers |-> touch'[v]]
    BY <1>1 DEF Overtake
  <2>3. QED
    BY <2>1, <2>2
<1>7. /\ job' \in Jobs /\ job'.pc = job.pc /\ job'.of = job.of /\ job'.wrote = job.wrote
      /\ job'.summaries = job.summaries /\ job'.cube = job.cube /\ job'.count = job.count /\ job'.ok = job.ok
      /\ job'.since = IF job.pc = "read" /\ job.of = "sessions" THEN job.since \cup {s} ELSE job.since
  BY <1>1, <1>2, SinceTyped
<1>8. /\ summaries \in [Sessions -> Summaries] /\ summaries' \in [Sessions -> Summaries] /\ doubt' \in SUBSET Sessions
      /\ summaries'[s] = touch[w].seen /\ \A q \in Sessions \ {s} : summaries'[q] = summaries[q]
  <2>1. touch[w].seen \in Summaries
    BY <1>1, LocalTyped
  <2>2. QED
    BY <1>1, <1>2, <2>1, AllTyped
<1>9. /\ ProjectionsTypeOK' /\ CubeInv' /\ JobInv'
      /\ \A q : SummaryOf(q)' = SummaryOf(q)
  BY <1>1, <1>6, <1>7, <1>8, RecomputeKeeps
<1>10. TouchInv'
  <2>1. Idle.pc = "idle" /\ Idle.session = NoSession /\ Idle.behind = {}
    BY <1>2, TouchingTyped
  <2>2. ASSUME NEW v \in Writers \ {w}
        PROVE  /\ touch'[v].pc = "idle" => touch'[v].session = NoSession
               /\ touch'[v].pc # "idle" => touch'[v].session \in Sessions
               /\ v \notin touch'[v].behind
    <3>1. v \notin touch[v].behind /\ touch'[v].behind \subseteq touch[v].behind
      BY <1>1, <1>5 DEF TouchInv
    <3>2. QED
      BY <1>1, <1>5, <3>1 DEF TouchInv
  <2>3. QED
    BY <1>4, <2>1, <2>2 DEF TouchInv
<1>11. Idle.pc = "idle" /\ Idle.session = NoSession /\ NoSession \notin Sessions
  BY <1>2, TouchingTyped, Instance
<1>12. MergeInv'
  <2> SUFFICES ASSUME NEW v \in Writers, NEW q \in Sessions,
                      touch'[v].pc = "merge", touch'[v].session = q, ~touch'[v].overtaken
               PROVE  \/ touch'[v].seen = SummaryOf(q)'
                      \/ \E u \in Writers : touch'[u].session = q
                           /\ (touch'[u].pc = "touch" \/ (touch'[u].pc = "merge" /\ u \in touch'[v].behind))
    BY DEF MergeInv
  <2>1. v # w /\ touch[v].pc = "merge" /\ touch[v].session = q /\ ~touch[v].overtaken
    BY <1>4, <1>5, <1>11
  <2>2. CASE touch[v].seen = SummaryOf(q)
    BY <1>5, <1>9, <2>1, <2>2
  <2>3. CASE touch[v].seen # SummaryOf(q)
    <3>1. PICK u \in Writers : touch[u].session = q
                         /\ (touch[u].pc = "touch" \/ (touch[u].pc = "merge" /\ u \in touch[v].behind))
      BY <1>1, <2>1, <2>3 DEF MergeInv
    <3>2. u # w
      <4>1. SUFFICES ASSUME u = w PROVE FALSE
        OBVIOUS
      <4>2. v \in Merging(s) /\ w \in touch[v].behind
        BY <1>1, <2>1, <3>1, <4>1 DEF Merging, s
      <4>3. QED
        BY <1>5, <2>1, <4>2
    <3>3. u \in touch[v].behind => u \in touch'[v].behind
      BY <1>5, <2>1, <3>2
    <3>4. QED
      BY <1>5, <3>1, <3>2, <3>3
  <2>4. QED
    BY <2>2, <2>3
<1>13. ASSUME NEW q \in Sessions \ {s}, Touched(q) PROVE Touched(q)'
  <2>1. PICK u \in Writers : touch[u].session = q
    BY <1>13 DEF Touched
  <2>2. u # w
    BY <1>13, <2>1 DEF s
  <2>3. QED
    BY <1>5, <2>1, <2>2 DEF Touched
<1>14. ASSUME ~touch[w].overtaken
       PROVE  (\E u \in Writers : touch'[u].session = s) \/ touch[w].seen = SummaryOf(s)
  <2>1. SUFFICES ASSUME touch[w].seen # SummaryOf(s) PROVE \E u \in Writers : touch'[u].session = s
    OBVIOUS
  <2>2. PICK u \in Writers : touch[u].session = s
                       /\ (touch[u].pc = "touch" \/ (touch[u].pc = "merge" /\ u \in touch[w].behind))
    BY <1>1, <1>2, <1>14, <2>1 DEF MergeInv, s
  <2>3. u # w
    BY <1>1, <2>2 DEF TouchInv
  <2>4. QED
    BY <1>5, <2>2, <2>3
<1>15. SummaryInv'
  <2>1. ASSUME NEW q \in Sessions \ doubt' PROVE Touched(q)' \/ summaries'[q] = SummaryOf(q)'
    <3>1. CASE q = s
      <4>1. ~touch[w].overtaken /\ summaries'[q] = touch[w].seen /\ SummaryOf(q)' = SummaryOf(q)
        BY <1>1, <1>8, <1>9, <2>1, <3>1
      <4>2. QED
        BY <1>14, <3>1, <4>1 DEF Touched
    <3>2. CASE q # s
      BY <1>1, <1>8, <1>9, <1>13, <2>1, <3>2 DEF SummaryInv
    <3>3. QED
      BY <3>1, <3>2
  <2>2. ASSUME job'.pc = "read", job'.of = "sessions", NEW q \in Sessions \ job'.since
        PROVE  Touched(q)' \/ job'.summaries[q] = SummaryOf(q)'
    BY <1>1, <1>7, <1>9, <1>13, <2>2 DEF SummaryInv
  <2>3. QED
    BY <2>1, <2>2 DEF SummaryInv
<1>16. QED
  BY <1>9, <1>10, <1>12, <1>15 DEF ProjectionsInv

LEMMA MergeRacedKeeps ==
  ASSUME ProjectionsInv, NEW w \in Writers, MergeRaced(w)
  PROVE  ProjectionsInv'
<1> DEFINE s == touch[w].session
<1>1. /\ ProjectionsTypeOK /\ TouchInv /\ MergeInv /\ SummaryInv /\ touch[w].pc = "merge"
      /\ touch' = [touch EXCEPT ![w] = Touching(s)] /\ UNCHANGED <<stored, cube, summaries, job, doubt, drift>>
  BY DEF ProjectionsInv, MergeRaced, stores
<1>2. s \in Sessions /\ s # NoSession
  BY <1>1, Instance DEF TouchInv
<1> HIDE DEF s
<1>3. touch \in [Writers -> Locals] /\ Touching(s) \in Locals
  BY <1>1, <1>2, AllTyped, TouchingTyped
<1>4. /\ touch' \in [Writers -> Locals] /\ touch'[w].session = s /\ touch'[w].pc = "touch" /\ touch'[w].behind = {}
      /\ \A v \in Writers \ {w} : touch'[v] = touch[v]
  BY <1>1, <1>2, <1>3, TouchingTyped
<1>5. /\ ProjectionsTypeOK' /\ CubeInv' /\ JobInv'
      /\ \A q : SummaryOf(q)' = SummaryOf(q)
  BY <1>1, <1>4, AllTyped, RecomputeKeeps
<1>6. TouchInv'
  BY <1>1, <1>2, <1>4 DEF TouchInv
<1>7. \A v \in Writers : touch'[v].session = touch[v].session
  BY <1>4 DEF s
<1>8. MergeInv'
  BY <1>1, <1>4, <1>5, <1>7 DEF MergeInv
<1>9. SummaryInv'
  BY <1>1, <1>5, <1>7 DEF SummaryInv, Touched
<1>10. QED
  BY <1>5, <1>6, <1>8, <1>9 DEF ProjectionsInv

LEMMA TouchLostKeeps ==
  ASSUME ProjectionsInv, NEW w \in Writers, TouchLost(w)
  PROVE  ProjectionsInv'
<1> DEFINE s == touch[w].session
<1>1. /\ ProjectionsTypeOK /\ TouchInv /\ MergeInv /\ SummaryInv /\ touch[w].pc # "idle"
      /\ doubt' = doubt \cup {s} /\ job' = Since(s)
      /\ touch' = [v \in Writers |-> IF v = w THEN Idle
                                     ELSE IF v \in Merging(s) THEN [touch[v] EXCEPT !.overtaken = TRUE]
                                     ELSE touch[v]]
      /\ UNCHANGED <<stored, cube, summaries, drift>>
  BY DEF ProjectionsInv, TouchLost, stores
<1>2. s \in Sessions
  BY <1>1 DEF TouchInv
<1> HIDE DEF s
<1>3. \A v \in Writers : touch[v] \in Locals
  BY <1>1, AllTyped
<1>4. touch'[w] = Idle /\ Idle \in Locals /\ Idle.pc = "idle" /\ Idle.session = NoSession /\ Idle.behind = {}
      /\ NoSession \notin Sessions
  BY <1>1, <1>2, TouchingTyped, Instance
<1>5. ASSUME NEW v \in Writers \ {w}
      PROVE  /\ touch'[v].pc = touch[v].pc /\ touch'[v].session = touch[v].session /\ touch'[v].seen = touch[v].seen
             /\ touch'[v] \in Locals /\ touch'[v].behind = touch[v].behind
             /\ touch'[v].overtaken = (touch[v].overtaken \/ v \in Merging(s))
  <2>1. touch'[v] = IF v \in Merging(s) THEN [touch[v] EXCEPT !.overtaken = TRUE] ELSE touch[v]
    BY <1>1
  <2>2. QED
    BY <1>3, <2>1 DEF Locals
<1>6. touch' \in [Writers -> Locals]
  <2>1. \A v \in Writers : touch'[v] \in Locals
    BY <1>4, <1>5
  <2>2. touch' = [v \in Writers |-> touch'[v]]
    BY <1>1
  <2>3. QED
    BY <2>1, <2>2
<1>7. /\ job' \in Jobs /\ job'.pc = job.pc /\ job'.of = job.of /\ job'.wrote = job.wrote
      /\ job'.summaries = job.summaries /\ job'.cube = job.cube /\ job'.count = job.count /\ job'.ok = job.ok
      /\ job'.since = IF job.pc = "read" /\ job.of = "sessions" THEN job.since \cup {s} ELSE job.since
  BY <1>1, <1>2, SinceTyped
<1>8. /\ ProjectionsTypeOK' /\ CubeInv' /\ JobInv'
      /\ \A q : SummaryOf(q)' = SummaryOf(q)
  BY <1>1, <1>2, <1>6, <1>7, AllTyped, RecomputeKeeps
<1>9. TouchInv'
  BY <1>1, <1>4, <1>5 DEF TouchInv
<1>10. ASSUME NEW v \in Writers, NEW q \in Sessions,
              touch'[v].pc = "merge", touch'[v].session = q, ~touch'[v].overtaken
       PROVE  v # w /\ touch[v].pc = "merge" /\ touch[v].session = q /\ ~touch[v].overtaken /\ q # s
  BY <1>3, <1>4, <1>5, <1>10 DEF Merging, Locals
<1>11. ASSUME NEW q \in Sessions \ {s}, NEW u \in Writers, touch[u].session = q
       PROVE  u # w
  BY <1>11 DEF s
<1>12. MergeInv'
  <2> SUFFICES ASSUME NEW v \in Writers, NEW q \in Sessions,
                      touch'[v].pc = "merge", touch'[v].session = q, ~touch'[v].overtaken
               PROVE  \/ touch'[v].seen = SummaryOf(q)'
                      \/ \E u \in Writers : touch'[u].session = q
                           /\ (touch'[u].pc = "touch" \/ (touch'[u].pc = "merge" /\ u \in touch'[v].behind))
    BY DEF MergeInv
  <2>1. v # w /\ touch[v].pc = "merge" /\ touch[v].session = q /\ ~touch[v].overtaken /\ q # s
    BY <1>10
  <2>2. CASE touch[v].seen = SummaryOf(q)
    BY <1>5, <1>8, <2>1, <2>2
  <2>3. CASE touch[v].seen # SummaryOf(q)
    <3>1. PICK u \in Writers : touch[u].session = q
                         /\ (touch[u].pc = "touch" \/ (touch[u].pc = "merge" /\ u \in touch[v].behind))
      BY <1>1, <2>1, <2>3 DEF MergeInv
    <3>2. u # w
      BY <1>11, <2>1, <3>1
    <3>3. QED
      BY <1>5, <2>1, <3>1, <3>2
  <2>4. QED
    BY <2>2, <2>3
<1>13. ASSUME NEW q \in Sessions \ {s}, Touched(q) PROVE Touched(q)'
  BY <1>5, <1>11, <1>13 DEF Touched
<1>14. SummaryInv'
  <2>1. ASSUME NEW q \in Sessions \ doubt' PROVE Touched(q)' \/ summaries'[q] = SummaryOf(q)'
    BY <1>1, <1>8, <1>13, <2>1 DEF SummaryInv
  <2>2. ASSUME job'.pc = "read", job'.of = "sessions", NEW q \in Sessions \ job'.since
        PROVE  Touched(q)' \/ job'.summaries[q] = SummaryOf(q)'
    BY <1>1, <1>7, <1>8, <1>13, <2>2 DEF SummaryInv
  <2>3. QED
    BY <2>1, <2>2 DEF SummaryInv
<1>15. QED
  BY <1>8, <1>9, <1>12, <1>14 DEF ProjectionsInv

-----------------------------------------------------------------------------
(* Jobs. *)

LEMMA NoJobTyped ==
  NoJob \in Jobs /\ NoJob.wrote = {} /\ NoJob.pc = "idle"
<1>1. NoSummary \in Summaries
  BY Instance DEF NoSummary, Summaries
<1>2. /\ [u \in Tuples |-> 0] \in [Tuples -> Nat] /\ [s \in Sessions |-> NoSummary] \in [Sessions -> Summaries]
      /\ 0 \in 0..NTraces
  BY <1>1, Instance
<1> DEFINE zero == [u \in Tuples |-> 0]
           none == [s \in Sessions |-> NoSummary]
<1>3. NoJob = [pc |-> "idle", of |-> "cube", count |-> 0, moved |-> {}, cube |-> zero, summaries |-> none,
               since |-> {}, wrote |-> {}, ok |-> FALSE]
  BY DEF NoJob
<1>4. zero \in [Tuples -> Nat] /\ none \in [Sessions -> Summaries]
  BY <1>2
<1> HIDE DEF zero, none
<1>5. QED
  BY <1>2, <1>3, <1>4 DEF Jobs

\* A step of the job reads the archive and touches no writer.
LEMMA JobLeaves ==
  ASSUME ProjectionsInv, UNCHANGED <<stored, touch>>, job' \in Jobs,
         cube' \in [Tuples -> Nat], summaries' \in [Sessions -> Summaries],
         doubt' \in SUBSET Sessions, drift' \in SUBSET {"insert", "attribution"}
  PROVE  /\ ProjectionsTypeOK' /\ TouchInv' /\ MergeInv'
         /\ StoredCount' = StoredCount /\ StoredCount \in Nat /\ CubeOf(stored') = CubeOf(stored)
         /\ \A s : SummaryOf(s)' = SummaryOf(s)
         /\ \A s \in Sessions : Touched(s)' <=> Touched(s)
<1>1. \A s : SummaryOf(s)' = SummaryOf(s)
  BY SummaryUnmoved
<1>2. StoredCount' = StoredCount /\ StoredCount \in Nat
  BY StoredTyped DEF IsStored
<1>3. stored' = stored /\ touch' = touch
  OBVIOUS
<1>4. CubeOf(stored') = CubeOf(stored) /\ \A s \in Sessions : Touched(s)' <=> Touched(s)
  BY <1>3 DEF Touched
<1>5. ProjectionsTypeOK'
  BY <1>3, AllTyped DEF ProjectionsInv, ProjectionsTypeOK, TraceDocs, Locals, Jobs
<1>6. TouchInv'
  BY <1>3 DEF ProjectionsInv, TouchInv
<1>7. MergeInv'
  BY <1>1, <1>3 DEF ProjectionsInv, MergeInv
<1>8. QED
  BY <1>1, <1>2, <1>4, <1>5, <1>6, <1>7

LEMMA AdvanceWatermarkKeeps ==
  ASSUME ProjectionsInv, NEW w \in Writers, AdvanceWatermark(w)
  PROVE  ProjectionsInv'
<1>1. /\ ProjectionsTypeOK /\ job' = [job EXCEPT !.moved = @ \cup {WorkerKey}]
      /\ UNCHANGED <<stored, cube, summaries, touch, doubt, drift>>
  BY DEF ProjectionsInv, AdvanceWatermark, stores
<1>2. /\ job' \in Jobs /\ job'.pc = job.pc /\ job'.of = job.of /\ job'.wrote = job.wrote /\ job'.ok = job.ok
      /\ job'.count = job.count /\ job'.cube = job.cube /\ job'.summaries = job.summaries /\ job'.since = job.since
  <2>1. job \in Jobs
    BY <1>1, AllTyped
  <2>2. job.moved \cup {WorkerKey} \in SUBSET {WorkerKey, GuardKey}
    BY <2>1 DEF Jobs
  <2>3. QED
    BY <1>1, <2>1, <2>2 DEF Jobs
<1>3. /\ ProjectionsTypeOK' /\ TouchInv' /\ MergeInv'
      /\ StoredCount' = StoredCount /\ CubeOf(stored') = CubeOf(stored)
      /\ \A s : SummaryOf(s)' = SummaryOf(s)
      /\ \A s \in Sessions : Touched(s)' <=> Touched(s)
  BY <1>1, <1>2, AllTyped, JobLeaves
<1>4. CubeInv' /\ JobInv'
  BY <1>1, <1>2, <1>3 DEF ProjectionsInv, CubeInv, JobInv
<1>5. SummaryInv'
  BY <1>1, <1>2, <1>3 DEF ProjectionsInv, SummaryInv
<1>6. QED
  BY <1>3, <1>4, <1>5 DEF ProjectionsInv

LEMMA SampleKeeps ==
  ASSUME ProjectionsInv, NEW kind \in {"cube", "sessions"}, Sample(kind)
  PROVE  ProjectionsInv'
<1>1. /\ ProjectionsTypeOK /\ job' = [NoJob EXCEPT !.pc = "sampled", !.of = kind, !.count = StoredCount]
      /\ UNCHANGED <<stored, cube, summaries, touch, doubt, drift>>
  BY DEF ProjectionsInv, Sample, stores
<1>2. job' \in Jobs /\ job'.pc = "sampled" /\ job'.count = StoredCount /\ job'.wrote = {}
  <2>1. StoredCount \in 0..NTraces
    BY StoredTyped
  <2>2. QED
    BY <1>1, <2>1, NoJobTyped DEF Jobs
<1>3. /\ ProjectionsTypeOK' /\ TouchInv' /\ MergeInv'
      /\ StoredCount' = StoredCount /\ StoredCount \in Nat /\ CubeOf(stored') = CubeOf(stored)
      /\ \A s : SummaryOf(s)' = SummaryOf(s)
      /\ \A s \in Sessions : Touched(s)' <=> Touched(s)
  BY <1>1, <1>2, AllTyped, JobLeaves
<1>4. CubeInv' /\ JobInv'
  BY <1>1, <1>2, <1>3 DEF ProjectionsInv, CubeInv, JobInv
<1>5. SummaryInv'
  BY <1>1, <1>2, <1>3 DEF ProjectionsInv, SummaryInv
<1>6. QED
  BY <1>3, <1>4, <1>5 DEF ProjectionsInv

LEMMA JobDiesKeeps ==
  ASSUME ProjectionsInv, JobDies
  PROVE  ProjectionsInv'
<1>1. /\ ProjectionsTypeOK /\ job' = NoJob
      /\ UNCHANGED <<stored, cube, summaries, touch, doubt, drift>>
  BY DEF ProjectionsInv, JobDies, stores
<1>2. job' \in Jobs /\ job'.pc = "idle" /\ job'.wrote = {}
  BY <1>1, NoJobTyped
<1>3. /\ ProjectionsTypeOK' /\ TouchInv' /\ MergeInv'
      /\ StoredCount' = StoredCount /\ StoredCount \in Nat /\ CubeOf(stored') = CubeOf(stored)
      /\ \A s : SummaryOf(s)' = SummaryOf(s)
      /\ \A s \in Sessions : Touched(s)' <=> Touched(s)
  BY <1>1, <1>2, AllTyped, JobLeaves
<1>4. CubeInv' /\ JobInv'
  BY <1>1, <1>2, <1>3 DEF ProjectionsInv, CubeInv, JobInv
<1>5. SummaryInv'
  BY <1>1, <1>2, <1>3 DEF ProjectionsInv, SummaryInv
<1>6. QED
  BY <1>3, <1>4, <1>5 DEF ProjectionsInv

LEMMA AggregateKeeps ==
  ASSUME ProjectionsInv, Aggregate
  PROVE  ProjectionsInv'
<1>1. /\ ProjectionsTypeOK /\ CubeInv /\ JobInv /\ SummaryInv /\ job.pc = "sampled"
      /\ job' = (IF job.of = "cube" THEN [job EXCEPT !.pc = "read", !.cube = CubeOf(stored)]
                 ELSE [job EXCEPT !.pc = "read", !.summaries = [s \in Sessions |-> SummaryOf(s)]])
      /\ UNCHANGED <<stored, cube, summaries, touch, doubt, drift>>
  BY DEF ProjectionsInv, Aggregate, stores
<1>2. job \in Jobs /\ job.wrote = {} /\ job.count <= StoredCount
  BY <1>1, AllTyped DEF JobInv
<1>3. /\ job' \in Jobs /\ job'.pc = "read" /\ job'.of = job.of /\ job'.wrote = {} /\ job'.count = job.count
      /\ job.of = "cube" => job'.cube = CubeOf(stored)
      /\ job.of = "sessions" => \A s \in Sessions : job'.summaries[s] = SummaryOf(s)
  <2> DEFINE all == [s \in Sessions |-> SummaryOf(s)]
  <2>1. CubeOf(stored) \in [Tuples -> Nat] /\ all \in [Sessions -> Summaries]
    BY <1>1, CubeTyped, SummaryTyped
  <2>2. \A s \in Sessions : all[s] = SummaryOf(s)
    OBVIOUS
  <2>3. job' = (IF job.of = "cube" THEN [job EXCEPT !.pc = "read", !.cube = CubeOf(stored)]
                ELSE [job EXCEPT !.pc = "read", !.summaries = all])
    BY <1>1
  <2> HIDE DEF all
  <2>4. CASE job.of = "cube"
    BY <1>2, <2>1, <2>3, <2>4 DEF Jobs
  <2>5. CASE job.of # "cube"
    BY <1>2, <2>1, <2>2, <2>3, <2>5 DEF Jobs
  <2>6. QED
    BY <2>4, <2>5
<1>4. /\ ProjectionsTypeOK' /\ TouchInv' /\ MergeInv'
      /\ StoredCount' = StoredCount /\ StoredCount \in Nat /\ CubeOf(stored') = CubeOf(stored)
      /\ \A s : SummaryOf(s)' = SummaryOf(s)
      /\ \A s \in Sessions : Touched(s)' <=> Touched(s)
  BY <1>1, <1>3, AllTyped, JobLeaves
<1>5. CubeTotal(CubeOf(stored)) = StoredCount
  BY <1>1, TotalOfArchive
<1>6. CubeInv' /\ JobInv'
  <2>1. job'.of = "cube" => CubeTotal(job'.cube) = StoredCount'
    BY <1>3, <1>4, <1>5
  <2>2. CubeInv'
    BY <1>1, <1>3, <1>4, <2>1 DEF CubeInv
  <2>3. JobInv'
    BY <1>2, <1>3, <1>4 DEF JobInv
  <2>4. QED
    BY <2>2, <2>3
<1>7. SummaryInv'
  BY <1>1, <1>3, <1>4 DEF SummaryInv
<1>8. QED
  BY <1>4, <1>6, <1>7 DEF ProjectionsInv

LEMMA SwapKeeps ==
  ASSUME ProjectionsInv, Swap
  PROVE  ProjectionsInv'
<1>1. /\ ProjectionsTypeOK /\ CubeInv /\ JobInv /\ SummaryInv /\ job.pc = "read"
      /\ job' = [job EXCEPT !.pc = "swapped", !.cube = NoJob.cube, !.summaries = NoJob.summaries, !.since = {}]
      /\ (IF job.of = "cube"
          THEN cube' = job.cube /\ drift' = job.wrote /\ UNCHANGED <<summaries, doubt>>
          ELSE summaries' = job.summaries /\ doubt' = job.since /\ UNCHANGED <<cube, drift>>)
      /\ UNCHANGED <<stored, touch>>
  BY DEF ProjectionsInv, Swap
<1>2. job \in Jobs /\ NoJob \in Jobs
  BY <1>1, AllTyped, NoJobTyped
<1>3. job' \in Jobs /\ job'.pc = "swapped" /\ job'.wrote = job.wrote /\ job'.count = job.count
  BY <1>1, <1>2 DEF Jobs
<1>4. /\ cube' \in [Tuples -> Nat] /\ summaries' \in [Sessions -> Summaries]
      /\ doubt' \in SUBSET Sessions /\ drift' \in SUBSET {"insert", "attribution"}
  BY <1>1, <1>2, AllTyped DEF Jobs
<1>5. /\ ProjectionsTypeOK' /\ TouchInv' /\ MergeInv'
      /\ StoredCount' = StoredCount /\ StoredCount \in Nat /\ CubeOf(stored') = CubeOf(stored)
      /\ \A s : SummaryOf(s)' = SummaryOf(s)
      /\ \A s \in Sessions : Touched(s)' <=> Touched(s)
  BY <1>1, <1>3, <1>4, JobLeaves
<1>6. CubeInv'
  <2>1. CASE job.of = "cube"
    BY <1>1, <1>3, <1>5, <2>1 DEF CubeInv
  <2>2. CASE job.of # "cube"
    BY <1>1, <1>3, <1>5, <2>2 DEF CubeInv
  <2>3. QED
    BY <2>1, <2>2
<1>7. JobInv'
  BY <1>1, <1>3, <1>5 DEF JobInv
<1>8. SummaryInv'
  <2>1. CASE job.of = "cube"
    BY <1>1, <1>3, <1>5, <2>1 DEF SummaryInv
  <2>2. CASE job.of # "cube"
    <3>1. job.of = "sessions"
      BY <1>2, <2>2 DEF Jobs
    <3>2. QED
      BY <1>1, <1>3, <1>5, <3>1 DEF SummaryInv
  <2>3. QED
    BY <2>1, <2>2
<1>9. QED
  BY <1>5, <1>6, <1>7, <1>8 DEF ProjectionsInv

LEMMA VerifyKeeps ==
  ASSUME ProjectionsInv, Verify
  PROVE  ProjectionsInv'
<1>1. /\ ProjectionsTypeOK /\ JobInv /\ job.pc = "swapped"
      /\ job' = [NoJob EXCEPT !.pc = "done", !.of = job.of, !.wrote = job.wrote, !.ok = Unmoved]
      /\ UNCHANGED <<stored, cube, summaries, touch, doubt, drift>>
  BY DEF ProjectionsInv, Verify, stores
<1>2. job \in Jobs /\ NoJob \in Jobs /\ Unmoved \in BOOLEAN
  BY <1>1, AllTyped, NoJobTyped DEF Unmoved
<1>3. job' \in Jobs /\ job'.pc = "done" /\ job'.wrote = job.wrote /\ job'.ok = Unmoved
  BY <1>1, <1>2 DEF Jobs
<1>4. /\ ProjectionsTypeOK' /\ TouchInv' /\ MergeInv'
      /\ StoredCount' = StoredCount /\ StoredCount \in Nat /\ CubeOf(stored') = CubeOf(stored)
      /\ \A s : SummaryOf(s)' = SummaryOf(s)
      /\ \A s \in Sessions : Touched(s)' <=> Touched(s)
  BY <1>1, <1>3, AllTyped, JobLeaves
<1>5. CubeInv'
  BY <1>1, <1>3, <1>4 DEF ProjectionsInv, CubeInv
<1>6. JobInv'
  <2>1. Unmoved => "insert" \notin job.wrote
    BY <1>1, <1>4 DEF Unmoved, JobInv
  <2>2. QED
    BY <1>3, <2>1 DEF JobInv
<1>7. SummaryInv'
  BY <1>1, <1>3, <1>4 DEF ProjectionsInv, SummaryInv
<1>8. QED
  BY <1>4, <1>5, <1>6, <1>7 DEF ProjectionsInv

-----------------------------------------------------------------------------
LEMMA ProjectionsInitInv ==
  ASSUME ProjectionsInit
  PROVE  ProjectionsInv
<1>1. /\ stored = [t \in Traces |-> Absent] /\ cube = [u \in Tuples |-> 0]
      /\ summaries = [s \in Sessions |-> NoSummary] /\ touch = [w \in Writers |-> Idle]
      /\ job = NoJob /\ doubt = {} /\ drift = {}
  BY DEF ProjectionsInit
<1>2. ProjectionsTypeOK
  <2>1. /\ stored \in [Traces -> TraceDocs] /\ cube \in [Tuples -> Nat] /\ job \in Jobs
        /\ doubt \in SUBSET Sessions /\ drift \in SUBSET {"insert", "attribution"}
    BY <1>1, NoJobTyped DEF TraceDocs
  <2>2. touch \in [Writers -> Locals]
    <3>1. Idle \in Locals
      BY TouchingTyped
    <3> HIDE DEF Idle
    <3>2. QED
      BY <1>1, <3>1
  <2>3. summaries \in [Sessions -> Summaries]
    <3>1. NoSummary \in Summaries
      BY Instance DEF NoSummary, Summaries
    <3>2. QED
      BY <1>1, <3>1
  <2>4. QED
    BY <2>1, <2>2, <2>3, AllTyped
<1>3. \A t \in Traces : ~IsStored(t) /\ stored[t].agent = NoSession
  BY <1>1 DEF IsStored, Absent
<1>4. cube = CubeOf(stored)
  <2>1. \A u \in Tuples : {t \in Traces : <<stored[t].agent, ChannelOf[t]>> = u} = {}
    BY <1>3, Instance DEF Tuples
  <2>2. QED
    BY <1>1, <2>1, FS_EmptySet DEF CubeOf
<1>5. CubeTotal(cube) = StoredCount /\ StoredCount \in Nat
  BY <1>2, <1>4, TotalOfArchive, StoredTyped
<1>6. CubeInv
  BY <1>1, <1>4, <1>5, NoJobTyped DEF CubeInv
<1>7. JobInv
  BY <1>1, NoJobTyped DEF JobInv
<1>8. \A w \in Writers : touch[w].pc = "idle" /\ touch[w].session = NoSession /\ touch[w].behind = {}
  BY <1>1 DEF Idle
<1>9. TouchInv /\ MergeInv
  BY <1>8 DEF TouchInv, MergeInv
<1>10. SummaryInv
  <2>1. \A s \in Sessions : SummaryOf(s) = NoSummary
    BY <1>3 DEF SummaryOf, Members
  <2>2. QED
    BY <1>1, <2>1, NoJobTyped DEF SummaryInv
<1>11. QED
  BY <1>2, <1>6, <1>7, <1>9, <1>10 DEF ProjectionsInv

LEMMA ProjectionsStep ==
  ASSUME ProjectionsInv, [ProjectionsNext]_projections
  PROVE  ProjectionsInv'
<1>1. CASE UNCHANGED projections
  <2>1. UNCHANGED <<stored, cube, summaries, touch, job, doubt, drift>>
    BY <1>1 DEF projections, stores
  <2>2. /\ ProjectionsTypeOK' /\ TouchInv' /\ MergeInv'
        /\ StoredCount' = StoredCount /\ CubeOf(stored') = CubeOf(stored)
        /\ \A s : SummaryOf(s)' = SummaryOf(s)
        /\ \A s \in Sessions : Touched(s)' <=> Touched(s)
    BY <2>1, AllTyped, JobLeaves DEF ProjectionsInv
  <2>3. CubeInv' /\ JobInv'
    BY <2>1, <2>2 DEF ProjectionsInv, CubeInv, JobInv
  <2>4. SummaryInv'
    BY <2>1, <2>2 DEF ProjectionsInv, SummaryInv
  <2>5. QED
    BY <2>2, <2>3, <2>4 DEF ProjectionsInv
<1>2. ASSUME NEW w \in Writers, NEW t \in Traces, NEW a \in Agents, InsertTrace(w, t, a) \/ Attribute(w, t, a)
      PROVE  ProjectionsInv'
  BY <1>2, InsertTraceKeeps, AttributeKeeps
<1>3. ASSUME NEW w \in Writers, NEW t \in Traces, StampTrace(w, t)
      PROVE  ProjectionsInv'
  BY <1>3, StampTraceKeeps
<1>4. ASSUME NEW w \in Writers,
             AdvanceWatermark(w) \/ MergeRead(w) \/ MergeWrite(w) \/ MergeRaced(w) \/ TouchLost(w)
      PROVE  ProjectionsInv'
  BY <1>4, AdvanceWatermarkKeeps, MergeReadKeeps, MergeWriteKeeps, MergeRacedKeeps, TouchLostKeeps
<1>5. ASSUME NEW kind \in {"cube", "sessions"}, Sample(kind)
      PROVE  ProjectionsInv'
  BY <1>5, SampleKeeps
<1>6. CASE Aggregate \/ Swap \/ Verify \/ JobDies
  BY <1>6, AggregateKeeps, SwapKeeps, VerifyKeeps, JobDiesKeeps
<1>7. QED
  BY <1>1, <1>2, <1>3, <1>4, <1>5, <1>6 DEF ProjectionsNext

LEMMA ProjectionsInvariant ==
  ProjectionsSpec => []ProjectionsInv
<1>1. ProjectionsInit => ProjectionsInv
  BY ProjectionsInitInv
<1>2. ProjectionsInv /\ [ProjectionsNext]_projections => ProjectionsInv'
  BY ProjectionsStep
<1>3. QED
  BY <1>1, <1>2, PTL DEF ProjectionsSpec

-----------------------------------------------------------------------------
LEMMA ListedSummaries ==
  ASSUME ProjectionsTypeOK, NEW s \in Sessions, NEW agents
  PROVE  {f.summary : f \in {g \in FindSessions(agents) : g.id = s}}
           = IF summaries[s] # NoSummary /\ summaries[s].agent \in agents THEN {summaries[s]} ELSE {}
<1>1. ASSUME NEW g \in FindSessions(agents), g.id = s
      PROVE  g.summary = summaries[s] /\ summaries[s] # NoSummary /\ summaries[s].agent \in agents
  BY <1>1 DEF FindSessions
<1>2. ASSUME summaries[s] # NoSummary, summaries[s].agent \in agents
      PROVE  \E g \in FindSessions(agents) : g.id = s /\ g.summary = summaries[s]
  <2>1. [id |-> s, summary |-> summaries[s]] \in FindSessions(agents)
    BY <1>2 DEF FindSessions
  <2>2. QED
    BY <2>1
<1>3. QED
  BY <1>1, <1>2

\* The chain starts where the members do.
LEMMA ChainStart ==
  ASSUME ProjectionsTypeOK, NEW s \in Sessions
  PROVE  LET chain == FindSessionDetail(s).chain IN
         /\ SummaryOf(s) # NoSummary <=> chain # {}
         /\ chain # {} => SummaryOf(s).agent = stored[Min(chain)].agent /\ SummaryOf(s).agent \in Agents
<1> DEFINE chain == {t \in Members(s) : Cardinality({u \in Members(s) : u < t}) < ChainLimit}
<1>1. FindSessionDetail(s).chain = chain
  BY DEF FindSessionDetail
<1>2. Members(s) \subseteq Nat /\ Members(s) \subseteq Traces
  BY Instance DEF Members, Traces
<1>3. CASE Members(s) = {}
  <2>1. chain = {} /\ SummaryOf(s) = NoSummary
    BY <1>3 DEF SummaryOf
  <2>2. QED
    BY <1>1, <2>1
<1>4. CASE Members(s) # {}
  <2> DEFINE m == Min(Members(s))
  <2>1. m \in Members(s) /\ m \in Nat /\ \A t \in Members(s) : m <= t
    BY <1>2, <1>4, MinOfNat
  <2>2. {u \in Members(s) : u < m} = {}
    BY <1>2, <2>1
  <2>3. m \in chain
    BY <2>1, <2>2, FS_EmptySet, Instance
  <2>4. Min(chain) = m
    <3>1. chain \in SUBSET Nat /\ chain \subseteq Members(s)
      BY <1>2
    <3> HIDE DEF chain, m
    <3>2. Min(chain) \in chain /\ \A t \in chain : Min(chain) <= t
      BY <2>3, <3>1, MinOfNat
    <3>3. Min(chain) <= m /\ m <= Min(chain) /\ Min(chain) \in Nat
      BY <2>1, <2>3, <3>1, <3>2
    <3>4. QED
      BY <2>1, <3>3
  <2>5. SummaryOf(s).agent = stored[m].agent /\ stored[m].agent \in Agents /\ NoSummary.agent = NoSession
    BY <1>4, <2>1, DocTyped DEF SummaryOf, Members, NoSummary
  <2>6. SummaryOf(s) # NoSummary
    BY <2>5, Instance
  <2>7. QED
    BY <1>1, <2>3, <2>4, <2>5, <2>6
<1>5. QED
  BY <1>3, <1>4

LEMMA InvMeansFresh ==
  ASSUME ProjectionsInv
  PROVE  SummaryFresh
<1> SUFFICES ASSUME NEW s \in Sessions \ doubt, \A w \in Writers : touch[w].session # s
    PROVE  LET detail == FindSessionDetail(s) IN
           /\ {f.summary : f \in {g \in FindSessions(Agents) : g.id = s}} = {detail.summary} \ {NoSummary}
           /\ \A a \in Agents : (\E f \in FindSessions({a}) : f.id = s) <=>
                                  detail.chain # {} /\ stored[Min(detail.chain)].agent = a
  BY DEF SummaryFresh
<1> DEFINE chain == FindSessionDetail(s).chain
<1>1. ProjectionsTypeOK /\ summaries[s] = SummaryOf(s) /\ FindSessionDetail(s).summary = SummaryOf(s)
  BY DEF ProjectionsInv, SummaryInv, Touched, FindSessionDetail
<1>2. /\ SummaryOf(s) # NoSummary <=> chain # {}
      /\ chain # {} => SummaryOf(s).agent = stored[Min(chain)].agent /\ SummaryOf(s).agent \in Agents
  BY <1>1, ChainStart
<1> HIDE DEF chain
<1>3. {f.summary : f \in {g \in FindSessions(Agents) : g.id = s}} = {SummaryOf(s)} \ {NoSummary}
  BY <1>1, <1>2, ListedSummaries
<1>4. ASSUME NEW a \in Agents
      PROVE  (\E f \in FindSessions({a}) : f.id = s) <=> chain # {} /\ stored[Min(chain)].agent = a
  <2>1. (\E f \in FindSessions({a}) : f.id = s) <=> {f.summary : f \in {g \in FindSessions({a}) : g.id = s}} # {}
    OBVIOUS
  <2>2. {f.summary : f \in {g \in FindSessions({a}) : g.id = s}}
          = IF summaries[s] # NoSummary /\ summaries[s].agent \in {a} THEN {summaries[s]} ELSE {}
    BY <1>1, ListedSummaries
  <2>3. QED
    BY <1>1, <1>2, <2>1, <2>2
<1>5. QED
  BY <1>1, <1>3, <1>4 DEF chain

-----------------------------------------------------------------------------
(* The facets. *)

Found(f) == {t \in Traces : Matches(f, t)}

LEMMA FilterTyped ==
  ASSUME NEW f \in Filters
  PROVE  /\ f.agents \subseteq Agents /\ f.channels \subseteq Channels \cup {NoChannel}
         /\ f = [agents |-> f.agents, channels |-> f.channels, search |-> f.search]
  BY DEF Filters, Everything

LEMMA FoundTyped ==
  ASSUME NEW f
  PROVE  Cardinality(Found(f)) \in Nat /\ (Cardinality(Found(f)) = 0 <=> Found(f) = {})
<1>1. Found(f) \in SUBSET Traces
  BY DEF Found
<1>2. QED
  BY <1>1, CountTyped

\* What an exact cube answers over a rectangle of tuples.
LEMMA RectangleCounts ==
  ASSUME ProjectionsTypeOK, cube = CubeOf(stored),
         NEW A \in SUBSET Agents, NEW C \in SUBSET (Channels \cup {NoChannel})
  PROVE  SumOver(cube, A \X C)
           = Cardinality({t \in Traces : IsStored(t) /\ stored[t].agent \in A /\ ChannelOf[t] \in C})
<1> DEFINE S == A \X C
           key == [t \in Traces |-> <<stored[t].agent, ChannelOf[t]>>]
<1>1. S \subseteq Tuples /\ IsFiniteSet(S)
  <2>1. S \subseteq Tuples
    BY DEF Tuples
  <2>2. QED
    BY <2>1, Instance, FS_Subset
<1>2. \A u \in S : cube[u] = Cardinality(WithKey(Traces, key, u))
  <2> SUFFICES ASSUME NEW u \in Tuples PROVE cube[u] = Cardinality(WithKey(Traces, key, u))
    BY <1>1
  <2>1. WithKey(Traces, key, u) = {t \in Traces : <<stored[t].agent, ChannelOf[t]>> = u}
    BY DEF WithKey
  <2>2. QED
    BY <2>1 DEF CubeOf
<1>3. {t \in Traces : key[t] \in S} = {t \in Traces : IsStored(t) /\ stored[t].agent \in A /\ ChannelOf[t] \in C}
  <2> SUFFICES ASSUME NEW t \in Traces
      PROVE  key[t] \in S <=> IsStored(t) /\ stored[t].agent \in A /\ ChannelOf[t] \in C
    OBVIOUS
  <2>1. key[t] \in S <=> stored[t].agent \in A /\ ChannelOf[t] \in C
    OBVIOUS
  <2>2. stored[t].agent \in A => IsStored(t)
    BY DocTyped, Instance
  <2>3. QED
    BY <2>1, <2>2
<1> HIDE DEF key, S
<1>4. Table(cube, S)[S] = Cardinality({t \in Traces : key[t] \in S})
  <2>1. IsFiniteSet(Traces)
    BY Instance
  <2>2. QED
    BY <1>1, <1>2, <2>1, SumOfCounts
<1>5. SumOver(cube, S) = Table(cube, S)[S]
  BY SumIsTable
<1>6. QED
  BY <1>3, <1>4, <1>5 DEF S

\* Each dropdown offers the values some trace has, with what picking them lists.
LEMMA OptionsAreWhatIf ==
  ASSUME ProjectionsTypeOK, cube = CubeOf(stored), NEW f \in Filters
  PROVE  /\ FilterOptions(f).agents =
              {[value |-> v, count |-> Cardinality(Found([f EXCEPT !.agents = {v}]))] :
                 v \in {u \in Agents : Cardinality(Found([f EXCEPT !.agents = {u}])) > 0}}
         /\ FilterOptions(f).channels =
              {[value |-> v, count |-> Cardinality(Found([f EXCEPT !.channels = {v}]))] :
                 v \in {u \in Channels : Cardinality(Found([f EXCEPT !.channels = {u}])) > 0}}
<1>1. CASE f.search # {}
  BY <1>1 DEF FilterOptions, FilterOptionsLive, Options, Found
<1>2. CASE f.search = {}
  <2>1. /\ f.agents \subseteq Agents /\ f.channels \subseteq Channels \cup {NoChannel}
        /\ f = [agents |-> f.agents, channels |-> f.channels, search |-> f.search]
    BY FilterTyped
  <2>2. ASSUME NEW v \in Agents
        PROVE  SumOver(cube, {v} \X f.channels) = Cardinality(Found([f EXCEPT !.agents = {v}]))
    <3>1. SumOver(cube, {v} \X f.channels)
            = Cardinality({t \in Traces : IsStored(t) /\ stored[t].agent \in {v} /\ ChannelOf[t] \in f.channels})
      <4>1. {v} \in SUBSET Agents /\ f.channels \in SUBSET (Channels \cup {NoChannel})
        BY <2>1
      <4>2. QED
        BY <4>1, RectangleCounts
    <3>2. Found([f EXCEPT !.agents = {v}])
            = {t \in Traces : IsStored(t) /\ stored[t].agent \in {v} /\ ChannelOf[t] \in f.channels}
      BY <1>2, <2>1 DEF Found, Matches
    <3>3. QED
      BY <3>1, <3>2
  <2>3. ASSUME NEW v \in Channels
        PROVE  SumOver(cube, f.agents \X {v}) = Cardinality(Found([f EXCEPT !.channels = {v}]))
    <3>1. SumOver(cube, f.agents \X {v})
            = Cardinality({t \in Traces : IsStored(t) /\ stored[t].agent \in f.agents /\ ChannelOf[t] \in {v}})
      <4>1. f.agents \in SUBSET Agents /\ {v} \in SUBSET (Channels \cup {NoChannel})
        BY <2>1
      <4>2. QED
        BY <4>1, RectangleCounts
    <3>2. Found([f EXCEPT !.channels = {v}])
            = {t \in Traces : IsStored(t) /\ stored[t].agent \in f.agents /\ ChannelOf[t] \in {v}}
      BY <1>2, <2>1 DEF Found, Matches
    <3>3. QED
      BY <3>1, <3>2
  <2>4. /\ FilterOptions(f).agents =
             {[value |-> v, count |-> SumOver(cube, {v} \X f.channels)] :
                v \in {x \in Agents : SumOver(cube, {x} \X f.channels) > 0}}
        /\ FilterOptions(f).channels =
             {[value |-> v, count |-> SumOver(cube, f.agents \X {v})] :
                v \in {x \in Channels : SumOver(cube, f.agents \X {x}) > 0}}
    BY <1>2 DEF FilterOptions, Options, SumOver
  <2> DEFINE OfAgent(v) == SumOver(cube, {v} \X f.channels)
             OfChannel(v) == SumOver(cube, f.agents \X {v})
             WithAgent(v) == Cardinality(Found([f EXCEPT !.agents = {v}]))
             WithChannel(v) == Cardinality(Found([f EXCEPT !.channels = {v}]))
  <2>5. \A v \in Agents : OfAgent(v) = WithAgent(v)
    BY <2>2
  <2>6. \A v \in Channels : OfChannel(v) = WithChannel(v)
    BY <2>3
  <2>7. /\ FilterOptions(f).agents =
             {[value |-> v, count |-> OfAgent(v)] : v \in {x \in Agents : OfAgent(x) > 0}}
        /\ FilterOptions(f).channels =
             {[value |-> v, count |-> OfChannel(v)] : v \in {x \in Channels : OfChannel(x) > 0}}
    BY <2>4
  <2> HIDE DEF OfAgent, OfChannel, WithAgent, WithChannel
  <2>8. /\ FilterOptions(f).agents =
             {[value |-> v, count |-> WithAgent(v)] : v \in {x \in Agents : WithAgent(x) > 0}}
        /\ FilterOptions(f).channels =
             {[value |-> v, count |-> WithChannel(v)] : v \in {x \in Channels : WithChannel(x) > 0}}
    BY <2>5, <2>6, <2>7
  <2>9. QED
    BY <2>8 DEF WithAgent, WithChannel
<1>3. QED
  BY <1>1, <1>2

LEMMA InvMeansExact ==
  ASSUME ProjectionsInv
  PROVE  CubeExact
<1>1. ProjectionsTypeOK /\ CubeInv /\ cube \in [Tuples -> Nat]
  BY AllTyped DEF ProjectionsInv
<1>2. ASSUME drift = {}, NEW f \in Filters
      PROVE  /\ \A o \in FilterOptions(f).agents : Capped(o.count) = FindTraces([f EXCEPT !.agents = {o.value}]).total
             /\ \A o \in FilterOptions(f).channels : Capped(o.count) = FindTraces([f EXCEPT !.channels = {o.value}]).total
             /\ {stored[t].agent : t \in FindTraces(f).items} \subseteq {o.value : o \in FilterOptions(f).agents}
  <2>1. /\ FilterOptions(f).agents =
             {[value |-> v, count |-> Cardinality(Found([f EXCEPT !.agents = {v}]))] :
                v \in {u \in Agents : Cardinality(Found([f EXCEPT !.agents = {u}])) > 0}}
        /\ FilterOptions(f).channels =
             {[value |-> v, count |-> Cardinality(Found([f EXCEPT !.channels = {v}]))] :
                v \in {u \in Channels : Cardinality(Found([f EXCEPT !.channels = {u}])) > 0}}
    BY <1>1, <1>2, OptionsAreWhatIf DEF CubeInv
  <2>2. \A g : FindTraces(g).total = Capped(Cardinality(Found(g)))
    BY DEF FindTraces, Found
  <2>3. ASSUME NEW o \in FilterOptions(f).agents
        PROVE  Capped(o.count) = FindTraces([f EXCEPT !.agents = {o.value}]).total
    <3>1. PICK v \in Agents : o = [value |-> v, count |-> Cardinality(Found([f EXCEPT !.agents = {v}]))]
      BY <2>1
    <3>2. o.value = v /\ o.count = Cardinality(Found([f EXCEPT !.agents = {v}]))
      BY <3>1
    <3>3. QED
      BY <2>2, <3>2
  <2>4. ASSUME NEW o \in FilterOptions(f).channels
        PROVE  Capped(o.count) = FindTraces([f EXCEPT !.channels = {o.value}]).total
    <3>1. PICK v \in Channels : o = [value |-> v, count |-> Cardinality(Found([f EXCEPT !.channels = {v}]))]
      BY <2>1
    <3>2. o.value = v /\ o.count = Cardinality(Found([f EXCEPT !.channels = {v}]))
      BY <3>1
    <3>3. QED
      BY <2>2, <3>2
  <2>5. ASSUME NEW t \in FindTraces(f).items
        PROVE  \E o \in FilterOptions(f).agents : o.value = stored[t].agent
    <3> DEFINE v == stored[t].agent
    <3>1. t \in Traces /\ Matches(f, t)
      BY <2>5 DEF FindTraces
    <3>2. v \in Agents
      BY <1>1, <3>1, DocTyped DEF Matches
    <3>3. t \in Found([f EXCEPT !.agents = {v}])
      BY <3>1, FilterTyped DEF Matches, Found
    <3> HIDE DEF v
    <3>4. Cardinality(Found([f EXCEPT !.agents = {v}])) > 0
      BY <3>3, FoundTyped
    <3>5. [value |-> v, count |-> Cardinality(Found([f EXCEPT !.agents = {v}]))] \in FilterOptions(f).agents
      BY <2>1, <3>2, <3>4
    <3>6. QED
      BY <3>5 DEF v
  <2>6. QED
    BY <2>3, <2>4, <2>5
<1>3. ASSUME "insert" \notin drift
      PROVE  (\A u \in Tuples : cube[u] >= 0) /\ MapThenSumSet(LAMBDA u : cube[u], Tuples) >= StoredCount
  BY <1>1, <1>3 DEF CubeInv, CubeTotal, SumOver
<1>4. QED
  BY <1>2, <1>3 DEF CubeExact

-----------------------------------------------------------------------------
(* What a dropdown says is what picking its option lists                   *)
(* (trace-query-repository.ts), whatever writers and rebuilds interleave.  *)
THEOREM CubeTruth == ProjectionsSpec => []CubeExact
<1>1. ProjectionsInv => CubeExact
  BY InvMeansExact
<1>2. QED
  BY <1>1, ProjectionsInvariant, PTL

(* A session nobody is recomputing is listed as its detail page shows it   *)
(* (session-summary-repository.ts).                                        *)
THEOREM FreshSummaries == ProjectionsSpec => []SummaryFresh
<1>1. ProjectionsInv => SummaryFresh
  BY InvMeansFresh
<1>2. QED
  BY <1>1, ProjectionsInvariant, PTL

(* A rebuild of the cube that reports success has dropped no insert        *)
(* (guard-concurrent-rebuild.ts).                                          *)
THEOREM HonestRebuild == ProjectionsSpec => []RebuildLosesNoInsert
<1>1. ProjectionsInv => RebuildLosesNoInsert
  BY DEF ProjectionsInv, JobInv, RebuildLosesNoInsert
<1>2. QED
  BY <1>1, ProjectionsInvariant, PTL
=============================================================================
