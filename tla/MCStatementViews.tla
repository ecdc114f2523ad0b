-------------------------- MODULE MCStatementViews --------------------------
EXTENDS StatementViews, TLC

Cost(type, tokens, price, from) == [type |-> type, tokens |-> tokens, price |-> price, from |-> from]

\* Two prices with one effective date on a pair of lines that tie for the
\* last cent; a trace without an agent; a cache read with no input price;
\* an agent under two versions.
MCUsageOf == [x \in Usages |->
  CASE x = 1 -> [agent |-> 1, version |-> 0, model |-> 1,
                 costs |-> <<Cost("input", 5, 10, 1), Cost("cache_read", 4, 3, 1)>>]
    [] x = 2 -> [agent |-> 1, version |-> 0, model |-> 1,
                 costs |-> <<Cost("input", 10, 5, 1), Cost("output", 3, 7, 1)>>]
    [] x = 3 -> [agent |-> 1, version |-> 2, model |-> 0,
                 costs |-> <<Cost("cache_read", 6, 3, 1), Cost("cache_write", 2, 9, 2)>>]
    [] x = 4 -> [agent |-> 0, version |-> 0, model |-> 2,
                 costs |-> <<Cost("input", 7, 10, 2), Cost("cache_read", 2, 3, 2)>>]
    [] OTHER -> [agent |-> 2, version |-> 0, model |-> 1,
                 costs |-> <<Cost("output", 0, 7, 1)>>]]

\* A month without a stamped trace: every sum is zero and no share divides.
ASSUME EmptyMonthCloses ==
  LET empty == FinishStatement(Nothing) IN Closes(empty, SummaryView(empty))
=============================================================================
