---------------------------- MODULE MCPriceSweep ----------------------------
EXTENDS PriceSweep, TLC
Price(m, k, d) == [model |-> m, type |-> k, from |-> d]
MCTraces == 1..2
MCDateOf == <<2, 3>>
MCMonthOf == <<0, 1, 2>>
MCUsedOf == <<{"in"}, {"in", "out"}>>
MCSays == <<{"b"}, {"b", NoModel}>>
MCCorrections == {<<2, "b", "a">>}
MCComputed == {Price("a", "in", 2)}
MCSeed == {Price("a", "in", 1), Price("a", "in", 2), Price("a", "out", 1), Price("b", "out", 3)}
MCOnSale == {Price("b", "in", 2)}
=============================================================================
