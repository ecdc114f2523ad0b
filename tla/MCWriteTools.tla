---------------------------- MODULE MCWriteTools ----------------------------
EXTENDS WriteTools, TLC
MCSameDate == [x \in Terms |-> Terms]
=============================================================================
