------------------------- MODULE MCCloseScheduler -------------------------
(* Three months, of which any number may be over at the start, and one     *)
(* operator beside the scheduler.                                          *)
EXTENDS CloseScheduler
=============================================================================
