----------------------------- MODULE MCServing -----------------------------
(***************************************************************************)
(* What serves and feeds the bill, checked in one run: the bill list, the  *)
(* readers of a month's money, the statement fold, the projections, the    *)
(* MCP write tools, the session door and the windowed sync.  They share no *)
(* state here, so a behaviour is one of a single part, chosen in its first *)
(* state, and the others keep their initial values: the state space is the *)
(* sum of theirs and every invariant is checked in every state.            *)
(***************************************************************************)
EXTENDS BillList, BillingReaders, MCProjections, MCWriteTools, MCSessionDoor,
        MCStatementViews, MCWindowSync

VARIABLE part     \* the part this behaviour is about

Parts == {"list", "readers", "projections", "tools", "door", "fold", "window"}

ServingInit ==
  /\ part \in Parts
  /\ Init /\ ReadersInit /\ ProjectionsInit /\ WriteToolsInit /\ DoorInit /\ FoldInit /\ WindowInit
  /\ part # "list" => ended = 0 /\ traced = {}
  /\ part # "readers" => over = 0
  /\ part # "door" => published = {}

OfList == part = "list" /\ Next
          /\ UNCHANGED <<part, readersVars, projections, tools, door, fold, windowVars>>
OfReaders == part = "readers" /\ ReadersNext
             /\ UNCHANGED <<part, vars, projections, tools, door, fold, windowVars>>
OfProjections == part = "projections" /\ ProjectionsNext
                 /\ UNCHANGED <<part, vars, readersVars, tools, door, fold, windowVars>>
OfTools == part = "tools" /\ WriteToolsNext
           /\ UNCHANGED <<part, vars, readersVars, projections, door, fold, windowVars>>
OfDoor == part = "door" /\ DoorNext
          /\ UNCHANGED <<part, vars, readersVars, projections, tools, fold, windowVars>>
OfFold == part = "fold" /\ FoldNext
          /\ UNCHANGED <<part, vars, readersVars, projections, tools, door, windowVars>>
OfWindow == part = "window" /\ WindowNext
            /\ UNCHANGED <<part, vars, readersVars, projections, tools, door, fold>>

ServingNext == OfList \/ OfReaders \/ OfProjections \/ OfTools \/ OfDoor \/ OfFold \/ OfWindow

ServingSpec == ServingInit /\ [][ServingNext]_<<part, vars, readersVars, projections, tools, door,
                                                fold, windowVars>>
=============================================================================
