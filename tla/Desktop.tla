------------------------------ MODULE Desktop -------------------------------
(***************************************************************************)
(* The main window: the operator walks through its screens (Navigation)    *)
(* while alerts arrive and figures change behind them (KeyFigures).  Both  *)
(* are the one main thread, so a click waits until it is idle.             *)
(***************************************************************************)
EXTENDS Navigation, KeyFigures

deskVars == <<vars, figVars>>

DeskInit == Init /\ FigInit

\* A row of the incident panel and its "View All" are ShowIncident.
Click == task = Idle /\ Next /\ UNCHANGED figVars

Count == FigNext /\ UNCHANGED vars

DeskNext == Click \/ Count

DeskSpec == DeskInit /\ [][DeskNext]_deskVars
=============================================================================
