---------------------------- MODULE MCScheduler ----------------------------
(* Values for the model checking of Scheduler.                             *)
EXTENDS Scheduler, TLC

CONSTANTS c1, c2, c3, c4, f1, f2

ThreeScripts == {c1, c2, c3}
OneFile      == {f1}
FourScripts  == {c1, c2, c3, c4}
TwoFiles     == {f1, f2}
AnyEntry     == {-1, 0, 1}
AtEnd        == {-1}

(* Containers are interchangeable: none is named by Init or by an action.  *)
ScriptSymmetry == Permutations(Script)
=============================================================================
