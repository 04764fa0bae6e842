------------------------------- MODULE MCSaga -------------------------------
(* Instances of Saga for TLC.                                               *)
EXTENDS Saga

Shape(irreversible, conditional, undo) ==
  [irreversible |-> irreversible, conditional |-> conditional, undo |-> undo]

\* An undoable create, a conditional update, a send, a write a human undoes.
AllShapes == {Shape(FALSE, FALSE, "delete_created"), Shape(FALSE, TRUE, "restore_version"),
              Shape(TRUE, TRUE, "delete_created"), Shape(FALSE, FALSE, "manual_reconcile")}
=============================================================================
