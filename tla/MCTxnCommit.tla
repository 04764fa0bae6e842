----------------------------- MODULE MCTxnCommit -----------------------------
(* Instances of TxnCommit for TLC.                                          *)
EXTENDS TxnCommit

Shape(kind, guarded, checked, permitted, registered) ==
    [kind |-> kind, guarded |-> guarded, checked |-> checked,
     permitted |-> permitted, registered |-> registered]

\* Every leg allowed and served: an unconditional insert, call, upsert and remove,
\* and an update whose precondition its arguments carry as well.
Plain == {Shape("insert", FALSE, FALSE, TRUE, TRUE),
          Shape("call", FALSE, FALSE, TRUE, TRUE),
          Shape("upsert", FALSE, FALSE, TRUE, TRUE),
          Shape("remove", FALSE, FALSE, TRUE, TRUE),
          Shape("update", TRUE, TRUE, TRUE, TRUE)}

\* Refused legs, legs that have no driver and legs whose arguments carry a
\* version the caller set no precondition for, mixed with plain ones.
Mixed == Plain \cup {Shape("insert", FALSE, FALSE, FALSE, TRUE),
                     Shape("insert", FALSE, FALSE, TRUE, FALSE),
                     Shape("update", FALSE, TRUE, TRUE, TRUE)}

\* An insert conditioned through Preconditions alone.
Conditioned == {Shape("insert", TRUE, FALSE, TRUE, TRUE)}
=============================================================================
