-------------------------- MODULE MCServerRuntime --------------------------
(***************************************************************************)
(* Instances of ServerRuntime: two policies, the one that grants among     *)
(* them, and two requests that may run at once.                            *)
(***************************************************************************)
EXTENDS ServerRuntime, TLC

CONSTANTS api, other, v1, v2, c1, c2

MCRows    == {api, other}
MCDefs    == {v1, v2}
MCClients == {c1, c2}

\* v1 is a handler and a rule. v2 is a handler "h ALLOW SELECT" and no rule, which
\* reads back as the other; in the row of the second policy it is a handler with
\* a space in it, which does not parse.
MCReadAs ==
    [r \in MCRows |-> [def \in MCDefs |->
        CASE def = v1 -> [row |-> r, def |-> v1]
          [] def = v2 /\ r = api   -> [row |-> api, def |-> v1]
          [] def = v2 /\ r = other -> None]]

Symmetry  == Permutations(MCClients)
=============================================================================
