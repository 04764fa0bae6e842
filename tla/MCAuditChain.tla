---------------------------- MODULE MCAuditChain ----------------------------
(* The instances of AuditChain that TLC checks: several connections and a   *)
(* sealer, with a row of every table or with plans of several effects.      *)
EXTENDS AuditChain, TLC

CONSTANTS
  c1, c2, s1, e1, e2, d1,
  team,         \* a team with a subscription
  driver, view, \* two declarations of one name
  base, alias,  \* two paths
  policy, secret,
  v1, v2, toBase, redacted

MCTeamOf == [d \in Deliveries |-> team]
MCStatusOf == [d \in Deliveries |-> v2]
MCKindOf == [k \in Declared |-> IF k = view THEN "view" ELSE "driver"]
MCNameOf == [k \in Declared |-> "name"]
MCRowsOf ==
  [k \in Keys |-> CASE k = alias -> {toBase}
                    [] k \in Teams -> {v2}
                    [] k \in Policies -> {v1, v2}
                    [] OTHER -> {v1}]
MCAliasOf == [v \in Values |-> IF v = toBase THEN base ELSE Absent]
MCLogText == [k \in Keys |-> [v \in Values |-> IF k \in Secret THEN redacted ELSE v]]

Symmetry == Permutations(Clients)
=============================================================================
