---------------------------- MODULE MCWatchtower ----------------------------
(* Small instances of Watchtower: two triggers, events 1 and 2.              *)
EXTENDS Watchtower, TLC

CONSTANTS r1, r2, r3

TwoEvents == {1, 2}
\* r2 is the sender's retry of r1, or a second request with the same body.
AskedTwice == r1 :> 1 @@ r2 :> 1 @@ r3 :> 2
AskedOnce == r1 :> 1 @@ r2 :> 2
BothMatchFirst == 1 :> {1, 2} @@ 2 :> {2}
GuardsPass == 1 :> {1, 2} @@ 2 :> {2}
\* The policy is loosened, a route added, then a trigger dropped and the policy
\* tightened again.
ThreeConfigs ==
  << [routes |-> {1},    triggers |-> {1, 2}, allows |-> {2}],
     [routes |-> {1, 2}, triggers |-> {1, 2}, allows |-> {1, 2}],
     [routes |-> {1, 2}, triggers |-> {1},    allows |-> {2}] >>
OneConfig == << [routes |-> {1, 2}, triggers |-> {1, 2}, allows |-> {1, 2}] >>
=============================================================================
