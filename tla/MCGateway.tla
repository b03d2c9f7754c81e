------------------------------ MODULE MCGateway ------------------------------
(* Instances of Gateway for TLC. *)
EXTENDS Gateway, TLC

CONSTANTS r1, r2, a, org, key1, key2

\* Two calls of one organization, each with its own key, at one replica whose
\* clock is set forward in between.
TwoKeys == (r1 :> <<org, key1>>) @@ (r2 :> <<org, key2>>)
OnePlace == [s \in Scopes |-> 1]
OneReplica == [r \in Requests |-> a]
ClockSteps == (r1 :> 0) @@ (r2 :> 1)
====
