----------------------------- MODULE MCJobQueue -----------------------------
(* Instances of JobQueue for TLC. *)
EXTENDS JobQueue

\* Every consumer has its own lease_owner, as with generated worker ids.
DistinctIds == [w \in Slots |-> w]
=============================================================================
