--------------------------- MODULE MCBillingRecovery ---------------------------
(* Instances of BillingRecovery for TLC. *)
EXTENDS BillingRecovery, TLC

\* Fees of one unit each, so that one entry's fee can pass for another's.
EqualFees == [e \in Entries |-> 1]

Interchangeable == Permutations(Workers) \cup Permutations(Entries)
InterchangeableWorkers == Permutations(Workers)
=============================================================================
