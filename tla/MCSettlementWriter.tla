------------------------- MODULE MCSettlementWriter -------------------------
(* Instances of SettlementWriter for TLC. *)
EXTENDS SettlementWriter

\* Receipts that gain and receipts that lose.
MCValues == {-1, 2}
=============================================================================
