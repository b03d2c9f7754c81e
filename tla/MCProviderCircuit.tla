--------------------------- MODULE MCProviderCircuit ---------------------------
(* The instance of ProviderCircuit that TLC checks (circuit.cfg). Liveness is among *)
(* its properties, so it declares no symmetry.                                     *)
EXTENDS ProviderCircuit
=============================================================================
