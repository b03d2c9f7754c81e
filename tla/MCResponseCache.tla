--------------------------- MODULE MCResponseCache ---------------------------
(* Instances of ResponseCache for TLC. *)
EXTENDS ResponseCache, TLC

CONSTANTS r1, r2, r3, a, b, cust

\* Two calls of a customer at one server, so that the second may find the decision
\* and the answer of the first, and one of the organization itself at the other.
Owners == (r1 :> cust) @@ (r2 :> Org) @@ (r3 :> cust)
Servers == (r1 :> a) @@ (r2 :> b) @@ (r3 :> a)

\* The customer's two calls differ in nothing but their names.
Twins == Permutations({r1, r3})
====
