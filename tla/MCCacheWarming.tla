---------------------------- MODULE MCCacheWarming ----------------------------
(* Instances of CacheWarming for TLC. *)
EXTENDS CacheWarming, TLC

CONSTANTS x1, x2, w1, w2, c1

OneCustomer == [x \in Prefixes |-> c1]
Symmetric == Permutations(Prefixes) \cup Permutations(Workers)
====
