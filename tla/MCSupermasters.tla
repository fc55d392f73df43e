--------------------------- MODULE MCSupermasters ---------------------------
(* Instances of Supermasters: two tenants; requests are interchangeable.    *)
EXTENDS Supermasters, TLC

MCSymmetry == Permutations(Requests) \cup Permutations(Tenants) \cup Permutations(Pairs)
=============================================================================
