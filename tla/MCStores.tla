------------------------------ MODULE MCStores ------------------------------
(* Instance of the stores: a zone name, its child, and a few of the rest.   *)
EXTENDS StoreLists, TLC

MCNames == {<<"com">>, <<"com", "acme">>}
MCRank == [n \in MCNames |-> Len(n)]
MCTexts == {1, 2}

MCSymmetry == Permutations(Tenants) \cup Permutations(Sections) \cup Permutations(Tokens)
=============================================================================
