----------------------------- MODULE MCApiKeys -----------------------------
(* Instance of ApiKeys: the two references, and two callers.               *)
EXTENDS ApiKeys
=============================================================================
