---------------------------- MODULE ZoneRegistry ----------------------------
(***************************************************************************)
(* What the zone service promises about ownership: a zone name belongs to  *)
(* at most one tenant of the platform, a tenant gets it only while nobody  *)
(* owns it, and it changes hands only by being given up first.             *)
(***************************************************************************)
CONSTANTS Names, Tenants

VARIABLE owned          \* the set of <<name, tenant>> pairs in force

Free(n) == \A t \in Tenants : <<n, t>> \notin owned

Claim(n, t) ==
    /\ Free(n)
    /\ owned' = owned \cup {<<n, t>>}

Release(n, t) ==
    /\ <<n, t>> \in owned
    /\ owned' = owned \ {<<n, t>>}

RegistryInit == owned = {}

RegistryNext == \E n \in Names, t \in Tenants : Claim(n, t) \/ Release(n, t)

RegistrySpec == RegistryInit /\ [][RegistryNext]_owned
=============================================================================
