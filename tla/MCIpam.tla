------------------------------- MODULE MCIpam -------------------------------
(***************************************************************************)
(* Instances of IpamSync, for two hosts of lab.example.com, and beside it  *)
(* of ReversePlan, over addresses that differ in one part each, at bit and *)
(* label boundaries, for both families.  The reverse zones are planned in  *)
(* the setting in which IPAM is at rest.                                   *)
(***************************************************************************)
EXTENDS IpamSync, ReversePlan, TLC

MCHosts == {<<"com", "example", "lab", "a">>, <<"com", "example", "lab", "b">>}
MCRegistrable == <<"com", "example">>
MCNested == {MCRegistrable, <<"com", "example", "lab">>}
MCPtrZone == <<"arpa", "in-addr", "10">>

First(S) == {CHOOSE x \in S : TRUE}

\* IPAM at rest.
Rest0 == [ids |-> {}, ips |-> {}, forward |-> {MCRegistrable}, readdress |-> FALSE,
          inOrder |-> TRUE, edited |-> FALSE, changes |-> 0, zones |-> 0, faults |-> 0,
          lost |-> 0]

\* One address; nested zones that people create and delete, events in any
\* order, a failing call, and a lost answer or a restart.
Disturbed == [Rest0 EXCEPT !.ids = First(Ids), !.ips = First(Ips), !.forward = MCNested,
                 !.inOrder = FALSE, !.edited = TRUE, !.changes = 2, !.zones = 3,
                 !.faults = 1, !.lost = 1]

\* Two addresses that may change and trade IPs; events in order.
Trading == [Rest0 EXCEPT !.ids = Ids, !.ips = Ips, !.readdress = TRUE, !.changes = 4,
                         !.zones = 2]

Retried == [Disturbed EXCEPT !.changes = 3, !.zones = 2, !.lost = 0]
MCSettings == {Rest0, Disturbed, Retried, Trading}

\* Trading with events in any order; a new IP with a failing call.
MCStrict == {[Trading EXCEPT !.inOrder = FALSE, !.changes = 3],
             [Trading EXCEPT !.ids = First(Ids), !.changes = 3, !.faults = 1]}

Nibbles(n) == [i \in 1..32 |-> IF i = n THEN 0 ELSE 1]
MCAddresses ==
    {<<10, 0, 0, 1>>, <<10, 0, 0, 129>>, <<10, 0, 1, 1>>, <<10, 129, 0, 1>>}
        \cup {Nibbles(n) : n \in {1, 2, 16, 17}}
MCPrefixes == (4 :> {-1, 0, 7, 8, 9, 15, 16, 17, 23, 24, 25, 32, 33})
           @@ (32 :> {-1, 0, 3, 4, 5, 7, 8, 60, 63, 64, 65, 128, 129})
MCHandMade == {<<"arpa", "in-addr", 10>>, <<"arpa", "in-addr", 10, 0, 0, 1>>,
               <<"arpa", "ip6", 1>>}

MCInit == /\ Init /\ PlanInit
          /\ setting # Rest0 => family = 4 /\ zones = {}
MCNext == \/ Next /\ UNCHANGED planVars
          \/ setting = Rest0 /\ PlanNext /\ UNCHANGED vars
MCSpec == MCInit /\ [][MCNext]_<<vars, planVars>> /\ WF_vars(Handle)
=============================================================================
