------------------------------ MODULE MCDnsConf ------------------------------
(***************************************************************************)
(* Instances of DnsConf: the resolver and the authoritative server; drafts *)
(* that differ in the resolver's section, two of them valid, one refused   *)
(* for a network named twice and one for an open resolver without consent; *)
(* one deployment with the restarter and both files and one without either *)
(* of them.                                                                *)
(***************************************************************************)
EXTENDS DnsConf

MCServers == <<"recursor", "authoritative">>
MCEntry(n, h) == [net |-> n, host |-> h]
MCDraft(l, open) == [recursor |-> [list |-> l, open |-> open],
                     authoritative |-> [list |-> <<>>, open |-> FALSE]]
MCDrafts == {MCDraft(<<MCEntry("lan", 1)>>, FALSE),
             MCDraft(<<MCEntry("all", 0)>>, TRUE),
             MCDraft(<<MCEntry("lan", 0), MCEntry("lan", 1)>>, FALSE),
             MCDraft(<<MCEntry("all", 0)>>, FALSE)}
MCDeployments == {[enabled |-> TRUE, managed |-> {"recursor", "authoritative"}],
                  [enabled |-> FALSE, managed |-> {"recursor"}]}
==============================================================================
