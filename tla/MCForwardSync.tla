---------------------------- MODULE MCForwardSync ----------------------------
(***************************************************************************)
(* One tenant and three names: a zone the recursor is configured to        *)
(* forward, its child, and a zone PowerDNS already serves.  The recursor   *)
(* starts with a forward that nothing manages any more.                    *)
(***************************************************************************)
EXTENDS ForwardSync

MCParent == <<"com", "acme">>
MCChild  == <<"com", "acme", "lab">>
MCOther  == <<"org">>

MCNames    == {MCParent, MCChild, MCOther}
MCServed   == {MCOther}
MCStatic   == {MCParent}
MCLeftover == {MCParent, MCChild}
=============================================================================
