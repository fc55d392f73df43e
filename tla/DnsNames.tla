------------------------------ MODULE DnsNames ------------------------------
(***************************************************************************)
(* Domain names and the containment relation every component relies on.    *)
(*                                                                         *)
(* A canonical name (lower case, one trailing dot) is the sequence of its  *)
(* labels read from the root: lab.example.com. is <<"com", "example",      *)
(* "lab">>.  A suffix of the text on a label boundary is a prefix of the   *)
(* sequence.                                                               *)
(***************************************************************************)
EXTENDS Naturals, Sequences

\* store.InZone: the name is the zone's apex or lies below it.
InZone(name, zone) ==
    /\ Len(zone) <= Len(name)
    /\ SubSeq(name, 1, Len(zone)) = zone

\* dns_zone_conflict: equal, ancestor or descendant.
Overlap(a, b) == InZone(a, b) \/ InZone(b, a)

\* store.LongestZone over a set of zone names: the longest one that contains
\* the name (only used when there is one).
Containing(zones, name) == {z \in zones : InZone(name, z)}

LongestZone(zones, name) ==
    CHOOSE z \in Containing(zones, name) :
        \A y \in Containing(zones, name) : Len(y) <= Len(z)
=============================================================================
