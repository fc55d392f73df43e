---------------------------- MODULE ReversePlan ----------------------------
(***************************************************************************)
(* Where PTR records go (internal/ipamsync/plan.go): the owner name of an  *)
(* address in the reverse tree, the reverse zone sized to the address's    *)
(* subnet, and the choice between an existing zone of the tenant and a new *)
(* one.  Names are label sequences from the root (DnsNames), so the        *)
(* address's parts appear in their own order.                              *)
(***************************************************************************)
EXTENDS DnsNames, Integers, FiniteSets

CONSTANTS
    Addresses,      \* parts, most significant first: 4 octets or 32 nibbles
    PrefixLengths,  \* by number of parts: the prefix lengths IPAM may answer
                    \* (-1: no usable CIDR)
    HandMade        \* reverse zones that people may have created before

ASSUME PlanConstants ==
    /\ \A a \in Addresses :
        \/ a \in Seq(0..255) /\ Len(a) = 4
        \/ a \in Seq(0..15) /\ Len(a) = 32
    /\ PrefixLengths \in [{4, 32} -> SUBSET Int]
    /\ \A z \in HandMade :
        LET digits == SubSeq(z, 3, Len(z))
        IN  /\ digits \in Seq(Nat)
            /\ z \in {<<"arpa", "in-addr">> \o digits, <<"arpa", "ip6">> \o digits}

VARIABLES
    family,         \* the family looked at: the other's names are disjoint
    zones,          \* the tenant's reverse zones
    records         \* the PTR records written: owner and zone

planVars == <<family, zones, records>>

V4(a) == Len(a) = 4
Suffix(a) == IF V4(a) THEN <<"arpa", "in-addr">> ELSE <<"arpa", "ip6">>
Unit(a) == IF V4(a) THEN 8 ELSE 4
Low(a)  == IF V4(a) THEN 8 ELSE 4
High(a) == IF V4(a) THEN 24 ELSE 64
Full(a) == IF V4(a) THEN 32 ELSE 128

PTROwner(a) == Suffix(a) \o a

\* Mutant of Bits: rounded up.
BitsUp(a, prefix) ==
    LET p == IF prefix < 0 \/ prefix > Full(a) THEN High(a) ELSE prefix
        r == ((p + Unit(a) - 1) \div Unit(a)) * Unit(a)
    IN  IF r < Low(a) THEN Low(a) ELSE IF r > High(a) THEN High(a) ELSE r

\* The subnet's prefix rounded down to a label boundary and clamped; one out
\* of range counts as the longest zone there is.
Bits(a, prefix) ==
    LET p == IF prefix < 0 \/ prefix > Full(a) THEN High(a) ELSE prefix
        r == (p \div Unit(a)) * Unit(a)
    IN  IF r < Low(a) THEN Low(a) ELSE IF r > High(a) THEN High(a) ELSE r

ReverseZone(a, prefix) == Suffix(a) \o SubSeq(a, 1, Bits(a, prefix) \div Unit(a))

\* Mutant of PlanReverse: the sized zone is created even inside another.
PlanSized(a, prefix) ==
    LET z == ReverseZone(a, prefix)
    IN  [owner |-> PTROwner(a), zone |-> z, existing |-> z \in zones]

\* An existing zone that contains the owner wins, the longest one first.
PlanReverse(a, prefix) ==
    LET has == Containing(zones, PTROwner(a))
    IN  [owner    |-> PTROwner(a),
         zone     |-> IF has # {} THEN LongestZone(zones, PTROwner(a))
                      ELSE ReverseZone(a, prefix),
         existing |-> has # {}]

\* validate.ZoneName on a reverse zone: one to four octets, or one to 32 nibbles.
reverseOK(z) ==
    LET parts == SubSeq(z, 3, Len(z))
        v4    == z[2] = "in-addr"
    IN  /\ Len(parts) \in 1..(IF v4 THEN 4 ELSE 32)
        /\ \A i \in DOMAIN parts : parts[i] \in 0..(IF v4 THEN 255 ELSE 15)

-----------------------------------------------------------------------------
InFamily == {a \in Addresses : Len(a) = family}

PlanInit ==
    /\ family \in {4, 32}
    /\ zones \in SUBSET {z \in HandMade : z[2] = IF family = 4 THEN "in-addr" ELSE "ip6"}
    /\ records = {}

\* upsert, the reverse side: the zone is created if need be and the record
\* written there.  Creating a zone whose name is not valid would fail:
\* SubnetCovered says that none such is planned.
Upsert(a, prefix) ==
    LET p == PlanReverse(a, prefix)
    IN  /\ zones' = zones \cup {p.zone}
        /\ records' = {r \in records : r.owner # p.owner}
                        \cup {[owner |-> p.owner, zone |-> p.zone]}
        /\ UNCHANGED family

PlanNext == \E a \in InFamily, p \in PrefixLengths[family] : Upsert(a, p)

PlanSpec == PlanInit /\ [][PlanNext]_planVars

-----------------------------------------------------------------------------
(* Properties.                                                             *)

\* Two addresses agree on the leading bits.
SameSubnet(a, b, prefix) ==
    LET whole == prefix \div Unit(a)
        rest  == prefix % Unit(a)
        low   == 2^(Unit(a) - rest)
    IN  /\ Len(a) = Len(b)
        /\ SubSeq(a, 1, whole) = SubSeq(b, 1, whole)
        /\ rest # 0 => a[whole + 1] \div low = b[whole + 1] \div low

\* A zone sized to a subnet serves the whole subnet: no address of it needs a
\* zone of its own (subnets wider than the lower clamp are split on purpose).
\* Whatever prefix IPAM answers, no zone is made out of a single address or out
\* of the whole reverse tree: at least one label of the address is in the zone's
\* name and at least one is left for the record.  Its name is thus always one
\* that ZoneName accepts: no address fails for the name of its zone.
SubnetCovered ==
    \A z \in zones :
        /\ \A a, b \in InFamily, p \in PrefixLengths[family] :
              /\ z = ReverseZone(a, p)
              /\ Low(a) <= p /\ p <= Full(a)
              /\ SameSubnet(a, b, p)
              => Containing(zones, PTROwner(b)) # {}
        /\ z \notin HandMade =>
              /\ reverseOK(z)
              /\ \E a \in InFamily : InZone(PTROwner(a), z) /\ Len(z) < Len(PTROwner(a))

\* A PTR record is in a zone that exists and from which the server answers,
\* the longest one that contains its owner: no zone created later for another
\* subnet shadows it.  It rests on "a containing one is reused rather than
\* nesting a new zone inside it".
NotShadowed ==
    \A r \in records :
        /\ r.zone \in zones /\ InZone(r.owner, r.zone)
        /\ \A z \in zones : InZone(r.owner, z) => Len(z) <= Len(r.zone)
=============================================================================
