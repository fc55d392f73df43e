---------------------------- MODULE RecordSets ----------------------------
(***************************************************************************)
(* Record sets and the functions that make and check them: owner names     *)
(* (internal/validate/names.go), the validation of one set against the     *)
(* others of its zone (recordset.go), the expansion of a template into the *)
(* sets of a new zone (internal/templates/expand.go), the merge of the     *)
(* nameservers into it (internal/zones), and what the server makes of a    *)
(* creation and of a PATCH (internal/pdns/fake.go).                        *)
(*                                                                         *)
(* A name is its label sequence from the root (DnsNames).  An owner as it  *)
(* is typed is relative or absolute and may hold the template placeholder  *)
(* [ZONE] in front of its labels; the apex "@" is relative with no label.  *)
(* The value of a record is the sequence of its fields; Contents gives the *)
(* canonical form of the values a type accepts.                            *)
(***************************************************************************)
EXTENDS DnsNames, FiniteSetsExt

CONSTANTS
    Plain,          \* labels of letters, digits and inner hyphens
    Underscored,    \* labels that also hold an underscore
    Suffixes,       \* the public suffixes, as names
    MaxName,        \* bound: labels of a name (253 octets in the code)
    Editable,       \* the record types users may write
    PriorityFields, \* by type: the number of fields of a full MX or SRV value
    MinTTL, MaxTTL, MaxValues,
    MaxPriority,
    MaxTemplateRecords

-----------------------------------------------------------------------------
(* Names.                                                                  *)

labelOK(l, underscore) == l \in Plain \/ (underscore /\ l \in Underscored)

\* The left-most label of a zone, the last of the sequence, has no underscore.
canonicalZone(z) ==
    /\ Len(z) \in 1..MaxName
    /\ \A i \in 1..Len(z) : labelOK(z[i], i < Len(z))

ZoneName(z) == canonicalZone(z) /\ z \notin Suffixes

\* A relative owner is completed with the zone; "@" is the zone itself.
Qualified(z, o) == IF o.abs THEN o.labels ELSE z \o o.labels

\* The owner is accepted: valid labels, a wildcard only left-most, in the zone.
RecordName(z, o) ==
    LET fq == Qualified(z, o)
    IN  /\ canonicalZone(z)
        /\ Len(fq) \in 1..MaxName
        /\ \A i \in 1..Len(fq) : labelOK(fq[i], TRUE) \/ (fq[i] = "*" /\ i = Len(fq))
        /\ InZone(fq, z)

-----------------------------------------------------------------------------
(* One record set.  Contents is the constant function behind content():    *)
(* Contents[type] maps every value the type accepts to its canonical form. *)

CONSTANT Contents

\* An input [owner, type, ttl, values, comment] as the set it asks for.  Its
\* values are a sequence, or numbered by the template lines they come from.
ReplaceSet(z, in) ==
    [name |-> Qualified(z, in.owner), type |-> in.type, ttl |-> in.ttl,
     values |-> {Contents[in.type][in.values[i]] : i \in DOMAIN in.values},
     comment |-> in.comment]

\* Mutant of CnameRule: only a new CNAME is checked against its name.
CnameRuleOneWay(name, type, existing) ==
    \A e \in existing :
        e.name = name /\ e.type # type => type # "CNAME"

\* A CNAME is alone at its name; the set being replaced does not count.
CnameRule(name, type, existing) ==
    \A e \in existing :
        e.name = name /\ e.type # type => type # "CNAME" /\ e.type # "CNAME"

\* Limits.RecordSet accepts the input beside the existing sets of the zone.
RecordSet(z, in, existing) ==
    LET n == Cardinality(DOMAIN in.values)
        c == Contents[in.type]
    IN  /\ in.type \in Editable
        /\ RecordName(z, in.owner)
        /\ in.ttl \in MinTTL..MaxTTL
        /\ n \in 1..MaxValues
        /\ in.type = "CNAME" => Qualified(z, in.owner) # z /\ n = 1
        /\ CnameRule(Qualified(z, in.owner), in.type, existing)
        /\ \A i \in DOMAIN in.values : in.values[i] \in DOMAIN c
        /\ \A i, j \in DOMAIN in.values : i # j => c[in.values[i]] # c[in.values[j]]

-----------------------------------------------------------------------------
(* Templates.  A template record is [owner, type, ttl, priority, value];   *)
(* its owner and the host in its value may hold the placeholder.           *)

\* strings.ReplaceAll(.., "[ZONE]", zone): the placeholder becomes labels.
Substituted(z, o) == [abs |-> o.abs, labels |-> IF o.zone THEN z \o o.labels ELSE o.labels]

\* A value's host, its last field, is read with the placeholder replaced.
Bare(z, value) ==
    LET host == value[Len(value)]
    IN  SubSeq(value, 1, Len(value) - 1) \o <<Substituted(z, host)>>

priorityOK(r) ==
    /\ r.priority \in 0..MaxPriority
    /\ r.type \notin DOMAIN PriorityFields => r.priority = 0
    /\ r.type \in DOMAIN PriorityFields /\ Len(r.value) = PriorityFields[r.type]
       => r.priority = 0

withPriority(r) ==
    IF r.type \in DOMAIN PriorityFields /\ Len(r.value) = PriorityFields[r.type] - 1
    THEN <<r.priority>> \o r.value
    ELSE r.value

One(z, r) ==
    [owner |-> Substituted(z, r.owner), type |-> r.type, ttl |-> r.ttl,
     values |-> <<Bare(z, withPriority(r))>>, comment |-> "none"]

key(z, r) == <<Qualified(z, Substituted(z, r.owner)), r.type>>

\* The lines of one (name, type), and the record set of them, with the first
\* one's TTL.
LinesOf(z, recs, k) == {i \in 1..Len(recs) : key(z, recs[i]) = k}

Group(z, recs, k) ==
    LET mine == LinesOf(z, recs, k)
    IN  [owner |-> [abs |-> TRUE, labels |-> k[1]], type |-> k[2],
         ttl |-> recs[Min(mine)].ttl,
         values |-> [i \in mine |-> One(z, recs[i]).values[1]],
         comment |-> "none"]

Groups(z, recs) == {Group(z, recs, key(z, recs[i])) : i \in 1..Len(recs)}

\* ExpandRecords succeeds: every record is valid alone, every group of them
\* beside the other groups.
Expandable(z, recs) ==
    /\ ZoneName(z)
    /\ Len(recs) <= MaxTemplateRecords
    /\ \A i \in 1..Len(recs) : priorityOK(recs[i]) /\ RecordSet(z, One(z, recs[i]), {})
    /\ \A g \in Groups(z, recs) :
           RecordSet(z, g, {ReplaceSet(z, h) : h \in Groups(z, recs) \ {g}})

\* Mutant of ExpandRecords: of several records of one set the first is kept.
ExpandFirst(z, recs) ==
    {ReplaceSet(z, [g EXCEPT !.values = [i \in {Min(DOMAIN @)} |-> g.values[i]]]) :
        g \in Groups(z, recs)}

ExpandRecords(z, recs) == {ReplaceSet(z, g) : g \in Groups(z, recs)}

-----------------------------------------------------------------------------
(* The new zone.                                                           *)

Key(s) == <<s.name, s.type>>
ApexNS(z, sets) == {s \in sets : Key(s) = <<z, "NS">>}

\* Mutant of mergeApexNS: the two lists are both sent.
MergeNothing(z, sets, ns) == [sets |-> sets, ns |-> ns]

\* The requested nameservers are folded into an apex NS set of the template.
mergeApexNS(z, sets, ns) ==
    IF ApexNS(z, sets) = {} \/ ns = {}
    THEN [sets |-> sets, ns |-> ns]
    ELSE [sets |-> (sets \ ApexNS(z, sets))
                     \cup {[s EXCEPT !.values = @ \cup ns] : s \in ApexNS(z, sets)},
          ns |-> {}]

\* Replaced by key, as replaceRRset and PATCH do it.
Replaced(sets, new) == {s \in sets : \A c \in new : Key(c) # Key(s)} \cup new

\* The server takes a zone with these initial sets and nameservers ...
CreateOK(z, m) ==
    /\ m.ns # {} => ApexNS(z, m.sets) = {}
    /\ \A s \in m.sets : InZone(s.name, z)

\* ... and adds the SOA and the NS set it generates.
Generated(z, type, values) ==
    [name |-> z, type |-> type, ttl |-> MaxTTL, values |-> values, comment |-> "none"]

Created(z, m) ==
    Replaced({Generated(z, "SOA", {})}
               \cup (IF m.ns = {} THEN {} ELSE {Generated(z, "NS", m.ns)}), m.sets)

\* PATCH: every replaced or deleted key is dropped, the new sets are added, all
\* at once.
Patched(sets, changes) ==
    {s \in sets : Key(s) \notin changes.delete \cup {Key(c) : c \in changes.replace}}
        \cup changes.replace
=============================================================================
