----------------------------- MODULE MCRecords -----------------------------
(***************************************************************************)
(* The zone lab.example with the owners @, www and ftp; templates of up to *)
(* three records that meet the rules on priorities, placeholders, apex NS  *)
(* sets, absolute owners and duplicate values.                             *)
(***************************************************************************)
EXTENDS Records, TLC

MCZone == <<"example", "lab">>
MCPlaceholder == <<"example", "ph">>
MCSuffixes == {<<"example">>}

Owner(abs, zone, labels) == [abs |-> abs, zone |-> zone, labels |-> labels]
Rel(labels) == [abs |-> FALSE, labels |-> labels]

Www == Rel(<<"www">>)
Ftp == Rel(<<"ftp">>)
Apex == Rel(<<>>)
Elsewhere == [abs |-> TRUE, labels |-> <<"example", "other">>]

Host(l) == [abs |-> TRUE, labels |-> <<l>>]
Mail(z) == [abs |-> TRUE, labels |-> z \o <<"mail">>]
HostsOf == {Host("h1"), Host("h2"), Mail(MCZone), Mail(MCPlaceholder)}

MCContents == [t \in {"A", "CNAME", "NS", "MX", "SOA"} |->
    [v \in IF t = "MX" THEN {0, 10} \X HostsOf ELSE {<<h>> : h \in HostsOf} |->
        [i \in 1..Len(v) |-> IF i = Len(v) THEN v[i].labels ELSE v[i]]]]
MCPriorityFields == [t \in {"MX"} |-> 2]

Ask(o, t, vals) == [owner |-> o, type |-> t, ttl |-> 60, values |-> vals, comment |-> "none"]
MCInputs == {Ask(Www, "A", <<<<Host("h1")>>>>), Ask(Www, "A", <<<<Host("h2")>>>>),
             Ask(Www, "CNAME", <<<<Host("h1")>>>>), Ask(Ftp, "A", <<<<Host("h1")>>>>),
             Ask(Ftp, "CNAME", <<<<Host("h1")>>>>),
             Ask(Apex, "CNAME", <<<<Host("h1")>>>>), Ask(Apex, "SOA", <<<<Host("h1")>>>>),
             Ask(Elsewhere, "A", <<<<Host("h1")>>>>),
             Ask(Www, "A", <<<<Host("h1")>>, <<Host("h1")>>>>)}
MCOrigs == {[owner |-> o, type |-> t] : o \in {Www, Ftp}, t \in {"A", "CNAME"}}
             \cup {[owner |-> Apex, type |-> "SOA"]}

Line(o, t, ttl, prio, value) ==
    [owner |-> o, type |-> t, ttl |-> ttl, priority |-> prio, value |-> value]
ZoneHost(l) == [abs |-> TRUE, zone |-> TRUE, labels |-> <<l>>]
PlainHost(l) == [abs |-> TRUE, zone |-> FALSE, labels |-> <<l>>]
Literal == [abs |-> TRUE, zone |-> FALSE, labels |-> MCZone \o <<"mail">>]

Lines ==
    {Line(Owner(FALSE, FALSE, <<"www">>), "A", 60, 0, <<PlainHost("h1")>>),
     Line(Owner(FALSE, FALSE, <<"www">>), "A", 90, 0, <<PlainHost("h2")>>),
     Line(Owner(TRUE, TRUE, <<"www">>), "CNAME", 60, 0, <<PlainHost("h1")>>),
     Line(Owner(FALSE, FALSE, <<>>), "NS", 60, 0, <<PlainHost("h1")>>),
     Line(Owner(FALSE, FALSE, <<>>), "MX", 60, 10, <<ZoneHost("mail")>>),
     Line(Owner(FALSE, FALSE, <<>>), "MX", 60, 0, <<10, Literal>>),
     Line(Owner(FALSE, FALSE, <<>>), "MX", 60, 10, <<10, PlainHost("h1")>>),
     Line(Owner(TRUE, FALSE, MCZone \o <<"ftp">>), "A", 60, 0, <<PlainHost("h1")>>),
     Line(Owner(FALSE, TRUE, <<"www">>), "A", 60, 0, <<PlainHost("h1")>>)}
MCTemplates == UNION {[1..n -> Lines] : n \in 0..3}

\* An apex NS set to merge, a line that only fits this zone, a refused list.
MCTried == {t \in MCTemplates : Len(t) = 2 /\ t[1].type = "NS" /\ t[2].type = "CNAME"}
             \cup {t \in MCTemplates : Len(t) = 2 /\ t[1].type = "MX" /\ t[2].type = "MX"
                                        /\ t[1] # t[2]}
MCNameservers == {{}, {<<<<"h2">>>>}}

MCSymmetry == Permutations(Writers)
=============================================================================
