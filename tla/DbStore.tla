------------------------------ MODULE DbStore ------------------------------
(***************************************************************************)
(* The PostgreSQL implementation of repo.Store (internal/repo/repodb over  *)
(* internal/store/migrations): a set of rows per table, the constraints of *)
(* the schema, row-level security and the mapping of database errors.      *)
(* Every method is one transaction of one statement (two for               *)
(* ClearSyncZone), so again a function to a store and an answer.           *)
(***************************************************************************)
EXTENDS Naturals, Sequences, FiniteSets, DnsNames

CONSTANT Null

EmptyDb == [zones |-> {}, templates |-> {}, supermasters |-> {}, config |-> {},
            sync |-> {}, challenges |-> {}]

-----------------------------------------------------------------------------
(* SQL.                                                                    *)

\* mapErr, affected and the errors there are.
unique_violation == "ErrConflict"
foreign_key_violation == "ErrNotFound"
NoRows == "ErrNotFound"

Result(d, a) == [st |-> d, ans |-> a]

\* Mutant of Visible: the table was left out of the policy.
Unprotected(table, t) == table

\* The policy tenant_isolation: a statement of a tenant's scope.
Visible(table, t) == {r \in table : r.tenant = t}

\* WHERE tenant_id = .. AND id = .., under the tenant's scope.
Where(table, t, id) == {r \in Visible(table, t) : r.id = id}

\* A column, or the expression an index is on.
Column(r, c) == IF c = "lower_name" THEN r.name.text ELSE r[c]

\* A UNIQUE index on columns, over the rows of every tenant.
Duplicate(table, row, columns) ==
    \E r \in table : \A c \in columns : Column(r, c) = Column(row, c)

Id == {"id"}

Select(d, rows) == Result(d, IF rows = {} THEN NoRows ELSE CHOOSE r \in rows : TRUE)

\* SELECT .. ORDER BY key, id LIMIT size OFFSET ..: a row's place is the number
\* of rows before it.
Page(rows, key, desc, page, size) ==
    LET total  == Cardinality(rows)
        last   == IF total = 0 THEN 1 ELSE (total + size - 1) \div size
        at     == IF page > last THEN last ELSE page
        offset == (at - 1) * size
        Place(r) == Cardinality({q \in rows :
                        IF key[q] = key[r] THEN q.id < r.id
                        ELSE IF desc THEN key[q] > key[r] ELSE key[q] < key[r]})
        hits   == {r \in rows : Place(r) \in offset..(offset + size - 1)}
    IN  [items |-> [i \in 1..Cardinality(hits) |-> CHOOSE r \in hits : Place(r) = offset + i - 1],
         total |-> total, page |-> at]

-----------------------------------------------------------------------------
(* dns_zones.                                                              *)

ZoneName == {"name"}
ZonePdns == {"pdns"}

DbCreateZone(d, z) ==
    IF Duplicate(d.zones, z, Id) \/ Duplicate(d.zones, z, ZoneName) \/ Duplicate(d.zones, z, ZonePdns)
    THEN Result(d, unique_violation)
    ELSE Result([d EXCEPT !.zones = @ \cup {z}], "ok")

\* UPDATE .. SET kind, masters, dnssec, description RETURNING.
DbUpdateZone(d, z) ==
    LET old == Where(d.zones, z.tenant, z.id)
        new == {[r EXCEPT !.meta = z.meta] : r \in old}
    IN  IF old = {} THEN Result(d, NoRows)
        ELSE Result([d EXCEPT !.zones = (@ \ old) \cup new], CHOOSE r \in new : TRUE)

\* Mutant of DbDeleteZone: the foreign key does not cascade.
DbDeleteZoneAlone(d, t, id) ==
    LET old == Where(d.zones, t, id)
    IN  IF old = {} THEN Result(d, NoRows) ELSE Result([d EXCEPT !.zones = @ \ old], "ok")

\* FOREIGN KEY (tenant_id, zone_id) .. ON DELETE CASCADE.
DbDeleteZone(d, t, id) ==
    LET old == Where(d.zones, t, id)
    IN  IF old = {} THEN Result(d, NoRows)
        ELSE Result([d EXCEPT !.zones = @ \ old,
                              !.challenges = {c \in @ : ~(c.tenant = t /\ c.zone = id)}], "ok")

DbGetZone(d, t, id) == Select(d, Where(d.zones, t, id))

DbGetZoneByName(d, t, name) == Select(d, {z \in Visible(d.zones, t) : z.name = name})

\* dns_zone_conflict() and dns_zone_names() run with the system scope.
DbZoneConflict(d, t, name) ==
    Result(d, \E z \in d.zones : z.tenant # t /\ (InZone(name, z.name) \/ InZone(z.name, name)))

DbAllZoneNames(d) == Result(d, {z.name : z \in d.zones})

DbZonesForTenant(d, t) == Result(d, Visible(d.zones, t))

\* WHERE .. AND ($2 = '' OR kind = $2).
DbListZones(d, t, kind, key, desc, page, size) ==
    Page({z \in Visible(d.zones, t) : kind = Null \/ z.meta = kind}, key, desc, page, size)

-----------------------------------------------------------------------------
(* dns_zone_templates; the unique index is on (tenant_id, lower(name)).    *)

TemplateName == {"tenant", "lower_name"}

DbCreateTemplate(d, t) ==
    IF Duplicate(d.templates, t, Id) \/ Duplicate(d.templates, t, TemplateName)
    THEN Result(d, unique_violation)
    ELSE Result([d EXCEPT !.templates = @ \cup {t}], "ok")

DbGetTemplate(d, t, id) == Select(d, Where(d.templates, t, id))

DbUpdateTemplate(d, t) ==
    LET old == Where(d.templates, t.tenant, t.id)
    IN  IF old = {} THEN Result(d, NoRows)
        ELSE IF Duplicate(d.templates \ old, t, TemplateName) THEN Result(d, unique_violation)
        ELSE Result([d EXCEPT !.templates = (@ \ old) \cup {t}], t)

DbDeleteTemplate(d, t, id) ==
    LET old == Where(d.templates, t, id)
    IN  IF old = {} THEN Result(d, NoRows) ELSE Result([d EXCEPT !.templates = @ \ old], "ok")

DbAllTemplates(d, t) == Result(d, Visible(d.templates, t))

DbListTemplates(d, t, desc, page, size) ==
    LET rows == Visible(d.templates, t)
    IN  Page(rows, [x \in rows |-> x.name.text], desc, page, size)

-----------------------------------------------------------------------------
(* dns_supermasters.                                                       *)

\* An inet value; IPv4-mapped literals are unmapped before.
inet(ip) == IF ip = Null THEN Null ELSE ip.addr

SupermasterPair == {"ip", "nameserver"}

DbCreateSupermaster(d, s) ==
    LET row == [s EXCEPT !.ip = inet(s.ip)]
    IN  IF row.ip = Null THEN Result(d, "ErrConflict")
        ELSE IF Duplicate(d.supermasters, row, Id) \/ Duplicate(d.supermasters, row, SupermasterPair)
        THEN Result(d, unique_violation)
        ELSE Result([d EXCEPT !.supermasters = @ \cup {row}], "ok")

DbGetSupermaster(d, t, id) == Select(d, Where(d.supermasters, t, id))

DbDeleteSupermaster(d, t, id) ==
    LET old == Where(d.supermasters, t, id)
    IN  IF old = {} THEN Result(d, NoRows) ELSE Result([d EXCEPT !.supermasters = @ \ old], "ok")

DbAllSupermasters(d, t) == Result(d, Visible(d.supermasters, t))

DbListSupermasters(d, t, key, desc, page, size) ==
    Page(Visible(d.supermasters, t), key, desc, page, size)

-----------------------------------------------------------------------------
(* dns_server_config: one row at most; INSERT .. ON CONFLICT DO UPDATE.    *)

DbGetServerConfig(d) == Select(d, d.config)

DbSaveServerConfig(d, sections) ==
    Result([d EXCEPT !.config =
        IF @ = {} THEN {[sections |-> sections, hash |-> "unset"]}
        ELSE {[r EXCEPT !.sections = sections] : r \in @}], "ok")

DbSetConfigHashes(d, hash) ==
    Result([d EXCEPT !.config =
        IF @ = {} THEN {[sections |-> "default", hash |-> hash]}
        ELSE {[r EXCEPT !.hash = hash] : r \in @}], "ok")

-----------------------------------------------------------------------------
(* dns_ipam_sync, primary key (tenant_id, ip_address_id).                  *)

DbGetIPAMSync(d, t, id) == Select(d, Where(d.sync, t, id))

DbUpsertIPAMSync(d, s) ==
    LET row == [s EXCEPT !.ip = inet(s.ip)]
    IN  IF row.ip = Null THEN Result(d, "ErrConflict")
        ELSE Result([d EXCEPT !.sync = (@ \ Where(@, s.tenant, s.id)) \cup {row}], "ok")

DbDeleteIPAMSync(d, t, id) ==
    LET old == Where(d.sync, t, id)
    IN  IF old = {} THEN Result(d, NoRows) ELSE Result([d EXCEPT !.sync = @ \ old], "ok")

\* Two UPDATEs in one transaction.
DbClearSyncZone(d, t, zone) ==
    LET one == {r \in Visible(d.sync, t) : r.forward = zone}
        mid == (d.sync \ one) \cup {[r EXCEPT !.forward = Null] : r \in one}
        two == {r \in Visible(mid, t) : r.reverse = zone}
    IN  Result([d EXCEPT !.sync = (mid \ two) \cup {[r EXCEPT !.reverse = Null] : r \in two}], "ok")

-----------------------------------------------------------------------------
(* dns_acme_challenges.                                                    *)

ChallengeKey == {"tenant", "fqdn", "value"}

\* The unique indexes are checked when the row goes in, the foreign key at the
\* end of the statement.
DbInsertChallenge(d, c) ==
    IF Duplicate(d.challenges, c, Id) \/ Duplicate(d.challenges, c, ChallengeKey)
    THEN Result(d, unique_violation)
    ELSE IF Where(d.zones, c.tenant, c.zone) = {} THEN Result(d, foreign_key_violation)
    ELSE Result([d EXCEPT !.challenges = @ \cup {c}], "ok")

DbDeleteChallenge(d, t, fqdn, value) ==
    LET old == {c \in Visible(d.challenges, t) : c.fqdn = fqdn /\ c.value = value}
    IN  IF old = {} THEN Result(d, NoRows) ELSE Result([d EXCEPT !.challenges = @ \ old], "ok")

\* System scope; ORDER BY created_at, id LIMIT.
DbChallengesOlderThan(d, before, limit) ==
    LET old      == {c \in d.challenges : c.at < before}
        Place(c) == Cardinality({b \in old : b.at < c.at \/ (b.at = c.at /\ b.id < c.id)})
        hits     == {c \in old : Place(c) < limit}
    IN  Result(d, [i \in 1..Cardinality(hits) |-> CHOOSE c \in hits : Place(c) = i - 1])

DbTenantIDs(d) == Result(d, {r.tenant : r \in d.zones \cup d.templates \cup d.supermasters})
=============================================================================
