------------------------------ MODULE MemStore ------------------------------
(***************************************************************************)
(* The in-memory implementation of repo.Store (internal/memstore): a map   *)
(* from ids to rows per table, searched and changed by hand.  Every method *)
(* holds the mutex from beginning to end, so a method is a function from a *)
(* store and its arguments to a store and an answer.                       *)
(***************************************************************************)
EXTENDS Naturals, Sequences, FiniteSets, DnsNames

CONSTANT Null

EmptyMap == [i \in {} |-> Null]

EmptyMem == [zones |-> EmptyMap, templates |-> EmptyMap, supermasters |-> EmptyMap,
             config |-> Null, sync |-> EmptyMap, challenges |-> EmptyMap]

\* Map update and delete.
With(f, i, v) == [x \in DOMAIN f \cup {i} |-> IF x = i THEN v ELSE f[x]]
Without(f, S) == [x \in DOMAIN f \ S |-> f[x]]
Values(f) == {f[i] : i \in DOMAIN f}

\* tenantZones, tenantTemplates, tenantSupermasters.
Own(f, t) == {r \in Values(f) : r.tenant = t}

Answer(m, a) == [st |-> m, ans |-> a]

\* zone, template and the like: the row, if it is the tenant's.
Found(f, t, id) == id \in DOMAIN f /\ f[id].tenant = t

Get(m, f, t, id) == Answer(m, IF Found(f, t, id) THEN f[id] ELSE "ErrNotFound")

-----------------------------------------------------------------------------
(* Zones.                                                                  *)

\* Mutant of MemCreateZone: the PowerDNS id is not looked at.
MemCreateZoneByName(m, z) ==
    IF z.id \in DOMAIN m.zones \/ \E x \in Values(m.zones) : x.name = z.name
    THEN Answer(m, "ErrConflict")
    ELSE Answer([m EXCEPT !.zones = With(@, z.id, z)], "ok")

MemCreateZone(m, z) ==
    IF z.id \in DOMAIN m.zones \/ \E x \in Values(m.zones) : x.name = z.name \/ x.pdns = z.pdns
    THEN Answer(m, "ErrConflict")
    ELSE Answer([m EXCEPT !.zones = With(@, z.id, z)], "ok")

\* kind, masters, dnssec and description (meta) are written, and nothing else.
MemUpdateZone(m, z) ==
    IF ~Found(m.zones, z.tenant, z.id) THEN Answer(m, "ErrNotFound")
    ELSE LET cur == [m.zones[z.id] EXCEPT !.meta = z.meta]
         IN  Answer([m EXCEPT !.zones = With(@, z.id, cur)], cur)

\* The zone's challenges go with it.
MemDeleteZone(m, t, id) ==
    IF ~Found(m.zones, t, id) THEN Answer(m, "ErrNotFound")
    ELSE Answer([m EXCEPT !.zones = Without(@, {id}),
                          !.challenges = Without(@, {k \in DOMAIN @ : @[k].tenant = t /\ @[k].zone = id})],
                "ok")

MemGetZone(m, t, id) == Get(m, m.zones, t, id)

MemGetZoneByName(m, t, name) ==
    LET hits == {z \in Values(m.zones) : z.tenant = t /\ z.name = name}
    IN  Answer(m, IF hits = {} THEN "ErrNotFound" ELSE CHOOSE z \in hits : TRUE)

MemZoneConflict(m, t, name) ==
    Answer(m, \E z \in Values(m.zones) : z.tenant # t /\ Overlap(name, z.name))

MemAllZoneNames(m) == Answer(m, {z.name : z \in Values(m.zones)})

MemZonesForTenant(m, t) == Answer(m, Own(m.zones, t))

-----------------------------------------------------------------------------
(* Templates.  A name is [text, upper]; EqualFold ignores upper.           *)

NameTaken(m, t) ==
    \E x \in Values(m.templates) :
        x.tenant = t.tenant /\ x.id # t.id /\ x.name.text = t.name.text

MemCreateTemplate(m, t) ==
    IF t.id \in DOMAIN m.templates \/ NameTaken(m, t) THEN Answer(m, "ErrConflict")
    ELSE Answer([m EXCEPT !.templates = With(@, t.id, t)], "ok")

MemGetTemplate(m, t, id) == Get(m, m.templates, t, id)

MemUpdateTemplate(m, t) ==
    IF ~Found(m.templates, t.tenant, t.id) THEN Answer(m, "ErrNotFound")
    ELSE IF NameTaken(m, t) THEN Answer(m, "ErrConflict")
    ELSE Answer([m EXCEPT !.templates = With(@, t.id, t)], t)

MemDeleteTemplate(m, t, id) ==
    IF ~Found(m.templates, t, id) THEN Answer(m, "ErrNotFound")
    ELSE Answer([m EXCEPT !.templates = Without(@, {id})], "ok")

MemAllTemplates(m, t) == Answer(m, Own(m.templates, t))

-----------------------------------------------------------------------------
(* Supermasters.  An ip is [addr, mapped], or Null when it does not parse. *)

\* Unmap: the IPv4-mapped form of an address is the address.
canonIP(ip) == IF ip = Null THEN Null ELSE ip.addr

MemCreateSupermaster(m, s) ==
    LET ip == canonIP(s.ip)
    IN  IF \/ ip = Null \/ s.id \in DOMAIN m.supermasters
           \/ \E x \in Values(m.supermasters) : x.ip = ip /\ x.nameserver = s.nameserver
        THEN Answer(m, "ErrConflict")
        ELSE Answer([m EXCEPT !.supermasters = With(@, s.id, [s EXCEPT !.ip = ip])], "ok")

MemGetSupermaster(m, t, id) == Get(m, m.supermasters, t, id)

MemDeleteSupermaster(m, t, id) ==
    IF ~Found(m.supermasters, t, id) THEN Answer(m, "ErrNotFound")
    ELSE Answer([m EXCEPT !.supermasters = Without(@, {id})], "ok")

MemAllSupermasters(m, t) == Answer(m, Own(m.supermasters, t))

-----------------------------------------------------------------------------
(* Server configuration: the sections, and the hashes of the files.        *)

MemGetServerConfig(m) == Answer(m, IF m.config = Null THEN "ErrNotFound" ELSE m.config)

MemSaveServerConfig(m, sections) ==
    Answer([m EXCEPT !.config =
               [sections |-> sections, hash |-> IF @ = Null THEN "unset" ELSE @.hash]], "ok")

\* Without a row, one with default sections is made.
MemSetConfigHashes(m, hash) ==
    Answer([m EXCEPT !.config =
               [sections |-> IF @ = Null THEN "default" ELSE @.sections, hash |-> hash]], "ok")

-----------------------------------------------------------------------------
(* IPAM sync state, under tenant|address id.                               *)

MemGetIPAMSync(m, t, id) ==
    Answer(m, IF <<t, id>> \in DOMAIN m.sync THEN m.sync[<<t, id>>] ELSE "ErrNotFound")

MemUpsertIPAMSync(m, s) ==
    LET ip == canonIP(s.ip)
    IN  IF ip = Null THEN Answer(m, "ErrConflict")
        ELSE Answer([m EXCEPT !.sync = With(@, <<s.tenant, s.id>>, [s EXCEPT !.ip = ip])], "ok")

MemDeleteIPAMSync(m, t, id) ==
    IF <<t, id>> \notin DOMAIN m.sync THEN Answer(m, "ErrNotFound")
    ELSE Answer([m EXCEPT !.sync = Without(@, {<<t, id>>})], "ok")

\* Forward and reverse reference are emptied each on its own.
Cleared(r, t, zone) ==
    IF r.tenant # t THEN r
    ELSE [r EXCEPT !.forward = IF @ = zone THEN Null ELSE @,
                   !.reverse = IF @ = zone THEN Null ELSE @]

MemClearSyncZone(m, t, zone) ==
    Answer([m EXCEPT !.sync = [k \in DOMAIN @ |-> Cleared(@[k], t, zone)]], "ok")

-----------------------------------------------------------------------------
(* ACME challenges.                                                        *)

\* The zone is looked for first.
MemInsertChallenge(m, c) ==
    IF ~Found(m.zones, c.tenant, c.zone) THEN Answer(m, "ErrNotFound")
    ELSE IF \/ c.id \in DOMAIN m.challenges
            \/ \E x \in Values(m.challenges) :
                   x.tenant = c.tenant /\ x.fqdn = c.fqdn /\ x.value = c.value
    THEN Answer(m, "ErrConflict")
    ELSE Answer([m EXCEPT !.challenges = With(@, c.id, c)], "ok")

\* The first hit is deleted, and the loop left.
MemDeleteChallenge(m, t, fqdn, value) ==
    LET hits == {k \in DOMAIN m.challenges : /\ m.challenges[k].tenant = t
                                             /\ m.challenges[k].fqdn = fqdn
                                             /\ m.challenges[k].value = value}
    IN  IF hits = {} THEN Answer(m, "ErrNotFound")
        ELSE Answer([m EXCEPT !.challenges = Without(@, {CHOOSE k \in hits : TRUE})], "ok")

MemTenantIDs(m) ==
    Answer(m, {r.tenant : r \in Values(m.zones) \cup Values(m.templates) \cup Values(m.supermasters)})
=============================================================================
