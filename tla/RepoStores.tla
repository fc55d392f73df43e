----------------------------- MODULE RepoStores -----------------------------
(***************************************************************************)
(* The two implementations of repo.Store side by side, given the same      *)
(* calls: the unit suite runs the services on the one, production on the   *)
(* other, and internal/repo/repotest claims that they agree.               *)
(*                                                                         *)
(* The tables do not influence each other, but for zones and challenges,   *)
(* so that a behaviour is about the tables of one area.                    *)
(***************************************************************************)
EXTENDS MemStore
D == INSTANCE DbStore

CONSTANTS
    Tenants, Ids,       \* ids are numbers: the order of uuids
    ListIds,            \* those of templates and supermasters
    Names, Kinds,       \* zone names; what UpdateZone writes, in order
    Sections,           \* what SaveServerConfig and SetConfigHashes write
    Texts,              \* template names and nameservers, in order
    Fqdns, Tokens,      \* challenges
    Addrs, SyncAddrs,   \* addresses of supermasters and of sync rows
    MaxCreated             \* creation times

\* A configuration as it is stored; before the first save, sections or hash are empty.
Configs == [sections : Sections \cup {"default"}, hash : Sections \cup {"unset"}]

ASSUME StoresConstants ==
    /\ Null \notin Addrs \cup SyncAddrs \cup Configs
    /\ Null \notin [addr : Addrs \cup SyncAddrs, mapped : BOOLEAN]

VARIABLES
    area,       \* the tables this behaviour is about
    mem, db     \* the two stores

storeVars == <<area, mem, db>>

Areas == {"zones", "templates", "supermasters", "config", "sync"}

ZoneRows == [id : Ids, tenant : Tenants, name : Names, pdns : Names, meta : Kinds]
TemplateRows == [id : ListIds, tenant : Tenants, name : [text : Texts, upper : BOOLEAN]]
IPs(addrs) == [addr : addrs, mapped : BOOLEAN] \cup {Null}
SupermasterRows == [id : ListIds, tenant : Tenants, ip : IPs(Addrs), nameserver : Texts]
SyncRows ==
    [id : Ids, tenant : Tenants, ip : IPs(SyncAddrs),
     forward : Ids \cup {Null}, reverse : Ids \cup {Null}]
ChallengeRows ==
    [id : Ids, tenant : Tenants, zone : Ids, fqdn : Fqdns, value : Tokens, at : 0..MaxCreated]

StoresInit ==
    /\ area \in Areas
    /\ mem = EmptyMem
    /\ db = D!EmptyDb

-----------------------------------------------------------------------------
(* A call of the service changes both stores.                              *)

Both(a, m, d) == area = a /\ mem' = m.st /\ db' = d.st /\ UNCHANGED area

CreateZone(z) == Both("zones", MemCreateZone(mem, z), D!DbCreateZone(db, z))
UpdateZone(z) == Both("zones", MemUpdateZone(mem, z), D!DbUpdateZone(db, z))
DeleteZone(t, id) == Both("zones", MemDeleteZone(mem, t, id), D!DbDeleteZone(db, t, id))

InsertChallenge(c) == Both("zones", MemInsertChallenge(mem, c), D!DbInsertChallenge(db, c))
DeleteChallenge(t, f, v) ==
    Both("zones", MemDeleteChallenge(mem, t, f, v), D!DbDeleteChallenge(db, t, f, v))

CreateTemplate(t) == Both("templates", MemCreateTemplate(mem, t), D!DbCreateTemplate(db, t))
UpdateTemplate(t) == Both("templates", MemUpdateTemplate(mem, t), D!DbUpdateTemplate(db, t))
DeleteTemplate(t, id) ==
    Both("templates", MemDeleteTemplate(mem, t, id), D!DbDeleteTemplate(db, t, id))

CreateSupermaster(s) ==
    Both("supermasters", MemCreateSupermaster(mem, s), D!DbCreateSupermaster(db, s))
DeleteSupermaster(t, id) ==
    Both("supermasters", MemDeleteSupermaster(mem, t, id), D!DbDeleteSupermaster(db, t, id))

SaveServerConfig(s) == Both("config", MemSaveServerConfig(mem, s), D!DbSaveServerConfig(db, s))
SetConfigHashes(h) == Both("config", MemSetConfigHashes(mem, h), D!DbSetConfigHashes(db, h))

UpsertIPAMSync(s) == Both("sync", MemUpsertIPAMSync(mem, s), D!DbUpsertIPAMSync(db, s))
DeleteIPAMSync(t, id) == Both("sync", MemDeleteIPAMSync(mem, t, id), D!DbDeleteIPAMSync(db, t, id))
ClearSyncZone(t, id) == Both("sync", MemClearSyncZone(mem, t, id), D!DbClearSyncZone(db, t, id))

StoresNext ==
    \/ \E z \in ZoneRows : CreateZone(z) \/ UpdateZone(z)
    \/ \E c \in ChallengeRows : InsertChallenge(c)
    \/ \E t \in Tenants, f \in Fqdns, v \in Tokens : DeleteChallenge(t, f, v)
    \/ \E t \in TemplateRows : CreateTemplate(t) \/ UpdateTemplate(t)
    \/ \E s \in SupermasterRows : CreateSupermaster(s)
    \/ \E x \in Sections : SaveServerConfig(x) \/ SetConfigHashes(x)
    \/ \E s \in SyncRows : UpsertIPAMSync(s)
    \/ \E t \in Tenants, id \in Ids :
        DeleteZone(t, id) \/ DeleteIPAMSync(t, id) \/ ClearSyncZone(t, id)
    \/ \E t \in Tenants, id \in ListIds : DeleteTemplate(t, id) \/ DeleteSupermaster(t, id)

StoresSpec == StoresInit /\ [][StoresNext]_storeVars

-----------------------------------------------------------------------------
(* Properties.                                                             *)

\* The two stores hold the same rows, after every sequence of calls.
SameRows ==
    /\ Values(mem.zones) = db.zones /\ Values(mem.templates) = db.templates
    /\ Values(mem.supermasters) = db.supermasters /\ Values(mem.sync) = db.sync
    /\ Values(mem.challenges) = db.challenges
    /\ db.config = IF mem.config = Null THEN {} ELSE {mem.config}

\* A challenge for a zone that is gone, of which the tenant has another one
\* with the same name and value.
InsertedTwice(c) == /\ ~Found(mem.zones, c.tenant, c.zone)
                    /\ D!Duplicate(db.challenges, c, D!ChallengeKey) \/ D!Duplicate(db.challenges, c, D!Id)

\* Whatever is called next, the two stores answer alike: the same row, the same
\* list or the same error (ErrNotFound, ErrConflict).  One call is excepted:
\* InsertChallenge, when both errors are due (memstore looks for the zone
\* first, PostgreSQL for the duplicate).
SameAnswers ==
    /\ area = "zones" =>
        /\ \A z \in ZoneRows :
            /\ MemCreateZone(mem, z).ans = D!DbCreateZone(db, z).ans
            /\ MemUpdateZone(mem, z).ans = D!DbUpdateZone(db, z).ans
        /\ \A c \in ChallengeRows :
            InsertedTwice(c) \/ MemInsertChallenge(mem, c).ans = D!DbInsertChallenge(db, c).ans
        /\ \A t \in Tenants, f \in Fqdns, v \in Tokens :
            MemDeleteChallenge(mem, t, f, v).ans = D!DbDeleteChallenge(db, t, f, v).ans
        /\ \A t \in Tenants, n \in Names :
            /\ MemGetZoneByName(mem, t, n).ans = D!DbGetZoneByName(db, t, n).ans
            /\ MemZoneConflict(mem, t, n).ans = D!DbZoneConflict(db, t, n).ans
        /\ MemAllZoneNames(mem).ans = D!DbAllZoneNames(db).ans
    /\ area = "templates" => \A t \in TemplateRows :
        /\ MemCreateTemplate(mem, t).ans = D!DbCreateTemplate(db, t).ans
        /\ MemUpdateTemplate(mem, t).ans = D!DbUpdateTemplate(db, t).ans
    /\ area = "supermasters" => \A s \in SupermasterRows :
        MemCreateSupermaster(mem, s).ans = D!DbCreateSupermaster(db, s).ans
    /\ area = "sync" => \A s \in SyncRows :
        MemUpsertIPAMSync(mem, s).ans = D!DbUpsertIPAMSync(db, s).ans
    /\ MemGetServerConfig(mem).ans = D!DbGetServerConfig(db).ans
    /\ MemTenantIDs(mem).ans = D!DbTenantIDs(db).ans
    /\ \A t \in Tenants :
        /\ MemZonesForTenant(mem, t).ans = D!DbZonesForTenant(db, t).ans
        /\ MemAllTemplates(mem, t).ans = D!DbAllTemplates(db, t).ans
        /\ MemAllSupermasters(mem, t).ans = D!DbAllSupermasters(db, t).ans
        /\ \A id \in Ids :
            /\ MemGetZone(mem, t, id).ans = D!DbGetZone(db, t, id).ans
            /\ MemGetIPAMSync(mem, t, id).ans = D!DbGetIPAMSync(db, t, id).ans
            /\ MemDeleteZone(mem, t, id).ans = D!DbDeleteZone(db, t, id).ans
            /\ MemDeleteIPAMSync(mem, t, id).ans = D!DbDeleteIPAMSync(db, t, id).ans
        /\ \A id \in ListIds :
            /\ MemGetTemplate(mem, t, id).ans = D!DbGetTemplate(db, t, id).ans
            /\ MemGetSupermaster(mem, t, id).ans = D!DbGetSupermaster(db, t, id).ans
            /\ MemDeleteTemplate(mem, t, id).ans = D!DbDeleteTemplate(db, t, id).ans
            /\ MemDeleteSupermaster(mem, t, id).ans = D!DbDeleteSupermaster(db, t, id).ans

\* What repotest's package comment says, without the exception.
ProvablyAgree ==
    \A c \in ChallengeRows :
        area = "zones" => MemInsertChallenge(mem, c).ans = D!DbInsertChallenge(db, c).ans
=============================================================================
