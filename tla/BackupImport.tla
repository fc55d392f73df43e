---------------------------- MODULE BackupImport ----------------------------
(***************************************************************************)
(* The backup service (internal/backup) beside the zone service: an export *)
(* reads the zones and templates of a tenant, an import writes them back,  *)
(* one store call or PowerDNS call at a time, while zone requests run      *)
(* (ZoneLifecycle).  The database and PowerDNS are not restored together:  *)
(* an import never creates or deletes a zone on the server, it makes the   *)
(* rows for zones the server still has.  The first error ends it, and what *)
(* it wrote stays.  Its third part, supermasters, is in Supermasters.      *)
(*                                                                         *)
(* Descriptions and template records are data no property tells apart.     *)
(* Every tenant uses one template name; a template's id is the tenant that *)
(* made it with the number of the import that copied it (0: none).  The    *)
(* ids a cross-tenant import mints for its zones are taken from Minted.    *)
(***************************************************************************)
EXTENDS ZoneLifecycle

CONSTANTS
    Minted,         \* members of Requests that never act, only serve as ids
    MaxTemplates,   \* bound: templates there are to begin with
    MaxImports      \* bound: imports

ASSUME MintedOK == Minted \subseteq Requests /\ {MaxTemplates, MaxImports} \subseteq Nat

VARIABLES
    templates,  \* zone_templates: [id, tenant]
    links,      \* by row id: the template the zone was made from, or External
    doc,        \* the exported document, or External
    imp,        \* the import: its step, arguments and what it has read
    imports,    \* imports begun (an instance with templates is left one import)
    unused,     \* minted ids not used yet
    raced       \* history: names two requests or imports changed at a time

bvars == <<templates, links, doc, imp, imports, unused, raced>>
all   == <<vars, bvars>>

Idle == [pc |-> "idle", target |-> External, origin |-> External,
         mode |-> "skip", tpls |-> {}, zones |-> {}, onServer |-> {},
         cur |-> External, old |-> External, live |-> External,
         seen |-> {}, made |-> {}, missing |-> {}, calm |-> FALSE]

BInit ==
    /\ Init
    /\ templates \in {{[id |-> <<t, 0>>, tenant |-> t] : t \in T} :
                         T \in {S \in SUBSET Tenants : Cardinality(S) <= MaxTemplates}}
    /\ links = [i \in Requests |-> External]
    /\ doc = External
    /\ imp = Idle
    /\ imports = IF templates = {} THEN 0 ELSE MaxImports - 1
    /\ unused = Minted
    /\ raced = {}

-----------------------------------------------------------------------------
(* Export.                                                                 *)

Owns(t) == \E p \in templates : p.tenant = t

Export(t) ==
    /\ doc = External
    /\ \E w \in rows : w.tenant = t
    /\ doc' = [tenant |-> t, tpls |-> {p.id : p \in {q \in templates : q.tenant = t}},
               zones |-> {[id |-> w.id, name |-> w.name, link |-> links[w.id]] :
                             w \in {v \in rows : v.tenant = t}}]
    /\ UNCHANGED <<vars, templates, links, imp, imports, unused, raced>>

-----------------------------------------------------------------------------
(* Import.                                                                 *)

\* remap: every row gets a fresh id; links follow their template or are dropped.
Remapped(ids) ==
    [tpls  |-> {<<p[1], imports + 1>> : p \in doc.tpls},
     zones |-> {[id |-> ids[z], name |-> z.name,
                 link |-> IF z.link \in doc.tpls THEN <<z.link[1], imports + 1>> ELSE External] :
                    z \in doc.zones}]

Begin(t, mode, full, content) ==
    /\ imp' = [Idle EXCEPT !.pc = IF full THEN "wipe" ELSE "templates", !.target = t,
                   !.origin = doc.tenant, !.mode = mode, !.tpls = content.tpls,
                   !.zones = content.zones, !.calm = (InFlight = {})]
    /\ imports' = imports + 1
    /\ UNCHANGED <<vars, templates, links, doc, raced>>

\* A full import of a tenant without templates wipes nothing: left out.
StartImport(t, mode, full) ==
    /\ imp.pc = "idle" /\ doc # External /\ imports < MaxImports
    /\ Cardinality(InFlight) < MaxInFlight
    /\ full => Owns(t)
    /\ \/ /\ doc.tenant = t
          /\ Begin(t, mode, full, [tpls |-> doc.tpls, zones |-> doc.zones])
          /\ UNCHANGED unused
       \/ /\ doc.tenant # t
          /\ \E ids \in [doc.zones -> unused] :
                /\ \A y, z \in doc.zones : y # z => ids[y] # ids[z]
                /\ Begin(t, mode, full, Remapped(ids))
                /\ unused' = unused \ {ids[z] : z \in doc.zones}

\* The importer goes on to its next call; it changed none of these.
Then(i) == imp' = i /\ UNCHANGED <<doc, imports, unused>>

\* wipeTemplates, one deletion at a time.
Wipe ==
    /\ imp.pc = "wipe"
    /\ \/ \E p \in templates : /\ p.tenant = imp.target
                               /\ templates' = templates \ {p}
                               /\ Then(imp)
       \/ ~Owns(imp.target) /\ Then([imp EXCEPT !.pc = "templates"]) /\ UNCHANGED templates
    /\ UNCHANGED <<vars, links>>

\* template: an id the target has is kept or overwritten, another one is
\* created unless the name is taken.
ImportTemplate ==
    /\ imp.pc = "templates"
    /\ \E p \in imp.tpls :
          /\ templates' = IF Owns(imp.target) THEN templates
                          ELSE templates \cup {[id |-> p, tenant |-> imp.target]}
          /\ Then([imp EXCEPT !.tpls = @ \ {p}])
    /\ UNCHANGED <<vars, links>>

\* ListZoneNames, once for all zones.
ListZoneNames ==
    /\ imp.pc = "templates" /\ imp.tpls = {}
    /\ Then([imp EXCEPT !.pc = "zones", !.onServer = {z.name : z \in pdns}])
    /\ UNCHANGED <<vars, templates, links>>

NextZone == [imp EXCEPT !.pc = "zones", !.cur = External, !.old = External,
                        !.live = External, !.seen = {}]
Missing(n) == [NextZone EXCEPT !.missing = @ \cup {n}]
Local(n) == {w \in rows : w.tenant = imp.target /\ w.name = n}

\* zone: the tenant's own row is kept, or overwritten with what was read.
LoadZone ==
    /\ imp.pc = "zones"
    /\ \E z \in imp.zones :
          LET rest == [imp EXCEPT !.zones = @ \ {z}, !.cur = z]
          IN  \/ /\ Local(z.name) # {} /\ imp.mode = "skip"
                 /\ Then([rest EXCEPT !.cur = External])
              \/ /\ imp.mode = "overwrite"
                 /\ \E w \in Local(z.name) : Then([rest EXCEPT !.pc = "overwrite", !.old = w])
              \/ /\ Local(z.name) = {} /\ z.name \notin imp.onServer
                 /\ Then([rest EXCEPT !.cur = External, !.missing = @ \cup {z.name}])
              \/ /\ Local(z.name) = {} /\ z.name \in imp.onServer
                 /\ Then([rest EXCEPT !.pc = "conflict", !.seen = Ids])
    /\ UNCHANGED <<vars, templates, links>>

\* UpdateZone writes the whole row back; a row gone meanwhile is an error.
Overwrite ==
    /\ imp.pc = "overwrite"
    /\ rows' = {IF w.id = imp.old.id /\ w.tenant = imp.target
                THEN [w EXCEPT !.meta = imp.old.meta] ELSE w : w \in rows}
    /\ Then(IF \E w \in rows : w.id = imp.old.id THEN NextZone ELSE Idle)
    /\ UNCHANGED <<pdns, forwards, pc, job, faults, existing, torn, templates, links>>

ConflictCheck ==
    /\ imp.pc = "conflict"
    /\ Then(IF Taken(imp.target, imp.cur.name) THEN NextZone ELSE [imp EXCEPT !.pc = "live"])
    /\ UNCHANGED <<vars, templates, links>>

\* Mutant of ownAccount: a zone of no account is another's.
targetAccount(a) == a \in {imp.target, imp.origin}

ownAccount(a) == a \in {External, imp.target, imp.origin}

\* GetZone: the row will mirror the live zone.
ReadLive ==
    /\ imp.pc = "live"
    /\ Then(IF ~Served(imp.cur.name) THEN Missing(imp.cur.name)
            ELSE LET z == CHOOSE y \in pdns : y.name = imp.cur.name
                 IN  IF ownAccount(z.account)
                     THEN [imp EXCEPT !.pc = "link", !.live = z] ELSE NextZone)
    /\ UNCHANGED <<vars, templates, links>>

\* GetTemplate under the target tenant: another link is dropped.
CheckLink ==
    /\ imp.pc = "link"
    /\ Then([imp EXCEPT !.pc = "insert", !.cur.link =
                IF [id |-> @, tenant |-> imp.target] \in templates THEN @ ELSE External])
    /\ UNCHANGED <<vars, templates, links>>

ImportedRow == [id |-> imp.cur.id, tenant |-> imp.target, name |-> imp.cur.name,
                meta |-> imp.live.meta]

\* CreateZone: a taken name or id skips the zone.
InsertZone ==
    /\ imp.pc = "insert"
    /\ IF NameFree(imp.cur.name) /\ imp.cur.id \notin Ids
       THEN /\ rows' = rows \cup {ImportedRow}
            /\ existing' = [r \in Requests |-> (IF r = imp.cur.id THEN imp.seen ELSE existing[r])
                                               \ {imp.cur.id}]
            /\ links' = [links EXCEPT ![imp.cur.id] = imp.cur.link]
            /\ torn' = torn \ {imp.cur.id}
            /\ Then([(IF imp.live.account # imp.target
                      THEN [imp EXCEPT !.pc = "account"] ELSE NextZone)
                     EXCEPT !.made = @ \cup {imp.cur.id}])
       ELSE Then(NextZone) /\ UNCHANGED <<rows, existing, links, torn>>
    /\ UNCHANGED <<pdns, forwards, pc, job, faults, templates>>

\* UpdateZoneMetadata with what was read; its failure is only logged.
SetAccount ==
    /\ imp.pc = "account"
    /\ pdns' = {IF z.name = imp.cur.name
                THEN [z EXCEPT !.account = imp.target, !.meta = imp.live.meta] ELSE z : z \in pdns}
    /\ Then(NextZone)
    /\ UNCHANGED <<rows, forwards, pc, job, faults, existing, torn, templates, links>>

EndZones ==
    /\ imp.pc = "zones" /\ imp.zones = {}
    /\ Then([imp EXCEPT !.pc = "end"])
    /\ UNCHANGED <<vars, templates, links>>

Answer ==
    /\ imp.pc = "end"
    /\ Then(Idle)
    /\ UNCHANGED <<vars, templates, links>>

\* A call of the import fails: the import ends, but for the template lookup,
\* which drops the link, and the account update, which is only logged.
ImportFails ==
    /\ imp.pc \notin {"idle", "end"}
    /\ imp.pc = "link" => imp.cur.link # External
    /\ Disturb
    /\ torn' = IF imp.pc = "account" THEN torn \cup {imp.cur.id} ELSE torn
    /\ Then(CASE imp.pc = "account" -> [NextZone EXCEPT !.calm = FALSE]
              [] imp.pc = "link"    -> [imp EXCEPT !.pc = "insert", !.cur.link = External,
                                                   !.calm = FALSE]
              [] OTHER              -> Idle)
    /\ UNCHANGED <<rows, pdns, forwards, pc, job, existing, templates, links>>

\* The table was restored from an older dump: a row is missing.
RowLost(w) ==
    /\ doc # External /\ imp.pc = "idle" /\ InFlight = {}
    /\ rows' = rows \ {w}
    /\ torn' = torn \cup {w.id}
    /\ UNCHANGED <<pdns, forwards, pc, job, faults, existing,
                   templates, links, doc, imp, imports, unused>>

Import ==
    \/ Wipe \/ ImportTemplate \/ ListZoneNames \/ LoadZone \/ Overwrite
    \/ ConflictCheck \/ ReadLive \/ CheckLink \/ InsertZone \/ SetAccount \/ EndZones

-----------------------------------------------------------------------------
(* A step of a zone request.  A Create may use a template of its tenant.   *)

ZoneStep ==
    /\ Next
    /\ \A m \in Minted : pc'[m] = "idle"
    /\ imp.pc # "idle" => Cardinality(InFlight') < MaxInFlight
    /\ \E l \in {p.id : p \in templates} \cup {External} :
          links' = [i \in Requests |->
                       IF i \in {w.id : w \in rows'} \ Ids
                       THEN IF l # External /\ [id |-> l, tenant |-> job[i].tenant] \in templates
                            THEN l ELSE External
                       ELSE links[i]]
    /\ imp' = [imp EXCEPT !.calm = FALSE]
    /\ UNCHANGED <<templates, doc, imports, unused>>

\* Who is changing the zone of a name.
Changing(n) ==
    {r \in Requests : Active(r) /\ job[r].name = n /\ pc[r] \notin {"unforward", "forward"}}
      \cup (IF imp.pc \in {"overwrite", "conflict", "live", "link", "insert", "account"}
                /\ imp.cur.name = n THEN {External} ELSE {})

Crowded == {n \in Names : Cardinality(Changing(n)) > 1}
Settled == {n \in Names : Changing(n) = {} /\ ~Served(n) /\ NameFree(n)}

\* Bound: no fault happens while there are templates.
BNext ==
    \/ \E t \in Tenants : Export(t)
    \/ \E t \in Tenants, mode \in {"skip", "overwrite"}, full \in BOOLEAN : StartImport(t, mode, full)
    \/ Answer /\ UNCHANGED raced
    \/ /\ Import \/ ImportFails \/ ZoneStep \/ \E w \in rows : RowLost(w)
       /\ faults' # faults => templates = {}
       /\ raced' = (raced \cup Crowded') \ Settled'

BSpec == BInit /\ [][BNext]_all

-----------------------------------------------------------------------------
(* Properties.  OrphanExplained, OverlapOnlyByRace and RegistryRefined of  *)
(* ZoneLifecycle are to hold with imports too.                             *)

Agrees(w) == \E z \in pdns : z.name = w.name /\ z.meta = w.meta /\ z.account = w.tenant

\* A row's zone is on the server, under its tenant's account and with the
\* row's kind, masters and DNSSEC flag, unless one request or import is
\* between the two stores, a fault cut one off there, or two of them changed
\* the zone at a time: both load the row or the zone first and write all of
\* it (update, zones.go; importer.zone, backup.go), so the later write of one
\* store need not be the later one of the other.
AgreeUnlessRaced ==
    \A w \in rows :
        Agrees(w) \/ Changing(w.name) # {} \/ w.id \in torn \/ w.name \in raced

\* When an import ends that nothing disturbed, every zone of its document has
\* a row of the target again, or is reported missing, and is, or belongs to or
\* overlaps a zone of another tenant, or has another account: whatever an
\* earlier import that failed half-way, a lost row or a failed request left
\* behind.  The rows it made agree with the server and link to templates of
\* the target only.
ImportRestores ==
    imp.pc = "end" /\ imp.calm =>
        /\ \A z \in doc.zones :
              \/ Local(z.name) # {}
              \/ ~Served(z.name) /\ z.name \in imp.missing
              \/ Taken(imp.target, z.name)
              \/ \E y \in pdns : /\ y.name = z.name
                                 /\ y.account \notin {External, imp.target, imp.origin}
        /\ \A w \in {v \in rows : v.id \in imp.made} :
              /\ Agrees(w)
              /\ links[w.id] = External \/ [id |-> links[w.id], tenant |-> w.tenant] \in templates
=============================================================================
