--------------------------- MODULE ZoneLifecycle ---------------------------
(***************************************************************************)
(* The zone service (internal/zones): Create, Update and Delete of a zone  *)
(* that lives in two stores, the dns_zones table and the shared PowerDNS   *)
(* server, plus a best-effort forward entry on the recursor.               *)
(*                                                                         *)
(* Every request runs as its own goroutine.  Each call it makes (one SQL   *)
(* transaction, one HTTP call) is one atomic step of the model; between    *)
(* two calls any other request may run.  A call may fail without effect    *)
(* (connection refused, cancelled context), or take effect and still       *)
(* report an error (the answer is lost, the client's timeout fires), and   *)
(* the process may stop with requests in flight.                           *)
(*                                                                         *)
(* A request performs one operation, so the id that prepare mints for a    *)
(* new zone (store.NewID) is represented by the creating request itself.   *)
(* PowerDNS addresses a zone by an id that is a function of its name       *)
(* (pdns_id), so the name stands for both.                                 *)
(***************************************************************************)
EXTENDS DnsNames, FiniteSets

CONSTANTS
    Tenants,        \* tenants of the platform
    Names,          \* zone names, as label sequences
    Requests,       \* request identities, one operation each
    Metas,          \* the PowerDNS-relevant metadata: kind, masters, DNSSEC
    Preexisting,    \* names PowerDNS serves before the platform starts
    Leftover,       \* forwards the recursor holds at that time
    External,       \* account and creator of a zone made outside the platform
    MaxInFlight,    \* bound: requests in flight at a time
    MaxFaults       \* bound: failed calls, crashes and foreign provisionings

ASSUME ConstantsOK ==
    /\ Names \subseteq Seq(STRING)
    /\ Preexisting \subseteq Names
    /\ Leftover \subseteq Names
    /\ External \notin Tenants
    /\ External \notin Requests
    /\ MaxInFlight \in Nat
    /\ MaxFaults \in Nat

VARIABLES
    rows,       \* dns_zones: a set of rows
    pdns,       \* the zones PowerDNS serves
    forwards,   \* names the recursor forwards to PowerDNS
    pc,         \* next call of each request
    job,        \* the arguments of each request, and what it loaded
    faults,     \* faults still to come
    existing,   \* history: the rows there were when a Create was received
    torn        \* history: zones a fault left changed in one store only

vars == <<rows, pdns, forwards, pc, job, faults, existing, torn>>

Row  == [id : Requests, tenant : Tenants, name : Names, meta : Metas]
Zone == [name : Names, account : Tenants \cup {External},
         creator : Requests \cup {External}, meta : Metas]
Job  == [tenant : Tenants, name : Names, id : Requests,
         prev : Metas, next : Metas]

CreateSteps == {"own", "conflict", "probe", "post", "insert", "compensate",
                "unforward", "forward"}
UpdateSteps == {"put", "save", "restore"}
DeleteSteps == {"drop", "remove", "clear", "erase"}

Labels == CreateSteps \cup UpdateSteps \cup DeleteSteps \cup {"idle", "done"}

TypeOK ==
    /\ rows \subseteq Row
    /\ pdns \subseteq Zone
    /\ forwards \subseteq Names
    /\ pc \in [Requests -> Labels]
    /\ job \in [Requests -> Job \cup {External}]
    /\ \A r \in Requests : pc[r] # "idle" => job[r] \in Job
    /\ faults \in Nat
    /\ existing \in [Requests -> SUBSET Requests]
    /\ torn \subseteq Requests

Ids       == {w.id : w \in rows}
Served(n) == \E z \in pdns : z.name = n
Active(r) == pc[r] \notin {"idle", "done"}
InFlight  == {r \in Requests : Active(r)}

Init ==
    /\ rows = {}
    /\ pdns \in {{[name |-> n, account |-> External, creator |-> External,
                   meta |-> m] : n \in Preexisting} : m \in Metas}
    /\ forwards = Leftover
    /\ pc = [r \in Requests |-> "idle"]
    /\ job = [r \in Requests |-> External]
    /\ faults = MaxFaults
    /\ existing = [r \in Requests |-> {}]
    /\ torn = {}

-----------------------------------------------------------------------------
(* The stores as the service uses them.                                    *)

\* Mutant of Taken: only ancestors of the new name are looked at.
TakenByAncestor(t, n) == \E w \in rows : w.tenant # t /\ InZone(n, w.name)

\* dns_zone_conflict(name, tenant): another tenant's row overlaps the name.
Taken(t, n) == \E w \in rows : w.tenant # t /\ Overlap(w.name, n)

\* Mutant of NameFree: the table has no unique index.
AlwaysFree(n) == TRUE

\* The unique index on dns_zones.name decides the INSERT.
NameFree(n) == \A w \in rows : w.name # n

NewRow(r) == [id |-> r, tenant |-> job[r].tenant, name |-> job[r].name,
              meta |-> job[r].next]

\* UPDATE ... WHERE tenant_id = $1 AND id = $2, and the DELETE alike.
Mine(r) == {w \in rows : w.tenant = job[r].tenant /\ w.id = job[r].id}
Saved(r) == (rows \ Mine(r))
    \cup {[id |-> w.id, tenant |-> w.tenant, name |-> w.name,
           meta |-> job[r].next] : w \in Mine(r)}

\* PowerDNS: POST, PUT and DELETE of a zone, addressed by its name.
Posted(r) == pdns \cup {[name |-> job[r].name, account |-> job[r].tenant,
                         creator |-> r, meta |-> job[r].next]}
Dropped(r) == {z \in pdns : z.name # job[r].name}
Put(r, m) == Dropped(r)
    \cup {[name |-> z.name, account |-> job[r].tenant, creator |-> z.creator,
           meta |-> m] : z \in pdns \ Dropped(r)}

-----------------------------------------------------------------------------
(* Admission: a request is received and its arguments are fixed.           *)

Goto(r, label) == pc' = [pc EXCEPT ![r] = label]

Admit(r, arg, label) ==
    /\ pc[r] = "idle"
    /\ Cardinality(InFlight) < MaxInFlight
    /\ job' = [job EXCEPT ![r] = arg]
    /\ Goto(r, label)
    /\ UNCHANGED <<rows, pdns, forwards, faults, torn>>

\* Create: prepare mints the id and validates the input.
StartCreate(r, t, n, m) ==
    /\ Admit(r, [tenant |-> t, name |-> n, id |-> r, prev |-> m, next |-> m],
             "own")
    /\ existing' = [existing EXCEPT ![r] = Ids]

\* Update: the row is loaded under the caller's tenant; PowerDNS is only
\* called when its metadata changes.
StartUpdate(r, w, m) ==
    /\ Admit(r, [tenant |-> w.tenant, name |-> w.name, id |-> w.id,
                 prev |-> w.meta, next |-> m],
             IF m # w.meta THEN "put" ELSE "save")
    /\ UNCHANGED existing

StartDelete(r, w) ==
    /\ Admit(r, [tenant |-> w.tenant, name |-> w.name, id |-> w.id,
                 prev |-> w.meta, next |-> w.meta],
             "drop")
    /\ UNCHANGED existing

-----------------------------------------------------------------------------
(* The calls, each taking effect and answering.                            *)

At(r, here, label) ==
    /\ pc[r] = here
    /\ Goto(r, label)
    /\ UNCHANGED <<job, faults, existing, torn>>

\* Create, the three ownership rules: GetZoneByName, ZoneConflict, GetZone.
CheckOwn(r) ==
    /\ At(r, "own", IF \E w \in rows : /\ w.tenant = job[r].tenant
                                       /\ w.name = job[r].name
                    THEN "done" ELSE "conflict")
    /\ UNCHANGED <<rows, pdns, forwards>>

CheckConflict(r) ==
    /\ At(r, "conflict", IF Taken(job[r].tenant, job[r].name)
                         THEN "done" ELSE "probe")
    /\ UNCHANGED <<rows, pdns, forwards>>

Probe(r) ==
    /\ At(r, "probe", IF Served(job[r].name) THEN "done" ELSE "post")
    /\ UNCHANGED <<rows, pdns, forwards>>

\* PowerDNS refuses a second zone of the same name.
Post(r) ==
    /\ \/ At(r, "post", "done") /\ Served(job[r].name) /\ UNCHANGED pdns
       \/ At(r, "post", "insert") /\ ~Served(job[r].name) /\ pdns' = Posted(r)
    /\ UNCHANGED <<rows, forwards>>

\* Mutant of Insert: a refused insert is answered without compensation.
InsertUncompensated(r) ==
    /\ At(r, "insert", IF NameFree(job[r].name) THEN "unforward" ELSE "done")
    /\ rows' = IF NameFree(job[r].name) THEN rows \cup {NewRow(r)} ELSE rows
    /\ UNCHANGED <<pdns, forwards>>

Insert(r) ==
    /\ \/ /\ At(r, "insert", "compensate")
          /\ ~NameFree(job[r].name)
          /\ UNCHANGED rows
       \/ /\ At(r, "insert", "unforward")
          /\ NameFree(job[r].name)
          /\ rows' = rows \cup {NewRow(r)}
    /\ UNCHANGED <<pdns, forwards>>

\* The local insert failed: the PowerDNS zone is deleted again.
Compensate(r) ==
    /\ At(r, "compensate", "done")
    /\ pdns' = Dropped(r)
    /\ UNCHANGED <<rows, forwards>>

\* SyncForward: DELETE, then POST, of the forward entry.
Unforward(r) ==
    /\ At(r, "unforward", "forward")
    /\ forwards' = forwards \ {job[r].name}
    /\ UNCHANGED <<rows, pdns>>

Forward(r) ==
    /\ At(r, "forward", "done")
    /\ forwards' = forwards \cup {job[r].name}
    /\ UNCHANGED <<rows, pdns>>

\* Update: PUT of the new metadata, then the row, then (row gone) PUT back.
PutMeta(r) ==
    /\ At(r, "put", IF Served(job[r].name) THEN "save" ELSE "done")
    /\ pdns' = Put(r, job[r].next)
    /\ UNCHANGED <<rows, forwards>>

\* Mutant of AfterUnsaved: the previous metadata is not put back.
NeverRestored(r) == "done"

AfterUnsaved(r) == IF job[r].next # job[r].prev THEN "restore" ELSE "done"

Save(r) ==
    /\ At(r, "save", IF Mine(r) # {} THEN "done" ELSE AfterUnsaved(r))
    /\ rows' = Saved(r)
    /\ UNCHANGED <<pdns, forwards>>

Restore(r) ==
    /\ At(r, "restore", "done")
    /\ pdns' = Put(r, job[r].prev)
    /\ UNCHANGED <<rows, forwards>>

\* Delete: PowerDNS (an absent zone is fine), forward, sync references, row.
Drop(r) ==
    /\ At(r, "drop", "remove")
    /\ pdns' = Dropped(r)
    /\ UNCHANGED <<rows, forwards>>

RemoveForward(r) ==
    /\ At(r, "remove", "clear")
    /\ forwards' = forwards \ {job[r].name}
    /\ UNCHANGED <<rows, pdns>>

ClearSyncZone(r) ==
    /\ At(r, "clear", "erase")
    /\ UNCHANGED <<rows, pdns, forwards>>

Erase(r) ==
    /\ At(r, "erase", "done")
    /\ rows' = rows \ Mine(r)
    /\ UNCHANGED <<pdns, forwards>>

Call(r) ==
    \/ CheckOwn(r) \/ CheckConflict(r) \/ Probe(r) \/ Post(r) \/ Insert(r)
    \/ Compensate(r) \/ Unforward(r) \/ Forward(r)
    \/ PutMeta(r) \/ Save(r) \/ Restore(r)
    \/ Drop(r) \/ RemoveForward(r) \/ ClearSyncZone(r) \/ Erase(r)

-----------------------------------------------------------------------------
(* Disturbances.                                                           *)

\* One store has been changed and the other is still to follow.
HalfDone(r) ==
    \/ pc[r] \in {"insert", "compensate", "restore", "remove", "clear", "erase"}
    \/ pc[r] = "save" /\ job[r].next # job[r].prev

\* The calls whose failure the code does not compensate.
NoWayBack == {"compensate", "restore", "clear", "erase"}

Disturb == faults > 0 /\ faults' = faults - 1

\* Where the code goes when the call at hand reports an error: compensation
\* after the insert and the save, onwards after the best-effort forward calls.
AfterFailure(r) ==
    CASE pc[r] = "insert"    -> "compensate"
      [] pc[r] = "save"      -> AfterUnsaved(r)
      [] pc[r] = "unforward" -> "forward"
      [] pc[r] = "remove"    -> "clear"
      [] OTHER               -> "done"

\* The call fails without effect.
CallFails(r) ==
    /\ Active(r)
    /\ Disturb
    /\ Goto(r, AfterFailure(r))
    /\ torn' = IF pc[r] \in NoWayBack THEN torn \cup {job[r].id} ELSE torn
    /\ UNCHANGED <<rows, pdns, forwards, job, existing>>

\* The call takes effect, but its answer is lost: the service sees an error.
AnswerLost(r) ==
    /\ \/ /\ pc[r] = "post" /\ ~Served(job[r].name)
          /\ pdns' = Posted(r) /\ UNCHANGED rows
       \/ /\ pc[r] = "insert" /\ NameFree(job[r].name)
          /\ rows' = rows \cup {NewRow(r)} /\ UNCHANGED pdns
       \/ pc[r] = "put" /\ pdns' = Put(r, job[r].next) /\ UNCHANGED rows
       \/ pc[r] = "save" /\ rows' = Saved(r) /\ UNCHANGED pdns
       \/ pc[r] = "drop" /\ pdns' = Dropped(r) /\ UNCHANGED rows
    /\ Disturb
    /\ Goto(r, AfterFailure(r))
    /\ torn' = torn \cup {job[r].id}
    /\ UNCHANGED <<forwards, job, existing>>

\* The caller goes away: its context is cancelled, which every remaining call
\* of the request uses, the compensating ones included.
Cancel(r) ==
    /\ Active(r)
    /\ Disturb
    /\ Goto(r, "done")
    /\ torn' = IF HalfDone(r) THEN torn \cup {job[r].id} ELSE torn
    /\ UNCHANGED <<rows, pdns, forwards, job, existing>>

\* The process stops with requests in flight; nothing resumes them.
Crash ==
    /\ InFlight # {}
    /\ Disturb
    /\ pc' = [r \in Requests |-> IF Active(r) THEN "done" ELSE pc[r]]
    /\ torn' = torn \cup {job[r].id : r \in {q \in InFlight : HalfDone(q)}}
    /\ UNCHANGED <<rows, pdns, forwards, job, existing>>

\* A zone appears in PowerDNS from outside (an operator, a supermaster).
Provision(n, m) ==
    /\ ~Served(n)
    /\ Disturb
    /\ pdns' = pdns \cup {[name |-> n, account |-> External,
                           creator |-> External, meta |-> m]}
    /\ UNCHANGED <<rows, forwards, pc, job, existing, torn>>

Admission ==
    \E r \in Requests :
        \/ \E t \in Tenants, n \in Names, m \in Metas : StartCreate(r, t, n, m)
        \/ \E w \in rows, m \in Metas : StartUpdate(r, w, m)
        \/ \E w \in rows : StartDelete(r, w)

Disturbance ==
    \/ \E r \in Requests : CallFails(r) \/ AnswerLost(r) \/ Cancel(r)
    \/ Crash
    \/ \E n \in Names, m \in Metas : Provision(n, m)

Next ==
    \/ Admission
    \/ \E r \in Requests : Call(r)
    \/ Disturbance

Spec == Init /\ [][Next]_vars

-----------------------------------------------------------------------------
(* Properties that hold under every interleaving and every fault.          *)

\* A zone the platform created in PowerDNS has its row, or its Create is
\* still between the two stores, or a fault stopped that Create before it
\* could compensate: whatever other requests do meanwhile, Create and Delete
\* leave no orphan behind.
OrphanExplained ==
    \A z \in pdns :
        \/ z.creator = External
        \/ z.creator \in Ids
        \/ pc[z.creator] \in {"insert", "compensate"}
        \/ z.creator \in torn

\* Zones of two tenants overlap only when their Creates raced: a zone that
\* was there when a Create was received is never overlapped by its result.
OverlapOnlyByRace ==
    \A v, w \in rows :
        v.tenant # w.tenant /\ Overlap(v.name, w.name)
            => v.id \notin existing[w.id]

\* The rows are a registry in which a name has at most one owner, taken only
\* while free and given up only by its owner.
Registry == INSTANCE ZoneRegistry
                WITH owned <- {<<w.name, w.tenant>> : w \in rows}
RegistryRefined == Registry!RegistrySpec

(* Properties of requests that run one at a time.                          *)

\* No two tenants hold overlapping zones.
NoOverlap ==
    \A v, w \in rows : v.tenant # w.tenant => ~Overlap(v.name, w.name)

(* What the documentation says of every execution.                         *)

\* With no fault at all, a row never ends up without its PowerDNS zone.
NoHalfZone ==
    faults = MaxFaults /\ InFlight = {} =>
        \A w \in rows : \E z \in pdns : z.name = w.name

\* A failed change leaves no zone behind in PowerDNS without its row.
NoStrayZone ==
    InFlight = {} =>
        \A z \in pdns : z.creator = External \/ z.creator \in Ids
=============================================================================
