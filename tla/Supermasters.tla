---------------------------- MODULE Supermasters ----------------------------
(***************************************************************************)
(* Supermasters (internal/supermasters, and their part of                  *)
(* internal/backup): an (ip, nameserver) pair is a row of dns_supermasters *)
(* and an entry of the shared PowerDNS server.  A change goes to PowerDNS  *)
(* first and is reversed there when the local write fails.  An import      *)
(* restores exported rows, working from one listing of the server.         *)
(*                                                                         *)
(* Every request runs as its own goroutine; each call it makes is one step *)
(* here.  PowerDNS knows an entry by its pair alone, whoever owns it.      *)
(***************************************************************************)
EXTENDS Naturals, FiniteSets

CONSTANTS
    Tenants,
    Pairs,          \* (ip, nameserver) pairs
    Requests,       \* requests, one operation each
    None,           \* no entry; no request
    Unset,          \* the account of an entry made by hand
    Foreign,        \* the account of somebody who is no tenant
    MaxFaults,      \* bound: failed calls, lost answers, restarts
    MaxExports      \* bound: documents, the one made before included

ASSUME SupermasterConstants ==
    /\ None \notin Tenants \cup {Unset, Foreign}
    /\ {Unset, Foreign} \cap Tenants = {}
    /\ {MaxFaults, MaxExports} \subseteq Nat

VARIABLES
    rows,       \* dns_supermasters
    entries,    \* account of each pair's entry in PowerDNS, or None
    doc,        \* the last backup document: its origin and rows
    pc, job,    \* the next call of each request, and what it works on
    faults,
    hurt,       \* history: pairs left half-changed by a fault
    twice       \* history: the requests that met another one they clash with,
                \* and the pair

vars == <<rows, entries, doc, pc, job, faults, hurt, twice>>

Accounts == Tenants \cup {Unset, Foreign}

\* The id of a row: the request that minted it (None: before all of them), and
\* the pair, as a restore into another tenant mints one per row.
RowIds == (Requests \cup {None}) \X Pairs
Row == [id : RowIds, tenant : Tenants, pair : Pairs]

NoJob == [op |-> "none", tenant |-> None, id |-> None, pair |-> None,
          touched |-> FALSE, abort |-> FALSE, origin |-> None,
          want |-> {}, todo |-> {}, live |-> [p \in Pairs |-> None]]

Steps == {"idle", "post", "insert", "undo", "drop", "erase", "restore",
          "list", "next", "done"}

TypeOK ==
    /\ rows \subseteq Row
    /\ entries \in [Pairs -> Accounts \cup {None}]
    /\ doc.made \in 0..MaxExports /\ doc.origin \in Tenants /\ doc.rows \subseteq Row
    /\ pc \in [Requests -> Steps]
    /\ \A r \in Requests :
        /\ job[r].op \in {"none", "create", "delete", "import"}
        /\ job[r].todo \subseteq Row
        /\ pc[r] \notin {"idle", "done", "list", "next"} =>
               job[r].tenant \in Tenants /\ job[r].id \in RowIds /\ job[r].pair \in Pairs
    /\ faults \in 0..MaxFaults
    /\ hurt \subseteq Pairs /\ twice \subseteq Requests \X Pairs

\* PowerDNS may hold entries the platform never made, and an administrator a
\* document exported before.
Init ==
    /\ rows = {}
    /\ entries \in [Pairs -> {None, Unset, Foreign}]
    /\ \E t \in Tenants, old \in {{}, Pairs} :
           doc = [made |-> IF old = {} THEN 0 ELSE 1, origin |-> t,
                  rows |-> {[id |-> <<None, p>>, tenant |-> t, pair |-> p] : p \in old}]
    /\ pc = [r \in Requests |-> "idle"]
    /\ job = [r \in Requests |-> NoJob]
    /\ faults = 0
    /\ hurt = {} /\ twice = {}

-----------------------------------------------------------------------------
Active(r) == pc[r] \notin {"idle", "done"}

\* The pairs a request is about, while it is at work.
Aims(r) == CASE ~Active(r)             -> {}
             [] job[r].op = "import"   -> job[r].want
             [] OTHER                  -> {job[r].pair}

\* The request goes on with j at step; a finished one keeps nothing.
Goto(r, step, j) ==
    /\ pc' = [pc EXCEPT ![r] = step]
    /\ job' = [job EXCEPT ![r] = IF step = "done" THEN NoJob ELSE j]

\* Two requests on one pair that get into each other's way: two Deletes, a
\* Delete that is being reversed and anything else, an import and anything else.
Clash(q, r) == \/ job'[q].op = "delete" /\ (job'[r].op = "delete" \/ job'[q].abort)
               \/ "import" \in {job'[q].op, job'[r].op}

Overlapping ==
    twice' = twice \cup {x \in Requests \X Pairs :
                 \E q \in Requests \ {x[1]} :
                     x[2] \in Aims(q)' \cap Aims(x[1])' /\ (Clash(q, x[1]) \/ Clash(x[1], q))}

\* GetSupermaster and the DELETE: tenant and id.
Mine(r) == {w \in rows : w.tenant = job[r].tenant /\ w.id = job[r].id}

\* The primary key and UNIQUE (ip, nameserver), over all tenants.
Free(r) == \A w \in rows : w.id # job[r].id /\ w.pair # job[r].pair

NewRow(r) == [id |-> job[r].id, tenant |-> job[r].tenant, pair |-> job[r].pair]

-----------------------------------------------------------------------------
(* Requests.  (Input that is refused changes nothing.)                     *)

Start(r, new, step) ==
    /\ pc[r] = "idle"
    /\ Goto(r, step, new)
    /\ UNCHANGED <<rows, entries, doc, faults, hurt>>

StartCreate(r, t, p) ==
    Start(r, [NoJob EXCEPT !.op = "create", !.tenant = t, !.id = <<r, p>>, !.pair = p], "post")

\* delete loads the row first.
StartDelete(r, w) ==
    Start(r, [NoJob EXCEPT !.op = "delete", !.tenant = w.tenant, !.id = w.id,
                           !.pair = w.pair], "drop")

\* The rows to restore; remap mints new ids for another tenant.
Restored(r, t) ==
    {[id |-> IF t = doc.origin THEN w.id ELSE <<r, w.pair>>, tenant |-> t,
      pair |-> w.pair] : w \in doc.rows}

\* Import, for a platform administrator.
StartImport(r, t) ==
    /\ doc.rows # {}
    /\ Start(r, [NoJob EXCEPT !.op = "import", !.tenant = t, !.origin = doc.origin,
                              !.todo = Restored(r, t),
                              !.want = {w.pair : w \in doc.rows}], "list")

\* Export reads the tenant's rows in one query.
Export(t) ==
    /\ doc.made < MaxExports
    /\ doc' = [made |-> doc.made + 1, origin |-> t, rows |-> {w \in rows : w.tenant = t}]
    /\ UNCHANGED <<rows, entries, pc, job, faults, hurt>>

-----------------------------------------------------------------------------
(* The calls, each taking effect and answering.                            *)

\* A Create is over; an import goes on with the next row unless it failed.
After(r) == IF job[r].op = "import" /\ ~job[r].abort THEN "next" ELSE "done"

\* CreateSupermaster: PowerDNS refuses a pair it has.
Post(r) ==
    /\ pc[r] = "post"
    /\ IF entries[job[r].pair] = None
       THEN /\ entries' = [entries EXCEPT ![job[r].pair] = job[r].tenant]
            /\ Goto(r, "insert", [job[r] EXCEPT !.touched = TRUE])
       ELSE Goto(r, After(r), job[r]) /\ UNCHANGED entries
    /\ UNCHANGED <<rows, doc, faults, hurt>>

\* Mutant of AfterRefusal: a refused insert is answered without reversal.
AfterRefusalPlain(r) == After(r)

\* Only what this request put on the server is taken back.
AfterRefusal(r) == IF job[r].touched THEN "undo" ELSE After(r)

Insert(r) ==
    /\ pc[r] = "insert"
    /\ IF Free(r) THEN rows' = rows \cup {NewRow(r)} /\ Goto(r, After(r), job[r])
                  ELSE UNCHANGED rows /\ Goto(r, AfterRefusal(r), job[r])
    /\ UNCHANGED <<entries, doc, faults, hurt>>

Undo(r) ==
    /\ pc[r] = "undo"
    /\ entries' = [entries EXCEPT ![job[r].pair] = None]
    /\ Goto(r, After(r), job[r])
    /\ UNCHANGED <<rows, doc, faults, hurt>>

\* Delete: an entry PowerDNS no longer has is fine, and not restored.
Drop(r) ==
    /\ pc[r] = "drop"
    /\ entries' = [entries EXCEPT ![job[r].pair] = None]
    /\ Goto(r, "erase", [job[r] EXCEPT !.touched = entries[job[r].pair] # None])
    /\ UNCHANGED <<rows, doc, faults, hurt>>

AfterUnerased(r) == IF job[r].touched THEN "restore" ELSE "done"

\* The row may be gone meanwhile: that too is an error of the local delete.
Erase(r) ==
    /\ pc[r] = "erase"
    /\ rows' = rows \ Mine(r)
    /\ Goto(r, IF Mine(r) # {} THEN "done" ELSE AfterUnerased(r), job[r])
    /\ UNCHANGED <<entries, doc, faults, hurt>>

Restore(r) ==
    /\ pc[r] = "restore"
    /\ entries' = IF entries[job[r].pair] = None
                  THEN [entries EXCEPT ![job[r].pair] = job[r].tenant] ELSE entries
    /\ Goto(r, "done", NoJob)
    /\ UNCHANGED <<rows, doc, faults, hurt>>

\* Import: ListSupermasters, once.
ListSupermasters(r) ==
    /\ pc[r] = "list"
    /\ Goto(r, "next", [job[r] EXCEPT !.live = [p \in Pairs |-> IF p \in job[r].want THEN entries[p] ELSE None]])
    /\ UNCHANGED <<rows, entries, doc, faults, hurt>>

\* Mutant of OwnAccount: an entry made by hand is left alone.
TargetAccount(r, a) == a = job[r].tenant

\* Unset, the target's, or the origin tenant's.
OwnAccount(r, a) == a \in {Unset, job[r].tenant, job[r].origin}

\* The next row of the document: present already, listed under a foreign
\* account, listed and to be adopted, or to be created.
ImportRow(r, w) ==
    LET seen == job[r].live[w.pair]
        j    == [job[r] EXCEPT !.todo = @ \ {w}, !.id = w.id, !.pair = w.pair,
                               !.touched = FALSE]
    IN  /\ pc[r] = "next" /\ w \in job[r].todo
        /\ Goto(r, IF \E v \in rows : v.tenant = w.tenant /\ v.id = w.id THEN "next"
                   ELSE IF seen = None THEN "post"
                   ELSE IF OwnAccount(r, seen) THEN "insert" ELSE "next", j)
        /\ UNCHANGED <<rows, entries, doc, faults, hurt>>

EndImport(r) ==
    /\ pc[r] = "next" /\ job[r].todo = {}
    /\ Goto(r, "done", NoJob)
    /\ UNCHANGED <<rows, entries, doc, faults, hurt>>

Call(r) ==
    \/ Post(r) \/ Insert(r) \/ Undo(r) \/ Drop(r) \/ Erase(r) \/ Restore(r)
    \/ ListSupermasters(r) \/ EndImport(r)
    \/ \E w \in job[r].todo : ImportRow(r, w)

-----------------------------------------------------------------------------
(* Disturbances.                                                           *)

Fault == faults < MaxFaults /\ faults' = faults + 1

\* Where an error leads: reversal after the two local writes, else the end.
\* An import is given up.
AfterFailure(r) ==
    CASE pc[r] = "insert" -> IF job[r].touched THEN "undo" ELSE "done"
      [] pc[r] = "erase"  -> AfterUnerased(r)
      [] pc[r] = "undo"   -> After(r)
      [] OTHER            -> "done"

Fails(r) ==
    Goto(r, AfterFailure(r), [job[r] EXCEPT !.abort = @ \/ pc[r] # "undo"])

CallFails(r) ==
    /\ Active(r) /\ Fault
    /\ Fails(r)
    /\ hurt' = IF pc[r] \in {"undo", "restore"} \/ (pc[r] = "erase" /\ ~job[r].touched)
               THEN hurt \cup {job[r].pair} ELSE hurt
    /\ UNCHANGED <<rows, entries, doc>>

\* The call takes effect but reports an error.
AnswerLost(r) ==
    LET p == job[r].pair
    IN  /\ \/ /\ pc[r] = "post" /\ entries[p] = None
              /\ entries' = [entries EXCEPT ![p] = job[r].tenant] /\ UNCHANGED rows
           \/ /\ pc[r] = "insert" /\ Free(r)
              /\ rows' = rows \cup {NewRow(r)} /\ UNCHANGED entries
           \/ /\ pc[r] = "drop" /\ entries[p] # None
              /\ entries' = [entries EXCEPT ![p] = None] /\ UNCHANGED rows
           \/ /\ pc[r] = "erase" /\ Mine(r) # {}
              /\ rows' = rows \ Mine(r) /\ UNCHANGED entries
        /\ Fault
        /\ Fails(r)
        /\ hurt' = hurt \cup {p}
        /\ UNCHANGED doc

HalfDone(r) == pc[r] \in {"insert", "undo", "erase", "restore"}

\* The caller goes away, and with it the context of the calls to come.
Cancel(r) ==
    /\ Active(r) /\ Fault
    /\ Goto(r, "done", NoJob)
    /\ hurt' = IF HalfDone(r) THEN hurt \cup {job[r].pair} ELSE hurt
    /\ UNCHANGED <<rows, entries, doc>>

\* The process stops with requests in flight; nothing resumes them.
Crash ==
    /\ \E r \in Requests : Active(r)
    /\ Fault
    /\ pc' = [r \in Requests |-> IF Active(r) THEN "done" ELSE pc[r]]
    /\ job' = [r \in Requests |-> NoJob]
    /\ hurt' = hurt \cup {job[r].pair : r \in {q \in Requests : HalfDone(q)}}
    /\ UNCHANGED <<rows, entries, doc>>

Step ==
    \/ \E r \in Requests :
        \/ \E t \in Tenants : StartImport(r, t) \/ \E p \in Pairs : StartCreate(r, t, p)
        \/ \E w \in rows : StartDelete(r, w)
        \/ Call(r)
        \/ CallFails(r) \/ AnswerLost(r) \/ Cancel(r)
    \/ \E t \in Tenants : Export(t)
    \/ Crash

Next == Step /\ Overlapping

Spec == Init /\ [][Next]_vars

-----------------------------------------------------------------------------
(* Properties.                                                             *)

Quiet(p) == \A r \in Requests : p \notin Aims(r)

RowOf(p) == {w \in rows : w.pair = p}

\* With nobody at work on a pair, its row and its entry are both there, the
\* entry under the row's tenant (or adopted), or there is no row and no entry
\* of a tenant: Creates and Deletes of any tenants, however they interleave,
\* leave nothing half-done, unless a fault interrupted the reversal or two
\* requests that clash met on the pair.
StoresAgree ==
    \A p \in Pairs \ hurt :
        Quiet(p) /\ (\A r \in Requests : <<r, p>> \notin twice) => IF RowOf(p) = {} THEN entries[p] \notin Tenants
                    ELSE \A w \in RowOf(p) : entries[p] \in {w.tenant, Unset}

\* An import that gets to its end has a row for every pair of the document,
\* but for the pairs a foreign account holds on the server: also when an
\* earlier import was given up half-way, into whichever tenant, or when a
\* fault had left one half of the pair.  (A request that works on the same
\* pairs meanwhile may undo it.)
ImportRestores ==
    [][\A r \in Requests : EndImport(r) =>
        \A p \in job[r].want :
            \/ RowOf(p) # {} \/ <<r, p>> \in twice
            \/ entries[p] \notin {None, Unset, job[r].tenant, job[r].origin}]_vars

\* spec.md, US3-3: "When it is created or deleted, Then PowerDNS reflects it":
\* with no fault at all, a tenant's entry has its row.
NoStrayEntry ==
    faults = 0 => \A p \in Pairs : Quiet(p) /\ entries[p] \in Tenants => RowOf(p) # {}
=============================================================================
