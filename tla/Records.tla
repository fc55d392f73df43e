------------------------------ MODULE Records ------------------------------
(***************************************************************************)
(* The record service (internal/records) on one zone of one tenant: record *)
(* sets are read, the change is validated against what was read, and one   *)
(* PATCH applies it; then an event tells the subscribers.  No lock spans   *)
(* the read and the PATCH, and the zone itself can be deleted and created  *)
(* again (from a template, internal/templates) meanwhile: PowerDNS         *)
(* addresses it by its name.                                               *)
(*                                                                         *)
(* A PATCH may fail without effect, or take effect and report an error;    *)
(* publishing is best effort; the process may stop at any point.           *)
(***************************************************************************)
EXTENDS RecordSets

CONSTANTS
    Zone,           \* the zone's name
    PlaceholderZone,\* the zone templates are validated against when saved
    Writers,        \* requests, one operation each
    Inputs,         \* the record sets requests ask for
    Origs,          \* the owners and types requests name to change or delete
    Templates,      \* lists of template records
    Tried,          \* those of them that are saved while requests run
    Nameservers,    \* the nameserver lists of a zone creation
    None,
    MaxFaults       \* bound: failed or unanswered calls, lost events, crashes

ASSUME RecordsConstants ==
    /\ None \notin Writers
    /\ Tried \subseteq Templates
    /\ \A t \in Templates : Len(t) \in Nat
    /\ "SOA" \notin Editable
    /\ MaxFaults \in Nat

VARIABLES
    kind,       \* "native" or "slave": the kind of the zone's row
    sets,       \* the zone's record sets on the server ({}: no zone; one has its SOA)
    template,   \* the tenant's template, a sequence of records; None: none
    pc,
    job,        \* by writer: what it is about to send, and what it read
    faults,
    stale,      \* history: names with a CNAME beside other data that a PATCH
                \* caused by overtaking another one
    told,       \* the keys the last event about each says to exist
    author,     \* history: by key, the writer of the last change
    doubt       \* history: keys whose last change was not followed, in order, by the
                \* end of its request

vars == <<kind, sets, template, pc, job, faults, stale, told, author, doubt>>

NoJob == [changes |-> [replace |-> {}, delete |-> {}], read |-> {},
          zone |-> [sets |-> {}, ns |-> {}]]
Keys  == {Key(ReplaceSet(Zone, in)) : in \in {i \in Inputs : RecordSet(Zone, i, {})}}
KeysOf(s) == {Key(e) : e \in s}

\* normalize: a template is stored when it expands in the placeholder zone.
Storable(lists) == {t \in lists : Expandable(PlaceholderZone, t)}

FromTemplate(t, ns) == mergeApexNS(Zone, ExpandRecords(Zone, t), ns)

Init ==
    /\ kind \in {"native", "slave"}
    /\ template \in Storable(Templates) \cup {None}
    /\ sets \in {Created(Zone, [sets |-> {}, ns |-> ns]) : ns \in Nameservers}
    /\ pc = [w \in Writers |-> IF template \in Tried \cup {None} THEN "idle" ELSE "done"]
    /\ job = [w \in Writers |-> NoJob]
    /\ faults = MaxFaults
    /\ stale = {}
    /\ told = KeysOf(sets)
    /\ author = [k \in Keys |-> None]
    /\ doubt = {}

-----------------------------------------------------------------------------
(* The requests up to their PATCH: read, validate, decide.                 *)

writable == kind # "slave"

Goto(w, step, j) ==
    /\ pc' = [pc EXCEPT ![w] = step]
    /\ job' = [job EXCEPT ![w] = j]

History == <<stale, told, author, doubt>>

Prepared(w, replace, delete) ==
    /\ Goto(w, "patch", [changes |-> [replace |-> replace, delete |-> delete],
                         read |-> sets, zone |-> NoJob.zone])
    /\ UNCHANGED <<kind, sets, template, faults, History>>

\* apply (Upsert, and Apply for the IPAM synchronisation and ACME).
Upsert(w, in) ==
    /\ pc[w] = "idle"
    /\ writable /\ sets # {}
    /\ RecordSet(Zone, in, sets)
    /\ Prepared(w, {ReplaceSet(Zone, in)}, {})

\* The canonical key of a set that users may name, in the zone as it was read.
\* find: the set is among those that were read.
Named(o) ==
    /\ RecordName(Zone, o.owner) /\ o.type \in Editable
    /\ <<Qualified(Zone, o.owner), o.type>> \in KeysOf(sets)

\* update: a rename replaces the new set and deletes the old one in one PATCH,
\* and refuses to overwrite another set.
Update(w, o, in) ==
    LET old    == <<Qualified(Zone, o.owner), o.type>>
        others == {s \in sets : Key(s) # old}
        new    == ReplaceSet(Zone, in)
    IN  /\ pc[w] = "idle"
        /\ writable /\ sets # {}
        /\ Named(o)
        /\ RecordSet(Zone, in, others)
        /\ Key(new) \notin KeysOf(others)
        /\ Prepared(w, {new}, {old} \ {Key(new)})

\* remove (Delete, and Remove where an absent set is a success).
Delete(w, o) ==
    /\ pc[w] = "idle"
    /\ writable /\ sets # {}
    /\ Named(o)
    /\ Prepared(w, {}, {<<Qualified(Zone, o.owner), o.type>>})

\* Whatever the checks refuse, or cannot read, ends the request.
Refused(w) ==
    /\ pc[w] = "idle"
    /\ Goto(w, "done", NoJob)
    /\ UNCHANGED <<kind, sets, template, faults, History>>

-----------------------------------------------------------------------------
(* The PATCH and the event.                                                *)

Touched(c) == c.delete \cup KeysOf(c.replace)
At(s, n)   == {e \in s : e.name = n}
Conflicting(s) == {n \in {e.name : e \in s} :
                      \E e, f \in At(s, n) : e.type = "CNAME" /\ f.type # "CNAME"}

\* The server applies w's changes; history notes the names at which it holds
\* other sets than w validated against.
Applied(w) ==
    LET c == job[w].changes
        overtaken == {k[1] : k \in {k \in Touched(c) :
                                      At(sets, k[1]) # At(job[w].read, k[1])}}
    IN  /\ sets' = Patched(sets, c)
        /\ stale' = (stale \cup overtaken) \cap Conflicting(sets')
        /\ author' = [k \in Keys |-> IF k \in Touched(c) THEN w ELSE author[k]]
        /\ doubt' = doubt \cup Touched(c)

\* Mutant of Patch: the old name of a rename is never mentioned again.
PatchForgetful(w) ==
    /\ pc[w] = "patch" /\ sets # {}
    /\ Applied(w)
    /\ Goto(w, "emit", [job[w] EXCEPT !.read = {}, !.changes.delete =
                            IF job[w].changes.replace = {} THEN @ ELSE {}])
    /\ UNCHANGED <<kind, template, faults, told>>

Patch(w) ==
    /\ pc[w] = "patch" /\ sets # {}
    /\ Applied(w)
    /\ Goto(w, "emit", [job[w] EXCEPT !.read = {}])
    /\ UNCHANGED <<kind, template, faults, told>>

\* The zone is gone: ErrNotFound.
PatchMissing(w) ==
    /\ pc[w] = "patch" /\ sets = {}
    /\ Goto(w, "done", NoJob)
    /\ UNCHANGED <<kind, sets, template, faults, History>>

\* EmitRecord: upserted for the new set, then deleted for the old one.
Emit(w) ==
    LET c == job[w].changes
    IN  /\ pc[w] = "emit"
        /\ told' = (told \cup KeysOf(c.replace)) \ c.delete
        /\ doubt' = {k \in doubt \cup Touched(c) : author[k] # w}
        /\ Goto(w, "done", NoJob)
        /\ UNCHANGED <<kind, sets, template, faults, stale, author>>

-----------------------------------------------------------------------------
(* The zone around the records.                                            *)

\* templates.Create and Update.
SaveTemplate(t) ==
    /\ t \in Storable(Tried)
    /\ template' = t
    /\ UNCHANGED <<kind, sets, pc, job, faults, History>>

DeleteTemplate ==
    /\ template # None
    /\ template' = None
    /\ UNCHANGED <<kind, sets, pc, job, faults, History>>

\* zones.Create from the template: it is expanded first; the server creates the
\* zone later.  A secondary takes no template.
CreateZone(w, ns) ==
    /\ pc[w] = "idle" /\ sets = {} /\ writable
    /\ template # None /\ Expandable(Zone, template)
    /\ Goto(w, "post", [NoJob EXCEPT !.zone = FromTemplate(template, ns)])
    /\ UNCHANGED <<kind, sets, template, faults, History>>

\* The event of the zone, created or deleted, stands for all of its sets.
Whole(w, s) ==
    /\ sets' = s
    /\ stale' = Conflicting(s) \cap stale
    /\ told' = KeysOf(s)
    /\ author' = [k \in Keys |-> w]
    /\ doubt' = {}
    /\ Goto(w, "done", NoJob)
    /\ UNCHANGED <<kind, template, faults>>

PostZone(w) ==
    /\ pc[w] = "post" /\ sets = {}
    /\ CreateOK(Zone, job[w].zone)
    /\ Whole(w, Created(Zone, job[w].zone))

PostRefused(w) ==
    /\ pc[w] = "post"
    /\ sets # {} \/ ~CreateOK(Zone, job[w].zone)
    /\ Goto(w, "done", NoJob)
    /\ UNCHANGED <<kind, sets, template, faults, History>>

DeleteZone(w) ==
    /\ pc[w] = "idle" /\ sets # {}
    /\ Whole(w, {})

-----------------------------------------------------------------------------
(* Faults.                                                                 *)

Fault == faults > 0 /\ faults' = faults - 1

\* A call fails without effect, the event is lost, or the process stops here.
CutOff(w) ==
    /\ Fault
    /\ pc[w] \in {"patch", "emit", "post"}
    /\ Goto(w, "done", NoJob)
    /\ UNCHANGED <<kind, sets, template, History>>

\* The PATCH takes effect and its answer is lost: no event.
AnswerLost(w) ==
    /\ Fault
    /\ pc[w] = "patch" /\ sets # {}
    /\ Applied(w)
    /\ Goto(w, "done", NoJob)
    /\ UNCHANGED <<kind, template, told>>

Request(w) ==
    \/ \E in \in Inputs : Upsert(w, in)
    \/ \E o \in Origs, in \in Inputs : Update(w, o, in)
    \/ \E o \in Origs : Delete(w, o)
    \/ \E ns \in Nameservers : CreateZone(w, ns)
    \/ Refused(w)
    \/ DeleteZone(w)

Step(w) == Patch(w) \/ PatchMissing(w) \/ Emit(w) \/ PostZone(w) \/ PostRefused(w)

Next ==
    \/ \E w \in Writers : Request(w) \/ Step(w) \/ CutOff(w) \/ AnswerLost(w)
    \/ \E t \in Tried : SaveTemplate(t)
    \/ DeleteTemplate

Spec == Init /\ [][Next]_vars

-----------------------------------------------------------------------------
(* Properties.                                                             *)

\* A CNAME shares its name with other data only when a PATCH was applied there
\* over sets that had changed since its request validated against them: the
\* two requests of "CNAME must be alone at its name" overlapped.  Renames,
\* deletions, templates and a zone created anew never break the rule alone.
CnameAlone == Conflicting(sets) \subseteq stale

\* What subscribers were last told about a record set, that it was upserted or
\* deleted, is what the server holds, unless the request that changed it last
\* has not published yet, was cut off, or published before the one it overtook
\* (records.go publishes after the PATCH, under no lock).
EventsTell ==
    \A k \in Keys \ doubt : k \in told <=> k \in KeysOf(sets)

\* The owner, type and value of every record of the sets.
Facts(s) == UNION {{<<e.name, e.type, v>> : v \in e.values} : e \in s}

\* A zone created from a template that expands holds exactly the records of
\* the template and the nameservers asked for, whatever the grouping, the
\* priorities and the merge of the NS sets do, and the server takes it
\* (spec.md: "the records exist in the new zone").
TemplateComplete ==
    template # None /\ Expandable(Zone, template) =>
        \A ns \in Nameservers :
            LET m == FromTemplate(template, ns)
                n == {<<key(Zone, template[i])[1], template[i].type,
                        Contents[template[i].type][One(Zone, template[i]).values[1]]>> :
                          i \in 1..Len(template)}
            IN  /\ CreateOK(Zone, m)
                /\ Facts(Created(Zone, m)) = n \cup {<<Zone, "NS", v>> : v \in ns}
                /\ Conflicting(Created(Zone, m)) = {}

\* The order of a template's records decides nothing but TTLs: a stored template
\* could be stored reversed, is then accepted for the same zone, and makes the
\* same records there.
OrderFree ==
    template # None =>
        LET rev == [i \in 1..Len(template) |-> template[Len(template) + 1 - i]]
        IN  /\ Expandable(PlaceholderZone, rev)
            /\ Expandable(Zone, template) <=> Expandable(Zone, rev)
            /\ Expandable(Zone, template) =>
                   Facts(ExpandRecords(Zone, template)) = Facts(ExpandRecords(Zone, rev))

=============================================================================
