--------------------------- MODULE AcmeChallenge ---------------------------
(***************************************************************************)
(* ACME DNS-01 challenges (internal/acmechallenge): Present adds a value   *)
(* to the TXT record set of a challenge name, CleanUp takes it away, and a *)
(* sweeper takes away the values whose CleanUp never came, from the rows   *)
(* that Present books.                                                     *)
(*                                                                         *)
(* The model is one challenge name of one tenant.  Several zones of the    *)
(* tenant may contain it and each operation writes the longest one it sees *)
(* when it starts.  A record set is the set of its values.  PowerDNS only  *)
(* replaces whole record sets, so an operation reads and writes back; the  *)
(* operations of one instance are serialised by a mutex of that instance.  *)
(* Zones come and go beside them, and people edit the same record set      *)
(* without taking that mutex.  (A secondary zone refuses a challenge at    *)
(* once: zones here are primaries.)                                        *)
(***************************************************************************)
EXTENDS DnsNames, FiniteSets

CONSTANTS
    Zones,          \* zone names the tenant may have
    Fqdn,           \* the challenge name
    Values,         \* challenge values
    Other,          \* a TXT value that people keep at the name
    Callers,        \* requests of the certificate service
    Instances,      \* service processes, each with a sweeper
    Nobody,         \* the holder of a free mutex
    SweepBatch,     \* sweepBatch
    MaxValues,      \* Limits.MaxValues: values of a record set
    MaxZones,       \* bound: zones created
    MaxFaults,      \* bound: failed calls, lost answers and crashes
    Settings        \* settings looked at: the callers, the values they use,
                    \* and bounds on the zones created and on people's edits

ASSUME ChallengeConstants ==
    /\ Zones \cup {Fqdn} \subseteq Seq(STRING)
    /\ \A z \in Zones : InZone(Fqdn, z)
    /\ Other \notin Values
    /\ Nobody \notin Callers \cup Instances
    /\ Callers \cap Instances = {}
    /\ SweepBatch \in Nat \ {0} /\ MaxValues \in Nat \ {0}
    /\ MaxZones \in Nat /\ MaxFaults \in Nat
    /\ Settings \subseteq [callers : SUBSET Callers, values : SUBSET Values,
                           zones : 0..MaxZones, edits : Nat]

Procs == Callers \cup Instances

VARIABLES
    setting,    \* the setting
    zone,       \* id of each zone's row (0: no such zone)
    minted,     \* zone ids given out
    txt,        \* values of the TXT record set at Fqdn, in each zone
    cname,      \* whether a CNAME is there instead
    books,      \* dns_acme_challenges; older: values with an older row, old:
                \* older than max_age
    lock,       \* holder of each instance's mutex for the name
    pc, job,    \* where each operation is, and what it works on
    batch,      \* rows the sweep of each instance has still to handle
    edits, faults,
    hurt        \* history: values hit by a fault or by a change of zones

envVars == <<setting, zone, minted, edits>>
vars == <<envVars, txt, cname, books, lock, pc, job, batch, faults, hurt>>

NoJob == [op |-> "none", value |-> Other, name |-> <<>>, id |-> 0, seen |-> {},
          host |-> Nobody]
Books == [value : Values, zone : 1..MaxZones, old : BOOLEAN, older : SUBSET Values]
Jobs == [op : {"present", "cleanup"}, value : Values, name : Zones, id : 1..MaxZones,
         seen : SUBSET (Values \cup {Other}), host : Instances]

TypeOK ==
    /\ setting \in Settings
    /\ zone \in [Zones -> 0..MaxZones]
    /\ minted \in 0..MaxZones
    /\ txt \in [Zones -> SUBSET (Values \cup {Other})]
    /\ cname \in [Zones -> BOOLEAN]
    /\ books \subseteq Books
    \* UNIQUE (tenant_id, fqdn, value)
    /\ \A b, c \in books : b.value = c.value => b = c
    /\ lock \in [Instances -> Procs \cup {Nobody}]
    /\ pc \in [Procs -> {"idle", "sweep", "lock", "cname", "txt", "write",
                         "record", "forget"}]
    /\ job \in [Procs -> Jobs \cup {NoJob}]
    /\ batch \in [Instances -> SUBSET Books]
    /\ edits \in 0..setting.edits /\ faults \in 0..MaxFaults
    /\ hurt \subseteq Values

Init ==
    /\ setting \in Settings
    /\ zone = [z \in Zones |-> 0]
    /\ minted = 0
    /\ txt = [z \in Zones |-> {}]
    /\ cname = [z \in Zones |-> FALSE]
    /\ books = {}
    /\ lock = [i \in Instances |-> Nobody]
    /\ pc = [p \in Procs |-> "idle"]
    /\ job = [p \in Procs |-> NoJob]
    /\ batch = [i \in Instances |-> {}]
    /\ edits = 0 /\ faults = 0
    /\ hurt = {}

-----------------------------------------------------------------------------
(* The two stores.                                                         *)

Live == {z \in Zones : zone[z] # 0}
Booked(v) == \E b \in books : b.value = v

Deleted(vs) == {[b EXCEPT !.older = @ \ vs] : b \in {c \in books : c.value \notin vs}}

\* DeleteChallenge: by name and value, whatever the zone of the row.
Without(v) == Deleted({v})

\* A call that fails; the others of the operation go on or not as written.
Fault == faults < MaxFaults /\ faults' = faults + 1

-----------------------------------------------------------------------------
(* Zones and records changed by others.                                    *)

\* Values in use when the zones change.
InUse ==
    {v \in Values : \/ \E z \in Zones : v \in txt[z]
                    \/ Booked(v)
                    \/ \E p \in Procs : pc[p] \notin {"idle", "sweep"} /\ job[p].value = v
                    \/ \E i \in Instances : \E b \in batch[i] : b.value = v}

CreateZone(z) ==
    /\ zone[z] = 0
    /\ minted < setting.zones
    /\ minted' = minted + 1
    /\ zone' = [zone EXCEPT ![z] = minted + 1]
    /\ hurt' = hurt \cup InUse
    /\ UNCHANGED <<setting, txt, cname, books, lock, pc, job, batch, edits, faults>>

\* The records go with the PowerDNS zone, the booked rows with the zone row
\* (ON DELETE CASCADE).
DeleteZone(z) ==
    /\ zone[z] # 0
    /\ zone' = [zone EXCEPT ![z] = 0]
    /\ txt' = [txt EXCEPT ![z] = {}]
    /\ cname' = [cname EXCEPT ![z] = FALSE]
    /\ books' = Deleted({b.value : b \in {c \in books : c.zone = zone[z]}})
    /\ hurt' = hurt \cup InUse
    /\ UNCHANGED <<setting, minted, lock, pc, job, batch, edits, faults>>

\* Records edited through the API: a value of one's own, or a CNAME where
\* nothing else is.
Edit(z) ==
    /\ zone[z] # 0
    /\ edits < setting.edits
    /\ edits' = edits + 1
    /\ \/ /\ ~cname[z]
          /\ txt' = [txt EXCEPT ![z] = IF Other \in @ THEN @ \ {Other} ELSE @ \cup {Other}]
          /\ UNCHANGED cname
       \/ /\ txt[z] = {}
          /\ cname' = [cname EXCEPT ![z] = ~@]
          /\ UNCHANGED txt
    /\ UNCHANGED <<setting, zone, minted, books, lock, pc, job, batch, faults, hurt>>

-----------------------------------------------------------------------------
(* Present and CleanUp: resolve, then under the mutex look up the CNAME    *)
(* and the TXT record set, write it back, and do the bookkeeping.          *)

\* Where an operation goes when it ends: the mutex is released.
Done(p) ==
    /\ lock' = [lock EXCEPT ![job[p].host] = Nobody]
    /\ pc' = [pc EXCEPT ![p] = IF p \in Instances THEN "sweep" ELSE "idle"]
    /\ job' = [job EXCEPT ![p] = NoJob]

Goto(p, l) == pc' = [pc EXCEPT ![p] = l] /\ UNCHANGED <<lock, job>>

NewJob(op, v, z, i) ==
    [op |-> op, value |-> v, name |-> z, id |-> zone[z], seen |-> {}, host |-> i]

FindForName == LongestZone(Live, Fqdn)

\* resolve: no zone of the tenant contains the name, nothing happens.
Begin(r, op, v, i) ==
    /\ pc[r] = "idle"
    /\ Containing(Live, Fqdn) # {}
    /\ job' = [job EXCEPT ![r] = NewJob(op, v, FindForName, i)]
    /\ pc' = [pc EXCEPT ![r] = "lock"]
    /\ UNCHANGED <<envVars, txt, cname, books, lock, batch, faults, hurt>>

Present(r, v, i) == Begin(r, "present", v, i)
CleanUp(r, v, i) == Begin(r, "cleanup", v, i)

\* Mutant of Lock: operations are not serialised.
LockFree(p) ==
    /\ pc[p] = "lock"
    /\ pc' = [pc EXCEPT ![p] = "cname"]
    /\ UNCHANGED <<envVars, txt, cname, books, lock, job, batch, faults, hurt>>

Lock(p) ==
    /\ pc[p] = "lock"
    /\ lock[job[p].host] = Nobody
    /\ lock' = [lock EXCEPT ![job[p].host] = p]
    /\ pc' = [pc EXCEPT ![p] = "cname"]
    /\ UNCHANGED <<envVars, txt, cname, books, job, batch, faults, hurt>>

\* Lookup: the zone is gone from PowerDNS, or the call fails.
LookupFails(p) ==
    /\ Done(p)
    /\ \/ zone[job[p].name] = 0 /\ UNCHANGED faults
       \/ Fault

LookupCname(p) ==
    /\ pc[p] = "cname"
    /\ \/ /\ zone[job[p].name] # 0 /\ ~cname[job[p].name]
          /\ Goto(p, "txt") /\ UNCHANGED faults
       \/ cname[job[p].name] /\ Done(p) /\ UNCHANGED faults
       \/ LookupFails(p)
    /\ UNCHANGED <<envVars, txt, cname, books, batch, hurt>>

\* What the values found call for: a value already there, or already gone,
\* leaves only the bookkeeping.
AfterLookup(j) ==
    IF j.value \in j.seen
    THEN IF j.op = "present" THEN "record" ELSE "write"
    ELSE IF j.op = "present" THEN "write" ELSE "forget"

LookupTxt(p) ==
    /\ pc[p] = "txt"
    /\ \/ /\ zone[job[p].name] # 0
          /\ LET j == [job[p] EXCEPT !.seen = txt[job[p].name]]
             IN  /\ job' = [job EXCEPT ![p] = j]
                 /\ pc' = [pc EXCEPT ![p] = AfterLookup(j)]
          /\ UNCHANGED <<lock, faults>>
       \/ LookupFails(p)
    /\ UNCHANGED <<envVars, txt, cname, books, batch, hurt>>

\* The record set written back.
Rest(j) == IF j.op = "present" THEN j.seen \cup {j.value} ELSE j.seen \ {j.value}

\* Limits.RecordSet on what PowerDNS holds now: no CNAME, not too many
\* values.  Deleting the record set asks nothing of the kind.
Accepts(j) ==
    \/ Rest(j) = {}
    \/ ~cname[j.name] /\ Cardinality(Rest(j)) <= MaxValues

AfterWrite(j) == IF j.op = "present" THEN "record" ELSE "forget"

\* A present whose value may be out without a row.
Unbooked(j) == IF j.op = "present" THEN {j.value} ELSE {}

\* Mutant of Write: the bookkeeping goes ahead when the write was refused or
\* failed.
WriteUnchecked(p) ==
    LET j == job[p]
    IN  /\ pc[p] = "write"
        /\ Goto(p, AfterWrite(j))
        /\ \/ /\ zone[j.name] # 0 /\ Accepts(j)
              /\ txt' = [txt EXCEPT ![j.name] = Rest(j)]
              /\ UNCHANGED faults
           \/ zone[j.name] = 0 /\ UNCHANGED <<txt, faults>>
           \/ Fault /\ UNCHANGED txt
        /\ UNCHANGED <<envVars, cname, books, batch, hurt>>

\* records.Apply or records.Remove: the whole set is replaced by what was read
\* before, with the value added or taken out.  The call may fail, or take
\* effect and its answer be lost.
Write(p) ==
    LET j == job[p]
    IN  /\ pc[p] = "write"
        /\ \/ /\ zone[j.name] # 0 /\ Accepts(j)
              /\ txt' = [txt EXCEPT ![j.name] = Rest(j)]
              /\ \/ Goto(p, AfterWrite(j)) /\ UNCHANGED <<faults, hurt>>
                 \/ Fault /\ Done(p) /\ hurt' = hurt \cup Unbooked(j)
           \/ /\ zone[j.name] = 0 \/ ~Accepts(j)
              /\ Done(p)
              /\ UNCHANGED <<txt, faults, hurt>>
           \/ Fault /\ Done(p) /\ UNCHANGED <<txt, hurt>>
        /\ UNCHANGED <<envVars, cname, books, batch>>

\* InsertChallenge.  A row for the value is left as it is, a zone deleted
\* meanwhile refuses the row, and a failure is only logged.
Record(p) ==
    LET j == job[p]
    IN  /\ pc[p] = "record"
        /\ Done(p)
        /\ \/ /\ ~Booked(j.value) /\ zone[j.name] = j.id
              /\ books' = books \cup {[value |-> j.value, zone |-> j.id, old |-> FALSE,
                                      older |-> {b.value : b \in books}]}
              /\ UNCHANGED <<faults, hurt>>
           \/ Booked(j.value) /\ UNCHANGED <<books, faults, hurt>>
           \/ zone[j.name] # j.id /\ UNCHANGED <<books, faults, hurt>>
           \/ Fault /\ hurt' = hurt \cup {j.value} /\ UNCHANGED books
        /\ UNCHANGED <<envVars, txt, cname, batch>>

\* Mutant of Forget: only a value that was found is forgotten.
ForgetFound(p) ==
    /\ pc[p] = "forget"
    /\ Done(p)
    /\ \/ /\ books' = IF job[p].value \in job[p].seen THEN Without(job[p].value) ELSE books
          /\ UNCHANGED faults
       \/ Fault /\ UNCHANGED books
    /\ UNCHANGED <<envVars, txt, cname, batch, hurt>>

Forget(p) ==
    /\ pc[p] = "forget"
    /\ Done(p)
    /\ \/ books' = Without(job[p].value) /\ UNCHANGED faults
       \/ Fault /\ UNCHANGED books
    /\ UNCHANGED <<envVars, txt, cname, batch, hurt>>

-----------------------------------------------------------------------------
(* The sweeper.                                                            *)

\* The oldest row that is not yet older than max_age becomes so.
Age ==
    /\ \E b \in books :
        /\ ~b.old
        /\ \A c \in books : c.value \in b.older => c.old
        /\ books' = (books \ {b}) \cup {[b EXCEPT !.old = TRUE]}
    /\ UNCHANGED <<envVars, txt, cname, lock, pc, job, batch, faults, hurt>>

\* ChallengesOlderThan: the oldest rows, at most SweepBatch.
OlderThan == {b \in books : b.old /\ Cardinality(b.older) < SweepBatch}

Sweep(i) ==
    /\ pc[i] = "idle"
    /\ OlderThan # {}
    /\ batch' = [batch EXCEPT ![i] = OlderThan]
    /\ pc' = [pc EXCEPT ![i] = "sweep"]
    /\ UNCHANGED <<envVars, txt, cname, books, lock, job, faults, hurt>>

ZoneOf(id) == {z \in Live : zone[z] = id}

\* The next row, the oldest of the batch: its zone is loaded by id; a row whose
\* zone is gone is forgotten, any other is removed like a CleanUp, but in the
\* zone booked.
SweepRow(i) ==
    /\ pc[i] = "sweep"
    /\ \E c \in batch[i] :
        /\ \A d \in batch[i] : d.value \notin c.older
        /\ batch' = [batch EXCEPT ![i] = @ \ {c}]
        /\ \/ \E z \in ZoneOf(c.zone) :
                /\ job' = [job EXCEPT ![i] = NewJob("cleanup", c.value, z, i)]
                /\ pc' = [pc EXCEPT ![i] = "lock"]
                /\ UNCHANGED <<books, faults>>
           \/ /\ ZoneOf(c.zone) = {}
              /\ books' = Without(c.value)
              /\ UNCHANGED <<pc, job, faults>>
           \/ Fault /\ UNCHANGED <<pc, job, books>>
    /\ UNCHANGED <<envVars, txt, cname, lock, hurt>>

EndSweep(i) ==
    /\ pc[i] = "sweep"
    /\ batch[i] = {}
    /\ pc' = [pc EXCEPT ![i] = "idle"]
    /\ UNCHANGED <<envVars, txt, cname, books, lock, job, batch, faults, hurt>>

\* An instance stops: its operations end where they are.
Crash(i) ==
    LET here == {p \in Procs : job[p].host = i} \cup {i}
    IN  /\ Fault
        /\ \E p \in here : pc[p] # "idle"
        /\ pc' = [p \in Procs |-> IF p \in here THEN "idle" ELSE pc[p]]
        /\ job' = [p \in Procs |-> IF p \in here THEN NoJob ELSE job[p]]
        /\ lock' = [lock EXCEPT ![i] = Nobody]
        /\ batch' = [batch EXCEPT ![i] = {}]
        /\ hurt' = hurt \cup UNION {Unbooked(job[p]) : p \in {q \in here : pc[q] = "record"}}
        /\ UNCHANGED <<envVars, txt, cname, books>>

-----------------------------------------------------------------------------
UnderLock(p) == \/ LookupCname(p) \/ LookupTxt(p) \/ Write(p)
                \/ Record(p) \/ Forget(p)

Next ==
    \/ \E z \in Zones : CreateZone(z) \/ DeleteZone(z) \/ Edit(z)
    \/ \E r \in setting.callers, v \in setting.values, i \in Instances :
          Present(r, v, i) \/ CleanUp(r, v, i)
    \/ \E p \in Procs : Lock(p) \/ UnderLock(p)
    \/ \E i \in Instances : Sweep(i) \/ SweepRow(i) \/ EndSweep(i) \/ Crash(i)
    \/ Age

\* Calls are bounded by timeouts, the sweeper's ticker never stops, and Go's
\* mutex lets no waiter starve.
Fairness ==
    /\ \A p \in Procs : SF_vars(Lock(p)) /\ WF_vars(UnderLock(p))
    /\ \A i \in Instances : WF_vars(Sweep(i) \/ SweepRow(i) \/ EndSweep(i))

Spec == Init /\ [][Next]_vars /\ Fairness

-----------------------------------------------------------------------------
(* Properties.                                                             *)

WriteKeepsOthers(p) ==
    Write(p) => \A z \in Zones : txt'[z] \ {job[p].value} = txt[z] \ {job[p].value}

\* A challenge operation changes its own value and no other ("keeping every
\* other value", "removes only that value"), as long as nobody edits the record
\* set by hand and the zone is not replaced by another of its name.
OthersKept ==
    [][edits = 0 /\ minted = 1 => \A p \in Procs : WriteKeepsOthers(p)]_vars

\* The same, whatever people do beside it.
OthersAlwaysKept == [][\A p \in Procs : WriteKeepsOthers(p)]_vars

\* The operation on the value is not over.
InFlight(v) == \E p \in Procs : pc[p] = "record" /\ job[p].value = v

Recorded(v, z) ==
    \/ \E b \in books : b.value = v /\ b.zone = zone[z]
    \/ InFlight(v)

\* "Every presented value is recorded so the sweeper can remove it when
\* CleanUp never arrives."
EveryValueRecorded ==
    \A z \in Zones : \A v \in txt[z] \cap Values : Recorded(v, z)

\* The same, but for values whose bookkeeping a fault hit or that were in use
\* when the zones of the tenant changed.
StrayExplained ==
    \A z \in Zones : \A v \in (txt[z] \cap Values) \ hurt : Recorded(v, z)

OldRow(v) == \E b \in books : b.value = v /\ b.old

Blocked(v) == \E b \in books, z \in Zones : b.value = v /\ zone[z] = b.zone /\ cname[z]

\* A value booked longer ago than max_age is swept, whatever failed before,
\* unless a CNAME has taken its name: the sweeper "removes values older than
\* acme.max_age whose CleanUp never arrived".
Swept == \A v \in Values : OldRow(v) ~> (~OldRow(v) \/ Blocked(v))
=============================================================================
