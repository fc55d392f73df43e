------------------------ MODULE ZoneLifecycleProofs ------------------------
(***************************************************************************)
(* Machine-checked proofs about the zone service, for any number of        *)
(* tenants, names, requests and faults, and about the reconciler that runs *)
(* beside it.                                                              *)
(*                                                                         *)
(* The safety properties (no orphan in PowerDNS, overlap of tenants only   *)
(* between racing Creates, the registry of owners) are not inductive: they *)
(* rest on what ties a row, a PowerDNS zone and the requests that work on  *)
(* them together, which Bookkeeping states.                                *)
(***************************************************************************)
EXTENDS ForwardSync, TLAPS

\* Zenon first: it is the quicker one wherever there is no arithmetic.
USE ZenonT(2), SMT, Zenon

\* A Create at one of these labels will never write a row or a zone again.
Past == {"compensate", "unforward", "forward", "done"}

\* A Create works on the zone it mints.
CreatorsOwnIds == \A r \in Requests : pc[r] \in CreateSteps => job[r].id = r

\* The Create that minted a zone id has done its inserting.
Minted(i) == pc[i] \in Past /\ job[i].id = i

RowsTraced ==
    \A w \in rows : /\ Minted(w.id)
                    /\ w.name = job[w.id].name
                    /\ w.tenant = job[w.id].tenant

ZonesTraced ==
    \A z \in pdns : z.creator # External =>
        /\ pc[z.creator] \in Past \cup {"insert"}
        /\ job[z.creator].id = z.creator
        /\ z.name = job[z.creator].name

\* An Update or Delete works on a zone as its Create made it.
LoadsTraced ==
    \A r \in Requests : pc[r] \in UpdateSteps \cup DeleteSteps =>
        /\ Minted(job[r].id)
        /\ job[r].name = job[job[r].id].name

\* Once a Delete has called PowerDNS, the zone its Create posted is gone.
DroppedForGood ==
    \A d \in Requests : pc[d] \in {"remove", "clear", "erase"} =>
        \A z \in pdns : z.creator # job[d].id

UniqueNames == \A v, w \in rows : v.name = w.name => v = w

Bookkeeping ==
    /\ CreatorsOwnIds
    /\ RowsTraced
    /\ ZonesTraced
    /\ LoadsTraced
    /\ DroppedForGood
    /\ UniqueNames

-----------------------------------------------------------------------------
(* Type correctness.                                                       *)

\* What the calls write to the two stores is well formed.
LEMMA StoredTypes ==
    ASSUME NEW r \in Requests, job[r] \in Job,
           rows \subseteq Row, pdns \subseteq Zone
    PROVE  /\ job[r].name \in Names
           /\ job[r].id \in Requests
           /\ rows \cup {NewRow(r)} \subseteq Row
           /\ rows \ Mine(r) \subseteq Row
           /\ Saved(r) \subseteq Row
           /\ Posted(r) \subseteq Zone
           /\ Dropped(r) \subseteq Zone
           /\ Put(r, job[r].next) \subseteq Zone
           /\ Put(r, job[r].prev) \subseteq Zone
<1>1. /\ job[r].name \in Names /\ job[r].tenant \in Tenants
      /\ job[r].id \in Requests
      /\ job[r].next \in Metas /\ job[r].prev \in Metas
  BY DEF Job
<1>2. rows \cup {NewRow(r)} \subseteq Row
  BY <1>1 DEF NewRow, Row
<1>3. Saved(r) \subseteq Row
  BY <1>1 DEF Saved, Mine, Row
<1>4. Posted(r) \subseteq Zone /\ Dropped(r) \subseteq Zone
  BY <1>1 DEF Posted, Dropped, Zone
<1>5. \A m \in Metas : Put(r, m) \subseteq Zone
  BY <1>1 DEF Put, Dropped, Zone
<1> QED
  BY <1>1, <1>2, <1>3, <1>4, <1>5

\* A step of a request that was received before.
Moved(r) ==
    /\ pc[r] # "idle"
    /\ \E l \in Labels \ {"idle"} : pc' = [pc EXCEPT ![r] = l]
    /\ UNCHANGED <<job, existing>>

LEMMA MovedTypes ==
    ASSUME TypeOK, NEW r \in Requests, Moved(r),
           rows' \subseteq Row, pdns' \subseteq Zone, forwards' \subseteq Names,
           faults' \in Nat, torn' \subseteq Requests
    PROVE  TypeOK'
  BY DEF TypeOK, Moved

LEMMA CallMoves ==
    ASSUME NEW r \in Requests, Call(r)
    PROVE  Moved(r) /\ UNCHANGED <<faults, torn>>
<1> USE DEF Moved, At, Goto, Labels, CreateSteps, UpdateSteps, DeleteSteps
<1>1. CASE CheckOwn(r) \/ CheckConflict(r) \/ Probe(r)
  BY <1>1 DEF CheckOwn, CheckConflict, Probe
<1>2. CASE Post(r) \/ Insert(r) \/ Compensate(r)
  BY <1>2 DEF Post, Insert, Compensate
<1>3. CASE Unforward(r) \/ Forward(r)
  BY <1>3 DEF Unforward, Forward
<1>4. CASE PutMeta(r) \/ Save(r) \/ Restore(r)
  BY <1>4 DEF PutMeta, Save, Restore, AfterUnsaved
<1>5. CASE Drop(r) \/ RemoveForward(r) \/ ClearSyncZone(r) \/ Erase(r)
  BY <1>5 DEF Drop, RemoveForward, ClearSyncZone, Erase
<1> QED
  BY <1>1, <1>2, <1>3, <1>4, <1>5 DEF Call

\* Every call of a request keeps the type invariant.
LEMMA CallTypes ==
    ASSUME TypeOK, NEW r \in Requests, Call(r)
    PROVE  TypeOK'
<1>1. /\ rows \subseteq Row /\ pdns \subseteq Zone /\ forwards \subseteq Names
      /\ faults \in Nat /\ torn \subseteq Requests
      /\ job[r] \in Job
  BY CallMoves DEF TypeOK, Moved
<1>2. rows' \subseteq Row
  BY <1>1, StoredTypes
  DEF Call, CheckOwn, CheckConflict, Probe, Post, Insert, Compensate, Unforward,
      Forward, PutMeta, Save, Restore, Drop, RemoveForward, ClearSyncZone, Erase
<1>3. pdns' \subseteq Zone
  BY <1>1, StoredTypes
  DEF Call, CheckOwn, CheckConflict, Probe, Post, Insert, Compensate, Unforward,
      Forward, PutMeta, Save, Restore, Drop, RemoveForward, ClearSyncZone, Erase
<1>4. forwards' \subseteq Names
  BY <1>1, StoredTypes
  DEF Call, CheckOwn, CheckConflict, Probe, Post, Insert, Compensate, Unforward,
      Forward, PutMeta, Save, Restore, Drop, RemoveForward, ClearSyncZone, Erase
<1> QED
  BY <1>1, <1>2, <1>3, <1>4, CallMoves, MovedTypes

\* So does the arrival of a request.
LEMMA AdmissionTypes ==
    ASSUME TypeOK, Admission
    PROVE  TypeOK'
<1>1. ASSUME NEW r \in Requests, NEW arg \in Job, NEW l \in Labels,
             Admit(r, arg, l), existing' \in [Requests -> SUBSET Requests]
      PROVE  TypeOK'
  BY <1>1 DEF TypeOK, Admit, Goto
<1>2. {"own", "put", "save", "drop"} \subseteq Labels
  BY DEF Labels, CreateSteps, UpdateSteps, DeleteSteps
<1>3. /\ Ids \subseteq Requests /\ rows \subseteq Row
      /\ existing \in [Requests -> SUBSET Requests]
  BY DEF TypeOK, Ids, Row
<1>4. ASSUME NEW r \in Requests, NEW t \in Tenants, NEW n \in Names,
             NEW m \in Metas, StartCreate(r, t, n, m)
      PROVE  TypeOK'
  <2>1. [tenant |-> t, name |-> n, id |-> r, prev |-> m, next |-> m] \in Job
    BY DEF Job
  <2> QED
    BY <1>1, <1>2, <1>3, <1>4, <2>1 DEF StartCreate
<1>5. ASSUME NEW r \in Requests, NEW w \in rows, NEW m \in Metas,
             StartUpdate(r, w, m)
      PROVE  TypeOK'
  <2>1. [tenant |-> w.tenant, name |-> w.name, id |-> w.id,
         prev |-> w.meta, next |-> m] \in Job
    BY <1>3 DEF Job, Row
  <2> QED
    BY <1>1, <1>2, <1>3, <1>5, <2>1 DEF StartUpdate
<1>6. ASSUME NEW r \in Requests, NEW w \in rows, StartDelete(r, w)
      PROVE  TypeOK'
  <2>1. [tenant |-> w.tenant, name |-> w.name, id |-> w.id,
         prev |-> w.meta, next |-> w.meta] \in Job
    BY <1>3 DEF Job, Row
  <2> QED
    BY <1>1, <1>2, <1>3, <1>6, <2>1 DEF StartDelete
<1> QED
  BY <1>4, <1>5, <1>6 DEF Admission

\* And so does every fault.
LEMMA DisturbanceTypes ==
    ASSUME TypeOK, Disturbance
    PROVE  TypeOK'
<1>1. /\ rows \subseteq Row /\ pdns \subseteq Zone /\ forwards \subseteq Names
      /\ torn \subseteq Requests
      /\ Disturb => faults' \in Nat
  BY DEF TypeOK, Disturb
<1>2. \A r \in Requests : AfterFailure(r) \in Labels \ {"idle"}
  BY DEF AfterFailure, AfterUnsaved, Labels, CreateSteps, UpdateSteps,
         DeleteSteps
<1>3. \A r \in Requests : Active(r) => job[r] \in Job
  BY DEF TypeOK, Active
<1>4. ASSUME NEW r \in Requests, CallFails(r)
      PROVE  TypeOK'
  <2>1. Moved(r)
    BY <1>2, <1>4 DEF CallFails, Moved, Goto, Active
  <2>2. torn' \subseteq Requests
    BY <1>1, <1>3, <1>4, StoredTypes DEF CallFails
  <2> QED
    BY <1>1, <1>4, <2>1, <2>2, MovedTypes DEF CallFails
<1>5. ASSUME NEW r \in Requests, AnswerLost(r)
      PROVE  TypeOK'
  <2>1. Active(r) /\ Moved(r)
    BY <1>2, <1>5 DEF AnswerLost, Moved, Goto, Active
  <2>2. rows' \subseteq Row /\ pdns' \subseteq Zone /\ torn' \subseteq Requests
    BY <1>1, <1>3, <1>5, <2>1, StoredTypes DEF AnswerLost
  <2> QED
    BY <1>1, <1>5, <2>1, <2>2, MovedTypes DEF AnswerLost
<1>6. ASSUME NEW r \in Requests, Cancel(r)
      PROVE  TypeOK'
  <2>1. Moved(r)
    BY <1>6 DEF Cancel, Moved, Goto, Active, Labels
  <2>2. torn' \subseteq Requests
    BY <1>1, <1>3, <1>6, StoredTypes DEF Cancel
  <2> QED
    BY <1>1, <1>6, <2>1, <2>2, MovedTypes DEF Cancel
<1>7. CASE Crash
  <2>1. torn' \subseteq Requests
    BY <1>1, <1>3, <1>7, StoredTypes DEF Crash, InFlight
  <2>2. /\ pc' \in [Requests -> Labels]
        /\ \A r \in Requests : pc'[r] # "idle" => pc[r] # "idle"
    BY <1>7 DEF Crash, TypeOK, Active, Labels
  <2> QED
    BY <1>1, <1>7, <2>1, <2>2 DEF Crash, TypeOK
<1>8. ASSUME NEW n \in Names, NEW m \in Metas, Provision(n, m)
      PROVE  TypeOK'
  <2>1. pdns' \subseteq Zone
    BY <1>1, <1>8 DEF Provision, Zone
  <2> QED
    BY <1>1, <1>8, <2>1 DEF Provision, TypeOK
<1> QED
  BY <1>4, <1>5, <1>6, <1>7, <1>8 DEF Disturbance

LEMMA TypeStep ==
    ASSUME TypeOK, [Next]_vars
    PROVE  TypeOK'
<1>1. CASE UNCHANGED vars
  BY <1>1 DEF TypeOK, vars
<1> QED
  BY <1>1, CallTypes, AdmissionTypes, DisturbanceTypes DEF Next

LEMMA TypeInit == Init => TypeOK
  BY ConstantsOK DEF Init, TypeOK, Zone, Labels

\* Type correctness of the zone service: whatever requests and faults
\* interleave, rows and PowerDNS zones stay well formed and a request that
\* was received keeps its arguments.
THEOREM TypeCorrect == Spec => []TypeOK
  BY TypeInit, TypeStep, PTL DEF Spec

-----------------------------------------------------------------------------
(* What ties rows, PowerDNS zones and requests together is preserved.      *)

\* Most steps only move requests forward, drop rows and zones or change what
\* Bookkeeping does not look at.
Onward ==
    /\ job' = job
    /\ \A q \in Requests :
        /\ pc[q] \in Past => pc'[q] \in Past
        /\ pc[q] = "insert" => pc'[q] \in Past \cup {"insert"}
        /\ pc'[q] \in CreateSteps => pc[q] \in CreateSteps
        /\ pc'[q] \in UpdateSteps \cup DeleteSteps
             => pc[q] \in UpdateSteps \cup DeleteSteps
        /\ pc'[q] \in {"remove", "clear", "erase"}
             => pc[q] \in {"remove", "clear", "erase"}

NoNewRows == \A v \in rows' : \E w \in rows :
                 v.id = w.id /\ v.tenant = w.tenant /\ v.name = w.name

NoNewZones == \A y \in pdns' : \E z \in pdns :
                  y.name = z.name /\ y.creator = z.creator

LEMMA QuietBookkeeping ==
    ASSUME TypeOK, TypeOK', Bookkeeping,
           Onward, NoNewRows, NoNewZones, UniqueNames'
    PROVE  Bookkeeping'
<1> USE DEF Bookkeeping
<1>1. CreatorsOwnIds'
  BY DEF CreatorsOwnIds, Onward
<1>2. \A i \in Requests : Minted(i) => Minted(i)'
  BY DEF Minted, Onward
<1>3. RowsTraced'
  BY <1>2 DEF RowsTraced, NoNewRows, Onward, TypeOK, Row
<1>4. ZonesTraced'
  BY ConstantsOK DEF ZonesTraced, NoNewZones, Onward, TypeOK, Zone, Past
<1>5. LoadsTraced'
  <2> SUFFICES ASSUME NEW r \in Requests,
                      pc'[r] \in UpdateSteps \cup DeleteSteps
               PROVE  Minted(job[r].id)' /\ job[r].name = job[job[r].id].name
    BY DEF LoadsTraced, Onward
  <2>1. pc[r] \in UpdateSteps \cup DeleteSteps
    BY DEF Onward
  <2>2. job[r].id \in Requests
    BY <2>1 DEF TypeOK, Job, UpdateSteps, DeleteSteps
  <2> QED
    BY <1>2, <2>1, <2>2 DEF LoadsTraced, Minted, Onward
<1>6. DroppedForGood'
  BY DEF DroppedForGood, NoNewZones, Onward
<1> QED
  BY <1>1, <1>3, <1>4, <1>5, <1>6

\* The calls that write no new row or zone, Drop apart.
QuietCall(r) ==
    \/ CheckOwn(r) \/ CheckConflict(r) \/ Probe(r) \/ Compensate(r)
    \/ Unforward(r) \/ Forward(r) \/ PutMeta(r) \/ Save(r) \/ Restore(r)
    \/ RemoveForward(r) \/ ClearSyncZone(r) \/ Erase(r)

LEMMA QuietCallBookkeeping ==
    ASSUME TypeOK, TypeOK', Bookkeeping, NEW r \in Requests, QuietCall(r)
    PROVE  Bookkeeping'
<1>1. Onward
  BY DEF Onward, QuietCall, CheckOwn, CheckConflict, Probe, Compensate,
         Unforward, Forward, PutMeta, Save, AfterUnsaved, Restore,
         RemoveForward, ClearSyncZone, Erase, At, Goto, TypeOK, Past,
         CreateSteps, UpdateSteps, DeleteSteps
<1>2. NoNewRows /\ UniqueNames'
  <2>1. CASE Save(r)
    BY <2>1 DEF NoNewRows, UniqueNames, Bookkeeping, Save, Saved, Mine
  <2>2. CASE rows' \subseteq rows
    BY <2>2 DEF NoNewRows, UniqueNames, Bookkeeping
  <2> QED
    BY <2>1, <2>2
    DEF QuietCall, CheckOwn, CheckConflict, Probe, Compensate,
         Unforward, Forward, PutMeta, Restore, RemoveForward, ClearSyncZone,
         Erase
<1>3. NoNewZones
  <2>1. CASE pdns' \subseteq pdns
    BY <2>1 DEF NoNewZones
  <2>2. ASSUME NEW m, pdns' = Put(r, m)
        PROVE  NoNewZones
    BY <2>2 DEF NoNewZones, Put, Dropped
  <2> QED
    BY <2>1, <2>2 DEF QuietCall, CheckOwn, CheckConflict, Probe, Compensate,
         Dropped, Unforward, Forward, PutMeta, Save, Restore, RemoveForward,
         ClearSyncZone, Erase
<1> QED
  BY <1>1, <1>2, <1>3, QuietBookkeeping

\* Create writes its PowerDNS zone.
LEMMA PostBookkeeping ==
    ASSUME TypeOK, TypeOK', Bookkeeping, NEW r \in Requests, pc[r] = "post",
           rows' = rows, pdns' = Posted(r), job' = job,
           NEW l \in {"insert", "done"}, pc' = [pc EXCEPT ![r] = l]
    PROVE  Bookkeeping'
<1> USE DEF Bookkeeping
<1>1. job[r].id = r /\ job[r] \in Job
  BY DEF CreatorsOwnIds, CreateSteps, TypeOK
<1>2. \A i \in Requests : Minted(i) => i # r /\ Minted(i)'
  BY DEF Minted, Past, TypeOK
<1>3. CreatorsOwnIds'
  BY <1>1 DEF CreatorsOwnIds, CreateSteps, TypeOK
<1>4. RowsTraced'
  BY <1>2 DEF RowsTraced, TypeOK, Row
<1>5. ZonesTraced'
  BY <1>1, ConstantsOK DEF ZonesTraced, Posted, Past, TypeOK, Zone
<1>6. \A q \in Requests : pc'[q] \in UpdateSteps \cup DeleteSteps
          => /\ pc'[q] = pc[q]
             /\ job[q].id \in Requests
             /\ Minted(job[q].id)
  BY DEF TypeOK, Job, UpdateSteps, DeleteSteps, LoadsTraced
<1>7. LoadsTraced'
  BY <1>2, <1>6 DEF LoadsTraced
<1>8. DroppedForGood'
  BY <1>2, <1>6 DEF DroppedForGood, Posted, DeleteSteps
<1> QED
  BY <1>3, <1>4, <1>5, <1>7, <1>8 DEF UniqueNames

\* Create writes its row.
LEMMA InsertBookkeeping ==
    ASSUME TypeOK, TypeOK', Bookkeeping, NEW r \in Requests, pc[r] = "insert",
           NameFree(job[r].name), rows' = rows \cup {NewRow(r)},
           pdns' = pdns, job' = job,
           NEW l \in {"unforward", "compensate"}, pc' = [pc EXCEPT ![r] = l]
    PROVE  Bookkeeping'
<1> USE DEF Bookkeeping
<1>1. job[r].id = r /\ job[r] \in Job
  BY DEF CreatorsOwnIds, CreateSteps, TypeOK
<1>2. /\ \A i \in Requests : Minted(i) => Minted(i)'
      /\ Minted(r)'
  BY <1>1 DEF Minted, Past, TypeOK
<1>3. CreatorsOwnIds'
  BY <1>1 DEF CreatorsOwnIds, CreateSteps, TypeOK
<1>4. RowsTraced'
  BY <1>2 DEF RowsTraced, NewRow, TypeOK, Row
<1>5. ZonesTraced'
  BY ConstantsOK DEF ZonesTraced, Past, TypeOK, Zone
<1>6. \A q \in Requests : pc'[q] \in UpdateSteps \cup DeleteSteps
          => /\ pc'[q] = pc[q]
             /\ job[q].id \in Requests
             /\ Minted(job[q].id)
  BY DEF TypeOK, Job, UpdateSteps, DeleteSteps, LoadsTraced
<1>7. LoadsTraced'
  BY <1>2, <1>6 DEF LoadsTraced
<1>8. DroppedForGood'
  BY <1>6 DEF DroppedForGood, DeleteSteps
<1>9. UniqueNames'
  BY DEF UniqueNames, NameFree, NewRow
<1> QED
  BY <1>3, <1>4, <1>5, <1>7, <1>8, <1>9

\* Delete drops the zone it loaded, whose name the creating request chose.
LEMMA DropBookkeeping ==
    ASSUME TypeOK, TypeOK', Bookkeeping, NEW r \in Requests, Drop(r)
    PROVE  Bookkeeping'
<1> USE DEF Bookkeeping
<1>1. /\ pc[r] = "drop" /\ pc' = [pc EXCEPT ![r] = "remove"]
      /\ job' = job /\ rows' = rows /\ pdns' = Dropped(r)
  BY DEF Drop, At, Goto
<1>2. /\ Minted(job[r].id) /\ job[r].id \in Requests
      /\ job[r].name = job[job[r].id].name
  BY <1>1 DEF LoadsTraced, DeleteSteps, TypeOK, Job
<1>3. \A i \in Requests : Minted(i) => Minted(i)'
  BY <1>1 DEF Minted, Past, TypeOK
<1>4. CreatorsOwnIds'
  BY <1>1 DEF CreatorsOwnIds, CreateSteps, TypeOK
<1>5. RowsTraced'
  BY <1>1, <1>3 DEF RowsTraced, TypeOK, Row
<1>6. ZonesTraced'
  BY <1>1, ConstantsOK DEF ZonesTraced, Past, Dropped, TypeOK, Zone
<1>7. LoadsTraced'
  <2> SUFFICES ASSUME NEW q \in Requests,
                      pc'[q] \in UpdateSteps \cup DeleteSteps
               PROVE  Minted(job[q].id)' /\ job[q].name = job[job[q].id].name
    BY <1>1 DEF LoadsTraced
  <2>1. pc[q] \in UpdateSteps \cup DeleteSteps
    BY <1>1 DEF UpdateSteps, DeleteSteps, TypeOK
  <2>2. job[q].id \in Requests
    BY <2>1 DEF TypeOK, Job, UpdateSteps, DeleteSteps
  <2> QED
    BY <1>1, <1>3, <2>1, <2>2 DEF LoadsTraced, Minted
<1>8. DroppedForGood'
  <2>1. \A z \in pdns' : z \in pdns /\ z.creator # job[r].id
    BY <1>1, <1>2, ConstantsOK DEF Dropped, ZonesTraced
  <2> QED
    BY <1>1, <2>1 DEF DroppedForGood, TypeOK
<1> QED
  BY <1>1, <1>4, <1>5, <1>6, <1>7, <1>8 DEF UniqueNames

LEMMA CallBookkeeping ==
    ASSUME TypeOK, TypeOK', Bookkeeping, NEW r \in Requests, Call(r)
    PROVE  Bookkeeping'
<1>1. CASE Post(r)
  <2>1. CASE pc' = [pc EXCEPT ![r] = "insert"] /\ pdns' = Posted(r)
    BY <1>1, <2>1, PostBookkeeping DEF Post, At
  <2>2. CASE pc[r] = "post" /\ pc' = [pc EXCEPT ![r] = "done"] /\ pdns' = pdns
    <3>1. Onward /\ NoNewRows /\ NoNewZones /\ UniqueNames'
      BY <1>1, <2>2 DEF Post, At, Onward, NoNewRows, NoNewZones, UniqueNames,
             Bookkeeping, Past, CreateSteps, UpdateSteps, DeleteSteps, TypeOK
    <3> QED
      BY <3>1, QuietBookkeeping
  <2> QED
    BY <1>1, <2>1, <2>2 DEF Post, At, Goto
<1>2. CASE Insert(r)
  <2>1. CASE NameFree(job[r].name) /\ rows' = rows \cup {NewRow(r)}
             /\ pc' = [pc EXCEPT ![r] = "unforward"]
    BY <1>2, <2>1, InsertBookkeeping DEF Insert, At
  <2>2. CASE pc[r] = "insert" /\ pc' = [pc EXCEPT ![r] = "compensate"]
             /\ rows' = rows
    <3>1. Onward /\ NoNewRows /\ NoNewZones /\ UniqueNames'
      BY <1>2, <2>2 DEF Insert, At, Onward, NoNewRows, NoNewZones, UniqueNames,
             Bookkeeping, Past, CreateSteps, UpdateSteps, DeleteSteps, TypeOK
    <3> QED
      BY <3>1, QuietBookkeeping
  <2> QED
    BY <1>2, <2>1, <2>2 DEF Insert, At, Goto
<1>3. CASE Drop(r)
  BY <1>3, DropBookkeeping
<1> QED
  BY <1>1, <1>2, <1>3, QuietCallBookkeeping DEF Call, QuietCall

\* A request arrives: nothing refers to it yet.
LEMMA AdmitBookkeeping ==
    ASSUME TypeOK, TypeOK', Bookkeeping, NEW r \in Requests,
           NEW arg \in Job, NEW l \in {"own", "put", "save", "drop"},
           Admit(r, arg, l),
           l = "own" => arg.id = r,
           l # "own" => \E w \in rows : arg.id = w.id /\ arg.name = w.name
    PROVE  Bookkeeping'
<1> USE DEF Bookkeeping
<1>1. /\ pc[r] = "idle" /\ pc' = [pc EXCEPT ![r] = l]
      /\ job' = [job EXCEPT ![r] = arg] /\ rows' = rows /\ pdns' = pdns
  BY DEF Admit, Goto
<1>2. \A i \in Requests : i # r => job'[i] = job[i] /\ pc'[i] = pc[i]
  BY <1>1 DEF TypeOK
<1>3. job'[r] = arg /\ pc'[r] = l
  BY <1>1 DEF TypeOK
<1>4. \A i \in Requests : Minted(i) => i # r /\ Minted(i)'
  BY <1>1, <1>2 DEF Minted, Past
<1>5. CreatorsOwnIds'
  BY <1>2, <1>3 DEF CreatorsOwnIds, CreateSteps
<1>6. RowsTraced'
  BY <1>1, <1>2, <1>4 DEF RowsTraced, TypeOK, Row
<1>7. ZonesTraced'
  BY <1>1, <1>2, ConstantsOK DEF ZonesTraced, Past, TypeOK, Zone
<1>8. LoadsTraced'
  <2> SUFFICES ASSUME NEW q \in Requests,
                      pc'[q] \in UpdateSteps \cup DeleteSteps
               PROVE  /\ Minted(job[q].id)'
                      /\ job'[q].name = job'[job'[q].id].name
    BY DEF LoadsTraced
  <2>1. CASE q = r
    <3>1. PICK w \in rows : arg.id = w.id /\ arg.name = w.name
      BY <1>3, <2>1 DEF UpdateSteps, DeleteSteps
    <3>2. /\ arg.id \in Requests /\ Minted(arg.id)
          /\ arg.name = job[arg.id].name
      BY <3>1 DEF RowsTraced, TypeOK, Row
    <3> QED
      BY <1>2, <1>3, <1>4, <2>1, <3>2 DEF Minted
  <2>2. CASE q # r
    <3>1. /\ job[q].id \in Requests /\ Minted(job[q].id)
          /\ job[q].name = job[job[q].id].name
      BY <1>2, <2>2
      DEF LoadsTraced, TypeOK, Job, UpdateSteps, DeleteSteps
    <3> QED
      BY <1>2, <1>4, <2>2, <3>1 DEF Minted
  <2> QED
    BY <2>1, <2>2
<1>9. DroppedForGood'
  BY <1>1, <1>2, <1>3 DEF DroppedForGood
<1> QED
  BY <1>1, <1>5, <1>6, <1>7, <1>8, <1>9 DEF UniqueNames

LEMMA AdmissionBookkeeping ==
    ASSUME TypeOK, TypeOK', Bookkeeping, Admission
    PROVE  Bookkeeping'
<1>1. ASSUME NEW r \in Requests, NEW t \in Tenants, NEW n \in Names,
             NEW m \in Metas, StartCreate(r, t, n, m)
      PROVE  Bookkeeping'
  BY <1>1, AdmitBookkeeping DEF StartCreate, Job
<1>2. ASSUME NEW r \in Requests, NEW w \in rows, NEW m \in Metas,
             StartUpdate(r, w, m)
      PROVE  Bookkeeping'
  BY <1>2, AdmitBookkeeping DEF StartUpdate, Job, TypeOK, Row
<1>3. ASSUME NEW r \in Requests, NEW w \in rows, StartDelete(r, w)
      PROVE  Bookkeeping'
  BY <1>3, AdmitBookkeeping DEF StartDelete, Job, TypeOK, Row
<1> QED
  BY <1>1, <1>2, <1>3 DEF Admission

LEMMA DisturbanceBookkeeping ==
    ASSUME TypeOK, TypeOK', Bookkeeping, Disturbance
    PROVE  Bookkeeping'
<1> USE DEF Past, CreateSteps, UpdateSteps, DeleteSteps
<1>1. ASSUME NEW r \in Requests, CallFails(r)
      PROVE  Bookkeeping'
  <2>1. Onward
    BY <1>1
    DEF CallFails, AfterFailure, AfterUnsaved, Active, Goto, Onward,
                TypeOK, Labels
  <2> QED
    BY <1>1, <2>1, QuietBookkeeping
    DEF CallFails, NoNewRows, NoNewZones, UniqueNames, Bookkeeping
<1>2. ASSUME NEW r \in Requests, AnswerLost(r)
      PROVE  Bookkeeping'
  <2>1. job' = job /\ pc' = [pc EXCEPT ![r] = AfterFailure(r)]
    BY <1>2 DEF AnswerLost, Goto
  <2>2. CASE pc[r] = "post" /\ pdns' = Posted(r) /\ rows' = rows
    BY <2>1, <2>2, PostBookkeeping DEF AfterFailure
  <2>3. CASE /\ pc[r] = "insert" /\ NameFree(job[r].name)
             /\ rows' = rows \cup {NewRow(r)} /\ pdns' = pdns
    BY <2>1, <2>3, InsertBookkeeping DEF AfterFailure
  <2>4. CASE pc[r] \in {"put", "drop", "save"}
    <3>1. Onward
      BY <2>1, <2>4 DEF Onward, AfterFailure, AfterUnsaved, TypeOK
    <3>2. NoNewRows /\ NoNewZones /\ UniqueNames'
      BY <1>2, <2>4
         DEF AnswerLost, NoNewRows, NoNewZones, UniqueNames, Bookkeeping, Put, Dropped,
             Saved, Mine
    <3> QED
      BY <3>1, <3>2, QuietBookkeeping
  <2> QED
    BY <1>2, <2>2, <2>3, <2>4 DEF AnswerLost
<1>3. ASSUME NEW r \in Requests, Cancel(r)
      PROVE  Bookkeeping'
  <2>1. Onward
    BY <1>3 DEF Cancel, Active, Goto, Onward, TypeOK
  <2> QED
    BY <1>3, <2>1, QuietBookkeeping
    DEF Cancel, NoNewRows, NoNewZones, UniqueNames, Bookkeeping
<1>4. CASE Crash
  <2>1. Onward
    BY <1>4 DEF Crash, Active, Onward
  <2> QED
    BY <1>4, <2>1, QuietBookkeeping
    DEF Crash, NoNewRows, NoNewZones, UniqueNames, Bookkeeping
<1>5. ASSUME NEW n \in Names, NEW m \in Metas, Provision(n, m)
      PROVE  Bookkeeping'
  <2> USE <1>5 DEF Provision, Bookkeeping
  <2>1. CreatorsOwnIds' /\ UniqueNames'
    BY DEF CreatorsOwnIds, UniqueNames
  <2>2. RowsTraced'
    BY DEF RowsTraced, Minted
  <2>3. LoadsTraced'
    BY DEF LoadsTraced, Minted
  <2>4. ZonesTraced'
    BY DEF ZonesTraced
  <2>5. DroppedForGood'
    BY ConstantsOK DEF DroppedForGood, TypeOK, Job
  <2> QED
    BY <2>1, <2>2, <2>3, <2>4, <2>5
<1> QED
  BY <1>1, <1>2, <1>3, <1>4, <1>5 DEF Disturbance

LEMMA BookkeepingInit == Init => Bookkeeping
<1> SUFFICES ASSUME Init
             PROVE  Bookkeeping
  OBVIOUS
<1>1. /\ rows = {}
      /\ \A z \in pdns : z.creator = External
      /\ \A r \in Requests : pc[r] = "idle"
  <2>1. PICK m \in Metas :
           pdns = {[name |-> n, account |-> External, creator |-> External,
                    meta |-> m] : n \in Preexisting}
    BY DEF Init
  <2>2. \A z \in pdns : z.creator = External
    BY <2>1
  <2>3. rows = {} /\ \A r \in Requests : pc[r] = "idle"
    BY DEF Init
  <2> QED
    BY <2>2, <2>3
<1>2. CreatorsOwnIds /\ LoadsTraced /\ DroppedForGood
  BY <1>1 DEF CreatorsOwnIds, LoadsTraced, DroppedForGood, CreateSteps,
              UpdateSteps, DeleteSteps
<1>3. RowsTraced /\ ZonesTraced /\ UniqueNames
  BY <1>1 DEF RowsTraced, ZonesTraced, UniqueNames
<1> QED
  BY <1>2, <1>3 DEF Bookkeeping

LEMMA BookkeepingStep ==
    ASSUME TypeOK, TypeOK', Bookkeeping, [Next]_vars
    PROVE  Bookkeeping'
<1>1. CASE UNCHANGED vars
  BY <1>1 DEF vars, Bookkeeping, CreatorsOwnIds, RowsTraced, ZonesTraced,
              LoadsTraced, DroppedForGood, UniqueNames, Minted
<1> QED
  BY <1>1, CallBookkeeping, AdmissionBookkeeping, DisturbanceBookkeeping
  DEF Next

-----------------------------------------------------------------------------
(* No orphan in PowerDNS.                                                  *)

\* Why a PowerDNS zone of this creator need not have a row.
Explained(c) ==
    c \in Ids \/ pc[c] \in {"insert", "compensate"} \/ c \in torn

\* An UPDATE and an INSERT lose no row.
LEMMA SavedIds ==
    ASSUME NEW r, rows' = Saved(r)
    PROVE  Ids \subseteq Ids'
<1> SUFFICES ASSUME NEW w \in rows
             PROVE  \E v \in rows' : v.id = w.id
  BY DEF Ids
<1>1. CASE w \in Mine(r)
  <2> DEFINE v == [id |-> w.id, tenant |-> w.tenant, name |-> w.name,
                   meta |-> job[r].next]
  <2>1. v \in rows' /\ v.id = w.id
    BY <1>1 DEF Saved
  <2> QED
    BY <2>1
<1>2. CASE w \notin Mine(r)
  BY <1>2 DEF Saved
<1> QED
  BY <1>1, <1>2

LEMMA InsertedIds ==
    ASSUME NEW r, rows' = rows \cup {NewRow(r)}
    PROVE  Ids \subseteq Ids' /\ r \in Ids'
<1>1. NewRow(r) \in rows' /\ NewRow(r).id = r
  BY DEF NewRow
<1> QED
  BY <1>1 DEF Ids

LEMMA OrphanStep ==
    ASSUME TypeOK, Bookkeeping, OrphanExplained, [Next]_vars
    PROVE  OrphanExplained'
<1> SUFFICES ASSUME NEW z \in pdns', z.creator # External
             PROVE  Explained(z.creator)'
  BY DEF OrphanExplained, Explained
<1> DEFINE c == z.creator
\* A step that keeps the zone keeps its explanation.
<1>1. ASSUME NEW y \in pdns, y.creator = c, y.name = z.name
      PROVE  Explained(c)'
  <2>1. /\ c \in Requests /\ job[c].id = c /\ z.name = job[c].name
        /\ pc[c] \in Past \cup {"insert"} /\ Explained(c)
    BY <1>1 DEF Bookkeeping, ZonesTraced, OrphanExplained, Explained, TypeOK,
                Zone
  <2>2. CASE UNCHANGED vars
    BY <2>1, <2>2 DEF vars, Explained, Ids
  <2>3. CASE Admission
    BY <2>1, <2>3
    DEF Admission, StartCreate, StartUpdate, StartDelete, Admit,
                      Goto, Explained, Ids, TypeOK, Past
  <2>4. ASSUME NEW r \in Requests, Call(r)
        PROVE  Explained(c)'
    <3>1. torn' = torn
      BY <2>4 DEF Call, CheckOwn, CheckConflict, Probe, Post, Insert,
                  Compensate, Unforward, Forward, PutMeta, Save, Restore, Drop,
                  RemoveForward, ClearSyncZone, Erase, At
    <3>2. CASE Insert(r)
      <4>1. CASE rows' = rows /\ pc' = [pc EXCEPT ![r] = "compensate"]
        BY <2>1, <3>1, <3>2, <4>1 DEF Insert, At, Explained, Ids, TypeOK
      <4>2. CASE rows' = rows \cup {NewRow(r)}
                 /\ pc' = [pc EXCEPT ![r] = "unforward"]
        BY <2>1, <3>1, <4>2, InsertedIds DEF Explained, TypeOK
      <4> QED
        BY <3>2, <4>1, <4>2 DEF Insert, At, Goto
    <3>3. CASE Compensate(r)
      <4>1. r # c
        BY <2>1, <3>3 DEF Compensate, Dropped
      <4> QED
        BY <2>1, <3>1, <3>3, <4>1
        DEF Compensate, At, Goto, Explained, Ids, TypeOK
    <3>4. CASE Erase(r)
      <4>1. job[r].id # c
        BY <1>1, <3>4 DEF Erase, At, Bookkeeping, DroppedForGood
      <4> QED
        BY <2>1, <3>1, <3>4, <4>1
        DEF Erase, Mine, At, Goto, Explained, Ids, TypeOK
    <3>5. CASE Save(r)
      <4>1. Ids \subseteq Ids'
        BY <3>5, SavedIds DEF Save
      <4> QED
        BY <2>1, <3>1, <3>5, <4>1 DEF Save, At, Goto, Explained, TypeOK
    <3>6. CASE Post(r)
      BY <2>1, <3>1, <3>6 DEF Post, At, Goto, Explained, Ids, TypeOK
    <3> QED
      BY <2>1, <2>4, <3>1, <3>2, <3>3, <3>4, <3>5, <3>6
      DEF Call, CheckOwn, CheckConflict, Probe, Unforward, Forward, PutMeta,
          Restore, Drop, RemoveForward, ClearSyncZone, At, Goto, Explained, Ids,
          TypeOK
  <2>5. CASE Disturbance
    <3>1. ASSUME NEW r \in Requests, CallFails(r)
          PROVE  Explained(c)'
      BY <2>1, <3>1
      DEF CallFails, AfterFailure, NoWayBack, Goto, Explained, Ids,
                        TypeOK
    <3>2. ASSUME NEW r \in Requests, AnswerLost(r)
          PROVE  Explained(c)'
      <4>1. Ids \subseteq Ids'
        BY <3>2, SavedIds, InsertedIds DEF AnswerLost, Ids
      <4> QED
        BY <2>1, <3>2, <4>1
        DEF AnswerLost, AfterFailure, Goto, Explained, TypeOK
    <3>3. ASSUME NEW r \in Requests, Cancel(r)
          PROVE  Explained(c)'
      BY <2>1, <3>3 DEF Cancel, HalfDone, Goto, Explained, Ids, TypeOK
    <3>4. CASE Crash
      BY <2>1, <3>4
      DEF Crash, HalfDone, InFlight, Active, Explained, Ids, TypeOK
    <3>5. ASSUME NEW n \in Names, NEW m \in Metas, Provision(n, m)
          PROVE  Explained(c)'
      BY <2>1, <3>5 DEF Provision, Explained, Ids
    <3> QED
      BY <2>5, <3>1, <3>2, <3>3, <3>4, <3>5 DEF Disturbance
  <2> QED
    BY <2>2, <2>3, <2>4, <2>5 DEF Next
\* A zone that appears is the one a Create posted.
<1>2. ASSUME NEW r \in Requests, pc[r] = "post", z \in Posted(r) \ pdns,
             Post(r) \/ AnswerLost(r)
      PROVE  Explained(c)'
  <2>1. c = r /\ job[r].id = r
    BY <1>2 DEF Posted, Bookkeeping, CreatorsOwnIds, CreateSteps
  <2>2. CASE Post(r)
    <3>1. pc'[r] = "insert"
      BY <1>2, <2>2 DEF Post, At, Goto, TypeOK
    <3> QED
      BY <2>1, <3>1 DEF Explained
  <2>3. CASE AnswerLost(r)
    BY <2>1, <2>3 DEF AnswerLost, Explained
  <2> QED
    BY <1>2, <2>2, <2>3
<1>3. \/ \E y \in pdns : y.creator = c /\ y.name = z.name
      \/ \E r \in Requests : /\ pc[r] = "post" /\ z \in Posted(r) \ pdns
                             /\ Post(r) \/ AnswerLost(r)
  <2>1. ASSUME NEW r \in Requests, Post(r)
        PROVE  <1>3
    BY <2>1 DEF Post, At, Posted
  <2>2. ASSUME NEW r \in Requests, AnswerLost(r)
        PROVE  <1>3
    BY <2>2 DEF AnswerLost, Posted, Put, Dropped
  <2>3. ASSUME NEW r \in Requests, Call(r), ~Post(r)
        PROVE  <1>3
    BY <2>3 DEF Call, CheckOwn, CheckConflict, Probe, Insert, Compensate,
                Unforward, Forward, PutMeta, Save, Restore, Drop, RemoveForward,
                ClearSyncZone, Erase, Put, Dropped
  <2>4. ASSUME NEW r \in Requests, CallFails(r) \/ Cancel(r)
        PROVE  <1>3
    BY <2>4 DEF CallFails, Cancel
  <2>5. CASE Crash \/ Admission \/ UNCHANGED vars
    BY <2>5 DEF Crash, Admission, StartCreate, StartUpdate, StartDelete, Admit,
                vars
  <2>6. ASSUME NEW n \in Names, NEW m \in Metas, Provision(n, m)
        PROVE  <1>3
    BY <2>6 DEF Provision
  <2> QED
    BY <2>1, <2>2, <2>3, <2>4, <2>5, <2>6 DEF Next, Disturbance
<1> QED
  BY <1>1, <1>2, <1>3

\* Create and Delete leave no orphan in PowerDNS (PowerDNS-first writes with
\* compensation): a zone of theirs without a row is being worked on, or a
\* fault hit the Create that made it.
THEOREM NoOrphans == Spec => []OrphanExplained
<1>1. Init => OrphanExplained
  BY DEF Init, OrphanExplained
<1> QED
  BY <1>1, TypeInit, TypeStep, BookkeepingInit, BookkeepingStep, OrphanStep, PTL
  DEF Spec

-----------------------------------------------------------------------------
(* Overlap between tenants.                                                *)

\* The rows a Create was received with are never inserted again, and past the
\* conflict check none of them overlaps the new name.
ExistingPast == \A r \in Requests : \A i \in existing[r] : pc[i] \in Past

ConflictChecked ==
    \A r \in Requests : pc[r] \in {"probe", "post", "insert"} =>
        \A w \in rows :
            w.id \in existing[r] /\ w.tenant # job[r].tenant
                => ~Overlap(w.name, job[r].name)

OverlapInv == ExistingPast /\ ConflictChecked /\ OverlapOnlyByRace

\* Between two states with the same history of what existed, rows only come
\* from an insert, and requests only reach probe through the conflict check.
LEMMA OverlapFrame ==
    ASSUME TypeOK, TypeOK', Bookkeeping, OverlapInv, NoNewRows, job' = job,
           existing' = existing,
           \A q \in Requests : pc[q] \in Past => pc'[q] \in Past,
           \A q \in Requests : pc'[q] \in {"probe", "post", "insert"}
               => pc[q] \in {"probe", "post", "insert"}
    PROVE  OverlapInv'
<1> USE DEF OverlapInv
<1>1. ExistingPast'
  BY DEF ExistingPast, TypeOK
<1>2. ConflictChecked'
  BY DEF ConflictChecked, NoNewRows
<1>3. OverlapOnlyByRace'
  BY DEF OverlapOnlyByRace, NoNewRows
<1> QED
  BY <1>1, <1>2, <1>3

\* The row a Create writes overlaps none of the rows it was received with,
\* and is itself among nobody's.
LEMMA OverlapInsert ==
    ASSUME TypeOK, TypeOK', Bookkeeping, OverlapInv, NEW r \in Requests,
           pc[r] = "insert", rows' = rows \cup {NewRow(r)},
           job' = job, existing' = existing,
           NEW l \in {"unforward", "compensate"}, pc' = [pc EXCEPT ![r] = l]
    PROVE  OverlapInv'
<1> USE DEF OverlapInv
<1>1. \A q \in Requests : r \notin existing[q]
  BY DEF ExistingPast, Past
<1>2. ExistingPast'
  BY DEF ExistingPast, Past, TypeOK
<1>3. ConflictChecked'
  BY <1>1 DEF ConflictChecked, NewRow, TypeOK
<1>4. OverlapOnlyByRace'
  <2> SUFFICES ASSUME NEW v \in rows', NEW w \in rows', v.tenant # w.tenant,
                      Overlap(v.name, w.name), v.id \in existing[w.id]
               PROVE  FALSE
    BY DEF OverlapOnlyByRace
  <2>1. v \in rows
    BY <1>1 DEF NewRow, TypeOK, Row
  <2>2. CASE w \in rows
    BY <2>1, <2>2 DEF OverlapOnlyByRace
  <2>3. CASE w = NewRow(r)
    <3>1. w.id = r /\ w.tenant = job[r].tenant /\ w.name = job[r].name
      BY <2>3 DEF NewRow
    <3> QED
      BY <2>1, <3>1 DEF ConflictChecked
  <2> QED
    BY <2>2, <2>3
<1> QED
  BY <1>2, <1>3, <1>4

LEMMA OverlapCall ==
    ASSUME TypeOK, TypeOK', Bookkeeping, OverlapInv, NEW r \in Requests, Call(r)
    PROVE  OverlapInv'
<1>1. CASE Insert(r)
  <2>1. CASE rows' = rows \cup {NewRow(r)} /\ pc' = [pc EXCEPT ![r] = "unforward"]
    BY <1>1, <2>1, OverlapInsert DEF Insert, At
  <2>2. CASE rows' = rows /\ pc' = [pc EXCEPT ![r] = "compensate"]
    BY <1>1, <2>2, OverlapFrame DEF Insert, At, NoNewRows, Past, TypeOK
  <2> QED
    BY <1>1, <2>1, <2>2 DEF Insert, At, Goto
<1>2. CASE CheckConflict(r)
  <2> USE <1>2 DEF CheckConflict, At, Goto, OverlapInv
  <2>1. ExistingPast'
    BY DEF ExistingPast, Past, TypeOK
  <2>2. ConflictChecked'
    BY DEF ConflictChecked, Taken, TypeOK
  <2>3. OverlapOnlyByRace'
    BY DEF OverlapOnlyByRace
  <2> QED
    BY <2>1, <2>2, <2>3
<1>3. CASE QuietCall(r) /\ ~CheckConflict(r)
  <2>1. /\ job' = job /\ existing' = existing
        /\ \A q \in Requests : pc[q] \in Past => pc'[q] \in Past
        /\ \A q \in Requests : pc'[q] \in {"probe", "post", "insert"}
               => pc[q] \in {"probe", "post", "insert"}
    BY <1>3
    DEF QuietCall, CheckOwn, Probe, Compensate, Unforward, Forward,
         PutMeta, Save, AfterUnsaved, Restore, RemoveForward, ClearSyncZone,
         Erase, At, Goto, Past, TypeOK
  <2>2. NoNewRows
    <3>1. CASE Save(r)
      BY <3>1 DEF NoNewRows, Save, Saved, Mine
    <3>2. CASE rows' \subseteq rows
      BY <3>2 DEF NoNewRows
    <3> QED
      BY <1>3, <3>1, <3>2 DEF QuietCall, CheckOwn, Probe, Compensate, Unforward,
           Forward, PutMeta, Restore, RemoveForward, ClearSyncZone, Erase
  <2> QED
    BY <2>1, <2>2, OverlapFrame
<1>4. CASE Post(r) \/ Drop(r)
  BY <1>4, OverlapFrame DEF Post, Drop, At, Goto, NoNewRows, Past, TypeOK
<1> QED
  BY <1>1, <1>2, <1>3, <1>4 DEF Call, QuietCall

LEMMA OverlapAdmission ==
    ASSUME TypeOK, TypeOK', Bookkeeping, OverlapInv, Admission
    PROVE  OverlapInv'
<1> USE DEF OverlapInv
<1>1. PICK r \in Requests :
          /\ pc[r] = "idle" /\ rows' = rows
          /\ pc'[r] \in {"own", "put", "save", "drop"}
          /\ \A q \in Requests : q # r => /\ pc'[q] = pc[q]
                                          /\ job'[q] = job[q]
                                          /\ existing'[q] = existing[q]
          /\ existing'[r] = existing[r] \/ existing'[r] = Ids
  BY DEF Admission, StartCreate, StartUpdate, StartDelete, Admit, Goto, TypeOK
<1>2. \A w \in rows : w.id \in Requests /\ w.id # r /\ pc[w.id] \in Past
  BY <1>1 DEF Bookkeeping, RowsTraced, Minted, TypeOK, Row, Past
<1>3. ExistingPast'
  <2> SUFFICES ASSUME NEW q \in Requests, NEW i \in existing'[q]
               PROVE  pc'[i] \in Past
    BY DEF ExistingPast
  <2>1. i \in Requests /\ pc[i] \in Past
    BY <1>1, <1>2 DEF ExistingPast, Ids, TypeOK
  <2> QED
    BY <1>1, <2>1 DEF Past
<1>4. ConflictChecked'
  BY <1>1 DEF ConflictChecked
<1>5. OverlapOnlyByRace'
  BY <1>1, <1>2 DEF OverlapOnlyByRace
<1> QED
  BY <1>3, <1>4, <1>5

LEMMA OverlapDisturbance ==
    ASSUME TypeOK, TypeOK', Bookkeeping, OverlapInv, Disturbance
    PROVE  OverlapInv'
<1>1. ASSUME NEW r \in Requests, CallFails(r)
      PROVE  OverlapInv'
  BY <1>1, OverlapFrame DEF CallFails, AfterFailure, AfterUnsaved, Goto, Past,
                            NoNewRows, TypeOK
<1>2. ASSUME NEW r \in Requests, AnswerLost(r)
      PROVE  OverlapInv'
  <2>1. /\ job' = job /\ existing' = existing
        /\ pc' = [pc EXCEPT ![r] = AfterFailure(r)]
    BY <1>2 DEF AnswerLost, Goto
  <2>2. CASE pc[r] = "insert" /\ rows' = rows \cup {NewRow(r)}
    BY <2>1, <2>2, OverlapInsert DEF AfterFailure
  <2>3. CASE pc[r] \in {"post", "put", "drop", "save"}
    <3>1. NoNewRows
      BY <1>2, <2>3 DEF AnswerLost, NoNewRows, Saved, Mine
    <3> QED
      BY <2>1, <2>3, <3>1, OverlapFrame
      DEF AfterFailure, AfterUnsaved, Past, TypeOK
  <2> QED
    BY <1>2, <2>2, <2>3 DEF AnswerLost
<1>3. ASSUME NEW r \in Requests, Cancel(r)
      PROVE  OverlapInv'
  BY <1>3, OverlapFrame DEF Cancel, Goto, Past, NoNewRows, TypeOK
<1>4. CASE Crash
  BY <1>4, OverlapFrame DEF Crash, Past, NoNewRows, TypeOK
<1>5. ASSUME NEW n \in Names, NEW m \in Metas, Provision(n, m)
      PROVE  OverlapInv'
  BY <1>5, OverlapFrame DEF Provision, NoNewRows
<1> QED
  BY <1>1, <1>2, <1>3, <1>4, <1>5 DEF Disturbance

LEMMA OverlapStep ==
    ASSUME TypeOK, TypeOK', Bookkeeping, OverlapInv, [Next]_vars
    PROVE  OverlapInv'
<1>1. CASE UNCHANGED vars
  BY <1>1, OverlapFrame DEF vars, NoNewRows
<1> QED
  BY <1>1, OverlapCall, OverlapAdmission, OverlapDisturbance DEF Next

\* The check before the insert (dns_zone_conflict) is enough for every pair
\* of zones whose Creates did not run at the same time, however the requests
\* interleave and fail.
THEOREM OverlapNeedsRace == Spec => []OverlapOnlyByRace
<1>1. Init => OverlapInv
  BY DEF Init, OverlapInv, ExistingPast, ConflictChecked, OverlapOnlyByRace
<1>2. OverlapInv => OverlapOnlyByRace
  BY DEF OverlapInv
<1> QED
  BY <1>1, <1>2, TypeInit, TypeStep, BookkeepingInit, BookkeepingStep,
     OverlapStep, PTL
  DEF Spec

-----------------------------------------------------------------------------
(* The rows implement the registry of owners.                              *)

Owned == {<<w.name, w.tenant>> : w \in rows}

LEMMA RegistryClaim ==
    ASSUME TypeOK, NEW r \in Requests, pc[r] = "insert",
           NameFree(job[r].name), rows' = rows \cup {NewRow(r)}
    PROVE  Registry!RegistryNext
<1>1. job[r].name \in Names /\ job[r].tenant \in Tenants
  BY DEF TypeOK, Job
<1>2. Owned' = Owned \cup {<<job[r].name, job[r].tenant>>}
  <2>1. NewRow(r).name = job[r].name /\ NewRow(r).tenant = job[r].tenant
    BY DEF NewRow
  <2>2. Owned' = Owned \cup {<<NewRow(r).name, NewRow(r).tenant>>}
    BY DEF Owned
  <2> QED
    BY <2>1, <2>2
<1>3. \A t \in Tenants : <<job[r].name, t>> \notin Owned
  BY DEF Owned, NameFree
<1> QED
  BY <1>1, <1>2, <1>3 DEF Owned, Registry!RegistryNext, Registry!Claim,
                          Registry!Free

LEMMA RegistryRelease ==
    ASSUME TypeOK, Bookkeeping, NEW r \in Requests, rows' = rows \ Mine(r)
    PROVE  Registry!RegistryNext \/ Owned' = Owned
<1>1. CASE Mine(r) = {}
  BY <1>1 DEF Owned
<1>2. ASSUME NEW w \in Mine(r)
      PROVE  Registry!RegistryNext
  <2>1. w \in rows /\ w.name \in Names /\ w.tenant \in Tenants
    BY <1>2 DEF Mine, TypeOK, Row
  <2>2. \A v \in rows : v.name = w.name => v = w
    BY <2>1 DEF Bookkeeping, UniqueNames
  <2>3. \A v \in Mine(r) : v = w
    BY <1>2, <2>2 DEF Mine, Bookkeeping, RowsTraced
  <2>4. Owned' = Owned \ {<<w.name, w.tenant>>}
    BY <1>2, <2>1, <2>2, <2>3 DEF Owned
  <2>5. <<w.name, w.tenant>> \in Owned
    BY <2>1 DEF Owned
  <2> QED
    BY <2>1, <2>4, <2>5 DEF Owned, Registry!RegistryNext, Registry!Release
<1> QED
  BY <1>1, <1>2

LEMMA RegistryStep ==
    ASSUME TypeOK, Bookkeeping, [Next]_vars
    PROVE  Registry!RegistryNext \/ Owned' = Owned
<1>1. ASSUME NEW r, rows' = Saved(r)
      PROVE  Owned' = Owned
  <2>1. Owned' \subseteq Owned
    BY <1>1 DEF Owned, Saved, Mine
  <2>2. ASSUME NEW w \in rows
        PROVE  \E v \in rows' : v.name = w.name /\ v.tenant = w.tenant
    <3>1. CASE w \notin Mine(r)
      BY <1>1, <3>1 DEF Saved
    <3>2. CASE w \in Mine(r)
      <4> DEFINE v == [id |-> w.id, tenant |-> w.tenant, name |-> w.name,
                       meta |-> job[r].next]
      <4>1. v \in rows' /\ v.name = w.name /\ v.tenant = w.tenant
        BY <1>1, <3>2 DEF Saved
      <4> QED
        BY <4>1
    <3> QED
      BY <3>1, <3>2
  <2> QED
    BY <2>1, <2>2 DEF Owned
<1>2. ASSUME NEW r \in Requests, Call(r)
      PROVE  Registry!RegistryNext \/ Owned' = Owned
  <2>1. CASE Insert(r)
    BY <2>1, RegistryClaim DEF Insert, At, Owned
  <2>2. CASE Erase(r)
    BY <2>2, RegistryRelease DEF Erase
  <2>3. CASE Save(r)
    BY <1>1, <2>3 DEF Save
  <2>4. CASE rows' = rows
    BY <2>4 DEF Owned
  <2> QED
    BY <1>2, <2>1, <2>2, <2>3, <2>4
    DEF Call, CheckOwn, CheckConflict, Probe, Post, Compensate, Unforward,
        Forward, PutMeta, Restore, Drop, RemoveForward, ClearSyncZone
<1>3. ASSUME NEW r \in Requests, AnswerLost(r)
      PROVE  Registry!RegistryNext \/ Owned' = Owned
  <2>1. CASE pc[r] = "insert" /\ NameFree(job[r].name)
             /\ rows' = rows \cup {NewRow(r)}
    BY <2>1, RegistryClaim
  <2> QED
    BY <1>1, <1>3, <2>1 DEF AnswerLost, Owned
<1> QED
  BY <1>2, <1>3
  DEF Next, Admission, StartCreate, StartUpdate, StartDelete, Admit,
      Disturbance, CallFails, Cancel, Crash, Provision, vars, Owned

\* The dns_zones table implements ZoneRegistry: a name has one owner at a
\* time, is claimed only while free and released only by a Delete.
THEOREM RegistryImplemented == Spec => RegistryRefined
<1>1. Init => Registry!RegistryInit
  BY DEF Init, Registry!RegistryInit
<1>2. ASSUME TypeOK, Bookkeeping, [Next]_vars
      PROVE  [Registry!RegistryNext]_Owned
  BY <1>2, RegistryStep
<1> QED
  BY <1>1, <1>2, TypeInit, TypeStep, BookkeepingInit, BookkeepingStep, PTL
  DEF Spec, RegistryRefined, Registry!RegistrySpec, Owned

-----------------------------------------------------------------------------
(* The reconciler: one undisturbed pass repairs the recursor, for any       *)
(* zones, requests, faults, initial forwards and overlapping passes.       *)

\* What a pass still has to do concerns zones it read as managed, then
\* forwards it must not keep.
Aimed ==
    \A p \in Passes :
        /\ step[p] \in {"sync", "point"} => todo[p] \subseteq managed[p]
        /\ step[p] = "point" => at[p] \in todo[p]
        /\ step[p] = "prune" => todo[p] \cap Keep(p) = {}

\* The domains of the passes' variables.
Shape ==
    /\ DOMAIN step = Passes /\ DOMAIN managed = Passes /\ DOMAIN todo = Passes
    /\ DOMAIN at = Passes /\ DOMAIN calm = Passes
    /\ step = [p \in Passes |-> step[p]] /\ managed = [p \in Passes |-> managed[p]]
    /\ todo = [p \in Passes |-> todo[p]] /\ at = [p \in Passes |-> at[p]]
    /\ calm = [p \in Passes |-> calm[p]]

\* What an undisturbed pass has achieved at each of its steps, and that the
\* passes beside it work from the same names.
Achieved(p) ==
    /\ \A q \in Passes : step[q] \in Working => managed[q] = Managed
    /\ step[p] \in {"wait", "ready", "read"} => Covered
    /\ step[p] \in {"sync", "point"} => Managed \ (todo[p] \cup Gap) \subseteq forwards
    /\ step[p] = "prune" => /\ Managed \ Gap \subseteq forwards
                            /\ forwards \ Keep(p) \subseteq todo[p]

Progress == \A p \in Passes : calm[p] => Achieved(p)

Inv == Shape /\ Aimed /\ Progress

LEMMA InvInit == PassInit => Inv
  BY DEF PassInit, Inv, Shape, Aimed, Progress

LEMMA ShapeStep ==
    ASSUME Shape, [PassNext]_allVars
    PROVE  Shape'
<1>1. ASSUME NEW p \in Passes, RestartRecursor(p) \/ Pass(p)
      PROVE  Shape'
  BY <1>1 DEF RestartRecursor, Pass, Ready, ReadNames, Unpoint, Point, ListForwards,
              Prune, EndPass, Hitch, Uncalm, Shape
<1>2. CASE ZoneStep \/ CrashAll
  BY <1>2 DEF ZoneStep, CrashAll, Uncalm, Shape
<1>3. CASE UNCHANGED allVars
  BY <1>3 DEF allVars, passVars, Shape
<1> QED
  BY <1>1, <1>2, <1>3 DEF PassNext

LEMMA AimedStep ==
    ASSUME Shape, Aimed, [PassNext]_allVars
    PROVE  Aimed'
<1>1. ASSUME NEW p \in Passes, RestartRecursor(p) \/ Pass(p)
      PROVE  Aimed'
  BY <1>1 DEF RestartRecursor, Pass, Ready, ReadNames, Unpoint, Point, ListForwards,
              Prune, EndPass, Hitch, Uncalm, Shape, Aimed, Keep
<1>2. CASE ZoneStep \/ CrashAll
  BY <1>2 DEF ZoneStep, CrashAll, Uncalm, Shape, Aimed, Keep
<1>3. CASE UNCHANGED allVars
  BY <1>3 DEF allVars, passVars, Aimed, Keep
<1> QED
  BY <1>1, <1>2, <1>3 DEF PassNext

\* A failed call, a restart of the recursor and a request leave no pass calm.
LEMMA Uncalmed ==
    ASSUME Uncalm
    PROVE  Progress'
  BY DEF Uncalm, Progress

LEMMA ProgressPass ==
    ASSUME Inv, NEW p \in Passes, Pass(p)
    PROVE  Progress'
<1> USE DEF Working, zoneVars
<1>h. CASE Hitch
  BY <1>h, Uncalmed DEF Hitch
<1>m. Managed' = Managed
  BY DEF Pass, Ready, ReadNames, Unpoint, Point, ListForwards, Prune, EndPass, Managed
<1>1. CASE Ready(p) /\ ~Hitch
  BY <1>1, <1>m DEF Ready, Inv, Shape, Progress, Achieved, Covered, Gap, Keep
<1>2. CASE ReadNames(p)
  <2>1. Gap' = Gap
    BY <1>2 DEF ReadNames, Inv, Shape, Gap
  <2>2. SUFFICES ASSUME NEW q \in Passes, calm'[q]
                 PROVE  Achieved(q)'
    BY DEF Progress
  <2> QED
    BY <1>2, <1>m, <2>1, <2>2 DEF ReadNames, Inv, Shape, Progress, Achieved, Covered, Keep
<1>3. ASSUME NEW n \in Names, Unpoint(p, n), ~Hitch
      PROVE  Progress'
  BY <1>3, <1>m DEF Unpoint, Inv, Shape, Aimed, Progress, Achieved, Covered, Gap, Keep
<1>4. CASE Point(p) /\ ~Hitch
  <2>1. Gap \subseteq Gap' \cup {at[p]}
    BY <1>4 DEF Point, Inv, Shape, Gap
  <2>2. forwards' = forwards \cup {at[p]} /\ at[p] \in managed[p]
    BY <1>4 DEF Point, Inv, Aimed
  <2> QED
    BY <1>4, <1>m, <2>1, <2>2 DEF Point, Inv, Shape, Progress, Achieved, Covered, Keep
<1>5. CASE ListForwards(p) /\ ~Hitch
  BY <1>5, <1>m DEF ListForwards, Inv, Shape, Progress, Achieved, Covered, Gap, Keep
<1>6. ASSUME NEW n \in Names, Prune(p, n), ~Hitch
      PROVE  Progress'
  BY <1>6, <1>m DEF Prune, Inv, Shape, Aimed, Progress, Achieved, Covered, Gap, Keep
<1>7. CASE EndPass(p)
  <2>1. Gap' = Gap
    BY <1>7 DEF EndPass, Inv, Shape, Gap
  <2> QED
    BY <1>7, <1>m, <2>1 DEF EndPass, Inv, Shape, Progress, Achieved, Covered, Keep
<1> QED
  BY <1>h, <1>1, <1>2, <1>3, <1>4, <1>5, <1>6, <1>7 DEF Pass

LEMMA InvStep ==
    ASSUME Inv, [PassNext]_allVars
    PROVE  Inv'
<1>1. ASSUME NEW p \in Passes, RestartRecursor(p)
      PROVE  Progress'
  BY <1>1, Uncalmed DEF RestartRecursor, Hitch
<1>2. ASSUME ZoneStep \/ CrashAll
      PROVE  Progress'
  BY <1>2, Uncalmed DEF ZoneStep, CrashAll
<1>3. ASSUME UNCHANGED allVars
      PROVE  Progress'
  BY <1>3 DEF allVars, passVars, vars, Inv, Progress, Achieved, Managed, Keep, Covered, Gap
<1>4. Progress'
  BY <1>1, <1>2, <1>3, ProgressPass DEF PassNext
<1> QED
  BY <1>4, ShapeStep, AimedStep DEF Inv

\* Whatever best-effort calls failed, whatever a stale pass did and whatever
\* the recursor forgot before, a pass that runs undisturbed leaves exactly the
\* forwards of the managed zones, and configured ones, on the recursor, but
\* for a zone that another pass is just re-pointing.
THEOREM PassRepairs == PassSpec => []OnePassRepairs
<1>1. Inv => OnePassRepairs
  BY DEF Inv, Progress, Achieved, OnePassRepairs
<1> QED
  BY <1>1, InvInit, InvStep, PTL DEF PassSpec

\* No step of any pass removes a configured forward that the pass did not read
\* as the name of a managed zone.
THEOREM PassKeepsStatic == PassSpec => StaticKept
<1>1. ASSUME Inv, NEW p \in Passes, Pass(p), NEW n \in Static \ managed[p],
             n \in forwards
      PROVE  n \in forwards'
  BY <1>1 DEF Pass, Ready, ReadNames, Unpoint, Point, ListForwards, Prune, EndPass,
              Inv, Aimed, Keep
<1>2. Inv /\ [PassNext]_allVars
          => [\A p \in Passes : Pass(p) =>
                \A n \in Static \ managed[p] : n \in forwards => n \in forwards']_allVars
  BY <1>1
<1> QED
  BY <1>2, InvInit, InvStep, PTL DEF PassSpec, StaticKept
=============================================================================
