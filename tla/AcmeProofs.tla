----------------------------- MODULE AcmeProofs -----------------------------
(***************************************************************************)
(* Proofs about the ACME challenges of one service instance, for any       *)
(* zones, values, callers, limits, faults and edits.  (Two instances       *)
(* overwrite each other's values: MCAcmeStrict.cfg.)                       *)
(***************************************************************************)
EXTENDS AcmeChallenge, TLAPS

\* Zenon first: it is the quicker one wherever there is no arithmetic.
USE ZenonT(2), SMT, Zenon

OneInstance == \A i, j \in Instances : i = j

-----------------------------------------------------------------------------
(* The inductive invariant.                                                *)

Active(p) == pc[p] \notin {"idle", "sweep"}
Locked(p) == pc[p] \notin {"idle", "sweep", "lock"}

\* Who works holds a job, who is past Lock its mutex.
Working ==
    \A p \in Procs :
        /\ job[p] = NoJob <=> ~Active(p)
        /\ pc[p] = "sweep" => p \in Instances
        /\ Locked(p) => lock[job[p].host] = p
        /\ pc[p] = "record" => job[p].op = "present"
        /\ Active(p) => minted # 0

\* Zone ids are used once.
Numbered ==
    /\ \A z \in Zones : zone[z] <= minted
    /\ \A y, z \in Zones : zone[y] = zone[z] /\ zone[y] # 0 => y = z

\* A value that no fault and no change of zones has hit is in use only where
\* FindForName leads now.
Clean == Values \ hurt
Here(id) == FindForName \in Live /\ id = zone[FindForName]

JobsHere  == \A p \in Procs : Active(p) /\ job[p].value \in Clean
                 => job[p].name = FindForName /\ Here(job[p].id)
BooksHere == \A b \in books : b.value \in Clean => Here(b.zone)
BatchHere == \A i \in Instances : \A b \in batch[i] : b.value \in Clean => Here(b.zone)
TxtHere   == \A z \in Zones : \A v \in txt[z] \cap Clean : z = FindForName /\ FindForName \in Live
InPlace == JobsHere /\ BooksHere /\ BatchHere /\ TxtHere

\* What was read is still so when it is written back.
Fresh ==
    \A p \in Procs :
        /\ pc[p] = "write" => \A v \in Clean : v \in job[p].seen <=> v \in txt[job[p].name]
        /\ pc[p] = "forget" /\ job[p].value \in Clean => job[p].value \notin txt[job[p].name]
        /\ pc[p] = "write" /\ edits = 0 /\ minted = 1 /\ zone[job[p].name] # 0
               => job[p].seen = txt[job[p].name]

AcmeInv == TypeOK /\ Working /\ Numbered /\ InPlace /\ Fresh /\ StrayExplained

-----------------------------------------------------------------------------
(* Types.                                                                  *)

\* The settings, and the records of the model.
LEMMA SettingTypes ==
    ASSUME setting \in Settings
    PROVE  /\ setting.callers \subseteq Callers /\ setting.values \subseteq Values
           /\ setting.zones \in 0..MaxZones /\ setting.edits \in Nat
  BY ChallengeConstants

LEMMA JobTypes ==
    ASSUME NEW j \in Jobs
    PROVE  /\ j.op \in {"present", "cleanup"} /\ j.value \in Values /\ j.name \in Zones
           /\ j.id \in 1..MaxZones /\ j.seen \subseteq Values \cup {Other} /\ j.host \in Instances
           /\ j # NoJob
<1>1. NoJob.op = "none"
  BY DEF NoJob
<1> QED
  BY <1>1 DEF Jobs

LEMMA ActiveJob ==
    ASSUME TypeOK, Working, NEW p \in Procs, Active(p)
    PROVE  job[p] \in Jobs
  BY DEF TypeOK, Working

\* A value and a zone have their row; deleting rows makes no others.
LEMMA DeletedRows ==
    ASSUME TypeOK, NEW vs
    PROVE  /\ Deleted(vs) \subseteq Books
           /\ \A b, c \in Deleted(vs) : b.value = c.value => b = c
           /\ \A b \in Deleted(vs) : \E c \in books : b.value = c.value /\ b.zone = c.zone
           /\ \A c \in books : c.value \notin vs =>
                  \E b \in Deleted(vs) : b.value = c.value /\ b.zone = c.zone
<1> DEFINE Cut(c) == [c EXCEPT !.older = @ \ vs]
<1>1. /\ books \subseteq Books /\ \A b, c \in books : b.value = c.value => b = c
  BY DEF TypeOK
<1>2. ASSUME NEW c \in books
      PROVE  Cut(c) \in Books /\ Cut(c).value = c.value /\ Cut(c).zone = c.zone
  <2>1. c \in Books
    BY <1>1
  <2> QED
    BY <2>1 DEF Books
<1>3. \A b \in Deleted(vs) : \E c \in books : b = Cut(c)
  BY DEF Deleted
<1>4. \A c \in books : c.value \notin vs => Cut(c) \in Deleted(vs)
  BY DEF Deleted
<1> HIDE DEF Cut
<1>5. \A b, c \in Deleted(vs) : b.value = c.value => b = c
  BY <1>1, <1>2, <1>3
<1>6. \A b \in Deleted(vs) : b \in Books /\ \E c \in books : b.value = c.value /\ b.zone = c.zone
  BY <1>2, <1>3
<1>7. \A c \in books : c.value \notin vs =>
          \E b \in Deleted(vs) : b.value = c.value /\ b.zone = c.zone
  BY <1>2, <1>4
<1> QED
  BY <1>5, <1>6, <1>7

LEMMA TypeInit == Init => TypeOK
  BY ChallengeConstants, SettingTypes DEF Init, TypeOK, Procs

\* How an operation moves on.
Parked == [p \in Procs |-> IF p \in Instances THEN "sweep" ELSE "idle"]

LEMMA DoneTypes ==
    ASSUME TypeOK, Working, NEW p \in Procs, Locked(p), Done(p)
    PROVE  /\ lock' \in [Instances -> Procs \cup {Nobody}]
           /\ pc' \in [Procs -> {"idle", "sweep", "lock", "cname", "txt", "write", "record", "forget"}]
           /\ job' \in [Procs -> Jobs \cup {NoJob}]
           /\ job'[p] = NoJob /\ pc'[p] = Parked[p] /\ ~Active(p)'
           /\ \A q \in Procs \ {p} : job'[q] = job[q] /\ pc'[q] = pc[q]
           /\ \A q \in Procs \ {p} : Locked(q) => lock'[job[q].host] = lock[job[q].host]
<1>1. job[p] \in Jobs /\ job[p].host \in Instances
  BY ActiveJob, JobTypes DEF Active, Locked
<1>2. /\ lock \in [Instances -> Procs \cup {Nobody}]
      /\ pc \in [Procs -> {"idle", "sweep", "lock", "cname", "txt", "write", "record", "forget"}]
      /\ job \in [Procs -> Jobs \cup {NoJob}]
  BY DEF TypeOK
<1>3. /\ lock' = [lock EXCEPT ![job[p].host] = Nobody]
      /\ pc' = [pc EXCEPT ![p] = IF p \in Instances THEN "sweep" ELSE "idle"]
      /\ job' = [job EXCEPT ![p] = NoJob]
  BY DEF Done
<1>4. lock' \in [Instances -> Procs \cup {Nobody}]
  BY <1>2, <1>3
<1>5. /\ pc' \in [Procs -> {"idle", "sweep", "lock", "cname", "txt", "write", "record", "forget"}]
      /\ pc'[p] = Parked[p] /\ ~Active(p)' /\ \A q \in Procs \ {p} : pc'[q] = pc[q]
  BY <1>2, <1>3 DEF Parked, Active
<1>6. /\ job' \in [Procs -> Jobs \cup {NoJob}] /\ job'[p] = NoJob
      /\ \A q \in Procs \ {p} : job'[q] = job[q]
  BY <1>2, <1>3
<1>7. ASSUME NEW q \in Procs \ {p}, Locked(q) PROVE lock'[job[q].host] = lock[job[q].host]
  <2>1. lock[job[q].host] = q /\ lock[job[p].host] = p /\ q # p
    BY <1>7 DEF Working
  <2>2. job[q].host # job[p].host
    BY <2>1
  <2>3. job[q] \in Jobs /\ job[q].host \in Instances
    BY <1>7, ActiveJob, JobTypes DEF Active, Locked
  <2> QED
    BY <1>2, <1>3, <2>2, <2>3
<1> QED
  BY <1>4, <1>5, <1>6, <1>7

LEMMA DoneWorking ==
    ASSUME TypeOK, Working, NEW p \in Procs, Locked(p), Done(p), minted' = minted
    PROVE  Working'
<1>1. /\ job'[p] = NoJob /\ pc'[p] = Parked[p] /\ ~Active(p)'
      /\ \A q \in Procs \ {p} : job'[q] = job[q] /\ pc'[q] = pc[q]
      /\ \A q \in Procs \ {p} : Locked(q) => lock'[job[q].host] = lock[job[q].host]
  BY DoneTypes
<1>2. pc'[p] = "sweep" => p \in Instances
  BY <1>1 DEF Parked
<1>3. ~Locked(p)' /\ pc'[p] # "record"
  BY <1>1 DEF Active, Locked
<1>4. ASSUME NEW q \in Procs \ {p}
      PROVE  /\ job'[q] = NoJob <=> ~Active(q)'
             /\ pc'[q] = "sweep" => q \in Instances
             /\ Locked(q)' => lock'[job'[q].host] = q
             /\ pc'[q] = "record" => job'[q].op = "present"
             /\ Active(q)' => minted' # 0
  BY <1>1 DEF Working, Active, Locked
<1> QED
  BY <1>1, <1>2, <1>3, <1>4 DEF Working

LEMMA GotoTypes ==
    ASSUME TypeOK, NEW p \in Procs, NEW l \in {"cname", "txt", "write", "record", "forget"},
           pc' = [pc EXCEPT ![p] = l]
    PROVE  /\ pc' \in [Procs -> {"idle", "sweep", "lock", "cname", "txt", "write", "record", "forget"}]
           /\ pc'[p] = l /\ \A q \in Procs \ {p} : pc'[q] = pc[q]
  BY DEF TypeOK

LEMMA GotoWorking ==
    ASSUME TypeOK, Working, NEW p \in Procs, Locked(p),
           NEW l \in {"txt", "write", "record", "forget"}, pc' = [pc EXCEPT ![p] = l],
           UNCHANGED <<lock, minted>>, \A q \in Procs \ {p} : job'[q] = job[q],
           job'[p] \in Jobs, job'[p].host = job[p].host, l = "record" => job'[p].op = "present"
    PROVE  Working'
<1>1. pc'[p] = l /\ \A q \in Procs \ {p} : pc'[q] = pc[q]
  BY GotoTypes
<1>2. job'[p] # NoJob
  BY JobTypes
<1>3. Active(p)' /\ Active(p) /\ minted # 0 /\ lock[job[p].host] = p
  BY <1>1 DEF Active, Locked, Working
<1>4. ASSUME NEW q \in Procs \ {p}
      PROVE  /\ job'[q] = NoJob <=> ~Active(q)'
             /\ pc'[q] = "sweep" => q \in Instances
             /\ Locked(q)' => lock'[job'[q].host] = q
             /\ pc'[q] = "record" => job'[q].op = "present"
             /\ Active(q)' => minted' # 0
  BY <1>1 DEF Working, Active, Locked
<1> QED
  BY <1>1, <1>2, <1>3, <1>4 DEF Working

-----------------------------------------------------------------------------
(* resolve.                                                                *)

\* Only a change of the zones moves the place.
LEMMA SamePlace ==
    ASSUME zone' = zone
    PROVE  /\ FindForName' = FindForName /\ Live' = Live
           /\ \A id : Here(id)' <=> Here(id)
<1>1. Live' = Live
  BY DEF Live
<1>2. FindForName' = FindForName
  BY <1>1 DEF FindForName
<1> QED
  BY <1>1, <1>2 DEF Here

-----------------------------------------------------------------------------
(* Changes of the zones: whatever is in use is not clean any more.         *)

LEMMA ZonesChanged ==
    ASSUME AcmeInv, hurt' = hurt \cup InUse,
           \A z \in Zones : txt'[z] \subseteq txt[z],
           \A b \in books' : \E c \in books : b.value = c.value,
           UNCHANGED <<lock, pc, job, batch>>, minted' >= minted, minted' \in Nat,
           \A p \in Procs : Active(p) /\ minted' = 1 /\ edits' = 0 /\ zone'[job[p].name] # 0
               => /\ minted = 1 /\ edits = 0 /\ zone[job[p].name] # 0
                  /\ txt'[job[p].name] = txt[job[p].name]
    PROVE  Working' /\ InPlace' /\ Fresh' /\ StrayExplained'
<1>1. TypeOK /\ Working /\ InPlace /\ Fresh
  BY DEF AcmeInv
<1>2. minted \in Nat
  BY <1>1 DEF TypeOK
<1>3. Working'
  BY <1>1, <1>2 DEF Working, Active, Locked
<1>4. \A v \in Clean' : v \in Clean /\ v \notin InUse
  BY DEF Clean
<1>5. /\ \A z \in Zones : txt[z] \cap Values \subseteq InUse
      /\ \A b \in books : b.value \in Values => b.value \in InUse
      /\ \A p \in Procs : Active(p) /\ job[p].value \in Values => job[p].value \in InUse
      /\ \A i \in Instances : \A b \in batch[i] : b.value \in Values => b.value \in InUse
      /\ Clean' \subseteq Values
  BY DEF InUse, Active, Booked, Clean
<1>6. InPlace'
  <2>1. JobsHere'
    BY <1>4, <1>5 DEF JobsHere, Active
  <2>2. BooksHere'
    BY <1>4, <1>5 DEF BooksHere
  <2>3. BatchHere'
    BY <1>4, <1>5 DEF BatchHere
  <2>4. TxtHere'
    BY <1>4, <1>5 DEF TxtHere
  <2> QED
    BY <2>1, <2>2, <2>3, <2>4 DEF InPlace
<1>7. Fresh'
  <2>1. ASSUME NEW p \in Procs, pc[p] = "write", NEW v \in Clean'
        PROVE  v \in job[p].seen <=> v \in txt'[job[p].name]
    <3>1. job[p].name \in Zones
      BY <1>1, <2>1, ActiveJob, JobTypes DEF Active
    <3> QED
      BY <1>1, <1>4, <1>5, <2>1, <3>1 DEF Fresh
  <2>2. ASSUME NEW p \in Procs, pc[p] = "forget" PROVE job[p].value \notin Clean'
    BY <1>4, <1>5, <2>2 DEF Active
  <2>3. ASSUME NEW p \in Procs, pc[p] = "write", edits' = 0, minted' = 1, zone'[job[p].name] # 0
        PROVE  job[p].seen = txt'[job[p].name]
    BY <1>1, <2>3 DEF Fresh, Active
  <2> QED
    BY <2>1, <2>2, <2>3 DEF Fresh
<1>8. StrayExplained'
  <2>1. \A z \in Zones : (txt'[z] \cap Values) \ hurt' = {}
    BY <1>5
  <2> QED
    BY <2>1 DEF StrayExplained
<1> QED
  BY <1>3, <1>6, <1>7, <1>8

LEMMA CreateZoneInv ==
    ASSUME AcmeInv, NEW z \in Zones, CreateZone(z)
    PROVE  AcmeInv'
<1>1. TypeOK /\ Working /\ Numbered
  BY DEF AcmeInv
<1>2. minted \in Nat /\ minted + 1 \in 1..MaxZones /\ zone \in [Zones -> 0..MaxZones]
  BY <1>1, SettingTypes, ChallengeConstants DEF TypeOK, CreateZone
<1>3. /\ zone' = [zone EXCEPT ![z] = minted + 1] /\ minted' = minted + 1 /\ zone[z] = 0
      /\ hurt' = hurt \cup InUse
      /\ UNCHANGED <<setting, txt, cname, books, lock, pc, job, batch, edits, faults>>
  BY DEF CreateZone
<1>4. zone' \in [Zones -> 0..MaxZones] /\ minted' \in 0..MaxZones /\ minted' \in Nat /\ minted' >= minted
  <2>1. minted + 1 \in 0..MaxZones /\ minted + 1 >= minted /\ minted + 1 \in Nat
    BY <1>2, ChallengeConstants
  <2> QED
    BY <1>2, <1>3, <2>1
<1>5. TypeOK'
  <2>1. hurt' \subseteq Values
    BY <1>1, <1>3 DEF TypeOK, InUse
  <2> QED
    BY <1>1, <1>3, <1>4, <2>1 DEF TypeOK
<1>6. Numbered'
  <2>1. \A y \in Zones : zone[y] \in Nat /\ zone[y] <= minted
    BY <1>1, <1>2 DEF Numbered
  <2>2. \A y \in Zones : zone'[y] = IF y = z THEN minted + 1 ELSE zone[y]
    BY <1>2, <1>3
  <2> QED
    BY <1>1, <1>2, <1>3, <2>1, <2>2 DEF Numbered
<1>7. \A p \in Procs : Active(p) => minted # 0
  BY <1>1 DEF Working
<1>8. \A p \in Procs : Active(p) => minted' # 1
  BY <1>2, <1>3, <1>7
<1>9. Working' /\ InPlace' /\ Fresh' /\ StrayExplained'
  BY <1>3, <1>4, <1>8, ZonesChanged
<1> QED
  BY <1>5, <1>6, <1>9 DEF AcmeInv

LEMMA DeleteZoneInv ==
    ASSUME AcmeInv, NEW z \in Zones, DeleteZone(z)
    PROVE  AcmeInv'
<1> DEFINE vs == {b.value : b \in {c \in books : c.zone = zone[z]}}
<1>1. TypeOK /\ Working /\ Numbered
  BY DEF AcmeInv
<1>2. /\ zone' = [zone EXCEPT ![z] = 0] /\ txt' = [txt EXCEPT ![z] = {}]
      /\ cname' = [cname EXCEPT ![z] = FALSE] /\ books' = Deleted(vs)
      /\ hurt' = hurt \cup InUse
      /\ UNCHANGED <<setting, minted, lock, pc, job, batch, edits, faults>>
  BY DEF DeleteZone
<1> HIDE DEF vs
<1>3. /\ books' \subseteq Books
      /\ \A b, c \in books' : b.value = c.value => b = c
      /\ \A b \in books' : \E c \in books : b.value = c.value
  BY <1>1, <1>2, DeletedRows
<1>4. /\ zone \in [Zones -> 0..MaxZones] /\ txt \in [Zones -> SUBSET (Values \cup {Other})]
      /\ cname \in [Zones -> BOOLEAN] /\ minted \in Nat
  BY <1>1 DEF TypeOK
<1>5. /\ zone' \in [Zones -> 0..MaxZones] /\ txt' \in [Zones -> SUBSET (Values \cup {Other})]
      /\ cname' \in [Zones -> BOOLEAN]
  BY <1>2, <1>4, ChallengeConstants
<1>6. TypeOK'
  <2>1. hurt' \subseteq Values
    BY <1>1, <1>2 DEF TypeOK, InUse
  <2> QED
    BY <1>1, <1>2, <1>3, <1>5, <2>1 DEF TypeOK
<1>7. \A y \in Zones : zone'[y] = IF y = z THEN 0 ELSE zone[y]
  BY <1>2, <1>4
<1>a. txt'[z] = {} /\ \A y \in Zones \ {z} : txt'[y] = txt[y]
  BY <1>2, <1>4
<1>8. Numbered'
  BY <1>1, <1>2, <1>4, <1>7 DEF Numbered
<1>9. \A p \in Procs : Active(p) => job[p].name \in Zones
  BY <1>1, ActiveJob, JobTypes
<1>10. Working' /\ InPlace' /\ Fresh' /\ StrayExplained'
  BY <1>2, <1>3, <1>4, <1>7, <1>a, <1>9, ZonesChanged
<1> QED
  BY <1>6, <1>8, <1>10 DEF AcmeInv

-----------------------------------------------------------------------------
(* Edits by people.                                                        *)

LEMMA EditInv ==
    ASSUME AcmeInv, NEW z \in Zones, Edit(z)
    PROVE  AcmeInv'
<1>1. TypeOK /\ Working /\ Numbered /\ InPlace /\ Fresh /\ StrayExplained
  BY DEF AcmeInv
<1>2. /\ edits < setting.edits /\ edits' = edits + 1
      /\ UNCHANGED <<setting, zone, minted, books, lock, pc, job, batch, faults, hurt>>
  BY DEF Edit
<1>3. txt \in [Zones -> SUBSET (Values \cup {Other})] /\ cname \in [Zones -> BOOLEAN]
  BY <1>1 DEF TypeOK
<1>4. /\ txt' \in [Zones -> SUBSET (Values \cup {Other})] /\ cname' \in [Zones -> BOOLEAN]
      /\ \A y \in Zones : \A v \in Values : v \in txt'[y] <=> v \in txt[y]
  <2>1. CASE /\ txt' = [txt EXCEPT ![z] = IF Other \in @ THEN @ \ {Other} ELSE @ \cup {Other}]
             /\ UNCHANGED cname
    BY <1>3, <2>1, ChallengeConstants
  <2>2. CASE cname' = [cname EXCEPT ![z] = ~@] /\ UNCHANGED txt
    BY <1>3, <2>2
  <2> QED
    BY <2>1, <2>2 DEF Edit
<1>5. edits' \in 0..setting'.edits /\ edits' # 0
  <2>1. edits \in Nat /\ setting.edits \in Nat
    BY <1>1, SettingTypes DEF TypeOK
  <2> QED
    BY <1>2, <2>1
<1>6. TypeOK'
  BY <1>1, <1>2, <1>4, <1>5 DEF TypeOK
<1>7. Working' /\ Numbered'
  BY <1>1, <1>2 DEF Working, Numbered, Active, Locked
<1>8. InPlace'
  <2>1. JobsHere' /\ BooksHere' /\ BatchHere'
    BY <1>1, <1>2, SamePlace DEF InPlace, JobsHere, BooksHere, BatchHere, Active, Clean
  <2>2. TxtHere'
    BY <1>1, <1>2, <1>4, SamePlace DEF InPlace, TxtHere, Clean
  <2> QED
    BY <2>1, <2>2 DEF InPlace
<1>9. Fresh'
  <2>1. \A p \in Procs : pc[p] \in {"write", "forget"} => job[p].name \in Zones
    BY <1>1, ActiveJob, JobTypes DEF Active
  <2> QED
    BY <1>1, <1>2, <1>4, <1>5, <2>1 DEF Fresh, Clean
<1>10. StrayExplained'
  BY <1>1, <1>2, <1>4 DEF StrayExplained, Recorded, InFlight
<1> QED
  BY <1>6, <1>7, <1>8, <1>9, <1>10 DEF AcmeInv

-----------------------------------------------------------------------------
(* Present and CleanUp start, and take the mutex.                          *)

\* Nothing under the mutex is touched.
LEMMA OutsideInv ==
    ASSUME AcmeInv, TypeOK', Working', JobsHere', BatchHere',
           UNCHANGED <<envVars, txt, books, hurt>>,
           \A p \in Procs : pc'[p] \in {"write", "forget"} => pc'[p] = pc[p] /\ job'[p] = job[p],
           \A p \in Procs : pc[p] = "record" => pc'[p] = pc[p] /\ job'[p] = job[p]
    PROVE  AcmeInv'
<1>1. TypeOK /\ Working /\ Numbered /\ InPlace /\ Fresh /\ StrayExplained
  BY DEF AcmeInv
<1>2. Numbered'
  BY <1>1 DEF Numbered, envVars
<1>3. InPlace'
  BY <1>1, SamePlace DEF InPlace, BooksHere, TxtHere, Clean, envVars
<1>4. Fresh'
  BY <1>1 DEF Fresh, Clean, envVars
<1>5. StrayExplained'
  BY <1>1 DEF StrayExplained, Recorded, InFlight, envVars
<1> QED
  BY <1>2, <1>3, <1>4, <1>5 DEF AcmeInv

\* A job is taken on.
LEMMA StartInv ==
    ASSUME AcmeInv, NEW p \in Procs, ~Active(p), NEW op \in {"present", "cleanup"}, NEW v \in Values,
           NEW z \in Live, NEW i \in Instances, v \in Clean => z = FindForName,
           job' = [job EXCEPT ![p] = NewJob(op, v, z, i)], pc' = [pc EXCEPT ![p] = "lock"],
           UNCHANGED <<envVars, txt, cname, books, lock, hurt>>, faults' \in 0..MaxFaults,
           batch' \in [Instances -> SUBSET Books], \A k \in Instances : batch'[k] \subseteq batch[k]
    PROVE  AcmeInv'
<1>1. TypeOK /\ Working /\ Numbered /\ InPlace
  BY DEF AcmeInv
<1>2. z \in Zones /\ zone[z] \in 1..MaxZones /\ zone[z] <= minted /\ minted \in Nat
  <2>1. z \in Zones /\ zone[z] # 0
    BY DEF Live
  <2>2. zone[z] \in 0..MaxZones /\ minted \in Nat /\ MaxZones \in Nat
    BY <1>1, <2>1, ChallengeConstants DEF TypeOK
  <2> QED
    BY <1>1, <2>1, <2>2 DEF Numbered
<1>3. /\ NewJob(op, v, z, i) \in Jobs /\ NewJob(op, v, z, i).value = v
      /\ NewJob(op, v, z, i).name = z /\ NewJob(op, v, z, i).id = zone[z]
  BY <1>2 DEF NewJob, Jobs
<1> DEFINE j == NewJob(op, v, z, i)
<1> HIDE DEF j
<1>4. /\ job' \in [Procs -> Jobs \cup {NoJob}] /\ job'[p] = j
      /\ \A q \in Procs \ {p} : job'[q] = job[q]
  BY <1>1, <1>3 DEF TypeOK, j
<1>5. /\ pc' \in [Procs -> {"idle", "sweep", "lock", "cname", "txt", "write", "record", "forget"}]
      /\ pc'[p] = "lock" /\ \A q \in Procs \ {p} : pc'[q] = pc[q]
  BY <1>1 DEF TypeOK
<1>6. TypeOK'
  BY <1>1, <1>4, <1>5 DEF TypeOK, envVars
<1>7. Working'
  <2>1. j # NoJob /\ minted' # 0
    BY <1>2, <1>3, JobTypes DEF j, envVars
  <2>2. ASSUME NEW q \in Procs \ {p}
        PROVE  /\ job'[q] = NoJob <=> ~Active(q)'
               /\ pc'[q] = "sweep" => q \in Instances
               /\ Locked(q)' => lock'[job'[q].host] = q
               /\ pc'[q] = "record" => job'[q].op = "present"
               /\ Active(q)' => minted' # 0
    BY <1>1, <1>4, <1>5 DEF Working, Active, Locked, envVars
  <2> QED
    BY <1>4, <1>5, <2>1, <2>2 DEF Working, Active, Locked
<1>8. JobsHere'
  <2>1. FindForName' = FindForName /\ \A id : Here(id)' <=> Here(id)
    BY SamePlace DEF envVars
  <2>2. v \in Clean => z = FindForName /\ Here(zone[z])
    BY DEF Here
  <2>3. ASSUME NEW q \in Procs, Active(q)', job'[q].value \in Clean'
        PROVE  job'[q].name = FindForName /\ Here(job'[q].id)
    <3>1. CASE q = p
      BY <1>3, <1>4, <2>2, <2>3, <3>1 DEF Clean, j
    <3>2. CASE q # p
      BY <1>1, <1>4, <1>5, <2>3, <3>2 DEF InPlace, JobsHere, Active, Clean
    <3> QED
      BY <3>1, <3>2
  <2> QED
    BY <2>1, <2>3 DEF JobsHere
<1>9. BatchHere'
  BY <1>1, SamePlace DEF InPlace, BatchHere, Clean, envVars
<1>10. /\ \A q \in Procs : pc'[q] \in {"write", "forget"} => pc'[q] = pc[q] /\ job'[q] = job[q]
       /\ \A q \in Procs : pc[q] = "record" => pc'[q] = pc[q] /\ job'[q] = job[q]
  BY <1>4, <1>5 DEF Active
<1> QED
  BY <1>6, <1>7, <1>8, <1>9, <1>10, OutsideInv

\* Jobs that go on are where they were.
LEMMA JobsKept ==
    ASSUME JobsHere, zone' = zone, hurt \subseteq hurt',
           \A q \in Procs : Active(q)' => /\ Active(q) /\ job'[q].value = job[q].value
                                         /\ job'[q].name = job[q].name /\ job'[q].id = job[q].id
    PROVE  JobsHere'
<1>1. Clean' \subseteq Clean
  BY DEF Clean
<1> QED
  BY <1>1, SamePlace DEF JobsHere

LEMMA LockInv ==
    ASSUME AcmeInv, NEW p \in Procs, Lock(p)
    PROVE  AcmeInv'
<1>1. TypeOK /\ Working /\ InPlace
  BY DEF AcmeInv
<1>2. pc[p] = "lock" /\ Active(p) /\ job[p] \in Jobs /\ job[p].host \in Instances
  BY <1>1, ActiveJob, JobTypes DEF Lock, Active
<1>3. /\ lock[job[p].host] = Nobody /\ lock' = [lock EXCEPT ![job[p].host] = p]
      /\ pc' = [pc EXCEPT ![p] = "cname"]
      /\ UNCHANGED <<envVars, txt, cname, books, job, batch, faults, hurt>>
  BY DEF Lock
<1>4. /\ pc' \in [Procs -> {"idle", "sweep", "lock", "cname", "txt", "write", "record", "forget"}]
      /\ pc'[p] = "cname" /\ \A q \in Procs \ {p} : pc'[q] = pc[q]
  BY <1>1, <1>3, GotoTypes
<1>5. lock \in [Instances -> Procs \cup {Nobody}] /\ lock' \in [Instances -> Procs \cup {Nobody}]
  BY <1>1, <1>3 DEF TypeOK
<1>6. TypeOK'
  BY <1>1, <1>3, <1>4, <1>5 DEF TypeOK, envVars
<1>7. Working'
  <2>1. lock'[job[p].host] = p
    BY <1>2, <1>3, <1>5
  <2>2. ASSUME NEW q \in Procs \ {p}, Locked(q) PROVE lock'[job[q].host] = q
    <3>1. lock[job[q].host] = q /\ q # Nobody
      BY <1>1, <2>2, ChallengeConstants DEF Working, Procs
    <3>2. job[q].host # job[p].host /\ job[q].host \in Instances
      BY <1>1, <1>3, <2>2, <3>1, ActiveJob, JobTypes DEF Active, Locked
    <3> QED
      BY <1>3, <1>5, <3>1, <3>2
  <2>3. ASSUME NEW q \in Procs \ {p}
        PROVE  /\ job'[q] = NoJob <=> ~Active(q)'
               /\ pc'[q] = "sweep" => q \in Instances
               /\ Locked(q)' => lock'[job'[q].host] = q
               /\ pc'[q] = "record" => job'[q].op = "present"
               /\ Active(q)' => minted' # 0
    BY <1>1, <1>3, <1>4, <2>2 DEF Working, Active, Locked, envVars
  <2>4. job'[p] # NoJob /\ minted' # 0
    BY <1>1, <1>2, <1>3 DEF Working, envVars
  <2> QED
    BY <1>3, <1>4, <2>1, <2>3, <2>4 DEF Working, Active
<1>8. JobsHere'
  <2>1. \A q \in Procs : Active(q)' => Active(q)
    BY <1>2, <1>4 DEF Active
  <2> QED
    BY <1>1, <1>3, <2>1, JobsKept DEF InPlace, envVars
<1>9. BatchHere'
  BY <1>1, <1>3, SamePlace DEF InPlace, BatchHere, Clean, envVars
<1>10. /\ \A q \in Procs : pc'[q] \in {"write", "forget"} => pc'[q] = pc[q] /\ job'[q] = job[q]
       /\ \A q \in Procs : pc[q] = "record" => pc'[q] = pc[q] /\ job'[q] = job[q]
  BY <1>2, <1>3, <1>4
<1> QED
  BY <1>3, <1>6, <1>7, <1>8, <1>9, <1>10, OutsideInv

-----------------------------------------------------------------------------
(* Under the mutex.                                                        *)

\* An operation ends before it has written anything.
LEMMA AbandonedInv ==
    ASSUME AcmeInv, NEW p \in Procs, Locked(p), pc[p] # "record", Done(p),
           UNCHANGED <<envVars, txt, cname, books, batch, hurt>>, faults' \in 0..MaxFaults
    PROVE  AcmeInv'
<1>1. TypeOK /\ Working /\ InPlace
  BY DEF AcmeInv
<1>2. /\ lock' \in [Instances -> Procs \cup {Nobody}]
      /\ pc' \in [Procs -> {"idle", "sweep", "lock", "cname", "txt", "write", "record", "forget"}]
      /\ job' \in [Procs -> Jobs \cup {NoJob}]
      /\ ~Active(p)'
      /\ \A q \in Procs \ {p} : job'[q] = job[q] /\ pc'[q] = pc[q]
  BY <1>1, DoneTypes
<1>3. TypeOK'
  BY <1>1, <1>2 DEF TypeOK, envVars
<1>4. Working'
  BY <1>1, DoneWorking DEF envVars
<1>5. JobsHere'
  <2>1. \A q \in Procs : Active(q)' => Active(q) /\ job'[q] = job[q]
    BY <1>2 DEF Active
  <2> QED
    BY <1>1, <2>1, JobsKept DEF InPlace, envVars
<1>6. BatchHere'
  BY <1>1, SamePlace DEF InPlace, BatchHere, Clean, envVars
<1>7. /\ \A q \in Procs : pc'[q] \in {"write", "forget"} => pc'[q] = pc[q] /\ job'[q] = job[q]
      /\ \A q \in Procs : pc[q] = "record" => pc'[q] = pc[q] /\ job'[q] = job[q]
  BY <1>2 DEF Active
<1> QED
  BY <1>3, <1>4, <1>5, <1>6, <1>7, OutsideInv

LEMMA FaultTypes ==
    ASSUME TypeOK, Fault \/ UNCHANGED faults
    PROVE  faults' \in 0..MaxFaults
<1>1. faults \in 0..MaxFaults /\ MaxFaults \in Nat
  BY ChallengeConstants DEF TypeOK
<1> QED
  BY <1>1 DEF Fault

LEMMA LookupCnameInv ==
    ASSUME AcmeInv, NEW p \in Procs, LookupCname(p)
    PROVE  AcmeInv'
<1>1. TypeOK /\ Working /\ InPlace
  BY DEF AcmeInv
<1>2. /\ pc[p] = "cname" /\ Locked(p) /\ Active(p)
      /\ UNCHANGED <<envVars, txt, cname, books, batch, hurt>>
  BY DEF LookupCname, Locked, Active
<1>3. faults' \in 0..MaxFaults
  BY <1>1, FaultTypes DEF LookupCname, LookupFails
<1>4. CASE Done(p)
  BY <1>2, <1>3, <1>4, AbandonedInv
<1>5. CASE Goto(p, "txt")
  <2>1. pc' = [pc EXCEPT ![p] = "txt"] /\ UNCHANGED <<lock, job>>
    BY <1>5 DEF Goto
  <2>2. /\ pc' \in [Procs -> {"idle", "sweep", "lock", "cname", "txt", "write", "record", "forget"}]
        /\ pc'[p] = "txt" /\ \A q \in Procs \ {p} : pc'[q] = pc[q]
    BY <1>1, <2>1, GotoTypes
  <2>3. TypeOK'
    BY <1>1, <1>2, <1>3, <2>1, <2>2 DEF TypeOK, envVars
  <2>4. Working'
    BY <1>1, <1>2, <2>1, ActiveJob, GotoWorking DEF envVars
  <2>5. JobsHere'
    <3>1. \A q \in Procs : Active(q)' => Active(q)
      BY <1>2, <2>2 DEF Active
    <3> QED
      BY <1>1, <1>2, <2>1, <3>1, JobsKept DEF InPlace, envVars
  <2>6. BatchHere'
    BY <1>1, <1>2, SamePlace DEF InPlace, BatchHere, Clean, envVars
  <2>7. /\ \A q \in Procs : pc'[q] \in {"write", "forget"} => pc'[q] = pc[q] /\ job'[q] = job[q]
        /\ \A q \in Procs : pc[q] = "record" => pc'[q] = pc[q] /\ job'[q] = job[q]
    BY <1>2, <2>1, <2>2
  <2> QED
    BY <1>2, <2>3, <2>4, <2>5, <2>6, <2>7, OutsideInv
<1> QED
  BY <1>4, <1>5 DEF LookupCname, LookupFails

LEMMA LookupTxtInv ==
    ASSUME AcmeInv, NEW p \in Procs, LookupTxt(p)
    PROVE  AcmeInv'
<1>1. TypeOK /\ Working /\ Numbered /\ InPlace /\ Fresh /\ StrayExplained
  BY DEF AcmeInv
<1>2. /\ pc[p] = "txt" /\ Locked(p) /\ Active(p)
      /\ UNCHANGED <<envVars, txt, cname, books, batch, hurt>>
  BY DEF LookupTxt, Locked, Active
<1>3. CASE LookupFails(p)
  <2>1. faults' \in 0..MaxFaults
    BY <1>1, <1>3, FaultTypes DEF LookupFails
  <2> QED
    BY <1>2, <1>3, <2>1, AbandonedInv DEF LookupFails
<1>4. CASE ~LookupFails(p)
  <2>1. PICK j : /\ j = [job[p] EXCEPT !.seen = txt[job[p].name]]
                 /\ job' = [job EXCEPT ![p] = j] /\ pc' = [pc EXCEPT ![p] = AfterLookup(j)]
                 /\ UNCHANGED <<lock, faults>>
    BY <1>4 DEF LookupTxt
  <2>2. job[p] \in Jobs /\ job[p].name \in Zones
    BY <1>1, <1>2, ActiveJob, JobTypes
  <2>3. txt[job[p].name] \in SUBSET (Values \cup {Other})
    BY <1>1, <2>2 DEF TypeOK
  <2>4. /\ j \in Jobs /\ j.seen = txt[job[p].name] /\ j.op = job[p].op /\ j.value = job[p].value
        /\ j.name = job[p].name /\ j.id = job[p].id /\ j.host = job[p].host
    BY <2>1, <2>2, <2>3 DEF Jobs
  <2>5. PICK l \in {"write", "record", "forget"} : l = AfterLookup(j)
    BY DEF AfterLookup
  <2>6. l = "record" => j.op = "present"
    BY <2>5 DEF AfterLookup
  <2>7. l = "forget" => j.value \notin j.seen
    BY <2>5 DEF AfterLookup
  <2>8. /\ pc' \in [Procs -> {"idle", "sweep", "lock", "cname", "txt", "write", "record", "forget"}]
        /\ pc'[p] = l /\ \A q \in Procs \ {p} : pc'[q] = pc[q]
    BY <1>1, <2>1, <2>5, GotoTypes
  <2>9. /\ job' \in [Procs -> Jobs \cup {NoJob}] /\ job'[p] = j
        /\ \A q \in Procs \ {p} : job'[q] = job[q]
    BY <1>1, <2>1, <2>4 DEF TypeOK
  <2>10. TypeOK'
    BY <1>1, <1>2, <2>1, <2>8, <2>9 DEF TypeOK, envVars
  <2>11. Working'
    BY <1>1, <1>2, <2>1, <2>4, <2>5, <2>6, <2>9, GotoWorking DEF envVars
  <2>12. JobsHere'
    <3>1. \A q \in Procs : Active(q)' => /\ Active(q) /\ job'[q].value = job[q].value
                                         /\ job'[q].name = job[q].name /\ job'[q].id = job[q].id
      BY <1>2, <2>4, <2>8, <2>9 DEF Active
    <3> QED
      BY <1>1, <1>2, <3>1, JobsKept DEF InPlace, envVars
  <2>13. InPlace'
    BY <1>1, <1>2, <2>12, SamePlace DEF InPlace, BooksHere, BatchHere, TxtHere, Clean, envVars
  <2>14. Fresh'
    <3>1. ASSUME NEW q \in Procs \ {p}
          PROVE  /\ pc'[q] = "write" => \A v \in Clean' : v \in job'[q].seen <=> v \in txt'[job'[q].name]
                 /\ pc'[q] = "forget" /\ job'[q].value \in Clean' => job'[q].value \notin txt'[job'[q].name]
                 /\ pc'[q] = "write" /\ edits' = 0 /\ minted' = 1 /\ zone'[job'[q].name] # 0
                        => job'[q].seen = txt'[job'[q].name]
      BY <1>1, <1>2, <2>8, <2>9 DEF Fresh, Clean, envVars
    <3>2. job'[p].seen = txt'[job'[p].name] /\ (pc'[p] = "forget" => job'[p].value \notin job'[p].seen)
      BY <1>2, <2>4, <2>7, <2>8, <2>9
    <3> QED
      BY <3>1, <3>2 DEF Fresh
  <2>15. Numbered' /\ StrayExplained'
    <3>1. \A v : InFlight(v) => InFlight(v)'
      BY <1>2, <2>8, <2>9 DEF InFlight
    <3> QED
      BY <1>1, <1>2, <3>1 DEF Numbered, StrayExplained, Recorded, envVars
  <2> QED
    BY <2>10, <2>11, <2>13, <2>14, <2>15 DEF AcmeInv
<1> QED
  BY <1>3, <1>4

\* With one instance, one operation at a time is past Lock.
LEMMA Alone ==
    ASSUME OneInstance, TypeOK, Working, NEW p \in Procs, NEW q \in Procs, Locked(p), Locked(q)
    PROVE  p = q
<1>1. job[p].host \in Instances /\ job[q].host \in Instances
  BY ActiveJob, JobTypes DEF Active, Locked
<1>2. lock[job[p].host] = p /\ lock[job[q].host] = q
  BY DEF Working
<1> QED
  BY <1>1, <1>2 DEF OneInstance

\* The record set is written.
LEMMA WrittenInv ==
    ASSUME OneInstance, AcmeInv, NEW p \in Procs, pc[p] = "write",
           txt' = [txt EXCEPT ![job[p].name] = Rest(job[p])],
           UNCHANGED <<envVars, books, batch>>, TypeOK', Working', JobsHere', hurt \subseteq hurt',
           \A q \in Procs \ {p} : pc'[q] = pc[q] /\ job'[q] = job[q],
           pc'[p] # "write", pc'[p] = "forget" => job[p].op = "cleanup" /\ job'[p] = job[p],
           job[p].op = "present" => \/ job[p].value \in hurt'
                                    \/ pc'[p] = "record" /\ job'[p] = job[p]
    PROVE  AcmeInv'
<1>1. TypeOK /\ Working /\ Numbered /\ InPlace /\ Fresh /\ StrayExplained
  BY DEF AcmeInv
<1>2. Locked(p) /\ Active(p) /\ job[p] \in Jobs /\ job[p].name \in Zones /\ job[p].value \in Values
  BY <1>1, ActiveJob, JobTypes DEF Active, Locked
<1>3. txt'[job[p].name] = Rest(job[p]) /\ \A z \in Zones \ {job[p].name} : txt'[z] = txt[z]
  BY <1>1, <1>2 DEF TypeOK
<1>4. \A v \in Clean : v \in Rest(job[p]) =>
          v \in txt[job[p].name] \/ (v = job[p].value /\ job[p].op = "present")
  BY <1>1 DEF Fresh, Rest
<1>5. Clean' \subseteq Clean /\ Clean' \subseteq Values /\ Clean' \cap hurt' = {}
  BY DEF Clean
<1>6. FindForName' = FindForName /\ Live' = Live /\ \A id : Here(id)' <=> Here(id)
  BY SamePlace DEF envVars
<1>7. job[p].value \in Clean => job[p].name = FindForName /\ FindForName \in Live
  BY <1>1, <1>2 DEF InPlace, JobsHere, Here
<1>8. InPlace'
  <2>1. TxtHere'
    <3>1. ASSUME NEW z \in Zones, NEW v \in txt'[z] \cap Clean' PROVE z = FindForName /\ FindForName \in Live
      <4>1. CASE z = job[p].name
        BY <1>1, <1>2, <1>3, <1>4, <1>5, <1>7, <3>1, <4>1 DEF InPlace, TxtHere
      <4>2. CASE z # job[p].name
        BY <1>1, <1>3, <1>5, <3>1, <4>2 DEF InPlace, TxtHere
      <4> QED
        BY <4>1, <4>2
    <3> QED
      BY <1>6, <3>1 DEF TxtHere
  <2>2. BooksHere' /\ BatchHere'
    BY <1>1, <1>5, <1>6 DEF InPlace, BooksHere, BatchHere
  <2> QED
    BY <2>1, <2>2 DEF InPlace
<1>9. Fresh'
  <2>1. ASSUME NEW q \in Procs \ {p} PROVE pc'[q] \notin {"write", "forget"}
    BY <1>1, <1>2, Alone DEF Locked
  <2>2. pc'[p] = "forget" => job'[p].value \notin txt'[job'[p].name]
    BY <1>3 DEF Rest
  <2> QED
    BY <2>1, <2>2 DEF Fresh
<1>10. Numbered'
  BY <1>1 DEF Numbered, envVars
<1>11. StrayExplained'
  <2>1. \A v : InFlight(v) => InFlight(v)'
    BY DEF InFlight
  <2>2. \A z \in Zones : \A v : Recorded(v, z) => Recorded(v, z)'
    BY <2>1 DEF Recorded, envVars
  <2>3. ASSUME NEW z \in Zones, NEW v \in (txt'[z] \cap Values) \ hurt' PROVE Recorded(v, z)'
    <3>1. v \in Clean /\ v \in Clean'
      BY <1>5, <2>3 DEF Clean
    <3>2. CASE v \in txt[z]
      BY <1>1, <2>2, <3>1, <3>2 DEF StrayExplained, Clean
    <3>3. CASE v \notin txt[z]
      <4>1. v = job[p].value /\ job[p].op = "present"
        BY <1>3, <1>4, <2>3, <3>1, <3>3
      <4>2. InFlight(v)'
        BY <2>3, <4>1 DEF InFlight
      <4> QED
        BY <4>2 DEF Recorded
    <3> QED
      BY <3>2, <3>3
  <2> QED
    BY <2>3 DEF StrayExplained
<1> QED
  BY <1>8, <1>9, <1>10, <1>11 DEF AcmeInv

LEMMA WriteInv ==
    ASSUME OneInstance, AcmeInv, NEW p \in Procs, Write(p)
    PROVE  AcmeInv'
<1>1. TypeOK /\ Working /\ InPlace
  BY DEF AcmeInv
<1>2. pc[p] = "write" /\ Locked(p) /\ Active(p) /\ UNCHANGED <<envVars, cname, books, batch>>
  BY DEF Write, Locked, Active
<1>3. faults' \in 0..MaxFaults
  BY <1>1, FaultTypes DEF Write
<1>4. CASE Done(p) /\ UNCHANGED <<txt, hurt>>
  BY <1>2, <1>3, <1>4, AbandonedInv
<1>5. job[p] \in Jobs /\ job[p].name \in Zones /\ job[p].value \in Values
      /\ job[p].seen \subseteq Values \cup {Other} /\ job[p].op \in {"present", "cleanup"}
  BY <1>1, <1>2, ActiveJob, JobTypes
<1>6. ASSUME txt' = [txt EXCEPT ![job[p].name] = Rest(job[p])]
      PROVE  txt' \in [Zones -> SUBSET (Values \cup {Other})]
  <2>1. Rest(job[p]) \in SUBSET (Values \cup {Other})
    BY <1>5 DEF Rest
  <2> QED
    BY <1>1, <1>6, <2>1 DEF TypeOK
<1>7. CASE /\ txt' = [txt EXCEPT ![job[p].name] = Rest(job[p])]
           /\ Goto(p, AfterWrite(job[p])) /\ UNCHANGED <<faults, hurt>>
  <2>1. PICK l \in {"record", "forget"} : l = AfterWrite(job[p])
    BY DEF AfterWrite
  <2>2. pc' = [pc EXCEPT ![p] = l] /\ UNCHANGED <<lock, job>>
    BY <1>7, <2>1 DEF Goto
  <2>3. /\ pc' \in [Procs -> {"idle", "sweep", "lock", "cname", "txt", "write", "record", "forget"}]
        /\ pc'[p] = l /\ \A q \in Procs \ {p} : pc'[q] = pc[q]
    BY <1>1, <2>2, GotoTypes
  <2>4. l = "record" <=> job[p].op = "present"
    BY <2>1 DEF AfterWrite
  <2>5. TypeOK'
    BY <1>1, <1>2, <1>6, <1>7, <2>2, <2>3 DEF TypeOK, envVars
  <2>6. Working'
    BY <1>1, <1>2, <1>5, <2>2, <2>4, GotoWorking DEF envVars
  <2>7. JobsHere'
    <3>1. \A q \in Procs : Active(q)' => Active(q)
      BY <1>2, <2>3 DEF Active
    <3> QED
      BY <1>1, <1>2, <1>7, <2>2, <3>1, JobsKept DEF InPlace, envVars
  <2>8. pc'[p] = "forget" => job[p].op = "cleanup"
    BY <1>5, <2>3, <2>4
  <2> QED
    BY <1>2, <1>7, <2>2, <2>3, <2>4, <2>5, <2>6, <2>7, <2>8, WrittenInv
<1>8. CASE /\ txt' = [txt EXCEPT ![job[p].name] = Rest(job[p])]
           /\ Done(p) /\ hurt' = hurt \cup Unbooked(job[p])
  <2>1. /\ lock' \in [Instances -> Procs \cup {Nobody}]
        /\ pc' \in [Procs -> {"idle", "sweep", "lock", "cname", "txt", "write", "record", "forget"}]
        /\ job' \in [Procs -> Jobs \cup {NoJob}]
        /\ ~Active(p)'
        /\ \A q \in Procs \ {p} : job'[q] = job[q] /\ pc'[q] = pc[q]
    BY <1>1, <1>2, <1>8, DoneTypes
  <2>2. hurt' \subseteq Values /\ hurt \subseteq hurt'
    BY <1>1, <1>5, <1>8 DEF TypeOK, Unbooked
  <2>3. TypeOK'
    BY <1>1, <1>2, <1>3, <1>6, <1>8, <2>1, <2>2 DEF TypeOK, envVars
  <2>4. Working'
    BY <1>1, <1>2, <1>8, DoneWorking DEF envVars
  <2>5. JobsHere'
    <3>1. \A q \in Procs : Active(q)' => Active(q) /\ job'[q] = job[q]
      BY <2>1 DEF Active
    <3> QED
      BY <1>1, <1>2, <2>2, <3>1, JobsKept DEF InPlace, envVars
  <2>6. job[p].op = "present" => job[p].value \in hurt'
    BY <1>8 DEF Unbooked
  <2>7. pc'[p] \notin {"write", "forget"}
    BY <2>1 DEF Active
  <2> QED
    BY <1>2, <1>8, <2>1, <2>2, <2>3, <2>4, <2>5, <2>6, <2>7, WrittenInv
<1> QED
  BY <1>4, <1>7, <1>8 DEF Write

-----------------------------------------------------------------------------
(* The bookkeeping.                                                        *)

\* The record sets are left alone.
LEMMA BookedInv ==
    ASSUME AcmeInv, TypeOK', Working', JobsHere', BooksHere', BatchHere', StrayExplained',
           UNCHANGED <<envVars, txt>>, hurt \subseteq hurt',
           \A p \in Procs : pc'[p] \in {"write", "forget"} => pc'[p] = pc[p] /\ job'[p] = job[p]
    PROVE  AcmeInv'
<1>1. TypeOK /\ Working /\ Numbered /\ InPlace /\ Fresh
  BY DEF AcmeInv
<1>2. Numbered'
  BY <1>1 DEF Numbered, envVars
<1>3. Clean' \subseteq Clean
  BY DEF Clean
<1>4. InPlace'
  BY <1>1, <1>3, SamePlace DEF InPlace, TxtHere, envVars
<1>5. Fresh'
  BY <1>1, <1>3 DEF Fresh, envVars
<1> QED
  BY <1>2, <1>4, <1>5 DEF AcmeInv

\* Where a clean value is, and where its row is.
LEMMA CleanPlace ==
    ASSUME AcmeInv, NEW z \in Zones, NEW v \in txt[z] \cap Clean
    PROVE  /\ z = FindForName /\ Here(zone[z])
           /\ \A b \in books : b.value = v => b.zone = zone[z]
           /\ \A p \in Procs : Active(p) /\ job[p].value = v => job[p].name = z /\ job[p].id = zone[z]
           /\ \A i \in Instances : \A b \in batch[i] : b.value = v => b.zone = zone[z]
  BY DEF AcmeInv, InPlace, TxtHere, JobsHere, BooksHere, BatchHere, Here

\* What ends with an operation, whatever it does to the rows.
LEMMA EndedInv ==
    ASSUME AcmeInv, NEW p \in Procs, Locked(p), Done(p), UNCHANGED <<envVars, txt, cname, batch>>,
           faults' \in 0..MaxFaults, hurt' \subseteq Values, hurt \subseteq hurt',
           books' \subseteq Books, \A b, c \in books' : b.value = c.value => b = c, BooksHere',
           StrayExplained'
    PROVE  AcmeInv'
<1>1. TypeOK /\ Working /\ InPlace
  BY DEF AcmeInv
<1>2. /\ lock' \in [Instances -> Procs \cup {Nobody}]
      /\ pc' \in [Procs -> {"idle", "sweep", "lock", "cname", "txt", "write", "record", "forget"}]
      /\ job' \in [Procs -> Jobs \cup {NoJob}]
      /\ ~Active(p)'
      /\ \A q \in Procs \ {p} : job'[q] = job[q] /\ pc'[q] = pc[q]
  BY <1>1, DoneTypes
<1>3. TypeOK'
  BY <1>1, <1>2 DEF TypeOK, envVars
<1>4. Working'
  BY <1>1, DoneWorking DEF envVars
<1>5. \A q \in Procs : Active(q)' => Active(q) /\ job'[q] = job[q] /\ pc'[q] = pc[q]
  BY <1>2 DEF Active
<1>6. JobsHere'
  BY <1>1, <1>5, JobsKept DEF InPlace, envVars
<1>7. BatchHere'
  BY <1>1, SamePlace DEF InPlace, BatchHere, Clean, envVars
<1>8. \A q \in Procs : pc'[q] \in {"write", "forget"} => pc'[q] = pc[q] /\ job'[q] = job[q]
  BY <1>5 DEF Active
<1> QED
  BY <1>3, <1>4, <1>6, <1>7, <1>8, BookedInv

LEMMA RecordInv ==
    ASSUME AcmeInv, NEW p \in Procs, Record(p)
    PROVE  AcmeInv'
<1>1. TypeOK /\ Working /\ InPlace /\ StrayExplained
  BY DEF AcmeInv
<1>2. /\ pc[p] = "record" /\ Locked(p) /\ Active(p) /\ Done(p)
      /\ UNCHANGED <<envVars, txt, cname, batch>>
  BY DEF Record, Locked, Active
<1>3. job[p] \in Jobs /\ job[p].value \in Values /\ job[p].id \in 1..MaxZones
  BY <1>1, <1>2, ActiveJob, JobTypes
<1>4. PICK row : row = [value |-> job[p].value, zone |-> job[p].id, old |-> FALSE,
                        older |-> {b.value : b \in books}]
  OBVIOUS
<1>5. row \in Books /\ row.value = job[p].value /\ row.zone = job[p].id
  <2>1. {b.value : b \in books} \in SUBSET Values
    BY <1>1 DEF TypeOK, Books
  <2> QED
    BY <1>3, <1>4, <2>1 DEF Books
<1>6. \/ /\ ~Booked(job[p].value) /\ books' = books \cup {row} /\ UNCHANGED <<faults, hurt>>
      \/ Booked(job[p].value) /\ UNCHANGED <<books, faults, hurt>>
      \/ zone[job[p].name] # job[p].id /\ UNCHANGED <<books, faults, hurt>>
      \/ Fault /\ hurt' = hurt \cup {job[p].value} /\ UNCHANGED books
  BY <1>4 DEF Record
<1>7. books \subseteq Books /\ (\A b, c \in books : b.value = c.value => b = c) /\ hurt \subseteq Values
  BY <1>1 DEF TypeOK
<1>8. books' \subseteq Books /\ \A b, c \in books' : b.value = c.value => b = c
  BY <1>5, <1>6, <1>7 DEF Booked
<1>9. hurt' \subseteq Values /\ hurt \subseteq hurt' /\ books \subseteq books'
  BY <1>3, <1>6, <1>7
<1>10. faults' \in 0..MaxFaults
  BY <1>1, <1>6, FaultTypes
<1>11. BooksHere'
  <2>1. \A id : Here(id)' <=> Here(id)
    BY <1>2, SamePlace DEF envVars
  <2>2. \A b \in books' : b \in books \/ b = row
    BY <1>6
  <2>3. Clean' \subseteq Clean
    BY <1>9 DEF Clean
  <2>4. row.value \in Clean => Here(row.zone)
    BY <1>1, <1>2, <1>5 DEF InPlace, JobsHere
  <2> QED
    BY <1>1, <2>1, <2>2, <2>3, <2>4 DEF InPlace, BooksHere
<1>12. StrayExplained'
  <2>1. ASSUME NEW z \in Zones, NEW v \in (txt[z] \cap Values) \ hurt' PROVE Recorded(v, z)'
    <3>1. v \in txt[z] \cap Clean
      BY <1>9, <2>1 DEF Clean
    <3>2. Recorded(v, z)
      BY <1>1, <3>1 DEF StrayExplained, Clean
    <3>3. CASE \E b \in books : b.value = v /\ b.zone = zone[z]
      BY <1>2, <1>9, <3>3 DEF Recorded, envVars
    <3>4. CASE \E q \in Procs \ {p} : pc[q] = "record" /\ job[q].value = v
      <4>1. \A q \in Procs \ {p} : pc'[q] = pc[q] /\ job'[q] = job[q]
        BY <1>1, <1>2, DoneTypes
      <4> QED
        BY <3>4, <4>1 DEF Recorded, InFlight
    <3>5. CASE job[p].value = v
      <4>1. job[p].name = z /\ job[p].id = zone[z] /\ \A b \in books : b.value = v => b.zone = zone[z]
        BY <1>2, <3>1, <3>5, CleanPlace
      <4>2. \E b \in books' : b.value = v /\ b.zone = zone[z]
        BY <1>5, <1>6, <2>1, <3>5, <4>1 DEF Booked
      <4> QED
        BY <1>2, <4>2 DEF Recorded, envVars
    <3> QED
      BY <3>2, <3>3, <3>4, <3>5 DEF Recorded, InFlight
  <2> QED
    BY <1>2, <2>1 DEF StrayExplained
<1> QED
  BY <1>2, <1>8, <1>9, <1>10, <1>11, <1>12, EndedInv

\* Rows of values that are nowhere, or hurt, are deleted.
LEMMA RowsDeleted ==
    ASSUME AcmeInv, NEW v, books' = Without(v), UNCHANGED <<envVars, txt, hurt>>,
           v \in Clean => \A z \in Zones : v \notin txt[z],
           \A q \in Procs : pc[q] = "record" => pc'[q] = "record" /\ job'[q] = job[q]
    PROVE  /\ books' \subseteq Books /\ \A b, c \in books' : b.value = c.value => b = c
           /\ BooksHere' /\ StrayExplained'
<1>1. TypeOK /\ InPlace /\ StrayExplained
  BY DEF AcmeInv
<1>2. /\ books' \subseteq Books
      /\ \A b, c \in books' : b.value = c.value => b = c
      /\ \A b \in books' : \E c \in books : b.value = c.value /\ b.zone = c.zone
      /\ \A c \in books : c.value # v => \E b \in books' : b.value = c.value /\ b.zone = c.zone
  <2>1. PICK vs : vs = {v} /\ books' = Deleted(vs)
    BY DEF Without
  <2>2. /\ books' \subseteq Books
        /\ \A b, c \in books' : b.value = c.value => b = c
        /\ \A b \in books' : \E c \in books : b.value = c.value /\ b.zone = c.zone
    BY <1>1, <2>1, DeletedRows
  <2>3. \A c \in books : c.value \notin vs => \E b \in books' : b.value = c.value /\ b.zone = c.zone
    BY <1>1, <2>1, DeletedRows
  <2>4. \A c \in books : c.value # v => \E b \in books' : b.value = c.value /\ b.zone = c.zone
    <3>1. \A w : w # v => w \notin vs
      BY <2>1
    <3> QED
      BY <2>3, <3>1
  <2> QED
    BY <2>2, <2>4
<1>3. BooksHere'
  <2>1. \A id : Here(id)' <=> Here(id)
    BY SamePlace DEF envVars
  <2> QED
    BY <1>1, <1>2, <2>1 DEF InPlace, BooksHere, Clean
<1>4. StrayExplained'
  <2>1. ASSUME NEW z \in Zones, NEW w \in (txt[z] \cap Values) \ hurt PROVE Recorded(w, z)'
    <3>1. w # v
      BY <2>1 DEF Clean
    <3>2. CASE \E c \in books : c.value = w /\ c.zone = zone[z]
      BY <1>2, <3>1, <3>2 DEF Recorded, envVars
    <3>3. CASE InFlight(w)
      BY <3>3 DEF Recorded, InFlight
    <3> QED
      BY <1>1, <2>1, <3>2, <3>3 DEF StrayExplained, Recorded
  <2> QED
    BY <2>1 DEF StrayExplained
<1> QED
  BY <1>2, <1>3, <1>4

LEMMA ForgetInv ==
    ASSUME AcmeInv, NEW p \in Procs, Forget(p)
    PROVE  AcmeInv'
<1>1. TypeOK /\ Working /\ InPlace /\ Fresh
  BY DEF AcmeInv
<1>2. /\ pc[p] = "forget" /\ Locked(p) /\ Active(p) /\ Done(p)
      /\ UNCHANGED <<envVars, txt, cname, batch, hurt>>
  BY DEF Forget, Locked, Active
<1>3. faults' \in 0..MaxFaults
  BY <1>1, FaultTypes DEF Forget
<1>4. CASE UNCHANGED books
  BY <1>2, <1>3, <1>4, AbandonedInv
<1>5. CASE books' = Without(job[p].value)
  <2>1. ASSUME job[p].value \in Clean, NEW z \in Zones, job[p].value \in txt[z] PROVE FALSE
    <3>1. job[p].name = z
      BY <1>2, <2>1, CleanPlace
    <3> QED
      BY <1>1, <1>2, <2>1, <3>1 DEF Fresh
  <2>2. \A q \in Procs : pc[q] = "record" => pc'[q] = "record" /\ job'[q] = job[q]
    <3>1. \A q \in Procs \ {p} : pc'[q] = pc[q] /\ job'[q] = job[q]
      BY <1>1, <1>2, DoneTypes
    <3> QED
      BY <1>2, <3>1
  <2>3. /\ books' \subseteq Books /\ \A b, c \in books' : b.value = c.value => b = c
        /\ BooksHere' /\ StrayExplained'
    BY <1>2, <1>5, <2>1, <2>2, RowsDeleted
  <2>4. hurt' \subseteq Values /\ hurt \subseteq hurt'
    BY <1>1, <1>2 DEF TypeOK
  <2> QED
    BY <1>2, <1>3, <2>3, <2>4, EndedInv
<1> QED
  BY <1>4, <1>5 DEF Forget

-----------------------------------------------------------------------------
(* The sweeper.                                                            *)

LEMMA AgeInv ==
    ASSUME AcmeInv, Age
    PROVE  AcmeInv'
<1>1. TypeOK /\ Working /\ InPlace /\ StrayExplained
  BY DEF AcmeInv
<1>2. PICK b \in books : books' = (books \ {b}) \cup {[b EXCEPT !.old = TRUE]}
  BY DEF Age
<1>3. UNCHANGED <<envVars, txt, cname, lock, pc, job, batch, faults, hurt>>
  BY DEF Age
<1>4. books \subseteq Books /\ \A c, d \in books : c.value = d.value => c = d
  BY <1>1 DEF TypeOK
<1>5. PICK a : a = [b EXCEPT !.old = TRUE]
  OBVIOUS
<1>6. a \in Books /\ a.value = b.value /\ a.zone = b.zone
  <2>1. b \in Books
    BY <1>4
  <2> QED
    BY <1>5, <2>1 DEF Books
<1>7. books' = (books \ {b}) \cup {a}
  BY <1>2, <1>5
<1>8. /\ books' \subseteq Books /\ \A c, d \in books' : c.value = d.value => c = d
      /\ \A c \in books' : \E d \in books : c.value = d.value /\ c.zone = d.zone
      /\ \A d \in books : \E c \in books' : c.value = d.value /\ c.zone = d.zone
  BY <1>4, <1>6, <1>7
<1>9. TypeOK'
  BY <1>1, <1>3, <1>8 DEF TypeOK, envVars
<1>10. Working'
  BY <1>1, <1>3 DEF Working, Active, Locked, envVars
<1>11. JobsHere' /\ BatchHere'
  BY <1>1, <1>3, SamePlace DEF InPlace, JobsHere, BatchHere, Active, Clean, envVars
<1>12. BooksHere'
  <2>1. \A id : Here(id)' <=> Here(id)
    BY <1>3, SamePlace DEF envVars
  <2> QED
    BY <1>1, <1>3, <1>8, <2>1 DEF InPlace, BooksHere, Clean
<1>13. StrayExplained'
  BY <1>1, <1>3, <1>8 DEF StrayExplained, Recorded, InFlight, envVars
<1> QED
  BY <1>3, <1>9, <1>10, <1>11, <1>12, <1>13, BookedInv

\* An instance goes between its ticks and its rows.
LEMMA SweeperInv ==
    ASSUME AcmeInv, NEW i \in Instances, pc[i] \in {"idle", "sweep"},
           NEW l \in {"idle", "sweep"}, pc' = [pc EXCEPT ![i] = l],
           UNCHANGED <<envVars, txt, cname, lock, job, hurt>>, faults' \in 0..MaxFaults,
           batch' \in [Instances -> SUBSET Books], BatchHere',
           books' \subseteq Books, \A b, c \in books' : b.value = c.value => b = c, BooksHere',
           (\A q \in Procs : pc[q] = "record" => pc'[q] = "record" /\ job'[q] = job[q]) => StrayExplained'
    PROVE  AcmeInv'
<1>1. TypeOK /\ Working /\ InPlace
  BY DEF AcmeInv
<1>2. i \in Procs
  BY DEF Procs
<1>3. /\ pc' \in [Procs -> {"idle", "sweep", "lock", "cname", "txt", "write", "record", "forget"}]
      /\ pc'[i] = l /\ \A q \in Procs \ {i} : pc'[q] = pc[q]
  BY <1>1, <1>2 DEF TypeOK
<1>4. TypeOK'
  BY <1>1, <1>3 DEF TypeOK, envVars
<1>5. \A q \in Procs : /\ Active(q)' <=> Active(q)
                       /\ Active(q) => pc'[q] = pc[q]
                       /\ pc'[q] = "sweep" => pc[q] = "sweep" \/ q = i
  BY <1>3 DEF Active
<1>6. Working'
  BY <1>1, <1>3, <1>5 DEF Working, Active, Locked, envVars
<1>7. JobsHere'
  BY <1>1, <1>5, JobsKept DEF InPlace, envVars
<1>8. /\ \A q \in Procs : pc'[q] \in {"write", "forget"} => pc'[q] = pc[q] /\ job'[q] = job[q]
      /\ \A q \in Procs : pc[q] = "record" => pc'[q] = "record" /\ job'[q] = job[q]
  BY <1>3
<1> QED
  BY <1>4, <1>6, <1>7, <1>8, BookedInv

LEMMA SweepInv ==
    ASSUME AcmeInv, NEW i \in Instances, Sweep(i) \/ EndSweep(i)
    PROVE  AcmeInv'
<1>1. TypeOK /\ Working /\ InPlace /\ StrayExplained
  BY DEF AcmeInv
<1>2. PICK l \in {"idle", "sweep"} : pc' = [pc EXCEPT ![i] = l]
  BY DEF Sweep, EndSweep
<1>3. /\ pc[i] \in {"idle", "sweep"}
      /\ UNCHANGED <<envVars, txt, cname, books, lock, job, faults, hurt>>
  BY DEF Sweep, EndSweep
<1>4. /\ batch \in [Instances -> SUBSET Books] /\ books \subseteq Books
      /\ \A b, c \in books : b.value = c.value => b = c
      /\ faults \in 0..MaxFaults
  BY <1>1 DEF TypeOK
<1>5. batch' = [batch EXCEPT ![i] = OlderThan] \/ batch' = batch
  BY DEF Sweep, EndSweep
<1>6. OlderThan \subseteq books
  BY DEF OlderThan
<1>7. batch' \in [Instances -> SUBSET Books] /\ \A k \in Instances : batch'[k] \subseteq batch[k] \cup books
  BY <1>4, <1>5, <1>6
<1>8. \A id : Here(id)' <=> Here(id)
  BY <1>3, SamePlace DEF envVars
<1>9. BatchHere' /\ BooksHere'
  BY <1>1, <1>3, <1>7, <1>8 DEF InPlace, BatchHere, BooksHere, Clean
<1>10. (\A q \in Procs : pc[q] = "record" => pc'[q] = "record" /\ job'[q] = job[q]) => StrayExplained'
  BY <1>1, <1>3 DEF StrayExplained, Recorded, InFlight, envVars
<1> QED
  BY <1>2, <1>3, <1>4, <1>7, <1>9, <1>10, SweeperInv

LEMMA SweepRowInv ==
    ASSUME AcmeInv, NEW i \in Instances, SweepRow(i)
    PROVE  AcmeInv'
<1>1. TypeOK /\ Working /\ Numbered /\ InPlace /\ StrayExplained
  BY DEF AcmeInv
<1>2. pc[i] = "sweep" /\ UNCHANGED <<envVars, txt, cname, lock, hurt>> /\ i \in Procs /\ ~Active(i)
  BY DEF SweepRow, Procs, Active
<1>3. PICK c \in batch[i] :
          /\ batch' = [batch EXCEPT ![i] = @ \ {c}]
          /\ \/ \E z \in ZoneOf(c.zone) :
                  /\ job' = [job EXCEPT ![i] = NewJob("cleanup", c.value, z, i)]
                  /\ pc' = [pc EXCEPT ![i] = "lock"]
                  /\ UNCHANGED <<books, faults>>
             \/ /\ ZoneOf(c.zone) = {}
                /\ books' = Without(c.value)
                /\ UNCHANGED <<pc, job, faults>>
             \/ Fault /\ UNCHANGED <<pc, job, books>>
  BY DEF SweepRow
<1>4. /\ batch \in [Instances -> SUBSET Books] /\ books \subseteq Books
      /\ \A b, d \in books : b.value = d.value => b = d
      /\ pc \in [Procs -> {"idle", "sweep", "lock", "cname", "txt", "write", "record", "forget"}]
  BY <1>1 DEF TypeOK
<1>5. c \in Books /\ c.value \in Values
  BY <1>3, <1>4 DEF Books
<1>6. batch' \in [Instances -> SUBSET Books] /\ \A k \in Instances : batch'[k] \subseteq batch[k]
  BY <1>3, <1>4
<1>7. faults' \in 0..MaxFaults
  BY <1>1, <1>3, FaultTypes
<1>8. c.value \in Clean => FindForName \in ZoneOf(c.zone)
  BY <1>1 DEF InPlace, BatchHere, Here, ZoneOf
<1>9. ASSUME NEW z \in ZoneOf(c.zone),
             job' = [job EXCEPT ![i] = NewJob("cleanup", c.value, z, i)],
             pc' = [pc EXCEPT ![i] = "lock"], UNCHANGED books
      PROVE  AcmeInv'
  <2>1. z \in Live /\ (c.value \in Clean => z = FindForName)
    BY <1>1, <1>8 DEF ZoneOf, Live, Numbered
  <2> QED
    BY <1>2, <1>5, <1>6, <1>7, <1>9, <2>1, StartInv
<1>10. \A id : Here(id)' <=> Here(id)
  BY <1>2, SamePlace DEF envVars
<1>11. BatchHere'
  BY <1>1, <1>2, <1>6, <1>10 DEF InPlace, BatchHere, Clean
<1>12. pc' = pc => pc' = [pc EXCEPT ![i] = "sweep"]
  BY <1>2, <1>4
<1>13. CASE ZoneOf(c.zone) = {} /\ books' = Without(c.value) /\ UNCHANGED <<pc, job, faults>>
  <2>1. c.value \notin Clean
    BY <1>8, <1>13
  <2>2. /\ books' \subseteq Books /\ \A b, d \in books' : b.value = d.value => b = d
        /\ BooksHere' /\ StrayExplained'
    BY <1>2, <1>13, <2>1, RowsDeleted
  <2> QED
    BY <1>2, <1>6, <1>7, <1>11, <1>12, <1>13, <2>2, SweeperInv
<1>14. CASE UNCHANGED <<pc, job, books>>
  <2>1. BooksHere'
    BY <1>1, <1>2, <1>10, <1>14 DEF InPlace, BooksHere, Clean
  <2>2. StrayExplained'
    BY <1>1, <1>2, <1>14 DEF StrayExplained, Recorded, InFlight, envVars
  <2> QED
    BY <1>2, <1>4, <1>6, <1>7, <1>11, <1>12, <1>14, <2>1, <2>2, SweeperInv
<1> QED
  BY <1>3, <1>9, <1>13, <1>14

-----------------------------------------------------------------------------
(* Nothing happens.                                                        *)

LEMMA StutterInv ==
    ASSUME AcmeInv, UNCHANGED vars
    PROVE  AcmeInv'
<1>1. UNCHANGED <<setting, zone, minted, edits, txt, cname, books, lock, pc, job, batch, faults, hurt>>
  BY DEF vars, envVars
<1>2. TypeOK'
  BY <1>1 DEF AcmeInv, TypeOK
<1>3. Working'
  BY <1>1 DEF AcmeInv, Working, Active, Locked
<1>4. Numbered' /\ Fresh'
  BY <1>1 DEF AcmeInv, Numbered, Fresh, Active, Clean
<1>5. StrayExplained'
  BY <1>1 DEF AcmeInv, StrayExplained, Recorded, InFlight, Active, Clean
<1>6. InPlace'
  BY <1>1, SamePlace DEF AcmeInv, InPlace, JobsHere, BooksHere, BatchHere, TxtHere, Active, Clean
<1> QED
  BY <1>2, <1>3, <1>4, <1>5, <1>6 DEF AcmeInv

-----------------------------------------------------------------------------
(* An instance stops.                                                      *)

LEMMA CrashInv ==
    ASSUME AcmeInv, NEW i \in Instances, Crash(i)
    PROVE  AcmeInv'
<1>1. TypeOK /\ Working /\ InPlace /\ StrayExplained
  BY DEF AcmeInv
<1>2. PICK here : here = {p \in Procs : job[p].host = i} \cup {i}
  OBVIOUS
<1>3. /\ Fault /\ pc' = [p \in Procs |-> IF p \in here THEN "idle" ELSE pc[p]]
      /\ job' = [p \in Procs |-> IF p \in here THEN NoJob ELSE job[p]]
      /\ lock' = [lock EXCEPT ![i] = Nobody]
      /\ batch' = [batch EXCEPT ![i] = {}]
      /\ hurt' = hurt \cup UNION {Unbooked(job[p]) : p \in {q \in here : pc[q] = "record"}}
      /\ UNCHANGED <<envVars, txt, cname, books>>
  BY <1>2 DEF Crash
<1>4. /\ pc \in [Procs -> {"idle", "sweep", "lock", "cname", "txt", "write", "record", "forget"}]
      /\ job \in [Procs -> Jobs \cup {NoJob}] /\ lock \in [Instances -> Procs \cup {Nobody}]
      /\ batch \in [Instances -> SUBSET Books] /\ hurt \subseteq Values
      /\ here \subseteq Procs
  BY <1>1, <1>2 DEF TypeOK, Procs
<1>5. /\ pc' \in [Procs -> {"idle", "sweep", "lock", "cname", "txt", "write", "record", "forget"}]
      /\ \A q \in Procs : pc'[q] = IF q \in here THEN "idle" ELSE pc[q]
  BY <1>3, <1>4
<1>6. /\ job' \in [Procs -> Jobs \cup {NoJob}]
      /\ \A q \in Procs : job'[q] = IF q \in here THEN NoJob ELSE job[q]
  BY <1>3, <1>4
<1>7. lock' \in [Instances -> Procs \cup {Nobody}] /\ \A k \in Instances \ {i} : lock'[k] = lock[k]
  BY <1>3, <1>4
<1>8. batch' \in [Instances -> SUBSET Books] /\ \A k \in Instances : batch'[k] \subseteq batch[k]
  BY <1>3, <1>4
<1>9. \A q \in here : pc[q] = "record" => Unbooked(job[q]) = {job[q].value} /\ job[q].value \in Values
  BY <1>1, <1>4, ActiveJob, JobTypes DEF Working, Active, Unbooked
<1>10. /\ hurt' \subseteq Values /\ hurt \subseteq hurt'
       /\ \A q \in here : pc[q] = "record" => job[q].value \in hurt'
  <2>1. \A q \in here : pc[q] = "record" => Unbooked(job[q]) \subseteq hurt'
    BY <1>3
  <2>2. \A v \in hurt' : v \in hurt \/ \E q \in here : pc[q] = "record" /\ v \in Unbooked(job[q])
    BY <1>3
  <2>3. hurt \subseteq hurt'
    BY <1>3
  <2> QED
    BY <1>4, <1>9, <2>1, <2>2, <2>3
<1>11. faults' \in 0..MaxFaults
  BY <1>1, <1>3, FaultTypes
<1>12. TypeOK'
  BY <1>1, <1>3, <1>5, <1>6, <1>7, <1>8, <1>10, <1>11 DEF TypeOK, envVars
<1>13. \A q \in Procs : Active(q)' => /\ Active(q) /\ q \notin here
                                      /\ pc'[q] = pc[q] /\ job'[q] = job[q]
  BY <1>5, <1>6 DEF Active
<1>14. Working'
  <2>1. ASSUME NEW q \in Procs, q \in here
        PROVE  job'[q] = NoJob /\ ~Active(q)' /\ ~Locked(q)' /\ pc'[q] = "idle"
    BY <1>5, <1>6, <2>1 DEF Active, Locked
  <2>2. ASSUME NEW q \in Procs, q \notin here
        PROVE  /\ job'[q] = NoJob <=> ~Active(q)'
               /\ pc'[q] = "sweep" => q \in Instances
               /\ pc'[q] = "record" => job'[q].op = "present"
               /\ Active(q)' => minted' # 0
    BY <1>1, <1>3, <1>5, <1>6, <2>2 DEF Working, Active, envVars
  <2>3. ASSUME NEW q \in Procs, q \notin here, Locked(q)'
        PROVE  lock'[job'[q].host] = q
    <3>1. Locked(q) /\ Active(q) /\ job'[q] = job[q]
      BY <1>5, <1>6, <2>3 DEF Locked, Active
    <3>2. job[q].host \in Instances /\ job[q].host # i
      BY <1>1, <1>2, <2>3, <3>1, ActiveJob, JobTypes
    <3> QED
      BY <1>1, <1>7, <3>1, <3>2 DEF Working
  <2> QED
    BY <2>1, <2>2, <2>3 DEF Working
<1>15. JobsHere'
  BY <1>1, <1>3, <1>10, <1>13, JobsKept DEF InPlace, envVars
<1>16. \A id : Here(id)' <=> Here(id)
  BY <1>3, SamePlace DEF envVars
<1>17. BooksHere' /\ BatchHere'
  BY <1>1, <1>3, <1>8, <1>10, <1>16 DEF InPlace, BooksHere, BatchHere, Clean
<1>18. StrayExplained'
  <2>1. \A v : InFlight(v) /\ v \notin hurt' => InFlight(v)'
    BY <1>5, <1>6, <1>10 DEF InFlight
  <2> QED
    BY <1>1, <1>3, <1>10, <2>1 DEF StrayExplained, Recorded, envVars
<1>19. \A q \in Procs : pc'[q] \in {"write", "forget"} => pc'[q] = pc[q] /\ job'[q] = job[q]
  BY <1>13 DEF Active
<1> QED
  BY <1>3, <1>10, <1>12, <1>14, <1>15, <1>17, <1>18, <1>19, BookedInv

LEMMA AcmeInit == Init => AcmeInv
<1> SUFFICES ASSUME Init PROVE AcmeInv
  OBVIOUS
<1>1. TypeOK
  BY TypeInit
<1>2. \A p \in Procs : pc[p] = "idle" /\ job[p] = NoJob
  BY DEF Init
<1>3. \A z \in Zones : zone[z] = 0 /\ txt[z] = {}
  BY DEF Init
<1>4. books = {} /\ minted = 0 /\ \A i \in Instances : batch[i] = {}
  BY DEF Init
<1>5. Working
  BY <1>2 DEF Working, Active, Locked
<1>6. Numbered
  BY <1>3, <1>4 DEF Numbered
<1>7. InPlace
  BY <1>2, <1>3, <1>4 DEF InPlace, JobsHere, BooksHere, BatchHere, TxtHere, Active
<1>8. Fresh
  BY <1>2 DEF Fresh
<1>9. StrayExplained
  BY <1>3 DEF StrayExplained
<1> QED
  BY <1>1, <1>5, <1>6, <1>7, <1>8, <1>9 DEF AcmeInv

\* A step of a write that finds what was read changes one value.
LEMMA WriteKeeps ==
    ASSUME AcmeInv, edits = 0, minted = 1, NEW p \in Procs
    PROVE  WriteKeepsOthers(p)
<1> SUFFICES ASSUME Write(p), NEW z \in Zones
             PROVE  txt'[z] \ {job[p].value} = txt[z] \ {job[p].value}
  BY DEF WriteKeepsOthers
<1>1. TypeOK /\ Working /\ Fresh
  BY DEF AcmeInv
<1>2. pc[p] = "write" /\ job[p].name \in Zones
  BY <1>1, ActiveJob, JobTypes DEF Write, Active
<1>3. CASE UNCHANGED txt
  BY <1>3
<1>4. CASE zone[job[p].name] # 0 /\ txt' = [txt EXCEPT ![job[p].name] = Rest(job[p])]
  <2>1. job[p].seen = txt[job[p].name]
    BY <1>1, <1>2, <1>4 DEF Fresh
  <2>2. txt'[z] = IF z = job[p].name THEN Rest(job[p]) ELSE txt[z]
    BY <1>1, <1>2, <1>4 DEF TypeOK
  <2> QED
    BY <2>1, <2>2 DEF Rest
<1> QED
  BY <1>3, <1>4 DEF Write

-----------------------------------------------------------------------------
(* resolve finds a zone.  Only the lemmas from here on need well-founded    *)
(* induction.                                                               *)

LOCAL INSTANCE WellFoundedInduction

\* A set of numbers has a smallest one.
LEMMA Smallest ==
    ASSUME NEW S \in SUBSET Nat, S # {}
    PROVE  \E m \in S : \A k \in S : m <= k
<1>1. PICK R : R = OpToRel(<, Nat)
  OBVIOUS
<1>2. IsWellFoundedOn(R, Nat)
  BY <1>1, NatLessThanWellFounded
<1>3. PICK m \in S : \A k \in S : ~(<<k, m>> \in R)
  BY <1>2, WFMin
<1>4. ASSUME NEW k \in S PROVE m <= k
  <2>1. <<k, m>> \in Nat \X Nat /\ <<k, m>> \notin R
    BY <1>3
  <2>2. ~(k < m)
    BY <1>1, <2>1 DEF OpToRel
  <2> QED
    BY <1>3, <2>2
<1> QED
  BY <1>4

\* A bounded set of numbers has a largest one.
LEMMA Largest ==
    ASSUME NEW n \in Nat, NEW S \in SUBSET (0..n), S # {}
    PROVE  \E m \in S : \A k \in S : k <= m
<1>0. \A k \in S : n - k \in Nat
  OBVIOUS
<1>1. PICK T : T = {n - k : k \in S}
  OBVIOUS
<1>2. T \in SUBSET Nat /\ T # {}
  BY <1>0, <1>1
<1>3. PICK t \in T : \A u \in T : t <= u
  BY <1>2, Smallest
<1>4. PICK m \in S : t = n - m
  BY <1>1
<1>5. ASSUME NEW k \in S PROVE k <= m
  <2>1. t <= n - k /\ k \in Nat /\ m \in Nat
    BY <1>1, <1>3
  <2> QED
    BY <1>4, <2>1
<1> QED
  BY <1>5

\* A zone that contains the name is found when there is one.
LEMMA Found ==
    ASSUME TypeOK, Containing(Live, Fqdn) # {}
    PROVE  FindForName \in Live /\ FindForName \in Zones /\ zone[FindForName] \in 1..MaxZones
<1> DEFINE C == Containing(Live, Fqdn)
           S == {Len(z) : z \in C}
<1>1. C \subseteq Live /\ Live \subseteq Zones /\ C # {}
  BY DEF Containing, Live
<1>2. Len(Fqdn) \in Nat /\ \A z \in C : Len(z) \in 0..Len(Fqdn)
  BY <1>1, ChallengeConstants DEF Containing, InZone
<1> HIDE DEF C
<1>3. S \in SUBSET (0..Len(Fqdn)) /\ S # {}
  BY <1>1, <1>2
<1> HIDE DEF S
<1>4. PICK m \in S : \A k \in S : k <= m
  BY <1>2, <1>3, Largest
<1>5. \E z \in C : \A y \in C : Len(y) <= Len(z)
  BY <1>4 DEF S
<1>6. FindForName \in C
  BY <1>5 DEF C, FindForName, LongestZone
<1>7. FindForName \in Live /\ FindForName \in Zones
  BY <1>1, <1>6
<1>8. zone[FindForName] \in 0..MaxZones /\ zone[FindForName] # 0
  BY <1>7 DEF TypeOK, Live
<1> QED
  BY <1>7, <1>8, ChallengeConstants

LEMMA BeginInv ==
    ASSUME AcmeInv, NEW r \in setting.callers, NEW v \in setting.values, NEW i \in Instances,
           Present(r, v, i) \/ CleanUp(r, v, i)
    PROVE  AcmeInv'
<1>1. TypeOK
  BY DEF AcmeInv
<1>2. r \in Procs /\ v \in Values
  BY <1>1, SettingTypes DEF TypeOK, Procs
<1>3. PICK op \in {"present", "cleanup"} : Begin(r, op, v, i)
  BY DEF Present, CleanUp
<1>4. FindForName \in Live
  BY <1>1, <1>3, Found DEF Begin
<1>5. ~Active(r) /\ faults \in 0..MaxFaults /\ batch \in [Instances -> SUBSET Books]
  BY <1>1, <1>3 DEF Begin, Active, TypeOK
<1> QED
  BY <1>2, <1>3, <1>4, <1>5, StartInv DEF Begin

LEMMA AcmeStep ==
    ASSUME OneInstance, AcmeInv, [Next]_vars
    PROVE  AcmeInv'
<1>1. ASSUME NEW z \in Zones, CreateZone(z) \/ DeleteZone(z) \/ Edit(z) PROVE AcmeInv'
  BY <1>1, CreateZoneInv, DeleteZoneInv, EditInv
<1>2. ASSUME NEW r \in setting.callers, NEW v \in setting.values, NEW i \in Instances,
             Present(r, v, i) \/ CleanUp(r, v, i)
      PROVE  AcmeInv'
  BY <1>2, BeginInv
<1>3. ASSUME NEW p \in Procs, Lock(p) \/ UnderLock(p) PROVE AcmeInv'
  BY <1>3, LockInv, LookupCnameInv, LookupTxtInv, WriteInv, RecordInv, ForgetInv DEF UnderLock
<1>4. ASSUME NEW i \in Instances, Sweep(i) \/ SweepRow(i) \/ EndSweep(i) \/ Crash(i) PROVE AcmeInv'
  BY <1>4, SweepInv, SweepRowInv, CrashInv
<1>5. CASE UNCHANGED vars
  BY <1>5, StutterInv
<1> QED
  BY <1>1, <1>2, <1>3, <1>4, <1>5, AgeInv DEF Next

-----------------------------------------------------------------------------
(* The theorems.                                                           *)

\* The inductive invariant of one instance.
THEOREM Serialized ==
    ASSUME OneInstance
    PROVE  Spec => []AcmeInv
<1>1. AcmeInv /\ [Next]_vars => AcmeInv'
  BY AcmeStep
<1> QED
  BY <1>1, AcmeInit, PTL DEF Spec

\* "Every presented value is recorded so the sweeper can remove it when
\* CleanUp never arrives", but for values whose bookkeeping failed or that
\* were in use when the tenant's zones changed: present writes before it
\* books, remove deletes the row only once the value is gone.
THEOREM Recording ==
    ASSUME OneInstance
    PROVE  Spec => []StrayExplained
<1>1. AcmeInv => StrayExplained
  BY DEF AcmeInv
<1> QED
  BY <1>1, Serialized, PTL

\* The read and the write of the record set are under one mutex: a challenge
\* operation changes its own value and no other, while nobody edits the
\* record set by hand and the zone is not replaced by another of its name.
THEOREM Isolation ==
    ASSUME OneInstance
    PROVE  Spec => OthersKept
<1>1. AcmeInv /\ [Next]_vars => [edits = 0 /\ minted = 1 => \A p \in Procs : WriteKeepsOthers(p)]_vars
  BY WriteKeeps
<1> QED
  BY <1>1, Serialized, PTL DEF Spec, OthersKept
=============================================================================
