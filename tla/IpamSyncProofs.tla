--------------------------- MODULE IpamSyncProofs ---------------------------
(***************************************************************************)
(* Proofs about the IPAM synchronisation, for any addresses, hosts and     *)
(* zones, whatever IPAM and people do between the steps of a handling, and *)
(* any number of restarts, lost answers and failing calls.                 *)
(***************************************************************************)
EXTENDS IpamSync, TLAPS

\* Zenon first: it is the quicker one wherever there is no arithmetic.
USE ZenonT(2), SMT, Zenon

-----------------------------------------------------------------------------
(* Sequences.                                                              *)

LEMMA Cut ==
    ASSUME NEW S, NEW s \in Seq(S), NEW m \in Nat \ {0}, NEW n \in Nat, n <= Len(s)
    PROVE  SubSeq(s, m, n) \in Seq(S)
  OBVIOUS

LEMMA Joined ==
    ASSUME NEW S, NEW s \in Seq(S), NEW t \in Seq(S)
    PROVE  /\ s \o t \in Seq(S) /\ Len(s \o t) = Len(s) + Len(t)
           /\ \A i \in 1..Len(s) + Len(t) :
                 (s \o t)[i] = IF i <= Len(s) THEN s[i] ELSE t[i - Len(s)]
  OBVIOUS

-----------------------------------------------------------------------------
(* The inductive invariant of the synchronisation.                         *)

Refs  == [zone : 0..MaxZones, name : Hosts \cup Ips \cup {None}]
Rows  == [has : BOOLEAN, ip : Ips \cup {None}, ref : [Sides -> Refs]]
Plans == [name : ZoneNames, id : 0..MaxZones]
Work  == [id : Ids \cup {None}, prev : Rows, ip : Ips \cup {None}, host : Hosts \cup {None},
          mode : {"none", "upsert", "clear", "release"}, plan : [Sides -> Plans],
          side : Sides, zid : 0..MaxZones, err : {"ok", "temp", "perm"}, next : Rows]
Steps == {"idle", "addr", "zones", "zone", "move", "write", "save", "drop", "finish"}

Typed ==
    /\ setting \in Settings
    /\ ipam \in [Ids -> [live : BOOLEAN, ip : Ips \cup {None}, host : Hosts \cup {None}]]
    /\ \A a \in Ids : ipam[a].live => ipam[a].ip \in Ips
    /\ events \in Seq(Ids)
    /\ zone \in [ZoneNames -> 0..MaxZones]
    /\ minted \in 0..MaxZones
    /\ fwd \subseteq [zone : ForwardZones, host : Hosts, ip : Ips]
    /\ ptr \in [Ips -> Hosts \cup {None}]
    /\ rows \in [Ids -> Rows]
    /\ pc \in Steps
    /\ w \in Work
    /\ hurt \subseteq Ips

\* Zone ids are given out once, and records are in zones that exist.
Zoned ==
    /\ \A z \in ZoneNames : zone[z] <= minted
    /\ \A y, z \in ZoneNames : zone[y] = zone[z] /\ zone[y] # 0 => y = z
    /\ \A r \in fwd : zone[r.zone] # 0
    /\ \A i \in Ips : ptr[i] # None => zone[PtrZone] # 0

\* Zones changed while the handling was under way.
Unsettled == {w.ip, w.prev.ip} \cap Ips \subseteq hurt

Planned(s) ==
    /\ w.plan[s].name \in IF s = "f" THEN ForwardZones ELSE {PtrZone}
    /\ w.plan[s].id # 0 => zone[w.plan[s].name] = w.plan[s].id \/ Unsettled

\* What the handling knows at each of its steps.
Working ==
    /\ pc # "idle" =>
        /\ w.id \in Ids
        /\ rows[w.id] = w.prev \/ w.prev.ip \in hurt \cup {None}
    /\ pc \in {"zones", "zone", "move", "write", "save"} =>
        w.mode = "upsert" /\ w.ip \in Ips /\ w.host \in Hosts
    /\ pc \in {"zone", "move", "write", "save"} =>
        w.next.has /\ w.next.ip = w.ip
    /\ pc \in {"zone", "move", "write"} => Planned("f") /\ Planned("r")
    /\ pc = "write" \/ (pc = "move" /\ w.err = "ok")
         => zone[w.plan[w.side].name] = w.zid \/ w.ip \in hurt
    /\ pc \in {"drop", "finish"} => w.mode # "upsert"

\* A record of one side: an address record of host n for i, or the PTR record of
\* i, whose set is named by the address.
Rec(s, z, n, i) ==
    IF s = "f" THEN [zone |-> z, host |-> n, ip |-> i] \in fwd
    ELSE z = PtrZone /\ n = i /\ ptr[i] # None

Knows(row, s, z, n, i) ==
    row.has /\ row.ip = i /\ row.ref[s] = [zone |-> zone[z], name |-> n]

\* The side is behind the handling.
Passed(s) == s = "f" /\ w.side = "r"

\* The handling answers for a record: by the row it read while it has not come
\* to the record's side, and by the row it will save afterwards.
Held(s, z, n, i) ==
    \/ /\ pc \in {"addr", "zones", "zone", "move", "write", "drop"} /\ ~Passed(s)
       /\ Knows(w.prev, s, z, n, i)
       /\ pc = "write" /\ s = w.side => ~Moved(w.zid, "ok")
    \/ /\ (pc \in {"zone", "move", "write"} /\ Passed(s)) \/ pc = "save"
       /\ Knows(w.next, s, z, n, i)
    \/ /\ (pc = "drop" /\ Passed(s)) \/ pc = "finish"
       /\ w.err # "ok" /\ Knows(w.prev, s, z, n, i)

Known(s, z, n, i) ==
    \/ \E b \in Ids : (pc # "idle" => b # w.id) /\ Knows(rows[b], s, z, n, i)
    \/ pc # "idle" /\ Held(s, z, n, i)
    \/ i \in hurt

Booked ==
    \A s \in Sides, z \in ZoneNames, n \in Hosts \cup Ips, i \in Ips :
        Rec(s, z, n, i) => Known(s, z, n, i)

SyncInv == Typed /\ Zoned /\ Working /\ Booked

\* No call fails in a handling that finds its address at another IP.
Steady == w.mode = "upsert" /\ w.prev.ip \notin {None, w.ip} => ~Fail

LEMMA SyncExplained ==
    ASSUME SyncInv
    PROVE  Accounted
<1>0. Typed /\ Working /\ Booked
  BY DEF SyncInv
<1>1. ASSUME NEW s \in Sides, NEW z \in ZoneNames, NEW n \in Hosts \cup Ips, NEW i \in Ips,
             Rec(s, z, n, i)
      PROVE  RowFor(s, z, n, i) \/ Busy(i) \/ i \in hurt
  <2>1. Known(s, z, n, i)
    BY <1>0, <1>1 DEF Booked
  <2>2. ASSUME Held(s, z, n, i), pc # "idle" PROVE i \in {w.prev.ip, w.ip}
    BY <1>0, <2>2 DEF Held, Knows, Working
  <2> QED
    BY <2>1, <2>2 DEF Known, RowFor, Knows, Busy
<1>2. ASSUME NEW r \in fwd PROVE RowFor("f", r.zone, r.host, r.ip) \/ Busy(r.ip) \/ r.ip \in hurt
  <2>1. /\ r = [zone |-> r.zone, host |-> r.host, ip |-> r.ip]
        /\ r.zone \in ZoneNames /\ r.host \in Hosts /\ r.ip \in Ips
    BY <1>0 DEF Typed, ZoneNames
  <2>2. Rec("f", r.zone, r.host, r.ip)
    BY <2>1 DEF Rec
  <2> QED
    BY <1>1, <2>1, <2>2 DEF Sides
<1>3. ASSUME NEW i \in Ips, ptr[i] # None PROVE RowFor("r", PtrZone, i, i) \/ Busy(i) \/ i \in hurt
  <2>1. Rec("r", PtrZone, i, i)
    BY <1>3 DEF Rec
  <2> QED
    BY <1>1, <2>1 DEF Sides, ZoneNames
<1> QED
  BY <1>2, <1>3 DEF Accounted

LEMMA SyncInit == Init => SyncInv
<1> SUFFICES ASSUME Init PROVE SyncInv
  OBVIOUS
<1>1. NoRef \in Refs
  BY SyncConstants DEF NoRef, Refs
<1>2. NoRow \in Rows
  BY <1>1 DEF NoRow, Rows
<1>3. NoPlan \in Plans
  BY SyncConstants DEF NoPlan, Plans, ZoneNames
<1>4. NoWork \in Work
  BY <1>2, <1>3, SyncConstants DEF NoWork, Work, Sides
<1>5. Typed
  BY <1>2, <1>4, SyncConstants DEF Init, Typed, Away, Steps
<1>6. Zoned
  BY SyncConstants DEF Init, Zoned, ZoneNames
<1>7. Working
  BY DEF Init, Working
<1>8. Booked
  BY DEF Init, Booked, Rec
<1> QED
  BY <1>5, <1>6, <1>7, <1>8 DEF SyncInv
-----------------------------------------------------------------------------
(* What the steps have in common.                                          *)

LEMMA Constants ==
    /\ NoRef \in Refs /\ NoRow \in Rows /\ NoPlan \in Plans /\ NoWork \in Work
    /\ \A i \in Ips : i # None
    /\ \A h \in Hosts : h # None
    /\ \A z \in ForwardZones : z # PtrZone
<1>1. NoRef \in Refs
  BY SyncConstants DEF NoRef, Refs
<1>2. NoRow \in Rows
  BY <1>1 DEF NoRow, Rows
<1>3. NoPlan \in Plans
  BY SyncConstants DEF NoPlan, Plans, ZoneNames
<1>4. NoWork \in Work
  BY <1>2, <1>3, SyncConstants DEF NoWork, Work, Sides
<1> QED
  BY <1>1, <1>2, <1>3, <1>4, SyncConstants

\* A record is in a zone that exists.
LEMMA RecZoned ==
    ASSUME Typed, Zoned, NEW s \in Sides, NEW z \in ZoneNames, NEW n \in Hosts \cup Ips,
           NEW i \in Ips, Rec(s, z, n, i)
    PROVE  zone[z] # 0
  BY DEF Typed, Zoned, Rec, Sides

LEMMA ZonedKept ==
    ASSUME Zoned, UNCHANGED <<zone, minted>>,
           \A s \in Sides, z \in ZoneNames, n \in Hosts \cup Ips, i \in Ips :
               Rec(s, z, n, i)' => zone[z] # 0,
           Typed'
    PROVE  Zoned'
<1>1. ASSUME NEW r \in fwd' PROVE zone'[r.zone] # 0
  <2>1. /\ r = [zone |-> r.zone, host |-> r.host, ip |-> r.ip]
        /\ r.zone \in ZoneNames /\ r.host \in Hosts /\ r.ip \in Ips
    BY DEF Typed, ZoneNames
  <2>2. Rec("f", r.zone, r.host, r.ip)'
    BY <2>1 DEF Rec
  <2> QED
    BY <2>1, <2>2 DEF Sides
<1>2. ASSUME NEW i \in Ips, ptr'[i] # None PROVE zone'[PtrZone] # 0
  <2>1. Rec("r", PtrZone, i, i)'
    BY <1>2 DEF Rec
  <2> QED
    BY <2>1 DEF Sides, ZoneNames
<1> QED
  BY <1>1, <1>2 DEF Zoned

\* The handling goes on: what was known to another row is, unless the handling
\* answers for it now.
LEMMA GoesOn ==
    ASSUME SyncInv, pc # "idle", pc' # "idle", w'.id = w.id, rows' = rows, hurt \subseteq hurt',
           \A z \in ZoneNames : zone[z] # 0 => zone'[z] = zone[z],
           \A s \in Sides, z \in ZoneNames, n \in Hosts \cup Ips, i \in Ips :
               Rec(s, z, n, i)' /\ i \notin hurt' =>
                   Held(s, z, n, i)' \/ (Rec(s, z, n, i) /\ ~Held(s, z, n, i))
    PROVE  Booked'
<1> SUFFICES ASSUME NEW s \in Sides, NEW z \in ZoneNames, NEW n \in Hosts \cup Ips, NEW i \in Ips,
                    Rec(s, z, n, i)', i \notin hurt', ~Held(s, z, n, i)'
             PROVE  Known(s, z, n, i)'
  BY DEF Booked, Known
<1>1. Rec(s, z, n, i) /\ ~Held(s, z, n, i)
  OBVIOUS
<1>2. Known(s, z, n, i) /\ i \notin hurt
  BY <1>1 DEF SyncInv, Booked
<1>3. PICK b \in Ids : b # w.id /\ Knows(rows[b], s, z, n, i)
  BY <1>1, <1>2 DEF Known
<1>4. zone'[z] = zone[z]
  BY <1>1, RecZoned DEF SyncInv
<1>5. Knows(rows[b], s, z, n, i)'
  BY <1>3, <1>4 DEF Knows
<1> QED
  BY <1>3, <1>5 DEF Known

\* The handling ends: its row has to know what it answered for.
LEMMA Ends ==
    ASSUME SyncInv, pc # "idle", pc' = "idle", UNCHANGED <<zone, minted, fwd, ptr>>,
           hurt \subseteq hurt', rows' \in [Ids -> Rows],
           \A b \in Ids \ {w.id} : rows'[b] = rows[b],
           \A s \in Sides, z \in ZoneNames, n \in Hosts \cup Ips, i \in Ips :
               Rec(s, z, n, i) /\ Held(s, z, n, i) /\ i \notin hurt'
                   => Knows(rows'[w.id], s, z, n, i)
    PROVE  Zoned' /\ Working' /\ Booked'
<1>1. Zoned'
  BY DEF SyncInv, Zoned
<1>2. Working'
  BY DEF Working
<1>3. ASSUME NEW s \in Sides, NEW z \in ZoneNames, NEW n \in Hosts \cup Ips, NEW i \in Ips,
             Rec(s, z, n, i)', i \notin hurt'
      PROVE  Known(s, z, n, i)'
  <2>1. Rec(s, z, n, i) /\ i \notin hurt
    BY <1>3 DEF Rec
  <2>2. Known(s, z, n, i) /\ w.id \in Ids
    BY <2>1 DEF SyncInv, Booked, Working
  <2>3. CASE \E b \in Ids : b # w.id /\ Knows(rows[b], s, z, n, i)
    <3>1. PICK b \in Ids : b # w.id /\ Knows(rows[b], s, z, n, i)
      BY <2>3
    <3>2. Knows(rows[b], s, z, n, i)'
      BY <3>1 DEF Knows
    <3> QED
      BY <3>2 DEF Known
  <2>4. CASE Held(s, z, n, i)
    <3>1. Knows(rows'[w.id], s, z, n, i)
      BY <1>3, <2>1, <2>4
    <3>2. \E b \in Ids : Knows(rows'[b], s, z, n, i)
      BY <2>2, <3>1
    <3>3. \E b \in Ids : Knows(rows[b], s, z, n, i)'
      BY <3>2 DEF Knows
    <3> QED
      BY <3>3 DEF Known
  <2> QED
    BY <2>1, <2>2, <2>3, <2>4 DEF Known
<1> QED
  BY <1>1, <1>2, <1>3 DEF Booked, Known

\* A row the handling read answers for what it knew, unless zones changed.
LEMMA PrevStands ==
    ASSUME SyncInv, pc # "idle", NEW s, NEW z, NEW n, NEW i \in Ips, Knows(w.prev, s, z, n, i),
           i \notin hurt
    PROVE  Knows(rows[w.id], s, z, n, i)
<1>1. w.prev.ip = i /\ i # None
  BY Constants DEF Knows
<1> QED
  BY <1>1 DEF SyncInv, Working

LEMMA SideEnds ==
    ASSUME w \in Work, NEW ref \in Refs, EndSide(ref)
    PROVE  /\ w' \in Work
           /\ w'.id = w.id /\ w'.prev = w.prev /\ w'.ip = w.ip /\ w'.host = w.host
           /\ w'.mode = w.mode /\ w'.plan = w.plan
           /\ w'.next.has = w.next.has /\ w'.next.ip = w.next.ip
           /\ w'.next.ref[w.side] = ref
           /\ \A s \in Sides \ {w.side} : w'.next.ref[s] = w.next.ref[s]
           /\ w.side = "f" => pc' = "zone" /\ w'.side = "r"
           /\ w.side = "r" => pc' = "save" /\ w'.side = "r"
<1> DEFINE v == [w EXCEPT !.next.ref[w.side] = ref, !.zid = 0, !.err = "ok"]
<1>1. /\ v \in Work
      /\ v.id = w.id /\ v.prev = w.prev /\ v.ip = w.ip /\ v.host = w.host
      /\ v.mode = w.mode /\ v.plan = w.plan /\ v.side = w.side
      /\ v.next.has = w.next.has /\ v.next.ip = w.next.ip
      /\ v.next.ref[w.side] = ref
      /\ \A s \in Sides \ {w.side} : v.next.ref[s] = w.next.ref[s]
  <2>1. w.next \in Rows /\ w.side \in Sides /\ MaxZones \in Nat
    BY SyncConstants DEF Work
  <2>2. PICK q : q = [w.next EXCEPT !.ref[w.side] = ref]
    OBVIOUS
  <2>3. /\ q \in Rows /\ q.has = w.next.has /\ q.ip = w.next.ip /\ q.ref[w.side] = ref
        /\ \A s \in Sides \ {w.side} : q.ref[s] = w.next.ref[s]
    BY <2>1, <2>2 DEF Rows
  <2>4. v = [w EXCEPT !.next = q, !.zid = 0, !.err = "ok"]
    BY <2>2
  <2> HIDE DEF v
  <2>5. v.next = q /\ v \in Work
    <3>1. PICK x : x = [w EXCEPT !.next = q]
      OBVIOUS
    <3>2. x \in Work /\ x.next = q
      BY <2>3, <3>1 DEF Work
    <3>3. v = [x EXCEPT !.zid = 0, !.err = "ok"]
      BY <2>4, <3>1
    <3>4. 0 \in 0..MaxZones
      BY <2>1
    <3> QED
      BY <3>2, <3>3, <3>4 DEF Work
  <2>6. /\ v.id = w.id /\ v.prev = w.prev /\ v.ip = w.ip /\ v.host = w.host
        /\ v.mode = w.mode /\ v.plan = w.plan /\ v.side = w.side
    BY <2>4 DEF Work
  <2> QED
    BY <2>3, <2>5, <2>6
<1>2. IF w.side = "f" THEN pc' = "zone" /\ w' = [v EXCEPT !.side = "r"]
      ELSE pc' = "save" /\ w' = v
  BY DEF EndSide
<1> HIDE DEF v
<1>3. CASE w.side = "f"
  BY <1>1, <1>2, <1>3 DEF Work, Sides
<1>4. CASE w.side # "f"
  <2>1. w.side = "r"
    BY <1>4 DEF Work, Sides
  <2> QED
    BY <1>1, <1>2, <1>4, <2>1
<1> QED
  BY <1>3, <1>4
\* Steps beside the handling.
LEMMA Beside ==
    ASSUME SyncInv, UNCHANGED <<pc, w>>, hurt \subseteq hurt',
           \A s \in Sides, z \in ZoneNames, n \in Hosts \cup Ips, i \in Ips :
               Rec(s, z, n, i)' =>
                   /\ Rec(s, z, n, i) /\ zone'[z] = zone[z]
                   /\ \A b \in Ids : Knows(rows[b], s, z, n, i) => Knows(rows'[b], s, z, n, i)
    PROVE  Booked'
<1> SUFFICES ASSUME NEW s \in Sides, NEW z \in ZoneNames, NEW n \in Hosts \cup Ips, NEW i \in Ips,
                    Rec(s, z, n, i)', i \notin hurt'
             PROVE  Known(s, z, n, i)'
  BY DEF Booked, Known
<1>1. Rec(s, z, n, i) /\ zone'[z] = zone[z] /\ i \notin hurt
  OBVIOUS
<1>2. Known(s, z, n, i)
  BY <1>1 DEF SyncInv, Booked
<1>3. ASSUME NEW b \in Ids, Knows(rows[b], s, z, n, i) PROVE Knows(rows[b], s, z, n, i)'
  <2>1. Knows(rows'[b], s, z, n, i)
    BY <1>3
  <2> QED
    BY <1>1, <2>1 DEF Knows
<1>4. Knows(w.prev, s, z, n, i)' = Knows(w.prev, s, z, n, i)
  BY <1>1 DEF Knows
<1>5. Knows(w.next, s, z, n, i)' = Knows(w.next, s, z, n, i)
  BY <1>1 DEF Knows
<1>6. ASSUME Held(s, z, n, i) PROVE Held(s, z, n, i)'
  BY <1>4, <1>5, <1>6 DEF Held, Passed, Moved, Target
<1> QED
  BY <1>1, <1>2, <1>3, <1>6 DEF Known

\* IPAM changes or announces an address.
LEMMA IpamInv ==
    ASSUME SyncInv, NEW a \in setting.ids, Announce(a) \/ \E new \in Answers : Change(a, new)
    PROVE  SyncInv'
<1>0. Typed /\ Zoned /\ Working
  BY DEF SyncInv
<1>1. a \in Ids /\ setting.ips \subseteq Ips
  BY <1>0, SyncConstants DEF Typed
<1>2. UNCHANGED <<setting, zone, minted, fwd, ptr, rows, pc, w, hurt>> /\ events' = Append(events, a)
  BY DEF Announce, Change, dnsVars, histVars
<1>3. /\ ipam' \in [Ids -> [live : BOOLEAN, ip : Ips \cup {None}, host : Hosts \cup {None}]]
      /\ \A b \in Ids : ipam'[b].live => ipam'[b].ip \in Ips
  <2>1. CASE Announce(a)
    BY <1>0, <2>1 DEF Announce, Typed
  <2>2. ASSUME NEW new \in Answers, Change(a, new)
        PROVE  /\ ipam' \in [Ids -> [live : BOOLEAN, ip : Ips \cup {None}, host : Hosts \cup {None}]]
               /\ \A b \in Ids : ipam'[b].live => ipam'[b].ip \in Ips
    <3>1. /\ new \in [live : BOOLEAN, ip : Ips \cup {None}, host : Hosts \cup {None}]
          /\ new.live => new.ip \in Ips
      <4>1. CASE new = Away
        BY <4>1 DEF Away
      <4>2. CASE new \in [live : {TRUE}, ip : setting.ips, host : Hosts \cup {None}]
        BY <1>1, <4>2
      <4> QED
        BY <2>2, <4>1, <4>2 DEF Answers
    <3>2. ipam' = [ipam EXCEPT ![a] = new]
      BY <2>2 DEF Change
    <3> QED
      BY <1>0, <1>1, <3>1, <3>2 DEF Typed
  <2> QED
    BY <2>1, <2>2
<1>4. events' \in Seq(Ids)
  BY <1>0, <1>1, <1>2 DEF Typed
<1>5. Typed'
  BY <1>0, <1>2, <1>3, <1>4 DEF Typed
<1>6. Zoned' /\ Working'
  BY <1>0, <1>2 DEF Zoned, Working, Planned, Unsettled
<1>7. Booked'
  BY <1>2, Beside DEF Rec
<1> QED
  BY <1>5, <1>6, <1>7 DEF SyncInv

\* What a change of zones does to a handling under way.
LEMMA ZonesChangedWorking ==
    ASSUME SyncInv, ZonesChanged, UNCHANGED <<pc, w>>
    PROVE  /\ hurt \subseteq hurt' /\ hurt' \subseteq Ips
           /\ Working'
<1>0. Typed /\ Working
  BY DEF SyncInv
<1>1. hurt \subseteq hurt' /\ hurt' \subseteq Ips /\ (pc # "idle" => Unsettled')
  BY <1>0 DEF ZonesChanged, Typed, Unsettled
<1>2. pc # "idle" => w.prev.ip \in hurt' \cup {None}
  BY <1>0, <1>1 DEF Typed, Work, Rows, Unsettled
<1>3. pc \in {"move", "write"} => w.ip \in hurt'
  BY <1>0, <1>1 DEF Working, Unsettled
<1> QED
  BY <1>0, <1>1, <1>2, <1>3 DEF Working, Planned

LEMMA CreateInv ==
    ASSUME SyncInv, NEW y \in ZoneNames, CreateZone(y)
    PROVE  SyncInv'
<1>0. Typed /\ Zoned /\ Working
  BY DEF SyncInv
<1>1. /\ UNCHANGED <<setting, ipam, events, fwd, ptr, rows, pc, w>> /\ ZonesChanged
      /\ zone[y] = 0 /\ minted' = minted + 1 /\ zone' = [zone EXCEPT ![y] = minted + 1]
      /\ minted < setting.zones
  BY DEF CreateZone, worldVars
<1>2. minted + 1 \in 0..MaxZones
  BY <1>0, <1>1, SyncConstants DEF Typed
<1>3. hurt \subseteq hurt' /\ hurt' \subseteq Ips /\ Working'
  BY <1>1, ZonesChangedWorking
<1>4. Typed'
  BY <1>0, <1>1, <1>2, <1>3 DEF Typed
<1>5. \A z \in ZoneNames : zone[z] # 0 => zone'[z] = zone[z]
  BY <1>0, <1>1 DEF Typed
<1>6. Zoned'
  <2>1. \A z \in ZoneNames : zone[z] \in Nat /\ zone'[z] = IF z = y THEN minted + 1 ELSE zone[z]
    BY <1>0, <1>1, SyncConstants DEF Typed
  <2>2. minted \in Nat
    BY <1>0, SyncConstants DEF Typed
  <2>3. \A r \in fwd : r.zone \in ZoneNames
    BY <1>0 DEF Typed, ZoneNames
  <2>4. PtrZone \in ZoneNames
    BY DEF ZoneNames
  <2> QED
    BY <1>0, <1>1, <1>5, <2>1, <2>2, <2>3, <2>4 DEF Zoned
<1>7. Booked'
  <2>1. ASSUME NEW s \in Sides, NEW z \in ZoneNames, NEW n \in Hosts \cup Ips, NEW i \in Ips,
               Rec(s, z, n, i)'
        PROVE  Rec(s, z, n, i) /\ zone'[z] = zone[z]
    <3>1. Rec(s, z, n, i)
      BY <1>1, <2>1 DEF Rec
    <3> QED
      BY <1>0, <1>5, <3>1, RecZoned
  <2> QED
    BY <1>1, <1>3, <2>1, Beside
<1> QED
  BY <1>3, <1>4, <1>6, <1>7 DEF SyncInv

LEMMA DeleteInv ==
    ASSUME SyncInv, NEW y \in ZoneNames, DeleteZone(y)
    PROVE  SyncInv'
<1>0. Typed /\ Zoned /\ Working
  BY DEF SyncInv
<1>1. /\ UNCHANGED <<setting, ipam, events, minted, pc, w>> /\ ZonesChanged
      /\ zone[y] # 0 /\ zone' = [zone EXCEPT ![y] = 0]
      /\ fwd' = {r \in fwd : r.zone # y}
      /\ ptr' = IF y = PtrZone THEN [i \in Ips |-> None] ELSE ptr
      /\ rows' = [a \in Ids |-> [rows[a] EXCEPT !.ref =
                     [s \in Sides |-> IF @[s].zone = zone[y] THEN NoRef ELSE @[s]]]]
  BY DEF DeleteZone, worldVars
<1>2. ASSUME NEW a \in Ids
      PROVE  /\ rows'[a] \in Rows /\ rows'[a].has = rows[a].has /\ rows'[a].ip = rows[a].ip
             /\ \A s \in Sides : rows[a].ref[s].zone # zone[y] => rows'[a].ref[s] = rows[a].ref[s]
  <2>1. rows[a] \in Rows
    BY <1>0 DEF Typed
  <2>2. rows'[a] = [rows[a] EXCEPT !.ref =
                        [s \in Sides |-> IF rows[a].ref[s].zone = zone[y] THEN NoRef ELSE rows[a].ref[s]]]
    BY <1>1
  <2>3. [s \in Sides |-> IF rows[a].ref[s].zone = zone[y] THEN NoRef ELSE rows[a].ref[s]] \in [Sides -> Refs]
    BY <2>1, Constants DEF Rows
  <2> QED
    BY <2>1, <2>2, <2>3 DEF Rows
<1>3. hurt \subseteq hurt' /\ hurt' \subseteq Ips /\ Working'
  BY <1>1, ZonesChangedWorking
<1>4. Typed'
  <2>1. rows' \in [Ids -> Rows]
    BY <1>1, <1>2
  <2>2. zone' \in [ZoneNames -> 0..MaxZones] /\ ptr' \in [Ips -> Hosts \cup {None}]
    BY <1>0, <1>1, SyncConstants DEF Typed
  <2> QED
    BY <1>0, <1>1, <1>3, <2>1, <2>2 DEF Typed
<1>5. \A z \in ZoneNames : zone'[z] = IF z = y THEN 0 ELSE zone[z]
  BY <1>0, <1>1 DEF Typed
<1>6. ASSUME NEW s \in Sides, NEW z \in ZoneNames, NEW n \in Hosts \cup Ips, NEW i \in Ips,
             Rec(s, z, n, i)'
      PROVE  Rec(s, z, n, i) /\ z # y /\ zone[z] # 0
  <2>1. Rec(s, z, n, i) /\ z # y
    BY <1>1, <1>6 DEF Rec, Sides
  <2> QED
    BY <1>0, <2>1, RecZoned
<1>7. Zoned'
  <2>1. \A r \in fwd' : r \in fwd /\ r.zone # y /\ r.zone \in ZoneNames
    BY <1>0, <1>1 DEF Typed, ZoneNames
  <2>2. \A i \in Ips : ptr'[i] # None => ptr[i] # None /\ y # PtrZone
    BY <1>0, <1>1 DEF Typed
  <2>3. PtrZone \in ZoneNames /\ \A z \in ZoneNames : zone[z] \in Nat
    BY <1>0, SyncConstants DEF Typed, ZoneNames
  <2>4. minted \in Nat
    BY <1>0, SyncConstants DEF Typed
  <2> QED
    BY <1>0, <1>1, <1>5, <2>1, <2>2, <2>3, <2>4 DEF Zoned
<1>8. Booked'
  <2>1. ASSUME NEW s \in Sides, NEW z \in ZoneNames, NEW n \in Hosts \cup Ips, NEW i \in Ips,
               Rec(s, z, n, i)', NEW b \in Ids, Knows(rows[b], s, z, n, i)
        PROVE  Knows(rows'[b], s, z, n, i)
    <3>1. zone[z] # zone[y]
      BY <1>0, <1>6, <2>1 DEF Zoned
    <3>2. rows[b].ref[s].zone = zone[z]
      BY <2>1 DEF Knows
    <3> QED
      BY <1>2, <2>1, <3>1, <3>2 DEF Knows
  <2> QED
    BY <1>1, <1>3, <1>5, <1>6, <2>1, Beside
<1> QED
  BY <1>3, <1>4, <1>7, <1>8 DEF SyncInv
-----------------------------------------------------------------------------
(* The steps of the handling.                                              *)

\* The handling is given up before it changed anything, or after an error that
\* leaves the row as it is.
LEMMA Returns ==
    ASSUME SyncInv, pc \in {"addr", "zones", "finish"}, pc' = "idle", w' = NoWork,
           UNCHANGED <<setting, ipam, events, zone, minted, fwd, ptr, rows, hurt>>
    PROVE  SyncInv'
<1>1. Typed'
  BY Constants DEF SyncInv, Typed, Steps
<1>2. ASSUME NEW s \in Sides, NEW z \in ZoneNames, NEW n \in Hosts \cup Ips, NEW i \in Ips,
             Held(s, z, n, i), i \notin hurt
      PROVE  Knows(rows[w.id], s, z, n, i)
  <2>1. Knows(w.prev, s, z, n, i)
    BY <1>2 DEF Held
  <2> QED
    BY <1>2, <2>1, PrevStands
<1>3. Zoned' /\ Working' /\ Booked'
  BY <1>2, Ends DEF SyncInv, Typed
<1> QED
  BY <1>1, <1>3 DEF SyncInv

LEMMA TakeInv ==
    ASSUME SyncInv, NEW k \in Arrived, Take(k)
    PROVE  SyncInv'
<1>0. Typed /\ Zoned /\ Working /\ Booked
  BY DEF SyncInv
<1>1. k \in DOMAIN events /\ events \in Seq(Ids)
  BY <1>0 DEF Arrived, Typed
<1>2. events[k] \in Ids
  BY <1>1
<1>3. events' \in Seq(Ids)
  <2>1. events' = SubSeq(events, 1, k - 1) \o SubSeq(events, k + 1, Len(events))
    BY DEF Take
  <2>2. k \in 1..Len(events) /\ Len(events) \in Nat
    BY <1>1
  <2>3. SubSeq(events, 1, k - 1) \in Seq(Ids)
    BY <1>1, <2>2, Cut
  <2>4. SubSeq(events, k + 1, Len(events)) \in Seq(Ids)
    BY <1>1, <2>2, Cut
  <2> QED
    BY <2>1, <2>3, <2>4, Joined
<1>4. pc = "idle" /\ UNCHANGED <<setting, ipam, zone, minted, fwd, ptr, rows, hurt>>
  BY DEF Take, dnsVars
<1>5. CASE UNCHANGED <<pc, w>>
  <2>1. Typed' /\ Zoned' /\ Working'
    BY <1>0, <1>3, <1>4, <1>5 DEF Typed, Zoned, Working
  <2>2. Booked'
    BY <1>4, <1>5, Beside DEF Rec
  <2> QED
    BY <2>1, <2>2 DEF SyncInv
<1>6. CASE pc' = "addr" /\ w' = [NoWork EXCEPT !.id = events[k], !.prev = rows[events[k]]]
  <2>1. /\ w' \in Work /\ w'.id = events[k] /\ w'.prev = rows[events[k]]
        /\ w'.side = "f" /\ w'.mode = "none"
    <3>1. rows[events[k]] \in Rows
      BY <1>0, <1>2 DEF Typed
    <3>2. NoWork \in Work
      BY Constants
    <3> QED
      BY <1>2, <1>6, <3>1, <3>2 DEF Work, NoWork
  <2>2. Typed'
    BY <1>0, <1>3, <1>4, <1>6, <2>1 DEF Typed, Steps
  <2>3. Zoned' /\ Working'
    BY <1>0, <1>2, <1>4, <1>6, <2>1 DEF Zoned, Working
  <2>4. ASSUME NEW s \in Sides, NEW z \in ZoneNames, NEW n \in Hosts \cup Ips, NEW i \in Ips,
               Rec(s, z, n, i)', i \notin hurt'
        PROVE  Known(s, z, n, i)'
    <3>1. Rec(s, z, n, i)
      BY <1>4, <2>4 DEF Rec
    <3>2. PICK b \in Ids : Knows(rows[b], s, z, n, i)
      BY <1>0, <1>4, <2>4, <3>1 DEF Booked, Known
    <3>3. CASE b = events[k]
      <4>1. Knows(w.prev, s, z, n, i)'
        BY <1>4, <2>1, <3>2, <3>3 DEF Knows
      <4>2. Held(s, z, n, i)'
        BY <1>6, <2>1, <4>1 DEF Held, Passed
      <4> QED
        BY <1>6, <4>2 DEF Known
    <3>4. CASE b # events[k]
      <4>1. Knows(rows[b], s, z, n, i)'
        BY <1>4, <3>2 DEF Knows
      <4> QED
        BY <2>1, <3>4, <4>1 DEF Known
    <3> QED
      BY <3>3, <3>4
  <2> QED
    BY <2>2, <2>3, <2>4 DEF SyncInv, Booked, Known
<1> QED
  BY <1>5, <1>6 DEF Take

LEMMA ReadAddressInv ==
    ASSUME SyncInv, ReadAddress
    PROVE  SyncInv'
<1>0. Typed /\ Zoned /\ Working
  BY DEF SyncInv
<1>1. pc = "addr" /\ UNCHANGED <<setting, ipam, events, zone, minted, fwd, ptr, rows, hurt>>
  BY DEF ReadAddress, worldVars, dnsVars
<1>2. CASE pc' = "idle" /\ w' = NoWork
  BY <1>1, <1>2, Returns
<1>3. ASSUME NEW mode, NEW ip, NEW host, w' \in Work, pc' \in {"zones", "drop"},
             w'.id = w.id, w'.prev = w.prev, w'.side = w.side, w'.mode = mode,
             w'.ip = ip, w'.host = host,
             pc' = "zones" => mode = "upsert" /\ ip \in Ips /\ host \in Hosts,
             pc' = "drop" => mode # "upsert"
      PROVE  SyncInv'
  <2>1. Typed'
    BY <1>0, <1>1, <1>3 DEF Typed, Steps
  <2>2. Zoned' /\ Working'
    BY <1>0, <1>1, <1>3 DEF Zoned, Working
  <2>3. ASSUME NEW s \in Sides, NEW z \in ZoneNames, NEW n \in Hosts \cup Ips, NEW i \in Ips,
               Held(s, z, n, i)
        PROVE  Held(s, z, n, i)'
    <3>1. Knows(w.prev, s, z, n, i) /\ ~Passed(s)
      BY <1>1, <2>3 DEF Held
    <3>2. Knows(w.prev, s, z, n, i)' /\ ~Passed(s)'
      BY <1>1, <1>3, <3>1 DEF Knows, Passed
    <3> QED
      BY <1>3, <3>2 DEF Held
  <2>4. Booked'
    <3>1. \A s, z, n, i : Rec(s, z, n, i)' = Rec(s, z, n, i)
      BY <1>1 DEF Rec
    <3> QED
      BY <1>1, <1>3, <2>3, <3>1, GoesOn
  <2> QED
    BY <2>1, <2>2, <2>4 DEF SyncInv
<1>4. w \in Work /\ w.id \in Ids /\ ipam[w.id] \in [live : BOOLEAN, ip : Ips \cup {None}, host : Hosts \cup {None}]
  BY <1>0, <1>1 DEF Typed, Working
<1>5. CASE /\ ipam[w.id].live /\ ipam[w.id].host # None /\ pc' = "zones"
           /\ w' = [w EXCEPT !.mode = "upsert", !.ip = ipam[w.id].ip, !.host = ipam[w.id].host]
  <2>1. ipam[w.id].ip \in Ips /\ ipam[w.id].host \in Hosts
    BY <1>0, <1>4, <1>5 DEF Typed
  <2>2. /\ w' \in Work /\ w'.id = w.id /\ w'.prev = w.prev /\ w'.side = w.side
        /\ w'.mode = "upsert" /\ w'.ip = ipam[w.id].ip /\ w'.host = ipam[w.id].host
    BY <1>4, <1>5, <2>1 DEF Work
  <2> QED
    BY <1>3, <1>5, <2>1, <2>2
<1>6. CASE /\ pc' = "drop"
           /\ w' = [w EXCEPT !.mode = IF ipam[w.id].live THEN "clear" ELSE "release"]
  <2>1. /\ w' \in Work /\ w'.id = w.id /\ w'.prev = w.prev /\ w'.side = w.side
        /\ w'.mode # "upsert"
    BY <1>4, <1>6 DEF Work
  <2> QED
    BY <1>3, <1>6, <2>1
<1> QED
  BY <1>2, <1>5, <1>6 DEF ReadAddress, Return
\* Zones are only added by the handling itself.
ZonesGrow ==
    /\ zone' \in [ZoneNames -> 0..MaxZones] /\ minted' \in 0..MaxZones
    /\ \A z \in ZoneNames : zone[z] # 0 => zone'[z] = zone[z]

\* What holds of a handling that goes on with the same plan.
LEMMA PlanKept ==
    ASSUME SyncInv, pc \in {"zone", "move", "write"}, pc' \in {"zone", "move", "write", "save"},
           w' \in Work, ZonesGrow, UNCHANGED <<setting, ipam, events, rows>>, Zoned',
           w'.id = w.id, w'.prev = w.prev, w'.ip = w.ip, w'.host = w.host, w'.mode = w.mode,
           w'.plan = w.plan, w'.next.has = w.next.has, w'.next.ip = w.next.ip,
           fwd' \subseteq [zone : ForwardZones, host : Hosts, ip : Ips],
           ptr' \in [Ips -> Hosts \cup {None}], hurt \subseteq hurt', hurt' \subseteq Ips,
           pc' = "write" \/ (pc' = "move" /\ w'.err = "ok")
               => zone'[w'.plan[w'.side].name] = w'.zid \/ w'.ip \in hurt'
    PROVE  Typed' /\ Working'
<1>0. Typed /\ Working
  BY DEF SyncInv
<1>1. Typed'
  BY <1>0 DEF Typed, Steps, ZonesGrow
<1>2. ASSUME NEW s \in Sides PROVE Planned(s)'
  <2>1. Planned(s) /\ w.plan[s].name \in ZoneNames
    BY <1>0 DEF Working, Sides, Typed, Work, Plans
  <2>2. Unsettled => Unsettled'
    BY DEF Unsettled
  <2> QED
    BY <2>1, <2>2 DEF Planned, ZonesGrow
<1>3. Working'
  BY <1>0, <1>2 DEF Working, Sides
<1> QED
  BY <1>1, <1>3

\* A side ends: the row that will be saved has to know the side's records that
\* the handling answered for.
LEMMA SideDone ==
    ASSUME SyncInv, pc \in {"zone", "move", "write"}, NEW ref \in Refs, EndSide(ref), ZonesGrow,
           UNCHANGED <<setting, ipam, events, rows>>, Zoned',
           fwd' \subseteq [zone : ForwardZones, host : Hosts, ip : Ips],
           ptr' \in [Ips -> Hosts \cup {None}], hurt \subseteq hurt', hurt' \subseteq Ips,
           \A s \in Sides, z \in ZoneNames, n \in Hosts \cup Ips, i \in Ips :
               Rec(s, z, n, i)' /\ i \notin hurt' =>
                   \/ Rec(s, z, n, i) /\ (s = w.side => ~Held(s, z, n, i))
                   \/ s = w.side /\ i = w.ip /\ ref = [zone |-> zone'[z], name |-> n]
    PROVE  SyncInv'
<1>0. Typed /\ Working
  BY DEF SyncInv
<1>1. w \in Work
  BY <1>0 DEF Typed
<1>2. /\ w' \in Work
      /\ w'.id = w.id /\ w'.prev = w.prev /\ w'.ip = w.ip /\ w'.host = w.host
      /\ w'.mode = w.mode /\ w'.plan = w.plan
      /\ w'.next.has = w.next.has /\ w'.next.ip = w.next.ip
      /\ w'.next.ref[w.side] = ref
      /\ \A s \in Sides \ {w.side} : w'.next.ref[s] = w.next.ref[s]
      /\ w.side = "f" => pc' = "zone" /\ w'.side = "r"
      /\ w.side = "r" => pc' = "save" /\ w'.side = "r"
  BY <1>1, SideEnds
<1>3. w.side \in Sides /\ w.next.has /\ w.next.ip = w.ip
  BY <1>0, <1>1 DEF Working, Work
<1>4. pc' \in {"zone", "save"}
  BY <1>2, <1>3 DEF Sides
<1>5. Typed' /\ Working'
  BY <1>2, <1>4, PlanKept
<1>6. ASSUME NEW s \in Sides, NEW z \in ZoneNames, NEW n \in Hosts \cup Ips, NEW i \in Ips,
             Rec(s, z, n, i)', i \notin hurt'
      PROVE  Held(s, z, n, i)' \/ (Rec(s, z, n, i) /\ ~Held(s, z, n, i))
  <2>1. CASE s = w.side /\ i = w.ip /\ ref = [zone |-> zone'[z], name |-> n]
    <3>1. Knows(w.next, s, z, n, i)'
      BY <1>2, <1>3, <2>1 DEF Knows
    <3>2. Passed(s)' \/ pc' = "save"
      BY <1>2, <2>1 DEF Passed, Sides
    <3> QED
      BY <1>4, <3>1, <3>2 DEF Held
  <2>2. CASE Rec(s, z, n, i) /\ s # w.side /\ Held(s, z, n, i)
    <3>1. zone'[z] = zone[z]
      BY <1>0, <2>2, RecZoned DEF ZonesGrow, SyncInv
    <3>2. CASE w.side = "f"
      <4>1. s = "r" /\ ~Passed(s) /\ ~Passed(s)' /\ pc' = "zone"
        BY <1>2, <2>2, <3>2 DEF Sides, Passed
      <4>2. Knows(w.prev, s, z, n, i)
        BY <2>2, <4>1 DEF Held
      <4>3. Knows(w.prev, s, z, n, i)'
        BY <1>2, <3>1, <4>2 DEF Knows
      <4> QED
        BY <4>1, <4>3 DEF Held
    <3>3. CASE w.side = "r"
      <4>1. s = "f" /\ Passed(s) /\ pc' = "save"
        BY <1>2, <2>2, <3>3 DEF Sides, Passed
      <4>2. Knows(w.next, s, z, n, i)
        BY <2>2, <4>1 DEF Held
      <4>3. Knows(w.next, s, z, n, i)'
        BY <1>2, <2>2, <3>1, <4>2 DEF Knows
      <4> QED
        BY <4>1, <4>3 DEF Held
    <3> QED
      BY <1>3, <3>2, <3>3 DEF Sides
  <2> QED
    BY <1>6, <2>1, <2>2
<1>7. Booked'
  BY <1>2, <1>4, <1>6, GoesOn DEF ZonesGrow
<1> QED
  BY <1>5, <1>7 DEF SyncInv

\* side, once the zone is known.
LEMMA AfterZoneInv ==
    ASSUME SyncInv, pc = "zone", NEW zid \in 0..MaxZones, NEW err \in {"ok", "temp", "perm"},
           AfterZone(zid, err), ZonesGrow, Zoned',
           UNCHANGED <<setting, ipam, events, fwd, ptr, rows, hurt>>,
           err = "ok" => zone'[w.plan[w.side].name] = zid,
           err # "ok" => w.prev.ip \in {None, w.ip} \/ Unsettled
    PROVE  SyncInv'
<1>0. Typed /\ Zoned /\ Working
  BY DEF SyncInv
<1>1. w \in Work /\ w.side \in Sides /\ w.prev.ref[w.side] \in Refs
  BY <1>0 DEF Typed, Work, Rows
<1>2. /\ fwd' \subseteq [zone : ForwardZones, host : Hosts, ip : Ips]
      /\ ptr' \in [Ips -> Hosts \cup {None}] /\ hurt \subseteq hurt' /\ hurt' \subseteq Ips
  BY <1>0 DEF Typed
<1>3. \A s, z, n, i : Rec(s, z, n, i)' = Rec(s, z, n, i)
  BY DEF Rec
<1>4. ASSUME NEW s \in Sides, NEW z \in ZoneNames, NEW n \in Hosts \cup Ips, NEW i \in Ips,
             Rec(s, z, n, i)
      PROVE  zone'[z] = zone[z]
  BY <1>0, <1>4, RecZoned DEF ZonesGrow
<1>5. ASSUME NEW s \in Sides, NEW z \in ZoneNames, NEW n \in Hosts \cup Ips, NEW i \in Ips,
             Rec(s, z, n, i), s = w.side, Held(s, z, n, i)
      PROVE  w.prev.ip = i /\ w.prev.ref[s] = [zone |-> zone'[z], name |-> n] /\ n # None
  <2>1. Knows(w.prev, s, z, n, i)
    BY <1>5 DEF Held, Passed
  <2>2. zone'[z] = zone[z] /\ n # None
    BY <1>4, <1>5, Constants
  <2> QED
    BY <2>1, <2>2 DEF Knows
<1>6. CASE err = "temp" /\ Moved(zid, err) /\ EndSide(Kept)
  <2>1. ASSUME NEW s \in Sides, NEW z \in ZoneNames, NEW n \in Hosts \cup Ips, NEW i \in Ips,
               Rec(s, z, n, i), i \notin hurt, s = w.side, Held(s, z, n, i)
        PROVE  i = w.ip /\ Kept = [zone |-> zone'[z], name |-> n]
    <3>1. w.prev.ip = i /\ Kept = [zone |-> zone'[z], name |-> n]
      BY <1>5, <2>1 DEF Kept
    <3>2. i # None /\ (w.prev.ip \in {None, w.ip} \/ Unsettled)
      BY <1>6, Constants
    <3> QED
      BY <2>1, <3>1, <3>2 DEF Unsettled
  <2>2. Kept \in Refs
    BY <1>1 DEF Kept
  <2> QED
    BY <1>2, <1>3, <1>6, <2>1, <2>2, SideDone
<1>7. CASE err # "ok" /\ ~Moved(zid, err) /\ EndSide(NoRef)
  <2>1. ASSUME NEW s \in Sides, NEW z \in ZoneNames, NEW n \in Hosts \cup Ips, NEW i \in Ips,
               Rec(s, z, n, i), s = w.side, Held(s, z, n, i)
        PROVE  FALSE
    <3>1. w.prev.ref[s] = [zone |-> zone'[z], name |-> n] /\ n # None
      BY <1>5, <2>1
    <3> QED
      BY <1>7, <2>1, <3>1 DEF Moved
  <2>2. NoRef \in Refs
    BY Constants
  <2> QED
    BY <1>2, <1>3, <1>7, <2>1, <2>2, SideDone
<1>8. CASE /\ w' = [w EXCEPT !.zid = zid, !.err = err]
           /\ \/ pc' = "move" /\ err # "temp"
              \/ pc' = "write" /\ err = "ok" /\ ~Moved(zid, "ok")
  <2>1. /\ w' \in Work
        /\ w'.id = w.id /\ w'.prev = w.prev /\ w'.ip = w.ip /\ w'.host = w.host
        /\ w'.mode = w.mode /\ w'.plan = w.plan /\ w'.side = w.side /\ w'.next = w.next
        /\ w'.zid = zid /\ w'.err = err
    BY <1>1, <1>8 DEF Work
  <2>2. Typed' /\ Working'
    BY <1>2, <1>8, <2>1, PlanKept
  <2>3. ASSUME NEW s \in Sides, NEW z \in ZoneNames, NEW n \in Hosts \cup Ips, NEW i \in Ips,
               Rec(s, z, n, i), Held(s, z, n, i)
        PROVE  Held(s, z, n, i)'
    <3>1. IF Passed(s) THEN Knows(w.next, s, z, n, i) ELSE Knows(w.prev, s, z, n, i)
      BY <2>3 DEF Held
    <3>2. zone'[z] = zone[z]
      BY <1>4, <2>3
    <3>3. Passed(s)' = Passed(s)
      BY <2>1 DEF Passed
    <3>4. IF Passed(s) THEN Knows(w.next, s, z, n, i)' ELSE Knows(w.prev, s, z, n, i)'
      BY <2>1, <3>1, <3>2 DEF Knows
    <3>5. pc' = "write" => ~Moved(w.zid, "ok")'
      BY <1>8, <2>1 DEF Moved, Target
    <3> QED
      BY <1>8, <3>3, <3>4, <3>5 DEF Held
  <2>4. Booked'
    BY <1>3, <1>8, <2>1, <2>3, GoesOn DEF ZonesGrow
  <2> QED
    BY <2>2, <2>4 DEF SyncInv
<1> QED
  BY <1>6, <1>7, <1>8 DEF AfterZone

LEMMA SideZoneInv ==
    ASSUME SyncInv, SideZone, Steady
    PROVE  SyncInv'
<1>0. Typed /\ Zoned /\ Working
  BY DEF SyncInv
<1>1. pc = "zone" /\ UNCHANGED <<setting, ipam, events, fwd, ptr, rows, hurt>>
  BY DEF SideZone, worldVars
<1>2. PICK p : p = w.plan[w.side]
  OBVIOUS
<1>3. /\ p \in Plans /\ p.name \in ZoneNames /\ w.side \in Sides
      /\ p.id # 0 /\ zone[p.name] # p.id => Unsettled
      /\ w.mode = "upsert"
  <2>1. w \in Work /\ w.side \in Sides
    BY <1>0 DEF Typed, Work
  <2>2. Planned(w.side)
    BY <1>0, <1>1, <2>1 DEF Working, Sides
  <2> QED
    BY <1>0, <1>1, <1>2, <2>1, <2>2 DEF Work, Plans, Planned, Working
<1>4. p.id \in 0..MaxZones /\ zone[p.name] \in 0..MaxZones /\ MaxZones \in Nat /\ 0 \in 0..MaxZones
  BY <1>0, <1>3, SyncConstants DEF Typed, Plans
<1>5. UNCHANGED <<zone, minted>> => ZonesGrow /\ Zoned'
  BY <1>0, <1>1 DEF ZonesGrow, Zoned, Typed
<1>6. ASSUME Fail PROVE w.prev.ip \in {None, w.ip}
  BY <1>3, <1>6 DEF Steady
<1>7. CASE p.id # 0 /\ zone[p.name] = p.id /\ AfterZone(p.id, "ok") /\ UNCHANGED <<zone, minted>>
  BY <1>1, <1>2, <1>4, <1>5, <1>7, AfterZoneInv
<1>8. CASE p.id # 0 /\ zone[p.name] # p.id /\ AfterZone(0, "temp") /\ UNCHANGED <<zone, minted>>
  BY <1>1, <1>3, <1>4, <1>5, <1>8, AfterZoneInv
<1>9. CASE AfterZone(zone[p.name], "ok") /\ UNCHANGED <<zone, minted>>
  BY <1>1, <1>2, <1>4, <1>5, <1>9, AfterZoneInv
<1>10. CASE /\ zone[p.name] = 0 /\ minted < setting.zones /\ minted' = minted + 1
            /\ zone' = [zone EXCEPT ![p.name] = minted + 1] /\ AfterZone(minted + 1, "ok")
  <2>1. minted + 1 \in 0..MaxZones
    BY <1>0, <1>10, SyncConstants DEF Typed
  <2>2. ZonesGrow /\ zone'[p.name] = minted + 1
    BY <1>0, <1>3, <1>10, <2>1 DEF Typed, ZonesGrow
  <2>3. Zoned'
    <3>1. \A z \in ZoneNames : zone[z] \in Nat /\ zone'[z] = IF z = p.name THEN minted + 1 ELSE zone[z]
      BY <1>0, <1>10, SyncConstants DEF Typed
    <3>2. minted \in Nat
      BY <1>0, SyncConstants DEF Typed
    <3>3. \A r \in fwd : r.zone \in ZoneNames
      BY <1>0 DEF Typed, ZoneNames
    <3>4. PtrZone \in ZoneNames
      BY DEF ZoneNames
    <3> QED
      BY <1>0, <1>1, <1>10, <2>2, <3>1, <3>2, <3>3, <3>4 DEF Zoned, ZonesGrow
  <2> QED
    BY <1>1, <1>2, <1>10, <2>1, <2>2, <2>3, AfterZoneInv
<1>11. ASSUME NEW err \in {"temp", "perm"}, AfterZone(0, err), Fail, UNCHANGED <<zone, minted>>
       PROVE  SyncInv'
  BY <1>1, <1>4, <1>5, <1>6, <1>11, AfterZoneInv
<1> QED
  BY <1>2, <1>7, <1>8, <1>9, <1>10, <1>11 DEF SideZone

\* removeValue and removeSet: what the row knows of the side is gone.
LEMMA Removed ==
    ASSUME SyncInv, NEW s \in Sides, RemoveRecord(s, w.prev), UNCHANGED <<zone, minted>>
    PROVE  /\ fwd' \subseteq [zone : ForwardZones, host : Hosts, ip : Ips]
           /\ ptr' \in [Ips -> Hosts \cup {None}]
           /\ Zoned'
           /\ \A t \in Sides, z \in ZoneNames, n \in Hosts \cup Ips, i \in Ips :
                  Rec(t, z, n, i)' =>
                      Rec(t, z, n, i) /\ (t = s => ~Knows(w.prev, t, z, n, i))
<1>0. Typed /\ Zoned
  BY DEF SyncInv
<1>1. PICK at : at = {z \in Live : zone[z] = w.prev.ref[s].zone}
  OBVIOUS
<1>2. \/ /\ s = "f" /\ ptr' = ptr
         /\ fwd' = {r \in fwd : ~(r.zone \in at /\ r.host = w.prev.ref[s].name /\ r.ip = w.prev.ip)}
      \/ /\ s = "r" /\ fwd' = fwd
         /\ ptr' = IF at = {} THEN ptr ELSE [ptr EXCEPT ![w.prev.ref[s].name] = None]
  BY <1>1 DEF RemoveRecord, Sides
<1>3. /\ fwd' \subseteq fwd /\ ptr' \in [Ips -> Hosts \cup {None}]
      /\ \A i \in Ips : ptr'[i] # None => ptr[i] # None
  BY <1>0, <1>2 DEF Typed
<1>4. ASSUME NEW t \in Sides, NEW z \in ZoneNames, NEW n \in Hosts \cup Ips, NEW i \in Ips,
             Rec(t, z, n, i)'
      PROVE  Rec(t, z, n, i) /\ (t = s => ~Knows(w.prev, t, z, n, i))
  <2>1. Rec(t, z, n, i)
    BY <1>3, <1>4 DEF Rec
  <2>2. zone[z] # 0
    BY <1>0, <2>1, RecZoned
  <2>3. ASSUME t = s, Knows(w.prev, t, z, n, i) PROVE FALSE
    <3>1. w.prev.ip = i /\ w.prev.ref[s].zone = zone[z] /\ w.prev.ref[s].name = n
      BY <2>3 DEF Knows
    <3>2. z \in at
      BY <1>1, <2>2, <3>1 DEF Live
    <3>3. CASE s = "f"
      BY <1>2, <1>4, <2>3, <3>1, <3>2, <3>3 DEF Rec
    <3>4. CASE s = "r"
      BY <1>0, <1>2, <1>4, <2>3, <3>1, <3>2, <3>4 DEF Rec, Typed
    <3> QED
      BY <3>3, <3>4 DEF Sides
  <2> QED
    BY <2>1, <2>3
<1>5. Zoned'
  BY <1>0, <1>3 DEF Zoned
<1> QED
  BY <1>0, <1>3, <1>4, <1>5 DEF Typed

LEMMA MoveOldInv ==
    ASSUME SyncInv, MoveOld, Steady
    PROVE  SyncInv'
<1>0. Typed /\ Zoned /\ Working
  BY DEF SyncInv
<1>1. pc = "move" /\ UNCHANGED <<setting, ipam, events, zone, minted, rows, hurt>>
  BY DEF MoveOld, worldVars
<1>2. w \in Work /\ w.side \in Sides /\ Kept \in Refs /\ NoRef \in Refs /\ w.mode = "upsert"
  BY <1>0, <1>1, Constants DEF Typed, Work, Rows, Kept, Working
<1>3. ZonesGrow /\ hurt \subseteq hurt' /\ hurt' \subseteq Ips
  BY <1>0, <1>1 DEF Typed, ZonesGrow
<1>4. ASSUME NEW s \in Sides, NEW z \in ZoneNames, NEW n \in Hosts \cup Ips, NEW i \in Ips,
             s = w.side, Held(s, z, n, i)
      PROVE  Knows(w.prev, s, z, n, i)
  BY <1>1, <1>4 DEF Held, Passed
<1>5. CASE RemoveRecord(w.side, w.prev) /\ w.err = "ok" /\ pc' = "write" /\ UNCHANGED w
  <2>1. /\ fwd' \subseteq [zone : ForwardZones, host : Hosts, ip : Ips]
        /\ ptr' \in [Ips -> Hosts \cup {None}]
        /\ Zoned'
        /\ \A t \in Sides, z \in ZoneNames, n \in Hosts \cup Ips, i \in Ips :
               Rec(t, z, n, i)' =>
                   Rec(t, z, n, i) /\ (t = w.side => ~Knows(w.prev, t, z, n, i))
    BY <1>1, <1>2, <1>5, Removed
  <2>2. zone[w.plan[w.side].name] = w.zid \/ w.ip \in hurt
    BY <1>0, <1>1, <1>5 DEF Working
  <2>3. Typed' /\ Working'
    BY <1>1, <1>2, <1>3, <1>5, <2>1, <2>2, PlanKept
  <2>4. ASSUME NEW s \in Sides, NEW z \in ZoneNames, NEW n \in Hosts \cup Ips, NEW i \in Ips,
               s # w.side, Held(s, z, n, i)
        PROVE  Held(s, z, n, i)'
    BY <1>1, <1>5, <2>4 DEF Held, Knows, Passed
  <2>5. Booked'
    BY <1>1, <1>3, <1>4, <1>5, <2>1, <2>4, GoesOn
  <2> QED
    BY <2>1, <2>3, <2>5 DEF SyncInv
<1>6. ASSUME NEW ref \in Refs, RemoveRecord(w.side, w.prev), EndSide(ref)
      PROVE  SyncInv'
  <2>1. /\ fwd' \subseteq [zone : ForwardZones, host : Hosts, ip : Ips]
        /\ ptr' \in [Ips -> Hosts \cup {None}]
        /\ Zoned'
        /\ \A t \in Sides, z \in ZoneNames, n \in Hosts \cup Ips, i \in Ips :
               Rec(t, z, n, i)' =>
                   Rec(t, z, n, i) /\ (t = w.side => ~Knows(w.prev, t, z, n, i))
    BY <1>1, <1>2, <1>6, Removed
  <2> QED
    BY <1>1, <1>3, <1>4, <1>6, <2>1, SideDone
<1>7. CASE EndSide(Kept) /\ Fail /\ UNCHANGED <<fwd, ptr>>
  <2>1. w.prev.ip \in {None, w.ip}
    BY <1>2, <1>7 DEF Steady
  <2>2. ASSUME NEW s \in Sides, NEW z \in ZoneNames, NEW n \in Hosts \cup Ips, NEW i \in Ips,
               s = w.side, Held(s, z, n, i)
        PROVE  i = w.ip /\ Kept = [zone |-> zone'[z], name |-> n]
    <3>1. Knows(w.prev, s, z, n, i) /\ i # None
      BY <1>4, <2>2, Constants
    <3> QED
      BY <1>1, <2>1, <2>2, <3>1 DEF Knows, Kept
  <2>3. \A s, z, n, i : Rec(s, z, n, i)' = Rec(s, z, n, i)
    BY <1>7 DEF Rec
  <2>4. /\ fwd' \subseteq [zone : ForwardZones, host : Hosts, ip : Ips]
        /\ ptr' \in [Ips -> Hosts \cup {None}] /\ Zoned'
    BY <1>0, <1>1, <1>7 DEF Typed, Zoned
  <2> QED
    BY <1>1, <1>2, <1>3, <1>7, <2>2, <2>3, <2>4, SideDone
<1> QED
  BY <1>2, <1>5, <1>6, <1>7 DEF MoveOld

LEMMA WriteNewInv ==
    ASSUME SyncInv, WriteNew
    PROVE  SyncInv'
<1>0. Typed /\ Zoned /\ Working
  BY DEF SyncInv
<1>1. pc = "write" /\ UNCHANGED <<setting, ipam, events, zone, minted, rows>>
  BY DEF WriteNew, worldVars
<1>2. /\ w \in Work /\ w.side \in Sides /\ Kept \in Refs /\ NoRef \in Refs
      /\ w.ip \in Ips /\ w.host \in Hosts /\ w.ip # None /\ w.host # None
  BY <1>0, <1>1, Constants DEF Typed, Work, Rows, Kept, Working
<1>3. ZonesGrow
  BY <1>0, <1>1 DEF Typed, ZonesGrow
<1>4. PICK y : y = w.plan[w.side].name
  OBVIOUS
<1>5. /\ y \in IF w.side = "f" THEN ForwardZones ELSE {PtrZone}
      /\ y \in ZoneNames
      /\ zone[y] = w.zid \/ w.ip \in hurt
  <2>1. Planned(w.side)
    BY <1>0, <1>1, <1>2 DEF Working, Sides
  <2> QED
    BY <1>0, <1>1, <1>4, <2>1 DEF Working, Planned, ZoneNames
\* What the handling still answers for on this side is where it should be.
<1>6. ASSUME NEW s \in Sides, NEW z \in ZoneNames, NEW n \in Hosts \cup Ips, NEW i \in Ips,
             s = w.side, Rec(s, z, n, i), Held(s, z, n, i)
      PROVE  /\ i = w.ip /\ n = Target(s) /\ zone[z] = w.zid
             /\ Kept = [zone |-> zone[z], name |-> n]
             /\ i \notin hurt => z = y
  <2>1. Knows(w.prev, s, z, n, i) /\ ~Moved(w.zid, "ok") /\ n # None
    BY <1>1, <1>6, Constants DEF Held, Passed
  <2>2. /\ Kept = [zone |-> zone[z], name |-> n] /\ w.prev.ip = i
        /\ zone[z] = w.zid /\ n = Target(s) /\ (s = "f" => w.prev.ip = w.ip)
    BY <1>6, <2>1 DEF Knows, Moved, Kept
  <2>3. i = w.ip
    <3>1. CASE s = "f"
      BY <2>2, <3>1
    <3>2. CASE s = "r"
      BY <1>6, <2>2, <3>2 DEF Rec, Target
    <3> QED
      BY <3>1, <3>2 DEF Sides
  <2>4. zone[z] # 0
    BY <1>0, <1>6, RecZoned
  <2> QED
    BY <1>0, <1>5, <2>2, <2>3, <2>4 DEF Zoned
<1>7. ASSUME Added(w.side), zone[y] # 0
      PROVE  /\ fwd' \subseteq [zone : ForwardZones, host : Hosts, ip : Ips]
             /\ ptr' \in [Ips -> Hosts \cup {None}]
             /\ Zoned'
             /\ \A s \in Sides, z \in ZoneNames, n \in Hosts \cup Ips, i \in Ips :
                  Rec(s, z, n, i)' => \/ Rec(s, z, n, i)
                                      \/ s = w.side /\ z = y /\ n = Target(s) /\ i = w.ip
  <2>1. CASE w.side = "f"
    <3>1. fwd' = fwd \cup {[zone |-> y, host |-> w.host, ip |-> w.ip]} /\ ptr' = ptr
      BY <1>4, <1>7, <2>1 DEF Added
    <3>2. /\ fwd' \subseteq [zone : ForwardZones, host : Hosts, ip : Ips]
          /\ ptr' \in [Ips -> Hosts \cup {None}]
      BY <1>0, <1>2, <1>5, <2>1, <3>1 DEF Typed
    <3>3. Zoned'
      <4>1. \A r \in fwd' : r \in fwd \/ r.zone = y
        BY <3>1
      <4> QED
        BY <1>0, <1>1, <1>7, <3>1, <4>1 DEF Zoned
    <3> QED
      BY <2>1, <3>1, <3>2, <3>3 DEF Rec, Target
  <2>2. CASE w.side = "r"
    <3>1. ptr' = [ptr EXCEPT ![w.ip] = w.host] /\ fwd' = fwd /\ y = PtrZone
      BY <1>5, <1>7, <2>2 DEF Added
    <3>2. /\ fwd' \subseteq [zone : ForwardZones, host : Hosts, ip : Ips]
          /\ ptr' \in [Ips -> Hosts \cup {None}]
          /\ \A i \in Ips : ptr'[i] = IF i = w.ip THEN w.host ELSE ptr[i]
      BY <1>0, <1>2, <3>1 DEF Typed
    <3>3. Zoned'
      BY <1>0, <1>1, <1>7, <3>1, <3>2 DEF Zoned
    <3>4. ASSUME NEW s \in Sides, NEW z \in ZoneNames, NEW n \in Hosts \cup Ips, NEW i \in Ips,
                 Rec(s, z, n, i)', ~Rec(s, z, n, i)
          PROVE  s = w.side /\ z = y /\ n = Target(s) /\ i = w.ip
      <4>1. s = "r"
        BY <3>1, <3>4 DEF Rec, Sides
      <4>2. z = PtrZone /\ n = i /\ ptr'[i] # None /\ ptr[i] = None
        BY <3>4, <4>1 DEF Rec
      <4>3. i = w.ip
        BY <3>2, <4>2
      <4> QED
        BY <2>2, <3>1, <4>1, <4>2, <4>3 DEF Target
    <3> QED
      BY <3>2, <3>3, <3>4
  <2> QED
    BY <1>2, <2>1, <2>2 DEF Sides
<1>8. CASE /\ zone[y] # 0 /\ Added(w.side) /\ UNCHANGED hurt
           /\ EndSide([zone |-> w.zid, name |-> Target(w.side)])
  <2>1. PICK ref : ref = [zone |-> w.zid, name |-> Target(w.side)]
    OBVIOUS
  <2>2. ref \in Refs
    <3>1. Target(w.side) \in Hosts \cup Ips /\ w.zid \in 0..MaxZones
      BY <1>2 DEF Target, Work
    <3> QED
      BY <2>1, <3>1 DEF Refs
  <2>3. /\ fwd' \subseteq [zone : ForwardZones, host : Hosts, ip : Ips]
        /\ ptr' \in [Ips -> Hosts \cup {None}]
        /\ Zoned'
        /\ \A s \in Sides, z \in ZoneNames, n \in Hosts \cup Ips, i \in Ips :
             Rec(s, z, n, i)' => \/ Rec(s, z, n, i)
                                 \/ s = w.side /\ z = y /\ n = Target(s) /\ i = w.ip
    BY <1>7, <1>8
  <2>4. hurt \subseteq hurt' /\ hurt' \subseteq Ips
    BY <1>0, <1>8 DEF Typed
  <2>5. ASSUME NEW s \in Sides, NEW z \in ZoneNames, NEW n \in Hosts \cup Ips, NEW i \in Ips,
               Rec(s, z, n, i)', i \notin hurt'
        PROVE  \/ Rec(s, z, n, i) /\ (s = w.side => ~Held(s, z, n, i))
               \/ s = w.side /\ i = w.ip /\ ref = [zone |-> zone'[z], name |-> n]
    <3>1. CASE s = w.side /\ z = y /\ n = Target(s) /\ i = w.ip
      BY <1>1, <1>5, <2>1, <2>4, <2>5, <3>1
    <3>2. CASE Rec(s, z, n, i) /\ s = w.side /\ Held(s, z, n, i)
      BY <1>1, <1>6, <2>1, <3>2
    <3> QED
      BY <2>3, <2>5, <3>1, <3>2
  <2>6. EndSide(ref)
    BY <1>8, <2>1
  <2> QED
    BY <1>1, <1>3, <2>2, <2>3, <2>4, <2>5, <2>6, SideDone
<1>9. ASSUME NEW ref \in Refs, EndSide(ref), UNCHANGED <<fwd, ptr, hurt>>,
             ref = Kept \/ Absent(w.side)
      PROVE  SyncInv'
  <2>1. /\ fwd' \subseteq [zone : ForwardZones, host : Hosts, ip : Ips]
        /\ ptr' \in [Ips -> Hosts \cup {None}] /\ Zoned' /\ hurt \subseteq hurt' /\ hurt' \subseteq Ips
    BY <1>0, <1>1, <1>9 DEF Typed, Zoned
  <2>2. \A s, z, n, i : Rec(s, z, n, i)' = Rec(s, z, n, i)
    BY <1>9 DEF Rec
  <2>3. ASSUME NEW s \in Sides, NEW z \in ZoneNames, NEW n \in Hosts \cup Ips, NEW i \in Ips,
               s = w.side, Rec(s, z, n, i), Held(s, z, n, i), i \notin hurt
        PROVE  i = w.ip /\ ref = [zone |-> zone'[z], name |-> n]
    <3>1. CASE ref = Kept
      BY <1>1, <1>6, <2>3, <3>1
    <3>2. CASE Absent(s)
      <4>1. Absent(s) /\ i = w.ip /\ n = Target(s) /\ z = y
        BY <1>6, <1>9, <2>3, <3>2
      <4>2. CASE s = "f"
        BY <1>4, <2>3, <4>1, <4>2 DEF Absent, Already, Rec, Target
      <4>3. CASE s = "r"
        BY <2>3, <4>1, <4>3 DEF Absent, Rec
      <4> QED
        BY <4>2, <4>3 DEF Sides
    <3> QED
      BY <1>9, <2>3, <3>1, <3>2
  <2> QED
    BY <1>1, <1>3, <1>9, <2>1, <2>2, <2>3, SideDone
<1>10. CASE /\ zone[y] # 0 /\ Added(w.side) /\ EndSide(Kept) /\ hurt' = hurt \cup {w.ip}
  <2>1. /\ fwd' \subseteq [zone : ForwardZones, host : Hosts, ip : Ips]
        /\ ptr' \in [Ips -> Hosts \cup {None}]
        /\ Zoned'
        /\ \A s \in Sides, z \in ZoneNames, n \in Hosts \cup Ips, i \in Ips :
             Rec(s, z, n, i)' => \/ Rec(s, z, n, i)
                                 \/ s = w.side /\ z = y /\ n = Target(s) /\ i = w.ip
    BY <1>7, <1>10
  <2>2. hurt \subseteq hurt' /\ hurt' \subseteq Ips
    BY <1>0, <1>2, <1>10 DEF Typed
  <2>3. ASSUME NEW s \in Sides, NEW z \in ZoneNames, NEW n \in Hosts \cup Ips, NEW i \in Ips,
               Rec(s, z, n, i)', i \notin hurt'
        PROVE  Rec(s, z, n, i) /\ (s = w.side => ~Held(s, z, n, i))
    BY <1>6, <1>10, <2>1, <2>3
  <2> QED
    BY <1>1, <1>2, <1>3, <1>10, <2>1, <2>2, <2>3, SideDone
<1>11. \/ /\ zone[y] # 0 /\ Added(w.side) /\ UNCHANGED hurt
          /\ EndSide([zone |-> w.zid, name |-> Target(w.side)])
       \/ EndSide(Kept) /\ UNCHANGED <<fwd, ptr, hurt>>
       \/ Absent(w.side) /\ EndSide(NoRef) /\ UNCHANGED <<fwd, ptr, hurt>>
       \/ zone[y] # 0 /\ Added(w.side) /\ EndSide(Kept) /\ hurt' = hurt \cup {w.ip}
  BY <1>4 DEF WriteNew
<1>12. CASE EndSide(Kept) /\ UNCHANGED <<fwd, ptr, hurt>>
  BY <1>2, <1>9, <1>12
<1>13. CASE Absent(w.side) /\ EndSide(NoRef) /\ UNCHANGED <<fwd, ptr, hurt>>
  BY <1>2, <1>9, <1>13
<1> QED
  BY <1>8, <1>10, <1>11, <1>12, <1>13

LEMMA SaveInv ==
    ASSUME SyncInv, Save
    PROVE  SyncInv'
<1>0. Typed /\ Working
  BY DEF SyncInv
<1>1. /\ pc = "save" /\ pc' = "idle" /\ w' = NoWork
      /\ UNCHANGED <<setting, ipam, events, zone, minted, fwd, ptr>>
  BY DEF Save, Return, worldVars, dnsVars
<1>2. w.id \in Ids /\ w.next \in Rows /\ w.next.ip = w.ip /\ w.ip \in Ips
  BY <1>0, <1>1 DEF Typed, Work, Working
<1>3. \/ rows' = [rows EXCEPT ![w.id] = w.next] /\ hurt' = hurt
      \/ rows' = rows /\ hurt' = hurt \cup ({w.ip, w.prev.ip} \cap Ips)
  BY DEF Save
<1>4. rows' \in [Ids -> Rows] /\ hurt \subseteq hurt' /\ hurt' \subseteq Ips
  BY <1>0, <1>2, <1>3 DEF Typed
<1>5. Typed'
  BY <1>0, <1>1, <1>4, Constants DEF Typed, Steps
<1>6. ASSUME NEW s \in Sides, NEW z \in ZoneNames, NEW n \in Hosts \cup Ips, NEW i \in Ips,
             Held(s, z, n, i), i \notin hurt'
      PROVE  Knows(rows'[w.id], s, z, n, i)
  <2>1. Knows(w.next, s, z, n, i)
    BY <1>1, <1>6 DEF Held
  <2>2. i = w.ip
    BY <1>2, <2>1 DEF Knows
  <2>3. rows'[w.id] = w.next
    BY <1>0, <1>2, <1>3, <1>6, <2>2 DEF Typed
  <2> QED
    BY <2>1, <2>3
<1>7. \A b \in Ids \ {w.id} : rows'[b] = rows[b]
  BY <1>0, <1>3 DEF Typed
<1>8. Zoned' /\ Working' /\ Booked'
  BY <1>1, <1>4, <1>6, <1>7, Ends
<1> QED
  BY <1>5, <1>8 DEF SyncInv

LEMMA DropInv ==
    ASSUME SyncInv, Drop
    PROVE  SyncInv'
<1>0. Typed /\ Zoned /\ Working
  BY DEF SyncInv
<1>1. pc = "drop" /\ UNCHANGED <<setting, ipam, events, zone, minted, rows, hurt>>
  BY DEF Drop, worldVars
<1>2. w \in Work /\ w.side \in Sides /\ w.mode # "upsert" /\ w.id \in Ids
  BY <1>0, <1>1 DEF Typed, Work, Working
<1>3. PICK err \in {w.err, "temp"} :
          /\ IF w.side = "f" THEN pc' = "drop" /\ w' = [w EXCEPT !.side = "r", !.err = err]
             ELSE pc' = "finish" /\ w' = [w EXCEPT !.err = err]
          /\ \/ err = w.err /\ w.prev.ref[w.side].name = None /\ UNCHANGED <<fwd, ptr>>
             \/ RemoveRecord(w.side, w.prev)
             \/ err = "temp" /\ UNCHANGED <<fwd, ptr>>
  BY DEF Drop
<1>4. /\ w' \in Work /\ w'.id = w.id /\ w'.prev = w.prev /\ w'.ip = w.ip /\ w'.mode = w.mode
      /\ w'.err = err /\ w'.side = "r"
      /\ IF w.side = "f" THEN pc' = "drop" ELSE pc' = "finish"
  <2>1. err \in {"ok", "temp", "perm"}
    BY <1>2, <1>3 DEF Work
  <2>2. CASE w.side = "f"
    <3>1. w' = [w EXCEPT !.side = "r", !.err = err] /\ pc' = "drop"
      BY <1>3, <2>2
    <3> QED
      BY <1>2, <2>1, <2>2, <3>1 DEF Work, Sides
  <2>3. CASE w.side # "f"
    <3>1. w.side = "r" /\ w' = [w EXCEPT !.err = err] /\ pc' = "finish"
      BY <1>2, <1>3, <2>3 DEF Sides
    <3> QED
      BY <1>2, <2>1, <2>3, <3>1 DEF Work
  <2> QED
    BY <2>2, <2>3
<1>5. /\ fwd' \subseteq [zone : ForwardZones, host : Hosts, ip : Ips]
      /\ ptr' \in [Ips -> Hosts \cup {None}]
      /\ Zoned'
      /\ \A s \in Sides, z \in ZoneNames, n \in Hosts \cup Ips, i \in Ips :
             Rec(s, z, n, i)' =>
                 /\ Rec(s, z, n, i)
                 /\ s = w.side => ~Knows(w.prev, s, z, n, i) \/ err = "temp"
  <2>1. CASE RemoveRecord(w.side, w.prev)
    <3>1. /\ fwd' \subseteq [zone : ForwardZones, host : Hosts, ip : Ips]
          /\ ptr' \in [Ips -> Hosts \cup {None}]
          /\ Zoned'
          /\ \A s \in Sides, z \in ZoneNames, n \in Hosts \cup Ips, i \in Ips :
                 Rec(s, z, n, i)' =>
                     Rec(s, z, n, i) /\ (s = w.side => ~Knows(w.prev, s, z, n, i))
      BY <1>1, <1>2, <2>1, Removed
    <3> QED
      BY <3>1
  <2>2. CASE UNCHANGED <<fwd, ptr>> /\ (w.prev.ref[w.side].name = None \/ err = "temp")
    <3>1. /\ fwd' \subseteq [zone : ForwardZones, host : Hosts, ip : Ips]
          /\ ptr' \in [Ips -> Hosts \cup {None}] /\ Zoned'
      BY <1>0, <1>1, <2>2 DEF Typed, Zoned
    <3>2. \A s, z, n, i : Rec(s, z, n, i)' = Rec(s, z, n, i)
      BY <2>2 DEF Rec
    <3>3. ASSUME NEW s \in Sides, NEW z \in ZoneNames, NEW n \in Hosts \cup Ips, NEW i \in Ips,
                 s = w.side, Knows(w.prev, s, z, n, i)
          PROVE  err = "temp"
      <4>1. n # None
        BY Constants
      <4> QED
        BY <2>2, <3>3, <4>1 DEF Knows
    <3> QED
      BY <3>1, <3>2, <3>3
  <2> QED
    BY <1>3, <2>1, <2>2
<1>6. Typed'
  BY <1>0, <1>1, <1>4, <1>5 DEF Typed, Steps
<1>7. Working'
  BY <1>0, <1>1, <1>2, <1>4 DEF Working
<1>8. ASSUME NEW s \in Sides, NEW z \in ZoneNames, NEW n \in Hosts \cup Ips, NEW i \in Ips,
             Rec(s, z, n, i)', Held(s, z, n, i)
      PROVE  Held(s, z, n, i)'
  <2>1. Knows(w.prev, s, z, n, i) /\ (Passed(s) => w.err # "ok")
    BY <1>1, <1>8 DEF Held
  <2>2. Knows(w.prev, s, z, n, i)'
    BY <1>1, <1>4, <2>1 DEF Knows
  <2>3. CASE s = w.side
    <3>1. err = "temp" /\ (Passed(s)' \/ pc' = "finish")
      BY <1>2, <1>4, <1>5, <1>8, <2>1, <2>3 DEF Passed, Sides
    <3> QED
      BY <1>4, <2>2, <3>1 DEF Held
  <2>4. CASE s # w.side /\ w.side = "f"
    <3>1. ~Passed(s)' /\ pc' = "drop"
      BY <1>4, <2>4 DEF Passed, Sides
    <3> QED
      BY <2>2, <3>1 DEF Held
  <2>5. CASE s # w.side /\ w.side = "r"
    <3>1. Passed(s) /\ pc' = "finish" /\ err # "ok"
      BY <1>3, <1>4, <2>1, <2>5 DEF Passed, Sides
    <3> QED
      BY <1>4, <2>2, <3>1 DEF Held
  <2> QED
    BY <1>2, <2>3, <2>4, <2>5 DEF Sides
<1>9. Booked'
  <2>1. pc' # "idle"
    BY <1>4
  <2> QED
    BY <1>1, <1>4, <1>5, <1>8, <2>1, GoesOn
<1> QED
  BY <1>5, <1>6, <1>7, <1>9 DEF SyncInv

LEMMA FinishInv ==
    ASSUME SyncInv, Finish
    PROVE  SyncInv'
<1>0. Typed /\ Working
  BY DEF SyncInv
<1>1. /\ pc = "finish" /\ pc' = "idle" /\ w' = NoWork
      /\ UNCHANGED <<setting, ipam, events, zone, minted, fwd, ptr, hurt>>
  BY DEF Finish, Return, worldVars, dnsVars
<1>2. CASE UNCHANGED rows
  BY <1>1, <1>2, Returns
<1>3. w.id \in Ids /\ w.prev \in Rows
  BY <1>0, <1>1 DEF Typed, Work, Working
<1>4. ASSUME NEW row \in Rows, rows' = [rows EXCEPT ![w.id] = row], w.err # "ok" => row = w.prev
      PROVE  SyncInv'
  <2>1. rows' \in [Ids -> Rows] /\ rows'[w.id] = row /\ \A b \in Ids \ {w.id} : rows'[b] = rows[b]
    BY <1>0, <1>3, <1>4 DEF Typed
  <2>2. Typed'
    BY <1>0, <1>1, <2>1, Constants DEF Typed, Steps
  <2>3. ASSUME NEW s \in Sides, NEW z \in ZoneNames, NEW n \in Hosts \cup Ips, NEW i \in Ips,
               Held(s, z, n, i)
        PROVE  Knows(rows'[w.id], s, z, n, i)
    BY <1>1, <1>4, <2>1, <2>3 DEF Held
  <2>4. Zoned' /\ Working' /\ Booked'
    BY <1>1, <2>1, <2>3, Ends
  <2> QED
    BY <2>2, <2>4 DEF SyncInv
<1>5. CASE w.err = "ok" /\ rows' = [rows EXCEPT ![w.id] = NoRow]
  BY <1>4, <1>5, Constants
<1>6. CASE rows' = [rows EXCEPT ![w.id] =
                       [w.prev EXCEPT !.ref = IF w.err = "ok" THEN NoRow.ref ELSE w.prev.ref]]
  <2>1. PICK row : row = [w.prev EXCEPT !.ref = IF w.err = "ok" THEN NoRow.ref ELSE w.prev.ref]
    OBVIOUS
  <2>2. row \in Rows /\ (w.err # "ok" => row = w.prev)
    BY <1>3, <2>1, Constants DEF Rows
  <2> QED
    BY <1>4, <1>6, <2>1, <2>2
<1> QED
  BY <1>2, <1>5, <1>6 DEF Finish

LEMMA RestartInv ==
    ASSUME SyncInv, Restart
    PROVE  SyncInv'
<1>0. Typed /\ Zoned /\ Working /\ Booked
  BY DEF SyncInv
<1>1. /\ pc' = "idle" /\ w' = NoWork /\ events' = <<>>
      /\ hurt' = hurt \cup ({w.ip, w.prev.ip} \cap Ips)
      /\ UNCHANGED <<setting, ipam, zone, minted, fwd, ptr, rows>>
  BY DEF Restart, dnsVars
<1>2. hurt \subseteq hurt' /\ hurt' \subseteq Ips
  BY <1>0, <1>1 DEF Typed
<1>3. Typed'
  BY <1>0, <1>1, <1>2, Constants DEF Typed, Steps
<1>4. CASE pc = "idle"
  <2>1. Zoned' /\ Working'
    BY <1>0, <1>1 DEF Zoned, Working
  <2>2. ASSUME NEW s \in Sides, NEW z \in ZoneNames, NEW n \in Hosts \cup Ips, NEW i \in Ips,
               Rec(s, z, n, i)', i \notin hurt'
        PROVE  Known(s, z, n, i)'
    <3>1. Rec(s, z, n, i) /\ i \notin hurt
      BY <1>1, <1>2, <2>2 DEF Rec
    <3>2. PICK b \in Ids : Knows(rows[b], s, z, n, i)
      BY <1>0, <1>4, <3>1 DEF Booked, Known
    <3>3. Knows(rows[b], s, z, n, i)'
      BY <1>1, <3>2 DEF Knows
    <3> QED
      BY <1>1, <3>3 DEF Known
  <2> QED
    BY <1>3, <2>1, <2>2 DEF SyncInv, Booked, Known
<1>5. CASE pc # "idle"
  <2>1. ASSUME NEW s \in Sides, NEW z \in ZoneNames, NEW n \in Hosts \cup Ips, NEW i \in Ips,
               Held(s, z, n, i)
        PROVE  i \in hurt'
    BY <1>0, <1>1, <1>5, <2>1 DEF Held, Knows, Working
  <2>2. rows' \in [Ids -> Rows]
    BY <1>0, <1>1 DEF Typed
  <2>3. Zoned' /\ Working' /\ Booked'
    BY <1>1, <1>2, <1>5, <2>1, <2>2, Ends
  <2> QED
    BY <1>3, <2>3 DEF SyncInv
<1> QED
  BY <1>4, <1>5

-----------------------------------------------------------------------------
(* Settled addresses.  The second inductive invariant says why what an     *)
(* undisturbed handling wrote stays as it is until something changes about *)
(* the address.                                                            *)

\* No call fails and no answer is lost in a handling that finds its address at
\* another IP; restarts are allowed.
Smooth ==
    w.mode = "upsert" /\ w.prev.ip \notin {None, w.ip} => ~Fail /\ (Lose => pc' = "idle")

\* The forward zones there are, the one a host belongs to, and the choice of
\* PlanForward, for zones zn.
Forward(zn) == {z \in ForwardZones : zn[z] # 0}
ZoneFor(h, zn) == LongestZone(Forward(zn), h)
Best(h, zn) == IF Forward(zn) = {} THEN [name |-> Registrable, id |-> 0]
               ELSE [name |-> ZoneFor(h, zn), id |-> zn[ZoneFor(h, zn)]]
Reverse(zn) == [name |-> PtrZone, id |-> zn[PtrZone]]

LongestExists ==
    \A zs \in SUBSET ForwardZones : \A h \in Hosts : zs # {} => LongestZone(zs, h) \in zs

\* No zone has the id.
Gone(id, zn) == \A z \in ZoneNames : zn[z] # 0 => zn[z] # id

\* Of m zones given out, no forward zone has the id.
NotForward(id, zn, m) == id <= m /\ \A z \in ForwardZones : zn[z] # 0 => zn[z] # id

\* A row without an address refers to nothing, and the PTR record of a row is
\* that of its own address, unless the zone is gone.
Own(row, zn, m) ==
    /\ row.has \/ (row.ip = None /\ \A s \in Sides : row.ref[s].name = None)
    /\ NotForward(row.ref["r"].zone, zn, m)
    /\ row.ref["r"].name \in {None, row.ip} \/ Gone(row.ref["r"].zone, zn)

Distinct == \A a, b \in Ids : ipam[a].live /\ ipam[b].live /\ ipam[a].ip = ipam[b].ip => a = b

Owned ==
    /\ settled \subseteq Ids
    /\ Distinct
    /\ \A a \in Ids : Own(rows[a], zone, minted)
    /\ Own(w.prev, zone, minted) /\ Own(w.next, zone, minted)
    /\ pc \in {"move", "write"} /\ w.side = "r" => NotForward(w.zid, zone, minted)
    /\ pc \in {"zone", "move", "write"} /\ w.plan["r"].id # 0
         => zone[PtrZone] = w.plan["r"].id \/ Gone(w.prev.ref["r"].zone, zone)

Hosted(d) == d.live /\ d.host # None

\* The row refers to the records the address should have, and they are there.
Match(d, row, zn, F, P) ==
    IF Hosted(d)
    THEN /\ row.has /\ row.ip = d.ip
         /\ Forward(zn) # {}
         /\ row.ref["f"] = [zone |-> zn[ZoneFor(d.host, zn)], name |-> d.host]
         /\ row.ref["r"] = [zone |-> zn[PtrZone], name |-> d.ip]
         /\ [zone |-> ZoneFor(d.host, zn), host |-> d.host, ip |-> d.ip] \in F
         /\ P[d.ip] = d.host
    ELSE \A s \in Sides : row.ref[s].name = None

\* The handling has read what IPAM still says.
Read(d) == Hosted(d) /\ w.ip = d.ip /\ w.host = d.host

\* The forward side is done.
Done ==
    /\ w.next.ref["f"] = [zone |-> zone[ZoneFor(w.host, zone)], name |-> w.host]
    /\ [zone |-> ZoneFor(w.host, zone), host |-> w.host, ip |-> w.ip] \in fwd

\* What an undisturbed handling knows and has achieved.
Calm ==
    calm /\ pc # "idle" =>
        /\ rows[w.id] = w.prev
        /\ pc \in {"zones", "zone", "move", "write", "save"} => Read(ipam[w.id])
        /\ pc \in {"drop", "finish"} =>
             ~Hosted(ipam[w.id]) /\ w.mode = IF ipam[w.id].live THEN "clear" ELSE "release"
        /\ pc = "zone" /\ w.side = "f" => w.plan["f"] = Best(w.host, zone)
        /\ pc = "zone" \/ (pc \in {"move", "write"} /\ w.side = "f") => w.plan["r"] = Reverse(zone)
        /\ pc \in {"move", "write"} =>
             w.err = "ok" /\ w.zid # 0 /\ zone[w.plan[w.side].name] = w.zid
        /\ pc \in {"move", "write", "save"} \/ (pc = "zone" /\ w.side = "r") =>
             Forward(zone) # {} /\ w.plan["f"].name = ZoneFor(w.host, zone)
        /\ pc = "save" \/ (pc \in {"zone", "move", "write"} /\ w.side = "r") => Done
        /\ pc = "save" => /\ w.next.ref["r"] = [zone |-> zone[PtrZone], name |-> w.ip]
                          /\ ptr[w.ip] = w.host

\* Nobody else's row, and no other handling, is at the address's IP.
Alone(a) ==
    /\ \A b \in Ids \ {a} : rows[b].ip # ipam[a].ip
    /\ w.prev.ip # ipam[a].ip /\ w.ip # ipam[a].ip
    /\ pc = "zone" /\ w.side = "f" /\ Hosted(ipam[a]) => w.plan["f"].id # 0

Untouched(a) ==
    /\ Match(ipam[a], rows[a], zone, fwd, ptr)
    /\ ipam[a].ip \in hurt \/ InSync(a)
    /\ ipam[a].live => Alone(a)

\* A settled address is handled again: there is nothing to do.
Again(a) ==
    /\ Match(ipam[a], w.prev, zone, fwd, ptr)
    /\ pc # "move"
    /\ pc \in {"zones", "zone", "write", "save"} => Read(ipam[a])
    /\ pc \in {"zone", "write"} => w.plan["f"] = Best(w.host, zone) /\ w.plan["r"] = Reverse(zone)
    /\ pc = "drop" => ~Hosted(ipam[a])

Settling == \A a \in settled : IF pc # "idle" /\ w.id = a THEN Again(a) ELSE Untouched(a)

SettleInv == SyncInv /\ Owned /\ Calm /\ Settling

-----------------------------------------------------------------------------
(* Rows keep to their own addresses.                                       *)

\* Zones come with new ids, or go.
ZonesTurn ==
    /\ minted' \in Nat /\ minted <= minted'
    /\ \A z \in ZoneNames : zone'[z] \in Nat /\ (zone'[z] \in {zone[z], 0} \/ zone'[z] > minted)

LEMMA Numbers ==
    ASSUME Typed
    PROVE  /\ minted \in Nat /\ \A z \in ZoneNames : zone[z] \in Nat
           /\ PtrZone \in ZoneNames /\ ForwardZones \subseteq ZoneNames
  BY SyncConstants DEF Typed, ZoneNames

LEMMA RowNumbers ==
    ASSUME NEW row \in Rows
    PROVE  \A s \in Sides : row.ref[s] \in Refs /\ row.ref[s].zone \in Nat
<1>1. \A s \in Sides : row.ref[s] \in Refs
  BY DEF Rows
<1>2. \A ref \in Refs : ref.zone \in Nat
  BY SyncConstants DEF Refs
<1> QED
  BY <1>1, <1>2

LEMMA NotForwardStays ==
    ASSUME Typed, ZonesTurn, NEW id \in Nat, NotForward(id, zone, minted)
    PROVE  NotForward(id, zone', minted')
<1>1. minted \in Nat /\ minted' \in Nat /\ minted <= minted' /\ id <= minted
  BY Numbers DEF ZonesTurn, NotForward
<1>2. ASSUME NEW z \in ForwardZones, zone'[z] # 0 PROVE zone'[z] # id
  <2>1. z \in ZoneNames /\ zone[z] \in Nat
    BY Numbers
  <2>2. zone'[z] \in Nat /\ (zone'[z] = zone[z] \/ zone'[z] > minted)
    BY <1>2, <2>1 DEF ZonesTurn
  <2>3. zone[z] # 0 => zone[z] # id
    BY DEF NotForward
  <2> QED
    BY <1>1, <1>2, <2>1, <2>2, <2>3
<1>3. id <= minted'
  BY <1>1
<1> QED
  BY <1>2, <1>3 DEF NotForward

LEMMA GoneStays ==
    ASSUME Typed, ZonesTurn, NEW id \in Nat, id <= minted, Gone(id, zone)
    PROVE  Gone(id, zone')
<1> SUFFICES ASSUME NEW z \in ZoneNames, zone'[z] # 0 PROVE zone'[z] # id
  BY DEF Gone
<1>1. minted \in Nat /\ zone[z] \in Nat
  BY Numbers
<1>2. zone'[z] \in Nat /\ (zone'[z] = zone[z] \/ zone'[z] > minted)
  BY DEF ZonesTurn
<1>3. zone[z] # 0 => zone[z] # id
  BY DEF Gone
<1> QED
  BY <1>1, <1>2, <1>3

LEMMA OwnStays ==
    ASSUME Typed, ZonesTurn, NEW row \in Rows, Own(row, zone, minted)
    PROVE  Own(row, zone', minted')
<1>1. row.ref["r"].zone \in Nat
  BY RowNumbers DEF Sides
<1>2. NotForward(row.ref["r"].zone, zone', minted')
  BY <1>1, NotForwardStays DEF Own
<1>3. Gone(row.ref["r"].zone, zone) => Gone(row.ref["r"].zone, zone')
  BY <1>1, GoneStays DEF Own, NotForward
<1> QED
  BY <1>2, <1>3 DEF Own

\* An id that is no forward zone's is only the reverse zone's.
LEMMA GoneUnless ==
    ASSUME NEW id, NEW zn, NEW m, NotForward(id, zn, m), zn[PtrZone] = 0 \/ zn[PtrZone] # id
    PROVE  Gone(id, zn)
  BY DEF NotForward, Gone, ZoneNames

\* The zone that was chosen for the PTR record is there, or the old record is
\* gone.
LEMMA ChoiceStays ==
    ASSUME Typed, ZonesTurn, Own(w.prev, zone, minted), w.plan["r"].id # 0,
           zone[PtrZone] = w.plan["r"].id \/ Gone(w.prev.ref["r"].zone, zone)
    PROVE  zone'[PtrZone] = w.plan["r"].id \/ Gone(w.prev.ref["r"].zone, zone')
<1>1. PICK id : id = w.prev.ref["r"].zone
  OBVIOUS
<1>2. id \in Nat
  BY <1>1, RowNumbers DEF Typed, Work, Sides
<1>3. NotForward(id, zone, minted) /\ id <= minted
  BY <1>1 DEF Own, NotForward
<1>4. CASE Gone(id, zone)
  BY <1>1, <1>2, <1>3, <1>4, GoneStays
<1>5. CASE zone[PtrZone] = w.plan["r"].id
  <2>1. /\ zone'[PtrZone] \in Nat /\ minted \in Nat
        /\ zone'[PtrZone] \in {zone[PtrZone], 0} \/ zone'[PtrZone] > minted
    BY Numbers DEF ZonesTurn
  <2>2. zone'[PtrZone] > minted => zone'[PtrZone] # id
    BY <1>2, <1>3, <2>1
  <2>3. NotForward(id, zone', minted')
    BY <1>2, <1>3, NotForwardStays
  <2> QED
    BY <1>1, <1>5, <2>1, <2>2, <2>3, GoneUnless
<1> QED
  BY <1>1, <1>4, <1>5

LEMMA NothingOwned ==
    ASSUME Typed
    PROVE  Own(NoRow, zone, minted) /\ NotForward(0, zone, minted)
<1>1. NotForward(0, zone, minted)
  BY Numbers DEF NotForward
<1>2. NoRow.ip = None /\ \A s \in Sides : NoRow.ref[s].name = None /\ NoRow.ref[s].zone = 0
  BY DEF NoRow, NoRef, Sides
<1> QED
  BY <1>1, <1>2 DEF Own, Sides

\* Steps that leave zones or rows mostly alone.
LEMMA OwnedKept ==
    ASSUME Typed, Typed', Owned, ZonesTurn, settled' \subseteq Ids, Distinct',
           \A a \in Ids : Own(rows'[a], zone, minted),
           Own(w'.prev, zone, minted), Own(w'.next, zone', minted'),
           pc' \in {"move", "write"} /\ w'.side = "r" => NotForward(w'.zid, zone', minted'),
           pc' \in {"zone", "move", "write"} =>
               \/ w'.plan = w.plan /\ w'.prev = w.prev /\ pc \in {"zone", "move", "write"}
               \/ w'.plan["r"].id = zone'[PtrZone]
    PROVE  Owned'
<1>1. \A a \in Ids : Own(rows'[a], zone', minted')
  BY OwnStays DEF Typed
<1>2. Own(w'.prev, zone', minted')
  BY OwnStays DEF Typed, Work
<1>3. ASSUME pc' \in {"zone", "move", "write"}, w'.plan["r"].id # 0
      PROVE  zone'[PtrZone] = w'.plan["r"].id \/ Gone(w'.prev.ref["r"].zone, zone')
  <2>1. CASE w'.plan["r"].id = zone'[PtrZone]
    BY <2>1
  <2>2. CASE w'.plan = w.plan /\ w'.prev = w.prev /\ pc \in {"zone", "move", "write"}
    <3>1. zone[PtrZone] = w.plan["r"].id \/ Gone(w.prev.ref["r"].zone, zone)
      BY <1>3, <2>2 DEF Owned
    <3>2. w.plan["r"].id # 0 /\ Own(w.prev, zone, minted)
      BY <1>3, <2>2 DEF Owned
    <3> QED
      BY <2>2, <3>1, <3>2, ChoiceStays
  <2> QED
    BY <1>3, <2>1, <2>2
<1> QED
  BY <1>1, <1>2, <1>3 DEF Owned

LEMMA IpamOwned ==
    ASSUME SettleInv, SyncInv', NEW a \in setting.ids, Announce(a) \/ \E new \in Answers : Change(a, new)
    PROVE  Owned'
<1>0. Typed /\ Typed' /\ Owned
  BY DEF SettleInv, SyncInv
<1>1. UNCHANGED <<zone, minted, rows, pc, w>> /\ settled' \subseteq settled
  BY DEF Announce, Change, dnsVars, histVars
<1>2. ZonesTurn
  BY <1>0, <1>1, Numbers DEF ZonesTurn
<1>3. Distinct'
  <2>1. CASE Announce(a)
    BY <1>0, <2>1 DEF Announce, Owned, Distinct
  <2>2. ASSUME NEW new \in Answers, Change(a, new) PROVE Distinct'
    <3>1. /\ ipam' = [ipam EXCEPT ![a] = new]
          /\ new.live => \A b \in Ids \ {a} : ~(ipam[b].live /\ ipam[b].ip = new.ip)
      BY <2>2 DEF Change
    <3>2. \A b \in Ids : ipam'[b] = IF b = a THEN new ELSE ipam[b]
      BY <1>0, <3>1 DEF Typed
    <3> QED
      BY <1>0, <3>1, <3>2 DEF Owned, Distinct
  <2> QED
    BY <2>1, <2>2
<1> QED
  BY <1>0, <1>1, <1>2, <1>3, OwnedKept DEF Owned

LEMMA ZonesOwned ==
    ASSUME SettleInv, SyncInv', NEW y \in ZoneNames, CreateZone(y) \/ DeleteZone(y)
    PROVE  Owned'
<1>0. Typed /\ Typed' /\ Owned
  BY DEF SettleInv, SyncInv
<1>1. UNCHANGED <<ipam, pc, w>> /\ settled' = {}
  BY DEF CreateZone, DeleteZone, ZonesChanged, worldVars
<1>2. ZonesTurn
  <2>1. \/ zone' = [zone EXCEPT ![y] = minted + 1] /\ minted' = minted + 1
        \/ zone' = [zone EXCEPT ![y] = 0] /\ minted' = minted
    BY DEF CreateZone, DeleteZone
  <2>2. \A z \in ZoneNames : zone'[z] = zone[z] \/ (zone'[z] = 0 /\ minted' = minted)
                             \/ (zone'[z] = minted + 1 /\ minted' = minted + 1)
    BY <1>0, <2>1 DEF Typed
  <2>3. minted \in Nat /\ (minted' = minted \/ minted' = minted + 1) /\ \A z \in ZoneNames : zone[z] \in Nat
    BY <1>0, <2>1, Numbers
  <2> QED
    BY <2>2, <2>3 DEF ZonesTurn
<1>3. ASSUME NEW a \in Ids PROVE Own(rows'[a], zone, minted)
  <2>1. Own(rows[a], zone, minted)
    BY <1>0 DEF Owned
  <2>2. CASE rows' = rows
    BY <2>1, <2>2
  <2>3. CASE DeleteZone(y)
    <3>1. rows'[a] = [rows[a] EXCEPT !.ref =
              [s \in Sides |-> IF rows[a].ref[s].zone = zone[y] THEN NoRef ELSE rows[a].ref[s]]]
      BY <2>3 DEF DeleteZone
    <3>2. /\ rows'[a].has = rows[a].has /\ rows'[a].ip = rows[a].ip
          /\ \A s \in Sides : rows'[a].ref[s] = rows[a].ref[s] \/ rows'[a].ref[s] = NoRef
      BY <1>0, <3>1 DEF Typed, Rows
    <3>3. NoRef.zone = 0 /\ NoRef.name = None /\ NotForward(0, zone, minted)
      BY <1>0, NothingOwned DEF NoRef
    <3>4. \A s \in Sides : rows[a].ref[s].name = None => rows'[a].ref[s].name = None
      BY <3>2, <3>3
    <3>5. rows'[a].ref["r"] = rows[a].ref["r"] \/ rows'[a].ref["r"] = NoRef
      BY <3>2 DEF Sides
    <3> QED
      BY <2>1, <3>2, <3>3, <3>4, <3>5 DEF Own
  <2> QED
    BY <2>2, <2>3 DEF CreateZone
<1>4. Own(w'.next, zone', minted')
  BY <1>0, <1>1, <1>2, OwnStays DEF Owned, Typed, Work
<1>5. pc' \in {"move", "write"} /\ w'.side = "r" => NotForward(w'.zid, zone', minted')
  <2>1. w.zid \in Nat
    BY <1>0, SyncConstants DEF Typed, Work
  <2> QED
    BY <1>0, <1>1, <1>2, <2>1, NotForwardStays DEF Owned
<1>6. Distinct'
  BY <1>0, <1>1 DEF Owned, Distinct
<1> QED
  BY <1>0, <1>1, <1>2, <1>3, <1>4, <1>5, <1>6, OwnedKept DEF Owned

\* A handling begins, ends, or goes on before its plan or after its last side.
LEMMA ApartOwned ==
    ASSUME SettleInv, SyncInv', UNCHANGED <<ipam, zone, minted>>, settled' \subseteq Ids,
           \A a \in Ids : Own(rows'[a], zone, minted),
           Own(w'.prev, zone, minted), w'.next \in {w.next, NoRow},
           pc' \notin {"zone", "move", "write"}
    PROVE  Owned'
<1>0. Typed /\ Typed' /\ Owned
  BY DEF SettleInv, SyncInv
<1>1. ZonesTurn
  BY <1>0, Numbers DEF ZonesTurn
<1>2. Own(w'.next, zone', minted')
  BY <1>0, NothingOwned DEF Owned
<1>3. Distinct'
  BY <1>0 DEF Owned, Distinct
<1> QED
  BY <1>0, <1>1, <1>2, <1>3, OwnedKept

\* A handling ends with the row it saves, or none.
LEMMA ReturnOwned ==
    ASSUME SettleInv, SyncInv', pc # "idle", NEW good, Return(good), UNCHANGED <<ipam, zone, minted>>,
           \A b \in Ids \ {w.id} : rows'[b] = rows[b],
           Own(rows'[w.id], zone, minted)
    PROVE  Owned'
<1>0. Typed /\ Typed' /\ Owned /\ w.id \in Ids
  BY DEF SettleInv, SyncInv, Working
<1>1. pc' = "idle" /\ w' = NoWork /\ settled' \subseteq settled \cup {w.id}
  BY DEF Return
<1>2. w'.prev = NoRow /\ w'.next = NoRow
  BY <1>1 DEF NoWork
<1>3. \A a \in Ids : Own(rows'[a], zone, minted)
  BY <1>0 DEF Owned
<1>4. Own(w'.prev, zone, minted) /\ settled' \subseteq Ids
  BY <1>0, <1>1, <1>2, NothingOwned DEF Owned
<1> QED
  BY <1>1, <1>2, <1>3, <1>4, ApartOwned

\* A side ends.
LEMMA SideOwned ==
    ASSUME SettleInv, SyncInv', pc \in {"zone", "move", "write"}, NEW ref \in Refs, EndSide(ref),
           ZonesTurn, UNCHANGED <<ipam, rows, settled>>,
           w.side = "r" => /\ NotForward(ref.zone, zone', minted')
                           /\ ref.name \in {None, w.ip} \/ Gone(ref.zone, zone')
    PROVE  Owned'
<1>0. Typed /\ Typed' /\ Owned /\ Working
  BY DEF SettleInv, SyncInv
<1>1. w \in Work /\ w.side \in Sides /\ w.next.has /\ w.next.ip = w.ip
  BY <1>0 DEF Typed, Work, Working
<1>2. /\ w'.prev = w.prev /\ w'.plan = w.plan
      /\ w'.next.has = w.next.has /\ w'.next.ip = w.next.ip
      /\ w'.next.ref[w.side] = ref
      /\ \A s \in Sides \ {w.side} : w'.next.ref[s] = w.next.ref[s]
      /\ w.side = "f" => pc' = "zone" /\ w'.side = "r"
      /\ w.side = "r" => pc' = "save" /\ w'.side = "r"
  BY <1>1, SideEnds
<1>3. Own(w'.next, zone', minted')
  <2>1. CASE w.side = "r"
    BY <1>1, <1>2, <2>1 DEF Own
  <2>2. CASE w.side = "f"
    <3>1. w'.next.ref["r"] = w.next.ref["r"]
      BY <1>2, <2>2 DEF Sides
    <3>2. Own(w.next, zone', minted')
      BY <1>0, <1>1, OwnStays DEF Owned, Work
    <3> QED
      BY <1>1, <1>2, <3>1, <3>2 DEF Own
  <2> QED
    BY <1>1, <2>1, <2>2 DEF Sides
<1>4. Distinct'
  BY <1>0 DEF Owned, Distinct
<1>5. pc' \in {"zone", "save"}
  BY <1>1, <1>2 DEF Sides
<1>6. (\A a \in Ids : Own(rows'[a], zone, minted)) /\ Own(w'.prev, zone, minted) /\ settled' \subseteq Ids
  BY <1>0, <1>2 DEF Owned
<1> QED
  BY <1>0, <1>2, <1>3, <1>4, <1>5, <1>6, OwnedKept

\* What is kept of a record that could not be replaced.
LEMMA KeptOwned ==
    ASSUME Typed, Owned, ZonesTurn, w.side = "r",
           w.prev.ip \in {None, w.ip} \/ Gone(w.prev.ref["r"].zone, zone')
    PROVE  /\ NotForward(Kept.zone, zone', minted')
           /\ Kept.name \in {None, w.ip} \/ Gone(Kept.zone, zone')
<1>1. Own(w.prev, zone', minted')
  BY OwnStays DEF Owned, Typed, Work
<1>2. Kept = w.prev.ref["r"]
  BY DEF Kept
<1> QED
  BY <1>1, <1>2 DEF Own

LEMMA TakeOwned ==
    ASSUME SettleInv, SyncInv', NEW k \in Arrived, Take(k)
    PROVE  Owned'
<1>0. Typed /\ Owned
  BY DEF SettleInv, SyncInv
<1>1. events[k] \in Ids
  BY <1>0 DEF Arrived, Typed
<1>2. UNCHANGED <<ipam, zone, minted, rows, settled>> /\ pc = "idle"
  BY DEF Take, dnsVars
<1>3. \/ UNCHANGED <<pc, w>>
      \/ pc' = "addr" /\ w'.prev = rows[events[k]] /\ w'.next = NoRow
  BY DEF Take, NoWork
<1>4. Own(w'.prev, zone, minted) /\ w'.next \in {w.next, NoRow} /\ pc' \in {"idle", "addr"}
  BY <1>0, <1>1, <1>2, <1>3 DEF Owned
<1> QED
  BY <1>0, <1>2, <1>4, ApartOwned DEF Owned

LEMMA ReadAddressOwned ==
    ASSUME SettleInv, SyncInv', ReadAddress
    PROVE  Owned'
<1>0. Typed /\ Owned /\ w \in Work
  BY DEF SettleInv, SyncInv, Typed
<1>1. UNCHANGED <<ipam, zone, minted, rows>> /\ pc = "addr"
  BY DEF ReadAddress, worldVars, dnsVars
<1>2. ASSUME NEW good, Return(good) PROVE Owned'
  <2>1. w.id \in Ids
    BY <1>1 DEF SettleInv, SyncInv, Working
  <2>2. Own(rows'[w.id], zone, minted)
    BY <1>0, <1>1, <2>1 DEF Owned
  <2> QED
    BY <1>1, <1>2, <2>2, ReturnOwned
<1>3. CASE pc' \in {"zones", "drop"} /\ w'.prev = w.prev /\ w'.next = w.next /\ settled' = settled
  BY <1>0, <1>1, <1>3, ApartOwned DEF Owned
<1>4. ASSUME NEW m, NEW i, NEW h,
             w' = [w EXCEPT !.mode = m, !.ip = i, !.host = h] \/ w' = [w EXCEPT !.mode = m]
      PROVE  w'.prev = w.prev /\ w'.next = w.next
  BY <1>0, <1>4 DEF Work
<1> QED
  BY <1>2, <1>3, <1>4 DEF ReadAddress

LEMMA SideZoneOwned ==
    ASSUME SettleInv, SyncInv', SideZone, Smooth
    PROVE  Owned'
<1>0. Typed /\ Typed' /\ Owned /\ Working /\ w \in Work
  BY DEF SettleInv, SyncInv, Typed
<1>1. pc = "zone" /\ UNCHANGED <<ipam, rows, settled>> /\ w.side \in Sides /\ w.mode = "upsert"
  BY <1>0 DEF SideZone, worldVars, Work, Working
<1>2. PICK p : p = w.plan[w.side]
  OBVIOUS
<1>3. p.name \in ZoneNames /\ (w.side = "r" => p.name = PtrZone)
  <2>1. Planned(w.side)
    BY <1>0, <1>1 DEF Working, Sides
  <2> QED
    BY <1>2, <2>1 DEF Planned, ZoneNames
<1>4. ZonesTurn
  <2>1. CASE UNCHANGED <<zone, minted>>
    BY <1>0, <2>1, Numbers DEF ZonesTurn
  <2>2. CASE minted' = minted + 1 /\ zone' = [zone EXCEPT ![p.name] = minted + 1]
    <3>1. \A z \in ZoneNames : zone'[z] = zone[z] \/ zone'[z] = minted + 1
      BY <1>0, <2>2 DEF Typed
    <3>2. minted \in Nat /\ \A z \in ZoneNames : zone[z] \in Nat
      BY <1>0, Numbers
    <3> QED
      BY <2>2, <3>1, <3>2 DEF ZonesTurn
  <2> QED
    BY <1>2, <2>1, <2>2 DEF SideZone
<1>5. ASSUME NEW ref \in Refs, EndSide(ref),
             ref = NoRef \/ (ref = Kept /\ (w.side = "r" =>
                 w.prev.ip \in {None, w.ip} \/ Gone(w.prev.ref["r"].zone, zone')))
      PROVE  Owned'
  <2>1. ASSUME w.side = "r"
        PROVE  /\ NotForward(ref.zone, zone', minted')
               /\ ref.name \in {None, w.ip} \/ Gone(ref.zone, zone')
    <3>1. CASE ref = Kept /\ (w.prev.ip \in {None, w.ip} \/ Gone(w.prev.ref["r"].zone, zone'))
      BY <1>0, <1>4, <2>1, <3>1, KeptOwned
    <3>2. CASE ref = NoRef
      <4>1. ref.zone = 0 /\ ref.name = None
        BY <3>2 DEF NoRef
      <4> QED
        BY <1>0, <1>4, <4>1, NothingOwned, NotForwardStays
    <3> QED
      BY <1>5, <2>1, <3>1, <3>2
  <2> QED
    BY <1>1, <1>4, <1>5, <2>1, SideOwned
<1>6. ASSUME NEW zid \in 0..MaxZones, NEW err, AfterZone(zid, err),
             w.side = "r" => NotForward(zid, zone', minted'),
             err = "temp" /\ w.side = "r" =>
                 w.prev.ip \in {None, w.ip} \/ Gone(w.prev.ref["r"].zone, zone')
      PROVE  Owned'
  <2>1. CASE EndSide(Kept) /\ err = "temp"
    <3>1. Kept \in Refs
      BY <1>0, <1>1, RowNumbers DEF Kept, Work
    <3> QED
      BY <1>5, <1>6, <2>1, <3>1
  <2>2. CASE EndSide(NoRef)
    BY <1>5, <2>2, Constants
  <2>3. CASE pc' \in {"move", "write"} /\ w' = [w EXCEPT !.zid = zid, !.err = err]
    <3>1. w'.prev = w.prev /\ w'.next = w.next /\ w'.plan = w.plan /\ w'.zid = zid /\ w'.side = w.side
      BY <1>0, <2>3 DEF Work
    <3>2. Own(w'.next, zone', minted')
      BY <1>0, <1>4, <3>1, OwnStays DEF Owned, Work
    <3>3. Distinct'
      BY <1>0, <1>1 DEF Owned, Distinct
    <3>4. /\ \A a \in Ids : Own(rows'[a], zone, minted)
          /\ Own(w'.prev, zone, minted) /\ settled' \subseteq Ids
      BY <1>0, <1>1, <3>1 DEF Owned
    <3> QED
      BY <1>0, <1>1, <1>4, <1>6, <3>1, <3>2, <3>3, <3>4, OwnedKept
  <2> QED
    BY <1>6, <2>1, <2>2, <2>3 DEF AfterZone
<1>7. zone'[p.name] \in 0..MaxZones /\ 0 \in 0..MaxZones
  BY <1>0, <1>3, SyncConstants DEF Typed
<1>8. w.side = "r" => NotForward(zone'[p.name], zone', minted') /\ NotForward(0, zone', minted')
  <2> SUFFICES ASSUME w.side = "r"
               PROVE  NotForward(zone'[p.name], zone', minted') /\ NotForward(0, zone', minted')
    OBVIOUS
  <2>1. p.name = PtrZone /\ \A z \in ForwardZones : z \in ZoneNames /\ z # PtrZone
    BY <1>3, Constants DEF ZoneNames
  <2>2. Zoned'
    BY DEF SyncInv
  <2>3. NotForward(zone'[p.name], zone', minted')
    BY <1>3, <2>1, <2>2 DEF Zoned, NotForward
  <2> QED
    BY <1>0, <1>4, <2>3, NothingOwned, NotForwardStays
<1>9. ASSUME AfterZone(zone'[p.name], "ok") PROVE Owned'
  BY <1>6, <1>7, <1>8, <1>9
<1>10. ASSUME NEW err \in {"temp", "perm"}, AfterZone(0, err),
              w.side = "r" => w.prev.ip \in {None, w.ip} \/ Gone(w.prev.ref["r"].zone, zone')
       PROVE  Owned'
  BY <1>6, <1>7, <1>8, <1>10
<1>11. CASE p.id # 0 /\ zone[p.name] # p.id /\ AfterZone(0, "temp") /\ UNCHANGED <<zone, minted>>
  <2>1. w.side = "r" => Gone(w.prev.ref["r"].zone, zone)
    BY <1>0, <1>1, <1>2, <1>3, <1>11 DEF Owned
  <2> QED
    BY <1>10, <1>11, <2>1
<1>12. ASSUME NEW err \in {"temp", "perm"}, AfterZone(0, err), Fail PROVE Owned'
  <2>1. w.prev.ip \in {None, w.ip}
    BY <1>1, <1>12 DEF Smooth
  <2> QED
    BY <1>10, <1>12, <2>1
<1>13. CASE /\ zone' = [zone EXCEPT ![p.name] = minted + 1] /\ AfterZone(minted + 1, "ok")
  <2>1. zone'[p.name] = minted + 1
    BY <1>0, <1>3, <1>13 DEF Typed
  <2> QED
    BY <1>9, <1>13, <2>1
<1>14. CASE AfterZone(zone[p.name], "ok") /\ UNCHANGED <<zone, minted>>
  BY <1>9, <1>14
<1> QED
  BY <1>2, <1>11, <1>12, <1>13, <1>14 DEF SideZone

LEMMA MoveOldOwned ==
    ASSUME SettleInv, SyncInv', MoveOld, Smooth
    PROVE  Owned'
<1>0. Typed /\ Typed' /\ Owned /\ Working /\ w \in Work
  BY DEF SettleInv, SyncInv, Typed
<1>1. pc = "move" /\ UNCHANGED <<ipam, zone, minted, rows, settled>> /\ w.side \in Sides /\ w.mode = "upsert"
  BY <1>0 DEF MoveOld, worldVars, Work, Working
<1>2. ZonesTurn /\ Kept \in Refs /\ NoRef \in Refs
  BY <1>0, <1>1, Numbers, RowNumbers, Constants DEF ZonesTurn, Kept, Work
<1>3. CASE pc' = "write" /\ UNCHANGED w
  <2>1. Own(w'.next, zone', minted') /\ Distinct'
    BY <1>0, <1>1, <1>3 DEF Owned, Distinct
  <2>2. pc' \in {"move", "write"} /\ w'.side = "r" => NotForward(w'.zid, zone', minted')
    BY <1>0, <1>1, <1>3 DEF Owned
  <2>3. /\ \A a \in Ids : Own(rows'[a], zone, minted)
        /\ Own(w'.prev, zone, minted) /\ settled' \subseteq Ids
    BY <1>0, <1>1, <1>3 DEF Owned
  <2> QED
    BY <1>0, <1>1, <1>2, <1>3, <2>1, <2>2, <2>3, OwnedKept
<1>4. CASE EndSide(NoRef)
  <2>1. NoRef.zone = 0 /\ NoRef.name = None
    BY DEF NoRef
  <2>2. NotForward(NoRef.zone, zone', minted')
    BY <1>0, <1>1, <2>1, NothingOwned
  <2> QED
    BY <1>1, <1>2, <1>4, <2>1, <2>2, SideOwned
<1>5. CASE EndSide(Kept) /\ (Fail \/ Lose)
  <2>1. pc' # "idle"
    BY <1>0, <1>2, <1>5, SideEnds DEF Work, Sides
  <2>2. w.prev.ip \in {None, w.ip}
    BY <1>1, <1>5, <2>1 DEF Smooth
  <2>3. w.side = "r" => /\ NotForward(Kept.zone, zone', minted')
                        /\ Kept.name \in {None, w.ip} \/ Gone(Kept.zone, zone')
    BY <1>0, <1>2, <2>2, KeptOwned
  <2> QED
    BY <1>1, <1>2, <1>5, <2>3, SideOwned
<1> QED
  BY <1>3, <1>4, <1>5 DEF MoveOld

LEMMA WriteNewOwned ==
    ASSUME SettleInv, SyncInv', WriteNew, Smooth
    PROVE  Owned'
<1>0. Typed /\ Typed' /\ Owned /\ Working /\ w \in Work
  BY DEF SettleInv, SyncInv, Typed
<1>1. pc = "write" /\ UNCHANGED <<ipam, zone, minted, rows, settled>> /\ w.side \in Sides /\ w.mode = "upsert"
  BY <1>0 DEF WriteNew, worldVars, Work, Working
<1>2. ZonesTurn /\ Kept \in Refs /\ NoRef \in Refs
  BY <1>0, <1>1, Numbers, RowNumbers, Constants DEF ZonesTurn, Kept, Work
<1>3. ASSUME w.prev.ip \in {None, w.ip} \/ Gone(w.prev.ref["r"].zone, zone') \/ w.side # "r", EndSide(Kept)
      PROVE  Owned'
  <2>1. w.side = "r" => /\ NotForward(Kept.zone, zone', minted')
                        /\ Kept.name \in {None, w.ip} \/ Gone(Kept.zone, zone')
    BY <1>0, <1>2, <1>3, KeptOwned
  <2> QED
    BY <1>1, <1>2, <1>3, <2>1, SideOwned
<1>4. CASE EndSide([zone |-> w.zid, name |-> Target(w.side)])
  <2>1. PICK ref : ref = [zone |-> w.zid, name |-> Target(w.side)]
    OBVIOUS
  <2>2. ref \in Refs /\ ref.zone = w.zid /\ (w.side = "r" => ref.name = w.ip)
    <3>1. Target(w.side) \in Hosts \cup Ips /\ w.zid \in 0..MaxZones
      BY <1>0, <1>1 DEF Target, Work, Working
    <3> QED
      BY <2>1, <3>1 DEF Refs, Target
  <2>3. w.side = "r" => NotForward(w.zid, zone, minted)
    BY <1>0, <1>1 DEF Owned
  <2>4. EndSide(ref)
    BY <1>4, <2>1
  <2> QED
    BY <1>1, <1>2, <2>2, <2>3, <2>4, SideOwned
<1>5. CASE zone[w.plan[w.side].name] = 0 /\ EndSide(Kept)
  <2>1. ASSUME w.side = "r" PROVE Gone(w.prev.ref["r"].zone, zone')
    <3>1. Planned("r")
      BY <1>0, <1>1 DEF Working
    <3>2. zone'[PtrZone] = 0
      BY <1>1, <1>5, <2>1, <3>1 DEF Planned
    <3>3. NotForward(w.prev.ref["r"].zone, zone', minted')
      BY <1>0, <1>1 DEF Owned, Own
    <3> QED
      BY <3>2, <3>3, GoneUnless
  <2> QED
    BY <1>3, <1>5, <2>1
<1>6. CASE EndSide(Kept) /\ (Fail \/ Lose)
  <2>1. pc' # "idle"
    BY <1>0, <1>2, <1>6, SideEnds DEF Work, Sides
  <2>2. w.prev.ip \in {None, w.ip}
    BY <1>1, <1>6, <2>1 DEF Smooth
  <2> QED
    BY <1>3, <1>6, <2>2
<1>7. CASE EndSide(NoRef)
  <2>1. NoRef.zone = 0 /\ NoRef.name = None
    BY DEF NoRef
  <2>2. NotForward(NoRef.zone, zone', minted')
    BY <1>0, <1>1, <2>1, NothingOwned
  <2> QED
    BY <1>1, <1>2, <1>7, <2>1, <2>2, SideOwned
<1> QED
  BY <1>4, <1>5, <1>6, <1>7 DEF WriteNew

LEMMA SaveOwned ==
    ASSUME SettleInv, SyncInv', Save
    PROVE  Owned'
<1>0. Typed /\ Owned
  BY DEF SettleInv, SyncInv
<1>1. pc = "save" /\ UNCHANGED <<ipam, zone, minted>>
  BY DEF Save, worldVars, dnsVars
<1>2. w.id \in Ids
  BY <1>1 DEF SettleInv, SyncInv, Working
<1>3. rows' = rows \/ rows' = [rows EXCEPT ![w.id] = w.next]
  BY DEF Save
<1>4. /\ \A b \in Ids \ {w.id} : rows'[b] = rows[b]
      /\ rows'[w.id] \in {rows[w.id], w.next}
  BY <1>0, <1>2, <1>3 DEF Typed
<1>5. Own(rows'[w.id], zone, minted)
  BY <1>0, <1>2, <1>4 DEF Owned
<1>6. PICK good : Return(good)
  BY DEF Save
<1> QED
  BY <1>1, <1>4, <1>5, <1>6, ReturnOwned

LEMMA DropOwned ==
    ASSUME SettleInv, SyncInv', Drop
    PROVE  Owned'
<1>0. Typed /\ Owned /\ w \in Work
  BY DEF SettleInv, SyncInv, Typed
<1>1. UNCHANGED <<ipam, zone, minted, rows, settled>>
  BY DEF Drop, worldVars
<1>2. PICK err : IF w.side = "f" THEN pc' = "drop" /\ w' = [w EXCEPT !.side = "r", !.err = err]
                 ELSE pc' = "finish" /\ w' = [w EXCEPT !.err = err]
  BY DEF Drop
<1>3. pc' \in {"drop", "finish"} /\ w'.prev = w.prev /\ w'.next = w.next
  BY <1>0, <1>2 DEF Work
<1> QED
  BY <1>0, <1>1, <1>3, ApartOwned DEF Owned

LEMMA FinishOwned ==
    ASSUME SettleInv, SyncInv', Finish
    PROVE  Owned'
<1>0. Typed /\ Owned
  BY DEF SettleInv, SyncInv
<1>1. pc = "finish" /\ UNCHANGED <<ipam, zone, minted>>
  BY DEF Finish, worldVars, dnsVars
<1>2. w.id \in Ids /\ w.prev \in Rows
  BY <1>0, <1>1 DEF SettleInv, SyncInv, Working, Typed, Work
<1>3. PICK row : row = [w.prev EXCEPT !.ref = IF w.err = "ok" THEN NoRow.ref ELSE @]
  OBVIOUS
<1>4. Own(row, zone, minted)
  <2>1. row.has = w.prev.has /\ row.ip = w.prev.ip /\ row.ref \in {w.prev.ref, NoRow.ref}
    BY <1>2, <1>3 DEF Rows
  <2>2. Own(w.prev, zone, minted) /\ Own(NoRow, zone, minted)
    BY <1>0, NothingOwned DEF Owned
  <2>3. \A s \in Sides : NoRow.ref[s].name = None
    BY DEF NoRow, NoRef
  <2>4. CASE row.ref = w.prev.ref
    BY <2>1, <2>2, <2>4 DEF Own
  <2>5. CASE row.ref = NoRow.ref
    BY <2>1, <2>2, <2>3, <2>5 DEF Own, Sides
  <2> QED
    BY <2>1, <2>4, <2>5
<1>5. rows' = rows \/ rows' = [rows EXCEPT ![w.id] = NoRow] \/ rows' = [rows EXCEPT ![w.id] = row]
  BY <1>3 DEF Finish
<1>6. /\ \A b \in Ids \ {w.id} : rows'[b] = rows[b]
      /\ rows'[w.id] \in {rows[w.id], NoRow, row}
  BY <1>0, <1>2, <1>5 DEF Typed
<1>7. Own(rows'[w.id], zone, minted)
  BY <1>0, <1>2, <1>4, <1>6, NothingOwned DEF Owned
<1>8. PICK good : Return(good)
  BY DEF Finish
<1> QED
  BY <1>1, <1>6, <1>7, <1>8, ReturnOwned

LEMMA RestartOwned ==
    ASSUME SettleInv, SyncInv', Restart
    PROVE  Owned'
<1>0. Typed /\ Owned
  BY DEF SettleInv, SyncInv
<1>1. UNCHANGED <<ipam, zone, minted, rows>> /\ settled' \subseteq settled /\ pc' = "idle" /\ w' = NoWork
  BY DEF Restart, dnsVars
<1>2. w'.prev = NoRow /\ w'.next = NoRow
  BY <1>1 DEF NoWork
<1>3. Own(w'.prev, zone, minted) /\ settled' \subseteq Ids /\ \A a \in Ids : Own(rows'[a], zone, minted)
  BY <1>0, <1>1, <1>2, NothingOwned DEF Owned
<1> QED
  BY <1>1, <1>2, <1>3, ApartOwned

LEMMA ReadZonesOwned ==
    ASSUME SettleInv, SyncInv', ReadZones
    PROVE  Owned'
<1>0. Typed /\ Typed' /\ Owned /\ w \in Work
  BY DEF SettleInv, SyncInv, Typed
<1>1. UNCHANGED <<ipam, zone, minted, rows>> /\ pc = "zones"
  BY DEF ReadZones, worldVars, dnsVars
<1>2. ASSUME NEW good, Return(good) PROVE Owned'
  <2>1. w.id \in Ids
    BY <1>1 DEF SettleInv, SyncInv, Working
  <2>2. Own(rows'[w.id], zone, minted)
    BY <1>0, <1>1, <2>1 DEF Owned
  <2> QED
    BY <1>1, <1>2, <2>2, ReturnOwned
<1>3. CASE /\ pc' = "zone" /\ settled' = settled
           /\ w' = [w EXCEPT !.plan = [s \in Sides |-> Plan(s)], !.side = "f",
                             !.next = [NoRow EXCEPT !.has = TRUE, !.ip = w.ip]]
  <2>1. /\ w'.prev = w.prev /\ w'.next = [NoRow EXCEPT !.has = TRUE, !.ip = w.ip]
        /\ w'.plan = [s \in Sides |-> Plan(s)]
    BY <1>0, <1>3 DEF Work
  <2>2. w'.plan["r"].id = zone'[PtrZone]
    BY <1>1, <2>1 DEF Plan, Sides
  <2>3. Own(w'.next, zone', minted')
    <3>1. w'.next.has /\ w'.next.ref = NoRow.ref
      BY <2>1 DEF NoRow
    <3>2. Own(NoRow, zone, minted) /\ NoRow.ref["r"].name = None
      BY <1>0, NothingOwned DEF NoRow, NoRef, Sides
    <3> QED
      BY <1>1, <3>1, <3>2 DEF Own
  <2>4. ZonesTurn /\ Distinct'
    BY <1>0, <1>1, Numbers DEF ZonesTurn, Owned, Distinct
  <2>5. /\ \A a \in Ids : Own(rows'[a], zone, minted)
        /\ Own(w'.prev, zone, minted) /\ settled' \subseteq Ids
    BY <1>0, <1>1, <1>3, <2>1 DEF Owned
  <2> QED
    BY <1>0, <1>3, <2>2, <2>3, <2>4, <2>5, OwnedKept
<1> QED
  BY <1>2, <1>3 DEF ReadZones

-----------------------------------------------------------------------------
(* What was settled stays so.                                              *)

LEMMA ForwardIs ==
    /\ Live \cap ForwardZones = Forward(zone)
    /\ (Live \cap ForwardZones)' = Forward(zone')
  BY DEF Live, Forward, ZoneNames

\* Nothing is done at the records of an address.
LEMMA StaysUntouched ==
    ASSUME NEW a \in Ids, Untouched(a), ipam'[a] = ipam[a], rows'[a] = rows[a],
           hurt \subseteq hurt', Hosted(ipam[a]) => zone' = zone,
           ipam[a].live => /\ {r \in fwd' : r.ip = ipam[a].ip} = {r \in fwd : r.ip = ipam[a].ip}
                           /\ ptr'[ipam[a].ip] = ptr[ipam[a].ip]
                           /\ Alone(a)'
    PROVE  Untouched(a)'
<1>1. Match(ipam[a], rows[a], zone, fwd, ptr) => Match(ipam'[a], rows'[a], zone', fwd', ptr')
  <2>1. CASE ~Hosted(ipam[a])
    BY <2>1 DEF Match
  <2>2. CASE Hosted(ipam[a])
    <3>1. PICK rec : rec = [zone |-> ZoneFor(ipam[a].host, zone), host |-> ipam[a].host, ip |-> ipam[a].ip]
      OBVIOUS
    <3>2. rec \in fwd => rec \in fwd'
      <4>1. rec.ip = ipam[a].ip /\ {r \in fwd' : r.ip = ipam[a].ip} = {r \in fwd : r.ip = ipam[a].ip}
        BY <2>2, <3>1 DEF Hosted
      <4> QED
        BY <4>1
    <3>3. zone' = zone /\ ptr'[ipam[a].ip] = ptr[ipam[a].ip]
      BY <2>2 DEF Hosted
    <3> QED
      BY <2>2, <3>1, <3>2, <3>3 DEF Match
  <2> QED
    BY <2>1, <2>2
<1>2. InSync(a) => InSync(a)'
  <2>1. CASE ~ipam[a].live
    BY <2>1 DEF InSync
  <2>2. CASE ipam[a].live /\ ipam[a].host = None
    BY <2>2 DEF InSync
  <2>3. CASE Hosted(ipam[a])
    <3>1. zone' = zone /\ ipam[a].live
      BY <2>3 DEF Hosted
    <3>2. (Live \cap ForwardZones)' = Live \cap ForwardZones
      BY <3>1, ForwardIs
    <3> QED
      BY <3>1, <3>2 DEF InSync, Live
  <2> QED
    BY <2>1, <2>2, <2>3 DEF Hosted
<1> QED
  BY <1>1, <1>2 DEF Untouched

\* removeValue and removeSet leave the records of other addresses.
LEMMA RemovedOthers ==
    ASSUME SettleInv, NEW s \in Sides, RemoveRecord(s, w.prev), NEW i \in Ips, i # w.prev.ip
    PROVE  {r \in fwd' : r.ip = i} = {r \in fwd : r.ip = i} /\ ptr'[i] = ptr[i]
<1>0. Typed /\ Own(w.prev, zone, minted) /\ i # None
  BY Constants DEF SettleInv, SyncInv, Owned
<1>1. PICK at : at = {z \in Live : zone[z] = w.prev.ref[s].zone}
  OBVIOUS
<1>2. CASE s = "f"
  <2>1. /\ fwd' = {r \in fwd : ~(r.zone \in at /\ r.host = w.prev.ref[s].name /\ r.ip = w.prev.ip)}
        /\ ptr' = ptr
    BY <1>1, <1>2 DEF RemoveRecord
  <2> QED
    BY <2>1
<1>3. CASE s = "r"
  <2>1. fwd' = fwd /\ ptr' = IF at = {} THEN ptr ELSE [ptr EXCEPT ![w.prev.ref["r"].name] = None]
    BY <1>1, <1>3 DEF RemoveRecord
  <2>2. CASE w.prev.ref["r"].name \in {None, w.prev.ip}
    BY <1>0, <2>1, <2>2 DEF Typed
  <2>3. CASE Gone(w.prev.ref["r"].zone, zone)
    <3>1. at = {}
      BY <1>1, <1>3, <2>3 DEF Gone, Live
    <3> QED
      BY <2>1, <3>1
  <2> QED
    BY <1>0, <2>2, <2>3 DEF Own
<1> QED
  BY <1>2, <1>3 DEF Sides

\* Once a handling is over, an address whose row refers to its records, and
\* whose IP is in no other row, is in sync: all records are accounted for.
LEMMA OnlyMine ==
    ASSUME SyncInv', LongestExists, pc' = "idle", NEW a \in Ids, ipam'[a].live,
           \A b \in Ids \ {a} : ~(rows'[b].has /\ rows'[b].ip = ipam'[a].ip),
           Match(ipam'[a], rows'[a], zone', fwd', ptr'),
           ipam'[a].ip \notin hurt'
    PROVE  InSync(a)'
<1>0. Typed' /\ Zoned' /\ Booked'
  BY DEF SyncInv
<1>1. PICK d, i : d = ipam'[a] /\ i = d.ip
  OBVIOUS
<1>2. i \in Ips /\ d.live /\ d.host \in Hosts \cup {None}
  BY <1>0, <1>1 DEF Typed
<1>3. ASSUME NEW s \in Sides, NEW z \in ZoneNames, NEW n \in Hosts \cup Ips, Rec(s, z, n, i)'
      PROVE  rows'[a].ref[s] = [zone |-> zone'[z], name |-> n]
  <2>1. Known(s, z, n, i)'
    BY <1>0, <1>2, <1>3 DEF Booked
  <2>2. PICK b \in Ids : Knows(rows[b], s, z, n, i)'
    BY <1>1, <2>1 DEF Known
  <2>3. /\ rows'[b].has /\ rows'[b].ip = i
        /\ rows'[b].ref[s] = [zone |-> zone'[z], name |-> n]
    BY <2>2 DEF Knows
  <2>4. b = a
    BY <1>1, <2>3
  <2> QED
    BY <2>3, <2>4
<1>4. ASSUME NEW r \in fwd', r.ip = i
      PROVE  /\ r = [zone |-> r.zone, host |-> r.host, ip |-> i]
             /\ r.zone \in ForwardZones /\ r.host \in Hosts /\ zone'[r.zone] # 0
             /\ rows'[a].ref["f"] = [zone |-> zone'[r.zone], name |-> r.host]
  <2>1. /\ r = [zone |-> r.zone, host |-> r.host, ip |-> r.ip]
        /\ r.zone \in ForwardZones /\ r.host \in Hosts
    BY <1>0 DEF Typed
  <2>2. Rec("f", r.zone, r.host, i)'
    BY <1>4, <2>1 DEF Rec
  <2>3. zone'[r.zone] # 0
    BY <1>0 DEF Zoned
  <2> QED
    BY <1>3, <1>4, <2>1, <2>2, <2>3 DEF Sides, ZoneNames
<1>5. ASSUME ptr'[i] # None PROVE rows'[a].ref["r"].name = i
  <2>1. Rec("r", PtrZone, i, i)'
    BY <1>5 DEF Rec
  <2>2. rows'[a].ref["r"] = [zone |-> zone'[PtrZone], name |-> i]
    BY <1>2, <1>3, <2>1 DEF Sides, ZoneNames
  <2> QED
    BY <2>2
<1>6. CASE ~Hosted(d)
  <2>1. \A s \in Sides : rows'[a].ref[s].name = None
    BY <1>1, <1>6 DEF Match
  <2>2. {r \in fwd' : r.ip = i} = {}
    <3> SUFFICES ASSUME NEW r \in fwd', r.ip = i PROVE FALSE
      OBVIOUS
    <3>1. rows'[a].ref["f"] = [zone |-> zone'[r.zone], name |-> r.host] /\ r.host # None
      BY <1>4, Constants
    <3>2. rows'[a].ref["f"].name = r.host
      BY <3>1
    <3> QED
      BY <2>1, <3>1, <3>2 DEF Sides
  <2>3. ptr'[i] = None
    BY <1>2, <1>5, <2>1, Constants DEF Sides
  <2> QED
    BY <1>1, <1>2, <1>6, <2>2, <2>3 DEF InSync, Hosted
<1>7. CASE Hosted(d)
  <2>1. PICK y : y = ZoneFor(d.host, zone')
    OBVIOUS
  <2>2. /\ Forward(zone') # {} /\ ptr'[i] = d.host
        /\ [zone |-> y, host |-> d.host, ip |-> i] \in fwd'
        /\ rows'[a].ref["f"] = [zone |-> zone'[y], name |-> d.host]
    BY <1>1, <1>7, <2>1 DEF Match
  <2>3. d.host \in Hosts /\ y \in Forward(zone')
    <3>1. d.host \in Hosts /\ Forward(zone') \in SUBSET ForwardZones
      BY <1>2, <1>7 DEF Hosted, Forward
    <3> QED
      BY <2>1, <2>2, <3>1 DEF LongestExists, ZoneFor
  <2>4. ASSUME NEW r \in fwd', r.ip = i PROVE r = [zone |-> y, host |-> d.host, ip |-> i]
    <3>1. /\ [zone |-> zone'[r.zone], name |-> r.host] = [zone |-> zone'[y], name |-> d.host]
          /\ zone'[r.zone] # 0
      BY <1>4, <2>2, <2>4
    <3>2. r.host = d.host /\ zone'[r.zone] = zone'[y]
      BY <3>1
    <3>3. r.zone = y
      BY <1>0, <1>4, <2>3, <2>4, <3>1, <3>2 DEF Zoned, Forward, ZoneNames
    <3> QED
      BY <1>4, <2>4, <3>2, <3>3
  <2>5. {r \in fwd' : r.ip = i} = {[zone |-> y, host |-> d.host, ip |-> i]}
    BY <2>2, <2>4
  <2>6. /\ (Live \cap ForwardZones)' # {}
        /\ y = LongestZone((Live \cap ForwardZones)', d.host)
    BY <2>1, <2>2, ForwardIs DEF ZoneFor
  <2> QED
    BY <1>1, <1>7, <2>2, <2>5, <2>6 DEF InSync, Hosted
<1> QED
  BY <1>6, <1>7

\* Handle returns.
LEMMA ReturnSettled ==
    ASSUME SettleInv, SyncInv', LongestExists, pc # "idle", NEW good, Return(good),
           UNCHANGED <<ipam, zone, minted, fwd, ptr>>, hurt \subseteq hurt',
           \A b \in Ids \ {w.id} : rows'[b] = rows[b],
           rows'[w.id].ip \in {rows[w.id].ip, w.prev.ip, w.ip, None},
           good /\ calm => Match(ipam[w.id], rows'[w.id], zone, fwd, ptr)
    PROVE  Calm' /\ Settling'
<1>0. Typed /\ Owned /\ w.id \in Ids /\ Settling
  BY DEF SettleInv, SyncInv, Working
<1>1. /\ pc' = "idle" /\ w' = NoWork
      /\ settled' = IF good /\ calm /\ ~Shared(w.id) THEN settled \cup {w.id} ELSE settled \ {w.id}
  BY DEF Return
<1>2. w'.prev.ip = None /\ w'.ip = None
  BY <1>1 DEF NoWork, NoRow
<1>3. ASSUME NEW a \in Ids, ipam[a].live PROVE ipam[a].ip \in Ips /\ ipam[a].ip # None
  BY <1>0, <1>3, Constants DEF Typed
<1>4. ASSUME NEW a \in settled, a # w.id PROVE Untouched(a)'
  <2>1. a \in Ids /\ Untouched(a)
    BY <1>0, <1>4 DEF Owned, Settling
  <2>2. ASSUME ipam[a].live PROVE Alone(a)'
    <3>1. Alone(a) /\ ipam[a].ip # None
      BY <1>3, <2>1, <2>2 DEF Untouched
    <3>2. \A b \in Ids \ {a} : rows'[b].ip # ipam[a].ip
      BY <1>0, <1>4, <3>1 DEF Alone
    <3> QED
      BY <1>1, <1>2, <3>1, <3>2 DEF Alone
  <2> QED
    BY <1>4, <2>1, <2>2, StaysUntouched
<1>5. ASSUME NEW a \in Ids, a = w.id, good, calm, ~Shared(a) PROVE Untouched(a)'
  <2>2. Match(ipam'[a], rows'[a], zone', fwd', ptr')
    BY <1>5
  <2>3. ASSUME ipam[a].live PROVE Alone(a)' /\ (ipam'[a].ip \in hurt' \/ InSync(a)')
    <3>1. \A b \in Ids \ {a} : ~(rows'[b].has /\ rows'[b].ip = ipam'[a].ip)
      BY <1>5 DEF Shared
    <3>2. \A b \in Ids \ {a} : rows'[b].ip # ipam[a].ip
      <4> SUFFICES ASSUME NEW b \in Ids \ {a} PROVE rows'[b].ip # ipam[a].ip
        OBVIOUS
      <4>1. rows'[b] = rows[b] /\ (rows[b].has \/ rows[b].ip = None)
        BY <1>0, <1>5 DEF Owned, Own
      <4> QED
        BY <1>3, <2>3, <3>1, <4>1
    <3>3. Alone(a)'
      BY <1>1, <1>2, <1>3, <2>3, <3>2 DEF Alone
    <3> QED
      BY <1>1, <2>2, <2>3, <3>1, <3>3, OnlyMine
  <2>4. ~ipam[a].live => InSync(a)'
    BY DEF InSync
  <2> QED
    BY <2>2, <2>3, <2>4 DEF Untouched
<1>6. Settling'
  <2> SUFFICES ASSUME NEW a \in settled' PROVE Untouched(a)'
    BY <1>1 DEF Settling
  <2> QED
    BY <1>0, <1>1, <1>4, <1>5
<1> QED
  BY <1>1, <1>6 DEF Calm

\* IPAM changes other addresses, or nothing happens.
LEMMA WorldSettled ==
    ASSUME SettleInv, UNCHANGED <<zone, minted, fwd, ptr, rows, pc, w, hurt>>,
           settled' \subseteq settled, calm' => calm,
           \A a \in settled' : ipam'[a] = ipam[a],
           calm' /\ pc # "idle" => ipam'[w.id] = ipam[w.id]
    PROVE  Calm' /\ Settling'
<1>1. Calm'
  <2>1. CASE calm' /\ pc # "idle"
    <3>1. calm /\ ipam'[w.id] = ipam[w.id] /\ Calm
      BY <2>1 DEF SettleInv
    <3>2. Done' = Done /\ Read(ipam[w.id])' = Read(ipam[w.id])
      BY <3>1 DEF Done, Read
    <3> QED
      BY <2>1, <3>1, <3>2 DEF Calm
  <2>2. CASE ~(calm' /\ pc # "idle")
    BY <2>2 DEF Calm
  <2> QED
    BY <2>1, <2>2
<1>2. ASSUME NEW a \in settled' PROVE IF pc # "idle" /\ w.id = a THEN Again(a)' ELSE Untouched(a)'
  <2>1. a \in settled /\ ipam'[a] = ipam[a] /\ a \in Ids
    BY <1>2 DEF SettleInv, Owned
  <2>2. CASE pc # "idle" /\ w.id = a
    <3>1. Again(a)
      BY <2>1, <2>2 DEF SettleInv, Settling
    <3>2. Read(ipam[a])' = Read(ipam[a])
      BY <2>1 DEF Read
    <3> QED
      BY <2>1, <2>2, <3>1, <3>2 DEF Again
  <2>3. CASE ~(pc # "idle" /\ w.id = a)
    <3>1. Untouched(a)
      BY <2>1, <2>3 DEF SettleInv, Settling
    <3>2. ipam[a].live => Alone(a)'
      BY <2>1, <3>1 DEF Untouched, Alone
    <3>3. Untouched(a)'
      BY <2>1, <3>1, <3>2, StaysUntouched
    <3> QED
      BY <2>3, <3>3
  <2> QED
    BY <2>2, <2>3
<1> QED
  BY <1>1, <1>2 DEF Settling

LEMMA IpamSettled ==
    ASSUME SettleInv, NEW a \in setting.ids, Announce(a) \/ \E new \in Answers : Change(a, new)
    PROVE  Calm' /\ Settling'
<1>1. UNCHANGED <<zone, minted, fwd, ptr, rows, pc, w, hurt>>
  BY DEF Announce, Change, dnsVars, histVars
<1>2. CASE Announce(a)
  BY <1>1, <1>2, WorldSettled DEF Announce, histVars
<1>3. ASSUME NEW new \in Answers, Change(a, new) PROVE Calm' /\ Settling'
  <2>1. ipam' = [ipam EXCEPT ![a] = new] /\ calm' = (calm /\ w.id # a) /\ settled' = settled \ {a}
    BY <1>3 DEF Change
  <2>2. /\ settled \subseteq Ids /\ (pc # "idle" => w.id \in Ids)
        /\ \A b \in Ids \ {a} : ipam'[b] = ipam[b]
    BY <2>1 DEF SettleInv, SyncInv, Typed, Working, Owned
  <2> QED
    BY <1>1, <2>1, <2>2, WorldSettled
<1> QED
  BY <1>2, <1>3

LEMMA ZonesSettled ==
    ASSUME NEW y \in ZoneNames, CreateZone(y) \/ DeleteZone(y)
    PROVE  Calm' /\ Settling'
<1>1. calm' = FALSE /\ settled' = {}
  BY DEF CreateZone, DeleteZone, ZonesChanged
<1> QED
  BY <1>1 DEF Calm, Settling

LEMMA TakeSettled ==
    ASSUME SettleInv, NEW k \in Arrived, Take(k)
    PROVE  Calm' /\ Settling'
<1>0. Typed /\ Owned /\ Settling /\ Calm
  BY DEF SettleInv, SyncInv
<1>1. events[k] \in Ids
  BY <1>0 DEF Arrived, Typed
<1>2. UNCHANGED <<ipam, zone, minted, fwd, ptr, rows, settled, hurt>> /\ pc = "idle"
  BY DEF Take, dnsVars
<1>3. CASE UNCHANGED <<pc, w>> /\ Fail
  <2>1. calm' = FALSE
    BY <1>3 DEF Fail
  <2> QED
    BY <1>2, <1>3, <2>1, WorldSettled
<1>4. CASE pc' = "addr" /\ w' = [NoWork EXCEPT !.id = events[k], !.prev = rows[events[k]]]
  <2>1. w'.id = events[k] /\ w'.prev = rows[events[k]] /\ w'.ip = None
    BY <1>4 DEF NoWork
  <2>2. Calm'
    BY <1>2, <1>4, <2>1 DEF Calm
  <2>3. ASSUME NEW a \in settled PROVE IF w'.id = a THEN Again(a)' ELSE Untouched(a)'
    <3>1. Untouched(a) /\ a \in Ids
      BY <1>0, <1>2 DEF Settling, Owned
    <3>2. CASE w'.id = a
      <4>1. Match(ipam'[a], w'.prev, zone', fwd', ptr')
        BY <1>2, <2>1, <3>1, <3>2 DEF Untouched
      <4> QED
        BY <1>4, <3>2, <4>1 DEF Again
    <3>3. CASE w'.id # a
      <4>1. ASSUME ipam[a].live PROVE Alone(a)'
        <5>1. Alone(a) /\ ipam[a].ip # None
          BY <1>0, <3>1, <4>1, Constants DEF Untouched, Typed
        <5>2. w'.prev.ip # ipam[a].ip
          BY <1>1, <2>1, <3>3, <5>1 DEF Alone
        <5> QED
          BY <1>2, <1>4, <2>1, <5>1, <5>2 DEF Alone
      <4>2. Untouched(a)'
        BY <1>2, <3>1, <4>1, StaysUntouched
      <4> QED
        BY <3>3, <4>2
    <3> QED
      BY <3>2, <3>3
  <2> QED
    BY <1>2, <1>4, <2>2, <2>3 DEF Settling
<1> QED
  BY <1>3, <1>4 DEF Take

\* A handling goes on, and does nothing at the IPs of other addresses.
LEMMA OnSettled ==
    ASSUME SettleInv, pc # "idle", pc' # "idle", w'.id = w.id, w'.prev = w.prev,
           UNCHANGED <<ipam, rows, settled>>, hurt \subseteq hurt',
           \A a \in settled : a = w.id => Again(a)',
           \A a \in settled : a # w.id /\ ipam[a].live =>
               /\ w'.ip # ipam[a].ip
               /\ {r \in fwd' : r.ip = ipam[a].ip} = {r \in fwd : r.ip = ipam[a].ip}
               /\ ptr'[ipam[a].ip] = ptr[ipam[a].ip]
               /\ Hosted(ipam[a]) => /\ zone' = zone
                                     /\ pc' = "zone" /\ w'.side = "f" => w'.plan["f"].id # 0
    PROVE  Settling'
<1> SUFFICES ASSUME NEW a \in settled, a # w.id PROVE Untouched(a)'
  BY DEF Settling
<1>1. Untouched(a) /\ a \in Ids
  BY DEF SettleInv, Settling, Owned
<1>2. ipam[a].live => Alone(a)'
  BY <1>1 DEF Untouched, Alone
<1> QED
  BY <1>1, <1>2, StaysUntouched DEF Hosted

\* What holds of another address while a handling is under way.
LEMMA Aside ==
    ASSUME SettleInv, pc # "idle", NEW a \in settled, a # w.id, ipam[a].live
    PROVE  /\ a \in Ids /\ ipam[a].ip \in Ips /\ w.prev.ip # ipam[a].ip /\ w.ip # ipam[a].ip
           /\ Hosted(ipam[a]) => /\ Forward(zone) # {}
                                 /\ zone[PtrZone] # 0
                                 /\ pc = "zone" /\ w.side = "f" => w.plan["f"].id # 0
<1>1. Untouched(a) /\ a \in Ids
  BY DEF SettleInv, Settling, Owned
<1>2. Alone(a) /\ ipam[a].ip \in Ips
  BY <1>1 DEF Untouched, SettleInv, SyncInv, Typed
<1>3. Hosted(ipam[a]) => ptr[ipam[a].ip] # None /\ Forward(zone) # {}
  BY <1>1 DEF Untouched, Match, Hosted
<1>4. Hosted(ipam[a]) => zone[PtrZone] # 0
  BY <1>2, <1>3 DEF SettleInv, SyncInv, Zoned
<1> QED
  BY <1>1, <1>2, <1>3, <1>4 DEF Alone

LEMMA ReadAddressSettled ==
    ASSUME SettleInv, SyncInv', LongestExists, ReadAddress
    PROVE  Calm' /\ Settling'
<1>0. Typed /\ Owned /\ Calm /\ Settling /\ w \in Work
  BY DEF SettleInv, SyncInv, Typed
<1>1. pc = "addr" /\ UNCHANGED <<ipam, zone, minted, fwd, ptr, rows, hurt>>
  BY DEF ReadAddress, worldVars, dnsVars
<1>2. w.id \in Ids
  BY <1>1 DEF SettleInv, SyncInv, Working
<1>3. CASE /\ Hosted(ipam[w.id]) /\ pc' = "zones"
           /\ w' = [w EXCEPT !.mode = "upsert", !.ip = ipam[w.id].ip, !.host = ipam[w.id].host]
           /\ Fine /\ UNCHANGED settled
  <2>1. /\ w'.id = w.id /\ w'.prev = w.prev /\ w'.ip = ipam[w.id].ip /\ w'.host = ipam[w.id].host
        /\ calm' = calm
    BY <1>0, <1>3 DEF Work, Fine
  <2>2. Calm'
    BY <1>0, <1>1, <1>3, <2>1 DEF Calm, Read
  <2>3. ASSUME NEW a \in settled, a = w.id PROVE Again(a)'
    <3>1. Match(ipam[a], w.prev, zone, fwd, ptr)
      BY <1>0, <1>1, <2>3 DEF Settling, Again
    <3> QED
      BY <1>1, <1>3, <2>1, <2>3, <3>1 DEF Again, Read
  <2>4. ASSUME NEW a \in settled, a # w.id, ipam[a].live PROVE w'.ip # ipam[a].ip
    BY <1>0, <1>2, <1>3, <2>1, <2>4 DEF Owned, Distinct, Hosted
  <2>5. Settling'
    BY <1>1, <1>3, <2>1, <2>3, <2>4, OnSettled
  <2> QED
    BY <2>2, <2>5
<1>4. CASE /\ ~Hosted(ipam[w.id]) /\ pc' = "drop" /\ Fine /\ UNCHANGED settled
           /\ w' = [w EXCEPT !.mode = IF ipam[w.id].live THEN "clear" ELSE "release"]
  <2>1. /\ w'.id = w.id /\ w'.prev = w.prev /\ w'.ip = w.ip /\ calm' = calm
        /\ w'.mode = IF ipam[w.id].live THEN "clear" ELSE "release"
    BY <1>0, <1>4 DEF Work, Fine
  <2>2. Calm'
    BY <1>0, <1>1, <1>4, <2>1 DEF Calm
  <2>3. ASSUME NEW a \in settled, a = w.id PROVE Again(a)'
    <3>1. Match(ipam[a], w.prev, zone, fwd, ptr)
      BY <1>0, <1>1, <2>3 DEF Settling, Again
    <3> QED
      BY <1>1, <1>4, <2>1, <2>3, <3>1 DEF Again
  <2>4. ASSUME NEW a \in settled, a # w.id, ipam[a].live PROVE w'.ip # ipam[a].ip
    BY <1>1, <2>1, <2>4, Aside
  <2>5. Settling'
    BY <1>1, <1>4, <2>1, <2>3, <2>4, OnSettled
  <2> QED
    BY <2>2, <2>5
<1>5. ASSUME NEW good, Return(good), good => ~Hosted(ipam[w.id]) /\ ~w.prev.has
      PROVE  Calm' /\ Settling'
  <2>1. ASSUME good, calm PROVE Match(ipam[w.id], rows'[w.id], zone, fwd, ptr)
    <3>1. rows'[w.id] = w.prev
      BY <1>0, <1>1, <2>1 DEF Calm
    <3>2. \A s \in Sides : w.prev.ref[s].name = None
      BY <1>0, <1>5, <2>1 DEF Owned, Own
    <3> QED
      BY <1>5, <2>1, <3>1, <3>2 DEF Match
  <2> QED
    BY <1>1, <1>5, <2>1, ReturnSettled
<1> QED
  BY <1>3, <1>4, <1>5 DEF ReadAddress, Hosted

\* PlanForward and PlanReverse.
LEMMA PlanIs ==
    ASSUME w.host \in Hosts
    PROVE  Plan("f") = Best(w.host, zone) /\ Plan("r") = Reverse(zone)
<1>1. Containing(Live \cap ForwardZones, w.host) = Forward(zone)
  <2>1. Live \cap ForwardZones = Forward(zone)
    BY ForwardIs
  <2>2. \A z \in Forward(zone) : InZone(w.host, z)
    BY SyncConstants DEF Forward
  <2> QED
    BY <2>1, <2>2 DEF Containing
<1> QED
  BY <1>1 DEF Plan, Best, ZoneFor, Reverse

\* The zone PlanForward finds is there.
LEMMA BestThere ==
    ASSUME LongestExists, NEW zn, NEW h \in Hosts, Forward(zn) # {}
    PROVE  ZoneFor(h, zn) \in Forward(zn) /\ zn[ZoneFor(h, zn)] # 0
<1>1. Forward(zn) \in SUBSET ForwardZones
  BY DEF Forward
<1>2. ZoneFor(h, zn) \in Forward(zn)
  BY <1>1 DEF LongestExists, ZoneFor
<1> QED
  BY <1>2 DEF Forward

LEMMA ReadZonesSettled ==
    ASSUME SettleInv, SyncInv', LongestExists, ReadZones
    PROVE  Calm' /\ Settling'
<1>0. Typed /\ Owned /\ Calm /\ Settling /\ w \in Work
  BY DEF SettleInv, SyncInv, Typed
<1>1. pc = "zones" /\ UNCHANGED <<ipam, zone, minted, fwd, ptr, rows, hurt>>
  BY DEF ReadZones, worldVars, dnsVars
<1>2. w.id \in Ids /\ w.host \in Hosts
  BY <1>1 DEF SettleInv, SyncInv, Working
<1>3. CASE /\ pc' = "zone" /\ Fine /\ UNCHANGED settled
           /\ w' = [w EXCEPT !.plan = [s \in Sides |-> Plan(s)], !.side = "f",
                             !.next = [NoRow EXCEPT !.has = TRUE, !.ip = w.ip]]
  <2>1. /\ w'.id = w.id /\ w'.prev = w.prev /\ w'.ip = w.ip /\ w'.host = w.host /\ w'.side = "f"
        /\ calm' = calm /\ w'.plan = [s \in Sides |-> Plan(s)]
    BY <1>0, <1>3 DEF Work, Fine
  <2>2. w'.plan["f"] = Best(w.host, zone) /\ w'.plan["r"] = Reverse(zone)
    BY <1>2, <2>1, PlanIs DEF Sides
  <2>3. Calm'
    BY <1>0, <1>1, <1>3, <2>1, <2>2 DEF Calm, Read
  <2>4. ASSUME NEW a \in settled, a = w.id PROVE Again(a)'
    <3>1. Match(ipam[a], w.prev, zone, fwd, ptr) /\ Read(ipam[a])
      BY <1>0, <1>1, <2>4 DEF Settling, Again
    <3> QED
      BY <1>1, <1>3, <2>1, <2>2, <2>4, <3>1 DEF Again, Read
  <2>5. ASSUME NEW a \in settled, a # w.id, ipam[a].live
        PROVE  w'.ip # ipam[a].ip /\ (Hosted(ipam[a]) => w'.plan["f"].id # 0)
    <3>1. w.ip # ipam[a].ip /\ (Hosted(ipam[a]) => Forward(zone) # {})
      BY <1>1, <2>5, Aside
    <3>2. Forward(zone) # {} => Best(w.host, zone).id # 0
      BY <1>2, BestThere DEF Best
    <3> QED
      BY <2>1, <2>2, <3>1, <3>2
  <2>6. Settling'
    BY <1>1, <1>3, <2>1, <2>4, <2>5, OnSettled
  <2> QED
    BY <2>3, <2>6
<1>4. CASE Return(FALSE)
  BY <1>1, <1>4, ReturnSettled
<1> QED
  BY <1>3, <1>4 DEF ReadZones

\* What SideZone comes to: the zone is found, created, or not to be had.
LEMMA SideZoneCases ==
    ASSUME SettleInv, SideZone, NEW p, p = w.plan[w.side]
    PROVE  /\ pc = "zone" /\ UNCHANGED <<ipam, fwd, ptr, rows, settled, hurt>>
           /\ p.name \in ZoneNames /\ (w.side = "f" => p.name \in ForwardZones)
           /\ w.side = "r" => p.name = PtrZone
           /\ \/ /\ zone[p.name] # 0 /\ p.id \in {0, zone[p.name]} /\ calm' = calm
                 /\ AfterZone(zone[p.name], "ok") /\ zone' = zone
              \/ /\ p.id = 0 /\ zone[p.name] = 0 /\ minted + 1 # 0 /\ calm' = calm
                 /\ zone' = [zone EXCEPT ![p.name] = minted + 1]
                 /\ AfterZone(minted + 1, "ok")
              \/ /\ p.id # 0 => AfterZone(0, "temp")
                 /\ p.id = 0 => AfterZone(0, "temp") \/ AfterZone(0, "perm")
                 /\ ~calm' \/ (p.id # 0 /\ zone[p.name] # p.id)
                 /\ zone' = zone
<1>0. Typed /\ Working /\ w \in Work
  BY DEF SettleInv, SyncInv, Typed
<1>1. pc = "zone" /\ UNCHANGED <<ipam, fwd, ptr, rows, settled, hurt>>
  BY DEF SideZone, worldVars
<1>2. Planned("f") /\ Planned("r") /\ w.side \in Sides
  BY <1>0, <1>1 DEF Working, Work
<1>3. /\ p.name \in ZoneNames /\ (w.side = "f" => p.name \in ForwardZones)
      /\ w.side = "r" => p.name = PtrZone
  BY <1>2 DEF Planned, Sides, ZoneNames
<1>4. minted + 1 # 0
  BY <1>0, Numbers
<1>5. \/ p.id # 0 /\ zone[p.name] = p.id /\ AfterZone(p.id, "ok") /\ Fine /\ zone' = zone
      \/ p.id # 0 /\ zone[p.name] # p.id /\ AfterZone(0, "temp") /\ Fine /\ zone' = zone
      \/ p.id = 0 /\ zone[p.name] # 0 /\ AfterZone(zone[p.name], "ok") /\ Fine /\ zone' = zone
      \/ /\ p.id = 0 /\ zone[p.name] = 0 /\ zone' = [zone EXCEPT ![p.name] = minted + 1]
         /\ AfterZone(minted + 1, "ok") /\ Fine
      \/ AfterZone(0, "temp") /\ Fail /\ zone' = zone
      \/ p.id = 0 /\ AfterZone(0, "perm") /\ Fail /\ zone' = zone
  BY DEF SideZone
<1>6. (Fine => calm' = calm) /\ (Fail => calm' = FALSE)
  BY DEF Fine, Fail
<1> QED
  BY <1>1, <1>3, <1>4, <1>5, <1>6

\* A zone that is created is the only one, or is no forward zone.
LEMMA ZonesAfter ==
    ASSUME Typed, NEW y \in ZoneNames, zone' = [zone EXCEPT ![y] = minted + 1]
    PROVE  /\ zone'[y] = minted + 1 /\ \A z \in ZoneNames \ {y} : zone'[z] = zone[z]
           /\ y = PtrZone => Forward(zone') = Forward(zone)
           /\ y \in ForwardZones /\ Forward(zone) = {} => Forward(zone') = {y}
<1>1. zone'[y] = minted + 1 /\ \A z \in ZoneNames \ {y} : zone'[z] = zone[z]
  BY DEF Typed
<1>2. minted + 1 # 0
  BY Numbers
<1>3. \A z \in ForwardZones : z \in ZoneNames /\ z # PtrZone
  BY Constants DEF ZoneNames
<1> QED
  BY <1>1, <1>2, <1>3 DEF Forward

\* An undisturbed handling has found or created the zone it should.
LEMMA SideZoneCalm ==
    ASSUME SettleInv, LongestExists, SideZone
    PROVE  Calm'
<1> SUFFICES ASSUME calm', pc' # "idle" PROVE Calm'
  BY DEF Calm
<1>0. Typed /\ Zoned /\ Working /\ Calm /\ w \in Work
  BY DEF SettleInv, SyncInv, Typed
<1>1. PICK p : p = w.plan[w.side]
  OBVIOUS
<1>2. /\ pc = "zone" /\ UNCHANGED <<ipam, fwd, ptr, rows>>
      /\ p.name \in ZoneNames /\ (w.side = "f" => p.name \in ForwardZones)
      /\ w.side = "r" => p.name = PtrZone
  BY <1>1, SideZoneCases
<1>3. w.side \in Sides /\ w.host \in Hosts /\ w.id \in Ids
  BY <1>0, <1>2 DEF Working, Work
<1>4. calm
  BY <1>1, SideZoneCases DEF SideZone, Fine, Fail
<1>5. w.side = "f" => p = Best(w.host, zone)
  BY <1>0, <1>1, <1>2, <1>4 DEF Calm
<1>6. w.plan["r"] = Reverse(zone)
  BY <1>0, <1>2, <1>4 DEF Calm
<1>7. Forward(zone) # {} => ZoneFor(w.host, zone) \in Forward(zone) /\ zone[ZoneFor(w.host, zone)] # 0
  BY <1>3, BestThere
<1>8. p.id # 0 => zone[p.name] = p.id
  <2>1. CASE w.side = "f"
    BY <1>5, <2>1 DEF Best
  <2>2. CASE w.side = "r"
    BY <1>1, <1>6, <2>2 DEF Reverse
  <2> QED
    BY <1>3, <2>1, <2>2 DEF Sides
<1>9. \/ /\ zone[p.name] # 0 /\ AfterZone(zone[p.name], "ok") /\ zone' = zone
      \/ /\ p.id = 0 /\ zone[p.name] = 0 /\ minted + 1 # 0 /\ AfterZone(minted + 1, "ok")
         /\ zone' = [zone EXCEPT ![p.name] = minted + 1]
  BY <1>1, <1>8, SideZoneCases
<1>10. /\ zone'[p.name] # 0 /\ AfterZone(zone'[p.name], "ok")
       /\ \A z \in ZoneNames \ {p.name} : zone'[z] = zone[z]
  BY <1>0, <1>2, <1>9, ZonesAfter
<1>11. pc' \in {"move", "write"} /\ w' = [w EXCEPT !.zid = zone'[p.name], !.err = "ok"]
  BY <1>10 DEF AfterZone
<1>12. /\ w'.id = w.id /\ w'.prev = w.prev /\ w'.ip = w.ip /\ w'.host = w.host /\ w'.plan = w.plan
       /\ w'.side = w.side /\ w'.next = w.next /\ w'.zid = zone'[p.name] /\ w'.err = "ok"
  BY <1>0, <1>11 DEF Work
<1>13. Forward(zone') # {} /\ w.plan["f"].name = ZoneFor(w.host, zone')
  <2>1. CASE w.side = "f" /\ Forward(zone) # {}
    <3>1. p.name = ZoneFor(w.host, zone) /\ p.id # 0
      BY <1>5, <1>7, <2>1 DEF Best
    <3>2. zone' = zone
      BY <1>9, <3>1
    <3> QED
      BY <1>1, <2>1, <3>1, <3>2
  <2>2. CASE w.side = "f" /\ Forward(zone) = {}
    <3>1. zone[p.name] = 0 /\ p.name \in ForwardZones
      BY <1>2, <2>2 DEF Forward
    <3>2. Forward(zone') = {p.name}
      BY <1>0, <1>2, <1>9, <2>2, <3>1, ZonesAfter
    <3>3. ZoneFor(w.host, zone') \in Forward(zone')
      BY <1>3, <3>2, BestThere
    <3> QED
      BY <1>1, <2>2, <3>2, <3>3
  <2>3. CASE w.side = "r"
    <3>1. Forward(zone') = Forward(zone)
      BY <1>0, <1>2, <1>9, <2>3, ZonesAfter
    <3>2. Forward(zone) # {} /\ w.plan["f"].name = ZoneFor(w.host, zone)
      BY <1>0, <1>2, <1>4, <2>3 DEF Calm
    <3> QED
      BY <3>1, <3>2 DEF ZoneFor
  <2> QED
    BY <1>3, <2>1, <2>2, <2>3 DEF Sides
<1>14. w.side = "f" => w.plan["r"] = Reverse(zone')
  <2>1. w.side = "f" => PtrZone \in ZoneNames \ {p.name}
    BY <1>2, Constants DEF ZoneNames
  <2> QED
    BY <1>6, <1>10, <2>1 DEF Reverse
<1>15. ASSUME w.side = "r" PROVE Done'
  <2>1. Done /\ Forward(zone) # {}
    BY <1>0, <1>2, <1>4, <1>15 DEF Calm
  <2>2. Forward(zone') = Forward(zone)
    BY <1>0, <1>2, <1>9, <1>15, ZonesAfter
  <2>3. ZoneFor(w.host, zone') = ZoneFor(w.host, zone)
    BY <2>2 DEF ZoneFor
  <2>4. ZoneFor(w.host, zone) \in ZoneNames \ {p.name}
    BY <1>2, <1>7, <1>15, <2>1, Constants DEF Forward, ZoneNames
  <2>5. zone'[ZoneFor(w.host, zone')] = zone[ZoneFor(w.host, zone)]
    BY <1>10, <2>3, <2>4
  <2> QED
    BY <1>2, <1>12, <2>1, <2>3, <2>5 DEF Done
<1>16. rows'[w'.id] = w'.prev /\ Read(ipam[w.id])'
  BY <1>0, <1>2, <1>4, <1>12 DEF Calm, Read
<1> QED
  BY <1>1, <1>10, <1>11, <1>12, <1>13, <1>14, <1>15, <1>16 DEF Calm

\* An address that is handled again has its zones.
LEMMA AgainZones ==
    ASSUME SettleInv, LongestExists, pc \in {"zone", "write"}, NEW a \in settled, a = w.id
    PROVE  /\ Hosted(ipam[a]) /\ w.ip = ipam[a].ip /\ w.host = ipam[a].host
           /\ w.prev.ip = w.ip /\ w.plan[w.side].id # 0
           /\ zone[w.plan[w.side].name] = w.plan[w.side].id
           /\ w.prev.ref[w.side] = [zone |-> w.plan[w.side].id, name |-> Target(w.side)]
           /\ Target(w.side) # None /\ Already(w.side)
<1>1. Again(a) /\ Typed /\ Zoned /\ Working /\ w.side \in Sides
  BY DEF SettleInv, SyncInv, Settling, Typed, Work
<1>2. Read(ipam[a]) /\ w.host \in Hosts /\ w.ip \in Ips
  BY <1>1 DEF Again, Working
<1>3. /\ Hosted(ipam[a]) /\ w.ip = ipam[a].ip /\ w.host = ipam[a].host
  BY <1>2 DEF Read
<1>4. /\ w.prev.ip = w.ip /\ Forward(zone) # {}
      /\ w.prev.ref["f"] = [zone |-> zone[ZoneFor(w.host, zone)], name |-> w.host]
      /\ w.prev.ref["r"] = [zone |-> zone[PtrZone], name |-> w.ip]
      /\ [zone |-> ZoneFor(w.host, zone), host |-> w.host, ip |-> w.ip] \in fwd
      /\ ptr[w.ip] = w.host
  BY <1>1, <1>3 DEF Again, Match
<1>5. zone[ZoneFor(w.host, zone)] # 0
  BY <1>2, <1>4, BestThere
<1>6. zone[PtrZone] # 0
  BY <1>1, <1>2, <1>4, Constants DEF Zoned
<1>7. w.plan["f"] = Best(w.host, zone) /\ w.plan["r"] = Reverse(zone)
  BY <1>1 DEF Again
<1>8. CASE w.side = "f"
  <2>1. w.plan["f"].name = ZoneFor(w.host, zone) /\ w.plan["f"].id = zone[ZoneFor(w.host, zone)]
    BY <1>4, <1>7 DEF Best
  <2> QED
    BY <1>2, <1>3, <1>4, <1>5, <1>8, <2>1, Constants DEF Target, Already
<1>9. CASE w.side = "r"
  <2>1. w.plan["r"].name = PtrZone /\ w.plan["r"].id = zone[PtrZone]
    BY <1>7 DEF Reverse
  <2> QED
    BY <1>2, <1>3, <1>4, <1>6, <1>9, <2>1, Constants DEF Target, Already
<1> QED
  BY <1>1, <1>8, <1>9 DEF Sides

LEMMA SideZoneSettled ==
    ASSUME SettleInv, SyncInv', LongestExists, SideZone
    PROVE  Calm' /\ Settling'
<1>0. Typed /\ Working /\ w \in Work
  BY DEF SettleInv, SyncInv, Typed
<1>1. PICK p : p = w.plan[w.side]
  OBVIOUS
<1>2. pc = "zone" /\ UNCHANGED <<ipam, fwd, ptr, rows, settled, hurt>> /\ w.side \in Sides
  BY <1>0, <1>1, SideZoneCases DEF Work
<1>3. PICK zid \in 0..MaxZones, err \in {"ok", "temp", "perm"} : AfterZone(zid, err)
  <2>1. zone[p.name] \in 0..MaxZones /\ zone'[p.name] \in 0..MaxZones /\ 0 \in 0..MaxZones
    <3>1. p.name \in ZoneNames
      BY <1>1, SideZoneCases
    <3>2. zone \in [ZoneNames -> 0..MaxZones] /\ zone' \in [ZoneNames -> 0..MaxZones]
      BY DEF SettleInv, SyncInv, Typed
    <3> QED
      BY <3>1, <3>2, SyncConstants
  <2>2. zone' = [zone EXCEPT ![p.name] = minted + 1] => zone'[p.name] = minted + 1
    BY <1>0, <1>1, SideZoneCases, ZonesAfter
  <2> QED
    BY <1>1, <2>1, <2>2, SideZoneCases
<1>4. /\ pc' \in {"zone", "move", "write", "save"} /\ (pc' = "zone" => w'.side = "r")
      /\ w'.id = w.id /\ w'.prev = w.prev /\ w'.ip = w.ip /\ w'.host = w.host /\ w'.plan = w.plan
  <2>1. ASSUME NEW ref \in Refs, EndSide(ref)
        PROVE  /\ pc' \in {"zone", "save"} /\ w'.side = "r" /\ w'.id = w.id /\ w'.prev = w.prev
               /\ w'.ip = w.ip /\ w'.host = w.host /\ w'.plan = w.plan
    BY <1>0, <1>2, <2>1, SideEnds DEF Sides
  <2>2. CASE pc' \in {"move", "write"} /\ w' = [w EXCEPT !.zid = zid, !.err = err]
    BY <1>0, <2>2 DEF Work
  <2>3. Kept \in Refs /\ NoRef \in Refs
    BY <1>0, <1>2, RowNumbers, Constants DEF Kept, Work
  <2> QED
    BY <1>3, <2>1, <2>2, <2>3 DEF AfterZone
<1>5. ASSUME NEW a \in settled, a = w.id PROVE Again(a)'
  <2>1. /\ w.prev.ip = w.ip /\ p.id # 0 /\ zone[p.name] = p.id
        /\ w.prev.ref[w.side] = [zone |-> p.id, name |-> Target(w.side)] /\ Target(w.side) # None
    BY <1>1, <1>2, <1>5, AgainZones
  <2>2. zone' = zone /\ (AfterZone(p.id, "ok") \/ AfterZone(0, "temp"))
    BY <1>1, <2>1, SideZoneCases
  <2>3. ~Moved(p.id, "ok") /\ Moved(0, "temp")
    BY <2>1 DEF Moved
  <2>4. pc' # "move"
    <3>1. CASE AfterZone(p.id, "ok")
      BY <2>3, <3>1 DEF AfterZone
    <3>2. CASE AfterZone(0, "temp")
      BY <2>3, <3>2 DEF AfterZone, EndSide
    <3> QED
      BY <2>2, <3>1, <3>2
  <2>5. Again(a)
    BY <1>2, <1>5 DEF SettleInv, Settling
  <2>6. Match(ipam'[a], w'.prev, zone', fwd', ptr') /\ Read(ipam[a])'
    BY <1>2, <1>4, <2>2, <2>5 DEF Again, Read
  <2>7. w'.plan["f"] = Best(w'.host, zone') /\ w'.plan["r"] = Reverse(zone')
    BY <1>2, <1>4, <2>2, <2>5 DEF Again
  <2> QED
    BY <1>4, <2>4, <2>6, <2>7 DEF Again
<1>6. ASSUME NEW a \in settled, a # w.id, ipam[a].live
      PROVE  w'.ip # ipam[a].ip /\ (Hosted(ipam[a]) => zone' = zone)
  <2>1. /\ w.ip # ipam[a].ip
        /\ Hosted(ipam[a]) => zone[PtrZone] # 0 /\ (w.side = "f" => w.plan["f"].id # 0)
    BY <1>2, <1>6, Aside
  <2>2. Hosted(ipam[a]) => ~(p.id = 0 /\ zone[p.name] = 0)
    BY <1>1, <1>2, <2>1, SideZoneCases DEF Sides
  <2>3. Hosted(ipam[a]) => zone' = zone
    BY <1>1, <2>2, SideZoneCases
  <2> QED
    BY <1>4, <2>1, <2>3
<1>7. Settling'
  BY <1>2, <1>4, <1>5, <1>6, OnSettled
<1> QED
  BY <1>7, SideZoneCalm

LEMMA MoveOldSettled ==
    ASSUME SettleInv, SyncInv', LongestExists, MoveOld
    PROVE  Calm' /\ Settling'
<1>0. Typed /\ Working /\ Calm /\ w \in Work
  BY DEF SettleInv, SyncInv, Typed
<1>1. pc = "move" /\ UNCHANGED <<ipam, zone, rows, settled, hurt>> /\ w.side \in Sides /\ w.id \in Ids
  BY <1>0 DEF MoveOld, worldVars, Work, Working
<1>2. /\ RemoveRecord(w.side, w.prev) \/ UNCHANGED <<fwd, ptr>>
      /\ \/ RemoveRecord(w.side, w.prev) /\ Fine /\ w.err = "ok" /\ pc' = "write" /\ w' = w
         \/ Fine /\ w.err # "ok" /\ EndSide(NoRef)
         \/ EndSide(Kept) /\ calm' = FALSE
  BY DEF MoveOld, Fail, Lose
<1>3. Kept \in Refs /\ NoRef \in Refs
  BY <1>0, <1>1, RowNumbers, Constants DEF Kept, Work
<1>4. /\ pc' \in {"zone", "write", "save"} /\ (pc' = "zone" => w'.side = "r")
      /\ w'.id = w.id /\ w'.prev = w.prev /\ w'.ip = w.ip
  <2>1. ASSUME NEW ref \in Refs, EndSide(ref)
        PROVE  /\ pc' \in {"zone", "save"} /\ w'.side = "r" /\ w'.id = w.id /\ w'.prev = w.prev
               /\ w'.ip = w.ip
    BY <1>0, <1>1, <2>1, SideEnds DEF Sides
  <2> QED
    BY <1>2, <1>3, <2>1
<1>5. ASSUME NEW a \in settled, a = w.id PROVE Again(a)'
  BY <1>1, <1>5 DEF SettleInv, Settling, Again
<1>6. ASSUME NEW a \in settled, a # w.id, ipam[a].live
      PROVE  /\ w'.ip # ipam[a].ip
             /\ {r \in fwd' : r.ip = ipam[a].ip} = {r \in fwd : r.ip = ipam[a].ip}
             /\ ptr'[ipam[a].ip] = ptr[ipam[a].ip]
  <2>1. ipam[a].ip \in Ips /\ ipam[a].ip # w.prev.ip /\ ipam[a].ip # w.ip
    BY <1>1, <1>6, Aside
  <2> QED
    BY <1>1, <1>2, <1>4, <2>1, RemovedOthers
<1>7. Settling'
  BY <1>1, <1>4, <1>5, <1>6, OnSettled
<1>8. ASSUME calm' PROVE Calm'
  <2>1. calm
    BY <1>2, <1>8 DEF Fine
  <2>2. w.err = "ok"
    BY <1>0, <1>1, <2>1 DEF Calm
  <2>3. RemoveRecord(w.side, w.prev) /\ pc' = "write" /\ w' = w
    BY <1>2, <1>8, <2>2
  <2>4. w.side = "r" => fwd' = fwd
    BY <2>3 DEF RemoveRecord
  <2>5. w.side = "r" => Done'
    BY <1>0, <1>1, <2>1, <2>3, <2>4 DEF Calm, Done
  <2>6. Read(ipam[w.id])'
    BY <1>0, <1>1, <2>1, <2>3 DEF Calm, Read
  <2> QED
    BY <1>0, <1>1, <2>1, <2>3, <2>5, <2>6 DEF Calm
<1>9. ~calm' => Calm'
  BY DEF Calm
<1> QED
  BY <1>7, <1>8, <1>9

\* addValue and setPTR leave the records of other addresses, and one that is
\* there as it is.
LEMMA AddedOthers ==
    ASSUME Typed, w.ip \in Ips, NEW s \in Sides, Added(s)
    PROVE  /\ \A i \in Ips \ {w.ip} : {r \in fwd' : r.ip = i} = {r \in fwd : r.ip = i} /\ ptr'[i] = ptr[i]
           /\ Already(s) => UNCHANGED <<fwd, ptr>>
           /\ s = "f" => [zone |-> w.plan["f"].name, host |-> w.host, ip |-> w.ip] \in fwd'
           /\ s = "r" => fwd' = fwd /\ ptr'[w.ip] = w.host
<1>1. CASE s = "f"
  <2>1. PICK rec : rec = [zone |-> w.plan["f"].name, host |-> w.host, ip |-> w.ip]
    OBVIOUS
  <2>2. fwd' = fwd \cup {rec} /\ ptr' = ptr /\ rec.ip = w.ip
    BY <1>1, <2>1 DEF Added
  <2>3. Already(s) => rec \in fwd
    BY <1>1, <2>1 DEF Already
  <2>4. ASSUME NEW i \in Ips \ {w.ip} PROVE {r \in fwd' : r.ip = i} = {r \in fwd : r.ip = i}
    BY <2>2
  <2>5. Already(s) => fwd' = fwd
    BY <2>2, <2>3
  <2> QED
    BY <1>1, <2>1, <2>2, <2>4, <2>5
<1>2. CASE s = "r"
  <2>1. fwd' = fwd /\ ptr' = [ptr EXCEPT ![w.ip] = w.host] /\ ptr \in [Ips -> Hosts \cup {None}]
    BY <1>2 DEF Added, Typed
  <2>2. Already(s) => ptr[w.ip] = w.host
    BY <1>2 DEF Already
  <2>3. Already(s) => ptr' = ptr
    BY <2>1, <2>2
  <2>4. ptr'[w.ip] = w.host /\ \A i \in Ips \ {w.ip} : ptr'[i] = ptr[i]
    BY <2>1
  <2> QED
    BY <1>2, <2>1, <2>3, <2>4
<1> QED
  BY <1>1, <1>2 DEF Sides

\* What WriteNew comes to.
LEMMA WriteNewCases ==
    ASSUME SettleInv, WriteNew
    PROVE  /\ pc = "write" /\ UNCHANGED <<ipam, zone, rows, settled>> /\ hurt \subseteq hurt'
           /\ w.side \in Sides /\ w.id \in Ids /\ w.ip \in Ips /\ w.host \in Hosts
           /\ Added(w.side) \/ UNCHANGED <<fwd, ptr>>
           /\ \/ /\ Added(w.side) /\ calm' = calm
                 /\ EndSide([zone |-> w.zid, name |-> Target(w.side)])
              \/ /\ EndSide(Kept) \/ EndSide(NoRef)
                 /\ ~calm' \/ (calm' = calm /\ zone[w.plan[w.side].name] = 0)
           /\ Kept \in Refs /\ NoRef \in Refs /\ [zone |-> w.zid, name |-> Target(w.side)] \in Refs
<1>0. Typed /\ Working /\ w \in Work
  BY DEF SettleInv, SyncInv, Typed
<1>1. pc = "write" /\ UNCHANGED <<ipam, zone, rows, settled>>
  BY DEF WriteNew, worldVars
<1>2. hurt \subseteq hurt' /\ (Added(w.side) \/ UNCHANGED <<fwd, ptr>>)
  BY DEF WriteNew
<1>3. w.side \in Sides /\ w.id \in Ids /\ w.ip \in Ips /\ w.host \in Hosts
  BY <1>0, <1>1 DEF Work, Working
<1>4. \/ /\ Added(w.side) /\ calm' = calm
         /\ EndSide([zone |-> w.zid, name |-> Target(w.side)])
      \/ /\ EndSide(Kept) \/ EndSide(NoRef)
         /\ ~calm' \/ (calm' = calm /\ zone[w.plan[w.side].name] = 0)
  BY DEF WriteNew, Fine, Fail, Lose
<1>5. Kept \in Refs /\ NoRef \in Refs
  BY <1>0, <1>3, RowNumbers, Constants DEF Kept, Work
<1>6. [zone |-> w.zid, name |-> Target(w.side)] \in Refs
  BY <1>0, <1>3 DEF Target, Work, Refs
<1> QED
  BY <1>1, <1>2, <1>3, <1>4, <1>5, <1>6

LEMMA WriteNewCalm ==
    ASSUME SettleInv, LongestExists, WriteNew
    PROVE  Calm'
<1> SUFFICES ASSUME calm' PROVE Calm'
  BY DEF Calm
<1>0. Typed /\ Working /\ Calm /\ w \in Work
  BY DEF SettleInv, SyncInv, Typed
<1>1. /\ pc = "write" /\ UNCHANGED <<ipam, zone, rows, settled>> /\ calm
      /\ w.side \in Sides /\ w.id \in Ids /\ w.ip \in Ips /\ w.host \in Hosts
  BY WriteNewCases
<1>2. zone[w.plan[w.side].name] = w.zid /\ w.zid # 0
  BY <1>0, <1>1 DEF Calm
<1>3. PICK ref \in Refs : ref = [zone |-> w.zid, name |-> Target(w.side)]
  BY WriteNewCases
<1>4. Added(w.side) /\ EndSide(ref)
  BY <1>2, <1>3, WriteNewCases
<1>5. /\ w'.id = w.id /\ w'.prev = w.prev /\ w'.ip = w.ip /\ w'.host = w.host /\ w'.plan = w.plan
      /\ w'.next.ref[w.side] = ref
      /\ \A s \in Sides \ {w.side} : w'.next.ref[s] = w.next.ref[s]
      /\ w.side = "f" => pc' = "zone" /\ w'.side = "r"
      /\ w.side = "r" => pc' = "save" /\ w'.side = "r"
  BY <1>0, <1>4, SideEnds
<1>6. rows'[w'.id] = w'.prev /\ Read(ipam[w.id])'
  BY <1>0, <1>1, <1>5 DEF Calm, Read
<1>7. Forward(zone') # {} /\ w'.plan["f"].name = ZoneFor(w'.host, zone')
  BY <1>0, <1>1, <1>5 DEF Calm
<1>8. CASE w.side = "f"
  <2>1. [zone |-> w.plan["f"].name, host |-> w.host, ip |-> w.ip] \in fwd'
    BY <1>0, <1>1, <1>4, <1>8, AddedOthers
  <2>2. ref = [zone |-> zone[w.plan["f"].name], name |-> w.host]
    BY <1>2, <1>3, <1>8 DEF Target
  <2>3. Done'
    BY <1>1, <1>5, <1>7, <1>8, <2>1, <2>2 DEF Done
  <2>4. w'.plan["r"] = Reverse(zone')
    BY <1>0, <1>1, <1>5, <1>8 DEF Calm
  <2> QED
    BY <1>5, <1>6, <1>7, <1>8, <2>3, <2>4 DEF Calm
<1>9. CASE w.side = "r"
  <2>1. fwd' = fwd /\ ptr'[w.ip] = w.host
    BY <1>0, <1>1, <1>4, <1>9, AddedOthers
  <2>2. w'.next.ref["f"] = w.next.ref["f"]
    BY <1>5, <1>9 DEF Sides
  <2>3. Done'
    BY <1>0, <1>1, <1>5, <1>9, <2>1, <2>2 DEF Calm, Done
  <2>4. w.plan["r"].name = PtrZone
    BY <1>0, <1>1 DEF Working, Planned
  <2>5. w'.next.ref["r"] = [zone |-> zone'[PtrZone], name |-> w'.ip]
    BY <1>1, <1>2, <1>3, <1>5, <1>9, <2>4 DEF Target
  <2> QED
    BY <1>5, <1>6, <1>7, <1>9, <2>1, <2>3, <2>5 DEF Calm
<1> QED
  BY <1>1, <1>8, <1>9 DEF Sides

LEMMA WriteNewSettled ==
    ASSUME SettleInv, SyncInv', LongestExists, WriteNew
    PROVE  Calm' /\ Settling'
<1>0. Typed /\ Working /\ w \in Work
  BY DEF SettleInv, SyncInv, Typed
<1>1. /\ pc = "write" /\ UNCHANGED <<ipam, zone, rows, settled>> /\ hurt \subseteq hurt'
      /\ w.side \in Sides /\ w.id \in Ids /\ w.ip \in Ips
      /\ Added(w.side) \/ UNCHANGED <<fwd, ptr>>
  BY WriteNewCases
<1>2. PICK ref \in Refs : EndSide(ref)
  BY WriteNewCases
<1>3. /\ w'.id = w.id /\ w'.prev = w.prev /\ w'.ip = w.ip /\ w'.host = w.host /\ w'.plan = w.plan
      /\ pc' \in {"zone", "save"} /\ w'.side = "r"
  BY <1>0, <1>1, <1>2, SideEnds DEF Sides
<1>4. ASSUME NEW a \in settled, a = w.id PROVE Again(a)'
  <2>1. Already(w.side)
    BY <1>1, <1>4, AgainZones
  <2>2. UNCHANGED <<fwd, ptr>>
    BY <1>0, <1>1, <2>1, AddedOthers
  <2>3. Again(a)
    BY <1>1, <1>4 DEF SettleInv, Settling
  <2>4. Match(ipam'[a], w'.prev, zone', fwd', ptr') /\ Read(ipam[a])'
    BY <1>1, <1>3, <2>2, <2>3 DEF Again, Read
  <2>5. w'.plan["f"] = Best(w'.host, zone') /\ w'.plan["r"] = Reverse(zone')
    BY <1>1, <1>3, <2>3 DEF Again
  <2> QED
    BY <1>3, <2>4, <2>5 DEF Again
<1>5. ASSUME NEW a \in settled, a # w.id, ipam[a].live
      PROVE  /\ w'.ip # ipam[a].ip
             /\ {r \in fwd' : r.ip = ipam[a].ip} = {r \in fwd : r.ip = ipam[a].ip}
             /\ ptr'[ipam[a].ip] = ptr[ipam[a].ip]
  <2>1. ipam[a].ip \in Ips \ {w.ip}
    BY <1>1, <1>5, Aside
  <2> QED
    BY <1>0, <1>1, <1>3, <2>1, AddedOthers
<1>6. Settling'
  BY <1>1, <1>3, <1>4, <1>5, OnSettled
<1> QED
  BY <1>6, WriteNewCalm

LEMMA SaveSettled ==
    ASSUME SettleInv, SyncInv', LongestExists, Save
    PROVE  Calm' /\ Settling'
<1>0. Typed /\ Working /\ Calm /\ w \in Work
  BY DEF SettleInv, SyncInv, Typed
<1>1. pc = "save" /\ UNCHANGED <<ipam, zone, minted, fwd, ptr>> /\ hurt \subseteq hurt'
  BY DEF Save, worldVars, dnsVars
<1>2. w.id \in Ids /\ w.next.has /\ w.next.ip = w.ip
  BY <1>0, <1>1 DEF Working
<1>3. PICK good \in BOOLEAN :
        Return(good) /\ rows' = IF good THEN [rows EXCEPT ![w.id] = w.next] ELSE rows
  BY DEF Save
<1>4. /\ \A b \in Ids \ {w.id} : rows'[b] = rows[b]
      /\ rows'[w.id] = IF good THEN w.next ELSE rows[w.id]
  BY <1>0, <1>2, <1>3 DEF Typed
<1>5. rows'[w.id].ip \in {rows[w.id].ip, w.prev.ip, w.ip, None}
  BY <1>2, <1>4
<1>6. ASSUME calm PROVE Match(ipam[w.id], w.next, zone, fwd, ptr)
  <2>1. Read(ipam[w.id]) /\ Forward(zone) # {} /\ Done
    BY <1>0, <1>1, <1>6 DEF Calm
  <2>2. w.next.ref["r"] = [zone |-> zone[PtrZone], name |-> w.ip] /\ ptr[w.ip] = w.host
    BY <1>0, <1>1, <1>6 DEF Calm
  <2> QED
    BY <1>2, <2>1, <2>2 DEF Match, Read, Done
<1>7. good /\ calm => Match(ipam[w.id], rows'[w.id], zone, fwd, ptr)
  BY <1>4, <1>6
<1> QED
  BY <1>1, <1>3, <1>4, <1>5, <1>7, ReturnSettled

\* What Drop comes to.
LEMMA DropCases ==
    ASSUME SettleInv, Drop
    PROVE  /\ pc = "drop" /\ UNCHANGED <<ipam, zone, rows, settled, hurt>> /\ w.side \in Sides
           /\ pc' \in {"drop", "finish"} /\ (calm' => calm)
           /\ w'.id = w.id /\ w'.prev = w.prev /\ w'.ip = w.ip /\ w'.mode = w.mode
           /\ \/ UNCHANGED <<fwd, ptr>>
              \/ w.prev.ref[w.side].name # None /\ RemoveRecord(w.side, w.prev)
<1>0. w \in Work
  BY DEF SettleInv, SyncInv, Typed
<1>1. pc = "drop" /\ UNCHANGED <<ipam, zone, rows, settled, hurt>>
  BY DEF Drop, worldVars
<1>2. PICK err : IF w.side = "f" THEN pc' = "drop" /\ w' = [w EXCEPT !.side = "r", !.err = err]
                 ELSE pc' = "finish" /\ w' = [w EXCEPT !.err = err]
  BY DEF Drop
<1>3. /\ pc' \in {"drop", "finish"} /\ w.side \in Sides
      /\ w'.id = w.id /\ w'.prev = w.prev /\ w'.ip = w.ip /\ w'.mode = w.mode
  BY <1>0, <1>2 DEF Work
<1>4. /\ \/ UNCHANGED <<fwd, ptr>>
         \/ w.prev.ref[w.side].name # None /\ RemoveRecord(w.side, w.prev)
      /\ Fine \/ Fail \/ Lose
  BY DEF Drop
<1>5. calm' => calm
  BY <1>4 DEF Fine, Fail, Lose
<1> QED
  BY <1>1, <1>3, <1>4, <1>5

\* Nothing of an address that is dropped again is left to remove.
LEMMA DropAgain ==
    ASSUME SettleInv, Drop, NEW a \in settled, a = w.id
    PROVE  UNCHANGED <<fwd, ptr>> /\ ~Hosted(ipam[a]) /\ Match(ipam[a], w.prev, zone, fwd, ptr)
<1>1. pc = "drop" /\ w.side \in Sides
  BY DropCases
<1>2. Again(a)
  BY <1>1 DEF SettleInv, Settling
<1>3. ~Hosted(ipam[a]) /\ Match(ipam[a], w.prev, zone, fwd, ptr)
  BY <1>1, <1>2 DEF Again
<1>4. w.prev.ref[w.side].name = None
  BY <1>1, <1>3 DEF Match
<1> QED
  BY <1>3, <1>4, DropCases

LEMMA DropSettled ==
    ASSUME SettleInv, SyncInv', LongestExists, Drop
    PROVE  Calm' /\ Settling'
<1>0. Calm
  BY DEF SettleInv
<1>1. /\ pc = "drop" /\ UNCHANGED <<ipam, zone, rows, settled, hurt>> /\ w.side \in Sides
      /\ pc' \in {"drop", "finish"} /\ (calm' => calm)
      /\ w'.id = w.id /\ w'.prev = w.prev /\ w'.ip = w.ip /\ w'.mode = w.mode
      /\ UNCHANGED <<fwd, ptr>> \/ RemoveRecord(w.side, w.prev)
  BY DropCases
<1>2. Calm'
  BY <1>0, <1>1 DEF Calm
<1>3. ASSUME NEW a \in settled, a = w.id PROVE Again(a)'
  <2>1. UNCHANGED <<fwd, ptr>> /\ ~Hosted(ipam[a]) /\ Match(ipam[a], w.prev, zone, fwd, ptr)
    BY <1>3, DropAgain
  <2>2. Match(ipam'[a], w'.prev, zone', fwd', ptr') /\ ~Hosted(ipam'[a])
    BY <1>1, <2>1
  <2> QED
    BY <1>1, <2>2 DEF Again
<1>4. ASSUME NEW a \in settled, a # w.id, ipam[a].live
      PROVE  /\ w'.ip # ipam[a].ip
             /\ {r \in fwd' : r.ip = ipam[a].ip} = {r \in fwd : r.ip = ipam[a].ip}
             /\ ptr'[ipam[a].ip] = ptr[ipam[a].ip]
  <2>1. ipam[a].ip \in Ips /\ ipam[a].ip # w.prev.ip /\ ipam[a].ip # w.ip
    BY <1>1, <1>4, Aside
  <2> QED
    BY <1>1, <2>1, RemovedOthers
<1>5. Settling'
  BY <1>1, <1>3, <1>4, OnSettled
<1> QED
  BY <1>2, <1>5

LEMMA FinishSettled ==
    ASSUME SettleInv, SyncInv', LongestExists, Finish
    PROVE  Calm' /\ Settling'
<1>0. Typed /\ Working /\ Calm /\ w \in Work
  BY DEF SettleInv, SyncInv, Typed
<1>1. pc = "finish" /\ UNCHANGED <<ipam, zone, minted, fwd, ptr, hurt>>
  BY DEF Finish, worldVars, dnsVars
<1>2. w.id \in Ids /\ w.prev \in Rows
  BY <1>0, <1>1 DEF Working, Work
<1>3. PICK row : row = [w.prev EXCEPT !.ref = IF w.err = "ok" THEN NoRow.ref ELSE @]
  OBVIOUS
<1>4. row.ip = w.prev.ip /\ (w.err = "ok" => row.ref = NoRow.ref)
  BY <1>2, <1>3 DEF Rows
<1>5. PICK good :
        /\ Return(good)
        /\ \/ rows' = [rows EXCEPT ![w.id] = NoRow]
           \/ rows' = [rows EXCEPT ![w.id] = row] /\ (good => w.err = "ok")
           \/ rows' = rows /\ ~good
  BY <1>3 DEF Finish
<1>6. /\ \A b \in Ids \ {w.id} : rows'[b] = rows[b]
      /\ \/ rows'[w.id] = NoRow
         \/ rows'[w.id] = row /\ (good => w.err = "ok")
         \/ rows'[w.id] = rows[w.id] /\ ~good
  BY <1>0, <1>2, <1>5 DEF Typed
<1>7. NoRow.ip = None /\ \A s \in Sides : NoRow.ref[s].name = None
  BY DEF NoRow, NoRef
<1>8. rows'[w.id].ip \in {rows[w.id].ip, w.prev.ip, w.ip, None}
  BY <1>4, <1>6, <1>7
<1>9. ASSUME good, calm PROVE Match(ipam[w.id], rows'[w.id], zone, fwd, ptr)
  <2>1. ~Hosted(ipam[w.id])
    BY <1>0, <1>1, <1>9 DEF Calm
  <2>2. rows'[w.id].ref = NoRow.ref
    BY <1>4, <1>6, <1>9
  <2> QED
    BY <1>7, <2>1, <2>2 DEF Match
<1> QED
  BY <1>1, <1>5, <1>6, <1>8, <1>9, ReturnSettled

LEMMA RestartSettled ==
    ASSUME SettleInv, Restart
    PROVE  Calm' /\ Settling'
<1>1. /\ UNCHANGED <<ipam, zone, fwd, ptr, rows>> /\ pc' = "idle" /\ w' = NoWork
      /\ settled' = settled \ {w.id} /\ hurt \subseteq hurt'
  BY DEF Restart, dnsVars
<1>2. w'.prev.ip = None /\ w'.ip = None
  BY <1>1 DEF NoWork, NoRow
<1>3. ASSUME NEW a \in settled' PROVE Untouched(a)'
  <2>1. Untouched(a) /\ a \in Ids
    BY <1>1, <1>3 DEF SettleInv, Settling, Owned
  <2>2. ASSUME ipam[a].live PROVE Alone(a)'
    <3>1. Alone(a) /\ ipam[a].ip # None
      BY <2>1, <2>2, Constants DEF Untouched, SettleInv, SyncInv, Typed
    <3> QED
      BY <1>1, <1>2, <3>1 DEF Alone
  <2> QED
    BY <1>1, <2>1, <2>2, StaysUntouched
<1> QED
  BY <1>1, <1>3 DEF Calm, Settling

\* An event that has nothing new to say changes no record.
LEMMA NothingToDo ==
    ASSUME SettleInv, LongestExists, Handle, NEW a \in settled, a = w.id
    PROVE  UNCHANGED <<fwd, ptr, zone>>
<1>0. Typed /\ Working
  BY DEF SettleInv, SyncInv
<1>1. CASE (\E k \in Arrived : Take(k)) \/ ReadAddress \/ ReadZones \/ Save \/ Finish
  BY <1>1 DEF Take, ReadAddress, ReadZones, Save, Finish, dnsVars
<1>2. CASE SideZone
  <2>1. PICK p : p = w.plan[w.side]
    OBVIOUS
  <2>2. pc = "zone" /\ UNCHANGED <<fwd, ptr>>
    BY <1>2, <2>1, SideZoneCases
  <2>3. p.id # 0
    BY <2>1, <2>2, AgainZones
  <2> QED
    BY <1>2, <2>1, <2>2, <2>3, SideZoneCases
<1>3. CASE MoveOld
  <2>1. pc = "move"
    BY <1>3 DEF MoveOld
  <2> QED
    BY <2>1 DEF SettleInv, Settling, Again
<1>4. CASE WriteNew
  <2>1. /\ pc = "write" /\ zone' = zone /\ w.side \in Sides /\ w.ip \in Ips
        /\ Added(w.side) \/ UNCHANGED <<fwd, ptr>>
    BY <1>4, WriteNewCases
  <2>2. Already(w.side)
    BY <2>1, AgainZones
  <2> QED
    BY <1>0, <2>1, <2>2, AddedOthers
<1>5. CASE Drop
  BY <1>5, DropCases, DropAgain
<1> QED
  BY <1>1, <1>2, <1>3, <1>4, <1>5 DEF Handle

LEMMA SettleInit == Init => SettleInv
<1> SUFFICES ASSUME Init PROVE SettleInv
  OBVIOUS
<1>1. SyncInv
  BY SyncInit
<1>2. /\ ipam = [a \in Ids |-> Away] /\ rows = [a \in Ids |-> NoRow] /\ w = NoWork /\ pc = "idle"
      /\ settled = {} /\ calm = FALSE
  BY DEF Init
<1>3. Own(NoRow, zone, minted)
  BY <1>1, NothingOwned DEF SyncInv
<1>4. w.prev = NoRow /\ w.next = NoRow
  BY <1>2 DEF NoWork
<1>5. Distinct
  BY <1>2 DEF Distinct, Away
<1>6. Owned
  BY <1>2, <1>3, <1>4, <1>5 DEF Owned
<1> QED
  BY <1>1, <1>2, <1>6 DEF SettleInv, Calm, Settling

LEMMA SettledHolds ==
    ASSUME SettleInv
    PROVE  SettledInSync
<1> SUFFICES ASSUME NEW a \in settled, w.id # a PROVE ipam[a].ip \in hurt \/ InSync(a)
  BY DEF SettledInSync
<1> QED
  BY DEF SettleInv, Settling, Untouched

-----------------------------------------------------------------------------
(* The zones of an address: the longest one that contains it.  Only the    *)
(* lemmas from here on need well-founded induction.                        *)

LOCAL INSTANCE WellFoundedInduction

\* A set of numbers has a smallest one, and with an upper bound a largest one.
LEMMA Smallest ==
    ASSUME NEW S \in SUBSET Nat, S # {}
    PROVE  \E m \in S : \A k \in S : m <= k
<1>1. PICK R : R = OpToRel(<, Nat)
  OBVIOUS
<1>2. IsWellFoundedOn(R, Nat)
  BY <1>1, NatLessThanWellFounded
<1>3. PICK m \in S : \A k \in S : ~(<<k, m>> \in R)
  BY <1>2, WFMin
<1>4. ASSUME NEW k \in S PROVE m <= k
  <2>1. <<k, m>> \in Nat \X Nat /\ <<k, m>> \notin R
    BY <1>3
  <2>2. ~(k < m)
    BY <1>1, <2>1 DEF OpToRel
  <2> QED
    BY <2>2
<1> QED
  BY <1>3, <1>4

LEMMA Largest ==
    ASSUME NEW n \in Nat, NEW S \in SUBSET (0..n), S # {}
    PROVE  \E m \in S : \A k \in S : k <= m
<1>0. \A k \in S : n - k \in Nat
  OBVIOUS
<1>1. PICK T : T = {n - k : k \in S}
  OBVIOUS
<1>2. T \in SUBSET Nat /\ T # {}
  BY <1>0, <1>1
<1>3. PICK t \in T : \A u \in T : t <= u
  BY <1>2, Smallest
<1>4. PICK m \in S : t = n - m
  BY <1>1
<1>5. ASSUME NEW k \in S PROVE k <= m
  <2>1. t <= n - k /\ k \in Nat /\ m \in Nat
    BY <1>1, <1>3
  <2> QED
    BY <1>4, <2>1
<1> QED
  BY <1>5

\* PlanForward chooses a zone of the tenant: zones that contain the host are no
\* longer than its name, so one is longest.
LEMMA LongestIsOne ==
    ASSUME NEW zs \in SUBSET ForwardZones, NEW h \in Hosts, zs # {}
    PROVE  LongestZone(zs, h) \in zs
<1>1. Containing(zs, h) = zs /\ Len(h) \in Nat /\ \A z \in zs : Len(z) \in Nat
  BY SyncConstants DEF Containing
<1>2. \A z \in zs : Len(z) \in 0..Len(h)
  <2> SUFFICES ASSUME NEW z \in zs PROVE Len(z) <= Len(h)
    BY <1>1
  <2>1. InZone(h, z)
    BY SyncConstants
  <2> QED
    BY <1>1, <2>1 DEF InZone
<1>3. PICK S : S = {Len(z) : z \in zs}
  OBVIOUS
<1>4. S \in SUBSET (0..Len(h)) /\ S # {}
  BY <1>2, <1>3
<1>5. PICK m \in S : \A k \in S : k <= m
  BY <1>1, <1>4, Largest
<1>6. \E z \in zs : \A y \in zs : Len(y) <= Len(z)
  BY <1>3, <1>5
<1> QED
  BY <1>1, <1>6 DEF LongestZone

LEMMA ReadZonesInv ==
    ASSUME SyncInv, ReadZones
    PROVE  SyncInv'
<1>0. Typed /\ Zoned /\ Working
  BY DEF SyncInv
<1>1. pc = "zones" /\ UNCHANGED <<setting, ipam, events, zone, minted, fwd, ptr, rows, hurt>>
  BY DEF ReadZones, worldVars, dnsVars
<1>2. CASE pc' = "idle" /\ w' = NoWork
  BY <1>1, <1>2, Returns
<1>3. CASE /\ pc' = "zone"
           /\ w' = [w EXCEPT !.plan = [s \in Sides |-> Plan(s)], !.side = "f",
                             !.next = [NoRow EXCEPT !.has = TRUE, !.ip = w.ip]]
  <2>1. w \in Work /\ w.ip \in Ips /\ w.host \in Hosts /\ w.mode = "upsert" /\ w.id \in Ids
    BY <1>0, <1>1 DEF Typed, Working
  <2>2. /\ Plan("f") \in Plans /\ Plan("f").name \in ForwardZones
        /\ Plan("f").id # 0 => zone[Plan("f").name] = Plan("f").id
    <3>1. PICK has : has = Containing(Live \cap ForwardZones, w.host)
      OBVIOUS
    <3>2. has \in SUBSET ForwardZones
      BY <3>1 DEF Containing
    <3>3. Plan("f") = IF has = {} THEN [name |-> Registrable, id |-> 0]
                      ELSE [name |-> LongestZone(has, w.host), id |-> zone[LongestZone(has, w.host)]]
      BY <3>1 DEF Plan
    <3>4. has # {} => LongestZone(has, w.host) \in ForwardZones
      BY <2>1, <3>2, LongestIsOne
    <3>5. \A z \in ForwardZones : z \in ZoneNames /\ zone[z] \in 0..MaxZones
      BY <1>0 DEF Typed, ZoneNames
    <3> QED
      BY <3>3, <3>4, <3>5, SyncConstants DEF Plans, ZoneNames
  <2>3. /\ Plan("r") \in Plans /\ Plan("r").name = PtrZone
        /\ zone[Plan("r").name] = Plan("r").id
    <3>1. Plan("r") = [name |-> PtrZone, id |-> zone[PtrZone]]
      BY DEF Plan
    <3>2. PtrZone \in ZoneNames /\ zone[PtrZone] \in 0..MaxZones
      BY <1>0 DEF Typed, ZoneNames
    <3> QED
      BY <3>1, <3>2 DEF Plans
  <2>4. PICK plan, next : /\ plan = [s \in Sides |-> Plan(s)]
                          /\ next = [NoRow EXCEPT !.has = TRUE, !.ip = w.ip]
    OBVIOUS
  <2>5. plan \in [Sides -> Plans] /\ plan["f"] = Plan("f") /\ plan["r"] = Plan("r")
    BY <2>2, <2>3, <2>4 DEF Sides
  <2>6. next \in Rows /\ next.has /\ next.ip = w.ip
    BY <2>1, <2>4, Constants DEF Rows, NoRow
  <2>7. w' = [w EXCEPT !.plan = plan, !.side = "f", !.next = next]
    BY <1>3, <2>4
  <2>8. /\ w' \in Work /\ w'.id = w.id /\ w'.prev = w.prev /\ w'.ip = w.ip /\ w'.host = w.host
        /\ w'.mode = w.mode /\ w'.plan = plan /\ w'.side = "f" /\ w'.next = next
    <3>1. "f" \in Sides
      BY DEF Sides
    <3> QED
      BY <2>1, <2>5, <2>6, <2>7, <3>1 DEF Work
  <2>9. Typed'
    BY <1>0, <1>1, <1>3, <2>8 DEF Typed, Steps
  <2>10. Zoned'
    BY <1>0, <1>1 DEF Zoned
  <2>11. Planned("f")' /\ Planned("r")'
    BY <1>1, <2>2, <2>3, <2>5, <2>8 DEF Planned
  <2>12. Working'
    BY <1>0, <1>1, <1>3, <2>1, <2>6, <2>8, <2>11 DEF Working
  <2>13. ASSUME NEW s \in Sides, NEW z \in ZoneNames, NEW n \in Hosts \cup Ips, NEW i \in Ips,
                Held(s, z, n, i)
         PROVE  Held(s, z, n, i)'
    <3>1. Knows(w.prev, s, z, n, i)
      BY <1>1, <2>13 DEF Held
    <3>2. Knows(w.prev, s, z, n, i)' /\ ~Passed(s)'
      BY <1>1, <2>8, <3>1 DEF Knows, Passed
    <3> QED
      BY <1>3, <3>2 DEF Held
  <2>14. Booked'
    <3>1. \A s, z, n, i : Rec(s, z, n, i)' = Rec(s, z, n, i)
      BY <1>1 DEF Rec
    <3> QED
      BY <1>1, <1>3, <2>8, <2>13, <3>1, GoesOn
  <2> QED
    BY <2>9, <2>10, <2>12, <2>14 DEF SyncInv
<1> QED
  BY <1>2, <1>3 DEF ReadZones, Return

-----------------------------------------------------------------------------
(* The theorem.                                                            *)

LEMMA SyncStep ==
    ASSUME SyncInv, [Next]_vars, [Steady]_vars
    PROVE  SyncInv'
<1>1. CASE UNCHANGED vars
  <2>1. UNCHANGED <<setting, ipam, events, zone, minted, fwd, ptr, rows, pc, w, hurt>>
    BY <1>1 DEF vars, worldVars, dnsVars, histVars
  <2>2. Typed' /\ Zoned' /\ Working'
    BY <2>1 DEF SyncInv, Typed, Zoned, Working, Planned, Unsettled
  <2>3. Booked'
    BY <2>1, Beside DEF Rec
  <2> QED
    BY <2>2, <2>3 DEF SyncInv
<1>2. CASE Next /\ Steady
  <2>1. CASE \E a \in setting.ids : Announce(a) \/ \E new \in Answers : Change(a, new)
    BY <2>1, IpamInv
  <2>2. CASE \E z \in ZoneNames : CreateZone(z) \/ DeleteZone(z)
    BY <2>2, CreateInv, DeleteInv
  <2>3. CASE Handle
    BY <1>2, <2>3, TakeInv, ReadAddressInv, ReadZonesInv, SideZoneInv, MoveOldInv, WriteNewInv,
       SaveInv, DropInv, FinishInv DEF Handle
  <2>4. CASE Restart
    BY <2>4, RestartInv
  <2> QED
    BY <1>2, <2>1, <2>2, <2>3, <2>4 DEF Next
<1> QED
  BY <1>1, <1>2

\* Every record the synchronisation wrote is known to a sync row, unless its
\* handling is under way or was hit by a lost answer, a restart, an unsaved row
\* or a change of zones.  No failing call changes that, except in a handling
\* that finds its address at another IP: there the saved row has the new IP
\* with the reference of a record of the old one (upsert keeps a reference
\* without the address it belongs to).
THEOREM NothingForgotten == Spec /\ [][Steady]_vars => []Accounted
<1>1. Spec /\ [][Steady]_vars => []SyncInv
  BY SyncInit, SyncStep, PTL DEF Spec
<1> QED
  BY <1>1, SyncExplained, PTL

LEMMA LongestThere == LongestExists
  BY LongestIsOne DEF LongestExists

LEMMA SettleStep ==
    ASSUME SettleInv, [Next]_vars, [Smooth]_vars
    PROVE  SettleInv'
<1>1. SyncInv /\ LongestExists
  BY LongestThere DEF SettleInv
<1>2. SyncInv'
  <2>1. [Steady]_vars
    BY DEF Smooth, Steady
  <2> QED
    BY <1>1, <2>1, SyncStep
<1>3. CASE UNCHANGED vars
  <2>1. UNCHANGED <<ipam, zone, minted, fwd, ptr, rows, pc, w, calm, settled, hurt>>
    BY <1>3 DEF vars, worldVars, dnsVars, histVars
  <2>2. Calm' /\ Settling'
    BY <2>1, WorldSettled
  <2>3. Owned'
    BY <2>1 DEF SettleInv, Owned, Distinct
  <2> QED
    BY <1>2, <2>2, <2>3 DEF SettleInv
<1>4. CASE Next /\ Smooth
  <2>1. CASE \E a \in setting.ids : Announce(a) \/ \E new \in Answers : Change(a, new)
    BY <1>2, <2>1, IpamOwned, IpamSettled DEF SettleInv
  <2>2. CASE \E z \in ZoneNames : CreateZone(z) \/ DeleteZone(z)
    BY <1>2, <2>2, ZonesOwned, ZonesSettled DEF SettleInv
  <2>3. CASE Handle
    <3>1. CASE \E k \in Arrived : Take(k)
      BY <1>2, <3>1, TakeOwned, TakeSettled DEF SettleInv
    <3>2. CASE ReadAddress
      BY <1>1, <1>2, <3>2, ReadAddressOwned, ReadAddressSettled DEF SettleInv
    <3>3. CASE ReadZones
      BY <1>1, <1>2, <3>3, ReadZonesOwned, ReadZonesSettled DEF SettleInv
    <3>4. CASE SideZone
      BY <1>1, <1>2, <1>4, <3>4, SideZoneOwned, SideZoneSettled DEF SettleInv
    <3>5. CASE MoveOld
      BY <1>1, <1>2, <1>4, <3>5, MoveOldOwned, MoveOldSettled DEF SettleInv
    <3>6. CASE WriteNew
      BY <1>1, <1>2, <1>4, <3>6, WriteNewOwned, WriteNewSettled DEF SettleInv
    <3>7. CASE Save
      BY <1>1, <1>2, <3>7, SaveOwned, SaveSettled DEF SettleInv
    <3>8. CASE Drop
      BY <1>1, <1>2, <3>8, DropOwned, DropSettled DEF SettleInv
    <3>9. CASE Finish
      BY <1>1, <1>2, <3>9, FinishOwned, FinishSettled DEF SettleInv
    <3> QED
      BY <2>3, <3>1, <3>2, <3>3, <3>4, <3>5, <3>6, <3>7, <3>8, <3>9 DEF Handle
  <2>4. CASE Restart
    BY <1>2, <2>4, RestartOwned, RestartSettled DEF SettleInv
  <2> QED
    BY <1>4, <2>1, <2>2, <2>3, <2>4 DEF Next
<1> QED
  BY <1>3, <1>4

\* An address whose event was handled undisturbed stays in sync whatever happens
\* to other addresses, as long as nothing changes about it or the zones: a
\* handling removes and writes nothing at an IP that is not its own.  As in
\* NothingForgotten, upsert is not to meet a failing call or a lost answer where
\* it finds its address at another IP: the reference it keeps then names the
\* PTR record of the old IP, and is followed when the row is dropped, although
\* the IP may be another address's by then.
THEOREM SettledStays == Spec /\ [][Smooth]_vars => []SettledInSync
<1>1. Spec /\ [][Smooth]_vars => []SettleInv
  BY SettleInit, SettleStep, PTL DEF Spec
<1> QED
  BY <1>1, SettledHolds, PTL

\* Events are applied idempotently: an event for an address that is settled
\* changes no record and creates no zone at any step of its handling, whatever
\* fails in it.
THEOREM AgainQuiet == Spec /\ [][Smooth]_vars => Quiet
<1>1. Spec /\ [][Smooth]_vars => []SettleInv
  BY SettleInit, SettleStep, PTL DEF Spec
<1>2. ASSUME SettleInv
      PROVE  [\A a \in settled : w.id = a /\ Handle => UNCHANGED <<fwd, ptr, zone>>]_vars
  BY <1>2, LongestThere, NothingToDo
<1> QED
  BY <1>1, <1>2, PTL DEF Quiet
=============================================================================
