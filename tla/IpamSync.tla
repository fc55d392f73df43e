------------------------------ MODULE IpamSync ------------------------------
(***************************************************************************)
(* The IPAM synchronisation (internal/ipamsync).  Address events arrive on *)
(* a tenant's stream and are only triggers: the handler reads the address  *)
(* from IPAM and brings the host's address record and the address's PTR    *)
(* record in line with it, using a sync row that remembers what it wrote   *)
(* last.  It works through the two sides, forward and reverse, one after   *)
(* the other: choose the zone (creating it if need be), remove the record  *)
(* that was written before if it moved, write the new one; then it saves   *)
(* the row.                                                                *)
(*                                                                         *)
(* The model is one tenant and one consumer.  Forward zones may nest; one  *)
(* reverse zone holds every address (its sizing is in ReversePlan).  IPAM, *)
(* and people who create and delete zones, act at any time in between.     *)
(***************************************************************************)
EXTENDS DnsNames, FiniteSets

CONSTANTS
    Ids,            \* IPAM addresses
    Ips,
    Hosts,          \* canonical host names
    None,           \* no host name, no address, no record
    ForwardZones,   \* names of forward zones; all contain every host
    Registrable,    \* the registrable domain of the hosts
    PtrZone,        \* name of the reverse zone
    MaxZones,       \* bound: zones created
    Settings        \* settings looked at: the addresses, IPs and forward zones
                    \* there are; whether an address may change its IP
                    \* (readdress), events arrive in the order of the changes
                    \* (inOrder), people create and delete zones (edited); and
                    \* bounds on changes in IPAM and repeated events, zones
                    \* created, failing calls, lost answers and restarts

ASSUME SyncConstants ==
    /\ None \notin Ips \cup Hosts
    /\ Registrable \in ForwardZones
    /\ PtrZone \notin ForwardZones
    /\ \A h \in Hosts : \A z \in ForwardZones : InZone(h, z)
    /\ \A n \in Hosts \cup ForwardZones : Len(n) \in Nat
    /\ MaxZones \in Nat
    /\ Settings \subseteq [ids : SUBSET Ids, ips : SUBSET Ips, forward : SUBSET ForwardZones,
           readdress : BOOLEAN, inOrder : BOOLEAN, edited : BOOLEAN,
           changes : Nat, zones : 0..MaxZones, faults : Nat, lost : Nat]

ZoneNames == ForwardZones \cup {PtrZone}
Sides == {"f", "r"}

VARIABLES
    setting,    \* the setting
    ipam,       \* IPAM's addresses
    events,     \* events not yet taken: the addresses they name
    zone,       \* id of each of the tenant's zones (0: none)
    minted,     \* zone ids given out
    fwd,        \* address records
    ptr,        \* PTR record of each address
    rows,       \* dns_ipam_sync
    pc, w,      \* the handler and what it works on
    changes, faults, lost,
    calm,       \* history: nothing disturbed the handling in progress
    settled,    \* history: addresses handled undisturbed, unchanged since
    hurt        \* history: IPs whose records a lost answer may have hit

worldVars == <<setting, ipam, events, changes>>
dnsVars   == <<zone, minted, fwd, ptr>>
histVars  == <<calm, settled, hurt>>
vars == <<worldVars, dnsVars, rows, pc, w, faults, lost, histVars>>

NoRef == [zone |-> 0, name |-> None]
NoRow == [has |-> FALSE, ip |-> None, ref |-> [s \in Sides |-> NoRef]]
Away  == [live |-> FALSE, ip |-> None, host |-> None]
NoPlan == [name |-> PtrZone, id |-> 0]
NoWork == [id |-> None, prev |-> NoRow, ip |-> None, host |-> None, mode |-> "none",
           plan |-> [s \in Sides |-> NoPlan], side |-> "f", zid |-> 0, err |-> "ok",
           next |-> NoRow]

Names(s) == {None} \cup IF s = "f" THEN Hosts ELSE Ips
IsRow(row) ==
    /\ DOMAIN row = {"has", "ip", "ref"}
    /\ row.has \in BOOLEAN /\ row.ip \in Ips \cup {None}
    /\ \A s \in Sides : row.ref[s].zone \in 0..MaxZones /\ row.ref[s].name \in Names(s)

TypeOK ==
    /\ setting \in Settings
    /\ ipam \in [Ids -> [live : BOOLEAN, ip : Ips \cup {None}, host : Hosts \cup {None}]]
    /\ events \in Seq(Ids)
    /\ zone \in [ZoneNames -> 0..MaxZones]
    /\ minted \in 0..MaxZones
    /\ fwd \subseteq [zone : ForwardZones, host : Hosts, ip : Ips]
    /\ ptr \in [Ips -> Hosts \cup {None}]
    /\ \A a \in Ids : IsRow(rows[a])
    /\ pc \in {"idle", "addr", "zones", "zone", "move", "write", "save", "drop", "finish"}
    /\ w.id \in Ids \cup {None}
    /\ IsRow(w.prev) /\ IsRow(w.next)
    /\ w.mode \in {"none", "upsert", "clear", "release"}
    /\ w.side \in Sides /\ w.zid \in 0..MaxZones /\ w.err \in {"ok", "temp", "perm"}
    /\ changes \in 0..setting.changes /\ faults \in 0..setting.faults /\ lost \in 0..setting.lost
    /\ calm \in BOOLEAN /\ settled \subseteq Ids /\ hurt \subseteq Ips

Init ==
    /\ setting \in Settings
    /\ ipam = [a \in Ids |-> Away]
    /\ events = <<>>
    /\ zone = [z \in ZoneNames |-> 0]
    /\ minted = 0
    /\ fwd = {}
    /\ ptr = [i \in Ips |-> None]
    /\ rows = [a \in Ids |-> NoRow]
    /\ pc = "idle" /\ w = NoWork
    /\ changes = 0 /\ faults = 0 /\ lost = 0
    /\ calm = FALSE /\ settled = {} /\ hurt = {}

-----------------------------------------------------------------------------
(* IPAM and the people who manage zones.                                   *)

\* An address is created, renamed, renumbered or deleted, and announced.
Change(a, new) ==
    /\ changes < setting.changes
    /\ new # ipam[a]
    /\ new.live => \A b \in Ids \ {a} : ~(ipam[b].live /\ ipam[b].ip = new.ip)
    /\ ipam[a].live /\ new.live => setting.readdress \/ new.ip = ipam[a].ip
    /\ ipam' = [ipam EXCEPT ![a] = new]
    /\ events' = Append(events, a)
    /\ changes' = changes + 1
    /\ calm' = (calm /\ w.id # a)
    /\ settled' = settled \ {a}
    /\ UNCHANGED <<setting, dnsVars, rows, pc, w, faults, lost, hurt>>

\* The same state announced again (a scan, a duplicate).
Announce(a) ==
    /\ changes < setting.changes
    /\ events' = Append(events, a)
    /\ changes' = changes + 1
    /\ UNCHANGED <<setting, ipam, dnsVars, rows, pc, w, faults, lost, histVars>>

\* A handling in progress may meet a zone that is not the one it chose.
ZonesChanged ==
    /\ calm' = FALSE
    /\ settled' = {}
    /\ hurt' = IF pc = "idle" THEN hurt ELSE hurt \cup ({w.ip, w.prev.ip} \cap Ips)

CreateZone(z) ==
    /\ setting.edited /\ z \in setting.forward \cup {PtrZone}
    /\ zone[z] = 0
    /\ minted < setting.zones
    /\ minted' = minted + 1
    /\ zone' = [zone EXCEPT ![z] = minted + 1]
    /\ ZonesChanged
    /\ UNCHANGED <<worldVars, fwd, ptr, rows, pc, w, faults, lost>>

\* The records go, and ClearSyncZone empties the references to the zone.
DeleteZone(z) ==
    /\ setting.edited
    /\ zone[z] # 0
    /\ zone' = [zone EXCEPT ![z] = 0]
    /\ fwd' = {r \in fwd : r.zone # z}
    /\ ptr' = IF z = PtrZone THEN [i \in Ips |-> None] ELSE ptr
    /\ rows' = [a \in Ids |-> [rows[a] EXCEPT !.ref =
                   [s \in Sides |-> IF @[s].zone = zone[z] THEN NoRef ELSE @[s]]]]
    /\ ZonesChanged
    /\ UNCHANGED <<worldVars, minted, pc, w, faults, lost>>

-----------------------------------------------------------------------------
(* The handler.                                                            *)

Fail == faults < setting.faults /\ faults' = faults + 1 /\ calm' = FALSE /\ UNCHANGED lost
Lose == lost < setting.lost /\ lost' = lost + 1 /\ calm' = FALSE /\ UNCHANGED faults
Fine == UNCHANGED <<faults, lost, calm>>

\* The row of another address, not handled since, still has this one's IP.
Shared(a) == \E b \in Ids \ {a} : rows[b].has /\ rows[b].ip = ipam[a].ip

\* Handle returns; a handling that nothing disturbed settles its address.
Return(good) ==
    /\ pc' = "idle"
    /\ w' = NoWork
    /\ settled' = IF good /\ calm /\ ~Shared(w.id) THEN settled \cup {w.id}
                  ELSE settled \ {w.id}

\* The next event is taken and its sync row read.  An event whose handling
\* fails is not taken again.
Take(k) ==
    /\ pc = "idle"
    /\ events' = SubSeq(events, 1, k - 1) \o SubSeq(events, k + 1, Len(events))
    /\ \/ /\ pc' = "addr"
          /\ w' = [NoWork EXCEPT !.id = events[k], !.prev = rows[events[k]]]
          /\ calm' = TRUE
          /\ UNCHANGED <<faults, lost>>
       \/ Fail /\ UNCHANGED <<pc, w>>
    /\ UNCHANGED <<setting, ipam, changes, dnsVars, rows, settled, hurt>>

Arrived == IF setting.inOrder THEN DOMAIN events \cap {1} ELSE DOMAIN events

\* Mutant of ReadAddress: an address IPAM no longer has is ignored.
ReadAddressLive ==
    LET a == ipam[w.id]
    IN  /\ pc = "addr"
        /\ \/ /\ a.live /\ a.host # None
              /\ pc' = "zones"
              /\ w' = [w EXCEPT !.mode = "upsert", !.ip = a.ip, !.host = a.host]
              /\ Fine /\ UNCHANGED settled
           \/ /\ a.live /\ a.host = None /\ w.prev.has
              /\ pc' = "drop"
              /\ w' = [w EXCEPT !.mode = "clear"]
              /\ Fine /\ UNCHANGED settled
           \/ /\ ~a.live \/ (a.host = None /\ ~w.prev.has)
              /\ Return(TRUE) /\ Fine
           \/ Return(FALSE) /\ Fail
        /\ UNCHANGED <<worldVars, dnsVars, rows, hurt>>

\* GetAddress decides: delete, clear, ignore or upsert.
ReadAddress ==
    LET a == ipam[w.id]
    IN  /\ pc = "addr"
        /\ \/ /\ a.live /\ a.host # None
              /\ pc' = "zones"
              /\ w' = [w EXCEPT !.mode = "upsert", !.ip = a.ip, !.host = a.host]
              /\ Fine /\ UNCHANGED settled
           \/ /\ ~(a.live /\ a.host # None) /\ w.prev.has
              /\ pc' = "drop"
              /\ w' = [w EXCEPT !.mode = IF a.live THEN "clear" ELSE "release"]
              /\ Fine /\ UNCHANGED settled
           \/ /\ ~(a.live /\ a.host # None) /\ ~w.prev.has
              /\ Return(TRUE) /\ Fine
           \/ Return(FALSE) /\ Fail
        /\ UNCHANGED <<worldVars, dnsVars, rows, hurt>>

Live == {z \in ZoneNames : zone[z] # 0}

\* PlanForward and PlanReverse: the longest zone of the tenant, or a zone to
\* be created (id 0).
Plan(s) ==
    LET has == Containing(Live \cap ForwardZones, w.host)
    IN  IF s = "r" THEN [name |-> PtrZone, id |-> zone[PtrZone]]
        ELSE IF has = {} THEN [name |-> Registrable, id |-> 0]
        ELSE [name |-> LongestZone(has, w.host), id |-> zone[LongestZone(has, w.host)]]

ReadZones ==
    /\ pc = "zones"
    /\ \/ /\ pc' = "zone"
          /\ w' = [w EXCEPT !.plan = [s \in Sides |-> Plan(s)], !.side = "f",
                            !.next = [NoRow EXCEPT !.has = TRUE, !.ip = w.ip]]
          /\ Fine /\ UNCHANGED settled
       \/ Return(FALSE) /\ Fail
    /\ UNCHANGED <<worldVars, dnsVars, rows, hurt>>

Target(s) == IF s = "f" THEN w.host ELSE w.ip

\* Mutant of Moved: the record is always taken for moved.
MovedAlways(zid, err) == w.prev.ref[w.side].name # None

\* The record written before is not where, or not what, it should be now.
Moved(zid, err) ==
    LET ref == w.prev.ref[w.side]
    IN  /\ ref.name # None
        /\ \/ err # "ok" \/ ref.zone # zid \/ ref.name # Target(w.side)
           \/ w.side = "f" /\ w.prev.ip # w.ip

\* A side ends with a new reference, the previous one kept, or none.
EndSide(ref) ==
    LET v == [w EXCEPT !.next.ref[w.side] = ref, !.zid = 0, !.err = "ok"]
    IN  IF w.side = "f" THEN pc' = "zone" /\ w' = [v EXCEPT !.side = "r"]
        ELSE pc' = "save" /\ w' = v

\* Mutant of Kept: nothing is kept of a record that could not be replaced.
KeptNone == NoRef

Kept == w.prev.ref[w.side]

\* side, up to its first call.
AfterZone(zid, err) ==
    IF Moved(zid, err)
    THEN IF err = "temp" THEN EndSide(Kept)
         ELSE pc' = "move" /\ w' = [w EXCEPT !.zid = zid, !.err = err]
    ELSE IF err # "ok" THEN EndSide(NoRef)
         ELSE pc' = "write" /\ w' = [w EXCEPT !.zid = zid, !.err = err]

\* zone: the planned zone is loaded by its id, or created; one that was
\* created meanwhile is taken, one of another tenant refused for good.
SideZone ==
    LET p == w.plan[w.side]
    IN  /\ pc = "zone"
        /\ \/ /\ p.id # 0 /\ zone[p.name] = p.id
              /\ AfterZone(p.id, "ok")
              /\ Fine /\ UNCHANGED <<zone, minted>>
           \/ /\ p.id # 0 /\ zone[p.name] # p.id
              /\ AfterZone(0, "temp")
              /\ Fine /\ UNCHANGED <<zone, minted>>
           \/ /\ p.id = 0 /\ zone[p.name] # 0
              /\ AfterZone(zone[p.name], "ok")
              /\ Fine /\ UNCHANGED <<zone, minted>>
           \/ /\ p.id = 0 /\ zone[p.name] = 0 /\ minted < setting.zones
              /\ minted' = minted + 1
              /\ zone' = [zone EXCEPT ![p.name] = minted + 1]
              /\ AfterZone(minted + 1, "ok")
              /\ Fine
           \/ AfterZone(0, "temp") /\ Fail /\ UNCHANGED <<zone, minted>>
           \/ p.id = 0 /\ AfterZone(0, "perm") /\ Fail /\ UNCHANGED <<zone, minted>>
        /\ UNCHANGED <<worldVars, fwd, ptr, rows, settled, hurt>>

\* removeValue and removeSet of what a row refers to.  A zone that is gone
\* took the record with it.
RemoveRecord(s, row) ==
    LET ref == row.ref[s]
        at  == {z \in Live : zone[z] = ref.zone}
    IN  IF s = "f"
        THEN /\ fwd' = {r \in fwd : ~(r.zone \in at /\ r.host = ref.name /\ r.ip = row.ip)}
             /\ UNCHANGED ptr
        ELSE /\ ptr' = IF at = {} THEN ptr ELSE [ptr EXCEPT ![ref.name] = None]
             /\ UNCHANGED fwd

MoveOld ==
    /\ pc = "move"
    /\ \/ /\ RemoveRecord(w.side, w.prev) /\ Fine
          /\ IF w.err = "ok" THEN pc' = "write" /\ UNCHANGED w ELSE EndSide(NoRef)
       \/ EndSide(Kept) /\ Fail /\ UNCHANGED <<fwd, ptr>>
       \/ EndSide(Kept) /\ Lose /\ RemoveRecord(w.side, w.prev)
    /\ UNCHANGED <<worldVars, zone, minted, rows, settled, hurt>>

\* Mutant of Added: a PTR record that exists is left as it is.
AddedOnce(s) ==
    IF s = "f"
    THEN /\ fwd' = fwd \cup {[zone |-> w.plan[s].name, host |-> w.host, ip |-> w.ip]}
         /\ UNCHANGED ptr
    ELSE /\ ptr' = IF ptr[w.ip] = None THEN [ptr EXCEPT ![w.ip] = w.host] ELSE ptr
         /\ UNCHANGED fwd

\* addValue and setPTR: PowerDNS knows the zone by its name.
Added(s) ==
    LET z == w.plan[s].name
    IN  IF s = "f"
        THEN fwd' = fwd \cup {[zone |-> z, host |-> w.host, ip |-> w.ip]} /\ UNCHANGED ptr
        ELSE ptr' = [ptr EXCEPT ![w.ip] = w.host] /\ UNCHANGED fwd

\* The record set already says so: it is left untouched.
Already(s) ==
    IF s = "f" THEN [zone |-> w.plan[s].name, host |-> w.host, ip |-> w.ip] \in fwd
    ELSE ptr[w.ip] = w.host

\* Nothing of the address is there: the set may be refused (a CNAME at the
\* name, too many values).
Absent(s) == ~Already(s) /\ (s = "r" => ptr[w.ip] = None)

WriteNew ==
    LET there == zone[w.plan[w.side].name] # 0
    IN  /\ pc = "write"
        /\ \/ /\ there /\ Added(w.side)
              /\ EndSide([zone |-> w.zid, name |-> Target(w.side)])
              /\ Fine /\ UNCHANGED hurt
           \/ ~there /\ EndSide(Kept) /\ Fine /\ UNCHANGED <<fwd, ptr, hurt>>
           \/ EndSide(Kept) /\ Fail /\ UNCHANGED <<fwd, ptr, hurt>>
           \/ Absent(w.side) /\ EndSide(NoRef) /\ Fail /\ UNCHANGED <<fwd, ptr, hurt>>
           \/ /\ there /\ ~Already(w.side) /\ Added(w.side)
              /\ EndSide(Kept) /\ Lose /\ hurt' = hurt \cup {w.ip}
        /\ UNCHANGED <<worldVars, zone, minted, rows, settled>>

Save ==
    /\ pc = "save"
    /\ \/ /\ rows' = [rows EXCEPT ![w.id] = w.next]
          /\ Return(TRUE) /\ Fine /\ UNCHANGED hurt
       \/ /\ Return(FALSE) /\ Fail /\ UNCHANGED rows
          /\ hurt' = hurt \cup ({w.ip, w.prev.ip} \cap Ips)
    /\ UNCHANGED <<worldVars, dnsVars>>

\* drop: both records of the row are removed; an error is noted.
Drop ==
    LET after(err) == IF w.side = "f" THEN pc' = "drop" /\ w' = [w EXCEPT !.side = "r", !.err = err]
                      ELSE pc' = "finish" /\ w' = [w EXCEPT !.err = err]
    IN  /\ pc = "drop"
        /\ \/ /\ w.prev.ref[w.side].name = None
              /\ after(w.err) /\ Fine /\ UNCHANGED <<fwd, ptr>>
           \/ /\ w.prev.ref[w.side].name # None
              /\ \/ after(w.err) /\ RemoveRecord(w.side, w.prev) /\ Fine
                 \/ after("temp") /\ Fail /\ UNCHANGED <<fwd, ptr>>
                 \/ after("temp") /\ Lose /\ RemoveRecord(w.side, w.prev)
        /\ UNCHANGED <<worldVars, zone, minted, rows, settled, hurt>>

\* release deletes the row once both records are gone; clear keeps it, with
\* the references it could not remove.
Finish ==
    LET cleared == [w.prev EXCEPT !.ref = IF w.err = "ok" THEN NoRow.ref ELSE @]
    IN  /\ pc = "finish"
        /\ \/ /\ w.mode = "release" /\ w.err = "ok"
              /\ rows' = [rows EXCEPT ![w.id] = NoRow] /\ Return(TRUE) /\ Fine
           \/ /\ w.mode = "release" /\ w.err # "ok"
              /\ Return(FALSE) /\ Fine /\ UNCHANGED rows
           \/ /\ w.mode = "clear"
              /\ rows' = [rows EXCEPT ![w.id] = cleared] /\ Return(w.err = "ok") /\ Fine
           \/ Return(FALSE) /\ Fail /\ UNCHANGED rows
        /\ UNCHANGED <<worldVars, dnsVars, hurt>>

\* The process restarts: the handling stops where it is and the consumer
\* starts after the current end of the stream.
Restart ==
    /\ pc # "idle" \/ events # <<>>
    /\ Lose
    /\ events' = <<>>
    /\ pc' = "idle" /\ w' = NoWork
    /\ settled' = settled \ {w.id}
    /\ hurt' = hurt \cup ({w.ip, w.prev.ip} \cap Ips)
    /\ UNCHANGED <<setting, ipam, changes, dnsVars, rows>>

Handle == \/ \E k \in Arrived : Take(k)
          \/ ReadAddress \/ ReadZones \/ SideZone \/ MoveOld \/ WriteNew
          \/ Save \/ Drop \/ Finish

Answers == {Away} \cup [live : {TRUE}, ip : setting.ips, host : Hosts \cup {None}]

Next ==
    \/ \E a \in setting.ids : Announce(a) \/ \E new \in Answers : Change(a, new)
    \/ \E z \in ZoneNames : CreateZone(z) \/ DeleteZone(z)
    \/ Handle
    \/ Restart

\* The consumer's loop never stops and every call has a timeout.
Spec == Init /\ [][Next]_vars /\ WF_vars(Handle)

-----------------------------------------------------------------------------
(* Properties.                                                             *)

Busy(ip) == pc # "idle" /\ ip \in {w.ip, w.prev.ip}

RowFor(s, z, name, ip) ==
    \E a \in Ids : /\ rows[a].has /\ rows[a].ip = ip
                   /\ rows[a].ref[s] = [zone |-> zone[z], name |-> name]

\* Every record the synchronisation wrote is known to a sync row, and so will
\* be removed when its address is renamed or released, unless a lost answer,
\* a restart, an unsaved row or a change of zones hit the handling: in
\* particular a call that plainly failed loses nothing ("a failed removal
\* also keeps it (retried on the next event)").
Accounted ==
    /\ \A r \in fwd : \/ RowFor("f", r.zone, r.host, r.ip)
                      \/ Busy(r.ip) \/ r.ip \in hurt
    /\ \A ip \in Ips : ptr[ip] # None => \/ RowFor("r", PtrZone, ip, ip)
                                         \/ Busy(ip) \/ ip \in hurt

\* DNS says of an address what IPAM says.
InSync(a) ==
    LET d    == ipam[a]
        mine == {r \in fwd : r.ip = d.ip}
    IN  d.live =>
          IF d.host = None THEN mine = {} /\ ptr[d.ip] = None
          ELSE /\ Live \cap ForwardZones # {}
               /\ mine = {[zone |-> LongestZone(Live \cap ForwardZones, d.host),
                           host |-> d.host, ip |-> d.ip]}
               /\ ptr[d.ip] = d.host

\* An address whose event was handled undisturbed is in sync, whatever failed
\* before and whatever happens to other addresses, as long as nothing changes
\* about it.
SettledInSync ==
    \A a \in settled : w.id = a \/ ipam[a].ip \in hurt \/ InSync(a)

\* Events are "applied idempotently": one that has nothing new to say changes
\* no record, not even for a moment.
Quiet ==
    [][\A a \in settled : w.id = a /\ Handle => UNCHANGED <<fwd, ptr, zone>>]_vars

\* Once IPAM comes to rest, every address gets in sync and stays so, and
\* nothing is left of addresses that are gone: "duplicate or out-of-order events
\* converge to IPAM's current state".
Converged ==
    /\ \A a \in Ids : InSync(a)
    /\ \A r \in fwd : \E a \in Ids : ipam[a].live /\ ipam[a].ip = r.ip
    /\ \A i \in Ips : ptr[i] # None => \E a \in Ids : ipam[a].live /\ ipam[a].ip = i
AlwaysConverges == <>[]Converged

\* The same where nothing failed, no zone was changed by hand and the events of
\* different addresses came in order.
Undisturbed == /\ setting.inOrder /\ ~setting.edited
               /\ faults = 0 /\ lost = 0
Converges == <>[](Undisturbed => Converged)
=============================================================================
