------------------------- MODULE ConfAndPlanProofs -------------------------
(***************************************************************************)
(* Proofs about the two components that work out what the servers are      *)
(* given.  The server configuration service, for any servers, any          *)
(* deployment and any number of requests, crashes and faults: the files    *)
(* follow the store, and a container that lags behind its file was         *)
(* reported.  The planning of reverse zones, for any addresses, prefix     *)
(* lengths and zones made by hand: no PTR record is shadowed, and a sized  *)
(* zone serves its subnet.                                                 *)
(***************************************************************************)
EXTENDS DnsConf, ReversePlan, TLAPS

\* Zenon first: it is the quicker one wherever there is no arithmetic.
USE ZenonT(2), SMT, Zenon

Applying == {"write", "restart", "hashes"}

\* f is a function of the servers.
OnNames(f) == f = [s \in Names |-> f[s]]

Typed ==
    /\ deploy \in Deployments
    /\ store \in Configs \cup {None}
    /\ OnNames(file) /\ OnNames(running) /\ OnNames(written)
    /\ lock \in Procs \cup {None}
    /\ pc \in [Procs -> Steps]
    /\ cfg \in [Procs -> Configs \cup {None}]
    /\ at \in [Procs -> Nat]

\* Only the holder of the mutex is inside, and it works through the servers.
Locked ==
    \A p \in Procs :
        /\ pc[p] \in Inside <=> lock = p
        /\ pc[p] \in {"save", "load"} => at[p] = 1
        /\ pc[p] \in {"write", "restart"} => at[p] \in 1..Len(Servers)
        /\ pc[p] = "hashes" => at[p] = Len(Servers) + 1
        /\ pc[p] = "load" => p = Boot
        /\ pc[p] = "save" => p \in Requests
        /\ p \in Requests /\ pc[p] \in {"wait", "save"} => cfg[p] \in Configs

\* A file that differs from what its container runs.
Lagging ==
    \A s \in Names :
        \/ running[s] = file[s] \/ s \in owed \/ s \in cut
        \/ \E p \in Procs : pc[p] = "restart" /\ Servers[at[p]] = s

Follows(s) == s \in deploy.managed => file[s] = Render(store[s]) \/ s \in excused

\* An apply works with what is stored, and has brought the servers before the
\* current one in line.
Underway ==
    \A p \in Procs : pc[p] \in Applying =>
        /\ cfg[p] = store /\ store # None
        /\ \A i \in 1..Len(Servers) :
            i < at[p] \/ (i = at[p] /\ pc[p] = "restart") => Follows(Servers[i])

\* Between applies all servers are in line once start-up is over.
Between ==
    /\ pc[Boot] = "done" /\ store # None
    /\ \A p \in Procs : pc[p] \notin Applying
    => \A s \in Names : Follows(s)

Inv == Typed /\ Locked /\ Lagging /\ Underway /\ Between

-----------------------------------------------------------------------------
(* Validation.                                                             *)

\* Masking twice is masking once.
LEMMA NetworkOnce == \A e \in Entries : network(e) \in Entries /\ network(network(e)) = network(e)
<1> SUFFICES ASSUME NEW e \in Entries
             PROVE  network(e) \in Entries /\ network(network(e)) = network(e)
  OBVIOUS
<1>1. e = [net |-> e.net, host |-> e.host] /\ e.net \in Nets
  BY DEF Entries
<1>2. network(e) = [net |-> e.net, host |-> 0]
  BY <1>1 DEF network
<1>3. network([net |-> e.net, host |-> 0]) = [net |-> e.net, host |-> 0]
  BY DEF network
<1>4. QED
  BY <1>1, <1>2, <1>3 DEF Entries

\* A list that was made canonical is canonical.
LEMMA ListOnce ==
    ASSUME NEW l \in Seq(Entries)
    PROVE  list(l) \in Seq(Entries) /\ list(list(l)) = list(l)
<1>1. DOMAIN list(l) = DOMAIN l /\ \A i \in DOMAIN l : list(l)[i] = network(l[i])
  BY DEF list
<1>2. \A i \in DOMAIN l : l[i] \in Entries /\ network(l[i]) \in Entries
  BY NetworkOnce
<1>3. list(l) \in Seq(Entries)
  BY <1>2 DEF list
<1>4. list(list(l)) = [i \in DOMAIN l |-> network(network(l[i]))]
  BY <1>1 DEF list
<1>5. QED
  BY <1>2, <1>3, <1>4, NetworkOnce DEF list

\* What is stored was validated, and validating it again changes nothing: what
\* start-up re-applies is what was saved.
LEMMA ValidateOnce == \A d \in Configs : Validate(d) = d
<1> SUFFICES ASSUME NEW e \in Drafts, NEW d, d = Validate(e) PROVE Validate(d) = d
  BY DEF Configs
<1>1. \A s \in Names : e[s] \in Sections /\ e[s].list \in Seq(Entries)
  BY DnsConfConstants DEF Sections
<1>2. \A s \in Names : d[s].list = list(e[s].list) /\ d[s].open = e[s].open
  BY DEF Validate
<1>3. \A s \in Names : list(d[s].list) = d[s].list
  BY <1>1, <1>2, ListOnce
<1>4. QED
  BY <1>2, <1>3 DEF Validate

\* There is a server, and every position names one.
LEMMA Positions ==
    /\ Len(Servers) \in Nat \ {0}
    /\ \A i \in 1..Len(Servers) : Servers[i] \in Names
    /\ \A s \in Names : \E i \in 1..Len(Servers) : Servers[i] = s
BY DnsConfConstants DEF Names

\* A validated draft is a configuration.
LEMMA Validated ==
    ASSUME NEW d \in Drafts, Valid(d)
    PROVE  Validate(d) \in Configs
BY DEF Configs

-----------------------------------------------------------------------------
(* The steps.                                                              *)

\* Nothing is stored and nobody at work at the start.
LEMMA InvInit == Init => Inv
BY Positions, DnsConfConstants
   DEF Init, Inv, Typed, OnNames, Steps, Inside, Locked, Lagging, Applying, Underway,
       Between, Procs

\* A request is submitted, or the mutex is taken: nothing is applied yet.
LEMMA EnterKeeps ==
    ASSUME Inv, NEW p \in Procs,
           Acquire(p) \/ (p \in Requests /\ \E d \in Drafts : Submit(p, d))
    PROVE  Inv'
<1>1. /\ UNCHANGED <<deploy, store, file, running, written, owed, excused, cut>>
      /\ pc[p] \in {"idle", "wait"} /\ pc' = [pc EXCEPT ![p] = pc'[p]]
      /\ pc'[p] \in {"wait", "load", "save"}
      /\ \A q \in Procs \ {p} : pc'[q] = pc[q] /\ cfg'[q] = cfg[q] /\ at'[q] = at[q]
  BY DEF Acquire, Submit, Goto, conf, aux, Inv, Typed
<1>2. Typed'
  <2>1. CASE Acquire(p)
    BY <2>1 DEF Acquire, Goto, conf, aux, Inv, Typed, OnNames, Steps
  <2>2. CASE p \in Requests /\ \E d \in Drafts : Submit(p, d)
    BY <2>2, Validated DEF Submit, Goto, conf, aux, Inv, Typed, OnNames, Steps
  <2>3. QED
    BY <2>1, <2>2
<1>3. Locked'
  <2>1. CASE Acquire(p)
    BY <2>1, DnsConfConstants DEF Acquire, Goto, Inv, Typed, Locked, Inside, Procs
  <2>2. CASE p \in Requests /\ \E d \in Drafts : Submit(p, d)
    BY <2>2, Validated DEF Submit, Goto, Inv, Typed, Locked, Inside
  <2>3. QED
    BY <2>1, <2>2
<1>4. Lagging'
  BY <1>1 DEF Inv, Lagging
<1>5. Underway'
  BY <1>1 DEF Inv, Underway, Applying, Follows
<1>6. Between'
  <2> SUFFICES ASSUME pc'[Boot] = "done", store' # None,
                      \A q \in Procs : pc'[q] \notin Applying, NEW s \in Names
               PROVE  Follows(s)'
    BY DEF Between
  <2>1. pc[Boot] = "done" /\ \A q \in Procs : pc[q] \notin Applying
    BY <1>1 DEF Applying, Procs
  <2>2. Follows(s)
    BY <1>1, <2>1 DEF Inv, Between
  <2>3. QED
    BY <1>1, <2>2 DEF Follows
<1>7. QED
  BY <1>2, <1>3, <1>4, <1>5, <1>6 DEF Inv

\* The holder of the mutex is the only process inside.
LEMMA Alone ==
    ASSUME Inv, NEW p \in Procs, pc[p] \in Inside, NEW q \in Procs, q # p
    PROVE  pc[q] \notin Inside /\ pc[q] \notin Applying
BY DEF Inv, Locked, Inside, Applying

\* The mutex is released by p.
LEMMA Released ==
    ASSUME Inv, NEW p \in Procs, pc[p] \in Inside, Return(p), UNCHANGED <<cfg, at>>
    PROVE  /\ pc' \in [Procs -> Steps] /\ lock' = None /\ Locked'
           /\ pc'[p] \in {"idle", "done"} /\ (pc'[p] = "done" => p = Boot)
           /\ \A q \in Procs \ {p} : pc'[q] = pc[q]
           /\ \A q \in Procs : pc'[q] \notin Applying /\ pc'[q] # "restart"
<1>1. /\ lock' = None /\ pc' = [pc EXCEPT ![p] = IF p = Boot THEN "done" ELSE "idle"]
      /\ pc \in [Procs -> Steps]
  BY DEF Return, Goto, Inv, Typed
<1>2. /\ pc' \in [Procs -> Steps] /\ pc'[p] = IF p = Boot THEN "done" ELSE "idle"
      /\ \A q \in Procs \ {p} : pc'[q] = pc[q]
  BY <1>1 DEF Steps
<1>3. \A q \in Procs : pc'[q] \notin Inside
  BY <1>2, Alone DEF Inside
<1>4. Locked'
  BY <1>1, <1>2, <1>3, DnsConfConstants DEF Inv, Locked, Inside
<1>5. QED
  BY <1>1, <1>2, <1>3, <1>4 DEF Inside, Applying

\* Save: stored and about to be applied, refused, or stored unbeknown to the
\* request.
LEMMA SaveKeeps == ASSUME Inv, NEW p \in Requests, Save(p) PROVE Inv'
<1>1. /\ p \in Procs /\ p # Boot /\ pc[p] = "save" /\ pc[p] \in Inside /\ cfg[p] \in Configs
      /\ UNCHANGED <<deploy, file, running, cfg, at, owed, written, cut>>
  BY DnsConfConstants DEF Save, Procs, Inside, Inv, Locked
<1>2. CASE /\ store' = cfg[p] /\ Goto(p, "write") /\ UNCHANGED <<lock, excused>>
  <2>1. /\ pc' = [pc EXCEPT ![p] = "write"] /\ pc'[p] = "write" /\ at[p] = 1 /\ lock = p
        /\ \A q \in Procs \ {p} : pc'[q] = pc[q] /\ pc[q] \notin Inside /\ pc[q] \notin Applying
    BY <1>1, <1>2, Alone DEF Goto, Inv, Typed, Locked
  <2>2. Typed'
    BY <1>1, <1>2, <2>1 DEF Inv, Typed, OnNames, Steps
  <2>3. Locked'
    BY <1>1, <1>2, <2>1, Positions DEF Inv, Locked, Inside
  <2>4. Lagging'
    BY <1>1, <2>1 DEF Inv, Lagging
  <2>5. Underway'
    BY <1>1, <1>2, <2>1, DnsConfConstants DEF Underway
  <2>6. Between'
    BY <1>1, <2>1 DEF Between, Applying
  <2>7. QED
    BY <2>2, <2>3, <2>4, <2>5, <2>6 DEF Inv
<1>3. CASE Return(p) /\ (UNCHANGED <<store, excused>> \/ (store' = cfg[p] /\ excused' = Names))
  <2>1. /\ pc' \in [Procs -> Steps] /\ lock' = None /\ Locked'
        /\ \A q \in Procs \ {p} : pc'[q] = pc[q]
        /\ \A q \in Procs : pc'[q] \notin Applying /\ pc'[q] # "restart"
    BY <1>1, <1>3, Released
  <2>2. Typed'
    BY <1>1, <1>3, <2>1 DEF Inv, Typed, OnNames
  <2>3. \A q \in Procs : pc[q] \notin Applying /\ pc[q] # "restart"
    BY <1>1, Alone DEF Applying
  <2>4. Lagging'
    BY <1>1, <2>3 DEF Inv, Lagging
  <2>5. Underway'
    BY <2>1 DEF Underway
  <2>6. Between'
    <3> SUFFICES ASSUME pc'[Boot] = "done", store' # None, NEW s \in Names PROVE Follows(s)'
      BY DEF Between
    <3>1. CASE UNCHANGED <<store, excused>>
      BY <1>1, <2>1, <2>3, <3>1 DEF Inv, Between, Follows, Procs
    <3>2. CASE excused' = Names
      BY <3>2 DEF Follows
    <3>3. QED
      BY <1>3, <3>1, <3>2
  <2>7. QED
    BY <2>1, <2>2, <2>4, <2>5, <2>6 DEF Inv
<1>4. QED
  BY <1>2, <1>3 DEF Save

\* Load: start-up applies what is stored, as it is stored.
LEMMA LoadKeeps == ASSUME Inv, Load PROVE Inv'
<1>1. /\ Boot \in Procs /\ pc[Boot] = "load" /\ pc[Boot] \in Inside
      /\ UNCHANGED <<deploy, store, file, running, at, owed, written, cut, excused>>
      /\ \A q \in Procs : pc[q] \notin Applying /\ pc[q] # "restart"
      /\ \A q \in Procs \ {Boot} : pc[q] \notin Inside
  BY Alone DEF Load, Procs, Inside, conf, aux, Applying
<1>2. CASE ~stored /\ Return(Boot) /\ UNCHANGED cfg
  <2>1. /\ pc' \in [Procs -> Steps] /\ lock' = None /\ Locked'
        /\ \A q \in Procs : pc'[q] \notin Applying /\ pc'[q] # "restart"
    BY <1>1, <1>2, Released
  <2>2. Typed' /\ Lagging'
    BY <1>1, <1>2, <2>1 DEF Inv, Typed, OnNames, Lagging
  <2>3. Underway' /\ Between'
    BY <1>1, <1>2, <2>1 DEF stored, Underway, Between
  <2>4. QED
    BY <2>1, <2>2, <2>3 DEF Inv
<1>3. CASE /\ stored /\ Goto(Boot, "write") /\ UNCHANGED lock
           /\ cfg' = [cfg EXCEPT ![Boot] = Validate(store)]
  <2>1. store \in Configs /\ Validate(store) = store
    BY <1>3, ValidateOnce DEF stored, Inv, Typed
  <2>2. /\ pc' = [pc EXCEPT ![Boot] = "write"] /\ pc'[Boot] = "write" /\ cfg'[Boot] = store
        /\ \A q \in Procs \ {Boot} : pc'[q] = pc[q] /\ cfg'[q] = cfg[q]
        /\ at[Boot] = 1 /\ lock = Boot
    BY <1>1, <1>3, <2>1 DEF Goto, Inv, Typed, Locked
  <2>3. Typed'
    BY <1>1, <1>3, <2>1, <2>2 DEF Inv, Typed, OnNames, Steps
  <2>4. Locked'
    BY <1>1, <1>3, <2>2, Positions, DnsConfConstants DEF Inv, Locked, Inside
  <2>5. Lagging'
    BY <1>1 DEF Inv, Lagging
  <2>6. Underway'
    BY <1>1, <1>3, <2>2 DEF Underway, stored
  <2>7. Between'
    BY <1>1, <2>2 DEF Between
  <2>8. QED
    BY <2>3, <2>4, <2>5, <2>6, <2>7 DEF Inv
<1>4. CASE lock' = None /\ Goto(Boot, "wait") /\ UNCHANGED cfg
  <2>1. /\ pc' = [pc EXCEPT ![Boot] = "wait"] /\ pc'[Boot] = "wait"
        /\ \A q \in Procs \ {Boot} : pc'[q] = pc[q]
    BY <1>1, <1>4 DEF Goto, Inv, Typed
  <2>2. Typed' /\ Lagging'
    BY <1>1, <1>4, <2>1 DEF Inv, Typed, OnNames, Steps, Lagging
  <2>3. Locked'
    BY <1>1, <1>4, <2>1, DnsConfConstants DEF Inv, Locked, Inside
  <2>4. Underway' /\ Between'
    BY <1>1, <2>1 DEF Underway, Between, Applying
  <2>5. QED
    BY <2>2, <2>3, <2>4 DEF Inv
<1>5. QED
  BY <1>2, <1>3, <1>4 DEF Load

\* On to the next server, or to the hashes.
LEMMA Advanced ==
    ASSUME Inv, NEW p \in Procs, pc[p] \in {"write", "restart"}, Advance(p),
           UNCHANGED <<lock, cfg>>
    PROVE  /\ pc' \in [Procs -> Steps] /\ at' \in [Procs -> Nat] /\ Locked'
           /\ pc'[p] \in {"write", "hashes"} /\ at'[p] = at[p] + 1
           /\ \A q \in Procs \ {p} : pc'[q] = pc[q] /\ at'[q] = at[q]
           /\ \A q \in Procs : pc'[q] # "restart"
<1>1. at[p] \in 1..Len(Servers) /\ Len(Servers) \in Nat /\ pc[p] \in Inside
  BY Positions DEF Inv, Locked, Inside
<1>2. /\ at' = [at EXCEPT ![p] = at[p] + 1] /\ at[p] + 1 \in Nat
      /\ pc' = [pc EXCEPT ![p] = IF at[p] = Len(Servers) THEN "hashes" ELSE "write"]
  BY <1>1 DEF Advance, Goto
<1>3. /\ pc' \in [Procs -> Steps] /\ at' \in [Procs -> Nat]
      /\ pc'[p] = IF at[p] = Len(Servers) THEN "hashes" ELSE "write"
      /\ at'[p] = at[p] + 1
      /\ \A q \in Procs \ {p} : pc'[q] = pc[q] /\ at'[q] = at[q]
  BY <1>2 DEF Inv, Typed, Steps
<1>4. Locked'
  BY <1>1, <1>3 DEF Inv, Locked, Inside
<1>5. QED
  BY <1>1, <1>3, <1>4, Alone DEF Inside

\* Applying goes on: the file of the current server is in line or excused, and
\* the files of the others are as they were.
LEMMA ApplyGoesOn ==
    ASSUME Inv, NEW p \in Procs, pc[p] \in {"write", "restart"},
           NEW s \in Names, s = Servers[at[p]],
           UNCHANGED <<deploy, store, cfg>>,
           \A q \in Procs \ {p} : pc'[q] = pc[q],
           \/ pc'[p] \in {"write", "hashes"} /\ at'[p] = at[p] + 1
           \/ pc'[p] = "restart" /\ at'[p] = at[p],
           Follows(s)',
           \A o \in Names \ {s} : file'[o] = file[o] /\ (o \in excused <=> o \in excused')
    PROVE  Underway' /\ Between'
<1>1. /\ pc[p] \in Applying /\ pc[p] \in Inside /\ pc'[p] \in Applying
      /\ at[p] \in 1..Len(Servers) /\ Len(Servers) \in Nat
  BY Positions DEF Applying, Inside, Inv, Locked
<1>2. \A q \in Procs \ {p} : pc'[q] \notin Applying
  BY <1>1, Alone
<1>3. cfg'[p] = store' /\ store' # None
  BY <1>1 DEF Inv, Underway
<1>4. ASSUME NEW i \in 1..Len(Servers),
             i < at'[p] \/ (i = at'[p] /\ pc'[p] = "restart")
      PROVE  Follows(Servers[i])'
  <2>1. CASE Servers[i] = s
    BY <2>1
  <2>2. CASE Servers[i] # s
    <3>1. i < at[p] /\ Servers[i] \in Names
      BY <1>1, <1>4, <2>2, Positions
    <3>2. Follows(Servers[i])
      BY <1>1, <3>1 DEF Inv, Underway
    <3>3. QED
      BY <2>2, <3>1, <3>2 DEF Follows
  <2>3. QED
    BY <2>1, <2>2
<1>5. QED
  BY <1>1, <1>2, <1>3, <1>4 DEF Underway, Between

\* Write: skipped, equal, replaced, or failed.
LEMMA WriteKeeps == ASSUME Inv, NEW p \in Procs, Write(p) PROVE Inv'
<1> DEFINE s == Servers[at[p]]
           c == Render(cfg[p][s])
<1>1. /\ pc[p] = "write" /\ s \in Names /\ pc[p] \in Inside
      /\ cfg[p] = store /\ c = Render(store[s])
      /\ UNCHANGED <<deploy, store, running, lock, cfg, owed>>
      /\ \A q \in Procs : pc[q] # "restart"
  BY Positions, Alone DEF Write, Inside, Inv, Locked, Underway, Applying
<1>2. OnNames(file) /\ OnNames(running) /\ OnNames(written)
  BY DEF Inv, Typed
<1>3. CASE /\ Advance(p) /\ UNCHANGED <<file, cut>>
           /\ written' = written \/ written' = [written EXCEPT ![s] = c]
           /\ \/ s \notin deploy.managed /\ excused' = excused
              \/ file[s] = c /\ excused' = excused \ {s}
              \/ excused' = excused \cup {s}
  <2>1. /\ pc' \in [Procs -> Steps] /\ at' \in [Procs -> Nat] /\ Locked'
        /\ pc'[p] \in {"write", "hashes"} /\ at'[p] = at[p] + 1
        /\ \A q \in Procs \ {p} : pc'[q] = pc[q]
    BY <1>1, <1>3, Advanced
  <2>2. Typed'
    BY <1>1, <1>2, <1>3, <2>1 DEF Inv, Typed, OnNames
  <2>3. Lagging'
    BY <1>1, <1>3 DEF Inv, Lagging
  <2>4. PICK x \in Names : x = s
    BY <1>1
  <2>5. Follows(x)'
    BY <1>1, <1>3, <2>4 DEF Follows
  <2>6. \A o \in Names \ {x} : file'[o] = file[o] /\ (o \in excused <=> o \in excused')
    BY <1>3, <2>4
  <2>7. Underway' /\ Between'
    BY <1>1, <2>1, <2>4, <2>5, <2>6, ApplyGoesOn
  <2>8. QED
    BY <2>1, <2>2, <2>3, <2>7 DEF Inv
<1>4. CASE /\ file' = [file EXCEPT ![s] = c] /\ written' = [written EXCEPT ![s] = c]
           /\ excused' = excused \ {s} /\ cut' = cut \ {s}
           /\ Goto(p, "restart") /\ UNCHANGED at
  <2>1. /\ pc' = [pc EXCEPT ![p] = "restart"] /\ pc'[p] = "restart" /\ at'[p] = at[p]
        /\ \A q \in Procs \ {p} : pc'[q] = pc[q]
    BY <1>4 DEF Goto, Inv, Typed
  <2>2. /\ OnNames(file') /\ file'[s] = c /\ \A o \in Names \ {s} : file'[o] = file[o]
    BY <1>1, <1>2, <1>4 DEF OnNames
  <2>3. Typed'
    BY <1>1, <1>2, <1>4, <2>1, <2>2 DEF Inv, Typed, OnNames, Steps
  <2>4. Locked'
    BY <1>1, <1>4, <2>1 DEF Inv, Locked, Inside
  <2>5. PICK x \in Names : x = s
    BY <1>1
  <2>6. Lagging'
    <3> SUFFICES ASSUME NEW o \in Names
                 PROVE  \/ running'[o] = file'[o] \/ o \in owed' \/ o \in cut'
                        \/ \E q \in Procs : pc'[q] = "restart" /\ Servers[at'[q]] = o
      BY DEF Lagging
    <3>1. CASE o = s
      BY <2>1, <3>1
    <3>2. CASE o # s
      BY <1>1, <1>4, <2>2, <3>2 DEF Inv, Lagging
    <3>3. QED
      BY <3>1, <3>2
  <2>7. Follows(x)'
    BY <1>1, <1>4, <2>2, <2>5 DEF Follows
  <2>8. \A o \in Names \ {x} : file'[o] = file[o] /\ (o \in excused <=> o \in excused')
    BY <1>4, <2>2, <2>5
  <2>9. Underway' /\ Between'
    BY <1>1, <2>1, <2>5, <2>7, <2>8, ApplyGoesOn
  <2>10. QED
    BY <2>3, <2>4, <2>6, <2>9 DEF Inv
<1>5. QED
  BY <1>3, <1>4 DEF Write

\* Restart: the container reads the file, or somebody is told.
LEMMA RestartKeeps == ASSUME Inv, NEW p \in Procs, Restart(p) PROVE Inv'
<1> DEFINE s == Servers[at[p]]
<1>1. /\ pc[p] = "restart" /\ s \in Names /\ pc[p] \in Inside
      /\ UNCHANGED <<deploy, store, file, lock, cfg, written, excused, cut>>
      /\ \A q \in Procs \ {p} : pc[q] # "restart"
  BY Positions, Alone DEF Restart, Inside, Inv, Locked
<1>2. /\ pc' \in [Procs -> Steps] /\ at' \in [Procs -> Nat] /\ Locked'
      /\ pc'[p] \in {"write", "hashes"} /\ at'[p] = at[p] + 1
      /\ \A q \in Procs \ {p} : pc'[q] = pc[q]
  BY <1>1, Advanced DEF Restart
<1>3. /\ running' \in {running, [running EXCEPT ![s] = file[s]]}
      /\ owed' \in {owed \cup {s}, owed \ {s}}
      /\ s \in owed' \/ running' = [running EXCEPT ![s] = file[s]]
  BY DEF Restart, Restarted
<1>4. /\ OnNames(running') /\ \A o \in Names \ {s} : running'[o] = running[o]
      /\ s \in owed' \/ running'[s] = file[s]
  BY <1>1, <1>3 DEF Inv, Typed, OnNames
<1>5. Typed'
  BY <1>1, <1>2, <1>4 DEF Inv, Typed, OnNames
<1>6. Lagging'
  <2> SUFFICES ASSUME NEW o \in Names
               PROVE  running'[o] = file'[o] \/ o \in owed' \/ o \in cut'
    BY DEF Lagging
  <2>1. CASE o = s
    BY <1>1, <1>4, <2>1
  <2>2. CASE o # s
    BY <1>1, <1>3, <1>4, <2>2 DEF Inv, Lagging
  <2>3. QED
    BY <2>1, <2>2
<1>7. PICK x \in Names : x = s
  BY <1>1
<1>8. Follows(x)'
  BY <1>1, <1>7, Positions DEF Inv, Underway, Applying, Follows, Locked
<1>9. Underway' /\ Between'
  BY <1>1, <1>2, <1>7, <1>8, ApplyGoesOn
<1>10. QED
  BY <1>2, <1>5, <1>6, <1>9 DEF Inv

\* The apply is over: all servers are in line.
LEMMA HashesKeep == ASSUME Inv, NEW p \in Procs, SetConfigHashes(p) PROVE Inv'
<1>1. /\ pc[p] = "hashes" /\ pc[p] \in Inside /\ pc[p] \in Applying
      /\ at[p] = Len(Servers) + 1
      /\ UNCHANGED <<deploy, store, file, running, cfg, at, owed, written, cut, excused>>
      /\ \A q \in Procs : pc[q] # "restart"
  BY Alone DEF SetConfigHashes, Inside, Applying, aux, Inv, Locked
<1>2. /\ pc' \in [Procs -> Steps] /\ lock' = None /\ Locked'
      /\ \A q \in Procs : pc'[q] \notin Applying /\ pc'[q] # "restart"
  BY <1>1, Released DEF SetConfigHashes
<1>3. Typed' /\ Lagging'
  BY <1>1, <1>2 DEF Inv, Typed, OnNames, Lagging
<1>4. ASSUME NEW s \in Names PROVE Follows(s)
  <2>1. PICK i \in 1..Len(Servers) : Servers[i] = s
    BY Positions
  <2>2. i < at[p]
    BY <1>1, Positions
  <2>3. QED
    BY <1>1, <2>1, <2>2 DEF Inv, Underway
<1>5. Underway' /\ Between'
  BY <1>1, <1>2, <1>4 DEF Underway, Between, Follows
<1>6. QED
  BY <1>2, <1>3, <1>5 DEF Inv

\* A crash: start-up is ahead again, and restarts that were due are cut off.
LEMMA CrashKeeps == ASSUME Inv, Crash PROVE Inv'
<1>1. /\ UNCHANGED <<deploy, store, file, running, cfg, at, owed, written, excused>>
      /\ lock' = None /\ pc' = [p \in Procs |-> IF p = Boot THEN "wait" ELSE "idle"]
      /\ cut' = cut \cup {Servers[at[p]] : p \in {q \in Procs : pc[q] = "restart"}}
  BY DEF Crash, conf
<1>2. \A p \in Procs : pc'[p] = IF p = Boot THEN "wait" ELSE "idle"
  BY <1>1
<1>3. Typed'
  BY <1>1 DEF Inv, Typed, OnNames, Steps
<1>4. Locked'
  BY <1>1, <1>2, DnsConfConstants DEF Locked, Inside
<1>5. Lagging'
  BY <1>1 DEF Inv, Lagging
<1>6. Underway' /\ Between'
  BY <1>2 DEF Underway, Between, Applying, Procs
<1>7. QED
  BY <1>3, <1>4, <1>5, <1>6 DEF Inv

\* A container restarted by hand runs its file; a file edited by hand is excused.
LEMMA HandsKeep == ASSUME Inv, NEW s \in Names, HandRestart(s) \/ Drift(s) PROVE Inv'
<1>1. UNCHANGED <<deploy, store, lock, pc, cfg, at, written>>
  BY DEF HandRestart, Drift, proc
<1>2. /\ OnNames(file') /\ OnNames(running')
      /\ \A o \in Names \ {s} : /\ file'[o] = file[o] /\ running'[o] = running[o]
                                /\ o \in owed <=> o \in owed'
                                /\ o \in cut <=> o \in cut'
                                /\ o \in excused <=> o \in excused'
      /\ running'[s] = file'[s] \/ s \in cut'
      /\ (file'[s] = file[s] /\ excused' = excused) \/ s \in excused'
  BY DEF HandRestart, Drift, Restarted, Inv, Typed, OnNames
<1>3. Typed'
  BY <1>1, <1>2 DEF Inv, Typed, OnNames
<1>4. Locked'
  BY <1>1 DEF Inv, Locked
<1>5. Lagging'
  BY <1>1, <1>2 DEF Inv, Lagging
<1>6. ASSUME NEW o \in Names, Follows(o) PROVE Follows(o)'
  BY <1>1, <1>2, <1>6 DEF Follows
<1>7. Underway'
  BY <1>1, <1>6, Positions DEF Inv, Underway
<1>8. Between'
  BY <1>1, <1>6 DEF Inv, Between
<1>9. QED
  BY <1>3, <1>4, <1>5, <1>7, <1>8 DEF Inv

\* The invariant is inductive.
LEMMA InvStep == Inv /\ [Next]_vars => Inv'
<1> SUFFICES ASSUME Inv, [Next]_vars PROVE Inv'
  OBVIOUS
<1>1. CASE UNCHANGED vars
  BY <1>1 DEF vars, Inv, Typed, OnNames, Locked, Lagging, Underway, Between, Follows
<1>2. ASSUME NEW p \in Requests, NEW d \in Drafts, Submit(p, d) PROVE Inv'
  BY <1>2, EnterKeeps DEF Procs
<1>3. ASSUME NEW p \in Procs, Acquire(p) \/ Write(p) \/ Restart(p) \/ SetConfigHashes(p)
      PROVE  Inv'
  BY <1>3, EnterKeeps, WriteKeeps, RestartKeeps, HashesKeep
<1>4. QED
  BY <1>1, <1>2, <1>3, SaveKeeps, LoadKeeps, CrashKeeps, HandsKeep DEF Next

-----------------------------------------------------------------------------
\* Service.Update, Reapply and apply: once start-up is over and no apply is in
\* progress the managed files hold what is stored, but for the files excused.
THEOREM FilesFollow == Spec => []FilesFollowStore
<1>1. Inv => FilesFollowStore
  <2> SUFFICES ASSUME Inv, pc[Boot] = "done", lock = None, store # None,
                      NEW s \in deploy.managed
               PROVE  file[s] = Render(store[s]) \/ s \in excused
    BY DEF FilesFollowStore
  <2>1. s \in Names
    BY DnsConfConstants DEF Inv, Typed
  <2>2. \A p \in Procs : pc[p] \notin Applying
    BY DnsConfConstants DEF Inv, Locked, Inside, Applying
  <2>3. QED
    BY <2>1, <2>2 DEF Inv, Between, Follows
<1>2. QED
  BY InvInit, InvStep, <1>1, PTL DEF Spec

\* Service.restart: with no apply in progress a container that does not run its
\* file was reported, but for the restarts cut off and the files edited by hand.
THEOREM LagReported == Spec => []StaleReported
<1>1. Inv => StaleReported
  BY DnsConfConstants DEF Inv, Locked, Inside, Lagging, StaleReported
<1>2. QED
  BY InvInit, InvStep, <1>1, PTL DEF Spec

-----------------------------------------------------------------------------
(* The reverse zones.                                                      *)

LEMMA Entry ==
    ASSUME NEW S, NEW s \in Seq(S), NEW n \in 1..Len(s)
    PROVE  s[n] \in S
  OBVIOUS

LEMMA Wider ==
    ASSUME NEW S, NEW T, S \subseteq T, NEW s \in Seq(S)
    PROVE  s \in Seq(T)
  OBVIOUS

LEMMA Joined ==
    ASSUME NEW S, NEW s \in Seq(S), NEW t \in Seq(S)
    PROVE  /\ s \o t \in Seq(S) /\ Len(s \o t) = Len(s) + Len(t)
           /\ \A i \in 1..Len(s) + Len(t) :
                 (s \o t)[i] = IF i <= Len(s) THEN s[i] ELSE t[i - Len(s)]
  OBVIOUS

\* The labels of reverse names.
Labels == {"arpa", "in-addr", "ip6"} \cup Nat

\* InZone, label by label.
LEMMA InZoneLabels ==
    ASSUME NEW name \in Seq(Labels), NEW zn \in Seq(Labels)
    PROVE  InZone(name, zn) <=>
               /\ Len(zn) <= Len(name)
               /\ \A i \in 1..Len(zn) : name[i] = zn[i]
<1> SUFFICES ASSUME Len(zn) <= Len(name)
             PROVE  SubSeq(name, 1, Len(zn)) = zn <=>
                        \A i \in 1..Len(zn) : name[i] = zn[i]
  BY DEF InZone
<1> DEFINE top == SubSeq(name, 1, Len(zn))
<1>1. /\ top \in Seq(Labels) /\ Len(top) = Len(zn)
      /\ \A i \in 1..Len(zn) : top[i] = name[i]
  OBVIOUS
<1> HIDE DEF top
<1>2. ASSUME \A i \in 1..Len(zn) : name[i] = zn[i] PROVE top = zn
  <2>1. \A i \in 1..Len(zn) : top[i] = zn[i]
    BY <1>1, <1>2
  <2>2. QED
    BY <1>1, <2>1
<1>3. QED
  BY <1>1, <1>2 DEF top

\* Two zones that contain one name are nested: the shorter one contains whatever
\* the longer one does.
LEMMA Nested ==
    ASSUME NEW name \in Seq(Labels), NEW y \in Seq(Labels), NEW z \in Seq(Labels),
           NEW other \in Seq(Labels),
           InZone(name, y), InZone(name, z), Len(y) <= Len(z), InZone(other, z)
    PROVE  InZone(other, y)
<1>1. /\ Len(z) <= Len(name) /\ \A i \in 1..Len(z) : name[i] = z[i]
      /\ \A i \in 1..Len(y) : name[i] = y[i]
      /\ Len(z) <= Len(other) /\ \A i \in 1..Len(z) : other[i] = z[i]
  BY InZoneLabels
<1>2. Len(y) \in Nat /\ Len(z) \in Nat /\ Len(other) \in Nat
  OBVIOUS
<1>3. Len(y) <= Len(other) /\ \A i \in 1..Len(y) : other[i] = y[i]
  BY <1>1, <1>2
<1>4. QED
  BY <1>3, InZoneLabels

-----------------------------------------------------------------------------
(* The sized zone.                                                         *)

\* The number of the address's parts that are in the zone's name.
Parts(a, prefix) == Bits(a, prefix) \div Unit(a)

\* An address in either family.
LEMMA Families ==
    ASSUME NEW a \in Addresses
    PROVE  /\ a \in Seq(Labels) /\ Len(a) \in {4, 32}
           /\ \A i \in 1..Len(a) : a[i] \in 0..(IF V4(a) THEN 255 ELSE 15)
<1>1. 0..255 \subseteq Labels /\ 0..15 \subseteq Labels
  BY DEF Labels
<1>2. CASE a \in Seq(0..255) /\ Len(a) = 4
  <2> DEFINE D == 0..255
  <2>1. D \subseteq Labels /\ a \in Seq(D)
    BY <1>1, <1>2
  <2> HIDE DEF D
  <2>2. a \in Seq(Labels)
    BY <2>1, Wider
  <2>3. \A i \in 1..Len(a) : a[i] \in 0..255
    BY <1>2, Entry
  <2>4. QED
    BY <1>2, <2>2, <2>3 DEF V4
<1>3. CASE a \in Seq(0..15) /\ Len(a) = 32
  <2> DEFINE D == 0..15
  <2>1. D \subseteq Labels /\ a \in Seq(D)
    BY <1>1, <1>3
  <2> HIDE DEF D
  <2>2. a \in Seq(Labels)
    BY <2>1, Wider
  <2>3. \A i \in 1..Len(a) : a[i] \in 0..15
    BY <1>3, Entry
  <2>4. QED
    BY <1>3, <2>2, <2>3 DEF V4
<1>4. QED
  BY <1>2, <1>3, PlanConstants

\* The name of the family's reverse tree.
LEMMA SuffixNames ==
    ASSUME NEW a
    PROVE  Suffix(a) \in Seq(Labels) /\ Len(Suffix(a)) = 2
<1>1. <<"arpa", "in-addr">> \in Seq(Labels) /\ <<"arpa", "ip6">> \in Seq(Labels)
  BY DEF Labels
<1>2. QED
  BY <1>1 DEF Suffix

\* Between one part and all but one, and no more than the prefix has room for.
LEMMA PartsBounded ==
    ASSUME NEW a \in Addresses, NEW prefix \in Int
    PROVE  /\ Parts(a, prefix) \in 1..(Len(a) - 1)
           /\ Low(a) <= prefix /\ prefix <= Full(a) => Parts(a, prefix) <= prefix \div Unit(a)
<1>1. CASE Len(a) = 4
  BY <1>1 DEF Parts, Bits, Unit, Low, High, Full, V4
<1>2. CASE Len(a) = 32
  BY <1>2 DEF Parts, Bits, Unit, Low, High, Full, V4
<1>3. QED
  BY <1>1, <1>2, Families

\* A name under a suffix of two labels.
LEMMA Below ==
    ASSUME NEW s \in Seq(Labels), NEW t \in Seq(Labels), Len(s) = 2
    PROVE  /\ s \o t \in Seq(Labels) /\ Len(s \o t) = Len(t) + 2
           /\ (s \o t)[1] = s[1] /\ (s \o t)[2] = s[2]
           /\ \A i \in 1..Len(t) : (s \o t)[i + 2] = t[i]
<1> DEFINE u == s \o t
<1>1. /\ u \in Seq(Labels) /\ Len(u) = Len(s) + Len(t)
      /\ \A i \in 1..(Len(s) + Len(t)) : u[i] = IF i <= Len(s) THEN s[i] ELSE t[i - Len(s)]
  BY Joined
<1>2. Len(t) \in Nat
  OBVIOUS
<1> HIDE DEF u
<1>3. ASSUME NEW i \in 1..Len(t) PROVE u[i + 2] = t[i]
  <2>1. i + 2 \in 1..(2 + Len(t)) /\ ~(i + 2 <= 2) /\ (i + 2) - 2 = i
    BY <1>2
  <2>2. QED
    BY <1>1, <2>1
<1>4. 1 \in 1..(2 + Len(t)) /\ 2 \in 1..(2 + Len(t))
  BY <1>2
<1>5. u[1] = s[1] /\ u[2] = s[2]
  BY <1>1, <1>4
<1>6. QED
  BY <1>1, <1>2, <1>3, <1>5 DEF u

\* The owner name of an address.
LEMMA Owner ==
    ASSUME NEW a \in Addresses
    PROVE  /\ PTROwner(a) \in Seq(Labels) /\ Len(PTROwner(a)) = Len(a) + 2
           /\ PTROwner(a)[1] = Suffix(a)[1] /\ PTROwner(a)[2] = Suffix(a)[2]
           /\ \A i \in 1..Len(a) : PTROwner(a)[i + 2] = a[i]
<1>1. Suffix(a) \in Seq(Labels) /\ Len(Suffix(a)) = 2
  BY SuffixNames
<1>2. a \in Seq(Labels)
  BY Families
<1>3. QED
  BY <1>1, <1>2, Below DEF PTROwner

\* The zone sized to a subnet is a name with the leading parts of the address.
LEMMA Sized ==
    ASSUME NEW a \in Addresses, NEW prefix \in Int
    PROVE  LET z == ReverseZone(a, prefix)
           IN  /\ z \in Seq(Labels) /\ Len(z) = Parts(a, prefix) + 2
               /\ z[1] = Suffix(a)[1] /\ z[2] = Suffix(a)[2]
               /\ \A i \in 1..Parts(a, prefix) : z[i + 2] = a[i]
<1>1. Suffix(a) \in Seq(Labels) /\ Len(Suffix(a)) = 2
  BY SuffixNames
<1>2. a \in Seq(Labels) /\ Len(a) \in Nat /\ Parts(a, prefix) \in 1..Len(a)
  BY Families, PartsBounded
<1> DEFINE c == SubSeq(a, 1, Parts(a, prefix))
<1>3. c \in Seq(Labels) /\ Len(c) = Parts(a, prefix) /\ \A i \in 1..Parts(a, prefix) : c[i] = a[i]
  BY <1>2
<1>4. ReverseZone(a, prefix) = Suffix(a) \o c
  BY DEF ReverseZone, Parts
<1> HIDE DEF c
<1> DEFINE z == Suffix(a) \o c
<1>5. /\ z \in Seq(Labels) /\ Len(z) = Len(c) + 2 /\ z[1] = Suffix(a)[1] /\ z[2] = Suffix(a)[2]
      /\ \A i \in 1..Len(c) : z[i + 2] = c[i]
  BY <1>1, <1>3, Below
<1> HIDE DEF z
<1>6. \A i \in 1..Parts(a, prefix) : z[i + 2] = a[i]
  BY <1>3, <1>5
<1>7. ReverseZone(a, prefix) = z
  BY <1>4 DEF z
<1>8. Len(z) = Parts(a, prefix) + 2
  BY <1>3, <1>5
<1>9. QED
  BY <1>5, <1>6, <1>7, <1>8

\* It contains every address of the subnet.
LEMMA SizedContains ==
    ASSUME NEW a \in Addresses, NEW b \in Addresses, NEW prefix \in Int, Len(a) = Len(b),
           \A i \in 1..Parts(a, prefix) : a[i] = b[i]
    PROVE  InZone(PTROwner(b), ReverseZone(a, prefix))
<1> DEFINE z == ReverseZone(a, prefix)
           o == PTROwner(b)
           n == Parts(a, prefix)
<1>1. n \in 1..(Len(a) - 1) /\ Len(a) \in {4, 32}
  BY PartsBounded, Families
<1>2. Suffix(a) = Suffix(b)
  BY DEF Suffix, V4
<1>3. /\ z \in Seq(Labels) /\ Len(z) = n + 2 /\ z[1] = Suffix(a)[1] /\ z[2] = Suffix(a)[2]
      /\ \A i \in 1..n : z[i + 2] = a[i]
  BY Sized
<1>4. /\ o \in Seq(Labels) /\ Len(o) = Len(a) + 2 /\ o[1] = Suffix(a)[1] /\ o[2] = Suffix(a)[2]
      /\ \A i \in 1..Len(a) : o[i + 2] = b[i]
  <2>1. /\ o \in Seq(Labels) /\ Len(o) = Len(b) + 2 /\ o[1] = Suffix(b)[1] /\ o[2] = Suffix(b)[2]
        /\ \A i \in 1..Len(b) : o[i + 2] = b[i]
    BY Owner
  <2> HIDE DEF o, z, n
  <2>2. QED
    BY <1>2, <2>1
<1> HIDE DEF z, o, n
<1>5. ASSUME NEW i \in 1..Len(z) PROVE o[i] = z[i]
  <2>1. CASE i \in {1, 2}
    BY <1>3, <1>4, <2>1
  <2>2. CASE i \notin {1, 2}
    <3>1. i - 2 \in 1..n /\ (i - 2) + 2 = i /\ i - 2 \in 1..Len(a)
      <4>1. PICK k : k = Len(a) /\ k \in {4, 32} /\ n \in 1..(k - 1)
        BY <1>1
      <4>2. i \in 1..(n + 2) /\ i # 1 /\ i # 2
        BY <1>3, <2>2
      <4>3. i - 2 \in 1..n /\ (i - 2) + 2 = i /\ i - 2 \in 1..k
        BY <4>1, <4>2
      <4> QED
        BY <4>1, <4>3
    <3>2. z[i] = a[i - 2] /\ o[i] = b[i - 2]
      BY <1>3, <1>4, <3>1
    <3>3. QED
      BY <3>1, <3>2 DEF n
  <2>3. QED
    BY <2>1, <2>2
<1>6. QED
  BY <1>1, <1>3, <1>4, <1>5, InZoneLabels DEF z, o

-----------------------------------------------------------------------------
(* The steps.                                                              *)

\* A zone is hand-made or was sized to a subnet of an address of the family, and
\* every record is about an address and is in the longest zone that contains it.
PlanInv ==
    /\ family \in {4, 32}
    /\ \A z \in zones : z \in HandMade \/ \E a \in InFamily, p \in Int : z = ReverseZone(a, p)
    /\ \A r \in records : r.owner \in Seq(Labels)
    /\ NotShadowed

\* The zones are names.
LEMMA ZonesAreNames == PlanInv => zones \subseteq Seq(Labels)
<1>1. \A s \in Seq(Nat) : s \in Seq(Labels)
  BY Nat \subseteq Labels, Wider DEF Labels
<1>2. ASSUME NEW z \in HandMade PROVE z \in Seq(Labels)
  <2>1. PICK d \in Seq(Nat) : z \in {<<"arpa", "in-addr">> \o d, <<"arpa", "ip6">> \o d}
    BY PlanConstants
  <2>2. <<"arpa", "in-addr">> \in Seq(Labels) /\ <<"arpa", "ip6">> \in Seq(Labels)
    BY DEF Labels
  <2>3. d \in Seq(Labels)
    BY <1>1
  <2>4. QED
    BY <2>1, <2>2, <2>3, Joined
<1>3. QED
  BY Sized, <1>2 DEF PlanInv, InFamily

\* The invariant holds of the zones people made.
LEMMA PlanInvInit == PlanInit => PlanInv
BY DEF PlanInit, PlanInv, NotShadowed

\* The name of a sized zone is a valid one.
LEMMA SizedValid ==
    ASSUME NEW a \in Addresses, NEW prefix \in Int
    PROVE  reverseOK(ReverseZone(a, prefix))
<1> DEFINE z == ReverseZone(a, prefix)
           n == Parts(a, prefix)
           parts == SubSeq(z, 3, Len(z))
           Digits == 0..(IF V4(a) THEN 255 ELSE 15)
<1>1. /\ n \in 1..(Len(a) - 1) /\ Len(a) \in {4, 32}
      /\ \A i \in 1..Len(a) : a[i] \in Digits
  BY PartsBounded, Families
<1>2. /\ z \in Seq(Labels) /\ Len(z) = n + 2 /\ z[2] = Suffix(a)[2]
      /\ \A i \in 1..n : z[i + 2] = a[i]
  BY Sized
<1>3. z[2] = "in-addr" <=> V4(a)
  BY <1>2 DEF Suffix
<1> HIDE DEF z, n
<1>4. /\ Len(parts) = n /\ DOMAIN parts = 1..n
      /\ \A i \in 1..n : parts[i] = z[i + 2]
  BY <1>1, <1>2
<1> HIDE DEF parts, Digits
<1>5. \A i \in 1..n : parts[i] \in Digits
  <2>1. \A i \in 1..n : i \in 1..Len(a)
    BY <1>1
  <2>2. QED
    BY <1>1, <1>2, <1>4, <2>1
<1>6. n \in 1..(IF V4(a) THEN 4 ELSE 32)
  <2>0. n \in 1..(Len(a) - 1) /\ Len(a) \in {4, 32}
    BY <1>1
  <2>1. V4(a) => n \in 1..4
    BY <2>0 DEF V4
  <2>2. ~V4(a) => n \in 1..32
    <3>1. \A l \in {4, 32} : l # 4 /\ n \in 1..(l - 1) => n \in 1..32
      OBVIOUS
    <3>2. QED
      BY <2>0, <3>1 DEF V4
  <2>3. QED
    BY <2>1, <2>2
<1>7. QED
  BY <1>3, <1>4, <1>5, <1>6 DEF reverseOK, z, parts, Digits

\* Addresses that agree on the prefix agree on the parts in the zone's name.
LEMMA SubnetParts ==
    ASSUME NEW a \in Addresses, NEW b \in Addresses, NEW prefix \in Int,
           Low(a) <= prefix, prefix <= Full(a), SameSubnet(a, b, prefix)
    PROVE  Len(a) = Len(b) /\ \A i \in 1..Parts(a, prefix) : a[i] = b[i]
<1> DEFINE whole == prefix \div Unit(a)
<1>1. Len(a) = Len(b) /\ SubSeq(a, 1, whole) = SubSeq(b, 1, whole)
  BY DEF SameSubnet
<1>2. /\ Parts(a, prefix) \in 1..Len(a) /\ Parts(a, prefix) <= whole
      /\ a \in Seq(Labels) /\ b \in Seq(Labels) /\ Len(a) \in {4, 32}
  BY PartsBounded, Families
<1>3. whole \in 1..Len(a)
  <2>1. CASE Len(a) = 4
    BY <2>1 DEF Unit, Low, Full, V4
  <2>2. CASE Len(a) = 32
    BY <2>2 DEF Unit, Low, Full, V4
  <2>3. QED
    BY <1>2, <2>1, <2>2
<1> HIDE DEF whole
<1>4. \A i \in 1..whole : SubSeq(a, 1, whole)[i] = a[i] /\ SubSeq(b, 1, whole)[i] = b[i]
  BY <1>1, <1>2, <1>3
<1>5. QED
  BY <1>1, <1>2, <1>3, <1>4

-----------------------------------------------------------------------------
(* The zone of a name: the longest one that contains it.  Only the lemmas  *)
(* from here on need well-founded induction.                               *)

LOCAL INSTANCE WellFoundedInduction

\* A set of numbers has a smallest one, and with an upper bound a largest one.
LEMMA Smallest ==
    ASSUME NEW S \in SUBSET Nat, S # {}
    PROVE  \E m \in S : \A k \in S : m <= k
<1>1. PICK R : R = OpToRel(<, Nat)
  OBVIOUS
<1>2. IsWellFoundedOn(R, Nat)
  BY <1>1, NatLessThanWellFounded
<1>3. PICK m \in S : \A k \in S : ~(<<k, m>> \in R)
  BY <1>2, WFMin
<1>4. ASSUME NEW k \in S PROVE m <= k
  <2>1. <<k, m>> \in Nat \X Nat /\ <<k, m>> \notin R
    BY <1>3
  <2>2. ~(k < m)
    BY <1>1, <2>1 DEF OpToRel
  <2> QED
    BY <2>2
<1> QED
  BY <1>3, <1>4

LEMMA Largest ==
    ASSUME NEW n \in Nat, NEW S \in SUBSET (0..n), S # {}
    PROVE  \E m \in S : \A k \in S : k <= m
<1>0. \A k \in S : n - k \in Nat
  OBVIOUS
<1>1. PICK T : T = {n - k : k \in S}
  OBVIOUS
<1>2. T \in SUBSET Nat /\ T # {}
  BY <1>0, <1>1
<1>3. PICK t \in T : \A u \in T : t <= u
  BY <1>2, Smallest
<1>4. PICK m \in S : t = n - m
  BY <1>1
<1>5. ASSUME NEW k \in S PROVE k <= m
  <2>1. t <= n - k /\ k \in Nat /\ m \in Nat
    BY <1>1, <1>3
  <2> QED
    BY <1>4, <2>1
<1> QED
  BY <1>5

\* If some zone contains a name, the longest one is well defined.
LEMMA LongestFound ==
    ASSUME NEW Z \in SUBSET Seq(Labels), NEW name \in Seq(Labels),
           Containing(Z, name) # {}
    PROVE  /\ LongestZone(Z, name) \in Containing(Z, name)
           /\ \A y \in Containing(Z, name) : Len(y) <= Len(LongestZone(Z, name))
<1> DEFINE C == Containing(Z, name)
           S == {Len(z) : z \in C}
<1>1. \A z \in C : Len(z) \in Nat /\ Len(z) <= Len(name)
  <2> TAKE z \in C
  <2>1. z \in Seq(Labels) /\ Len(z) <= Len(name)
    BY DEF Containing, InZone
  <2>2. QED
    BY <2>1
<1>2. C # {} /\ Len(name) \in Nat
  OBVIOUS
<1> HIDE DEF C
<1>3. S \in SUBSET (0..Len(name)) /\ S # {}
  <2>1. \A z \in C : Len(z) \in 0..Len(name)
    BY <1>1, <1>2
  <2>2. QED
    BY <1>2, <2>1
<1>4. PICK m \in S : \A k \in S : k <= m
  BY <1>2, <1>3, Largest
<1>5. \E z \in C : \A y \in C : Len(y) <= Len(z)
  BY <1>4
<1>6. QED
  BY <1>5 DEF C, LongestZone

\* A record put into an existing zone goes to the longest one; a new zone is made
\* only where none contains the owner, so that it is inside none, and any zone of
\* an earlier record that it is nested with is the longer one.
LEMMA UpsertKeeps ==
    ASSUME PlanInv, NEW a \in InFamily, NEW prefix \in PrefixLengths[family], Upsert(a, prefix)
    PROVE  PlanInv'
<1> DEFINE o == PTROwner(a)
           z == PlanReverse(a, prefix).zone
           new == [owner |-> o, zone |-> z]
<1>1. /\ a \in Addresses /\ prefix \in Int /\ o \in Seq(Labels) /\ zones \subseteq Seq(Labels)
  BY Owner, ZonesAreNames, PlanConstants DEF InFamily, PlanInv
<1>2. /\ zones' = zones \cup {z} /\ UNCHANGED family
      /\ records' = {r \in records : r.owner # o} \cup {new}
  BY DEF Upsert, PlanReverse
<1>3. CASE Containing(zones, o) # {}
  <2>1. z = LongestZone(zones, o)
    BY <1>3 DEF PlanReverse
  <2>2. z \in Containing(zones, o) /\ \A y \in Containing(zones, o) : Len(y) <= Len(z)
    BY <1>1, <1>3, <2>1, LongestFound
  <2> HIDE DEF z, o
  <2>3. zones' = zones /\ z \in zones /\ InZone(o, z) /\ \A y \in zones : InZone(o, y) => Len(y) <= Len(z)
    BY <1>2, <2>2 DEF Containing
  <2>4. QED
    BY <1>1, <1>2, <2>3 DEF PlanInv, NotShadowed, InFamily
<1>4. CASE Containing(zones, o) = {}
  <2>1. z = ReverseZone(a, prefix) /\ z \in Seq(Labels)
    BY <1>1, <1>4, Sized DEF PlanReverse
  <2>2. InZone(o, z)
    BY <1>1, <2>1, SizedContains
  <2>3. \A y \in zones : ~InZone(o, y)
    BY <1>4 DEF Containing
  <2> HIDE DEF z, o
  <2>4. ASSUME NEW r \in records, InZone(r.owner, z) PROVE Len(z) <= Len(r.zone)
    <3>1. /\ r.owner \in Seq(Labels) /\ r.zone \in zones /\ r.zone \in Seq(Labels)
          /\ InZone(r.owner, r.zone)
      BY <1>1 DEF PlanInv, NotShadowed
    <3>2. ~(Len(r.zone) <= Len(z))
      BY <1>1, <2>1, <2>2, <2>3, <2>4, <3>1, Nested
    <3>3. QED
      BY <2>1, <3>1, <3>2
  <2>5. \A r \in records' : r.owner \in Seq(Labels) /\ r.zone \in zones' /\ InZone(r.owner, r.zone)
    BY <1>1, <1>2, <2>2 DEF PlanInv, NotShadowed
  <2>6. ASSUME NEW r \in records', NEW y \in zones', InZone(r.owner, y)
        PROVE  Len(y) <= Len(r.zone)
    <3>1. CASE r = new
      <4>1. y = z
        BY <1>2, <2>3, <2>6, <3>1
      <4>2. Len(z) \in Nat
        BY <2>1
      <4>3. QED
        BY <3>1, <4>1, <4>2
    <3>2. CASE r \in records
      BY <1>2, <2>4, <2>6, <3>2 DEF PlanInv, NotShadowed
    <3>3. QED
      BY <1>2, <3>1, <3>2
  <2>7. NotShadowed'
    BY <2>5, <2>6 DEF NotShadowed
  <2>8. \A y \in zones' : y \in HandMade \/ \E b \in InFamily, p \in Int : y = ReverseZone(b, p)
    BY <1>1, <1>2, <2>1 DEF PlanInv
  <2>9. QED
    BY <1>2, <2>5, <2>7, <2>8 DEF PlanInv, InFamily
<1>5. QED
  BY <1>3, <1>4

\* The invariant is inductive.
LEMMA PlanInvStep == PlanInv /\ [PlanNext]_planVars => PlanInv'
<1>1. ASSUME PlanInv, PlanNext PROVE PlanInv'
  BY <1>1, UpsertKeeps DEF PlanNext
<1>2. ASSUME PlanInv, UNCHANGED planVars PROVE PlanInv'
  BY <1>2 DEF planVars, PlanInv, NotShadowed, InFamily
<1>3. QED
  BY <1>1, <1>2

-----------------------------------------------------------------------------
\* PlanReverse and upsert: a PTR record stays in the zone from which the server
\* answers, whatever zones are made for later addresses.
THEOREM NeverShadowed == PlanSpec => []NotShadowed
<1>1. PlanInv => NotShadowed
  BY DEF PlanInv
<1>2. QED
  BY PlanInvInit, PlanInvStep, <1>1, PTL DEF PlanSpec

\* ReverseZone: a sized zone serves its whole subnet, has a name that may be
\* created, and leaves a label for the record.
THEOREM SubnetsCovered == PlanSpec => []SubnetCovered
<1>1. PlanInv => SubnetCovered
  <2> SUFFICES ASSUME PlanInv, NEW z \in zones
               PROVE  /\ \A a, b \in InFamily, p \in PrefixLengths[family] :
                            /\ z = ReverseZone(a, p)
                            /\ Low(a) <= p /\ p <= Full(a)
                            /\ SameSubnet(a, b, p)
                            => Containing(zones, PTROwner(b)) # {}
                      /\ z \notin HandMade =>
                            /\ reverseOK(z)
                            /\ \E a \in InFamily :
                                  InZone(PTROwner(a), z) /\ Len(z) < Len(PTROwner(a))
    BY DEF SubnetCovered
  <2>1. ASSUME NEW a \in InFamily, NEW b \in InFamily, NEW p \in PrefixLengths[family],
               z = ReverseZone(a, p), Low(a) <= p, p <= Full(a), SameSubnet(a, b, p)
        PROVE  Containing(zones, PTROwner(b)) # {}
    <3>1. a \in Addresses /\ b \in Addresses /\ p \in Int
      BY PlanConstants DEF InFamily, PlanInv
    <3>2. InZone(PTROwner(b), z)
      BY <2>1, <3>1, SubnetParts, SizedContains
    <3>3. QED
      BY <3>2 DEF Containing
  <2>2. ASSUME z \notin HandMade
        PROVE  /\ reverseOK(z)
               /\ \E a \in InFamily : InZone(PTROwner(a), z) /\ Len(z) < Len(PTROwner(a))
    <3>1. PICK a \in InFamily, p \in Int : z = ReverseZone(a, p)
      BY <2>2 DEF PlanInv
    <3>2. a \in Addresses
      BY DEF InFamily
    <3>3. reverseOK(z) /\ InZone(PTROwner(a), z)
      BY <3>1, <3>2, SizedValid, SizedContains
    <3>4. Len(z) < Len(PTROwner(a))
      <4>1. Len(z) = Parts(a, p) + 2
        BY <3>1, <3>2, Sized
      <4>2. Len(PTROwner(a)) = Len(a) + 2
        BY <3>2, Owner
      <4>3. Parts(a, p) \in 1..(Len(a) - 1) /\ Len(a) \in {4, 32}
        BY <3>2, PartsBounded, Families
      <4>4. QED
        BY <4>1, <4>2, <4>3
    <3>5. QED
      BY <3>3, <3>4
  <2>3. QED
    BY <2>1, <2>2
<1>2. QED
  BY PlanInvInit, PlanInvStep, <1>1, PTL DEF PlanSpec
=============================================================================
