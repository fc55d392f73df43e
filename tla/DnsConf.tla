------------------------------ MODULE DnsConf ------------------------------
(***************************************************************************)
(* The server configuration service (internal/dnsconf): a configuration is *)
(* saved, rendered to one include file per server, a file is written only  *)
(* when its content changes, and only then is that server's container      *)
(* restarted.  The start-up worker re-applies what is stored.              *)
(*                                                                         *)
(* Of a section of the configuration the model keeps a list of networks    *)
(* (resolver: allowed_networks, authoritative: transfer_peers) and the     *)
(* consent to an open resolver: enough for what validation refuses and     *)
(* makes canonical and for what rendering leaves out.  A file is replaced  *)
(* by a rename, so a crash leaves the old content or the new one.          *)
(* Containers read their file when they start.  Saves and the worker share *)
(* one mutex.  The resolver's forwards are re-synchronised while it is     *)
(* still held, by the pass modelled in ForwardSync.                        *)
(***************************************************************************)
EXTENDS Naturals, Sequences, FiniteSets

CONSTANTS
    Servers,        \* the two servers, in the order apply visits them
    Resolver,       \* the one of them that is the resolver
    Nets, Everyone, \* networks; the one that admits every client
    Drafts,         \* the configurations people submit: server -> section
    MaxList,        \* entries a list may have
    None,           \* nothing stored, written or running yet
    Requests,       \* PUT /config requests in progress
    Boot,           \* the start-up worker
    Deployments,    \* [enabled |-> restarter on, managed |-> servers with a path]
    MaxUpdates, MaxCrashes,
    MaxFaults       \* bound: failed calls and edits by hand

Names == {Servers[i] : i \in DOMAIN Servers}
Procs == Requests \cup {Boot}

\* An entry of a list is an address with a mask: a network and the bits below
\* the mask.
Entries == [net : Nets, host : 0..1]
Sections == [list : Seq(Entries), open : BOOLEAN]

-----------------------------------------------------------------------------
(* Validation and rendering.                                               *)

\* network: the canonical entry is masked.
network(e) == [e EXCEPT !.host = 0]
list(l) == [i \in DOMAIN l |-> network(l[i])]

\* Too long a list is refused, and one that names a network twice.
listOK(l) ==
    /\ Len(l) <= MaxList
    /\ \A i, j \in DOMAIN l : network(l[i]) = network(l[j]) => i = j

OpenResolver(d) == \E i \in DOMAIN d[Resolver].list : d[Resolver].list[i].net = Everyone

Valid(d) ==
    /\ \A s \in Names : listOK(d[s].list)
    /\ OpenResolver(d) => d[Resolver].open

Validate(d) == [s \in Names |-> [list |-> list(d[s].list), open |-> d[s].open]]

\* Rendering writes the list out; the consent is not part of the file.
Render(section) == section.list

Configs == {Validate(d) : d \in {e \in Drafts : Valid(e)}}
Contents == {Render(d[s]) : d \in Configs, s \in Names}

ASSUME DnsConfConstants ==
    /\ Servers \in Seq(Names) /\ Resolver \in Names
    /\ Everyone \in Nets /\ MaxList \in Nat
    /\ Drafts \subseteq [Names -> Sections] /\ None \notin Configs
    /\ Boot \notin Requests /\ None \notin Procs
    /\ Deployments \subseteq [enabled : BOOLEAN, managed : SUBSET Names]

VARIABLES
    deploy,         \* this deployment's settings
    store,          \* dns_server_config's two sections, or None
    hashes,         \* its recursor_hash and auth_hash
    file,           \* the include files
    running,        \* the content each container started with
    lock,           \* Service.mu: its holder, or None
    pc, cfg, at,    \* each process: its step, its configuration, its server
    owed,           \* servers last reported as restart_required
    written,        \* auxiliary: the last content apply wrote or found
    excused,        \* auxiliary: servers whose file may differ from the store
    cut,            \* auxiliary: servers whose file changed and whose restart
                    \* a crash cut off, or whose file drifted
    updates, crashes, faults

conf == <<store, hashes, file, running>>
proc == <<lock, pc, cfg, at>>
aux  == <<owed, written, excused, cut>>
bounds == <<updates, crashes, faults>>
vars == <<deploy, store, hashes, file, running, lock, pc, cfg, at,
          owed, written, excused, cut, updates, crashes, faults>>

Steps == {"idle", "wait", "save", "load", "write", "restart", "hashes", "done"}
Inside == {"save", "load", "write", "restart", "hashes"}

TypeOK ==
    /\ deploy \in Deployments
    /\ store \in Configs \cup {None}
    /\ hashes \in [Names -> Contents \cup {None}]
    /\ file \in [Names -> Contents \cup {None}]
    /\ running \in [Names -> Contents \cup {None}]
    /\ lock \in Procs \cup {None}
    /\ pc \in [Procs -> Steps]
    /\ cfg \in [Procs -> Configs \cup {None}]
    /\ at \in [Procs -> 1..(Len(Servers) + 1)]
    /\ owed \subseteq Names /\ excused \subseteq Names /\ cut \subseteq Names
    /\ written \in [Names -> Contents \cup {None}]
    /\ \A p \in Procs : pc[p] \in Inside <=> lock = p

Init ==
    /\ deploy \in Deployments
    /\ store = None
    /\ hashes = [s \in Names |-> None]
    /\ file = [s \in Names |-> None]
    /\ running = [s \in Names |-> None]
    /\ lock = None
    /\ pc = [p \in Procs |-> IF p = Boot THEN "wait" ELSE "idle"]
    /\ cfg = [p \in Procs |-> None]
    /\ at = [p \in Procs |-> 1]
    /\ owed = {} /\ excused = {} /\ cut = {}
    /\ written = [s \in Names |-> None]
    /\ updates = 0 /\ crashes = 0 /\ faults = 0

Goto(p, step) == pc' = [pc EXCEPT ![p] = step]
Return(p) == lock' = None /\ Goto(p, IF p = Boot THEN "done" ELSE "idle")
Fault == faults < MaxFaults /\ faults' = faults + 1

\* The next server, or the hashes after the last one.
Advance(p) ==
    /\ at' = [at EXCEPT ![p] = @ + 1]
    /\ Goto(p, IF at[p] = Len(Servers) THEN "hashes" ELSE "write")

-----------------------------------------------------------------------------
\* Update up to the mutex: authorised and validated (a refused request changes
\* nothing).
Submit(p, d) ==
    /\ p \in Requests /\ pc[p] = "idle"
    /\ Valid(d)
    /\ updates < MaxUpdates
    /\ updates' = updates + 1
    /\ Goto(p, "wait")
    /\ cfg' = [cfg EXCEPT ![p] = Validate(d)]
    /\ UNCHANGED <<deploy, conf, lock, at, aux, crashes, faults>>

Acquire(p) ==
    /\ pc[p] = "wait" /\ lock = None
    /\ lock' = p
    /\ Goto(p, IF p = Boot THEN "load" ELSE "save")
    /\ at' = [at EXCEPT ![p] = 1]
    /\ UNCHANGED <<deploy, conf, cfg, aux, bounds>>

\* SaveServerConfig: stored, or refused, or stored with the answer lost (the
\* request then fails and applies nothing).
Save(p) ==
    /\ pc[p] = "save"
    /\ \/ /\ store' = cfg[p]
          /\ Goto(p, "write")
          /\ UNCHANGED <<lock, excused, faults>>
       \/ /\ Fault /\ Return(p)
          /\ UNCHANGED <<store, excused>>
       \/ /\ Fault /\ Return(p)
          /\ store' = cfg[p]
          /\ excused' = Names
    /\ UNCHANGED <<deploy, hashes, file, running, cfg, at, owed, written, cut,
                   updates, crashes>>

stored == store # None

\* Mutant of Load: the worker gives up after a failed read.
LoadOnce ==
    /\ pc[Boot] = "load"
    /\ \/ /\ ~stored /\ Return(Boot)
          /\ UNCHANGED <<cfg, faults>>
       \/ /\ stored /\ Valid(store)
          /\ cfg' = [cfg EXCEPT ![Boot] = Validate(store)]
          /\ Goto(Boot, "write")
          /\ UNCHANGED <<lock, faults>>
       \/ /\ Fault
          /\ lock' = None /\ Goto(Boot, "idle")
          /\ UNCHANGED cfg
    /\ UNCHANGED <<deploy, conf, at, aux, updates, crashes>>

\* Reapply reads the stored configuration and validates it once more (what
\* validation made of a draft is valid and stays as it is); Run tries again
\* after a failure and ends when nothing was ever saved.
Load ==
    /\ pc[Boot] = "load"
    /\ \/ /\ ~stored /\ Return(Boot)
          /\ UNCHANGED <<cfg, faults>>
       \/ /\ stored /\ Valid(store)
          /\ cfg' = [cfg EXCEPT ![Boot] = Validate(store)]
          /\ Goto(Boot, "write")
          /\ UNCHANGED <<lock, faults>>
       \/ /\ Fault
          /\ lock' = None /\ Goto(Boot, "wait")
          /\ UNCHANGED cfg
    /\ UNCHANGED <<deploy, conf, at, aux, updates, crashes>>

\* Mutant of Write: compares with the recorded hash, not with the file.
WriteByHash(p) ==
    LET s == Servers[at[p]]
        c == Render(cfg[p][s])
    IN  /\ pc[p] = "write"
        /\ \/ /\ s \notin deploy.managed
              /\ Advance(p)
              /\ UNCHANGED <<file, written, excused, cut, faults>>
           \/ /\ s \in deploy.managed /\ hashes[s] = c
              /\ Advance(p)
              /\ written' = [written EXCEPT ![s] = c]
              /\ excused' = excused \ {s}
              /\ UNCHANGED <<file, cut, faults>>
           \/ /\ s \in deploy.managed /\ hashes[s] # c
              /\ file' = [file EXCEPT ![s] = c]
              /\ written' = [written EXCEPT ![s] = c]
              /\ excused' = excused \ {s}
              /\ cut' = cut \ {s}
              /\ Goto(p, "restart")
              /\ UNCHANGED <<at, faults>>
           \/ /\ s \in deploy.managed
              /\ Fault
              /\ Advance(p)
              /\ excused' = excused \cup {s}
              /\ UNCHANGED <<file, written, cut>>
        /\ UNCHANGED <<deploy, store, hashes, running, lock, cfg, owed,
                       updates, crashes>>

\* WriteIfChanged for the next server: skipped without a path, equal content,
\* replaced, or failed (reported, and the other server still has its turn).
Write(p) ==
    LET s == Servers[at[p]]
        c == Render(cfg[p][s])
    IN  /\ pc[p] = "write"
        /\ \/ /\ s \notin deploy.managed
              /\ Advance(p)
              /\ UNCHANGED <<file, written, excused, cut, faults>>
           \/ /\ s \in deploy.managed /\ file[s] = c
              /\ Advance(p)
              /\ written' = [written EXCEPT ![s] = c]
              /\ excused' = excused \ {s}
              /\ UNCHANGED <<file, cut, faults>>
           \/ /\ s \in deploy.managed /\ file[s] # c
              /\ file' = [file EXCEPT ![s] = c]
              /\ written' = [written EXCEPT ![s] = c]
              /\ excused' = excused \ {s}
              /\ cut' = cut \ {s}
              /\ Goto(p, "restart")
              /\ UNCHANGED <<at, faults>>
           \/ /\ s \in deploy.managed
              /\ Fault
              /\ Advance(p)
              /\ excused' = excused \cup {s}
              /\ UNCHANGED <<file, written, cut>>
        /\ UNCHANGED <<deploy, store, hashes, running, lock, cfg, owed,
                       updates, crashes>>

\* The container starts and reads its file.
Restarted(s) == [running EXCEPT ![s] = file[s]]

\* Mutant of Restart: a failed restart is logged and not reported.
RestartUnreported(p) ==
    LET s == Servers[at[p]]
    IN  /\ pc[p] = "restart"
        /\ Advance(p)
        /\ \/ /\ ~deploy.enabled
              /\ owed' = owed \cup {s}
              /\ UNCHANGED <<running, faults>>
           \/ /\ deploy.enabled
              /\ running' = Restarted(s)
              /\ owed' = owed \ {s}
              /\ UNCHANGED faults
           \/ /\ deploy.enabled /\ Fault
              /\ running' \in {running, Restarted(s)}
              /\ UNCHANGED owed
        /\ UNCHANGED <<deploy, store, hashes, file, lock, cfg, written, excused,
                       cut, updates, crashes>>

\* restart: disabled, done, or failed (the container may have restarted all
\* the same when only the answer was lost).
Restart(p) ==
    LET s == Servers[at[p]]
    IN  /\ pc[p] = "restart"
        /\ Advance(p)
        /\ \/ /\ ~deploy.enabled
              /\ owed' = owed \cup {s}
              /\ UNCHANGED <<running, faults>>
           \/ /\ deploy.enabled
              /\ running' = Restarted(s)
              /\ owed' = owed \ {s}
              /\ UNCHANGED faults
           \/ /\ deploy.enabled /\ Fault
              /\ running' \in {running, Restarted(s)}
              /\ owed' = owed \cup {s}
        /\ UNCHANGED <<deploy, store, hashes, file, lock, cfg, written, excused,
                       cut, updates, crashes>>

\* SetConfigHashes records both rendered contents, whatever became of the
\* files; a failure is only logged.  The forwards are then re-synchronised and
\* the mutex released.
SetConfigHashes(p) ==
    /\ pc[p] = "hashes"
    /\ Return(p)
    /\ \/ hashes' = [s \in Names |-> Render(cfg[p][s])] /\ UNCHANGED faults
       \/ Fault /\ UNCHANGED hashes
    /\ UNCHANGED <<deploy, store, file, running, cfg, at, aux,
                   updates, crashes>>

\* The process dies; the store, the files and the containers remain, and the
\* worker starts again.
Crash ==
    /\ crashes < MaxCrashes
    /\ crashes' = crashes + 1
    /\ lock' = None
    /\ pc' = [p \in Procs |-> IF p = Boot THEN "wait" ELSE "idle"]
    /\ cut' = cut \cup {Servers[at[p]] : p \in {q \in Procs : pc[q] = "restart"}}
    /\ UNCHANGED <<deploy, conf, cfg, at, owed, written, excused, updates,
                   faults>>

\* A person restarts a container (or its runtime does).
HandRestart(s) ==
    /\ running[s] # file[s] \/ s \in owed
    /\ running' = Restarted(s)
    /\ owed' = owed \ {s}
    /\ cut' = cut \ {s}
    /\ UNCHANGED <<deploy, store, hashes, file, proc, written, excused, bounds>>

\* A person edits or removes an include file.
Drift(s) ==
    /\ Fault
    /\ \E c \in (Contents \cup {None}) \ {file[s]} :
           file' = [file EXCEPT ![s] = c]
    /\ excused' = excused \cup {s}
    /\ cut' = cut \cup {s}
    /\ UNCHANGED <<deploy, store, hashes, running, proc, owed, written,
                   updates, crashes>>

Next ==
    \/ \E p \in Requests, d \in Drafts : Submit(p, d)
    \/ \E p \in Procs : Acquire(p) \/ Write(p) \/ Restart(p) \/ SetConfigHashes(p)
    \/ \E p \in Requests : Save(p)
    \/ Load
    \/ Crash
    \/ \E s \in Names : HandRestart(s) \/ Drift(s)

Spec == Init /\ [][Next]_vars

\* Every process that started keeps running; the mutex is granted in turn.
Fairness ==
    \A p \in Procs :
        /\ SF_vars(Acquire(p))
        /\ WF_vars(Save(p) \/ Write(p) \/ Restart(p) \/ SetConfigHashes(p))
        /\ WF_vars(Load)

FairSpec == Spec /\ Fairness

-----------------------------------------------------------------------------
(* Properties.                                                             *)

\* Once start-up is over and with no apply in progress, a managed file holds
\* what is stored, unless the last apply of it failed or lost the store's
\* answer, or somebody edited the file: two saves never leave the older one's
\* file under the newer one's row, and no crash leaves them apart for good.
FilesFollowStore ==
    pc[Boot] = "done" /\ lock = None /\ store # None =>
        \A s \in deploy.managed : file[s] = Render(store[s]) \/ s \in excused

\* With no apply in progress a container that does not run its file's content
\* was reported as restart_required, unless a crash fell between the write and
\* the restart or the file was edited by hand.
StaleReported ==
    lock = None =>
        \A s \in Names : running[s] = file[s] \/ s \in owed \/ s \in cut

\* Start-up re-application: whatever was saved when the process died, and
\* however often the store fails, the managed files end up holding it, with
\* the same exceptions.
Reapplied ==
    <>[](store # None =>
             \A s \in deploy.managed : file[s] = Render(store[s]) \/ s \in excused)

\* spec.md, US5-4: after a start "it re-applies the stored configuration": with
\* the restarter on and nothing failing, the containers run what is stored.
StartedCurrent ==
    deploy.enabled /\ lock = None /\ pc[Boot] = "done" /\ store # None =>
        \A s \in deploy.managed : running[s] = Render(store[s])

\* data-model.md: the hashes are those "of the last rendered file content
\* successfully written".
HashesWritten ==
    lock = None =>
        \A s \in deploy.managed : hashes[s] # None => hashes[s] = written[s]
=============================================================================
