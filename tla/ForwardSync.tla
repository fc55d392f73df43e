---------------------------- MODULE ForwardSync ----------------------------
(***************************************************************************)
(* The zone service together with the recursor reconciler                  *)
(* (internal/recursor).  Both write the recursor's forward entries: a      *)
(* Create or Delete changes the one of its zone, best effort and only      *)
(* once; the reconciler, in passes, re-points every managed zone and       *)
(* removes the forwards of zones that are no longer managed.  A pass works *)
(* from one reading of the zone names, so it acts on stale knowledge       *)
(* whenever a request runs beside it.  Passes overlap as well: each        *)
(* instance runs its loop, and a change of the server configuration that   *)
(* restarted the recursor asks for a pass of its own (ReconcileNow).       *)
(***************************************************************************)
EXTENDS ZoneLifecycle

CONSTANTS
    Static,     \* recursor.static_forwards
    Loops,      \* the reconcilers' loops
    Resyncs     \* the passes asked for after a restart of the recursor

ASSUME StaticOK == Static \subseteq Names
ASSUME PassesOK == Loops \cap Resyncs = {}

Passes == Loops \cup Resyncs

VARIABLES
    step,       \* where each pass is
    managed,    \* the zone names it read at its start
    todo,       \* zones still to re-point, or forwards still to remove
    at,         \* the zone it is re-pointing
    calm        \* history: since it read the names no request ran, no call
                \* failed and no pass worked from other names

passVars == <<step, managed, todo, at, calm>>
allVars  == <<vars, passVars>>

Managed == {w.name : w \in rows}

Working == {"sync", "point", "prune"}

PassTypeOK ==
    /\ TypeOK
    /\ step \in [Passes -> {"wait", "ready", "read"} \cup Working]
    /\ managed \in [Passes -> SUBSET Names]
    /\ todo \in [Passes -> SUBSET Names]
    /\ at \in [Passes -> Names \cup {External}]
    /\ calm \in [Passes -> BOOLEAN]

PassInit ==
    /\ Init
    /\ step = [p \in Passes |-> "wait"]
    /\ managed = [p \in Passes |-> {}]
    /\ todo = [p \in Passes |-> {}]
    /\ at = [p \in Passes |-> External]
    /\ calm = [p \in Passes |-> FALSE]

-----------------------------------------------------------------------------
(* One pass: AllZoneNames, SyncForward for each, ListForwards,             *)
(* RemoveForward for each.  Failures are noted and the pass goes on.       *)

zoneVars == <<rows, pdns, pc, job, existing, torn>>

\* Something happened that a pass cannot know of.
Uncalm == calm' = [p \in Passes |-> FALSE]
Hitch == Disturb /\ Uncalm

\* The configuration service restarted the recursor, which may come back with
\* the configured forwards only, and asks for a pass.
RestartRecursor(p) ==
    /\ step[p] = "wait"
    /\ p \in Resyncs
    /\ step' = [step EXCEPT ![p] = "ready"]
    /\ forwards' \in {forwards, forwards \cap Static}
    /\ Hitch
    /\ UNCHANGED <<managed, todo, at, zoneVars>>

\* ReconcileNow asks the recursor until it answers, or gives up.
Ready(p) ==
    /\ step[p] = "ready"
    /\ \/ step' = [step EXCEPT ![p] = "read"] /\ UNCHANGED <<faults, calm>>
       \/ step' = [step EXCEPT ![p] = "wait"] /\ Hitch
    /\ UNCHANGED <<managed, todo, at, forwards, zoneVars>>

\* Mutants of Keep: the configured forwards, or the managed zones, are left
\* out.
KeepManaged(p) == managed[p]
KeepStatic(p) == Static

\* What a pass must not remove; the root is no zone name.
Keep(p) == managed[p] \cup Static

ReadNames(p) ==
    /\ step[p] = IF p \in Loops THEN "wait" ELSE "read"
    /\ step' = [step EXCEPT ![p] = "sync"]
    /\ managed' = [managed EXCEPT ![p] = Managed]
    /\ todo' = [todo EXCEPT ![p] = Managed]
    /\ calm' = [calm EXCEPT ![p] =
                    /\ InFlight = {}
                    /\ \A q \in Passes : step[q] \in Working => managed[q] = Managed]
    /\ UNCHANGED <<at, forwards, faults, zoneVars>>

\* SyncForward, first the DELETE, whose outcome is ignored ...
Unpoint(p, n) ==
    /\ step[p] = "sync"
    /\ n \in todo[p]
    /\ step' = [step EXCEPT ![p] = "point"]
    /\ at' = [at EXCEPT ![p] = n]
    /\ \/ forwards' = forwards \ {n} /\ UNCHANGED <<faults, calm>>
       \/ Hitch /\ UNCHANGED forwards
    /\ UNCHANGED <<managed, todo, zoneVars>>

\* ... then the POST, which changes nothing if another pass was faster.
Point(p) ==
    /\ step[p] = "point"
    /\ step' = [step EXCEPT ![p] = "sync"]
    /\ todo' = [todo EXCEPT ![p] = @ \ {at[p]}]
    /\ at' = [at EXCEPT ![p] = External]
    /\ \/ forwards' = forwards \cup {at[p]} /\ UNCHANGED <<faults, calm>>
       \/ Hitch /\ UNCHANGED forwards
    /\ UNCHANGED <<managed, zoneVars>>

\* ListForwards; without it the pass ends here.
ListForwards(p) ==
    /\ step[p] = "sync"
    /\ todo[p] = {}
    /\ \/ /\ step' = [step EXCEPT ![p] = "prune"]
          /\ todo' = [todo EXCEPT ![p] = forwards \ Keep(p)]
          /\ UNCHANGED <<managed, faults, calm>>
       \/ /\ step' = [step EXCEPT ![p] = "wait"]
          /\ managed' = [managed EXCEPT ![p] = {}]
          /\ Hitch
          /\ UNCHANGED todo
    /\ UNCHANGED <<at, forwards, zoneVars>>

Prune(p, n) ==
    /\ step[p] = "prune"
    /\ n \in todo[p]
    /\ todo' = [todo EXCEPT ![p] = @ \ {n}]
    /\ \/ forwards' = forwards \ {n} /\ UNCHANGED <<faults, calm>>
       \/ Hitch /\ UNCHANGED forwards
    /\ UNCHANGED <<step, managed, at, zoneVars>>

\* Mutant of EndPass: the loop begins at the listing, so that the names are
\* read only once.
EndPassHalfWay(p) ==
    /\ step[p] = "prune"
    /\ todo[p] = {}
    /\ step' = [step EXCEPT ![p] = "sync"]
    /\ UNCHANGED <<managed, todo, at, calm, forwards, faults, zoneVars>>

EndPass(p) ==
    /\ step[p] = "prune"
    /\ todo[p] = {}
    /\ step' = [step EXCEPT ![p] = "wait"]
    /\ managed' = [managed EXCEPT ![p] = {}]
    /\ UNCHANGED <<todo, at, calm, forwards, faults, zoneVars>>

Pass(p) ==
    \/ Ready(p) \/ ReadNames(p) \/ Point(p) \/ ListForwards(p) \/ EndPass(p)
    \/ \E n \in Names : Unpoint(p, n) \/ Prune(p, n)

ZoneStep ==
    /\ \/ Admission
       \/ \E r \in Requests : \/ Call(r)
                              \/ CallFails(r) \/ AnswerLost(r) \/ Cancel(r)
       \/ \E n \in Names, m \in Metas : Provision(n, m)
    /\ Uncalm
    /\ UNCHANGED <<step, managed, todo, at>>

\* A crash ends the passes as well.
CrashAll ==
    /\ Crash
    /\ step' = [p \in Passes |-> "wait"]
    /\ managed' = [p \in Passes |-> {}]
    /\ todo' = [p \in Passes |-> {}]
    /\ at' = [p \in Passes |-> External]
    /\ Uncalm

PassNext ==
    \/ \E p \in Passes : RestartRecursor(p) \/ Pass(p)
    \/ ZoneStep
    \/ CrashAll

\* Every call is bounded by a timeout and the reconciler's loop never ends,
\* so requests and passes that have begun go on.  Requests need not come.
Fairness ==
    /\ \A p \in Passes : WF_allVars(Pass(p))
    /\ \A r \in Requests : WF_allVars(Call(r) /\ Uncalm
                                      /\ UNCHANGED <<step, managed, todo, at>>)

PassSpec == PassInit /\ [][PassNext]_allVars /\ Fairness

-----------------------------------------------------------------------------
(* Properties.                                                             *)

\* Zones a pass has deleted and not yet posted again.
Gap == {at[p] : p \in {q \in Passes : step[q] = "point"}}

Covered ==
    /\ Managed \ Gap \subseteq forwards
    /\ forwards \subseteq Managed \cup Static

\* A pass that no request, no failure and no pass from other names disturbed
\* leaves the recursor with the forwards of the managed zones, whatever it
\* held before: one pass repairs every forward that a best-effort call lost, a
\* stale pass broke or a restart forgot.  Passes that overlap do not undo each
\* other, except while one of them is just re-pointing a zone.
OnePassRepairs == \A p \in Passes : step[p] = "wait" /\ calm[p] => Covered

\* The reconciler never takes away a configured forward ("Static forwards are
\* never removed") that no zone of the same name stands for.
StaticKept ==
    [][\A p \in Passes : Pass(p) =>
            \A n \in Static \ managed[p] : n \in forwards => n \in forwards']_allVars

\* Once requests and failures stop coming, the forwards settle on the managed
\* zones.
Settles == <>[]Covered
=============================================================================
