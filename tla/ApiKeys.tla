------------------------------ MODULE ApiKeys ------------------------------
(***************************************************************************)
(* The API keys of PowerDNS and of the recursor (internal/secrets): every  *)
(* call of the two HTTP clients asks secrets.Cached for its key.  A key is *)
(* served from the cache for Refresh, re-read from warden after that, and  *)
(* served stale for up to MaxStale when the re-read fails.  One mutex      *)
(* guards both keys and is held while warden is asked.                     *)
(*                                                                         *)
(* Keys are rotated at warden and at the server by an operator, in two     *)
(* steps and in either order; a version number stands for a key.           *)
(***************************************************************************)
EXTENDS Integers

CONSTANTS
    Refs,           \* the configured references: PDNSRef, RecursorRef
    Rotating,       \* the ones whose keys change
    Callers,        \* goroutines making calls
    Refresh,        \* how long a key is served without re-reading it
    MaxStale,       \* how long when re-reads fail; 0 for the default
    Timeout,        \* how long one fetch may take
    None,
    MaxTime,        \* bound: the clock
    MaxRotations    \* bound: changes of a key, per reference and place

\* NewCached leaves MaxStale at its default; with one below Refresh a fresh
\* entry could be older than MaxStale.
ASSUME KeyConstants ==
    /\ {Refresh, Timeout} \subseteq Nat \ {0}
    /\ {MaxStale, MaxTime, MaxRotations} \subseteq Nat
    /\ MaxStale = 0 \/ MaxStale >= Refresh
    /\ Rotating \subseteq Refs
    /\ None \notin Callers

VARIABLES
    clock,
    source,     \* the version warden holds, per reference
    server,     \* the version the server behind the reference accepts
    until,      \* history: when a version was replaced at warden
    cache,      \* version and time stamp, or None
    lock,       \* the caller that holds the mutex
    pc, job     \* the callers

vars == <<clock, source, server, until, cache, lock, pc, job>>

Versions == 0..MaxRotations
Times == 0..MaxTime

\* until of a version that is current, or still to come.
Never == MaxTime + 1

\* seen: the cache entry found; key: the version got; got: when get
\* returned; failed: this call's own re-read failed.
NoJob == [ref |-> None, start |-> 0, seen |-> None, key |-> None, got |-> 0,
          failed |-> FALSE]

Steps == {"idle", "lock", "fetch", "store", "send", "ok", "refused", "error"}

TypeOK ==
    /\ clock \in Times
    /\ source \in [Refs -> Versions] /\ server \in [Refs -> Versions]
    /\ until \in [Refs -> [Versions -> 0..Never]]
    /\ \A f \in Refs : cache[f] = None \/ (cache[f].val \in Versions /\ cache[f].at \in Times)
    /\ lock \in Callers \cup {None}
    /\ pc \in [Callers -> Steps]
    /\ \A c \in Callers : lock = c <=> pc[c] \in {"fetch", "store"}

Init ==
    /\ clock = 0
    /\ source = [f \in Refs |-> 0] /\ server = [f \in Refs |-> 0]
    /\ until = [f \in Refs |-> [v \in Versions |-> Never]]
    /\ cache = [f \in Refs |-> None]
    /\ lock = None
    /\ pc = [c \in Callers |-> "idle"]
    /\ job = [c \in Callers |-> NoJob]

-----------------------------------------------------------------------------
(* secrets.Cached.                                                         *)

\* get with a reference; the answer of the previous call is forgotten.
Ask(c, f) ==
    /\ pc[c] \in {"idle", "ok", "refused", "error"}
    /\ pc' = [pc EXCEPT ![c] = "lock"]
    /\ job' = [job EXCEPT ![c] = [NoJob EXCEPT !.ref = f]]
    /\ UNCHANGED <<clock, source, server, until, cache, lock>>

Young(e, limit) == e # None /\ clock - e.at < limit

StaleLimit == IF MaxStale > 0 THEN MaxStale ELSE 10 * Refresh

\* get returns key version v.
Serve(c, v, failed) ==
    /\ pc' = [pc EXCEPT ![c] = "send"]
    /\ job' = [job EXCEPT ![c] = [NoJob EXCEPT !.ref = job[c].ref, !.key = v,
                                               !.got = clock, !.failed = failed]]

\* Mutant of Lock: an entry is good for as long as it may be served at all.
LockLazy(c) ==
    LET e == cache[job[c].ref]
    IN  /\ pc[c] = "lock" /\ lock = None
        /\ \/ Young(e, StaleLimit) /\ Serve(c, e.val, FALSE) /\ UNCHANGED lock
           \/ /\ ~Young(e, StaleLimit)
              /\ lock' = c
              /\ pc' = [pc EXCEPT ![c] = "fetch"]
              /\ job' = [job EXCEPT ![c].seen = e, ![c].start = clock]
        /\ UNCHANGED <<clock, source, server, until, cache>>

\* The mutex is taken and the entry looked at; a fresh one is returned at once.
Lock(c) ==
    LET e == cache[job[c].ref]
    IN  /\ pc[c] = "lock" /\ lock = None
        /\ \/ Young(e, Refresh) /\ Serve(c, e.val, FALSE) /\ UNCHANGED lock
           \/ /\ ~Young(e, Refresh)
              /\ lock' = c
              /\ pc' = [pc EXCEPT ![c] = "fetch"]
              /\ job' = [job EXCEPT ![c].seen = e, ![c].start = clock]
        /\ UNCHANGED <<clock, source, server, until, cache>>

\* Warden reads the secret; the answer is on its way.
Fetch(c) ==
    /\ pc[c] = "fetch"
    /\ pc' = [pc EXCEPT ![c] = "store"]
    /\ job' = [job EXCEPT ![c].key = source[job[c].ref]]
    /\ UNCHANGED <<clock, source, server, until, cache, lock>>

Store(c) ==
    /\ pc[c] = "store"
    /\ cache' = [cache EXCEPT ![job[c].ref] = [val |-> job[c].key, at |-> clock]]
    /\ lock' = None
    /\ Serve(c, job[c].key, FALSE)
    /\ UNCHANGED <<clock, source, server, until>>

\* Mutant of Fail: the old key is served however old it is.
FailServing(c) ==
    LET e == job[c].seen
    IN  /\ pc[c] \in {"fetch", "store"}
        /\ lock' = None
        /\ \/ e # None /\ Serve(c, e.val, TRUE)
           \/ /\ e = None
              /\ pc' = [pc EXCEPT ![c] = "error"]
              /\ job' = [job EXCEPT ![c] = NoJob]
        /\ UNCHANGED <<clock, source, server, until, cache>>

\* Mutant of Fail: the error path returns without the unlock.
FailHolding(c) ==
    LET e == job[c].seen
    IN  /\ pc[c] \in {"fetch", "store"}
        /\ \/ Young(e, StaleLimit) /\ Serve(c, e.val, TRUE) /\ lock' = None
           \/ /\ ~Young(e, StaleLimit) /\ UNCHANGED lock
              /\ pc' = [pc EXCEPT ![c] = "error"]
              /\ job' = [job EXCEPT ![c] = NoJob]
        /\ UNCHANGED <<clock, source, server, until, cache>>

\* Warden does not answer in time, refuses, or holds no value: the entry seen
\* is served unless it is too old.
Fail(c) ==
    LET e == job[c].seen
    IN  /\ pc[c] \in {"fetch", "store"}
        /\ lock' = None
        /\ \/ Young(e, StaleLimit) /\ Serve(c, e.val, TRUE)
           \/ /\ ~Young(e, StaleLimit)
              /\ pc' = [pc EXCEPT ![c] = "error"]
              /\ job' = [job EXCEPT ![c] = NoJob]
        /\ UNCHANGED <<clock, source, server, until, cache>>

Invalidate ==
    /\ lock = None
    /\ cache' = [f \in Refs |-> None]
    /\ UNCHANGED <<clock, source, server, until, lock, pc, job>>

-----------------------------------------------------------------------------
(* The clients, the operator and time.                                     *)

\* do: the request carries the key; the server accepts only its own version.
\* A refusal is an error like any other: nothing is retried or invalidated.
Send(c) ==
    /\ pc[c] = "send"
    /\ \/ /\ job[c].key = server[job[c].ref]
          /\ pc' = [pc EXCEPT ![c] = "ok"] /\ job' = [job EXCEPT ![c] = NoJob]
       \/ /\ job[c].key # server[job[c].ref]
          /\ pc' = [pc EXCEPT ![c] = "refused"] /\ UNCHANGED job
    /\ UNCHANGED <<clock, source, server, until, cache, lock>>

RotateSource(f) ==
    /\ source[f] < MaxRotations /\ source[f] <= server[f]
    /\ source' = [source EXCEPT ![f] = @ + 1]
    /\ until' = [until EXCEPT ![f][source[f]] = clock]
    /\ UNCHANGED <<clock, server, cache, lock, pc, job>>

RotateServer(f) ==
    /\ server[f] < MaxRotations /\ server[f] <= source[f]
    /\ server' = [server EXCEPT ![f] = @ + 1]
    /\ UNCHANGED <<clock, source, until, cache, lock, pc, job>>

\* A fetch takes no longer than its timeout; a key got is sent at once.
Tick ==
    /\ clock < MaxTime
    /\ \A c \in Callers :
        /\ pc[c] \in {"fetch", "store"} => clock - job[c].start < Timeout
        /\ pc[c] # "send"
    /\ clock' = clock + 1
    /\ UNCHANGED <<source, server, until, cache, lock, pc, job>>

CallerStep(c) == Lock(c) \/ Fetch(c) \/ Store(c) \/ Fail(c) \/ Send(c)

Next ==
    \/ \E c \in Callers : CallerStep(c) \/ \E f \in Refs : Ask(c, f)
    \/ \E f \in Rotating : RotateSource(f) \/ RotateServer(f)
    \/ Invalidate
    \/ Tick

\* A goroutine that can go on does; the mutex hands over to a waiter in the
\* end, however many others ask for it; a fetch ends by its timeout.
Fairness ==
    \A c \in Callers :
        SF_vars(Lock(c)) /\ WF_vars(Fetch(c) \/ Store(c) \/ Fail(c)) /\ WF_vars(Send(c))

Spec == Init /\ [][Next]_vars /\ Fairness

-----------------------------------------------------------------------------
(* Properties.                                                             *)

\* A key that get returns was still warden's key less than MaxStale and one
\* fetch ago, however often re-reads failed and callers asked.
StaleBounded ==
    \A c \in Callers : pc[c] \in {"send", "refused"} =>
        until[job[c].ref][job[c].key] > job[c].got - StaleLimit - Timeout

\* A server refuses a call only when the two places disagree about the key,
\* when the key was replaced at warden less than Refresh and one fetch ago, or
\* when this call's own re-read failed: a rotation is picked up by itself.
RefusedExplained ==
    \A c \in Callers : pc[c] = "refused" =>
        \/ job[c].failed
        \/ until[job[c].ref][job[c].key] > job[c].got - Refresh - Timeout

\* Every call for a key is answered, with a key or an error, although a fetch
\* of the one key holds up the callers of the other.
Answered ==
    \A c \in Callers : pc[c] = "lock" ~> pc[c] \in {"ok", "refused", "error"}
=============================================================================
