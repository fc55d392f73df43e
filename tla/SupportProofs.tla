--------------------------- MODULE SupportProofs ---------------------------
(***************************************************************************)
(* Proofs about what the services stand on.  The key cache, for any number *)
(* of callers, references and rotations and any Refresh, MaxStale and      *)
(* Timeout: how long after its rotation a key may still be used.  The      *)
(* audit writer, for any capacity of the queue, any number of events and   *)
(* failures and any callers of Flush: no event is lost unaccounted for,    *)
(* and Flush and Close return only when what was queued has been dealt     *)
(* with.  The two implementations of the store, for any tenants and rows:  *)
(* they hold the same and answer alike.                                    *)
(***************************************************************************)
EXTENDS ApiKeys, AuditWriter, RepoStores, TLAPS

\* Zenon first: it is the quicker one wherever there is no arithmetic.
USE ZenonT(2), SMT, Zenon

-----------------------------------------------------------------------------
(* The key cache.                                                          *)

Entries == [val : Versions, at : Nat]
Jobs == [ref : Refs \cup {None}, start : Nat, seen : Entries \cup {None},
         key : Versions \cup {None}, got : Nat, failed : BOOLEAN]

Typed ==
    /\ clock \in Nat /\ clock <= MaxTime
    /\ source \in [Refs -> Versions]
    /\ until \in [Refs -> [Versions -> Nat]]
    /\ cache \in [Refs -> Entries \cup {None}]
    /\ pc \in [Callers -> Steps]
    /\ job \in [Callers -> Jobs]
    /\ \A c \in Callers :
        /\ pc[c] \in {"lock", "fetch", "store", "send", "refused"} => job[c].ref \in Refs
        /\ pc[c] \in {"store", "send", "refused"} => job[c].key \in Versions

\* The version warden holds, and the ones to come, are not replaced yet.
Current ==
    \A f \in Refs, v \in Versions : v >= source[f] => until[f][v] = Never

\* An entry of the cache was warden's key at most one fetch before its stamp.
Sound(f, e) ==
    e # None => e.at <= clock /\ until[f][e.val] >= e.at - Timeout

\* A fetch ends in time, and its answer was warden's key during it.
Fetching(c) ==
    pc[c] \in {"fetch", "store"} =>
        /\ job[c].start <= clock /\ clock <= job[c].start + Timeout
        /\ Sound(job[c].ref, job[c].seen)
        /\ pc[c] = "store" => until[job[c].ref][job[c].key] >= job[c].start

Served(c) ==
    pc[c] \in {"send", "refused"} =>
        /\ job[c].got <= clock
        /\ until[job[c].ref][job[c].key] > job[c].got - StaleLimit - Timeout
        /\ \/ job[c].failed
           \/ until[job[c].ref][job[c].key] > job[c].got - Refresh - Timeout

Inv ==
    /\ Typed /\ Current
    /\ \A f \in Refs : Sound(f, cache[f])
    /\ \A c \in Callers : Fetching(c) /\ Served(c)

-----------------------------------------------------------------------------
\* The limits are numbers: an entry may be served stale for some time.
LEMMA Limits ==
    /\ Refresh \in Nat \ {0} /\ Timeout \in Nat \ {0} /\ StaleLimit \in Nat \ {0}
    /\ StaleLimit >= Refresh
    /\ MaxTime \in Nat /\ MaxRotations \in Nat /\ Never \in Nat
    /\ 0 \in Versions /\ Versions \subseteq Nat
BY KeyConstants DEF StaleLimit, Never, Versions

\* The invariant holds of the empty cache.
LEMMA InvInit == Init => Inv
BY Limits DEF Init, Inv, Typed, Current, Sound, Fetching, Served, NoJob, Jobs, Steps

\* What get serves from an entry that is sound and young enough is bounded by
\* the limit that it was measured against.
LEMMA YoungServed ==
    ASSUME Typed, NEW f \in Refs, NEW e \in Entries \cup {None}, NEW limit \in Nat \ {0},
           Sound(f, e), Young(e, limit)
    PROVE  /\ e.val \in Versions
           /\ until[f][e.val] > clock - limit - Timeout
<1>1. e # None /\ e \in Entries
  BY DEF Young
<1>2. e.val \in Versions /\ e.at \in Nat
  BY <1>1 DEF Entries
<1>3. until[f][e.val] \in Nat /\ clock \in Nat
  BY <1>2 DEF Typed
<1>4. until[f][e.val] >= e.at - Timeout /\ clock - e.at < limit
  BY <1>1 DEF Sound, Young
<1>5. QED
  BY <1>2, <1>3, <1>4, Limits

\* A step that leaves the clock and warden's keys alone keeps what was said of
\* every caller it does not move.
LEMMA Others ==
    ASSUME Inv, NEW c \in Callers, NEW d \in Callers, c # d,
           NEW p \in Steps, NEW j \in Jobs,
           pc' = [pc EXCEPT ![c] = p], job' = [job EXCEPT ![c] = j],
           UNCHANGED <<clock, until>>
    PROVE  Fetching(d)' /\ Served(d)'
<1>1. pc'[d] = pc[d] /\ job'[d] = job[d]
  BY DEF Inv, Typed
<1>2. QED BY <1>1 DEF Inv, Fetching, Served, Sound

\* A step of one caller: the invariant follows from what holds of that caller.
LEMMA Moves ==
    ASSUME Inv, NEW c \in Callers, NEW p \in Steps, NEW j \in Jobs,
           pc' = [pc EXCEPT ![c] = p], job' = [job EXCEPT ![c] = j],
           UNCHANGED <<clock, source, until>>,
           p \in {"lock", "fetch", "store", "send", "refused"} => j.ref \in Refs,
           p \in {"store", "send", "refused"} => j.key \in Versions,
           cache' \in [Refs -> Entries \cup {None}],
           \A f \in Refs : Sound(f, cache[f])',
           Fetching(c)', Served(c)'
    PROVE  Inv'
<1>1. Typed'
  BY DEF Inv, Typed
<1>2. Current'
  BY DEF Inv, Current
<1>3. ASSUME NEW d \in Callers PROVE Fetching(d)' /\ Served(d)'
  BY <1>3, Others
<1>4. QED
  BY <1>1, <1>2, <1>3 DEF Inv

\* The cache is left alone.
LEMMA CacheKept ==
    ASSUME Inv, UNCHANGED <<clock, until, cache>>
    PROVE  /\ cache' \in [Refs -> Entries \cup {None}]
           /\ \A f \in Refs : Sound(f, cache[f])'
BY DEF Inv, Typed, Sound

\* get returns a version that was warden's late enough.
LEMMA ServeKeeps ==
    ASSUME Inv, NEW c \in Callers, NEW v \in Versions, NEW failed \in BOOLEAN,
           job[c].ref \in Refs,
           until[job[c].ref][v] > clock - StaleLimit - Timeout,
           failed \/ until[job[c].ref][v] > clock - Refresh - Timeout,
           Serve(c, v, failed), UNCHANGED <<clock, source, until>>,
           cache' \in [Refs -> Entries \cup {None}],
           \A f \in Refs : Sound(f, cache[f])'
    PROVE  Inv'
<1> DEFINE j == [NoJob EXCEPT !.ref = job[c].ref, !.key = v, !.got = clock,
                              !.failed = failed]
<1>1. j \in Jobs /\ j.ref = job[c].ref /\ j.key = v /\ j.got = clock /\ j.failed = failed
  BY DEF NoJob, Jobs, Inv, Typed
<1>2. pc' = [pc EXCEPT ![c] = "send"] /\ job' = [job EXCEPT ![c] = j]
  BY DEF Serve
<1>3. pc'[c] = "send" /\ job'[c] = j
  BY <1>2 DEF Inv, Typed
<1> HIDE DEF j
<1>4. Fetching(c)' /\ Served(c)'
  BY <1>1, <1>3, Limits DEF Fetching, Served, Inv, Typed
<1>5. QED
  BY <1>1, <1>2, <1>4, Moves DEF Steps

\* A call begins.
LEMMA AskKeeps ==
    ASSUME Inv, NEW c \in Callers, NEW f \in Refs, Ask(c, f)
    PROVE  Inv'
<1> DEFINE j == [NoJob EXCEPT !.ref = f]
<1>1. j \in Jobs /\ j.ref = f
  BY DEF NoJob, Jobs
<1>2. pc' = [pc EXCEPT ![c] = "lock"] /\ job' = [job EXCEPT ![c] = j]
  BY DEF Ask
<1>3. pc'[c] = "lock"
  BY <1>2 DEF Inv, Typed
<1>4. Fetching(c)' /\ Served(c)'
  BY <1>3 DEF Fetching, Served
<1> HIDE DEF j
<1>5. QED
  BY <1>1, <1>2, <1>4, CacheKept, Moves DEF Steps, Ask

\* The mutex is taken: a fresh entry is served, else a fetch begins.
LEMMA LockKeeps ==
    ASSUME Inv, NEW c \in Callers, Lock(c)
    PROVE  Inv'
<1> DEFINE e == cache[job[c].ref]
           j == [job[c] EXCEPT !.seen = e, !.start = clock]
<1>1. job[c].ref \in Refs /\ e \in Entries \cup {None} /\ Sound(job[c].ref, e)
  BY DEF Lock, Inv, Typed
<1>2. UNCHANGED <<clock, source, until, cache>>
  BY DEF Lock
<1>3. CASE Young(e, Refresh) /\ Serve(c, e.val, FALSE)
  <2>1. e.val \in Versions /\ until[job[c].ref][e.val] > clock - Refresh - Timeout
    BY <1>1, <1>3, YoungServed, Limits DEF Inv
  <2>2. clock \in Nat /\ until[job[c].ref][e.val] \in Nat
    BY <1>1, <2>1 DEF Inv, Typed
  <2> HIDE DEF e
  <2>3. until[job[c].ref][e.val] > clock - StaleLimit - Timeout
    BY <2>1, <2>2, Limits
  <2>4. QED
    BY <1>1, <1>2, <1>3, <2>1, <2>3, CacheKept, ServeKeeps
<1>4. CASE /\ pc' = [pc EXCEPT ![c] = "fetch"]
           /\ job' = [job EXCEPT ![c].seen = e, ![c].start = clock]
  <2>1. job[c] \in Jobs
    BY DEF Inv, Typed
  <2>2. j \in Jobs /\ j.ref = job[c].ref /\ j.seen = e /\ j.start = clock
    BY <1>1, <2>1 DEF Jobs, Inv, Typed
  <2>3. job' = [job EXCEPT ![c] = j]
    BY <1>4, <2>1 DEF Jobs
  <2>4. pc'[c] = "fetch" /\ job'[c] = j
    BY <1>4, <2>3 DEF Inv, Typed
  <2> HIDE DEF j
  <2>5. Fetching(c)' /\ Served(c)'
    BY <1>1, <1>2, <2>2, <2>4, Limits DEF Fetching, Served, Sound, Inv, Typed
  <2>6. QED
    BY <1>1, <1>2, <1>4, <2>2, <2>3, <2>5, CacheKept, Moves DEF Steps
<1>5. QED
  BY <1>3, <1>4 DEF Lock

\* Warden answers with the key it holds.
LEMMA FetchKeeps ==
    ASSUME Inv, NEW c \in Callers, Fetch(c)
    PROVE  Inv'
<1> DEFINE j == [job[c] EXCEPT !.key = source[job[c].ref]]
<1>1. job[c] \in Jobs /\ job[c].ref \in Refs /\ source[job[c].ref] \in Versions
  BY DEF Fetch, Inv, Typed
<1>2. /\ j \in Jobs /\ j.ref = job[c].ref /\ j.key = source[job[c].ref]
      /\ j.seen = job[c].seen /\ j.start = job[c].start
  BY <1>1 DEF Jobs
<1>3. pc' = [pc EXCEPT ![c] = "store"] /\ job' = [job EXCEPT ![c] = j]
  BY <1>1 DEF Fetch, Jobs
<1>4. pc'[c] = "store" /\ job'[c] = j /\ UNCHANGED <<clock, source, until, cache>>
  BY <1>3 DEF Fetch, Inv, Typed
<1>5. until[job[c].ref][source[job[c].ref]] = Never
  BY <1>1, Limits DEF Inv, Current, Versions
<1>6. /\ job[c].start <= clock /\ clock <= job[c].start + Timeout
      /\ Sound(job[c].ref, job[c].seen)
  BY DEF Fetch, Inv, Fetching
<1>7. job[c].start <= Never
  BY <1>1, <1>6, Limits DEF Inv, Typed, Never, Jobs
<1> HIDE DEF j
<1>8. Fetching(c)' /\ Served(c)'
  BY <1>2, <1>4, <1>5, <1>6, <1>7 DEF Fetching, Served, Sound
<1>9. QED
  BY <1>1, <1>2, <1>3, <1>4, <1>8, CacheKept, Moves DEF Steps

\* The answer is stamped when it is stored, at most Timeout after warden read it.
LEMMA StoreKeeps ==
    ASSUME Inv, NEW c \in Callers, Store(c)
    PROVE  Inv'
<1> DEFINE f == job[c].ref
           v == job[c].key
           e == [val |-> v, at |-> clock]
<1>1. /\ f \in Refs /\ v \in Versions /\ clock \in Nat
      /\ job[c] \in Jobs /\ pc[c] = "store"
  BY DEF Store, Inv, Typed
<1>2. /\ cache' = [cache EXCEPT ![f] = e]
      /\ UNCHANGED <<clock, source, until>>
      /\ Serve(c, v, FALSE)
  BY DEF Store
<1>3. job[c].start \in Nat /\ until[f][v] \in Nat
  BY <1>1 DEF Jobs, Inv, Typed
<1>4. until[f][v] >= clock - Timeout
  BY <1>1, <1>3, Limits DEF Inv, Fetching
<1>5. until[f][v] > clock - Refresh - Timeout /\ until[f][v] > clock - StaleLimit - Timeout
  BY <1>1, <1>3, <1>4, Limits
<1>6. e \in Entries /\ e.at = clock /\ e.val = v
  BY <1>1 DEF Entries
<1> HIDE DEF e, f, v
<1>7. cache' \in [Refs -> Entries \cup {None}]
  BY <1>1, <1>2, <1>6 DEF Inv, Typed
<1>8. ASSUME NEW g \in Refs PROVE Sound(g, cache[g])'
  <2>1. CASE g = f
    BY <2>1, <1>1, <1>2, <1>4, <1>6 DEF Sound, Inv, Typed
  <2>2. CASE g # f
    BY <2>2, <1>2 DEF Sound, Inv, Typed
  <2>3. QED
    BY <2>1, <2>2
<1>9. QED
  BY <1>1, <1>2, <1>5, <1>7, <1>8, ServeKeeps DEF f

\* A re-read fails: the entry seen is served while it is not too old.
LEMMA FailKeeps ==
    ASSUME Inv, NEW c \in Callers, Fail(c)
    PROVE  Inv'
<1> DEFINE e == job[c].seen
<1>1. job[c].ref \in Refs /\ job[c] \in Jobs /\ Sound(job[c].ref, e)
  BY DEF Fail, Inv, Typed, Fetching
<1>2. e \in Entries \cup {None}
  BY <1>1 DEF Jobs
<1>3. UNCHANGED <<clock, source, until, cache>>
  BY DEF Fail
<1>4. CASE Young(e, StaleLimit) /\ Serve(c, e.val, TRUE)
  <2>1. e.val \in Versions /\ until[job[c].ref][e.val] > clock - StaleLimit - Timeout
    BY <1>1, <1>2, <1>4, YoungServed, Limits DEF Inv
  <2>2. QED
    BY <1>1, <1>3, <1>4, <2>1, CacheKept, ServeKeeps
<1>5. CASE pc' = [pc EXCEPT ![c] = "error"] /\ job' = [job EXCEPT ![c] = NoJob]
  <2>1. NoJob \in Jobs
    BY DEF NoJob, Jobs
  <2>2. pc'[c] = "error"
    BY <1>5 DEF Inv, Typed
  <2>3. Fetching(c)' /\ Served(c)'
    BY <2>2 DEF Fetching, Served
  <2>4. QED
    BY <1>3, <1>5, <2>1, <2>3, CacheKept, Moves DEF Steps
<1>6. QED
  BY <1>4, <1>5 DEF Fail

\* The request is sent.
LEMMA SendKeeps ==
    ASSUME Inv, NEW c \in Callers, Send(c)
    PROVE  Inv'
<1>1. UNCHANGED <<clock, source, until, cache>> /\ pc[c] = "send" /\ NoJob \in Jobs
  BY DEF Send, NoJob, Jobs
<1>2. CASE pc' = [pc EXCEPT ![c] = "ok"] /\ job' = [job EXCEPT ![c] = NoJob]
  <2>1. pc'[c] = "ok"
    BY <1>2 DEF Inv, Typed
  <2>2. Fetching(c)' /\ Served(c)'
    BY <2>1 DEF Fetching, Served
  <2>3. QED
    BY <1>1, <1>2, <2>2, CacheKept, Moves DEF Steps
<1>3. CASE pc' = [pc EXCEPT ![c] = "refused"] /\ UNCHANGED job
  <2>1. /\ job[c] \in Jobs /\ job' = [job EXCEPT ![c] = job[c]] /\ pc'[c] = "refused"
        /\ job[c].ref \in Refs /\ job[c].key \in Versions
    BY <1>1, <1>3 DEF Inv, Typed
  <2>2. Fetching(c)' /\ Served(c)'
    BY <1>1, <1>3, <2>1 DEF Fetching, Served, Inv
  <2>3. QED
    BY <1>1, <1>3, <2>1, <2>2, CacheKept, Moves DEF Steps
<1>4. QED
  BY <1>2, <1>3 DEF Send

\* A rotation: the version that was current is replaced now, which is no earlier
\* than any stamp, start or answer on record.
LEMMA RotateKeeps ==
    ASSUME Inv, NEW f \in Refs, RotateSource(f)
    PROVE  Inv'
<1>1. source[f] \in Versions /\ clock \in Nat /\ source[f] < MaxRotations
  BY DEF RotateSource, Inv, Typed
<1>2. /\ UNCHANGED <<clock, cache, pc, job>>
      /\ source' = [source EXCEPT ![f] = source[f] + 1]
      /\ until' = [until EXCEPT ![f] = [until[f] EXCEPT ![source[f]] = clock]]
  BY DEF RotateSource
<1>3. source[f] + 1 \in Versions
  BY <1>1, Limits DEF Versions
<1>4. ASSUME NEW g \in Refs, NEW v \in Versions
      PROVE  /\ until[g][v] \in Nat /\ until'[g][v] \in Nat
             /\ until'[g][v] = until[g][v] \/ until'[g][v] = clock
  BY <1>1, <1>2 DEF Inv, Typed
<1>5. Typed'
  BY <1>1, <1>2, <1>3 DEF Inv, Typed
<1>6. Current'
  <2> SUFFICES ASSUME NEW g \in Refs, NEW v \in Versions, v >= source'[g]
               PROVE  until'[g][v] = Never
    BY DEF Current, Never
  <2>1. CASE g = f
    <3>1. v >= source[f] + 1
      BY <2>1, <1>2 DEF Inv, Typed
    <3>2. v # source[f] /\ v >= source[f]
      BY <3>1, <1>1, Limits DEF Versions
    <3>3. QED
      BY <2>1, <3>2, <1>1, <1>2 DEF Inv, Typed, Current
  <2>2. CASE g # f
    BY <2>2, <1>2 DEF Inv, Typed, Current
  <2>3. QED
    BY <2>1, <2>2
<1>7. ASSUME NEW g \in Refs, NEW e \in Entries \cup {None}, Sound(g, e)
      PROVE  Sound(g, e)'
  <2> SUFFICES ASSUME e # None
               PROVE  e.at <= clock /\ until'[g][e.val] >= e.at - Timeout
    BY <1>2 DEF Sound
  <2>1. e.val \in Versions /\ e.at \in Nat
    BY DEF Entries
  <2>2. e.at <= clock /\ until[g][e.val] >= e.at - Timeout
    BY <1>7 DEF Sound
  <2>3. /\ until[g][e.val] \in Nat
        /\ until'[g][e.val] = until[g][e.val] \/ until'[g][e.val] = clock
    BY <1>4, <2>1
  <2>4. QED
    BY <1>1, <2>1, <2>2, <2>3, Limits
<1>8. ASSUME NEW g \in Refs PROVE Sound(g, cache[g])'
  <2>1. cache[g] \in Entries \cup {None} /\ Sound(g, cache[g])
    BY DEF Inv, Typed
  <2>2. Sound(g, cache[g])'
    BY <1>2, <1>7, <2>1 DEF Sound
  <2>3. QED
    BY <2>2
<1>9. ASSUME NEW c \in Callers PROVE Fetching(c)'
  <2> SUFFICES ASSUME pc[c] \in {"fetch", "store"} PROVE Fetching(c)'
    BY <1>2 DEF Fetching
  <2>1. /\ job[c].ref \in Refs /\ job[c] \in Jobs
        /\ pc[c] = "store" => job[c].key \in Versions
    BY DEF Inv, Typed
  <2>2. job[c].start \in Nat /\ job[c].seen \in Entries \cup {None}
    BY <2>1 DEF Jobs
  <2>3. /\ job[c].start <= clock /\ clock <= job[c].start + Timeout
        /\ Sound(job[c].ref, job[c].seen)
        /\ pc[c] = "store" => until[job[c].ref][job[c].key] >= job[c].start
    BY DEF Inv, Fetching
  <2>4. job[c].seen # None =>
          job[c].seen.at <= clock /\ until'[job[c].ref][job[c].seen.val] >= job[c].seen.at - Timeout
    BY <1>2, <1>7, <2>1, <2>2, <2>3 DEF Sound
  <2>5. pc[c] = "store" => until'[job[c].ref][job[c].key] >= job[c].start
    BY <1>1, <1>4, <2>1, <2>2, <2>3
  <2>6. QED
    BY <1>2, <2>3, <2>4, <2>5 DEF Fetching, Sound
<1>10. ASSUME NEW c \in Callers PROVE Served(c)'
  <2> SUFFICES ASSUME pc[c] \in {"send", "refused"} PROVE Served(c)'
    BY <1>2 DEF Served
  <2>1. job[c].ref \in Refs /\ job[c] \in Jobs /\ job[c].key \in Versions
    BY DEF Inv, Typed
  <2>2. job[c].got \in Nat
    BY <2>1 DEF Jobs
  <2>3. /\ job[c].got <= clock
        /\ until[job[c].ref][job[c].key] > job[c].got - StaleLimit - Timeout
        /\ \/ job[c].failed
           \/ until[job[c].ref][job[c].key] > job[c].got - Refresh - Timeout
    BY DEF Inv, Served
  <2>4. /\ clock > job[c].got - StaleLimit - Timeout
        /\ clock > job[c].got - Refresh - Timeout
    BY <1>1, <2>2, <2>3, Limits
  <2>5. QED
    BY <1>2, <1>4, <2>1, <2>3, <2>4 DEF Served
<1>11. QED
  BY <1>5, <1>6, <1>8, <1>9, <1>10 DEF Inv

\* Time passes only while every fetch is within its timeout and no key waits to
\* be sent.
LEMMA TickKeeps ==
    ASSUME Inv, Tick
    PROVE  Inv'
<1>1. /\ clock \in Nat /\ clock' = clock + 1 /\ clock < MaxTime
      /\ UNCHANGED <<source, until, cache, pc, job>>
  BY DEF Tick, Inv, Typed
<1>2. Typed' /\ Current'
  BY <1>1, Limits DEF Inv, Typed, Current
<1>3. ASSUME NEW g \in Refs, NEW e \in Entries \cup {None}, Sound(g, e)
      PROVE  Sound(g, e)'
  <2>1. e # None => e.at \in Nat
    BY DEF Entries
  <2>2. QED
    BY <1>1, <1>3, <2>1 DEF Sound
<1>4. ASSUME NEW g \in Refs PROVE Sound(g, cache[g])'
  <2>1. cache[g] \in Entries \cup {None} /\ Sound(g, cache[g])
    BY DEF Inv, Typed
  <2>2. QED
    BY <1>1, <1>3, <2>1 DEF Sound
<1>5. ASSUME NEW c \in Callers PROVE Fetching(c)' /\ Served(c)'
  <2>1. job[c] \in Jobs
    BY DEF Inv, Typed
  <2>2. /\ job[c].start \in Nat /\ job[c].got \in Nat
        /\ job[c].seen \in Entries \cup {None}
    BY <2>1 DEF Jobs
  <2>3. pc[c] \in {"fetch", "store"} => job[c].ref \in Refs /\ clock - job[c].start < Timeout
    BY DEF Tick, Inv, Typed
  <2>4. Fetching(c) /\ Served(c)
    BY DEF Inv
  <2>5. ASSUME pc[c] \in {"fetch", "store"}
        PROVE  job[c].seen # None =>
                 /\ job[c].seen.at <= clock + 1
                 /\ until[job[c].ref][job[c].seen.val] >= job[c].seen.at - Timeout
    BY <1>1, <1>3, <2>2, <2>3, <2>4, <2>5 DEF Sound, Fetching
  <2>6. Fetching(c)'
    BY <1>1, <2>2, <2>3, <2>4, <2>5, Limits DEF Fetching, Sound
  <2>7. Served(c)'
    BY <1>1, <2>2, <2>4 DEF Served
  <2>8. QED
    BY <2>6, <2>7
<1>6. QED
  BY <1>2, <1>4, <1>5 DEF Inv

\* The invariant is inductive.
LEMMA InvStep == Inv /\ [Next]_vars => Inv'
<1> SUFFICES ASSUME Inv, [Next]_vars PROVE Inv'
  OBVIOUS
<1>1. ASSUME NEW c \in Callers, CallerStep(c) PROVE Inv'
  BY <1>1, LockKeeps, FetchKeeps, StoreKeeps, FailKeeps, SendKeeps DEF CallerStep
<1>2. ASSUME NEW c \in Callers, NEW f \in Refs, Ask(c, f) PROVE Inv'
  BY <1>2, AskKeeps
<1>3. ASSUME NEW f \in Rotating, RotateSource(f) PROVE Inv'
  BY <1>3, RotateKeeps, KeyConstants
<1>4. ASSUME NEW f \in Rotating, RotateServer(f) PROVE Inv'
  BY <1>4 DEF RotateServer, Inv, Typed, Current, Sound, Fetching, Served
<1>5. CASE Invalidate
  BY <1>5 DEF Invalidate, Inv, Typed, Current, Sound, Fetching, Served
<1>6. CASE Tick
  BY <1>6, TickKeeps
<1>7. CASE UNCHANGED vars
  BY <1>7 DEF vars, Inv, Typed, Current, Sound, Fetching, Served
<1>8. QED
  BY <1>1, <1>2, <1>3, <1>4, <1>5, <1>6, <1>7 DEF Next

-----------------------------------------------------------------------------
\* Cached.get: a key it returns was warden's key less than MaxStale and one
\* fetch before, whatever rotations, failed re-reads and concurrent callers.
THEOREM KeysNotTooStale == Spec => []StaleBounded
<1>1. Inv => StaleBounded
  BY DEF Inv, Served, StaleBounded
<1>2. QED
  BY InvInit, InvStep, <1>1, PTL DEF Spec

\* Cached.get and the clients' do: a call that a server refuses used a key that
\* warden replaced less than Refresh and one fetch before, a key that warden
\* still holds, or one kept because its own re-read failed.
THEOREM RefusalsExplained == Spec => []RefusedExplained
<1>1. Inv => RefusedExplained
  BY DEF Inv, Served, RefusedExplained
<1>2. QED
  BY InvInit, InvStep, <1>1, PTL DEF Spec

-----------------------------------------------------------------------------
(* The audit writer.                                                       *)

WriterTyped ==
    /\ queue \in Seq(Nat) /\ stored \in Seq(Nat)
    /\ row \in Nat \cup {No}
    /\ dropped \subseteq Nat /\ lost \subseteq Nat
    /\ recorded \in Nat
    /\ worker = "flush" => asker \in Flushers
    /\ flush \in [Flushers -> {"idle", "send", "wait", "done"}]
    /\ before \in [Flushers -> Nat]
    /\ \A f \in Flushers : before[f] <= recorded

\* Rows leave the pipeline in the order they entered it.
Ordered ==
    /\ \A e \in Range(stored), p \in Pending : e < p
    /\ row # No => \A q \in Range(queue) : row < q

\* The goroutine stops with nothing left, after which nothing is queued.
Stopping ==
    /\ worker = "stopped" => closed /\ queue = <<>> /\ row = No
    /\ closer = "done" => worker = "stopped"

WriterInv == WriterTyped /\ Conserved /\ Ordered /\ Stopping /\ Flushed

-----------------------------------------------------------------------------
(* Sequences.                                                              *)

\* Appending adds one element; a sequence stays rising if it is the largest.
LEMMA Appended ==
    ASSUME NEW s \in Seq(Nat), NEW x \in Nat
    PROVE  /\ Append(s, x) \in Seq(Nat)
           /\ Range(Append(s, x)) = Range(s) \cup {x}
           /\ Rising(s) /\ (\A y \in Range(s) : y < x) => Rising(Append(s, x))
<1> DEFINE t == Append(s, x)
<1>1. /\ t \in Seq(Nat) /\ Len(s) \in Nat /\ Len(t) = Len(s) + 1
      /\ DOMAIN s = 1..Len(s) /\ DOMAIN t = 1..(Len(s) + 1)
      /\ t[Len(s) + 1] = x /\ \A i \in 1..Len(s) : t[i] = s[i] /\ s[i] \in Nat
  OBVIOUS
<1> HIDE DEF t
<1>2. Range(t) = Range(s) \cup {x}
  <2>1. ASSUME NEW y \in Range(t) PROVE y \in Range(s) \cup {x}
    BY <1>1 DEF Range
  <2>2. ASSUME NEW y \in Range(s) PROVE y \in Range(t)
    BY <1>1 DEF Range
  <2>3. x \in Range(t)
    BY <1>1 DEF Range
  <2>4. QED
    BY <2>1, <2>2, <2>3
<1>3. ASSUME Rising(s), \A y \in Range(s) : y < x PROVE Rising(t)
  <2>1. \A i \in 1..Len(s) : s[i] < x
    BY <1>1, <1>3 DEF Range
  <2>2. QED
    <3> SUFFICES ASSUME NEW i \in 1..(Len(s) + 1), NEW k \in 1..(Len(s) + 1), i < k
                 PROVE  t[i] < t[k]
      BY <1>1 DEF Rising
    <3>1. i \in 1..Len(s)
      BY <1>1
    <3>2. CASE k = Len(s) + 1
      BY <1>1, <2>1, <3>1, <3>2
    <3>3. CASE k \in 1..Len(s)
      BY <1>1, <1>3, <3>1, <3>3 DEF Rising
    <3>4. Len(s) \in Nat
      BY <1>1
    <3>5. k = Len(s) + 1 \/ k \in 1..Len(s)
      BY <3>4
    <3>6. QED
      BY <3>2, <3>3, <3>5
<1>4. QED
  BY <1>1, <1>2, <1>3 DEF t

\* The head of a rising sequence is below everything behind it.
LEMMA Taken ==
    ASSUME NEW s \in Seq(Nat), s # <<>>
    PROVE  /\ Head(s) \in Nat /\ Tail(s) \in Seq(Nat)
           /\ Range(s) = Range(Tail(s)) \cup {Head(s)}
           /\ Rising(s) => Rising(Tail(s)) /\ (\A y \in Range(Tail(s)) : Head(s) < y)
<1> DEFINE t == Tail(s)
<1>1. /\ t \in Seq(Nat) /\ Len(s) \in Nat /\ Len(s) >= 1 /\ Len(t) = Len(s) - 1
      /\ DOMAIN s = 1..Len(s) /\ DOMAIN t = 1..(Len(s) - 1)
      /\ Head(s) = s[1] /\ s[1] \in Nat /\ \A i \in 1..(Len(s) - 1) : t[i] = s[i + 1]
  OBVIOUS
<1> HIDE DEF t
<1>2. Range(s) = Range(t) \cup {Head(s)}
  <2>1. ASSUME NEW y \in Range(s) PROVE y \in Range(t) \cup {Head(s)}
    <3>1. PICK i \in 1..Len(s) : y = s[i]
      BY <1>1 DEF Range
    <3>2. CASE i = 1
      BY <1>1, <3>1, <3>2
    <3>3. CASE i # 1
      <4>1. i - 1 \in 1..(Len(s) - 1) /\ t[i - 1] = s[i]
        BY <1>1, <3>3
      <4>2. QED
        BY <1>1, <3>1, <4>1 DEF Range
    <3>4. QED
      BY <3>2, <3>3
  <2>2. ASSUME NEW y \in Range(t) PROVE y \in Range(s)
    <3>1. PICK i \in 1..(Len(s) - 1) : y = t[i]
      BY <1>1 DEF Range
    <3>2. i + 1 \in 1..Len(s) /\ y = s[i + 1]
      BY <1>1, <3>1
    <3>3. QED
      BY <1>1, <3>2 DEF Range
  <2>3. Head(s) \in Range(s)
    BY <1>1 DEF Range
  <2>4. QED
    BY <2>1, <2>2, <2>3
<1>3. ASSUME Rising(s) PROVE Rising(t) /\ \A y \in Range(t) : Head(s) < y
  <2>1. Rising(t)
    <3> SUFFICES ASSUME NEW i \in 1..(Len(s) - 1), NEW k \in 1..(Len(s) - 1), i < k
                 PROVE  t[i] < t[k]
      BY <1>1 DEF Rising
    <3>1. i + 1 \in 1..Len(s) /\ k + 1 \in 1..Len(s) /\ i + 1 < k + 1
      BY <1>1
    <3>2. QED
      BY <1>1, <1>3, <3>1 DEF Rising
  <2>2. ASSUME NEW i \in 1..(Len(s) - 1) PROVE s[1] < t[i]
    <3>1. 1 \in 1..Len(s) /\ i + 1 \in 1..Len(s) /\ 1 < i + 1
      BY <1>1
    <3>2. QED
      BY <1>1, <1>3, <3>1 DEF Rising
  <2>3. QED
    BY <1>1, <2>1, <2>2 DEF Range
<1>4. QED
  BY <1>1, <1>2, <1>3 DEF t

LEMMA EmptyRange == Range(<<>>) = {} /\ Rising(<<>>)
BY DEF Range, Rising

\* The elements of a sequence of numbers are numbers.
LEMMA RangeNat == ASSUME NEW s \in Seq(Nat) PROVE Range(s) \subseteq Nat
BY DEF Range

-----------------------------------------------------------------------------
(* The steps.                                                              *)

\* The invariant holds at the start.
LEMMA WriterInvInit == WriterInit => WriterInv
BY EmptyRange, AuditConstants
   DEF WriterInit, WriterInv, WriterTyped, Conserved, Pending, Settled, Events, Ordered, Stopping, Flushed

\* What a settled event is stays settled, so a Flush that returned stays right.
LEMMA FlushedKept ==
    ASSUME Flushed, Settled \subseteq Settled', UNCHANGED <<flush, before, closer>>,
           closer = "done" => Pending' = {}
    PROVE  Flushed'
BY DEF Flushed

\* Record: the new event is larger than all the others.
LEMMA RecordKeeps == ASSUME WriterInv, Record PROVE WriterInv'
<1> DEFINE e == recorded + 1
<1>1. /\ recorded \in Nat /\ e \in Nat /\ Events' = Events \cup {e} /\ e \notin Events
      /\ e # No /\ \A x \in Events : x \in Nat /\ x < e
  BY AuditConstants DEF Record, WriterInv, WriterTyped, Events
<1>2. Range(queue) \subseteq Events /\ Range(stored) \subseteq Events /\ row \in Events \cup {No}
  BY DEF WriterInv, Conserved, Pending, Settled, WriterTyped
<1>3. CASE closed \/ Len(queue) = Capacity
  <2>1. /\ dropped' = dropped \cup {e}
        /\ UNCHANGED <<queue, stored, row, lost, worker, closed, closer, flush, before, asker>>
    BY <1>3 DEF Record
  <2>2. Pending' = Pending /\ Settled' = Settled \cup {e}
    BY <2>1 DEF Pending, Settled
  <2>3. WriterTyped' /\ Ordered' /\ Stopping'
    BY <1>1, <2>1, <2>2 DEF WriterInv, WriterTyped, Ordered, Stopping, Record
  <2>4. Conserved'
    BY <1>1, <1>2, <2>1, <2>2 DEF WriterInv, Conserved, Pending, Settled
  <2>5. Flushed'
    BY <2>1, <2>2, FlushedKept DEF WriterInv, Flushed
  <2>6. QED
    BY <2>3, <2>4, <2>5 DEF WriterInv
<1>4. CASE ~closed /\ Len(queue) # Capacity
  <2>1. /\ queue' = Append(queue, e)
        /\ UNCHANGED <<dropped, stored, row, lost, worker, closed, closer, flush, before, asker>>
    BY <1>4 DEF Record
  <2>2. /\ queue' \in Seq(Nat) /\ Range(queue') = Range(queue) \cup {e}
        /\ Rising(queue')
    BY <1>1, <1>2, <2>1, Appended DEF WriterInv, WriterTyped, Conserved
  <2>3. Pending' = Pending \cup {e} /\ Settled' = Settled
    BY <2>1, <2>2 DEF Pending, Settled
  <2>4. WriterTyped' /\ Stopping'
    BY <1>1, <1>4, <2>1, <2>2 DEF WriterInv, WriterTyped, Stopping, Record
  <2>5. Ordered'
    BY <1>1, <1>2, <2>1, <2>2, <2>3 DEF WriterInv, Ordered
  <2>6. Conserved'
    BY <1>1, <1>2, <2>1, <2>2, <2>3 DEF WriterInv, Conserved, Settled
  <2>7. Flushed'
    BY <1>4, <2>1, <2>3, FlushedKept DEF WriterInv, Stopping
  <2>8. QED
    BY <2>4, <2>5, <2>6, <2>7 DEF WriterInv
<1>5. QED
  BY <1>3, <1>4

\* Receive: the smallest queued row is taken out.
LEMMA ReceiveKeeps == ASSUME WriterInv, Receive PROVE WriterInv'
<1>1. /\ queue # <<>> /\ queue \in Seq(Nat) /\ row = No /\ row' = Head(queue)
      /\ queue' = Tail(queue) /\ Rising(queue) /\ worker # "stopped"
      /\ UNCHANGED <<dropped, stored, lost, recorded, worker, closed, closer, flush, before, asker>>
  BY DEF Receive, WriterInv, WriterTyped, Conserved
<1>2. /\ row' \in Nat /\ queue' \in Seq(Nat)
      /\ Range(queue) = Range(queue') \cup {row'}
      /\ Rising(queue') /\ \A y \in Range(queue') : row' < y
  BY <1>1, Taken
<1>3. row' # No /\ row' \notin Range(queue')
  BY <1>2, AuditConstants, RangeNat
<1>4. Pending' = Pending /\ Settled' = Settled /\ Events' = Events
  BY <1>1, <1>2, <1>3 DEF Pending, Settled, Events
<1>5. WriterTyped' /\ Stopping'
  BY <1>1, <1>2 DEF WriterInv, WriterTyped, Stopping
<1>6. Ordered'
  BY <1>1, <1>2, <1>4 DEF WriterInv, Ordered
<1>7. Conserved'
  BY <1>1, <1>2, <1>3, <1>4 DEF WriterInv, Conserved
<1>8. Flushed'
  BY <1>1, <1>4, FlushedKept DEF WriterInv, Flushed
<1>9. QED
  BY <1>5, <1>6, <1>7, <1>8 DEF WriterInv

\* WriteRow: the row in hand is larger than all that are stored and smaller than
\* all that are queued.
LEMMA WriteRowKeeps == ASSUME WriterInv, WriteRow PROVE WriterInv'
<1>1. /\ row # No /\ row \in Nat /\ row' = No /\ stored \in Seq(Nat)
      /\ UNCHANGED <<dropped, queue, recorded, worker, closed, closer, flush, before, asker>>
      /\ lost' \in {lost, lost \cup {row}}
      /\ stored' \in {stored, Append(stored, row)}
      /\ row \in Range(stored') \cup lost' \/ stored' = Append(stored, row)
  BY DEF WriteRow, AppendAudit, WriterInv, WriterTyped
<1>2. row \in Pending /\ row \notin Range(queue) /\ \A e \in Range(stored) : e < row
  BY <1>1 DEF Pending, WriterInv, Ordered, Conserved
<1>3. /\ Append(stored, row) \in Seq(Nat) /\ Rising(Append(stored, row))
      /\ Range(Append(stored, row)) = Range(stored) \cup {row}
  BY <1>1, <1>2, Appended DEF WriterInv, Conserved
<1>4. /\ stored' \in Seq(Nat) /\ Rising(stored')
      /\ Range(stored') \in {Range(stored), Range(stored) \cup {row}}
      /\ row \in Range(stored') \cup lost'
  BY <1>1, <1>3 DEF WriterInv, WriterTyped, Conserved
<1>5. /\ Pending = Pending' \cup {row} /\ Pending' = Range(queue)
      /\ Settled' = Settled \cup {row} /\ Events' = Events
  BY <1>1, <1>4 DEF Pending, Settled, Events
<1>6. row \notin Settled /\ No \notin Range(queue)
  BY <1>1, <1>2, AuditConstants, RangeNat DEF WriterInv, Conserved, WriterTyped
<1>7. WriterTyped' /\ Stopping'
  BY <1>1, <1>4 DEF WriterInv, WriterTyped, Stopping
<1>8. Ordered'
  BY <1>1, <1>4, <1>5 DEF WriterInv, Ordered
<1>9. Conserved'
  <2>1. Pending' \cup Settled' = Events' /\ Pending' \cap Settled' = {}
    BY <1>2, <1>5, <1>6 DEF WriterInv, Conserved
  <2>2. dropped' \cap (Range(stored') \cup lost') = {}
    BY <1>1, <1>4, <1>6 DEF WriterInv, Conserved, Settled
  <2>3. row' \notin Range(queue') /\ Rising(queue') /\ Rising(stored')
    BY <1>1, <1>4, <1>6 DEF WriterInv, Conserved
  <2>4. QED
    BY <2>1, <2>2, <2>3 DEF Conserved
<1>10. Flushed'
  BY <1>1, <1>2, <1>5, FlushedKept DEF WriterInv, Flushed
<1>11. QED
  BY <1>7, <1>8, <1>9, <1>10 DEF WriterInv

\* A step that moves no row, records nothing and drops nothing.
LEMMA Elsewhere ==
    ASSUME WriterInv, UNCHANGED <<queue, stored, row, dropped, lost, recorded>>
    PROVE  /\ Conserved' /\ Ordered'
           /\ Pending' = Pending /\ Settled' = Settled
BY DEF WriterInv, Conserved, Ordered, Pending, Settled, Events

\* EndFlush: with the queue empty and no row in hand all events are settled.
LEMMA EndFlushKeeps == ASSUME WriterInv, EndFlush PROVE WriterInv'
<1>1. /\ UNCHANGED <<queue, stored, row, dropped, lost, recorded, before, closer, closed>>
      /\ worker = "flush" /\ worker' = "select" /\ queue = <<>> /\ row = No
      /\ flush' = [flush EXCEPT ![asker] = "done"] \/ flush' = flush
  BY DEF EndFlush
<1>2. Conserved' /\ Ordered' /\ Settled' = Settled /\ Pending' = Pending
  BY <1>1, Elsewhere
<1>3. Settled = 1..recorded
  BY <1>1, EmptyRange DEF WriterInv, Conserved, Pending, Events
<1>4. WriterTyped'
  BY <1>1 DEF WriterInv, WriterTyped
<1>5. Stopping'
  BY <1>1 DEF WriterInv, Stopping
<1>6. \A f \in Flushers : 1..before[f] \subseteq Settled
  BY <1>3 DEF WriterInv, WriterTyped
<1>7. Flushed'
  BY <1>1, <1>2, <1>6 DEF WriterInv, Flushed
<1>8. QED
  BY <1>2, <1>4, <1>5, <1>7 DEF WriterInv

\* The callers of Flush, and what the goroutine does for them.
LEMMA FlushCallsKeep ==
    ASSUME WriterInv, NEW f \in Flushers, TakeFlush(f) \/ CallFlush(f) \/ CancelFlush(f)
    PROVE  WriterInv'
<1>1. UNCHANGED <<queue, stored, row, dropped, lost, recorded, closer, closed>>
  BY DEF TakeFlush, CallFlush, CancelFlush
<1>2. Conserved' /\ Ordered' /\ Settled' = Settled /\ Pending' = Pending
  BY <1>1, Elsewhere
<1>3. WriterTyped'
  <2>1. CASE TakeFlush(f)
    BY <1>1, <2>1 DEF WriterInv, WriterTyped, TakeFlush
  <2>2. CASE CallFlush(f)
    BY <1>1, <2>2 DEF WriterInv, WriterTyped, CallFlush
  <2>3. CASE CancelFlush(f)
    BY <1>1, <2>3 DEF WriterInv, WriterTyped, CancelFlush
  <2>4. QED
    BY <2>1, <2>2, <2>3
<1>4. Stopping'
  BY <1>1 DEF WriterInv, Stopping, TakeFlush, CallFlush, CancelFlush
<1>5. Flushed'
  BY <1>1, <1>2 DEF WriterInv, WriterTyped, Flushed, TakeFlush, CallFlush, CancelFlush
<1>6. QED
  BY <1>2, <1>3, <1>4, <1>5 DEF WriterInv

\* The goroutine's end, and Close.
LEMMA ClosingKeeps ==
    ASSUME WriterInv, Stop \/ CallClose \/ ReturnClose
    PROVE  WriterInv'
<1>1. UNCHANGED <<queue, stored, row, dropped, lost, recorded, flush, before, asker>>
  BY DEF Stop, CallClose, ReturnClose
<1>2. Conserved' /\ Ordered' /\ Settled' = Settled /\ Pending' = Pending
  BY <1>1, Elsewhere
<1>3. WriterTyped'
  BY <1>1 DEF WriterInv, WriterTyped, Stop, CallClose, ReturnClose
<1>4. Stopping'
  BY <1>1 DEF WriterInv, Stopping, Stop, CallClose, ReturnClose
<1>5. worker' = "stopped" => Pending' = {}
  BY <1>4, EmptyRange DEF Stopping, Pending
<1>6. Flushed'
  BY <1>1, <1>2, <1>4, <1>5 DEF WriterInv, Flushed, Stopping
<1>7. QED
  BY <1>2, <1>3, <1>4, <1>6 DEF WriterInv

\* The invariant is inductive.
LEMMA WriterInvStep == WriterInv /\ [WriterNext]_writerVars => WriterInv'
<1> SUFFICES ASSUME WriterInv, [WriterNext]_writerVars PROVE WriterInv'
  OBVIOUS
<1>1. CASE UNCHANGED writerVars
  BY <1>1, Elsewhere DEF writerVars, WriterInv, WriterTyped, Stopping, Flushed
<1>2. CASE SpinFlush
  BY <1>1, <1>2 DEF SpinFlush
<1>3. CASE WriterNext /\ ~SpinFlush
  BY <1>3, RecordKeeps, ReceiveKeeps, WriteRowKeeps, EndFlushKeeps, FlushCallsKeep,
     ClosingKeeps DEF WriterNext
<1>4. QED
  BY <1>1, <1>2, <1>3

-----------------------------------------------------------------------------
\* Record, the goroutine and writeRow: every event is accounted for, and rows
\* are stored in the order in which they were recorded.
THEOREM EventsConserved == WriterSpec => []Conserved
<1>1. WriterInv => Conserved
  BY DEF WriterInv
<1>2. QED
  BY WriterInvInit, WriterInvStep, <1>1, PTL DEF WriterSpec

\* Flush and Close: when they return, what was recorded before is no longer
\* pending.
THEOREM FlushesComplete == WriterSpec => []Flushed
<1>1. WriterInv => Flushed
  BY DEF WriterInv
<1>2. QED
  BY WriterInvInit, WriterInvStep, <1>1, PTL DEF WriterSpec

-----------------------------------------------------------------------------
(* The stores.                                                             *)

\* Rows as they are stored.
StoredSupermasters == [id : ListIds, tenant : Tenants, ip : Addrs, nameserver : Texts]
StoredSync == [id : Ids, tenant : Tenants, ip : SyncAddrs,
               forward : Ids \cup {Null}, reverse : Ids \cup {Null}]

\* The map and the table hold the same rows, every row under its id.
Same(f, S, R) ==
    /\ S = Values(f)
    /\ \A i \in DOMAIN f : f[i] \in R /\ f[i].id = i

\* The same for sync rows, which are kept under tenant and id.
SameSync(f, S) ==
    /\ S = Values(f)
    /\ \A i \in DOMAIN f : f[i] \in StoredSync /\ <<f[i].tenant, f[i].id>> = i

\* What a challenge is about occurs once.
Unrepeated(S) ==
    \A b, c \in S : b.tenant = c.tenant /\ b.fqdn = c.fqdn /\ b.value = c.value => b = c

\* There is one configuration, or none yet.
SameConfig(c, S) == \/ c = Null /\ S = {}
                    \/ c \in Configs /\ S = {c}

\* The in-memory store m and the database d.
Related(m, d) ==
    /\ m = [zones |-> m.zones, templates |-> m.templates, supermasters |-> m.supermasters,
            config |-> m.config, sync |-> m.sync, challenges |-> m.challenges]
    /\ d = [zones |-> d.zones, templates |-> d.templates, supermasters |-> d.supermasters,
            config |-> d.config, sync |-> d.sync, challenges |-> d.challenges]
    /\ Same(m.zones, d.zones, ZoneRows)
    /\ Same(m.templates, d.templates, TemplateRows)
    /\ Same(m.supermasters, d.supermasters, StoredSupermasters)
    /\ SameSync(m.sync, d.sync)
    /\ Same(m.challenges, d.challenges, ChallengeRows)
    /\ Unrepeated(d.challenges)
    /\ SameConfig(m.config, d.config)

-----------------------------------------------------------------------------
(* Maps and tables.                                                        *)

LEMMA SameMembers ==
    ASSUME NEW f, NEW S, NEW R, Same(f, S, R)
    PROVE  /\ \A r \in S : r \in R /\ r.id \in DOMAIN f /\ f[r.id] = r
           /\ \A i \in DOMAIN f : f[i] \in S /\ f[i].id = i
BY DEF Same, Values

LEMMA SameEmpty ==
    ASSUME NEW R
    PROVE  Same(EmptyMap, {}, R) /\ SameSync(EmptyMap, {})
BY DEF Same, SameSync, Values, EmptyMap

LEMMA SameWith ==
    ASSUME NEW f, NEW S, NEW R, Same(f, S, R), NEW v \in R, NEW T,
           \A r \in S : r.id = v.id => r \in T, T \subseteq {r \in S : r.id = v.id}
    PROVE  Same(With(f, v.id, v), (S \ T) \cup {v}, R)
<1>1. DOMAIN With(f, v.id, v) = DOMAIN f \cup {v.id}
  BY DEF With
<1>2. \A i \in DOMAIN f \cup {v.id} : With(f, v.id, v)[i] = IF i = v.id THEN v ELSE f[i]
  BY DEF With
<1>3. Values(With(f, v.id, v)) = (S \ T) \cup {v}
  <2>1. ASSUME NEW x \in Values(With(f, v.id, v)) PROVE x \in (S \ T) \cup {v}
    <3>1. PICK i \in DOMAIN f \cup {v.id} : x = IF i = v.id THEN v ELSE f[i]
      BY <1>1, <1>2, <2>1 DEF Values
    <3> QED
      BY <3>1, SameMembers
  <2>2. ASSUME NEW x \in (S \ T) \cup {v} PROVE x \in Values(With(f, v.id, v))
    <3>1. CASE x = v
      BY <1>1, <1>2, <3>1 DEF Values
    <3>2. CASE x # v
      <4>1. x \in S /\ x.id \in DOMAIN f /\ f[x.id] = x /\ x.id # v.id
        BY <2>2, <3>2, SameMembers
      <4> QED
        BY <1>1, <1>2, <4>1 DEF Values
    <3> QED
      BY <3>1, <3>2
  <2> QED
    BY <2>1, <2>2
<1> QED
  BY <1>1, <1>2, <1>3, SameMembers DEF Same

LEMMA SameWithout ==
    ASSUME NEW f, NEW S, NEW R, Same(f, S, R), NEW K, NEW T,
           \A i \in DOMAIN f : i \in K <=> f[i] \in T
    PROVE  Same(Without(f, K), S \ T, R)
<1>1. DOMAIN Without(f, K) = DOMAIN f \ K /\ \A i \in DOMAIN f \ K : Without(f, K)[i] = f[i]
  BY DEF Without
<1>2. Values(Without(f, K)) = S \ T
  BY <1>1 DEF Values, Same
<1> QED
  BY <1>1, <1>2 DEF Same

\* A row of the tenant is found in the one store as in the other.
LEMMA FoundWhere ==
    ASSUME NEW f, NEW S, NEW R, Same(f, S, R), NEW t, NEW id
    PROVE  /\ Found(f, t, id) =>
                /\ D!Where(S, t, id) = {f[id]}
                /\ f[id] \in R /\ f[id].id = id /\ f[id].tenant = t
           /\ ~Found(f, t, id) => D!Where(S, t, id) = {}
BY SameMembers DEF Found, D!Where, D!Visible
LEMMA SyncMembers ==
    ASSUME NEW f, NEW S, SameSync(f, S)
    PROVE  /\ \A r \in S : r \in StoredSync /\ <<r.tenant, r.id>> \in DOMAIN f /\ f[<<r.tenant, r.id>>] = r
           /\ \A i \in DOMAIN f : f[i] \in S /\ <<f[i].tenant, f[i].id>> = i
BY DEF SameSync, Values

LEMMA SyncWhere ==
    ASSUME NEW f, NEW S, SameSync(f, S), NEW t, NEW id
    PROVE  /\ <<t, id>> \in DOMAIN f => D!Where(S, t, id) = {f[<<t, id>>]}
           /\ <<t, id>> \notin DOMAIN f => D!Where(S, t, id) = {}
<1>1. CASE <<t, id>> \in DOMAIN f
  <2>1. f[<<t, id>>] \in S /\ f[<<t, id>>].tenant = t /\ f[<<t, id>>].id = id
    BY <1>1, SyncMembers
  <2>2. \A r \in S : r.tenant = t /\ r.id = id => r = f[<<t, id>>]
    BY SyncMembers
  <2> QED
    BY <1>1, <2>1, <2>2 DEF D!Where, D!Visible
<1>2. CASE <<t, id>> \notin DOMAIN f
  BY <1>2, SyncMembers DEF D!Where, D!Visible
<1> QED
  BY <1>1, <1>2

LEMMA SyncWith ==
    ASSUME NEW f, NEW S, SameSync(f, S), NEW v \in StoredSync
    PROVE  SameSync(With(f, <<v.tenant, v.id>>, v), (S \ D!Where(S, v.tenant, v.id)) \cup {v})
<1> DEFINE k == <<v.tenant, v.id>>
           g == With(f, k, v)
<1>1. DOMAIN g = DOMAIN f \cup {k} /\ \A i \in DOMAIN f \cup {k} : g[i] = IF i = k THEN v ELSE f[i]
  BY DEF With
<1>2. \A i \in DOMAIN g : g[i] \in StoredSync /\ <<g[i].tenant, g[i].id>> = i
  BY <1>1 DEF SameSync
<1>3. \A x : x \in Values(g) <=> x = v \/ (x \in S /\ <<x.tenant, x.id>> # k)
  <2>1. ASSUME NEW x \in Values(g) PROVE x = v \/ (x \in S /\ <<x.tenant, x.id>> # k)
    <3>1. PICK i \in DOMAIN f \cup {k} : x = IF i = k THEN v ELSE f[i]
      BY <1>1, <2>1 DEF Values
    <3> QED
      BY <3>1, SyncMembers
  <2>2. v \in Values(g)
    BY <1>1 DEF Values
  <2>3. ASSUME NEW x \in S, <<x.tenant, x.id>> # k PROVE x \in Values(g)
    <3>1. <<x.tenant, x.id>> \in DOMAIN f /\ f[<<x.tenant, x.id>>] = x
      BY SyncMembers
    <3> QED
      BY <1>1, <2>3, <3>1 DEF Values
  <2> QED
    BY <2>1, <2>2, <2>3
<1>4. \A x \in S : <<x.tenant, x.id>> # k <=> x \notin D!Where(S, v.tenant, v.id)
  BY DEF D!Where, D!Visible
<1>5. Values(g) = (S \ D!Where(S, v.tenant, v.id)) \cup {v}
  BY <1>3, <1>4
<1> QED
  BY <1>2, <1>5 DEF SameSync

LEMMA SyncWithout ==
    ASSUME NEW f, NEW S, SameSync(f, S), NEW t, NEW id
    PROVE  SameSync(Without(f, {<<t, id>>}), S \ D!Where(S, t, id))
<1> DEFINE k == <<t, id>>
           g == Without(f, {k})
<1>1. DOMAIN g = DOMAIN f \ {k} /\ \A i \in DOMAIN f \ {k} : g[i] = f[i]
  BY DEF Without
<1>2. \A i \in DOMAIN g : g[i] \in StoredSync /\ <<g[i].tenant, g[i].id>> = i
  BY <1>1 DEF SameSync
<1>3. \A x : x \in Values(g) <=> x \in S /\ <<x.tenant, x.id>> # k
  <2>1. ASSUME NEW x \in Values(g) PROVE x \in S /\ <<x.tenant, x.id>> # k
    <3>1. PICK i \in DOMAIN f \ {k} : x = f[i]
      BY <1>1, <2>1 DEF Values
    <3> QED
      BY <3>1, SyncMembers
  <2>2. ASSUME NEW x \in S, <<x.tenant, x.id>> # k PROVE x \in Values(g)
    <3>1. <<x.tenant, x.id>> \in DOMAIN f /\ f[<<x.tenant, x.id>>] = x
      BY SyncMembers
    <3> QED
      BY <1>1, <2>2, <3>1 DEF Values
  <2> QED
    BY <2>1, <2>2
<1>4. \A x \in S : <<x.tenant, x.id>> # k <=> x \notin D!Where(S, t, id)
  BY DEF D!Where, D!Visible
<1>5. Values(g) = S \ D!Where(S, t, id)
  BY <1>3, <1>4
<1> QED
  BY <1>2, <1>5 DEF SameSync

-----------------------------------------------------------------------------
(* One table changes on both sides.                                        *)

LEMMA ZonesChange ==
    ASSUME NEW m, NEW d, Related(m, d), NEW f, NEW S, Same(f, S, ZoneRows)
    PROVE  Related([m EXCEPT !.zones = f], [d EXCEPT !.zones = S])
BY DEF Related

LEMMA TemplatesChange ==
    ASSUME NEW m, NEW d, Related(m, d), NEW f, NEW S, Same(f, S, TemplateRows)
    PROVE  Related([m EXCEPT !.templates = f], [d EXCEPT !.templates = S])
BY DEF Related

LEMMA SupermastersChange ==
    ASSUME NEW m, NEW d, Related(m, d), NEW f, NEW S, Same(f, S, StoredSupermasters)
    PROVE  Related([m EXCEPT !.supermasters = f], [d EXCEPT !.supermasters = S])
BY DEF Related

LEMMA SyncChange ==
    ASSUME NEW m, NEW d, Related(m, d), NEW f, NEW S, SameSync(f, S)
    PROVE  Related([m EXCEPT !.sync = f], [d EXCEPT !.sync = S])
BY DEF Related

LEMMA ConfigChange ==
    ASSUME NEW m, NEW d, Related(m, d), NEW c, NEW S, SameConfig(c, S)
    PROVE  Related([m EXCEPT !.config = c], [d EXCEPT !.config = S])
BY DEF Related

LEMMA ChallengesChange ==
    ASSUME NEW m, NEW d, Related(m, d), NEW f, NEW S, Same(f, S, ChallengeRows), Unrepeated(S)
    PROVE  Related([m EXCEPT !.challenges = f], [d EXCEPT !.challenges = S])
BY DEF Related

-----------------------------------------------------------------------------
(* Parts of the methods.                                                   *)

LEMMA Answers ==
    ASSUME NEW s, NEW a
    PROVE  /\ Answer(s, a).st = s /\ Answer(s, a).ans = a
           /\ D!Result(s, a).st = s /\ D!Result(s, a).ans = a
BY DEF Answer, D!Result

LEMMA AnsweredAlike ==
    ASSUME NEW m, NEW d, NEW a
    PROVE  Answer(m, a).ans = D!Result(d, a).ans
BY DEF Answer, D!Result

LEMMA SameChoice ==
    ASSUME NEW S, NEW T, S = T
    PROVE  (CHOOSE r \in S : TRUE) = (CHOOSE r \in T : TRUE)
OBVIOUS

LEMMA ChooseOnly ==
    ASSUME NEW x
    PROVE  (CHOOSE r \in {x} : TRUE) = x
OBVIOUS

LEMMA Selects ==
    ASSUME NEW d, NEW x
    PROVE  D!Select(d, {}) = D!Result(d, "ErrNotFound") /\ D!Select(d, {x}) = D!Result(d, x)
<1>1. D!Select(d, {}) = D!Result(d, "ErrNotFound")
  BY DEF D!Select, D!NoRows
<1>2. {x} # {}
  OBVIOUS
<1> QED
  BY <1>1, <1>2, ChooseOnly DEF D!Select

\* What the unique indexes of the schema say.
LEMMA Duplicates ==
    ASSUME NEW S, NEW v
    PROVE  /\ D!Duplicate(S, v, D!Id) <=> \E r \in S : r.id = v.id
           /\ D!Duplicate(S, v, D!ZoneName) <=> \E r \in S : r.name = v.name
           /\ D!Duplicate(S, v, D!ZonePdns) <=> \E r \in S : r.pdns = v.pdns
           /\ D!Duplicate(S, v, D!TemplateName) <=>
                \E r \in S : r.tenant = v.tenant /\ r.name.text = v.name.text
           /\ D!Duplicate(S, v, D!SupermasterPair) <=>
                \E r \in S : r.ip = v.ip /\ r.nameserver = v.nameserver
           /\ D!Duplicate(S, v, D!ChallengeKey) <=>
                \E r \in S : r.tenant = v.tenant /\ r.fqdn = v.fqdn /\ r.value = v.value
<1>1. D!Duplicate(S, v, D!Id) <=> \E r \in S : r.id = v.id
  BY DEF D!Duplicate, D!Column, D!Id
<1>2. D!Duplicate(S, v, D!ZoneName) <=> \E r \in S : r.name = v.name
  BY DEF D!Duplicate, D!Column, D!ZoneName
<1>3. D!Duplicate(S, v, D!ZonePdns) <=> \E r \in S : r.pdns = v.pdns
  BY DEF D!Duplicate, D!Column, D!ZonePdns
<1>4. D!Duplicate(S, v, D!TemplateName) <=>
        \E r \in S : r.tenant = v.tenant /\ r.name.text = v.name.text
  BY DEF D!Duplicate, D!Column, D!TemplateName
<1>5. D!Duplicate(S, v, D!SupermasterPair) <=>
        \E r \in S : r.ip = v.ip /\ r.nameserver = v.nameserver
  BY DEF D!Duplicate, D!Column, D!SupermasterPair
<1>6. D!Duplicate(S, v, D!ChallengeKey) <=>
        \E r \in S : r.tenant = v.tenant /\ r.fqdn = v.fqdn /\ r.value = v.value
  BY DEF D!Duplicate, D!Column, D!ChallengeKey
<1> QED
  BY <1>1, <1>2, <1>3, <1>4, <1>5, <1>6

\* An id is a key of the map when a row of the table has it.
LEMMA TakenId ==
    ASSUME NEW f, NEW S, NEW R, Same(f, S, R), NEW v
    PROVE  v.id \in DOMAIN f <=> D!Duplicate(S, v, D!Id)
BY SameMembers, Duplicates

LEMMA SameAdded ==
    ASSUME NEW f, NEW S, NEW R, Same(f, S, R), NEW v \in R, v.id \notin DOMAIN f
    PROVE  Same(With(f, v.id, v), S \cup {v}, R)
<1>1. \A r \in S : r.id # v.id
  BY SameMembers
<1>2. Same(With(f, v.id, v), (S \ {}) \cup {v}, R)
  BY <1>1, SameWith
<1>3. S \ {} = S
  OBVIOUS
<1> QED
  BY <1>2, <1>3

LEMMA SameReplaced ==
    ASSUME NEW f, NEW S, NEW R, Same(f, S, R), NEW v \in R, NEW t, Found(f, t, v.id)
    PROVE  Same(With(f, v.id, v), (S \ D!Where(S, t, v.id)) \cup {v}, R)
<1>1. D!Where(S, t, v.id) = {f[v.id]} /\ f[v.id].id = v.id
  BY FoundWhere
<1>2. \A r \in S : r.id = v.id => r = f[v.id]
  BY SameMembers
<1>3. f[v.id] \in S
  BY SameMembers DEF Found
<1>4. /\ \A r \in S : r.id = v.id => r \in D!Where(S, t, v.id)
      /\ D!Where(S, t, v.id) \subseteq {r \in S : r.id = v.id}
  BY <1>1, <1>2, <1>3
<1> QED
  BY <1>4, SameWith

LEMMA SameRemoved ==
    ASSUME NEW f, NEW S, NEW R, Same(f, S, R), NEW t, NEW id, Found(f, t, id)
    PROVE  Same(Without(f, {id}), S \ D!Where(S, t, id), R)
<1>1. D!Where(S, t, id) = {f[id]} /\ f[id].id = id
  BY FoundWhere
<1>2. \A i \in DOMAIN f : i \in {id} <=> f[i] \in {f[id]}
  BY <1>1, SameMembers
<1> QED
  BY <1>1, <1>2, SameWithout

\* Reading a row by its id.
LEMMA GetAgrees ==
    ASSUME NEW m, NEW d, NEW f, NEW S, NEW R, Same(f, S, R), NEW t, NEW id
    PROVE  Get(m, f, t, id).ans = D!Select(d, D!Where(S, t, id)).ans
<1>1. CASE Found(f, t, id)
  <2>1. D!Where(S, t, id) = {f[id]}
    BY <1>1, FoundWhere
  <2>2. Get(m, f, t, id) = Answer(m, f[id])
    BY <1>1 DEF Get
  <2>3. D!Select(d, D!Where(S, t, id)) = D!Result(d, f[id])
    BY <2>1, Selects
  <2> QED
    BY <2>2, <2>3, AnsweredAlike
<1>2. CASE ~Found(f, t, id)
  <2>1. D!Where(S, t, id) = {}
    BY <1>2, FoundWhere
  <2>2. Get(m, f, t, id) = Answer(m, "ErrNotFound")
    BY <1>2 DEF Get
  <2>3. D!Select(d, D!Where(S, t, id)) = D!Result(d, "ErrNotFound")
    BY <2>1, Selects
  <2> QED
    BY <2>2, <2>3, AnsweredAlike
<1> QED
  BY <1>1, <1>2

-----------------------------------------------------------------------------
(* Every method that writes, on related stores: it leaves them related and *)
(* answers alike.                                                          *)

Agree(a, b) == Related(a.st, b.st) /\ a.ans = b.ans

LEMMA AgreeAnswers ==
    ASSUME NEW m, NEW d, Related(m, d), NEW a
    PROVE  Agree(Answer(m, a), D!Result(d, a))
BY Answers DEF Agree

LEMMA CreateZoneAgrees ==
    ASSUME NEW m, NEW d, Related(m, d), NEW z \in ZoneRows
    PROVE  Agree(MemCreateZone(m, z), D!DbCreateZone(d, z))
<1> DEFINE Clash == z.id \in DOMAIN m.zones \/ \E x \in Values(m.zones) : x.name = z.name \/ x.pdns = z.pdns
           Dup == \/ D!Duplicate(d.zones, z, D!Id)
                  \/ D!Duplicate(d.zones, z, D!ZoneName) \/ D!Duplicate(d.zones, z, D!ZonePdns)
<1>1. Same(m.zones, d.zones, ZoneRows) /\ d.zones = Values(m.zones)
  BY DEF Related, Same
<1>2. Clash <=> Dup
  BY <1>1, TakenId, Duplicates
<1>3. CASE Clash
  <2>1. MemCreateZone(m, z) = Answer(m, "ErrConflict") /\ D!DbCreateZone(d, z) = D!Result(d, "ErrConflict")
    BY <1>2, <1>3 DEF MemCreateZone, D!DbCreateZone, D!unique_violation
  <2> QED
    BY <2>1, AgreeAnswers
<1>4. CASE ~Clash
  <2> DEFINE f == With(m.zones, z.id, z)
             S == d.zones \cup {z}
  <2>1. /\ MemCreateZone(m, z) = Answer([m EXCEPT !.zones = f], "ok")
        /\ D!DbCreateZone(d, z) = D!Result([d EXCEPT !.zones = S], "ok")
    BY <1>2, <1>4 DEF MemCreateZone, D!DbCreateZone
  <2>2. Same(f, S, ZoneRows)
    BY <1>1, <1>4, SameAdded
  <2>3. Related([m EXCEPT !.zones = f], [d EXCEPT !.zones = S])
    BY <2>2, ZonesChange
  <2> QED
    BY <2>1, <2>3, AgreeAnswers
<1> QED
  BY <1>3, <1>4

LEMMA UpdateZoneAgrees ==
    ASSUME NEW m, NEW d, Related(m, d), NEW z \in ZoneRows
    PROVE  Agree(MemUpdateZone(m, z), D!DbUpdateZone(d, z))
<1>1. Same(m.zones, d.zones, ZoneRows)
  BY DEF Related
<1>2. CASE ~Found(m.zones, z.tenant, z.id)
  <2>1. D!Where(d.zones, z.tenant, z.id) = {}
    BY <1>1, <1>2, FoundWhere
  <2>2. MemUpdateZone(m, z) = Answer(m, "ErrNotFound") /\ D!DbUpdateZone(d, z) = D!Result(d, "ErrNotFound")
    BY <1>2, <2>1 DEF MemUpdateZone, D!DbUpdateZone, D!NoRows
  <2> QED
    BY <2>2, AgreeAnswers
<1>3. CASE Found(m.zones, z.tenant, z.id)
  <2> DEFINE entry == m.zones[z.id]
             cur == [entry EXCEPT !.meta = z.meta]
             old == D!Where(d.zones, z.tenant, z.id)
             f == With(m.zones, z.id, cur)
             S == (d.zones \ old) \cup {cur}
  <2>1. old = {entry} /\ entry \in ZoneRows /\ entry.id = z.id
    BY <1>1, <1>3, FoundWhere
  <2>2. cur \in ZoneRows /\ cur.id = z.id
    BY <2>1 DEF ZoneRows
  <2>3. {[r EXCEPT !.meta = z.meta] : r \in old} = {cur}
    BY <2>1
  <2>4. MemUpdateZone(m, z) = Answer([m EXCEPT !.zones = f], cur)
    BY <1>3 DEF MemUpdateZone
  <2>5. D!DbUpdateZone(d, z) = D!Result([d EXCEPT !.zones = S], cur)
    <3>1. old # {}
      BY <2>1
    <3>2. (CHOOSE r \in {cur} : TRUE) = cur
      BY ChooseOnly
    <3> HIDE DEF cur
    <3> QED
      BY <2>3, <3>1, <3>2 DEF D!DbUpdateZone
  <2>6. Same(f, S, ZoneRows)
    <3> HIDE DEF cur
    <3> QED
      BY <1>1, <1>3, <2>2, SameReplaced
  <2>7. Related([m EXCEPT !.zones = f], [d EXCEPT !.zones = S])
    BY <2>6, ZonesChange
  <2> QED
    BY <2>4, <2>5, <2>7, AgreeAnswers
<1> QED
  BY <1>2, <1>3

LEMMA DeleteZoneAgrees ==
    ASSUME NEW m, NEW d, Related(m, d), NEW t, NEW id
    PROVE  Agree(MemDeleteZone(m, t, id), D!DbDeleteZone(d, t, id))
<1>1. Same(m.zones, d.zones, ZoneRows) /\ Same(m.challenges, d.challenges, ChallengeRows)
  BY DEF Related
<1>2. CASE ~Found(m.zones, t, id)
  <2>1. D!Where(d.zones, t, id) = {}
    BY <1>1, <1>2, FoundWhere
  <2>2. /\ MemDeleteZone(m, t, id) = Answer(m, "ErrNotFound")
        /\ D!DbDeleteZone(d, t, id) = D!Result(d, "ErrNotFound")
    BY <1>2, <2>1 DEF MemDeleteZone, D!DbDeleteZone, D!NoRows
  <2> QED
    BY <2>2, AgreeAnswers
<1>3. CASE Found(m.zones, t, id)
  <2> DEFINE f == Without(m.zones, {id})
             S == d.zones \ D!Where(d.zones, t, id)
             K == {k \in DOMAIN m.challenges : m.challenges[k].tenant = t /\ m.challenges[k].zone = id}
             g == Without(m.challenges, K)
             T == {c \in d.challenges : ~(c.tenant = t /\ c.zone = id)}
             m1 == [m EXCEPT !.zones = f]
             d1 == [d EXCEPT !.zones = S]
  <2>1. D!Where(d.zones, t, id) # {}
    BY <1>1, <1>3, FoundWhere
  <2>2. Related(m1, d1)
    BY <1>1, <1>3, SameRemoved, ZonesChange
  <2>3. Same(g, T, ChallengeRows)
    <3> DEFINE U == {c \in d.challenges : c.tenant = t /\ c.zone = id}
    <3>1. \A i \in DOMAIN m.challenges : i \in K <=> m.challenges[i] \in U
      BY <1>1, SameMembers
    <3>2. Same(g, d.challenges \ U, ChallengeRows)
      BY <1>1, <3>1, SameWithout
    <3>3. d.challenges \ U = T
      OBVIOUS
    <3> QED
      BY <3>2, <3>3
  <2>4. Unrepeated(T)
    BY DEF Related, Unrepeated
  <2>5. Related([m1 EXCEPT !.challenges = g], [d1 EXCEPT !.challenges = T])
    BY <2>2, <2>3, <2>4, ChallengesChange
  <2>6. MemDeleteZone(m, t, id) = Answer([m1 EXCEPT !.challenges = g], "ok")
    BY <1>3 DEF MemDeleteZone, Related
  <2>7. D!DbDeleteZone(d, t, id) = D!Result([d1 EXCEPT !.challenges = T], "ok")
    BY <2>1 DEF D!DbDeleteZone, Related
  <2> QED
    BY <2>5, <2>6, <2>7, AgreeAnswers
<1> QED
  BY <1>2, <1>3

LEMMA InsertChallengeAgrees ==
    ASSUME NEW m, NEW d, Related(m, d), NEW c \in ChallengeRows
    PROVE  /\ Related(MemInsertChallenge(m, c).st, D!DbInsertChallenge(d, c).st)
           /\ \/ MemInsertChallenge(m, c).ans = D!DbInsertChallenge(d, c).ans
              \/ /\ ~Found(m.zones, c.tenant, c.zone)
                 /\ D!Duplicate(d.challenges, c, D!ChallengeKey) \/ D!Duplicate(d.challenges, c, D!Id)
<1> DEFINE Held == \/ c.id \in DOMAIN m.challenges
                   \/ \E x \in Values(m.challenges) :
                          x.tenant = c.tenant /\ x.fqdn = c.fqdn /\ x.value = c.value
           Dup == D!Duplicate(d.challenges, c, D!Id) \/ D!Duplicate(d.challenges, c, D!ChallengeKey)
           Zone == Found(m.zones, c.tenant, c.zone)
<1>1. Same(m.zones, d.zones, ZoneRows) /\ Same(m.challenges, d.challenges, ChallengeRows)
  BY DEF Related
<1>2. Held <=> Dup
  <2>1. c.id \in DOMAIN m.challenges <=> D!Duplicate(d.challenges, c, D!Id)
    BY <1>1, TakenId
  <2>2. D!Duplicate(d.challenges, c, D!ChallengeKey) <=>
          \E x \in d.challenges : x.tenant = c.tenant /\ x.fqdn = c.fqdn /\ x.value = c.value
    BY Duplicates
  <2>3. d.challenges = Values(m.challenges)
    BY <1>1 DEF Same
  <2> QED
    BY <2>1, <2>2, <2>3
<1>3. Zone <=> D!Where(d.zones, c.tenant, c.zone) # {}
  BY <1>1, FoundWhere
<1>4. CASE ~Zone
  <2>1. MemInsertChallenge(m, c) = Answer(m, "ErrNotFound")
    BY <1>4 DEF MemInsertChallenge
  <2>2. CASE Dup
    <3>1. D!DbInsertChallenge(d, c) = D!Result(d, "ErrConflict")
      BY <2>2 DEF D!DbInsertChallenge, D!unique_violation
    <3>2. MemInsertChallenge(m, c).st = m /\ D!DbInsertChallenge(d, c).st = d
      BY <2>1, <3>1, Answers
    <3> QED
      BY <1>4, <2>2, <3>2
  <2>3. CASE ~Dup
    <3>1. D!DbInsertChallenge(d, c) = D!Result(d, "ErrNotFound")
      BY <1>3, <1>4, <2>3 DEF D!DbInsertChallenge, D!foreign_key_violation
    <3>2. MemInsertChallenge(m, c).st = m /\ D!DbInsertChallenge(d, c).st = d
      BY <2>1, <3>1, Answers
    <3>3. MemInsertChallenge(m, c).ans = D!DbInsertChallenge(d, c).ans
      BY <2>1, <3>1, AnsweredAlike
    <3> QED
      BY <3>2, <3>3
  <2> QED
    BY <2>2, <2>3
<1>5. CASE Zone /\ Held
  <2>1. MemInsertChallenge(m, c) = Answer(m, "ErrConflict")
    BY <1>5 DEF MemInsertChallenge
  <2>2. D!DbInsertChallenge(d, c) = D!Result(d, "ErrConflict")
    BY <1>2, <1>5 DEF D!DbInsertChallenge, D!unique_violation
  <2> QED
    BY <2>1, <2>2, Answers
<1>6. CASE Zone /\ ~Held
  <2> DEFINE f == With(m.challenges, c.id, c)
             S == d.challenges \cup {c}
  <2>1. MemInsertChallenge(m, c) = Answer([m EXCEPT !.challenges = f], "ok")
    BY <1>6 DEF MemInsertChallenge
  <2>2. D!DbInsertChallenge(d, c) = D!Result([d EXCEPT !.challenges = S], "ok")
    BY <1>2, <1>3, <1>6 DEF D!DbInsertChallenge
  <2>3. Same(f, S, ChallengeRows)
    BY <1>1, <1>6, SameAdded
  <2>4. \A x \in d.challenges : ~(x.tenant = c.tenant /\ x.fqdn = c.fqdn /\ x.value = c.value)
    BY <1>1, <1>6 DEF Same
  <2>5. Unrepeated(S)
    BY <2>4 DEF Related, Unrepeated
  <2>6. Related([m EXCEPT !.challenges = f], [d EXCEPT !.challenges = S])
    BY <2>3, <2>5, ChallengesChange
  <2> QED
    BY <2>1, <2>2, <2>6, Answers
<1> QED
  BY <1>4, <1>5, <1>6

LEMMA DeleteChallengeAgrees ==
    ASSUME NEW m, NEW d, Related(m, d), NEW t, NEW fqdn, NEW value
    PROVE  Agree(MemDeleteChallenge(m, t, fqdn, value), D!DbDeleteChallenge(d, t, fqdn, value))
<1> DEFINE hits == {k \in DOMAIN m.challenges : /\ m.challenges[k].tenant = t
                                                /\ m.challenges[k].fqdn = fqdn
                                                /\ m.challenges[k].value = value}
           old == {c \in D!Visible(d.challenges, t) : c.fqdn = fqdn /\ c.value = value}
<1>1. Same(m.challenges, d.challenges, ChallengeRows)
  BY DEF Related
<1>2. \A i \in DOMAIN m.challenges : i \in hits <=> m.challenges[i] \in old
  BY <1>1, SameMembers DEF D!Visible
<1>3. CASE hits = {}
  <2>1. old = {}
    BY <1>1, <1>2, <1>3, SameMembers DEF D!Visible
  <2>2. /\ MemDeleteChallenge(m, t, fqdn, value) = Answer(m, "ErrNotFound")
        /\ D!DbDeleteChallenge(d, t, fqdn, value) = D!Result(d, "ErrNotFound")
    BY <1>3, <2>1 DEF MemDeleteChallenge, D!DbDeleteChallenge, D!NoRows
  <2> QED
    BY <2>2, AgreeAnswers
<1>4. CASE hits # {}
  <2> DEFINE k == CHOOSE i \in hits : TRUE
             f == Without(m.challenges, {k})
             S == d.challenges \ old
  <2>1. k \in hits
    BY <1>4
  <2>2. old # {}
    BY <1>2, <2>1
  <2>3. \A i \in DOMAIN m.challenges : i \in hits => i = k
    <3>1. SUFFICES ASSUME NEW i \in hits PROVE i = k
      OBVIOUS
    <3>2. m.challenges[i] \in d.challenges /\ m.challenges[k] \in d.challenges
      BY <1>1, <2>1, SameMembers
    <3>3. m.challenges[i] = m.challenges[k]
      BY <2>1, <3>2 DEF Related, Unrepeated
    <3> QED
      BY <1>1, <2>1, <3>3, SameMembers
  <2>4. /\ MemDeleteChallenge(m, t, fqdn, value) = Answer([m EXCEPT !.challenges = f], "ok")
        /\ D!DbDeleteChallenge(d, t, fqdn, value) = D!Result([d EXCEPT !.challenges = S], "ok")
    BY <1>4, <2>2 DEF MemDeleteChallenge, D!DbDeleteChallenge
  <2>5. Same(f, S, ChallengeRows)
    <3>1. \A i \in DOMAIN m.challenges : i \in {k} <=> m.challenges[i] \in old
      BY <1>2, <2>1, <2>3
    <3> HIDE DEF k, old
    <3> QED
      BY <1>1, <3>1, SameWithout
  <2>6. Unrepeated(S)
    BY DEF Related, Unrepeated
  <2>7. Related([m EXCEPT !.challenges = f], [d EXCEPT !.challenges = S])
    BY <2>5, <2>6, ChallengesChange
  <2> QED
    BY <2>4, <2>7, AgreeAnswers
<1> QED
  BY <1>3, <1>4

-----------------------------------------------------------------------------
(* Templates, supermasters and the configuration.                          *)

LEMMA CreateTemplateAgrees ==
    ASSUME NEW m, NEW d, Related(m, d), NEW t \in TemplateRows
    PROVE  Agree(MemCreateTemplate(m, t), D!DbCreateTemplate(d, t))
<1> DEFINE Clash == t.id \in DOMAIN m.templates \/ NameTaken(m, t)
           Dup == D!Duplicate(d.templates, t, D!Id) \/ D!Duplicate(d.templates, t, D!TemplateName)
<1>1. Same(m.templates, d.templates, TemplateRows) /\ d.templates = Values(m.templates)
  BY DEF Related, Same
<1>2. Clash <=> Dup
  <2>1. t.id \in DOMAIN m.templates <=> \E r \in d.templates : r.id = t.id
    BY <1>1, TakenId, Duplicates
  <2> QED
    BY <1>1, <2>1, Duplicates DEF NameTaken
<1>3. CASE Clash
  <2>1. /\ MemCreateTemplate(m, t) = Answer(m, "ErrConflict")
        /\ D!DbCreateTemplate(d, t) = D!Result(d, "ErrConflict")
    BY <1>2, <1>3 DEF MemCreateTemplate, D!DbCreateTemplate, D!unique_violation
  <2> QED
    BY <2>1, AgreeAnswers
<1>4. CASE ~Clash
  <2> DEFINE f == With(m.templates, t.id, t)
             S == d.templates \cup {t}
  <2>1. /\ MemCreateTemplate(m, t) = Answer([m EXCEPT !.templates = f], "ok")
        /\ D!DbCreateTemplate(d, t) = D!Result([d EXCEPT !.templates = S], "ok")
    BY <1>2, <1>4 DEF MemCreateTemplate, D!DbCreateTemplate
  <2>2. Same(f, S, TemplateRows)
    BY <1>1, <1>4, SameAdded
  <2>3. Related([m EXCEPT !.templates = f], [d EXCEPT !.templates = S])
    BY <2>2, TemplatesChange
  <2> QED
    BY <2>1, <2>3, AgreeAnswers
<1> QED
  BY <1>3, <1>4

LEMMA UpdateTemplateAgrees ==
    ASSUME NEW m, NEW d, Related(m, d), NEW t \in TemplateRows
    PROVE  Agree(MemUpdateTemplate(m, t), D!DbUpdateTemplate(d, t))
<1> DEFINE old == D!Where(d.templates, t.tenant, t.id)
           Dup == D!Duplicate(d.templates \ old, t, D!TemplateName)
<1>1. Same(m.templates, d.templates, TemplateRows) /\ d.templates = Values(m.templates)
  BY DEF Related, Same
<1>2. CASE ~Found(m.templates, t.tenant, t.id)
  <2>1. old = {}
    BY <1>1, <1>2, FoundWhere
  <2>2. /\ MemUpdateTemplate(m, t) = Answer(m, "ErrNotFound")
        /\ D!DbUpdateTemplate(d, t) = D!Result(d, "ErrNotFound")
    BY <1>2, <2>1 DEF MemUpdateTemplate, D!DbUpdateTemplate, D!NoRows
  <2> QED
    BY <2>2, AgreeAnswers
<1>3. CASE Found(m.templates, t.tenant, t.id)
  <2>1. old # {}
    BY <1>1, <1>3, FoundWhere
  <2>2. NameTaken(m, t) <=> Dup
    <3>1. \A r \in d.templates : r.tenant = t.tenant => (r \in old <=> r.id = t.id)
      BY DEF D!Where, D!Visible
    <3>2. Dup <=> \E r \in d.templates \ old : r.tenant = t.tenant /\ r.name.text = t.name.text
      BY Duplicates
    <3> QED
      BY <1>1, <3>1, <3>2 DEF NameTaken
  <2>3. CASE NameTaken(m, t)
    <3>1. /\ MemUpdateTemplate(m, t) = Answer(m, "ErrConflict")
          /\ D!DbUpdateTemplate(d, t) = D!Result(d, "ErrConflict")
      BY <1>3, <2>1, <2>2, <2>3 DEF MemUpdateTemplate, D!DbUpdateTemplate, D!unique_violation
    <3> QED
      BY <3>1, AgreeAnswers
  <2>4. CASE ~NameTaken(m, t)
    <3> DEFINE f == With(m.templates, t.id, t)
               S == (d.templates \ old) \cup {t}
    <3>1. /\ MemUpdateTemplate(m, t) = Answer([m EXCEPT !.templates = f], t)
          /\ D!DbUpdateTemplate(d, t) = D!Result([d EXCEPT !.templates = S], t)
      BY <1>3, <2>1, <2>2, <2>4 DEF MemUpdateTemplate, D!DbUpdateTemplate
    <3>2. Same(f, S, TemplateRows)
      BY <1>1, <1>3, SameReplaced
    <3>3. Related([m EXCEPT !.templates = f], [d EXCEPT !.templates = S])
      BY <3>2, TemplatesChange
    <3> QED
      BY <3>1, <3>3, AgreeAnswers
  <2> QED
    BY <2>3, <2>4
<1> QED
  BY <1>2, <1>3

LEMMA DeleteTemplateAgrees ==
    ASSUME NEW m, NEW d, Related(m, d), NEW t, NEW id
    PROVE  Agree(MemDeleteTemplate(m, t, id), D!DbDeleteTemplate(d, t, id))
<1> DEFINE f == Without(m.templates, {id})
           S == d.templates \ D!Where(d.templates, t, id)
<1>1. Same(m.templates, d.templates, TemplateRows)
  BY DEF Related
<1>2. CASE ~Found(m.templates, t, id)
  <2>1. D!Where(d.templates, t, id) = {}
    BY <1>1, <1>2, FoundWhere
  <2>2. /\ MemDeleteTemplate(m, t, id) = Answer(m, "ErrNotFound")
        /\ D!DbDeleteTemplate(d, t, id) = D!Result(d, "ErrNotFound")
    BY <1>2, <2>1 DEF MemDeleteTemplate, D!DbDeleteTemplate, D!NoRows
  <2> QED
    BY <2>2, AgreeAnswers
<1>3. CASE Found(m.templates, t, id)
  <2>1. D!Where(d.templates, t, id) # {}
    BY <1>1, <1>3, FoundWhere
  <2>2. /\ MemDeleteTemplate(m, t, id) = Answer([m EXCEPT !.templates = f], "ok")
        /\ D!DbDeleteTemplate(d, t, id) = D!Result([d EXCEPT !.templates = S], "ok")
    BY <1>3, <2>1 DEF MemDeleteTemplate, D!DbDeleteTemplate
  <2>3. Related([m EXCEPT !.templates = f], [d EXCEPT !.templates = S])
    BY <1>1, <1>3, SameRemoved, TemplatesChange
  <2> QED
    BY <2>2, <2>3, AgreeAnswers
<1> QED
  BY <1>2, <1>3

LEMMA CreateSupermasterAgrees ==
    ASSUME NEW m, NEW d, Related(m, d), NEW s \in SupermasterRows
    PROVE  Agree(MemCreateSupermaster(m, s), D!DbCreateSupermaster(d, s))
<1> DEFINE ip == canonIP(s.ip)
           entry == [s EXCEPT !.ip = ip]
           Clash == \/ ip = Null \/ s.id \in DOMAIN m.supermasters
                    \/ \E x \in Values(m.supermasters) : x.ip = ip /\ x.nameserver = s.nameserver
           Dup == \/ D!Duplicate(d.supermasters, entry, D!Id)
                  \/ D!Duplicate(d.supermasters, entry, D!SupermasterPair)
<1>1. Same(m.supermasters, d.supermasters, StoredSupermasters) /\ d.supermasters = Values(m.supermasters)
  BY DEF Related, Same
<1>2. D!inet(s.ip) = ip
  BY DEF D!inet, canonIP
<1>3. entry.ip = ip /\ entry.id = s.id /\ entry.nameserver = s.nameserver
  BY DEF SupermasterRows
<1>4. ip # Null => entry \in StoredSupermasters
  <2>1. ip # Null => ip \in Addrs
    BY DEF SupermasterRows, IPs, canonIP
  <2> HIDE DEF ip
  <2> QED
    BY <2>1 DEF SupermasterRows, StoredSupermasters
<1> HIDE DEF ip, entry
<1>5. Clash <=> ip = Null \/ Dup
  BY <1>1, <1>3, TakenId, Duplicates
<1>6. MemCreateSupermaster(m, s) =
        IF Clash THEN Answer(m, "ErrConflict")
        ELSE Answer([m EXCEPT !.supermasters = With(@, s.id, entry)], "ok")
  BY DEF MemCreateSupermaster, ip, entry
<1>7. D!DbCreateSupermaster(d, s) =
        IF ip = Null \/ Dup THEN D!Result(d, "ErrConflict")
        ELSE D!Result([d EXCEPT !.supermasters = @ \cup {entry}], "ok")
  BY <1>2, <1>3 DEF D!DbCreateSupermaster, D!unique_violation, entry
<1>8. CASE Clash
  BY <1>5, <1>6, <1>7, <1>8, AgreeAnswers
<1>9. CASE ~Clash
  <2> DEFINE f == With(m.supermasters, entry.id, entry)
             S == d.supermasters \cup {entry}
  <2>1. Same(f, S, StoredSupermasters)
    BY <1>1, <1>3, <1>4, <1>9, SameAdded
  <2>2. Related([m EXCEPT !.supermasters = f], [d EXCEPT !.supermasters = S])
    BY <2>1, SupermastersChange
  <2> QED
    BY <1>3, <1>5, <1>6, <1>7, <1>9, <2>2, AgreeAnswers
<1> QED
  BY <1>8, <1>9

LEMMA DeleteSupermasterAgrees ==
    ASSUME NEW m, NEW d, Related(m, d), NEW t, NEW id
    PROVE  Agree(MemDeleteSupermaster(m, t, id), D!DbDeleteSupermaster(d, t, id))
<1> DEFINE f == Without(m.supermasters, {id})
           S == d.supermasters \ D!Where(d.supermasters, t, id)
<1>1. Same(m.supermasters, d.supermasters, StoredSupermasters)
  BY DEF Related
<1>2. CASE ~Found(m.supermasters, t, id)
  <2>1. D!Where(d.supermasters, t, id) = {}
    BY <1>1, <1>2, FoundWhere
  <2>2. /\ MemDeleteSupermaster(m, t, id) = Answer(m, "ErrNotFound")
        /\ D!DbDeleteSupermaster(d, t, id) = D!Result(d, "ErrNotFound")
    BY <1>2, <2>1 DEF MemDeleteSupermaster, D!DbDeleteSupermaster, D!NoRows
  <2> QED
    BY <2>2, AgreeAnswers
<1>3. CASE Found(m.supermasters, t, id)
  <2>1. D!Where(d.supermasters, t, id) # {}
    BY <1>1, <1>3, FoundWhere
  <2>2. /\ MemDeleteSupermaster(m, t, id) = Answer([m EXCEPT !.supermasters = f], "ok")
        /\ D!DbDeleteSupermaster(d, t, id) = D!Result([d EXCEPT !.supermasters = S], "ok")
    BY <1>3, <2>1 DEF MemDeleteSupermaster, D!DbDeleteSupermaster
  <2>3. Related([m EXCEPT !.supermasters = f], [d EXCEPT !.supermasters = S])
    BY <1>1, <1>3, SameRemoved, SupermastersChange
  <2> QED
    BY <2>2, <2>3, AgreeAnswers
<1> QED
  BY <1>2, <1>3

LEMMA SaveServerConfigAgrees ==
    ASSUME NEW m, NEW d, Related(m, d), NEW x \in Sections
    PROVE  Agree(MemSaveServerConfig(m, x), D!DbSaveServerConfig(d, x))
<1> DEFINE c == [sections |-> x, hash |-> IF m.config = Null THEN "unset" ELSE m.config.hash]
           S == IF d.config = {} THEN {[sections |-> x, hash |-> "unset"]}
                ELSE {[r EXCEPT !.sections = x] : r \in d.config}
<1>1. SameConfig(m.config, d.config) /\ Null \notin Configs
  BY StoresConstants DEF Related
<1>2. c \in Configs /\ S = {c}
  <2>1. CASE m.config = Null /\ d.config = {}
    BY <2>1 DEF Configs
  <2>2. CASE m.config \in Configs /\ d.config = {m.config}
    <3>1. m.config # Null /\ d.config # {}
      BY <1>1, <2>2
    <3>. PICK a \in Sections \cup {"default"}, b \in Sections \cup {"unset"} :
            m.config = [sections |-> a, hash |-> b]
      BY <2>2 DEF Configs
    <3>2. c = [sections |-> x, hash |-> b] /\ c \in Configs
      BY <3>1 DEF Configs
    <3>3. [m.config EXCEPT !.sections = x] = c
      BY <3>2
    <3>4. S = {[m.config EXCEPT !.sections = x]}
      BY <2>2, <3>1
    <3> QED
      BY <3>2, <3>3, <3>4
  <2> QED
    BY <1>1, <2>1, <2>2 DEF SameConfig
<1>3. /\ MemSaveServerConfig(m, x) = Answer([m EXCEPT !.config = c], "ok")
      /\ D!DbSaveServerConfig(d, x) = D!Result([d EXCEPT !.config = S], "ok")
  BY DEF MemSaveServerConfig, D!DbSaveServerConfig
<1> HIDE DEF c, S
<1> QED
  BY <1>2, <1>3, ConfigChange, AgreeAnswers DEF SameConfig

LEMMA SetConfigHashesAgrees ==
    ASSUME NEW m, NEW d, Related(m, d), NEW x \in Sections
    PROVE  Agree(MemSetConfigHashes(m, x), D!DbSetConfigHashes(d, x))
<1> DEFINE c == [sections |-> IF m.config = Null THEN "default" ELSE m.config.sections, hash |-> x]
           S == IF d.config = {} THEN {[sections |-> "default", hash |-> x]}
                ELSE {[r EXCEPT !.hash = x] : r \in d.config}
<1>1. SameConfig(m.config, d.config) /\ Null \notin Configs
  BY StoresConstants DEF Related
<1>2. c \in Configs /\ S = {c}
  <2>1. CASE m.config = Null /\ d.config = {}
    BY <2>1 DEF Configs
  <2>2. CASE m.config \in Configs /\ d.config = {m.config}
    <3>1. m.config # Null /\ d.config # {}
      BY <1>1, <2>2
    <3>. PICK a \in Sections \cup {"default"}, b \in Sections \cup {"unset"} :
            m.config = [sections |-> a, hash |-> b]
      BY <2>2 DEF Configs
    <3>2. c = [sections |-> a, hash |-> x] /\ c \in Configs
      BY <3>1 DEF Configs
    <3>3. [m.config EXCEPT !.hash = x] = c
      BY <3>2
    <3>4. S = {[m.config EXCEPT !.hash = x]}
      BY <2>2, <3>1
    <3> QED
      BY <3>2, <3>3, <3>4
  <2> QED
    BY <1>1, <2>1, <2>2 DEF SameConfig
<1>3. /\ MemSetConfigHashes(m, x) = Answer([m EXCEPT !.config = c], "ok")
      /\ D!DbSetConfigHashes(d, x) = D!Result([d EXCEPT !.config = S], "ok")
  BY DEF MemSetConfigHashes, D!DbSetConfigHashes
<1> HIDE DEF c, S
<1> QED
  BY <1>2, <1>3, ConfigChange, AgreeAnswers DEF SameConfig

-----------------------------------------------------------------------------
(* IPAM sync state.                                                        *)

LEMMA UpsertIPAMSyncAgrees ==
    ASSUME NEW m, NEW d, Related(m, d), NEW s \in SyncRows
    PROVE  Agree(MemUpsertIPAMSync(m, s), D!DbUpsertIPAMSync(d, s))
<1> DEFINE ip == canonIP(s.ip)
           entry == [s EXCEPT !.ip = ip]
           f == With(m.sync, <<entry.tenant, entry.id>>, entry)
           S == (d.sync \ D!Where(d.sync, entry.tenant, entry.id)) \cup {entry}
<1>1. D!inet(s.ip) = ip
  BY DEF D!inet, canonIP
<1>2. entry.ip = ip /\ entry.id = s.id /\ entry.tenant = s.tenant
  BY DEF SyncRows
<1>3. ip # Null => entry \in StoredSync
  <2>1. ip # Null => ip \in SyncAddrs
    BY DEF SyncRows, IPs, canonIP
  <2> HIDE DEF ip
  <2> QED
    BY <2>1 DEF SyncRows, StoredSync
<1> HIDE DEF ip, entry
<1>4. MemUpsertIPAMSync(m, s) =
        IF ip = Null THEN Answer(m, "ErrConflict") ELSE Answer([m EXCEPT !.sync = f], "ok")
  BY <1>2 DEF MemUpsertIPAMSync, ip, entry
<1>5. D!DbUpsertIPAMSync(d, s) =
        IF ip = Null THEN D!Result(d, "ErrConflict") ELSE D!Result([d EXCEPT !.sync = S], "ok")
  BY <1>1, <1>2 DEF D!DbUpsertIPAMSync, entry
<1>6. CASE ip = Null
  BY <1>4, <1>5, <1>6, AgreeAnswers
<1>7. CASE ip # Null
  <2>1. SameSync(f, S)
    BY <1>3, <1>7, SyncWith DEF Related
  <2>2. Related([m EXCEPT !.sync = f], [d EXCEPT !.sync = S])
    BY <2>1, SyncChange
  <2> QED
    BY <1>4, <1>5, <1>7, <2>2, AgreeAnswers
<1> QED
  BY <1>6, <1>7

LEMMA DeleteIPAMSyncAgrees ==
    ASSUME NEW m, NEW d, Related(m, d), NEW t, NEW id
    PROVE  Agree(MemDeleteIPAMSync(m, t, id), D!DbDeleteIPAMSync(d, t, id))
<1> DEFINE f == Without(m.sync, {<<t, id>>})
           S == d.sync \ D!Where(d.sync, t, id)
<1>1. SameSync(m.sync, d.sync)
  BY DEF Related
<1>2. CASE <<t, id>> \notin DOMAIN m.sync
  <2>1. D!Where(d.sync, t, id) = {}
    BY <1>1, <1>2, SyncWhere
  <2>2. /\ MemDeleteIPAMSync(m, t, id) = Answer(m, "ErrNotFound")
        /\ D!DbDeleteIPAMSync(d, t, id) = D!Result(d, "ErrNotFound")
    BY <1>2, <2>1 DEF MemDeleteIPAMSync, D!DbDeleteIPAMSync, D!NoRows
  <2> QED
    BY <2>2, AgreeAnswers
<1>3. CASE <<t, id>> \in DOMAIN m.sync
  <2>1. D!Where(d.sync, t, id) # {}
    BY <1>1, <1>3, SyncWhere
  <2>2. /\ MemDeleteIPAMSync(m, t, id) = Answer([m EXCEPT !.sync = f], "ok")
        /\ D!DbDeleteIPAMSync(d, t, id) = D!Result([d EXCEPT !.sync = S], "ok")
    BY <1>3, <2>1 DEF MemDeleteIPAMSync, D!DbDeleteIPAMSync
  <2>3. Related([m EXCEPT !.sync = f], [d EXCEPT !.sync = S])
    BY <1>1, SyncWithout, SyncChange
  <2> QED
    BY <2>2, <2>3, AgreeAnswers
<1> QED
  BY <1>2, <1>3

\* A row as the first and the second UPDATE of ClearSyncZone leave it.
First(r, t, zone) == IF r.tenant = t /\ r.forward = zone THEN [r EXCEPT !.forward = Null] ELSE r
Second(r, t, zone) == IF r.tenant = t /\ r.reverse = zone THEN [r EXCEPT !.reverse = Null] ELSE r

LEMMA ClearedInTwo ==
    ASSUME NEW r \in StoredSync, NEW t, NEW zone
    PROVE  /\ Second(First(r, t, zone), t, zone) = Cleared(r, t, zone)
           /\ Cleared(r, t, zone) \in StoredSync
           /\ Cleared(r, t, zone).tenant = r.tenant /\ Cleared(r, t, zone).id = r.id
<1>1. PICK id \in Ids, te \in Tenants, ip \in SyncAddrs, fw \in Ids \cup {Null}, rv \in Ids \cup {Null} :
        r = [id |-> id, tenant |-> te, ip |-> ip, forward |-> fw, reverse |-> rv]
  BY DEF StoredSync
<1>2. CASE te # t
  BY <1>1, <1>2 DEF First, Second, Cleared
<1>3. CASE te = t
  <2> DEFINE fw1 == IF fw = zone THEN Null ELSE fw
             rv1 == IF rv = zone THEN Null ELSE rv
  <2>1. Cleared(r, t, zone) = [id |-> id, tenant |-> te, ip |-> ip, forward |-> fw1, reverse |-> rv1]
    BY <1>1, <1>3 DEF Cleared
  <2>2. First(r, t, zone) = [id |-> id, tenant |-> te, ip |-> ip, forward |-> fw1, reverse |-> rv]
    BY <1>1, <1>3 DEF First
  <2>3. Second(First(r, t, zone), t, zone) =
          [id |-> id, tenant |-> te, ip |-> ip, forward |-> fw1, reverse |-> rv1]
    BY <1>3, <2>2 DEF Second
  <2>4. fw1 \in Ids \cup {Null} /\ rv1 \in Ids \cup {Null}
    OBVIOUS
  <2> HIDE DEF fw1, rv1
  <2> QED
    BY <1>1, <2>1, <2>3, <2>4 DEF StoredSync
<1> QED
  BY <1>2, <1>3

LEMMA ClearSyncZoneAgrees ==
    ASSUME NEW m, NEW d, Related(m, d), NEW t, NEW zone
    PROVE  Agree(MemClearSyncZone(m, t, zone), D!DbClearSyncZone(d, t, zone))
<1> DEFINE f == [k \in DOMAIN m.sync |-> Cleared(m.sync[k], t, zone)]
           one == {r \in D!Visible(d.sync, t) : r.forward = zone}
           mid == (d.sync \ one) \cup {[r EXCEPT !.forward = Null] : r \in one}
           two == {r \in D!Visible(mid, t) : r.reverse = zone}
           S == (mid \ two) \cup {[r EXCEPT !.reverse = Null] : r \in two}
<1>1. SameSync(m.sync, d.sync)
  BY DEF Related
<1>2. mid = {First(r, t, zone) : r \in d.sync}
  BY DEF First, D!Visible
<1>3. S = {Second(r, t, zone) : r \in mid}
  <2> HIDE DEF mid
  <2> QED
    BY DEF Second, D!Visible
<1>4. S = {Cleared(r, t, zone) : r \in d.sync}
  <2>1. \A r \in d.sync : Second(First(r, t, zone), t, zone) = Cleared(r, t, zone)
    BY <1>1, SyncMembers, ClearedInTwo
  <2> HIDE DEF mid, S
  <2> QED
    BY <1>2, <1>3, <2>1
<1>5. Values(f) = {Cleared(r, t, zone) : r \in d.sync}
  BY <1>1 DEF SameSync, Values
<1>6. \A k \in DOMAIN f : f[k] \in StoredSync /\ <<f[k].tenant, f[k].id>> = k
  BY <1>1, ClearedInTwo DEF SameSync
<1>7. SameSync(f, S)
  <2> HIDE DEF f, S
  <2> QED
    BY <1>4, <1>5, <1>6 DEF SameSync
<1>8. MemClearSyncZone(m, t, zone) = Answer([m EXCEPT !.sync = f], "ok")
  BY DEF MemClearSyncZone
<1>9. D!DbClearSyncZone(d, t, zone) = D!Result([d EXCEPT !.sync = S], "ok")
  BY DEF D!DbClearSyncZone
<1> HIDE DEF f, S
<1> QED
  BY <1>7, <1>8, <1>9, SyncChange, AgreeAnswers

-----------------------------------------------------------------------------
(* The theorems.                                                           *)

StoresInv == Related(mem, db)

LEMMA StoresStart == StoresInit => StoresInv
<1> SUFFICES ASSUME StoresInit PROVE Related(mem, db)
  BY DEF StoresInv
<1>1. mem = EmptyMem /\ db = D!EmptyDb
  BY DEF StoresInit
<1>2. Unrepeated({}) /\ SameConfig(Null, {})
  BY DEF Unrepeated, SameConfig
<1> QED
  BY <1>1, <1>2, SameEmpty DEF EmptyMem, D!EmptyDb, Related

LEMMA BothRelated ==
    ASSUME NEW a, NEW m, NEW d, Both(a, m, d), Related(m.st, d.st)
    PROVE  StoresInv'
<1>1. mem' = m.st /\ db' = d.st
  BY DEF Both
<1>2. Related(mem', db')
  BY <1>1
<1> QED
  BY <1>2 DEF StoresInv, Related, Same, SameSync, Values, Unrepeated, SameConfig

LEMMA StoresStep == StoresInv /\ [StoresNext]_storeVars => StoresInv'
<1> SUFFICES ASSUME StoresInv, [StoresNext]_storeVars PROVE StoresInv'
  OBVIOUS
<1>1. Related(mem, db)
  BY DEF StoresInv
<1>2. ASSUME NEW z \in ZoneRows, CreateZone(z) PROVE StoresInv'
  BY <1>1, <1>2, CreateZoneAgrees, BothRelated DEF CreateZone, Agree
<1>3. ASSUME NEW z \in ZoneRows, UpdateZone(z) PROVE StoresInv'
  BY <1>1, <1>3, UpdateZoneAgrees, BothRelated DEF UpdateZone, Agree
<1>4. ASSUME NEW c \in ChallengeRows, InsertChallenge(c) PROVE StoresInv'
  BY <1>1, <1>4, InsertChallengeAgrees, BothRelated DEF InsertChallenge
<1>5. ASSUME NEW t \in Tenants, NEW f \in Fqdns, NEW v \in Tokens, DeleteChallenge(t, f, v)
      PROVE  StoresInv'
  BY <1>1, <1>5, DeleteChallengeAgrees, BothRelated DEF DeleteChallenge, Agree
<1>6. ASSUME NEW t \in TemplateRows, CreateTemplate(t) PROVE StoresInv'
  BY <1>1, <1>6, CreateTemplateAgrees, BothRelated DEF CreateTemplate, Agree
<1>7. ASSUME NEW t \in TemplateRows, UpdateTemplate(t) PROVE StoresInv'
  BY <1>1, <1>7, UpdateTemplateAgrees, BothRelated DEF UpdateTemplate, Agree
<1>8. ASSUME NEW s \in SupermasterRows, CreateSupermaster(s) PROVE StoresInv'
  BY <1>1, <1>8, CreateSupermasterAgrees, BothRelated DEF CreateSupermaster, Agree
<1>9. ASSUME NEW x \in Sections, SaveServerConfig(x) PROVE StoresInv'
  BY <1>1, <1>9, SaveServerConfigAgrees, BothRelated DEF SaveServerConfig, Agree
<1>10. ASSUME NEW x \in Sections, SetConfigHashes(x) PROVE StoresInv'
  BY <1>1, <1>10, SetConfigHashesAgrees, BothRelated DEF SetConfigHashes, Agree
<1>11. ASSUME NEW s \in SyncRows, UpsertIPAMSync(s) PROVE StoresInv'
  BY <1>1, <1>11, UpsertIPAMSyncAgrees, BothRelated DEF UpsertIPAMSync, Agree
<1>12. ASSUME NEW t \in Tenants, NEW id \in Ids, DeleteZone(t, id) PROVE StoresInv'
  BY <1>1, <1>12, DeleteZoneAgrees, BothRelated DEF DeleteZone, Agree
<1>13. ASSUME NEW t \in Tenants, NEW id \in Ids, DeleteIPAMSync(t, id) PROVE StoresInv'
  BY <1>1, <1>13, DeleteIPAMSyncAgrees, BothRelated DEF DeleteIPAMSync, Agree
<1>14. ASSUME NEW t \in Tenants, NEW id \in Ids, ClearSyncZone(t, id) PROVE StoresInv'
  BY <1>1, <1>14, ClearSyncZoneAgrees, BothRelated DEF ClearSyncZone, Agree
<1>15. ASSUME NEW t \in Tenants, NEW id \in ListIds, DeleteTemplate(t, id) PROVE StoresInv'
  BY <1>1, <1>15, DeleteTemplateAgrees, BothRelated DEF DeleteTemplate, Agree
<1>16. ASSUME NEW t \in Tenants, NEW id \in ListIds, DeleteSupermaster(t, id) PROVE StoresInv'
  BY <1>1, <1>16, DeleteSupermasterAgrees, BothRelated DEF DeleteSupermaster, Agree
<1>17. CASE UNCHANGED storeVars
  BY <1>1, <1>17 DEF storeVars, StoresInv, Related, Same, SameSync, Values, Unrepeated, SameConfig
<1> QED
  BY <1>2, <1>3, <1>4, <1>5, <1>6, <1>7, <1>8, <1>9, <1>10, <1>11, <1>12, <1>13, <1>14,
     <1>15, <1>16, <1>17 DEF StoresNext

LEMMA RowsSame == StoresInv => SameRows
<1> SUFFICES ASSUME Related(mem, db) PROVE SameRows
  BY DEF StoresInv
<1>1. db.config = IF mem.config = Null THEN {} ELSE {mem.config}
  BY StoresConstants DEF Related, SameConfig
<1> QED
  BY <1>1 DEF SameRows, Related, Same, SameSync

\* Reading methods.
LEMMA TablesAgree ==
    ASSUME NEW m, NEW d, Related(m, d)
    PROVE  /\ MemGetServerConfig(m).ans = D!DbGetServerConfig(d).ans
           /\ MemTenantIDs(m).ans = D!DbTenantIDs(d).ans
           /\ MemAllZoneNames(m).ans = D!DbAllZoneNames(d).ans
<1>1. /\ d.zones = Values(m.zones) /\ d.templates = Values(m.templates)
      /\ d.supermasters = Values(m.supermasters)
  BY DEF Related, Same
<1>2. MemGetServerConfig(m).ans = D!DbGetServerConfig(d).ans
  <2>1. CASE m.config = Null /\ d.config = {}
    <3>1. MemGetServerConfig(m) = Answer(m, "ErrNotFound")
      BY <2>1 DEF MemGetServerConfig
    <3>2. D!DbGetServerConfig(d) = D!Result(d, "ErrNotFound")
      BY <2>1, Selects DEF D!DbGetServerConfig
    <3> QED
      BY <3>1, <3>2, AnsweredAlike
  <2>2. CASE m.config \in Configs /\ d.config = {m.config}
    <3>1. m.config # Null
      BY <2>2, StoresConstants
    <3>2. MemGetServerConfig(m) = Answer(m, m.config)
      BY <3>1 DEF MemGetServerConfig
    <3>3. D!DbGetServerConfig(d) = D!Result(d, m.config)
      BY <2>2, Selects DEF D!DbGetServerConfig
    <3> QED
      BY <3>2, <3>3, AnsweredAlike
  <2> QED
    BY <2>1, <2>2 DEF Related, SameConfig
<1>3. MemTenantIDs(m).ans = D!DbTenantIDs(d).ans /\ MemAllZoneNames(m).ans = D!DbAllZoneNames(d).ans
  BY <1>1, Answers DEF MemTenantIDs, D!DbTenantIDs, MemAllZoneNames, D!DbAllZoneNames
<1> QED
  BY <1>2, <1>3

LEMMA TenantAgrees ==
    ASSUME NEW m, NEW d, Related(m, d), NEW t
    PROVE  /\ MemZonesForTenant(m, t).ans = D!DbZonesForTenant(d, t).ans
           /\ MemAllTemplates(m, t).ans = D!DbAllTemplates(d, t).ans
           /\ MemAllSupermasters(m, t).ans = D!DbAllSupermasters(d, t).ans
<1>1. /\ d.zones = Values(m.zones) /\ d.templates = Values(m.templates)
      /\ d.supermasters = Values(m.supermasters)
  BY DEF Related, Same
<1> QED
  BY <1>1, Answers DEF MemZonesForTenant, D!DbZonesForTenant, MemAllTemplates, D!DbAllTemplates,
                       MemAllSupermasters, D!DbAllSupermasters, Own, D!Visible

LEMMA NamesAgree ==
    ASSUME NEW m, NEW d, Related(m, d), NEW t, NEW n
    PROVE  /\ MemGetZoneByName(m, t, n).ans = D!DbGetZoneByName(d, t, n).ans
           /\ MemZoneConflict(m, t, n).ans = D!DbZoneConflict(d, t, n).ans
<1>1. /\ d.zones = Values(m.zones) /\ d.templates = Values(m.templates)
      /\ d.supermasters = Values(m.supermasters)
  BY DEF Related, Same
<1>2. MemGetZoneByName(m, t, n).ans = D!DbGetZoneByName(d, t, n).ans
  <2> DEFINE own == {z \in Values(m.zones) : z.tenant = t /\ z.name = n}
             hits == {z \in D!Visible(d.zones, t) : z.name = n}
  <2>1. own = hits
    BY <1>1 DEF D!Visible
  <2>2. MemGetZoneByName(m, t, n) = Answer(m, IF own = {} THEN "ErrNotFound" ELSE CHOOSE z \in own : TRUE)
    BY DEF MemGetZoneByName
  <2>3. D!DbGetZoneByName(d, t, n) =
          D!Result(d, IF hits = {} THEN "ErrNotFound" ELSE CHOOSE z \in hits : TRUE)
    BY DEF D!DbGetZoneByName, D!Select, D!NoRows
  <2> HIDE DEF own, hits
  <2>4. (CHOOSE z \in own : TRUE) = (CHOOSE z \in hits : TRUE)
    BY <2>1, SameChoice
  <2>5. CASE own = {}
    BY <2>1, <2>2, <2>3, <2>5, AnsweredAlike
  <2>6. CASE own # {}
    <3>1. /\ MemGetZoneByName(m, t, n) = Answer(m, CHOOSE z \in own : TRUE)
          /\ D!DbGetZoneByName(d, t, n) = D!Result(d, CHOOSE z \in hits : TRUE)
      BY <2>1, <2>2, <2>3, <2>6
    <3> QED
      BY <2>4, <3>1, AnsweredAlike
  <2> QED
    BY <2>5, <2>6
<1>3. MemZoneConflict(m, t, n).ans = D!DbZoneConflict(d, t, n).ans
  <2> DEFINE a == \E z \in Values(m.zones) : z.tenant # t /\ Overlap(n, z.name)
             b == \E z \in d.zones : z.tenant # t /\ (D!InZone(n, z.name) \/ D!InZone(z.name, n))
  <2>1. \A x, y : D!InZone(x, y) <=> InZone(x, y)
    BY DEF InZone, D!InZone
  <2>2. a = b
    BY <1>1, <2>1 DEF Overlap
  <2>3. MemZoneConflict(m, t, n) = Answer(m, a) /\ D!DbZoneConflict(d, t, n) = D!Result(d, b)
    BY DEF MemZoneConflict, D!DbZoneConflict
  <2> HIDE DEF a, b
  <2> QED
    BY <2>2, <2>3, Answers
<1> QED
  BY <1>2, <1>3

LEMMA RowAgrees ==
    ASSUME NEW m, NEW d, Related(m, d), NEW t, NEW id
    PROVE  /\ MemGetZone(m, t, id).ans = D!DbGetZone(d, t, id).ans
           /\ MemGetTemplate(m, t, id).ans = D!DbGetTemplate(d, t, id).ans
           /\ MemGetSupermaster(m, t, id).ans = D!DbGetSupermaster(d, t, id).ans
           /\ MemGetIPAMSync(m, t, id).ans = D!DbGetIPAMSync(d, t, id).ans
<1>1. /\ MemGetZone(m, t, id).ans = D!DbGetZone(d, t, id).ans
      /\ MemGetTemplate(m, t, id).ans = D!DbGetTemplate(d, t, id).ans
      /\ MemGetSupermaster(m, t, id).ans = D!DbGetSupermaster(d, t, id).ans
  BY GetAgrees DEF Related, MemGetZone, D!DbGetZone, MemGetTemplate, D!DbGetTemplate,
                   MemGetSupermaster, D!DbGetSupermaster
<1>2. MemGetIPAMSync(m, t, id).ans = D!DbGetIPAMSync(d, t, id).ans
  <2>1. SameSync(m.sync, d.sync)
    BY DEF Related
  <2>2. CASE <<t, id>> \in DOMAIN m.sync
    <3>1. D!Where(d.sync, t, id) = {m.sync[<<t, id>>]}
      BY <2>1, <2>2, SyncWhere
    <3>2. MemGetIPAMSync(m, t, id) = Answer(m, m.sync[<<t, id>>])
      BY <2>2 DEF MemGetIPAMSync
    <3>3. D!DbGetIPAMSync(d, t, id) = D!Result(d, m.sync[<<t, id>>])
      BY <3>1, Selects DEF D!DbGetIPAMSync
    <3> QED
      BY <3>2, <3>3, AnsweredAlike
  <2>3. CASE <<t, id>> \notin DOMAIN m.sync
    <3>1. D!Where(d.sync, t, id) = {}
      BY <2>1, <2>3, SyncWhere
    <3>2. MemGetIPAMSync(m, t, id) = Answer(m, "ErrNotFound")
      BY <2>3 DEF MemGetIPAMSync
    <3>3. D!DbGetIPAMSync(d, t, id) = D!Result(d, "ErrNotFound")
      BY <3>1, Selects DEF D!DbGetIPAMSync
    <3> QED
      BY <3>2, <3>3, AnsweredAlike
  <2> QED
    BY <2>2, <2>3
<1> QED
  BY <1>1, <1>2

LEMMA AnswersSame == StoresInv => SameAnswers
<1> SUFFICES ASSUME Related(mem, db) PROVE SameAnswers
  BY DEF StoresInv
<1>1. \A z \in ZoneRows :
        /\ MemCreateZone(mem, z).ans = D!DbCreateZone(db, z).ans
        /\ MemUpdateZone(mem, z).ans = D!DbUpdateZone(db, z).ans
  BY CreateZoneAgrees, UpdateZoneAgrees DEF Agree
<1>2. \A c \in ChallengeRows :
        InsertedTwice(c) \/ MemInsertChallenge(mem, c).ans = D!DbInsertChallenge(db, c).ans
  BY InsertChallengeAgrees DEF InsertedTwice
<1>3. \A t \in Tenants, f \in Fqdns, v \in Tokens :
        MemDeleteChallenge(mem, t, f, v).ans = D!DbDeleteChallenge(db, t, f, v).ans
  BY DeleteChallengeAgrees DEF Agree
<1>4. \A t \in TemplateRows :
        /\ MemCreateTemplate(mem, t).ans = D!DbCreateTemplate(db, t).ans
        /\ MemUpdateTemplate(mem, t).ans = D!DbUpdateTemplate(db, t).ans
  BY CreateTemplateAgrees, UpdateTemplateAgrees DEF Agree
<1>5. \A s \in SupermasterRows :
        MemCreateSupermaster(mem, s).ans = D!DbCreateSupermaster(db, s).ans
  BY CreateSupermasterAgrees DEF Agree
<1>6. \A s \in SyncRows : MemUpsertIPAMSync(mem, s).ans = D!DbUpsertIPAMSync(db, s).ans
  BY UpsertIPAMSyncAgrees DEF Agree
<1>7. \A t, id : /\ MemDeleteZone(mem, t, id).ans = D!DbDeleteZone(db, t, id).ans
                 /\ MemDeleteIPAMSync(mem, t, id).ans = D!DbDeleteIPAMSync(db, t, id).ans
                 /\ MemDeleteTemplate(mem, t, id).ans = D!DbDeleteTemplate(db, t, id).ans
                 /\ MemDeleteSupermaster(mem, t, id).ans = D!DbDeleteSupermaster(db, t, id).ans
  <2> TAKE t, id
  <2>1. MemDeleteZone(mem, t, id).ans = D!DbDeleteZone(db, t, id).ans
    BY DeleteZoneAgrees DEF Agree
  <2>2. MemDeleteIPAMSync(mem, t, id).ans = D!DbDeleteIPAMSync(db, t, id).ans
    BY DeleteIPAMSyncAgrees DEF Agree
  <2>3. MemDeleteTemplate(mem, t, id).ans = D!DbDeleteTemplate(db, t, id).ans
    BY DeleteTemplateAgrees DEF Agree
  <2>4. MemDeleteSupermaster(mem, t, id).ans = D!DbDeleteSupermaster(db, t, id).ans
    BY DeleteSupermasterAgrees DEF Agree
  <2> QED
    BY <2>1, <2>2, <2>3, <2>4
<1>8. \A t \in Tenants, n \in Names :
        /\ MemGetZoneByName(mem, t, n).ans = D!DbGetZoneByName(db, t, n).ans
        /\ MemZoneConflict(mem, t, n).ans = D!DbZoneConflict(db, t, n).ans
  BY NamesAgree
<1>9. /\ MemGetServerConfig(mem).ans = D!DbGetServerConfig(db).ans
      /\ MemTenantIDs(mem).ans = D!DbTenantIDs(db).ans
      /\ MemAllZoneNames(mem).ans = D!DbAllZoneNames(db).ans
  BY TablesAgree
<1>10. \A t \in Tenants :
        /\ MemZonesForTenant(mem, t).ans = D!DbZonesForTenant(db, t).ans
        /\ MemAllTemplates(mem, t).ans = D!DbAllTemplates(db, t).ans
        /\ MemAllSupermasters(mem, t).ans = D!DbAllSupermasters(db, t).ans
  BY TenantAgrees
<1>11. \A t \in Tenants, id \in Ids :
        /\ MemGetZone(mem, t, id).ans = D!DbGetZone(db, t, id).ans
        /\ MemGetIPAMSync(mem, t, id).ans = D!DbGetIPAMSync(db, t, id).ans
  BY RowAgrees
<1>12. \A t \in Tenants, id \in ListIds :
        /\ MemGetTemplate(mem, t, id).ans = D!DbGetTemplate(db, t, id).ans
        /\ MemGetSupermaster(mem, t, id).ans = D!DbGetSupermaster(db, t, id).ans
  BY RowAgrees
<1>13. area = "zones" =>
        /\ \A z \in ZoneRows :
            /\ MemCreateZone(mem, z).ans = D!DbCreateZone(db, z).ans
            /\ MemUpdateZone(mem, z).ans = D!DbUpdateZone(db, z).ans
        /\ \A c \in ChallengeRows :
            InsertedTwice(c) \/ MemInsertChallenge(mem, c).ans = D!DbInsertChallenge(db, c).ans
        /\ \A t \in Tenants, f \in Fqdns, v \in Tokens :
            MemDeleteChallenge(mem, t, f, v).ans = D!DbDeleteChallenge(db, t, f, v).ans
        /\ \A t \in Tenants, n \in Names :
            /\ MemGetZoneByName(mem, t, n).ans = D!DbGetZoneByName(db, t, n).ans
            /\ MemZoneConflict(mem, t, n).ans = D!DbZoneConflict(db, t, n).ans
        /\ MemAllZoneNames(mem).ans = D!DbAllZoneNames(db).ans
  BY <1>1, <1>2, <1>3, <1>8, <1>9
<1>14. \A t \in Tenants :
        /\ MemZonesForTenant(mem, t).ans = D!DbZonesForTenant(db, t).ans
        /\ MemAllTemplates(mem, t).ans = D!DbAllTemplates(db, t).ans
        /\ MemAllSupermasters(mem, t).ans = D!DbAllSupermasters(db, t).ans
        /\ \A id \in Ids :
            /\ MemGetZone(mem, t, id).ans = D!DbGetZone(db, t, id).ans
            /\ MemGetIPAMSync(mem, t, id).ans = D!DbGetIPAMSync(db, t, id).ans
            /\ MemDeleteZone(mem, t, id).ans = D!DbDeleteZone(db, t, id).ans
            /\ MemDeleteIPAMSync(mem, t, id).ans = D!DbDeleteIPAMSync(db, t, id).ans
        /\ \A id \in ListIds :
            /\ MemGetTemplate(mem, t, id).ans = D!DbGetTemplate(db, t, id).ans
            /\ MemGetSupermaster(mem, t, id).ans = D!DbGetSupermaster(db, t, id).ans
            /\ MemDeleteTemplate(mem, t, id).ans = D!DbDeleteTemplate(db, t, id).ans
            /\ MemDeleteSupermaster(mem, t, id).ans = D!DbDeleteSupermaster(db, t, id).ans
  BY <1>7, <1>10, <1>11, <1>12
<1> QED
  BY <1>4, <1>5, <1>6, <1>9, <1>13, <1>14 DEF SameAnswers

\* After any sequence of calls the in-memory store and PostgreSQL hold the same
\* rows: what the unit suite establishes on memstore is about the rows repodb
\* would have.
THEOREM RowsAgree == StoresSpec => []SameRows
BY StoresStart, StoresStep, RowsSame, PTL DEF StoresSpec

\* After any sequence of calls, memstore and repodb answer every further call
\* alike, but for InsertChallenge when zone and duplicate are both at fault.
THEOREM AnswersAgree == StoresSpec => []SameAnswers
BY StoresStart, StoresStep, AnswersSame, PTL DEF StoresSpec
=============================================================================
