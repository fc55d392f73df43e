-------------------------- MODULE StreamHubProofs --------------------------
(***************************************************************************)
(* Proofs about the event hub, for any users, subscriptions, buffer sizes, *)
(* limits and numbers of events.                                           *)
(***************************************************************************)
EXTENDS StreamHub, TLAPS

\* Zenon first: it is the quicker one wherever there is no arithmetic.
USE ZenonT(2), SMT, Zenon

-----------------------------------------------------------------------------
(* Types.                                                                  *)

LEMMA InstanceTypes ==
    ASSUME limits \in Instances
    PROVE  /\ limits.users \subseteq Users
           /\ limits.streams \in Nat \ {0}
           /\ limits.events \in 1..MaxEvents
           /\ limits.age \in Nat
  BY SizesOK

\* What becomes of the loop's state.
LEMMA LoopTypes ==
    ASSUME NEW l \in Loops
    PROVE  /\ NoLoop \in Loops
           /\ l.on \in BOOLEAN /\ l.cursor \in 0..MaxEvents
           /\ l.batch \subseteq Ids /\ l.left \subseteq Conns
           /\ \A c : /\ [l EXCEPT !.left = @ \ {c}] \in Loops
                     /\ [l EXCEPT !.left = @ \ {c}].left = l.left \ {c}
<1>1. NoLoop \in Loops
  BY SizesOK DEF NoLoop, Loops
<1>2. /\ l.on \in BOOLEAN /\ l.cursor \in 0..MaxEvents
      /\ l.batch \subseteq Ids /\ l.left \subseteq Conns
  BY DEF Loops
<1>3. ASSUME NEW c
      PROVE  /\ [l EXCEPT !.left = @ \ {c}] \in Loops
             /\ [l EXCEPT !.left = @ \ {c}].left = l.left \ {c}
  BY DEF Loops
<1> QED
  BY <1>1, <1>2, <1>3

\* The stream and the loop are linked to the subscriptions through these.
Linked ==
    /\ loop.cursor <= tail
    /\ loop.batch \subseteq (loop.cursor + 1)..tail
    /\ loop.left \subseteq Registered
    /\ loop.left # {} => loop.cursor \in 1..tail
    /\ \A c \in loop.left : Mine(c, loop.cursor)
    /\ \A c \in Registered : user[c] \in Users
    /\ \A c \in Conns : last[c] <= tail /\ since[c] <= tail /\ from[c] <= tail
    /\ \A c \in Conns : backlog[c] \subseteq 1..tail

LEMMA TypeInit == Init => TypeOK /\ Linked
<1> SUFFICES ASSUME Init PROVE TypeOK /\ Linked
  OBVIOUS
<1> USE SizesOK
<1>1. TypeOK
  BY InstanceTypes DEF Init, TypeOK, NoLoop, Loops, Ids, Phases
<1>2. Linked
  BY DEF Init, Linked, NoLoop, Registered
<1> QED
  BY <1>1, <1>2

-----------------------------------------------------------------------------
(* Facts about finite sets and sets of numbers.  The lemmas that rest on    *)
(* them assume Library, which the library's theorems prove at the end: with *)
(* those theorems in sight of every step the provers are slow.              *)

SubsetsCounted ==
    \A S : IsFiniteSet(S) =>
        \A T \in SUBSET S : /\ IsFiniteSet(T) /\ Cardinality(T) \in Nat
                            /\ Cardinality(T) <= Cardinality(S)

OneMore ==
    \A S, x : IsFiniteSet(S) /\ x \notin S =>
        IsFiniteSet(S \cup {x}) /\ Cardinality(S \cup {x}) = Cardinality(S) + 1

OneLess ==
    \A S, x : IsFiniteSet(S) /\ x \in S => Cardinality(S \ {x}) = Cardinality(S) - 1

EmptyCounted ==
    /\ IsFiniteSet({}) /\ Cardinality({}) = 0
    /\ \A S : IsFiniteSet(S) /\ S # {} => Cardinality(S) # 0

\* The last and the first of a set of events.
Extremes ==
    \A n \in Nat : \A S \in SUBSET (1..n) : S # {} =>
        /\ Max(S) \in S /\ \A e \in S : e <= Max(S)
        /\ Min(S) \in S /\ \A e \in S : Min(S) <= e

Library == SubsetsCounted /\ OneMore /\ OneLess /\ EmptyCounted /\ Extremes

-----------------------------------------------------------------------------
(* Quotas.                                                                 *)

Counted == IsFiniteSet(Registered) /\ QuotaExact

\* An open subscription is counted for its user.
LEMMA CountedOnce ==
    ASSUME Library, TypeOK, Linked, Counted, NEW c \in Registered
    PROVE  user[c] \in Users /\ byUser[user[c]] \in 1..limits.streams
<1>1. user[c] \in Users
  BY DEF Linked
<1>2. IsFiniteSet(OpenOf(user[c])) /\ c \in OpenOf(user[c])
  BY DEF Library, SubsetsCounted, Counted, OpenOf
<1>3. Cardinality(OpenOf(user[c])) # 0 /\ Cardinality(OpenOf(user[c])) \in Nat
  BY <1>2 DEF Library, SubsetsCounted, EmptyCounted
<1>4. QED
  BY <1>1, <1>3 DEF Counted, QuotaExact, TypeOK

\* A subscription is registered and counted.
LEMMA Joined ==
    ASSUME Library, TypeOK, Linked, Counted, NEW c \in Conns, NEW u \in Users,
           phase[c] = "new", byUser[u] < limits.streams,
           Cardinality(Registered) < StreamsPerTenant,
           Registered' = Registered \cup {c}, user' = [user EXCEPT ![c] = u],
           byUser' = [byUser EXCEPT ![u] = @ + 1], limits' = limits
    PROVE  /\ IsFiniteSet(Registered') /\ Cardinality(Registered') <= StreamsPerTenant
           /\ \A v \in Users : byUser'[v] = Cardinality(OpenOf(v)') /\ byUser'[v] <= limits'.streams
<1>1. IsFiniteSet(Registered) /\ c \notin Registered
  BY DEF Counted, Registered
<1>2. IsFiniteSet(Registered') /\ Cardinality(Registered') = Cardinality(Registered) + 1
  BY <1>1 DEF Library, OneMore
<1>3. Cardinality(Registered) \in Nat
  BY <1>1 DEF Library, SubsetsCounted
<1>4. ASSUME NEW v \in Users
      PROVE  byUser'[v] = Cardinality(OpenOf(v)') /\ byUser'[v] <= limits'.streams
  <2>1. IsFiniteSet(OpenOf(v)) /\ c \notin OpenOf(v)
    BY <1>1 DEF Library, SubsetsCounted, OpenOf
  <2>2. Cardinality(OpenOf(v)) \in Nat /\ byUser[v] = Cardinality(OpenOf(v))
    BY <2>1 DEF Library, SubsetsCounted, Counted, QuotaExact
  <2>3. CASE v = u
    <3>1. OpenOf(v)' = OpenOf(v) \cup {c}
      BY <1>1, <2>3 DEF OpenOf, TypeOK, Registered
    <3>2. Cardinality(OpenOf(v)') = Cardinality(OpenOf(v)) + 1
      BY <2>1, <3>1 DEF Library, OneMore
    <3>3. byUser'[v] = byUser[v] + 1
      BY <2>3 DEF TypeOK
    <3>4. limits.streams \in Nat
      BY InstanceTypes DEF TypeOK
    <3>5. QED
      BY <2>2, <2>3, <3>2, <3>3, <3>4
  <2>4. CASE v # u
    <3>1. OpenOf(v)' = OpenOf(v)
      BY <1>1, <2>4 DEF OpenOf, TypeOK, Registered
    <3>2. QED
      BY <2>2, <2>4, <3>1 DEF TypeOK, Counted, QuotaExact
  <2>5. QED
    BY <2>3, <2>4
<1>5. QED
  BY <1>2, <1>3, <1>4, SizesOK

\* A subscription is closed and given back.
LEMMA Left ==
    ASSUME Library, TypeOK, Linked, Counted, NEW c \in Registered,
           phase' = [phase EXCEPT ![c] = "closed"], user' = user,
           byUser' = Released(c), limits' = limits
    PROVE  /\ Registered' = Registered \ {c}
           /\ IsFiniteSet(Registered') /\ Cardinality(Registered') <= StreamsPerTenant
           /\ byUser' \in [Users -> 0..limits'.streams]
           /\ \A v \in Users : byUser'[v] = Cardinality(OpenOf(v)') /\ byUser'[v] <= limits'.streams
<1>1. Registered' = Registered \ {c}
  BY DEF Registered, TypeOK
<1>2. IsFiniteSet(Registered)
  BY DEF Counted
<1>3. IsFiniteSet(Registered') /\ Cardinality(Registered') <= Cardinality(Registered)
  BY <1>1, <1>2 DEF Library, SubsetsCounted
<1>4. Cardinality(Registered) \in Nat /\ Cardinality(Registered') \in Nat
  BY <1>2, <1>3 DEF Library, SubsetsCounted
<1>5. Cardinality(Registered') <= StreamsPerTenant
  BY <1>3, <1>4, SizesOK DEF Counted, QuotaExact
<1>6. user[c] \in Users /\ byUser[user[c]] \in 1..limits.streams /\ limits.streams \in Nat
  BY CountedOnce, InstanceTypes DEF TypeOK
<1>7. ASSUME NEW v \in Users
      PROVE  /\ byUser'[v] = Cardinality(OpenOf(v)')
             /\ byUser'[v] \in 0..limits'.streams
  <2>1. IsFiniteSet(OpenOf(v))
    BY <1>2 DEF Library, SubsetsCounted, OpenOf
  <2>2. Cardinality(OpenOf(v)) \in Nat /\ byUser[v] = Cardinality(OpenOf(v))
    BY <2>1 DEF Library, SubsetsCounted, Counted, QuotaExact
  <2>3. CASE v = user[c]
    <3>1. OpenOf(v)' = OpenOf(v) \ {c} /\ c \in OpenOf(v)
      BY <1>1, <2>3 DEF OpenOf
    <3>2. Cardinality(OpenOf(v)') = Cardinality(OpenOf(v)) - 1
      BY <2>1, <3>1 DEF Library, OneLess
    <3>3. byUser'[v] = byUser[v] - 1
      BY <1>6, <2>3 DEF TypeOK, Released
    <3>4. QED
      BY <1>6, <2>2, <2>3, <3>2, <3>3
  <2>4. CASE v # user[c]
    <3>1. OpenOf(v)' = OpenOf(v)
      BY <1>1, <2>4 DEF OpenOf
    <3>2. QED
      BY <2>2, <2>4, <3>1 DEF TypeOK, Released
  <2>5. QED
    BY <2>3, <2>4
<1>8. byUser' \in [Users -> 0..limits'.streams]
  <2>1. DOMAIN byUser' = Users /\ byUser' = [u \in Users |-> byUser'[u]]
    BY DEF Released, TypeOK
  <2>2. QED
    BY <1>7, <2>1
<1>9. QED
  BY <1>1, <1>3, <1>5, <1>6, <1>7, <1>8

\* Nobody joins or leaves.
LEMMA Stayed ==
    ASSUME TypeOK, Counted, Registered' = Registered,
           \A c \in Registered : user'[c] = user[c],
           UNCHANGED <<limits, byUser>>, hub' = "up" => hub = "up",
           hub' = "up" => loop'.on = loop.on
    PROVE  Counted'
<1>1. \A u \in Users : OpenOf(u)' = OpenOf(u)
  BY DEF OpenOf
<1>2. QED
  BY <1>1 DEF Counted, QuotaExact

\* CloseSub, whoever calls it.
LEMMA ClosedTypes ==
    ASSUME Library, TypeOK, Linked, Counted, NEW c \in Registered, CloseSub(c),
           UNCHANGED <<streamVars, user>>, hub' \in {hub, "closing"}
    PROVE  /\ Registered' = Registered \ {c}
           /\ phase' \in [Conns -> Phases]
           /\ byUser' \in [Users -> 0..limits'.streams]
           /\ loop' \in Loops
           /\ loop'.left \subseteq loop.left \ {c}
           /\ loop' = NoLoop \/ loop' = [loop EXCEPT !.left = @ \ {c}]
           /\ Counted'
<1>1. /\ Registered' = Registered \ {c}
      /\ IsFiniteSet(Registered') /\ Cardinality(Registered') <= StreamsPerTenant
      /\ byUser' \in [Users -> 0..limits'.streams]
      /\ \A v \in Users : byUser'[v] = Cardinality(OpenOf(v)') /\ byUser'[v] <= limits'.streams
  BY Left DEF CloseSub, streamVars
<1>2. phase' \in [Conns -> Phases]
  BY DEF CloseSub, TypeOK, Phases
<1>a. loop \in Loops
  BY DEF TypeOK
<1>b. loop' = NoLoop \/ loop' = [loop EXCEPT !.left = @ \ {c}]
  BY DEF CloseSub
<1>3. loop' \in Loops
  BY <1>a, <1>b, LoopTypes
<1>4. loop'.left \subseteq loop.left \ {c}
  <2>1. CASE loop' = NoLoop
    BY <2>1 DEF NoLoop
  <2>2. CASE loop' = [loop EXCEPT !.left = @ \ {c}]
    BY <1>a, <2>2, LoopTypes
  <2>3. QED
    BY <1>b, <2>1, <2>2
<1>5. hub' = "up" => (loop'.on <=> Registered' # {})
  <2>1. hub' = "up" => (loop.on <=> Registered # {})
    BY DEF Counted, QuotaExact
  <2>2. CASE Registered = {c}
    BY <1>1, <2>2 DEF CloseSub, NoLoop
  <2>3. CASE Registered # {c}
    BY <1>1, <2>1, <2>3 DEF CloseSub, TypeOK, Loops
  <2>4. QED
    BY <2>2, <2>3
<1>6. QED
  BY <1>1, <1>2, <1>b, <1>3, <1>4, <1>5 DEF Counted, QuotaExact

-----------------------------------------------------------------------------
(* Every step keeps the types, the links and the counts.                   *)

Base == TypeOK /\ Linked /\ Counted

\* push, for the subscription it is for and the others.
LEMMA PushTypes ==
    ASSUME TypeOK, NEW c \in Conns, NEW e \in 0..tail, Push(c, e)
    PROVE  /\ last' \in [Conns -> 0..MaxEvents]
           /\ queue' \in [Conns -> Seq(Ids \cup {Reset})]
           /\ given' \in [Conns -> Seq(Ids \cup {Reset})]
           /\ \A d \in Conns : last'[d] \in {last[d], e}
           /\ \A d \in Conns \ {c} : /\ last'[d] = last[d] /\ queue'[d] = queue[d]
                                     /\ given'[d] = given[d]
<1>1. e \in 0..MaxEvents /\ e \in Ids \cup {Reset}
  BY SizesOK DEF TypeOK, Ids, Reset
<1>2. /\ last \in [Conns -> 0..MaxEvents]
      /\ queue \in [Conns -> Seq(Ids \cup {Reset})]
      /\ given \in [Conns -> Seq(Ids \cup {Reset})]
  BY DEF TypeOK
<1>3. last' = last \/ last' = [last EXCEPT ![c] = e]
  BY DEF Push
<1>4. \/ UNCHANGED <<queue, given>>
      \/ /\ queue' = [queue EXCEPT ![c] = Append(@, e)]
         /\ given' = [given EXCEPT ![c] = Append(@, e)]
  BY DEF Push
<1>5. /\ last' \in [Conns -> 0..MaxEvents]
      /\ \A d \in Conns : last'[d] \in {last[d], e}
      /\ \A d \in Conns \ {c} : last'[d] = last[d]
  BY <1>1, <1>2, <1>3
<1>6. Append(queue[c], e) \in Seq(Ids \cup {Reset}) /\ Append(given[c], e) \in Seq(Ids \cup {Reset})
  BY <1>1, <1>2
<1>7. /\ queue' \in [Conns -> Seq(Ids \cup {Reset})]
      /\ given' \in [Conns -> Seq(Ids \cup {Reset})]
      /\ \A d \in Conns \ {c} : queue'[d] = queue[d] /\ given'[d] = given[d]
  BY <1>2, <1>4, <1>6
<1> QED
  BY <1>5, <1>7

\* Steps of the stream.
LEMMA DiscardTypes ==
    ASSUME TypeOK, NEW kept, Discard(kept)
    PROVE  cause' \in [Conns -> SUBSET Causes]
<1>1. cause \in [Conns -> SUBSET Causes] /\ "trimmed" \in Causes
  BY DEF TypeOK, Causes
<1>2. QED
  BY <1>1 DEF Discard

LEMMA PublishBase ==
    ASSUME Base, NEW us \in SUBSET limits.users, Publish(us)
    PROVE  Base'
<1> USE DEF Base
<1>1. us \subseteq Users /\ tail + 1 \in Ids /\ tail \in Nat
  BY InstanceTypes, SizesOK DEF Publish, TypeOK, Ids
<1>2. Newest(MaxLen, entries \cup {tail + 1}) \subseteq 1..(tail + 1)
  <2>1. Newest(MaxLen, entries \cup {tail + 1}) \subseteq entries \cup {tail + 1}
    BY DEF Newest
  <2>2. entries \subseteq 1..tail
    BY DEF TypeOK
  <2>3. entries \subseteq 1..(tail + 1) /\ tail + 1 \in 1..(tail + 1)
    BY <1>1, <2>2
  <2> QED
    BY <2>1, <2>3
<1>3. TypeOK'
  <2>1. to' \in [Ids -> SUBSET Users]
    BY <1>1 DEF Publish, TypeOK
  <2>2. tail' \in 0..MaxEvents /\ entries' \subseteq 1..tail'
    <3>1. tail' = tail + 1 /\ entries' = Newest(MaxLen, entries \cup {tail + 1})
      BY DEF Publish, Discard
    <3>2. tail + 1 \in 0..MaxEvents
      BY <1>1, SizesOK DEF Ids
    <3> QED
      BY <1>2, <3>1, <3>2
  <2> QED
    BY <2>1, <2>2, DiscardTypes DEF Publish, TypeOK
<1>4. Registered' = Registered
  BY DEF Publish, Registered
<1>5. Linked'
  BY <1>1, <1>4 DEF Publish, Linked, Mine, TypeOK, Ids, Loops
<1>6. Counted'
  BY <1>4, Stayed DEF Publish
<1> QED
  BY <1>3, <1>5, <1>6

LEMMA TrimBase ==
    ASSUME Base, Trim
    PROVE  Base'
<1> USE DEF Base
<1>1. TypeOK'
  BY DiscardTypes DEF Trim, Discard, TypeOK
<1>2. Registered' = Registered
  BY DEF Trim, Registered
<1>3. Linked'
  BY <1>2 DEF Trim, Linked, Mine
<1>4. Counted'
  BY <1>2, Stayed DEF Trim
<1> QED
  BY <1>1, <1>3, <1>4

LEMMA AgeBase ==
    ASSUME Base, Age
    PROVE  Base'
<1> USE DEF Base
<1>0. floor' \in 0..(limits.age + 1)
  <2>1. limits.age \in Nat
    BY InstanceTypes DEF TypeOK
  <2> QED
    BY <2>1 DEF Age, TypeOK
<1>1. TypeOK'
  <2>1. UNCHANGED <<limits, tail, entries, to, hub, victims, loop, byUser, connVars>>
    BY DEF Age
  <2>2. TypeOK
    OBVIOUS
  <2> QED
    BY <1>0, <2>1, <2>2 DEF TypeOK, connVars
<1>2. Registered' = Registered
  BY DEF Age, Registered, connVars
<1>3. Linked'
  BY <1>2 DEF Age, Linked, Mine, connVars
<1>4. Counted'
  BY <1>2, Stayed DEF Age, connVars
<1> QED
  BY <1>1, <1>3, <1>4

\* Steps of one subscription.
LEMMA SubscribeBase ==
    ASSUME Library, Base, NEW c \in Conns, NEW u \in limits.users, NEW id \in 0..tail, Subscribe(c, u, id)
    PROVE  Base'
<1> USE DEF Base
<1>1. u \in Users /\ tail \in 0..MaxEvents /\ id \in 0..MaxEvents /\ MaxEvents \in Nat
  BY InstanceTypes, SizesOK DEF TypeOK
<1>2. Registered' = Registered \cup {c} /\ c \notin Registered
  BY DEF Subscribe, Registered, TypeOK
<1>3. XLast \in 0..tail
  <2>1. CASE entries = {}
    BY <1>1, <2>1 DEF XLast
  <2>2. CASE entries # {}
    <3>1. entries \in SUBSET (1..tail) /\ tail \in Nat
      BY <1>1 DEF TypeOK
    <3>2. Max(entries) \in 1..tail
      BY <2>2, <3>1 DEF Library, Extremes
    <3> QED
      BY <1>1, <2>2, <3>2 DEF XLast
  <2> QED
    BY <2>1, <2>2
<1>4. /\ loop' \in Loops /\ loop'.on /\ loop'.cursor <= tail /\ loop'.left \in {loop.left, {}}
      /\ loop' = loop \/ (loop'.batch = {} /\ loop'.left = {})
  <2>1. CASE loop.on
    BY <2>1 DEF Subscribe, TypeOK, Linked
  <2>2. CASE ~loop.on
    <3>1. loop' = [on |-> TRUE, cursor |-> XLast, batch |-> {}, left |-> {}]
      BY <2>2 DEF Subscribe, NoLoop
    <3>2. QED
      BY <1>1, <1>3, <3>1 DEF Loops
  <2>3. QED
    BY <2>1, <2>2
<1>5. /\ IsFiniteSet(Registered') /\ Cardinality(Registered') <= StreamsPerTenant
      /\ \A v \in Users : byUser'[v] = Cardinality(OpenOf(v)') /\ byUser'[v] <= limits'.streams
  BY <1>1, <1>2, Joined DEF Subscribe, streamVars
<1>6. Counted'
  BY <1>2, <1>4, <1>5 DEF Counted, QuotaExact
<1>7. byUser' \in [Users -> 0..limits'.streams]
  <2>1. byUser \in [Users -> 0..limits.streams] /\ limits.streams \in Nat
    BY InstanceTypes DEF TypeOK
  <2>2. byUser[u] < limits.streams /\ byUser' = [byUser EXCEPT ![u] = @ + 1] /\ limits' = limits
    BY DEF Subscribe, streamVars
  <2>3. byUser[u] + 1 \in 0..limits.streams
    BY <1>1, <2>1, <2>2
  <2> QED
    BY <1>1, <2>1, <2>2, <2>3
<1>8. phase' \in [Conns -> Phases] /\ user' \in [Conns -> Users \cup {NoUser}]
  BY <1>1 DEF Subscribe, TypeOK, Phases
<1>9. since' \in [Conns -> 0..MaxEvents] /\ from' \in [Conns -> 0..MaxEvents]
  BY <1>1 DEF Subscribe, TypeOK
<1>10. TypeOK'
  BY <1>4, <1>7, <1>8, <1>9 DEF Subscribe, TypeOK, streamVars
<1>11. Linked'
  <2>1. \A d \in Registered' : user'[d] \in Users
    BY <1>1, <1>2 DEF Subscribe, TypeOK, Linked
  <2>2. \A d \in Conns : last'[d] <= tail' /\ since'[d] <= tail' /\ from'[d] <= tail'
    BY <1>1 DEF Subscribe, TypeOK, Linked, streamVars
  <2>3. \A d \in Registered : user'[d] = user[d]
    BY <1>2 DEF Subscribe, TypeOK
  <2>4. loop' = loop \/ (loop'.batch = {} /\ loop'.left = {})
    BY <1>4
  <2>5. \A d \in loop'.left : d \in Registered /\ Mine(d, loop.cursor)' /\ loop' = loop
    BY <2>3, <2>4 DEF Subscribe, Mine, streamVars, Linked
  <2> QED
    BY <1>2, <1>4, <2>1, <2>2, <2>4, <2>5 DEF Subscribe, Linked, streamVars
<1> QED
  BY <1>6, <1>10, <1>11

\* A subscription goes from one phase of Subscribe to the next.
LEMMA StepBase ==
    ASSUME Base, Registered' = Registered, UNCHANGED <<streamVars, hub, loop, byUser, user, since>>,
           TypeOK', \A d \in Conns : last'[d] <= tail /\ from'[d] <= tail /\ backlog'[d] \subseteq 1..tail
    PROVE  Base'
<1> USE DEF Base
<1>1. Linked'
  BY DEF Linked, Mine, streamVars
<1>2. Counted'
  BY Stayed DEF streamVars
<1> QED
  BY <1>1, <1>2

LEMMA ReturnTypes ==
    ASSUME Base, NEW c \in Registered, Return(c)
    PROVE  /\ phase' \in [Conns -> Phases] /\ from' \in [Conns -> 0..MaxEvents]
           /\ Registered' = Registered
           /\ \A d \in Conns : from'[d] <= tail
<1>1. c \in Conns /\ phase \in [Conns -> Phases] /\ from \in [Conns -> 0..MaxEvents]
      /\ tail \in 0..MaxEvents /\ \A d \in Conns : from[d] <= tail
  BY DEF Base, TypeOK, Linked, Registered
<1>2. phase' = [phase EXCEPT ![c] = "open"] /\ from' = [from EXCEPT ![c] = tail]
  BY DEF Return
<1>3. phase' \in [Conns -> Phases] /\ Registered' = Registered
  BY <1>1, <1>2 DEF Phases, Registered
<1>4. from' \in [Conns -> 0..MaxEvents]
  BY <1>1, <1>2
<1>5. \A d \in Conns : from'[d] <= tail
  BY <1>1, <1>2, SizesOK
<1> QED
  BY <1>3, <1>4, <1>5

\* A reset is pushed and Subscribe returns.
LEMMA ResetBase ==
    ASSUME Base, NEW c \in Conns, TooOld(c) \/ RangeFails(c)
    PROVE  Base'
<1> USE DEF Base
<1>1. c \in Registered /\ Push(c, Reset) /\ Return(c)
      /\ UNCHANGED <<streamVars, hub, victims, loop, byUser, user, since, backlog, cause>>
  BY DEF TooOld, RangeFails, Registered
<1>2. Reset \in 0..tail
  BY SizesOK DEF Reset, TypeOK
<1>3. /\ last' \in [Conns -> 0..MaxEvents]
      /\ queue' \in [Conns -> Seq(Ids \cup {Reset})]
      /\ given' \in [Conns -> Seq(Ids \cup {Reset})]
      /\ \A d \in Conns : last'[d] \in {last[d], Reset}
  BY <1>1, <1>2, PushTypes
<1>4. /\ phase' \in [Conns -> Phases] /\ from' \in [Conns -> 0..MaxEvents]
      /\ Registered' = Registered
      /\ \A d \in Conns : from'[d] <= tail
  BY <1>1, ReturnTypes
<1>5. TypeOK'
  BY <1>1, <1>3, <1>4 DEF TypeOK, streamVars
<1>6. \A d \in Conns : last'[d] <= tail /\ backlog'[d] \subseteq 1..tail
  <2>1. Reset <= tail
    BY <1>2 DEF TypeOK
  <2> QED
    BY <1>1, <1>3, <2>1 DEF Linked
<1> QED
  BY <1>1, <1>4, <1>5, <1>6, StepBase

LEMMA InWindowBase ==
    ASSUME Base, NEW c \in Conns, InWindow(c)
    PROVE  Base'
<1> USE DEF Base
<1>1. Registered' = Registered /\ phase' \in [Conns -> Phases]
  BY DEF InWindow, Registered, TypeOK, Phases
<1>2. TypeOK'
  BY <1>1 DEF InWindow, TypeOK, streamVars
<1> QED
  BY <1>1, <1>2, StepBase DEF InWindow, Linked

LEMMA RangeReadBase ==
    ASSUME Base, NEW c \in Conns, RangeRead(c)
    PROVE  Base'
<1> USE DEF Base
<1> DEFINE missed == {e \in XRange(since[c]) : Mine(c, e)}
<1>1. c \in Registered /\ missed \subseteq 1..tail /\ tail \in 0..MaxEvents
  BY DEF RangeRead, Registered, XRange, After, TypeOK
<1>2. backlog' = [backlog EXCEPT ![c] = missed]
  BY DEF RangeRead
<1>3. backlog' \in [Conns -> SUBSET Ids] /\ \A d \in Conns : backlog'[d] \subseteq 1..tail
  <2>1. 1..tail \subseteq Ids
    BY <1>1, SizesOK DEF Ids
  <2> HIDE DEF missed
  <2> QED
    BY <1>1, <1>2, <2>1 DEF TypeOK, Linked
<1>4. /\ phase' \in [Conns -> Phases] /\ from' \in [Conns -> 0..MaxEvents]
      /\ Registered' = Registered
      /\ \A d \in Conns : from'[d] <= tail
  <2>1. CASE Return(c)
    BY <1>1, <2>1, ReturnTypes
  <2>2. CASE phase' = [phase EXCEPT ![c] = "replay"] /\ UNCHANGED from
    BY <1>1, <2>2 DEF TypeOK, Phases, Registered, Linked
  <2> QED
    BY <2>1, <2>2 DEF RangeRead
<1>5. cause' \in [Conns -> SUBSET Causes]
  <2>1. cause' = cause \/ cause' = [cause EXCEPT ![c] = @ \cup {"trimmed"}]
    BY DEF RangeRead
  <2>2. cause \in [Conns -> SUBSET Causes] /\ "trimmed" \in Causes
    BY DEF TypeOK, Causes
  <2> QED
    BY <2>1, <2>2
<1>6. UNCHANGED <<streamVars, hub, victims, loop, byUser, user, since, last, queue, given>>
  BY DEF RangeRead
<1>7. TypeOK'
  BY <1>3, <1>4, <1>5, <1>6 DEF TypeOK, streamVars
<1> QED
  BY <1>3, <1>4, <1>6, <1>7, StepBase DEF Linked

LEMMA ReplayPushBase ==
    ASSUME Library, Base, NEW c \in Conns, backlog[c] # {}, ReplayPush(c)
    PROVE  Base'
<1> USE DEF Base
<1> DEFINE e == Min(backlog[c])
<1>1. c \in Registered /\ tail \in 0..MaxEvents /\ backlog[c] \in SUBSET (1..tail)
  BY DEF ReplayPush, Registered, Linked, TypeOK
<1>2. e \in 1..tail
  <2>1. tail \in Nat
    BY <1>1
  <2> QED
    BY <1>1, <2>1 DEF Library, Extremes
<1>3. /\ Push(c, e)
      /\ cause' = cause \/ cause' = [cause EXCEPT ![c] = @ \cup {"overflow"}]
      /\ backlog' = [backlog EXCEPT ![c] = @ \ {e}]
      /\ Return(c) \/ UNCHANGED <<phase, from>>
      /\ UNCHANGED <<streamVars, hub, victims, loop, byUser, user, since>>
  BY DEF ReplayPush
<1> HIDE DEF e
<1>4. /\ last' \in [Conns -> 0..MaxEvents]
      /\ queue' \in [Conns -> Seq(Ids \cup {Reset})]
      /\ given' \in [Conns -> Seq(Ids \cup {Reset})]
      /\ \A d \in Conns : last'[d] \in {last[d], e}
  <2>1. e \in 0..tail
    BY <1>1, <1>2
  <2> QED
    BY <1>3, <2>1, PushTypes
<1>5. backlog' \in [Conns -> SUBSET Ids] /\ \A d \in Conns : backlog'[d] \subseteq 1..tail
  BY <1>3 DEF TypeOK, Linked
<1>6. cause' \in [Conns -> SUBSET Causes]
  <2>1. cause \in [Conns -> SUBSET Causes] /\ "overflow" \in Causes
    BY DEF TypeOK, Causes
  <2> QED
    BY <1>3, <2>1
<1>7. /\ phase' \in [Conns -> Phases] /\ from' \in [Conns -> 0..MaxEvents]
      /\ Registered' = Registered
      /\ \A d \in Conns : from'[d] <= tail
  <2>1. CASE Return(c)
    BY <1>1, <2>1, ReturnTypes
  <2>2. CASE UNCHANGED <<phase, from>>
    BY <2>2 DEF TypeOK, Registered, Linked
  <2> QED
    BY <1>3, <2>1, <2>2
<1>8. TypeOK'
  BY <1>3, <1>4, <1>5, <1>6, <1>7 DEF TypeOK, streamVars
<1>9. \A d \in Conns : last'[d] <= tail
  <2>1. e <= tail /\ \A d \in Conns : last[d] <= tail
    BY <1>1, <1>2 DEF Linked
  <2> QED
    BY <1>4, <2>1
<1> QED
  BY <1>3, <1>5, <1>7, <1>8, <1>9, StepBase

LEMMA ReadBase ==
    ASSUME Base, NEW c \in Conns, Read(c)
    PROVE  Base'
<1> USE DEF Base
<1>1. queue' \in [Conns -> Seq(Ids \cup {Reset})]
  <2>1. queue \in [Conns -> Seq(Ids \cup {Reset})] /\ queue[c] # <<>>
    BY DEF Read, TypeOK
  <2>2. Tail(queue[c]) \in Seq(Ids \cup {Reset})
    BY <2>1
  <2> QED
    BY <2>1, <2>2 DEF Read
<1>2. TypeOK'
  BY <1>1 DEF Read, TypeOK, streamVars
<1>3. Registered' = Registered
  BY DEF Read, Registered
<1> QED
  BY <1>2, <1>3, StepBase DEF Read, Linked

LEMMA ClosedBase ==
    ASSUME Library, Base, NEW c \in Registered, CloseSub(c), hub' \in {hub, "closing"},
           victims' \subseteq Conns, UNCHANGED <<streamVars, user, since, backlog, from>>,
           last' \in [Conns -> 0..MaxEvents], \A d \in Conns : last'[d] <= tail,
           queue' \in [Conns -> Seq(Ids \cup {Reset})],
           given' \in [Conns -> Seq(Ids \cup {Reset})],
           cause' \in [Conns -> SUBSET Causes]
    PROVE  Base'
<1> USE DEF Base
<1>1. /\ Registered' = Registered \ {c}
      /\ phase' \in [Conns -> Phases]
      /\ byUser' \in [Users -> 0..limits'.streams]
      /\ loop' \in Loops
      /\ loop'.left \subseteq loop.left \ {c}
      /\ loop' = NoLoop \/ loop' = [loop EXCEPT !.left = @ \ {c}]
      /\ Counted'
  BY ClosedTypes
<1>2. TypeOK'
  BY <1>1 DEF TypeOK, streamVars
<1>3. /\ loop'.cursor <= tail
      /\ loop'.batch \subseteq (loop'.cursor + 1)..tail
      /\ loop'.left # {} => loop'.cursor = loop.cursor
  <2>1. CASE loop' = NoLoop
    BY <2>1 DEF NoLoop, TypeOK
  <2>2. CASE loop' = [loop EXCEPT !.left = @ \ {c}]
    <3>1. loop'.cursor = loop.cursor /\ loop'.batch = loop.batch
      BY <2>2 DEF TypeOK, Loops
    <3> QED
      BY <3>1 DEF Linked
  <2> QED
    BY <1>1, <2>1, <2>2
<1>4. Linked'
  BY <1>1, <1>3 DEF Linked, Mine, streamVars
<1> QED
  BY <1>1, <1>2, <1>4

LEMMA LeaveBase ==
    ASSUME Library, Base, NEW c \in Conns, Leave(c)
    PROVE  Base'
<1>1. c \in Registered
  BY DEF Leave, Registered
<1>2. /\ last \in [Conns -> 0..MaxEvents] /\ \A d \in Conns : last[d] <= tail
      /\ queue \in [Conns -> Seq(Ids \cup {Reset})]
      /\ given \in [Conns -> Seq(Ids \cup {Reset})]
      /\ cause \in [Conns -> SUBSET Causes] /\ victims \subseteq Conns
  BY DEF Base, TypeOK, Linked
<1> QED
  BY <1>1, <1>2, ClosedBase DEF Leave

\* Steps of the loop.
LEMMA LoopReadBase ==
    ASSUME Base, LoopRead
    PROVE  Base'
<1> USE DEF Base
<1>1. loop \in Loops /\ loop.left = {} /\ entries \subseteq 1..tail /\ tail \in 0..MaxEvents
      /\ loop.cursor \in 0..MaxEvents
  BY DEF LoopRead, TypeOK, Loops
<1>2. After(loop.cursor) \subseteq (loop.cursor + 1)..tail /\ After(loop.cursor) \subseteq Ids
  <2>1. \A x \in After(loop.cursor) : x \in 1..tail /\ x > loop.cursor
    BY <1>1 DEF After
  <2>2. 1..tail \subseteq Ids
    BY <1>1, SizesOK DEF Ids
  <2> QED
    BY <1>1, <2>1, <2>2, SizesOK
<1>3. loop' = [loop EXCEPT !.batch = After(loop.cursor)]
  BY DEF LoopRead, XRead
<1>4. /\ loop' \in Loops /\ loop'.on = loop.on /\ loop'.cursor = loop.cursor
      /\ loop'.left = {} /\ loop'.batch = After(loop.cursor)
  BY <1>1, <1>2, <1>3 DEF Loops
<1>5. TypeOK'
  BY <1>4 DEF LoopRead, TypeOK, streamVars, connVars
<1>6. Registered' = Registered
  BY DEF LoopRead, Registered, connVars
<1>7. Linked'
  BY <1>2, <1>4, <1>6 DEF LoopRead, Linked, streamVars, connVars
<1>8. Counted'
  BY <1>4, <1>6, Stayed DEF LoopRead, streamVars, connVars
<1> QED
  BY <1>5, <1>7, <1>8

LEMMA DispatchBase ==
    ASSUME Library, Base, Dispatch
    PROVE  Base'
<1> USE DEF Base
<1>1. /\ loop \in Loops /\ loop.batch # {} /\ loop.batch \subseteq (loop.cursor + 1)..tail
      /\ tail \in 0..MaxEvents /\ loop.cursor \in 0..MaxEvents
  BY DEF Dispatch, TypeOK, Loops, Linked
<1>2. PICK e \in loop.batch : e = Min(loop.batch) /\ \A x \in loop.batch : e <= x
  <2>1. loop.batch \in SUBSET (1..tail) /\ tail \in Nat
    BY <1>1
  <2> QED
    BY <1>1, <2>1 DEF Library, Extremes
<1>3. loop' = [loop EXCEPT !.cursor = e, !.batch = @ \ {e}, !.left = Receivers(e)]
  BY <1>2 DEF Dispatch
<1>4. e \in 1..tail /\ e \in 0..MaxEvents /\ Receivers(e) \subseteq Registered /\ Receivers(e) \subseteq Conns
  <2>1. e \in (loop.cursor + 1)..tail
    BY <1>1
  <2>2. Receivers(e) \subseteq Registered /\ Registered \subseteq Conns
    BY DEF Receivers, Registered
  <2> QED
    BY <1>1, <2>1, <2>2, SizesOK
<1>5. /\ loop' \in Loops /\ loop'.on = loop.on /\ loop'.cursor = e
      /\ loop'.left = Receivers(e) /\ loop'.batch = loop.batch \ {e}
  BY <1>1, <1>3, <1>4 DEF Loops
<1>6. loop'.batch \subseteq (e + 1)..tail
  <2>1. \A x \in loop.batch : x \in 1..tail /\ x >= e
    BY <1>1, <1>2
  <2> QED
    BY <1>4, <1>5, <2>1
<1>7. TypeOK'
  BY <1>5 DEF Dispatch, TypeOK, streamVars, connVars
<1>8. Registered' = Registered
  BY DEF Dispatch, Registered, connVars
<1>9. \A c \in Receivers(e) : (user[c] \in to[e])'
  BY DEF Receivers, Mine, Dispatch, streamVars, connVars
<1>10. Linked'
  BY <1>4, <1>5, <1>6, <1>8, <1>9 DEF Dispatch, Linked, Mine, streamVars, connVars
<1>11. Counted'
  BY <1>5, <1>8, Stayed DEF Dispatch, streamVars, connVars
<1> QED
  BY <1>7, <1>10, <1>11

LEMMA DispatchPushBase ==
    ASSUME Library, Base, NEW c \in Conns, DispatchPush(c)
    PROVE  Base'
<1> USE DEF Base
<1>1. c \in loop.left /\ c \in Registered /\ loop \in Loops
      /\ loop.cursor \in 0..tail /\ Push(c, loop.cursor)
  <2>1. c \in loop.left /\ Push(c, loop.cursor)
    BY DEF DispatchPush
  <2>2. loop \in Loops /\ loop.cursor \in 1..tail /\ c \in Registered /\ tail \in Nat
    BY <2>1 DEF Linked, TypeOK
  <2> QED
    BY <2>1, <2>2
<1>2. /\ last' \in [Conns -> 0..MaxEvents]
      /\ queue' \in [Conns -> Seq(Ids \cup {Reset})]
      /\ given' \in [Conns -> Seq(Ids \cup {Reset})]
      /\ \A d \in Conns : last'[d] \in {last[d], loop.cursor}
  <2> DEFINE e == loop.cursor
  <2>1. e \in 0..tail /\ Push(c, e)
    BY <1>1
  <2> HIDE DEF e
  <2>2. /\ last' \in [Conns -> 0..MaxEvents]
        /\ queue' \in [Conns -> Seq(Ids \cup {Reset})]
        /\ given' \in [Conns -> Seq(Ids \cup {Reset})]
        /\ \A d \in Conns : last'[d] \in {last[d], e}
    BY <2>1, PushTypes
  <2> QED
    BY <2>2 DEF e
<1>3. \A d \in Conns : last'[d] <= tail
  BY <1>2 DEF Linked
<1>4. cause' \in [Conns -> SUBSET Causes]
  <2>1. cause' = cause \/ cause' = [cause EXCEPT ![c] = @ \cup {"overtaken"}]
    BY DEF DispatchPush
  <2>2. cause \in [Conns -> SUBSET Causes] /\ "overtaken" \in Causes
    BY DEF TypeOK, Causes
  <2> QED
    BY <2>1, <2>2
<1>5. UNCHANGED <<streamVars, hub, victims, user, since, backlog, from>>
  BY DEF DispatchPush
<1>6. CASE CloseSub(c)
  <2>1. victims \subseteq Conns
    BY DEF TypeOK
  <2> QED
    BY <1>1, <1>2, <1>3, <1>4, <1>5, <1>6, <2>1, ClosedBase
<1>7. CASE loop' = [loop EXCEPT !.left = @ \ {c}] /\ UNCHANGED <<phase, byUser>>
  <2>1. /\ loop' \in Loops /\ loop'.on = loop.on /\ loop'.cursor = loop.cursor
        /\ loop'.left = loop.left \ {c} /\ loop'.batch = loop.batch
    <3>1. loop' \in Loops /\ loop'.left = loop.left \ {c}
      BY <1>1, <1>7, LoopTypes
    <3> QED
      BY <1>1, <1>7, <3>1 DEF Loops
  <2>2. TypeOK'
    BY <1>2, <1>4, <1>5, <1>7, <2>1 DEF TypeOK, streamVars
  <2>3. Registered' = Registered
    BY <1>7 DEF Registered
  <2>4. Linked'
    BY <1>3, <1>5, <2>1, <2>3 DEF Linked, Mine, streamVars
  <2>5. Counted'
    BY <1>5, <1>7, <2>1, <2>3, Stayed DEF streamVars
  <2> QED
    BY <2>2, <2>4, <2>5
<1> QED
  BY <1>6, <1>7 DEF DispatchPush

LEMMA LoopStopBase ==
    ASSUME Base, LoopStop
    PROVE  Base'
<1> USE DEF Base
<1>1. /\ loop' \in Loops /\ loop'.cursor = loop.cursor /\ hub # "up" /\ hub' = hub
      /\ loop'.left = loop.left /\ loop'.batch = loop.batch
  BY DEF LoopStop, TypeOK, Loops
<1>2. TypeOK'
  BY <1>1 DEF LoopStop, TypeOK, streamVars, connVars
<1>3. Registered' = Registered
  BY DEF LoopStop, Registered, connVars
<1>4. Linked'
  BY <1>1, <1>3 DEF LoopStop, Linked, Mine, streamVars, connVars
<1>5. Counted'
  BY <1>1, <1>3, Stayed DEF LoopStop, streamVars, connVars
<1> QED
  BY <1>2, <1>4, <1>5

\* Steps of Hub.Close.
LEMMA CloseBase ==
    ASSUME Base, BeginClose \/ CollectSubs \/ EndClose
    PROVE  Base'
<1> USE DEF Base
<1>1. /\ hub' \in {"cancelled", "closing", "closed"} /\ victims' \subseteq Conns
      /\ UNCHANGED <<streamVars, loop, byUser, connVars>>
  BY DEF BeginClose, CollectSubs, EndClose, Registered, TypeOK
<1>2. TypeOK'
  BY <1>1 DEF TypeOK, streamVars, connVars
<1>3. Registered' = Registered
  BY <1>1 DEF Registered, connVars
<1>4. Linked'
  BY <1>1, <1>3 DEF Linked, Mine, streamVars, connVars
<1>5. Counted'
  BY <1>1, <1>3, Stayed DEF streamVars, connVars
<1> QED
  BY <1>2, <1>4, <1>5

LEMMA CloseOneBase ==
    ASSUME Library, Base, NEW c \in Conns, CloseOne(c)
    PROVE  Base'
<1> USE DEF Base
<1>1. victims' \subseteq Conns
  BY DEF CloseOne, TypeOK
<1>2. CASE c \in Registered
  <2>1. CloseSub(c)
    BY <1>2 DEF CloseOne
  <2>2. /\ last \in [Conns -> 0..MaxEvents] /\ \A d \in Conns : last[d] <= tail
        /\ queue \in [Conns -> Seq(Ids \cup {Reset})]
        /\ given \in [Conns -> Seq(Ids \cup {Reset})]
        /\ cause \in [Conns -> SUBSET Causes]
    BY DEF TypeOK, Linked
  <2> QED
    BY <1>1, <1>2, <2>1, <2>2, ClosedBase DEF CloseOne
<1>3. CASE c \notin Registered
  <2>1. Registered' = Registered
    BY <1>3 DEF CloseOne, Registered
  <2>2. TypeOK'
    BY <1>1, <1>3 DEF CloseOne, TypeOK, streamVars
  <2> QED
    BY <1>3, <2>1, <2>2, StepBase DEF CloseOne, Linked
<1> QED
  BY <1>2, <1>3

-----------------------------------------------------------------------------
(* What a subscription was given and what it is still to get.              *)

\* Where it is in Subscribe.
Stage(c) ==
    /\ phase[c] \in {"window", "range", "replay"} => since[c] # 0
    /\ phase[c] = "replay" => backlog[c] # {}
    /\ phase[c] \in {"new", "window", "range", "open"} => backlog[c] = {}
    /\ phase[c] = "new" => cause[c] = {}
    /\ phase[c] \in {"new", "window", "range"} /\ cause[c] = {}
           => last[c] = 0 /\ queue[c] = <<>> /\ given[c] = <<>>

\* What it was given ascends, up to the highest id pushed.
Sorted(c) ==
    /\ \A i \in DOMAIN given[c] : given[c][i] <= last[c]
    /\ \A i, j \in DOMAIN given[c] :
           i < j /\ Reset \notin {given[c][i], given[c][j]} => given[c][i] < given[c][j]

\* What a batch leaves in the stream is newer than the batch.
BatchFirst ==
    \A x \in entries : x > loop.cursor /\ x \notin loop.batch => \A b \in loop.batch : b < x

\* The events a subscription is to get, read or not.
Start(c) == IF since[c] = 0 THEN from[c] ELSE since[c]
Due(c) == {e \in (Start(c) + 1)..tail : Mine(c, e)}

\* It gets events, and nothing has gone wrong.
Served(c) ==
    phase[c] \in {"replay", "open"} /\ Reset \notin Given(c) /\ cause[c] = {}

\* What it has not been given is in the backlog, or ahead of the backlog, of all
\* it was given and of the loop; what is ahead of the loop can still be read.
Ahead(c) ==
    /\ \A e \in Due(c) \ Given(c) :
           \/ e \in backlog[c]
           \/ e > Reached(c) /\ e > last[c] /\ \A b \in backlog[c] : b < e
    /\ \A b \in backlog[c] : b > last[c]
    /\ \A e \in Due(c) : e > loop.cursor => e \in entries \cup loop.batch

Whole(c) == Stage(c) /\ Sorted(c) /\ (Served(c) => Ahead(c))

\* The inductive invariant.
HubInv == Base /\ BatchFirst /\ \A c \in Conns : Whole(c)

LEMMA WholeInit ==
    ASSUME Library, Init
    PROVE  HubInv
<1>1. TypeOK /\ Linked
  BY TypeInit
<1>2. Registered = {}
  BY DEF Init, Registered
<1>3. \A u : OpenOf(u) = {}
  BY <1>2 DEF OpenOf
<1>4. IsFiniteSet({}) /\ Cardinality({}) = 0
  BY DEF Library, EmptyCounted
<1>5. Counted
  <2>1. limits.streams \in Nat
    BY <1>1, InstanceTypes DEF TypeOK
  <2>2. ~loop.on /\ \A u \in Users : byUser[u] = 0
    BY DEF Init, NoLoop
  <2>3. IsFiniteSet(Registered) /\ Cardinality(Registered) = 0 /\ \A u : Cardinality(OpenOf(u)) = 0
    BY <1>2, <1>3, <1>4
  <2> QED
    BY <1>2, <2>1, <2>2, <2>3, SizesOK DEF Counted, QuotaExact
<1>6. BatchFirst
  BY DEF Init, BatchFirst, NoLoop
<1>7. ASSUME NEW c \in Conns PROVE Whole(c)
  <2>1. /\ phase[c] = "new" /\ cause[c] = {} /\ last[c] = 0 /\ queue[c] = <<>>
        /\ given[c] = <<>> /\ backlog[c] = {}
    BY DEF Init
  <2> QED
    BY <2>1 DEF Whole, Stage, Sorted, Served
<1> QED
  BY <1>1, <1>5, <1>6, <1>7 DEF HubInv, Base

\* A step that leaves a subscription and the stream alone, and for a registered
\* one the loop's place.
LEMMA UntouchedWhole ==
    ASSUME Base, NEW d \in Conns, Whole(d), UNCHANGED streamVars,
           UNCHANGED <<phase[d], user[d], since[d], backlog[d], last[d], given[d], from[d], cause[d]>>,
           phase[d] \in {"new", "window", "range"} => queue'[d] = queue[d],
           d \in Registered =>
               /\ loop'.cursor = loop.cursor /\ loop'.batch = loop.batch
               /\ d \in loop'.left <=> d \in loop.left
    PROVE  Whole(d)'
<1>1. Stage(d)'
  BY DEF Whole, Stage
<1>2. Sorted(d)'
  BY DEF Whole, Sorted
<1>3. ASSUME Served(d)' PROVE Ahead(d)'
  <2>1. Served(d) /\ d \in Registered
    BY <1>3 DEF Served, Registered, Given
  <2>2. Ahead(d) /\ Reached(d)' = Reached(d)
    BY <2>1 DEF Whole, Reached
  <2>3. Due(d)' = Due(d) /\ Given(d)' = Given(d)
    BY DEF Due, Start, Mine, Given, streamVars
  <2> QED
    BY <2>1, <2>2, <2>3 DEF Ahead, streamVars
<1> QED
  BY <1>1, <1>2, <1>3 DEF Whole

\* What push does to what was given.
LEMMA PushGiven ==
    ASSUME TypeOK, NEW c \in Conns, NEW e \in 0..tail, Push(c, e), Sorted(c), phase[c] # "closed"
    PROVE  /\ Sorted(c)'
           /\ Stale(c, e) => last'[c] = last[c] /\ Given(c)' = Given(c)
           /\ ~Stale(c, e) /\ ~Full(c) => Given(c)' = Given(c) \cup {e}
           /\ ~Stale(c, e) /\ e # Reset => last'[c] = e /\ e > last[c]
           /\ Given(c) \subseteq Given(c)'
<1>1. /\ given \in [Conns -> Seq(Ids \cup {Reset})] /\ given[c] \in Seq(Ids \cup {Reset})
      /\ last \in [Conns -> 0..MaxEvents] /\ last[c] \in Nat /\ e \in Nat
      /\ \A i \in DOMAIN given[c] : given[c][i] \in Nat
  <2>1. given \in [Conns -> Seq(Ids \cup {Reset})] /\ last \in [Conns -> 0..MaxEvents] /\ tail \in Nat
    BY DEF TypeOK
  <2>2. given[c] \in Seq(Ids \cup {Reset}) /\ last[c] \in Nat /\ e \in Nat
    BY <2>1
  <2>3. \A x \in Ids \cup {Reset} : x \in Nat
    BY DEF Ids, Reset
  <2> QED
    BY <2>1, <2>2, <2>3
<1>2. CASE Stale(c, e)
  <2>1. last' = last /\ given' = given
    BY <1>2 DEF Push
  <2> QED
    BY <1>2, <2>1 DEF Sorted, Given
<1>3. CASE ~Stale(c, e)
  <2>1. e # Reset => e > last[c]
    BY <1>1, <1>3 DEF Stale
  <2>2. e # Reset => last'[c] = e
    BY <1>1, <1>3 DEF Push
  <2>3. e = Reset => last'[c] = last[c]
    BY <1>1, <1>3 DEF Push
  <2>4. CASE Full(c)
    <3>1. given' = given
      BY <2>4 DEF Push
    <3>2. Sorted(c)'
      BY <1>1, <2>1, <2>2, <2>3, <3>1 DEF Sorted
    <3> QED
      BY <1>3, <2>1, <2>2, <2>4, <3>1, <3>2 DEF Given
  <2>5. CASE ~Full(c)
    <3>1. given'[c] = Append(given[c], e)
      BY <1>1, <1>3, <2>5 DEF Push
    <3>2. /\ Len(given[c]) \in Nat
          /\ DOMAIN given[c] = 1..Len(given[c]) /\ DOMAIN given'[c] = 1..(Len(given[c]) + 1)
          /\ \A i \in DOMAIN given[c] : given'[c][i] = given[c][i]
          /\ given'[c][Len(given[c]) + 1] = e
      BY <1>1, <3>1
    <3>3. Given(c)' = Given(c) \cup {e}
      <4>1. \A i \in DOMAIN given'[c] : i \in DOMAIN given[c] \/ i = Len(given[c]) + 1
        BY <3>2
      <4>2. DOMAIN given[c] \subseteq DOMAIN given'[c] /\ Len(given[c]) + 1 \in DOMAIN given'[c]
        BY <3>2
      <4> QED
        BY <3>2, <4>1, <4>2 DEF Given, Range
    <3>4. \A i \in DOMAIN given'[c] : given'[c][i] <= last'[c]
      <4>1. ASSUME NEW i \in DOMAIN given'[c] PROVE given'[c][i] <= last'[c]
        <5>1. CASE i \in DOMAIN given[c]
          <6>1. given'[c][i] = given[c][i] /\ given[c][i] <= last[c] /\ given[c][i] \in Nat
            BY <1>1, <3>2, <5>1 DEF Sorted
          <6>2. last[c] <= last'[c] /\ last'[c] \in Nat
            BY <1>1, <2>1, <2>2, <2>3
          <6> QED
            BY <1>1, <6>1, <6>2
        <5>2. CASE i = Len(given[c]) + 1
          BY <1>1, <2>2, <2>3, <3>2, <5>2 DEF Reset
        <5> QED
          BY <3>2, <4>1, <5>1, <5>2
      <4> QED
        BY <4>1
    <3>5. ASSUME NEW i \in DOMAIN given'[c], NEW j \in DOMAIN given'[c], i < j,
                 Reset \notin {given'[c][i], given'[c][j]}
          PROVE  given'[c][i] < given'[c][j]
      <4>1. i \in DOMAIN given[c] /\ given'[c][i] = given[c][i]
        BY <3>2, <3>5
      <4>2. CASE j \in DOMAIN given[c]
        BY <3>2, <3>5, <4>1, <4>2 DEF Sorted
      <4>3. CASE j = Len(given[c]) + 1
        <5>1. given'[c][j] = e /\ e # Reset /\ e > last[c]
          BY <2>1, <3>2, <3>5, <4>3
        <5>2. given[c][i] <= last[c] /\ given[c][i] \in Nat
          BY <1>1, <4>1 DEF Sorted
        <5> QED
          BY <1>1, <4>1, <5>1, <5>2
      <4> QED
        BY <3>2, <4>2, <4>3
    <3>6. Sorted(c)'
      BY <3>4, <3>5 DEF Sorted
    <3> QED
      BY <1>3, <2>1, <2>2, <2>5, <3>3, <3>6
  <2> QED
    BY <2>4, <2>5
<1> QED
  BY <1>2, <1>3

-----------------------------------------------------------------------------
(* Every step keeps the invariant.                                         *)

\* An event is added, and old ones are dropped.
LEMMA DiscardWhole ==
    ASSUME HubInv, NEW kept, Discard(kept), tail' \in {tail, tail + 1},
           kept \subseteq entries \cup {tail + 1}, tail' # tail => tail' \in kept,
           \A e \in 1..tail : to'[e] = to[e],
           UNCHANGED <<loop, phase, user, since, backlog, last, queue, given, from>>
    PROVE  BatchFirst' /\ \A c \in Conns : Whole(c)'
<1>1. /\ tail \in Nat /\ entries \subseteq 1..tail /\ loop.cursor \in 0..tail
      /\ loop.batch \subseteq (loop.cursor + 1)..tail
  BY DEF HubInv, Base, TypeOK, Linked, Loops
<1>2. entries' = kept /\ \A x \in kept : x \in entries \/ x = tail + 1
  BY DEF Discard
<1>3. \A b \in loop.batch : b < tail + 1
  BY <1>1
<1>4. BatchFirst'
  BY <1>2, <1>3 DEF HubInv, BatchFirst
<1>5. ASSUME NEW c \in Conns PROVE Whole(c)'
  <2>1. cause'[c] = IF c \in Registered /\ Unread \ kept # {} THEN cause[c] \cup {"trimmed"} ELSE cause[c]
    BY DEF Discard
  <2>2. Whole(c)
    BY DEF HubInv
  <2>3. Stage(c)'
    BY <2>1, <2>2 DEF Whole, Stage, Registered
  <2>4. Sorted(c)'
    BY <2>2 DEF Whole, Sorted
  <2>5. ASSUME Served(c)' PROVE Ahead(c)'
    <3>1. Served(c) /\ c \in Registered /\ Unread \ kept = {}
      BY <2>1, <2>5 DEF Served, Given, Registered
    <3>2. Ahead(c)
      BY <2>2, <3>1 DEF Whole
    <3>3. Start(c)' = Start(c) /\ Given(c)' = Given(c) /\ Reached(c)' = Reached(c) /\ Start(c) \in Nat
      BY DEF Start, Given, Reached, HubInv, Base, TypeOK
    <3>4. \A e \in Due(c)' : e \in Due(c) \/ (e = tail + 1 /\ e = tail' /\ e \in kept)
      BY <1>1, <3>3 DEF Due, Mine
    <3>5. tail + 1 > last[c] /\ tail + 1 > Reached(c) /\ \A b \in backlog[c] : b < tail + 1
      <4>1. last[c] <= tail /\ last[c] \in Nat /\ backlog[c] \subseteq 1..tail
        BY DEF HubInv, Base, TypeOK, Linked
      <4>2. Reached(c) <= tail /\ Reached(c) \in Int
        BY <1>1 DEF Reached
      <4> QED
        BY <1>1, <4>1, <4>2
    <3>6. ASSUME NEW e \in Due(c)', e \notin Given(c)', e \notin backlog'[c]
          PROVE  e > Reached(c)' /\ e > last'[c] /\ \A b \in backlog'[c] : b < e
      <4>1. CASE e \in Due(c)
        BY <3>2, <3>3, <3>6, <4>1 DEF Ahead
      <4>2. CASE e = tail + 1
        BY <3>3, <3>5, <4>2
      <4> QED
        BY <3>4, <4>1, <4>2
    <3>7. ASSUME NEW e \in Due(c)', e > loop.cursor PROVE e \in entries' \cup loop.batch
      <4>1. CASE e \in Due(c)
        <5>1. e \in entries \cup loop.batch
          BY <3>2, <3>7, <4>1 DEF Ahead
        <5> QED
          BY <1>2, <3>1, <3>7, <5>1 DEF Unread
      <4>2. CASE e \in kept
        BY <1>2, <4>2
      <4> QED
        BY <3>4, <4>1, <4>2
    <3>8. \A b \in backlog'[c] : b > last'[c]
      BY <3>2 DEF Ahead
    <3> QED
      BY <3>6, <3>7, <3>8 DEF Ahead
  <2> QED
    BY <2>3, <2>4, <2>5 DEF Whole
<1> QED
  BY <1>4, <1>5

LEMMA PublishInv ==
    ASSUME Library, HubInv, NEW us \in SUBSET limits.users, Publish(us)
    PROVE  HubInv'
<1> DEFINE S == entries \cup {tail + 1}
           kept == Newest(MaxLen, S)
<1>1. Base' /\ tail \in Nat /\ entries \subseteq 1..tail /\ tail' = tail + 1 /\ Discard(kept)
  <2>1. Base'
    BY PublishBase DEF HubInv
  <2>2. tail \in Nat /\ entries \subseteq 1..tail
    BY DEF HubInv, Base, TypeOK
  <2>3. tail' = tail + 1 /\ Discard(kept)
    BY DEF Publish
  <2> QED
    BY <2>1, <2>2, <2>3
<1>2. tail' \in kept
  <2>1. {d \in S : d > tail + 1} = {}
    <3>1. \A d \in S : d \in 1..(tail + 1)
      BY <1>1
    <3> HIDE DEF S
    <3> QED
      BY <1>1, <3>1
  <2>2. Cardinality({d \in S : d > tail + 1}) = 0
    BY <2>1 DEF Library, EmptyCounted
  <2> QED
    BY <1>1, <2>2, SizesOK DEF Newest
<1>3. kept \subseteq entries \cup {tail + 1}
  BY DEF Newest
<1>4. \A e \in 1..tail : to'[e] = to[e]
  <2>1. to' = [to EXCEPT ![tail + 1] = us] /\ to \in [Ids -> SUBSET Users] /\ tail \in 0..MaxEvents
    BY DEF Publish, HubInv, Base, TypeOK
  <2>2. \A e \in 1..tail : e \in Ids /\ e # tail + 1
    BY <1>1, <2>1, SizesOK DEF Ids
  <2> QED
    BY <2>1, <2>2
<1>5. BatchFirst' /\ \A c \in Conns : Whole(c)'
  <2> HIDE DEF kept
  <2> QED
    BY <1>1, <1>2, <1>3, <1>4, DiscardWhole DEF Publish
<1> QED
  BY <1>1, <1>5 DEF HubInv

LEMMA TrimInv ==
    ASSUME HubInv, Trim
    PROVE  HubInv'
<1> DEFINE kept == {e \in entries : e >= floor}
<1>1. Base' /\ Discard(kept) /\ tail' = tail /\ kept \subseteq entries \cup {tail + 1}
  BY TrimBase DEF HubInv, Trim
<1>2. BatchFirst' /\ \A c \in Conns : Whole(c)'
  <2> HIDE DEF kept
  <2> QED
    BY <1>1, DiscardWhole DEF Trim
<1> QED
  BY <1>1, <1>2 DEF HubInv

\* Steps that change nothing a subscription depends on.
LEMMA StillInv ==
    ASSUME HubInv, Base', UNCHANGED <<tail, entries, to, connVars>>,
           loop'.cursor = loop.cursor /\ loop'.batch = loop.batch /\ loop'.left = loop.left
    PROVE  HubInv'
<1>1. BatchFirst'
  BY DEF HubInv, BatchFirst
<1>2. ASSUME NEW c \in Conns PROVE Whole(c)'
  <2>1. Stage(c)' /\ Sorted(c)' /\ (Served(c)' <=> Served(c))
    BY DEF HubInv, Whole, Stage, Sorted, Served, Given, connVars
  <2>2. Ahead(c)' <=> Ahead(c)
    BY DEF Ahead, Due, Start, Mine, Given, Reached, connVars
  <2> QED
    BY <2>1, <2>2 DEF HubInv, Whole
<1> QED
  BY <1>1, <1>2 DEF HubInv

LEMMA CalmInv ==
    ASSUME HubInv, Age \/ LoopStop \/ BeginClose \/ CollectSubs \/ EndClose
    PROVE  HubInv'
<1>1. Base'
  BY AgeBase, LoopStopBase, CloseBase DEF HubInv
<1>2. UNCHANGED <<tail, entries, to, connVars>>
  BY DEF Age, LoopStop, BeginClose, CollectSubs, EndClose, streamVars
<1>3. loop'.cursor = loop.cursor /\ loop'.batch = loop.batch /\ loop'.left = loop.left
  <2>1. loop' = loop \/ loop' = [loop EXCEPT !.on = FALSE]
    BY DEF Age, LoopStop, BeginClose, CollectSubs, EndClose
  <2> QED
    BY <2>1 DEF HubInv, Base, TypeOK, Loops
<1> QED
  BY <1>1, <1>2, <1>3, StillInv

LEMMA InvTypes ==
    ASSUME HubInv
    PROVE  /\ Base /\ TypeOK /\ tail \in Nat /\ entries \subseteq 1..tail /\ Reset \in 0..tail
           /\ loop \in Loops /\ loop.cursor \in 0..tail
           /\ loop.batch \subseteq (loop.cursor + 1)..tail /\ loop.left \subseteq Registered
           /\ \A c \in Conns : Whole(c) /\ since[c] \in Nat /\ from[c] \in Nat /\ last[c] \in Nat
<1>1. Base /\ TypeOK /\ Linked /\ \A c \in Conns : Whole(c)
  BY DEF HubInv, Base
<1>2. tail \in Nat /\ entries \subseteq 1..tail /\ Reset \in 0..tail
  BY <1>1 DEF TypeOK, Reset
<1>3. /\ loop \in Loops /\ loop.cursor \in 0..tail
      /\ loop.batch \subseteq (loop.cursor + 1)..tail /\ loop.left \subseteq Registered
  BY <1>1, <1>2 DEF TypeOK, Linked, Loops
<1>4. \A c \in Conns : since[c] \in Nat /\ from[c] \in Nat /\ last[c] \in Nat
  BY <1>1 DEF TypeOK
<1> QED
  BY <1>1, <1>2, <1>3, <1>4

\* Steps of one subscription: the others are left alone.
LEMMA OneInv ==
    ASSUME HubInv, Base', NEW c \in Conns, Whole(c)', UNCHANGED <<streamVars, loop>>,
           \A d \in Conns \ {c} :
               UNCHANGED <<phase[d], user[d], since[d], backlog[d], last[d], queue[d], given[d], from[d],
                           cause[d]>>
    PROVE  HubInv'
<1>1. BatchFirst'
  BY DEF HubInv, BatchFirst, streamVars
<1>2. ASSUME NEW d \in Conns \ {c} PROVE Whole(d)'
  BY UntouchedWhole DEF HubInv
<1> QED
  BY <1>1, <1>2 DEF HubInv

\* A subscription starts with nothing due that was published before.
LEMMA SubscribeInv ==
    ASSUME Library, HubInv, NEW c \in Conns, NEW u \in limits.users, NEW id \in 0..tail, Subscribe(c, u, id)
    PROVE  HubInv'
<1>1. Base' /\ TypeOK /\ tail \in Nat
  BY SubscribeBase, InvTypes
<1>2. BatchFirst'
  <2>1. CASE loop.on
    BY <2>1 DEF Subscribe, HubInv, BatchFirst, streamVars
  <2>2. CASE ~loop.on
    <3>1. loop'.batch = {}
      BY <2>2 DEF Subscribe, NoLoop
    <3> QED
      BY <3>1 DEF BatchFirst
  <2> QED
    BY <2>1, <2>2
<1>3. Whole(c)'
  <2>1. /\ phase'[c] = IF id = 0 THEN "open" ELSE "window"
        /\ since'[c] = id /\ from'[c] = tail /\ phase[c] = "new"
        /\ UNCHANGED <<tail, backlog, last, queue, given, cause>>
    BY <1>1 DEF Subscribe, TypeOK, streamVars
  <2>2. Whole(c)
    BY DEF HubInv
  <2>3. Stage(c)'
    BY <2>1, <2>2 DEF Whole, Stage
  <2>4. Sorted(c)'
    BY <2>1, <2>2 DEF Whole, Sorted
  <2>5. ASSUME Served(c)' PROVE Ahead(c)'
    <3>1. since'[c] = 0
      BY <2>1, <2>5 DEF Served
    <3>2. Start(c)' = tail /\ tail' = tail
      BY <2>1, <3>1 DEF Start
    <3>3. Due(c)' = {}
      BY <1>1, <3>2 DEF Due
    <3>4. backlog'[c] = {}
      BY <2>1, <2>2 DEF Whole, Stage
    <3> QED
      BY <3>3, <3>4 DEF Ahead
  <2> QED
    BY <2>3, <2>4, <2>5 DEF Whole
<1>4. ASSUME NEW d \in Conns \ {c} PROVE Whole(d)'
  <2>1. UNCHANGED <<phase[d], user[d], since[d], backlog[d], last[d], queue[d], given[d], from[d], cause[d]>>
    BY <1>1 DEF Subscribe, TypeOK
  <2>2. d \in Registered => loop' = loop
    BY DEF Subscribe, HubInv, Base, Counted, QuotaExact
  <2>3. Base /\ Whole(d) /\ UNCHANGED streamVars
    BY DEF HubInv, Subscribe
  <2> QED
    BY <2>1, <2>2, <2>3, UntouchedWhole
<1> QED
  BY <1>1, <1>2, <1>3, <1>4 DEF HubInv

\* A subscription that is told to reset is told nothing else, or has lost an event.
LEMMA ResetInv ==
    ASSUME HubInv, NEW c \in Conns, TooOld(c) \/ RangeFails(c)
    PROVE  HubInv'
<1>1. /\ phase[c] \in {"window", "range"} /\ Push(c, Reset) /\ Return(c)
      /\ UNCHANGED <<streamVars, hub, victims, loop, byUser, user, since, backlog, cause>>
  BY DEF TooOld, RangeFails
<1>2. Base' /\ TypeOK /\ Reset \in 0..tail /\ Whole(c)
  BY ResetBase, InvTypes
<1>3. \A d \in Conns \ {c} :
          UNCHANGED <<phase[d], user[d], since[d], backlog[d], last[d], queue[d], given[d], from[d], cause[d]>>
  <2>1. \A d \in Conns \ {c} : /\ last'[d] = last[d] /\ queue'[d] = queue[d]
                                 /\ given'[d] = given[d]
    BY <1>1, <1>2, PushTypes
  <2>2. \A d \in Conns \ {c} : phase'[d] = phase[d] /\ from'[d] = from[d]
    BY <1>1, <1>2 DEF Return, TypeOK
  <2> QED
    BY <1>1, <2>1, <2>2
<1>4. Whole(c)'
  <2>1. /\ Sorted(c)' /\ ~Stale(c, Reset)
        /\ ~Full(c) => Given(c)' = Given(c) \cup {Reset}
    <3>1. ~Stale(c, Reset) /\ Sorted(c) /\ phase[c] # "closed"
      BY <1>1, <1>2 DEF Stale, Whole
    <3> QED
      BY <1>1, <1>2, <3>1, PushGiven
  <2>2. phase'[c] = "open" /\ backlog'[c] = {} /\ cause'[c] = cause[c]
    BY <1>1, <1>2 DEF Return, TypeOK, Whole, Stage
  <2>3. Stage(c)'
    BY <2>2 DEF Stage
  <2>4. ~Served(c)'
    <3>1. CASE cause[c] = {}
      <4>1. queue[c] = <<>>
        BY <1>1, <1>2, <3>1 DEF Whole, Stage
      <4>2. ~Full(c)
        BY <4>1, SizesOK DEF Full
      <4> QED
        BY <2>1, <4>2 DEF Served
    <3>2. CASE cause[c] # {}
      BY <2>2, <3>2 DEF Served
    <3> QED
      BY <3>1, <3>2
  <2> QED
    BY <2>1, <2>3, <2>4 DEF Whole
<1> QED
  BY <1>1, <1>2, <1>3, <1>4, OneInv

LEMMA InWindowInv ==
    ASSUME HubInv, NEW c \in Conns, InWindow(c)
    PROVE  HubInv'
<1>1. Base' /\ TypeOK /\ Whole(c)
  BY InWindowBase DEF HubInv, Base
<1>2. phase[c] = "window" /\ phase'[c] = "range"
  BY <1>1 DEF InWindow, TypeOK
<1>3. Whole(c)'
  BY <1>1, <1>2 DEF InWindow, Whole, Stage, Sorted, Served
<1>4. \A d \in Conns \ {c} : phase'[d] = phase[d]
  BY <1>1 DEF InWindow, TypeOK
<1> QED
  BY <1>1, <1>3, <1>4, OneInv DEF InWindow

\* Replay starts with all that is due, or something was dropped already.
LEMMA RangeReadInv ==
    ASSUME HubInv, NEW c \in Conns, RangeRead(c)
    PROVE  HubInv'
<1> DEFINE missed == {e \in XRange(since[c]) : Mine(c, e)}
           gone   == {e \in (since[c] + 1)..tail : Mine(c, e) /\ e \notin entries}
<1>1. Base' /\ TypeOK /\ Whole(c) /\ tail \in Nat /\ entries \subseteq 1..tail /\ since[c] \in Nat
  BY RangeReadBase, InvTypes
<1>2. /\ phase[c] = "range" /\ backlog' = [backlog EXCEPT ![c] = missed]
      /\ IF missed = {} THEN Return(c) ELSE phase' = [phase EXCEPT ![c] = "replay"] /\ UNCHANGED from
      /\ cause' = IF gone # {} THEN [cause EXCEPT ![c] = @ \cup {"trimmed"}] ELSE cause
      /\ UNCHANGED <<streamVars, loop, user, since, last, queue, given>>
  BY DEF RangeRead
<1>3. missed \subseteq entries /\ \A e \in missed : e > since[c]
  BY DEF XRange, After
<1>4. ASSUME gone = {} PROVE missed = {e \in (since[c] + 1)..tail : Mine(c, e)}
  <2>1. \A e \in entries : e > since[c] => e \in (since[c] + 1)..tail
    BY <1>1
  <2>2. \A e \in (since[c] + 1)..tail : e > since[c]
    BY <1>1
  <2> QED
    BY <1>4, <2>1, <2>2 DEF XRange, After
<1>5. backlog'[c] = missed /\ \A d \in Conns \ {c} : backlog'[d] = backlog[d]
  <2> HIDE DEF missed
  <2> QED
    BY <1>1, <1>2 DEF TypeOK
<1>6. /\ phase'[c] = IF missed = {} THEN "open" ELSE "replay"
      /\ \A d \in Conns \ {c} : phase'[d] = phase[d] /\ from'[d] = from[d]
  <2> HIDE DEF missed
  <2> QED
    BY <1>1, <1>2 DEF TypeOK, Return
<1>7. /\ cause'[c] = {} => cause[c] = {} /\ gone = {}
      /\ \A d \in Conns \ {c} : cause'[d] = cause[d]
  <2> HIDE DEF gone
  <2> QED
    BY <1>1, <1>2 DEF TypeOK
<1> HIDE DEF missed, gone
<1>8. Whole(c)'
  <2>1. Sorted(c)'
    BY <1>1, <1>2 DEF Whole, Sorted
  <2>2. Stage(c)'
    BY <1>1, <1>2, <1>5, <1>6 DEF Whole, Stage
  <2>3. ASSUME Served(c)' PROVE Ahead(c)'
    <3>1. cause[c] = {} /\ gone = {}
      BY <1>7, <2>3 DEF Served
    <3>2. last'[c] = 0 /\ since'[c] # 0
      BY <1>1, <1>2, <3>1 DEF Whole, Stage
    <3>3. Due(c)' = missed
      BY <1>2, <1>4, <3>1, <3>2 DEF Due, Start, Mine, streamVars
    <3>4. \A b \in missed : b > 0
      BY <1>1, <1>3
    <3> QED
      BY <1>2, <1>3, <1>5, <3>2, <3>3, <3>4 DEF Ahead, streamVars
  <2> QED
    BY <2>1, <2>2, <2>3 DEF Whole
<1> QED
  BY <1>1, <1>2, <1>5, <1>6, <1>7, <1>8, OneInv

\* Replay pushes the oldest of the backlog, which is newer than all it pushed.
LEMMA ReplayPushInv ==
    ASSUME Library, HubInv, NEW c \in Conns, ReplayPush(c)
    PROVE  HubInv'
<1>1. Base /\ TypeOK /\ Whole(c) /\ tail \in Nat /\ last[c] \in Nat
  BY InvTypes
<1>2. phase[c] = "replay" /\ backlog[c] # {} /\ backlog[c] \in SUBSET (1..tail) /\ since[c] # 0
  BY <1>1 DEF ReplayPush, Whole, Stage, Base, Linked
<1>3. Base'
  BY <1>1, <1>2, ReplayPushBase
<1>4. PICK e \in backlog[c] : e = Min(backlog[c]) /\ \A b \in backlog[c] : e <= b
  BY <1>1, <1>2 DEF Library, Extremes
<1>5. /\ Push(c, e)
      /\ cause' = IF ~Stale(c, e) /\ Full(c) THEN [cause EXCEPT ![c] = @ \cup {"overflow"}] ELSE cause
      /\ backlog' = [backlog EXCEPT ![c] = @ \ {e}]
      /\ IF backlog[c] \ {e} = {} THEN Return(c) ELSE UNCHANGED <<phase, from>>
      /\ UNCHANGED <<streamVars, loop, user, since>>
  BY <1>4 DEF ReplayPush
<1>6. e \in 1..tail /\ e \in 0..tail /\ e # Reset
  BY <1>1, <1>2 DEF Reset
<1>7. /\ backlog'[c] = backlog[c] \ {e}
      /\ phase'[c] = IF backlog[c] \ {e} = {} THEN "open" ELSE "replay"
      /\ \A d \in Conns \ {c} : phase'[d] = phase[d] /\ from'[d] = from[d] /\ backlog'[d] = backlog[d]
  BY <1>1, <1>2, <1>5 DEF TypeOK, Return
<1>8. /\ cause'[c] = {} => cause[c] = {} /\ (Stale(c, e) \/ ~Full(c))
      /\ \A d \in Conns \ {c} : cause'[d] = cause[d]
  BY <1>1, <1>5 DEF TypeOK
<1>9. \A d \in Conns \ {c} : /\ last'[d] = last[d] /\ queue'[d] = queue[d]
                               /\ given'[d] = given[d]
  BY <1>1, <1>5, <1>6, PushTypes
<1>10. /\ Sorted(c)'
       /\ ~Stale(c, e) /\ ~Full(c) => Given(c)' = Given(c) \cup {e}
       /\ ~Stale(c, e) /\ e # Reset => last'[c] = e /\ e > last[c]
       /\ Given(c) \subseteq Given(c)'
  <2>1. Sorted(c) /\ phase[c] # "closed"
    BY <1>1, <1>2 DEF Whole
  <2> QED
    BY <1>1, <1>5, <1>6, <2>1, PushGiven
<1>11. Whole(c)'
  <2>1. Stage(c)'
    BY <1>2, <1>5, <1>7 DEF Stage
  <2>2. ASSUME Served(c)' PROVE Ahead(c)'
    <3>1. Served(c)
      BY <1>2, <1>8, <1>10, <2>2 DEF Served
    <3>2. Ahead(c)
      BY <1>1, <3>1 DEF Whole
    <3>3. ~Stale(c, e)
      BY <1>1, <1>2, <1>6, <3>2 DEF Stale, Ahead
    <3>4. Given(c)' = Given(c) \cup {e} /\ last'[c] = e
      BY <1>6, <1>8, <1>10, <2>2, <3>3 DEF Served
    <3>5. Due(c)' = Due(c) /\ Reached(c)' = Reached(c)
      BY <1>2, <1>5 DEF Due, Start, Mine, Reached, streamVars
    <3>6. \A b \in backlog'[c] : b > e
      BY <1>2, <1>4, <1>6, <1>7
    <3>7. ASSUME NEW x \in Due(c), x \notin Given(c)', x \notin backlog'[c]
          PROVE  x > Reached(c) /\ x > e /\ \A b \in backlog'[c] : b < x
      <4>1. x \notin Given(c) /\ x \notin backlog[c]
        BY <1>7, <3>4, <3>7
      <4> QED
        BY <1>4, <1>7, <3>2, <4>1 DEF Ahead
    <3> QED
      BY <1>5, <3>2, <3>4, <3>5, <3>6, <3>7 DEF Ahead, streamVars
  <2> QED
    BY <1>10, <2>1, <2>2 DEF Whole
<1> QED
  BY <1>3, <1>5, <1>7, <1>8, <1>9, <1>11, OneInv

LEMMA ReadInv ==
    ASSUME HubInv, NEW c \in Conns, Read(c)
    PROVE  HubInv'
<1>1. Base' /\ TypeOK /\ Whole(c)
  BY ReadBase, InvTypes
<1>2. Whole(c)'
  BY <1>1 DEF Read, Whole, Stage, Sorted, Served, Ahead, Due, Start, Mine, Given, Reached, streamVars
<1>3. \A d \in Conns \ {c} : queue'[d] = queue[d]
  BY <1>1 DEF Read, TypeOK
<1> QED
  BY <1>1, <1>2, <1>3, OneInv DEF Read

\* A subscription is closed: it is served no longer, the others as before.
LEMMA ClosedInv ==
    ASSUME HubInv, Base', NEW c \in Registered, CloseSub(c), Sorted(c)',
           UNCHANGED <<streamVars, user, since, backlog, from>>,
           \A d \in Conns \ {c} : UNCHANGED <<last[d], queue[d], given[d], cause[d]>>
    PROVE  HubInv'
<1>1. c \in Conns /\ TypeOK /\ Base /\ loop \in Loops /\ \A d \in Conns : Whole(d)
  BY InvTypes DEF Registered
<1>2. phase'[c] = "closed" /\ \A d \in Conns \ {c} : phase'[d] = phase[d]
  BY <1>1 DEF CloseSub, TypeOK
<1>3. Whole(c)'
  BY <1>2 DEF Whole, Stage, Served
<1>4. CASE Registered = {c}
  <2>1. loop'.batch = {}
    BY <1>4 DEF CloseSub, NoLoop
  <2>2. BatchFirst'
    BY <2>1 DEF BatchFirst
  <2>3. ASSUME NEW d \in Conns \ {c} PROVE Whole(d)'
    <3>1. d \notin Registered
      BY <1>4
    <3> QED
      BY <1>1, <1>2, <3>1, UntouchedWhole
  <2> QED
    BY <1>3, <2>2, <2>3 DEF HubInv
<1>5. CASE Registered # {c}
  <2>1. loop'.cursor = loop.cursor /\ loop'.batch = loop.batch /\ loop'.left = loop.left \ {c}
    BY <1>1, <1>5 DEF CloseSub, Loops
  <2>2. BatchFirst'
    BY <2>1 DEF HubInv, BatchFirst, streamVars
  <2>3. ASSUME NEW d \in Conns \ {c} PROVE Whole(d)'
    BY <1>1, <1>2, <2>1, UntouchedWhole
  <2> QED
    BY <1>3, <2>2, <2>3 DEF HubInv
<1> QED
  BY <1>4, <1>5

LEMMA LeaveInv ==
    ASSUME Library, HubInv, NEW c \in Conns, Leave(c)
    PROVE  HubInv'
<1>1. Base' /\ Whole(c) /\ c \in Registered
  BY LeaveBase, InvTypes DEF Leave, Registered
<1>2. Sorted(c)'
  BY <1>1 DEF Leave, Whole, Sorted
<1> QED
  BY <1>1, <1>2, ClosedInv DEF Leave

LEMMA CloseOneInv ==
    ASSUME Library, HubInv, NEW c \in Conns, CloseOne(c)
    PROVE  HubInv'
<1>1. Base' /\ Whole(c)
  BY CloseOneBase, InvTypes
<1>2. CASE c \in Registered
  <2>1. Sorted(c)'
    BY <1>1 DEF CloseOne, Whole, Sorted
  <2> QED
    BY <1>1, <1>2, <2>1, ClosedInv DEF CloseOne
<1>3. CASE c \notin Registered
  BY <1>1, <1>3, StillInv DEF CloseOne, streamVars, connVars
<1> QED
  BY <1>2, <1>3

\* The loop reads all there is.
LEMMA LoopReadInv ==
    ASSUME HubInv, LoopRead
    PROVE  HubInv'
<1>1. Base' /\ Base /\ loop \in Loops
  BY LoopReadBase, InvTypes
<1>2. /\ loop'.cursor = loop.cursor /\ loop'.left = loop.left /\ loop.batch = {}
      /\ loop'.batch = {e \in entries : e > loop.cursor}
  BY <1>1 DEF LoopRead, XRead, After, Loops
<1>3. UNCHANGED <<streamVars, connVars>>
  BY DEF LoopRead
<1>4. BatchFirst'
  BY <1>2, <1>3 DEF BatchFirst, streamVars
<1>5. ASSUME NEW c \in Conns PROVE Whole(c)'
  <2>1. Stage(c)' /\ Sorted(c)' /\ (Served(c)' <=> Served(c))
    BY <1>3 DEF HubInv, Whole, Stage, Sorted, Served, Given, connVars
  <2>2. Ahead(c) => Ahead(c)'
    BY <1>2, <1>3 DEF Ahead, Due, Start, Mine, Given, Reached, streamVars, connVars
  <2> QED
    BY <2>1, <2>2 DEF HubInv, Whole
<1> QED
  BY <1>1, <1>4, <1>5 DEF HubInv

\* The loop goes to the first event of the batch: what is due and ahead of it is
\* in the batch, or newer than the batch.
LEMMA DispatchInv ==
    ASSUME Library, HubInv, Dispatch
    PROVE  HubInv'
<1>1. /\ Base' /\ Base /\ loop \in Loops /\ tail \in Nat /\ entries \subseteq 1..tail
      /\ loop.cursor \in 0..tail /\ loop.batch \subseteq (loop.cursor + 1)..tail
  BY DispatchBase, InvTypes
<1>2. loop.batch # {} /\ loop.left = {} /\ UNCHANGED <<streamVars, connVars>>
  BY DEF Dispatch
<1>3. PICK b \in loop.batch : b = Min(loop.batch) /\ \A x \in loop.batch : b <= x
  <2>1. loop.batch \in SUBSET (1..tail)
    BY <1>1
  <2> QED
    BY <1>1, <1>2, <2>1 DEF Library, Extremes
<1>4. b \in Nat /\ b > loop.cursor /\ loop.batch \subseteq Nat /\ entries \subseteq Nat
  <2>1. entries \subseteq Nat
    BY <1>1
  <2>2. loop.batch \subseteq Nat
    BY <1>1
  <2> QED
    BY <1>1, <2>1, <2>2
<1>5. loop'.cursor = b /\ loop'.batch = loop.batch \ {b} /\ loop'.left = Receivers(b)
  BY <1>1, <1>3 DEF Dispatch, Loops
<1>6. BatchFirst'
  <2>1. ASSUME NEW x \in entries, x > b, x \notin loop'.batch PROVE \A y \in loop'.batch : y < x
    <3>1. x > loop.cursor /\ x \notin loop.batch
      BY <1>1, <1>4, <1>5, <2>1
    <3> QED
      BY <1>5, <3>1 DEF HubInv, BatchFirst
  <2> QED
    BY <1>2, <1>5, <2>1 DEF BatchFirst, streamVars
<1>7. ASSUME NEW c \in Conns PROVE Whole(c)'
  <2>1. Stage(c)' /\ Sorted(c)' /\ (Served(c)' <=> Served(c))
    BY <1>2 DEF HubInv, Whole, Stage, Sorted, Served, Given, connVars
  <2>2. ASSUME Served(c) PROVE Ahead(c)'
    <3>1. Ahead(c) /\ c \in Registered
      BY <2>2 DEF HubInv, Whole, Served, Registered
    <3>2. Due(c)' = Due(c) /\ Given(c)' = Given(c)
      BY <1>2 DEF Due, Start, Mine, Given, streamVars, connVars
    <3>3. Reached(c) = loop.cursor
      BY <1>2 DEF Reached
    <3>4. Reached(c)' = IF Mine(c, b) THEN b - 1 ELSE b
      BY <1>5, <3>1 DEF Reached, Receivers
    <3>5. ASSUME NEW x \in Due(c), x > loop.cursor
          PROVE  /\ x \in entries \cup loop.batch /\ x >= b /\ x \in Nat
                 /\ x > Reached(c)'
      <4>1. x \in entries \cup loop.batch /\ Mine(c, x)
        BY <3>1, <3>5 DEF Ahead, Due
      <4>2. x \in loop.batch \/ b < x
        BY <3>5, <4>1 DEF HubInv, BatchFirst
      <4>3. x \in Nat
        BY <1>4, <4>1
      <4>4. x >= b
        BY <1>3, <1>4, <4>2, <4>3
      <4>5. ~Mine(c, b) => x # b
        BY <4>1
      <4> QED
        BY <1>4, <3>4, <4>1, <4>3, <4>4, <4>5
    <3>6. ASSUME NEW x \in Due(c), x > b PROVE x \in entries \cup loop'.batch
      <4>1. x > loop.cursor
        <5>1. x \in Int
          BY DEF Due
        <5> QED
          BY <1>1, <1>4, <3>6, <5>1
      <4>2. x # b
        BY <1>4, <3>6
      <4> QED
        BY <1>5, <3>5, <4>1, <4>2
    <3>7. ASSUME NEW x \in Due(c) \ Given(c), x \notin backlog[c]
          PROVE  x > Reached(c)' /\ x > last[c] /\ \A y \in backlog[c] : y < x
      BY <3>1, <3>3, <3>5, <3>7 DEF Ahead
    <3>8. UNCHANGED <<entries, backlog, last>> /\ \A y \in backlog[c] : y > last[c]
      BY <1>2, <3>1 DEF Ahead, streamVars, connVars
    <3> QED
      BY <1>5, <3>2, <3>6, <3>7, <3>8 DEF Ahead
  <2> QED
    BY <2>1, <2>2 DEF HubInv, Whole
<1> QED
  BY <1>1, <1>6, <1>7 DEF HubInv

\* dispatch, one receiver: it has been given the event, or had it already, or is
\* closed.
LEMMA DispatchPushInv ==
    ASSUME Library, HubInv, NEW c \in Conns, DispatchPush(c)
    PROVE  HubInv'
<1>1. /\ Base' /\ Base /\ TypeOK /\ loop \in Loops /\ tail \in Nat /\ loop.cursor \in 0..tail
      /\ loop.left \subseteq Registered /\ Whole(c) /\ last[c] \in Nat
  BY DispatchPushBase, InvTypes
<1>2. PICK e \in 1..tail : e = loop.cursor
  <2>1. loop.left # {}
    BY DEF DispatchPush
  <2> QED
    BY <1>1, <2>1 DEF Base, Linked
<1>3. /\ c \in Registered /\ c \in loop.left /\ Push(c, e)
      /\ cause' = IF phase[c] = "open" THEN cause ELSE [cause EXCEPT ![c] = @ \cup {"overtaken"}]
      /\ UNCHANGED <<streamVars, hub, victims, user, since, backlog, from>>
  BY <1>1, <1>2 DEF DispatchPush
<1>4. e \in 0..tail /\ e # Reset /\ phase[c] # "closed"
  BY <1>1, <1>3 DEF Reset, Registered
<1>5. /\ Sorted(c)'
      /\ Stale(c, e) => last'[c] = last[c] /\ Given(c)' = Given(c)
      /\ ~Stale(c, e) /\ ~Full(c) => Given(c)' = Given(c) \cup {e}
      /\ ~Stale(c, e) => last'[c] = e /\ e > last[c]
      /\ Given(c) \subseteq Given(c)'
  BY <1>1, <1>3, <1>4, PushGiven DEF Whole
<1>6. \A d \in Conns \ {c} : UNCHANGED <<last[d], queue[d], given[d], cause[d]>>
  <2>1. \A d \in Conns \ {c} : /\ last'[d] = last[d] /\ queue'[d] = queue[d]
                                 /\ given'[d] = given[d]
    BY <1>1, <1>3, <1>4, PushTypes
  <2>2. \A d \in Conns \ {c} : cause'[d] = cause[d]
    BY <1>1, <1>3 DEF TypeOK
  <2> QED
    BY <2>1, <2>2
<1>7. CASE ~Stale(c, e) /\ Full(c)
  <2>1. CloseSub(c)
    BY <1>2, <1>7 DEF DispatchPush
  <2> QED
    BY <1>1, <1>3, <1>5, <1>6, <2>1, ClosedInv
<1>8. CASE Stale(c, e) \/ ~Full(c)
  <2>1. loop' = [loop EXCEPT !.left = @ \ {c}] /\ UNCHANGED phase
    BY <1>2, <1>8 DEF DispatchPush
  <2>2. loop'.cursor = loop.cursor /\ loop'.batch = loop.batch /\ loop'.left = loop.left \ {c}
    BY <1>1, <2>1 DEF Loops
  <2>3. BatchFirst'
    BY <1>3, <2>2 DEF HubInv, BatchFirst, streamVars
  <2>4. ASSUME NEW d \in Conns \ {c} PROVE Whole(d)'
    <3>1. Whole(d)
      BY DEF HubInv
    <3> QED
      BY <1>1, <1>3, <1>6, <2>1, <2>2, <3>1, UntouchedWhole
  <2>5. Stage(c)'
    <3>1. phase[c] # "open" => cause'[c] # {}
      BY <1>1, <1>3 DEF TypeOK
    <3>2. phase[c] # "new"
      BY <1>3 DEF Registered
    <3> QED
      BY <1>1, <1>3, <2>1, <3>1, <3>2 DEF Whole, Stage
  <2>6. ASSUME Served(c)' PROVE Ahead(c)'
    <3>1. phase[c] = "open" /\ cause[c] = {}
      BY <1>1, <1>3, <2>1, <2>6 DEF Served, TypeOK
    <3>2. Served(c) /\ Ahead(c) /\ backlog[c] = {} /\ backlog'[c] = {}
      BY <1>1, <1>3, <1>5, <2>6, <3>1 DEF Served, Whole, Stage
    <3>3. Reached(c) = e - 1 /\ Reached(c)' = e
      BY <1>2, <1>3, <2>2 DEF Reached
    <3>4. Due(c)' = Due(c)
      BY <1>3 DEF Due, Start, Mine, streamVars
    <3>5. ASSUME NEW x \in Due(c), x \notin Given(c)' PROVE x > e /\ x > last'[c]
      <4>1. x > e - 1 /\ x > last[c] /\ x \in Int
        BY <1>5, <3>2, <3>3, <3>5 DEF Ahead, Due
      <4>2. CASE Stale(c, e)
        <5>1. e <= last[c] /\ last'[c] = last[c]
          BY <1>4, <1>5, <4>2 DEF Stale
        <5> QED
          BY <1>1, <4>1, <5>1
      <4>3. CASE ~Stale(c, e)
        <5>1. last'[c] = e /\ x # e
          BY <1>5, <1>8, <3>5, <4>3
        <5> QED
          BY <4>1, <5>1
      <4> QED
        BY <4>2, <4>3
    <3> QED
      BY <1>3, <2>2, <3>2, <3>3, <3>4, <3>5 DEF Ahead, streamVars
  <2> QED
    BY <1>1, <1>5, <2>3, <2>4, <2>5, <2>6 DEF HubInv, Whole
<1> QED
  BY <1>7, <1>8

LEMMA NextInv ==
    ASSUME Library, HubInv, [Next]_vars
    PROVE  HubInv'
<1>1. ASSUME NEW us \in SUBSET limits.users, Publish(us) PROVE HubInv'
  BY <1>1, PublishInv
<1>2. CASE Age \/ LoopStop \/ BeginClose \/ CollectSubs \/ EndClose
  BY <1>2, CalmInv
<1>3. CASE Trim
  BY <1>3, TrimInv
<1>4. ASSUME NEW c \in Conns, NEW u \in limits.users, NEW id \in 0..tail, Subscribe(c, u, id)
      PROVE  HubInv'
  BY <1>4, SubscribeInv
<1>5. ASSUME NEW c \in Conns, ReplayStep(c) PROVE HubInv'
  BY <1>5, ResetInv, InWindowInv, RangeReadInv, ReplayPushInv DEF ReplayStep
<1>6. ASSUME NEW c \in Conns, Read(c) \/ Leave(c) \/ DispatchPush(c) \/ CloseOne(c) PROVE HubInv'
  BY <1>6, ReadInv, LeaveInv, DispatchPushInv, CloseOneInv
<1>7. CASE LoopRead
  BY <1>7, LoopReadInv
<1>8. CASE Dispatch
  BY <1>8, DispatchInv
<1>9. CASE UNCHANGED vars
  <2>1. UNCHANGED <<streamVars, hub, victims, loop, byUser, connVars>>
    BY <1>9 DEF vars
  <2>2. Registered' = Registered /\ TypeOK'
    BY <2>1, InvTypes DEF Registered, TypeOK, streamVars, connVars
  <2>3. Base'
    BY <2>1, <2>2, InvTypes, StepBase DEF connVars, Base, Linked
  <2> QED
    BY <2>1, <2>3, StillInv DEF streamVars
<1> QED
  BY <1>1, <1>2, <1>3, <1>4, <1>5, <1>6, <1>7, <1>8, <1>9 DEF Next, LoopStep, CloseStep

-----------------------------------------------------------------------------
(* The library.                                                            *)

LOCAL INSTANCE WellFoundedInduction
FST == INSTANCE FiniteSetTheorems

\* A set of numbers has a smallest one.
LEMMA Smallest ==
    ASSUME NEW S \in SUBSET Nat, S # {}
    PROVE  \E m \in S : \A k \in S : m <= k
<1>1. PICK R : R = OpToRel(<, Nat)
  OBVIOUS
<1>2. IsWellFoundedOn(R, Nat)
  BY <1>1, NatLessThanWellFounded
<1>3. PICK m \in S : \A k \in S : ~(<<k, m>> \in R)
  BY <1>2, WFMin
<1>4. ASSUME NEW k \in S PROVE m <= k
  <2>1. <<k, m>> \in Nat \X Nat /\ <<k, m>> \notin R
    BY <1>3
  <2>2. ~(k < m)
    BY <1>1, <2>1 DEF OpToRel
  <2> QED
    BY <1>3, <2>2
<1> QED
  BY <1>4

LEMMA Largest ==
    ASSUME NEW n \in Nat, NEW S \in SUBSET (0..n), S # {}
    PROVE  \E m \in S : \A k \in S : k <= m
<1>0. \A k \in S : n - k \in Nat
  OBVIOUS
<1>1. PICK T : T = {n - k : k \in S}
  OBVIOUS
<1>2. T \in SUBSET Nat /\ T # {}
  BY <1>0, <1>1
<1>3. PICK t \in T : \A u \in T : t <= u
  BY <1>2, Smallest
<1>4. PICK m \in S : t = n - m
  BY <1>1
<1>5. ASSUME NEW k \in S PROVE k <= m
  <2>1. t <= n - k /\ k \in Nat /\ m \in Nat
    BY <1>1, <1>3
  <2> QED
    BY <1>4, <2>1
<1> QED
  BY <1>5

\* The theorems speak of the operators of FiniteSets.
LEMMA SameFinite == ASSUME NEW S PROVE IsFiniteSet(S) <=> FST!IsFiniteSet(S)
BY DEF IsFiniteSet, FST!IsFiniteSet

LEMMA SameCardinality == ASSUME NEW S PROVE Cardinality(S) = FST!Cardinality(S)
BY DEF Cardinality, FST!Cardinality

LEMMA LibraryHolds == Library
<1>1. SubsetsCounted
  BY SameFinite, SameCardinality, FST!FS_Subset, FST!FS_CardinalityType DEF SubsetsCounted
<1>2. OneMore
  BY SameFinite, SameCardinality, FST!FS_AddElement DEF OneMore
<1>3. OneLess
  BY SameFinite, SameCardinality, FST!FS_RemoveElement DEF OneLess
<1>4. EmptyCounted
  BY SameFinite, SameCardinality, FST!FS_EmptySet DEF EmptyCounted
<1>5. ASSUME NEW n \in Nat, NEW S \in SUBSET (1..n), S # {}
      PROVE  /\ Max(S) \in S /\ \A e \in S : e <= Max(S)
             /\ Min(S) \in S /\ \A e \in S : Min(S) <= e
  <2>1. S \in SUBSET (0..n) /\ S \in SUBSET Nat
    OBVIOUS
  <2>2. \E m \in S : \A k \in S : k <= m
    BY <1>5, <2>1, Largest
  <2>3. \E m \in S : \A k \in S : m <= k
    BY <1>5, <2>1, Smallest
  <2>4. Max(S) \in S /\ \A e \in S : e <= Max(S)
    BY <2>2 DEF Max
  <2>5. Min(S) \in S /\ \A e \in S : Min(S) <= e
    BY <2>3 DEF Min
  <2> QED
    BY <2>4, <2>5
<1> QED
  BY <1>1, <1>2, <1>3, <1>4, <1>5 DEF Library, Extremes

-----------------------------------------------------------------------------
(* The results.                                                            *)

\* The inductive invariant of the hub holds in every reachable state: the types,
\* the counts of Subscribe and Close, and for every subscription where it is, what
\* it was given and what it is still to get.
THEOREM Invariance == Spec => []HubInv
<1>1. Init => HubInv
  BY WholeInit, LibraryHolds
<1>2. HubInv /\ [Next]_vars => HubInv'
  BY NextInv, LibraryHolds
<1> QED
  BY <1>1, <1>2, PTL DEF Spec

\* byUser counts exactly the registered subscriptions of each user, neither limit
\* is exceeded, and the tenant's loop runs exactly while somebody is registered,
\* however Subscribe, dispatch's closing of stalled readers, ServeSSE's and
\* Hub.Close's interleave.
THEOREM Quotas == Spec => []QuotaExact
<1>1. HubInv => QuotaExact
  BY DEF HubInv, Base, Counted
<1> QED
  BY <1>1, Invariance, PTL

\* No subscription is given an event twice or out of order by replay and the loop
\* pushing to it at the same time.
THEOREM Order == Spec => []Ascending
<1>1. HubInv => Ascending
  BY DEF HubInv, Whole, Sorted, Ascending
<1> QED
  BY <1>1, Invariance, PTL

\* A subscription misses an event it is owed only after a reset, an overflow in
\* replay, the loop overtaking replay, or the stream dropping what was unread.
THEOREM Completeness == Spec => []NothingElseMissed
<1>1. ASSUME HubInv PROVE NothingElseMissed
  <2>1. SUFFICES ASSUME NEW c \in Conns, phase[c] = "open", Reset \notin Given(c), cause[c] = {},
                        NEW e \in Owed(c), e \notin Given(c)
                 PROVE  FALSE
    BY DEF NothingElseMissed
  <2>2. Whole(c) /\ loop.cursor \in Nat /\ last[c] \in Nat
    BY <1>1, InvTypes
  <2>3. Ahead(c) /\ backlog[c] = {}
    BY <2>1, <2>2 DEF Whole, Served, Stage
  <2>4. e \in Due(c) /\ (e <= Reached(c) \/ e <= last[c]) /\ e \in Int
    BY <2>1 DEF Owed, Due, Start
  <2>5. e > Reached(c) /\ e > last[c]
    BY <2>1, <2>3, <2>4 DEF Ahead
  <2>6. Reached(c) \in Int
    BY <2>2 DEF Reached
  <2> QED
    BY <2>2, <2>4, <2>5, <2>6
<1> QED
  BY <1>1, Invariance, PTL
=============================================================================
