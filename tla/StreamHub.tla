----------------------------- MODULE StreamHub -----------------------------
(***************************************************************************)
(* The live event hub (internal/stream): events of a tenant are appended   *)
(* to a Valkey stream; on every instance one loop per tenant reads the     *)
(* stream and pushes each event to the subscriptions of the users it is    *)
(* addressed to; a client that comes back names the last event it saw and  *)
(* is replayed what it missed.                                             *)
(*                                                                         *)
(* The model is one tenant on one instance.  An event is its stream id, a  *)
(* natural number (Less orders ids).  The server lists entries in the      *)
(* order of their ids: a reply is the set of its ids, handled from the     *)
(* least.                                                                  *)
(*                                                                         *)
(* Hub.mu makes Subscribe's registration, dispatch's choice of receivers   *)
(* and Close atomic; Subscription.mu makes each push atomic.  Between them *)
(* replay, the loop, the readers and publishers of any instance            *)
(* interleave.                                                             *)
(***************************************************************************)
EXTENDS Naturals, Sequences, FiniteSetsExt

CONSTANTS
    Users,
    NoUser,             \* the user of a subscription not yet opened
    Conns,              \* subscriptions, each used once
    Buffer,             \* connBuffer: events queued per subscription
    StreamsPerTenant,
    MaxLen,             \* entries XADD keeps
    MaxEvents,          \* bound: events published
    Instances           \* instances looked at: their users, StreamsPerUser,
                        \* and bounds on the events published and the events
                        \* that grow older than the window

ASSUME SizesOK ==
    /\ NoUser \notin Users
    /\ Buffer \in Nat \ {0}
    /\ StreamsPerTenant \in Nat \ {0}
    /\ MaxLen \in Nat \ {0} /\ MaxEvents \in Nat \ {0}
    /\ Instances \subseteq [users : SUBSET Users, streams : Nat \ {0},
                      events : 1..MaxEvents, age : Nat]

Reset  == 0             \* the reset event carries no id

VARIABLES
    limits,     \* the instance
    tail,       \* id of the newest entry ever added
    entries,    \* ids still in the stream
    to,         \* users each event is addressed to
    floor,      \* ids below it are older than the replay window
    hub,        \* "up", then Close: "cancelled", "closing", "closed"
    victims,    \* subscriptions Close has still to close
    loop,       \* reader loop: running, cursor, batch read, receivers left
    byUser,     \* open subscriptions counted per user
    phase,      \* of each subscription
    user,       \* its user
    since,      \* the Last-Event-ID it came with (0: none)
    backlog,    \* what replay has still to push
    last,       \* highest id pushed (0: none)
    queue,      \* its channel
    given,      \* history: everything that entered the channel
    from,       \* history: the tail when Subscribe returned
    cause       \* history: what may have cost it an event

streamVars == <<limits, tail, entries, to, floor>>
connVars   == <<phase, user, since, backlog, last, queue, given, from, cause>>
vars == <<streamVars, hub, victims, loop, byUser, connVars>>

Ids    == 1..MaxEvents
Loops  == [on : BOOLEAN, cursor : 0..MaxEvents, batch : SUBSET Ids, left : SUBSET Conns]
Phases == {"new", "window", "range", "replay", "open", "closed"}
Causes == {"overflow", "overtaken", "trimmed"}

Registered == {c \in Conns : phase[c] \in {"window", "range", "replay", "open"}}

TypeOK ==
    /\ limits \in Instances
    /\ tail \in 0..MaxEvents
    /\ entries \subseteq 1..tail
    /\ to \in [Ids -> SUBSET Users]
    /\ floor \in 0..(limits.age + 1)
    /\ hub \in {"up", "cancelled", "closing", "closed"}
    /\ victims \subseteq Conns
    /\ loop \in Loops
    /\ byUser \in [Users -> 0..limits.streams]
    /\ phase \in [Conns -> Phases]
    /\ user \in [Conns -> Users \cup {NoUser}]
    /\ since \in [Conns -> 0..MaxEvents]
    /\ backlog \in [Conns -> SUBSET Ids]
    /\ last \in [Conns -> 0..MaxEvents]
    /\ queue \in [Conns -> Seq(Ids \cup {Reset})]
    /\ given \in [Conns -> Seq(Ids \cup {Reset})]
    /\ from \in [Conns -> 0..MaxEvents]
    /\ cause \in [Conns -> SUBSET Causes]

NoLoop == [on |-> FALSE, cursor |-> 0, batch |-> {}, left |-> {}]

\* The stream outlives the instance: it holds an event already, which time
\* and trimming may remove before anyone subscribes.
Init ==
    /\ limits \in Instances
    /\ tail = 1
    /\ entries = {1}
    /\ to = [e \in Ids |-> IF e = 1 THEN limits.users ELSE {}]
    /\ floor = 1
    /\ hub = "up"
    /\ victims = {}
    /\ loop = NoLoop
    /\ byUser = [u \in Users |-> 0]
    /\ phase = [c \in Conns |-> "new"]
    /\ user = [c \in Conns |-> NoUser]
    /\ since = [c \in Conns |-> 0]
    /\ backlog = [c \in Conns |-> {}]
    /\ last = [c \in Conns |-> 0]
    /\ queue = [c \in Conns |-> <<>>]
    /\ given = [c \in Conns |-> <<>>]
    /\ from = [c \in Conns |-> 0]
    /\ cause = [c \in Conns |-> {}]

-----------------------------------------------------------------------------
(* The stream: XADD with MAXLEN, XTRIM MINID, XRANGE and XREAD.            *)

Newest(n, S) == {e \in S : Cardinality({d \in S : d > e}) < n}
After(id) == {e \in entries : e > id}
XRange(id) == After(id)

\* Entries that leave the stream before the loop has read them are lost to
\* every subscription there is.
Unread == {e \in entries : e > loop.cursor /\ e \notin loop.batch}
Discard(kept) ==
    /\ entries' = kept
    /\ cause' = [c \in Conns |->
                    IF c \in Registered /\ Unread \ kept # {}
                    THEN cause[c] \cup {"trimmed"} ELSE cause[c]]

Publish(us) ==
    /\ tail < limits.events
    /\ us # {}
    /\ tail' = tail + 1
    /\ to' = [to EXCEPT ![tail + 1] = us]
    /\ Discard(Newest(MaxLen, entries \cup {tail + 1}))
    /\ UNCHANGED <<limits, floor, hub, victims, loop, byUser, phase, user, since, backlog, last,
                   queue, given, from>>

\* Time passes: the oldest event that is still inside the window leaves it.
Age ==
    /\ floor <= tail /\ floor <= limits.age
    /\ floor' = floor + 1
    /\ UNCHANGED <<limits, tail, entries, to, hub, victims, loop, byUser, connVars>>

\* The loop of this or another instance trims what left the window.
Trim ==
    /\ \E e \in entries : e < floor
    /\ Discard({e \in entries : e >= floor})
    /\ UNCHANGED <<limits, tail, to, floor, hub, victims, loop, byUser, phase, user, since,
                   backlog, last, queue, given, from>>

-----------------------------------------------------------------------------
(* Subscription: push, Close and the reader's end of the channel.          *)

\* Mutant of Stale: nothing is recognised as already delivered.
NeverStale(c, e) == phase[c] = "closed"

\* push ignores what was delivered before (ids only grow).
Stale(c, e) == phase[c] = "closed" \/ (e # Reset /\ e <= last[c])
Full(c) == Len(queue[c]) >= Buffer

\* The highest id is noted before the channel is tried.
Push(c, e) ==
    /\ last' = IF Stale(c, e) \/ e = Reset THEN last ELSE [last EXCEPT ![c] = e]
    /\ IF Stale(c, e) \/ Full(c)
       THEN UNCHANGED <<queue, given>>
       ELSE /\ queue' = [queue EXCEPT ![c] = Append(@, e)]
            /\ given' = [given EXCEPT ![c] = Append(@, e)]

\* Mutant of Released: the user's count is not given back.
NotReleased(c) == byUser

Released(c) == [byUser EXCEPT ![user[c]] = @ - 1]

\* The last subscription of the tenant takes the loop with it.
CloseSub(c) ==
    /\ phase' = [phase EXCEPT ![c] = "closed"]
    /\ byUser' = Released(c)
    /\ loop' = IF Registered = {c} THEN NoLoop
               ELSE [loop EXCEPT !.left = @ \ {c}]

\* ServeSSE drains the channel, a closed one too, until the client goes or the
\* connection is too old; then it closes the subscription.
Read(c) ==
    /\ phase[c] \in {"open", "closed"}
    /\ queue[c] # <<>>
    /\ queue' = [queue EXCEPT ![c] = Tail(@)]
    /\ UNCHANGED <<streamVars, hub, victims, loop, byUser, phase, user, since, backlog,
                   last, given, from, cause>>

Leave(c) ==
    /\ phase[c] = "open"
    /\ CloseSub(c)
    /\ UNCHANGED <<streamVars, hub, victims, user, since, backlog, last, queue, given,
                   from, cause>>

-----------------------------------------------------------------------------
(* Subscribe and replay.                                                   *)

OpenOf(u) == {c \in Registered : user[c] = u}

\* XLast: where a new loop starts.
XLast == IF entries = {} THEN 0 ELSE Max(entries)

Subscribe(c, u, id) ==
    /\ hub = "up"
    /\ phase[c] = "new"
    /\ byUser[u] < limits.streams
    /\ Cardinality(Registered) < StreamsPerTenant
    /\ loop' = IF loop.on THEN loop
               ELSE [NoLoop EXCEPT !.on = TRUE, !.cursor = XLast]
    /\ byUser' = [byUser EXCEPT ![u] = @ + 1]
    /\ user' = [user EXCEPT ![c] = u]
    /\ since' = [since EXCEPT ![c] = id]
    /\ phase' = [phase EXCEPT ![c] = IF id = 0 THEN "open" ELSE "window"]
    /\ from' = [from EXCEPT ![c] = tail]
    /\ UNCHANGED <<streamVars, hub, victims, backlog, last, queue, given, cause>>

Return(c) ==
    /\ phase' = [phase EXCEPT ![c] = "open"]
    /\ from' = [from EXCEPT ![c] = tail]

\* An id older than the window: a reset is all the client gets.
TooOld(c) ==
    /\ phase[c] = "window"
    /\ since[c] < floor
    /\ Push(c, Reset)
    /\ Return(c)
    /\ UNCHANGED <<streamVars, hub, victims, loop, byUser, user, since, backlog, cause>>

InWindow(c) ==
    /\ phase[c] = "window"
    /\ since[c] >= floor
    /\ phase' = [phase EXCEPT ![c] = "range"]
    /\ UNCHANGED <<streamVars, hub, victims, loop, byUser, user, since, backlog, last,
                   queue, given, from, cause>>

Mine(c, e) == user[c] \in to[e]

RangeRead(c) ==
    LET missed == {e \in XRange(since[c]) : Mine(c, e)}
        gone   == {e \in (since[c] + 1)..tail : Mine(c, e) /\ e \notin entries}
    IN  /\ phase[c] = "range"
        /\ backlog' = [backlog EXCEPT ![c] = missed]
        /\ IF missed = {} THEN Return(c)
           ELSE phase' = [phase EXCEPT ![c] = "replay"] /\ UNCHANGED from
        /\ cause' = IF gone # {} THEN [cause EXCEPT ![c] = @ \cup {"trimmed"}]
                    ELSE cause
        /\ UNCHANGED <<streamVars, hub, victims, loop, byUser, user, since, last, queue,
                       given>>

RangeFails(c) ==
    /\ phase[c] = "range"
    /\ Push(c, Reset)
    /\ Return(c)
    /\ UNCHANGED <<streamVars, hub, victims, loop, byUser, user, since, backlog, cause>>

\* replay does not look at what push returns.
ReplayPush(c) ==
    /\ phase[c] = "replay"
    /\ LET e    == Min(backlog[c])
           rest == backlog[c] \ {e}
       IN  /\ Push(c, e)
           /\ cause' = IF ~Stale(c, e) /\ Full(c)
                       THEN [cause EXCEPT ![c] = @ \cup {"overflow"}] ELSE cause
           /\ backlog' = [backlog EXCEPT ![c] = rest]
           /\ IF rest = {} THEN Return(c) ELSE UNCHANGED <<phase, from>>
    /\ UNCHANGED <<streamVars, hub, victims, loop, byUser, user, since>>

-----------------------------------------------------------------------------
(* The reader loop.                                                        *)

\* XREAD blocks until there is something to return.
XRead(id) ==
    /\ After(id) # {}
    /\ loop' = [loop EXCEPT !.batch = After(id)]

\* Mutant of LoopRead: the loop waits for slow readers.
LoopReadPatient ==
    /\ loop.on /\ hub = "up"
    /\ loop.batch = {} /\ loop.left = {}
    /\ \A c \in Registered : ~Full(c)
    /\ XRead(loop.cursor)
    /\ UNCHANGED <<streamVars, hub, victims, byUser, connVars>>

LoopRead ==
    /\ loop.on /\ hub = "up"
    /\ loop.batch = {} /\ loop.left = {}
    /\ XRead(loop.cursor)
    /\ UNCHANGED <<streamVars, hub, victims, byUser, connVars>>

\* Mutant of Receivers: a subscription counts once Subscribe has returned.
ReceiversReturned(e) == {c \in Registered : Mine(c, e) /\ phase[c] = "open"}

Receivers(e) == {c \in Registered : Mine(c, e)}

\* dispatch, the part under Hub.mu: the receivers are chosen.
Dispatch ==
    /\ loop.batch # {} /\ loop.left = {}
    /\ LET e == Min(loop.batch)
       IN  loop' = [loop EXCEPT !.cursor = e, !.batch = @ \ {e},
                                !.left = Receivers(e)]
    /\ UNCHANGED <<streamVars, hub, victims, byUser, connVars>>

\* dispatch, one receiver: a stalled one is closed (nobody else pushes to an
\* open subscription in between, so push and Close are one step).
DispatchPush(c) ==
    /\ c \in loop.left
    /\ Push(c, loop.cursor)
    /\ IF ~Stale(c, loop.cursor) /\ Full(c)
       THEN CloseSub(c)
       ELSE loop' = [loop EXCEPT !.left = @ \ {c}] /\ UNCHANGED <<phase, byUser>>
    /\ cause' = IF phase[c] = "open" THEN cause
                ELSE [cause EXCEPT ![c] = @ \cup {"overtaken"}]
    /\ UNCHANGED <<streamVars, hub, victims, user, since, backlog, from>>

-----------------------------------------------------------------------------
(* Hub.Close: the context is cancelled, which refuses every later          *)
(* Subscribe and ends the loops; the subscriptions there are get closed;   *)
(* then it waits for the loop.                                             *)

BeginClose ==
    /\ hub = "up"
    /\ hub' = "cancelled"
    /\ UNCHANGED <<streamVars, victims, loop, byUser, connVars>>

\* Mutant of CollectSubs: subscriptions still in replay are passed over.
CollectReturned ==
    /\ hub = "cancelled"
    /\ hub' = "closing"
    /\ victims' = {c \in Conns : phase[c] = "open"}
    /\ UNCHANGED <<streamVars, loop, byUser, connVars>>

CollectSubs ==
    /\ hub = "cancelled"
    /\ hub' = "closing"
    /\ victims' = Registered
    /\ UNCHANGED <<streamVars, loop, byUser, connVars>>

\* Closing a subscription twice does nothing the second time.
CloseOne(c) ==
    /\ c \in victims
    /\ victims' = victims \ {c}
    /\ IF c \in Registered THEN CloseSub(c) ELSE UNCHANGED <<phase, byUser, loop>>
    /\ UNCHANGED <<streamVars, hub, user, since, backlog, last, queue, given,
                   from, cause>>

LoopStop ==
    /\ hub # "up"
    /\ loop.on /\ loop.batch = {} /\ loop.left = {}
    /\ loop' = [loop EXCEPT !.on = FALSE]
    /\ UNCHANGED <<streamVars, hub, victims, byUser, connVars>>

EndClose ==
    /\ hub = "closing"
    /\ victims = {}
    /\ ~loop.on
    /\ hub' = "closed"
    /\ UNCHANGED <<streamVars, victims, loop, byUser, connVars>>

-----------------------------------------------------------------------------
ReplayStep(c) == \/ TooOld(c) \/ InWindow(c) \/ RangeRead(c) \/ RangeFails(c)
                 \/ ReplayPush(c)
LoopStep == LoopRead \/ Dispatch \/ LoopStop \/ \E c \in Conns : DispatchPush(c)
CloseStep == CollectSubs \/ EndClose \/ \E c \in Conns : CloseOne(c)

Next ==
    \/ \E us \in SUBSET limits.users : Publish(us)
    \/ Age \/ Trim
    \/ \E c \in Conns : \/ \E u \in limits.users, id \in 0..tail : Subscribe(c, u, id)
                        \/ ReplayStep(c) \/ Read(c) \/ Leave(c)
    \/ LoopStep \/ BeginClose \/ CloseStep

\* Goroutines that can run do run; no call of the hub waits for a reader.
Fairness == /\ WF_vars(LoopStep)
            /\ WF_vars(CloseStep)
            /\ \A c \in Conns : WF_vars(ReplayStep(c))

Spec == Init /\ [][Next]_vars /\ Fairness

-----------------------------------------------------------------------------
(* Properties.                                                             *)

Given(c) == Range(given[c])

\* A client sees each event once and in stream order, however replay and the
\* loop overlap.
Ascending ==
    \A c \in Conns :
        \A i, j \in DOMAIN given[c] :
            i < j /\ Reset \notin {given[c][i], given[c][j]} => given[c][i] < given[c][j]

\* Up to here the loop has served the subscription.
Reached(c) == IF c \in loop.left THEN loop.cursor - 1 ELSE loop.cursor

\* The events owed to an open subscription: those after the id it came with,
\* or published after Subscribe returned, that the loop or replay went past.
Owed(c) ==
    LET start == IF since[c] = 0 THEN from[c] ELSE since[c]
    IN  {e \in (start + 1)..tail : Mine(c, e) /\ (e <= Reached(c) \/ e <= last[c])}

\* An open subscription that was not told to reset has been given all it is
\* owed, unless replay overflowed the channel, was overtaken by the loop, or
\* the stream had dropped the event: in particular "nothing published once
\* this call returns can be missed".
NothingElseMissed ==
    \A c \in Conns :
        phase[c] = "open" /\ Reset \notin Given(c) /\ cause[c] = {}
            => Owed(c) \subseteq Given(c)

\* The limits hold and are given back exactly: a user's count is the number
\* of registered subscriptions, and a loop runs as long as there is one.
QuotaExact ==
    /\ \A u \in Users : /\ byUser[u] = Cardinality(OpenOf(u))
                        /\ byUser[u] <= limits.streams
    /\ Cardinality(Registered) <= StreamsPerTenant
    /\ hub = "up" => (loop.on <=> Registered # {})

\* Hub.Close ends, with every subscription closed.
CloseEnds == hub = "cancelled" ~> (hub = "closed" /\ Registered = {})

\* What was published to an open subscription and is not in its channel, though
\* the stream did not drop it.
Undelivered(c) ==
    {e \in (from[c] + 1)..tail : /\ phase[c] = "open" /\ Mine(c, e)
                                /\ "trimmed" \notin cause[c] /\ e \notin Given(c)}

\* Once publishing pauses (the number of events is bounded), every event
\* addressed to an open subscription has reached its channel, unless the
\* subscription or the hub is closed or the stream dropped the event.
Delivered == []<>(hub # "up" \/ \A c \in Conns : Undelivered(c) = {})

\* What the documentation promises a returning client: inside the window
\* everything it missed, beyond it a reset.
ReplayComplete ==
    \A c \in Conns :
        phase[c] = "open" /\ since[c] > 0 /\ Reset \notin Given(c)
            => Owed(c) \subseteq Given(c)
=============================================================================
