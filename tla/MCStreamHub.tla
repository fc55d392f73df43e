---------------------------- MODULE MCStreamHub ----------------------------
(***************************************************************************)
(* Instances of StreamHub.  Subscriptions are interchangeable.             *)
(***************************************************************************)
EXTENDS StreamHub, TLC

\* Two users; one user with two subscriptions at a time and events that grow too
\* old; one with more events.  The counterexamples need the last with room for
\* both subscriptions.
Instance(users, streams, events, age) ==
    [users |-> users, streams |-> streams, events |-> events, age |-> age]
OneUser == {CHOOSE u \in Users : TRUE}
MCInstances == {Instance(Users, 1, 2, 0), Instance(OneUser, 2, 2, 1),
                Instance(OneUser, 1, 3, 0)}
MCLong == {Instance(OneUser, 2, 3, 0)}

MCSymmetry == Permutations(Conns) \cup Permutations(Users)
=============================================================================
