------------------------------- MODULE MCAcme -------------------------------
(***************************************************************************)
(* Instances of AcmeChallenge: the challenge name of lab.example.com, with *)
(* example.com. and lab.example.com. as possible zones.                    *)
(***************************************************************************)
EXTENDS AcmeChallenge

MCZones == {<<"com", "example">>, <<"com", "example", "lab">>}
MCOneZone == {<<"com", "example">>}
MCFqdn  == <<"com", "example", "lab", "_acme-challenge">>

\* Zones come and go while people edit; one caller meets the limit on values;
\* two callers share the record set.
Setting(callers, values, zones, n) ==
    [callers |-> callers, values |-> values, zones |-> zones, edits |-> n]
First(S) == {CHOOSE x \in S : TRUE}
MCChurn  == {Setting(First(Callers), Values, 2, 0)}
MCEdited == {Setting(First(Callers), Values, 1, 1)}
MCShared == {Setting(Callers, Values, 1, 0)}
MCStarved == {Setting(First(Callers), Values, 2, 1)}
MCSettings == {Setting(First(Callers), First(Values), 2, 1)} \cup MCEdited \cup MCShared
=============================================================================
