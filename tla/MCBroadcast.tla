---------------------------- MODULE MCBroadcast ----------------------------
(* Model values for Broadcast: one run among a client that is served and one  *)
(* that comes; two runs, however they end, that publish to one client whose    *)
(* queue is full; and two failures published at once to two clients, the       *)
(* queue of one full and that of the other empty.                           *)
EXTENDS Broadcast

CONSTANTS c1, c2, r1, r2

TwoConns == {c1, c2}
TwoRuns == {r1, r2}

FullAtFirst == [c \in TwoConns |-> IF c = c1 THEN 1 ELSE 0]
Scenario(served, coming, working, reporting) ==
    [served |-> served, backlog |-> FullAtFirst, coming |-> coming,
     working |-> working, reporting |-> reporting]

ThreeScenarios == {
    Scenario(<<c1>>, {c2}, {r1}, {}),
    Scenario(<<c1>>, {}, TwoRuns, {}),
    Scenario(<<c1, c2>>, {}, {}, TwoRuns)
}
=============================================================================
