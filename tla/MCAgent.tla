------------------------------ MODULE MCAgent ------------------------------
(***************************************************************************)
(* Scenarios for Agent: the news alone, the runs alone, and both.           *)
(***************************************************************************)
EXTENDS Agent, Sequences

CONSTANTS a1, a2, n1, r1, r2

AllArticles == {a1, a2, n1}
OneNoise == {n1}
TwoRuns == {r1, r2}

\* Documents stored in an order.
SlotsOf(stored) ==
    [a \in AllArticles |-> IF \E i \in DOMAIN stored : stored[i] = a
                          THEN CHOOSE i \in DOMAIN stored : stored[i] = a ELSE 0]

\* The scheduler has just been started, or has a period to wait.
Having(stored, due, ticks, publish, runs, faults, signals) ==
    [slots |-> SlotsOf(stored), records |-> Len(stored), due |-> due,
     left |-> [tick |-> ticks, publish |-> publish, run |-> runs, fault |-> faults, signal |-> signals]]

AllScenarios == {
    \* jobs in time, late, failing and restarted
    Having(<<>>, 0, 6, 2, 0, 1, 0),
    \* a page that overflows
    Having(<<a1, a2>>, 0, 4, 1, 0, 0, 0),
    \* two runs, after one another or overlapping, with a fault or a signal
    Having(<<a1, a2>>, Period, 0, 0, 2, 1, 0),
    Having(<<a1, a2>>, Period, 0, 0, 2, 0, 1),
    \* a run while articles arrive and expire
    Having(<<a1>>, 0, 6, 1, 1, 0, 0)
}
=============================================================================
