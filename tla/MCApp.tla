------------------------------- MODULE MCApp -------------------------------
(***************************************************************************)
(* Scenarios for App: each starts at one page and bounds how often things   *)
(* happen, so that one run covers the pages one by one and the ways between *)
(* them.  The lists are cut to short lengths; both sides of each bound are  *)
(* reached.                                                                *)
(***************************************************************************)
EXTENDS App

Nothing == [k \in Kinds |-> 0]
From(p, n, bounds) == [page |-> p, stored |-> n, left |-> bounds]

AllHandlers == Pages \X (LandingEvents \cup ConsoleEvents)
TwoNodes == {"node-1", "node-2"}

AllScenarios == {
    \* REST answers against the WebSocket and its reconnects, from an empty database
    From("landing", 0, [Nothing EXCEPT !["risk"] = 2, !["link"] = 2, !["alert"] = 1]),
    \* intervals, and a tab in the background
    From("landing", 1, [Nothing EXCEPT !["tick"] = 2, !["hide"] = 1]),
    \* the boot screen against messages
    From("console", 0, [Nothing EXCEPT !["risk"] = 1, !["alert"] = 2, !["link"] = 1]),
    \* the terminal, alone and against messages
    From("intelligence", 1, [Nothing EXCEPT !["click"] = 2]),
    From("intelligence", 1, [Nothing EXCEPT !["click"] = 1, !["result"] = 1, !["link"] = 1]),
    From("devdocs", 1, [Nothing EXCEPT !["click"] = 2, !["tick"] = 4]),
    From("architecture", 1, [Nothing EXCEPT !["click"] = 3]),
    \* the ways between the pages
    From("landing", 1, [Nothing EXCEPT !["visit"] = 2, !["risk"] = 1, !["link"] = 1]),
    From("architecture", 1, [Nothing EXCEPT !["visit"] = 2, !["click"] = 1]),
    From("ecosystem", 1, [Nothing EXCEPT !["visit"] = 1, !["link"] = 1])
}
=============================================================================
