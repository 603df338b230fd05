---------------------------- MODULE Architecture ----------------------------
(***************************************************************************)
(* The two pages that show the system: /architecture, with the health of    *)
(* the backend and a failover animation, and /ecosystem, with a supplier    *)
(* (frontend/src/app/architecture/page.tsx, ecosystem/page.tsx).           *)
(*                                                                         *)
(* The animation's button sees the state of the last rendering; the timer   *)
(* that ends the failover sets a state that is rendered later.             *)
(***************************************************************************)
EXTENDS Browser

FailoverStates == {"nominal", "failing", "recovered"}

\* shown is what is on the screen, state what React holds.
ArchitectureInit ==
    [kind |-> "architecture", shown |-> "nominal", state |-> "nominal", health |-> "none"]
ArchitectureCalls == {Call(0, "health")}

EcosystemInit == [kind |-> "ecosystem", supplier |-> "none"]
EcosystemCalls == {Call(0, "supplier")}

\* The cleanup clears the recovery timer, if one is pending.
ArchitectureReleases == {"recovery"}

ArchitectureLinks == {"intelligence", "ecosystem", "architecture", "devdocs", "console"}
EcosystemLinks == {"intelligence", "ecosystem", "architecture", "devdocs", "console"}

OnArchitecture == ui.kind = "architecture"
OnEcosystem == ui.kind = "ecosystem"

\* The button is disabled while the failure is shown.
ButtonEnabled(u) == u.shown # "failing"

-----------------------------------------------------------------------------
(* Mutated definitions: plausible bugs, each of which breaks one property of *)
(* App (PROJECT.json says which).  No specification uses them.               *)

\* The button resets whatever is shown, the running failover included.
MutFailoverResets ==
    /\ OnArchitecture /\ Spend("click")
    /\ IF ui.shown # "nominal"
       THEN /\ ui' = [ui EXCEPT !.shown = "nominal", !.state = "nominal"]
            /\ UNCHANGED held
       ELSE /\ ui' = [ui EXCEPT !.shown = "failing", !.state = "failing"]
            /\ held' = held \cup {<<page, "recovery">>}
    /\ UNCHANGED <<page, trail, hidden, calls, netVars, channelVars>>

-----------------------------------------------------------------------------
(* Actions *)

\* runFailoverSimulation
FailoverClicked ==
    /\ OnArchitecture /\ Spend("click")
    /\ ButtonEnabled(ui)
    /\ IF ui.shown = "recovered"
       THEN /\ ui' = [ui EXCEPT !.shown = "nominal", !.state = "nominal"]
            /\ UNCHANGED held
       ELSE /\ ui' = [ui EXCEPT !.shown = "failing", !.state = "failing"]
            /\ held' = held \cup {<<page, "recovery">>}
    /\ UNCHANGED <<page, trail, hidden, calls, netVars, channelVars>>

\* The timeout of runFailoverSimulation.
RecoveryFires ==
    /\ OnArchitecture /\ <<page, "recovery">> \in held
    /\ ui' = [ui EXCEPT !.state = "recovered"]
    /\ held' = held \ {<<page, "recovery">>}
    /\ UNCHANGED <<page, trail, hidden, calls, netVars, left, channelVars>>

ArchitectureRenders ==
    /\ OnArchitecture /\ ui.shown # ui.state
    /\ ui' = [ui EXCEPT !.shown = ui.state]
    /\ UNCHANGED <<tabVars, calls, netVars, left, channelVars>>

\* An answer is shown; a failure leaves the page as it is.
HealthArrives ==
    /\ OnArchitecture
    /\ \E c \in calls :
          /\ c.got # "none"
          /\ calls' = calls \ {c}
          /\ ui' = IF Failed(c) THEN ui ELSE [ui EXCEPT !.health = "ok"]
    /\ UNCHANGED <<tabVars, netVars, left, channelVars>>

SupplierArrives ==
    /\ OnEcosystem
    /\ \E c \in calls :
          /\ c.got # "none"
          /\ calls' = calls \ {c}
          /\ ui' = IF Failed(c) THEN ui ELSE [ui EXCEPT !.supplier = "known"]
    /\ UNCHANGED <<tabVars, netVars, left, channelVars>>

ArchitectureNext ==
    \/ FailoverClicked \/ RecoveryFires \/ ArchitectureRenders
    \/ HealthArrives \/ SupplierArrives
=============================================================================
