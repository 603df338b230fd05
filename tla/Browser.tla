------------------------------ MODULE Browser ------------------------------
(***************************************************************************)
(* What the pages of the front end share: one browser tab with a mounted    *)
(* page, the REST calls it has made (frontend/src/lib/api.ts), the link of  *)
(* the WebSocket client (Channel) and, at its far end, the backend's        *)
(* endpoint (backend/gateway/api/ws/ws_router.py).                         *)
(*                                                                         *)
(* Of the database the pages see two things, a summary and a list of recent *)
(* risks.  Both are named by the number of risks stored when they were      *)
(* read, so an older answer is a smaller number.                           *)
(*                                                                         *)
(* React runs an effect's body when a page mounts and its cleanup when the  *)
(* page leaves, and hands the answers of a page that is gone to nobody.     *)
(***************************************************************************)
EXTENDS Channel, Integers, Sequences, FiniteSets, SequencesExt

CONSTANTS
    Scenarios,     \* bounds: a first page and how often things happen
    WireCap,       \* bound: messages of the backend in flight
    AgentScore,    \* the risk score the console sends, in hundredths: 50 or 75
    MinScore       \* the least one /agents/trigger accepts: 5000

VARIABLES
    page,          \* the mounted page
    trail,         \* pages that Back returns to
    hidden,        \* the tab is in the background
    ui,            \* the state of the mounted page's component
    held,          \* timers, listeners and observers, with the page they are of
    calls,         \* REST calls of the mounted page that it has not used yet
    db,            \* risks stored
    endpoint,      \* where ws_endpoint is, and the summary it has read
    wire,          \* messages sent to this tab and not yet heard
    left           \* bound: how often each kind of event may still happen

netVars == <<db, endpoint, wire>>
tabVars == <<page, trail, hidden, held>>

NoSummary == -1
Kinds == {"visit", "risk", "result", "alert", "link", "tick", "click", "hide"}

\* An event of a kind that the scenario bounds.
Spend(k) ==
    /\ left[k] > 0
    /\ left' = [left EXCEPT ![k] = @ - 1]

-----------------------------------------------------------------------------
(* Mutated definitions: plausible bugs, each of which breaks one property of *)
(* App (PROJECT.json says which).  No specification uses them.               *)

\* The length is compared before the item is added.
MutPrepended(x, list, cap) ==
    IF Len(list) > cap THEN <<x>> \o Front(list) ELSE <<x>> \o list

\* The polling loop ends after its first message.
MutPollsOnce ==
    /\ endpoint.at = "live" /\ Len(wire) < WireCap
    /\ wire' = Append(wire, [type |-> "summary_update", summary |-> db])
    /\ endpoint' = [endpoint EXCEPT !.at = "silent"]
    /\ UNCHANGED <<tabVars, ui, calls, db, left, channelVars>>

-----------------------------------------------------------------------------
(* REST: get() and post() throw on a network error and on any status but     *)
(* success, and otherwise return the body.                                   *)

Call(i, w) == [id |-> i, what |-> w, got |-> "none", at |-> 0]
Failed(c) == c.got \in {"refused", "lost"}

\* What the backend may answer to a call: a supplier may be unknown, and the
\* validation of an agent run rejects a score below its minimum.
AnswersTo(w) ==
    CASE w = "supplier" -> {"ok", "refused"}
      [] w = "trigger" -> IF AgentScore < MinScore THEN {"refused"} ELSE {"ok"}
      [] OTHER -> {"ok"}

Answer(c, g) ==
    /\ c.got = "none"
    /\ calls' = (calls \ {c}) \cup {[c EXCEPT !.got = g, !.at = db]}
    /\ UNCHANGED <<tabVars, ui, netVars, left, channelVars>>

\* The backend, the proxy or the network fails instead.
CallAnswered(c) == \E g \in AnswersTo(c.what) \cup {"lost"} : Answer(c, g)

-----------------------------------------------------------------------------
(* The backend's endpoint *)

NoEndpoint == [at |-> "none", summary |-> NoSummary]

NewRisk ==
    /\ Spend("risk")
    /\ db' = db + 1
    /\ UNCHANGED <<tabVars, ui, calls, endpoint, wire, channelVars>>

Send(m) ==
    /\ Len(wire) < WireCap
    /\ wire' = Append(wire, m)

\* The client's handshake reaches ws_endpoint.
LinkComes ==
    /\ Comes
    /\ Spend("link")
    /\ endpoint' = [NoEndpoint EXCEPT !.at = "accepted"]
    /\ UNCHANGED <<tabVars, ui, calls, db, wire>>

\* The network fails, or an exception ends ws_endpoint; what was in flight is
\* lost, and the client closes its socket.
LinkGoes ==
    /\ Goes
    /\ endpoint' = NoEndpoint
    /\ wire' = <<>>
    /\ UNCHANGED <<tabVars, ui, calls, db, left>>

EndpointReads ==
    /\ endpoint.at = "accepted"
    /\ endpoint' = [at |-> "summarised", summary |-> db]
    /\ UNCHANGED <<tabVars, ui, calls, db, wire, left, channelVars>>

\* The recent risks are read after the summary, and may be newer.
EndpointInit ==
    /\ endpoint.at = "summarised"
    /\ Send([type |-> "init", summary |-> endpoint.summary, recent |-> db])
    /\ endpoint' = [NoEndpoint EXCEPT !.at = "live"]
    /\ UNCHANGED <<tabVars, ui, calls, db, left, channelVars>>

\* Every eight seconds; a failing read only skips one.
EndpointPolls ==
    /\ endpoint.at = "live"
    /\ Send([type |-> "summary_update", summary |-> db])
    /\ UNCHANGED <<tabVars, ui, calls, db, endpoint, left, channelVars>>

\* An agent run that somebody triggered ends.
EndpointPublishes ==
    /\ endpoint.at = "live"
    /\ Spend("result")
    /\ Send([type |-> "agent_result", id |-> left["result"]])
    /\ UNCHANGED <<tabVars, ui, calls, db, endpoint, channelVars>>

\* The pages are ready for this message; no code of the backend sends it yet.
EndpointAlerts ==
    /\ endpoint.at = "live"
    /\ Spend("alert")
    /\ Send([type |-> "risk_alert", risk |-> db])
    /\ UNCHANGED <<tabVars, ui, calls, db, endpoint, channelVars>>

EndpointStep ==
    EndpointReads \/ EndpointInit \/ EndpointPolls \/ EndpointPublishes \/ EndpointAlerts

\* A newer summary replaces an older one and the other way round; "back" counts
\* the latter.
Summarised(u, s) ==
    [u EXCEPT !.summary = s, !.back = IF s < u.summary THEN @ + 1 ELSE @]

\* [item, ...prev], and pop() when that is longer than the cap.
Prepended(x, list, cap) ==
    IF Len(list) + 1 > cap THEN <<x>> \o Front(list) ELSE <<x>> \o list
=============================================================================
