------------------------------ MODULE DevDocs ------------------------------
(***************************************************************************)
(* The developer documentation, frontend/src/app/devdocs/page.tsx: a log    *)
(* that an interval feeds from a fixed list of texts, and an output window  *)
(* whose lines come from clicks and from the answers to the calls they make.*)
(***************************************************************************)
EXTENDS Browser

CONSTANTS
    LogTexts,      \* 10, the length of the list of texts
    LogCap         \* 50, the number of log lines kept

DevDocsAcquires == {"ingestion"}
DevDocsReleases == {"ingestion"}

DevDocsLinks == {"intelligence", "ecosystem", "architecture", "devdocs", "console"}

\* logIndex and logId are the two refs; a log line keeps what both were.
DevDocsInit ==
    [kind |-> "devdocs", logs |-> <<>>, logIndex |-> 0, logId |-> 0,
     outputs |-> <<[kind |-> "system", id |-> 0]>>]

\* The cards of the playground, by what a click passes to simulateAPI.
PlaygroundCards == {"/risk/analyze", "/memory/query"}

OnDevDocs == ui.kind = "devdocs"

-----------------------------------------------------------------------------
(* Mutated definitions: plausible bugs, each of which breaks one property of *)
(* App (PROJECT.json says which).  No specification uses them.               *)

\* An error is shown and thrown on, and the caller shows it again.
MutOutputShown(c) ==
    /\ OnDevDocs /\ c.got # "none"
    /\ calls' = calls \ {c}
    /\ ui' = [ui EXCEPT !.outputs = @ \o
                 IF Failed(c)
                 THEN <<[kind |-> "error", id |-> c.id], [kind |-> "error", id |-> c.id]>>
                 ELSE <<[kind |-> "server", id |-> c.id]>>]
    /\ UNCHANGED <<tabVars, netVars, left, channelVars>>

-----------------------------------------------------------------------------
(* Actions *)

\* slice(length - cap) of a list that is longer than the cap.
LastOf(list, cap) ==
    IF Len(list) > cap THEN SubSeq(list, Len(list) - cap + 1, Len(list)) ELSE list

\* addLog
LogTick ==
    /\ OnDevDocs /\ <<page, "ingestion">> \in held
    /\ Spend("tick")
    /\ ui' = [ui EXCEPT
                 !.logs = LastOf(Append(@, [text |-> ui.logIndex, id |-> ui.logId]), LogCap),
                 !.logId = @ + 1,
                 !.logIndex = (@ + 1) % LogTexts]
    /\ UNCHANGED <<tabVars, calls, netVars, channelVars>>

\* simulateAPI up to its await: /risk/analyze posts a risk, the other card
\* asks for the health whatever it is labelled.
SimulateAPI(card) ==
    /\ OnDevDocs /\ Spend("click")
    /\ ui' = [ui EXCEPT !.outputs = Append(@, [kind |-> "client", id |-> left["click"]])]
    /\ calls' = calls \cup
          {Call(left["click"], IF card = "/risk/analyze" THEN "analyze" ELSE "health")}
    /\ UNCHANGED <<tabVars, netVars, channelVars>>

\* And the rest of it.
OutputShown(c) ==
    /\ OnDevDocs /\ c.got # "none"
    /\ calls' = calls \ {c}
    /\ ui' = [ui EXCEPT !.outputs =
                 Append(@, [kind |-> IF Failed(c) THEN "error" ELSE "server", id |-> c.id])]
    /\ UNCHANGED <<tabVars, netVars, left, channelVars>>

DevDocsNext ==
    \/ LogTick
    \/ \E card \in PlaygroundCards : SimulateAPI(card)
    \/ \E c \in calls : OutputShown(c)
=============================================================================
