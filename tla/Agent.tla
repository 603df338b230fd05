------------------------------- MODULE Agent -------------------------------
(***************************************************************************)
(* The intelligence agent: the scheduler that inserts articles and the runs   *)
(* of the analysis pipeline, which share the collection raw_intel and nothing  *)
(* else.                                                                   *)
(***************************************************************************)
EXTENDS NewsIngestion, AnalysisPipeline

vars == <<now, rawVars, left, newsVars, pipeVars>>

\* mongo_setup has made the indexes; a scenario says what is stored.
Init ==
    /\ now = 0
    /\ born = [a \in Articles |-> 0]
    /\ \E s \in Scenarios :
          /\ slot = s.slots /\ records = s.records /\ left = s.left
          /\ raw = [a \in Articles |-> IF slot[a] > 0 THEN "escalated" ELSE "absent"]
          /\ NewsInit(s.due)
    /\ PipeInit

Expire(a) == ExpireOne(a) /\ UNCHANGED <<now, left, newsVars, pipeVars>>

Next ==
    \/ NewsNext /\ UNCHANGED pipeVars
    \/ PipeNext /\ UNCHANGED newsVars
    \/ \E a \in Articles : Expire(a)

\* A run works off its cursor, whatever the language model answers.  Nothing is
\* assumed of the clock, or that anybody starts a run.
Fairness == \A r \in Runs : WF_vars(RunStep(r) /\ UNCHANGED newsVars)

Spec == Init /\ [][Next]_vars /\ Fairness
-----------------------------------------------------------------------------
(* Properties *)

\* Type correctness; the collection is what its scan finds, and only answers
\* that were given are stored.
AgentTypeOK ==
    /\ now \in 0..Horizon /\ left \in [Budgets -> Nat]
    /\ raw \in [Articles -> States]
    /\ records \in Nat /\ slot \in [Articles -> 0..records]
    /\ \A a \in Articles : slot[a] > 0 <=> Present(a)
    /\ \A a, b \in Articles : slot[a] = slot[b] /\ slot[a] > 0 => a = b
    /\ published \in [Articles -> (0..Horizon) \cup {Never}]
    /\ job.at \in {"idle", "inserting"} /\ page \subseteq Articles
    /\ requests \subseteq 0..now
    /\ \A r \in Runs : run[r].at \in Points /\ run[r].batch \subseteq Nat \X Articles
    /\ \A a \in Articles : recorded[a].version <= version /\ Range(chroma[a]) \subseteq 0..version

\* A document that is processed stays so until it expires, although the news
\* list it again and a failed run is repeated; and unless two runs overlap it is
\* not even analysed again (news_fetcher.py:91-104, mongo_service.py:26-29).
ProcessedIsFinal ==
    [][\A a \in Articles : raw[a] = "processed" =>
         /\ raw'[a] \in {"processed", "expired"}
         /\ ~overlapped => recorded'[a] = recorded[a]]_vars

\* The chunks that a processed document records are in ChromaDB, all from that
\* answer, whatever crashed before: unless two runs overlapped, or ChromaDB
\* failed, which the pipeline does not tell (pipeline_runner.py:48-55).
StoresAgree ==
    \A a \in Articles :
        raw[a] = "processed" /\ ~overlapped /\ a \notin unsaved =>
            \A i \in 1..recorded[a].length : chroma[a][i] = recorded[a].version

\* A run that came to its end has been through every document that was escalated
\* when it started: what is still escalated, stage 1 failed for.  Documents leave
\* the result and enter the collection while the cursor is open
\* (mongo_service.py:26-46, pipeline_runner.py:33-56).
RunMissesNothing ==
    \A r \in Runs : run[r].at = "done" =>
        \A a \in Articles :
            slot[a] \in run[r].due => raw[a] # "escalated" \/ a \in run[r].failed

\* What was published between two requests that were answered and worked off is
\* stored, if they are no further apart than the window and the page held all of
\* it (news_fetcher.py:29-40, job.py:38-45).
NothingMissed ==
    \A g, h \in requests :
        /\ g < h /\ h - g <= Window
        /\ Cardinality(From(h)) <= PageSize
        => \A a \in Risky : published[a] \in g..(h - 1) => raw[a] # "absent"

\* A run ends, however often the language model fails, whatever another run does
\* and whatever is inserted behind its cursor (pipeline_runner.py:33-56).
RunsEnd == \A r \in Runs : Active(r) ~> ~Active(r)
=============================================================================
