-------------------------- MODULE AnalysisPipeline --------------------------
(***************************************************************************)
(* The analysis pipeline of the intelligence agent, pipeline_runner.py with   *)
(* db/mongo_service.py, db/chroma_client.py and intelligence_logic/           *)
(* llm_analyzer.py: a run reads the escalated documents, lets a language      *)
(* model analyse each and cut the analysis into chunks, writes the chunks to   *)
(* ChromaDB under the document's identifier and an index, and marks the        *)
(* document processed.  A run is a process somebody starts; nothing keeps      *)
(* two from running at once.                                               *)
(*                                                                         *)
(* The language model is external: what stage 2 answers is named by a number   *)
(* that no other answer has, and a length.                                   *)
(***************************************************************************)
EXTENDS RawIntel

CONSTANTS
    NoDoc,         \* no document
    Runs,          \* processes that run the pipeline
    BatchSize,     \* documents in the first answer of a cursor: 101
    MaxChunks      \* bound: chunks of an answer

ASSUME PipelineAssumption ==
    /\ NoDoc \notin Articles
    /\ BatchSize \in Nat \ {0} /\ MaxChunks \in Nat

VARIABLES
    run,           \* each process
    chroma,        \* the version of each article's chunk 1, 2, ...; 0 for none
    recorded,      \* rag_chunks of a processed document: version and length
    version,       \* the number of the last answer of stage 2
    unsaved,       \* history: articles whose last upsert failed
    overlapped     \* history: two runs were under way at once

historyVars == <<unsaved, overlapped>>
pipeVars == <<run, chroma, recorded, version, historyVars>>

\* "done" is a process that came to the end of its cursor.
Points == {"idle", "reading", "analysing", "upserting", "marking", "done"}
NoChunks == [version |-> 0, length |-> 0]

Active(r) == run[r].at \notin {"idle", "done"}

\* A cursor has come to the slot pos; batch are the documents of its last answer
\* that are still to be analysed, and doc is the one in hand.  History: the slots
\* of what was due at the start, and what stage 1 failed for.
NoRun == [at |-> "idle", pos |-> 0, batch |-> {}, more |-> FALSE, doc |-> NoDoc,
          signalled |-> FALSE, chunks |-> NoChunks, due |-> {}, failed |-> {}]

PipeInit ==
    /\ run = [r \in Runs |-> NoRun]
    /\ chroma = [a \in Articles |-> [i \in 1..MaxChunks |-> 0]]
    /\ recorded = [a \in Articles |-> NoChunks]
    /\ version = 0
    /\ unsaved = {}
    /\ overlapped = FALSE

Doc(r) == run[r].doc
Goes(r, u) == run' = [run EXCEPT ![r] = u]

\* The escalated documents, where a scan meets them.
Escalated == {<<slot[a], a>> : a \in {b \in Articles : raw[b] = "escalated"}}

-----------------------------------------------------------------------------
(* Mutated definitions: plausible bugs, each of which breaks one property of *)
(* Agent (PROJECT.json says which).  No specification uses them.             *)

\* Pages by offset: as many matches are skipped as were read, of what matches now.
MutAhead(r) ==
    {e \in Escalated : Cardinality({f \in Escalated : f[1] < e[1]}) >= run[r].pos}

\* A document that stage 1 failed for is tried again.
MutSkip(r) == [run[r] EXCEPT !.at = "reading", !.batch = @ \cup {<<slot[Doc(r)], Doc(r)>>}]

\* A single chunk is taken for no list.
MutAfterStage2(n) == IF n > 1 THEN "upserting" ELSE "marking"

-----------------------------------------------------------------------------
(* The cursor *)

\* What the rest of the scan will find.
Ahead(r) == {e \in Escalated : e[1] > run[r].pos}

\* The first BatchSize of these, or all.
FirstOf(S) ==
    {T \in SUBSET S :
        /\ Cardinality(T) = IF Cardinality(S) < BatchSize THEN Cardinality(S) ELSE BatchSize
        /\ \A e \in T, f \in S \ T : e[1] < f[1]}

\* The scan stops at the document that fills the answer T, or at the end.
StopsAt(T) ==
    IF Cardinality(T) < BatchSize THEN {records}
    ELSE {e[1] : e \in {f \in T : \A g \in T : g[1] <= f[1]}}

\* find() sends nothing yet.
Start(r) ==
    /\ ~Active(r) /\ Spend("run")
    /\ Goes(r, [NoRun EXCEPT !.at = "reading", !.more = TRUE,
                             !.due = {e[1] : e \in Escalated}])
    /\ overlapped' = (overlapped \/ \E q \in Runs \ {r} : Active(q))
    /\ UNCHANGED <<chroma, recorded, version, unsaved, now, rawVars>>

\* The first answer, or getMore().
Read(r) ==
    /\ run[r].at = "reading" /\ run[r].batch = {} /\ run[r].more
    /\ \E T \in FirstOf(Ahead(r)) : \E p \in StopsAt(T) :
          Goes(r, [run[r] EXCEPT !.batch = T, !.pos = p, !.more = Cardinality(T) = BatchSize])
    /\ UNCHANGED <<chroma, recorded, version, historyVars, now, rawVars, left>>

\* The loop has a document; a signal ends it here and nowhere else.
Take(r) ==
    /\ run[r].at = "reading"
    /\ \E e \in run[r].batch :
          /\ \A f \in run[r].batch : e[1] <= f[1]
          /\ Goes(r, IF run[r].signalled THEN NoRun
                     ELSE [run[r] EXCEPT !.at = "analysing", !.doc = e[2], !.batch = @ \ {e}])
    /\ UNCHANGED <<chroma, recorded, version, historyVars, now, rawVars, left>>

Complete(r) ==
    /\ run[r].at = "reading" /\ run[r].batch = {} /\ ~run[r].more
    /\ Goes(r, [NoRun EXCEPT !.at = "done", !.due = run[r].due, !.failed = run[r].failed])
    /\ UNCHANGED <<chroma, recorded, version, historyVars, now, rawVars, left>>

-----------------------------------------------------------------------------
(* One document *)

\* Both stages of the language model.  Between them the run neither reads nor
\* writes anything others see, so they are one step.
Skip(r) ==
    [run[r] EXCEPT !.at = "reading", !.doc = NoDoc, !.failed = @ \cup {Doc(r)}]

\* Stage 1 answers None, after its three attempts.
Stage1Fails(r) ==
    /\ run[r].at = "analysing"
    /\ Goes(r, Skip(r))
    /\ UNCHANGED <<chroma, recorded, version, historyVars, now, rawVars, left>>

\* An answer that is JSON and no object has no get(): stage 2 raises outside its
\* try, and the run ends.
Stage1Poisons(r) ==
    /\ run[r].at = "analysing" /\ Spend("fault")
    /\ Goes(r, NoRun)
    /\ UNCHANGED <<chroma, recorded, version, historyVars, now, rawVars>>

\* None and an empty list are the same; both skip the upsert.
AfterStage2(n) == IF n > 0 THEN "upserting" ELSE "marking"

Stage2(r) ==
    /\ run[r].at = "analysing"
    /\ version' = version + 1
    /\ \E n \in 0..MaxChunks :
          Goes(r, [run[r] EXCEPT !.at = AfterStage2(n),
                                 !.chunks = [version |-> version', length |-> n]])
    /\ UNCHANGED <<chroma, recorded, historyVars, now, rawVars, left>>

Written(r) ==
    [chroma EXCEPT ![Doc(r)] = [i \in 1..MaxChunks |->
        IF i <= run[r].chunks.length THEN run[r].chunks.version ELSE @[i]]]

Upsert(r) ==
    /\ run[r].at = "upserting"
    /\ chroma' = Written(r)
    /\ unsaved' = unsaved \ {Doc(r)}
    /\ Goes(r, [run[r] EXCEPT !.at = "marking"])
    /\ UNCHANGED <<recorded, version, overlapped, now, rawVars, left>>

Recorded(r) ==
    IF Present(Doc(r)) THEN [recorded EXCEPT ![Doc(r)] = run[r].chunks] ELSE recorded

Mark(r) ==
    /\ run[r].at = "marking"
    /\ MarkOne(Doc(r))
    /\ recorded' = Recorded(r)
    /\ Goes(r, [run[r] EXCEPT !.at = "reading", !.doc = NoDoc, !.chunks = NoChunks])
    /\ UNCHANGED <<chroma, version, historyVars, now, left>>

-----------------------------------------------------------------------------
(* Faults *)

\* A failure of ChromaDB, before or after it wrote, is logged and forgotten.
UpsertFails(r) ==
    /\ run[r].at = "upserting" /\ Spend("fault")
    /\ chroma' \in {chroma, Written(r)}
    /\ unsaved' = unsaved \cup {Doc(r)}
    /\ Goes(r, [run[r] EXCEPT !.at = "marking"])
    /\ UNCHANGED <<recorded, version, overlapped, now, rawVars>>

\* A failure of MongoDB raises, before or after it wrote.
MarkFails(r) ==
    /\ run[r].at = "marking" /\ Spend("fault")
    /\ \/ MarkOne(Doc(r)) /\ recorded' = Recorded(r)
       \/ UNCHANGED <<rawVars, recorded>>
    /\ Goes(r, NoRun)
    /\ UNCHANGED <<chroma, version, historyVars, now>>

\* MongoDB fails at a read, or the process is killed anywhere.
Dies(r) ==
    /\ Active(r) /\ Spend("fault")
    /\ Goes(r, NoRun)
    /\ UNCHANGED <<chroma, recorded, version, historyVars, now, rawVars>>

Signal(r) ==
    /\ Active(r) /\ ~run[r].signalled /\ Spend("signal")
    /\ Goes(r, [run[r] EXCEPT !.signalled = TRUE])
    /\ UNCHANGED <<chroma, recorded, version, historyVars, now, rawVars>>

RunStep(r) ==
    \/ Read(r) \/ Take(r) \/ Complete(r)
    \/ Stage1Fails(r) \/ Stage2(r) \/ Upsert(r) \/ Mark(r)

PipeNext ==
    \E r \in Runs :
        \/ Start(r) \/ RunStep(r) \/ Signal(r)
        \/ Stage1Poisons(r) \/ UpsertFails(r) \/ MarkFails(r) \/ Dies(r)
=============================================================================
