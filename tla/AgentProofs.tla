---------------------------- MODULE AgentProofs ----------------------------
(***************************************************************************)
(* Proofs about the intelligence agent, for any number of articles and of     *)
(* pipeline runs, and whatever scheduler, pipeline, expiry, faults and        *)
(* restarts do in between.                                                 *)
(*                                                                         *)
(* The scheduler, of any period, window and page (NewsInv): between two        *)
(* requests that are no further apart than the window, nothing risky is       *)
(* missed.  The pipeline, of any size of a cursor's answer (PipeInv): a run     *)
(* passes over no document that was due to it, what is processed stays so,     *)
(* and its chunks are in ChromaDB.                                          *)
(***************************************************************************)
EXTENDS Agent, FiniteSetTheorems, TLAPS

-----------------------------------------------------------------------------
(* The scheduler *)

\* From(t), of the instants p at which articles were published.
Listed(p, t) == {a \in Articles : p[a] <= t /\ p[a] + Window >= t}

\* Unless the page overflowed, the risky articles that a request made at t had
\* listed before are in the collection r, or among the rest that is to be inserted.
Stored(p, r, t, rest) ==
    Cardinality(Listed(p, t)) <= PageSize =>
        \A a \in Listed(p, t) \cap Risky :
            p[a] < t => a \in rest \/ r[a] # "absent"

NewsTyped ==
    /\ now \in 0..Horizon
    /\ raw \in [Articles -> States]
    /\ published \in [Articles -> (0..Horizon) \cup {Never}]
    /\ job \in [at : {"idle", "inserting"}, due : Nat, began : Nat, good : BOOLEAN]
    /\ page \subseteq Articles
    /\ requests \subseteq 0..now

\* No request is of the future.
Begun == job.began <= now

\* The inductive invariant
NewsInv ==
    /\ NewsTyped
    /\ Begun
    /\ \A t \in requests : Stored(published, raw, t, {})
    /\ job.at = "inserting" /\ job.good => Stored(published, raw, job.began, page)

-----------------------------------------------------------------------------
(* What is stored stays so *)

\* An article that is published after a request changes nothing for it.
LEMMA PublishedLater ==
    ASSUME NEW p \in [Articles -> Nat], NEW r, NEW rest, NEW t \in Nat,
           NEW a \in Articles, NEW n \in Nat, t <= n, t < p[a],
           Stored(p, r, t, rest)
    PROVE  Stored([p EXCEPT ![a] = n], r, t, rest)
<1> DEFINE q == [p EXCEPT ![a] = n]
<1>1. \A b \in Articles : q[b] = IF b = a THEN n ELSE p[b]
  OBVIOUS
<1>2. Listed(p, t) \subseteq Listed(q, t)
  BY <1>1 DEF Listed
<1>3. \A b \in Listed(q, t) : q[b] < t => b \in Listed(p, t) /\ q[b] = p[b]
  BY <1>1 DEF Listed
<1>4. IsFiniteSet(Listed(q, t))
  BY FS_Subset, NewsAssumption DEF NewsAssumption, Listed
<1>5. /\ Cardinality(Listed(p, t)) <= Cardinality(Listed(q, t))
      /\ Cardinality(Listed(p, t)) \in Nat /\ Cardinality(Listed(q, t)) \in Nat
  BY <1>2, <1>4, FS_Subset, FS_CardinalityType
<1>6. Cardinality(Listed(q, t)) <= PageSize => Cardinality(Listed(p, t)) <= PageSize
  BY <1>5, NewsAssumption DEF NewsAssumption
<1> HIDE DEF q
<1>7. Stored(q, r, t, rest)
  BY <1>3, <1>6 DEF Stored
<1> QED  BY <1>7 DEF q

\* Nor does a collection that has lost nothing, or a rest of which only
\* what is no risk or stored was taken.
LEMMA StoredStays ==
    ASSUME NEW p, NEW t, NEW r, NEW r2, NEW rest, NEW rest2,
           \A a \in Articles : r[a] # "absent" => r2[a] # "absent",
           \A a \in rest \cap Risky : a \in rest2 \/ r2[a] # "absent",
           Stored(p, r, t, rest)
    PROVE  Stored(p, r2, t, rest2)
BY DEF Stored, Listed

\* A page that does not overflow is all that is listed.
LEMMA WholePage ==
    ASSUME NEW S, IsFiniteSet(S), NEW T \in Newest(S), Cardinality(S) <= PageSize
    PROVE  T = S
<1>1. T \subseteq S /\ Cardinality(S) \in Nat /\ PageSize \in Nat
  BY FS_CardinalityType, NewsAssumption DEF Newest, NewsAssumption
<1>2. Cardinality(T) = Cardinality(S)
  BY <1>1 DEF Newest
<1> QED  BY <1>1, <1>2, FS_Subset

\* No step of MongoDB makes a document absent.
LEMMA NeverAbsentAgain ==
    ASSUME NewsTyped, NEW a \in Articles,
           InsertOne(a) \/ MarkOne(a) \/ ExpireOne(a) \/ UNCHANGED raw
    PROVE  /\ raw' \in [Articles -> States]
           /\ \A b \in Articles : raw[b] # "absent" => raw'[b] # "absent"
BY DEF NewsTyped, InsertOne, MarkOne, ExpireOne, States, rawVars, Present

\* A step that leaves the scheduler alone keeps the invariant.
LEMMA OthersKeep ==
    ASSUME NewsInv, UNCHANGED <<now, published, job, page, requests>>,
           raw' \in [Articles -> States],
           \A b \in Articles : raw[b] # "absent" => raw'[b] # "absent"
    PROVE  NewsInv'
<1>1. NewsTyped' /\ Begun'
  BY DEF NewsInv, NewsTyped, Begun
<1>2. \A t \in requests' : Stored(published', raw', t, {})
  BY StoredStays DEF NewsInv
<1>3. job'.at = "inserting" /\ job'.good => Stored(published', raw', job'.began, page')
  BY StoredStays DEF NewsInv
<1> QED  BY <1>1, <1>2, <1>3 DEF NewsInv

-----------------------------------------------------------------------------
(* The steps *)

LEMMA NewsStart == Init => NewsInv
<1> SUFFICES ASSUME Init PROVE NewsInv
  OBVIOUS
<1>1. PICK s \in Scenarios : NewsInit(s.due)
  BY DEF Init
<1>2. s.due \in Nat /\ Horizon \in Nat
  BY NewsAssumption DEF NewsAssumption
<1>3. raw \in [Articles -> States] /\ now = 0
  BY DEF Init, States
<1>4. published \in [Articles -> (0..Horizon) \cup {Never}] /\ page = {} /\ requests = {}
  BY <1>1, <1>2 DEF NewsInit
<1>5. job = [at |-> "idle", due |-> s.due, began |-> 0, good |-> FALSE]
  BY <1>1 DEF NewsInit
<1>6. NewsTyped /\ Begun
  BY <1>2, <1>3, <1>4, <1>5 DEF NewsTyped, Begun
<1> QED  BY <1>4, <1>5, <1>6 DEF NewsInv

LEMMA StepPublish == ASSUME NewsInv, NEW a \in Articles, Publish(a) PROVE NewsInv'
<1>1. /\ published[a] = Never /\ published' = [published EXCEPT ![a] = now]
      /\ UNCHANGED <<now, raw, job, page, requests>>
  BY DEF Publish, rawVars
<1>2. /\ now \in Nat /\ Horizon \in Nat /\ now <= Horizon
      /\ published \in [Articles -> Nat]
  BY NewsAssumption DEF NewsInv, NewsTyped, NewsAssumption, Never
<1>3. ASSUME NEW t \in Nat, t <= now, NEW rest, Stored(published, raw, t, rest)
      PROVE  Stored(published', raw, t, rest)
  <2>1. t < published[a]
    BY <1>1, <1>2, <1>3 DEF Never
  <2> QED  BY <1>1, <1>2, <1>3, <2>1, PublishedLater
<1>4. NewsTyped' /\ Begun'
  BY <1>1, <1>2 DEF NewsInv, NewsTyped, Begun
<1>5. ASSUME NEW t \in requests PROVE Stored(published', raw, t, {})
  <2>1. t \in Nat /\ t <= now
    BY <1>2 DEF NewsInv, NewsTyped
  <2>2. Stored(published, raw, t, {})
    BY DEF NewsInv
  <2> QED  BY <1>3, <2>1, <2>2
<1>6. ASSUME job.at = "inserting", job.good
      PROVE  Stored(published', raw, job.began, page)
  <2>1. job.began \in Nat /\ job.began <= now
    BY DEF NewsInv, NewsTyped, Begun
  <2>2. Stored(published, raw, job.began, page)
    BY <1>6 DEF NewsInv
  <2> QED  BY <1>3, <2>1, <2>2
<1> QED  BY <1>1, <1>4, <1>5, <1>6 DEF NewsInv

LEMMA StepTick == ASSUME NewsInv, Tick PROVE NewsInv'
<1>1. now' = now + 1 /\ now < Horizon /\ UNCHANGED <<raw, published, job, page, requests>>
  BY DEF Tick, newsVars, rawVars
<1>2. NewsTyped' /\ Begun'
  BY <1>1, NewsAssumption DEF NewsInv, NewsTyped, Begun, NewsAssumption
<1> QED  BY <1>1, <1>2 DEF NewsInv

LEMMA StepFetch == ASSUME NewsInv, Fetch PROVE NewsInv'
<1>1. /\ page' \in Newest(Listed(published, now))
      /\ job' = [job EXCEPT !.at = "inserting", !.began = now, !.good = TRUE]
      /\ UNCHANGED <<published, requests, now, raw>>
  BY DEF Fetch, rawVars, From, Listed
<1>2. page' \subseteq Articles
  BY <1>1 DEF Newest, Listed
<1>3. /\ job' \in [at : {"idle", "inserting"}, due : Nat, began : Nat, good : BOOLEAN]
      /\ job'.began = now
  <2>1. now \in Nat
    BY NewsAssumption DEF NewsInv, NewsTyped, NewsAssumption
  <2>2. job \in [at : {"idle", "inserting"}, due : Nat, began : Nat, good : BOOLEAN]
    BY DEF NewsInv, NewsTyped
  <2> QED  BY <1>1, <2>1, <2>2
<1>4. NewsTyped' /\ Begun'
  BY <1>1, <1>2, <1>3, NewsAssumption DEF NewsInv, NewsTyped, Begun, NewsAssumption
<1>5. IsFiniteSet(Listed(published, now))
  BY FS_Subset, NewsAssumption DEF NewsAssumption, Listed
<1>6. Cardinality(Listed(published, now)) <= PageSize => page' = Listed(published, now)
  BY <1>1, <1>5, WholePage
<1>7. Stored(published, raw, now, page')
  BY <1>6 DEF Stored
<1> QED  BY <1>1, <1>3, <1>4, <1>7 DEF NewsInv

LEMMA StepFetchFails == ASSUME NewsInv, FetchFails PROVE NewsInv'
<1>1. /\ page' = {}
      /\ job' = [job EXCEPT !.at = "inserting", !.began = now, !.good = FALSE]
      /\ UNCHANGED <<published, requests, now, raw>>
  BY DEF FetchFails, rawVars
<1>2. /\ job' \in [at : {"idle", "inserting"}, due : Nat, began : Nat, good : BOOLEAN]
      /\ job'.began = now /\ ~job'.good
  <2>1. now \in Nat
    BY NewsAssumption DEF NewsInv, NewsTyped, NewsAssumption
  <2>2. job \in [at : {"idle", "inserting"}, due : Nat, began : Nat, good : BOOLEAN]
    BY DEF NewsInv, NewsTyped
  <2> QED  BY <1>1, <2>1, <2>2
<1>3. NewsTyped' /\ Begun'
  BY <1>1, <1>2, NewsAssumption DEF NewsInv, NewsTyped, Begun, NewsAssumption
<1> QED  BY <1>1, <1>2, <1>3 DEF NewsInv

LEMMA StepInsert == ASSUME NewsInv, NEW a \in Articles, Insert(a) PROVE NewsInv'
<1>1. page' = page \ {a} /\ UNCHANGED <<published, job, requests, now>>
  BY DEF Insert
<1>2. IF a \in Risky THEN InsertOne(a) ELSE UNCHANGED raw
  BY DEF Insert, rawVars
<1>3. /\ raw' \in [Articles -> States]
      /\ \A b \in Articles : raw[b] # "absent" => raw'[b] # "absent"
  BY <1>2, NeverAbsentAgain DEF NewsInv
<1>4. a \in Risky => raw'[a] # "absent"
  BY <1>2 DEF InsertOne, Present, NewsInv, NewsTyped, rawVars
<1>5. NewsTyped' /\ Begun'
  BY <1>1, <1>3 DEF NewsInv, NewsTyped, Begun
<1>6. \A t \in requests' : Stored(published', raw', t, {})
  BY <1>1, <1>3, StoredStays DEF NewsInv
<1>7. \A b \in page \cap Risky : b \in page' \/ raw'[b] # "absent"
  BY <1>1, <1>4
<1>8. job'.at = "inserting" /\ job'.good => Stored(published', raw', job'.began, page')
  BY <1>1, <1>3, <1>7, StoredStays DEF NewsInv
<1> QED  BY <1>5, <1>6, <1>8 DEF NewsInv

LEMMA RescheduledFact ==
    ASSUME NewsInv
    PROVE  /\ Rescheduled \in [at : {"idle", "inserting"}, due : Nat, began : Nat, good : BOOLEAN]
           /\ Rescheduled.at = "idle" /\ Rescheduled.began = 0 /\ now \in Nat
BY NewsAssumption DEF NewsAssumption, Rescheduled, NewsInv, NewsTyped

LEMMA StepCycleDone == ASSUME NewsInv, CycleDone PROVE NewsInv'
<1>1. /\ job.at = "inserting" /\ page = {}
      /\ requests' = requests \cup (IF job.good THEN {job.began} ELSE {})
      /\ job' = Rescheduled
      /\ UNCHANGED <<published, page, now, raw>>
  BY DEF CycleDone, rawVars
<1>2. job.began \in 0..now
  BY DEF NewsInv, NewsTyped, Begun
<1>3. requests \subseteq 0..now /\ requests' \subseteq 0..now
  BY <1>1, <1>2 DEF NewsInv, NewsTyped
<1>4. NewsTyped' /\ Begun'
  BY <1>1, <1>3, RescheduledFact DEF NewsInv, NewsTyped, Begun
<1>5. \A t \in requests' : Stored(published', raw', t, {})
  BY <1>1 DEF NewsInv
<1> QED  BY <1>1, <1>4, <1>5, RescheduledFact DEF NewsInv

LEMMA StepInsertDies == ASSUME NewsInv, NEW a \in Articles, InsertDies(a) PROVE NewsInv'
<1>1. /\ page' = {} /\ job' = Rescheduled
      /\ UNCHANGED <<published, requests, now>>
      /\ InsertOne(a) \/ UNCHANGED raw
  BY DEF InsertDies, rawVars
<1>2. /\ raw' \in [Articles -> States]
      /\ \A b \in Articles : raw[b] # "absent" => raw'[b] # "absent"
  BY <1>1, NeverAbsentAgain DEF NewsInv
<1>3. NewsTyped' /\ Begun'
  BY <1>1, <1>2, RescheduledFact DEF NewsInv, NewsTyped, Begun
<1>4. \A t \in requests' : Stored(published', raw', t, {})
  BY <1>1, <1>2, StoredStays DEF NewsInv
<1> QED  BY <1>1, <1>3, <1>4, RescheduledFact DEF NewsInv

LEMMA StepRestart == ASSUME NewsInv, Restart PROVE NewsInv'
<1>1. /\ page' = {} /\ UNCHANGED <<published, requests, now, raw>>
      /\ job' = [at |-> "idle", due |-> now, began |-> 0, good |-> FALSE]
  BY DEF Restart, rawVars
<1>2. NewsTyped' /\ Begun'
  BY <1>1 DEF NewsInv, NewsTyped, Begun
<1> QED  BY <1>1, <1>2 DEF NewsInv

\* The pipeline marks at most, and the expiry deletes what was there.
LEMMA StepPipe == ASSUME NewsInv, PipeNext, UNCHANGED newsVars PROVE NewsInv'
<1>1. UNCHANGED <<now, published, job, page, requests>>
  BY DEF PipeNext, Start, RunStep, Signal, Stage1Poisons, UpsertFails, MarkFails,
     Dies, Read, Take, Complete, Stage1Fails, Stage2, Upsert, Mark, newsVars
<1>2. PICK r \in Runs : \/ UNCHANGED raw \/ MarkOne(Doc(r))
  BY DEF PipeNext, Start, RunStep, Signal, Stage1Poisons, UpsertFails, MarkFails,
     Dies, Read, Take, Complete, Stage1Fails, Stage2, Upsert, Mark, rawVars
<1>3. /\ raw' \in [Articles -> States]
      /\ \A b \in Articles : raw[b] # "absent" => raw'[b] # "absent"
  BY <1>2 DEF MarkOne, NewsInv, NewsTyped, States
<1> QED  BY <1>1, <1>3, OthersKeep

LEMMA NewsStep == NewsInv /\ [Next]_vars => NewsInv'
<1> SUFFICES ASSUME NewsInv, [Next]_vars PROVE NewsInv'
  OBVIOUS
<1>1. CASE NewsNext
  BY <1>1, StepPublish, StepTick, StepFetch, StepFetchFails, StepInsert,
     StepCycleDone, StepInsertDies, StepRestart DEF NewsNext, JobStep
<1>2. CASE PipeNext /\ UNCHANGED newsVars
  BY <1>2, StepPipe
<1>3. ASSUME NEW a \in Articles, Expire(a) PROVE NewsInv'
  <2>1. ExpireOne(a) /\ UNCHANGED <<now, published, job, page, requests>>
    BY <1>3 DEF Expire, newsVars
  <2>2. NewsTyped
    BY DEF NewsInv
  <2> QED  BY <2>1, <2>2, NeverAbsentAgain, OthersKeep
<1>4. CASE UNCHANGED vars
  <2>1. UNCHANGED <<now, raw, published, job, page, requests>>
    BY <1>4 DEF vars, rawVars, newsVars
  <2>2. NewsTyped
    BY DEF NewsInv
  <2> QED  BY <2>1, <2>2, NeverAbsentAgain, OthersKeep DEF NewsTyped
<1> QED  BY <1>1, <1>2, <1>3, <1>4 DEF Next

-----------------------------------------------------------------------------
(* The theorem about the scheduler *)

LEMMA NewsAlways == Spec => []NewsInv
BY NewsStart, NewsStep, PTL DEF Spec

\* Two requests of the scheduler that were answered and worked off, no further
\* apart than the window, leave no risky article between them out, as long as
\* the page holds all that is listed (news_fetcher.py:29-40, job.py:38-45).
THEOREM NewsMissesNothing == Spec => []NothingMissed
<1>1. NewsInv => NothingMissed
  <2> SUFFICES ASSUME NewsInv, NEW g \in requests, NEW h \in requests,
                      g < h, h - g <= Window, Cardinality(From(h)) <= PageSize,
                      NEW a \in Risky, published[a] \in g..(h - 1)
               PROVE  raw[a] # "absent"
    BY DEF NothingMissed
  <2>1. From(h) = Listed(published, h)
    BY DEF From, Listed
  <2>2. g \in Nat /\ h \in Nat /\ a \in Articles /\ published[a] \in Nat /\ Window \in Nat
    BY NewsAssumption DEF NewsInv, NewsTyped, NewsAssumption, Risky
  <2>3. a \in Listed(published, h) /\ published[a] < h
    BY <2>2 DEF Listed
  <2>4. Stored(published, raw, h, {})
    BY DEF NewsInv
  <2> QED  BY <2>1, <2>3, <2>4 DEF Stored
<1> QED  BY <1>1, NewsAlways, PTL

-----------------------------------------------------------------------------
(* The pipeline *)

\* The answers of the language model that have been given.
Answer == [version : 0..version, length : 0..MaxChunks]

RunType == [at : Points, pos : Nat, batch : SUBSET (Nat \X Articles), more : BOOLEAN,
            doc : Articles \cup {NoDoc}, signalled : BOOLEAN, chunks : Answer,
            due : SUBSET (1..records), failed : SUBSET Articles]

RawTyped ==
    /\ left \in [Budgets -> Nat]
    /\ raw \in [Articles -> States]
    /\ records \in Nat /\ slot \in [Articles -> 0..records]

PipeTyped ==
    /\ RawTyped
    /\ version \in Nat /\ unsaved \subseteq Articles /\ overlapped \in BOOLEAN
    /\ run \in [Runs -> RunType]
    /\ chroma \in [Articles -> [1..MaxChunks -> 0..version]]
    /\ recorded \in [Articles -> Answer]

\* A scan finds what is present, and nothing twice.
Scanned ==
    /\ \A a \in Articles : slot[a] > 0 <=> Present(a)
    /\ \A a, b \in Articles : slot[a] = slot[b] /\ slot[a] > 0 => a = b

\* A run u has a document in hand between the head of the loop and its end, and
\* that is none of those which wait; when it is not under way nothing is left.
Settled(u) ==
    /\ u.doc # NoDoc <=> u.at \in {"analysing", "upserting", "marking"}
    /\ u.at \in {"idle", "done"} => u.batch = {} /\ ~u.more
    /\ \A e, f \in u.batch : e[2] = f[2] => e = f
    /\ \A e \in u.batch : e[2] # u.doc

\* What was due to it is done with, in hand, or ahead of its cursor.
Covers(u) ==
    \A a \in Articles :
        slot[a] \in u.due /\ raw[a] = "escalated" =>
            \/ a \in u.failed \/ a = u.doc
            \/ <<slot[a], a>> \in u.batch
            \/ u.more /\ slot[a] > u.pos

\* Nothing that it has before it is processed.
Fresh(u) ==
    /\ u.doc # NoDoc => raw[u.doc] # "processed"
    /\ \A e \in u.batch : raw[e[2]] # "processed"

\* What it is about to record is in ChromaDB.
Wrote(u) ==
    u.at = "marking" /\ u.doc \notin unsaved =>
        \A i \in 1..u.chunks.length : chroma[u.doc][i] = u.chunks.version

OneAtATime == ~overlapped => \A p, q \in Runs : Active(p) /\ Active(q) => p = q

\* The inductive invariant of the pipeline
PipeInv ==
    /\ PipeTyped
    /\ Scanned
    /\ \A r \in Runs : Settled(run[r]) /\ Covers(run[r])
    /\ OneAtATime
    /\ ~overlapped => \A r \in Runs : Fresh(run[r]) /\ Wrote(run[r])
    /\ StoresAgree

-----------------------------------------------------------------------------
(* The collection and the cursor *)

\* A step of MongoDB gives no slot twice, and processes what it is told to alone.
LEMMA CollectionStep ==
    ASSUME RawTyped, Scanned, NEW a \in Articles, left' \in [Budgets -> Nat],
           InsertOne(a) \/ MarkOne(a) \/ ExpireOne(a) \/ UNCHANGED rawVars
    PROVE  /\ RawTyped' /\ Scanned' /\ records <= records'
           /\ \A b \in Articles : raw'[b] = "escalated" =>
                 (raw[b] = "escalated" /\ slot'[b] = slot[b]) \/ slot'[b] > records
           /\ \A b \in Articles : raw'[b] = "processed" =>
                 raw[b] = "processed" \/ (b = a /\ Present(a) /\ MarkOne(a))
<1> USE DEF RawTyped, Scanned, States, Present
<1>1. CASE InsertOne(a)
  BY <1>1 DEF InsertOne, rawVars
<1>2. CASE MarkOne(a)
  BY <1>2 DEF MarkOne
<1>3. CASE ExpireOne(a)
  BY <1>3 DEF ExpireOne
<1>4. CASE UNCHANGED rawVars
  BY <1>4 DEF rawVars
<1> QED  BY <1>1, <1>2, <1>3, <1>4

LEMMA EscalatedFacts ==
    ASSUME PipeTyped, Scanned
    PROVE  /\ IsFiniteSet(Escalated) /\ Escalated \subseteq Nat \X Articles
           /\ \A e \in Escalated : /\ e[2] \in Articles /\ raw[e[2]] = "escalated"
                                   /\ e = <<slot[e[2]], e[2]>> /\ e[1] \in 1..records
           /\ \A a \in Articles : raw[a] = "escalated" =>
                 slot[a] \in 1..records /\ <<slot[a], a>> \in Escalated
<1>1. \A a \in Articles : slot[a] \in Nat /\ slot[a] <= records /\ records \in Nat
  BY DEF PipeTyped, RawTyped
<1>2. \A a \in Articles : raw[a] = "escalated" => slot[a] \in 1..records
  BY <1>1 DEF Scanned, Present
<1>3. IsFiniteSet({b \in Articles : raw[b] = "escalated"})
  BY FS_Subset, NewsAssumption DEF NewsAssumption
<1>4. IsFiniteSet(Escalated)
  <2> DEFINE S == {b \in Articles : raw[b] = "escalated"}
             f == [b \in S |-> <<slot[b], b>>]
  <2>1. Escalated = {f[b] : b \in S}
    BY DEF Escalated
  <2>2. f \in Surjection(S, Escalated)
    BY <2>1 DEF Surjection
  <2> QED  BY <1>3, <2>2, FS_Surjection
<1>5. \A e \in Escalated : /\ e[2] \in Articles /\ raw[e[2]] = "escalated"
                           /\ e = <<slot[e[2]], e[2]>> /\ e[1] = slot[e[2]]
  BY DEF Escalated
<1>6. Escalated \subseteq Nat \X Articles
  BY <1>1 DEF Escalated
<1>7. \A a \in Articles : raw[a] = "escalated" => <<slot[a], a>> \in Escalated
  BY DEF Escalated
<1> QED  BY <1>2, <1>4, <1>5, <1>6, <1>7

\* An answer that is not full is all that was ahead, and a full one leaves
\* nothing behind the cursor.
LEMMA AnswerFacts ==
    ASSUME NEW S \in SUBSET (Nat \X Articles), IsFiniteSet(S), records \in Nat,
           NEW T \in FirstOf(S), NEW p \in StopsAt(T)
    PROVE  /\ T \subseteq S /\ p \in Nat
           /\ Cardinality(T) # BatchSize => T = S
           /\ Cardinality(T) = BatchSize => \A f \in S \ T : f[1] > p
<1>1. /\ T \subseteq S /\ \A e \in T, f \in S \ T : e[1] < f[1]
      /\ Cardinality(T) = IF Cardinality(S) < BatchSize THEN Cardinality(S) ELSE BatchSize
  BY DEF FirstOf
<1>2. Cardinality(S) \in Nat /\ BatchSize \in Nat
  BY FS_CardinalityType, PipelineAssumption DEF PipelineAssumption
<1>3. Cardinality(T) # BatchSize => T = S
  BY <1>1, <1>2, FS_Subset
<1>4. ASSUME Cardinality(T) = BatchSize
      PROVE  \E e \in T : p = e[1]
  BY <1>2, <1>4 DEF StopsAt
<1>5. p \in Nat
  <2>1. CASE Cardinality(T) = BatchSize
    BY <1>1, <1>4, <2>1
  <2>2. CASE Cardinality(T) # BatchSize
    BY <1>1, <1>2, <2>2 DEF StopsAt
  <2> QED  BY <2>1, <2>2
<1>6. ASSUME Cardinality(T) = BatchSize, NEW f \in S \ T
      PROVE  f[1] > p
  <2>1. PICK e \in T : p = e[1]
    BY <1>4, <1>6
  <2>2. e[1] < f[1] /\ e[1] \in Nat /\ f[1] \in Nat
    BY <1>1
  <2> QED  BY <2>1, <2>2
<1> QED  BY <1>1, <1>3, <1>5, <1>6

-----------------------------------------------------------------------------
(* Runs *)

\* Where nothing runs, nothing is to be kept.
LEMMA NoRunFine ==
    ASSUME version \in Nat, records \in Nat
    PROVE  NoRun \in RunType /\ Settled(NoRun) /\ Covers(NoRun) /\ Fresh(NoRun) /\ Wrote(NoRun)
BY PipelineAssumption DEF PipelineAssumption, NoRun, NoChunks, RunType, Answer, Points,
   Settled, Covers, Fresh, Wrote

\* The types of one process moving.
LEMMA MoveTyped ==
    ASSUME PipeTyped, RawTyped', records <= records', version' \in Nat, version <= version',
           unsaved' \subseteq Articles, overlapped' \in BOOLEAN,
           NEW r \in Runs, NEW u \in RunType', Goes(r, u),
           chroma' \in [Articles -> [1..MaxChunks -> 0..version']],
           recorded' \in [Articles -> Answer']
    PROVE  PipeTyped'
<1>1. records \in Nat /\ records' \in Nat /\ version \in Nat
  BY DEF PipeTyped, RawTyped
<1>2. 1..records \subseteq 1..records' /\ 0..version \subseteq 0..version'
  BY <1>1
<1>3. RunType \subseteq RunType'
  BY <1>2 DEF RunType, Answer
<1>4. run' \in [Runs -> RunType']
  BY <1>3 DEF PipeTyped, Goes
<1> QED  BY <1>4 DEF PipeTyped

LEMMA Grows ==
    ASSUME PipeTyped, version' \in Nat, version <= version'
    PROVE  /\ chroma \in [Articles -> [1..MaxChunks -> 0..version']]
           /\ recorded \in [Articles -> Answer']
<1>1. 0..version \subseteq 0..version'
  BY DEF PipeTyped
<1>2. Answer \subseteq Answer'
  BY <1>1 DEF Answer
<1>3. [1..MaxChunks -> 0..version] \subseteq [1..MaxChunks -> 0..version']
  BY <1>1
<1> QED  BY <1>2, <1>3 DEF PipeTyped

\* One process moves, and changes nothing that others see.
LEMMA MoveKeeps ==
    ASSUME PipeInv, NEW r \in Runs, NEW u \in RunType', Goes(r, u), Active(r),
           UNCHANGED <<rawVars, chroma, recorded, unsaved, overlapped>>,
           left' \in [Budgets -> Nat], version' \in Nat, version <= version',
           Settled(u), Covers(u), ~overlapped => Fresh(u) /\ Wrote(u)
    PROVE  PipeInv'
<1>1. /\ PipeTyped /\ RawTyped' /\ records <= records'
      /\ unsaved' \subseteq Articles /\ overlapped' \in BOOLEAN
  BY DEF PipeInv, PipeTyped, RawTyped, rawVars
<1>2. /\ chroma' \in [Articles -> [1..MaxChunks -> 0..version']]
      /\ recorded' \in [Articles -> Answer']
  BY <1>1, Grows
<1>3. PipeTyped'
  BY <1>1, <1>2, MoveTyped
<1>4. \A q \in Runs : run'[q] = IF q = r THEN u ELSE run[q]
  BY <1>1 DEF Goes, PipeTyped
<1>5. Scanned' /\ StoresAgree'
  BY DEF PipeInv, Scanned, Present, StoresAgree, rawVars
<1>6. (\A q \in Runs : Settled(run[q]) /\ Covers(run[q]))'
  BY <1>4 DEF PipeInv, Settled, Covers, rawVars
<1>7. OneAtATime'
  BY <1>4 DEF PipeInv, OneAtATime, Active
<1>8. (~overlapped => \A q \in Runs : Fresh(run[q]) /\ Wrote(run[q]))'
  BY <1>4 DEF PipeInv, Fresh, Wrote, rawVars
<1> QED  BY <1>3, <1>5, <1>6, <1>7, <1>8 DEF PipeInv

\* What a process is at, of its invariants.
LEMMA OfRun ==
    ASSUME PipeInv, NEW r \in Runs
    PROVE  /\ run[r] \in RunType /\ Settled(run[r]) /\ Covers(run[r])
           /\ ~overlapped => Fresh(run[r]) /\ Wrote(run[r])
           /\ records \in Nat /\ version \in Nat /\ left \in [Budgets -> Nat]
           /\ PipeTyped /\ Scanned
BY DEF PipeInv, PipeTyped, RawTyped

LEMMA SpendTyped ==
    ASSUME left \in [Budgets -> Nat], NEW k \in Budgets, Spend(k)
    PROVE  left' \in [Budgets -> Nat]
BY DEF Spend

-----------------------------------------------------------------------------
(* The steps of a run *)

\* Whatever ends a run leaves nothing to be kept.
LEMMA StepEnds ==
    ASSUME PipeInv, NEW r \in Runs, Active(r), Goes(r, NoRun), left' \in [Budgets -> Nat],
           UNCHANGED <<chroma, recorded, version, historyVars, rawVars>>
    PROVE  PipeInv'
<1>1. version' = version /\ records' = records /\ version \in Nat /\ records \in Nat
  BY OfRun DEF rawVars
<1>2. NoRun \in RunType /\ Settled(NoRun) /\ Covers(NoRun) /\ Fresh(NoRun) /\ Wrote(NoRun)
  BY <1>1, NoRunFine
<1>3. NoRun \in RunType'
  BY <1>1, <1>2 DEF RunType, Answer
<1> QED  BY <1>1, <1>2, <1>3, MoveKeeps DEF historyVars

LEMMA StepRead == ASSUME PipeInv, NEW r \in Runs, Read(r) PROVE PipeInv'
<1>0. PICK T \in FirstOf(Ahead(r)) : \E p \in StopsAt(T) :
         Goes(r, [run[r] EXCEPT !.batch = T, !.pos = p, !.more = Cardinality(T) = BatchSize])
  BY DEF Read
<1>1. PICK p \in StopsAt(T) :
         Goes(r, [run[r] EXCEPT !.batch = T, !.pos = p, !.more = Cardinality(T) = BatchSize])
  BY <1>0
<1>2. /\ run[r].at = "reading" /\ run[r].batch = {} /\ run[r].more /\ Active(r)
      /\ UNCHANGED <<chroma, recorded, version, unsaved, overlapped, rawVars, left>>
  BY DEF Read, historyVars, Active
<1> DEFINE u == [run[r] EXCEPT !.batch = T, !.pos = p, !.more = Cardinality(T) = BatchSize]
<1>3. /\ IsFiniteSet(Ahead(r)) /\ Ahead(r) \in SUBSET (Nat \X Articles)
      /\ Ahead(r) \subseteq Escalated
  BY OfRun, EscalatedFacts, FS_Subset DEF Ahead
<1>4. /\ T \subseteq Ahead(r) /\ p \in Nat
      /\ Cardinality(T) # BatchSize => T = Ahead(r)
      /\ Cardinality(T) = BatchSize => \A f \in Ahead(r) \ T : f[1] > p
  BY <1>3, AnswerFacts, OfRun
<1>5. run[r] \in RunType /\ Settled(run[r]) /\ Covers(run[r])
  BY OfRun
<1>6. u \in RunType'
  BY <1>2, <1>3, <1>4, <1>5 DEF RunType, Answer, rawVars
<1>7. /\ u.at = "reading" /\ u.doc = run[r].doc /\ u.batch = T /\ u.pos = p
      /\ u.more = (Cardinality(T) = BatchSize) /\ u.due = run[r].due /\ u.failed = run[r].failed
  BY <1>2, <1>5 DEF RunType
<1>8. Goes(r, u)
  BY <1>1
<1> HIDE DEF u
<1>9. u.doc = NoDoc /\ \A e \in T : e[2] \in Articles /\ raw[e[2]] = "escalated" /\ e = <<slot[e[2]], e[2]>>
  BY <1>2, <1>3, <1>4, <1>5, <1>7, OfRun, EscalatedFacts DEF Settled
<1>10. Settled(u) /\ Fresh(u) /\ Wrote(u)
  BY <1>7, <1>9, PipelineAssumption DEF PipelineAssumption, Settled, Fresh, Wrote
<1>11. Covers(u)
  <2> SUFFICES ASSUME NEW a \in Articles, slot[a] \in u.due, raw[a] = "escalated",
                      a \notin u.failed, <<slot[a], a>> \notin u.batch
               PROVE  u.more /\ slot[a] > u.pos
    BY DEF Covers
  <2>1. slot[a] > run[r].pos
    BY <1>2, <1>5, <1>7, <1>9, PipelineAssumption DEF Covers, PipelineAssumption
  <2>2. <<slot[a], a>> \in Ahead(r) \ T
    BY <2>1, <1>7, OfRun, EscalatedFacts DEF Ahead
  <2> QED  BY <2>2, <1>4, <1>7
<1> QED  BY <1>2, <1>5, <1>6, <1>8, <1>10, <1>11, MoveKeeps, OfRun

LEMMA StepTake == ASSUME PipeInv, NEW r \in Runs, Take(r) PROVE PipeInv'
<1>1. PICK e \in run[r].batch :
         Goes(r, IF run[r].signalled THEN NoRun
                 ELSE [run[r] EXCEPT !.at = "analysing", !.doc = e[2], !.batch = @ \ {e}])
  BY DEF Take
<1>2. /\ run[r].at = "reading" /\ Active(r)
      /\ UNCHANGED <<chroma, recorded, version, historyVars, rawVars, left>>
  BY DEF Take, Active
<1>3. CASE run[r].signalled
  BY <1>1, <1>2, <1>3, StepEnds, OfRun
<1>4. CASE ~run[r].signalled
  <2> DEFINE u == [run[r] EXCEPT !.at = "analysing", !.doc = e[2], !.batch = @ \ {e}]
  <2>1. /\ run[r] \in RunType /\ Settled(run[r]) /\ Covers(run[r])
        /\ ~overlapped => Fresh(run[r])
    BY OfRun
  <2>2. e[2] \in Articles /\ run[r].batch \subseteq Nat \X Articles
    BY <2>1 DEF RunType
  <2>3. u \in RunType'
    BY <1>2, <2>1, <2>2 DEF RunType, Answer, Points, rawVars
  <2>4. /\ u.at = "analysing" /\ u.doc = e[2] /\ u.batch = run[r].batch \ {e} /\ u.pos = run[r].pos
        /\ u.more = run[r].more /\ u.due = run[r].due /\ u.failed = run[r].failed
    BY <2>1 DEF RunType
  <2>5. Goes(r, u)
    BY <1>1, <1>4
  <2> HIDE DEF u
  <2>6. run[r].doc = NoDoc /\ NoDoc \notin Articles
    BY <1>2, <2>1, PipelineAssumption DEF Settled, PipelineAssumption
  <2>7. Settled(u) /\ Wrote(u)
    BY <2>1, <2>2, <2>4, <2>6 DEF Settled, Wrote
  <2>8. ~overlapped => Fresh(u)
    BY <2>1, <2>4 DEF Fresh
  <2>9. Covers(u)
    BY <2>1, <2>4, <2>6 DEF Covers
  <2> QED  BY <1>2, <2>3, <2>5, <2>7, <2>8, <2>9, MoveKeeps, OfRun DEF historyVars
<1> QED  BY <1>3, <1>4

LEMMA StepComplete == ASSUME PipeInv, NEW r \in Runs, Complete(r) PROVE PipeInv'
<1> DEFINE u == [NoRun EXCEPT !.at = "done", !.due = run[r].due, !.failed = run[r].failed]
<1>1. /\ run[r].at = "reading" /\ run[r].batch = {} /\ ~run[r].more /\ Active(r)
      /\ UNCHANGED <<chroma, recorded, version, unsaved, overlapped, rawVars, left>>
      /\ Goes(r, u)
  BY DEF Complete, historyVars, Active
<1>2. run[r] \in RunType /\ Settled(run[r]) /\ Covers(run[r]) /\ NoRun \in RunType
  BY OfRun, NoRunFine
<1>3. u \in RunType'
  BY <1>1, <1>2 DEF RunType, Answer, Points, rawVars
<1>4. /\ u.at = "done" /\ u.doc = NoDoc /\ u.batch = {} /\ ~u.more
      /\ u.due = run[r].due /\ u.failed = run[r].failed
  BY DEF NoRun
<1> HIDE DEF u
<1>5. run[r].doc = NoDoc /\ NoDoc \notin Articles
  BY <1>1, <1>2, PipelineAssumption DEF Settled, PipelineAssumption
<1>6. Settled(u) /\ Fresh(u) /\ Wrote(u) /\ Covers(u)
  BY <1>1, <1>2, <1>4, <1>5 DEF Settled, Fresh, Wrote, Covers
<1> QED  BY <1>1, <1>3, <1>6, MoveKeeps, OfRun

LEMMA StepStage1Fails == ASSUME PipeInv, NEW r \in Runs, Stage1Fails(r) PROVE PipeInv'
<1> DEFINE u == Skip(r)
<1>1. /\ run[r].at = "analysing" /\ Active(r) /\ Goes(r, u)
      /\ UNCHANGED <<chroma, recorded, version, unsaved, overlapped, rawVars, left>>
  BY DEF Stage1Fails, historyVars, Active
<1>2. /\ run[r] \in RunType /\ Settled(run[r]) /\ Covers(run[r])
      /\ ~overlapped => Fresh(run[r])
  BY OfRun
<1>3. run[r].doc \in Articles
  BY <1>1, <1>2 DEF RunType, Settled
<1>4. u \in RunType'
  BY <1>1, <1>2, <1>3 DEF RunType, Answer, Points, rawVars, Skip, Doc
<1>5. /\ u.at = "reading" /\ u.doc = NoDoc /\ u.batch = run[r].batch /\ u.pos = run[r].pos
      /\ u.more = run[r].more /\ u.due = run[r].due /\ u.failed = run[r].failed \cup {run[r].doc}
  BY <1>2 DEF RunType, Skip, Doc
<1> HIDE DEF u
<1>6. NoDoc \notin Articles /\ run[r].batch \subseteq Nat \X Articles
  BY <1>2, PipelineAssumption DEF PipelineAssumption, RunType
<1>7. Settled(u) /\ Wrote(u)
  BY <1>2, <1>5, <1>6 DEF Settled, Wrote
<1>8. (~overlapped => Fresh(u)) /\ Covers(u)
  BY <1>2, <1>5 DEF Fresh, Covers
<1> QED  BY <1>1, <1>4, <1>7, <1>8, MoveKeeps, OfRun

LEMMA StepStage2 == ASSUME PipeInv, NEW r \in Runs, Stage2(r) PROVE PipeInv'
<1>1. PICK n \in 0..MaxChunks :
         Goes(r, [run[r] EXCEPT !.at = AfterStage2(n),
                                !.chunks = [version |-> version', length |-> n]])
  BY DEF Stage2
<1> DEFINE u == [run[r] EXCEPT !.at = AfterStage2(n),
                               !.chunks = [version |-> version', length |-> n]]
<1>2. /\ run[r].at = "analysing" /\ Active(r) /\ Goes(r, u) /\ version' = version + 1
      /\ UNCHANGED <<chroma, recorded, unsaved, overlapped, rawVars, left>>
  BY <1>1 DEF Stage2, historyVars, Active
<1>3. /\ run[r] \in RunType /\ Settled(run[r]) /\ Covers(run[r]) /\ version \in Nat
      /\ ~overlapped => Fresh(run[r])
  BY OfRun
<1>4. 0..version \subseteq 0..version' /\ version' \in 0..version' /\ version' \in Nat /\ version <= version'
  BY <1>2, <1>3
<1>5. u \in RunType'
  BY <1>2, <1>3, <1>4 DEF RunType, Answer, Points, rawVars, AfterStage2
<1>6. /\ u.at = AfterStage2(n) /\ u.doc = run[r].doc /\ u.batch = run[r].batch /\ u.pos = run[r].pos
      /\ u.more = run[r].more /\ u.due = run[r].due /\ u.failed = run[r].failed
      /\ u.chunks.length = n
  BY <1>3 DEF RunType
<1> HIDE DEF u
<1>7. Settled(u)
  BY <1>2, <1>3, <1>6 DEF Settled, AfterStage2
<1>8. Wrote(u)
  BY <1>6 DEF Wrote, AfterStage2
<1>9. (~overlapped => Fresh(u)) /\ Covers(u)
  BY <1>3, <1>6 DEF Fresh, Covers
<1> QED  BY <1>2, <1>4, <1>5, <1>7, <1>8, <1>9, MoveKeeps, OfRun

LEMMA StepSignal == ASSUME PipeInv, NEW r \in Runs, Signal(r) PROVE PipeInv'
<1> DEFINE u == [run[r] EXCEPT !.signalled = TRUE]
<1>1. /\ Active(r) /\ Goes(r, u) /\ Spend("signal")
      /\ UNCHANGED <<chroma, recorded, version, unsaved, overlapped, rawVars>>
  BY DEF Signal, historyVars
<1>2. /\ run[r] \in RunType /\ Settled(run[r]) /\ Covers(run[r])
      /\ ~overlapped => Fresh(run[r]) /\ Wrote(run[r])
  BY OfRun
<1>3. u \in RunType'
  BY <1>1, <1>2 DEF RunType, Answer, rawVars
<1>4. /\ u.at = run[r].at /\ u.doc = run[r].doc /\ u.batch = run[r].batch /\ u.pos = run[r].pos
      /\ u.more = run[r].more /\ u.due = run[r].due /\ u.failed = run[r].failed
      /\ u.chunks = run[r].chunks
  BY <1>2 DEF RunType
<1> HIDE DEF u
<1>5. Settled(u) /\ Covers(u) /\ (~overlapped => Fresh(u) /\ Wrote(u))
  BY <1>2, <1>4 DEF Settled, Covers, Fresh, Wrote
<1>6. left' \in [Budgets -> Nat]
  BY <1>1, OfRun, SpendTyped DEF Budgets
<1> QED  BY <1>1, <1>3, <1>5, <1>6, MoveKeeps, OfRun

\* ChromaDB was written or failed, and the failure is remembered.
LEMMA StepUpserts ==
    ASSUME PipeInv, NEW r \in Runs, run[r].at = "upserting",
           Goes(r, [run[r] EXCEPT !.at = "marking"]),
           \/ chroma' = Written(r) /\ unsaved' = unsaved \ {Doc(r)}
           \/ chroma' \in {chroma, Written(r)} /\ unsaved' = unsaved \cup {Doc(r)},
           UNCHANGED <<recorded, version, overlapped, rawVars>>, left' \in [Budgets -> Nat]
    PROVE  PipeInv'
<1> DEFINE u == [run[r] EXCEPT !.at = "marking"]
           d == run[r].doc
<1>1. /\ run[r] \in RunType /\ Settled(run[r]) /\ Covers(run[r]) /\ PipeTyped /\ Scanned
      /\ ~overlapped => Fresh(run[r])
  BY OfRun
<1>2. /\ u \in RunType' /\ u.at = "marking" /\ u.doc = d /\ u.batch = run[r].batch
      /\ u.pos = run[r].pos /\ u.more = run[r].more /\ u.due = run[r].due
      /\ u.failed = run[r].failed /\ u.chunks = run[r].chunks
  BY <1>1 DEF RunType, Answer, Points, rawVars
<1>3. d \in Articles /\ Doc(r) = d /\ Goes(r, u)
  BY <1>1 DEF RunType, Settled, Doc
<1>4. /\ run[r].chunks.length \in Nat /\ run[r].chunks.length <= MaxChunks /\ MaxChunks \in Nat
      /\ run[r].chunks.version \in 0..version
  BY <1>1, PipelineAssumption DEF RunType, Answer, PipelineAssumption
<1> HIDE DEF u
<1>5. /\ Written(r) \in [Articles -> [1..MaxChunks -> 0..version]]
      /\ \A a \in Articles : a # d => Written(r)[a] = chroma[a]
      /\ \A i \in 1..run[r].chunks.length : Written(r)[d][i] = run[r].chunks.version
  BY <1>1, <1>3, <1>4 DEF Written, PipeTyped
<1>6. /\ chroma' \in [Articles -> [1..MaxChunks -> 0..version]]
      /\ \A a \in Articles : a # d => chroma'[a] = chroma[a] /\ (a \in unsaved' <=> a \in unsaved)
      /\ d \in unsaved' \/ \A i \in 1..run[r].chunks.length : chroma'[d][i] = run[r].chunks.version
      /\ unsaved' \subseteq Articles
  BY <1>1, <1>3, <1>5 DEF PipeTyped
<1>7. PipeTyped'
  <2>1. /\ RawTyped' /\ records <= records' /\ version' \in Nat /\ version <= version'
        /\ overlapped' \in BOOLEAN /\ recorded' \in [Articles -> Answer']
    BY <1>1 DEF PipeTyped, RawTyped, rawVars, Answer
  <2>2. chroma' \in [Articles -> [1..MaxChunks -> 0..version']]
    BY <1>6
  <2> QED  BY <1>1, <1>2, <1>3, <1>6, <2>1, <2>2, MoveTyped
<1>8. \A q \in Runs : run'[q] = IF q = r THEN u ELSE run[q]
  BY <1>1, <1>3 DEF Goes, PipeTyped
<1>9. Settled(u) /\ Covers(u) /\ (~overlapped => Fresh(u))
  BY <1>1, <1>2 DEF Settled, Covers, Fresh
<1>10. (\A q \in Runs : Settled(run[q]) /\ Covers(run[q]))'
  BY <1>8, <1>9 DEF PipeInv, Settled, Covers, rawVars
<1>11. OneAtATime'
  BY <1>2, <1>8 DEF PipeInv, OneAtATime, Active
<1>12. ASSUME ~overlapped, NEW q \in Runs
       PROVE  (Fresh(run[q]) /\ Wrote(run[q]))'
  <2>1. CASE q = r
    BY <1>2, <1>6, <1>8, <1>9, <1>12, <2>1 DEF Fresh, Wrote, rawVars
  <2>2. CASE q # r
    <3>1. run'[q] = run[q] /\ run[q].at # "marking" /\ Fresh(run[q])
      BY <1>8, <1>12, <2>2 DEF PipeInv, OneAtATime, Active
    <3> QED  BY <3>1 DEF Fresh, Wrote, rawVars
  <2> QED  BY <2>1, <2>2
<1>13. StoresAgree'
  <2> SUFFICES ASSUME NEW a \in Articles, raw[a] = "processed", ~overlapped, a \notin unsaved',
                      NEW i \in 1..recorded[a].length
               PROVE  chroma'[a][i] = recorded[a].version
    BY DEF StoresAgree, rawVars
  <2>1. a # d
    BY <1>1, <1>3, PipelineAssumption DEF Fresh, PipelineAssumption
  <2> QED  BY <1>6, <2>1 DEF PipeInv, StoresAgree
<1> QED  BY <1>1, <1>7, <1>10, <1>11, <1>12, <1>13 DEF PipeInv, Scanned, Present, rawVars

\* The document in hand was marked or not, and the run goes on or is at its end.
LEMMA StepMarks ==
    ASSUME PipeInv, NEW r \in Runs, run[r].at = "marking",
           NEW u \in RunType, Goes(r, u), Settled(u), u.doc = NoDoc, u.batch \subseteq run[r].batch,
           u.due # {} => /\ u.due = run[r].due /\ u.batch = run[r].batch /\ u.more = run[r].more
                         /\ u.pos = run[r].pos /\ u.failed = run[r].failed
                         /\ MarkOne(Doc(r)),
           \/ MarkOne(Doc(r)) /\ recorded' = Recorded(r)
           \/ UNCHANGED <<rawVars, recorded>>,
           UNCHANGED <<chroma, version, historyVars>>, left' \in [Budgets -> Nat]
    PROVE  PipeInv'
<1> DEFINE d == run[r].doc
<1>1. /\ run[r] \in RunType /\ Settled(run[r]) /\ Covers(run[r]) /\ PipeTyped /\ Scanned
      /\ ~overlapped => Fresh(run[r]) /\ Wrote(run[r])
      /\ RawTyped /\ version \in Nat
  BY OfRun DEF PipeTyped
<1>2. d \in Articles /\ Doc(r) = d /\ run[r].chunks \in Answer /\ NoDoc \notin Articles
  BY <1>1, PipelineAssumption DEF RunType, Settled, Doc, PipelineAssumption
<1>3. /\ RawTyped' /\ Scanned' /\ records <= records'
  BY <1>1, <1>2, CollectionStep
<1>4. UNCHANGED <<slot, records, chroma, version, unsaved, overlapped>>
  BY <1>2 DEF MarkOne, rawVars, historyVars
<1>5. PipeTyped'
  <2>1. recorded' \in [Articles -> Answer]
    BY <1>1, <1>2 DEF Recorded, PipeTyped
  <2>2. /\ u \in RunType' /\ recorded' \in [Articles -> Answer']
        /\ chroma' \in [Articles -> [1..MaxChunks -> 0..version']]
        /\ unsaved' \subseteq Articles /\ overlapped' \in BOOLEAN
    BY <1>1, <1>4, <2>1 DEF PipeTyped, RunType, Answer
  <2> QED  BY <1>1, <1>3, <1>4, <2>2, MoveTyped
<1>6. \A q \in Runs : run'[q] = IF q = r THEN u ELSE run[q]
  BY <1>1 DEF Goes, PipeTyped
<1>7. /\ \A a \in Articles : a # d => raw'[a] = raw[a] /\ recorded'[a] = recorded[a]
      /\ raw'[d] = "processed" /\ raw'[d] # raw[d] => recorded'[d] = run[r].chunks
      /\ \A a \in Articles : raw'[a] = "escalated" => raw[a] = "escalated"
      /\ MarkOne(d) => raw'[d] # "escalated"
      /\ raw'[d] = raw[d] => recorded'[d] = recorded[d] \/ raw[d] = "processed"
  BY <1>1, <1>2 DEF MarkOne, Recorded, rawVars, Present, RawTyped, PipeTyped, States
<1>8. ASSUME NEW q \in Runs PROVE (Settled(run[q]) /\ Covers(run[q]))'
  <2>1. CASE q = r
    <3>1. Settled(u)'
      BY DEF Settled
    <3>2. ASSUME NEW a \in Articles, slot'[a] \in u.due, raw'[a] = "escalated"
          PROVE  a \in u.failed \/ <<slot'[a], a>> \in u.batch \/ (u.more /\ slot'[a] > u.pos)
      <4>1. a # d /\ raw[a] = "escalated" /\ slot[a] \in run[r].due
        BY <1>2, <1>4, <1>7, <3>2
      <4> QED  BY <1>1, <1>2, <1>4, <3>2, <4>1 DEF Covers
    <3>3. Covers(u)'
      BY <3>2 DEF Covers
    <3> QED  BY <1>6, <2>1, <3>1, <3>3 DEF Settled, Covers
  <2>2. CASE q # r
    <3>1. run'[q] = run[q] /\ Settled(run[q]) /\ Covers(run[q])
      BY <1>6, <2>2 DEF PipeInv
    <3> QED  BY <1>4, <1>7, <3>1 DEF Settled, Covers
  <2> QED  BY <2>1, <2>2
<1>9. OneAtATime'
  BY <1>4, <1>6 DEF PipeInv, OneAtATime, Active
<1>10. ASSUME ~overlapped, NEW q \in Runs
       PROVE  (Fresh(run[q]) /\ Wrote(run[q]))'
  <2>1. CASE q = r
    <3>1. u.at # "marking" /\ \A e \in u.batch : e[2] # d /\ e[2] \in Articles /\ raw[e[2]] # "processed"
      BY <1>1, <1>10, PipelineAssumption DEF Settled, Fresh, RunType
    <3> QED  BY <1>6, <1>7, <2>1, <3>1 DEF Fresh, Wrote
  <2>2. CASE q # r
    <3>1. run'[q] = run[q] /\ ~Active(q)
      BY <1>6, <1>10, <2>2 DEF PipeInv, OneAtATime, Active
    <3>2. run[q].doc = NoDoc /\ run[q].batch = {} /\ run[q].at # "marking"
      BY <3>1, OfRun DEF Active, Settled
    <3> QED  BY <3>1, <3>2 DEF Fresh, Wrote
  <2> QED  BY <2>1, <2>2
<1>11. StoresAgree'
  <2> SUFFICES ASSUME NEW a \in Articles, raw'[a] = "processed", ~overlapped, a \notin unsaved,
                      NEW i \in 1..recorded'[a].length
               PROVE  chroma[a][i] = recorded'[a].version
    BY <1>4 DEF StoresAgree
  <2>1. CASE a # d
    BY <1>7, <2>1 DEF PipeInv, StoresAgree
  <2>2. CASE a = d
    <3>1. raw[d] # "processed" /\ Wrote(run[r])
      BY <1>1, <1>2 DEF Fresh
    <3>2. recorded'[d] = run[r].chunks
      BY <1>7, <2>2, <3>1
    <3> QED  BY <2>2, <3>1, <3>2 DEF Wrote
  <2> QED  BY <2>1, <2>2
<1> QED  BY <1>3, <1>4, <1>5, <1>8, <1>9, <1>10, <1>11 DEF PipeInv

LEMMA StepUpsert == ASSUME PipeInv, NEW r \in Runs, Upsert(r) PROVE PipeInv'
BY StepUpserts, OfRun DEF Upsert

LEMMA StepUpsertFails == ASSUME PipeInv, NEW r \in Runs, UpsertFails(r) PROVE PipeInv'
<1>1. left' \in [Budgets -> Nat]
  BY OfRun, SpendTyped DEF UpsertFails, Budgets
<1> QED  BY <1>1, StepUpserts DEF UpsertFails

LEMMA StepMark == ASSUME PipeInv, NEW r \in Runs, Mark(r) PROVE PipeInv'
<1> DEFINE u == [run[r] EXCEPT !.at = "reading", !.doc = NoDoc, !.chunks = NoChunks]
<1>1. run[r].at = "marking" /\ run[r] \in RunType /\ Settled(run[r]) /\ NoRun \in RunType
  BY OfRun, NoRunFine DEF Mark
<1>2. u \in RunType
  BY <1>1 DEF RunType, Points, NoRun
<1>3. /\ u.at = "reading" /\ u.doc = NoDoc /\ u.batch = run[r].batch /\ u.pos = run[r].pos
      /\ u.more = run[r].more /\ u.due = run[r].due /\ u.failed = run[r].failed
  BY <1>1 DEF RunType
<1>4. Goes(r, u) /\ MarkOne(Doc(r)) /\ recorded' = Recorded(r)
      /\ UNCHANGED <<chroma, version, historyVars, left>>
  BY DEF Mark
<1> HIDE DEF u
<1>5. Settled(u)
  BY <1>1, <1>3, PipelineAssumption DEF Settled, RunType, PipelineAssumption
<1> QED  BY <1>1, <1>2, <1>3, <1>4, <1>5, StepMarks, OfRun

LEMMA StepMarkFails == ASSUME PipeInv, NEW r \in Runs, MarkFails(r) PROVE PipeInv'
<1>1. left' \in [Budgets -> Nat]
  BY OfRun, SpendTyped DEF MarkFails, Budgets
<1>2. NoRun \in RunType /\ Settled(NoRun)
  BY OfRun, NoRunFine
<1>3. NoRun.doc = NoDoc /\ NoRun.batch = {} /\ NoRun.due = {}
  BY DEF NoRun
<1> QED  BY <1>1, <1>2, <1>3, StepMarks DEF MarkFails

LEMMA StepStart == ASSUME PipeInv, NEW r \in Runs, Start(r) PROVE PipeInv'
<1> DEFINE u == [NoRun EXCEPT !.at = "reading", !.more = TRUE, !.due = {e[1] : e \in Escalated}]
<1>1. /\ ~Active(r) /\ Goes(r, u) /\ Spend("run")
      /\ overlapped' = (overlapped \/ \E q \in Runs \ {r} : Active(q))
      /\ UNCHANGED <<chroma, recorded, version, unsaved, rawVars>>
  BY DEF Start
<1>2. PipeTyped /\ Scanned /\ NoRun \in RunType /\ version \in Nat
  BY OfRun, NoRunFine
<1>3. /\ {e[1] : e \in Escalated} \subseteq 1..records
      /\ \A a \in Articles : raw[a] = "escalated" => slot[a] \in 1..records
  BY <1>2, EscalatedFacts
<1>4. u \in RunType'
  <2> DEFINE D == {e[1] : e \in Escalated}
  <2> HIDE DEF D
  <2>1. D \in SUBSET (1..records')
    BY <1>1, <1>3 DEF D, rawVars
  <2>2. u = [NoRun EXCEPT !.at = "reading", !.more = TRUE, !.due = D]
    BY DEF D
  <2> HIDE DEF u
  <2> QED  BY <2>1, <2>2, <1>1, <1>2, <1>3 DEF RunType, Answer, Points, rawVars
<1>5. u.at = "reading" /\ u.doc = NoDoc /\ u.batch = {} /\ u.more /\ u.pos = 0
  BY DEF NoRun
<1> HIDE DEF u
<1>6. PipeTyped'
  <2>1. /\ left' \in [Budgets -> Nat] /\ overlapped \in BOOLEAN
        /\ chroma \in [Articles -> [1..MaxChunks -> 0..version]] /\ recorded \in [Articles -> Answer]
    BY <1>1, <1>2, OfRun, SpendTyped DEF Budgets, PipeTyped
  <2>2. /\ RawTyped' /\ records <= records' /\ version' \in Nat /\ version <= version'
        /\ unsaved' \subseteq Articles /\ overlapped' \in BOOLEAN
        /\ chroma' \in [Articles -> [1..MaxChunks -> 0..version']] /\ recorded' \in [Articles -> Answer']
    BY <1>1, <1>2, <2>1 DEF PipeTyped, RawTyped, Answer, rawVars
  <2> QED  BY <1>1, <1>2, <1>4, <2>2, MoveTyped
<1>7. \A q \in Runs : run'[q] = IF q = r THEN u ELSE run[q]
  BY <1>1, <1>2 DEF Goes, PipeTyped
<1>8. Settled(u) /\ Covers(u) /\ Fresh(u) /\ Wrote(u)
  BY <1>3, <1>5 DEF Settled, Covers, Fresh, Wrote
<1>9. (\A q \in Runs : Settled(run[q]) /\ Covers(run[q]))'
  BY <1>1, <1>7, <1>8 DEF PipeInv, Settled, Covers, rawVars
<1>10. OneAtATime'
  BY <1>1, <1>7 DEF PipeInv, OneAtATime, Active
<1>11. (~overlapped => \A q \in Runs : Fresh(run[q]) /\ Wrote(run[q]))'
  <2> SUFFICES ASSUME ~overlapped', NEW q \in Runs PROVE (Fresh(run[q]) /\ Wrote(run[q]))'
    OBVIOUS
  <2>1. ~overlapped /\ UNCHANGED <<raw, chroma, unsaved>>
    BY <1>1 DEF rawVars
  <2>2. Fresh(run'[q]) /\ Wrote(run'[q])
    BY <1>7, <1>8, <2>1 DEF PipeInv
  <2> QED  BY <2>1, <2>2 DEF Fresh, Wrote
<1>12. Scanned' /\ StoresAgree'
  BY <1>1, <1>2, Zenon DEF PipeInv, Scanned, Present, StoresAgree, rawVars
<1> QED  BY <1>6, <1>9, <1>10, <1>11, <1>12 DEF PipeInv

LEMMA StepRuns == PipeInv /\ PipeNext => PipeInv'
<1> SUFFICES ASSUME PipeInv, NEW r \in Runs,
                    \/ Start(r) \/ RunStep(r) \/ Signal(r)
                    \/ Stage1Poisons(r) \/ UpsertFails(r) \/ MarkFails(r) \/ Dies(r)
             PROVE  PipeInv'
  BY DEF PipeNext
<1>1. CASE Stage1Poisons(r) \/ Dies(r)
  <2>1. left' \in [Budgets -> Nat] /\ Active(r)
    BY <1>1, OfRun, SpendTyped DEF Stage1Poisons, Dies, Budgets, Active
  <2> QED  BY <1>1, <2>1, StepEnds DEF Stage1Poisons, Dies
<1>2. CASE RunStep(r)
  BY <1>2, StepRead, StepTake, StepComplete, StepStage1Fails, StepStage2, StepUpsert, StepMark
     DEF RunStep
<1> QED  BY <1>1, <1>2, StepStart, StepSignal, StepUpsertFails, StepMarkFails

-----------------------------------------------------------------------------
(* The steps of the others *)

\* What the scheduler and the expiry do to the collection disturbs no run: what
\* is inserted comes behind everything that was due.
LEMMA LeftTyped == PipeInv => left \in [Budgets -> Nat]
BY DEF PipeInv, PipeTyped, RawTyped

LEMMA StepBeside ==
    ASSUME PipeInv, UNCHANGED pipeVars, left' \in [Budgets -> Nat],
           \/ UNCHANGED rawVars
           \/ \E a \in Articles : InsertOne(a) \/ ExpireOne(a)
    PROVE  PipeInv'
<1>1. /\ PipeTyped /\ Scanned /\ RawTyped
      /\ UNCHANGED <<run, chroma, recorded, version, unsaved, overlapped>>
  BY DEF PipeInv, PipeTyped, pipeVars, historyVars
<1>2. /\ RawTyped' /\ Scanned' /\ records <= records'
      /\ \A b \in Articles : raw'[b] = "escalated" =>
            (raw[b] = "escalated" /\ slot'[b] = slot[b]) \/ slot'[b] > records
      /\ \A b \in Articles : raw'[b] = "processed" => raw[b] = "processed"
  <2>1. CASE UNCHANGED rawVars
    BY <1>1, <2>1 DEF RawTyped, Scanned, Present, rawVars
  <2>2. CASE \E a \in Articles : InsertOne(a) \/ ExpireOne(a)
    <3>1. PICK a \in Articles : InsertOne(a) \/ ExpireOne(a)
      BY <2>2
    <3>2. \A b \in Articles : raw'[b] = "processed" => raw[b] = "processed"
      BY <1>1, <3>1 DEF InsertOne, ExpireOne, RawTyped, rawVars
    <3> QED  BY <1>1, <3>1, <3>2, CollectionStep
  <2> QED  BY <2>1, <2>2
<1>3. PipeTyped'
  <2>1. records \in Nat /\ records' \in Nat
    BY <1>1, <1>2 DEF RawTyped
  <2>2. 1..records \subseteq 1..records'
    BY <1>2, <2>1
  <2>3. RunType \subseteq RunType'
    BY <1>1, <2>2 DEF RunType, Answer
  <2> QED  BY <1>1, <1>2, <2>3 DEF PipeTyped, Answer
<1>4. ASSUME NEW r \in Runs PROVE (Settled(run[r]) /\ Covers(run[r]))'
  <2>1. run[r].due \subseteq 1..records /\ records \in Nat /\ Settled(run[r]) /\ Covers(run[r])
    BY <1>1, OfRun DEF RunType
  <2>2. \A a \in Articles : slot'[a] \in run[r].due /\ raw'[a] = "escalated" =>
           raw[a] = "escalated" /\ slot'[a] = slot[a]
    BY <1>2, <2>1
  <2>3. Covers(run[r])'
    BY <1>1, <2>1, <2>2 DEF Covers
  <2> QED  BY <1>1, <2>1, <2>3 DEF Settled
<1>5. ASSUME ~overlapped, NEW r \in Runs PROVE (Fresh(run[r]) /\ Wrote(run[r]))'
  <2>1. /\ run[r].doc # NoDoc => run[r].doc \in Articles
        /\ \A e \in run[r].batch : e[2] \in Articles
        /\ Fresh(run[r]) /\ Wrote(run[r])
    BY <1>5, OfRun DEF RunType
  <2> QED  BY <1>1, <1>2, <2>1 DEF Fresh, Wrote
<1>6. OneAtATime' /\ StoresAgree'
  BY <1>1, <1>2 DEF PipeInv, OneAtATime, Active, StoresAgree
<1> QED  BY <1>1, <1>2, <1>3, <1>4, <1>5, <1>6 DEF PipeInv

LEMMA PipeStep ==
    ASSUME PipeInv, [Next]_vars
    PROVE  PipeInv'
<1>1. CASE NewsNext /\ UNCHANGED pipeVars
  <2>1. left' \in [Budgets -> Nat]
    BY <1>1, LeftTyped, SpendTyped
       DEF NewsNext, JobStep, Publish, InsertDies, Tick, Fetch, CycleDone, Insert, FetchFails,
           Restart, Budgets
  <2>2. UNCHANGED rawVars \/ \E a \in Articles : InsertOne(a)
    BY <1>1 DEF NewsNext, JobStep, Publish, InsertDies, Tick, Fetch, CycleDone, Insert,
                FetchFails, Restart
  <2> QED  BY <1>1, <2>1, <2>2, StepBeside
<1>2. CASE PipeNext /\ UNCHANGED newsVars
  BY <1>2, StepRuns
<1>3. ASSUME NEW a \in Articles, Expire(a) PROVE PipeInv'
  BY <1>3, LeftTyped, StepBeside DEF Expire
<1>4. CASE UNCHANGED vars
  BY <1>4, LeftTyped, StepBeside DEF vars
<1> QED  BY <1>1, <1>2, <1>3, <1>4 DEF Next

LEMMA PipeStart == Init => PipeInv
<1> SUFFICES ASSUME Init PROVE PipeInv
  OBVIOUS
<1>1. PICK s \in Scenarios :
         /\ slot = s.slots /\ records = s.records /\ left = s.left
         /\ raw = [a \in Articles |-> IF slot[a] > 0 THEN "escalated" ELSE "absent"]
  BY DEF Init
<1>2. /\ records \in Nat /\ slot \in [Articles -> 0..records] /\ left \in [Budgets -> Nat]
      /\ \A a, b \in Articles : slot[a] = slot[b] /\ slot[a] > 0 => a = b
  BY <1>1, RawIntelAssumption DEF RawIntelAssumption
<1>3. /\ RawTyped /\ Scanned
      /\ \A a \in Articles : raw[a] # "processed"
  BY <1>1, <1>2 DEF RawTyped, Scanned, Present, States
<1>4. /\ run = [r \in Runs |-> NoRun] /\ version = 0 /\ unsaved = {} /\ overlapped = FALSE
      /\ chroma = [a \in Articles |-> [i \in 1..MaxChunks |-> 0]]
      /\ recorded = [a \in Articles |-> NoChunks]
  BY DEF Init, PipeInit
<1>5. NoRun \in RunType /\ Settled(NoRun) /\ Covers(NoRun) /\ Fresh(NoRun) /\ Wrote(NoRun)
  BY <1>2, <1>4, NoRunFine
<1>6. NoChunks \in Answer
  BY <1>4, PipelineAssumption DEF Answer, NoChunks, PipelineAssumption
<1>7. PipeTyped
  <2>1. chroma \in [Articles -> [1..MaxChunks -> 0..version]]
    BY <1>4
  <2>2. run \in [Runs -> RunType] /\ recorded \in [Articles -> Answer]
    BY <1>4, <1>5, <1>6
  <2> QED  BY <1>3, <1>4, <2>1, <2>2 DEF PipeTyped
<1>8. OneAtATime /\ StoresAgree
  BY <1>3, <1>4 DEF OneAtATime, Active, NoRun, StoresAgree
<1> QED  BY <1>3, <1>4, <1>5, <1>7, <1>8 DEF PipeInv

-----------------------------------------------------------------------------
(* The theorems about the pipeline *)

LEMMA PipeAlways == Spec => []PipeInv
BY PipeStart, PipeStep, PTL DEF Spec

\* The chunks a processed document records are in ChromaDB, whatever crashed
\* before, unless runs overlapped or ChromaDB failed (pipeline_runner.py:48-55).
THEOREM StoresStayInStep == Spec => []StoresAgree
<1>1. PipeInv => StoresAgree
  BY DEF PipeInv
<1> QED  BY <1>1, PipeAlways, PTL

\* A run at its end has been through all that was escalated when it started,
\* whatever entered and left the collection (mongo_service.py:26-46).
THEOREM RunsMissNothing == Spec => []RunMissesNothing
<1>1. PipeInv => RunMissesNothing
  <2> SUFFICES ASSUME PipeInv, NEW r \in Runs, run[r].at = "done",
                      NEW a \in Articles, slot[a] \in run[r].due, raw[a] = "escalated"
               PROVE  a \in run[r].failed
    BY DEF RunMissesNothing
  <2>1. Settled(run[r]) /\ Covers(run[r])
    BY OfRun
  <2>2. run[r].doc = NoDoc /\ NoDoc \notin Articles /\ run[r].batch = {} /\ ~run[r].more
    BY <2>1, PipelineAssumption DEF Settled, PipelineAssumption
  <2> QED  BY <2>1, <2>2 DEF Covers
<1> QED  BY <1>1, PipeAlways, PTL

\* A processed document stays so until it expires, and is not analysed again
\* unless runs overlap (news_fetcher.py:91-104, mongo_service.py:26-29).
THEOREM ProcessedStays == Spec => ProcessedIsFinal
<1> DEFINE Final == \A a \in Articles : raw[a] = "processed" =>
                      /\ raw'[a] \in {"processed", "expired"}
                      /\ ~overlapped => recorded'[a] = recorded[a]
<1>1. PipeInv /\ [Next]_vars => [Final]_vars
  <2> SUFFICES ASSUME PipeInv, Next, NEW a \in Articles, raw[a] = "processed"
               PROVE  /\ raw'[a] \in {"processed", "expired"}
                      /\ ~overlapped => recorded'[a] = recorded[a]
    OBVIOUS
  <2>0. RawTyped /\ PipeTyped
    BY DEF PipeInv, PipeTyped
  <2>1. CASE NewsNext /\ UNCHANGED pipeVars
    <3>1. UNCHANGED raw \/ \E b \in Articles : InsertOne(b)
      BY <2>1 DEF NewsNext, JobStep, Publish, InsertDies, Tick, Fetch, CycleDone, Insert,
                  FetchFails, Restart, rawVars
    <3>2. raw'[a] = "processed"
      BY <2>0, <3>1 DEF InsertOne, Present, rawVars, RawTyped
    <3> QED  BY <2>1, <3>2 DEF pipeVars
  <2>2. ASSUME NEW r \in Runs, Mark(r) \/ MarkFails(r)
        PROVE  raw'[a] = "processed" /\ (~overlapped => recorded'[a] = recorded[a])
    <3>1. run[r].at = "marking" /\ Doc(r) = run[r].doc
      BY <2>2 DEF Mark, MarkFails, Doc
    <3>2. Settled(run[r]) /\ (~overlapped => Fresh(run[r]))
      BY OfRun
    <3>3. ~overlapped => Doc(r) # a
      BY <3>1, <3>2 DEF Settled, Fresh
    <3> QED  BY <2>0, <2>2, <3>3 DEF Mark, MarkFails, MarkOne, Recorded, rawVars, RawTyped, PipeTyped
  <2>3. CASE PipeNext /\ UNCHANGED newsVars
    <3>1. (UNCHANGED <<raw, recorded>>) \/ \E r \in Runs : Mark(r) \/ MarkFails(r)
      BY <2>3 DEF PipeNext, Start, RunStep, Signal, Stage1Poisons, UpsertFails, Dies, Read,
                  Take, Complete, Stage1Fails, Stage2, Upsert, rawVars
    <3> QED  BY <2>2, <3>1
  <2>4. ASSUME NEW b \in Articles, Expire(b)
        PROVE  raw'[a] \in {"processed", "expired"} /\ recorded' = recorded
    BY <2>0, <2>4 DEF Expire, ExpireOne, RawTyped, pipeVars
  <2> QED  BY <2>1, <2>3, <2>4 DEF Next
<1> QED  BY <1>1, PipeAlways, PTL DEF Spec, ProcessedIsFinal

\* Type correctness; the collection is what its scan finds, and only answers
\* that were given are stored.
THEOREM AgentTypes == Spec => []AgentTypeOK
<1>1. NewsInv /\ PipeInv => AgentTypeOK
  <2> SUFFICES ASSUME NewsInv, PipeInv PROVE AgentTypeOK
    OBVIOUS
  <2>1. NewsTyped /\ PipeTyped /\ RawTyped /\ Scanned
    BY DEF NewsInv, PipeInv, PipeTyped
  <2>2. \A r \in Runs : run[r].at \in Points /\ run[r].batch \subseteq Nat \X Articles
    BY <2>1 DEF PipeTyped, RunType
  <2>3. ASSUME NEW a \in Articles
        PROVE  recorded[a].version <= version /\ Range(chroma[a]) \subseteq 0..version
    <3>1. recorded[a] \in Answer /\ chroma[a] \in [1..MaxChunks -> 0..version] /\ version \in Nat
      BY <2>1 DEF PipeTyped
    <3>2. recorded[a].version \in 0..version
      BY <3>1 DEF Answer
    <3>3. Range(chroma[a]) \subseteq 0..version
      BY <3>1 DEF Range
    <3> QED  BY <3>1, <3>2, <3>3
  <2> QED  BY <2>1, <2>2, <2>3 DEF AgentTypeOK, NewsTyped, RawTyped, Scanned
<1> QED  BY <1>1, NewsAlways, PipeAlways, PTL
=============================================================================
