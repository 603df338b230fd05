--------------------------- MODULE NewsIngestion ---------------------------
(***************************************************************************)
(* The scheduler of the intelligence agent, intelligence_agent/cron/job.py,  *)
(* and its job, ingestion/news_fetcher.py: at once and then every fifteen     *)
(* minutes it asks NewsAPI for what was published in the last twenty, and     *)
(* inserts what is new and risky.                                          *)
(*                                                                         *)
(* `schedule` counts the fifteen minutes from the end of a job, and a job     *)
(* takes the time it takes, so two requests are further apart than that.     *)
(* NewsAPI is external: it lists an article from the instant of publishing.   *)
(***************************************************************************)
EXTENDS RawIntel

CONSTANTS
    Horizon,       \* bound: the clock stops here
    JobLimit,      \* the longest job: every request of it has its timeout
    Window,        \* 4: twenty minutes
    Period,        \* 3: fifteen minutes
    PageSize,      \* 50, the most articles of one answer
    Noise,         \* articles without a keyword of the risk score
    Invalid        \* articles the model of a document rejects

ASSUME NewsAssumption ==
    /\ IsFiniteSet(Articles)
    /\ {Horizon, JobLimit, Window, Period, PageSize} \subseteq Nat
    /\ \A s \in Scenarios : s.due \in Nat   \* when the first job is due

VARIABLES
    published,     \* when each article was, or Never
    job,           \* what the scheduler does, and when the next job is due
    page,          \* articles of the answer that are still to be inserted
    requests       \* history: when the answers of completed jobs were asked for

newsVars == <<published, job, page, requests>>

Never == Horizon + 1
Risky == Articles \ (Noise \cup Invalid)

-----------------------------------------------------------------------------
(* Mutated definitions: plausible bugs, each of which breaks one property of *)
(* Agent (PROJECT.json says which).  No specification uses them.             *)

\* The window is the period, without its buffer.
MutFrom(t) == {a \in Articles : published[a] <= t /\ published[a] + Period >= t}

-----------------------------------------------------------------------------
(* The world *)

\* The articles NewsAPI has for a request made at t.
From(t) == {a \in Articles : published[a] <= t /\ published[a] + Window >= t}

Publish(a) ==
    /\ published[a] = Never /\ Spend("publish")
    /\ published' = [published EXCEPT ![a] = now]
    /\ UNCHANGED <<job, page, requests, now, rawVars>>

\* The scheduler looks every second, so a job that is due starts in its minute.
Tick ==
    /\ now < Horizon /\ Spend("tick")
    /\ IF job.at = "idle" THEN now < job.due ELSE now < job.began + JobLimit
    /\ now' = now + 1
    /\ UNCHANGED <<newsVars, rawVars>>

-----------------------------------------------------------------------------
(* The job *)

NewsInit(first) ==
    /\ published = [a \in Articles |-> IF Present(a) THEN 0 ELSE Never]
    /\ job = [at |-> "idle", due |-> first, began |-> 0, good |-> FALSE]
    /\ page = {}
    /\ requests = {}

\* The request: the newest articles of the window, a page at most.
Newest(S) ==
    {T \in SUBSET S : /\ Cardinality(T) = IF Cardinality(S) < PageSize THEN Cardinality(S) ELSE PageSize
                      /\ \A a \in T, b \in S \ T : published[b] <= published[a]}

Fetch ==
    /\ job.at = "idle" /\ job.due <= now
    /\ page' \in Newest(From(now))
    /\ job' = [job EXCEPT !.at = "inserting", !.began = now, !.good = TRUE]
    /\ UNCHANGED <<published, requests, now, rawVars, left>>

\* No key, a timeout, a status, a body that is no JSON: an empty list.
FetchFails ==
    /\ job.at = "idle" /\ job.due <= now
    /\ Spend("fault")
    /\ page' = {}
    /\ job' = [job EXCEPT !.at = "inserting", !.began = now, !.good = FALSE]
    /\ UNCHANGED <<published, requests, now, rawVars>>

\* Newest first.
Topmost(a) == a \in page /\ \A b \in page : published[b] <= published[a]

\* One article: noise and what fails validation is skipped, a duplicate passed.
Insert(a) ==
    /\ job.at = "inserting" /\ Topmost(a)
    /\ IF a \in Risky THEN InsertOne(a) ELSE UNCHANGED rawVars
    /\ page' = page \ {a}
    /\ UNCHANGED <<published, job, requests, now, left>>

\* The job is over, and the next one counted from here.
Rescheduled == [at |-> "idle", due |-> now + Period, began |-> 0, good |-> FALSE]

CycleDone ==
    /\ job.at = "inserting" /\ page = {}
    /\ requests' = requests \cup (IF job.good THEN {job.began} ELSE {})
    /\ job' = Rescheduled
    /\ UNCHANGED <<published, page, now, rawVars, left>>

\* Any other exception of MongoDB, with the insertion done or not: the rest of
\* the page is dropped, and job() logs it.
InsertDies(a) ==
    /\ job.at = "inserting" /\ Topmost(a) /\ a \in Risky
    /\ Spend("fault")
    /\ InsertOne(a) \/ UNCHANGED rawVars
    /\ page' = {}
    /\ job' = Rescheduled
    /\ UNCHANGED <<published, requests, now>>

\* The process ends anywhere and is started again; the first job runs at once.
Restart ==
    /\ Spend("fault")
    /\ page' = {}
    /\ job' = [at |-> "idle", due |-> now, began |-> 0, good |-> FALSE]
    /\ UNCHANGED <<published, requests, now, rawVars>>

JobStep == Fetch \/ CycleDone \/ \E a \in Articles : Insert(a)

NewsNext ==
    \/ \E a \in Articles : Publish(a) \/ InsertDies(a)
    \/ Tick
    \/ JobStep \/ FetchFails \/ Restart
=============================================================================
