----------------------------- MODULE RawIntel -----------------------------
(***************************************************************************)
(* The collection raw_intel that both halves of the intelligence agent      *)
(* share: the scheduler inserts articles (NewsIngestion), the pipeline reads *)
(* and marks them (AnalysisPipeline), MongoDB deletes them after thirty      *)
(* days.  A document's identifier is the hash of its URL, so a document and   *)
(* its article are one here.                                               *)
(*                                                                         *)
(* Every keyword of the risk score weighs at least what escalation asks for,  *)
(* so whatever is stored starts escalated.                                  *)
(***************************************************************************)
EXTENDS Naturals, FiniteSets, Functions

CONSTANTS
    Articles,
    Retention,     \* thirty days, in the clock's unit
    Scenarios      \* bounds: what is stored at first, and how often things happen

\* What a scenario bounds.
Budgets == {"tick", "publish", "run", "fault", "signal"}

ASSUME RawIntelAssumption ==
    \A s \in Scenarios :
        /\ s.records \in Nat /\ s.slots \in [Articles -> 0..s.records]
        /\ \A a, b \in Articles : s.slots[a] = s.slots[b] /\ s.slots[a] > 0 => a = b
        /\ s.left \in [Budgets -> Nat]

VARIABLES
    now,           \* the clock, in units of five minutes
    raw,           \* each article: "absent", "escalated", "processed" or "expired"
    slot,          \* where a collection scan meets each article; 0 for none
    records,       \* the last slot given; none is given twice
    born,          \* ingested_at
    left           \* bound: how often each kind of event may still happen

rawVars == <<raw, slot, records, born>>

States == {"absent", "escalated", "processed", "expired"}

\* An event of a kind that the scenario bounds.
Spend(k) ==
    /\ left[k] > 0
    /\ left' = [left EXCEPT ![k] = @ - 1]

Present(a) == raw[a] \in {"escalated", "processed"}

-----------------------------------------------------------------------------
(* Mutated definitions: plausible bugs, each of which breaks one property of *)
(* Agent (PROJECT.json says which).  No specification uses them.             *)

\* Articles are replaced instead of inserted.
MutInsertOne(a) ==
    /\ raw' = [raw EXCEPT ![a] = "escalated"]
    /\ born' = [born EXCEPT ![a] = now]
    /\ records' = IF Present(a) THEN records ELSE records + 1
    /\ slot' = [slot EXCEPT ![a] = IF Present(a) THEN @ ELSE records']

\* The update inserts a document that is gone (upsert=True).
MutMarkOne(a) ==
    /\ raw' = [raw EXCEPT ![a] = "processed"]
    /\ UNCHANGED <<slot, records, born>>

-----------------------------------------------------------------------------
(* What MongoDB does *)

\* insert_one raises DuplicateKeyError, and changes nothing, for one that is present.
InsertOne(a) ==
    IF Present(a)
    THEN UNCHANGED rawVars
    ELSE /\ raw' = [raw EXCEPT ![a] = "escalated"]
         /\ born' = [born EXCEPT ![a] = now]
         /\ records' = records + 1
         /\ slot' = [slot EXCEPT ![a] = records']

\* update_one of a document that is gone matches nothing.
MarkOne(a) ==
    /\ raw' = IF Present(a) THEN [raw EXCEPT ![a] = "processed"] ELSE raw
    /\ UNCHANGED <<slot, records, born>>

\* The TTL index on ingested_at.
ExpireOne(a) ==
    /\ Present(a) /\ born[a] + Retention <= now
    /\ raw' = [raw EXCEPT ![a] = "expired"]
    /\ slot' = [slot EXCEPT ![a] = 0]
    /\ UNCHANGED <<records, born>>
=============================================================================
