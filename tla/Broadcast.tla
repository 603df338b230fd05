----------------------------- MODULE Broadcast -----------------------------
(***************************************************************************)
(* The backend's WebSocket broadcast: ws_router.py and the background task of *)
(* agent_router.py.  The event loop runs the endpoints, one coroutine step at  *)
(* a time; each triggered run publishes from a thread of the pool, at any      *)
(* point between two steps of the loop or of another thread.  Both work on     *)
(* one list of queues, without a lock.                                       *)
(*                                                                         *)
(* A queue is named by its connection, and only its length matters.  The      *)
(* summaries and their polling are in Browser.                              *)
(***************************************************************************)
EXTENDS Naturals, Sequences, FiniteSets, Functions, SequencesExt

CONSTANTS
    Conns,      \* the connections clients make
    Runs,       \* the runs that are triggered
    QueueCap,   \* maxsize of a queue
    Scenarios   \* where the backend may be when the model sets in: the queues of
                \* connections that are served, with how much in each, the
                \* connections still to come, the runs still to end, and those
                \* that have failed and begin to publish it

ASSUME BroadcastAssumption ==
    /\ IsFiniteSet(Conns)
    /\ IsFiniteSet(Runs) /\ Runs # {}
    /\ QueueCap \in Nat \ {0}
    /\ \A s \in Scenarios :
          /\ s.served \in Seq(Conns) /\ IsInjective(s.served)
          /\ s.backlog \in [Conns -> 0..QueueCap]

VARIABLES
    queues,     \* _agent_queues
    inbox,      \* how many entries are in each connection's queue
    at,         \* where ws_endpoint is; "stopping" once stop_event is set
    client,     \* the client is there, and is served or going to be
    listening,  \* agent_listener runs
    run,        \* each background task, with the history of its publication
    full        \* history: the queues that put_nowait found full

connVars == <<at, client, listening>>
vars == <<queues, inbox, connVars, run, full>>

Statuses == {"completed", "failed"}

\* The first loop of publish_agent_result, in the steps between which other
\* threads and the event loop may run: the iterator takes a queue, put_nowait
\* tests whether it is full, appends the entry, and wakes who waits for one.
Looping == {"iterating", "testing", "putting", "waking"}

\* A task's call of publish_agent_result: the iterator's index, q as a set of
\* one queue at most, and the list "dead".  The rest is history: the queues that
\* were in the list when the loop began and that it has not come to, those it
\* came to, those that left the list during the loop, and those it removed.
Publication(w) ==
    [at |-> "iterating", status |-> w, index |-> 1, q |-> {}, dead |-> <<>>,
     due |-> Range(queues), visited |-> {}, left |-> {}, pruned |-> {}]

\* No publication is under way.
Idle(point) ==
    [at |-> point, status |-> "none", index |-> 1, q |-> {}, dead |-> <<>>,
     due |-> {}, visited |-> {}, left |-> {}, pruned |-> {}]

Init ==
    \E s \in Scenarios :
        LET Served == Range(s.served)
        IN  /\ queues = s.served
            /\ inbox = [c \in Conns |-> IF c \in Served THEN s.backlog[c] ELSE 0]
            /\ at = [c \in Conns |-> IF c \in Served THEN "serving"
                                     ELSE IF c \in s.coming THEN "none" ELSE "gone"]
            /\ client = [c \in Conns |-> c \in Served]
            /\ listening = client
            /\ run = [r \in Runs |-> IF r \in s.reporting THEN Publication("failed")
                                     ELSE Idle(IF r \in s.working THEN "working" ELSE "over")]
            /\ full = {}

-----------------------------------------------------------------------------
(* Helpers *)

\* list.remove(q); an iteration in progress goes on at its index.
Without(c) == RemoveAt(queues, CHOOSE i \in DOMAIN queues : queues[i] = c)

\* The runs, with the departure of c noted by those that are iterating.
Noticing(c, runs) ==
    [r \in Runs |-> IF runs[r].at \in Looping
                    THEN [runs[r] EXCEPT !.left = @ \cup {c}] ELSE runs[r]]

\* Between its test and its removal a connection does not yield to the others.
LoopFree == \A c \in Conns : at[c] # "removing"

\* The iterator of r is about to take the queue of c.
AtQueue(r, c) ==
    /\ run[r].at = "iterating" /\ run[r].index <= Len(queues)
    /\ c = queues[run[r].index]

-----------------------------------------------------------------------------
(* Mutated definitions: plausible bugs, each of which breaks a property.    *)

\* The queues are made without a maxsize.
MutHasRoom(r, c) ==
    /\ run[r].at = "testing" /\ c \in run[r].q
    /\ run' = [run EXCEPT ![r].at = "putting"]
    /\ UNCHANGED <<queues, inbox, connVars, full>>

\* The first full queue ends the loop.
MutStopAtFull(r, c) ==
    /\ run[r].at = "testing" /\ c \in run[r].q /\ inbox[c] >= QueueCap
    /\ run' = [run EXCEPT ![r].at = "pruning", ![r].q = {}, ![r].dead = Append(@, c)]
    /\ full' = full \cup {c}
    /\ UNCHANGED <<queues, inbox, connVars>>

\* A client that leaves is not noticed before something is sent to it.
MutReaderLeaves(c) ==
    /\ LoopFree /\ at[c] = "serving" /\ ~client[c] /\ ~listening[c]
    /\ at' = [at EXCEPT ![c] = "stopping"]
    /\ UNCHANGED <<queues, inbox, client, listening, run, full>>

\* The queue that was removed is not taken off "dead".
MutPrune(r) ==
    /\ run[r].at = "pruning" /\ run[r].dead # <<>>
    /\ LET c == Head(run[r].dead)
       IN  /\ c \in Range(queues)
           /\ queues' = Without(c)
           /\ run' = Noticing(c, [run EXCEPT ![r].pruned = @ \cup {c}])
    /\ UNCHANGED <<inbox, connVars, full>>

-----------------------------------------------------------------------------
(* ws_endpoint *)

Accept(c) ==
    /\ LoopFree /\ at[c] = "none"
    /\ at' = [at EXCEPT ![c] = "starting"]
    /\ client' = [client EXCEPT ![c] = TRUE]
    /\ queues' = Append(queues, c)
    /\ UNCHANGED <<inbox, listening, run, full>>

ClientLeaves(c) ==
    /\ client[c]
    /\ client' = [client EXCEPT ![c] = FALSE]
    /\ UNCHANGED <<queues, inbox, at, listening, run, full>>

\* The init message is sent, and the three loops start.
SendInit(c) ==
    /\ LoopFree /\ at[c] = "starting" /\ client[c]
    /\ at' = [at EXCEPT ![c] = "serving"]
    /\ listening' = [listening EXCEPT ![c] = TRUE]
    /\ UNCHANGED <<queues, inbox, client, run, full>>

\* The coroutine ends.  Nobody reads the queue any more, but a thread that holds
\* it may still put to it.
Gone(c) == at' = [at EXCEPT ![c] = "gone"]

\* The loops are over, or never began.  finally: the test whether the queue is in the list.
Leave(c) ==
    /\ client' = [client EXCEPT ![c] = FALSE]
    /\ listening' = [listening EXCEPT ![c] = FALSE]
    /\ IF c \in Range(queues) THEN at' = [at EXCEPT ![c] = "removing"] ELSE Gone(c)
    /\ UNCHANGED <<queues, inbox, run, full>>

\* MongoDB fails, or the client is gone.
StartFails(c) == LoopFree /\ at[c] = "starting" /\ Leave(c)

\* reader: the client disconnects, or sends what is no JSON object.  It is going
\* to be cut off, and what it does matters no more.
ReaderStops(c) ==
    /\ at[c] = "serving"
    /\ at' = [at EXCEPT ![c] = "stopping"]
    /\ client' = [client EXCEPT ![c] = FALSE]
    /\ UNCHANGED <<queues, inbox, listening, run, full>>

ReaderLeaves(c) == LoopFree /\ ~client[c] /\ ReaderStops(c)
BadMessage(c)   == LoopFree /\ client[c] /\ ReaderStops(c)

\* agent_listener gets an entry and sends it.  To a client that is gone the send
\* may raise, which ends the listener, or do nothing.
Forward(c) ==
    /\ LoopFree /\ listening[c] /\ inbox[c] > 0
    /\ inbox' = [inbox EXCEPT ![c] = @ - 1]
    /\ \E on \in BOOLEAN :
          /\ client[c] => on
          /\ listening' = [listening EXCEPT ![c] = on]
    /\ UNCHANGED <<queues, at, client, run, full>>

\* The loops look at stop_event, after each entry and after a second without
\* one; gather returns when all three have ended.
Gathered(c) == LoopFree /\ at[c] = "stopping" /\ Leave(c)

\* And its removal; if a thread has removed it in between this raises, which
\* ends the endpoint as well.
RemoveOwn(c) ==
    /\ at[c] = "removing"
    /\ IF c \in Range(queues)
       THEN queues' = Without(c) /\ run' = Noticing(c, run)
       ELSE UNCHANGED <<queues, run>>
    /\ Gone(c)
    /\ UNCHANGED <<inbox, client, listening, full>>

-----------------------------------------------------------------------------
(* _run_in_background and publish_agent_result *)

\* run_orchestrator returns, whichever of its services failed, or raises.
Orchestrated(r) ==
    /\ run[r].at = "working"
    /\ \E w \in Statuses : run' = [run EXCEPT ![r] = Publication(w)]
    /\ UNCHANGED <<queues, inbox, connVars, full>>

\* The exception of a publication inside the try is published as a failure; the
\* one inside the except clause ends the task.
Raised(r) ==
    IF run[r].status = "completed"
    THEN Publication("failed")
    ELSE Idle("over")

Take(r, c) ==
    /\ AtQueue(r, c)
    /\ run' = [run EXCEPT ![r].at = "testing", ![r].index = @ + 1, ![r].q = {c},
                          ![r].due = @ \ {c}, ![r].visited = @ \cup {c}]
    /\ UNCHANGED <<queues, inbox, connVars, full>>

\* full() answers no.  Nothing holds the room for this thread.
HasRoom(r, c) ==
    /\ run[r].at = "testing" /\ c \in run[r].q /\ inbox[c] < QueueCap
    /\ run' = [run EXCEPT ![r].at = "putting"]
    /\ UNCHANGED <<queues, inbox, connVars, full>>

QueueFull(r, c) ==
    /\ run[r].at = "testing" /\ c \in run[r].q /\ inbox[c] >= QueueCap
    /\ run' = [run EXCEPT ![r].at = "iterating", ![r].q = {}, ![r].dead = Append(@, c)]
    /\ full' = full \cup {c}
    /\ UNCHANGED <<queues, inbox, connVars>>

Put(r, c) ==
    /\ run[r].at = "putting" /\ c \in run[r].q
    /\ inbox' = [inbox EXCEPT ![c] = @ + 1]
    /\ run' = [run EXCEPT ![r].at = "waking"]
    /\ UNCHANGED <<queues, connVars, full>>

Woken(r) ==
    /\ run[r].at = "waking"
    /\ run' = [run EXCEPT ![r].at = "iterating", ![r].q = {}]
    /\ UNCHANGED <<queues, inbox, connVars, full>>

\* An asyncio queue is not made for threads.  If the listener's wait times out,
\* or another thread wakes it, just while this one does, put_nowait raises
\* although the entry is queued.
WakeRaises(r, c) ==
    /\ run[r].at = "waking" /\ c \in run[r].q /\ listening[c]
    /\ run' = [run EXCEPT ![r] = Raised(r)]
    /\ UNCHANGED <<queues, inbox, connVars, full>>

LoopEnds(r) ==
    /\ run[r].at = "iterating" /\ run[r].index > Len(queues)
    /\ run' = [run EXCEPT ![r].at = "pruning", ![r].index = 1, ![r].visited = {}]
    /\ UNCHANGED <<queues, inbox, connVars, full>>

Prune(r) ==
    /\ run[r].at = "pruning" /\ run[r].dead # <<>>
    /\ LET c == Head(run[r].dead)
       IN  /\ c \in Range(queues)
           /\ queues' = Without(c)
           /\ run' = Noticing(c, [run EXCEPT ![r].dead = Tail(@), ![r].pruned = @ \cup {c}])
    /\ UNCHANGED <<inbox, connVars, full>>

\* list.remove raises if the queue is gone.
PruneRaises(r) ==
    /\ run[r].at = "pruning" /\ run[r].dead # <<>>
    /\ Head(run[r].dead) \notin Range(queues)
    /\ run' = [run EXCEPT ![r] = Raised(r)]
    /\ UNCHANGED <<queues, inbox, connVars, full>>

RunOver(r) ==
    /\ run[r].at = "pruning" /\ run[r].dead = <<>>
    /\ run' = [run EXCEPT ![r] = Idle("over")]
    /\ UNCHANGED <<queues, inbox, connVars, full>>

-----------------------------------------------------------------------------
ConnStep(c) ==
    \/ SendInit(c) \/ StartFails(c) \/ ReaderLeaves(c) \/ Forward(c)
    \/ Gathered(c) \/ RemoveOwn(c)

RunStep(r) ==
    \/ Orchestrated(r)
    \/ \E c \in Conns : Take(r, c) \/ HasRoom(r, c) \/ QueueFull(r, c)
                        \/ Put(r, c) \/ WakeRaises(r, c)
    \/ Woken(r) \/ LoopEnds(r) \/ Prune(r) \/ PruneRaises(r) \/ RunOver(r)

Next ==
    \/ \E c \in Conns : Accept(c) \/ ClientLeaves(c) \/ BadMessage(c) \/ ConnStep(c)
    \/ \E r \in Runs : RunStep(r)

\* The event loop runs every coroutine that can go on, and its timers fire.
\* Nothing is assumed of clients, or of the threads.
Fairness == \A c \in Conns : WF_vars(ConnStep(c))

SafeSpec == Init /\ [][Next]_vars
Spec == SafeSpec /\ Fairness

-----------------------------------------------------------------------------
(* Properties *)

\* Types.  Each queue is in the list once.  Several threads may find the last
\* place of a queue free before one of them appends, so maxsize is exceeded, but
\* by no more than the other runs (ws_router.py:20, 30).
BroadcastTypeOK ==
    /\ queues \in Seq(Conns) /\ IsInjective(queues)
    /\ inbox \in [Conns -> 0..(QueueCap + Cardinality(Runs) - 1)]
    /\ at \in [Conns -> {"none", "starting", "serving", "stopping", "removing", "gone"}]
    /\ client \in [Conns -> BOOLEAN] /\ listening \in [Conns -> BOOLEAN]
    /\ run \in [Runs -> [at : Looping \cup {"working", "pruning", "over"},
                         status : Statuses \cup {"none"}, index : Nat \ {0},
                         q : SUBSET Conns, dead : Seq(Conns), due : SUBSET Conns,
                         visited : SUBSET Conns, left : SUBSET Conns, pruned : SUBSET Conns]]
    /\ full \subseteq Conns

\* A publication comes to each queue once at most.  One that was in the list
\* all the time is passed over only if others left it meanwhile, one for one, as
\* the iteration goes by position; and a connection that is open is out of the
\* list only if its queue has been full (ws_router.py:18-24, 72-76).
HeardOnceOrForAReason ==
    /\ \A r \in Runs, c \in Conns : AtQueue(r, c) => c \notin run[r].visited
    /\ \A r \in Runs : run[r].at = "pruning" =>
         Cardinality(run[r].due \cap Range(queues)) <= Cardinality(run[r].left)
    /\ \A c \in Conns : at[c] \notin {"none", "gone"} => c \in Range(queues) \cup full

\* A run that completed is reported as failed as well, or its task dies, only if
\* somebody else took a queue off the list that the run had found full, or the
\* queue's own threading failed it: no run trips over what it did itself
\* (agent_router.py:14-23, ws_router.py:23-24).
TripsOnOthersOnly ==
    \A r \in Runs : run[r].at = "pruning" /\ run[r].dead # <<>> =>
        LET c == Head(run[r].dead)
        IN  /\ c \in full
            /\ c \notin Range(queues) => c \notin run[r].pruned

\* The endpoint of a client that is gone ends and leaves nothing in the list,
\* whatever the threads do to it; and what is queued for a client is sent, or
\* the endpoint ends (ws_router.py:34-77).
EndpointsSettle ==
    \A c \in Conns :
        /\ (at[c] # "none" /\ ~client[c]) ~> (at[c] = "gone" /\ c \notin Range(queues))
        /\ inbox[c] > 0 ~> (inbox[c] = 0 \/ at[c] = "gone")
=============================================================================
