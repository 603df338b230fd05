----------------------------- MODULE WorkerPool -----------------------------
(***************************************************************************)
(* The generic goroutine pool of the scraping gateway,                     *)
(* scrapers/pkg/workerpool/pool.go: a buffered task channel, a context     *)
(* derived from the one NewPool was given, a wait group of workers, and    *)
(* the two calls clients make, Submit and Stop.                            *)
(*                                                                         *)
(* A select statement with several ready cases takes any of them, so each  *)
(* case is an action of its own.  A case of a worker's or a submitter's    *)
(* select is one atomic step, exactly as the Go runtime executes it under  *)
(* the channel lock.  A call to Submit is identified with the task it      *)
(* offers: the same pointer submitted twice counts as two tasks.           *)
(***************************************************************************)
EXTENDS Naturals, Sequences, FiniteSets, Functions, SequencesExt

CONSTANTS
    Tasks,        \* the calls of Submit that clients may make, one per task
    Workers,      \* the goroutines Start launches, "concurrency" of them
    Submitters,   \* the goroutines that call Submit
    None          \* no task in hand

ASSUME PoolAssumption ==
    /\ IsFiniteSet(Workers) /\ Workers # {}
    /\ None \notin Tasks

VARIABLES
    parentDone,   \* the context passed to NewPool is cancelled
    poolDone,     \* p.ctx, derived from it, is cancelled
    taskChan,     \* p.taskChan, oldest task first
    chanClosed,   \* close(p.taskChan) has been executed
    offering,     \* offering[s]: the task s is inside Submit with, or None
    running,      \* running[w]: the task w is inside Execute with, or None
    exited,       \* workers that returned, each having called wg.Done
    stop,         \* where the call of Stop is
    reply,        \* reply[t]: what Submit(t) answered
    accepted,     \* history: the tasks Submit answered nil for, in order
    started       \* history: the tasks handed to Execute, in order

chanVars  == <<taskChan, chanClosed>>
ctxVars   == <<parentDone, poolDone>>
poolVars  == <<parentDone, poolDone, taskChan, chanClosed, offering, running,
               exited, stop, reply, accepted, started>>

\* make(chan Task, concurrency*2)
TaskCap == 2 * Cardinality(Workers)

Replies == {"none", "nil", "stopped", "panic"}
StopPoints == {"idle", "close", "wait", "returned"}

\* NewPool followed by Start: every worker is at its select.
PoolInit ==
    /\ parentDone = FALSE
    /\ poolDone = FALSE
    /\ taskChan = <<>>
    /\ chanClosed = FALSE
    /\ offering = [s \in Submitters |-> None]
    /\ running = [w \in Workers |-> None]
    /\ exited = {}
    /\ stop = "idle"
    /\ reply = [t \in Tasks |-> "none"]
    /\ accepted = <<>>
    /\ started = <<>>

-----------------------------------------------------------------------------
(* Steps shared by the actions below *)

SubmitReturn(s, answer) ==
    /\ reply' = [reply EXCEPT ![offering[s]] = answer]
    /\ offering' = [offering EXCEPT ![s] = None]

AtSelect(w) == w \notin exited /\ running[w] = None

-----------------------------------------------------------------------------
(* Mutated actions: plausible bugs, each of which breaks one property of the *)
(* pool (PROJECT.json says which).  No specification uses them.              *)

\* The worker takes the newest task.
MutTakeNewest(w) ==
    /\ AtSelect(w) /\ taskChan # <<>>
    /\ running' = [running EXCEPT ![w] = Last(taskChan)]
    /\ started' = Append(started, Last(taskChan))
    /\ taskChan' = Front(taskChan)
    /\ UNCHANGED <<ctxVars, chanClosed, offering, exited, stop, reply, accepted>>

\* Submit reports the cancelled context although it has queued the task.
MutRefuseAfterSend(s) ==
    /\ offering[s] # None /\ poolDone
    /\ taskChan' = Append(taskChan, offering[s])
    /\ accepted' = Append(accepted, offering[s])
    /\ SubmitReturn(s, "stopped")
    /\ UNCHANGED <<ctxVars, chanClosed, running, exited, stop, started>>

\* Submit watches a flag that only Stop sets, not the context.
MutRefuseOnStopOnly(s) ==
    /\ offering[s] # None /\ stop # "idle"
    /\ SubmitReturn(s, "stopped")
    /\ UNCHANGED <<ctxVars, chanVars, running, exited, stop, accepted, started>>

\* The worker returns after a task that failed instead of looping.
MutFinishExits(w) ==
    /\ running[w] # None
    /\ running' = [running EXCEPT ![w] = None]
    /\ exited' = exited \cup {w}
    /\ UNCHANGED <<ctxVars, chanVars, offering, stop, reply, accepted, started>>

\* Stop without wg.Wait.
MutReturnAtOnce ==
    /\ stop = "wait"
    /\ stop' = "returned"
    /\ UNCHANGED <<ctxVars, chanVars, offering, running, exited, reply,
                   accepted, started>>

-----------------------------------------------------------------------------
(* Submit *)

SubmitCall(s, t) ==
    /\ offering[s] = None
    /\ reply[t] = "none"
    /\ \A s2 \in Submitters : offering[s2] # t
    /\ offering' = [offering EXCEPT ![s] = t]
    /\ UNCHANGED <<ctxVars, chanVars, running, exited, stop, reply, accepted,
                   started>>

\* case p.taskChan <- t: return nil
SubmitSend(s) ==
    /\ offering[s] # None
    /\ ~chanClosed
    /\ Len(taskChan) < TaskCap
    /\ taskChan' = Append(taskChan, offering[s])
    /\ accepted' = Append(accepted, offering[s])
    /\ SubmitReturn(s, "nil")
    /\ UNCHANGED <<ctxVars, chanClosed, running, exited, stop, started>>

\* case <-p.ctx.Done(): return "pool is stopped"
SubmitRefused(s) ==
    /\ offering[s] # None
    /\ poolDone
    /\ SubmitReturn(s, "stopped")
    /\ UNCHANGED <<ctxVars, chanVars, running, exited, stop, accepted, started>>

\* The select's send case is ready on a closed channel too: it panics in the
\* goroutine that called Submit.
SubmitPanics(s) ==
    /\ offering[s] # None
    /\ chanClosed
    /\ SubmitReturn(s, "panic")
    /\ UNCHANGED <<ctxVars, chanVars, running, exited, stop, accepted, started>>

-----------------------------------------------------------------------------
(* worker *)

\* case task, ok := <-p.taskChan with ok: a closed channel still hands out
\* what it buffers, and a cancelled context does not disable the case.
WorkerTake(w) ==
    /\ AtSelect(w)
    /\ taskChan # <<>>
    /\ running' = [running EXCEPT ![w] = Head(taskChan)]
    /\ started' = Append(started, Head(taskChan))
    /\ taskChan' = Tail(taskChan)
    /\ UNCHANGED <<ctxVars, chanClosed, offering, exited, stop, reply, accepted>>

\* Execute returned, with an error that is logged, without one, or by a panic
\* that the deferred recover swallows: the loop goes on in each case.
WorkerFinish(w) ==
    /\ running[w] # None
    /\ running' = [running EXCEPT ![w] = None]
    /\ UNCHANGED <<ctxVars, chanVars, offering, exited, stop, reply, accepted,
                   started>>

WorkerExit(w) ==
    /\ exited' = exited \cup {w}
    /\ UNCHANGED <<ctxVars, chanVars, offering, running, stop, reply, accepted,
                   started>>

\* if !ok { return }
WorkerSeesClosed(w) ==
    /\ AtSelect(w)
    /\ chanClosed
    /\ taskChan = <<>>
    /\ WorkerExit(w)

\* case <-p.ctx.Done(): return
WorkerSeesDone(w) ==
    /\ AtSelect(w)
    /\ poolDone
    /\ WorkerExit(w)

-----------------------------------------------------------------------------
(* The contexts and Stop *)

\* The owner of the parent context cancels it.
CancelParent ==
    /\ ~parentDone
    /\ parentDone' = TRUE
    /\ UNCHANGED <<poolDone, chanVars, offering, running, exited, stop, reply,
                   accepted, started>>

\* context.WithCancel: the parent's cancellation reaches the child a little
\* after the parent's own Done channel is closed.
PropagateCancel ==
    /\ parentDone
    /\ ~poolDone
    /\ poolDone' = TRUE
    /\ UNCHANGED <<parentDone, chanVars, offering, running, exited, stop, reply,
                   accepted, started>>

StopCancel ==
    /\ stop = "idle"
    /\ poolDone' = TRUE
    /\ stop' = "close"
    /\ UNCHANGED <<parentDone, chanVars, offering, running, exited, reply,
                   accepted, started>>

StopClose ==
    /\ stop = "close"
    /\ chanClosed' = TRUE
    /\ stop' = "wait"
    /\ UNCHANGED <<ctxVars, taskChan, offering, running, exited, reply,
                   accepted, started>>

\* p.wg.Wait() returns
StopReturn ==
    /\ stop = "wait"
    /\ exited = Workers
    /\ stop' = "returned"
    /\ UNCHANGED <<ctxVars, chanVars, offering, running, exited, reply,
                   accepted, started>>

\* Nothing is left to do: the pool is stopped and every call was answered.
AllAnswered ==
    /\ stop = "returned"
    /\ \A t \in Tasks : reply[t] # "none"
    /\ parentDone
    /\ UNCHANGED poolVars

-----------------------------------------------------------------------------
SubmitStep(s) == SubmitSend(s) \/ SubmitRefused(s) \/ SubmitPanics(s)

WorkerLoop(w) == WorkerTake(w) \/ WorkerSeesClosed(w) \/ WorkerSeesDone(w)

PoolNext ==
    \/ \E s \in Submitters : \E t \in Tasks : SubmitCall(s, t)
    \/ \E s \in Submitters : SubmitSend(s)
    \/ \E s \in Submitters : SubmitRefused(s)
    \/ \E s \in Submitters : SubmitPanics(s)
    \/ \E w \in Workers : WorkerTake(w)
    \/ \E w \in Workers : WorkerFinish(w)
    \/ \E w \in Workers : WorkerSeesClosed(w)
    \/ \E w \in Workers : WorkerSeesDone(w)
    \/ CancelParent
    \/ PropagateCancel
    \/ StopCancel
    \/ StopClose
    \/ StopReturn
    \/ AllAnswered

\* The Go scheduler runs every goroutine that can move, and a task's Execute
\* returns.  Whether anybody submits, stops or cancels is the client's choice.
PoolFairness ==
    /\ \A s \in Submitters : WF_poolVars(SubmitStep(s))
    /\ \A w \in Workers : WF_poolVars(WorkerLoop(w))
    /\ \A w \in Workers : WF_poolVars(WorkerFinish(w))
    /\ WF_poolVars(PropagateCancel)
    /\ WF_poolVars(StopClose)
    /\ WF_poolVars(StopReturn)

PoolSafeSpec == PoolInit /\ [][PoolNext]_poolVars

PoolSpec == PoolSafeSpec /\ PoolFairness

-----------------------------------------------------------------------------
(* Properties *)

\* Every variable has its type, and the channel never holds more than its
\* capacity, concurrency*2.
PoolTypeOK ==
    /\ parentDone \in BOOLEAN
    /\ poolDone \in BOOLEAN
    /\ taskChan \in Seq(Tasks)
    /\ Len(taskChan) <= TaskCap
    /\ chanClosed \in BOOLEAN
    /\ offering \in [Submitters -> Tasks \cup {None}]
    /\ running \in [Workers -> Tasks \cup {None}]
    /\ exited \subseteq Workers
    /\ stop \in StopPoints
    /\ reply \in [Tasks -> Replies]
    /\ accepted \in Seq(Tasks)
    /\ started \in Seq(Tasks)

\* Between Submit and Execute the pool loses, duplicates and reorders nothing:
\* what Submit accepted is what the workers took, in that order, followed by
\* what still waits in the channel.
HandOffIsFIFO == accepted = started \o taskChan

\* No call of Submit makes two Executes, and one that answered an error, or
\* panicked, makes none, now or later: a nil means the pool took the task.
RunsAcceptedOnce ==
    /\ IsInjective(started)
    /\ Range(started) \subseteq {t \in Tasks : reply[t] = "nil"}

\* Once Stop has returned no worker is inside a task and none will ever start
\* one: wg.Wait covers the workers' whole lives.
QuietAfterStop ==
    [][stop = "returned" => running' = [w \in Workers |-> None]
                            /\ UNCHANGED started]_poolVars

\* No call blocks for ever: Stop returns, whatever the queue holds, provided
\* tasks terminate, and so does Submit, since the queue drains or the context
\* ends.
CallsReturn ==
    /\ (stop # "idle") ~> (stop = "returned")
    /\ \A s \in Submitters : (offering[s] # None) ~> (offering[s] = None)

\* A task the pool accepted is started unless the pool's context is cancelled.
AcceptedStarts ==
    \A t \in Tasks : (reply[t] = "nil") ~> (t \in Range(started) \/ poolDone)
=============================================================================
