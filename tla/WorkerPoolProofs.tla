-------------------------- MODULE WorkerPoolProofs --------------------------
(***************************************************************************)
(* Theorems about WorkerPool for every set of tasks, workers and           *)
(* submitters.  HandOffIsFIFO is inductive given the types; the other      *)
(* properties need to know that an accepted task was answered nil, that a  *)
(* task inside Submit has no answer yet, and how far Stop has come.        *)
(***************************************************************************)
EXTENDS WorkerPool, QueueLemmas, FiniteSetTheorems

-----------------------------------------------------------------------------
(* The inductive invariant *)

\* A task inside Submit has not been answered, and only one goroutine offers it.
OfferedOnce ==
    \A s \in Submitters : offering[s] # None =>
        /\ reply[offering[s]] = "none"
        /\ \A s2 \in Submitters : offering[s2] = offering[s] => s2 = s

\* The accepted tasks are distinct, and exactly those answered nil.
AcceptedAnswered ==
    /\ IsInjective(accepted)
    /\ Range(accepted) = {t \in Tasks : reply[t] = "nil"}

\* A worker that returned holds no task; Stop is past wg.Wait only when all
\* of them did.
ExitedIdle ==
    /\ \A w \in exited : running[w] = None
    /\ stop = "returned" => exited = Workers

PoolInv == PoolTypeOK /\ HandOffIsFIFO /\ OfferedOnce /\ AcceptedAnswered /\ ExitedIdle

LEMMA PoolInitInv == PoolInit => PoolInv
<1> SUFFICES ASSUME PoolInit PROVE PoolInv
    OBVIOUS
<1>1. PoolTypeOK
    <2>1. <<>> \in Seq(Tasks) /\ Len(<<>>) = 0 /\ TaskCap \in Nat
        BY PoolAssumption, FS_CardinalityType DEF TaskCap
    <2>2. Len(taskChan) <= TaskCap
        BY <2>1 DEF PoolInit
    <2>3. reply \in [Tasks -> Replies] /\ stop \in StopPoints
        BY DEF PoolInit, Replies, StopPoints
    <2>4. QED  BY <2>1, <2>2, <2>3 DEF PoolInit, PoolTypeOK
<1>2. HandOffIsFIFO
    BY DEF PoolInit, HandOffIsFIFO
<1>3. OfferedOnce
    BY DEF PoolInit, OfferedOnce
<1>4. AcceptedAnswered
    BY DEF PoolInit, AcceptedAnswered, IsInjective, Range
<1>5. ExitedIdle
    BY DEF PoolInit, ExitedIdle
<1>6. QED  BY <1>1, <1>2, <1>3, <1>4, <1>5 DEF PoolInv
-----------------------------------------------------------------------------
(* Preservation, one step per action *)

\* The answer of Submit leaves the submitter's hands empty and touches no
\* other task's answer.
LEMMA AnswerKeeps ==
    ASSUME PoolTypeOK, OfferedOnce, NEW s \in Submitters, offering[s] # None,
           NEW answer \in Replies, answer # "none", SubmitReturn(s, answer)
    PROVE  /\ offering' \in [Submitters -> Tasks \cup {None}]
           /\ reply' \in [Tasks -> Replies]
           /\ OfferedOnce'
           /\ \A t \in Tasks : t # offering[s] => reply'[t] = reply[t]
           /\ reply'[offering[s]] = answer
           /\ offering[s] \in Tasks
<1>1. offering[s] \in Tasks
    BY DEF PoolTypeOK
<1>2. /\ offering' \in [Submitters -> Tasks \cup {None}]
      /\ reply' \in [Tasks -> Replies]
      /\ \A t \in Tasks : t # offering[s] => reply'[t] = reply[t]
      /\ reply'[offering[s]] = answer
    BY <1>1 DEF PoolTypeOK, SubmitReturn
<1>3. \A s2 \in Submitters : offering'[s2] = IF s2 = s THEN None ELSE offering[s2]
    BY DEF PoolTypeOK, SubmitReturn
<1>4. OfferedOnce'
    <2>1. ASSUME NEW s2 \in Submitters, offering'[s2] # None
          PROVE  /\ reply'[offering'[s2]] = "none"
                 /\ \A s3 \in Submitters : offering'[s3] = offering'[s2] => s3 = s2
        <3>1. s2 # s /\ offering'[s2] = offering[s2] /\ offering[s2] # offering[s]
            BY <1>3, <2>1 DEF OfferedOnce
        <3>2. offering[s2] \in Tasks /\ reply[offering[s2]] = "none"
            BY <3>1, <2>1 DEF OfferedOnce, PoolTypeOK
        <3>3. reply'[offering'[s2]] = "none"
            BY <3>1, <3>2, <1>2
        <3>4. \A s3 \in Submitters : offering'[s3] = offering'[s2] => s3 = s2
            BY <1>3, <3>1, <2>1 DEF OfferedOnce
        <3>5. QED  BY <3>3, <3>4
    <2>2. QED  BY <2>1 DEF OfferedOnce
<1>5. QED  BY <1>1, <1>2, <1>4

LEMMA PoolStepInv == PoolInv /\ [PoolNext]_poolVars => PoolInv'
<1> SUFFICES ASSUME PoolInv, [PoolNext]_poolVars PROVE PoolInv'
    OBVIOUS
<1> USE DEF PoolInv
<1>1. ASSUME NEW s \in Submitters, NEW t \in Tasks, SubmitCall(s, t)
      PROVE  PoolInv'
    <2>1. PoolTypeOK' /\ HandOffIsFIFO' /\ AcceptedAnswered' /\ ExitedIdle'
        BY <1>1 DEF SubmitCall, PoolTypeOK, HandOffIsFIFO, AcceptedAnswered,
                    ExitedIdle, ctxVars, chanVars
    <2>2. \A s2 \in Submitters : offering'[s2] = IF s2 = s THEN t ELSE offering[s2]
        BY <1>1 DEF SubmitCall, PoolTypeOK
    <2>3. OfferedOnce'
        BY <1>1, <2>2 DEF SubmitCall, OfferedOnce
    <2>4. QED  BY <2>1, <2>3
<1>2. ASSUME NEW s \in Submitters, SubmitSend(s)
      PROVE  PoolInv'
    <2> DEFINE t == offering[s]
    <2>1. t # None /\ SubmitReturn(s, "nil") /\ reply[t] = "none"
        BY <1>2 DEF SubmitSend, OfferedOnce
    <2>2. /\ offering' \in [Submitters -> Tasks \cup {None}]
          /\ reply' \in [Tasks -> Replies] /\ OfferedOnce'
          /\ \A t2 \in Tasks : t2 # t => reply'[t2] = reply[t2]
          /\ reply'[t] = "nil" /\ t \in Tasks
        BY <2>1, AnswerKeeps DEF Replies
    <2>3. /\ taskChan' = Append(taskChan, t) /\ accepted' = Append(accepted, t)
          /\ UNCHANGED <<parentDone, poolDone, chanClosed, running, exited, stop, started>>
          /\ Len(taskChan) < TaskCap
        BY <1>2 DEF SubmitSend, ctxVars
    <2>4. PoolTypeOK'
        <3>1. /\ taskChan' \in Seq(Tasks) /\ Len(taskChan') = Len(taskChan) + 1
              /\ accepted' \in Seq(Tasks)
            BY <2>2, <2>3, AppendProperties DEF PoolTypeOK
        <3>2. Len(taskChan') <= TaskCap' /\ TaskCap \in Nat
            BY <2>3, <3>1, PoolAssumption, FS_CardinalityType DEF TaskCap, PoolTypeOK
        <3>3. QED  BY <2>2, <2>3, <3>1, <3>2 DEF PoolTypeOK
    <2>5. HandOffIsFIFO'
        <3>1. /\ accepted' = accepted \o <<t>> /\ taskChan' = taskChan \o <<t>>
              /\ <<t>> \in Seq(Tasks)
            BY <2>2, <2>3, AppendIsConcat DEF PoolTypeOK
        <3>2. (started \o taskChan) \o <<t>> = started \o (taskChan \o <<t>>)
            BY <3>1, ConcatAssociative, SMTT(30) DEF PoolTypeOK
        <3>3. QED  BY <2>3, <3>1, <3>2 DEF HandOffIsFIFO
    <2>6. AcceptedAnswered'
        <3>1. t \notin Range(accepted)
            BY <2>1 DEF AcceptedAnswered
        <3>2. IsInjective(accepted') /\ Range(accepted') = Range(accepted) \cup {t}
            BY <2>2, <2>3, <3>1, AppendInjects DEF AcceptedAnswered, PoolTypeOK
        <3>3. QED  BY <2>2, <3>2 DEF AcceptedAnswered
    <2>7. ExitedIdle'
        BY <2>3 DEF ExitedIdle
    <2>8. QED  BY <2>2, <2>4, <2>5, <2>6, <2>7
<1>3. ASSUME NEW s \in Submitters, SubmitRefused(s) \/ SubmitPanics(s)
      PROVE  PoolInv'
    <2>1. PICK answer \in {"stopped", "panic"} : SubmitReturn(s, answer)
        BY <1>3 DEF SubmitRefused, SubmitPanics
    <2>2. offering[s] # None /\ reply[offering[s]] = "none"
        BY <1>3 DEF SubmitRefused, SubmitPanics, OfferedOnce
    <2>3. /\ offering' \in [Submitters -> Tasks \cup {None}]
          /\ reply' \in [Tasks -> Replies] /\ OfferedOnce'
          /\ \A t2 \in Tasks : t2 # offering[s] => reply'[t2] = reply[t2]
          /\ reply'[offering[s]] = answer
        BY <2>1, <2>2, AnswerKeeps DEF Replies
    <2>4. UNCHANGED <<parentDone, poolDone, taskChan, chanClosed, running, exited,
                      stop, accepted, started>>
        BY <1>3 DEF SubmitRefused, SubmitPanics, ctxVars, chanVars
    <2>5. PoolTypeOK' /\ HandOffIsFIFO' /\ ExitedIdle'
        BY <2>3, <2>4 DEF PoolTypeOK, HandOffIsFIFO, ExitedIdle
    <2>6. AcceptedAnswered'
        BY <2>2, <2>3, <2>4 DEF AcceptedAnswered
    <2>7. QED  BY <2>3, <2>5, <2>6
<1>4. ASSUME NEW w \in Workers, WorkerTake(w)
      PROVE  PoolInv'
    <2>1. /\ taskChan # <<>> /\ w \notin exited
          /\ running' = [running EXCEPT ![w] = Head(taskChan)]
          /\ started' = Append(started, Head(taskChan))
          /\ taskChan' = Tail(taskChan)
          /\ UNCHANGED <<parentDone, poolDone, chanClosed, offering, exited, stop,
                         reply, accepted>>
        BY <1>4 DEF WorkerTake, AtSelect, ctxVars
    <2>2. /\ Head(taskChan) \in Tasks /\ Tail(taskChan) \in Seq(Tasks)
          /\ Len(Tail(taskChan)) = Len(taskChan) - 1
        BY <2>1, HeadTailProperties DEF PoolTypeOK
    <2>3. PoolTypeOK'
        <3>1. started' \in Seq(Tasks) /\ taskChan' \in Seq(Tasks)
            BY <2>1, <2>2, AppendProperties DEF PoolTypeOK
        <3>2. Len(taskChan') <= TaskCap' /\ Len(taskChan) \in Nat
            BY <2>1, <2>2, PoolAssumption, FS_CardinalityType DEF PoolTypeOK, TaskCap
        <3>3. running' \in [Workers -> Tasks \cup {None}]
            BY <2>1, <2>2 DEF PoolTypeOK
        <3>4. QED  BY <2>1, <3>1, <3>2, <3>3 DEF PoolTypeOK
    <2>4. HandOffIsFIFO'
        <3>1. /\ <<Head(taskChan)>> \in Seq(Tasks)
              /\ taskChan = <<Head(taskChan)>> \o Tail(taskChan)
            BY <2>1, <2>2 DEF PoolTypeOK
        <3>2. Append(started, Head(taskChan)) = started \o <<Head(taskChan)>>
            BY <2>2, AppendIsConcat DEF PoolTypeOK
        <3>3. (started \o <<Head(taskChan)>>) \o Tail(taskChan)
                 = started \o (<<Head(taskChan)>> \o Tail(taskChan))
            BY <3>1, <2>2, ConcatAssociative, SMTT(30) DEF PoolTypeOK
        <3>4. QED  BY <2>1, <3>1, <3>2, <3>3 DEF HandOffIsFIFO
    <2>5. OfferedOnce' /\ AcceptedAnswered'
        BY <2>1 DEF OfferedOnce, AcceptedAnswered
    <2>6. ExitedIdle'
        <3>1. \A v \in exited : running'[v] = running[v]
            BY <2>1 DEF PoolTypeOK
        <3>2. QED  BY <2>1, <3>1 DEF ExitedIdle
    <2>7. QED  BY <2>3, <2>4, <2>5, <2>6
<1>5. ASSUME NEW w \in Workers, WorkerFinish(w)
      PROVE  PoolInv'
    <2>1. PoolTypeOK' /\ HandOffIsFIFO' /\ OfferedOnce' /\ AcceptedAnswered'
        BY <1>5 DEF WorkerFinish, PoolTypeOK, HandOffIsFIFO, OfferedOnce,
                    AcceptedAnswered, ctxVars, chanVars
    <2>2. ExitedIdle'
        BY <1>5 DEF WorkerFinish, ExitedIdle, PoolTypeOK
    <2>3. QED  BY <2>1, <2>2
<1>6. ASSUME NEW w \in Workers, WorkerSeesClosed(w) \/ WorkerSeesDone(w)
      PROVE  PoolInv'
    <2>1. AtSelect(w) /\ WorkerExit(w)
        BY <1>6 DEF WorkerSeesClosed, WorkerSeesDone
    <2>2. PoolTypeOK' /\ HandOffIsFIFO' /\ OfferedOnce' /\ AcceptedAnswered'
        BY <2>1 DEF WorkerExit, PoolTypeOK, HandOffIsFIFO, OfferedOnce,
                    AcceptedAnswered, ctxVars, chanVars
    <2>3. ExitedIdle'
        BY <2>1 DEF WorkerExit, AtSelect, ExitedIdle, PoolTypeOK
    <2>4. QED  BY <2>2, <2>3
<1>7. CASE CancelParent \/ PropagateCancel \/ StopCancel \/ StopClose \/ StopReturn
    <2>1. PoolTypeOK'
        BY <1>7 DEF CancelParent, PropagateCancel, StopCancel, StopClose,
                    StopReturn, PoolTypeOK, StopPoints, ctxVars, chanVars
    <2>2. HandOffIsFIFO' /\ OfferedOnce' /\ AcceptedAnswered' /\ ExitedIdle'
        BY <1>7 DEF CancelParent, PropagateCancel, StopCancel, StopClose,
                    StopReturn, HandOffIsFIFO, OfferedOnce, AcceptedAnswered,
                    ExitedIdle, ctxVars, chanVars
    <2>3. QED  BY <2>1, <2>2
<1>8. CASE UNCHANGED poolVars
    BY <1>8 DEF poolVars, PoolTypeOK, HandOffIsFIFO, OfferedOnce, AcceptedAnswered,
                ExitedIdle
<1>9. QED
    BY <1>1, <1>2, <1>3, <1>4, <1>5, <1>6, <1>7, <1>8 DEF PoolNext, AllAnswered

\* PoolInv holds in every state of every behaviour of the pool.
THEOREM PoolInvariant == PoolSafeSpec => []PoolInv
BY PoolInitInv, PoolStepInv, PTL DEF PoolSafeSpec

-----------------------------------------------------------------------------
(* The results *)

\* Type correctness: in particular the channel never exceeds concurrency*2.
THEOREM PoolTypes == PoolSafeSpec => []PoolTypeOK
<1>1. PoolInv => PoolTypeOK
    BY DEF PoolInv
<1>2. QED  BY <1>1, PoolInvariant, PTL

\* From Submit to Execute nothing is lost, duplicated or reordered, however
\* many submitters and workers there are and wherever Stop is.
THEOREM PoolHandsOffInOrder == PoolSafeSpec => []HandOffIsFIFO
<1>1. PoolInv => HandOffIsFIFO
    BY DEF PoolInv
<1>2. QED  BY <1>1, PoolInvariant, PTL

\* Each call of Submit makes at most one Execute, and a call that was answered
\* with an error none.
THEOREM PoolRunsAcceptedOnce == PoolSafeSpec => []RunsAcceptedOnce
<1>1. PoolInv => IsInjective(started)
    BY PrefixInjects DEF PoolInv, PoolTypeOK, HandOffIsFIFO, AcceptedAnswered
<1>2. PoolInv => Range(started) \subseteq {t \in Tasks : reply[t] = "nil"}
    BY PrefixInjects DEF PoolInv, PoolTypeOK, HandOffIsFIFO, AcceptedAnswered
<1>3. PoolInv => RunsAcceptedOnce
    BY <1>1, <1>2 DEF RunsAcceptedOnce
<1>4. QED  BY <1>3, PoolInvariant, PTL

\* After Stop returned no task runs and none starts.
THEOREM PoolQuietAfterStop == PoolSafeSpec => QuietAfterStop
<1>1. PoolInv /\ [PoolNext]_poolVars
        => [stop = "returned" => running' = [w \in Workers |-> None]
                                 /\ UNCHANGED started]_poolVars
    <2> SUFFICES ASSUME PoolInv, PoolNext, stop = "returned"
                 PROVE  running' = [w \in Workers |-> None] /\ UNCHANGED started
        BY DEF poolVars
    <2>1. exited = Workers /\ \A w \in Workers : running[w] = None
        BY DEF PoolInv, ExitedIdle
    <2>2. running = [w \in Workers |-> None]
        BY <2>1 DEF PoolInv, PoolTypeOK
    <2>3. UNCHANGED <<running, started>>
        BY <2>1 DEF PoolNext, SubmitCall, SubmitSend, SubmitRefused, SubmitPanics,
                    WorkerTake, WorkerFinish, WorkerSeesClosed, WorkerSeesDone,
                    WorkerExit, AtSelect, CancelParent, PropagateCancel,
                    StopCancel, StopClose, StopReturn, AllAnswered, poolVars
    <2>4. QED  BY <2>2, <2>3
<1>2. QED  BY <1>1, PoolInvariant, PTL DEF PoolSafeSpec, QuietAfterStop
=============================================================================
