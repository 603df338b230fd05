--------------------------- MODULE GatewayProofs ---------------------------
(***************************************************************************)
(* Theorems about Gateway for all tasks, workers, channel capacities and    *)
(* retry limits.  EverySectionAccounted is the heart of the inductive       *)
(* invariant; it needs the pool's invariant, the agreement of each task's   *)
(* status and answer with how far it has come, and the order in which main  *)
(* submits and stops.                                                      *)
(***************************************************************************)
EXTENDS Gateway, WorkerPoolProofs

Unscraped == {"new", "queued", "scraping", "refused", "panicked"}
Forwarded == {"offered", "payload", "sending", "wire", "received"}

\* A scrape has a status once it returned, and only successes go on.
StatusAgrees ==
    \A t \in Tasks :
        /\ status[t] = "none" <=> stage[t] \in Unscraped
        /\ stage[t] \in Forwarded => status[t] = "SUCCESS"

AllReplied == \A t \in Tasks : reply[t] # "none"

\* Submit has answered exactly for the tasks that are not new, and main stops
\* the pool after the last answer.
SubmitsFirst ==
    /\ \A t \in Tasks : reply[t] = "none" <=> stage[t] = "new"
    /\ offering[Main] # None => main = "submit"
    /\ main \in {"await", "stop", "http", "drain"} => AllReplied
    /\ stop # "idle" => main \in {"stop", "http", "drain", "exit"} /\ AllReplied
    /\ chanClosed => stop # "idle"

\* sendWithRetry holds a payload exactly while it runs.
SenderHolds == sender = "send" <=> sendHand # None

Inv ==
    /\ TypeOK
    /\ PoolInv
    /\ EverySectionAccounted
    /\ StatusAgrees
    /\ SubmitsFirst
    /\ SenderHolds

-----------------------------------------------------------------------------
(* How a move of one task changes the stages *)

\* A task that comes from stage a to stage b leaves the one, joins the other
\* and is seen nowhere else.
LEMMA MoveAt ==
    ASSUME stage \in [Tasks -> Stages], NEW t \in Tasks, NEW a \in Stages,
           NEW b \in Stages, a # b, stage[t] = a, Move(t, b)
    PROVE  /\ stage' \in [Tasks -> Stages]
           /\ stage'[t] = b
           /\ \A u \in Tasks : u # t => stage'[u] = stage[u]
           /\ At(b)' = At(b) \cup {t}
           /\ t \notin At(b)
           /\ At(a)' = At(a) \ {t}
           /\ t \in At(a)
           /\ \A s : s # a /\ s # b => At(s)' = At(s)
<1>1. /\ stage' \in [Tasks -> Stages]
      /\ \A u \in Tasks : stage'[u] = IF u = t THEN b ELSE stage[u]
    BY DEF Move
<1>2. QED  BY <1>1 DEF At

\* A queue whose head leaves the stage, shortened by it.
LEMMA Leaves ==
    ASSUME NEW q \in Seq(Tasks), NEW s, NEW r,
           QueueHolds(q, s), q # <<>>, At(s)' = At(s) \ {Head(q)},
           r = Tail(q)
    PROVE  IsInjective(r) /\ Range(r) = At(s)'
<1>1. IsInjective(q) /\ Range(q) = At(s)
    BY DEF QueueHolds
<1>2. IsInjective(r) /\ Range(r) = Range(q) \ {Head(q)}
    BY <1>1, TailInjects
<1>3. QED  BY <1>1, <1>2

\* The head of a queue is at the queue's stage.
LEMMA HeadHeld ==
    ASSUME NEW q \in Seq(Tasks), q # <<>>, NEW s, QueueHolds(q, s)
    PROVE  Head(q) \in Tasks /\ stage[Head(q)] = s
<1>1. Head(q) \in Range(q) /\ Range(q) = At(s)
    BY TailInjects DEF QueueHolds
<1>2. QED  BY <1>1 DEF At

\* The task in a hand is at the hand's stage, and alone there.
LEMMA HandHeld ==
    ASSUME NEW h, h # None, NEW s, HandHolds(h, s)
    PROVE  h \in Tasks /\ stage[h] = s /\ At(s) = {h}
BY DEF HandHolds, At

-----------------------------------------------------------------------------
(* The pool inside the gateway *)

\* Every step of the gateway is a step of the pool, or leaves the pool alone.
LEMMA GatewayStepsPool == [Next]_vars => [PoolNext]_poolVars
<1> SUFFICES ASSUME [Next]_vars PROVE [PoolNext]_poolVars
    OBVIOUS
<1> Main \in Submitters
    BY GatewayAssumption DEF GatewayAssumption
<1>1. CASE MainConnects \/ SeedCalls
    BY <1>1 DEF MainConnects, Connected, ConnectFails, SeedCalls, SeedCall, PoolNext
<1>2. CASE MainStep
    BY <1>2 DEF MainStep, SeedQueued, SeedRefused, SeedsDone, Signalled, PoolStop,
                PoolStopped, HttpShutdown, StreamDrained, GraceExpires, PoolNext
<1>3. CASE Signal \/ PoolCancelled
    BY <1>3 DEF Signal, PoolCancelled, PoolNext
<1>4. ASSUME NEW w \in Workers, WorkerStep(w)
      PROVE  [PoolNext]_poolVars
    BY <1>4 DEF WorkerStep, TakeTask, WorkerLeaves, ScrapeReturns, ScrapePanics,
                SendResult, DropResult, PoolNext
<1>5. CASE FanOutStep
    BY <1>5 DEF FanOutStep, FanOutSkips, FanOutTakes, FanOutOffers, FanOutLeaves,
                FanOutAbandons
<1>6. CASE SenderStep
    BY <1>6 DEF SenderStep, StreamOpens, StreamOpenFails, SenderTakes, SenderCloses,
                SendOk, SendEOF, SendErrs, SendGivesUp, CloseAnswered, CloseFails
<1>7. CASE HubReads \/ RpcBreaks \/ RpcCancelled \/ Gone \/ UNCHANGED vars
    BY <1>7 DEF HubReads, RpcBreaks, RpcCancelled, Gone, vars
<1>8. QED  BY <1>1, <1>2, <1>3, <1>4, <1>5, <1>6, <1>7 DEF Next

LEMMA GatewayKeepsPool == PoolInv /\ [Next]_vars => PoolInv'
BY GatewayStepsPool, PoolStepInv

-----------------------------------------------------------------------------
(* What the workers hold *)

\* A worker that takes a task adds it to what the workers hold.
LEMMA RunningAdd ==
    ASSUME PoolTypeOK, NEW w \in Workers, NEW t \in Tasks, running[w] = None,
           running' = [running EXCEPT ![w] = t],
           t \notin Range(running),
           \A w1, w2 \in Workers :
              running[w1] = running[w2] /\ running[w1] # None => w1 = w2
    PROVE  /\ Range(running') \ {None} = (Range(running) \ {None}) \cup {t}
           /\ \A w1, w2 \in Workers :
                running'[w1] = running'[w2] /\ running'[w1] # None => w1 = w2
<1>1. /\ DOMAIN running = Workers /\ DOMAIN running' = Workers
      /\ \A v \in Workers : running'[v] = IF v = w THEN t ELSE running[v]
      /\ t # None
    BY PoolAssumption DEF PoolTypeOK, PoolAssumption
<1>2. QED  BY <1>1 DEF Range

\* A worker that finishes removes its task from what the workers hold.
LEMMA RunningRemove ==
    ASSUME PoolTypeOK, NEW w \in Workers, running[w] # None,
           running' = [running EXCEPT ![w] = None],
           \A w1, w2 \in Workers :
              running[w1] = running[w2] /\ running[w1] # None => w1 = w2
    PROVE  /\ Range(running') \ {None} = (Range(running) \ {None}) \ {running[w]}
           /\ \A w1, w2 \in Workers :
                running'[w1] = running'[w2] /\ running'[w1] # None => w1 = w2
<1>1. /\ DOMAIN running = Workers /\ DOMAIN running' = Workers
      /\ \A v \in Workers : running'[v] = IF v = w THEN None ELSE running[v]
    BY DEF PoolTypeOK
<1>2. QED  BY <1>1 DEF Range

-----------------------------------------------------------------------------
(* The end of a stream *)

\* When the stream dies exactly the sections on the wire are cut.
LEMMA CutAt ==
    ASSUME stage \in [Tasks -> Stages], NEW why, RpcDies(why),
           Range(wire) = At("wire")
    PROVE  /\ stage' \in [Tasks -> Stages]
           /\ \A t \in Tasks : stage'[t] = IF stage[t] = "wire" THEN "cut" ELSE stage[t]
           /\ At("wire")' = {}
           /\ \A s : s # "wire" /\ s # "cut" => At(s)' = At(s)
           /\ wire' = <<>>
<1>1. \A t \in Tasks : stage'[t] = IF stage[t] = "wire" THEN "cut" ELSE stage[t]
    BY DEF RpcDies, At
<1>2. stage' \in [Tasks -> Stages]
    BY DEF RpcDies, Stages, LostStages
<1>3. QED  BY <1>1, <1>2 DEF At, RpcDies

-----------------------------------------------------------------------------
(* Where a task that moves comes from *)

\* Whatever a goroutine is about to move is at the stage it moves from.
LEMMA Movers ==
    ASSUME Inv
    PROVE  /\ Main \in Submitters
           /\ offering[Main] # None =>
                offering[Main] \in Tasks /\ stage[offering[Main]] = "new"
           /\ \A w \in Workers : running[w] # None =>
                /\ running[w] \in Tasks
                /\ stage[running[w]] = IF status[running[w]] = "none"
                                          THEN "scraping" ELSE "scraped"
           /\ taskChan # <<>> => Head(taskChan) \in Tasks /\ stage[Head(taskChan)] = "queued"
           /\ results # <<>> => Head(results) \in Tasks /\ stage[Head(results)] = "result"
           /\ payloads # <<>> => Head(payloads) \in Tasks /\ stage[Head(payloads)] = "payload"
           /\ wire # <<>> => Head(wire) \in Tasks /\ stage[Head(wire)] = "wire"
           /\ fanHand # None => fanHand \in Tasks /\ stage[fanHand] = "offered"
           /\ sender = "send" => sendHand \in Tasks /\ stage[sendHand] = "sending"
<1>1. Main \in Submitters
    BY GatewayAssumption DEF GatewayAssumption
<1>2. offering[Main] # None => offering[Main] \in Tasks /\ stage[offering[Main]] = "new"
    BY <1>1 DEF Inv, PoolInv, PoolTypeOK, OfferedOnce, SubmitsFirst
<1>3. ASSUME NEW w \in Workers, running[w] # None
      PROVE  /\ running[w] \in Tasks
             /\ stage[running[w]] = IF status[running[w]] = "none"
                                       THEN "scraping" ELSE "scraped"
    <2>1. running[w] \in At("scraping") \cup At("scraped")
        BY <1>3 DEF Inv, PoolInv, PoolTypeOK, EverySectionAccounted, Range
    <2>2. QED  BY <2>1 DEF Inv, StatusAgrees, Unscraped, At
<1>4. taskChan # <<>> => Head(taskChan) \in Tasks /\ stage[Head(taskChan)] = "queued"
    BY HeadHeld DEF Inv, TypeOK, PoolTypeOK, EverySectionAccounted
<1>5. results # <<>> => Head(results) \in Tasks /\ stage[Head(results)] = "result"
    BY HeadHeld DEF Inv, TypeOK, EverySectionAccounted
<1>6. payloads # <<>> => Head(payloads) \in Tasks /\ stage[Head(payloads)] = "payload"
    BY HeadHeld DEF Inv, TypeOK, EverySectionAccounted
<1>7. wire # <<>> => Head(wire) \in Tasks /\ stage[Head(wire)] = "wire"
    BY HeadHeld DEF Inv, TypeOK, EverySectionAccounted
<1>8. fanHand # None => fanHand \in Tasks /\ stage[fanHand] = "offered"
    BY HandHeld DEF Inv, EverySectionAccounted
<1>9. sender = "send" => sendHand \in Tasks /\ stage[sendHand] = "sending"
    BY HandHeld DEF Inv, EverySectionAccounted, SenderHolds
<1>10. QED  BY <1>1, <1>2, <1>3, <1>4, <1>5, <1>6, <1>7, <1>8, <1>9

-----------------------------------------------------------------------------
(* EverySectionAccounted is preserved, one step per action that moves a task *)

LEMMA AccountStep == Inv /\ [Next]_vars => EverySectionAccounted'
<1> SUFFICES ASSUME Inv, [Next]_vars PROVE EverySectionAccounted'
    OBVIOUS
<1>0. /\ stage \in [Tasks -> Stages] /\ status \in [Tasks -> Statuses]
      /\ taskChan \in Seq(Tasks) /\ results \in Seq(Tasks)
      /\ payloads \in Seq(Tasks) /\ wire \in Seq(Tasks) /\ received \in Seq(Tasks)
      /\ PoolTypeOK /\ EverySectionAccounted /\ StatusAgrees
    BY DEF Inv, TypeOK, PoolTypeOK
<1>1. CASE SeedQueued
    <2> DEFINE t == offering[Main]
    <2>1. /\ taskChan' = Append(taskChan, t)
          /\ UNCHANGED <<results, payloads, wire, received, fanHand, sendHand, running>>
          /\ Move(t, "queued")
        BY <1>1 DEF SeedQueued, SubmitSend, resultVars, fanVars, 
                    senderVars, netVars, ctxVars, chanVars
    <2>2. t \in Tasks /\ stage[t] = "new"
        BY <1>1, <2>1, Movers DEF SeedQueued, SubmitSend
    <2>3. /\ At("queued")' = At("queued") \cup {t} /\ t \notin At("queued")
          /\ At("new")' = At("new") \ {t}
          /\ \A s : s # "new" /\ s # "queued" => At(s)' = At(s)
        <3>1. "new" \in Stages /\ "queued" \in Stages /\ "new" # "queued"
            BY DEF Stages, LostStages
        <3>2. stage \in [Tasks -> Stages] /\ t \in Tasks /\ stage[t] = "new" /\ Move(t, "queued")
            BY <1>0, <2>1, <2>2
        <3> HIDE DEF t
        <3> QED  BY <3>1, <3>2, MoveAt
    <2>4. QueueHolds(taskChan, "queued")'
        <3>1. IsInjective(taskChan) /\ Range(taskChan) = At("queued")
            BY <1>0 DEF EverySectionAccounted, QueueHolds
        <3>2. /\ IsInjective(Append(taskChan, t))
              /\ Range(Append(taskChan, t)) = Range(taskChan) \cup {t}
            BY <1>0, <2>2, <2>3, <3>1, AppendInjects
        <3>3. QED  BY <2>1, <2>3, <3>1, <3>2 DEF QueueHolds
    <2>5. QED
        BY <1>0, <2>1, <2>3, <2>4 DEF EverySectionAccounted, QueueHolds, HandHolds
<1>2. CASE SeedRefused
    <2> DEFINE t == offering[Main]
    <2>1. /\ UNCHANGED <<taskChan, results, payloads, wire, received, fanHand, sendHand, running>>
          /\ Move(t, "refused")
        BY <1>2 DEF SeedRefused, SubmitRefused, resultVars, fanVars, 
                    senderVars, netVars, ctxVars, chanVars
    <2>2. t \in Tasks /\ stage[t] = "new"
        BY <1>2, <2>1, Movers DEF SeedRefused, SubmitRefused
    <2>3. /\ At("refused")' = At("refused") \cup {t} /\ t \notin At("refused")
          /\ At("new")' = At("new") \ {t}
          /\ \A s : s # "new" /\ s # "refused" => At(s)' = At(s)
        <3>1. "new" \in Stages /\ "refused" \in Stages /\ "new" # "refused"
            BY DEF Stages, LostStages
        <3>2. stage \in [Tasks -> Stages] /\ t \in Tasks /\ stage[t] = "new" /\ Move(t, "refused")
            BY <1>0, <2>1, <2>2
        <3> HIDE DEF t
        <3> QED  BY <3>1, <3>2, MoveAt
    <2>4. QED
        BY <1>0, <2>1, <2>3 DEF EverySectionAccounted, QueueHolds, HandHolds
<1>3. ASSUME NEW w \in Workers, TakeTask(w)
      PROVE  EverySectionAccounted'
    <2> DEFINE t == Head(taskChan)
    <2>1. /\ taskChan # <<>> /\ taskChan' = Tail(taskChan)
          /\ running' = [running EXCEPT ![w] = t]
          /\ UNCHANGED <<results, payloads, wire, received, fanHand, sendHand>>
          /\ Move(t, "scraping")
        BY <1>3 DEF TakeTask, WorkerTake, resultVars, fanVars, 
                    senderVars, netVars, ctxVars, chanVars
    <2>2. t \in Tasks /\ stage[t] = "queued"
        BY <1>3, <2>1, Movers DEF TakeTask, WorkerTake
    <2>3. /\ At("scraping")' = At("scraping") \cup {t} /\ t \notin At("scraping")
          /\ At("queued")' = At("queued") \ {t}
          /\ \A s : s # "queued" /\ s # "scraping" => At(s)' = At(s)
        <3>1. "queued" \in Stages /\ "scraping" \in Stages /\ "queued" # "scraping"
            BY DEF Stages, LostStages
        <3>2. stage \in [Tasks -> Stages] /\ t \in Tasks /\ stage[t] = "queued" /\ Move(t, "scraping")
            BY <1>0, <2>1, <2>2
        <3> HIDE DEF t
        <3> QED  BY <3>1, <3>2, MoveAt
    <2>4. QueueHolds(taskChan, "queued")'
        <3>1. IsInjective(taskChan') /\ Range(taskChan') = At("queued")'
            BY <1>0, <2>1, <2>2, <2>3, Leaves DEF EverySectionAccounted
        <3>2. QED  BY <3>1 DEF QueueHolds
    <2>5. /\ (At("scraping") \cup At("scraped"))' = Range(running') \ {None}
          /\ \A w1, w2 \in Workers :
                running'[w1] = running'[w2] /\ running'[w1] # None => w1 = w2
        <3>1. running[w] = None /\ t \notin Range(running)
            BY <1>0, <1>3, <2>2, PoolAssumption
               DEF TakeTask, WorkerTake, AtSelect, EverySectionAccounted, At, PoolAssumption
        <3>2. /\ Range(running') \ {None} = (Range(running) \ {None}) \cup {t}
              /\ \A w1, w2 \in Workers :
                   running'[w1] = running'[w2] /\ running'[w1] # None => w1 = w2
            BY <1>0, <1>3, <2>1, <2>2, <3>1, RunningAdd DEF EverySectionAccounted
        <3>3. (At("scraping") \cup At("scraped"))' = (At("scraping") \cup At("scraped")) \cup {t}
            BY <2>3
        <3>4. QED  BY <1>0, <3>2, <3>3 DEF EverySectionAccounted
    <2>6. QED
        BY <1>0, <2>1, <2>3, <2>4, <2>5 DEF EverySectionAccounted, QueueHolds, HandHolds
<1>4. ASSUME NEW w \in Workers, NEW outcome \in {"SUCCESS", "FAILED"},
             ScrapeReturns(w, outcome)
      PROVE  EverySectionAccounted'
    <2> DEFINE t == running[w]
    <2>1. /\ UNCHANGED <<taskChan, results, payloads, wire, received, fanHand, sendHand, running>>
          /\ Move(t, "scraped")
        BY <1>4 DEF ScrapeReturns, poolVars, resultVars, fanVars, 
                    senderVars, netVars, ctxVars, chanVars
    <2>2. t \in Tasks /\ stage[t] = "scraping"
        BY <1>4, <2>1, Movers DEF ScrapeReturns
    <2>3. /\ At("scraped")' = At("scraped") \cup {t} /\ t \notin At("scraped")
          /\ At("scraping")' = At("scraping") \ {t}
          /\ \A s : s # "scraping" /\ s # "scraped" => At(s)' = At(s)
        <3>1. "scraping" \in Stages /\ "scraped" \in Stages /\ "scraping" # "scraped"
            BY DEF Stages, LostStages
        <3>2. stage \in [Tasks -> Stages] /\ t \in Tasks /\ stage[t] = "scraping" /\ Move(t, "scraped")
            BY <1>0, <2>1, <2>2
        <3> HIDE DEF t
        <3> QED  BY <3>1, <3>2, MoveAt
    <2>4. (At("scraping") \cup At("scraped"))' = At("scraping") \cup At("scraped")
        BY <2>2, <2>3 DEF At
    <2>5. QED
        BY <1>0, <2>1, <2>3, <2>4 DEF EverySectionAccounted, QueueHolds, HandHolds
<1>5. ASSUME NEW w \in Workers, ScrapePanics(w)
      PROVE  EverySectionAccounted'
    <2> DEFINE t == running[w]
    <2>1. /\ running' = [running EXCEPT ![w] = None]
          /\ UNCHANGED <<taskChan, results, payloads, wire, received, fanHand, sendHand>>
          /\ Move(t, "panicked")
        BY <1>5 DEF ScrapePanics, WorkerFinish, resultVars, fanVars, 
                    senderVars, netVars, ctxVars, chanVars
    <2>2. t \in Tasks /\ stage[t] = "scraping"
        BY <1>5, <2>1, Movers DEF ScrapePanics
    <2>3. /\ At("panicked")' = At("panicked") \cup {t} /\ t \notin At("panicked")
          /\ At("scraping")' = At("scraping") \ {t}
          /\ \A s : s # "scraping" /\ s # "panicked" => At(s)' = At(s)
        <3>1. "scraping" \in Stages /\ "panicked" \in Stages /\ "scraping" # "panicked"
            BY DEF Stages, LostStages
        <3>2. stage \in [Tasks -> Stages] /\ t \in Tasks /\ stage[t] = "scraping" /\ Move(t, "panicked")
            BY <1>0, <2>1, <2>2
        <3> HIDE DEF t
        <3> QED  BY <3>1, <3>2, MoveAt
    <2>4. /\ (At("scraping") \cup At("scraped"))' = Range(running') \ {None}
          /\ \A w1, w2 \in Workers :
                running'[w1] = running'[w2] /\ running'[w1] # None => w1 = w2
        <3>1. t \notin At("scraped")
            BY <2>2 DEF At
        <3>2. running[w] # None
            BY <1>5 DEF ScrapePanics
        <3>3. /\ Range(running') \ {None} = (Range(running) \ {None}) \ {t}
              /\ \A w1, w2 \in Workers :
                   running'[w1] = running'[w2] /\ running'[w1] # None => w1 = w2
            BY <1>0, <1>5, <2>1, <3>2, RunningRemove DEF EverySectionAccounted
        <3>4. (At("scraping") \cup At("scraped"))' = (At("scraping") \cup At("scraped")) \ {t}
            BY <2>3, <3>1
        <3>5. QED  BY <1>0, <3>3, <3>4 DEF EverySectionAccounted
    <2>5. QED
        BY <1>0, <2>1, <2>3, <2>4 DEF EverySectionAccounted, QueueHolds, HandHolds
<1>6. ASSUME NEW w \in Workers, SendResult(w)
      PROVE  EverySectionAccounted'
    <2> DEFINE t == running[w]
    <2>1. /\ results' = Append(results, t)
          /\ running' = [running EXCEPT ![w] = None]
          /\ UNCHANGED <<taskChan, payloads, wire, received, fanHand, sendHand>>
          /\ Move(t, "result")
        BY <1>6 DEF SendResult, Sending, WorkerFinish, resultVars, 
                    fanVars, senderVars, netVars, ctxVars, chanVars
    <2>2. t \in Tasks /\ stage[t] = "scraped"
        BY <1>6, <2>1, Movers DEF SendResult, Sending
    <2>3. /\ At("result")' = At("result") \cup {t} /\ t \notin At("result")
          /\ At("scraped")' = At("scraped") \ {t}
          /\ \A s : s # "scraped" /\ s # "result" => At(s)' = At(s)
        <3>1. "scraped" \in Stages /\ "result" \in Stages /\ "scraped" # "result"
            BY DEF Stages, LostStages
        <3>2. stage \in [Tasks -> Stages] /\ t \in Tasks /\ stage[t] = "scraped" /\ Move(t, "result")
            BY <1>0, <2>1, <2>2
        <3> HIDE DEF t
        <3> QED  BY <3>1, <3>2, MoveAt
    <2>4. QueueHolds(results, "result")'
        <3>1. IsInjective(results) /\ Range(results) = At("result")
            BY <1>0 DEF EverySectionAccounted, QueueHolds
        <3>2. /\ IsInjective(Append(results, t))
              /\ Range(Append(results, t)) = Range(results) \cup {t}
            BY <1>0, <2>2, <2>3, <3>1, AppendInjects
        <3>3. QED  BY <2>1, <2>3, <3>1, <3>2 DEF QueueHolds
    <2>5. /\ (At("scraping") \cup At("scraped"))' = Range(running') \ {None}
          /\ \A w1, w2 \in Workers :
                running'[w1] = running'[w2] /\ running'[w1] # None => w1 = w2
        <3>1. t \notin At("scraping")
            BY <2>2 DEF At
        <3>2. running[w] # None
            BY <1>6 DEF SendResult, Sending
        <3>3. /\ Range(running') \ {None} = (Range(running) \ {None}) \ {t}
              /\ \A w1, w2 \in Workers :
                   running'[w1] = running'[w2] /\ running'[w1] # None => w1 = w2
            BY <1>0, <1>6, <2>1, <3>2, RunningRemove DEF EverySectionAccounted
        <3>4. (At("scraping") \cup At("scraped"))' = (At("scraping") \cup At("scraped")) \ {t}
            BY <2>3, <3>1
        <3>5. QED  BY <1>0, <3>3, <3>4 DEF EverySectionAccounted
    <2>6. QED
        BY <1>0, <2>1, <2>3, <2>4, <2>5 DEF EverySectionAccounted, QueueHolds, HandHolds
<1>7. ASSUME NEW w \in Workers, DropResult(w)
      PROVE  EverySectionAccounted'
    <2> DEFINE t == running[w]
    <2>1. /\ running' = [running EXCEPT ![w] = None]
          /\ UNCHANGED <<taskChan, results, payloads, wire, received, fanHand, sendHand>>
          /\ Move(t, "dropped")
        BY <1>7 DEF DropResult, Sending, WorkerFinish, resultVars, 
                    fanVars, senderVars, netVars, ctxVars, chanVars
    <2>2. t \in Tasks /\ stage[t] = "scraped"
        BY <1>7, <2>1, Movers DEF DropResult, Sending
    <2>3. /\ At("dropped")' = At("dropped") \cup {t} /\ t \notin At("dropped")
          /\ At("scraped")' = At("scraped") \ {t}
          /\ \A s : s # "scraped" /\ s # "dropped" => At(s)' = At(s)
        <3>1. "scraped" \in Stages /\ "dropped" \in Stages /\ "scraped" # "dropped"
            BY DEF Stages, LostStages
        <3>2. stage \in [Tasks -> Stages] /\ t \in Tasks /\ stage[t] = "scraped" /\ Move(t, "dropped")
            BY <1>0, <2>1, <2>2
        <3> HIDE DEF t
        <3> QED  BY <3>1, <3>2, MoveAt
    <2>4. /\ (At("scraping") \cup At("scraped"))' = Range(running') \ {None}
          /\ \A w1, w2 \in Workers :
                running'[w1] = running'[w2] /\ running'[w1] # None => w1 = w2
        <3>1. t \notin At("scraping")
            BY <2>2 DEF At
        <3>2. running[w] # None
            BY <1>7 DEF DropResult, Sending
        <3>3. /\ Range(running') \ {None} = (Range(running) \ {None}) \ {t}
              /\ \A w1, w2 \in Workers :
                   running'[w1] = running'[w2] /\ running'[w1] # None => w1 = w2
            BY <1>0, <1>7, <2>1, <3>2, RunningRemove DEF EverySectionAccounted
        <3>4. (At("scraping") \cup At("scraped"))' = (At("scraping") \cup At("scraped")) \ {t}
            BY <2>3, <3>1
        <3>5. QED  BY <1>0, <3>3, <3>4 DEF EverySectionAccounted
    <2>5. QED
        BY <1>0, <2>1, <2>3, <2>4 DEF EverySectionAccounted, QueueHolds, HandHolds
<1>8. CASE FanOutSkips
    <2> DEFINE t == Head(results)
    <2>1. /\ results # <<>> /\ results' = Tail(results)
          /\ UNCHANGED <<taskChan, payloads, wire, received, fanHand, sendHand, running>>
          /\ Move(t, "skipped")
        BY <1>8 DEF FanOutSkips, poolVars, resultVars, fanVars, 
                    senderVars, netVars, ctxVars, chanVars
    <2>2. t \in Tasks /\ stage[t] = "result"
        BY <1>8, <2>1, Movers DEF FanOutSkips
    <2>3. /\ At("skipped")' = At("skipped") \cup {t} /\ t \notin At("skipped")
          /\ At("result")' = At("result") \ {t}
          /\ \A s : s # "result" /\ s # "skipped" => At(s)' = At(s)
        <3>1. "result" \in Stages /\ "skipped" \in Stages /\ "result" # "skipped"
            BY DEF Stages, LostStages
        <3>2. stage \in [Tasks -> Stages] /\ t \in Tasks /\ stage[t] = "result" /\ Move(t, "skipped")
            BY <1>0, <2>1, <2>2
        <3> HIDE DEF t
        <3> QED  BY <3>1, <3>2, MoveAt
    <2>4. QueueHolds(results, "result")'
        <3>1. IsInjective(results') /\ Range(results') = At("result")'
            BY <1>0, <2>1, <2>2, <2>3, Leaves DEF EverySectionAccounted
        <3>2. QED  BY <3>1 DEF QueueHolds
    <2>5. QED
        BY <1>0, <2>1, <2>3, <2>4 DEF EverySectionAccounted, QueueHolds, HandHolds
<1>9. CASE FanOutTakes
    <2> DEFINE t == Head(results)
    <2>1. /\ results # <<>> /\ results' = Tail(results)
          /\ fanHand = None /\ fanHand' = t
          /\ UNCHANGED <<taskChan, payloads, wire, received, sendHand, running>>
          /\ Move(t, "offered")
        BY <1>9 DEF FanOutTakes, poolVars, resultVars, fanVars, 
                    senderVars, netVars, ctxVars, chanVars
    <2>2. t \in Tasks /\ stage[t] = "result"
        BY <1>9, <2>1, Movers DEF FanOutTakes
    <2>3. /\ At("offered")' = At("offered") \cup {t} /\ t \notin At("offered")
          /\ At("result")' = At("result") \ {t}
          /\ \A s : s # "result" /\ s # "offered" => At(s)' = At(s)
        <3>1. "result" \in Stages /\ "offered" \in Stages /\ "result" # "offered"
            BY DEF Stages, LostStages
        <3>2. stage \in [Tasks -> Stages] /\ t \in Tasks /\ stage[t] = "result" /\ Move(t, "offered")
            BY <1>0, <2>1, <2>2
        <3> HIDE DEF t
        <3> QED  BY <3>1, <3>2, MoveAt
    <2>4. QueueHolds(results, "result")'
        <3>1. IsInjective(results') /\ Range(results') = At("result")'
            BY <1>0, <2>1, <2>2, <2>3, Leaves DEF EverySectionAccounted
        <3>2. QED  BY <3>1 DEF QueueHolds
    <2>5. HandHolds(fanHand, "offered")'
        BY <1>0, <2>1, <2>2, <2>3, PoolAssumption
           DEF EverySectionAccounted, HandHolds, PoolAssumption
    <2>6. QED
        BY <1>0, <2>1, <2>3, <2>4, <2>5 DEF EverySectionAccounted, QueueHolds, HandHolds
<1>10. CASE FanOutOffers
    <2> DEFINE t == fanHand
    <2>1. /\ fanHand # None /\ fanHand' = None
          /\ payloads' = Append(payloads, t)
          /\ UNCHANGED <<taskChan, results, wire, received, sendHand, running>>
          /\ Move(t, "payload")
        BY <1>10 DEF FanOutOffers, poolVars, resultVars, fanVars, 
                    senderVars, netVars, ctxVars, chanVars
    <2>2. t \in Tasks /\ stage[t] = "offered"
        BY <1>10, <2>1, Movers DEF FanOutOffers
    <2>3. /\ At("payload")' = At("payload") \cup {t} /\ t \notin At("payload")
          /\ At("offered")' = At("offered") \ {t}
          /\ \A s : s # "offered" /\ s # "payload" => At(s)' = At(s)
        <3>1. "offered" \in Stages /\ "payload" \in Stages /\ "offered" # "payload"
            BY DEF Stages, LostStages
        <3>2. stage \in [Tasks -> Stages] /\ t \in Tasks /\ stage[t] = "offered" /\ Move(t, "payload")
            BY <1>0, <2>1, <2>2
        <3> HIDE DEF t
        <3> QED  BY <3>1, <3>2, MoveAt
    <2>4. HandHolds(fanHand, "offered")'
        BY <1>0, <2>1, <2>3, HandHeld DEF EverySectionAccounted, HandHolds
    <2>5. QueueHolds(payloads, "payload")'
        <3>1. IsInjective(payloads) /\ Range(payloads) = At("payload")
            BY <1>0 DEF EverySectionAccounted, QueueHolds
        <3>2. /\ IsInjective(Append(payloads, t))
              /\ Range(Append(payloads, t)) = Range(payloads) \cup {t}
            BY <1>0, <2>2, <2>3, <3>1, AppendInjects
        <3>3. QED  BY <2>1, <2>3, <3>1, <3>2 DEF QueueHolds
    <2>6. QED
        BY <1>0, <2>1, <2>3, <2>4, <2>5 DEF EverySectionAccounted, QueueHolds, HandHolds
<1>11. CASE FanOutAbandons
    <2> DEFINE t == fanHand
    <2>1. /\ fanHand # None /\ fanHand' = None
          /\ UNCHANGED <<taskChan, results, payloads, wire, received, sendHand, running>>
          /\ Move(t, "abandoned")
        BY <1>11 DEF FanOutAbandons, poolVars, resultVars, fanVars, 
                    senderVars, netVars, ctxVars, chanVars
    <2>2. t \in Tasks /\ stage[t] = "offered"
        BY <1>11, <2>1, Movers DEF FanOutAbandons
    <2>3. /\ At("abandoned")' = At("abandoned") \cup {t} /\ t \notin At("abandoned")
          /\ At("offered")' = At("offered") \ {t}
          /\ \A s : s # "offered" /\ s # "abandoned" => At(s)' = At(s)
        <3>1. "offered" \in Stages /\ "abandoned" \in Stages /\ "offered" # "abandoned"
            BY DEF Stages, LostStages
        <3>2. stage \in [Tasks -> Stages] /\ t \in Tasks /\ stage[t] = "offered" /\ Move(t, "abandoned")
            BY <1>0, <2>1, <2>2
        <3> HIDE DEF t
        <3> QED  BY <3>1, <3>2, MoveAt
    <2>4. HandHolds(fanHand, "offered")'
        BY <1>0, <2>1, <2>3, HandHeld DEF EverySectionAccounted, HandHolds
    <2>5. QED
        BY <1>0, <2>1, <2>3, <2>4 DEF EverySectionAccounted, QueueHolds, HandHolds
<1>12. CASE SenderTakes
    <2> DEFINE t == Head(payloads)
    <2>1. /\ payloads # <<>> /\ payloads' = Tail(payloads)
          /\ sender = "recv" /\ sendHand' = t
          /\ UNCHANGED <<taskChan, results, wire, received, fanHand, running>>
          /\ Move(t, "sending")
        BY <1>12 DEF SenderTakes, poolVars, resultVars, fanVars, 
                    senderVars, netVars, ctxVars, chanVars
    <2>2. t \in Tasks /\ stage[t] = "payload"
        BY <1>12, <2>1, Movers DEF SenderTakes
    <2>3. /\ At("sending")' = At("sending") \cup {t} /\ t \notin At("sending")
          /\ At("payload")' = At("payload") \ {t}
          /\ \A s : s # "payload" /\ s # "sending" => At(s)' = At(s)
        <3>1. "payload" \in Stages /\ "sending" \in Stages /\ "payload" # "sending"
            BY DEF Stages, LostStages
        <3>2. stage \in [Tasks -> Stages] /\ t \in Tasks /\ stage[t] = "payload" /\ Move(t, "sending")
            BY <1>0, <2>1, <2>2
        <3> HIDE DEF t
        <3> QED  BY <3>1, <3>2, MoveAt
    <2>4. QueueHolds(payloads, "payload")'
        <3>1. IsInjective(payloads') /\ Range(payloads') = At("payload")'
            BY <1>0, <2>1, <2>2, <2>3, Leaves DEF EverySectionAccounted
        <3>2. QED  BY <3>1 DEF QueueHolds
    <2>5. HandHolds(sendHand, "sending")'
        BY <1>0, <2>1, <2>2, <2>3, PoolAssumption
           DEF EverySectionAccounted, HandHolds, PoolAssumption, SenderHolds, Inv
    <2>6. QED
        BY <1>0, <2>1, <2>3, <2>4, <2>5 DEF EverySectionAccounted, QueueHolds, HandHolds
<1>13. CASE SendOk
    <2> DEFINE t == sendHand
    <2>1. /\ sender = "send" /\ sendHand' = None
          /\ wire' = Append(wire, t)
          /\ UNCHANGED <<taskChan, results, payloads, received, fanHand, running>>
          /\ Move(t, "wire")
        BY <1>13 DEF SendOk, Trying, SendReturns, poolVars, resultVars, 
                    fanVars, senderVars, netVars, ctxVars, chanVars
    <2>2. t \in Tasks /\ stage[t] = "sending"
        BY <1>13, <2>1, Movers DEF SendOk, Trying, SendReturns
    <2>3. /\ At("wire")' = At("wire") \cup {t} /\ t \notin At("wire")
          /\ At("sending")' = At("sending") \ {t}
          /\ \A s : s # "sending" /\ s # "wire" => At(s)' = At(s)
        <3>1. "sending" \in Stages /\ "wire" \in Stages /\ "sending" # "wire"
            BY DEF Stages, LostStages
        <3>2. stage \in [Tasks -> Stages] /\ t \in Tasks /\ stage[t] = "sending" /\ Move(t, "wire")
            BY <1>0, <2>1, <2>2
        <3> HIDE DEF t
        <3> QED  BY <3>1, <3>2, MoveAt
    <2>4. HandHolds(sendHand, "sending")'
        BY <1>0, <2>1, <2>3, HandHeld DEF EverySectionAccounted, HandHolds, SenderHolds, Inv
    <2>5. QueueHolds(wire, "wire")'
        <3>1. IsInjective(wire) /\ Range(wire) = At("wire")
            BY <1>0 DEF EverySectionAccounted, QueueHolds
        <3>2. /\ IsInjective(Append(wire, t))
              /\ Range(Append(wire, t)) = Range(wire) \cup {t}
            BY <1>0, <2>2, <2>3, <3>1, AppendInjects
        <3>3. QED  BY <2>1, <2>3, <3>1, <3>2 DEF QueueHolds
    <2>6. QED
        BY <1>0, <2>1, <2>3, <2>4, <2>5 DEF EverySectionAccounted, QueueHolds, HandHolds
<1>14. CASE SendEOF \/ SendGivesUp
    <2> DEFINE t == sendHand
    <2>1. /\ sender = "send" /\ sendHand' = None
          /\ UNCHANGED <<taskChan, results, payloads, wire, received, fanHand, running>>
          /\ Move(t, "unsent")
        BY <1>14 DEF SendEOF, SendGivesUp, Trying, SendReturns, poolVars, 
                    resultVars, fanVars, senderVars, netVars, ctxVars, 
                    chanVars
    <2>2. t \in Tasks /\ stage[t] = "sending"
        BY <1>14, <2>1, Movers DEF SendEOF, SendGivesUp, Trying, SendReturns
    <2>3. /\ At("unsent")' = At("unsent") \cup {t} /\ t \notin At("unsent")
          /\ At("sending")' = At("sending") \ {t}
          /\ \A s : s # "sending" /\ s # "unsent" => At(s)' = At(s)
        <3>1. "sending" \in Stages /\ "unsent" \in Stages /\ "sending" # "unsent"
            BY DEF Stages, LostStages
        <3>2. stage \in [Tasks -> Stages] /\ t \in Tasks /\ stage[t] = "sending" /\ Move(t, "unsent")
            BY <1>0, <2>1, <2>2
        <3> HIDE DEF t
        <3> QED  BY <3>1, <3>2, MoveAt
    <2>4. HandHolds(sendHand, "sending")'
        BY <1>0, <2>1, <2>3, HandHeld DEF EverySectionAccounted, HandHolds, SenderHolds, Inv
    <2>5. QED
        BY <1>0, <2>1, <2>3, <2>4 DEF EverySectionAccounted, QueueHolds, HandHolds
<1>15. CASE HubReads
    <2> DEFINE t == Head(wire)
    <2>1. /\ wire # <<>> /\ wire' = Tail(wire)
          /\ received' = Append(received, t)
          /\ UNCHANGED <<taskChan, results, payloads, fanHand, sendHand, running>>
          /\ Move(t, "received")
        BY <1>15 DEF HubReads, poolVars, resultVars, fanVars, senderVars, 
                    netVars, ctxVars, chanVars
    <2>2. t \in Tasks /\ stage[t] = "wire"
        BY <1>15, <2>1, Movers DEF HubReads
    <2>3. /\ At("received")' = At("received") \cup {t} /\ t \notin At("received")
          /\ At("wire")' = At("wire") \ {t}
          /\ \A s : s # "wire" /\ s # "received" => At(s)' = At(s)
        <3>1. "wire" \in Stages /\ "received" \in Stages /\ "wire" # "received"
            BY DEF Stages, LostStages
        <3>2. stage \in [Tasks -> Stages] /\ t \in Tasks /\ stage[t] = "wire" /\ Move(t, "received")
            BY <1>0, <2>1, <2>2
        <3> HIDE DEF t
        <3> QED  BY <3>1, <3>2, MoveAt
    <2>4. QueueHolds(wire, "wire")'
        <3>1. IsInjective(wire') /\ Range(wire') = At("wire")'
            BY <1>0, <2>1, <2>2, <2>3, Leaves DEF EverySectionAccounted
        <3>2. QED  BY <3>1 DEF QueueHolds
    <2>5. QueueHolds(received, "received")'
        <3>1. IsInjective(received) /\ Range(received) = At("received")
            BY <1>0 DEF EverySectionAccounted, QueueHolds
        <3>2. /\ IsInjective(Append(received, t))
              /\ Range(Append(received, t)) = Range(received) \cup {t}
            BY <1>0, <2>2, <2>3, <3>1, AppendInjects
        <3>3. QED  BY <2>1, <2>3, <3>1, <3>2 DEF QueueHolds
    <2>6. QED
        BY <1>0, <2>1, <2>3, <2>4, <2>5 DEF EverySectionAccounted, QueueHolds, HandHolds
<1>16. CASE \E why : RpcDies(why) /\ UNCHANGED <<taskChan, results, payloads, fanHand,
                                                   sendHand, running>>
    <2>1. PICK why : RpcDies(why)
        BY <1>16
    <2>2. UNCHANGED <<taskChan, results, payloads, received, fanHand, sendHand, running>>
        BY <1>16 DEF RpcDies
    <2>3. Range(wire) = At("wire")
        BY <1>0 DEF EverySectionAccounted, QueueHolds
    <2>4. /\ At("wire")' = {} /\ wire' = <<>>
          /\ \A s : s # "wire" /\ s # "cut" => At(s)' = At(s)
        BY <1>0, <2>1, <2>3, CutAt
    <2>5. QueueHolds(wire, "wire")'
        BY <2>4, EmptyInjects DEF QueueHolds
    <2>6. QED
        BY <1>0, <2>2, <2>4, <2>5 DEF EverySectionAccounted, QueueHolds, HandHolds
<1>17. CASE UNCHANGED <<taskChan, results, payloads, wire, received, fanHand, sendHand,
                        running, stage>>
    BY <1>0, <1>17 DEF EverySectionAccounted, QueueHolds, HandHolds, At
<1>18. CASE SendErrs \/ RpcBreaks \/ RpcCancelled
    BY <1>16, <1>17, <1>18
       DEF SendErrs, RpcBreaks, RpcCancelled, poolVars, resultVars, fanVars,
           senderVars, netVars
<1>19. CASE \/ MainConnects \/ SeedCalls \/ SeedsDone \/ Signalled \/ PoolStop
            \/ PoolStopped \/ HttpShutdown \/ StreamDrained \/ GraceExpires
            \/ Signal \/ PoolCancelled
    BY <1>17, <1>19
       DEF MainConnects, Connected, ConnectFails, SeedCalls, SeedCall, SubmitCall,
           SeedsDone, Signalled, PoolStop, StopCancel, StopClose, PoolStopped,
           StopReturn, HttpShutdown, StreamDrained, GraceExpires, Signal, CancelParent,
           PoolCancelled, PropagateCancel, poolVars, chanVars, ctxVars, resultVars,
           fanVars, senderVars, netVars
<1>20. CASE \/ \E w \in Workers : WorkerLeaves(w)
            \/ FanOutLeaves \/ StreamOpens \/ StreamOpenFails \/ SenderCloses
            \/ CloseAnswered \/ CloseFails \/ Gone \/ UNCHANGED vars
    BY <1>17, <1>20
       DEF WorkerLeaves, WorkerSeesClosed, WorkerSeesDone, WorkerExit, FanOutLeaves,
           StreamOpens, StreamOpenFails, SenderCloses, CloseAnswered, CloseFails, Gone,
           vars, poolVars, chanVars, ctxVars, resultVars, fanVars, senderVars, netVars
<1>21. QED
    BY <1>1, <1>2, <1>3, <1>4, <1>5, <1>6, <1>7, <1>8, <1>9, <1>10, <1>11, <1>12,
       <1>13, <1>14, <1>15, <1>18, <1>19, <1>20
       DEF Next, MainStep, WorkerStep, FanOutStep, SenderStep


-----------------------------------------------------------------------------
(* The ways a section's stage can change *)

\* The moves that leave every status and every answer alone.
Moves ==
    {<<"queued", "scraping">>, <<"scraping", "panicked">>, <<"scraped", "result">>,
     <<"scraped", "dropped">>, <<"result", "skipped">>, <<"offered", "payload">>,
     <<"offered", "abandoned">>, <<"payload", "sending">>, <<"sending", "wire">>,
     <<"sending", "unsent">>, <<"wire", "received">>}

Stays == UNCHANGED <<stage, status, reply>>

Advances ==
    /\ \E t \in Tasks : \E b \in Stages : <<stage[t], b>> \in Moves /\ Move(t, b)
    /\ UNCHANGED <<status, reply>>

Answered ==
    /\ \E t \in Tasks : \E b \in {"queued", "refused"} :
         \E r \in Replies \ {"none"} :
           stage[t] = "new" /\ Move(t, b) /\ reply' = [reply EXCEPT ![t] = r]
    /\ UNCHANGED status

Scraped ==
    /\ \E t \in Tasks : \E outcome \in {"SUCCESS", "FAILED"} :
         /\ stage[t] = "scraping" /\ Move(t, "scraped")
         /\ status' = [status EXCEPT ![t] = outcome]
    /\ UNCHANGED reply

Chosen ==
    /\ \E t \in Tasks : stage[t] = "result" /\ status[t] = "SUCCESS" /\ Move(t, "offered")
    /\ UNCHANGED <<status, reply>>

CutOff == (\E why : RpcDies(why)) /\ UNCHANGED <<status, reply>>

LEMMA StageStep ==
    Inv /\ [Next]_vars => Stays \/ Advances \/ Answered \/ Scraped \/ Chosen \/ CutOff
<1> SUFFICES ASSUME Inv, [Next]_vars
             PROVE  Stays \/ Advances \/ Answered \/ Scraped \/ Chosen \/ CutOff
    OBVIOUS
<1>1. CASE SeedQueued \/ SeedRefused
    BY <1>1, Movers
       DEF SeedQueued, SeedRefused, SubmitSend, SubmitRefused, SubmitReturn, Answered,
           Replies, resultVars
<1>2. ASSUME NEW w \in Workers, TakeTask(w)
      PROVE  Advances
    <2>1. <<stage[Head(taskChan)], "scraping">> \in Moves /\ "scraping" \in Stages
        BY <1>2, Movers DEF TakeTask, WorkerTake, Moves, Stages
    <2>2. QED  BY <1>2, <2>1, Movers DEF TakeTask, WorkerTake, Advances, resultVars
<1>3. ASSUME NEW w \in Workers, NEW outcome \in {"SUCCESS", "FAILED"},
             ScrapeReturns(w, outcome)
      PROVE  Scraped
    BY <1>3, Movers DEF ScrapeReturns, Scraped, poolVars
<1>4. ASSUME NEW w \in Workers, ScrapePanics(w) \/ SendResult(w) \/ DropResult(w)
      PROVE  Advances
    <2>1. PICK b \in {"panicked", "result", "dropped"} :
              /\ Move(running[w], b) /\ <<stage[running[w]], b>> \in Moves
              /\ running[w] \in Tasks
        BY <1>4, Movers DEF ScrapePanics, SendResult, DropResult, Sending, Moves
    <2>2. b \in Stages
        BY DEF Stages, LostStages
    <2>3. UNCHANGED <<status, reply>>
        BY <1>4 DEF ScrapePanics, SendResult, DropResult, WorkerFinish, resultVars
    <2>4. QED  BY <2>1, <2>2, <2>3 DEF Advances
<1>5. CASE FanOutTakes
    BY <1>5, Movers DEF FanOutTakes, Chosen, poolVars
<1>6. CASE FanOutSkips \/ FanOutOffers \/ FanOutAbandons
    <2>1. PICK t \in Tasks, b \in {"skipped", "payload", "abandoned"} :
              Move(t, b) /\ <<stage[t], b>> \in Moves
        BY <1>6, Movers DEF FanOutSkips, FanOutOffers, FanOutAbandons, Moves
    <2>2. b \in Stages
        BY DEF Stages, LostStages
    <2>3. UNCHANGED <<status, reply>>
        BY <1>6 DEF FanOutSkips, FanOutOffers, FanOutAbandons, poolVars, resultVars
    <2>4. QED  BY <2>1, <2>2, <2>3 DEF Advances
<1>7. CASE SenderTakes \/ SendOk \/ SendEOF \/ SendGivesUp \/ HubReads
    <2>1. PICK t \in Tasks, b \in {"sending", "wire", "unsent", "received"} :
              Move(t, b) /\ <<stage[t], b>> \in Moves
        BY <1>7, Movers DEF SenderTakes, SendOk, SendEOF, SendGivesUp, HubReads,
                            SendReturns, Trying, Moves
    <2>2. b \in Stages
        BY DEF Stages, LostStages
    <2>3. UNCHANGED <<status, reply>>
        BY <1>7 DEF SenderTakes, SendOk, SendEOF, SendGivesUp, HubReads, poolVars,
                    resultVars
    <2>4. QED  BY <2>1, <2>2, <2>3 DEF Advances
<1>8. CASE SendErrs \/ RpcBreaks \/ RpcCancelled
    BY <1>8 DEF SendErrs, RpcBreaks, RpcCancelled, CutOff, Stays, poolVars, resultVars
<1>9. CASE \/ MainConnects \/ SeedCalls \/ SeedsDone \/ Signalled \/ PoolStop
           \/ PoolStopped \/ HttpShutdown \/ StreamDrained \/ GraceExpires
           \/ Signal \/ PoolCancelled
    BY <1>9
       DEF MainConnects, Connected, ConnectFails, SeedCalls, SeedCall, SubmitCall,
           SeedsDone, Signalled, PoolStop, StopCancel, StopClose, PoolStopped,
           StopReturn, HttpShutdown, StreamDrained, GraceExpires, Signal, CancelParent,
           PoolCancelled, PropagateCancel, Stays, poolVars, resultVars
<1>10. CASE \/ \E w \in Workers : WorkerLeaves(w)
            \/ FanOutLeaves \/ StreamOpens \/ StreamOpenFails \/ SenderCloses
            \/ CloseAnswered \/ CloseFails \/ Gone \/ UNCHANGED vars
    BY <1>10
       DEF WorkerLeaves, WorkerSeesClosed, WorkerSeesDone, WorkerExit, FanOutLeaves,
           StreamOpens, StreamOpenFails, SenderCloses, CloseAnswered, CloseFails, Gone,
           vars, poolVars, resultVars, Stays
<1>11. QED
    BY <1>1, <1>2, <1>3, <1>4, <1>5, <1>6, <1>7, <1>8, <1>9, <1>10
       DEF Next, MainStep, WorkerStep, FanOutStep, SenderStep

\* What StageStep says task by task.
LEMMA StageChange ==
    ASSUME Inv, [Next]_vars
    PROVE  /\ stage' \in [Tasks -> Stages]
           /\ status' \in [Tasks -> Statuses]
           /\ \A t \in Tasks :
                /\ stage[t] \in LostStages \cup {"received"} => stage'[t] = stage[t]
                /\ reply'[t] = "none" <=> stage'[t] = "new"
                /\ status'[t] = "none" <=> stage'[t] \in Unscraped
                /\ stage'[t] \in Forwarded => status'[t] = "SUCCESS"
                /\ reply[t] # "none" => reply'[t] # "none"
<1> DEFINE Ok(t) ==
        /\ stage[t] \in LostStages \cup {"received"} => stage'[t] = stage[t]
        /\ reply'[t] = "none" <=> stage'[t] = "new"
        /\ status'[t] = "none" <=> stage'[t] \in Unscraped
        /\ stage'[t] \in Forwarded => status'[t] = "SUCCESS"
        /\ reply[t] # "none" => reply'[t] # "none"
<1> DEFINE Goal == /\ stage' \in [Tasks -> Stages] /\ status' \in [Tasks -> Statuses]
                   /\ \A t \in Tasks : Ok(t)
<1>0. /\ stage \in [Tasks -> Stages] /\ status \in [Tasks -> Statuses]
      /\ reply \in [Tasks -> Replies]
      /\ \A t \in Tasks :
            /\ reply[t] = "none" <=> stage[t] = "new"
            /\ status[t] = "none" <=> stage[t] \in Unscraped
            /\ stage[t] \in Forwarded => status[t] = "SUCCESS"
    BY DEF Inv, TypeOK, PoolTypeOK, StatusAgrees, SubmitsFirst
<1>1. CASE Stays
    BY <1>0, <1>1 DEF Stays
<1>2. CASE Advances
    <2>1. PICK t \in Tasks, b \in Stages : <<stage[t], b>> \in Moves /\ Move(t, b)
        BY <1>2 DEF Advances
    <2>2. /\ stage' \in [Tasks -> Stages] /\ stage'[t] = b
          /\ \A u \in Tasks : u # t => stage'[u] = stage[u]
        BY <1>0, <2>1 DEF Move
    <2>3. UNCHANGED <<status, reply>>
        BY <1>2 DEF Advances
    <2>4. Ok(t)
        BY <1>0, <2>1, <2>2, <2>3 DEF Moves, LostStages, Unscraped, Forwarded
    <2>5. QED  BY <1>0, <2>2, <2>3, <2>4
<1>3. CASE Answered
    <2>1. PICK t \in Tasks, b \in {"queued", "refused"}, r \in Replies \ {"none"} :
              stage[t] = "new" /\ Move(t, b) /\ reply' = [reply EXCEPT ![t] = r]
        BY <1>3 DEF Answered
    <2>2. /\ stage' \in [Tasks -> Stages] /\ stage'[t] = b /\ reply'[t] = r
          /\ \A u \in Tasks : u # t => stage'[u] = stage[u] /\ reply'[u] = reply[u]
        BY <1>0, <2>1 DEF Move, Stages, LostStages
    <2>3. UNCHANGED status
        BY <1>3 DEF Answered
    <2>4. Ok(t)
        BY <1>0, <2>1, <2>2, <2>3 DEF LostStages, Unscraped, Forwarded
    <2>5. QED  BY <1>0, <2>2, <2>3, <2>4
<1>4. CASE Scraped
    <2>1. PICK t \in Tasks, outcome \in {"SUCCESS", "FAILED"} :
              /\ stage[t] = "scraping" /\ Move(t, "scraped")
              /\ status' = [status EXCEPT ![t] = outcome]
        BY <1>4 DEF Scraped
    <2>2. /\ stage' \in [Tasks -> Stages] /\ stage'[t] = "scraped"
          /\ status' \in [Tasks -> Statuses] /\ status'[t] = outcome
          /\ \A u \in Tasks : u # t => stage'[u] = stage[u] /\ status'[u] = status[u]
        BY <1>0, <2>1 DEF Move, Stages, Statuses
    <2>3. UNCHANGED reply
        BY <1>4 DEF Scraped
    <2>4. Ok(t)
        BY <1>0, <2>1, <2>2, <2>3 DEF LostStages, Unscraped, Forwarded
    <2>5. QED  BY <1>0, <2>2, <2>3, <2>4
<1>5. CASE Chosen
    <2>1. PICK t \in Tasks :
              stage[t] = "result" /\ status[t] = "SUCCESS" /\ Move(t, "offered")
        BY <1>5 DEF Chosen
    <2>2. /\ stage' \in [Tasks -> Stages] /\ stage'[t] = "offered"
          /\ \A u \in Tasks : u # t => stage'[u] = stage[u]
        BY <1>0, <2>1 DEF Move, Stages
    <2>3. UNCHANGED <<status, reply>>
        BY <1>5 DEF Chosen
    <2>4. Ok(t)
        BY <1>0, <2>1, <2>2, <2>3 DEF LostStages, Unscraped, Forwarded
    <2>5. QED  BY <1>0, <2>2, <2>3, <2>4
<1>6. CASE CutOff
    <2>1. Range(wire) = At("wire")
        BY DEF Inv, EverySectionAccounted, QueueHolds
    <2>2. /\ stage' \in [Tasks -> Stages]
          /\ \A t \in Tasks : stage'[t] = IF stage[t] = "wire" THEN "cut" ELSE stage[t]
        BY <1>0, <1>6, <2>1, CutAt DEF CutOff
    <2>3. UNCHANGED <<status, reply>>
        BY <1>6 DEF CutOff
    <2>4. QED  BY <1>0, <2>2, <2>3 DEF LostStages, Unscraped, Forwarded
<1>7. QED  BY <1>1, <1>2, <1>3, <1>4, <1>5, <1>6, StageStep

-----------------------------------------------------------------------------
(* The other conjuncts of the invariant *)

\* What one step may do to a channel of capacity cap.
QueueMoves(q, r, cap) ==
    \/ r = q
    \/ r = <<>>
    \/ q # <<>> /\ r = Tail(q)
    \/ Len(q) < cap /\ \E t \in Tasks : r = Append(q, t)

LEMMA QueueTyped ==
    ASSUME NEW cap \in Nat, NEW q \in Seq(Tasks), Len(q) <= cap, NEW r,
           QueueMoves(q, r, cap)
    PROVE  r \in Seq(Tasks) /\ Len(r) <= cap
<1>1. CASE r = q
    BY <1>1
<1>0. CASE r = <<>>
    <2>1. <<>> \in Seq(Tasks) /\ Len(<<>>) = 0
        OBVIOUS
    <2>2. QED  BY <1>0, <2>1
<1>2. CASE q # <<>> /\ r = Tail(q)
    BY <1>2, HeadTailProperties
<1>3. CASE Len(q) < cap /\ \E t \in Tasks : r = Append(q, t)
    BY <1>3, AppendProperties
<1>4. QED  BY <1>0, <1>1, <1>2, <1>3 DEF QueueMoves

LEMMA ChannelStep ==
    ASSUME Inv, [Next]_vars
    PROVE  /\ QueueMoves(results, results', ResultsCap)
           /\ QueueMoves(payloads, payloads', PayloadCap)
           /\ QueueMoves(wire, wire', WireCap)
           /\ UNCHANGED received \/ HubReads
<1>1. CASE MainConnects \/ SeedCalls \/ MainStep \/ Signal \/ PoolCancelled
    BY <1>1 DEF MainConnects, Connected, ConnectFails, SeedCalls, SeedCall, MainStep,
        SeedQueued, SeedRefused, SeedsDone, Signalled, PoolStop, PoolStopped,
        HttpShutdown, StreamDrained, GraceExpires, Signal, PoolCancelled, resultVars,
        netVars, QueueMoves
<1>2. ASSUME NEW w \in Workers, WorkerStep(w)
      PROVE  /\ QueueMoves(results, results', ResultsCap)
             /\ UNCHANGED <<payloads, wire, received>>
    BY <1>2, Movers DEF WorkerStep, TakeTask, WorkerLeaves, ScrapeReturns, ScrapePanics,
        SendResult, DropResult, Sending, resultVars, netVars, QueueMoves
<1>3. CASE FanOutStep
    BY <1>3, Movers DEF FanOutStep, FanOutSkips, FanOutTakes, FanOutOffers, FanOutLeaves,
        FanOutAbandons, resultVars, netVars, QueueMoves
<1>4. CASE SenderStep
    BY <1>4, Movers DEF SenderStep, StreamOpens, StreamOpenFails, SenderTakes,
        SenderCloses, SendOk, SendEOF, SendErrs, SendGivesUp, CloseAnswered, CloseFails,
        SendReturns, Trying, RpcDies, resultVars, netVars, QueueMoves
<1>5. CASE HubReads \/ RpcBreaks \/ RpcCancelled \/ Gone \/ UNCHANGED vars
    BY <1>5, Movers DEF HubReads, RpcBreaks, RpcCancelled, RpcDies, Gone, vars, resultVars,
        netVars, QueueMoves
<1>6. QED  BY <1>1, <1>2, <1>3, <1>4, <1>5 DEF Next, QueueMoves

\* Types of the control variables, and SenderHolds.
LEMMA ControlStep ==
    ASSUME Inv, [Next]_vars
    PROVE  /\ main' \in MainPoints
           /\ fanHand' \in Tasks \cup {None}
           /\ fanExited' \in BOOLEAN
           /\ sender' \in SenderPoints
           /\ sendHand' \in Tasks \cup {None}
           /\ attempt' \in 0 .. MaxSendRetries + 1
           /\ answer' \in {"none", "response", "error"}
           /\ rpc' \in RpcStates
           /\ SenderHolds'
<1>0. /\ main \in MainPoints /\ fanHand \in Tasks \cup {None} /\ fanExited \in BOOLEAN
      /\ sender \in SenderPoints /\ sendHand \in Tasks \cup {None}
      /\ attempt \in 0 .. MaxSendRetries + 1 /\ MaxSendRetries \in Nat
      /\ answer \in {"none", "response", "error"} /\ rpc \in RpcStates
      /\ SenderHolds /\ None \notin Tasks
    BY GatewayAssumption, PoolAssumption DEF Inv, TypeOK, GatewayAssumption, PoolAssumption
<1>1. CASE MainConnects \/ SeedCalls \/ MainStep \/ Signal \/ PoolCancelled
    BY <1>0, <1>1 DEF MainConnects, Connected, ConnectFails, SeedCalls, SeedCall, MainStep,
        SeedQueued, SeedRefused, SeedsDone, Signalled, PoolStop, PoolStopped,
        HttpShutdown, StreamDrained, GraceExpires, Signal, PoolCancelled, fanVars,
        senderVars, netVars, MainPoints, SenderHolds
<1>2. ASSUME NEW w \in Workers, WorkerStep(w)
      PROVE  UNCHANGED <<main, fanHand, fanExited, sender, sendHand, attempt, answer, rpc>>
    BY <1>2 DEF WorkerStep, TakeTask, WorkerLeaves, ScrapeReturns, ScrapePanics,
        SendResult, DropResult, fanVars, senderVars, netVars
<1>3. CASE FanOutStep
    BY <1>0, <1>3, Movers DEF FanOutStep, FanOutSkips, FanOutTakes, FanOutOffers,
        FanOutLeaves, FanOutAbandons, fanVars, senderVars, netVars, SenderHolds
<1>4. CASE SenderStep
    <2>1. UNCHANGED <<main, fanHand, fanExited>>
        BY <1>4 DEF SenderStep, StreamOpens, StreamOpenFails, SenderTakes,
            SenderCloses, SendOk, SendEOF, SendErrs, SendGivesUp, CloseAnswered,
            CloseFails, fanVars
    <2>2. CASE SenderTakes
        BY <1>0, <2>1, <2>2, Movers DEF SenderTakes, netVars, SenderPoints, SenderHolds
    <2>3. CASE SendOk \/ SendEOF \/ SendGivesUp
        BY <1>0, <2>1, <2>3 DEF SendOk, SendEOF, SendGivesUp, SendReturns, netVars,
            SenderPoints, SenderHolds
    <2>4. CASE SendErrs
        BY <1>0, <2>1, <2>4 DEF SendErrs, Trying, RpcDies, netVars, RpcStates, SenderHolds
    <2>5. CASE StreamOpens \/ StreamOpenFails \/ SenderCloses \/ CloseAnswered \/ CloseFails
        BY <1>0, <2>1, <2>5 DEF StreamOpens, StreamOpenFails, SenderCloses, CloseAnswered,
            CloseFails, netVars, SenderPoints, RpcStates, SenderHolds
    <2>6. QED  BY <1>4, <2>1, <2>2, <2>3, <2>4, <2>5, <1>0 DEF SenderStep
<1>5. CASE HubReads \/ RpcBreaks \/ RpcCancelled \/ Gone \/ UNCHANGED vars
    BY <1>0, <1>5 DEF HubReads, RpcBreaks, RpcCancelled, RpcDies, Gone, vars, fanVars,
        senderVars, netVars, RpcStates, SenderHolds
<1>6. QED  BY <1>0, <1>1, <1>2, <1>3, <1>4, <1>5 DEF Next, SenderHolds

LEMMA TypeStep == ASSUME Inv, [Next]_vars PROVE TypeOK'
<1>1. /\ results \in Seq(Tasks) /\ Len(results) <= ResultsCap /\ ResultsCap \in Nat
      /\ payloads \in Seq(Tasks) /\ Len(payloads) <= PayloadCap /\ PayloadCap \in Nat
      /\ wire \in Seq(Tasks) /\ Len(wire) <= WireCap /\ WireCap \in Nat
      /\ received \in Seq(Tasks)
    BY GatewayAssumption DEF Inv, TypeOK, GatewayAssumption
<1>2. results' \in Seq(Tasks) /\ Len(results') <= ResultsCap
    BY <1>1, ChannelStep, QueueTyped
<1>3. payloads' \in Seq(Tasks) /\ Len(payloads') <= PayloadCap
    BY <1>1, ChannelStep, QueueTyped
<1>4. wire' \in Seq(Tasks) /\ Len(wire') <= WireCap
    BY <1>1, ChannelStep, QueueTyped
<1>5. received' \in Seq(Tasks)
    <2>1. CASE HubReads
        BY <1>1, <2>1, Movers, AppendProperties DEF HubReads
    <2>2. QED  BY <1>1, <2>1, ChannelStep
<1>6. PoolTypeOK'
    BY GatewayKeepsPool DEF Inv, PoolInv
<1>7. stage' \in [Tasks -> Stages] /\ status' \in [Tasks -> Statuses]
    BY StageChange
<1>8. QED  BY <1>2, <1>3, <1>4, <1>5, <1>6, <1>7, ControlStep DEF TypeOK

LEMMA SubmitsStep == ASSUME Inv, [Next]_vars PROVE SubmitsFirst'
<1>0. /\ Main \in Submitters /\ offering \in [Submitters -> Tasks \cup {None}]
      /\ SubmitsFirst
    BY GatewayAssumption DEF Inv, PoolInv, PoolTypeOK, GatewayAssumption
<1>1. /\ \A t \in Tasks : reply'[t] = "none" <=> stage'[t] = "new"
      /\ AllReplied => AllReplied'
    BY StageChange DEF AllReplied
<1> DEFINE Rest ==
      /\ offering[Main] # None => main = "submit"
      /\ main \in {"await", "stop", "http", "drain"} => AllReplied
      /\ stop # "idle" => main \in {"stop", "http", "drain", "exit"} /\ AllReplied
      /\ chanClosed => stop # "idle"
<1>2. CASE SeedCalls \/ SeedQueued \/ SeedRefused
    BY <1>0, <1>1, <1>2 DEF SubmitsFirst, SeedCalls, SeedCall, SubmitCall, SeedQueued,
        SubmitSend, SeedRefused, SubmitRefused, SubmitReturn, chanVars
<1>3. CASE MainConnects \/ SeedsDone
    <2>1. Rest'
        BY <1>0, <1>1, <1>3 DEF SubmitsFirst, MainConnects, Connected, ConnectFails,
            SeedsDone, poolVars, AllReplied
    <2>2. QED  BY <1>1, <2>1 DEF SubmitsFirst
<1>4. CASE PoolStop \/ PoolStopped
    <2>1. Rest'
        BY <1>0, <1>1, <1>4 DEF SubmitsFirst, PoolStop, StopCancel, StopClose, PoolStopped,
            StopReturn, chanVars
    <2>2. QED  BY <1>1, <2>1 DEF SubmitsFirst
<1>5. CASE Signalled \/ HttpShutdown \/ StreamDrained \/ GraceExpires \/ Signal
            \/ PoolCancelled
    <2>1. Rest'
        BY <1>0, <1>1, <1>5 DEF SubmitsFirst, Signalled, HttpShutdown, StreamDrained,
            GraceExpires, Signal, CancelParent, PoolCancelled, PropagateCancel, poolVars,
            chanVars
    <2>2. QED  BY <1>1, <2>1 DEF SubmitsFirst
<1>6. CASE UNCHANGED <<main, offering, stop, chanClosed>>
    BY <1>0, <1>1, <1>6 DEF SubmitsFirst
<1>7. ASSUME NEW w \in Workers, WorkerStep(w)
      PROVE  UNCHANGED <<main, offering, stop, chanClosed>>
    BY <1>7 DEF WorkerStep, TakeTask, WorkerTake, WorkerLeaves, WorkerSeesClosed,
        WorkerSeesDone, WorkerExit, ScrapeReturns, ScrapePanics, SendResult, DropResult,
        WorkerFinish, poolVars, chanVars
<1>8. CASE FanOutStep \/ SenderStep
    BY <1>6, <1>8 DEF FanOutStep, FanOutSkips, FanOutTakes, FanOutOffers, FanOutLeaves,
        FanOutAbandons, SenderStep, StreamOpens, StreamOpenFails, SenderTakes,
        SenderCloses, SendOk, SendEOF, SendErrs, SendGivesUp, CloseAnswered, CloseFails,
        poolVars
<1>9. CASE HubReads \/ RpcBreaks \/ RpcCancelled \/ Gone \/ UNCHANGED vars
    BY <1>6, <1>9 DEF HubReads, RpcBreaks, RpcCancelled, Gone, vars, poolVars
<1>10. QED  BY <1>2, <1>3, <1>4, <1>5, <1>6, <1>7, <1>8, <1>9 DEF Next, MainStep

-----------------------------------------------------------------------------
(* The invariant *)

LEMMA GatewayInitInv == Init => Inv
<1> SUFFICES ASSUME Init PROVE Inv
    OBVIOUS
<1>1. PoolInv
    BY PoolInitInv DEF Init
<1>2. TypeOK
    <2>1. <<>> \in Seq(Tasks) /\ Len(<<>>) = 0
        OBVIOUS
    <2>2. /\ ResultsCap \in Nat /\ PayloadCap \in Nat /\ WireCap \in Nat
          /\ MaxSendRetries \in Nat
        BY GatewayAssumption DEF GatewayAssumption
    <2>3. /\ Len(results) <= ResultsCap /\ Len(payloads) <= PayloadCap
          /\ Len(wire) <= WireCap /\ attempt \in 0 .. MaxSendRetries + 1
        BY <2>1, <2>2 DEF Init
    <2>4. stage \in [Tasks -> Stages] /\ status \in [Tasks -> Statuses]
        BY DEF Init, Stages, Statuses
    <2>5. /\ results \in Seq(Tasks) /\ payloads \in Seq(Tasks) /\ wire \in Seq(Tasks)
          /\ received \in Seq(Tasks)
        BY <2>1 DEF Init
    <2>6. QED
        BY <1>1, <2>3, <2>4, <2>5 DEF Init, TypeOK, PoolInv, MainPoints, SenderPoints,
            RpcStates
<1>3. \A s : s # "new" => At(s) = {}
    BY DEF Init, At
<1>4. EverySectionAccounted
    BY <1>3, EmptyInjects DEF Init, PoolInit, EverySectionAccounted, QueueHolds,
        HandHolds, Range
<1>5. StatusAgrees /\ SenderHolds
    BY DEF Init, StatusAgrees, SenderHolds, Unscraped, Forwarded
<1>6. SubmitsFirst
    BY GatewayAssumption DEF Init, PoolInit, SubmitsFirst, GatewayAssumption
<1>7. QED  BY <1>1, <1>2, <1>4, <1>5, <1>6 DEF Inv

LEMMA GatewayStepInv == Inv /\ [Next]_vars => Inv'
<1> SUFFICES ASSUME Inv, [Next]_vars PROVE Inv'
    OBVIOUS
<1>1. StatusAgrees'
    BY StageChange DEF StatusAgrees
<1>2. PoolInv'
    BY GatewayKeepsPool DEF Inv
<1>3. QED  BY <1>1, <1>2, TypeStep, AccountStep, SubmitsStep, ControlStep DEF Inv

\* Inv holds in every state of every behaviour of the gateway.
THEOREM GatewayInvariant == SafeSpec => []Inv
BY GatewayInitInv, GatewayStepInv, PTL DEF SafeSpec

-----------------------------------------------------------------------------
(* The results *)

\* The gateway is an environment in which the pool behaves as WorkerPool says:
\* every theorem of WorkerPoolProofs is one about the gateway's pool.
THEOREM GatewayUsesPool == SafeSpec => PoolSafeSpec
<1>1. Init => PoolInit
    BY DEF Init
<1>2. QED  BY <1>1, GatewayStepsPool, PTL DEF SafeSpec, PoolSafeSpec

\* Type correctness: every channel respects its capacity.
THEOREM GatewayTypes == SafeSpec => []TypeOK
<1>1. Inv => TypeOK
    BY DEF Inv
<1>2. QED  BY <1>1, GatewayInvariant, PTL

\* Every section is in exactly the one place its history says.
THEOREM SectionsAccounted == SafeSpec => []EverySectionAccounted
<1>1. Inv => EverySectionAccounted
    BY DEF Inv
<1>2. QED  BY <1>1, GatewayInvariant, PTL

\* No failed scrape is ever sent to the hub.
THEOREM HubGetsOnlySuccess == SafeSpec => []OnlySuccessReceived
<1>1. Inv => OnlySuccessReceived
    BY DEF Inv, EverySectionAccounted, QueueHolds, At, StatusAgrees, Forwarded,
           OnlySuccessReceived
<1>2. QED  BY <1>1, GatewayInvariant, PTL

\* The gateway never meets the panic of Submit on a closed channel.
THEOREM SubmitIsSafe == SafeSpec => []SubmitNeverMeetsClosedChannel
<1>1. Inv => SubmitNeverMeetsClosedChannel
    <2> SUFFICES ASSUME Inv, chanClosed
                 PROVE  offering[Main] = None /\ AllReplied
        BY DEF SubmitNeverMeetsClosedChannel, AllReplied
    <2>1. AllReplied /\ main # "submit"
        BY DEF Inv, SubmitsFirst
    <2>2. QED  BY <2>1 DEF Inv, SubmitsFirst
<1>2. QED  BY <1>1, GatewayInvariant, PTL

\* The gateway implements at-most-once delivery: each of its steps delivers one
\* section that was neither delivered nor lost, loses sections that were not,
\* or changes neither.
THEOREM GatewayDelivers == SafeSpec => DeliversAtMostOnce
<1> DEFINE Lost == {t \in Tasks : stage[t] \in LostStages}
<1>1. Init => D!Init
    BY DEF Init, D!Init, LostStages
<1>2. Inv /\ [Next]_vars => [D!Next]_<<received, Lost>>
    <2> SUFFICES ASSUME Inv, [Next]_vars PROVE [D!Next]_<<received, Lost>>
        OBVIOUS
    <2>1. /\ Range(received) = At("received") /\ Lost \subseteq Lost'
          /\ stage \in [Tasks -> Stages]
        BY StageChange DEF Inv, TypeOK, EverySectionAccounted, QueueHolds
    <2>2. CASE HubReads
        <3> DEFINE t == Head(wire)
        <3>1. t \in Tasks /\ stage[t] = "wire" /\ Move(t, "received")
              /\ received' = Append(received, t)
            BY <2>2, Movers DEF HubReads
        <3>2. t \notin Range(received) /\ t \notin Lost
            BY <2>1, <3>1 DEF At, LostStages
        <3>3. Lost' = Lost
            BY <2>1, <3>1 DEF Move, LostStages
        <3>4. D!Deliver(t)
            BY <3>1, <3>2, <3>3 DEF D!Deliver, D!Range, Range
        <3>5. QED  BY <3>1, <3>4 DEF D!Next
    <2>3. CASE UNCHANGED received
        <3>0. PICK S : S = Lost' \ Lost
            OBVIOUS
        <3>1. S \in SUBSET Tasks /\ Lost' = Lost \cup S
            BY <2>1, <3>0
        <3>2. S \cap (Range(received) \cup Lost) = {}
            BY <2>1, <3>0, StageChange DEF At, LostStages
        <3>3. D!Lose(S)
            BY <2>3, <3>1, <3>2 DEF D!Lose, D!Range, Range
        <3>4. QED  BY <3>1, <3>3 DEF D!Next
    <2>4. QED  BY <2>2, <2>3, ChannelStep
<1>3. QED
    BY <1>1, <1>2, GatewayInvariant, PTL DEF SafeSpec, DeliversAtMostOnce, D!Spec,
       D!deliveryVars
=============================================================================
