------------------------------ MODULE Gateway ------------------------------
(***************************************************************************)
(* The Go scraping gateway as one process: the main goroutine, the worker  *)
(* pool (module WorkerPool) running SectionWorker tasks, the fan-out        *)
(* goroutine and the stream goroutine, joined by three channels            *)
(*                                                                         *)
(*   taskChan --> workers --> Results --> fan-out --> payloads --> stream   *)
(*                                                                         *)
(* and, outside the process, the gRPC stream with the hub at its far end.   *)
(* scrapers/cmd/api/main.go, internal/service/scraper_service.go and        *)
(* internal/service/grpc_client.go.                                        *)
(*                                                                         *)
(* A task stands for one (seed, selector) pair and for everything derived   *)
(* from it: its ScrapeResult, its payload, its message on the wire.         *)
(* Of the result only the status is kept.                                   *)
(***************************************************************************)
EXTENDS WorkerPool

CONSTANTS
    Main,             \* the main goroutine, the pool's one submitter
    ResultsCap,       \* make(chan models.ScrapeResult, 100)
    PayloadCap,       \* PAYLOAD_BUFFER_SIZE
    WireCap,          \* messages gRPC takes before flow control blocks Send
    MaxSendRetries,   \* MAX_SEND_RETRIES, not validated by validateConfig
    Unencodable       \* payloads the gRPC codec refuses (invalid UTF-8)

ASSUME GatewayAssumption ==
    /\ Submitters = {Main}
    /\ ResultsCap \in Nat \ {0}
    /\ PayloadCap \in Nat \ {0}
    /\ WireCap \in Nat \ {0}
    /\ MaxSendRetries \in Nat
    /\ Unencodable \subseteq Tasks

\* Besides those of WorkerPool, whose parentDone is rootCtx, which SIGINT or
\* SIGTERM cancels, and whose tasks are the sections of all seeds.
VARIABLES
    \* the process
    main,         \* where the main goroutine is
    status,       \* status[t]: ScrapeResult.Status once the scrape returned
    results,      \* scraperSvc.Results
    fanHand,      \* the payload the fan-out goroutine offers, or None
    fanExited,    \* the fan-out goroutine returned, closing payloads
    payloads,     \* the payloads channel
    sender,       \* where the stream goroutine is, inside StartStream
    sendHand,     \* the payload sendWithRetry holds, or None
    attempt,      \* its loop counter
    answer,       \* what CloseAndRecv returned
    \* outside the process
    rpc,          \* the client stream of StreamScrapeData
    wire,         \* messages Send took that the hub has not read
    received,     \* messages the hub has read, in order
    \* history: how far each task has come
    stage

resultVars == <<status, results>>
fanVars    == <<fanHand, fanExited>>
senderVars == <<sender, sendHand, attempt, answer>>
netVars    == <<rpc, wire, received>>
vars == <<poolVars, main, resultVars, fanVars, payloads, senderVars, netVars,
          stage>>

MainPoints   == {"connect", "submit", "await", "stop", "http", "drain", "exit"}
SenderPoints == {"open", "recv", "send", "close", "done"}
Statuses     == {"none", "SUCCESS", "FAILED"}
RpcStates    == {"none", "up", "broken", "aborted", "cancelled"}

\* How a task can end without reaching the hub: Submit refused it, its scrape
\* panicked, sendResult timed out, its scrape failed, the fan-out goroutine
\* was cancelled holding it, sendWithRetry gave it up, or its stream died
\* before the hub read it.
LostStages == {"refused", "panicked", "dropped", "skipped", "abandoned",
               "unsent", "cut"}

Stages == {"new", "queued", "scraping", "scraped", "result", "offered",
           "payload", "sending", "wire", "received"} \cup LostStages

\* The stream is over for the sender: Send answers io.EOF.
Dead == {"broken", "aborted", "cancelled"}

\* The goroutines of main.go exist between Connect and the process's exit.
Alive == main \notin {"connect", "exit"}

Init ==
    /\ PoolInit
    /\ main = "connect"
    /\ status = [t \in Tasks |-> "none"]
    /\ results = <<>>
    /\ fanHand = None
    /\ fanExited = FALSE
    /\ payloads = <<>>
    /\ sender = "open"
    /\ sendHand = None
    /\ attempt = 0
    /\ answer = "none"
    /\ rpc = "none"
    /\ wire = <<>>
    /\ received = <<>>
    /\ stage = [t \in Tasks |-> "new"]

\* Task t has come to stage s.
Move(t, s) == stage' = [stage EXCEPT ![t] = s]

\* The stream dies: what the hub has not read it never will.
RpcDies(why) ==
    /\ rpc = "up"
    /\ rpc' = why
    /\ wire' = <<>>
    /\ stage' = [t \in Tasks |-> IF t \in Range(wire) THEN "cut" ELSE stage[t]]
    /\ UNCHANGED received

-----------------------------------------------------------------------------
(* Steps shared by the actions below *)

\* The worker is inside sendResult.
Sending(w) == running[w] # None /\ status[running[w]] # "none"

FanOutActive == Alive /\ ~fanExited

\* The loop of sendWithRetry has an attempt left.
Trying == Alive /\ sender = "send" /\ attempt <= MaxSendRetries

\* sendWithRetry is done with its payload, which is now at stage s.
SendReturns(s) ==
    /\ sendHand' = None
    /\ attempt' = 0
    /\ sender' = "recv"
    /\ Move(sendHand, s)

-----------------------------------------------------------------------------
(* Mutated actions: plausible bugs, each of which breaks a property below     *)
(* (PROJECT.json says which).  No specification uses them.                    *)

\* Results holds one more than its capacity.
MutSendResultOffByOne(w) ==
    /\ main # "exit" /\ Sending(w) /\ Len(results) <= ResultsCap
    /\ results' = Append(results, running[w])
    /\ WorkerFinish(w)
    /\ Move(running[w], "result")
    /\ UNCHANGED <<main, status, fanVars, payloads, senderVars, netVars>>

\* sendResult's timeout is tied to the pool's context.
MutDropUntilCancelled(w) ==
    /\ main # "exit" /\ Sending(w) /\ ~poolDone /\ Len(results) >= ResultsCap
    /\ WorkerFinish(w)
    /\ Move(running[w], "dropped")
    /\ UNCHANGED <<main, resultVars, fanVars, payloads, senderVars, netVars>>

\* The seeds are submitted by a goroutine main does not wait for.
MutSeedsInBackground ==
    /\ main = "submit"
    /\ main' = "await"
    /\ UNCHANGED <<poolVars, resultVars, fanVars, payloads, senderVars, netVars, stage>>

\* The fan-out offers its payload again after it was taken.
MutFanOutRepeats ==
    /\ FanOutActive /\ fanHand # None /\ Len(payloads) < PayloadCap
    /\ payloads' = Append(payloads, fanHand)
    /\ Move(fanHand, "payload")
    /\ UNCHANGED <<poolVars, main, resultVars, fanVars, senderVars, netVars>>

\* A Send that succeeded is tried again.
MutSendOkRepeats ==
    /\ Trying /\ sendHand \notin Unencodable /\ rpc = "up" /\ Len(wire) < WireCap
    /\ wire' = Append(wire, sendHand)
    /\ attempt' = attempt + 1
    /\ Move(sendHand, "wire")
    /\ UNCHANGED <<poolVars, main, resultVars, fanVars, payloads, sender, sendHand,
                   answer, rpc, received>>

\* io.EOF is retried without counting the attempt.
MutEOFRetries ==
    /\ Trying /\ sendHand \notin Unencodable /\ rpc \in Dead
    /\ UNCHANGED vars

-----------------------------------------------------------------------------
(* main *)

\* grpcClient.Connect: Ready before the dial timeout, or os.Exit(1).
Connected ==
    /\ main = "connect"
    /\ main' = "submit"
    /\ UNCHANGED <<poolVars, resultVars, fanVars, payloads, senderVars, netVars, stage>>

ConnectFails ==
    /\ main = "connect"
    /\ main' = "exit"
    /\ UNCHANGED <<poolVars, resultVars, fanVars, payloads, senderVars, netVars, stage>>

\* The seeds loop calls StartHopping, which submits one task per selector and
\* logs an error of Submit.  All orders of the seeds are considered.
SeedCall(t) ==
    /\ main = "submit"
    /\ SubmitCall(Main, t)
    /\ UNCHANGED <<main, resultVars, fanVars, payloads, senderVars, netVars, stage>>

SeedQueued ==
    /\ main = "submit"
    /\ SubmitSend(Main)
    /\ Move(offering[Main], "queued")
    /\ UNCHANGED <<main, resultVars, fanVars, payloads, senderVars, netVars>>

SeedRefused ==
    /\ main = "submit"
    /\ SubmitRefused(Main)
    /\ Move(offering[Main], "refused")
    /\ UNCHANGED <<main, resultVars, fanVars, payloads, senderVars, netVars>>

\* The loop is over: main waits on rootCtx.
SeedsDone ==
    /\ main = "submit"
    /\ offering[Main] = None
    /\ \A t \in Tasks : reply[t] # "none"
    /\ main' = "await"
    /\ UNCHANGED <<poolVars, resultVars, fanVars, payloads, senderVars, netVars, stage>>

\* SIGINT or SIGTERM cancels rootCtx; the pool's context follows.
Signal ==
    /\ main # "exit"
    /\ CancelParent
    /\ UNCHANGED <<main, resultVars, fanVars, payloads, senderVars, netVars, stage>>

PoolCancelled ==
    /\ main # "exit"
    /\ PropagateCancel
    /\ UNCHANGED <<main, resultVars, fanVars, payloads, senderVars, netVars, stage>>

\* <-rootCtx.Done()
Signalled ==
    /\ main = "await"
    /\ parentDone
    /\ main' = "stop"
    /\ UNCHANGED <<poolVars, resultVars, fanVars, payloads, senderVars, netVars, stage>>

\* pool.Stop(): cancel, close the task channel, wait for the workers.
PoolStop ==
    /\ main = "stop"
    /\ StopCancel \/ StopClose
    /\ UNCHANGED <<main, resultVars, fanVars, payloads, senderVars, netVars, stage>>

PoolStopped ==
    /\ main = "stop"
    /\ StopReturn
    /\ main' = "http"
    /\ UNCHANGED <<resultVars, fanVars, payloads, senderVars, netVars, stage>>

\* httpServer.Shutdown: its handlers take no lock and write one line.
HttpShutdown ==
    /\ main = "http"
    /\ main' = "drain"
    /\ UNCHANGED <<poolVars, resultVars, fanVars, payloads, senderVars, netVars, stage>>

\* select: <-streamDone, or the grace period; main returns and the process ends.
StreamDrained ==
    /\ main = "drain"
    /\ sender = "done"
    /\ main' = "exit"
    /\ UNCHANGED <<poolVars, resultVars, fanVars, payloads, senderVars, netVars, stage>>

GraceExpires ==
    /\ main = "drain"
    /\ main' = "exit"
    /\ UNCHANGED <<poolVars, resultVars, fanVars, payloads, senderVars, netVars, stage>>

\* The process is gone and the hub has seen its stream end.
Gone ==
    /\ main = "exit"
    /\ rpc # "up"
    /\ UNCHANGED vars

-----------------------------------------------------------------------------
(* The workers: SectionWorker.Execute *)

TakeTask(w) ==
    /\ main # "exit"
    /\ WorkerTake(w)
    /\ Move(Head(taskChan), "scraping")
    /\ UNCHANGED <<main, resultVars, fanVars, payloads, senderVars, netVars>>

WorkerLeaves(w) ==
    /\ main # "exit"
    /\ WorkerSeesClosed(w) \/ WorkerSeesDone(w)
    /\ UNCHANGED <<main, resultVars, fanVars, payloads, senderVars, netVars, stage>>

\* Engine.Scrape returns, in time or by its own timeouts.  A cancelled context
\* makes it fail only before the request is on its way.
ScrapeReturns(w, outcome) ==
    /\ main # "exit"
    /\ running[w] # None
    /\ status[running[w]] = "none"
    /\ status' = [status EXCEPT ![running[w]] = outcome]
    /\ Move(running[w], "scraped")
    /\ UNCHANGED <<poolVars, main, results, fanVars, payloads, senderVars, netVars>>

\* Engine.Scrape panics: the pool recovers and nothing is sent.
ScrapePanics(w) ==
    /\ main # "exit"
    /\ running[w] # None
    /\ status[running[w]] = "none"
    /\ WorkerFinish(w)
    /\ Move(running[w], "panicked")
    /\ UNCHANGED <<main, resultVars, fanVars, payloads, senderVars, netVars>>

\* sendResult, case sw.Output <- res
SendResult(w) ==
    /\ main # "exit"
    /\ Sending(w)
    /\ Len(results) < ResultsCap
    /\ results' = Append(results, running[w])
    /\ WorkerFinish(w)
    /\ Move(running[w], "result")
    /\ UNCHANGED <<main, status, fanVars, payloads, senderVars, netVars>>

\* sendResult, case <-time.After(1 * time.Second): a second passed with the
\* channel full.  It waits for nothing else, not even a cancelled context.
DropResult(w) ==
    /\ main # "exit"
    /\ Sending(w)
    /\ Len(results) >= ResultsCap
    /\ WorkerFinish(w)
    /\ Move(running[w], "dropped")
    /\ UNCHANGED <<main, resultVars, fanVars, payloads, senderVars, netVars>>

-----------------------------------------------------------------------------
(* The fan-out goroutine *)

\* case result := <-Results with a status other than SUCCESS: skipped.
FanOutSkips ==
    /\ FanOutActive /\ fanHand = None
    /\ results # <<>>
    /\ status[Head(results)] # "SUCCESS"
    /\ results' = Tail(results)
    /\ Move(Head(results), "skipped")
    /\ UNCHANGED <<poolVars, main, status, fanVars, payloads, senderVars, netVars>>

\* case result := <-Results with SUCCESS: it becomes a payload.
FanOutTakes ==
    /\ FanOutActive /\ fanHand = None
    /\ results # <<>>
    /\ status[Head(results)] = "SUCCESS"
    /\ results' = Tail(results)
    /\ fanHand' = Head(results)
    /\ Move(Head(results), "offered")
    /\ UNCHANGED <<poolVars, main, status, fanExited, payloads, senderVars, netVars>>

\* inner select, case payloads <- payload
FanOutOffers ==
    /\ FanOutActive /\ fanHand # None
    /\ Len(payloads) < PayloadCap
    /\ payloads' = Append(payloads, fanHand)
    /\ fanHand' = None
    /\ Move(fanHand, "payload")
    /\ UNCHANGED <<poolVars, main, resultVars, fanExited, senderVars, netVars>>

\* <-rootCtx.Done() in the outer select; the deferred close(payloads) runs.
FanOutLeaves ==
    /\ FanOutActive /\ fanHand = None
    /\ parentDone
    /\ fanExited' = TRUE
    /\ UNCHANGED <<poolVars, main, resultVars, fanHand, payloads, senderVars, netVars, stage>>

\* <-rootCtx.Done() in the inner select: the payload in hand goes nowhere.
FanOutAbandons ==
    /\ FanOutActive /\ fanHand # None
    /\ parentDone
    /\ fanExited' = TRUE
    /\ fanHand' = None
    /\ Move(fanHand, "abandoned")
    /\ UNCHANGED <<poolVars, main, resultVars, payloads, senderVars, netVars>>

-----------------------------------------------------------------------------
(* The stream goroutine: StartStream *)

StreamOpens ==
    /\ Alive /\ sender = "open"
    /\ ~parentDone
    /\ rpc' = "up"
    /\ sender' = "recv"
    /\ UNCHANGED <<poolVars, main, resultVars, fanVars, payloads, sendHand, attempt,
                   answer, wire, received, stage>>

\* The error is logged and the goroutine ends; nothing else takes notice.
StreamOpenFails ==
    /\ Alive /\ sender = "open"
    /\ sender' = "done"
    /\ UNCHANGED <<poolVars, main, resultVars, fanVars, payloads, sendHand, attempt,
                   answer, netVars, stage>>

\* case payload := <-payloads
SenderTakes ==
    /\ Alive /\ sender = "recv"
    /\ payloads # <<>>
    /\ payloads' = Tail(payloads)
    /\ sendHand' = Head(payloads)
    /\ attempt' = 1
    /\ sender' = "send"
    /\ Move(Head(payloads), "sending")
    /\ UNCHANGED <<poolVars, main, resultVars, fanVars, answer, netVars>>

\* case <-ctx.Done(), and case <-payloads with the channel closed and empty
SenderCloses ==
    /\ Alive /\ sender = "recv"
    /\ parentDone \/ (fanExited /\ payloads = <<>>)
    /\ sender' = "close"
    /\ UNCHANGED <<poolVars, main, resultVars, fanVars, payloads, sendHand, attempt,
                   answer, netVars, stage>>

\* stream.Send returns nil once gRPC has the message, long before the hub does.
SendOk ==
    /\ Trying
    /\ sendHand \notin Unencodable
    /\ rpc = "up"
    /\ Len(wire) < WireCap
    /\ wire' = Append(wire, sendHand)
    /\ SendReturns("wire")
    /\ UNCHANGED <<poolVars, main, resultVars, fanVars, payloads, answer, rpc, received>>

\* stream.Send returns io.EOF: no retry; StartStream counts the payload as
\* dropped and continues its loop on the same stream.
SendEOF ==
    /\ Trying
    /\ sendHand \notin Unencodable
    /\ rpc \in Dead
    /\ SendReturns("unsent")
    /\ UNCHANGED <<poolVars, main, resultVars, fanVars, payloads, answer, netVars>>

\* stream.Send returns its own error, and gRPC aborts the stream with it;
\* sendWithRetry sleeps and tries again on that stream.
SendErrs ==
    /\ Trying
    /\ sendHand \in Unencodable
    /\ attempt' = attempt + 1
    /\ IF rpc = "up" THEN RpcDies("aborted") ELSE UNCHANGED <<netVars, stage>>
    /\ UNCHANGED <<poolVars, main, resultVars, fanVars, payloads, sender, sendHand, answer>>

\* The loop ran out of attempts: the payload is dropped.
SendGivesUp ==
    /\ Alive /\ sender = "send"
    /\ attempt > MaxSendRetries
    /\ SendReturns("unsent")
    /\ UNCHANGED <<poolVars, main, resultVars, fanVars, payloads, answer, netVars>>

\* CloseAndRecv returns the hub's ScrapeResponse, sent when it has read all.
CloseAnswered ==
    /\ Alive /\ sender = "close"
    /\ rpc = "up"
    /\ wire = <<>>
    /\ answer' = "response"
    /\ sender' = "done"
    /\ UNCHANGED <<poolVars, main, resultVars, fanVars, payloads, sendHand, attempt,
                   netVars, stage>>

\* CloseAndRecv returns an error: the stream died, of itself or with its context.
CloseFails ==
    /\ Alive /\ sender = "close"
    /\ rpc \in Dead
    /\ answer' = "error"
    /\ sender' = "done"
    /\ UNCHANGED <<poolVars, main, resultVars, fanVars, payloads, sendHand, attempt,
                   netVars, stage>>

-----------------------------------------------------------------------------
(* Outside the process *)

HubReads ==
    /\ rpc = "up"
    /\ wire # <<>>
    /\ received' = Append(received, Head(wire))
    /\ wire' = Tail(wire)
    /\ Move(Head(wire), "received")
    /\ UNCHANGED <<poolVars, main, resultVars, fanVars, payloads, senderVars, rpc>>

\* The connection is lost, or the hub ends the call with an error.  The channel
\* may reconnect; the stream never does.
RpcBreaks ==
    /\ RpcDies("broken")
    /\ UNCHANGED <<poolVars, main, resultVars, fanVars, payloads, senderVars>>

\* The stream was opened with rootCtx: gRPC resets it when that is cancelled.
RpcCancelled ==
    /\ parentDone
    /\ RpcDies("cancelled")
    /\ UNCHANGED <<poolVars, main, resultVars, fanVars, payloads, senderVars>>

-----------------------------------------------------------------------------
MainStep ==
    \/ SeedQueued \/ SeedRefused \/ SeedsDone \/ Signalled
    \/ PoolStop \/ PoolStopped \/ HttpShutdown \/ StreamDrained \/ GraceExpires

MainConnects == Connected \/ ConnectFails

SeedCalls == \E t \in Tasks : SeedCall(t)

WorkerStep(w) ==
    \/ TakeTask(w) \/ WorkerLeaves(w)
    \/ \E outcome \in {"SUCCESS", "FAILED"} : ScrapeReturns(w, outcome)
    \/ ScrapePanics(w) \/ SendResult(w) \/ DropResult(w)

FanOutStep ==
    FanOutSkips \/ FanOutTakes \/ FanOutOffers \/ FanOutLeaves \/ FanOutAbandons

SenderStep ==
    \/ StreamOpens \/ StreamOpenFails \/ SenderTakes \/ SenderCloses
    \/ SendOk \/ SendEOF \/ SendErrs \/ SendGivesUp \/ CloseAnswered \/ CloseFails

Next ==
    \/ MainConnects \/ SeedCalls \/ MainStep
    \/ Signal \/ PoolCancelled
    \/ \E w \in Workers : WorkerStep(w)
    \/ FanOutStep \/ SenderStep
    \/ HubReads \/ RpcBreaks \/ RpcCancelled
    \/ Gone

\* Goroutines that can move do; a scrape returns (the HTTP client and the rate
\* limiter have deadlines); a timer fires; a cancellation arrives; the hub reads
\* what it was sent.  Nobody is obliged to send a signal or to break a stream.
Fairness ==
    /\ WF_vars(MainConnects) /\ WF_vars(SeedCalls) /\ WF_vars(MainStep)
    /\ WF_vars(PoolCancelled)
    /\ \A w \in Workers : WF_vars(WorkerStep(w))
    /\ WF_vars(FanOutStep) /\ WF_vars(SenderStep)
    /\ WF_vars(HubReads) /\ WF_vars(RpcCancelled)

SafeSpec == Init /\ [][Next]_vars

Spec == SafeSpec /\ Fairness

-----------------------------------------------------------------------------
(* Properties *)

\* Every variable has its type and no channel exceeds its capacity.
TypeOK ==
    /\ PoolTypeOK
    /\ main \in MainPoints
    /\ status \in [Tasks -> Statuses]
    /\ results \in Seq(Tasks) /\ Len(results) <= ResultsCap
    /\ fanHand \in Tasks \cup {None}
    /\ fanExited \in BOOLEAN
    /\ payloads \in Seq(Tasks) /\ Len(payloads) <= PayloadCap
    /\ sender \in SenderPoints
    /\ sendHand \in Tasks \cup {None}
    /\ attempt \in 0 .. MaxSendRetries + 1
    /\ answer \in {"none", "response", "error"}
    /\ rpc \in RpcStates
    /\ wire \in Seq(Tasks) /\ Len(wire) <= WireCap
    /\ received \in Seq(Tasks)
    /\ stage \in [Tasks -> Stages]

At(s) == {t \in Tasks : stage[t] = s}

\* q holds the tasks at stage s, each of them once.
QueueHolds(q, s) == IsInjective(q) /\ Range(q) = At(s)

\* hand holds the only task at stage s, if there is one.
HandHolds(hand, s) == At(s) = {hand} \ {None}

\* Every section is accounted for: it sits in exactly the one channel, hand or
\* worker its history says, nowhere twice, and a section that was lost is
\* nowhere.
EverySectionAccounted ==
    /\ QueueHolds(taskChan, "queued")
    /\ QueueHolds(results, "result")
    /\ QueueHolds(payloads, "payload")
    /\ QueueHolds(wire, "wire")
    /\ QueueHolds(received, "received")
    /\ HandHolds(fanHand, "offered")
    /\ HandHolds(sendHand, "sending")
    /\ At("scraping") \cup At("scraped") = Range(running) \ {None}
    /\ \A w1, w2 \in Workers :
         running[w1] = running[w2] /\ running[w1] # None => w1 = w2

\* The hub is never sent a scrape that failed or that did not return.
OnlySuccessReceived ==
    \A t \in Range(payloads) \cup Range(wire) \cup Range(received) :
        status[t] = "SUCCESS"

\* main stops the pool from the goroutine that submits, after the last Submit
\* answered: no Submit can meet the closed channel and panic.
SubmitNeverMeetsClosedChannel ==
    chanClosed => offering[Main] = None /\ \A t \in Tasks : reply[t] # "none"

\* At most once, never both delivered and lost, and a fate is final.
D == INSTANCE Delivery WITH
        delivered <- received,
        lost <- {t \in Tasks : stage[t] \in LostStages}
DeliversAtMostOnce == D!Spec

\* After a signal the process ends, whatever the hub, the stream and the
\* channels are doing: sendResult's timeout and the grace period see to it.
ShutdownCompletes == parentDone ~> (main = "exit")

\* While the stream goroutine lives and no signal comes, a queued section
\* reaches the hub or is known to be lost.
QueuedIsSettled ==
    \A t \in Tasks : (stage[t] = "queued") ~>
        \/ stage[t] \in LostStages \cup {"received"}
        \/ parentDone \/ sender = "done"

-----------------------------------------------------------------------------
(* What the documentation says and the code does not do *)

\* README.md:14, "zero data loss": while the stream is open, the stream goroutine
\* lives on and no shutdown is under way, a successful scrape that meets a backlog
\* waits for it to clear.
Backlog == fanHand # None /\ Len(payloads) = PayloadCap

ZeroDataLoss ==
    [][Backlog /\ ~parentDone /\ rpc = "up" /\ sender # "done"
         => \A t \in Tasks : status[t] = "SUCCESS" /\ stage'[t] = "dropped"
                               => stage[t] = "dropped"]_vars

\* scrapers/README.md:49, on shutdown "the pool drains".
PoolDrainsOnShutdown == main \in {"http", "drain"} => taskChan = <<>>

\* scrapers/README.md:49, then "CloseAndRecv() flushes the stream": it returns
\* the hub's response unless the stream broke.
CloseAndRecvFlushes == answer = "error" => rpc # "cancelled"

\* scrapers/README.md:58, "On io.EOF from the server, the stream is immediately
\* closed": after an io.EOF the stream goroutine sends no other payload.
EOFClosesStream ==
    [][sender = "send" /\ rpc = "broken" /\ sendHand \notin Unencodable
         => sender' \in {"send", "close"}]_vars
=============================================================================
