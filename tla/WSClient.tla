------------------------------ MODULE WSClient ------------------------------
(***************************************************************************)
(* The reconnecting WebSocket client of the front end,                     *)
(* frontend/src/lib/ws.ts: one singleton whose methods the pages call and  *)
(* whose callbacks the browser runs.  JavaScript runs each of them to the   *)
(* end, so each is one action.                                             *)
(*                                                                         *)
(* The browser's side is external: the ready state of every socket made,   *)
(* the timeouts and intervals that are running, whether a server can be     *)
(* reached.  The client knows a timer only by the field that holds its      *)
(* identifier; the model counts the running ones apart from the fields,     *)
(* because a timer whose identifier is lost can no longer be cleared.       *)
(***************************************************************************)
EXTENDS Naturals, FiniteSets

CONSTANTS
    Sockets,       \* WebSocket objects; a closed, detached one is used again
    NoSocket,      \* null
    Handlers,      \* what pages pass to on()
    Base,          \* 1000, the first delay
    MaxDelay,      \* 30000, maxReconnectDelay
    MaxAttempts    \* bound: more failures than this change the delay no more

ASSUME WSAssumption ==
    /\ NoSocket \notin Sockets
    /\ Base \in Nat \ {0} /\ MaxDelay \in Nat /\ MaxAttempts \in Nat
    /\ Base <= MaxDelay

VARIABLES
    ws,             \* the current socket, or NoSocket
    pingTimer,      \* the field holds an interval
    reconnectTimer, \* the field holds a timeout
    attempts,       \* reconnectAttempts
    destroyed,
    handlers,
    attached,       \* sockets whose four callbacks are set
    readyState,     \* of each socket; "none" before it is made
    timeouts,       \* running timeouts that will call connect()
    intervals,      \* running intervals that send pings
    reachable,      \* the server accepts connections
    asked,          \* history: connect() was called
    wanted,         \* history: and neither close() nor destroy() since
    delay           \* history: the last delay chosen since a socket opened

timerVars == <<pingTimer, reconnectTimer, timeouts, intervals, attempts, delay>>
vars == <<ws, timerVars, destroyed, handlers, attached, readyState, reachable,
          asked, wanted>>

ReadyStates == {"none", "connecting", "open", "closing", "closed"}
Live == {s \in Sockets : readyState[s] \in {"connecting", "open"}}
Free == {s \in Sockets : readyState[s] \in {"none", "closed"}} \ {ws}

\* What send() asks; a ping is sent only then.
Up == ws # NoSocket /\ readyState[ws] = "open"

\* The timeout is asked for when no identifier is held.
Backoff(n) == IF Base * 2^n < MaxDelay THEN Base * 2^n ELSE MaxDelay

Init ==
    /\ ws = NoSocket
    /\ pingTimer = FALSE /\ reconnectTimer = FALSE
    /\ attempts = 0
    /\ destroyed = FALSE
    /\ handlers = {}
    /\ attached = {}
    /\ readyState = [s \in Sockets |-> "none"]
    /\ timeouts = 0 /\ intervals = 0
    /\ reachable \in BOOLEAN
    /\ asked = FALSE /\ wanted = FALSE
    /\ delay = 0

-----------------------------------------------------------------------------
(* Mutated definitions: plausible bugs, each of which breaks one property of *)
(* the client (PROJECT.json says which).  No specification uses them.        *)

\* The failure is counted before the test of the pending timeout.
MutCountFirst(pending, n) ==
    /\ attempts' = IF attempts < MaxAttempts THEN attempts + 1 ELSE attempts
    /\ reconnectTimer' = TRUE
    /\ timeouts' = IF pending THEN n ELSE n + 1
    /\ delay' = IF pending THEN delay ELSE Backoff(attempts)

\* close() closes an open socket only and leaves a connecting one alone.
MutDropped == IF Up THEN [readyState EXCEPT ![ws] = "closing"] ELSE readyState

\* The heartbeat is started without stopping the last one.
MutStartHeartbeat == pingTimer' = TRUE /\ intervals' = intervals + 1

-----------------------------------------------------------------------------
(* Private methods.  ScheduleReconnect and Connect get the field and the     *)
(* number of running timeouts as the caller has left them.                   *)

ScheduleReconnect(pending, n) ==
    IF pending
    THEN /\ reconnectTimer' = pending
         /\ timeouts' = n
         /\ UNCHANGED <<attempts, delay>>
    ELSE /\ reconnectTimer' = TRUE
         /\ timeouts' = n + 1
         /\ delay' = Backoff(attempts)
         /\ attempts' = IF attempts < MaxAttempts THEN attempts + 1 ELSE attempts

\* What close() makes of the ready states: a live socket starts closing.
Dropped == IF ws \in Live THEN [readyState EXCEPT ![ws] = "closing"] ELSE readyState

StopHeartbeat ==
    /\ pingTimer' = FALSE
    /\ intervals' = IF pingTimer THEN intervals - 1 ELSE intervals

StartHeartbeat ==
    /\ pingTimer' = TRUE
    /\ intervals' = IF pingTimer THEN intervals ELSE intervals + 1

\* connect(), after its test of destroyed.
Connect(pending, n) ==
    /\ UNCHANGED <<pingTimer, intervals, destroyed, handlers, reachable>>
    /\ \/ /\ ws \in Live
          /\ reconnectTimer' = pending /\ timeouts' = n
          /\ UNCHANGED <<ws, attached, readyState, attempts, delay>>
       \/ /\ ws \notin Live
          /\ \E s \in Free :
                /\ ws' = s
                /\ attached' = (attached \ {ws}) \cup {s}
                /\ readyState' = [Dropped EXCEPT ![s] = "connecting"]
          /\ reconnectTimer' = pending /\ timeouts' = n
          /\ UNCHANGED <<attempts, delay>>
       \/ /\ ws \notin Live /\ ~reachable  \* the constructor throws
          /\ ws' = NoSocket
          /\ attached' = attached \ {ws}
          /\ readyState' = Dropped
          /\ ScheduleReconnect(pending, n)

-----------------------------------------------------------------------------
(* More mutated definitions *)

\* destroy() forgets the pending reconnect.
MutDestroyLeavesTimer ==
    /\ destroyed' = TRUE
    /\ ws' = NoSocket
    /\ attached' = attached \ {ws}
    /\ readyState' = Dropped
    /\ StopHeartbeat
    /\ handlers' = {}
    /\ wanted' = FALSE
    /\ UNCHANGED <<reconnectTimer, timeouts, attempts, delay, reachable, asked>>

\* destroy() forgets the socket.
MutDestroyLeavesSocket ==
    /\ destroyed' = TRUE
    /\ StopHeartbeat
    /\ reconnectTimer' = FALSE
    /\ timeouts' = IF reconnectTimer THEN timeouts - 1 ELSE timeouts
    /\ handlers' = {}
    /\ wanted' = FALSE
    /\ UNCHANGED <<ws, attached, readyState, attempts, delay, reachable, asked>>

\* The timeout clears its field after connect() instead of before.
MutFiresThenClears ==
    /\ timeouts > 0
    /\ \/ /\ ~destroyed /\ ws \notin Live
          /\ \E s \in Free :
                /\ ws' = s
                /\ attached' = (attached \ {ws}) \cup {s}
                /\ readyState' = [Dropped EXCEPT ![s] = "connecting"]
       \/ /\ ~destroyed /\ ws \notin Live /\ ~reachable
          /\ ws' = NoSocket /\ attached' = attached \ {ws} /\ readyState' = Dropped
       \/ /\ destroyed \/ ws \in Live
          /\ UNCHANGED <<ws, attached, readyState>>
    /\ reconnectTimer' = FALSE /\ timeouts' = timeouts - 1
    /\ UNCHANGED <<pingTimer, intervals, attempts, delay, destroyed, handlers,
                   reachable, asked, wanted>>

\* onclose reconnects after an open connection only.
MutClosedQuietly(s) ==
    /\ \/ readyState[s] \in {"open", "closing"}
       \/ readyState[s] = "connecting" /\ ~reachable
    /\ readyState' = [readyState EXCEPT ![s] = "closed"]
    /\ IF s \in attached /\ readyState[s] # "connecting" /\ ~destroyed
       THEN StopHeartbeat /\ ScheduleReconnect(reconnectTimer, timeouts)
       ELSE UNCHANGED timerVars
    /\ UNCHANGED <<ws, destroyed, handlers, attached, reachable, asked, wanted>>

-----------------------------------------------------------------------------
(* What pages call *)

CallConnect ==
    /\ IF destroyed
       THEN UNCHANGED <<ws, timerVars, destroyed, handlers, attached,
                        readyState, reachable, wanted>>
       ELSE Connect(reconnectTimer, timeouts) /\ wanted' = TRUE
    /\ asked' = TRUE

\* Neither timer is touched: a pending reconnect outlives close().
CallClose ==
    /\ ws' = NoSocket
    /\ attached' = attached \ {ws}
    /\ readyState' = Dropped
    /\ wanted' = FALSE
    /\ UNCHANGED <<timerVars, destroyed, handlers, reachable, asked>>

CallDestroy ==
    /\ destroyed' = TRUE
    /\ ws' = NoSocket
    /\ attached' = attached \ {ws}
    /\ readyState' = Dropped
    /\ StopHeartbeat
    /\ reconnectTimer' = FALSE
    /\ timeouts' = IF reconnectTimer THEN timeouts - 1 ELSE timeouts
    /\ handlers' = {}
    /\ wanted' = FALSE
    /\ UNCHANGED <<attempts, delay, reachable, asked>>

Subscribe(h) ==
    /\ handlers' = handlers \cup {h}
    /\ UNCHANGED <<ws, timerVars, destroyed, attached, readyState, reachable,
                   asked, wanted>>

Unsubscribe(h) ==
    /\ handlers' = handlers \ {h}
    /\ UNCHANGED <<ws, timerVars, destroyed, attached, readyState, reachable,
                   asked, wanted>>

-----------------------------------------------------------------------------
(* What the browser calls *)

TimerFires ==
    /\ timeouts > 0
    /\ IF destroyed
       THEN /\ reconnectTimer' = FALSE /\ timeouts' = timeouts - 1
            /\ UNCHANGED <<ws, pingTimer, intervals, attempts, delay, destroyed,
                           handlers, attached, readyState, reachable>>
       ELSE Connect(FALSE, timeouts - 1)
    /\ UNCHANGED <<asked, wanted>>

\* The handshake succeeds: onopen, if it is still set.
Opened(s) ==
    /\ readyState[s] = "connecting" /\ reachable
    /\ readyState' = [readyState EXCEPT ![s] = "open"]
    /\ IF s \in attached
       THEN attempts' = 0 /\ delay' = 0 /\ StartHeartbeat
       ELSE UNCHANGED <<attempts, delay, pingTimer, intervals>>
    /\ UNCHANGED <<ws, reconnectTimer, timeouts, destroyed, handlers, attached,
                   reachable, asked, wanted>>

\* The server starts the closing handshake.
Closing(s) ==
    /\ readyState[s] = "open"
    /\ readyState' = [readyState EXCEPT ![s] = "closing"]
    /\ UNCHANGED <<ws, timerVars, destroyed, handlers, attached, reachable,
                   asked, wanted>>

\* The connection ends or is refused: onerror perhaps, then onclose, if set.
Closed(s) ==
    /\ \/ readyState[s] \in {"open", "closing"}
       \/ readyState[s] = "connecting" /\ ~reachable
    /\ readyState' = [readyState EXCEPT ![s] = "closed"]
    /\ IF s \in attached
       THEN /\ StopHeartbeat
            /\ IF destroyed
               THEN UNCHANGED <<reconnectTimer, timeouts, attempts, delay>>
               ELSE ScheduleReconnect(reconnectTimer, timeouts)
       ELSE UNCHANGED timerVars
    /\ UNCHANGED <<ws, destroyed, handlers, attached, reachable, asked, wanted>>

\* Servers and networks come and go.
ReachChanges ==
    /\ reachable' = ~reachable
    /\ UNCHANGED <<ws, timerVars, destroyed, handlers, attached, readyState,
                   asked, wanted>>

PageCalls ==
    \/ CallConnect \/ CallClose \/ CallDestroy
    \/ \E h \in Handlers : Subscribe(h) \/ Unsubscribe(h)

Handshake(s) == Opened(s) \/ (readyState[s] # "open" /\ Closed(s))

Next ==
    \/ PageCalls
    \/ TimerFires
    \/ \E s \in Sockets : Opened(s) \/ Closing(s) \/ Closed(s)
    \/ ReachChanges

SafeSpec == Init /\ [][Next]_vars

\* Timers fire; a handshake, opening or closing, succeeds, fails or times out.
\* Nothing is assumed of the server or of the pages.
Fairness ==
    /\ WF_vars(TimerFires)
    /\ \A s \in Sockets : WF_vars(Handshake(s))

Spec == SafeSpec /\ Fairness
-----------------------------------------------------------------------------
(* Properties *)

\* Type correctness; attempts saturates at its bound.
WSTypeOK ==
    /\ ws \in Sockets \cup {NoSocket}
    /\ pingTimer \in BOOLEAN /\ reconnectTimer \in BOOLEAN
    /\ attempts \in 0..MaxAttempts
    /\ destroyed \in BOOLEAN
    /\ handlers \subseteq Handlers
    /\ attached \subseteq Sockets
    /\ readyState \in [Sockets -> ReadyStates]
    /\ timeouts \in Nat /\ intervals \in Nat
    /\ reachable \in BOOLEAN
    /\ asked \in BOOLEAN /\ wanted \in BOOLEAN

\* No timer is lost: each field knows the one timer of its kind that runs, and
\* knows none when none runs; and an open connection has its heartbeat, however
\* often it came back.  A timer that nobody holds would ping or reconnect for
\* ever, through destroy() (lines 31-51, 100-122).
TimersAccounted ==
    /\ timeouts = IF reconnectTimer THEN 1 ELSE 0
    /\ intervals = IF pingTimer THEN 1 ELSE 0
    /\ Up => pingTimer

\* A client that is to be connected never rests: there is a socket that it
\* listens to and that has yet to close, or a reconnect is scheduled (lines
\* 19-56, 100-108).
NextTryAhead ==
    wanted => \/ ws \in attached /\ readyState[ws] \in {"connecting", "open", "closing"}
              \/ reconnectTimer

\* No two connections at once, and no event of an abandoned socket is heard:
\* the backend would feed both, and each message would be handled twice.
OneConnection ==
    /\ attached \subseteq {ws}
    /\ \A s \in Live : s = ws

\* After destroy() nothing of the client is left: no timer runs, no socket is
\* open or opening or listened to, whatever was pending (lines 85-94).
DestroyedIsQuiet ==
    destroyed => /\ ws = NoSocket /\ attached = {} /\ Live = {}
                 /\ timeouts = 0 /\ intervals = 0

\* Between two openings the delays double from Base until MaxDelay, whoever
\* asks for the reconnect: a connect() of a page in between, a close(), a
\* constructor that throws (lines 100-108).
BackoffDoubles ==
    [][delay' # delay /\ delay' # 0 =>
         delay' = IF delay = 0 THEN Base
                  ELSE IF 2 * delay < MaxDelay THEN 2 * delay ELSE MaxDelay]_vars

\* The client implements what the pages rely on.
C == INSTANCE Channel WITH link <- IF Up THEN "up" ELSE "down", ended <- destroyed
IsAChannel == C!ChannelSpec

\* With a server that stays reachable, the client gets connected again unless
\* a page closes it.
Reconnects == <>[]reachable => [](wanted => <>(Up \/ ~wanted))
=============================================================================
