-------------------------- MODULE WSClientProofs --------------------------
(***************************************************************************)
(* Proofs about the WebSocket client, for any number of sockets and any     *)
(* delays: no timer is lost, a client that is to be connected has a next    *)
(* try ahead, there is one connection at most, nothing is left of a         *)
(* destroyed client, and it implements the channel the pages rely on.  In     *)
(* all of this the length of a delay plays no part; the last theorem is       *)
(* about the delays.                                                        *)
(***************************************************************************)
EXTENDS WSClient, TLAPS

\* The client listens to its current socket and to no other.
Listens == attached = {ws} \ {NoSocket}

\* A live socket is the current one.
OneLive == \A s \in Sockets : readyState[s] \in {"connecting", "open"} => s = ws

\* Sockets and reconnects come from connect(), and its history is kept.
Asked == (ws # NoSocket \/ reconnectTimer) => asked

\* What destroy() did is not undone.
StaysDestroyed ==
    destroyed => /\ ws = NoSocket /\ ~wanted
                 /\ ~pingTimer /\ ~reconnectTimer

\* The inductive invariant
WSInv ==
    /\ WSTypeOK
    /\ TimersAccounted
    /\ NextTryAhead
    /\ Listens
    /\ OneLive
    /\ Asked
    /\ StaysDestroyed

-----------------------------------------------------------------------------
(* What the private methods do *)

\* Closing the current socket leaves no live one.
LEMMA DroppedFact ==
    ASSUME WSTypeOK, OneLive
    PROVE  /\ Dropped \in [Sockets -> ReadyStates]
           /\ \A s \in Sockets : Dropped[s] \notin {"connecting", "open"}
           /\ \A s \in Sockets : s # ws => Dropped[s] = readyState[s]
           /\ ws \notin Live => Dropped = readyState
BY DEF WSTypeOK, OneLive, Dropped, Live, ReadyStates

\* A reconnect is scheduled once it was asked for, and its timer is held.
LEMMA ScheduleFact ==
    ASSUME NEW pending \in BOOLEAN, NEW n \in Nat, n = IF pending THEN 1 ELSE 0,
           attempts \in 0..MaxAttempts, ScheduleReconnect(pending, n)
    PROVE  reconnectTimer' /\ timeouts' = 1 /\ attempts' \in 0..MaxAttempts
           /\ reconnectTimer' \in BOOLEAN
<1>1. CASE pending = TRUE
  <2>1. reconnectTimer' = TRUE /\ timeouts' = 1 /\ attempts' = attempts
    BY <1>1 DEF ScheduleReconnect
  <2> QED  BY <2>1
<1>2. CASE pending = FALSE
  <2>1. /\ reconnectTimer' = TRUE /\ timeouts' = n + 1 /\ n = 0
        /\ attempts' = IF attempts < MaxAttempts THEN attempts + 1 ELSE attempts
    BY <1>2 DEF ScheduleReconnect
  <2>2. attempts' \in 0..MaxAttempts
    BY <2>1, WSAssumption DEF WSAssumption
  <2> QED  BY <2>1, <2>2
<1> QED  BY <1>1, <1>2

\* connect() on a client that is not destroyed leaves it with a live socket
\* or a scheduled reconnect.
LEMMA ConnectFact ==
    ASSUME WSInv, ~destroyed,
           NEW pending \in BOOLEAN, NEW n \in Nat, n = IF pending THEN 1 ELSE 0,
           asked' \in BOOLEAN, asked', wanted' \in BOOLEAN, Connect(pending, n)
    PROVE  WSInv'
<1> USE WSAssumption DEF WSAssumption
<1>1. CASE /\ ws \in Live
           /\ reconnectTimer' = pending /\ timeouts' = n
           /\ UNCHANGED <<ws, attached, readyState, attempts, delay>>
  BY <1>1 DEF WSInv, WSTypeOK, TimersAccounted, NextTryAhead, Listens, OneLive,
     Asked, StaysDestroyed, Connect, Live, Up, ReadyStates
<1>2. CASE /\ ws \notin Live
           /\ \E s \in Free :
                 /\ ws' = s
                 /\ attached' = (attached \ {ws}) \cup {s}
                 /\ readyState' = [Dropped EXCEPT ![s] = "connecting"]
           /\ reconnectTimer' = pending /\ timeouts' = n
           /\ UNCHANGED <<attempts, delay>>
  <2>1. PICK s \in Free : /\ ws' = s
                          /\ attached' = (attached \ {ws}) \cup {s}
                          /\ readyState' = [Dropped EXCEPT ![s] = "connecting"]
    BY <1>2
  <2>2. s \in Sockets /\ Dropped = readyState
    BY <1>2, <2>1, DroppedFact DEF WSInv, Free
  <2>3. /\ readyState' \in [Sockets -> ReadyStates]
        /\ readyState'[s] = "connecting"
        /\ \A t \in Sockets : t # s => readyState'[t] = readyState[t]
    BY <2>1, <2>2 DEF WSInv, WSTypeOK, ReadyStates
  <2>4. attached' = {s}
    BY <2>1 DEF WSInv, Listens
  <2>5. OneLive'
    BY <1>2, <2>1, <2>2, <2>3 DEF WSInv, OneLive, Live
  <2>6. UNCHANGED <<pingTimer, intervals, destroyed, handlers, reachable>>
    BY DEF Connect
  <2>7. WSTypeOK'
    BY <1>2, <2>1, <2>2, <2>3, <2>4, <2>6 DEF WSInv, WSTypeOK
  <2>8. TimersAccounted' /\ NextTryAhead' /\ Listens' /\ Asked' /\ StaysDestroyed'
    BY <1>2, <2>1, <2>2, <2>3, <2>4, <2>6
    DEF WSInv, TimersAccounted, NextTryAhead, Listens, Asked, StaysDestroyed, Up
  <2> QED  BY <2>5, <2>7, <2>8 DEF WSInv
<1>3. CASE /\ ws \notin Live /\ ~reachable
           /\ ws' = NoSocket
           /\ attached' = attached \ {ws}
           /\ readyState' = Dropped
           /\ ScheduleReconnect(pending, n)
  <2>1. readyState' = readyState
    BY <1>3, DroppedFact DEF WSInv
  <2>2. /\ reconnectTimer' /\ timeouts' = 1 /\ attempts' \in 0..MaxAttempts
        /\ reconnectTimer' \in BOOLEAN
    BY <1>3, ScheduleFact DEF WSInv, WSTypeOK
  <2>3. UNCHANGED <<pingTimer, intervals, destroyed, handlers, reachable>>
    BY DEF Connect
  <2>4. OneLive'
    BY <1>3, <2>1 DEF WSInv, OneLive, Live
  <2>5. WSTypeOK' /\ Listens'
    BY <1>3, <2>1, <2>2, <2>3 DEF WSInv, WSTypeOK, Listens
  <2>6. TimersAccounted' /\ NextTryAhead' /\ Asked' /\ StaysDestroyed'
    BY <1>3, <2>1, <2>2, <2>3
    DEF WSInv, TimersAccounted, NextTryAhead, Asked, StaysDestroyed, Up
  <2> QED  BY <2>4, <2>5, <2>6 DEF WSInv
<1> QED  BY <1>1, <1>2, <1>3 DEF Connect

-----------------------------------------------------------------------------
(* The inductive invariant *)

LEMMA WSInit == Init => WSInv
<1> SUFFICES ASSUME Init PROVE WSInv
  OBVIOUS
<1>1. WSTypeOK
  <2>1. readyState \in [Sockets -> ReadyStates]
    BY DEF Init, ReadyStates
  <2>2. attempts \in 0..MaxAttempts
    BY WSAssumption DEF WSAssumption, Init
  <2> QED  BY <2>1, <2>2 DEF Init, WSTypeOK
<1>2. OneLive
  BY DEF Init, OneLive
<1>3. TimersAccounted /\ NextTryAhead /\ Listens /\ Asked /\ StaysDestroyed
  BY DEF Init, TimersAccounted, NextTryAhead, Listens, Asked, StaysDestroyed, Up
<1> QED  BY <1>1, <1>2, <1>3 DEF WSInv

LEMMA WSPages == ASSUME WSInv, PageCalls PROVE WSInv'
<1> USE WSAssumption DEF WSAssumption
<1>1. ASSUME CallConnect PROVE WSInv'
  <2>1. CASE destroyed
    BY <1>1, <2>1 DEF CallConnect, WSInv, WSTypeOK, TimersAccounted, NextTryAhead,
       Listens, OneLive, Asked, StaysDestroyed, Up, timerVars
  <2>2. CASE ~destroyed
    <3>1. /\ Connect(reconnectTimer, timeouts) /\ wanted' = TRUE /\ asked' = TRUE
          /\ reconnectTimer \in BOOLEAN /\ timeouts \in Nat
          /\ timeouts = IF reconnectTimer THEN 1 ELSE 0
      BY <1>1, <2>2 DEF CallConnect, WSInv, WSTypeOK, TimersAccounted
    <3>2. asked' /\ asked' \in BOOLEAN /\ wanted' \in BOOLEAN
      BY <3>1
    <3> QED  BY <2>2, <3>1, <3>2, ConnectFact
  <2> QED  BY <2>1, <2>2
<1>2. ASSUME CallClose PROVE WSInv'
  <2>1. /\ readyState' = Dropped /\ ws' = NoSocket /\ attached' = {} /\ wanted' = FALSE
        /\ UNCHANGED <<pingTimer, reconnectTimer, timeouts, intervals, attempts,
                       destroyed, handlers, reachable, asked>>
    BY <1>2 DEF CallClose, timerVars, WSInv, Listens
  <2> QED
    BY <2>1, DroppedFact DEF WSInv, WSTypeOK, TimersAccounted, NextTryAhead,
       Listens, OneLive, Asked, StaysDestroyed, Up
<1>3. ASSUME CallDestroy PROVE WSInv'
  <2>1. /\ readyState' = Dropped /\ ws' = NoSocket /\ attached' = {} /\ wanted' = FALSE
        /\ destroyed' = TRUE /\ handlers' = {}
        /\ UNCHANGED <<attempts, reachable, asked>>
    BY <1>3 DEF CallDestroy, WSInv, Listens
  <2>2. /\ pingTimer' = FALSE /\ intervals' = 0
        /\ reconnectTimer' = FALSE /\ timeouts' = 0
    BY <1>3 DEF CallDestroy, StopHeartbeat, WSInv, WSTypeOK, TimersAccounted
  <2> QED
    BY <2>1, <2>2, DroppedFact DEF WSInv, WSTypeOK, TimersAccounted, NextTryAhead,
       Listens, OneLive, Asked, StaysDestroyed, Up
<1>4. ASSUME NEW h \in Handlers, Subscribe(h) \/ Unsubscribe(h) PROVE WSInv'
  BY <1>4 DEF Subscribe, Unsubscribe, timerVars, WSInv, WSTypeOK, TimersAccounted,
     NextTryAhead, Listens, OneLive, Asked, StaysDestroyed, Up
<1> QED  BY <1>1, <1>2, <1>3, <1>4 DEF PageCalls

LEMMA WSTimer == ASSUME WSInv, TimerFires PROVE WSInv'
<1>1. reconnectTimer /\ timeouts = 1 /\ asked /\ ~destroyed
  BY DEF TimerFires, WSInv, WSTypeOK, TimersAccounted, Asked, StaysDestroyed
<1>2. Connect(FALSE, 0) /\ UNCHANGED <<asked, wanted>>
  <2>1. timeouts - 1 = 0
    BY <1>1
  <2>2. Connect(FALSE, timeouts - 1) /\ UNCHANGED <<asked, wanted>>
    BY <1>1 DEF TimerFires
  <2> QED  BY <2>1, <2>2, Zenon
<1>3. asked' /\ asked' \in BOOLEAN /\ wanted' \in BOOLEAN
  BY <1>1, <1>2 DEF WSInv, WSTypeOK
<1> QED  BY <1>1, <1>2, <1>3, ConnectFact

LEMMA WSOpened == ASSUME WSInv, NEW s \in Sockets, Opened(s) PROVE WSInv'
<1> USE WSAssumption DEF WSAssumption
<1>1. /\ readyState[s] = "connecting"
      /\ readyState' = [readyState EXCEPT ![s] = "open"]
      /\ UNCHANGED <<ws, reconnectTimer, timeouts, destroyed, handlers, attached,
                     reachable, asked, wanted>>
  BY DEF Opened
<1>2. s = ws /\ s \in attached
  BY <1>1 DEF WSInv, OneLive, Listens
<1>3. attempts' = 0 /\ pingTimer' = TRUE /\ intervals' = 1
  BY <1>2 DEF Opened, StartHeartbeat, WSInv, WSTypeOK, TimersAccounted
<1>4. readyState' \in [Sockets -> ReadyStates]
  BY <1>1 DEF WSInv, WSTypeOK, ReadyStates
<1>5. OneLive'
  BY <1>1, <1>2 DEF WSInv, WSTypeOK, OneLive
<1>6. WSTypeOK'
  BY <1>1, <1>3, <1>4 DEF WSInv, WSTypeOK
<1>7. ws \in attached /\ readyState'[ws] = "open" /\ ~destroyed
  BY <1>1, <1>2 DEF WSInv, WSTypeOK, StaysDestroyed
<1>8. TimersAccounted' /\ NextTryAhead' /\ Listens' /\ Asked' /\ StaysDestroyed'
  BY <1>1, <1>2, <1>3, <1>7
  DEF WSInv, TimersAccounted, NextTryAhead, Listens, Asked, StaysDestroyed, Up
<1> QED  BY <1>5, <1>6, <1>8 DEF WSInv

LEMMA WSClosing == ASSUME WSInv, NEW s \in Sockets, Closing(s) PROVE WSInv'
<1>1. /\ readyState[s] = "open"
      /\ readyState' = [readyState EXCEPT ![s] = "closing"]
      /\ UNCHANGED <<ws, timerVars, destroyed, handlers, attached, reachable,
                     asked, wanted>>
  BY DEF Closing
<1>2. readyState' \in [Sockets -> ReadyStates]
  BY <1>1 DEF WSInv, WSTypeOK, ReadyStates
<1>3. \A t \in Sockets : t # s => readyState'[t] = readyState[t]
  BY <1>1 DEF WSInv, WSTypeOK
<1>4. readyState'[s] = "closing"
  BY <1>1 DEF WSInv, WSTypeOK
<1>5. WSTypeOK'
  BY <1>1, <1>2 DEF WSInv, WSTypeOK, timerVars
<1>6. OneLive' /\ Listens' /\ Asked' /\ StaysDestroyed'
  BY <1>1, <1>3, <1>4 DEF WSInv, OneLive, Listens, Asked, StaysDestroyed, timerVars
<1>7. TimersAccounted' /\ NextTryAhead'
  BY <1>1, <1>3, <1>4
  DEF WSInv, WSTypeOK, TimersAccounted, NextTryAhead, Up, timerVars
<1> QED  BY <1>5, <1>6, <1>7 DEF WSInv

LEMMA WSClosed == ASSUME WSInv, NEW s \in Sockets, Closed(s) PROVE WSInv'
<1> USE WSAssumption DEF WSAssumption
<1>1. /\ readyState' = [readyState EXCEPT ![s] = "closed"]
      /\ UNCHANGED <<ws, destroyed, handlers, attached, reachable, asked, wanted>>
  BY DEF Closed
<1>2. /\ readyState' \in [Sockets -> ReadyStates]
      /\ readyState'[s] = "closed"
      /\ \A t \in Sockets : t # s => readyState'[t] = readyState[t]
  BY <1>1 DEF WSInv, WSTypeOK, ReadyStates
<1>3. OneLive' /\ Listens'
  BY <1>1, <1>2 DEF WSInv, OneLive, Listens
<1>4. CASE s \in attached
  <2>1. s = ws /\ ~destroyed /\ asked
    BY <1>4 DEF WSInv, Listens, StaysDestroyed, Asked
  <2>2. StopHeartbeat /\ ScheduleReconnect(reconnectTimer, timeouts)
    BY <1>4, <2>1 DEF Closed
  <2>3. pingTimer' = FALSE /\ intervals' = 0
    BY <2>2 DEF StopHeartbeat, WSInv, WSTypeOK, TimersAccounted
  <2>4. /\ reconnectTimer' /\ timeouts' = 1 /\ attempts' \in 0..MaxAttempts
        /\ reconnectTimer' \in BOOLEAN
    BY <2>2, ScheduleFact DEF WSInv, WSTypeOK, TimersAccounted
  <2>5. WSTypeOK'
    BY <1>1, <1>2, <2>3, <2>4 DEF WSInv, WSTypeOK
  <2>6. TimersAccounted' /\ NextTryAhead' /\ Asked' /\ StaysDestroyed'
    BY <1>1, <1>2, <2>1, <2>3, <2>4
    DEF WSInv, TimersAccounted, NextTryAhead, Asked, StaysDestroyed, Up
  <2> QED  BY <1>3, <2>5, <2>6 DEF WSInv
<1>5. CASE s \notin attached
  <2>1. s # ws /\ UNCHANGED timerVars
    BY <1>5 DEF WSInv, Listens, Closed
  <2>2. WSTypeOK'
    BY <1>1, <1>2, <2>1 DEF WSInv, WSTypeOK, timerVars
  <2>3. TimersAccounted' /\ NextTryAhead' /\ Asked' /\ StaysDestroyed'
    BY <1>1, <1>2, <2>1
    DEF WSInv, WSTypeOK, TimersAccounted, NextTryAhead, Asked, StaysDestroyed, Up,
        timerVars
  <2> QED  BY <1>3, <2>2, <2>3 DEF WSInv
<1> QED  BY <1>4, <1>5

LEMMA WSNext == WSInv /\ [Next]_vars => WSInv'
<1> SUFFICES ASSUME WSInv, [Next]_vars PROVE WSInv'
  OBVIOUS
<1>1. CASE PageCalls
  BY <1>1, WSPages
<1>2. CASE TimerFires
  BY <1>2, WSTimer
<1>3. CASE \E s \in Sockets : Opened(s) \/ Closing(s) \/ Closed(s)
  BY <1>3, WSOpened, WSClosing, WSClosed
<1>4. CASE ReachChanges
  BY <1>4 DEF ReachChanges, timerVars, WSInv, WSTypeOK, TimersAccounted,
     NextTryAhead, Listens, OneLive, Asked, StaysDestroyed, Up
<1>5. CASE UNCHANGED vars
  BY <1>5 DEF vars, timerVars, WSInv, WSTypeOK, TimersAccounted,
     NextTryAhead, Listens, OneLive, Asked, StaysDestroyed, Up
<1> QED  BY <1>1, <1>2, <1>3, <1>4, <1>5 DEF Next

LEMMA WSInvariant == SafeSpec => []WSInv
BY WSInit, WSNext, PTL DEF SafeSpec

-----------------------------------------------------------------------------
(* The theorems *)

\* Every field keeps its type, whatever pages and browser call, in which order.
THEOREM ClientTyped == SafeSpec => []WSTypeOK
<1>1. WSInv => WSTypeOK
  BY DEF WSInv
<1> QED  BY <1>1, WSInvariant, PTL

\* No timer is lost: the fields pingTimer and reconnectTimer hold the only
\* interval and the only timeout that run.
THEOREM ClientHoldsItsTimers == SafeSpec => []TimersAccounted
<1>1. WSInv => TimersAccounted
  BY DEF WSInv
<1> QED  BY <1>1, WSInvariant, PTL

\* A client that connect() was called on, and close() was not, never rests
\* without a socket it listens to or a scheduled reconnect.
THEOREM ClientTriesAgain == SafeSpec => []NextTryAhead
<1>1. WSInv => NextTryAhead
  BY DEF WSInv
<1> QED  BY <1>1, WSInvariant, PTL

\* connect() closes and silences the socket before it makes the next one, so
\* that there is never more than one connection.
THEOREM ClientHasOneConnection == SafeSpec => []OneConnection
<1>1. WSInv => OneConnection
  BY DEF WSInv, Listens, OneLive, OneConnection, Live
<1> QED  BY <1>1, WSInvariant, PTL

\* destroy() leaves no timer and no socket, and nothing brings one back.
THEOREM ClientStaysDestroyed == SafeSpec => []DestroyedIsQuiet
<1>1. WSInv => DestroyedIsQuiet
  BY WSAssumption
  DEF WSAssumption, WSInv, Listens, OneLive, StaysDestroyed, TimersAccounted,
      DestroyedIsQuiet, Live
<1> QED  BY <1>1, WSInvariant, PTL

-----------------------------------------------------------------------------
(* The client implements the channel *)

\* A step of connect() that is not refused leaves the link as it is.
LEMMA ConnectLink ==
    ASSUME WSInv, NEW pending, NEW n, Connect(pending, n)
    PROVE  Up' = Up
<1>1. CASE /\ ws \in Live
           /\ UNCHANGED <<ws, attached, readyState, attempts, delay>>
  BY <1>1 DEF Up
<1>2. CASE /\ ws \notin Live
           /\ \E s \in Free :
                 /\ ws' = s
                 /\ attached' = (attached \ {ws}) \cup {s}
                 /\ readyState' = [Dropped EXCEPT ![s] = "connecting"]
  <2>1. PICK s \in Free : /\ ws' = s
                          /\ readyState' = [Dropped EXCEPT ![s] = "connecting"]
    BY <1>2
  <2>2. readyState'[s] = "connecting"
    BY <2>1, DroppedFact DEF WSInv, Free
  <2> QED  BY <1>2, <2>1, <2>2 DEF Up, Live, WSInv, WSTypeOK
<1>3. CASE ws \notin Live /\ ws' = NoSocket
  BY <1>3 DEF Up, Live, WSInv, WSTypeOK
<1> QED  BY <1>1, <1>2, <1>3 DEF Connect

\* Every step of the client is a step of the channel or none.
LEMMA ChannelStep ==
    ASSUME WSInv, [Next]_vars
    PROVE  C!ChannelNext \/ UNCHANGED C!channelVars
<1> USE DEF C!ChannelNext, C!channelVars
<1> DEFINE Same == UNCHANGED <<asked, destroyed, handlers>>
<1>1. ASSUME CallConnect PROVE C!Connect
  <2>1. CASE destroyed
    BY <1>1, <2>1 DEF CallConnect, C!Connect, Up
  <2>2. CASE ~destroyed
    BY <1>1, <2>2, ConnectLink DEF CallConnect, Connect, C!Connect
  <2> QED  BY <2>1, <2>2
<1>2. ASSUME CallClose PROVE C!Goes \/ UNCHANGED C!channelVars
  BY <1>2 DEF CallClose, C!Goes, Up
<1>3. ASSUME CallDestroy PROVE C!Destroy
  BY <1>3 DEF CallDestroy, C!Destroy, Up
<1>4. ASSUME NEW h \in Handlers, Subscribe(h) \/ Unsubscribe(h)
      PROVE  C!On(h) \/ C!Off(h)
  BY <1>4 DEF Subscribe, Unsubscribe, C!On, C!Off, Up
<1>5. ASSUME TimerFires PROVE UNCHANGED C!channelVars
  <2>1. ~destroyed
    BY <1>5 DEF TimerFires, WSInv, TimersAccounted, StaysDestroyed
  <2>2. Connect(FALSE, timeouts - 1) /\ UNCHANGED asked
    BY <1>5, <2>1 DEF TimerFires
  <2>3. Up' = Up /\ Same
    BY <2>2, ConnectLink DEF Connect
  <2> QED  BY <2>3
<1>6. ASSUME NEW s \in Sockets, Opened(s) PROVE C!Comes
  <2>1. s = ws /\ ws # NoSocket /\ asked /\ ~destroyed
    BY <1>6, WSAssumption
    DEF WSAssumption, Opened, WSInv, OneLive, Asked, StaysDestroyed
  <2>2. ~Up /\ Up' /\ Same
    BY <1>6, <2>1 DEF Opened, Up, WSInv, WSTypeOK
  <2> QED  BY <2>1, <2>2 DEF C!Comes
<1>7. ASSUME NEW s \in Sockets, Closing(s) \/ Closed(s)
      PROVE  C!Goes \/ UNCHANGED C!channelVars
  <2>1. Same /\ ws' = ws
    BY <1>7 DEF Closing, Closed
  <2>2. Up' => Up
    BY <1>7, <2>1 DEF Closing, Closed, Up, WSInv, WSTypeOK
  <2> QED  BY <2>1, <2>2 DEF C!Goes
<1>8. ASSUME ReachChanges PROVE UNCHANGED C!channelVars
  BY <1>8 DEF ReachChanges, Up
<1>9. ASSUME UNCHANGED vars PROVE UNCHANGED C!channelVars
  BY <1>9 DEF vars, Up
<1>10. ASSUME Next PROVE C!ChannelNext \/ UNCHANGED C!channelVars
  BY <1>10, <1>1, <1>2, <1>3, <1>4, <1>5, <1>6, <1>7, <1>8 DEF Next, PageCalls
<1> QED  BY <1>9, <1>10

\* The pages may rely on the channel: the link comes only after connect() and
\* never after destroy(), and only pages change the handlers.
THEOREM ClientImplementsChannel == SafeSpec => IsAChannel
<1>1. Init => C!ChannelInit
  BY DEF Init, C!ChannelInit, Up
<1>2. WSInv /\ [Next]_vars => [C!ChannelNext]_(C!channelVars)
  BY ChannelStep
<1> QED  BY <1>1, <1>2, WSInvariant, PTL DEF SafeSpec, IsAChannel, C!ChannelSpec

-----------------------------------------------------------------------------
(* The delays *)

\* The delay last chosen is that of the attempt before, or of one that was
\* counted no further.
DelayFollows ==
    /\ attempts \in 0..MaxAttempts
    /\ \/ attempts = 0 /\ delay = 0
       \/ attempts > 0 /\ delay = Backoff(attempts - 1)
       \/ attempts = MaxAttempts /\ delay = Backoff(attempts)

\* What scheduleReconnect chooses and counts.
Chosen ==
    /\ delay' = Backoff(attempts)
    /\ attempts' = IF attempts < MaxAttempts THEN attempts + 1 ELSE attempts

LEMMA DelayMoves ==
    ASSUME Next
    PROVE  Chosen \/ (attempts' = 0 /\ delay' = 0) \/ UNCHANGED <<attempts, delay>>
<1>1. ASSUME NEW pending, NEW n, Connect(pending, n) \/ ScheduleReconnect(pending, n)
      PROVE  Chosen \/ UNCHANGED <<attempts, delay>>
  BY <1>1 DEF Connect, ScheduleReconnect, Chosen
<1>2. ASSUME PageCalls PROVE Chosen \/ UNCHANGED <<attempts, delay>>
  BY <1>1, <1>2 DEF PageCalls, CallConnect, CallClose, CallDestroy, Subscribe,
                    Unsubscribe, timerVars
<1>3. ASSUME TimerFires PROVE Chosen \/ UNCHANGED <<attempts, delay>>
  BY <1>1, <1>3 DEF TimerFires
<1>4. ASSUME NEW s \in Sockets, Opened(s)
      PROVE  (attempts' = 0 /\ delay' = 0) \/ UNCHANGED <<attempts, delay>>
  BY <1>4 DEF Opened
<1>5. ASSUME NEW s \in Sockets, Closing(s) \/ Closed(s)
      PROVE  Chosen \/ UNCHANGED <<attempts, delay>>
  BY <1>1, <1>5 DEF Closing, Closed, timerVars
<1>6. ASSUME ReachChanges PROVE UNCHANGED <<attempts, delay>>
  BY <1>6 DEF ReachChanges, timerVars
<1> QED  BY <1>2, <1>3, <1>4, <1>5, <1>6 DEF Next

LEMMA DelayStep == ASSUME DelayFollows, [Next]_vars PROVE DelayFollows'
<1> USE WSAssumption DEF WSAssumption
<1>1. CASE Chosen
  <2>1. CASE attempts < MaxAttempts
    <3>1. attempts' = attempts + 1 /\ delay' = Backoff(attempts) /\ attempts \in Nat
      BY <1>1, <2>1 DEF Chosen, DelayFollows
    <3>2. attempts' - 1 = attempts /\ attempts' > 0 /\ attempts' \in 0..MaxAttempts
      BY <2>1, <3>1
    <3>3. delay' = Backoff(attempts' - 1)
      BY <3>1, <3>2
    <3> QED  BY <3>2, <3>3 DEF DelayFollows, Backoff
  <2>2. CASE attempts = MaxAttempts
    BY <1>1, <2>2 DEF Chosen, DelayFollows, Backoff
  <2> QED  BY <2>1, <2>2 DEF DelayFollows
<1>2. CASE (attempts' = 0 /\ delay' = 0) \/ UNCHANGED <<attempts, delay>>
  BY <1>2 DEF DelayFollows, Backoff
<1>3. CASE UNCHANGED vars
  BY <1>2, <1>3 DEF vars, timerVars
<1> QED  BY <1>1, <1>2, <1>3, DelayMoves

\* What a power of two is.  It is so by the definition of ^, a recursion that the
\* provers do not have: 2^0 = 1 is all they know.
PowersDouble == \A n \in Nat : 2^n \in Nat /\ 2^(n + 1) = 2 * 2^n

\* What doubling a power does to a delay.
LEMMA Doubles ==
    ASSUME PowersDouble, NEW n \in Nat
    PROVE  /\ Backoff(0) = Base
           /\ Backoff(n + 1) = IF 2 * Backoff(n) < MaxDelay THEN 2 * Backoff(n) ELSE MaxDelay
<1> DEFINE p == Base * 2^n
           q == Base * 2^(n + 1)
<1>1. 2^n \in Nat /\ 2^(n + 1) = 2 * 2^n /\ 2^0 = 1
  BY DEF PowersDouble
<1>2. p \in Nat /\ q = 2 * p
  BY <1>1, WSAssumption DEF WSAssumption
<1>3. Base * 2^0 = Base
  BY <1>1, WSAssumption DEF WSAssumption
<1>4. Backoff(n) = (IF p < MaxDelay THEN p ELSE MaxDelay)
  BY DEF Backoff
<1>5. Backoff(n + 1) = (IF q < MaxDelay THEN q ELSE MaxDelay)
  BY DEF Backoff
<1> HIDE DEF p, q
<1>6. Backoff(0) = Base
  BY <1>3, WSAssumption DEF Backoff, WSAssumption
<1> QED  BY <1>2, <1>4, <1>5, <1>6, WSAssumption DEF WSAssumption

\* Whoever asks for the reconnect, the delays between two openings start at Base
\* and double until MaxDelay (lines 100-108).
THEOREM ClientBacksOff ==
    ASSUME PowersDouble
    PROVE  SafeSpec => BackoffDoubles
<1> DEFINE Doubled == delay' # delay /\ delay' # 0 =>
                         delay' = IF delay = 0 THEN Base
                                  ELSE IF 2 * delay < MaxDelay THEN 2 * delay ELSE MaxDelay
<1>1. Init => DelayFollows
  BY WSAssumption DEF Init, DelayFollows, WSAssumption
<1>2. DelayFollows /\ [Next]_vars => DelayFollows'
  BY DelayStep
<1>3. DelayFollows /\ [Next]_vars => [Doubled]_vars
  <2> SUFFICES ASSUME DelayFollows, Next, delay' # delay, delay' # 0
               PROVE  delay' = IF delay = 0 THEN Base
                               ELSE IF 2 * delay < MaxDelay THEN 2 * delay ELSE MaxDelay
    OBVIOUS
  <2>1. Chosen
    BY DelayMoves
  <2>2. attempts \in Nat /\ delay' = Backoff(attempts) /\ Backoff(0) = Base
    BY <2>1, Doubles DEF DelayFollows, Chosen
  <2>3. CASE attempts = 0 /\ delay = 0
    BY <2>2, <2>3
  <2>4. CASE attempts > 0 /\ delay = Backoff(attempts - 1)
    <3> DEFINE m == attempts - 1
    <3>1. m \in Nat /\ attempts = m + 1 /\ delay = Backoff(m)
      BY <2>2, <2>4
    <3> HIDE DEF m
    <3>2. delay' = IF 2 * delay < MaxDelay THEN 2 * delay ELSE MaxDelay
      BY <2>2, <3>1, Doubles
    <3>3. delay # 0
      BY <3>2, WSAssumption DEF WSAssumption
    <3> QED  BY <3>2, <3>3
  <2> QED  BY <2>2, <2>3, <2>4 DEF DelayFollows
<1> QED  BY <1>1, <1>2, <1>3, PTL DEF SafeSpec, BackoffDoubles
=============================================================================
