-------------------------------- MODULE App --------------------------------
(***************************************************************************)
(* The front end as one browser tab runs it: the pages, the links between   *)
(* them, and the backend's endpoint at the other side of the WebSocket.     *)
(* The WebSocket client is a module-level singleton, so it and its link     *)
(* outlive the page that connected it; a page that is shown again starts    *)
(* anew.                                                                   *)
(***************************************************************************)
EXTENDS Landing, Console, DevDocs, Architecture

Pages == {"landing", "intelligence", "console", "ecosystem", "architecture", "devdocs"}
IsConsole(p) == p \in {"intelligence", "console"}
Watching == {"landing", "intelligence", "console"}

ASSUME AppAssumption ==
    \A s \in Scenarios : s.page \in Pages /\ s.stored \in Nat /\ s.left \in [Kinds -> Nat]

\* The lengths the pages' code names: a list holds an item at least, the news
\* log the five it starts with, and the feed what a REST answer may bring.
ASSUME LengthAssumption ==
    /\ WireCap \in Nat /\ BootLogs \in Nat
    /\ LogTexts \in Nat \ {0} /\ LogCap \in Nat \ {0} /\ AlertCap \in Nat \ {0}
    /\ FeedCap \in Nat \ {0} /\ RestLimit \in 0..FeedCap
    /\ NewsCap \in Nat /\ NewsCap >= 5

\* A link to the mounted page changes nothing.
LinksOf(p) ==
    (CASE p = "landing" -> LandingLinks
       [] IsConsole(p) -> ConsoleLinks
       [] p = "ecosystem" -> EcosystemLinks
       [] p = "architecture" -> ArchitectureLinks
       [] p = "devdocs" -> DevDocsLinks) \ {p}

InitOf(p) ==
    CASE p = "landing" -> LandingInit
      [] IsConsole(p) -> ConsoleInit
      [] p = "ecosystem" -> EcosystemInit
      [] p = "architecture" -> ArchitectureInit
      [] p = "devdocs" -> DevDocsInit

CallsOf(p) ==
    CASE p = "landing" -> LandingCalls
      [] IsConsole(p) -> ConsoleCalls
      [] p = "ecosystem" -> EcosystemCalls
      [] p = "architecture" -> ArchitectureCalls
      [] p = "devdocs" -> {}

AcquiredBy(p) ==
    CASE p = "landing" -> LandingAcquires
      [] IsConsole(p) -> ConsoleAcquires
      [] p = "devdocs" -> DevDocsAcquires
      [] OTHER -> {}

ReleasedBy(p) ==
    CASE p = "landing" -> LandingReleases
      [] IsConsole(p) -> ConsoleReleases
      [] p = "architecture" -> ArchitectureReleases
      [] p = "devdocs" -> DevDocsReleases
      [] OTHER -> {}

EventsOf(p) ==
    CASE p = "landing" -> LandingEvents
      [] IsConsole(p) -> ConsoleEvents
      [] OTHER -> {}

Init ==
    /\ \E s \in Scenarios : page = s.page /\ left = s.left /\ db = s.stored
    /\ trail = <<>>
    /\ hidden = FALSE
    /\ ui = InitOf(page)
    /\ calls = CallsOf(page)
    /\ held = {page} \X AcquiredBy(page)
    /\ endpoint = NoEndpoint
    /\ wire = <<>>
    /\ link = "down" /\ ended = FALSE
    /\ asked = (page \in Watching)
    /\ handlers = {page} \X EventsOf(page)

-----------------------------------------------------------------------------
(* Navigation: the cleanups of the page that leaves, then the effects of the *)
(* one that comes.  wsClient.connect() finds the link as it is.              *)

Mount(p) ==
    /\ page' = p
    /\ ui' = InitOf(p)
    /\ calls' = CallsOf(p)
    /\ held' = (held \ ({page} \X ReleasedBy(page))) \cup ({p} \X AcquiredBy(p))
    /\ handlers' = (handlers \ ({page} \X EventsOf(page))) \cup ({p} \X EventsOf(p))
    /\ asked' = (asked \/ p \in Watching)
    /\ UNCHANGED <<hidden, netVars, link, ended>>

FollowLink(p) ==
    /\ p \in LinksOf(page)
    /\ Spend("visit")
    /\ trail' = Append(trail, page)
    /\ Mount(p)

GoBack ==
    /\ trail # <<>>
    /\ Spend("visit")
    /\ trail' = Front(trail)
    /\ Mount(Last(trail))

Hide ==
    /\ ~hidden /\ Spend("hide")
    /\ hidden' = TRUE
    /\ UNCHANGED <<page, trail, held, ui, calls, netVars, channelVars>>

Unhide ==
    /\ hidden
    /\ hidden' = FALSE
    /\ UNCHANGED <<page, trail, held, ui, calls, netVars, left, channelVars>>

-----------------------------------------------------------------------------
(* A message is emitted to the handlers of its type *)

Hears(u, m) == IF u.kind = "landing" THEN LandingHears(u, m) ELSE ConsoleHears(u, m)

Deliver ==
    /\ wire # <<>> /\ link = "up"
    /\ wire' = Tail(wire)
    /\ ui' = IF <<page, Head(wire).type>> \in handlers THEN Hears(ui, Head(wire)) ELSE ui
    /\ UNCHANGED <<tabVars, calls, db, endpoint, left, channelVars>>

PageStep == LandingNext \/ ConsoleNext \/ DevDocsNext \/ ArchitectureNext

BackendStep == NewRisk \/ EndpointStep \/ \E c \in calls : CallAnswered(c)

Next ==
    \/ \E p \in Pages : FollowLink(p)
    \/ GoBack
    \/ Hide \/ Unhide
    \/ LinkComes \/ LinkGoes
    \/ Deliver
    \/ BackendStep
    \/ PageStep

vars == <<tabVars, ui, calls, netVars, left, channelVars>>
SafeSpec == Init /\ [][Next]_vars

\* The browser runs what is due, the network delivers or fails, the backend
\* answers.  Nothing is assumed of the user, of risks, or of the link.
Fairness ==
    /\ WF_vars(Deliver) /\ WF_vars(Unhide)
    /\ WF_vars(EndpointReads) /\ WF_vars(EndpointInit) /\ WF_vars(EndpointPolls)
    /\ WF_vars(\E c \in calls : CallAnswered(c))
    /\ WF_vars(FetchCompletes \/ FetchFails)
    /\ WF_vars(OnLanding /\ \E p \in ui.packets : PacketLands(p))
    /\ WF_vars(BootTick) /\ WF_vars(BootOver)
    /\ WF_vars(SummaryArrives) /\ WF_vars(ConsoleRenders)
    /\ WF_vars(\E c \in calls : AnswerShown(c))
    /\ WF_vars(\E c \in calls : OutputShown(c))
    /\ WF_vars(RecoveryFires) /\ WF_vars(ArchitectureRenders)
    /\ WF_vars(HealthArrives) /\ WF_vars(SupplierArrives)

Spec == SafeSpec /\ Fairness
-----------------------------------------------------------------------------
(* Properties *)

\* Type correctness of what the pages share, and the bounds of the lists that
\* messages and intervals feed.
AppTypeOK ==
    /\ page \in Pages /\ trail \in Seq(Pages) /\ hidden \in BOOLEAN
    /\ ui.kind = InitOf(page).kind
    /\ calls \subseteq [id : Nat, what : {"summary", "recent", "health", "supplier", "trigger", "analyze"},
                        got : {"none", "ok", "refused", "lost"}, at : Nat]
    /\ db \in Nat /\ left \in [Kinds -> Nat]
    /\ endpoint.at \in {"none", "accepted", "summarised", "live"}
    /\ Len(wire) <= WireCap
    /\ link \in {"down", "up"} /\ asked \in BOOLEAN /\ ended = FALSE
    /\ OnLanding => Len(ui.recent) <= FeedCap /\ Len(ui.news) <= NewsCap
    /\ OnConsole => Len(ui.alerts) <= AlertCap
    /\ OnDevDocs => Len(ui.logs) <= LogCap

\* The mounted page listens to exactly its messages, and no interval, timeout,
\* listener or observer of a page survives it, however late it was made: a
\* timer of a page that is gone would run for ever, and a handler would be
\* called twice after the next visit.
NothingOutlivesItsPage ==
    /\ handlers = {page} \X EventsOf(page)
    /\ held \subseteq {page} \X (AcquiredBy(page) \cup ReleasedBy(page))

\* A summary that was read earlier may replace a later one, since a REST answer
\* may come after a message of the WebSocket, and the landing page's built-in
\* example may take the place of risks it has shown; but once at most in the
\* life of a page, whatever the link does (page.tsx:141-184,
\* intelligence/page.tsx:178-192).
GoesBackOnce ==
    /\ page \in Watching => ui.back <= 1
    /\ OnLanding => ui.mocked <= 1

\* And the page recovers: if the link stays up while it is open, the summary it
\* shows is in the end that of the database.
SummaryCatchesUp == <>[](link = "up" /\ page \in Watching) => <>[](page \in Watching => ui.summary = db)

\* What the terminal has on the screen stays there until the user clears it or
\* leaves, although a command replaces the whole list by a copy it made
\* (intelligence/page.tsx:240-296).
ShownLinesStay ==
    [][OnConsole /\ page' = page =>
         \/ IsPrefix(ui.lines, ui'.lines)
         \/ ui'.lines \in {<<>>, Session}]_vars

\* A call of the terminal or of the output window is answered at most once: not
\* before the answer is there, and not again
\* (intelligence/page.tsx:258-271, 512-531, devdocs/page.tsx:77-116). It may not
\* be answered at all: an answer that is queued and not rendered when a command
\* replaces the list by its copy (intelligence/page.tsx:240-296) is lost.
Output == IF OnConsole THEN ui.next ELSE IF OnDevDocs THEN ui.outputs ELSE <<>>
IsReply(l) == l.kind \in {"answer", "server", "error"}
AnsweredAtMostOnce ==
    \A i \in DOMAIN Output : IsReply(Output[i]) =>
        /\ \A j \in DOMAIN Output :
              IsReply(Output[j]) /\ Output[i].id = Output[j].id => i = j
        /\ \A c \in calls : c.id # Output[i].id

\* The boot screen has as many lines as there are logs, whenever React runs the
\* updaters; each shows its log or a later one, and they never go back
\* (intelligence/page.tsx:132-152).
BootKeepsCount ==
    OnConsole =>
        /\ Len(ui.boot) + ui.unread = ui.logIndex - 1
        /\ ui.phase # "logging" => ui.logIndex = BootLogs + 1
        /\ \A i \in DOMAIN ui.boot :
              /\ ui.boot[i] \in i..ui.logIndex
              /\ i > 1 => ui.boot[i - 1] <= ui.boot[i]

\* The documentation's log shows the last lines without a gap, and its key and
\* its text keep step although two refs count them (devdocs/page.tsx:34-55).
LogIsTheLast ==
    OnDevDocs =>
        /\ \A i \in DOMAIN ui.logs :
              /\ ui.logs[i].id = ui.logId - Len(ui.logs) + i - 1
              /\ ui.logs[i].text = ui.logs[i].id % LogTexts
        /\ Len(ui.logs) = IF ui.logId < LogCap THEN ui.logId ELSE LogCap

\* A failover on the screen has its recovery on the way, by timer or in React's
\* queue, and never both; nothing else has (architecture/page.tsx:102-115).
RecoveryIsScheduled ==
    OnArchitecture =>
        /\ ui.shown = "failing" <=> (<<page, "recovery">> \in held \/ ui.state # ui.shown)
        /\ <<page, "recovery">> \in held => ui.state = "failing"

\* The timers of the pages keep step with what they show.
TimersKeepStep == BootKeepsCount /\ LogIsTheLast /\ RecoveryIsScheduled

\* Whatever a page starts ends, unless the user leaves: a call is over, whether
\* its answer is shown or lost, the boot screen uncovers the console, a failover
\* is over and its button works again, and a packet is removed, at the latest when
\* the tab is visible again.
WhatStartsEnds ==
    /\ calls # {} ~> calls = {}
    /\ OnConsole ~> (~OnConsole \/ ~Covered(ui))
    /\ (OnArchitecture /\ ui.shown = "failing") ~> ~(OnArchitecture /\ ui.shown = "failing")
    /\ (OnLanding /\ ui.packets # {}) ~> ~(OnLanding /\ ui.packets # {})
=============================================================================
