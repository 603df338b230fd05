------------------------------ MODULE Landing ------------------------------
(***************************************************************************)
(* The landing page, frontend/src/app/page.tsx: a summary and a list of     *)
(* recent risks that arrive by REST and over the WebSocket, a decorative    *)
(* news log, and packets that fly between elements of two pictures.         *)
(*                                                                         *)
(* A packet is a DOM element made by an interval and removed when its       *)
(* animation finishes.  Animations do not finish in a hidden tab, whose     *)
(* intervals go on.                                                        *)
(***************************************************************************)
EXTENDS Browser

CONSTANTS
    RestLimit,     \* 20, what dashboardRecent asks for
    FeedCap,       \* 50, the length the feed is cut to
    NewsCap,       \* 7, the length the news log is cut to
    HeroNodes,     \* the ids between which hero packets fly
    Cards          \* the number of children of the pipeline

LandingEvents == {"init", "risk_alert", "summary_update"}

\* What the effects acquire.
LandingAcquires == {"news", "telemetry", "observer", "mousemove", "hero", "pipeline"}

LandingLinks == {"intelligence", "ecosystem", "architecture", "devdocs", "console"}

\* What fetch_recent answers when v risks are stored, newest first.
RecentAt(v) == [i \in 1..(IF v < RestLimit THEN v ELSE RestLimit) |-> v + 1 - i]

LandingInit ==
    [kind |-> "landing", summary |-> NoSummary, back |-> 0, recent |-> <<>>, mocked |-> 0,
     news |-> <<"a", "b", "c", "d", "e">>, revealed |-> {}, packets |-> {}]

LandingCalls == {Call(0, "summary"), Call(0, "recent")}

OnLanding == ui.kind = "landing"

\* The feed shows the risks, or a built-in example when there are none.
ShowsMock(u) == u.recent = <<>>

\* The list of a REST answer replaces whatever is shown, empty or not; "mocked"
\* counts how often the example takes the place of risks.
Fed(u, list) ==
    [u EXCEPT !.recent = list,
              !.mocked = IF ~ShowsMock(u) /\ list = <<>> THEN @ + 1 ELSE @]

-----------------------------------------------------------------------------
(* Mutated definitions: plausible bugs, each of which breaks one property of *)
(* App (PROJECT.json says which).  No specification uses them.               *)

\* The cleanup of the pipeline's effect is missing.
MutLandingReleases == {"news", "telemetry", "observer", "mousemove", "hero"}

\* The page asks again whenever it has its answers, as polling would.
MutFetchRepeats ==
    /\ OnLanding
    /\ \E s, r \in calls :
          /\ s.what = "summary" /\ s.got = "ok"
          /\ r.what = "recent" /\ r.got = "ok"
          /\ ui' = Fed(Summarised(ui, s.at), RecentAt(r.at))
    /\ calls' = LandingCalls
    /\ UNCHANGED <<tabVars, netVars, left, channelVars>>

-----------------------------------------------------------------------------
(* What the effects' cleanups give back *)

LandingReleases == {"news", "telemetry", "observer", "mousemove", "hero", "pipeline"}

-----------------------------------------------------------------------------
(* Promise.all: both answers are used, or neither *)

\* The answers in hand; a call that settled stays until the other one has.
FetchCompletes ==
    /\ OnLanding
    /\ \E s, r \in calls :
          /\ s.what = "summary" /\ s.got = "ok"
          /\ r.what = "recent" /\ r.got = "ok"
          /\ ui' = Fed(Summarised(ui, s.at), RecentAt(r.at))
    /\ calls' = {}
    /\ UNCHANGED <<tabVars, netVars, left, channelVars>>

\* The catch is empty: the page keeps what it shows.
FetchFails ==
    /\ OnLanding
    /\ \E c \in calls : Failed(c)
    /\ calls' = {}
    /\ UNCHANGED <<tabVars, ui, netVars, left, channelVars>>

-----------------------------------------------------------------------------
(* The handlers of the WebSocket's messages *)

LandingHears(u, m) ==
    CASE m.type = "init" ->
            IF RecentAt(m.recent) # <<>>
            THEN Fed(Summarised(u, m.summary), RecentAt(m.recent))
            ELSE Summarised(u, m.summary)
      [] m.type = "summary_update" -> Summarised(u, m.summary)
      [] m.type = "risk_alert" -> [u EXCEPT !.recent = Prepended(m.risk, @, FeedCap)]

-----------------------------------------------------------------------------
(* Intervals, observer, animations *)

NewsTick ==
    /\ OnLanding /\ <<page, "news">> \in held
    /\ Spend("tick")
    /\ ui' = [ui EXCEPT !.news = Prepended("x", @, NewsCap)]
    /\ UNCHANGED <<tabVars, calls, netVars, channelVars>>

\* The observer reveals a section for good.
Reveal(section) ==
    /\ OnLanding /\ <<page, "observer">> \in held
    /\ section \notin ui.revealed
    /\ Spend("tick")
    /\ ui' = [ui EXCEPT !.revealed = @ \cup {section}]
    /\ UNCHANGED <<tabVars, calls, netVars, channelVars>>

\* A packet between two different nodes, or none.
HeroTick ==
    /\ OnLanding /\ <<page, "hero">> \in held
    /\ Spend("tick")
    /\ \E start, end \in HeroNodes :
          ui' = [ui EXCEPT !.packets =
                    IF start # end THEN @ \cup {<<"hero", start, end, left["tick"]>>} ELSE @]
    /\ UNCHANGED <<tabVars, calls, netVars, channelVars>>

\* A packet from some of the cards to the next one.
PipelineTick ==
    /\ OnLanding /\ <<page, "pipeline">> \in held
    /\ Spend("tick")
    /\ \E from \in SUBSET (1..(Cards - 1)) :
          ui' = [ui EXCEPT !.packets = @ \cup {<<"pipeline", i, i + 1, left["tick"]>> : i \in from}]
    /\ UNCHANGED <<tabVars, calls, netVars, channelVars>>

PacketLands(p) ==
    /\ OnLanding /\ ~hidden
    /\ p \in ui.packets
    /\ ui' = [ui EXCEPT !.packets = @ \ {p}]
    /\ UNCHANGED <<tabVars, calls, netVars, left, channelVars>>

LandingNext ==
    \/ FetchCompletes \/ FetchFails
    \/ NewsTick \/ Reveal("feed") \/ HeroTick \/ PipelineTick
    \/ OnLanding /\ \E p \in ui.packets : PacketLands(p)
=============================================================================
