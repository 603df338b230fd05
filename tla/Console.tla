------------------------------ MODULE Console ------------------------------
(***************************************************************************)
(* The operations console, frontend/src/app/intelligence/page.tsx, mounted  *)
(* at /intelligence and at /console: a boot screen, a summary, alerts, and  *)
(* a terminal whose lines come from commands, from the answers to REST      *)
(* calls and from the WebSocket.                                           *)
(*                                                                         *)
(* React keeps the updates of a component in a queue and applies them when  *)
(* it renders.  What an event handler of the user's enqueues is rendered    *)
(* when the handler returns, with everything queued before; what a timer, a *)
(* message or the rest of an async function enqueues waits for Render.      *)
(* A handler sees the state of the last rendering.  The terminal's updates  *)
(* make the same of its lines whenever they run, so their queue is kept as  *)
(* the lines it will make; those of the boot screen do not, and are counted.*)
(***************************************************************************)
EXTENDS Browser

CONSTANTS
    BootLogs,      \* 8, the lines of the boot screen
    AlertCap       \* 20, the length the alerts are cut to

ConsoleEvents == {"init", "summary_update", "agent_result", "risk_alert"}

ConsoleAcquires == {"boot", "metrics", "phrase"}
ConsoleReleases == {"boot", "metrics", "phrase"}

ConsoleLinks == {"intelligence", "ecosystem", "architecture", "devdocs", "console"}

Line(k, i) == [kind |-> k, id |-> i]
Greeting == <<Line("greeting", 0)>>
Session == <<Line("session", 0)>>

\* lines is what the terminal shows, next what the next rendering will show.
\* boot: the number of the log shown on each line; one past the last reads
\* undefined.  logIndex is the effect's variable, phase its pending timer.
ConsoleInit ==
    [kind |-> "console", summary |-> NoSummary, back |-> 0, alerts |-> <<>>,
     lines |-> Greeting, next |-> Greeting,
     boot |-> <<>>, unread |-> 0, logIndex |-> 1, phase |-> "logging"]

ConsoleCalls == {Call(0, "summary")}

OnConsole == ui.kind = "console"

\* The boot screen lies over the page.
Covered(u) == u.phase # "gone"

\* The two updates of the terminal: an updater that adds to what is there when
\* it runs, and a list that replaces it.
Add(u, line) == [u EXCEPT !.next = Append(@, line)]
Set(u, lines) == [u EXCEPT !.next = lines]

\* One rendering.  The queued boot updaters run now and read logIndex now.
Rendered(u) ==
    [u EXCEPT !.lines = u.next,
              !.boot = @ \o [i \in 1..u.unread |-> u.logIndex], !.unread = 0]

-----------------------------------------------------------------------------
(* Mutated definitions: plausible bugs, each of which breaks one property of *)
(* App (PROJECT.json says which).  No specification uses them.               *)

\* The answer is appended to the lines that were on the screen at the call.
MutAnswerShown(c) ==
    /\ OnConsole /\ c.what = "trigger" /\ c.got # "none"
    /\ calls' = calls \ {c}
    /\ ui' = Set(ui, Greeting \o
                    <<Line("in", c.id), Line("out", c.id), Line("answer", c.id)>>)
    /\ UNCHANGED <<tabVars, netVars, left, channelVars>>

\* Nothing is shown for a call that fails.
MutAnswerOnSuccess(c) ==
    /\ OnConsole /\ c.what = "trigger" /\ c.got = "ok"
    /\ calls' = calls \ {c}
    /\ ui' = Add(ui, Line("answer", c.id))
    /\ UNCHANGED <<tabVars, netVars, left, channelVars>>

-----------------------------------------------------------------------------
(* The boot screen *)

\* addNextLog.  React runs an updater at once when the component has no update
\* queued, and may queue it in any case; logIndex has moved on when it runs.
BootTick ==
    /\ OnConsole /\ ui.phase = "logging" /\ <<page, "boot">> \in held
    /\ IF ui.logIndex <= BootLogs
       THEN \/ /\ ui.unread = 0 /\ ui.next = ui.lines
               /\ ui' = [ui EXCEPT !.boot = Append(@, ui.logIndex), !.logIndex = @ + 1]
            \/ ui' = [ui EXCEPT !.unread = @ + 1, !.logIndex = @ + 1]
       ELSE ui' = [ui EXCEPT !.phase = "waiting"]
    /\ UNCHANGED <<tabVars, calls, netVars, left, channelVars>>

\* The last log stays for eight seconds and fades for one and a half.
BootOver ==
    /\ OnConsole /\ ui.phase \in {"waiting", "fading"} /\ <<page, "boot">> \in held
    /\ ui' = [ui EXCEPT !.phase = IF @ = "waiting" THEN "fading" ELSE "gone"]
    /\ held' = IF ui.phase = "fading" THEN held \ {<<page, "boot">>} ELSE held
    /\ UNCHANGED <<page, trail, hidden, calls, netVars, left, channelVars>>

-----------------------------------------------------------------------------
(* Summary, messages, rendering *)

SummaryArrives ==
    /\ OnConsole
    /\ \E c \in calls :
          /\ c.what = "summary" /\ c.got # "none"
          /\ calls' = calls \ {c}
          /\ ui' = IF Failed(c) THEN ui ELSE Summarised(ui, c.at)
    /\ UNCHANGED <<tabVars, netVars, left, channelVars>>

ConsoleHears(u, m) ==
    CASE m.type \in {"init", "summary_update"} -> Summarised(u, m.summary)
      [] m.type = "agent_result" -> Add(u, Line("result", m.id))
      [] m.type = "risk_alert" -> [u EXCEPT !.alerts = Prepended(m.risk, @, AlertCap)]

ConsoleRenders ==
    /\ OnConsole
    /\ ui.next # ui.lines \/ ui.unread > 0
    /\ ui' = Rendered(ui)
    /\ UNCHANGED <<tabVars, calls, netVars, left, channelVars>>

-----------------------------------------------------------------------------
(* The terminal *)

\* A handler of the user's ends in a rendering.
Shows(u) == ui' = Rendered(u)

Clear ==
    /\ OnConsole /\ Spend("click")
    /\ Shows(Set(ui, <<>>))
    /\ UNCHANGED <<tabVars, calls, netVars, channelVars>>

NewSession ==
    /\ OnConsole /\ Spend("click")
    /\ Shows(Set(ui, Session))
    /\ UNCHANGED <<tabVars, calls, netVars, channelVars>>

\* help, decrypt, agents, threats and any other word: the lines on the screen,
\* the command and its reply.  What is queued and not on the screen is lost.
Talk ==
    /\ OnConsole /\ Spend("click")
    /\ Shows(Set(ui, ui.lines \o <<Line("in", left["click"]), Line("out", left["click"])>>))
    /\ UNCHANGED <<tabVars, calls, netVars, channelVars>>

\* The same, and a call.
Scan ==
    /\ OnConsole /\ Spend("click")
    /\ Shows(Set(ui, ui.lines \o <<Line("in", left["click"]), Line("out", left["click"])>>))
    /\ calls' = calls \cup {Call(left["click"], "trigger")}
    /\ UNCHANGED <<tabVars, netVars, channelVars>>

\* DEPLOY_AGENT appends its lines and loses none.
DeployAgent ==
    /\ OnConsole /\ Spend("click")
    /\ Shows(Add(ui, Line("out", left["click"])))
    /\ calls' = calls \cup {Call(left["click"], "trigger")}
    /\ UNCHANGED <<tabVars, netVars, channelVars>>

\* Any failure reads "backend unreachable", a rejected score included.
AnswerShown(c) ==
    /\ OnConsole /\ c.what = "trigger" /\ c.got # "none"
    /\ calls' = calls \ {c}
    /\ ui' = Add(ui, Line("answer", c.id))
    /\ UNCHANGED <<tabVars, netVars, left, channelVars>>

ConsoleNext ==
    \/ BootTick \/ BootOver
    \/ SummaryArrives \/ ConsoleRenders
    \/ Clear \/ NewSession \/ Talk \/ Scan \/ DeployAgent
    \/ \E c \in calls : AnswerShown(c)
=============================================================================
