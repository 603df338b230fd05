------------------------------ MODULE Channel ------------------------------
(***************************************************************************)
(* What the front end's WebSocket client, frontend/src/lib/ws.ts, promises  *)
(* the pages that use it: after the first connect() there is a link that    *)
(* comes and goes by itself; at most one, never again once the client is    *)
(* destroyed; and a set of subscribed handlers that only the pages change,  *)
(* whatever the link does.                                                  *)
(*                                                                         *)
(* WSClient shows that the client implements it; the pages are modelled on  *)
(* top of it (Browser).                                                     *)
(***************************************************************************)
CONSTANT Handlers     \* what the pages may pass to on(), with their events

VARIABLES
    link,             \* "up": an open socket whose messages reach handlers
    asked,            \* a page has called connect()
    ended,            \* destroy() was called
    handlers          \* the subscribed ones

channelVars == <<link, asked, ended, handlers>>

ChannelInit ==
    /\ link = "down"
    /\ asked = FALSE
    /\ ended = FALSE
    /\ handlers = {}

Connect ==
    /\ asked' = TRUE
    /\ UNCHANGED <<link, ended, handlers>>

On(h) ==
    /\ handlers' = handlers \cup {h}
    /\ UNCHANGED <<link, asked, ended>>

\* The function on() returned.
Off(h) ==
    /\ handlers' = handlers \ {h}
    /\ UNCHANGED <<link, asked, ended>>

Comes ==
    /\ asked /\ ~ended /\ link = "down"
    /\ link' = "up"
    /\ UNCHANGED <<asked, ended, handlers>>

\* The server, the network, or close().
Goes ==
    /\ link = "up"
    /\ link' = "down"
    /\ UNCHANGED <<asked, ended, handlers>>

Destroy ==
    /\ ended' = TRUE
    /\ link' = "down"
    /\ handlers' = {}
    /\ UNCHANGED asked

ChannelNext ==
    \/ Connect \/ Comes \/ Goes \/ Destroy
    \/ \E h \in Handlers : On(h) \/ Off(h)

ChannelSpec == ChannelInit /\ [][ChannelNext]_channelVars
=============================================================================
