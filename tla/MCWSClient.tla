---------------------------- MODULE MCWSClient ----------------------------
(***************************************************************************)
(* Model values for WSClient: three sockets, so that one can be current     *)
(* while two abandoned ones are still closing; the real delays.             *)
(***************************************************************************)
EXTENDS WSClient

CONSTANTS x1, x2, x3, h1

ThreeSockets == {x1, x2, x3}
OneHandler == {h1}
=============================================================================
