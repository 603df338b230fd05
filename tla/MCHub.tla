------------------------------- MODULE MCHub -------------------------------
(* Model values for Hub: a blank document, one that fits a chunk, one that  *)
(* needs three windows.                                                     *)
EXTENDS Hub

CONSTANTS blank, short, long

SomeDocs == {blank, short, long}
Sizes == [d \in SomeDocs |-> CASE d = blank -> 0 [] d = short -> 2 [] d = long -> 5]
=============================================================================
