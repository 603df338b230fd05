------------------------------ MODULE Delivery ------------------------------
(***************************************************************************)
(* What the scraping gateway promises the processing hub about each page   *)
(* section it was asked to scrape: at-most-once delivery.  A section is    *)
(* delivered once, or it is lost, or neither; it is never both, and a fate *)
(* is final.  Order is not promised, since several workers scrape at once. *)
(***************************************************************************)
EXTENDS Sequences, Functions

CONSTANT Tasks   \* the sections

VARIABLES
    delivered,   \* the sections the hub has received, in order of arrival
    lost         \* the sections that can no longer be delivered

deliveryVars == <<delivered, lost>>

Init == delivered = <<>> /\ lost = {}

Deliver(t) ==
    /\ t \notin Range(delivered)
    /\ t \notin lost
    /\ delivered' = Append(delivered, t)
    /\ UNCHANGED lost

\* One event may cost several sections: all that were in flight on a stream.
Lose(S) ==
    /\ S \cap (Range(delivered) \cup lost) = {}
    /\ lost' = lost \cup S
    /\ UNCHANGED delivered

Next == (\E t \in Tasks : Deliver(t)) \/ (\E S \in SUBSET Tasks : Lose(S))

Spec == Init /\ [][Next]_deliveryVars
=============================================================================
