------------------------------ MODULE Delivery ------------------------------
(***************************************************************************)
(* What the push outbox promises the rest of the system: every local change *)
(* accepted for delivery has a number of its own, numbers grow, and the     *)
(* other side processes each accepted change at most once, unaltered.  How  *)
(* requests, retries and receipts bring this about is RowSync's business.   *)
(***************************************************************************)
EXTENDS Integers, FiniteSets

VARIABLES
    accepted,  \* changes queued for the peer so far, records with a field seq
    processed  \* those the peer has run _apply_one for

Init == accepted = {} /\ processed = {}

\* A batch of new changes gets numbers above all those given before.
Accept ==
    /\ accepted \subseteq accepted'
    /\ \A c \in accepted' \ accepted : \A d \in accepted' :
         /\ d.seq = c.seq => d = c
         /\ d \in accepted => d.seq < c.seq
    /\ UNCHANGED processed

Process ==
    /\ \E c \in accepted \ processed : processed' = processed \cup {c}
    /\ UNCHANGED accepted

Next == Accept \/ Process

Spec == Init /\ [][Next]_<<accepted, processed>>

=============================================================================
