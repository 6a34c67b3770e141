------------------------------ MODULE Delivery ------------------------------
(***************************************************************************)
(* What the aggregator promises about the items it has accepted: each one  *)
(* is pending until it is delivered to the Processor or lost by a failure  *)
(* that is reported, it is never both, and it is settled for good.         *)
(***************************************************************************)

VARIABLES
    pending,   \* accepted and neither delivered nor lost
    delivered, \* accepted by the Processor
    lost       \* given up, with an error

vars == <<pending, delivered, lost>>

Init == pending = {} /\ delivered = {} /\ lost = {}

\* New items are accepted, none of which was seen before.
Accept ==
    /\ pending \subseteq pending'
    /\ (pending' \ pending) \cap (delivered \cup lost) = {}
    /\ UNCHANGED <<delivered, lost>>

\* Pending items are delivered, lost, or partly the one and partly the other.
Settle ==
    /\ delivered \subseteq delivered' /\ lost \subseteq lost'
    /\ (delivered' \ delivered) \cap (lost' \ lost) = {}
    /\ (delivered' \ delivered) \cup (lost' \ lost) \subseteq pending
    /\ pending' = pending \ (delivered' \cup lost')

Next == Accept \/ Settle

Spec == Init /\ [][Next]_vars
=============================================================================
