--------------------------- MODULE DeliveryPromise ---------------------------
(* What a queue of things to be delivered promises whoever fills it, and     *)
(* whoever receives: each item is accepted at most once, and its fate is     *)
(* final and tells the truth -- "delivered" was accepted, "abandoned" was    *)
(* not -- save for items on which an outcome is on record as lost or late.   *)
EXTENDS Naturals

CONSTANT Items

VARIABLES
    fate,       \* what the queue says of an item
    accepted,   \* how often the receiver accepted it
    excused     \* the items whose outcome was lost or late

vars == <<fate, accepted, excused>>

Fates == {"none", "queued", "delivered", "abandoned", "removed"}

Init ==
    /\ fate = [i \in Items |-> "none"]
    /\ accepted = [i \in Items |-> 0]
    /\ excused = {}

Becomes(i, f) == fate' = [fate EXCEPT ![i] = f] /\ UNCHANGED <<accepted, excused>>

Enter(i) == fate[i] = "none" /\ Becomes(i, "queued")

(* An attempt may be under way while its item is removed. *)
Accept(i) ==
    /\ fate[i] \in {"queued", "removed"} /\ accepted[i] = 0
    /\ accepted' = [accepted EXCEPT ![i] = 1]
    /\ UNCHANGED <<fate, excused>>

Deliver(i) == fate[i] = "queued" /\ accepted[i] = 1 /\ Becomes(i, "delivered")

GiveUp(i) == fate[i] = "queued" /\ accepted[i] = 0 /\ Becomes(i, "abandoned")

Remove ==
    /\ fate' \in [Items -> Fates]
    /\ \A i \in Items : fate'[i] # fate[i] => fate[i] # "none" /\ fate'[i] = "removed"
    /\ UNCHANGED <<accepted, excused>>

(* For an excused item nothing is promised, but that it does not come back   *)
(* after its removal.                                                        *)
Excuse(i) ==
    /\ excused' = excused \cup {i}
    /\ \E f \in Fates :
         /\ f = "none" <=> fate[i] = "none"
         /\ fate[i] = "removed" => f = "removed"
         /\ fate' = [fate EXCEPT ![i] = f]
    /\ \E n \in {accepted[i], accepted[i] + 1} : accepted' = [accepted EXCEPT ![i] = n]

Next ==
    \/ \E i \in Items : Enter(i) \/ Accept(i) \/ Deliver(i) \/ GiveUp(i) \/ Excuse(i)
    \/ Remove

Spec == Init /\ [][Next]_vars
=============================================================================
