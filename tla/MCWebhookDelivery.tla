------------------------- MODULE MCWebhookDelivery -------------------------
(* Instances of WebhookDelivery for TLC. *)
EXTENDS WebhookDelivery, TLC

CONSTANTS w1, w2, d1, d2

(* One of two replicas dies while the other stalls or a statement fails; a   *)
(* replica stalls and a statement fails.                                     *)
Mishaps == SUBSET {"crash", "slow"} \cup SUBSET {"crash", "error"} \cup SUBSET {"slow", "error"}

(* The worker dies, or the console is used. *)
Attended == {{}, {"crash"}, {"request"}}

Interchangeable == Permutations(Workers)
=============================================================================
