-------------------------- MODULE WebhookRepository --------------------------
(* The statements on `webhook_deliveries' and `webhook_subscriptions'        *)
(* (internal/repository/webhook_delivery_postgres.go and                     *)
(* webhook_subscription_postgres.go), as functions of a row.                 *)
(*                                                                           *)
(* A delivery row:                                                           *)
(*   due     next_attempt_at has passed                                      *)
(*   claim   claimed_at.  The timestamp is the claim's token and only ever   *)
(*           compared for equality with the one a worker was handed; a worker*)
(*           walks one batch at a time, so the token is the worker's name.   *)
(*   stale   claimed_at is longer ago than the lease                         *)
(* "none" and "removed" are a row not inserted yet and one deleted.          *)
(*                                                                           *)
(* A subscription row: `failures' is consecutive_failures, compared with the *)
(* threshold only and cut off there; `run' is the age of failing_since, seen *)
(* from webhookFailureWindow and webhookFailureRunMaxAge.                    *)
EXTENDS Naturals

CONSTANTS Workers, MaxAttempts, Threshold

ASSUME LadderAssumption == MaxAttempts \in Nat \ {0} /\ Threshold \in Nat \ {0}
ASSUME WorkersAssumption == "none" \notin Workers

Runs == {"none", "recent", "sustained", "ended"}

Delivery == [status : {"none", "pending", "delivering", "delivered", "failed", "removed"},
             attempts : 0 .. MaxAttempts, due : BOOLEAN,
             claim : Workers \cup {"none"}, stale : BOOLEAN]

Subscription == [status : {"enabled", "disabled", "deleted"}, zapier : BOOLEAN,
                 failures : 0 .. Threshold, run : Runs,
                 reason : {"none", "failures", "gone"}]

NoDelivery == [status |-> "none", attempts |-> 0, due |-> FALSE, claim |-> "none",
               stale |-> FALSE]

Exists(r) == r.status \notin {"none", "removed"}

(* An UPDATE ... WHERE id = $1. *)
OnRow(r, written) == IF Exists(r) THEN written ELSE r

(* The INSERT of the webhook triggers. *)
Inserted == [NoDelivery EXCEPT !.status = "pending", !.due = TRUE]

\* Plausible slip: the ceiling is compared with <=.
ClaimableAtCeiling(r) ==
    r.status \in {"pending", "failed"} /\ r.attempts <= MaxAttempts /\ r.due

Claimable(r) == r.status \in {"pending", "failed"} /\ r.attempts < MaxAttempts /\ r.due

(* No claim takes it any more. *)
Settled(r) == r.status \notin {"pending", "delivering"} /\ ~(r.status = "failed" /\ r.attempts < MaxAttempts)

\* GetPendingForWorkspace, and the renewal of one claim: claimed_at = NOW().
Claimed(r, w) == [r EXCEPT !.status = "delivering", !.claim = w, !.stale = FALSE]

(* RenewClaim and ReleaseClaim: status = 'delivering' AND claimed_at = token *)
Holds(r, w) == r.status = "delivering" /\ r.claim = w

\* Plausible slip: the release is by id alone, as it was before the token.
ReleaseById(r, w) == OnRow(r, [r EXCEPT !.status = "pending", !.claim = "none", !.stale = FALSE])

ReleaseClaim(r, w) ==
    IF Holds(r, w) THEN [r EXCEPT !.status = "pending", !.claim = "none", !.stale = FALSE]
                   ELSE r

\* Plausible slip: the sweep takes every row in flight, whatever its lease.
ReclaimAll(r) ==
    IF r.status = "delivering"
      THEN [r EXCEPT !.status = "pending", !.claim = "none", !.stale = FALSE] ELSE r

ReclaimStale(r) ==
    IF r.status = "delivering" /\ r.stale
      THEN [r EXCEPT !.status = "pending", !.claim = "none", !.stale = FALSE] ELSE r

(* The outcome writes ask for the id only. *)
MarkDelivered(r) ==
    OnRow(r, [r EXCEPT !.status = "delivered", !.claim = "none", !.stale = FALSE,
                       !.attempts = IF @ < MaxAttempts THEN @ + 1 ELSE @])

ScheduleRetry(r, n) ==
    OnRow(r, [r EXCEPT !.status = "failed", !.attempts = n, !.due = FALSE,
                       !.claim = "none", !.stale = FALSE])

MarkFailed(r, n) ==
    OnRow(r, [r EXCEPT !.status = "failed", !.attempts = n,
                       !.claim = "none", !.stale = FALSE])

(* DeleteBySubscriptionID, CleanupOldDeliveries, the foreign key's cascade. *)
Removed(r) == OnRow(r, [NoDelivery EXCEPT !.status = "removed"])
-----------------------------------------------------------------------------
(* failing_since = COALESCE(failing_since, NOW()) *)
IncrementFailures(s) ==
    [s EXCEPT !.failures = IF @ < Threshold THEN @ + 1 ELSE @,
              !.run = IF @ = "none" THEN "recent" ELSE @]

\* Plausible slip, once made: the count is cleared, the start of the run is not.
ResetCountOnly(s) == [s EXCEPT !.failures = 0]

ResetFailures(s) == [s EXCEPT !.failures = 0, !.run = "none"]

DisableWithReason(s, why) ==
    IF s.status = "deleted" THEN s ELSE [s EXCEPT !.status = "disabled", !.reason = why]

(* Update writes enabled from the caller's copy; a real switch from off to   *)
(* on clears the failure history.                                            *)
Updated(s, enabled) ==
    IF enabled /\ s.status = "disabled"
      THEN [ResetFailures(s) EXCEPT !.status = "enabled", !.reason = "none"]
      ELSE [s EXCEPT !.status = IF enabled THEN "enabled" ELSE "disabled"]

(* A run of failures reaches webhookFailureWindow, then                      *)
(* webhookFailureRunMaxAge.                                                  *)
Aged(run) == CASE run = "none"   -> "none"
               [] run = "recent" -> "sustained"
               [] OTHER          -> "ended"
=============================================================================
