--------------------------- MODULE WebhookDelivery ---------------------------
(* Outgoing webhooks of one workspace: the delivery workers                  *)
(* (internal/service/webhook_delivery_worker.go, one per replica), one       *)
(* subscription with its queue of deliveries, and the console's requests on  *)
(* it (internal/service/webhook_subscription_service.go).                    *)
(*                                                                           *)
(* A worker sweeps, claims a batch, and walks it: it renews one claim, looks *)
(* the subscription up (once per batch), POSTs under a deadline counted from *)
(* the renewal, and writes what came of it.  Each statement is a step.       *)
(* Payloads encode and secrets decode: both were made by the program.        *)
(*                                                                           *)
(* Time.  The deadline of a POST is shorter than the lease and starts no     *)
(* later (normaliseTimings), so the lease of the row a worker has in hand    *)
(* runs out only after the worker's own budget; the first rung of the retry  *)
(* ladder, 30 s, is longer than the budget of any POST under way.            *)
EXTENDS WebhookRepository, FiniteSets

CONSTANTS
    Deliveries,     \* the events the workspace produces
    BatchSize,      \* LIMIT of the claim
    ZapierMade,     \* whether Zapier made the subscription: the values to consider
    Combinations    \* which disturbances may happen in one behaviour, once each

(* A replica dies or shuts down in a batch; a statement fails; a worker      *)
(* stalls with an answer in hand until its lease is over; a console request. *)
Disturbances == {"crash", "error", "slow", "request"}

ASSUME ZapierAssumption == ZapierMade \subseteq BOOLEAN
ASSUME CombinationsAssumption == Combinations \subseteq SUBSET Disturbances

VARIABLES
    row,        \* the table webhook_deliveries
    sub,        \* the row of webhook_subscriptions
    pc, todo,   \* per worker: where it stands, the rows of its batch still to walk
    cur,        \* the delivery in hand, as it was claimed
    budget,     \* the time since the renewal is within requestTimeout
    cache,      \* subscriptionCache
    answer,     \* what came of the POST
    request,    \* the console's request: what it does and the row it read
    posts,      \* per delivery: POSTs begun
    accepted,   \* per delivery: POSTs answered 2xx
    excused,    \* deliveries with an outcome that was lost, or written late
    off,        \* the subscription was not enabled, or called gone, at some time
    streak,     \* failures since the last success, and the age of their first
    spent       \* the disturbances that happened

rows    == <<row, sub, request>>
worker  == <<todo, cur, budget, cache, answer>>
ghosts  == <<posts, accepted, excused, off, streak>>
vars    == <<rows, pc, worker, ghosts, spent>>

Snapshot == [id : Deliveries, attempts : 0 .. MaxAttempts]
NoEntry  == [id |-> "none", attempts |-> 0]
NoSub    == [status |-> "none"]
NoWish   == [op |-> "none"]

(* Before the POST, and from its answer to the write of the outcome. *)
Preparing == {"renewed", "ready"}
Recording == {"answered", "recording", "expiring", "counting", "disabling", "retrying",
              "gone", "purging", "draining"}
PCs == {"idle", "swept", "batch", "posting", "releasing"} \cup Preparing \cup Recording

TypeOK ==
    /\ row \in [Deliveries -> Delivery]
    /\ sub \in Subscription
    /\ request \in [op : {"edit", "on", "off"}, enabled : BOOLEAN] \cup {NoWish, [op |-> "delete"]}
    /\ pc \in [Workers -> PCs]
    /\ todo \in [Workers -> SUBSET Snapshot]
    /\ cur \in [Workers -> Snapshot \cup {NoEntry}]
    /\ budget \in [Workers -> BOOLEAN]
    /\ cache \in [Workers -> Subscription \cup {NoSub}]
    /\ answer \in [Workers -> {"none", "ok", "gone", "throttled", "error"}]
    /\ posts \in [Deliveries -> Nat] /\ accepted \in [Deliveries -> Nat]
    /\ excused \subseteq Deliveries
    /\ off \in BOOLEAN
    /\ streak \in [count : 0 .. Threshold, age : Runs]
    /\ spent \subseteq Disturbances

NoStreak == [count |-> 0, age |-> "none"]

Init ==
    /\ row = [d \in Deliveries |-> NoDelivery]
    /\ \E z \in ZapierMade :
         sub = [status |-> "enabled", zapier |-> z, failures |-> 0, run |-> "none",
                reason |-> "none"]
    /\ request = NoWish
    /\ pc = [w \in Workers |-> "idle"]
    /\ todo = [w \in Workers |-> {}]
    /\ cur = [w \in Workers |-> NoEntry]
    /\ budget = [w \in Workers |-> FALSE]
    /\ cache = [w \in Workers |-> NoSub]
    /\ answer = [w \in Workers |-> "none"]
    /\ posts = [d \in Deliveries |-> 0]
    /\ accepted = [d \in Deliveries |-> 0]
    /\ excused = {}
    /\ off = FALSE
    /\ streak = NoStreak
    /\ spent = {}

Spend(k) ==
    /\ k \notin spent /\ spent \cup {k} \in Combinations
    /\ spent' = spent \cup {k}

(* A statement takes effect, or fails and leaves the database as it was. *)
Try(ok) == IF ok THEN UNCHANGED spent ELSE Spend("error")

Goto(w, p) == pc' = [pc EXCEPT ![w] = p]

(* The entry in hand is dealt with. *)
NextEntry(w) ==
    /\ Goto(w, "batch")
    /\ cur' = [cur EXCEPT ![w] = NoEntry]
    /\ budget' = [budget EXCEPT ![w] = FALSE]
    /\ answer' = [answer EXCEPT ![w] = "none"]

SubWritten(s) == sub' = s /\ off' = (off \/ s.status # "enabled")
-----------------------------------------------------------------------------
(* processWorkspaceDeliveries. *)
Sweep(w, ok) ==
    /\ pc[w] = "idle"
    /\ Try(ok)
    /\ row' = IF ok THEN [d \in Deliveries |-> ReclaimStale(row[d])] ELSE row
    /\ Goto(w, "swept")
    /\ UNCHANGED <<sub, request, worker, ghosts>>

Due == {d \in Deliveries : Claimable(row[d])}

(* Which rows the LIMIT takes is a matter of their next_attempt_at. *)
Batch == {S \in SUBSET Due : Cardinality(S) <= BatchSize /\ (S = Due \/ Cardinality(S) = BatchSize)}

GetPending(w, S) == row' = [d \in Deliveries |-> IF d \in S THEN Claimed(row[d], w) ELSE row[d]]

Claim(w, S) ==
    /\ pc[w] = "swept" /\ S \in Batch
    /\ GetPending(w, S)
    /\ todo' = [todo EXCEPT ![w] = {[id |-> d, attempts |-> row[d].attempts] : d \in S}]
    /\ Goto(w, IF S = {} THEN "idle" ELSE "batch")
    /\ UNCHANGED <<sub, request, cur, budget, cache, answer, ghosts, spent>>

(* The statement fails, or its rows are claimed and cannot be read back. *)
ClaimFails(w) ==
    /\ pc[w] = "swept"
    /\ Spend("error")
    /\ \E S \in Batch \cup {{}} : GetPending(w, S)
    /\ Goto(w, "idle")
    /\ UNCHANGED <<sub, request, worker, ghosts>>

\* Plausible slip: the renewal does not ask whose claim the row carries.
RenewAnyClaim(w, e) ==
    /\ pc[w] = "batch" /\ e \in todo[w] /\ row[e.id].status = "delivering"
    /\ row' = [row EXCEPT ![e.id] = Claimed(@, w)]
    /\ todo' = [todo EXCEPT ![w] = @ \ {e}]
    /\ cur' = [cur EXCEPT ![w] = e]
    /\ budget' = [budget EXCEPT ![w] = TRUE]
    /\ Goto(w, "renewed")
    /\ UNCHANGED <<sub, request, cache, answer, ghosts, spent>>

Renew(w, e) ==
    /\ pc[w] = "batch" /\ e \in todo[w] /\ Holds(row[e.id], w)
    /\ row' = [row EXCEPT ![e.id] = Claimed(@, w)]
    /\ todo' = [todo EXCEPT ![w] = @ \ {e}]
    /\ cur' = [cur EXCEPT ![w] = e]
    /\ budget' = [budget EXCEPT ![w] = TRUE]
    /\ Goto(w, "renewed")
    /\ UNCHANGED <<sub, request, cache, answer, ghosts, spent>>

(* The row was reclaimed, or whether it was cannot be told. *)
NotRenewed(w, e) ==
    /\ pc[w] = "batch" /\ e \in todo[w]
    /\ IF Holds(row[e.id], w) THEN Spend("error") ELSE UNCHANGED spent
    /\ todo' = [todo EXCEPT ![w] = @ \ {e}]
    /\ UNCHANGED <<rows, pc, cur, budget, cache, answer, ghosts>>

EndBatch(w) ==
    /\ pc[w] = "batch" /\ todo[w] = {}
    /\ cache' = [cache EXCEPT ![w] = NoSub]
    /\ Goto(w, "idle")
    /\ UNCHANGED <<rows, todo, cur, budget, answer, ghosts, spent>>

\* Plausible slip: any error of the lookup is taken for a deleted subscription.
LookupOrDrain(w, ok) ==
    LET s == IF cache[w] = NoSub THEN sub ELSE cache[w]
    IN  /\ pc[w] = "renewed"
        /\ cache[w] # NoSub => ok
        /\ Try(ok)
        /\ cache' = [cache EXCEPT ![w] = IF ok /\ s.status # "deleted" THEN s ELSE @]
        /\ Goto(w, IF ok /\ s.status = "enabled" THEN "ready" ELSE "draining")
        /\ UNCHANGED <<rows, todo, cur, budget, answer, ghosts>>

(* The first delivery of a batch loads the subscription, the others find it  *)
(* in the cache.                                                             *)
Lookup(w, ok) ==
    LET s == IF cache[w] = NoSub THEN sub ELSE cache[w]
    IN  /\ pc[w] = "renewed"
        /\ cache[w] # NoSub => ok
        /\ Try(ok)
        /\ cache' = [cache EXCEPT ![w] = IF ok /\ s.status # "deleted" THEN s ELSE @]
        /\ Goto(w, IF ~ok THEN "releasing"
                   ELSE IF s.status = "enabled" THEN "ready" ELSE "draining")
        /\ UNCHANGED <<rows, todo, cur, budget, answer, ghosts>>

(* An outcome is written by id, whoever holds the row by now; one that is    *)
(* lost, or written after the claim was, is on the record here.              *)
Write(w, ok, r) ==
    LET d == cur[w].id
    IN  /\ Try(ok)
        /\ row' = IF ok THEN [row EXCEPT ![d] = r] ELSE row
        /\ excused' = IF ok /\ Holds(row[d], w) THEN excused ELSE excused \cup {d}
        /\ NextEntry(w)
        /\ UNCHANGED <<sub, request, todo, cache, posts, accepted, off, streak>>

\* Plausible slip: the row is failed with the attempts it has.
DrainBelowCeiling(w, ok) ==
    /\ pc[w] = "draining"
    /\ Write(w, ok, MarkFailed(row[cur[w].id], cur[w].attempts))

(* drainDelivery: the ceiling is what makes the state final. *)
Drain(w, ok) ==
    /\ pc[w] = "draining"
    /\ Write(w, ok, MarkFailed(row[cur[w].id], MaxAttempts))

(* releaseDelivery. *)
Release(w, ok) ==
    /\ pc[w] = "releasing"
    /\ Try(ok)
    /\ row' = IF ok THEN [row EXCEPT ![cur[w].id] = ReleaseClaim(@, w)] ELSE row
    /\ NextEntry(w)
    /\ UNCHANGED <<sub, request, todo, cache, ghosts>>
-----------------------------------------------------------------------------
(* processDelivery. *)

\* Plausible slip: the budget is counted from the request, not from the renewal.
PostAfresh(w) ==
    /\ pc[w] = "ready"
    /\ Goto(w, "posting")
    /\ posts' = [posts EXCEPT ![cur[w].id] = @ + 1]
    /\ UNCHANGED <<rows, worker, accepted, excused, off, streak, spent>>

Post(w) ==
    /\ pc[w] = "ready" /\ budget[w]
    /\ Goto(w, "posting")
    /\ posts' = [posts EXCEPT ![cur[w].id] = @ + 1]
    /\ UNCHANGED <<rows, worker, accepted, excused, off, streak, spent>>

OutOfBudget(w) ==
    /\ pc[w] = "ready" /\ ~budget[w]
    /\ Goto(w, "releasing")
    /\ UNCHANGED <<rows, worker, ghosts, spent>>

(* The streak the answers really form, for the properties. *)
Struck(a) ==
    CASE a = "ok"    -> NoStreak
      [] a = "error" -> [count |-> IF streak.count < Threshold THEN streak.count + 1 ELSE Threshold,
                         age |-> IF streak.count = 0 THEN "recent" ELSE streak.age]
      [] OTHER       -> streak

Respond(w, a) ==
    /\ pc[w] = "posting"
    /\ answer' = [answer EXCEPT ![w] = a]
    /\ accepted' = IF a = "ok" THEN [accepted EXCEPT ![cur[w].id] = @ + 1] ELSE accepted
    /\ streak' = Struck(a)
    /\ off' = (off \/ a = "gone")
    /\ Goto(w, "answered")
    /\ UNCHANGED <<rows, todo, cur, budget, cache, posts, excused, spent>>

(* handleResponseStatus. *)
Triage(w) ==
    /\ pc[w] = "answered" /\ answer[w] # "ok"
    /\ Goto(w, CASE answer[w] = "gone"      -> "gone"
                 [] answer[w] = "throttled" -> "retrying"
                 [] answer[w] = "error"     -> "expiring")
    /\ UNCHANGED <<rows, worker, ghosts, spent>>

(* resetSubscriptionFailures: not even tried when the copy has nothing to    *)
(* clear...                                                                  *)
ResetSubscriptionFailures(w, ok) ==
    LET clear == cache[w].failures # 0 \/ cache[w].run # "none"
    IN  /\ pc[w] = "answered" /\ answer[w] = "ok"
        /\ ~clear => ok
        /\ Try(ok)
        /\ sub' = IF clear /\ ok THEN ResetFailures(sub) ELSE sub
        /\ cache' = IF clear /\ ok THEN [cache EXCEPT ![w] = ResetFailures(@)] ELSE cache
        /\ Goto(w, "recording")
        /\ UNCHANGED <<row, request, todo, cur, budget, answer, ghosts>>

(* ...handleDeliverySuccess. *)
RecordSuccess(w, ok) ==
    /\ pc[w] = "recording"
    /\ Write(w, ok, MarkDelivered(row[cur[w].id]))

(* handleDeliveryFailure, which counts from the copy that was claimed. *)
HandleDeliveryFailure(w, ok) ==
    LET n == cur[w].attempts + 1
    IN  /\ pc[w] = "retrying"
        /\ Write(w, ok, IF n >= MaxAttempts THEN MarkFailed(row[cur[w].id], n)
                                            ELSE ScheduleRetry(row[cur[w].id], n))

(* recordSubscriptionFailure: a run that is too old is ended...              *)
ExpireStaleRun(w, ok) ==
    LET ended == cache[w].run = "ended"
    IN  /\ pc[w] = "expiring"
        /\ ~ended => ok
        /\ Try(ok)
        /\ sub' = IF ended /\ ok THEN ResetFailures(sub) ELSE sub
        /\ cache' = IF ended /\ ok THEN [cache EXCEPT ![w] = ResetFailures(@)] ELSE cache
        /\ Goto(w, "counting")
        /\ UNCHANGED <<row, request, todo, cur, budget, answer, ghosts>>

(* ...the failure is counted in the row, and mirrored in the copy that the   *)
(* threshold and the window are compared with...                             *)
CountFailure(w, ok) ==
    LET s == IncrementFailures(cache[w])
    IN  /\ pc[w] = "counting"
        /\ Try(ok)
        /\ sub' = IF ok THEN IncrementFailures(sub) ELSE sub
        /\ cache' = IF ok THEN [cache EXCEPT ![w] = s] ELSE cache
        /\ Goto(w, IF ok /\ s.failures >= Threshold /\ s.run # "recent"
                     THEN "disabling" ELSE "retrying")
        /\ UNCHANGED <<row, request, todo, cur, budget, answer, ghosts>>

(* ...and the endpoint is retired. *)
Retire(w, ok) ==
    /\ pc[w] = "disabling"
    /\ Try(ok)
    /\ SubWritten(IF ok THEN DisableWithReason(sub, "failures") ELSE sub)
    /\ cache' = IF ok THEN [cache EXCEPT ![w].status = "disabled"] ELSE cache
    /\ Goto(w, IF ok THEN "draining" ELSE "retrying")
    /\ UNCHANGED <<row, request, todo, cur, budget, answer, posts, accepted, excused, streak>>

(* handleGoneEndpoint, for a subscription somebody typed in: switched off    *)
(* and drained...                                                            *)
EndpointGone(w, ok) ==
    /\ pc[w] = "gone" /\ ~cache[w].zapier
    /\ Try(ok)
    /\ SubWritten(IF ok THEN DisableWithReason(sub, "gone") ELSE sub)
    /\ cache' = IF ok THEN [cache EXCEPT ![w].status = "disabled"] ELSE cache
    /\ Goto(w, "draining")
    /\ UNCHANGED <<row, request, todo, cur, budget, answer, posts, accepted, excused, streak>>

(* ...and for one Zapier made: deleted, its deliveries with it by cascade;   *)
(* deleting one that is gone already is an error.                            *)
ZapierGone(w, ok) ==
    LET deleted == ok /\ sub.status # "deleted"
    IN  /\ pc[w] = "gone" /\ cache[w].zapier
        /\ Try(ok)
        /\ SubWritten(IF ok THEN [sub EXCEPT !.status = "deleted"] ELSE sub)
        /\ row' = IF deleted THEN [d \in Deliveries |-> Removed(row[d])] ELSE row
        /\ cache' = IF deleted THEN [cache EXCEPT ![w].status = "disabled"] ELSE cache
        /\ Goto(w, IF deleted THEN "purging" ELSE "draining")
        /\ UNCHANGED <<request, todo, cur, budget, answer, posts, accepted, excused, streak>>

Purge(w, ok) ==
    /\ pc[w] = "purging"
    /\ Try(ok)
    /\ row' = IF ok THEN [d \in Deliveries |-> Removed(row[d])] ELSE row
    /\ IF ok THEN NextEntry(w) ELSE Goto(w, "draining") /\ UNCHANGED <<cur, budget, answer>>
    /\ UNCHANGED <<sub, request, todo, cache, ghosts>>
-----------------------------------------------------------------------------
(* The workspace and the console. *)

(* The triggers queue an event for a subscription that is enabled. *)
Fire(d) ==
    /\ row[d].status = "none" /\ sub.status = "enabled"
    /\ row' = [row EXCEPT ![d] = Inserted]
    /\ UNCHANGED <<sub, request, pc, worker, ghosts, spent>>

(* Toggle reads the row, RegenerateSecret and an Update that leaves the      *)
(* switch alone read it too; Delete removes the deliveries first.            *)
BeginRequest(op) ==
    /\ request = NoWish /\ sub.status # "deleted"
    /\ Spend("request")
    /\ request' = IF op = "delete" THEN [op |-> op]
                  ELSE [op |-> op, enabled |-> CASE op = "on"  -> TRUE
                                                 [] op = "off" -> FALSE
                                                 [] OTHER -> sub.status = "enabled"]
    /\ row' = IF op = "delete" THEN [d \in Deliveries |-> Removed(row[d])] ELSE row
    /\ UNCHANGED <<sub, pc, worker, ghosts>>

(* The whole row is written back, enabled as the request has it. *)
EndRequest ==
    /\ request # NoWish
    /\ request' = NoWish
    /\ IF request.op = "delete"
         THEN /\ SubWritten([sub EXCEPT !.status = "deleted"])
              /\ row' = [d \in Deliveries |-> Removed(row[d])]
         ELSE /\ SubWritten(IF sub.status = "deleted" THEN sub
                                                      ELSE Updated(sub, request.enabled))
              /\ UNCHANGED row
    /\ UNCHANGED <<pc, worker, posts, accepted, excused, streak, spent>>
-----------------------------------------------------------------------------
(* Time and failures. *)

(* requestTimeout since the renewal: a POST under way is cut off. *)
BudgetSpent(w) ==
    /\ budget[w]
    /\ budget' = [budget EXCEPT ![w] = FALSE]
    /\ IF pc[w] = "posting"
         THEN /\ Goto(w, "answered")
              /\ answer' = [answer EXCEPT ![w] = "error"]
              /\ streak' = Struck("error")
         ELSE UNCHANGED <<pc, answer, streak>>
    /\ UNCHANGED <<rows, todo, cur, cache, posts, accepted, excused, off, spent>>

InHand(w, d) == cur[w].id = d

(* Stalling with an answer in hand is a disturbance. *)
LeaseExpires(d) ==
    LET w == row[d].claim
    IN  /\ row[d].status = "delivering" /\ ~row[d].stale
        /\ InHand(w, d) => ~budget[w]
        /\ row' = [row EXCEPT ![d].stale = TRUE]
        /\ IF InHand(w, d) /\ pc[w] \in Recording
             THEN Spend("slow") /\ excused' = excused \cup {d}
             ELSE UNCHANGED <<spent, excused>>
        /\ UNCHANGED <<sub, request, pc, worker, posts, accepted, off, streak>>

FallsDue(d) ==
    /\ row[d].status = "failed" /\ row[d].attempts < MaxAttempts /\ ~row[d].due
    /\ \A w \in Workers : InHand(w, d) => ~budget[w]
    /\ row' = [row EXCEPT ![d].due = TRUE]
    /\ UNCHANGED <<sub, request, pc, worker, ghosts, spent>>

(* Hours pass, for the row and for the copies of it alike. *)
RunAges ==
    /\ sub' = [sub EXCEPT !.run = Aged(@)]
    /\ cache' = [w \in Workers |-> IF cache[w] = NoSub THEN NoSub
                                   ELSE [cache[w] EXCEPT !.run = Aged(@)]]
    /\ streak' = [streak EXCEPT !.age = Aged(@)]
    /\ <<sub, cache, streak>>' # <<sub, cache, streak>>
    /\ UNCHANGED <<row, request, pc, todo, cur, budget, answer, posts, accepted, excused, off, spent>>

(* CleanupOldDeliveries: seven days after, a ladder of ten hours is over. *)
Cleanup(d) ==
    /\ Exists(row[d]) /\ Settled(row[d]) /\ \A w \in Workers : ~InHand(w, d)
    /\ row' = [row EXCEPT ![d] = Removed(@)]
    /\ UNCHANGED <<sub, request, pc, worker, ghosts, spent>>

Crash(w) ==
    /\ pc[w] \notin {"idle", "swept"}
    /\ Spend("crash")
    /\ excused' = IF pc[w] \in Recording \cup {"posting"} THEN excused \cup {cur[w].id}
                                                           ELSE excused
    /\ todo' = [todo EXCEPT ![w] = {}]
    /\ cur' = [cur EXCEPT ![w] = NoEntry]
    /\ budget' = [budget EXCEPT ![w] = FALSE]
    /\ cache' = [cache EXCEPT ![w] = NoSub]
    /\ answer' = [answer EXCEPT ![w] = "none"]
    /\ Goto(w, "idle")
    /\ UNCHANGED <<rows, posts, accepted, off, streak>>
-----------------------------------------------------------------------------
Step(w) ==
    \/ \E S \in SUBSET Deliveries : Claim(w, S)
    \/ \E e \in todo[w] : Renew(w, e) \/ NotRenewed(w, e)
    \/ \E a \in {"ok", "gone", "throttled", "error"} : Respond(w, a)
    \/ \E ok \in BOOLEAN :
         \/ Sweep(w, ok) \/ Lookup(w, ok) \/ Drain(w, ok) \/ Release(w, ok)
         \/ ResetSubscriptionFailures(w, ok) \/ RecordSuccess(w, ok)
         \/ HandleDeliveryFailure(w, ok) \/ ExpireStaleRun(w, ok) \/ CountFailure(w, ok)
         \/ Retire(w, ok) \/ EndpointGone(w, ok) \/ ZapierGone(w, ok) \/ Purge(w, ok)
    \/ ClaimFails(w) \/ EndBatch(w) \/ Post(w) \/ OutOfBudget(w) \/ Triage(w)

Next ==
    \/ \E w \in Workers : Step(w) \/ BudgetSpent(w) \/ Crash(w)
    \/ \E d \in Deliveries : Fire(d) \/ LeaseExpires(d) \/ FallsDue(d) \/ Cleanup(d)
    \/ \E op \in {"edit", "on", "off", "delete"} : BeginRequest(op)
    \/ EndRequest
    \/ RunAges

Spec == Init /\ [][Next]_vars

LookupInTime(w) == budget[w] /\ Lookup(w, TRUE)

(* The workers poll, the clock goes on, and a claim's budget is not always   *)
(* spent before the POST.                                                    *)
Fairness ==
    /\ \A w \in Workers : WF_vars(Step(w)) /\ SF_vars(LookupInTime(w)) /\ SF_vars(Post(w))
    /\ \A d \in Deliveries : WF_vars(LeaseExpires(d)) /\ WF_vars(FallsDue(d))

FairSpec == Spec /\ Fairness
-----------------------------------------------------------------------------
(* "The POST cannot outlive the claim": no delivery is in two open POSTs at  *)
(* once, whatever stalls, dies, is swept or is answered late.                *)
OnePostAtATime ==
    \A v, w \in Workers :
        v # w /\ pc[v] = "posting" /\ pc[w] = "posting" => cur[v].id # cur[w].id

(* A receiver is given a delivery twice after accepting it only if the       *)
(* outcome was lost, or recorded after the lease.                            *)
OnceUnlessExcused == \A d \in Deliveries : accepted[d] > 1 => d \in excused

(* A delivered row stays delivered until it is cleaned up, unless a worker   *)
(* that had lost it wrote its own outcome over it.                           *)
DeliveredIsFinal ==
    [][\A d \in Deliveries :
          row[d].status = "delivered"
            => row'[d].status \in {"delivered", "removed"} \/ d \in excused']_vars

(* A delivery is given up before its last rung only if the subscription was  *)
(* off, or its endpoint said it is gone.                                     *)
GivenUpForCause ==
    \A d \in Deliveries :
        row[d].status = "failed" /\ row[d].attempts >= MaxAttempts /\ d \notin excused
            => posts[d] = MaxAttempts \/ off

(* An endpoint is retired for its failures only after Threshold of them in   *)
(* a row over more than the window, when one worker does the counting, lives *)
(* to record what it is answered and its statements succeed.                 *)
RetiredForCause ==
    [][sub.status = "enabled" /\ sub'.status = "disabled" /\ sub'.reason = "failures"
         => \/ streak.count >= Threshold /\ streak.age # "recent"
            \/ excused # {} \/ "error" \in spent]_vars

(* What the table tells of a delivery... *)
Fate(r) ==
    CASE r.status \in {"none", "removed", "delivered"} -> r.status
      [] r.status = "failed" /\ r.attempts >= MaxAttempts -> "abandoned"
      [] OTHER -> "queued"

(* ...keeps the promise of a queue: one acceptance, a final and truthful     *)
(* fate, but for deliveries whose outcome was lost or late.                  *)
Promise == INSTANCE DeliveryPromise
    WITH Items <- Deliveries, fate <- [d \in Deliveries |-> Fate(row[d])]

KeepsPromise == Promise!Spec

(* Every queued delivery is settled: delivered, given up or removed. *)
EverySettled ==
    \A d \in Deliveries : row[d].status = "pending" ~> Settled(row[d])
=============================================================================
