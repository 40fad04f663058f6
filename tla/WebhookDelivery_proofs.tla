----------------------- MODULE WebhookDelivery_proofs -----------------------
(* Proofs about WebhookDelivery, for any set of workers and of deliveries,   *)
(* any ladder, threshold and batch, and any of the disturbances: types, one  *)
(* POST at a time, and retirements for cause.                                *)
EXTENDS WebhookDelivery, TLAPS

LEMMA Bounds == 0 \in 0 .. MaxAttempts /\ 0 \in 0 .. Threshold /\ MaxAttempts \in 0 .. MaxAttempts
BY LadderAssumption

(* The statements on a row return a row. *)
LEMMA RowsTyped ==
    ASSUME NEW r \in Delivery, NEW w \in Workers
    PROVE  /\ Claimed(r, w) \in Delivery /\ ReleaseClaim(r, w) \in Delivery
           /\ ReclaimStale(r) \in Delivery /\ Removed(r) \in Delivery
<1>1. Claimed(r, w) \in Delivery
  BY DEF Delivery, Claimed
<1>2. ReleaseClaim(r, w) \in Delivery
  BY DEF Delivery, ReleaseClaim, Holds
<1>3. ReclaimStale(r) \in Delivery
  BY DEF Delivery, ReclaimStale
<1>4. Removed(r) \in Delivery
  BY Bounds DEF Delivery, Removed, OnRow, NoDelivery, Exists
<1> QED BY <1>1, <1>2, <1>3, <1>4

LEMMA RowsAge ==
    \A r \in Delivery : [r EXCEPT !.stale = TRUE] \in Delivery /\ [r EXCEPT !.due = TRUE] \in Delivery
BY DEF Delivery

LEMMA RemovedTyped == \A r \in Delivery : Removed(r) \in Delivery
BY Bounds DEF Delivery, Removed, OnRow, NoDelivery, Exists

LEMMA NewRowsTyped == NoDelivery \in Delivery /\ Inserted \in Delivery
BY Bounds DEF Delivery, NoDelivery, Inserted

LEMMA OutcomesTyped ==
    ASSUME NEW r \in Delivery, NEW n \in 0 .. MaxAttempts
    PROVE  /\ MarkDelivered(r) \in Delivery
           /\ ScheduleRetry(r, n) \in Delivery /\ MarkFailed(r, n) \in Delivery
<1>1. (IF r.attempts < MaxAttempts THEN r.attempts + 1 ELSE r.attempts) \in 0 .. MaxAttempts
  BY LadderAssumption DEF Delivery
<1>2. MarkDelivered(r) \in Delivery
  BY <1>1 DEF Delivery, MarkDelivered, OnRow, Exists
<1>3. ScheduleRetry(r, n) \in Delivery /\ MarkFailed(r, n) \in Delivery
  BY DEF Delivery, ScheduleRetry, MarkFailed, OnRow, Exists
<1> QED BY <1>2, <1>3

LEMMA SubscriptionsTyped ==
    ASSUME NEW s \in Subscription, NEW why \in {"failures", "gone"}, NEW on \in BOOLEAN
    PROVE  /\ IncrementFailures(s) \in Subscription /\ ResetFailures(s) \in Subscription
           /\ DisableWithReason(s, why) \in Subscription /\ Updated(s, on) \in Subscription
           /\ [s EXCEPT !.status = "disabled"] \in Subscription
           /\ [s EXCEPT !.status = "deleted"] \in Subscription
           /\ [s EXCEPT !.run = Aged(@)] \in Subscription
<1>1. (IF s.failures < Threshold THEN s.failures + 1 ELSE s.failures) \in 0 .. Threshold
  BY LadderAssumption DEF Subscription
<1>2. IncrementFailures(s) \in Subscription
  BY <1>1 DEF Subscription, IncrementFailures, Runs
<1>3. ResetFailures(s) \in Subscription
  BY Bounds DEF Subscription, ResetFailures, Runs
<1>4. DisableWithReason(s, why) \in Subscription
  BY DEF Subscription, DisableWithReason
<1>5. Updated(s, on) \in Subscription
  <2>1. [ResetFailures(s) EXCEPT !.status = "enabled", !.reason = "none"] \in Subscription
    BY <1>3 DEF Subscription
  <2>2. [s EXCEPT !.status = IF on THEN "enabled" ELSE "disabled"] \in Subscription
    BY DEF Subscription
  <2> QED BY <2>1, <2>2 DEF Updated
<1>6. /\ [s EXCEPT !.status = "disabled"] \in Subscription
      /\ [s EXCEPT !.status = "deleted"] \in Subscription
  BY DEF Subscription
<1>7. Aged(s.run) \in Runs
  BY DEF Subscription, Aged, Runs
<1>8. [s EXCEPT !.run = Aged(@)] \in Subscription
  BY <1>7 DEF Subscription
<1> QED BY <1>2, <1>3, <1>4, <1>5, <1>6, <1>8

LEMMA StreaksTyped ==
    ASSUME streak \in [count : 0 .. Threshold, age : Runs],
           NEW a \in {"none", "ok", "gone", "throttled", "error"}
    PROVE  /\ Struck(a) \in [count : 0 .. Threshold, age : Runs]
           /\ [streak EXCEPT !.age = Aged(@)] \in [count : 0 .. Threshold, age : Runs]
<1>1. NoStreak \in [count : 0 .. Threshold, age : Runs]
  BY Bounds DEF NoStreak, Runs
<1>2. (IF streak.count < Threshold THEN streak.count + 1 ELSE Threshold) \in 0 .. Threshold
  BY LadderAssumption
<1>3. (IF streak.count = 0 THEN "recent" ELSE streak.age) \in Runs
  BY DEF Runs
<1>4. Struck(a) \in [count : 0 .. Threshold, age : Runs]
  BY <1>1, <1>2, <1>3 DEF Struck
<1>5. Aged(streak.age) \in Runs
  BY DEF Aged, Runs
<1> QED BY <1>4, <1>5
-----------------------------------------------------------------------------
(* What a worker has in hand at each of its steps. *)
InHandPCs == Preparing \cup Recording \cup {"posting", "releasing"}

WithCopy == {"ready", "posting", "answered", "recording", "expiring", "counting",
             "disabling", "retrying", "gone"}

Hands ==
    \A w \in Workers :
        /\ \A e \in todo[w] : e.attempts < MaxAttempts
        /\ pc[w] \in InHandPCs => cur[w] \in Snapshot
        /\ cur[w].attempts < MaxAttempts
        /\ pc[w] \in WithCopy => cache[w] \in Subscription
        /\ pc[w] = "answered" => answer[w] # "none"

Typed == TypeOK /\ Hands

LEMMA PCsInclude ==
    /\ PCs = {"idle", "swept", "batch", "posting", "releasing", "renewed", "ready", "answered",
              "recording", "expiring", "counting", "disabling", "retrying", "gone", "purging",
              "draining"}
    /\ InHandPCs = PCs \ {"idle", "swept", "batch"}
BY DEF PCs, InHandPCs, Preparing, Recording

LEMMA TypedAtFirst == Init => Typed
<1> SUFFICES ASSUME Init PROVE Typed
  OBVIOUS
<1> USE Bounds, NewRowsTyped, PCsInclude
<1>1. sub \in Subscription
  BY ZapierAssumption DEF Init, Subscription, Runs
<1>2. NoStreak \in [count : 0 .. Threshold, age : Runs]
  BY DEF NoStreak, Runs
<1>3. NoEntry.attempts < MaxAttempts
  BY LadderAssumption DEF NoEntry
<1>4. TypeOK
  BY <1>1, <1>2 DEF Init, TypeOK
<1>5. Hands
  BY <1>3 DEF Init, Hands, WithCopy
<1> QED BY <1>4, <1>5 DEF Typed

(* The worker is done with the entry in hand. *)
LEMMA WriteTyped ==
    ASSUME Typed, NEW w \in Workers, NEW ok \in BOOLEAN, NEW r \in Delivery,
           cur[w] \in Snapshot, Write(w, ok, r)
    PROVE  Typed'
<1> USE PCsInclude
<1>1. row' \in [Deliveries -> Delivery] /\ excused' \subseteq Deliveries
  BY DEF Typed, TypeOK, Write, Snapshot
<1>2. spent' \subseteq Disturbances
  BY DEF Typed, TypeOK, Write, Try, Spend, Disturbances
<1>3. TypeOK'
  BY <1>1, <1>2 DEF Typed, TypeOK, Write, NextEntry, Goto
<1>4. NoEntry.attempts < MaxAttempts
  BY LadderAssumption DEF NoEntry
<1>5. Hands'
  BY <1>4 DEF Typed, TypeOK, Hands, Write, NextEntry, Goto, WithCopy
<1> QED BY <1>3, <1>5 DEF Typed

(* The steps of the walk that leave the rows and the entry alone. *)
LEMMA StepTyped ==
    ASSUME Typed, NEW w \in Workers, Step(w)
    PROVE  Typed'
<1> USE PCsInclude
<1>w. ASSUME NEW ok \in BOOLEAN, Try(ok) PROVE spent' \subseteq Disturbances
  BY <1>w DEF Typed, TypeOK, Try, Spend, Disturbances
<1>n. NoEntry.attempts < MaxAttempts
  BY LadderAssumption DEF NoEntry
<1>c. ASSUME NEW d \in Deliveries, Claimable(row[d]) PROVE row[d].attempts < MaxAttempts /\ row[d].attempts \in 0 .. MaxAttempts
  BY <1>c DEF Typed, TypeOK, Claimable, Delivery
<1>g. ASSUME NEW S \in SUBSET Deliveries, GetPending(w, S)
      PROVE  row' \in [Deliveries -> Delivery]
  BY <1>g, RowsTyped DEF Typed, TypeOK, GetPending
<1>1. ASSUME NEW S \in SUBSET Deliveries, Claim(w, S) PROVE Typed'
  <2>1. row' \in [Deliveries -> Delivery]
    BY <1>1, <1>g DEF Claim
  <2>2. \A d \in S : row[d].attempts \in 0 .. MaxAttempts /\ row[d].attempts < MaxAttempts
    BY <1>1, <1>c DEF Claim, Batch, Due
  <2>3. /\ todo' \in [Workers -> SUBSET Snapshot]
        /\ \A v \in Workers : \A e \in todo'[v] : e.attempts < MaxAttempts
    BY <1>1, <2>2 DEF Claim, Typed, TypeOK, Hands, Snapshot
  <2>4. TypeOK'
    BY <1>1, <2>1, <2>3 DEF Claim, Typed, TypeOK, Goto, ghosts
  <2>5. Hands'
    BY <1>1, <2>3 DEF Claim, Typed, TypeOK, Hands, Goto, WithCopy
  <2> QED BY <2>4, <2>5 DEF Typed
<1>2. ASSUME NEW e \in todo[w], Renew(w, e) PROVE Typed'
  <2>1. e \in Snapshot /\ e.attempts < MaxAttempts /\ row[e.id] \in Delivery
    BY <1>2 DEF Typed, TypeOK, Hands, Snapshot
  <2>2. row' \in [Deliveries -> Delivery]
    BY <1>2, <2>1, RowsTyped DEF Renew, Typed, TypeOK
  <2>3. TypeOK'
    BY <1>2, <2>1, <2>2 DEF Renew, Typed, TypeOK, Goto, ghosts
  <2>4. Hands'
    BY <1>2, <2>1 DEF Renew, Typed, TypeOK, Hands, Goto, WithCopy
  <2> QED BY <2>3, <2>4 DEF Typed
<1>3. ASSUME NEW e \in todo[w], NotRenewed(w, e) PROVE Typed'
  <2>1. spent' \subseteq Disturbances
    BY <1>3 DEF NotRenewed, Typed, TypeOK, Spend, Disturbances
  <2>2. TypeOK'
    BY <1>3, <2>1 DEF NotRenewed, Typed, TypeOK, rows, ghosts
  <2>3. Hands'
    BY <1>3 DEF NotRenewed, Typed, TypeOK, Hands, WithCopy
  <2> QED BY <2>2, <2>3 DEF Typed
<1>4. ASSUME NEW a \in {"ok", "gone", "throttled", "error"}, Respond(w, a) PROVE Typed'
  <2>1. cur[w] \in Snapshot /\ cache[w] \in Subscription /\ Struck(a) \in [count : 0 .. Threshold, age : Runs]
    BY <1>4, StreaksTyped DEF Respond, Typed, TypeOK, Hands, WithCopy
  <2>2. accepted' \in [Deliveries -> Nat] /\ off' \in BOOLEAN
    BY <1>4, <2>1 DEF Respond, Typed, TypeOK, Snapshot
  <2>3. TypeOK'
    BY <1>4, <2>1, <2>2 DEF Respond, Typed, TypeOK, Goto, rows
  <2>4. Hands'
    BY <1>4, <2>1 DEF Respond, Typed, TypeOK, Hands, Goto, WithCopy
  <2> QED BY <2>3, <2>4 DEF Typed
<1>e. ASSUME pc[w] \in InHandPCs PROVE cur[w] \in Snapshot /\ row[cur[w].id] \in Delivery
  BY <1>e DEF Typed, TypeOK, Hands, Snapshot
<1>d. ASSUME pc[w] \in WithCopy PROVE cache[w] \in Subscription
  BY <1>d DEF Typed, Hands
<1>p. sub \in Subscription
  BY DEF Typed, TypeOK
<1>5. ASSUME NEW ok \in BOOLEAN, Sweep(w, ok) PROVE Typed'
  <2>1. spent' \subseteq Disturbances
    BY <1>5, <1>w DEF Sweep
  <2>2. row' \in [Deliveries -> Delivery]
    BY <1>5, RowsTyped DEF Sweep, Typed, TypeOK
  <2>8. TypeOK'
    BY <1>5, <2>1, <2>2 DEF Sweep, Typed, TypeOK, Goto, worker, ghosts
  <2>9. Hands'
    BY <1>5, <2>1 DEF Sweep, Typed, TypeOK, Hands, Goto, WithCopy, worker
  <2> QED BY <2>8, <2>9 DEF Typed
<1>6. ASSUME NEW ok \in BOOLEAN, Lookup(w, ok) PROVE Typed'
  <2> DEFINE s == IF cache[w] = NoSub THEN sub ELSE cache[w]
  <2>1. s \in Subscription
    BY <1>p DEF Typed, TypeOK
  <2>2. spent' \subseteq Disturbances
    BY <1>6, <1>w DEF Lookup
  <2>3. cache' = [cache EXCEPT ![w] = IF ok /\ s.status # "deleted" THEN s ELSE @]
    BY <1>6 DEF Lookup
  <2>4. pc' = [pc EXCEPT ![w] = IF ~ok THEN "releasing" ELSE IF s.status = "enabled" THEN "ready" ELSE "draining"]
    BY <1>6 DEF Lookup, Goto
  <2>5. cache' \in [Workers -> Subscription \cup {NoSub}] /\ pc' \in [Workers -> PCs]
    BY <2>1, <2>3, <2>4 DEF Typed, TypeOK
  <2>6. pc'[w] \in WithCopy => cache'[w] \in Subscription
    BY <2>1, <2>3, <2>4 DEF Typed, TypeOK, WithCopy
  <2>7. pc[w] = "renewed" /\ pc'[w] # "answered"
    BY <1>6, <2>4 DEF Lookup, Typed, TypeOK
  <2>8. TypeOK'
    BY <1>6, <2>2, <2>5 DEF Lookup, Typed, TypeOK, rows, ghosts
  <2>9. Hands'
    BY <1>6, <2>3, <2>4, <2>6, <2>7 DEF Lookup, Typed, TypeOK, Hands
  <2> QED BY <2>8, <2>9 DEF Typed
<1>7. ASSUME NEW ok \in BOOLEAN, Drain(w, ok) PROVE Typed'
  <2>1. cur[w] \in Snapshot /\ MarkFailed(row[cur[w].id], MaxAttempts) \in Delivery
    BY <1>7, <1>e, OutcomesTyped, Bounds DEF Drain
  <2> QED BY <1>7, <2>1, WriteTyped DEF Drain
<1>8. ASSUME NEW ok \in BOOLEAN, Release(w, ok) PROVE Typed'
  <2>1. spent' \subseteq Disturbances
    BY <1>8, <1>w DEF Release
  <2>2. row' \in [Deliveries -> Delivery]
    BY <1>8, <1>e, RowsTyped DEF Release, Typed, TypeOK
  <2>8. TypeOK'
    BY <1>8, <2>1, <2>2 DEF Release, Typed, TypeOK, NextEntry, Goto, ghosts
  <2>9. Hands'
    BY <1>8, <1>n DEF Release, Typed, TypeOK, Hands, NextEntry, Goto, WithCopy
  <2> QED BY <2>8, <2>9 DEF Typed
<1>9. ASSUME NEW ok \in BOOLEAN, ResetSubscriptionFailures(w, ok) PROVE Typed'
  <2>1. spent' \subseteq Disturbances
    BY <1>9, <1>w DEF ResetSubscriptionFailures
  <2>2. cache[w] \in Subscription
    BY <1>9, <1>d DEF ResetSubscriptionFailures, WithCopy
  <2>3. ResetFailures(sub) \in Subscription /\ ResetFailures(cache[w]) \in Subscription
    BY <1>p, <2>2, SubscriptionsTyped
  <2>4. sub' \in Subscription
    BY <1>9, <1>p, <2>3 DEF ResetSubscriptionFailures
  <2>5. /\ cache' \in [Workers -> Subscription \cup {NoSub}] /\ cache'[w] \in Subscription
        /\ \A v \in Workers : v # w => cache'[v] = cache[v]
    BY <1>9, <2>2, <2>3 DEF ResetSubscriptionFailures, Typed, TypeOK
  <2>8. TypeOK'
    BY <1>9, <2>1, <2>4, <2>5 DEF ResetSubscriptionFailures, Typed, TypeOK, Goto, ghosts
  <2>9. Hands'
    BY <1>9, <2>5 DEF ResetSubscriptionFailures, Typed, TypeOK, Hands, Goto, WithCopy
  <2> QED BY <2>8, <2>9 DEF Typed
<1>10. ASSUME NEW ok \in BOOLEAN, RecordSuccess(w, ok) PROVE Typed'
  <2>1. cur[w] \in Snapshot /\ MarkDelivered(row[cur[w].id]) \in Delivery
    BY <1>10, <1>e, OutcomesTyped, Bounds DEF RecordSuccess
  <2> QED BY <1>10, <2>1, WriteTyped DEF RecordSuccess
<1>11. ASSUME NEW ok \in BOOLEAN, HandleDeliveryFailure(w, ok) PROVE Typed'
  <2> DEFINE n == cur[w].attempts + 1
  <2> DEFINE r == IF n >= MaxAttempts THEN MarkFailed(row[cur[w].id], n)
                                      ELSE ScheduleRetry(row[cur[w].id], n)
  <2>1. cur[w] \in Snapshot /\ row[cur[w].id] \in Delivery
    BY <1>11, <1>e DEF HandleDeliveryFailure
  <2>2. cur[w].attempts \in 0 .. MaxAttempts /\ cur[w].attempts < MaxAttempts
    BY <2>1 DEF Typed, Hands, Snapshot
  <2>3. n \in 0 .. MaxAttempts
    BY <2>2, LadderAssumption
  <2>4. r \in Delivery
    BY <2>1, <2>3, OutcomesTyped
  <2>5. Write(w, ok, r)
    BY <1>11 DEF HandleDeliveryFailure
  <2> QED BY <2>1, <2>4, <2>5, WriteTyped
<1>12. ASSUME NEW ok \in BOOLEAN, ExpireStaleRun(w, ok) PROVE Typed'
  <2>1. spent' \subseteq Disturbances
    BY <1>12, <1>w DEF ExpireStaleRun
  <2>2. cache[w] \in Subscription
    BY <1>12, <1>d DEF ExpireStaleRun, WithCopy
  <2>3. ResetFailures(sub) \in Subscription /\ ResetFailures(cache[w]) \in Subscription
    BY <1>p, <2>2, SubscriptionsTyped
  <2>4. sub' \in Subscription
    BY <1>12, <1>p, <2>3 DEF ExpireStaleRun
  <2>5. /\ cache' \in [Workers -> Subscription \cup {NoSub}] /\ cache'[w] \in Subscription
        /\ \A v \in Workers : v # w => cache'[v] = cache[v]
    BY <1>12, <2>2, <2>3 DEF ExpireStaleRun, Typed, TypeOK
  <2>6. \E p \in {"counting", "disabling", "retrying"} : pc' = [pc EXCEPT ![w] = p]
    BY <1>12 DEF ExpireStaleRun, Goto
  <2>7. pc[w] \in {"expiring", "counting"}
    BY <1>12 DEF ExpireStaleRun
  <2>8. TypeOK'
    BY <1>12, <2>1, <2>4, <2>5, <2>6 DEF ExpireStaleRun, Typed, TypeOK, ghosts
  <2>9. Hands'
    BY <1>12, <2>5, <2>6, <2>7 DEF ExpireStaleRun, Typed, TypeOK, Hands, WithCopy
  <2> QED BY <2>8, <2>9 DEF Typed
<1>13. ASSUME NEW ok \in BOOLEAN, CountFailure(w, ok) PROVE Typed'
  <2>1. spent' \subseteq Disturbances
    BY <1>13, <1>w DEF CountFailure
  <2>2. cache[w] \in Subscription
    BY <1>13, <1>d DEF CountFailure, WithCopy
  <2>3. IncrementFailures(sub) \in Subscription /\ IncrementFailures(cache[w]) \in Subscription
    BY <1>p, <2>2, SubscriptionsTyped
  <2>4. sub' \in Subscription
    BY <1>13, <1>p, <2>3 DEF CountFailure
  <2>5. /\ cache' \in [Workers -> Subscription \cup {NoSub}] /\ cache'[w] \in Subscription
        /\ \A v \in Workers : v # w => cache'[v] = cache[v]
    BY <1>13, <2>2, <2>3 DEF CountFailure, Typed, TypeOK
  <2>6. \E p \in {"counting", "disabling", "retrying"} : pc' = [pc EXCEPT ![w] = p]
    BY <1>13 DEF CountFailure, Goto
  <2>7. pc[w] \in {"expiring", "counting"}
    BY <1>13 DEF CountFailure
  <2>8. TypeOK'
    BY <1>13, <2>1, <2>4, <2>5, <2>6 DEF CountFailure, Typed, TypeOK, ghosts
  <2>9. Hands'
    BY <1>13, <2>5, <2>6, <2>7 DEF CountFailure, Typed, TypeOK, Hands, WithCopy
  <2> QED BY <2>8, <2>9 DEF Typed
<1>14. ASSUME NEW ok \in BOOLEAN, Retire(w, ok) PROVE Typed'
  <2>1. spent' \subseteq Disturbances
    BY <1>14, <1>w DEF Retire
  <2>2. cache[w] \in Subscription /\ pc[w] = "disabling"
    BY <1>14, <1>d DEF Retire, WithCopy
  <2>3. [cache[w] EXCEPT !.status = "disabled"] \in Subscription /\ DisableWithReason(sub, "failures") \in Subscription
    BY <1>p, <2>2, SubscriptionsTyped
  <2>4. sub' \in Subscription /\ off' \in BOOLEAN
    BY <1>14, <1>p, <2>3 DEF Retire, SubWritten, Typed, TypeOK
  <2>5. /\ cache' \in [Workers -> Subscription \cup {NoSub}] /\ cache'[w] \in Subscription
        /\ \A v \in Workers : v # w => cache'[v] = cache[v]
    BY <1>14, <2>2, <2>3 DEF Retire, Typed, TypeOK
  <2>6. \E p \in {"draining", "retrying"} : pc' = [pc EXCEPT ![w] = p]
    BY <1>14 DEF Retire, Goto
  <2>8. TypeOK'
    BY <1>14, <2>1, <2>4, <2>5, <2>6 DEF Retire, Typed, TypeOK, ghosts
  <2>9. Hands'
    BY <1>14, <2>2, <2>5, <2>6 DEF Retire, Typed, TypeOK, Hands, WithCopy
  <2> QED BY <2>8, <2>9 DEF Typed
<1>15. ASSUME NEW ok \in BOOLEAN, EndpointGone(w, ok) PROVE Typed'
  <2>1. spent' \subseteq Disturbances
    BY <1>15, <1>w DEF EndpointGone
  <2>2. cache[w] \in Subscription /\ pc[w] = "gone"
    BY <1>15, <1>d DEF EndpointGone, WithCopy
  <2>3. [cache[w] EXCEPT !.status = "disabled"] \in Subscription /\ DisableWithReason(sub, "gone") \in Subscription
    BY <1>p, <2>2, SubscriptionsTyped
  <2>4. sub' \in Subscription /\ off' \in BOOLEAN
    BY <1>15, <1>p, <2>3 DEF EndpointGone, SubWritten, Typed, TypeOK
  <2>5. /\ cache' \in [Workers -> Subscription \cup {NoSub}] /\ cache'[w] \in Subscription
        /\ \A v \in Workers : v # w => cache'[v] = cache[v]
    BY <1>15, <2>2, <2>3 DEF EndpointGone, Typed, TypeOK
  <2>6. \E p \in {"draining", "retrying"} : pc' = [pc EXCEPT ![w] = p]
    BY <1>15 DEF EndpointGone, Goto
  <2>8. TypeOK'
    BY <1>15, <2>1, <2>4, <2>5, <2>6 DEF EndpointGone, Typed, TypeOK, ghosts
  <2>9. Hands'
    BY <1>15, <2>2, <2>5, <2>6 DEF EndpointGone, Typed, TypeOK, Hands, WithCopy
  <2> QED BY <2>8, <2>9 DEF Typed
<1>16. ASSUME NEW ok \in BOOLEAN, ZapierGone(w, ok) PROVE Typed'
  <2>1. spent' \subseteq Disturbances
    BY <1>16, <1>w DEF ZapierGone
  <2>2. cache[w] \in Subscription /\ pc[w] = "gone"
    BY <1>16, <1>d DEF ZapierGone, WithCopy
  <2>3. [cache[w] EXCEPT !.status = "disabled"] \in Subscription /\ [sub EXCEPT !.status = "deleted"] \in Subscription
    BY <1>p, <2>2, SubscriptionsTyped
  <2>4. sub' \in Subscription /\ off' \in BOOLEAN
    BY <1>16, <1>p, <2>3 DEF ZapierGone, SubWritten, Typed, TypeOK
  <2>5. /\ cache' \in [Workers -> Subscription \cup {NoSub}] /\ cache'[w] \in Subscription
        /\ \A v \in Workers : v # w => cache'[v] = cache[v]
    BY <1>16, <2>2, <2>3 DEF ZapierGone, Typed, TypeOK
  <2>6. \E p \in {"purging", "draining"} : pc' = [pc EXCEPT ![w] = p]
    BY <1>16 DEF ZapierGone, Goto
  <2>7. row' \in [Deliveries -> Delivery]
    BY <1>16, RowsTyped DEF ZapierGone, Typed, TypeOK
  <2>8. TypeOK'
    BY <1>16, <2>1, <2>4, <2>5, <2>6, <2>7 DEF ZapierGone, Typed, TypeOK, ghosts
  <2>9. Hands'
    BY <1>16, <2>2, <2>5, <2>6 DEF ZapierGone, Typed, TypeOK, Hands, WithCopy
  <2> QED BY <2>8, <2>9 DEF Typed
<1>17. ASSUME NEW ok \in BOOLEAN, Purge(w, ok) PROVE Typed'
  <2>1. spent' \subseteq Disturbances
    BY <1>17, <1>w DEF Purge
  <2>2. row' \in [Deliveries -> Delivery]
    BY <1>17, RowsTyped DEF Purge, Typed, TypeOK
  <2>3. pc[w] = "purging" /\ cur[w] \in Snapshot
    BY <1>17, <1>e DEF Purge
  <2>4. CASE ok
    <3>1. TypeOK'
      BY <1>17, <2>1, <2>2, <2>4 DEF Purge, Typed, TypeOK, NextEntry, Goto, ghosts
    <3>2. Hands'
      BY <1>17, <2>4, <1>n DEF Purge, Typed, TypeOK, Hands, NextEntry, Goto, WithCopy
    <3> QED BY <3>1, <3>2 DEF Typed
  <2>5. CASE ~ok
    <3>1. TypeOK'
      BY <1>17, <2>1, <2>2, <2>5 DEF Purge, Typed, TypeOK, Goto, ghosts
    <3>2. Hands'
      BY <1>17, <2>3, <2>5 DEF Purge, Typed, TypeOK, Hands, Goto, WithCopy
    <3> QED BY <3>1, <3>2 DEF Typed
  <2> QED BY <2>4, <2>5
<1>18. ASSUME ClaimFails(w) PROVE Typed'
  <2>1. PICK S \in SUBSET Deliveries : GetPending(w, S)
    BY <1>18 DEF ClaimFails, Batch, Due
  <2>2. row' \in [Deliveries -> Delivery] /\ spent' \subseteq Disturbances
    BY <1>18, <2>1, <1>g DEF ClaimFails, Spend, Disturbances, Typed, TypeOK
  <2>3. TypeOK'
    BY <1>18, <2>2 DEF ClaimFails, Typed, TypeOK, Goto, worker, ghosts
  <2>4. Hands'
    BY <1>18 DEF ClaimFails, Typed, TypeOK, Hands, Goto, WithCopy, worker
  <2> QED BY <2>3, <2>4 DEF Typed
<1>19. ASSUME EndBatch(w) PROVE Typed'
  <2>1. TypeOK'
    BY <1>19 DEF EndBatch, Typed, TypeOK, Goto, rows, ghosts
  <2>2. Hands'
    BY <1>19 DEF EndBatch, Typed, TypeOK, Hands, Goto, WithCopy
  <2> QED BY <2>1, <2>2 DEF Typed
<1>20. ASSUME Post(w) PROVE Typed'
  <2>1. cur[w] \in Snapshot /\ cache[w] \in Subscription
    BY <1>20, <1>e, <1>d DEF Post, WithCopy
  <2>2. posts' \in [Deliveries -> Nat]
    BY <1>20, <2>1 DEF Post, Typed, TypeOK, Snapshot
  <2>3. TypeOK'
    BY <1>20, <2>2 DEF Post, Typed, TypeOK, Goto, rows, worker
  <2>4. Hands'
    BY <1>20, <2>1 DEF Post, Typed, TypeOK, Hands, Goto, WithCopy, worker
  <2> QED BY <2>3, <2>4 DEF Typed
<1>21. ASSUME OutOfBudget(w) PROVE Typed'
  <2>1. cur[w] \in Snapshot
    BY <1>21, <1>e DEF OutOfBudget
  <2>2. TypeOK'
    BY <1>21 DEF OutOfBudget, Typed, TypeOK, Goto, rows, worker, ghosts
  <2>3. Hands'
    BY <1>21, <2>1 DEF OutOfBudget, Typed, TypeOK, Hands, Goto, WithCopy, worker
  <2> QED BY <2>2, <2>3 DEF Typed
<1>22. ASSUME Triage(w) PROVE Typed'
  <2>1. cur[w] \in Snapshot /\ cache[w] \in Subscription
    BY <1>22, <1>e, <1>d DEF Triage, WithCopy
  <2>2. answer[w] \in {"gone", "throttled", "error"}
    BY <1>22 DEF Triage, Typed, TypeOK, Hands
  <2>3. \E p \in {"gone", "retrying", "expiring"} : pc' = [pc EXCEPT ![w] = p]
    BY <1>22, <2>2 DEF Triage, Goto
  <2>4. TypeOK'
    BY <1>22, <2>3 DEF Triage, Typed, TypeOK, rows, worker, ghosts
  <2>5. Hands'
    BY <1>22, <2>1, <2>3 DEF Triage, Typed, TypeOK, Hands, WithCopy, worker
  <2> QED BY <2>4, <2>5 DEF Typed
<1> QED
  BY <1>1, <1>2, <1>3, <1>4, <1>5, <1>6, <1>7, <1>8, <1>9, <1>10, <1>11, <1>12, <1>13, <1>14,
     <1>15, <1>16, <1>17, <1>18, <1>19, <1>20, <1>21, <1>22 DEF Step

(* So do the console, the clock and the crashes. *)
LEMMA NextTyped ==
    ASSUME Typed, [Next]_vars
    PROVE  Typed'
<1> USE PCsInclude
<1>p. sub \in Subscription /\ streak \in [count : 0 .. Threshold, age : Runs]
  BY DEF Typed, TypeOK
<1>s. ASSUME NEW k \in Disturbances, Spend(k) PROVE spent' \subseteq Disturbances
  BY <1>s DEF Spend, Typed, TypeOK
<1>k. {"crash", "slow", "request"} \subseteq Disturbances
  BY DEF Disturbances
<1>1. CASE UNCHANGED vars
  <2>1. TypeOK'
    BY <1>1 DEF Typed, TypeOK, vars, rows, worker, ghosts
  <2>2. Hands'
    BY <1>1 DEF Typed, Hands, vars, worker
  <2> QED BY <2>1, <2>2 DEF Typed
<1>2. ASSUME NEW w \in Workers, BudgetSpent(w) PROVE Typed'
  <2>1. Struck("error") \in [count : 0 .. Threshold, age : Runs]
    BY <1>p, StreaksTyped
  <2>2. TypeOK'
    BY <1>2, <2>1 DEF BudgetSpent, Typed, TypeOK, Goto, rows
  <2>3. Hands'
    BY <1>2 DEF BudgetSpent, Typed, TypeOK, Hands, Goto, WithCopy
  <2> QED BY <2>2, <2>3 DEF Typed
<1>3. ASSUME NEW w \in Workers, Crash(w) PROVE Typed'
  <2>1. NoEntry.attempts < MaxAttempts
    BY LadderAssumption DEF NoEntry
  <2>2. pc[w] \in Recording \cup {"posting"} => cur[w].id \in Deliveries
    BY DEF Typed, Hands, Recording, Snapshot
  <2>3. spent' \subseteq Disturbances /\ excused' \subseteq Deliveries
    BY <1>3, <1>s, <1>k, <2>2 DEF Crash, Typed, TypeOK
  <2>4. TypeOK'
    BY <1>3, <2>3 DEF Crash, Typed, TypeOK, Goto, rows
  <2>5. Hands'
    BY <1>3, <2>1 DEF Crash, Typed, TypeOK, Hands, Goto, WithCopy
  <2> QED BY <2>4, <2>5 DEF Typed
<1>r. ASSUME row' \in [Deliveries -> Delivery], spent' \subseteq Disturbances,
             excused' \subseteq Deliveries,
             UNCHANGED <<sub, request, pc, worker, posts, accepted, off, streak>>
      PROVE  Typed'
  <2>1. TypeOK'
    BY <1>r DEF Typed, TypeOK, worker
  <2>2. Hands'
    BY <1>r DEF Typed, Hands, worker
  <2> QED BY <2>1, <2>2 DEF Typed
<1>u. spent \subseteq Disturbances /\ excused \subseteq Deliveries
  BY DEF Typed, TypeOK
<1>4. ASSUME NEW d \in Deliveries, Fire(d) PROVE Typed'
  <2>1. row' \in [Deliveries -> Delivery]
    BY <1>4, NewRowsTyped DEF Fire, Typed, TypeOK
  <2> QED BY <1>4, <1>r, <1>u, <2>1 DEF Fire, ghosts
<1>5. ASSUME NEW d \in Deliveries, LeaseExpires(d) PROVE Typed'
  <2>1. [row[d] EXCEPT !.stale = TRUE] \in Delivery
    BY RowsAge DEF Typed, TypeOK
  <2>2. row' \in [Deliveries -> Delivery]
    BY <1>5, <2>1 DEF LeaseExpires, Typed, TypeOK
  <2>3. spent' \subseteq Disturbances /\ excused' \subseteq Deliveries
    BY <1>5, <1>s, <1>k, <1>u DEF LeaseExpires
  <2> QED BY <1>5, <1>r, <2>2, <2>3 DEF LeaseExpires
<1>6. ASSUME NEW d \in Deliveries, FallsDue(d) PROVE Typed'
  <2>1. [row[d] EXCEPT !.due = TRUE] \in Delivery
    BY RowsAge DEF Typed, TypeOK
  <2>2. row' \in [Deliveries -> Delivery]
    BY <1>6, <2>1 DEF FallsDue, Typed, TypeOK
  <2> QED BY <1>6, <1>r, <1>u, <2>2 DEF FallsDue, ghosts
<1>7. ASSUME NEW d \in Deliveries, Cleanup(d) PROVE Typed'
  <2>1. Removed(row[d]) \in Delivery
    BY RemovedTyped DEF Typed, TypeOK
  <2>2. row' \in [Deliveries -> Delivery]
    BY <1>7, <2>1 DEF Cleanup, Typed, TypeOK
  <2> QED BY <1>7, <1>r, <1>u, <2>2 DEF Cleanup, ghosts
<1>8. ASSUME NEW op \in {"edit", "on", "off", "delete"}, BeginRequest(op) PROVE Typed'
  <2>1. (CASE op = "on" -> TRUE [] op = "off" -> FALSE [] OTHER -> sub.status = "enabled") \in BOOLEAN
    OBVIOUS
  <2>2. request' \in [op : {"edit", "on", "off"}, enabled : BOOLEAN] \cup {NoWish, [op |-> "delete"]}
    BY <1>8, <2>1 DEF BeginRequest
  <2>3. row' \in [Deliveries -> Delivery] /\ spent' \subseteq Disturbances
    BY <1>8, <1>s, <1>k, RemovedTyped DEF BeginRequest, Typed, TypeOK
  <2>4. TypeOK'
    BY <1>8, <2>2, <2>3 DEF BeginRequest, Typed, TypeOK, worker, ghosts
  <2>5. Hands'
    BY <1>8 DEF BeginRequest, Typed, Hands, worker
  <2> QED BY <2>4, <2>5 DEF Typed
<1>9. ASSUME EndRequest PROVE Typed'
  <2>1. row' \in [Deliveries -> Delivery]
    BY <1>9, RemovedTyped DEF EndRequest, Typed, TypeOK
  <2>2. request.op # "delete" => request.enabled \in BOOLEAN
    BY <1>9 DEF EndRequest, Typed, TypeOK, NoWish
  <2>3. sub' \in Subscription /\ off' \in BOOLEAN
    <3>1. CASE request.op = "delete"
      BY <1>9, <1>p, <3>1, SubscriptionsTyped DEF EndRequest, SubWritten, Typed, TypeOK
    <3>2. CASE request.op # "delete"
      <4>1. Updated(sub, request.enabled) \in Subscription
        BY <1>p, <2>2, <3>2, SubscriptionsTyped
      <4> QED BY <1>9, <1>p, <3>2, <4>1 DEF EndRequest, SubWritten, Typed, TypeOK
    <3> QED BY <3>1, <3>2
  <2>4. TypeOK'
    BY <1>9, <2>1, <2>3 DEF EndRequest, Typed, TypeOK, worker
  <2>5. Hands'
    BY <1>9 DEF EndRequest, Typed, Hands, worker
  <2> QED BY <2>4, <2>5 DEF Typed
<1>10. ASSUME RunAges PROVE Typed'
  <2>1. \A s \in Subscription : [s EXCEPT !.run = Aged(@)] \in Subscription
    BY SubscriptionsTyped
  <2>2. sub' \in Subscription
    BY <1>10, <1>p, <2>1 DEF RunAges
  <2>3. streak' \in [count : 0 .. Threshold, age : Runs]
    BY <1>10, <1>p, StreaksTyped DEF RunAges
  <2>4. NoSub \notin Subscription
    BY DEF NoSub, Subscription
  <2>5. /\ cache' \in [Workers -> Subscription \cup {NoSub}]
        /\ \A w \in Workers : cache[w] \in Subscription => cache'[w] \in Subscription
    BY <1>10, <2>1, <2>4 DEF RunAges, Typed, TypeOK
  <2>6. TypeOK'
    BY <1>10, <2>2, <2>3, <2>5 DEF RunAges, Typed, TypeOK
  <2>7. Hands'
    BY <1>10, <2>5 DEF RunAges, Typed, Hands
  <2> QED BY <2>6, <2>7 DEF Typed
<1>11. CASE Next
  BY <1>11, <1>2, <1>3, <1>4, <1>5, <1>6, <1>7, <1>8, <1>9, <1>10, StepTyped DEF Next
<1> QED BY <1>1, <1>11

(* Type correctness, and with it: a worker past its renewal has an entry in  *)
(* hand, below its last rung, and past the lookup a copy of the subscription.*)
THEOREM WebhookTypeCorrect == Spec => []TypeOK
<1>1. Typed /\ [Next]_vars => Typed'
  BY NextTyped
<1>2. Typed => TypeOK
  BY DEF Typed
<1> QED BY TypedAtFirst, <1>1, <1>2, PTL DEF Spec
-----------------------------------------------------------------------------
(* Why no delivery is in two open POSTs.  While a worker's budget lasts its  *)
(* claim is the row's, and fresh; or somebody who had lost the row has       *)
(* written an outcome over it, and no claim takes it before that budget is   *)
(* spent.  A POST is under way only within the budget.                       *)
Guarded(r, w) ==
    \/ Holds(r, w) /\ ~r.stale
    \/ r.status \in {"delivered", "removed", "failed"} /\ ~Claimable(r)

InBudget ==
    /\ \A w \in Workers : budget[w] => cur[w] \in Snapshot /\ Guarded(row[cur[w].id], w)
    /\ \A w \in Workers : pc[w] = "posting" => budget[w]
    /\ \A v, w \in Workers : v # w /\ budget[v] /\ budget[w] => cur[v].id # cur[w].id

Inv == Typed /\ InBudget

(* What nobody else's statement takes away. *)
LEMMA StaysGuarded ==
    ASSUME NEW r \in Delivery, NEW w \in Workers, Guarded(r, w)
    PROVE  /\ Guarded(ReclaimStale(r), w) /\ Guarded(Removed(r), w)
           /\ \A v \in Workers : v # w => Guarded(ReleaseClaim(r, v), w)
           /\ Guarded(MarkDelivered(r), w)
           /\ \A n \in 0 .. MaxAttempts : Guarded(ScheduleRetry(r, n), w)
           /\ Guarded(MarkFailed(r, MaxAttempts), w)
           /\ ~Claimable(r)
<1> USE LadderAssumption, WorkersAssumption DEF Guarded, Holds, Claimable, Delivery
<1>1. Guarded(ReclaimStale(r), w)
  BY DEF ReclaimStale
<1>2. Guarded(Removed(r), w)
  BY DEF Removed, OnRow, Exists, NoDelivery
<1>3. \A v \in Workers : v # w => Guarded(ReleaseClaim(r, v), w)
  BY DEF ReleaseClaim
<1>4. Guarded(MarkDelivered(r), w)
  BY DEF MarkDelivered, OnRow, Exists
<1>5. \A n \in 0 .. MaxAttempts : Guarded(ScheduleRetry(r, n), w)
  BY DEF ScheduleRetry, OnRow, Exists
<1>6. Guarded(MarkFailed(r, MaxAttempts), w)
  BY DEF MarkFailed, OnRow, Exists
<1>7. ~Claimable(r)
  OBVIOUS
<1> QED BY <1>1, <1>2, <1>3, <1>4, <1>5, <1>6, <1>7

(* A step keeps the invariant when budgets and entries stay as they are, or  *)
(* are given up, no POST begins, and every row in budget stays guarded.      *)
LEMMA NobodyStarts ==
    ASSUME Inv, Typed',
           \A w \in Workers : budget'[w] => budget[w] /\ cur'[w] = cur[w],
           \A w \in Workers : pc'[w] = "posting" => pc[w] = "posting" /\ budget'[w],
           \A w \in Workers : budget'[w] => Guarded(row'[cur[w].id], w)
    PROVE  Inv'
BY DEF Inv, InBudget

(* The writes of an outcome, by whoever still believes to have the row. *)
LEMMA WriteKeepsBudgets ==
    ASSUME Inv, Typed', NEW u \in Workers, NEW ok \in BOOLEAN, NEW r,
           cur[u] \in Snapshot, Write(u, ok, r),
           \A w \in Workers : Guarded(row[cur[u].id], w) => Guarded(r, w)
    PROVE  Inv'
<1>1. /\ budget' = [budget EXCEPT ![u] = FALSE] /\ cur' = [cur EXCEPT ![u] = NoEntry]
      /\ pc' = [pc EXCEPT ![u] = "batch"]
  BY DEF Write, NextEntry, Goto
<1>2. \A w \in Workers : budget'[w] => w # u /\ budget[w] /\ cur'[w] = cur[w]
  BY <1>1 DEF Inv, Typed, TypeOK
<1>3. \A w \in Workers : pc'[w] = "posting" => pc[w] = "posting" /\ budget'[w]
  BY <1>1 DEF Inv, InBudget, Typed, TypeOK
<1>4. \A w \in Workers : budget'[w] => Guarded(row'[cur[w].id], w)
  <2> SUFFICES ASSUME NEW w \in Workers, budget'[w] PROVE Guarded(row'[cur[w].id], w)
    OBVIOUS
  <2>1. budget[w] /\ cur[w] \in Snapshot /\ Guarded(row[cur[w].id], w)
    BY <1>2 DEF Inv, InBudget
  <2>2. cur[w].id \in Deliveries /\ cur[u].id \in Deliveries
    BY <2>1 DEF Snapshot
  <2>3. row'[cur[w].id] = IF ok /\ cur[w].id = cur[u].id THEN r ELSE row[cur[w].id]
    BY <2>2 DEF Write, Inv, Typed, TypeOK
  <2> QED BY <2>1, <2>3
<1> QED BY <1>2, <1>3, <1>4, NobodyStarts

LEMMA StepKeepsBudgets ==
    ASSUME Inv, NEW u \in Workers, Step(u)
    PROVE  Inv'
<1>t. Typed'
  BY StepTyped DEF Inv
<1>b. ASSUME NEW w \in Workers, budget[w]
      PROVE  /\ cur[w] \in Snapshot /\ cur[w].id \in Deliveries
             /\ row[cur[w].id] \in Delivery /\ Guarded(row[cur[w].id], w)
  BY <1>b DEF Inv, InBudget, Typed, TypeOK, Snapshot
<1>e. ASSUME pc[u] \in InHandPCs
      PROVE  /\ cur[u] \in Snapshot /\ cur[u].id \in Deliveries
             /\ row[cur[u].id] \in Delivery
  BY <1>e DEF Inv, Typed, TypeOK, Hands, Snapshot
<1>g. ASSUME NEW S \in SUBSET Due, GetPending(u, S), NEW w \in Workers, budget[w]
      PROVE  Guarded(row'[cur[w].id], w)
  <2>1. cur[w].id \notin S
    BY <1>g, <1>b, StaysGuarded DEF Due
  <2> QED BY <1>g, <1>b, <2>1 DEF GetPending
<1>1. ASSUME NEW S \in SUBSET Deliveries, Claim(u, S) PROVE Inv'
  <2>1. S \in SUBSET Due /\ GetPending(u, S) /\ UNCHANGED <<budget, cur>>
    BY <1>1 DEF Claim, Batch
  <2>2. \A w \in Workers : pc'[w] = "posting" => pc[w] = "posting" /\ budget'[w]
    BY <1>1, <2>1 DEF Claim, Goto, Inv, InBudget, Typed, TypeOK
  <2>3. \A w \in Workers : budget'[w] => Guarded(row'[cur[w].id], w)
    BY <1>g, <2>1
  <2> QED BY <1>t, <2>1, <2>2, <2>3, NobodyStarts
<1>2. ASSUME NEW e \in todo[u], Renew(u, e) PROVE Inv'
  <2>1. /\ e \in Snapshot /\ e.id \in Deliveries /\ row[e.id] \in Delivery
        /\ Holds(row[e.id], u)
    BY <1>2 DEF Renew, Inv, Typed, TypeOK, Snapshot
  <2>2. /\ row' = [row EXCEPT ![e.id] = Claimed(@, u)] /\ cur' = [cur EXCEPT ![u] = e]
        /\ budget' = [budget EXCEPT ![u] = TRUE] /\ pc' = [pc EXCEPT ![u] = "renewed"]
    BY <1>2 DEF Renew, Goto
  <2>3. ASSUME NEW w \in Workers, w # u, budget[w]
        PROVE  cur[w].id # e.id
    BY <2>1, <2>3, <1>b DEF Guarded, Holds
  <2>4. Guarded(Claimed(row[e.id], u), u)
    BY <2>1 DEF Guarded, Holds, Claimed, Delivery
  <2>5. \A w \in Workers : budget'[w] => cur'[w] \in Snapshot /\ Guarded(row'[cur'[w].id], w)
    <3> SUFFICES ASSUME NEW w \in Workers, budget'[w]
                 PROVE  cur'[w] \in Snapshot /\ Guarded(row'[cur'[w].id], w)
      OBVIOUS
    <3>1. CASE w = u
      BY <2>1, <2>2, <2>4, <3>1 DEF Inv, Typed, TypeOK
    <3>2. CASE w # u
      <4>1. budget[w] /\ cur'[w] = cur[w]
        BY <2>2, <3>2 DEF Inv, Typed, TypeOK
      <4> QED BY <1>b, <2>2, <2>3, <3>2, <4>1 DEF Inv, Typed, TypeOK
    <3> QED BY <3>1, <3>2
  <2>6. \A w \in Workers : pc'[w] = "posting" => budget'[w]
    BY <2>2 DEF Inv, InBudget, Typed, TypeOK
  <2>7. \A v, w \in Workers : v # w /\ budget'[v] /\ budget'[w] => cur'[v].id # cur'[w].id
    BY <2>2, <2>3 DEF Inv, InBudget, Typed, TypeOK
  <2> QED BY <1>t, <2>5, <2>6, <2>7 DEF Inv, InBudget
(* Steps that change no row and no budget. *)
<1>q. ASSUME UNCHANGED <<row, cur, budget>>,
             \E p \in PCs \ {"posting"} : pc' = [pc EXCEPT ![u] = p]
      PROVE  Inv'
  <2>1. \A w \in Workers : pc'[w] = "posting" => pc[w] = "posting" /\ budget'[w]
    BY <1>q DEF Inv, InBudget, Typed, TypeOK
  <2> QED BY <1>q, <1>t, <1>b, <2>1, NobodyStarts
<1>3. ASSUME NEW e \in todo[u], NotRenewed(u, e) PROVE Inv'
  <2>1. UNCHANGED <<row, cur, budget, pc>>
    BY <1>3 DEF NotRenewed, rows
  <2>2. \A w \in Workers : pc'[w] = "posting" => pc[w] = "posting" /\ budget'[w]
    BY <2>1 DEF Inv, InBudget
  <2> QED BY <1>t, <1>b, <2>1, <2>2, NobodyStarts
<1> USE PCsInclude
<1>4. ASSUME NEW a \in {"ok", "gone", "throttled", "error"}, Respond(u, a) PROVE Inv'
  BY <1>4, <1>q DEF Respond, Goto, rows
<1>5. ASSUME NEW ok \in BOOLEAN, Sweep(u, ok) PROVE Inv'
  <2>1. UNCHANGED <<cur, budget>> /\ pc' = [pc EXCEPT ![u] = "swept"]
    BY <1>5 DEF Sweep, Goto, worker
  <2>2. \A w \in Workers : pc'[w] = "posting" => pc[w] = "posting" /\ budget'[w]
    BY <2>1 DEF Inv, InBudget, Typed, TypeOK
  <2>3. \A w \in Workers : budget'[w] => Guarded(row'[cur[w].id], w)
    BY <1>5, <1>b, <2>1, StaysGuarded DEF Sweep
  <2> QED BY <1>t, <2>1, <2>2, <2>3, NobodyStarts
<1>6. ASSUME NEW ok \in BOOLEAN, Lookup(u, ok) PROVE Inv'
  <2>1. \E p \in PCs \ {"posting"} : pc' = [pc EXCEPT ![u] = p]
    BY <1>6 DEF Lookup, Goto
  <2> QED BY <1>6, <1>q, <2>1 DEF Lookup, rows
<1>7. ASSUME NEW ok \in BOOLEAN, Drain(u, ok) PROVE Inv'
  BY <1>7, <1>t, <1>e, StaysGuarded, WriteKeepsBudgets DEF Drain
<1>8. ASSUME NEW ok \in BOOLEAN, Release(u, ok) PROVE Inv'
  <2>1. /\ budget' = [budget EXCEPT ![u] = FALSE] /\ cur' = [cur EXCEPT ![u] = NoEntry]
        /\ pc' = [pc EXCEPT ![u] = "batch"]
    BY <1>8 DEF Release, NextEntry, Goto
  <2>2. \A w \in Workers : budget'[w] => w # u /\ budget[w] /\ cur'[w] = cur[w]
    BY <2>1 DEF Inv, Typed, TypeOK
  <2>3. \A w \in Workers : pc'[w] = "posting" => pc[w] = "posting" /\ budget'[w]
    BY <2>1 DEF Inv, InBudget, Typed, TypeOK
  <2>4. ASSUME NEW w \in Workers, budget'[w] PROVE Guarded(row'[cur[w].id], w)
    <3>1. Guarded(ReleaseClaim(row[cur[w].id], u), w) /\ Guarded(row[cur[w].id], w)
      BY <1>b, <2>2, <2>4, StaysGuarded
    <3>2. row'[cur[w].id] \in {row[cur[w].id], ReleaseClaim(row[cur[w].id], u)}
      BY <1>8, <1>b, <2>2, <2>4 DEF Release, Inv, Typed, TypeOK
    <3> QED BY <3>1, <3>2
  <2> QED BY <1>t, <2>2, <2>3, <2>4, NobodyStarts
<1>9. ASSUME NEW ok \in BOOLEAN, ResetSubscriptionFailures(u, ok) PROVE Inv'
  BY <1>9, <1>q DEF ResetSubscriptionFailures, Goto
<1>10. ASSUME NEW ok \in BOOLEAN, RecordSuccess(u, ok) PROVE Inv'
  BY <1>10, <1>t, <1>e, StaysGuarded, WriteKeepsBudgets DEF RecordSuccess
<1>11. ASSUME NEW ok \in BOOLEAN, HandleDeliveryFailure(u, ok) PROVE Inv'
  <2> DEFINE n == cur[u].attempts + 1
  <2> DEFINE r == IF n >= MaxAttempts THEN MarkFailed(row[cur[u].id], n)
                                      ELSE ScheduleRetry(row[cur[u].id], n)
  <2>1. cur[u] \in Snapshot /\ row[cur[u].id] \in Delivery
    BY <1>11, <1>e DEF HandleDeliveryFailure
  <2>2. cur[u].attempts \in 0 .. MaxAttempts /\ cur[u].attempts < MaxAttempts
    BY <2>1 DEF Inv, Typed, Hands, Snapshot
  <2>3. n \in 0 .. MaxAttempts /\ (n >= MaxAttempts => n = MaxAttempts)
    BY <2>2, LadderAssumption
  <2>4. \A w \in Workers : Guarded(row[cur[u].id], w) => Guarded(r, w)
    BY <2>1, <2>3, StaysGuarded
  <2>5. Write(u, ok, r)
    BY <1>11 DEF HandleDeliveryFailure
  <2> QED BY <1>t, <2>1, <2>4, <2>5, WriteKeepsBudgets
<1>12. ASSUME NEW ok \in BOOLEAN, ExpireStaleRun(u, ok) PROVE Inv'
  BY <1>12, <1>q DEF ExpireStaleRun, Goto
<1>13. ASSUME NEW ok \in BOOLEAN, CountFailure(u, ok) PROVE Inv'
  <2>1. \E p \in PCs \ {"posting"} : pc' = [pc EXCEPT ![u] = p]
    BY <1>13 DEF CountFailure, Goto
  <2> QED BY <1>13, <1>q, <2>1 DEF CountFailure
<1>14. ASSUME NEW ok \in BOOLEAN, Retire(u, ok) PROVE Inv'
  <2>1. \E p \in PCs \ {"posting"} : pc' = [pc EXCEPT ![u] = p]
    BY <1>14 DEF Retire, Goto
  <2> QED BY <1>14, <1>q, <2>1 DEF Retire
<1>15. ASSUME NEW ok \in BOOLEAN, EndpointGone(u, ok) PROVE Inv'
  BY <1>15, <1>q DEF EndpointGone, Goto
<1>r. ASSUME NEW w \in Workers, budget[w],
             row' = [d \in Deliveries |-> Removed(row[d])] \/ row' = row
      PROVE  Guarded(row'[cur[w].id], w)
  BY <1>r, <1>b, StaysGuarded
<1>16. ASSUME NEW ok \in BOOLEAN, ZapierGone(u, ok) PROVE Inv'
  <2>1. UNCHANGED <<cur, budget>> /\ \E p \in PCs \ {"posting"} : pc' = [pc EXCEPT ![u] = p]
    BY <1>16 DEF ZapierGone, Goto
  <2>2. \A w \in Workers : pc'[w] = "posting" => pc[w] = "posting" /\ budget'[w]
    BY <2>1 DEF Inv, InBudget, Typed, TypeOK
  <2>3. row' = [d \in Deliveries |-> Removed(row[d])] \/ row' = row
    BY <1>16 DEF ZapierGone
  <2> QED BY <1>t, <1>r, <2>1, <2>2, <2>3, NobodyStarts
<1>17. ASSUME NEW ok \in BOOLEAN, Purge(u, ok) PROVE Inv'
  <2>1. \A w \in Workers : budget'[w] => budget[w] /\ cur'[w] = cur[w]
    BY <1>17 DEF Purge, NextEntry, Inv, Typed, TypeOK
  <2>2. /\ \E p \in {"batch", "draining"} : pc' = [pc EXCEPT ![u] = p]
        /\ \A w \in Workers : w # u => budget'[w] = budget[w]
    BY <1>17 DEF Purge, NextEntry, Goto, Inv, Typed, TypeOK
  <2>3. \A w \in Workers : pc'[w] = "posting" => pc[w] = "posting" /\ budget'[w]
    BY <2>2 DEF Inv, InBudget, Typed, TypeOK
  <2>4. row' = [d \in Deliveries |-> Removed(row[d])] \/ row' = row
    BY <1>17 DEF Purge
  <2> QED BY <1>t, <1>r, <2>1, <2>3, <2>4, NobodyStarts
<1>18. ASSUME ClaimFails(u) PROVE Inv'
  <2>1. PICK S \in SUBSET Due : GetPending(u, S)
    BY <1>18 DEF ClaimFails, Batch
  <2>2. UNCHANGED <<cur, budget>> /\ pc' = [pc EXCEPT ![u] = "idle"]
    BY <1>18 DEF ClaimFails, Goto, worker
  <2>3. \A w \in Workers : pc'[w] = "posting" => pc[w] = "posting" /\ budget'[w]
    BY <2>2 DEF Inv, InBudget, Typed, TypeOK
  <2> QED BY <1>t, <1>g, <2>1, <2>2, <2>3, NobodyStarts
<1>19. ASSUME EndBatch(u) PROVE Inv'
  BY <1>19, <1>q DEF EndBatch, Goto, rows
<1>20. ASSUME Post(u) PROVE Inv'
  <2>1. UNCHANGED <<row, cur, budget>> /\ budget[u] /\ pc' = [pc EXCEPT ![u] = "posting"]
    BY <1>20 DEF Post, Goto, rows, worker
  <2>2. \A w \in Workers : pc'[w] = "posting" => budget'[w]
    BY <2>1 DEF Inv, InBudget, Typed, TypeOK
  <2> QED BY <1>t, <2>1, <2>2 DEF Inv, InBudget
<1>21. ASSUME OutOfBudget(u) PROVE Inv'
  BY <1>21, <1>q DEF OutOfBudget, Goto, rows, worker
<1>22. ASSUME Triage(u) PROVE Inv'
  <2>1. answer[u] \in {"gone", "throttled", "error"}
    BY <1>22 DEF Triage, Inv, Typed, TypeOK, Hands
  <2>2. \E p \in PCs \ {"posting"} : pc' = [pc EXCEPT ![u] = p]
    BY <1>22, <2>1 DEF Triage, Goto
  <2> QED BY <1>22, <1>q, <2>2 DEF Triage, rows, worker
<1> QED
  BY <1>1, <1>2, <1>3, <1>4, <1>5, <1>6, <1>7, <1>8, <1>9, <1>10, <1>11, <1>12, <1>13, <1>14,
     <1>15, <1>16, <1>17, <1>18, <1>19, <1>20, <1>21, <1>22 DEF Step

LEMMA InvAtFirst == Init => Inv
BY TypedAtFirst DEF Init, Inv, InBudget

LEMMA NextKeepsBudgets ==
    ASSUME Inv, [Next]_vars
    PROVE  Inv'
<1>t. Typed'
  BY NextTyped DEF Inv
<1>b. ASSUME NEW w \in Workers, budget[w]
      PROVE  /\ cur[w] \in Snapshot /\ cur[w].id \in Deliveries
             /\ row[cur[w].id] \in Delivery /\ Guarded(row[cur[w].id], w)
  BY <1>b DEF Inv, InBudget, Typed, TypeOK, Snapshot
(* Statements of the console and of the clock change neither the workers... *)
<1>r. ASSUME UNCHANGED <<pc, cur, budget>>,
             \A w \in Workers : budget[w] => Guarded(row'[cur[w].id], w)
      PROVE  Inv'
  <2>1. \A w \in Workers : pc'[w] = "posting" => pc[w] = "posting" /\ budget'[w]
    BY <1>r DEF Inv, InBudget
  <2> QED BY <1>r, <1>t, <2>1, NobodyStarts
(* ...nor, when they change one row, what a row in budget needs.            *)
<1>o. ASSUME NEW d \in Deliveries, NEW r, row' = [row EXCEPT ![d] = r],
             UNCHANGED <<pc, cur, budget>>,
             \A w \in Workers : budget[w] /\ cur[w].id = d => Guarded(r, w)
      PROVE  Inv'
  <2>1. ASSUME NEW w \in Workers, budget[w] PROVE Guarded(row'[cur[w].id], w)
    BY <1>o, <1>b, <2>1 DEF Inv, Typed, TypeOK
  <2> QED BY <1>o, <1>r, <2>1
<1>1. CASE UNCHANGED vars
  <2>1. UNCHANGED <<row, pc, cur, budget>>
    BY <1>1 DEF vars, rows, worker
  <2> QED BY <1>b, <1>r, <2>1
<1>2. ASSUME NEW u \in Workers, Step(u) PROVE Inv'
  BY <1>2, StepKeepsBudgets
<1>3. ASSUME NEW u \in Workers, BudgetSpent(u) PROVE Inv'
  <2>1. /\ UNCHANGED <<row, cur>> /\ budget' = [budget EXCEPT ![u] = FALSE]
        /\ pc' = IF pc[u] = "posting" THEN [pc EXCEPT ![u] = "answered"] ELSE pc
    BY <1>3 DEF BudgetSpent, Goto, rows
  <2>2. \A w \in Workers : budget'[w] => budget[w] /\ cur'[w] = cur[w]
    BY <2>1 DEF Inv, Typed, TypeOK
  <2>3. \A w \in Workers : pc'[w] = "posting" => w # u /\ pc[w] = "posting"
    BY <2>1 DEF Inv, Typed, TypeOK
  <2>4. \A w \in Workers : pc'[w] = "posting" => budget'[w]
    BY <2>1, <2>3 DEF Inv, InBudget, Typed, TypeOK
  <2> QED BY <1>t, <1>b, <2>1, <2>2, <2>3, <2>4, NobodyStarts
<1>4. ASSUME NEW u \in Workers, Crash(u) PROVE Inv'
  <2>1. /\ UNCHANGED row /\ cur' = [cur EXCEPT ![u] = NoEntry]
        /\ budget' = [budget EXCEPT ![u] = FALSE] /\ pc' = [pc EXCEPT ![u] = "idle"]
    BY <1>4 DEF Crash, Goto, rows
  <2>2. \A w \in Workers : budget'[w] => budget[w] /\ cur'[w] = cur[w]
    BY <2>1 DEF Inv, Typed, TypeOK
  <2>3. \A w \in Workers : pc'[w] = "posting" => pc[w] = "posting" /\ budget'[w]
    BY <2>1 DEF Inv, InBudget, Typed, TypeOK
  <2> QED BY <1>t, <1>b, <2>1, <2>2, <2>3, NobodyStarts
<1>5. ASSUME NEW d \in Deliveries, Fire(d) PROVE Inv'
  <2>1. \A w \in Workers : budget[w] => cur[w].id # d
    BY <1>5, <1>b DEF Fire, Guarded, Holds
  <2> QED BY <1>5, <1>o, <2>1 DEF Fire, worker
<1>6. ASSUME NEW d \in Deliveries, LeaseExpires(d) PROVE Inv'
  <2>1. \A w \in Workers : budget[w] => cur[w].id # d
    BY <1>6, <1>b DEF LeaseExpires, InHand, Guarded, Holds
  <2> QED BY <1>6, <1>o, <2>1 DEF LeaseExpires, worker
<1>7. ASSUME NEW d \in Deliveries, FallsDue(d) PROVE Inv'
  <2>1. \A w \in Workers : budget[w] => cur[w].id # d
    BY <1>7 DEF FallsDue, InHand
  <2> QED BY <1>7, <1>o, <2>1 DEF FallsDue, worker
<1>8. ASSUME NEW d \in Deliveries, Cleanup(d) PROVE Inv'
  <2>1. \A w \in Workers : budget[w] => cur[w].id # d
    BY <1>8 DEF Cleanup, InHand
  <2> QED BY <1>8, <1>o, <2>1 DEF Cleanup, worker
<1>9. ASSUME NEW op \in {"edit", "on", "off", "delete"}, BeginRequest(op) PROVE Inv'
  <2>1. UNCHANGED <<pc, cur, budget>>
        /\ (row' = [d \in Deliveries |-> Removed(row[d])] \/ row' = row)
    BY <1>9 DEF BeginRequest, worker
  <2>2. \A w \in Workers : budget[w] => Guarded(row'[cur[w].id], w)
    BY <1>b, <2>1, StaysGuarded
  <2> QED BY <1>r, <2>1, <2>2
<1>10. CASE EndRequest
  <2>1. UNCHANGED <<pc, cur, budget>>
        /\ (row' = [d \in Deliveries |-> Removed(row[d])] \/ row' = row)
    BY <1>10 DEF EndRequest, worker
  <2>2. \A w \in Workers : budget[w] => Guarded(row'[cur[w].id], w)
    BY <1>b, <2>1, StaysGuarded
  <2> QED BY <1>r, <2>1, <2>2
<1>11. CASE RunAges
  <2>1. UNCHANGED <<row, pc, cur, budget>>
    BY <1>11 DEF RunAges
  <2> QED BY <1>b, <1>r, <2>1
<1> QED
  BY <1>1, <1>2, <1>3, <1>4, <1>5, <1>6, <1>7, <1>8, <1>9, <1>10, <1>11 DEF Next

(* While a POST is open no other worker has one open for the same delivery:  *)
(* the budget of a POST is counted from the renewal of the claim, a renewal  *)
(* asks for the claim's own token, and the lease outlives the budget         *)
(* (webhook_delivery_worker.go, normaliseTimings and processWorkspace...).   *)
THEOREM OnlyOnePost == Spec => []OnePostAtATime
<1>1. Inv => OnePostAtATime
  BY DEF Inv, InBudget, OnePostAtATime
<1> QED BY InvAtFirst, NextKeepsBudgets, <1>1, PTL DEF Spec
-----------------------------------------------------------------------------
(* An endpoint is retired for cause.  With one worker, neither the row nor   *)
(* the worker's copy of it tells more failures, or an older run of them,     *)
(* than the answers formed since the last success.                           *)
OneReplica == \A v, w \in Workers : v = w

Clean == excused = {} /\ "error" \notin spent

Sustained == {"sustained", "ended"}

NoOlder(run, age) ==
    /\ run # "none" => age # "none"
    /\ run \in Sustained => age \in Sustained

(* A failure that is answered and not counted; a success not yet written.    *)
Owes(w) == pc[w] \in {"expiring", "counting"} \/ (pc[w] = "answered" /\ answer[w] = "error")

Relieved(w) == pc[w] = "answered" /\ answer[w] = "ok"

Borne(s, w) ==
    /\ s.failures <= streak.count /\ NoOlder(s.run, streak.age)
    /\ Owes(w) => streak.count = Threshold \/ s.failures < streak.count

(* A copy with nothing to clear is one of a row with nothing to clear.       *)
Mirrored(w) ==
    cache[w] # NoSub => /\ cache[w].failures = 0 => sub.failures = 0
                        /\ cache[w].run = "none" => sub.run = "none"

Both(w) == Borne(sub, w) /\ (cache[w] # NoSub => Borne(cache[w], w))

Tallied(w) ==
    /\ ~Relieved(w) => Both(w)
    /\ Owes(w) => streak.count > 0
    /\ pc[w] = "disabling" => streak.count = Threshold /\ streak.age \in Sustained

Marked ==
    /\ streak.count = 0 <=> streak.age = "none"
    /\ sub.status = "enabled" => sub.reason = "none"

Reckoned == Marked /\ \A w \in Workers : Mirrored(w) /\ (Clean => Tallied(w))

LEMMA ReckonedAtFirst == Init => Reckoned
BY LadderAssumption DEF Init, NoStreak, Reckoned, Marked, Mirrored, Tallied, Both, Borne, NoOlder,
   Owes, Relieved, Sustained

(* What was lost stays on the record. *)
LEMMA StaysClean == [Next]_vars => (Clean' => Clean)
<1>1. ASSUME NEW w \in Workers, NEW ok \in BOOLEAN, NEW r, Write(w, ok, r)
      PROVE  excused \subseteq excused' /\ spent \subseteq spent'
  BY <1>1 DEF Write, Try, Spend
<1>2. ASSUME NEW w \in Workers, Step(w) PROVE excused \subseteq excused' /\ spent \subseteq spent'
  <2>1. ASSUME NEW ok \in BOOLEAN, Drain(w, ok) \/ RecordSuccess(w, ok) \/ HandleDeliveryFailure(w, ok)
        PROVE  excused \subseteq excused' /\ spent \subseteq spent'
    BY <1>1, <2>1 DEF Drain, RecordSuccess, HandleDeliveryFailure
  <2>2. ASSUME NEW ok \in BOOLEAN,
               \/ Sweep(w, ok) \/ Lookup(w, ok) \/ Release(w, ok)
               \/ ResetSubscriptionFailures(w, ok) \/ ExpireStaleRun(w, ok) \/ CountFailure(w, ok)
        PROVE  excused \subseteq excused' /\ spent \subseteq spent'
    BY <2>2 DEF Sweep, Lookup, Release, ResetSubscriptionFailures, ExpireStaleRun, CountFailure,
       Try, Spend, ghosts
  <2>3. ASSUME NEW ok \in BOOLEAN,
               Retire(w, ok) \/ EndpointGone(w, ok) \/ ZapierGone(w, ok) \/ Purge(w, ok)
        PROVE  excused \subseteq excused' /\ spent \subseteq spent'
    BY <2>3 DEF Retire, EndpointGone, ZapierGone, Purge, Try, Spend, ghosts
  <2>4. ASSUME \/ \E S \in SUBSET Deliveries : Claim(w, S)
               \/ \E e \in todo[w] : Renew(w, e) \/ NotRenewed(w, e)
               \/ \E a \in {"ok", "gone", "throttled", "error"} : Respond(w, a)
               \/ ClaimFails(w) \/ EndBatch(w) \/ Post(w) \/ OutOfBudget(w) \/ Triage(w)
        PROVE  excused \subseteq excused' /\ spent \subseteq spent'
    BY <2>4 DEF Claim, Renew, NotRenewed, Respond, ClaimFails, EndBatch, Post, OutOfBudget, Triage,
       Spend, ghosts
  <2> QED BY <1>2, <2>1, <2>2, <2>3, <2>4 DEF Step
<1>3. ASSUME NEW w \in Workers, BudgetSpent(w) \/ Crash(w)
      PROVE  excused \subseteq excused' /\ spent \subseteq spent'
  BY <1>3 DEF BudgetSpent, Crash, Spend
<1>4. ASSUME NEW d \in Deliveries, Fire(d) \/ LeaseExpires(d) \/ FallsDue(d) \/ Cleanup(d)
      PROVE  excused \subseteq excused' /\ spent \subseteq spent'
  BY <1>4 DEF Fire, LeaseExpires, FallsDue, Cleanup, Spend, ghosts
<1>5. ASSUME (\E op \in {"edit", "on", "off", "delete"} : BeginRequest(op)) \/ EndRequest \/ RunAges
      PROVE  excused \subseteq excused' /\ spent \subseteq spent'
  BY <1>5 DEF BeginRequest, EndRequest, RunAges, Spend, ghosts
<1>6. UNCHANGED vars => excused \subseteq excused' /\ spent \subseteq spent'
  BY DEF vars, ghosts
<1> QED BY <1>2, <1>3, <1>4, <1>5, <1>6 DEF Next, Clean

(* What a copy says that the reckoning is about. *)
Same(s, t) == s.failures = t.failures /\ s.run = t.run

Cleared(s) == s.failures = 0 /\ s.run = "none"

(* A step that counts nothing: the copies stay, are dropped or taken afresh, *)
(* and the row may be cleared.                                               *)
LEMMA NothingCounted ==
    ASSUME Typed, Reckoned, Clean' => Clean, streak' = streak,
           Same(sub', sub) \/ Cleared(sub'),
           sub'.status = "enabled" => sub'.reason = "none",
           \A w \in Workers : \/ cache'[w] = NoSub
                              \/ cache[w] # NoSub /\ Same(cache'[w], cache[w])
                              \/ Same(cache'[w], sub) /\ Same(sub', sub),
           \A w \in Workers : Clean' => /\ Owes(w)' => Owes(w)
                                        /\ Relieved(w) => Relieved(w)'
                                        /\ pc'[w] = "disabling" => pc[w] = "disabling"
    PROVE  Reckoned'
<1>1. Marked'
  BY DEF Reckoned, Marked
<1>2. ASSUME NEW w \in Workers PROVE Mirrored(w)'
  BY DEF Reckoned, Mirrored, Same, Cleared
<1>3. ASSUME NEW w \in Workers, Clean' PROVE Tallied(w)'
  <2>1. Clean /\ Tallied(w) /\ streak.count \in Nat
    BY <1>3, LadderAssumption DEF Reckoned, Typed, TypeOK
  <2>2. ASSUME ~Relieved(w)' PROVE Both(w)'
    <3>1. Both(w) /\ (Owes(w) => streak.count > 0)
      BY <1>3, <2>1, <2>2 DEF Tallied
    <3>2. Borne(sub, w)'
      BY <1>3, <2>1, <3>1 DEF Both, Borne, Same, Cleared, NoOlder, Sustained
    <3>3. cache'[w] # NoSub => Borne(cache[w], w)'
      BY <1>3, <3>1 DEF Both, Borne, Same, NoOlder
    <3> QED BY <3>2, <3>3 DEF Both
  <2> QED BY <1>3, <2>1, <2>2 DEF Tallied
<1> QED BY <1>1, <1>2, <1>3 DEF Reckoned

(* What a request makes of the row. *)
LEMMA RowWritten ==
    ASSUME NEW s, s.status = "enabled" => s.reason = "none", NEW why, NEW on \in BOOLEAN,
           s \in Subscription, s.status # "deleted",
           NEW t, t \in {s, Updated(s, on), DisableWithReason(s, why), [s EXCEPT !.status = "deleted"]}
    PROVE  (Same(t, s) \/ Cleared(t)) /\ (t.status = "enabled" => t.reason = "none")
<1>1. CASE t = Updated(s, on)
  <2>1. CASE on /\ s.status = "disabled"
    BY <1>1, <2>1 DEF Updated, ResetFailures, Cleared, Subscription
  <2>2. CASE ~(on /\ s.status = "disabled")
    <3>1. t = [s EXCEPT !.status = IF on THEN "enabled" ELSE "disabled"]
      BY <1>1, <2>2 DEF Updated
    <3>2. t.failures = s.failures /\ t.run = s.run /\ t.reason = s.reason
          /\ t.status = IF on THEN "enabled" ELSE "disabled"
      BY <3>1 DEF Subscription
    <3>3. on /\ s.status = "enabled" => s.reason = "none"
      OBVIOUS
    <3> QED BY <2>2, <3>2, <3>3 DEF Same, Subscription
  <2> QED BY <2>1, <2>2
<1>2. CASE t \in {s, DisableWithReason(s, why), [s EXCEPT !.status = "deleted"]}
  BY <1>2 DEF DisableWithReason, Same, Subscription
<1> QED BY <1>1, <1>2

(* A failure is answered: whoever answers owes it. *)
LEMMA FailureAnswered ==
    ASSUME Typed, OneReplica, Reckoned, Clean' => Clean, NEW w \in Workers,
           pc[w] = "posting", pc'[w] = "answered", answer'[w] = "error",
           streak' = Struck("error"), UNCHANGED <<sub, cache>>
    PROVE  Reckoned'
<1>t. /\ streak \in [count : 0 .. Threshold, age : Runs] /\ Threshold \in Nat \ {0}
      /\ sub \in Subscription /\ cache[w] \in Subscription /\ \A v \in Workers : v = w
  BY LadderAssumption DEF Typed, TypeOK, Hands, WithCopy, OneReplica
<1>1. /\ streak'.count > 0 /\ streak'.age # "none"
      /\ streak'.count = Threshold \/ streak.count < streak'.count
      /\ streak.count <= streak'.count
      /\ streak.age # "none" => streak'.age = streak.age
  <2>1. /\ streak'.count = IF streak.count < Threshold THEN streak.count + 1 ELSE Threshold
        /\ streak'.age = IF streak.count = 0 THEN "recent" ELSE streak.age
    BY DEF Struck
  <2> QED BY <1>t, <2>1 DEF Reckoned, Marked
<1>2. Marked' /\ \A v \in Workers : Mirrored(v)'
  BY <1>t, <1>1 DEF Reckoned, Marked, Mirrored
<1>3. ASSUME Clean', NEW s \in {sub, cache[w]} PROVE Borne(s, w)'
  <2>1. ~Relieved(w) /\ Tallied(w)
    BY <1>3 DEF Relieved, Reckoned
  <2>2. s.failures <= streak.count /\ NoOlder(s.run, streak.age) /\ s.failures \in Nat
        /\ streak.count \in Nat /\ streak'.count \in Nat
    <3>1. Borne(sub, w) /\ (cache[w] # NoSub => Borne(cache[w], w))
      BY <2>1 DEF Tallied, Both
    <3>2. cache[w] # NoSub /\ s \in Subscription
      BY <1>t DEF NoSub, Subscription
    <3>3. streak'.count \in Nat
      BY <1>t, StreaksTyped
    <3> QED BY <1>t, <3>1, <3>2, <3>3 DEF Borne, Subscription
  <2>3. s.failures <= streak'.count /\ (streak'.count = Threshold \/ s.failures < streak'.count)
    BY <1>1, <2>2
  <2>4. NoOlder(s.run, streak'.age)
    BY <1>1, <2>2 DEF NoOlder, Sustained
  <2> QED BY <2>3, <2>4 DEF Borne
<1>4. ASSUME Clean' PROVE Tallied(w)'
  BY <1>1, <1>3, <1>4 DEF Tallied, Both
<1> QED BY <1>t, <1>2, <1>4 DEF Reckoned

(* The success is written: row and copy have nothing to tell.                *)
LEMMA SuccessClears ==
    ASSUME Typed, OneReplica, Reckoned, Clean' => Clean, NEW w \in Workers, NEW ok \in BOOLEAN,
           ResetSubscriptionFailures(w, ok)
    PROVE  Reckoned'
<1>t. /\ streak \in [count : 0 .. Threshold, age : Runs] /\ Threshold \in Nat
      /\ sub \in Subscription /\ cache \in [Workers -> Subscription \cup {NoSub}]
      /\ cache[w] \in Subscription /\ cache[w] # NoSub /\ pc \in [Workers -> PCs]
  BY LadderAssumption DEF Typed, TypeOK, Hands, WithCopy, ResetSubscriptionFailures, NoSub, Subscription
<1>w. \A v \in Workers : v = w
  BY DEF OneReplica
<1>1. /\ streak' = streak /\ pc'[w] = "recording"
      /\ \/ Cleared(sub') /\ Cleared(cache'[w]) /\ sub'.status = sub.status /\ sub'.reason = sub.reason
         \/ UNCHANGED <<sub, cache>> /\ Cleared(cache[w])
         \/ UNCHANGED <<sub, cache>> /\ "error" \in spent'
  BY <1>t DEF ResetSubscriptionFailures, Goto, ghosts, ResetFailures, Cleared, Subscription, Try, Spend
<1>2. Marked' /\ Mirrored(w)'
  BY <1>t, <1>1 DEF Reckoned, Marked, Mirrored, Cleared
<1>3. ASSUME Clean' PROVE Tallied(w)'
  <2>1. Cleared(sub') /\ Cleared(cache'[w])
    BY <1>1, <1>3, <1>t DEF Clean, Reckoned, Mirrored, Cleared
  <2> QED BY <1>t, <1>1, <2>1 DEF Tallied, Both, Borne, Cleared, NoOlder, Owes, Sustained
<1> QED BY <1>w, <1>2, <1>3 DEF Reckoned

(* A run that ended is cleared in the row and in the copy alike. *)
LEMMA StaleRunClears ==
    ASSUME Typed, OneReplica, Reckoned, Clean' => Clean, NEW w \in Workers, NEW ok \in BOOLEAN,
           ExpireStaleRun(w, ok)
    PROVE  Reckoned'
<1>t. /\ streak \in [count : 0 .. Threshold, age : Runs] /\ Threshold \in Nat
      /\ sub \in Subscription /\ cache \in [Workers -> Subscription \cup {NoSub}]
      /\ cache[w] \in Subscription /\ cache[w] # NoSub /\ pc \in [Workers -> PCs]
  BY LadderAssumption DEF Typed, TypeOK, Hands, WithCopy, ExpireStaleRun, NoSub, Subscription
<1>w. \A v \in Workers : v = w
  BY DEF OneReplica
<1>1. /\ streak' = streak /\ pc[w] = "expiring" /\ pc'[w] = "counting"
      /\ \/ Cleared(sub') /\ Cleared(cache'[w]) /\ sub'.status = sub.status /\ sub'.reason = sub.reason
         \/ UNCHANGED <<sub, cache>>
  BY <1>t DEF ExpireStaleRun, Goto, ghosts, ResetFailures, Cleared, Subscription
<1>2. Marked' /\ Mirrored(w)'
  BY <1>t, <1>1 DEF Reckoned, Marked, Mirrored, Cleared
<1>3. ASSUME Clean' PROVE Tallied(w)'
  <2>1. Tallied(w) /\ ~Relieved(w) /\ Owes(w)
    BY <1>1, <1>3 DEF Reckoned, Relieved, Owes
  <2> QED BY <1>t, <1>1, <2>1 DEF Tallied, Both, Borne, Cleared, NoOlder, Owes, Relieved, Sustained
<1> QED BY <1>w, <1>2, <1>3 DEF Reckoned

(* One more failure in the copy stands for one the answers told before. *)
LEMMA OneMore ==
    ASSUME NEW s \in Subscription, streak \in [count : 0 .. Threshold, age : Runs],
           NEW w, Borne(s, w), Owes(w), streak.count > 0, streak.age # "none"
    PROVE  LET t == IncrementFailures(s)
           IN  /\ t.failures <= streak.count /\ NoOlder(t.run, streak.age)
               /\ t.failures # 0 /\ t.run # "none"
               /\ t.failures >= Threshold /\ t.run # "recent"
                    => streak.count = Threshold /\ streak.age \in Sustained
<1>t. Threshold \in Nat /\ Threshold > 0 /\ s.failures \in 0 .. Threshold /\ streak.count \in 0 .. Threshold
      /\ s.run \in Runs
  BY LadderAssumption DEF Subscription
<1> DEFINE t == IncrementFailures(s)
<1>1. /\ t.failures = (IF s.failures < Threshold THEN s.failures + 1 ELSE s.failures)
      /\ t.run = IF s.run = "none" THEN "recent" ELSE s.run
  BY DEF IncrementFailures, Subscription
<1>2. t.failures <= streak.count /\ t.failures # 0 /\ t.failures \in Nat
  BY <1>t, <1>1 DEF Borne
<1>3. NoOlder(t.run, streak.age) /\ t.run # "none"
  BY <1>1 DEF Borne, NoOlder, Sustained
<1>4. t.run \in Runs
  BY <1>t, <1>1 DEF Runs
<1>5. t.failures >= Threshold => streak.count = Threshold
  BY <1>t, <1>2
<1>6. t.run # "recent" => streak.age \in Sustained
  BY <1>3, <1>4 DEF NoOlder, Runs, Sustained
<1> QED BY <1>2, <1>3, <1>5, <1>6

LEMMA FailureCounted ==
    ASSUME Typed, OneReplica, Reckoned, Clean' => Clean, NEW w \in Workers, NEW ok \in BOOLEAN,
           CountFailure(w, ok)
    PROVE  Reckoned'
<1>t. /\ streak \in [count : 0 .. Threshold, age : Runs]
      /\ sub \in Subscription /\ cache \in [Workers -> Subscription \cup {NoSub}]
      /\ cache[w] \in Subscription /\ cache[w] # NoSub /\ pc \in [Workers -> PCs]
      /\ streak' = streak /\ pc[w] = "counting" /\ pc'[w] \in {"disabling", "retrying"}
  BY DEF Typed, TypeOK, Hands, WithCopy, CountFailure, Goto, ghosts, NoSub, Subscription
<1>w. \A v \in Workers : v = w
  BY DEF OneReplica
<1>1. CASE ok
  <2>1. /\ sub' = IncrementFailures(sub) /\ cache'[w] = IncrementFailures(cache[w])
        /\ pc'[w] = "disabling" => /\ cache'[w].failures >= Threshold /\ cache'[w].run # "recent"
    BY <1>1, <1>t DEF CountFailure, Goto
  <2>2. \A s \in Subscription : /\ IncrementFailures(s).failures # 0 /\ IncrementFailures(s).run # "none"
                                /\ IncrementFailures(s).status = s.status
                                /\ IncrementFailures(s).reason = s.reason
    BY LadderAssumption DEF IncrementFailures, Subscription
  <2>3. Marked' /\ Mirrored(w)'
    BY <1>t, <2>1, <2>2 DEF Reckoned, Marked, Mirrored
  <2>4. ASSUME Clean' PROVE Tallied(w)'
    <3>1. Both(w) /\ Owes(w) /\ streak.count > 0 /\ streak.age # "none"
      BY <1>t, <2>4 DEF Reckoned, Marked, Tallied, Relieved, Owes
    <3>2. Borne(sub, w) /\ Borne(cache[w], w)
      BY <3>1, <1>t DEF Both
    <3>3. ~Owes(w)' /\ ~Relieved(w)'
      BY <1>t DEF Owes, Relieved
    <3> QED BY <1>t, <2>1, <3>1, <3>2, <3>3, OneMore DEF Tallied, Both, Borne
  <2> QED BY <1>w, <2>3, <2>4 DEF Reckoned
<1>2. CASE ~ok
  <2>1. UNCHANGED <<sub, cache>> /\ "error" \in spent'
    BY <1>2 DEF CountFailure, Try, Spend
  <2> QED BY <1>t, <1>w, <2>1 DEF Reckoned, Marked, Mirrored, Clean
<1> QED BY <1>1, <1>2

(* Hours pass for the row, the copies and the streak alike. *)
LEMMA TimeReckoned ==
    ASSUME Typed, Reckoned, Clean' => Clean, RunAges
    PROVE  Reckoned'
<1>t. /\ streak \in [count : 0 .. Threshold, age : Runs]
      /\ sub \in Subscription /\ cache \in [Workers -> Subscription \cup {NoSub}]
  BY DEF Typed, TypeOK
<1>a. \A r, a \in Runs : /\ Aged(r) = "none" <=> r = "none"
                         /\ NoOlder(r, a) => NoOlder(Aged(r), Aged(a))
                         /\ a \in Sustained => Aged(a) \in Sustained
  BY DEF Runs, Aged, NoOlder, Sustained
<1>1. /\ streak'.count = streak.count /\ streak'.age = Aged(streak.age)
      /\ sub'.failures = sub.failures /\ sub'.run = Aged(sub.run)
      /\ sub'.status = sub.status /\ sub'.reason = sub.reason
      /\ pc' = pc /\ answer' = answer
  BY <1>t DEF RunAges, Subscription
<1>2. ASSUME NEW w \in Workers
      PROVE  cache'[w] # NoSub => /\ cache[w] \in Subscription /\ cache[w] # NoSub
                                  /\ cache'[w].failures = cache[w].failures
                                  /\ cache'[w].run = Aged(cache[w].run)
  BY <1>t DEF RunAges, Subscription
<1>r. streak.age \in Runs /\ sub.run \in Runs /\ \A s \in Subscription : s.run \in Runs
  BY <1>t DEF Subscription
<1>3. Marked'
  BY <1>a, <1>r, <1>1 DEF Reckoned, Marked
<1>4. ASSUME NEW w \in Workers PROVE Mirrored(w)'
  BY <1>a, <1>r, <1>1, <1>2 DEF Reckoned, Mirrored
<1>5. ASSUME NEW w \in Workers, Clean' PROVE Tallied(w)'
  <2>1. Tallied(w)
    BY <1>5 DEF Reckoned
  <2>2. Borne(sub, w) => Borne(sub, w)'
    BY <1>a, <1>r, <1>1 DEF Borne, Owes
  <2>3. cache'[w] # NoSub => cache[w] # NoSub /\ (Borne(cache[w], w) => Borne(cache[w], w)')
    BY <1>a, <1>r, <1>1, <1>2 DEF Borne, Owes
  <2> QED BY <1>a, <1>r, <1>1, <2>1, <2>2, <2>3 DEF Tallied, Both, Owes, Relieved
<1> QED BY <1>3, <1>4, <1>5 DEF Reckoned

Cause ==
    sub.status = "enabled" /\ sub'.status = "disabled" /\ sub'.reason = "failures"
        => \/ streak.count >= Threshold /\ streak.age # "recent"
           \/ excused # {} \/ "error" \in spent

(* The steps of a worker that write neither the row nor its copy. *)
LEMMA WalkReckoned ==
    ASSUME Typed, OneReplica, Reckoned, Clean' => Clean, NEW w \in Workers,
           \/ \E S \in SUBSET Deliveries : Claim(w, S)
           \/ \E e \in todo[w] : Renew(w, e) \/ NotRenewed(w, e)
           \/ \E a \in {"gone", "throttled"} : Respond(w, a)
           \/ \E ok \in BOOLEAN : \/ Sweep(w, ok) \/ Drain(w, ok) \/ Release(w, ok)
                                  \/ RecordSuccess(w, ok) \/ HandleDeliveryFailure(w, ok)
                                  \/ Purge(w, ok)
           \/ ClaimFails(w) \/ Post(w) \/ OutOfBudget(w) \/ Triage(w)
    PROVE  Reckoned' /\ sub' = sub
<1>t. pc \in [Workers -> PCs] /\ answer \in [Workers -> {"none", "ok", "gone", "throttled", "error"}]
  BY DEF Typed, TypeOK
<1>w. \A v \in Workers : v = w
  BY DEF OneReplica
<1> DEFINE Still == UNCHANGED <<sub, cache, streak>>
           Calmly == /\ Owes(w)' => Owes(w)
                     /\ Relieved(w) => Relieved(w)'
                     /\ pc'[w] = "disabling" => pc[w] = "disabling"
<1>1. ASSUME Still, Calmly PROVE Reckoned' /\ sub' = sub
  BY <1>1, <1>w, NothingCounted DEF Same, Reckoned, Marked
<1>2. ASSUME NEW a \in {"gone", "throttled"}, Respond(w, a) PROVE Still /\ Calmly
  BY <1>2, <1>t DEF Respond, Goto, rows, Struck, Owes, Relieved
<1>3. ASSUME NEW ok \in BOOLEAN, Drain(w, ok) \/ RecordSuccess(w, ok) \/ HandleDeliveryFailure(w, ok)
      PROVE  Still /\ Calmly
  <2>1. ASSUME NEW r, Write(w, ok, r), pc[w] \in {"draining", "recording", "retrying"}
        PROVE  Still /\ Calmly
    BY <2>1, <1>t DEF Write, NextEntry, Goto, Owes, Relieved
  <2> QED BY <1>3, <2>1 DEF Drain, RecordSuccess, HandleDeliveryFailure
<1>4. ASSUME NEW ok \in BOOLEAN, Sweep(w, ok) \/ Release(w, ok) \/ Purge(w, ok)
      PROVE  Still /\ Calmly
  BY <1>4, <1>t DEF Sweep, Release, Purge, NextEntry, Goto, worker, ghosts, Owes, Relieved
<1>5. ASSUME \/ \E S \in SUBSET Deliveries : Claim(w, S)
             \/ \E e \in todo[w] : Renew(w, e) \/ NotRenewed(w, e)
      PROVE  Still /\ Calmly
  BY <1>5, <1>t DEF Claim, Renew, NotRenewed, Goto, rows, ghosts, Owes, Relieved
<1>6. ASSUME ClaimFails(w) \/ Post(w) \/ OutOfBudget(w) PROVE Still /\ Calmly
  BY <1>6, <1>t DEF ClaimFails, Post, OutOfBudget, Goto, rows, worker, ghosts, Owes, Relieved
<1>7. ASSUME Triage(w) PROVE Still /\ Calmly
  <2>1. Still /\ pc[w] = "answered" /\ answer'[w] = answer[w] /\ ~Relieved(w)
    BY <1>7 DEF Triage, rows, worker, ghosts, Relieved
  <2>2. answer[w] \in {"gone", "throttled", "error"}
    BY <1>7, <1>t DEF Triage, Hands, Typed
  <2>3. CASE answer[w] = "error"
    BY <2>1, <2>3, <1>7, <1>t DEF Triage, Goto, Owes
  <2>4. CASE answer[w] = "gone"
    BY <2>1, <2>4, <1>7, <1>t DEF Triage, Goto, Owes
  <2>5. CASE answer[w] = "throttled"
    BY <2>1, <2>5, <1>7, <1>t DEF Triage, Goto, Owes
  <2> QED BY <2>2, <2>3, <2>4, <2>5
<1> HIDE DEF Still, Calmly
<1> QED BY <1>1, <1>2, <1>3, <1>4, <1>5, <1>6, <1>7

(* The steps that take a copy or drop it. *)
LEMMA CopyReckoned ==
    ASSUME Typed, OneReplica, Reckoned, Clean' => Clean, NEW w \in Workers,
           (\E ok \in BOOLEAN : Lookup(w, ok)) \/ EndBatch(w) \/ Crash(w)
    PROVE  Reckoned' /\ sub' = sub
<1>t. /\ pc \in [Workers -> PCs] /\ answer \in [Workers -> {"none", "ok", "gone", "throttled", "error"}]
      /\ cache \in [Workers -> Subscription \cup {NoSub}] /\ sub \in Subscription
  BY DEF Typed, TypeOK
<1>w. \A v \in Workers : v = w
  BY DEF OneReplica
<1>1. sub' = sub /\ streak' = streak
  BY DEF Lookup, EndBatch, Crash, rows, ghosts
<1>2. cache'[w] = NoSub \/ (cache[w] # NoSub /\ cache'[w] = cache[w]) \/ cache'[w] = sub
  BY <1>t DEF Lookup, EndBatch, Crash
<1>3. Clean' => /\ Owes(w)' => Owes(w)
                /\ Relieved(w) => Relieved(w)'
                /\ pc'[w] = "disabling" => pc[w] = "disabling"
  <2>1. CASE (\E ok \in BOOLEAN : Lookup(w, ok)) \/ EndBatch(w)
    BY <2>1, <1>t DEF Lookup, EndBatch, Goto, Owes, Relieved
  <2>2. CASE Crash(w)
    BY <2>2, <1>t DEF Crash, Goto, Owes, Relieved, Clean, Recording
  <2> QED BY <2>1, <2>2
<1> QED BY <1>w, <1>1, <1>2, <1>3, NothingCounted DEF Same, Reckoned, Marked

(* The endpoint is switched off, deleted, or retired. *)
LEMMA EndingReckoned ==
    ASSUME Typed, OneReplica, Reckoned, Clean' => Clean, NEW w \in Workers, NEW ok \in BOOLEAN,
           Retire(w, ok) \/ EndpointGone(w, ok) \/ ZapierGone(w, ok)
    PROVE  Reckoned' /\ Cause
<1>t. /\ pc \in [Workers -> PCs] /\ sub \in Subscription
      /\ cache \in [Workers -> Subscription \cup {NoSub}]
      /\ cache[w] \in Subscription /\ cache[w] # NoSub /\ Threshold \in Nat
      /\ sub.status = "enabled" => sub.reason = "none"
  BY LadderAssumption DEF Typed, TypeOK, Hands, WithCopy, Retire, EndpointGone, ZapierGone, NoSub,
     Subscription, Reckoned, Marked
<1>w. \A v \in Workers : v = w
  BY DEF OneReplica
<1>1. sub' \in {sub, DisableWithReason(sub, "failures"), DisableWithReason(sub, "gone"),
                [sub EXCEPT !.status = "deleted"]}
  BY DEF Retire, EndpointGone, ZapierGone, SubWritten
<1>2. Same(sub', sub) /\ (sub'.status = "enabled" => sub'.reason = "none")
  BY <1>1, <1>t DEF Same, DisableWithReason, Subscription
<1>3. streak' = streak /\ cache'[w] \in {cache[w], [cache[w] EXCEPT !.status = "disabled"]}
  BY <1>t DEF Retire, EndpointGone, ZapierGone
<1>4. Same(cache'[w], cache[w])
  BY <1>3, <1>t DEF Same, Subscription
<1>5. /\ Owes(w)' => Owes(w)
      /\ Relieved(w) => Relieved(w)'
      /\ pc'[w] = "disabling" => pc[w] = "disabling"
  BY <1>t DEF Retire, EndpointGone, ZapierGone, Goto, Owes, Relieved
<1>6. Reckoned'
  BY <1>t, <1>w, <1>2, <1>3, <1>4, <1>5, NothingCounted
<1>7. Cause
  <2>1. CASE Retire(w, ok)
    BY <2>1, <1>t DEF Retire, Reckoned, Tallied, Clean, Cause, Sustained
  <2>2. CASE EndpointGone(w, ok)
    BY <2>2, <1>t DEF EndpointGone, SubWritten, DisableWithReason, Subscription, Cause
  <2>3. CASE ZapierGone(w, ok)
    BY <2>3, <1>t DEF ZapierGone, SubWritten, Subscription, Cause
  <2> QED BY <2>1, <2>2, <2>3
<1> QED BY <1>6, <1>7

(* The console and the clock leave the workers where they are. *)
LEMMA OthersReckoned ==
    ASSUME Typed, Reckoned, Clean' => Clean,
           \/ \E d \in Deliveries : Fire(d) \/ LeaseExpires(d) \/ FallsDue(d) \/ Cleanup(d)
           \/ \E op \in {"edit", "on", "off", "delete"} : BeginRequest(op)
           \/ EndRequest \/ UNCHANGED vars
    PROVE  Reckoned' /\ Cause
<1>t. /\ sub \in Subscription /\ (sub.status = "enabled" => sub.reason = "none")
      /\ request \in [op : {"edit", "on", "off"}, enabled : BOOLEAN] \cup {NoWish, [op |-> "delete"]}
  BY DEF Typed, TypeOK, Reckoned, Marked
<1>1. UNCHANGED <<pc, answer, cache, streak>>
  BY DEF Fire, LeaseExpires, FallsDue, Cleanup, BeginRequest, EndRequest, worker, ghosts, vars
<1>2. CASE sub' = sub
  BY <1>1, <1>2, <1>t, NothingCounted DEF Same, Owes, Relieved, Cause
<1>3. CASE EndRequest
  <2>1. \/ sub' \in {sub, [sub EXCEPT !.status = "deleted"]}
        \/ sub.status # "deleted" /\ \E on \in BOOLEAN : sub' = Updated(sub, on)
    BY <1>3, <1>t DEF EndRequest, SubWritten, NoWish
  <2>2. (Same(sub', sub) \/ Cleared(sub')) /\ (sub'.status = "enabled" => sub'.reason = "none")
    <3>1. CASE sub' \in {sub, [sub EXCEPT !.status = "deleted"]}
      BY <3>1, <1>t DEF Same, Subscription
    <3>2. CASE sub.status # "deleted" /\ \E on \in BOOLEAN : sub' = Updated(sub, on)
      BY <3>2, <1>t, RowWritten
    <3> QED BY <2>1, <3>1, <3>2
  <2>3. Reckoned'
    BY <1>1, <2>2, NothingCounted DEF Same, Owes, Relieved
  <2>4. Cause
    BY <2>1, <1>t DEF Cause, Updated, ResetFailures, Subscription
  <2> QED BY <2>3, <2>4
<1> QED BY <1>2, <1>3 DEF Fire, LeaseExpires, FallsDue, Cleanup, BeginRequest, vars, rows

LEMMA NextReckons ==
    ASSUME Typed, OneReplica, Reckoned, [Next]_vars
    PROVE  Reckoned' /\ Cause
<1>c. Clean' => Clean
  BY StaysClean
<1>k. sub'.status = sub.status => Cause
  BY DEF Cause
<1>t. sub \in Subscription /\ cache \in [Workers -> Subscription \cup {NoSub}]
      /\ pc \in [Workers -> PCs]
  BY DEF Typed, TypeOK
<1>1. ASSUME NEW w \in Workers, Respond(w, "ok") PROVE Reckoned' /\ Cause
  <2>1. /\ UNCHANGED <<sub, cache>> /\ streak' = NoStreak /\ Relieved(w)' /\ pc'[w] = "answered"
        /\ ~Owes(w)'
    BY <1>1, <1>t DEF Respond, Goto, rows, Struck, Relieved, Owes, Typed, TypeOK
  <2>2. \A v \in Workers : v = w
    BY DEF OneReplica
  <2> QED BY <1>k, <2>1, <2>2 DEF Reckoned, Marked, Mirrored, Tallied, NoStreak
<1>2. ASSUME NEW w \in Workers, Respond(w, "error") PROVE Reckoned' /\ Cause
  <2>1. /\ pc[w] = "posting" /\ pc'[w] = "answered" /\ answer'[w] = "error"
        /\ streak' = Struck("error") /\ UNCHANGED <<sub, cache>>
    BY <1>2 DEF Respond, Goto, rows, Typed, TypeOK
  <2> QED BY <1>c, <1>k, <2>1, FailureAnswered
<1>3. ASSUME NEW w \in Workers, BudgetSpent(w) PROVE Reckoned' /\ Cause
  <2>1. CASE pc[w] = "posting"
    <3>1. /\ pc'[w] = "answered" /\ answer'[w] = "error"
          /\ streak' = Struck("error") /\ UNCHANGED <<sub, cache>>
      BY <1>3, <2>1 DEF BudgetSpent, Goto, rows, Typed, TypeOK
    <3> QED BY <1>c, <1>k, <2>1, <3>1, FailureAnswered
  <2>2. CASE pc[w] # "posting"
    <3>1. UNCHANGED <<sub, cache, streak, pc, answer>>
      BY <1>3, <2>2 DEF BudgetSpent, rows
    <3>2. Reckoned'
      BY <1>c, <3>1, NothingCounted DEF Same, Owes, Relieved, Reckoned, Marked
    <3> QED BY <1>k, <3>1, <3>2
  <2> QED BY <2>1, <2>2
<1>4. ASSUME NEW w \in Workers, NEW ok \in BOOLEAN,
             ResetSubscriptionFailures(w, ok) \/ ExpireStaleRun(w, ok) \/ CountFailure(w, ok)
      PROVE  Reckoned' /\ Cause
  <2>1. sub'.status = sub.status
    BY <1>4, <1>t DEF ResetSubscriptionFailures, ExpireStaleRun, CountFailure, ResetFailures,
       IncrementFailures, Subscription
  <2> QED BY <1>c, <1>k, <1>4, <2>1, SuccessClears, StaleRunClears, FailureCounted
<1>5. ASSUME NEW w \in Workers, Step(w) PROVE Reckoned' /\ Cause
  <2>1. CASE \E a \in {"ok", "error"} : Respond(w, a)
    BY <1>1, <1>2, <2>1
  <2>2. CASE \E ok \in BOOLEAN : \/ ResetSubscriptionFailures(w, ok) \/ ExpireStaleRun(w, ok)
                                 \/ CountFailure(w, ok)
    BY <1>4, <2>2
  <2>3. CASE \E ok \in BOOLEAN : Retire(w, ok) \/ EndpointGone(w, ok) \/ ZapierGone(w, ok)
    BY <1>c, <2>3, EndingReckoned
  <2>4. CASE (\E ok \in BOOLEAN : Lookup(w, ok)) \/ EndBatch(w)
    BY <1>c, <1>k, <2>4, CopyReckoned
  <2>5. CASE \/ \E S \in SUBSET Deliveries : Claim(w, S)
             \/ \E e \in todo[w] : Renew(w, e) \/ NotRenewed(w, e)
             \/ \E a \in {"gone", "throttled"} : Respond(w, a)
             \/ \E ok \in BOOLEAN : \/ Sweep(w, ok) \/ Drain(w, ok) \/ Release(w, ok)
                                    \/ RecordSuccess(w, ok) \/ HandleDeliveryFailure(w, ok)
                                    \/ Purge(w, ok)
             \/ ClaimFails(w) \/ Post(w) \/ OutOfBudget(w) \/ Triage(w)
    BY <1>c, <1>k, <2>5, WalkReckoned
  <2> QED BY <1>5, <2>1, <2>2, <2>3, <2>4, <2>5 DEF Step
<1>6. ASSUME NEW w \in Workers, Crash(w) PROVE Reckoned' /\ Cause
  BY <1>c, <1>k, <1>6, CopyReckoned
<1>7. CASE RunAges
  <2>1. sub'.status = sub.status
    BY <1>7, <1>t DEF RunAges, Subscription
  <2> QED BY <1>c, <1>k, <1>7, <2>1, TimeReckoned
<1>8. CASE \/ \E d \in Deliveries : Fire(d) \/ LeaseExpires(d) \/ FallsDue(d) \/ Cleanup(d)
           \/ \E op \in {"edit", "on", "off", "delete"} : BeginRequest(op)
           \/ EndRequest \/ UNCHANGED vars
  BY <1>c, <1>8, OthersReckoned
<1> QED BY <1>3, <1>5, <1>6, <1>7, <1>8 DEF Next

(* With one worker, an endpoint is retired for its failures only after a     *)
(* threshold of them in a row over more than the window, unless an outcome   *)
(* was lost or a statement failed: recordSubscriptionFailure decides by the  *)
(* worker's cached copy, which the console may have overtaken, and that copy *)
(* never tells more than the endpoint answered.                              *)
THEOREM RetiredOnlyForCause ==
    ASSUME OneReplica
    PROVE  Spec => RetiredForCause
<1>1. (Typed /\ Reckoned) /\ [Next]_vars => (Typed /\ Reckoned)'
  BY NextTyped, NextReckons
<1>2. Typed /\ Reckoned /\ [Next]_vars => [Cause]_vars
  BY NextReckons
<1> QED BY TypedAtFirst, ReckonedAtFirst, <1>1, <1>2, PTL DEF Spec, RetiredForCause, Cause
=============================================================================
