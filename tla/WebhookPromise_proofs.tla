------------------------ MODULE WebhookPromise_proofs ------------------------
(* The webhook workers keep the promise of a queue, for any set of workers   *)
(* and of deliveries and with any of the disturbances: the refinement of     *)
(* DeliveryPromise, what it rests on, and that the ladder is climbed rung by *)
(* rung before a delivery is given up.                                       *)
EXTENDS WebhookDelivery_proofs

(* The row in hand is the worker's own and inside its lease, or deleted.     *)
Own(r, w) == (Holds(r, w) /\ ~r.stale) \/ r.status = "removed"

Trying(w) == budget[w] /\ pc[w] \in Preparing \cup {"posting"}
Told(w)   == pc[w] = "recording" \/ (pc[w] = "answered" /\ answer[w] = "ok")

(* As long as no outcome of a delivery was lost or late: whoever is in       *)
(* budget, or was told that the delivery is accepted, has the row; nobody    *)
(* tries again what was accepted; and an acceptance is in the row, or known  *)
(* to the worker that will write it there.                                   *)
Truth ==
    /\ \A d \in Deliveries \ excused : accepted[d] \in {0, 1}
    /\ \A w \in Workers : budget[w] /\ cur[w].id \notin excused => Own(row[cur[w].id], w)
    /\ \A w \in Workers : Told(w) /\ cur[w].id \notin excused
                            => Own(row[cur[w].id], w) /\ accepted[cur[w].id] = 1
    /\ \A w \in Workers : Trying(w) /\ cur[w].id \notin excused => accepted[cur[w].id] = 0
    /\ \A d \in Deliveries \ excused :
          accepted[d] = 1 => \/ row[d].status \in {"delivered", "removed"}
                             \/ \E w \in Workers : Told(w) /\ cur[w].id = d

Whole == Inv /\ Truth

LEMMA WholeAtFirst == Init => Whole
<1> SUFFICES ASSUME Init PROVE Whole
  OBVIOUS
<1>1. Truth
  BY DEF Init, Truth, Told, Trying
<1> QED BY <1>1, InvAtFirst DEF Whole

(* What other workers and the clock do to a row leaves it its owner's. *)
LEMMA StaysOwn ==
    ASSUME NEW r \in Delivery, NEW w \in Workers, Own(r, w)
    PROVE  /\ Own(ReclaimStale(r), w) /\ Own(Removed(r), w)
           /\ \A v \in Workers : v # w => Own(ReleaseClaim(r, v), w)
           /\ ~Claimable(r) /\ r.status \notin {"none", "failed"}
<1> USE WorkersAssumption DEF Own, Holds, Claimable, Delivery
<1>1. Own(ReclaimStale(r), w)
  BY DEF ReclaimStale
<1>2. Own(Removed(r), w)
  BY DEF Removed, OnRow, Exists, NoDelivery
<1>3. \A v \in Workers : v # w => Own(ReleaseClaim(r, v), w)
  BY DEF ReleaseClaim
<1> QED BY <1>1, <1>2, <1>3

(* A row that tells that it was delivered, or is gone, goes on telling it.   *)
Final == {"delivered", "removed"}

LEMMA StaysFinal ==
    ASSUME NEW r \in Delivery, r.status \in Final
    PROVE  /\ ReclaimStale(r) = r /\ Removed(r).status \in Final
           /\ \A v \in Workers : ReleaseClaim(r, v) = r
           /\ ~Claimable(r) /\ r.status \notin {"none", "failed"}
<1>1. ReclaimStale(r) = r /\ ~Claimable(r)
  BY DEF Final, ReclaimStale, Claimable
<1>2. Removed(r).status \in Final
  BY DEF Final, Removed, OnRow, Exists, NoDelivery
<1>3. \A v \in Workers : ReleaseClaim(r, v) = r
  BY DEF Final, ReleaseClaim, Holds
<1> QED BY <1>1, <1>2, <1>3 DEF Final

(* A step that begins nothing: nobody comes into budget or is told anything, *)
(* and what is in hand or final stays so, but for deliveries excused.        *)
LEMMA NothingBegins ==
    ASSUME Whole, excused \subseteq excused',
           \A d \in Deliveries \ excused' : accepted'[d] = accepted[d],
           \A w \in Workers : budget'[w] => budget[w] /\ cur'[w] = cur[w],
           \A w \in Workers : Trying(w)' => Trying(w),
           \A w \in Workers : Told(w)' => Told(w) /\ cur'[w] = cur[w],
           \A w \in Workers : Told(w) /\ ~Told(w)'
              => cur[w].id \in excused' \/ row'[cur[w].id].status \in Final,
           \A w \in Workers : (budget'[w] \/ Told(w)') /\ cur[w].id \notin excused'
              => (Own(row[cur[w].id], w) => Own(row'[cur[w].id], w)),
           \A d \in Deliveries \ excused' : row[d].status \in Final => row'[d].status \in Final
    PROVE  Truth'
<1>a. \A w \in Workers : budget[w] \/ Told(w) => cur[w].id \in Deliveries
  <2> SUFFICES ASSUME NEW w \in Workers, budget[w] \/ Told(w) PROVE cur[w].id \in Deliveries
    OBVIOUS
  <2>1. cur[w] \in Snapshot
    BY PCsInclude DEF Whole, Inv, InBudget, Typed, Hands, Told
  <2> QED BY <2>1 DEF Snapshot
<1>1. \A d \in Deliveries \ excused' : accepted'[d] \in {0, 1}
  BY DEF Whole, Truth
<1>2. \A w \in Workers : budget'[w] /\ cur'[w].id \notin excused' => Own(row'[cur'[w].id], w)
  BY DEF Whole, Truth
<1>3. \A w \in Workers : Told(w)' /\ cur'[w].id \notin excused'
                            => Own(row'[cur'[w].id], w) /\ accepted'[cur'[w].id] = 1
  BY <1>a DEF Whole, Truth
<1>4. \A w \in Workers : Trying(w)' /\ cur'[w].id \notin excused' => accepted'[cur'[w].id] = 0
  BY <1>a DEF Whole, Truth, Trying
<1>5. ASSUME NEW d \in Deliveries \ excused', accepted'[d] = 1
      PROVE  row'[d].status \in Final \/ \E w \in Workers : Told(w)' /\ cur'[w].id = d
  <2>1. row[d].status \in Final \/ \E w \in Workers : Told(w) /\ cur[w].id = d
    BY <1>5 DEF Whole, Truth, Final
  <2> QED BY <1>5, <2>1
<1> QED BY <1>1, <1>2, <1>3, <1>4, <1>5 DEF Truth, Told, Trying, Final

(* The rows that are in hand. *)
LEMMA RowsInHand ==
    ASSUME Whole
    PROVE  /\ \A d \in Deliveries : row[d] \in Delivery
           /\ \A w \in Workers : budget[w] \/ Told(w) \/ pc[w] \in InHandPCs
                => cur[w] \in Snapshot /\ cur[w].id \in Deliveries /\ row[cur[w].id] \in Delivery
           /\ \A w \in Workers : (budget[w] \/ Told(w)) /\ cur[w].id \notin excused
                => Own(row[cur[w].id], w)
<1>1. \A d \in Deliveries : row[d] \in Delivery
  BY DEF Whole, Inv, Typed, TypeOK
<1>2. ASSUME NEW w \in Workers, budget[w] \/ Told(w) \/ pc[w] \in InHandPCs PROVE cur[w] \in Snapshot
  BY <1>2, PCsInclude DEF Whole, Inv, InBudget, Typed, Hands, Told
<1>3. ASSUME NEW w \in Workers, cur[w] \in Snapshot PROVE cur[w].id \in Deliveries
  BY <1>3 DEF Snapshot
<1> QED BY <1>1, <1>2, <1>3 DEF Whole, Truth

(* The write of an outcome: on its own row it settles, on another's it is    *)
(* excused.                                                                  *)
LEMMA WriteTells ==
    ASSUME Whole, NEW u \in Workers, NEW ok \in BOOLEAN, NEW r,
           cur[u] \in Snapshot, Write(u, ok, r),
           Told(u) /\ cur[u].id \notin excused => r.status \in Final
    PROVE  Truth'
<1> DEFINE d == cur[u].id
<1>r. d \in Deliveries /\ row[d] \in Delivery
  BY RowsInHand DEF Snapshot
<1>1. /\ budget' = [budget EXCEPT ![u] = FALSE] /\ cur' = [cur EXCEPT ![u] = NoEntry]
      /\ pc' = [pc EXCEPT ![u] = "batch"] /\ answer' = [answer EXCEPT ![u] = "none"]
      /\ row' = IF ok THEN [row EXCEPT ![d] = r] ELSE row
      /\ excused' = IF ok /\ Holds(row[d], u) THEN excused ELSE excused \cup {d}
      /\ UNCHANGED accepted
  BY DEF Write, NextEntry, Goto
<1>2. \A w \in Workers : w # u => /\ budget'[w] = budget[w] /\ cur'[w] = cur[w]
                                  /\ pc'[w] = pc[w] /\ answer'[w] = answer[w]
  BY <1>1 DEF Whole, Inv, Typed, TypeOK
<1>3. ~budget'[u] /\ pc'[u] = "batch" /\ answer'[u] = "none"
  BY <1>1 DEF Whole, Inv, Typed, TypeOK
<1>4. \A e \in Deliveries : row'[e] = IF ok /\ e = d THEN r ELSE row[e]
  BY <1>1 DEF Whole, Inv, Typed, TypeOK
<1>5. d \notin excused' => ok /\ Holds(row[d], u)
  BY <1>1
<1>6. excused \subseteq excused'
  BY <1>1
<1> HIDE DEF d
<1>7. \A w \in Workers : Trying(w)' => Trying(w) /\ w # u
  BY <1>2, <1>3 DEF Trying
<1>8. \A w \in Workers : Told(w)' => Told(w) /\ cur'[w] = cur[w] /\ w # u
  BY <1>2, <1>3 DEF Told
<1>9. \A w \in Workers : w # u => (Told(w)' <=> Told(w))
  BY <1>2 DEF Told
<1>10. Told(u) => d \in excused' \/ row'[d].status \in Final
  BY <1>r, <1>4, <1>5, <1>6 DEF d
<1>11. ASSUME NEW w \in Workers, budget'[w] \/ Told(w)', cur[w].id \notin excused',
              Own(row[cur[w].id], w)
       PROVE  Own(row'[cur[w].id], w)
  <2>1. w # u /\ cur[w].id \in Deliveries
    BY <1>11, <1>2, <1>3, <1>8, RowsInHand
  <2>2. cur[w].id = d => FALSE
    BY <1>5, <1>11, <2>1 DEF Own, Holds
  <2> QED BY <1>4, <1>11, <2>1, <2>2
<1>12. ASSUME NEW e \in Deliveries \ excused', row[e].status \in Final PROVE row'[e].status \in Final
  BY <1>4, <1>5, <1>12 DEF Final, Holds
<1>13. \A w \in Workers : budget'[w] => budget[w] /\ cur'[w] = cur[w]
  BY <1>2, <1>3
<1>14. \A w \in Workers : Told(w) /\ ~Told(w)' => cur[w].id \in excused' \/ row'[cur[w].id].status \in Final
  BY <1>9, <1>10 DEF d
<1> QED BY <1>1, <1>6, <1>7, <1>8, <1>11, <1>12, <1>13, <1>14, NothingBegins

(* The steps of a worker. *)
LEMMA StepTells ==
    ASSUME Whole, NEW u \in Workers, Step(u)
    PROVE  Truth'
<1>h. /\ \A d \in Deliveries : row[d] \in Delivery
      /\ \A w \in Workers : budget[w] \/ Told(w) \/ pc[w] \in InHandPCs
           => cur[w] \in Snapshot /\ cur[w].id \in Deliveries /\ row[cur[w].id] \in Delivery
  BY RowsInHand
<1>w. /\ pc \in [Workers -> PCs] /\ budget \in [Workers -> BOOLEAN] /\ row \in [Deliveries -> Delivery]
      /\ answer \in [Workers -> {"none", "ok", "gone", "throttled", "error"}]
      /\ cur \in [Workers -> Snapshot \cup {NoEntry}]
  BY DEF Whole, Inv, Typed, TypeOK
(* Steps that leave what is in hand and what is accepted... *)
<1>q. ASSUME UNCHANGED <<cur, budget, answer, accepted, excused>>,
             NEW p \in PCs, pc' = [pc EXCEPT ![u] = p],
             p \in Preparing \cup {"posting"} => pc[u] \in Preparing,
             p \in {"answered", "recording"} => pc[u] = "answered" /\ answer[u] = "ok",
             pc[u] = "recording" \/ (pc[u] = "answered" /\ answer[u] = "ok") => p = "recording",
             \A w \in Workers : (budget[w] \/ Told(w)) /\ cur[w].id \notin excused
                /\ Own(row[cur[w].id], w) => Own(row'[cur[w].id], w),
             \A d \in Deliveries : row[d].status \in Final => row'[d].status \in Final
      PROVE  Truth'
  <2>1. \A w \in Workers : pc'[w] = IF w = u THEN p ELSE pc[w]
    BY <1>q, <1>w
  <2>2. \A w \in Workers : Trying(w)' => Trying(w)
    BY <1>q, <2>1 DEF Trying
  <2>3. \A w \in Workers : Told(w)' <=> Told(w)
    BY <1>q, <2>1 DEF Told
  <2> QED BY <1>q, <2>2, <2>3, NothingBegins
(* ...and the row. *)
<1>s. ASSUME UNCHANGED <<row, cur, budget, answer, accepted, excused>>,
             \E p \in PCs : /\ pc' = [pc EXCEPT ![u] = p]
                            /\ p \in Preparing \cup {"posting"} => pc[u] \in Preparing
                            /\ p \in {"answered", "recording"} => pc[u] = "answered" /\ answer[u] = "ok"
                            /\ pc[u] = "recording" \/ (pc[u] = "answered" /\ answer[u] = "ok") => p = "recording"
      PROVE  Truth'
  BY <1>s, <1>q
<1>g. ASSUME NEW S \in SUBSET Due, GetPending(u, S)
      PROVE  /\ \A w \in Workers : (budget[w] \/ Told(w)) /\ cur[w].id \notin excused
                  /\ Own(row[cur[w].id], w) => Own(row'[cur[w].id], w)
             /\ \A d \in Deliveries : row[d].status \in Final => row'[d].status \in Final
  <2>1. \A d \in Deliveries : ~Claimable(row[d]) => row'[d] = row[d]
    BY <1>g DEF GetPending, Due
  <2> QED BY <1>h, <2>1, StaysOwn, StaysFinal
<1>1. ASSUME NEW S \in SUBSET Deliveries, Claim(u, S) PROVE Truth'
  <2>1. /\ S \in SUBSET Due /\ GetPending(u, S) /\ pc[u] = "swept"
        /\ UNCHANGED <<cur, budget, answer, accepted, excused>>
        /\ \E p \in {"idle", "batch"} : pc' = [pc EXCEPT ![u] = p]
    BY <1>1 DEF Claim, Batch, Goto, ghosts
  <2> QED BY <1>q, <1>g, <2>1, PCsInclude DEF Preparing
<1>2. ASSUME NEW e \in todo[u], Renew(u, e) PROVE Truth'
  <2> DEFINE d == e.id
  <2>1. /\ e \in Snapshot /\ d \in Deliveries /\ row[d] \in Delivery /\ Holds(row[d], u)
        /\ pc[u] = "batch"
    BY <1>2 DEF Renew, Whole, Inv, Typed, TypeOK, Snapshot
  <2>2. /\ row' = [row EXCEPT ![d] = Claimed(@, u)] /\ cur' = [cur EXCEPT ![u] = e]
        /\ budget' = [budget EXCEPT ![u] = TRUE] /\ pc' = [pc EXCEPT ![u] = "renewed"]
        /\ UNCHANGED <<answer, accepted, excused>>
    BY <1>2 DEF Renew, Goto, ghosts
  <2>3. /\ \A w \in Workers : w # u => cur'[w] = cur[w] /\ budget'[w] = budget[w] /\ pc'[w] = pc[w]
        /\ cur'[u] = e /\ pc'[u] = "renewed"
        /\ \A c \in Deliveries : row'[c] = IF c = d THEN Claimed(row[d], u) ELSE row[c]
    BY <1>w, <2>1, <2>2
  <2>4. Own(Claimed(row[d], u), u) /\ Claimed(row[d], u).status = "delivering"
    BY <2>1 DEF Own, Holds, Claimed, Delivery
  <2> HIDE DEF d
  <2>5. ~Told(u) /\ ~Told(u)' /\ \A w \in Workers : w # u => (Told(w)' <=> Told(w))
    BY <2>1, <2>2, <2>3 DEF Told
  <2>6. ASSUME NEW w \in Workers, w # u, budget[w] \/ Told(w), cur[w].id \notin excused
        PROVE  cur[w].id # d /\ cur[w].id \in Deliveries
    BY <1>h, <2>1, <2>6, RowsInHand DEF Own, Holds
  <2>7. d \notin excused => accepted[d] = 0
    <3>1. d \notin excused => accepted[d] \in {0, 1}
      BY <2>1 DEF Whole, Truth
    <3>2. d \notin excused /\ accepted[d] = 1 => \E w \in Workers : Told(w) /\ cur[w].id = d
      BY <2>1 DEF Whole, Truth, Holds
    <3> QED BY <2>5, <2>6, <3>1, <3>2
  <2>8. \A w \in Workers : budget'[w] /\ cur'[w].id \notin excused' => Own(row'[cur'[w].id], w)
    <3> SUFFICES ASSUME NEW w \in Workers, budget'[w], cur'[w].id \notin excused'
                 PROVE  Own(row'[cur'[w].id], w)
      OBVIOUS
    <3>1. CASE w = u
      BY <2>1, <2>3, <2>4, <3>1 DEF d
    <3>2. CASE w # u
      BY <2>2, <2>3, <2>6, <3>2, RowsInHand
    <3> QED BY <3>1, <3>2
  <2>9. \A w \in Workers : Told(w)' /\ cur'[w].id \notin excused'
                            => Own(row'[cur'[w].id], w) /\ accepted'[cur'[w].id] = 1
    BY <2>2, <2>3, <2>5, <2>6 DEF Whole, Truth
  <2>10. \A w \in Workers : Trying(w)' /\ cur'[w].id \notin excused' => accepted'[cur'[w].id] = 0
    <3> SUFFICES ASSUME NEW w \in Workers, Trying(w)', cur'[w].id \notin excused'
                 PROVE  accepted'[cur'[w].id] = 0
      OBVIOUS
    <3>1. CASE w = u
      BY <2>2, <2>3, <2>7, <3>1 DEF d
    <3>2. CASE w # u
      <4>1. Trying(w)
        BY <2>3, <3>2 DEF Trying
      <4> QED BY <2>2, <2>3, <3>2, <4>1 DEF Whole, Truth
    <3> QED BY <3>1, <3>2
  <2>11. ASSUME NEW c \in Deliveries \ excused', accepted'[c] = 1
         PROVE  row'[c].status \in {"delivered", "removed"} \/ \E w \in Workers : Told(w)' /\ cur'[w].id = c
    <3>1. c # d
      BY <2>2, <2>7, <2>11
    <3>2. row[c].status \in {"delivered", "removed"} \/ \E w \in Workers : Told(w) /\ cur[w].id = c
      BY <2>2, <2>11 DEF Whole, Truth
    <3> QED BY <2>3, <2>5, <3>1, <3>2
  <2>12. \A c \in Deliveries \ excused' : accepted'[c] \in {0, 1}
    BY <2>2 DEF Whole, Truth
  <2> QED BY <2>8, <2>9, <2>10, <2>11, <2>12 DEF Truth, Told, Trying
<1>r. /\ \A w \in Workers : pc[w] = "posting" => budget[w]
      /\ \A v, w \in Workers : v # w /\ budget[v] /\ budget[w] => cur[v].id # cur[w].id
  BY DEF Whole, Inv, InBudget
<1>3. ASSUME NEW a \in {"ok", "gone", "throttled", "error"}, Respond(u, a) PROVE Truth'
  <2> DEFINE d == cur[u].id
  <2>1. /\ pc[u] = "posting" /\ budget[u] /\ Trying(u) /\ d \in Deliveries
    BY <1>3, <1>h, <1>r DEF Respond, Trying
  <2>2. /\ UNCHANGED <<row, cur, budget, excused>> /\ pc' = [pc EXCEPT ![u] = "answered"]
        /\ answer' = [answer EXCEPT ![u] = a]
        /\ accepted' = IF a = "ok" THEN [accepted EXCEPT ![d] = @ + 1] ELSE accepted
    BY <1>3 DEF Respond, Goto, rows
  <2>3. /\ \A w \in Workers : w # u => pc'[w] = pc[w] /\ answer'[w] = answer[w]
        /\ pc'[u] = "answered" /\ answer'[u] = a
    BY <1>w, <2>2
  <2>4. ~Told(u) /\ (Told(u)' <=> a = "ok") /\ ~Trying(u)'
    BY <2>1, <2>3, PCsInclude DEF Told, Trying, Preparing
  <2>5. \A w \in Workers : w # u => (Told(w)' <=> Told(w)) /\ (Trying(w)' <=> Trying(w))
    BY <2>2, <2>3 DEF Told, Trying
  <2>6. d \notin excused => accepted[d] = 0 /\ Own(row[d], u)
    BY <2>1 DEF Whole, Truth
  <2>7. /\ \A c \in Deliveries : c # d => accepted'[c] = accepted[c]
        /\ d \notin excused => accepted'[d] = IF a = "ok" THEN 1 ELSE 0
    BY <2>1, <2>2, <2>6 DEF Whole, Inv, Typed, TypeOK
  <2> HIDE DEF d
  <2>8. ASSUME NEW w \in Workers, w # u, Told(w) \/ Trying(w), cur[w].id \notin excused
        PROVE  cur[w].id # d /\ cur[w].id \in Deliveries
    <3>1. CASE Trying(w)
      BY <1>h, <1>r, <2>1, <2>8, <3>1 DEF Trying, d
    <3>2. CASE Told(w)
      BY <1>h, <2>6, <2>8, <3>2 DEF Whole, Truth
    <3> QED BY <2>8, <3>1, <3>2
  <2>9. \A w \in Workers : budget'[w] /\ cur'[w].id \notin excused' => Own(row'[cur'[w].id], w)
    BY <2>2 DEF Whole, Truth
  <2>10. ASSUME NEW w \in Workers, Told(w)', cur'[w].id \notin excused'
         PROVE  Own(row'[cur'[w].id], w) /\ accepted'[cur'[w].id] = 1
    <3>1. CASE w = u
      BY <2>2, <2>4, <2>6, <2>7, <2>10, <3>1 DEF d
    <3>2. CASE w # u
      BY <2>2, <2>5, <2>7, <2>8, <2>10, <3>2 DEF Whole, Truth
    <3> QED BY <3>1, <3>2
  <2>11. \A w \in Workers : Trying(w)' /\ cur'[w].id \notin excused' => accepted'[cur'[w].id] = 0
    BY <2>2, <2>4, <2>5, <2>7, <2>8 DEF Whole, Truth
  <2>12. ASSUME NEW c \in Deliveries \ excused', accepted'[c] = 1
         PROVE  row'[c].status \in {"delivered", "removed"} \/ \E w \in Workers : Told(w)' /\ cur'[w].id = c
    <3>1. CASE c = d
      <4>1. a = "ok"
        BY <2>2, <2>7, <2>12, <3>1
      <4> QED BY <2>2, <2>4, <3>1, <4>1 DEF d
    <3>2. CASE c # d
      <4>1. row[c].status \in {"delivered", "removed"} \/ \E w \in Workers : Told(w) /\ cur[w].id = c
        BY <2>2, <2>7, <2>12, <3>2 DEF Whole, Truth
      <4> QED BY <2>2, <2>4, <2>5, <4>1
    <3> QED BY <3>1, <3>2
  <2>13. \A c \in Deliveries \ excused' : accepted'[c] \in {0, 1}
    BY <2>2, <2>7 DEF Whole, Truth
  <2> QED BY <2>9, <2>10, <2>11, <2>12, <2>13 DEF Truth, Told, Trying
<1>4. ASSUME NEW ok \in BOOLEAN, Sweep(u, ok) PROVE Truth'
  <2>1. /\ pc[u] = "idle" /\ pc' = [pc EXCEPT ![u] = "swept"]
        /\ UNCHANGED <<cur, budget, answer, accepted, excused>>
        /\ row' = IF ok THEN [d \in Deliveries |-> ReclaimStale(row[d])] ELSE row
    BY <1>4 DEF Sweep, Goto, worker, ghosts
  <2>2. \A d \in Deliveries : row'[d] \in {row[d], ReclaimStale(row[d])}
    BY <2>1
  <2>3. \A d \in Deliveries : row[d].status \in Final => row'[d].status \in Final
    BY <1>h, <2>2, StaysFinal
  <2>4. \A w \in Workers : (budget[w] \/ Told(w)) /\ Own(row[cur[w].id], w) => Own(row'[cur[w].id], w)
    BY <1>h, <2>2, StaysOwn
  <2> QED BY <1>q, <2>1, <2>3, <2>4, PCsInclude DEF Preparing
<1>5. ASSUME NEW ok \in BOOLEAN, Lookup(u, ok) PROVE Truth'
  <2>1. /\ pc[u] = "renewed" /\ \E p \in {"releasing", "ready", "draining"} : pc' = [pc EXCEPT ![u] = p]
        /\ UNCHANGED <<row, cur, budget, answer, accepted, excused>>
    BY <1>5 DEF Lookup, Goto, rows, ghosts
  <2> QED BY <1>s, <2>1, PCsInclude DEF Preparing
<1>6. ASSUME NEW ok \in BOOLEAN, Drain(u, ok) PROVE Truth'
  BY <1>6, <1>h, PCsInclude, WriteTells DEF Drain, Told
<1>7. ASSUME NEW ok \in BOOLEAN, Release(u, ok) PROVE Truth'
  <2>1. /\ pc[u] = "releasing" /\ budget' = [budget EXCEPT ![u] = FALSE] /\ cur' = [cur EXCEPT ![u] = NoEntry]
        /\ pc' = [pc EXCEPT ![u] = "batch"] /\ answer' = [answer EXCEPT ![u] = "none"]
        /\ UNCHANGED <<accepted, excused>>
        /\ row' = IF ok THEN [row EXCEPT ![cur[u].id] = ReleaseClaim(@, u)] ELSE row
    BY <1>7 DEF Release, NextEntry, Goto, ghosts
  <2>2. /\ \A w \in Workers : w # u => /\ budget'[w] = budget[w] /\ cur'[w] = cur[w]
                                      /\ pc'[w] = pc[w] /\ answer'[w] = answer[w]
        /\ ~budget'[u] /\ pc'[u] = "batch"
    BY <1>w, <2>1
  <2>3. ~Told(u) /\ ~Told(u)' /\ (\A w \in Workers : w # u => (Told(w)' <=> Told(w)))
        /\ \A w \in Workers : Trying(w)' => Trying(w)
    BY <2>1, <2>2 DEF Told, Trying
  <2>4. \A d \in Deliveries : row'[d] \in {row[d], ReleaseClaim(row[d], u)}
    BY <1>w, <2>1
  <2>5. \A d \in Deliveries : row[d].status \in Final => row'[d].status \in Final
    BY <1>h, <2>4, StaysFinal
  <2>6. \A w \in Workers : w # u /\ (budget[w] \/ Told(w)) /\ Own(row[cur[w].id], w)
                            => Own(row'[cur[w].id], w)
    BY <1>h, <2>4, StaysOwn
  <2>7. \A w \in Workers : budget'[w] \/ Told(w)' => w # u /\ (budget[w] \/ Told(w))
    BY <2>2, <2>3
  <2> QED BY <2>1, <2>2, <2>3, <2>5, <2>6, <2>7, NothingBegins
<1>8. ASSUME NEW ok \in BOOLEAN, ResetSubscriptionFailures(u, ok) PROVE Truth'
  BY <1>8, <1>s, PCsInclude DEF ResetSubscriptionFailures, Goto, ghosts, Preparing
<1>9. ASSUME NEW ok \in BOOLEAN, RecordSuccess(u, ok) PROVE Truth'
  <2>1. /\ cur[u] \in Snapshot /\ row[cur[u].id] \in Delivery /\ pc[u] = "recording"
        /\ Write(u, ok, MarkDelivered(row[cur[u].id]))
    BY <1>9, <1>h, PCsInclude DEF RecordSuccess
  <2>2. CASE Exists(row[cur[u].id])
    BY <2>1, <2>2, WriteTells DEF MarkDelivered, OnRow, Delivery, Final
  <2>3. CASE ~Exists(row[cur[u].id])
    <3>1. Told(u) /\ cur[u].id \notin excused => row[cur[u].id].status = "removed"
      BY <2>1, <2>3, RowsInHand DEF Own, Holds, Exists
    <3> QED BY <2>1, <2>3, <3>1, WriteTells DEF MarkDelivered, OnRow, Final
  <2> QED BY <2>2, <2>3
<1>10. ASSUME NEW ok \in BOOLEAN, HandleDeliveryFailure(u, ok) PROVE Truth'
  BY <1>10, <1>h, PCsInclude, WriteTells DEF HandleDeliveryFailure, Told
<1>11. ASSUME NEW ok \in BOOLEAN, ExpireStaleRun(u, ok) PROVE Truth'
  BY <1>11, <1>s, PCsInclude DEF ExpireStaleRun, Goto, ghosts, Preparing
<1>12. ASSUME NEW ok \in BOOLEAN, CountFailure(u, ok) \/ Retire(u, ok) \/ EndpointGone(u, ok) PROVE Truth'
  <2>1. /\ pc[u] \in {"counting", "disabling", "gone"}
        /\ \E p \in {"disabling", "retrying", "draining"} : pc' = [pc EXCEPT ![u] = p]
        /\ UNCHANGED <<row, cur, budget, answer, accepted, excused>>
    BY <1>12 DEF CountFailure, Retire, EndpointGone, Goto, ghosts
  <2> QED BY <1>s, <2>1, PCsInclude DEF Preparing
<1>d. ASSUME row' = [d \in Deliveries |-> Removed(row[d])] \/ row' = row
      PROVE  /\ \A d \in Deliveries : row[d].status \in Final => row'[d].status \in Final
             /\ \A w \in Workers : (budget[w] \/ Told(w)) /\ Own(row[cur[w].id], w)
                                    => Own(row'[cur[w].id], w)
  BY <1>d, <1>h, StaysFinal, StaysOwn
<1>13. ASSUME NEW ok \in BOOLEAN, ZapierGone(u, ok) PROVE Truth'
  <2>1. /\ pc[u] = "gone" /\ \E p \in {"purging", "draining"} : pc' = [pc EXCEPT ![u] = p]
        /\ UNCHANGED <<cur, budget, answer, accepted, excused>>
        /\ (row' = [d \in Deliveries |-> Removed(row[d])] \/ row' = row)
    BY <1>13 DEF ZapierGone, Goto
  <2> QED BY <1>d, <1>q, <2>1, PCsInclude DEF Preparing
<1>14. ASSUME NEW ok \in BOOLEAN, Purge(u, ok) PROVE Truth'
  <2>1. /\ pc[u] = "purging" /\ UNCHANGED <<accepted, excused>>
        /\ (row' = [d \in Deliveries |-> Removed(row[d])] \/ row' = row)
        /\ \A w \in Workers : w # u => /\ budget'[w] = budget[w] /\ cur'[w] = cur[w]
                                      /\ pc'[w] = pc[w] /\ answer'[w] = answer[w]
        /\ pc'[u] \in {"batch", "draining"} /\ (budget'[u] => budget[u] /\ cur'[u] = cur[u])
    BY <1>14, <1>w DEF Purge, NextEntry, Goto, ghosts
  <2>2. ~Told(u) /\ ~Told(u)' /\ (\A w \in Workers : w # u => (Told(w)' <=> Told(w)))
        /\ \A w \in Workers : Trying(w)' => Trying(w)
    BY <2>1, PCsInclude DEF Told, Trying, Preparing
  <2>3. \A w \in Workers : budget'[w] => budget[w] /\ cur'[w] = cur[w]
    BY <2>1
  <2>4. \A w \in Workers : (budget'[w] \/ Told(w)') /\ Own(row[cur[w].id], w) => Own(row'[cur[w].id], w)
    BY <1>d, <2>1, <2>2, <2>3
  <2> QED BY <1>d, <2>1, <2>2, <2>3, <2>4, NothingBegins
<1>15. ASSUME ClaimFails(u) PROVE Truth'
  <2>1. /\ pc[u] = "swept" /\ pc' = [pc EXCEPT ![u] = "idle"]
        /\ UNCHANGED <<cur, budget, answer, accepted, excused>>
        /\ \E S \in SUBSET Due : GetPending(u, S)
    BY <1>15 DEF ClaimFails, Batch, Goto, worker, ghosts
  <2> QED BY <1>q, <1>g, <2>1, PCsInclude DEF Preparing
<1>16. ASSUME NEW e \in todo[u], NotRenewed(u, e) PROVE Truth'
  <2>1. UNCHANGED <<row, cur, budget, answer, accepted, excused, pc>>
    BY <1>16 DEF NotRenewed, rows, ghosts
  <2> QED BY <2>1, NothingBegins DEF Told, Trying
<1>17. ASSUME EndBatch(u) PROVE Truth'
  BY <1>17, <1>s, PCsInclude DEF EndBatch, Goto, rows, ghosts, Preparing
<1>18. ASSUME Post(u) PROVE Truth'
  <2>1. /\ UNCHANGED <<row, cur, budget, answer, accepted, excused>> /\ pc[u] = "ready"
        /\ pc' = [pc EXCEPT ![u] = "posting"]
    BY <1>18 DEF Post, Goto, rows, worker
  <2> QED BY <1>s, <2>1, PCsInclude DEF Preparing
<1>19. ASSUME OutOfBudget(u) PROVE Truth'
  BY <1>19, <1>s, PCsInclude DEF OutOfBudget, Goto, rows, worker, ghosts, Preparing
<1>20. ASSUME Triage(u) PROVE Truth'
  <2>1. /\ answer[u] \in {"gone", "throttled", "error"} /\ pc[u] = "answered"
        /\ UNCHANGED <<row, cur, budget, answer, accepted, excused>>
    BY <1>20, PCsInclude DEF Triage, rows, worker, ghosts, Whole, Inv, Typed, TypeOK, Hands
  <2>2. \E p \in {"gone", "retrying", "expiring"} : pc' = [pc EXCEPT ![u] = p]
    BY <1>20, <2>1 DEF Triage, Goto
  <2> QED BY <1>s, <2>1, <2>2, PCsInclude DEF Preparing
<1> QED
  BY <1>1, <1>2, <1>3, <1>4, <1>5, <1>6, <1>7, <1>8, <1>9, <1>10, <1>11, <1>12, <1>13, <1>14,
     <1>15, <1>16, <1>17, <1>18, <1>19, <1>20 DEF Step

LEMMA NextTells ==
    ASSUME Whole, [Next]_vars
    PROVE  Whole'
<1>v. Inv'
  BY NextKeepsBudgets DEF Whole
<1>h. /\ \A d \in Deliveries : row[d] \in Delivery
      /\ \A w \in Workers : budget[w] \/ Told(w) \/ pc[w] \in InHandPCs
           => cur[w] \in Snapshot /\ cur[w].id \in Deliveries /\ row[cur[w].id] \in Delivery
      /\ \A w \in Workers : (budget[w] \/ Told(w)) /\ cur[w].id \notin excused
           => Own(row[cur[w].id], w)
  BY RowsInHand
<1>w. /\ pc \in [Workers -> PCs] /\ budget \in [Workers -> BOOLEAN] /\ row \in [Deliveries -> Delivery]
      /\ answer \in [Workers -> {"none", "ok", "gone", "throttled", "error"}]
      /\ cur \in [Workers -> Snapshot \cup {NoEntry}]
  BY DEF Whole, Inv, Typed, TypeOK
(* The workers are left alone. *)
<1>q. ASSUME UNCHANGED <<pc, cur, budget, answer, accepted>>, excused \subseteq excused',
             \A w \in Workers : (budget[w] \/ Told(w)) /\ cur[w].id \notin excused'
                /\ Own(row[cur[w].id], w) => Own(row'[cur[w].id], w),
             \A d \in Deliveries : row[d].status \in Final => row'[d].status \in Final
      PROVE  Truth'
  BY <1>q, NothingBegins DEF Told, Trying
(* One row changes, which nobody has in hand. *)
<1>o. ASSUME UNCHANGED <<pc, cur, budget, answer, accepted>>, excused \subseteq excused',
             NEW d \in Deliveries, NEW r, row' = [row EXCEPT ![d] = r],
             \A w \in Workers : (budget[w] \/ Told(w)) /\ cur[w].id \notin excused' => cur[w].id # d,
             row[d].status \in Final => r.status \in Final
      PROVE  Truth'
  <2>1. \A c \in Deliveries : row'[c] = IF c = d THEN r ELSE row[c]
    BY <1>o, <1>w
  <2>2. \A w \in Workers : (budget[w] \/ Told(w)) /\ cur[w].id \notin excused'
                => row'[cur[w].id] = row[cur[w].id]
    BY <1>h, <1>o, <2>1
  <2> QED BY <1>o, <1>q, <2>1, <2>2
<1>d. ASSUME UNCHANGED <<pc, cur, budget, answer, accepted, excused>>,
             row' = [d \in Deliveries |-> Removed(row[d])] \/ row' = row
      PROVE  Truth'
  <2>1. \A d \in Deliveries : row[d].status \in Final => row'[d].status \in Final
    BY <1>d, <1>h, StaysFinal
  <2>2. \A w \in Workers : (budget[w] \/ Told(w)) /\ Own(row[cur[w].id], w) => Own(row'[cur[w].id], w)
    BY <1>d, <1>h, StaysOwn
  <2> QED BY <1>d, <1>q, <2>1, <2>2
<1>1. CASE UNCHANGED vars
  <2>1. UNCHANGED <<row, pc, cur, budget, answer, accepted, excused>>
    BY <1>1 DEF vars, rows, worker, ghosts
  <2> QED BY <1>v, <1>d, <2>1 DEF Whole
<1>2. ASSUME NEW u \in Workers, Step(u) PROVE Whole'
  BY <1>2, <1>v, StepTells DEF Whole
<1>3. ASSUME NEW u \in Workers, BudgetSpent(u) PROVE Whole'
  <2>1. /\ budget[u] /\ budget' = [budget EXCEPT ![u] = FALSE] /\ UNCHANGED <<row, cur, accepted, excused>>
        /\ \/ /\ pc[u] = "posting" /\ pc' = [pc EXCEPT ![u] = "answered"]
              /\ answer' = [answer EXCEPT ![u] = "error"]
           \/ pc[u] # "posting" /\ UNCHANGED <<pc, answer>>
    BY <1>3 DEF BudgetSpent, Goto, rows
  <2>2. \A w \in Workers : w # u => /\ budget'[w] = budget[w] /\ pc'[w] = pc[w] /\ answer'[w] = answer[w]
    BY <1>w, <2>1
  <2>3. ~budget'[u] /\ (Told(u)' <=> Told(u))
    BY <1>w, <2>1 DEF Told
  <2>4. \A w \in Workers : (Told(w)' <=> Told(w)) /\ (Trying(w)' => Trying(w)) /\ (budget'[w] => budget[w])
    BY <2>2, <2>3 DEF Told, Trying
  <2>5. Truth'
    BY <2>1, <2>4, NothingBegins
  <2> QED BY <1>v, <2>5 DEF Whole
<1>4. ASSUME NEW u \in Workers, Crash(u) PROVE Whole'
  <2>1. /\ UNCHANGED <<row, accepted>> /\ cur' = [cur EXCEPT ![u] = NoEntry]
        /\ budget' = [budget EXCEPT ![u] = FALSE] /\ pc' = [pc EXCEPT ![u] = "idle"]
        /\ answer' = [answer EXCEPT ![u] = "none"] /\ excused \subseteq excused'
        /\ Told(u) => cur[u].id \in excused'
    BY <1>4 DEF Crash, Goto, rows, Told, Recording
  <2>2. /\ \A w \in Workers : w # u => /\ budget'[w] = budget[w] /\ pc'[w] = pc[w]
                                      /\ answer'[w] = answer[w] /\ cur'[w] = cur[w]
        /\ ~budget'[u] /\ pc'[u] = "idle"
    BY <1>w, <2>1
  <2>3. /\ ~Told(u)' /\ \A w \in Workers : w # u => (Told(w)' <=> Told(w))
        /\ \A w \in Workers : Trying(w)' => Trying(w)
    BY <2>2 DEF Told, Trying
  <2>4. Truth'
    BY <2>1, <2>2, <2>3, NothingBegins
  <2> QED BY <1>v, <2>4 DEF Whole
<1>5. ASSUME NEW d \in Deliveries, Fire(d) PROVE Whole'
  <2>1. \A w \in Workers : (budget[w] \/ Told(w)) /\ cur[w].id \notin excused => cur[w].id # d
    BY <1>5, <1>h, StaysOwn DEF Fire
  <2>2. /\ UNCHANGED <<pc, cur, budget, answer, accepted, excused>> /\ row[d].status = "none"
        /\ row' = [row EXCEPT ![d] = Inserted]
    BY <1>5 DEF Fire, worker, ghosts
  <2>3. Truth'
    BY <1>o, <2>1, <2>2 DEF Final
  <2> QED BY <1>v, <2>3 DEF Whole
<1>6. ASSUME NEW d \in Deliveries, LeaseExpires(d) PROVE Whole'
  <2>1. /\ UNCHANGED <<pc, cur, budget, answer, accepted>> /\ row[d].status = "delivering"
        /\ row' = [row EXCEPT ![d].stale = TRUE] /\ ~row[d].stale
        /\ InHand(row[d].claim, d) => ~budget[row[d].claim]
        /\ excused \subseteq excused'
        /\ InHand(row[d].claim, d) /\ pc[row[d].claim] \in Recording => d \in excused'
    BY <1>6 DEF LeaseExpires, worker
  <2>2. \A w \in Workers : (budget[w] \/ Told(w)) /\ cur[w].id \notin excused' => cur[w].id # d
    <3> SUFFICES ASSUME NEW w \in Workers, budget[w] \/ Told(w), d \notin excused', cur[w].id = d
                 PROVE  FALSE
      OBVIOUS
    <3>1. row[d].claim = w
      BY <1>h, <2>1 DEF Own, Holds
    <3> QED BY <2>1, <3>1 DEF InHand, Told, Recording
  <2>3. Truth'
    BY <1>o, <2>1, <2>2 DEF Final
  <2> QED BY <1>v, <2>3 DEF Whole
<1>7. ASSUME NEW d \in Deliveries, FallsDue(d) PROVE Whole'
  <2>1. /\ UNCHANGED <<pc, cur, budget, answer, accepted, excused>> /\ row[d].status = "failed"
        /\ row' = [row EXCEPT ![d].due = TRUE]
    BY <1>7 DEF FallsDue, worker, ghosts
  <2>2. \A w \in Workers : (budget[w] \/ Told(w)) /\ cur[w].id \notin excused => cur[w].id # d
    BY <1>h, <2>1, StaysOwn
  <2>3. Truth'
    BY <1>o, <2>1, <2>2 DEF Final
  <2> QED BY <1>v, <2>3 DEF Whole
<1>8. ASSUME NEW d \in Deliveries, Cleanup(d) PROVE Whole'
  <2>1. /\ UNCHANGED <<pc, cur, budget, answer, accepted, excused>>
        /\ row' = [row EXCEPT ![d] = Removed(row[d])] /\ \A w \in Workers : cur[w].id # d
    BY <1>8 DEF Cleanup, worker, ghosts, InHand
  <2>2. row[d].status \in Final => Removed(row[d]).status \in Final
    BY <1>h, StaysFinal
  <2>3. Truth'
    BY <1>o, <2>1, <2>2
  <2> QED BY <1>v, <2>3 DEF Whole
<1>9. ASSUME \/ \E op \in {"edit", "on", "off", "delete"} : BeginRequest(op)
             \/ EndRequest \/ RunAges
      PROVE  Whole'
  <2>1. /\ UNCHANGED <<pc, cur, budget, answer, accepted, excused>>
        /\ (row' = [d \in Deliveries |-> Removed(row[d])] \/ row' = row)
    BY <1>9 DEF BeginRequest, EndRequest, RunAges, worker, ghosts
  <2> QED BY <1>v, <1>d, <2>1 DEF Whole
<1> QED BY <1>1, <1>2, <1>3, <1>4, <1>5, <1>6, <1>7, <1>8, <1>9 DEF Next

(* A receiver is given a delivery again after accepting it only if that      *)
(* outcome was lost or recorded after the lease, since the retry, the sweep  *)
(* and the release of claims all leave the row of a delivery that was        *)
(* accepted to the worker that was told (webhook_delivery_worker.go).        *)
THEOREM DeliveredOnce == Spec => []OnceUnlessExcused
<1>1. Whole => OnceUnlessExcused
  BY DEF Whole, Truth, OnceUnlessExcused
<1> QED BY WholeAtFirst, NextTells, <1>1, PTL DEF Spec
-----------------------------------------------------------------------------
(* What the statements do to the fate of a delivery. *)
LEMMA Fates ==
    ASSUME NEW r \in Delivery, NEW w \in Workers
    PROVE  /\ Fate(r) \in {"none", "queued", "delivered", "abandoned", "removed"}
           /\ Fate(r) = "none" <=> r.status = "none"
           /\ Claimable(r) \/ Holds(r, w) => Fate(r) = "queued" /\ Fate(Claimed(r, w)) = "queued"
           /\ Fate(ReclaimStale(r)) = Fate(r) /\ Fate(ReleaseClaim(r, w)) = Fate(r)
           /\ Fate([r EXCEPT !.stale = TRUE]) = Fate(r) /\ Fate([r EXCEPT !.due = TRUE]) = Fate(r)
           /\ Fate(Removed(r)) # Fate(r) => Fate(r) # "none" /\ Fate(Removed(r)) = "removed"
<1> USE LadderAssumption DEF Delivery, Fate
<1>1. /\ Fate(r) \in {"none", "queued", "delivered", "abandoned", "removed"}
      /\ Fate(r) = "none" <=> r.status = "none"
  OBVIOUS
<1>2. Claimable(r) \/ Holds(r, w) => Fate(r) = "queued" /\ Fate(Claimed(r, w)) = "queued"
  BY DEF Claimable, Holds, Claimed
<1>3. Fate(ReclaimStale(r)) = Fate(r)
  BY DEF ReclaimStale
<1>4. Fate(ReleaseClaim(r, w)) = Fate(r)
  BY DEF ReleaseClaim, Holds
<1>5. Fate([r EXCEPT !.stale = TRUE]) = Fate(r) /\ Fate([r EXCEPT !.due = TRUE]) = Fate(r)
  OBVIOUS
<1>6. Fate(Removed(r)) # Fate(r) => Fate(r) # "none" /\ Fate(Removed(r)) = "removed"
  BY DEF Removed, OnRow, Exists, NoDelivery
<1> QED BY <1>1, <1>2, <1>3, <1>4, <1>5, <1>6

LEMMA FatesWritten ==
    ASSUME NEW r \in Delivery, NEW n \in 0 .. MaxAttempts,
           NEW o \in {MarkDelivered(r), ScheduleRetry(r, n), MarkFailed(r, n)}
    PROVE  /\ o \in Delivery
           /\ Fate(o) = "none" <=> Fate(r) = "none"
           /\ Fate(r) = "removed" => Fate(o) = "removed"
<1>1. o \in Delivery
  BY OutcomesTyped
<1>2. Exists(r) => o.status \in {"delivered", "failed"}
  BY DEF MarkDelivered, ScheduleRetry, MarkFailed, OnRow, Delivery
<1>3. ~Exists(r) => o = r
  BY DEF MarkDelivered, ScheduleRetry, MarkFailed, OnRow
<1> QED BY <1>1, <1>2, <1>3 DEF Fate, Exists, Delivery

LEMMA FatesSettled ==
    ASSUME NEW r \in Delivery, NEW w \in Workers, Holds(r, w), NEW n \in 0 .. MaxAttempts
    PROVE  /\ Fate(MarkDelivered(r)) = "delivered"
           /\ n < MaxAttempts => Fate(ScheduleRetry(r, n)) = "queued"
           /\ n >= MaxAttempts => Fate(MarkFailed(r, n)) = "abandoned"
<1> USE LadderAssumption DEF Delivery, Fate, OnRow, Exists, Holds
<1>1. Fate(MarkDelivered(r)) = "delivered"
  BY DEF MarkDelivered
<1>2. n < MaxAttempts => Fate(ScheduleRetry(r, n)) = "queued"
  BY DEF ScheduleRetry
<1>3. n >= MaxAttempts => Fate(MarkFailed(r, n)) = "abandoned"
  BY DEF MarkFailed
<1> QED BY <1>1, <1>2, <1>3

fate == [d \in Deliveries |-> Fate(row[d])]

LEMMA PromiseAtFirst == Init => Promise!Init
BY DEF Init, Promise!Init, Fate, NoDelivery

Refined == Promise!Next \/ UNCHANGED Promise!vars

(* Fates change at one delivery... *)
LEMMA OneFate ==
    ASSUME Whole, NEW d \in Deliveries, NEW r \in Delivery, row' = [row EXCEPT ![d] = r]
    PROVE  fate' = [fate EXCEPT ![d] = Fate(r)]
BY DEF fate, Whole, Inv, Typed, TypeOK

(* ...or at none. *)
LEMMA SameFates ==
    ASSUME \A d \in Deliveries : Fate(row'[d]) = Fate(row[d]), UNCHANGED <<accepted, excused>>
    PROVE  Refined
BY DEF Refined, Promise!vars

(* An excused delivery may have its fate written over. *)
LEMMA ExcusedRefines ==
    ASSUME Whole, NEW d \in Deliveries, excused' = excused \cup {d},
           NEW n \in {accepted[d], accepted[d] + 1}, accepted' = [accepted EXCEPT ![d] = n],
           NEW f \in {"none", "queued", "delivered", "abandoned", "removed"},
           f = "none" <=> fate[d] = "none", fate[d] = "removed" => f = "removed",
           fate' = [fate EXCEPT ![d] = f]
    PROVE  Refined
<1>1. Promise!Excuse(d)
  BY DEF Promise!Excuse, Promise!Fates, fate
<1> QED BY <1>1 DEF Refined, Promise!Next

LEMMA WriteRefines ==
    ASSUME Whole, NEW u \in Workers, NEW ok \in BOOLEAN, cur[u] \in Snapshot,
           NEW n \in 0 .. MaxAttempts,
           NEW r \in {MarkDelivered(row[cur[u].id]), ScheduleRetry(row[cur[u].id], n),
                      MarkFailed(row[cur[u].id], n)},
           Write(u, ok, r),
           Holds(row[cur[u].id], u) /\ cur[u].id \notin excused
             => \/ Fate(r) = "queued"
                \/ Fate(r) = "delivered" /\ accepted[cur[u].id] = 1
                \/ Fate(r) = "abandoned" /\ accepted[cur[u].id] = 0
    PROVE  Refined
<1> DEFINE d == cur[u].id
<1>1. /\ d \in Deliveries /\ row[d] \in Delivery /\ accepted[d] \in Nat
      /\ accepted' = [accepted EXCEPT ![d] = accepted[d]] /\ fate[d] = Fate(row[d])
  BY RowsInHand DEF Snapshot, Write, fate, Whole, Inv, Typed, TypeOK
<1>2. /\ r \in Delivery /\ (Fate(r) = "none" <=> Fate(row[d]) = "none")
      /\ Fate(row[d]) = "removed" => Fate(r) = "removed"
  BY <1>1, FatesWritten
<1>3. /\ Fate(r) \in {"none", "queued", "delivered", "abandoned", "removed"}
      /\ Fate(row[d]) \in {"none", "queued", "delivered", "abandoned", "removed"}
      /\ Holds(row[d], u) => Fate(row[d]) = "queued"
  BY <1>1, <1>2, Fates
<1>4. /\ row' = IF ok THEN [row EXCEPT ![d] = r] ELSE row
      /\ excused' = IF ok /\ Holds(row[d], u) THEN excused ELSE excused \cup {d}
      /\ UNCHANGED accepted
  BY DEF Write
<1>5. \E f \in {Fate(r), Fate(row[d])} : fate' = [fate EXCEPT ![d] = f]
  <2>1. ok => fate' = [fate EXCEPT ![d] = Fate(r)]
    BY <1>1, <1>2, <1>4, OneFate
  <2>2. ~ok => fate' = [fate EXCEPT ![d] = Fate(row[d])]
    BY <1>4 DEF fate
  <2> QED BY <2>1, <2>2
<1> HIDE DEF d
<1>6. CASE ok /\ Holds(row[d], u) /\ d \notin excused
  <2>1. /\ fate' = [fate EXCEPT ![d] = Fate(r)] /\ fate[d] = "queued"
        /\ UNCHANGED <<accepted, excused>>
    BY <1>1, <1>2, <1>3, <1>4, <1>6, OneFate
  <2>2. CASE Fate(r) = "queued"
    <3>1. \A e \in Deliveries : Fate(row'[e]) = Fate(row[e])
      BY <1>1, <1>2, <1>3, <1>4, <1>6, <2>2 DEF Whole, Inv, Typed, TypeOK
    <3> QED BY <2>1, <3>1, SameFates
  <2>3. CASE Fate(r) = "delivered" /\ accepted[d] = 1
    BY <1>1, <2>1, <2>3 DEF Refined, Promise!Next, Promise!Deliver, Promise!Becomes, fate
  <2>4. CASE Fate(r) = "abandoned" /\ accepted[d] = 0
    BY <1>1, <2>1, <2>4 DEF Refined, Promise!Next, Promise!GiveUp, Promise!Becomes, fate
  <2> QED BY <1>6, <2>2, <2>3, <2>4 DEF d
<1>7. CASE ~(ok /\ Holds(row[d], u) /\ d \notin excused)
  <2>1. excused' = excused \cup {d}
    BY <1>4, <1>7
  <2> QED BY <1>1, <1>2, <1>3, <1>5, <2>1, ExcusedRefines
<1> QED BY <1>6, <1>7

(* Whoever has the row in hand and was not told of an acceptance knows that  *)
(* there was none.                                                           *)
LEMMA NoneAccepted ==
    ASSUME Whole, NEW u \in Workers, ~Told(u), NEW d \in Deliveries \ excused, Holds(row[d], u)
    PROVE  accepted[d] = 0
<1>1. accepted[d] \in {0, 1}
  BY DEF Whole, Truth
<1>2. row[d].status = "delivering"
  BY DEF Holds
<1>3. ASSUME accepted[d] = 1 PROVE FALSE
  <2>1. PICK w \in Workers : Told(w) /\ cur[w].id = d
    BY <1>2, <1>3 DEF Whole, Truth
  <2>2. Own(row[d], w)
    BY <2>1 DEF Whole, Truth
  <2> QED BY <1>2, <2>1, <2>2 DEF Own, Holds
<1> QED BY <1>1, <1>3

LEMMA RemovedFates ==
    ASSUME NEW r \in Delivery
    PROVE  Fate(Removed(r)) # Fate(r) => Fate(r) # "none" /\ Fate(Removed(r)) = "removed"
BY LadderAssumption DEF Delivery, Fate, Removed, OnRow, Exists, NoDelivery

LEMMA AllFates ==
    ASSUME NEW r \in Delivery
    PROVE  /\ Fate(r) \in {"none", "queued", "delivered", "abandoned", "removed"}
           /\ Fate(Removed(r)) \in {"none", "queued", "delivered", "abandoned", "removed"}
           /\ Fate([r EXCEPT !.stale = TRUE]) = Fate(r) /\ Fate([r EXCEPT !.due = TRUE]) = Fate(r)
<1> USE LadderAssumption DEF Delivery, Fate
<1>1. /\ Fate(r) \in {"none", "queued", "delivered", "abandoned", "removed"}
      /\ Fate([r EXCEPT !.stale = TRUE]) = Fate(r) /\ Fate([r EXCEPT !.due = TRUE]) = Fate(r)
  OBVIOUS
<1>2. Fate(Removed(r)) \in {"none", "queued", "delivered", "abandoned", "removed"}
  BY <1>1, RemovedFates
<1> QED BY <1>1, <1>2

LEMMA RemovalRefines ==
    ASSUME Whole, UNCHANGED <<accepted, excused>>,
           \A d \in Deliveries : row'[d] \in {row[d], Removed(row[d])}
    PROVE  Refined
<1>1. ASSUME NEW d \in Deliveries
      PROVE  /\ Fate(row'[d]) # Fate(row[d]) => Fate(row[d]) # "none" /\ Fate(row'[d]) = "removed"
             /\ Fate(row'[d]) \in {"none", "queued", "delivered", "abandoned", "removed"}
  <2>1. row[d] \in Delivery
    BY RowsInHand
  <2> QED BY <1>1, <2>1, RemovedFates, AllFates
<1>2. Promise!Remove
  BY <1>1 DEF Promise!Remove, Promise!Fates
<1> QED BY <1>2 DEF Refined, Promise!Next

LEMMA StepRefines ==
    ASSUME Whole, NEW u \in Workers, Step(u)
    PROVE  Refined
<1>h. /\ \A d \in Deliveries : row[d] \in Delivery
      /\ \A w \in Workers : budget[w] \/ Told(w) \/ pc[w] \in InHandPCs
           => cur[w] \in Snapshot /\ cur[w].id \in Deliveries /\ row[cur[w].id] \in Delivery
  BY RowsInHand
<1>w. row \in [Deliveries -> Delivery] /\ accepted \in [Deliveries -> Nat]
  BY DEF Whole, Inv, Typed, TypeOK
<1>s. UNCHANGED <<row, accepted, excused>> => Refined
  BY SameFates
<1>f. \A d \in Deliveries :
         /\ Claimable(row[d]) \/ Holds(row[d], u) => Fate(Claimed(row[d], u)) = Fate(row[d])
         /\ Fate(ReclaimStale(row[d])) = Fate(row[d]) /\ Fate(ReleaseClaim(row[d], u)) = Fate(row[d])
  <2> SUFFICES ASSUME NEW d \in Deliveries
               PROVE  /\ Claimable(row[d]) \/ Holds(row[d], u) => Fate(Claimed(row[d], u)) = Fate(row[d])
                      /\ Fate(ReclaimStale(row[d])) = Fate(row[d])
                      /\ Fate(ReleaseClaim(row[d], u)) = Fate(row[d])
    OBVIOUS
  <2>1. row[d] \in Delivery
    BY <1>h
  <2> QED BY <2>1, Fates
<1>g. ASSUME NEW S \in SUBSET Due, GetPending(u, S), UNCHANGED <<accepted, excused>> PROVE Refined
  <2>1. ASSUME NEW d \in Deliveries PROVE Fate(row'[d]) = Fate(row[d])
    <3>1. row'[d] = row[d] \/ (Claimable(row[d]) /\ row'[d] = Claimed(row[d], u))
      BY <1>g DEF GetPending, Due
    <3> QED BY <1>f, <3>1
  <2> QED BY <1>g, <2>1, SameFates
<1>1. ASSUME NEW S \in SUBSET Deliveries, Claim(u, S) PROVE Refined
  BY <1>1, <1>g DEF Claim, Batch, ghosts
<1>2. ASSUME NEW e \in todo[u], Renew(u, e) PROVE Refined
  <2>1. /\ e.id \in Deliveries /\ Holds(row[e.id], u) /\ UNCHANGED <<accepted, excused>>
        /\ row' = [row EXCEPT ![e.id] = Claimed(@, u)]
    BY <1>2 DEF Renew, ghosts, Whole, Inv, Typed, TypeOK, Snapshot
  <2>2. \A d \in Deliveries : row'[d] = IF d = e.id THEN Claimed(row[d], u) ELSE row[d]
    BY <1>w, <2>1
  <2>3. \A d \in Deliveries : Fate(row'[d]) = Fate(row[d])
    BY <1>f, <2>1, <2>2
  <2> QED BY <2>1, <2>3, SameFates
<1>3. ASSUME NEW a \in {"ok", "gone", "throttled", "error"}, Respond(u, a) PROVE Refined
  <2> DEFINE d == cur[u].id
  <2>1. /\ pc[u] = "posting" /\ budget[u] /\ d \in Deliveries /\ UNCHANGED <<row, excused>>
        /\ accepted' = IF a = "ok" THEN [accepted EXCEPT ![d] = @ + 1] ELSE accepted
    BY <1>3, <1>h DEF Respond, rows, Whole, Inv, InBudget
  <2>2. CASE a # "ok"
    BY <1>s, <2>1, <2>2
  <2>3. CASE a = "ok" /\ d \in excused
    <3>1. /\ excused' = excused \cup {d} /\ fate' = [fate EXCEPT ![d] = fate[d]]
          /\ accepted' = [accepted EXCEPT ![d] = accepted[d] + 1]
          /\ fate[d] \in {"none", "queued", "delivered", "abandoned", "removed"}
      BY <1>h, <2>1, <2>3, Fates DEF fate
    <3> HIDE DEF d
    <3> QED BY <2>1, <3>1, ExcusedRefines
  <2>4. CASE a = "ok" /\ d \notin excused
    <3>1. accepted[d] = 0 /\ Own(row[d], u)
      BY <2>1, <2>4 DEF Whole, Truth, Trying
    <3>2. Fate(row[d]) \in {"queued", "removed"}
      BY <1>h, <2>1, <3>1, Fates DEF Own, Fate
    <3>3. accepted' = [accepted EXCEPT ![d] = 1]
      BY <2>1, <2>4, <3>1
    <3> HIDE DEF d
    <3>4. Promise!Accept(d)
      BY <2>1, <3>1, <3>2, <3>3 DEF Promise!Accept
    <3> QED BY <2>1, <3>4 DEF Refined, Promise!Next
  <2> QED BY <2>2, <2>3, <2>4
<1>4. ASSUME NEW ok \in BOOLEAN, Sweep(u, ok) PROVE Refined
  <2>1. \A d \in Deliveries : row'[d] \in {row[d], ReclaimStale(row[d])}
    BY <1>4 DEF Sweep
  <2>2. \A d \in Deliveries : Fate(row'[d]) = Fate(row[d])
    BY <1>f, <2>1
  <2> QED BY <1>4, <2>2, SameFates DEF Sweep, ghosts
<1>5. ASSUME NEW ok \in BOOLEAN, Drain(u, ok) PROVE Refined
  <2> DEFINE r == MarkFailed(row[cur[u].id], MaxAttempts)
  <2>1. /\ pc[u] = "draining" /\ cur[u] \in Snapshot /\ cur[u].id \in Deliveries
        /\ row[cur[u].id] \in Delivery /\ Write(u, ok, r) /\ ~Told(u)
    BY <1>5, <1>h, PCsInclude DEF Drain, Told
  <2>2. Holds(row[cur[u].id], u) => Fate(r) = "abandoned"
    BY <2>1, FatesSettled, Bounds, LadderAssumption
  <2>3. Holds(row[cur[u].id], u) /\ cur[u].id \notin excused => accepted[cur[u].id] = 0
    BY <2>1, NoneAccepted
  <2> HIDE DEF r
  <2> QED BY <2>1, <2>2, <2>3, Bounds, WriteRefines DEF r
<1>6. ASSUME NEW ok \in BOOLEAN, Release(u, ok) PROVE Refined
  <2>1. \A d \in Deliveries : row'[d] \in {row[d], ReleaseClaim(row[d], u)}
    BY <1>6, <1>w DEF Release
  <2>2. \A d \in Deliveries : Fate(row'[d]) = Fate(row[d])
    BY <1>f, <2>1
  <2> QED BY <1>6, <2>2, SameFates DEF Release, ghosts
<1>7. ASSUME NEW ok \in BOOLEAN, RecordSuccess(u, ok) PROVE Refined
  <2> DEFINE r == MarkDelivered(row[cur[u].id])
  <2>1. /\ pc[u] = "recording" /\ cur[u] \in Snapshot /\ cur[u].id \in Deliveries
        /\ row[cur[u].id] \in Delivery /\ Write(u, ok, r)
    BY <1>7, <1>h, PCsInclude DEF RecordSuccess
  <2>2. Holds(row[cur[u].id], u) => Fate(r) = "delivered"
    BY <2>1, FatesSettled, Bounds
  <2>3. cur[u].id \notin excused => accepted[cur[u].id] = 1
    BY <2>1 DEF Whole, Truth, Told
  <2> HIDE DEF r
  <2> QED BY <2>1, <2>2, <2>3, Bounds, WriteRefines DEF r
<1>8. ASSUME NEW ok \in BOOLEAN, HandleDeliveryFailure(u, ok) PROVE Refined
  <2> DEFINE n == cur[u].attempts + 1
  <2> DEFINE r == IF n >= MaxAttempts THEN MarkFailed(row[cur[u].id], n)
                                      ELSE ScheduleRetry(row[cur[u].id], n)
  <2>1. /\ pc[u] = "retrying" /\ cur[u] \in Snapshot /\ cur[u].id \in Deliveries
        /\ row[cur[u].id] \in Delivery /\ Write(u, ok, r) /\ ~Told(u)
    BY <1>8, <1>h, PCsInclude DEF HandleDeliveryFailure, Told
  <2>2. cur[u].attempts \in 0 .. MaxAttempts /\ cur[u].attempts < MaxAttempts
    BY <2>1 DEF Whole, Inv, Typed, Hands, Snapshot
  <2>3. n \in 0 .. MaxAttempts /\ (n >= MaxAttempts \/ n < MaxAttempts)
    BY <2>2, LadderAssumption
  <2> HIDE DEF n
  <2>4. Holds(row[cur[u].id], u) => Fate(r) \in {"abandoned", "queued"}
    BY <2>1, <2>3, FatesSettled
  <2>5. Holds(row[cur[u].id], u) /\ cur[u].id \notin excused => accepted[cur[u].id] = 0
    BY <2>1, NoneAccepted
  <2>6. r \in {MarkDelivered(row[cur[u].id]), ScheduleRetry(row[cur[u].id], n),
                MarkFailed(row[cur[u].id], n)}
    OBVIOUS
  <2> HIDE DEF r
  <2> QED BY <2>1, <2>3, <2>4, <2>5, <2>6, WriteRefines
<1>9. ASSUME NEW ok \in BOOLEAN, ZapierGone(u, ok) \/ Purge(u, ok) PROVE Refined
  <2>1. \A d \in Deliveries : row'[d] \in {row[d], Removed(row[d])}
    BY <1>9 DEF ZapierGone, Purge
  <2>2. UNCHANGED <<accepted, excused>>
    BY <1>9 DEF ZapierGone, Purge, ghosts
  <2> QED BY <2>1, <2>2, RemovalRefines
<1>10. ASSUME ClaimFails(u) PROVE Refined
  <2>1. UNCHANGED <<accepted, excused>> /\ \E S \in SUBSET Due : GetPending(u, S)
    BY <1>10 DEF ClaimFails, Batch, ghosts
  <2> QED BY <1>g, <2>1
<1>11. ASSUME \/ \E e \in todo[u] : NotRenewed(u, e)
              \/ \E ok \in BOOLEAN : Lookup(u, ok) \/ ResetSubscriptionFailures(u, ok)
                   \/ ExpireStaleRun(u, ok) \/ CountFailure(u, ok) \/ Retire(u, ok) \/ EndpointGone(u, ok)
              \/ EndBatch(u) \/ Post(u) \/ OutOfBudget(u) \/ Triage(u)
       PROVE  Refined
  <2>1. UNCHANGED <<row, accepted, excused>>
    BY <1>11 DEF NotRenewed, Lookup, ResetSubscriptionFailures, ExpireStaleRun, CountFailure, Retire,
                 EndpointGone, EndBatch, Post, OutOfBudget, Triage, rows, ghosts
  <2> QED BY <1>s, <2>1
<1> QED BY <1>1, <1>2, <1>3, <1>4, <1>5, <1>6, <1>7, <1>8, <1>9, <1>10, <1>11 DEF Step

LEMMA NextRefines ==
    ASSUME Whole, [Next]_vars
    PROVE  Refined
<1>h. /\ \A d \in Deliveries : row[d] \in Delivery
      /\ row \in [Deliveries -> Delivery] /\ accepted \in [Deliveries -> Nat]
  BY DEF Whole, Inv, Typed, TypeOK
<1>s. UNCHANGED <<row, accepted, excused>> => Refined
  BY SameFates
<1>1. CASE UNCHANGED vars \/ (\E u \in Workers : BudgetSpent(u)) \/ RunAges
  BY <1>1, <1>s DEF vars, rows, ghosts, BudgetSpent, RunAges
<1>2. ASSUME NEW u \in Workers, Step(u) PROVE Refined
  BY <1>2, StepRefines
<1>x. ASSUME NEW d \in Deliveries, \A c \in Deliveries : Fate(row'[c]) = Fate(row[c]),
             UNCHANGED accepted, excused' \in {excused, excused \cup {d}}
      PROVE  Refined
  <2>1. CASE excused' = excused
    BY <1>x, <2>1, SameFates
  <2>2. CASE excused' = excused \cup {d}
    <3>1. /\ fate' = [fate EXCEPT ![d] = fate[d]] /\ accepted' = [accepted EXCEPT ![d] = accepted[d]]
          /\ fate[d] \in {"none", "queued", "delivered", "abandoned", "removed"}
      BY <1>h, <1>x, AllFates DEF fate
    <3> QED BY <2>2, <3>1, ExcusedRefines
  <2> QED BY <1>x, <2>1, <2>2
<1>3. ASSUME NEW u \in Workers, Crash(u) PROVE Refined
  <2>1. UNCHANGED <<row, accepted>>
    BY <1>3 DEF Crash, rows
  <2>2. CASE excused' = excused
    BY <1>s, <2>1, <2>2
  <2>3. CASE excused' # excused
    <3>1. excused' = excused \cup {cur[u].id} /\ cur[u].id \in Deliveries
      BY <1>3, <2>3, RowsInHand, PCsInclude DEF Crash, Recording
    <3> QED BY <1>x, <2>1, <3>1
  <2> QED BY <2>2, <2>3
<1>4. ASSUME NEW d \in Deliveries, Fire(d) PROVE Refined
  <2>1. /\ row[d].status = "none" /\ row' = [row EXCEPT ![d] = Inserted] /\ UNCHANGED <<accepted, excused>>
    BY <1>4 DEF Fire, ghosts
  <2>2. fate[d] = "none" /\ Fate(Inserted) = "queued"
    BY <2>1 DEF fate, Fate, Inserted, NoDelivery
  <2>3. fate' = [fate EXCEPT ![d] = "queued"]
    BY <2>1, <2>2, OneFate, NewRowsTyped
  <2>4. Promise!Enter(d)
    BY <2>1, <2>2, <2>3 DEF Promise!Enter, Promise!Becomes, fate
  <2> QED BY <2>4 DEF Refined, Promise!Next
<1>5. ASSUME NEW d \in Deliveries, LeaseExpires(d) \/ FallsDue(d) PROVE Refined
  <2>1. /\ UNCHANGED accepted /\ excused' \in {excused, excused \cup {d}}
        /\ row' = [row EXCEPT ![d].stale = TRUE] \/ row' = [row EXCEPT ![d].due = TRUE]
    BY <1>5 DEF LeaseExpires, FallsDue, ghosts
  <2>2. ASSUME NEW c \in Deliveries PROVE Fate(row'[c]) = Fate(row[c])
    <3>1. row'[c] = row[c] \/ row'[c] = [row[c] EXCEPT !.stale = TRUE] \/ row'[c] = [row[c] EXCEPT !.due = TRUE]
      BY <1>h, <2>1
    <3>2. row[c] \in Delivery
      BY <1>h
    <3> QED BY <3>1, <3>2, AllFates
  <2> QED BY <1>x, <2>1, <2>2
<1>6. ASSUME NEW d \in Deliveries, Cleanup(d) PROVE Refined
  <2>1. UNCHANGED <<accepted, excused>> /\ \A c \in Deliveries : row'[c] \in {row[c], Removed(row[c])}
    BY <1>6, <1>h DEF Cleanup, ghosts
  <2> QED BY <2>1, RemovalRefines
<1>7. ASSUME (\E op \in {"edit", "on", "off", "delete"} : BeginRequest(op)) \/ EndRequest PROVE Refined
  <2>1. UNCHANGED <<accepted, excused>> /\ \A c \in Deliveries : row'[c] \in {row[c], Removed(row[c])}
    BY <1>7 DEF BeginRequest, EndRequest, ghosts
  <2> QED BY <2>1, RemovalRefines
<1> QED BY <1>1, <1>2, <1>3, <1>4, <1>5, <1>6, <1>7 DEF Next

(* Every step of the workers, the console and the clock is a step of a queue *)
(* that delivers each item once and tells the truth about it, or changes     *)
(* nothing such a queue shows; a worker's write by id alone, after its claim *)
(* was reclaimed, is what has to be excused (webhook_delivery_postgres.go).  *)
THEOREM PromiseKept == Spec => KeepsPromise
<1>1. Whole /\ [Next]_vars => [Promise!Next]_(Promise!vars)
  BY NextRefines DEF Refined
<1> QED BY WholeAtFirst, PromiseAtFirst, NextTells, <1>1, PTL DEF Spec, KeepsPromise, Promise!Spec

LEMMA PromiseIsFinal ==
    ASSUME Refined, NEW d \in Deliveries, row[d].status = "delivered"
    PROVE  row'[d].status \in {"delivered", "removed"} \/ d \in excused'
<1>1. fate[d] = "delivered" /\ fate'[d] = Fate(row'[d])
  BY DEF fate, Fate
<1>2. fate'[d] \in {"delivered", "removed"} => row'[d].status \in {"delivered", "removed"}
  BY <1>1 DEF Fate
<1>3. CASE UNCHANGED Promise!vars
  BY <1>1, <1>2, <1>3 DEF Promise!vars, fate
<1>4. CASE Promise!Remove
  BY <1>1, <1>2, <1>4 DEF Promise!Remove, Promise!Fates, fate
<1>5. ASSUME NEW e \in Deliveries,
             Promise!Enter(e) \/ Promise!Accept(e) \/ Promise!Deliver(e) \/ Promise!GiveUp(e)
      PROVE  fate'[d] = "delivered"
  <2>1. \/ fate' = fate
        \/ fate[e] \in {"none", "queued"} /\ \E f \in Promise!Fates : fate' = [fate EXCEPT ![e] = f]
    BY <1>5 DEF Promise!Enter, Promise!Accept, Promise!Deliver, Promise!GiveUp, Promise!Becomes,
                Promise!Fates, fate
  <2> QED BY <1>1, <2>1 DEF fate
<1>6. ASSUME NEW e \in Deliveries, Promise!Excuse(e)
      PROVE  fate'[d] = "delivered" \/ d \in excused'
  <2>1. \E f \in Promise!Fates : fate' = [fate EXCEPT ![e] = f]
    BY <1>6 DEF Promise!Excuse, fate
  <2>2. e \in excused'
    BY <1>6 DEF Promise!Excuse
  <2> QED BY <1>1, <2>1, <2>2 DEF fate
<1> QED BY <1>2, <1>3, <1>4, <1>5, <1>6 DEF Refined, Promise!Next

(* A row that says "delivered" goes on saying so until it is cleaned up, for *)
(* the claim, the sweep, the release and the drain all pass it by; only a    *)
(* write by id of a worker that had lost the row changes it                  *)
(* (webhook_delivery_postgres.go).                                           *)
THEOREM DeliveredStays == Spec => DeliveredIsFinal
<1>1. Whole /\ [Next]_vars =>
        [\A d \in Deliveries : row[d].status = "delivered"
            => row'[d].status \in {"delivered", "removed"} \/ d \in excused']_vars
  BY NextRefines, PromiseIsFinal
<1> QED BY WholeAtFirst, NextTells, <1>1, PTL DEF Spec, DeliveredIsFinal
-----------------------------------------------------------------------------
(* A delivery is given up for cause: its attempts are its POSTs.  A copy of  *)
(* a row that its worker holds tells the attempts of the row; the row is its *)
(* worker's until the outcome of the POST is written; and until a            *)
(* subscription is switched off or called gone, nobody drains.               *)
Unrecorded == {"posting", "answered", "recording", "expiring", "counting", "disabling",
               "retrying"}

Open == {"pending", "delivering", "failed"}

Copied(e, w) == Holds(row[e.id], w) => row[e.id].attempts = e.attempts

Unwritten(d) == \E w \in Workers : pc[w] \in Unrecorded /\ cur[w].id = d

SwitchedOn ==
    ~off => /\ sub.status = "enabled"
            /\ \A w \in Workers : /\ pc[w] \notin {"gone", "purging", "draining"}
                                  /\ cache[w] # NoSub => cache[w].status = "enabled"
                                  /\ answer[w] # "gone"

Faithful ==
    \A w \in Workers :
        /\ pc[w] \in {"idle", "swept"} => todo[w] = {}
        /\ \A e \in todo[w] : e.id \notin excused => Copied(e, w)
        /\ pc[w] \in InHandPCs /\ cur[w].id \notin excused => Copied(cur[w], w)
        /\ pc[w] \in Unrecorded /\ cur[w].id \notin excused => Own(row[cur[w].id], w)

Counted ==
    ~off => \A d \in Deliveries \ excused :
                /\ row[d].status = "none" => posts[d] = 0
                /\ row[d].status \in Open =>
                     posts[d] = IF Unwritten(d) THEN row[d].attempts + 1 ELSE row[d].attempts

Ladder == SwitchedOn /\ Faithful /\ Counted

(* Nobody takes a row or an entry up.                                        *)
LEMMA FaithfulKept ==
    ASSUME Whole, Faithful, excused \subseteq excused',
           \A d \in Deliveries \ excused', w \in Workers :
              Holds(row'[d], w) => Holds(row[d], w) /\ row'[d].attempts = row[d].attempts,
           \A w \in Workers : /\ todo'[w] \subseteq todo[w]
                              /\ pc'[w] \in {"idle", "swept"} => todo'[w] = {}
                              /\ pc'[w] \in InHandPCs => pc[w] \in InHandPCs /\ cur'[w] = cur[w],
           \A w \in Workers : pc'[w] \in Unrecorded /\ cur[w].id \notin excused' =>
              pc[w] \in Unrecorded /\ (Own(row[cur[w].id], w) => Own(row'[cur[w].id], w))
    PROVE  Faithful'
<1>1. ASSUME NEW w \in Workers, NEW e \in todo'[w], e.id \notin excused' PROVE Copied(e, w)'
  <2>1. e \in todo[w] /\ e.id \in Deliveries /\ e.id \notin excused
    BY <1>1 DEF Whole, Inv, Typed, TypeOK, Snapshot
  <2>2. Copied(e, w)
    BY <2>1 DEF Faithful
  <2> QED BY <1>1, <2>1, <2>2 DEF Copied
<1>2. ASSUME NEW w \in Workers, pc'[w] \in InHandPCs, cur'[w].id \notin excused'
      PROVE  Copied(cur[w], w)'
  <2>1. /\ pc[w] \in InHandPCs /\ cur'[w] = cur[w] /\ cur[w].id \in Deliveries
        /\ cur[w].id \notin excused
    BY <1>2, RowsInHand
  <2>2. Copied(cur[w], w)
    BY <2>1 DEF Faithful
  <2> QED BY <1>2, <2>1, <2>2 DEF Copied
<1>3. ASSUME NEW w \in Workers, pc'[w] \in Unrecorded, cur'[w].id \notin excused'
      PROVE  Own(row'[cur'[w].id], w)
  <2>1. pc[w] \in Unrecorded /\ cur'[w] = cur[w] /\ cur[w].id \notin excused
    BY <1>3, PCsInclude DEF Unrecorded
  <2>2. Own(row[cur[w].id], w)
    BY <2>1 DEF Faithful
  <2> QED BY <1>3, <2>1, <2>2
<1> QED BY <1>1, <1>2, <1>3 DEF Faithful, Copied

(* The rows keep their rung, or are settled without a failure.               *)
LEMMA CountedKept ==
    ASSUME Whole, Counted, excused \subseteq excused', ~off' => ~off,
           ~off' => UNCHANGED posts,
           ~off' => \A d \in Deliveries \ excused' :
              \/ row'[d].status \in Final
              \/ /\ row'[d].attempts = row[d].attempts
                 /\ row'[d].status = row[d].status \/ {row[d].status, row'[d].status} \subseteq Open,
           ~off' => \A d \in Deliveries \ excused' :
              row'[d].status \in Open => (Unwritten(d)' <=> Unwritten(d))
    PROVE  Counted'
<1> SUFFICES ASSUME ~off', NEW d \in Deliveries \ excused'
             PROVE  /\ row'[d].status = "none" => posts'[d] = 0
                    /\ row'[d].status \in Open =>
                         posts'[d] = IF Unwritten(d)' THEN row'[d].attempts + 1 ELSE row'[d].attempts
  BY DEF Counted
<1>1. /\ row[d].status = "none" => posts[d] = 0
      /\ row[d].status \in Open =>
           posts[d] = IF Unwritten(d) THEN row[d].attempts + 1 ELSE row[d].attempts
  BY DEF Counted
<1>2. posts'[d] = posts[d]
  OBVIOUS
<1> QED BY <1>1, <1>2 DEF Final, Open

(* The worker that holds a row is the only one that has it unrecorded.       *)
LEMMA SoleHolder ==
    ASSUME Whole, Faithful, NEW u \in Workers, NEW d \in Deliveries \ excused,
           Holds(row[d], u), NEW w \in Workers, w # u
    PROVE  ~(pc[w] \in Unrecorded /\ cur[w].id = d)
BY DEF Faithful, Own, Holds

(* The write of an outcome puts the POST on the row, or is excused.          *)
LEMMA WriteOnLadder ==
    ASSUME Whole, Faithful, Counted, NEW u \in Workers, NEW ok \in BOOLEAN, NEW r,
           pc[u] \in InHandPCs, Write(u, ok, r),
           Holds(row[cur[u].id], u) /\ cur[u].id \notin excused =>
              /\ r.status # "delivering"
              /\ off \/ r.status \in Final
                 \/ /\ r.status = "failed" /\ r.attempts = row[cur[u].id].attempts + 1
                    /\ pc[u] \in Unrecorded
    PROVE  Faithful' /\ Counted'
<1> DEFINE d == cur[u].id
<1>r. cur[u] \in Snapshot /\ d \in Deliveries /\ \A c \in Deliveries : row[c] \in Delivery
  BY RowsInHand
<1>1. /\ cur' = [cur EXCEPT ![u] = NoEntry]
      /\ pc' = [pc EXCEPT ![u] = "batch"] /\ UNCHANGED <<todo, posts, off>>
      /\ row' = IF ok THEN [row EXCEPT ![d] = r] ELSE row
      /\ excused' = IF ok /\ Holds(row[d], u) THEN excused ELSE excused \cup {d}
  BY DEF Write, NextEntry, Goto
<1>2. \A w \in Workers : w # u => cur'[w] = cur[w] /\ pc'[w] = pc[w]
  BY <1>1 DEF Whole, Inv, Typed, TypeOK
<1>3. pc'[u] = "batch"
  BY <1>1 DEF Whole, Inv, Typed, TypeOK
<1>4. \A e \in Deliveries : row'[e] = IF ok /\ e = d THEN r ELSE row[e]
  BY <1>1 DEF Whole, Inv, Typed, TypeOK
<1>5. d \notin excused' => ok /\ Holds(row[d], u) /\ d \notin excused
  BY <1>1
<1>6. excused \subseteq excused'
  BY <1>1
<1>i. {"batch"} \cap (Unrecorded \cup InHandPCs \cup {"idle", "swept"}) = {}
  BY PCsInclude DEF Unrecorded
<1>7. /\ r.status # "delivering" \/ d \in excused'
      /\ \/ d \in excused' \/ off \/ r.status \in Final
         \/ r.status = "failed" /\ r.attempts = row[d].attempts + 1 /\ pc[u] \in Unrecorded
  BY <1>5
<1> HIDE DEF d
<1>8. Faithful'
  <2>1. \A c \in Deliveries \ excused', w \in Workers :
          Holds(row'[c], w) => Holds(row[c], w) /\ row'[c].attempts = row[c].attempts
    BY <1>4, <1>7 DEF Holds
  <2>2. \A w \in Workers : /\ todo'[w] \subseteq todo[w]
                           /\ pc'[w] \in {"idle", "swept"} => todo'[w] = {}
                           /\ pc'[w] \in InHandPCs => pc[w] \in InHandPCs /\ cur'[w] = cur[w]
    BY <1>1, <1>2, <1>3, <1>i DEF Faithful
  <2>3. ASSUME NEW w \in Workers, pc'[w] \in Unrecorded, cur[w].id \notin excused'
        PROVE  pc[w] \in Unrecorded /\ (Own(row[cur[w].id], w) => Own(row'[cur[w].id], w))
    <3>1. w # u /\ pc[w] \in Unrecorded
      BY <2>3, <1>2, <1>3, <1>i
    <3>2. cur[w].id \in Deliveries
      BY <3>1, PCsInclude, RowsInHand DEF Unrecorded
    <3>3. cur[w].id # d
      BY <2>3, <3>1, <1>5, <1>r, SoleHolder
    <3> QED BY <3>1, <3>2, <3>3, <1>4
  <2> QED BY <1>6, <2>1, <2>2, <2>3, FaithfulKept
<1>9. Counted'
  <2> SUFFICES ASSUME ~off', NEW c \in Deliveries \ excused'
               PROVE  /\ row'[c].status = "none" => posts'[c] = 0
                      /\ row'[c].status \in Open =>
                           posts'[c] = IF Unwritten(c)' THEN row'[c].attempts + 1
                                                        ELSE row'[c].attempts
    BY DEF Counted
  <2>1. /\ row[c].status = "none" => posts[c] = 0
        /\ row[c].status \in Open =>
             posts[c] = IF Unwritten(c) THEN row[c].attempts + 1 ELSE row[c].attempts
        /\ posts'[c] = posts[c]
    BY <1>1, <1>6 DEF Counted
  <2>2. CASE c # d
    <3>1. Unwritten(c)' <=> Unwritten(c)
      <4>1. cur[u].id # c
        BY <2>2 DEF d
      <4>2. \A w \in Workers : (pc'[w] \in Unrecorded /\ cur'[w].id = c) <=>
                               (pc[w] \in Unrecorded /\ cur[w].id = c)
        BY <4>1, <1>2, <1>3, <1>i
      <4> QED BY <4>2 DEF Unwritten
    <3> QED BY <2>1, <2>2, <3>1, <1>4
  <2>3. CASE c = d
    <3>1. ok /\ Holds(row[c], u) /\ c \notin excused /\ row'[c] = r
      BY <2>3, <1>4, <1>5
    <3>2. row[c].status = "delivering"
      BY <3>1 DEF Holds
    <3>3. r.status \in Final \/ (r.status = "failed" /\ r.attempts = row[c].attempts + 1
                                 /\ pc[u] \in Unrecorded)
      BY <2>3, <1>1, <1>7
    <3>4. \A w \in Workers : ~(pc'[w] \in Unrecorded /\ cur'[w].id = c)
      BY <3>1, <1>2, <1>3, <1>i, SoleHolder
    <3>5. ~Unwritten(c)'
      BY <3>4 DEF Unwritten
    <3>6. pc[u] \in Unrecorded => Unwritten(c)
      BY <2>3 DEF Unwritten, d
    <3> QED BY <2>1, <3>1, <3>2, <3>3, <3>5, <3>6 DEF Open, Final
  <2> QED BY <2>2, <2>3
<1> QED BY <1>8, <1>9

(* A subscription that was never off is enabled in the row and in every copy *)
(* of it, and nobody has an endpoint to switch off or a row to drain.        *)
LEMMA SwitchedOnStep == Typed /\ SwitchedOn /\ [Next]_vars => SwitchedOn'
<1> SUFFICES ASSUME Typed, SwitchedOn, [Next]_vars, ~off' PROVE SwitchedOn'
  BY DEF SwitchedOn
<1>w. /\ pc \in [Workers -> PCs] /\ cache \in [Workers -> Subscription \cup {NoSub}]
      /\ answer \in [Workers -> {"none", "ok", "gone", "throttled", "error"}]
      /\ sub \in Subscription /\ off \in BOOLEAN
  BY DEF Typed, TypeOK
<1>s. ASSUME ~off
      PROVE  /\ sub.status = "enabled"
             /\ \A w \in Workers : /\ pc[w] \notin {"gone", "purging", "draining"}
                                   /\ cache[w] # NoSub => cache[w].status = "enabled"
                                   /\ answer[w] # "gone"
  BY <1>s DEF SwitchedOn
(* What a step has to keep. *)
<1>k. ASSUME ~off, sub'.status = "enabled",
             \A w \in Workers : /\ pc'[w] # pc[w] => pc'[w] \notin {"gone", "purging", "draining"}
                                /\ \/ cache'[w] = cache[w] \/ cache'[w] = NoSub
                                   \/ cache'[w].status = "enabled"
                                /\ answer'[w] = answer[w] \/ answer'[w] # "gone"
      PROVE  SwitchedOn'
  BY <1>k, <1>s DEF SwitchedOn
<1>e. ASSUME NEW s \in Subscription, s.status = "enabled"
      PROVE  /\ ResetFailures(s).status = "enabled" /\ IncrementFailures(s).status = "enabled"
             /\ [s EXCEPT !.run = Aged(@)].status = "enabled"
  BY <1>e DEF Subscription, ResetFailures, IncrementFailures
<1>c. \A w \in Workers : pc[w] \in WithCopy => cache[w] \in Subscription /\ cache[w] # NoSub
  BY DEF Typed, Hands, Subscription, NoSub
<1>1. ASSUME NEW u \in Workers, Step(u) PROVE SwitchedOn'
  <2>q. ASSUME UNCHANGED <<sub, off, cache>>, NEW p, pc' = [pc EXCEPT ![u] = p],
               p \notin {"gone", "purging", "draining"},
               \A w \in Workers : answer'[w] = answer[w] \/ answer'[w] # "gone"
        PROVE  SwitchedOn'
    BY <2>q, <1>s, <1>k, <1>w
  <2>1. ASSUME NEW S \in SUBSET Deliveries, Claim(u, S) PROVE SwitchedOn'
    BY <2>1, <2>q DEF Claim, Goto, ghosts
  <2>2. ASSUME NEW e \in todo[u], Renew(u, e) PROVE SwitchedOn'
    BY <2>2, <2>q DEF Renew, Goto, ghosts
  <2>3. ASSUME NEW e \in todo[u], NotRenewed(u, e) PROVE SwitchedOn'
    BY <2>3, <1>s, <1>k DEF NotRenewed, rows, ghosts
  <2>4. ASSUME NEW a \in {"ok", "gone", "throttled", "error"}, Respond(u, a) PROVE SwitchedOn'
    <3>1. a # "gone" /\ ~off /\ off' = off
      BY <2>4, <1>w DEF Respond
    <3>2. \A w \in Workers : answer'[w] = answer[w] \/ answer'[w] # "gone"
      BY <2>4, <3>1, <1>w DEF Respond
    <3> QED BY <2>4, <3>1, <3>2, <2>q DEF Respond, Goto, rows
  <2>5. ASSUME NEW ok \in BOOLEAN, Sweep(u, ok) PROVE SwitchedOn'
    BY <2>5, <2>q DEF Sweep, Goto, worker, ghosts
  <2>6. ASSUME NEW ok \in BOOLEAN, Lookup(u, ok) PROVE SwitchedOn'
    <3> DEFINE s == IF cache[u] = NoSub THEN sub ELSE cache[u]
    <3>1. ~off /\ UNCHANGED <<sub, off, answer>>
      BY <2>6 DEF Lookup, rows, ghosts
    <3>2. s.status = "enabled"
      BY <3>1, <1>s
    <3>3. /\ cache' = [cache EXCEPT ![u] = IF ok /\ s.status # "deleted" THEN s ELSE @]
          /\ pc' = [pc EXCEPT ![u] = IF ~ok THEN "releasing"
                                     ELSE IF s.status = "enabled" THEN "ready" ELSE "draining"]
      BY <2>6 DEF Lookup, Goto
    <3> HIDE DEF s
    <3>4. \A w \in Workers : /\ pc'[w] = pc[w] \/ pc'[w] \in {"releasing", "ready"}
                             /\ cache'[w] = cache[w] \/ cache'[w].status = "enabled"
      BY <3>2, <3>3, <1>w
    <3> QED BY <3>1, <3>4, <1>s, <1>k
  <2>7. ASSUME NEW ok \in BOOLEAN, NEW r, Write(u, ok, r) PROVE SwitchedOn'
    <3>1. /\ UNCHANGED <<sub, off, cache>> /\ pc' = [pc EXCEPT ![u] = "batch"]
          /\ answer' = [answer EXCEPT ![u] = "none"]
      BY <2>7 DEF Write, NextEntry, Goto
    <3> QED BY <3>1, <2>q, <1>w
  <2>8. ASSUME NEW ok \in BOOLEAN, Release(u, ok) PROVE SwitchedOn'
    <3>1. /\ UNCHANGED <<sub, off, cache>> /\ pc' = [pc EXCEPT ![u] = "batch"]
          /\ answer' = [answer EXCEPT ![u] = "none"]
      BY <2>8 DEF Release, NextEntry, Goto, ghosts
    <3> QED BY <3>1, <2>q, <1>w
  <2>9. ASSUME NEW ok \in BOOLEAN,
               \/ ResetSubscriptionFailures(u, ok) \/ ExpireStaleRun(u, ok)
               \/ CountFailure(u, ok)
        PROVE  SwitchedOn'
    <3>1. ~off /\ UNCHANGED <<off, answer>> /\ pc[u] \in WithCopy
      BY <2>9 DEF ResetSubscriptionFailures, ExpireStaleRun, CountFailure, ghosts, WithCopy
    <3>2. /\ cache[u] \in Subscription /\ cache[u].status = "enabled" /\ sub.status = "enabled"
      BY <3>1, <1>s, <1>c
    <3>3. /\ sub' \in {sub, ResetFailures(sub), IncrementFailures(sub)}
          /\ \E s \in {cache[u], ResetFailures(cache[u]), IncrementFailures(cache[u])} :
               cache' = [cache EXCEPT ![u] = s]
          /\ \E p \in {"recording", "counting", "disabling", "retrying"} :
               pc' = [pc EXCEPT ![u] = p]
      BY <2>9, <1>w DEF ResetSubscriptionFailures, ExpireStaleRun, CountFailure, Goto
    <3>4. sub'.status = "enabled"
      BY <3>2, <3>3, <1>e, <1>w
    <3>5. \A w \in Workers : cache'[w] = cache[w] \/ cache'[w].status = "enabled"
      BY <3>2, <3>3, <1>e, <1>w
    <3>6. \A w \in Workers : pc'[w] # pc[w] => pc'[w] \notin {"gone", "purging", "draining"}
      BY <3>3, <1>w
    <3> QED BY <3>1, <3>4, <3>5, <3>6, <1>k
  (* A switch that succeeds is on record; one that fails leaves the rows.    *)
  <2>10. ASSUME NEW ok \in BOOLEAN, Retire(u, ok) PROVE SwitchedOn'
    <3>1. ~off /\ sub'.status = "enabled" /\ UNCHANGED answer
      BY <2>10 DEF Retire, SubWritten
    <3>2. ~ok
      BY <2>10, <3>1, <1>w DEF Retire, SubWritten, DisableWithReason, Subscription
    <3>3. cache' = cache /\ pc' = [pc EXCEPT ![u] = "retrying"]
      BY <2>10, <3>2 DEF Retire, Goto
    <3> QED BY <3>1, <3>3, <1>k, <1>w
  <2>11. ASSUME NEW ok \in BOOLEAN,
                EndpointGone(u, ok) \/ ZapierGone(u, ok) \/ Purge(u, ok) \/ Drain(u, ok)
         PROVE  SwitchedOn'
    <3>1. pc[u] \in {"gone", "purging", "draining"}
      BY <2>11 DEF EndpointGone, ZapierGone, Purge, Drain
    <3>2. off
      BY <3>1 DEF SwitchedOn
    <3>3. off'
      BY <2>11, <3>2 DEF EndpointGone, ZapierGone, Purge, Drain, SubWritten, Write, ghosts
    <3> QED BY <3>3
  <2>12. ASSUME ClaimFails(u) \/ EndBatch(u) \/ Post(u) \/ OutOfBudget(u) PROVE SwitchedOn'
    <3>1. /\ ~off /\ sub'.status = "enabled" /\ UNCHANGED answer
          /\ \A w \in Workers : cache'[w] = cache[w] \/ cache'[w] = NoSub
          /\ \E p \in {"idle", "posting", "releasing"} : pc' = [pc EXCEPT ![u] = p]
      BY <2>12, <1>s, <1>w DEF ClaimFails, EndBatch, Post, OutOfBudget, Goto, worker, rows, ghosts
    <3>2. \A w \in Workers : pc'[w] # pc[w] => pc'[w] \notin {"gone", "purging", "draining"}
      BY <3>1, <1>w
    <3> QED BY <3>1, <3>2, <1>k
  <2>13. ASSUME Triage(u) PROVE SwitchedOn'
    <3>1. UNCHANGED <<sub, off, cache, answer>> /\ ~off /\ answer[u] \in {"throttled", "error"}
      <4>1. UNCHANGED <<sub, off, cache, answer>> /\ ~off /\ answer[u] # "ok" /\ pc[u] = "answered"
        BY <2>13 DEF Triage, rows, worker, ghosts
      <4> QED BY <4>1, <1>s, <1>w DEF Typed, Hands
    <3>2. \E p \in {"retrying", "expiring"} : pc' = [pc EXCEPT ![u] = p]
      BY <2>13, <3>1 DEF Triage, Goto
    <3> QED BY <3>1, <3>2, <2>q
  <2> QED BY <1>1, <2>1, <2>2, <2>3, <2>4, <2>5, <2>6, <2>7, <2>8, <2>9, <2>10, <2>11, <2>12,
           <2>13 DEF Step, RecordSuccess, HandleDeliveryFailure
<1>2. ASSUME NEW u \in Workers, BudgetSpent(u) \/ Crash(u) PROVE SwitchedOn'
  <2>1. /\ ~off /\ sub'.status = "enabled"
        /\ \A w \in Workers : /\ pc'[w] # pc[w] => pc'[w] \in {"answered", "idle"}
                              /\ cache'[w] = cache[w] \/ cache'[w] = NoSub
                              /\ answer'[w] = answer[w] \/ answer'[w] # "gone"
    BY <1>2, <1>s, <1>w DEF BudgetSpent, Crash, Goto, rows
  <2> QED BY <2>1, <1>k
<1>3. ASSUME NEW d \in Deliveries, Fire(d) \/ LeaseExpires(d) \/ FallsDue(d) \/ Cleanup(d)
      PROVE  SwitchedOn'
  <2>1. UNCHANGED <<sub, off, pc, cache, answer>>
    BY <1>3 DEF Fire, LeaseExpires, FallsDue, Cleanup, worker, ghosts
  <2> QED BY <2>1, <1>s DEF SwitchedOn
<1>4. ASSUME \/ \E op \in {"edit", "on", "off", "delete"} : BeginRequest(op)
             \/ EndRequest
      PROVE  SwitchedOn'
  <2>1. /\ ~off /\ UNCHANGED <<pc, cache, answer>>
        /\ sub' = sub \/ sub'.status = "enabled"
    <3>1. CASE EndRequest
      BY <3>1, <1>w DEF EndRequest, SubWritten, worker
    <3>2. CASE \E op \in {"edit", "on", "off", "delete"} : BeginRequest(op)
      BY <3>2 DEF BeginRequest, worker, ghosts
    <3> QED BY <1>4, <3>1, <3>2
  <2> QED BY <2>1, <1>s, <1>k
<1>5. CASE RunAges
  <2>1. ~off /\ UNCHANGED <<pc, answer, off>>
    BY <1>5 DEF RunAges
  <2>2. sub'.status = "enabled"
    BY <1>5, <2>1, <1>s, <1>e, <1>w DEF RunAges
  <2>3. \A w \in Workers : cache'[w] = NoSub \/ cache'[w].status = "enabled"
    BY <1>5, <2>1, <1>s, <1>e, <1>w DEF RunAges
  <2> QED BY <2>1, <2>2, <2>3, <1>k
<1>6. CASE UNCHANGED vars
  <2>1. UNCHANGED <<sub, off, pc, cache, answer>>
    BY <1>6 DEF vars, rows, worker, ghosts
  <2> QED BY <2>1, <1>s DEF SwitchedOn
<1>7. CASE Next
  BY <1>7, <1>1, <1>2, <1>3, <1>4, <1>5 DEF Next
<1> QED BY <1>6, <1>7

(* What the sweep, a release and a deletion do to the rows: none is taken,   *)
(* none climbs, and the owner of an unwritten outcome keeps its row.         *)
RowsKept ==
    /\ \A d \in Deliveries, w \in Workers :
          Holds(row'[d], w) => Holds(row[d], w) /\ row'[d].attempts = row[d].attempts
    /\ \A d \in Deliveries :
          \/ row'[d].status \in Final
          \/ /\ row'[d].attempts = row[d].attempts
             /\ row'[d].status = row[d].status \/ {row[d].status, row'[d].status} \subseteq Open
    /\ \A w \in Workers : pc[w] \in Unrecorded /\ Own(row[cur[w].id], w)
                            => Own(row'[cur[w].id], w)

LEMMA RowStatements ==
    ASSUME NEW r \in Delivery, NEW u \in Workers, NEW s \in {r, ReclaimStale(r), Removed(r), ReleaseClaim(r, u)}
    PROVE  /\ \A w \in Workers : Holds(s, w) => Holds(r, w) /\ s.attempts = r.attempts
           /\ \/ s.status \in Final
              \/ s.attempts = r.attempts /\ (s.status = r.status \/ {r.status, s.status} \subseteq Open)
<1> USE DEF Delivery, Holds, Final, Open
<1>1. CASE s = r
  BY <1>1
<1>2. CASE s = ReclaimStale(r)
  BY <1>2 DEF ReclaimStale
<1>3. CASE s = Removed(r)
  BY <1>3 DEF Removed, OnRow, Exists, NoDelivery
<1>4. CASE s = ReleaseClaim(r, u)
  BY <1>4 DEF ReleaseClaim
<1> QED BY <1>1, <1>2, <1>3, <1>4

LEMMA RowsAreKept ==
    ASSUME Whole, NEW u \in Workers,
           \/ row' = row
           \/ row' = [d \in Deliveries |-> ReclaimStale(row[d])]
           \/ row' = [d \in Deliveries |-> Removed(row[d])]
           \/ /\ pc[u] = "releasing"
              /\ row' = [row EXCEPT ![cur[u].id] = ReleaseClaim(@, u)]
    PROVE  RowsKept
<1>r. /\ row \in [Deliveries -> Delivery]
      /\ \A w \in Workers : pc[w] \in InHandPCs => cur[w].id \in Deliveries
  BY RowsInHand DEF Whole, Inv, Typed, TypeOK
<1>u. Unrecorded \subseteq InHandPCs /\ "releasing" \in InHandPCs /\ "releasing" \notin Unrecorded
  BY PCsInclude DEF Unrecorded
<1>1. \A d \in Deliveries : row'[d] \in {row[d], ReclaimStale(row[d]), Removed(row[d]), ReleaseClaim(row[d], u)}
  BY <1>r, <1>u
<1>2. ASSUME NEW w \in Workers, pc[w] \in Unrecorded, Own(row[cur[w].id], w)
      PROVE  Own(row'[cur[w].id], w)
  <2>1. cur[w].id \in Deliveries /\ row[cur[w].id] \in Delivery
    BY <1>2, <1>r, <1>u
  <2>2. \/ row'[cur[w].id] \in {row[cur[w].id], ReclaimStale(row[cur[w].id]), Removed(row[cur[w].id])}
        \/ w # u /\ row'[cur[w].id] = ReleaseClaim(row[cur[w].id], u)
    BY <1>2, <1>r, <1>u, <2>1
  <2> QED BY <1>2, <2>1, <2>2, StaysOwn
<1>3. \A d \in Deliveries : row[d] \in Delivery
  BY <1>r
<1> QED BY <1>1, <1>2, <1>3, RowStatements DEF RowsKept

(* One worker goes on, with or without its entry; no POST begins.            *)
LEMMA MoveOnLadder ==
    ASSUME Whole, Faithful, Counted, RowsKept, NEW u \in Workers, NEW p \in PCs,
           pc' = [pc EXCEPT ![u] = p], UNCHANGED posts, excused \subseteq excused', off => off',
           off' \in BOOLEAN,
           cur' = cur \/ (p \in {"idle", "batch"} /\ cur' = [cur EXCEPT ![u] = NoEntry]),
           \A w \in Workers : todo'[w] \subseteq todo[w],
           p \in {"idle", "swept"} => todo'[u] = {},
           p \in InHandPCs => pc[u] \in InHandPCs,
           p \in Unrecorded => pc[u] \in Unrecorded,
           ~off' /\ pc[u] \in Unrecorded => p \in Unrecorded \/ cur[u].id \in excused'
    PROVE  Faithful' /\ Counted'
<1>i. {"idle", "batch"} \cap (Unrecorded \cup InHandPCs) = {}
  BY PCsInclude DEF Unrecorded
<1>1. /\ \A w \in Workers : pc'[w] = IF w = u THEN p ELSE pc[w]
      /\ \A w \in Workers : cur'[w] = cur[w] \/ (w = u /\ p \in {"idle", "batch"})
  BY DEF Whole, Inv, Typed, TypeOK
<1>2. Faithful'
  <2>1. \A c \in Deliveries \ excused', w \in Workers :
          Holds(row'[c], w) => Holds(row[c], w) /\ row'[c].attempts = row[c].attempts
    BY DEF RowsKept
  <2>2. \A w \in Workers : /\ todo'[w] \subseteq todo[w]
                           /\ pc'[w] \in {"idle", "swept"} => todo'[w] = {}
                           /\ pc'[w] \in InHandPCs => pc[w] \in InHandPCs /\ cur'[w] = cur[w]
    BY <1>1, <1>i DEF Faithful
  <2>3. \A w \in Workers : pc'[w] \in Unrecorded /\ cur[w].id \notin excused' =>
              pc[w] \in Unrecorded /\ (Own(row[cur[w].id], w) => Own(row'[cur[w].id], w))
    BY <1>1 DEF RowsKept
  <2> QED BY <2>1, <2>2, <2>3, FaithfulKept
<1>3. ASSUME ~off', NEW d \in Deliveries \ excused' PROVE Unwritten(d)' <=> Unwritten(d)
  <2>1. \A w \in Workers : (pc'[w] \in Unrecorded /\ cur'[w].id = d) <=>
                           (pc[w] \in Unrecorded /\ cur[w].id = d)
    BY <1>1, <1>3, <1>i
  <2> QED BY <2>1 DEF Unwritten
<1>4. Counted'
  BY <1>3, CountedKept DEF RowsKept
<1> QED BY <1>2, <1>4

LEMMA ClaimedRow ==
    \A r \in Delivery, w \in Workers :
        Claimed(r, w).status = "delivering" /\ Claimed(r, w).claim = w
        /\ Claimed(r, w).attempts = r.attempts
BY DEF Claimed, Delivery

(* The rows that are due are taken, by a worker that has nothing to walk.    *)
LEMMA ClaimOnLadder ==
    ASSUME Whole, Faithful, Counted, NEW u \in Workers, NEW S \in SUBSET Due, GetPending(u, S),
           pc[u] = "swept", NEW p \in {"idle", "batch"}, pc' = [pc EXCEPT ![u] = p],
           UNCHANGED <<cur, posts, excused, off>>,
           \A w \in Workers : w # u => todo'[w] = todo[w],
           \A e \in todo'[u] : e.id \in S /\ e.attempts = row[e.id].attempts,
           p = "idle" => todo'[u] = {}
    PROVE  Faithful' /\ Counted'
<1>i. {"idle", "batch", "swept"} \cap (Unrecorded \cup InHandPCs) = {} /\ Unrecorded \subseteq InHandPCs
  BY PCsInclude DEF Unrecorded
<1>1. \A w \in Workers : pc'[w] = IF w = u THEN p ELSE pc[w]
  BY DEF Whole, Inv, Typed, TypeOK
<1>2. /\ \A d \in Deliveries : row[d] \in Delivery
      /\ \A d \in Deliveries : row'[d] = IF d \in S THEN Claimed(row[d], u) ELSE row[d]
      /\ S \subseteq Deliveries /\ \A d \in S : Claimable(row[d])
  BY RowsInHand DEF GetPending, Due
<1>3. \A d \in Deliveries : /\ row'[d].attempts = row[d].attempts
                            /\ \A w \in Workers \ {u} : Holds(row'[d], w) => Holds(row[d], w)
                            /\ row'[d].status = row[d].status \/ {row[d].status, row'[d].status} \subseteq Open
  <2> SUFFICES ASSUME NEW d \in Deliveries
               PROVE  /\ row'[d].attempts = row[d].attempts
                      /\ \A w \in Workers \ {u} : Holds(row'[d], w) => Holds(row[d], w)
                      /\ row'[d].status = row[d].status \/ {row[d].status, row'[d].status} \subseteq Open
    OBVIOUS
  <2>1. CASE d \in S
    BY <1>2, <2>1, ClaimedRow DEF Claimable, Holds, Open
  <2>2. CASE d \notin S
    BY <1>2, <2>2
  <2> QED BY <2>1, <2>2
<1>4. ASSUME NEW w \in Workers, NEW e \in todo'[w], e.id \notin excused PROVE Copied(e, w)'
  <2>1. CASE w = u
    BY <1>4, <1>2, <1>3, <2>1 DEF Copied
  <2>2. CASE w # u
    <3>1. e \in todo[w] /\ e.id \in Deliveries
      BY <1>4, <2>2 DEF Whole, Inv, Typed, TypeOK, Snapshot
    <3>2. Copied(e, w)
      BY <1>4, <3>1 DEF Faithful
    <3> QED BY <1>3, <2>2, <3>1, <3>2 DEF Copied
  <2> QED BY <2>1, <2>2
<1>5. ASSUME NEW w \in Workers, pc'[w] \in InHandPCs, cur[w].id \notin excused
      PROVE  Copied(cur[w], w)'
  <2>1. w # u /\ pc[w] \in InHandPCs /\ cur[w].id \in Deliveries
    BY <1>5, <1>1, <1>i, RowsInHand
  <2>2. Copied(cur[w], w)
    BY <1>5, <2>1 DEF Faithful
  <2> QED BY <1>3, <2>1, <2>2 DEF Copied
<1>6. ASSUME NEW w \in Workers, pc'[w] \in Unrecorded, cur[w].id \notin excused
      PROVE  Own(row'[cur[w].id], w)
  <2>1. w # u /\ pc[w] \in Unrecorded /\ cur[w].id \in Deliveries
    BY <1>6, <1>1, <1>i, RowsInHand
  <2>2. Own(row[cur[w].id], w)
    BY <1>6, <2>1 DEF Faithful
  <2> QED BY <1>2, <2>1, <2>2, StaysOwn
<1>7. \A w \in Workers : pc'[w] \in {"idle", "swept"} => todo'[w] = {}
  BY <1>1 DEF Faithful
<1>8. Faithful'
  BY <1>4, <1>5, <1>6, <1>7 DEF Faithful, Copied
<1>9. \A d \in Deliveries : Unwritten(d)' <=> Unwritten(d)
  BY <1>1, <1>i DEF Unwritten
<1> QED BY <1>3, <1>8, <1>9, CountedKept

(* A row its holder renews stays as it was, but for the lease.               *)
LEMMA RenewOnLadder ==
    ASSUME Whole, Faithful, Counted, NEW u \in Workers, NEW e \in todo[u], Renew(u, e)
    PROVE  Faithful' /\ Counted'
<1> DEFINE d == e.id
<1>i. {"batch", "renewed"} \cap Unrecorded = {} /\ {"idle", "swept"} \cap {"renewed"} = {}
  BY PCsInclude DEF Unrecorded
<1>1. /\ e \in Snapshot /\ d \in Deliveries /\ row[d] \in Delivery /\ Holds(row[d], u)
      /\ pc[u] = "batch"
  BY DEF Renew, Whole, Inv, Typed, TypeOK, Snapshot
<1>2. /\ row' = [row EXCEPT ![d] = Claimed(@, u)] /\ cur' = [cur EXCEPT ![u] = e]
      /\ pc' = [pc EXCEPT ![u] = "renewed"] /\ todo' = [todo EXCEPT ![u] = @ \ {e}]
      /\ UNCHANGED <<posts, excused, off>>
  BY DEF Renew, Goto, ghosts
<1>3. /\ \A w \in Workers : w # u => cur'[w] = cur[w] /\ pc'[w] = pc[w]
      /\ cur'[u] = e /\ pc'[u] = "renewed"
      /\ \A w \in Workers : todo'[w] \subseteq todo[w]
      /\ \A c \in Deliveries : row'[c] = IF c = d THEN Claimed(row[d], u) ELSE row[c]
  BY <1>1, <1>2 DEF Whole, Inv, Typed, TypeOK
<1>4. \A c \in Deliveries : /\ row'[c].attempts = row[c].attempts /\ row'[c].status = row[c].status
                            /\ \A w \in Workers : Holds(row'[c], w) <=> Holds(row[c], w)
  BY <1>1, <1>3, ClaimedRow DEF Holds
<1> HIDE DEF d
<1>5. ASSUME NEW w \in Workers, NEW c \in todo'[w], c.id \notin excused PROVE Copied(c, w)'
  <2>1. c \in todo[w] /\ c.id \in Deliveries
    BY <1>3, <1>5 DEF Whole, Inv, Typed, TypeOK, Snapshot
  <2>2. Copied(c, w)
    BY <1>5, <2>1 DEF Faithful
  <2> QED BY <1>4, <2>1, <2>2 DEF Copied
<1>6. ASSUME NEW w \in Workers, pc'[w] \in InHandPCs, cur'[w].id \notin excused,
             NEW c, c = cur'[w]
      PROVE  Copied(c, w)'
  <2>1. c.id \in Deliveries /\ Copied(c, w)
    <3>1. CASE w = u
      BY <1>1, <1>3, <1>6, <3>1 DEF Faithful, d
    <3>2. CASE w # u
      BY <1>3, <1>6, <3>2, RowsInHand DEF Faithful
    <3> QED BY <3>1, <3>2
  <2> QED BY <1>4, <2>1 DEF Copied
<1>7. ASSUME NEW w \in Workers, pc'[w] \in Unrecorded, cur'[w].id \notin excused
      PROVE  Own(row'[cur'[w].id], w)
  <2>1. w # u /\ pc[w] \in Unrecorded /\ cur'[w] = cur[w]
    BY <1>3, <1>7, <1>i
  <2>2. Own(row[cur[w].id], w) /\ cur[w].id # d
    BY <1>1, <1>7, <2>1, SoleHolder DEF Faithful
  <2>3. cur[w].id \in Deliveries
    BY <2>1, PCsInclude, RowsInHand DEF Unrecorded
  <2> QED BY <1>3, <2>1, <2>2, <2>3
<1>8. \A w \in Workers : pc'[w] \in {"idle", "swept"} => todo'[w] = {}
  BY <1>3, <1>i DEF Faithful
<1>9. Faithful'
  BY <1>2, <1>5, <1>6, <1>7, <1>8 DEF Faithful, Copied
<1>10. \A c \in Deliveries : Unwritten(c)' <=> Unwritten(c)
  <2>1. \A w \in Workers, c \in Deliveries :
          (pc'[w] \in Unrecorded /\ cur'[w].id = c) <=> (pc[w] \in Unrecorded /\ cur[w].id = c)
    BY <1>1, <1>3, <1>i
  <2> QED BY <2>1 DEF Unwritten
<1> QED BY <1>2, <1>4, <1>9, <1>10, CountedKept

(* A POST is begun on a row that is the worker's, and is one more than it    *)
(* tells.                                                                    *)
LEMMA PostOnLadder ==
    ASSUME Whole, Faithful, Counted, NEW u \in Workers, Post(u)
    PROVE  Faithful' /\ Counted'
<1> DEFINE d == cur[u].id
<1>i. /\ "ready" \notin Unrecorded /\ "posting" \in Unrecorded
      /\ {"ready", "posting"} \subseteq InHandPCs /\ "posting" \notin {"idle", "swept"}
  BY PCsInclude DEF Unrecorded
<1>1. /\ pc[u] = "ready" /\ budget[u] /\ pc' = [pc EXCEPT ![u] = "posting"]
      /\ posts' = [posts EXCEPT ![d] = @ + 1] /\ UNCHANGED <<row, cur, todo, excused, off>>
  BY DEF Post, Goto, rows, worker
<1>2. d \in Deliveries /\ row[d] \in Delivery /\ (d \notin excused => Own(row[d], u))
  BY <1>1, RowsInHand
<1>3. /\ \A w \in Workers : pc'[w] = IF w = u THEN "posting" ELSE pc[w]
      /\ \A c \in Deliveries : posts'[c] = IF c = d THEN posts[d] + 1 ELSE posts[c]
  BY <1>1, <1>2 DEF Whole, Inv, Typed, TypeOK
<1> HIDE DEF d
<1>4. Faithful'
  <2>1. \A w \in Workers : /\ pc'[w] \in {"idle", "swept"} => pc[w] \in {"idle", "swept"}
                           /\ pc'[w] \in InHandPCs => pc[w] \in InHandPCs
                           /\ pc'[w] \in Unrecorded => w = u \/ pc[w] \in Unrecorded
    BY <1>1, <1>3, <1>i
  <2>2. \A e, w : Copied(e, w)' <=> Copied(e, w)
    BY <1>1 DEF Copied
  <2>3. \A w \in Workers : pc'[w] \in Unrecorded /\ cur[w].id \notin excused => Own(row[cur[w].id], w)
    BY <1>2, <2>1 DEF Faithful, d
  <2>4. UNCHANGED <<row, cur, todo, excused>>
    BY <1>1
  <2> QED BY <2>1, <2>3, <2>4 DEF Faithful, Copied
<1>5. ASSUME ~off', NEW c \in Deliveries \ excused'
      PROVE  /\ row'[c].status = "none" => posts'[c] = 0
             /\ row'[c].status \in Open =>
                  posts'[c] = IF Unwritten(c)' THEN row'[c].attempts + 1 ELSE row'[c].attempts
  <2>1. /\ row[c].status = "none" => posts[c] = 0
        /\ row[c].status \in Open =>
             posts[c] = IF Unwritten(c) THEN row[c].attempts + 1 ELSE row[c].attempts
        /\ row' = row
    BY <1>1, <1>5 DEF Counted
  <2>2. CASE c # d
    <3>1. Unwritten(c)' <=> Unwritten(c)
      BY <1>1, <1>3, <1>i, <2>2 DEF Unwritten, d
    <3> QED BY <1>3, <2>1, <2>2, <3>1
  <2>3. CASE c = d
    <3>1. Own(row[d], u) /\ row[d].status # "none" /\ (row[d].status \in Open => Holds(row[d], u))
      BY <1>1, <1>2, <1>5, <2>3 DEF Own, Open, Holds
    <3>2. Unwritten(c)'
      BY <1>1, <1>3, <1>i, <2>3 DEF Unwritten, d
    <3>3. Holds(row[d], u) => ~Unwritten(c)
      BY <1>1, <1>5, <1>i, <2>3, SoleHolder DEF Unwritten
    <3> QED BY <1>3, <2>1, <2>3, <3>1, <3>2, <3>3
  <2> QED BY <2>2, <2>3
<1>6. Counted'
  BY <1>5 DEF Counted
<1> QED BY <1>4, <1>6

LEMMA StepOnLadder ==
    ASSUME Whole, Ladder, NEW u \in Workers, Step(u), off' \in BOOLEAN
    PROVE  Faithful' /\ Counted'
<1>f. SwitchedOn /\ Faithful /\ Counted
  BY DEF Ladder
<1>w. /\ pc \in [Workers -> PCs] /\ off \in BOOLEAN /\ todo \in [Workers -> SUBSET Snapshot]
      /\ answer \in [Workers -> {"none", "ok", "gone", "throttled", "error"}]
  BY DEF Whole, Inv, Typed, TypeOK
<1>i. /\ Unrecorded = {"posting", "answered", "recording", "expiring", "counting", "disabling",
                       "retrying"}
      /\ InHandPCs = PCs \ {"idle", "swept", "batch"}
      /\ PCs = {"idle", "swept", "batch", "posting", "releasing", "renewed", "ready", "answered",
                "recording", "expiring", "counting", "disabling", "retrying", "gone", "purging",
                "draining"}
  BY PCsInclude DEF Unrecorded
(* The worker keeps its entry, or has none to record. *)
<1>q. ASSUME RowsKept, NEW p \in PCs, pc' = [pc EXCEPT ![u] = p], UNCHANGED <<posts, excused>>,
             off => off', cur' = cur \/ (p = "batch" /\ cur' = [cur EXCEPT ![u] = NoEntry]),
             UNCHANGED todo, p \in {"idle", "swept"} => todo[u] = {},
             p \in InHandPCs => pc[u] \in InHandPCs,
             p \in Unrecorded => pc[u] \in Unrecorded,
             off' \/ (pc[u] \in Unrecorded => p \in Unrecorded)
      PROVE  Faithful' /\ Counted'
  BY <1>f, <1>q, MoveOnLadder
<1>1. ASSUME NEW S \in SUBSET Deliveries, Claim(u, S) PROVE Faithful' /\ Counted'
  <2>1. /\ S \in SUBSET Due /\ GetPending(u, S) /\ pc[u] = "swept"
        /\ UNCHANGED <<cur, posts, excused, off>>
        /\ todo' = [todo EXCEPT ![u] = {[id |-> d, attempts |-> row[d].attempts] : d \in S}]
        /\ pc' = [pc EXCEPT ![u] = IF S = {} THEN "idle" ELSE "batch"]
    BY <1>1 DEF Claim, Batch, Goto, ghosts
  <2>2. /\ \A w \in Workers : w # u => todo'[w] = todo[w]
        /\ todo'[u] = {[id |-> d, attempts |-> row[d].attempts] : d \in S}
    BY <2>1, <1>w
  <2>3. /\ \A e \in todo'[u] : e.id \in S /\ e.attempts = row[e.id].attempts
        /\ S = {} => todo'[u] = {}
    BY <2>2
  <2>4. CASE S = {}
    BY <1>f, <2>1, <2>2, <2>3, <2>4, ClaimOnLadder
  <2>5. CASE S # {}
    BY <1>f, <2>1, <2>2, <2>3, <2>5, ClaimOnLadder
  <2> QED BY <2>4, <2>5
<1>2. ASSUME ClaimFails(u) PROVE Faithful' /\ Counted'
  <2>1. /\ pc[u] = "swept" /\ pc' = [pc EXCEPT ![u] = "idle"]
        /\ UNCHANGED <<cur, todo, posts, excused, off>>
        /\ \E S \in SUBSET Due : GetPending(u, S)
    BY <1>2 DEF ClaimFails, Batch, Goto, worker, ghosts
  <2>2. todo[u] = {}
    BY <1>f, <2>1 DEF Faithful
  <2>3. PICK S \in SUBSET Due : GetPending(u, S)
    BY <2>1
  <2>4. \A e \in todo'[u] : e.id \in S /\ e.attempts = row[e.id].attempts
    BY <2>1, <2>2
  <2> QED BY <1>f, <2>1, <2>2, <2>3, <2>4, ClaimOnLadder
<1>3. ASSUME NEW e \in todo[u], Renew(u, e) PROVE Faithful' /\ Counted'
  BY <1>f, <1>3, RenewOnLadder
<1>4. ASSUME NEW e \in todo[u], NotRenewed(u, e) PROVE Faithful' /\ Counted'
  <2>1. /\ pc[u] = "batch" /\ pc' = [pc EXCEPT ![u] = "batch"] /\ RowsKept
        /\ UNCHANGED <<cur, posts, excused, off>>
        /\ \A w \in Workers : todo'[w] \subseteq todo[w]
    BY <1>4, <1>w, RowsAreKept DEF NotRenewed, rows, ghosts
  <2> QED BY <1>f, <1>i, <2>1, MoveOnLadder
<1>5. ASSUME NEW ok \in BOOLEAN, Sweep(u, ok) PROVE Faithful' /\ Counted'
  <2>1. /\ pc[u] = "idle" /\ pc' = [pc EXCEPT ![u] = "swept"]
        /\ UNCHANGED <<cur, todo, posts, excused, off>>
        /\ row' = row \/ row' = [d \in Deliveries |-> ReclaimStale(row[d])]
    BY <1>5 DEF Sweep, Goto, worker, ghosts
  <2>2. RowsKept /\ todo[u] = {}
    BY <1>f, <2>1, RowsAreKept DEF Faithful
  <2> QED BY <1>i, <1>q, <2>1, <2>2
<1>6. ASSUME EndBatch(u) PROVE Faithful' /\ Counted'
  <2>1. /\ pc[u] = "batch" /\ pc' = [pc EXCEPT ![u] = "idle"] /\ todo[u] = {}
        /\ UNCHANGED <<cur, todo, posts, excused, off>> /\ RowsKept
    BY <1>6, RowsAreKept DEF EndBatch, Goto, rows, ghosts
  <2> QED BY <1>i, <1>q, <2>1
<1>7. ASSUME NEW ok \in BOOLEAN, Lookup(u, ok) PROVE Faithful' /\ Counted'
  <2>1. /\ pc[u] = "renewed" /\ \E p \in {"releasing", "ready", "draining"} : pc' = [pc EXCEPT ![u] = p]
        /\ UNCHANGED <<cur, todo, posts, excused, off>> /\ RowsKept
    BY <1>7, RowsAreKept DEF Lookup, Goto, rows, ghosts
  <2> QED BY <1>i, <1>q, <2>1
<1>8. ASSUME NEW ok \in BOOLEAN, Release(u, ok) PROVE Faithful' /\ Counted'
  <2>1. /\ pc[u] = "releasing" /\ pc' = [pc EXCEPT ![u] = "batch"]
        /\ cur' = [cur EXCEPT ![u] = NoEntry]
        /\ UNCHANGED <<todo, posts, excused, off>> /\ RowsKept
    BY <1>8, RowsAreKept DEF Release, NextEntry, Goto, ghosts
  <2> QED BY <1>i, <1>q, <2>1
<1>9. ASSUME Post(u) PROVE Faithful' /\ Counted'
  BY <1>f, <1>9, PostOnLadder
<1>10. ASSUME OutOfBudget(u) PROVE Faithful' /\ Counted'
  <2>1. /\ pc[u] = "ready" /\ pc' = [pc EXCEPT ![u] = "releasing"]
        /\ UNCHANGED <<cur, todo, posts, excused, off>> /\ RowsKept
    BY <1>10, RowsAreKept DEF OutOfBudget, Goto, rows, worker, ghosts
  <2> QED BY <1>i, <1>q, <2>1
<1>11. ASSUME NEW a \in {"ok", "gone", "throttled", "error"}, Respond(u, a)
       PROVE  Faithful' /\ Counted'
  <2>1. /\ pc[u] = "posting" /\ pc' = [pc EXCEPT ![u] = "answered"]
        /\ UNCHANGED <<cur, todo, posts, excused>> /\ RowsKept /\ (off => off')
    BY <1>11, RowsAreKept DEF Respond, Goto, rows
  <2> QED BY <1>i, <1>q, <2>1
(* Only the endpoint's own word takes an answer off the ladder. *)
<1>12. ASSUME Triage(u) PROVE Faithful' /\ Counted'
  <2>1. /\ pc[u] = "answered" /\ UNCHANGED <<cur, todo, posts, excused, off>> /\ RowsKept
    BY <1>12, RowsAreKept DEF Triage, rows, worker, ghosts
  <2>2. answer[u] \in {"gone", "throttled", "error"}
    BY <1>12, <1>w, <2>1 DEF Triage, Whole, Inv, Typed, Hands
  <2>3. \E p \in {"gone", "retrying", "expiring"} :
           pc' = [pc EXCEPT ![u] = p] /\ (p = "gone" => answer[u] = "gone")
    BY <1>12, <2>2 DEF Triage, Goto
  <2>4. answer[u] = "gone" => off
    BY <1>f DEF SwitchedOn
  <2> QED BY <1>i, <1>q, <2>1, <2>3, <2>4
<1>13. ASSUME NEW ok \in BOOLEAN,
              \/ ResetSubscriptionFailures(u, ok) \/ ExpireStaleRun(u, ok) \/ CountFailure(u, ok)
       PROVE  Faithful' /\ Counted'
  <2>1. /\ pc[u] \in {"answered", "expiring", "counting"}
        /\ \E p \in {"recording", "counting", "disabling", "retrying"} : pc' = [pc EXCEPT ![u] = p]
        /\ UNCHANGED <<cur, todo, posts, excused, off>> /\ row' = row
    BY <1>13 DEF ResetSubscriptionFailures, ExpireStaleRun, CountFailure, Goto, ghosts
  <2> QED BY <1>i, <1>q, <2>1, RowsAreKept
<1>14. ASSUME NEW ok \in BOOLEAN, Retire(u, ok) PROVE Faithful' /\ Counted'
  <2>1. /\ pc[u] = "disabling" /\ UNCHANGED <<row, cur, todo, posts, excused>>
        /\ pc' = [pc EXCEPT ![u] = IF ok THEN "draining" ELSE "retrying"]
        /\ off' = (off \/ sub'.status # "enabled")
        /\ sub' = IF ok THEN DisableWithReason(sub, "failures") ELSE sub
    BY <1>14 DEF Retire, SubWritten, Goto
  <2>2. ok => off'
    BY <2>1, <1>w DEF DisableWithReason, Whole, Inv, Typed, TypeOK, Subscription
  <2>3. RowsKept
    BY <2>1, RowsAreKept
  <2> QED BY <1>i, <1>q, <1>w, <2>1, <2>2, <2>3
<1>15. ASSUME NEW ok \in BOOLEAN, EndpointGone(u, ok) \/ ZapierGone(u, ok)
       PROVE  Faithful' /\ Counted'
  <2>1. /\ pc[u] = "gone" /\ UNCHANGED <<cur, todo, posts, excused>>
        /\ \E p \in {"purging", "draining"} : pc' = [pc EXCEPT ![u] = p]
        /\ row' = row \/ row' = [d \in Deliveries |-> Removed(row[d])]
        /\ off => off'
    BY <1>15 DEF EndpointGone, ZapierGone, SubWritten, Goto
  <2> QED BY <1>i, <1>q, <2>1, RowsAreKept
<1>16. ASSUME NEW ok \in BOOLEAN, Purge(u, ok) PROVE Faithful' /\ Counted'
  <2>1. /\ pc[u] = "purging" /\ UNCHANGED <<todo, posts, excused, off>>
        /\ \/ pc' = [pc EXCEPT ![u] = "batch"] /\ cur' = [cur EXCEPT ![u] = NoEntry]
           \/ pc' = [pc EXCEPT ![u] = "draining"] /\ cur' = cur
        /\ row' = row \/ row' = [d \in Deliveries |-> Removed(row[d])]
    BY <1>16 DEF Purge, NextEntry, Goto, ghosts
  <2> QED BY <1>i, <1>q, <2>1, RowsAreKept
(* Outcomes. *)
<1>r. \A w \in Workers : pc[w] \in InHandPCs =>
          /\ cur[w] \in Snapshot /\ row[cur[w].id] \in Delivery
          /\ cur[w].id \notin excused /\ Holds(row[cur[w].id], w)
               => row[cur[w].id].attempts = cur[w].attempts
  BY <1>f, RowsInHand DEF Faithful, Copied
<1>17. ASSUME NEW ok \in BOOLEAN, Drain(u, ok) PROVE Faithful' /\ Counted'
  <2>1. pc[u] = "draining" /\ pc[u] \in InHandPCs
        /\ Write(u, ok, MarkFailed(row[cur[u].id], MaxAttempts))
    BY <1>17, <1>i DEF Drain
  <2>2. off
    BY <1>f, <2>1 DEF SwitchedOn
  <2>3. Holds(row[cur[u].id], u) => MarkFailed(row[cur[u].id], MaxAttempts).status # "delivering"
    BY <1>r, <2>1 DEF MarkFailed, OnRow, Exists, Holds, Delivery
  <2> QED BY <1>f, <2>1, <2>2, <2>3, WriteOnLadder
<1>18. ASSUME NEW ok \in BOOLEAN, RecordSuccess(u, ok) PROVE Faithful' /\ Counted'
  <2>1. /\ pc[u] = "recording" /\ pc[u] \in InHandPCs
        /\ Write(u, ok, MarkDelivered(row[cur[u].id]))
    BY <1>18, <1>i DEF RecordSuccess
  <2>2. Holds(row[cur[u].id], u) => MarkDelivered(row[cur[u].id]).status = "delivered"
    BY <1>r, <2>1 DEF MarkDelivered, OnRow, Exists, Holds, Delivery
  <2> QED BY <1>f, <2>1, <2>2, WriteOnLadder DEF Final
<1>19. ASSUME NEW ok \in BOOLEAN, HandleDeliveryFailure(u, ok) PROVE Faithful' /\ Counted'
  <2> DEFINE n == cur[u].attempts + 1
             r == IF n >= MaxAttempts THEN MarkFailed(row[cur[u].id], n)
                                      ELSE ScheduleRetry(row[cur[u].id], n)
  <2>1. /\ pc[u] = "retrying" /\ pc[u] \in InHandPCs /\ pc[u] \in Unrecorded
        /\ Write(u, ok, r)
    BY <1>19, <1>i DEF HandleDeliveryFailure
  <2>2. Holds(row[cur[u].id], u) => r.status = "failed" /\ r.attempts = n
    BY <1>r, <2>1 DEF MarkFailed, ScheduleRetry, OnRow, Exists, Holds, Delivery
  <2> HIDE DEF r
  <2>3. Holds(row[cur[u].id], u) /\ cur[u].id \notin excused
          => n = row[cur[u].id].attempts + 1
    BY <1>r, <2>1
  <2> QED BY <1>f, <2>1, <2>2, <2>3, WriteOnLadder
<1> QED BY <1>1, <1>2, <1>3, <1>4, <1>5, <1>6, <1>7, <1>8, <1>9, <1>10, <1>11, <1>12, <1>13,
           <1>14, <1>15, <1>16, <1>17, <1>18, <1>19 DEF Step

LEMMA NextOnLadder == Whole /\ Ladder /\ [Next]_vars => Ladder'
<1> SUFFICES ASSUME Whole, Ladder, [Next]_vars PROVE Ladder'
  OBVIOUS
<1>f. SwitchedOn /\ Faithful /\ Counted
  BY DEF Ladder
<1>s. SwitchedOn' /\ off' \in BOOLEAN
  <2>1. Typed /\ Typed' /\ [Next]_vars
    BY NextTells DEF Whole, Inv
  <2> QED BY <1>f, <2>1, SwitchedOnStep DEF Typed, TypeOK
<1>w. /\ pc \in [Workers -> PCs] /\ row \in [Deliveries -> Delivery] /\ off \in BOOLEAN
      /\ \A w \in Workers : pc[w] \in InHandPCs => cur[w].id \in Deliveries
  BY RowsInHand DEF Whole, Inv, Typed, TypeOK
<1>i. /\ Unrecorded = {"posting", "answered", "recording", "expiring", "counting", "disabling",
                       "retrying"}
      /\ InHandPCs = PCs \ {"idle", "swept", "batch"}
      /\ PCs = {"idle", "swept", "batch", "posting", "releasing", "renewed", "ready", "answered",
                "recording", "expiring", "counting", "disabling", "retrying", "gone", "purging",
                "draining"}
  BY PCsInclude DEF Unrecorded
(* The workers are left alone. *)
<1>q. ASSUME UNCHANGED <<pc, todo, cur, posts>>, excused \subseteq excused', off => off',
             \A d \in Deliveries \ excused', w \in Workers :
                Holds(row'[d], w) => Holds(row[d], w) /\ row'[d].attempts = row[d].attempts,
             \A d \in Deliveries \ excused' :
                \/ row'[d].status \in Final
                \/ /\ row'[d].attempts = row[d].attempts
                   /\ row'[d].status = row[d].status \/ {row[d].status, row'[d].status} \subseteq Open,
             \A w \in Workers : pc[w] \in Unrecorded /\ cur[w].id \notin excused' =>
                (Own(row[cur[w].id], w) => Own(row'[cur[w].id], w))
      PROVE  Faithful' /\ Counted'
  <2>1. Faithful'
    <3>1. \A w \in Workers : pc[w] \in {"idle", "swept"} => todo[w] = {}
      BY <1>f DEF Faithful
    <3> QED BY <1>f, <1>q, <3>1, FaithfulKept
  <2>2. \A d : Unwritten(d)' <=> Unwritten(d)
    BY <1>q DEF Unwritten
  <2>3. Counted'
    BY <1>f, <1>q, <1>s, <1>w, <2>2, CountedKept
  <2> QED BY <2>1, <2>3
<1>1. ASSUME NEW u \in Workers, Step(u) PROVE Faithful' /\ Counted'
  BY <1>1, <1>s, StepOnLadder
<1>2. ASSUME NEW u \in Workers, BudgetSpent(u) PROVE Faithful' /\ Counted'
  <2>1. /\ UNCHANGED <<row, cur, todo, posts, excused, off>>
        /\ \/ pc[u] = "posting" /\ pc' = [pc EXCEPT ![u] = "answered"]
           \/ pc' = pc
    BY <1>2 DEF BudgetSpent, Goto, rows
  <2>2. CASE pc' = pc
    BY <1>q, <2>1, <2>2
  <2>3. CASE pc[u] = "posting" /\ pc' = [pc EXCEPT ![u] = "answered"]
    <3>1. RowsKept
      BY <2>1, RowsAreKept
    <3> QED BY <1>f, <1>i, <1>s, <2>1, <2>3, <3>1, MoveOnLadder
  <2> QED BY <2>1, <2>2, <2>3
<1>3. ASSUME NEW u \in Workers, Crash(u) PROVE Faithful' /\ Counted'
  <2>1. /\ UNCHANGED <<row, posts, off>> /\ excused \subseteq excused'
        /\ pc' = [pc EXCEPT ![u] = "idle"] /\ cur' = [cur EXCEPT ![u] = NoEntry]
        /\ todo' = [todo EXCEPT ![u] = {}]
        /\ pc[u] \in Unrecorded => cur[u].id \in excused'
    BY <1>3, <1>i DEF Crash, Goto, rows, Recording
  <2>2. /\ \A w \in Workers : todo'[w] \subseteq todo[w]
        /\ todo'[u] = {}
    BY <2>1 DEF Whole, Inv, Typed, TypeOK
  <2>3. RowsKept
    BY <2>1, RowsAreKept
  <2> QED BY <1>f, <1>i, <1>s, <2>1, <2>2, <2>3, MoveOnLadder
(* One row changes, which is nobody's outcome to write. *)
<1>o. ASSUME UNCHANGED <<pc, todo, cur, posts>>, excused \subseteq excused', off => off',
             NEW d \in Deliveries, NEW r, row' = [row EXCEPT ![d] = r],
             \A w \in Workers : Holds(r, w) => Holds(row[d], w) /\ r.attempts = row[d].attempts,
             \/ r.status \in Final
             \/ r.attempts = row[d].attempts /\ r.status = row[d].status,
             \A w \in Workers : pc[w] \in Unrecorded /\ cur[w].id \notin excused'
                /\ cur[w].id = d /\ Own(row[d], w) => Own(r, w)
      PROVE  Faithful' /\ Counted'
  <2>1. \A c \in Deliveries : row'[c] = IF c = d THEN r ELSE row[c]
    BY <1>o, <1>w
  <2>2. \A w \in Workers : pc[w] \in Unrecorded => cur[w].id \in Deliveries
    BY <1>w, <1>i
  <2> QED BY <1>o, <1>q, <2>1, <2>2
(* An event is queued: nothing was posted for it. *)
<1>4. ASSUME NEW d \in Deliveries, Fire(d) PROVE Faithful' /\ Counted'
  <2>1. /\ row[d].status = "none" /\ row' = [row EXCEPT ![d] = Inserted]
        /\ UNCHANGED <<pc, todo, cur, posts, excused, off>>
    BY <1>4 DEF Fire, worker, ghosts
  <2>2. /\ \A c \in Deliveries : row'[c] = IF c = d THEN Inserted ELSE row[c]
        /\ Inserted.status = "pending" /\ Inserted.attempts = 0
    BY <2>1, <1>w DEF Inserted, NoDelivery
  <2>3. ASSUME NEW w \in Workers, pc[w] \in Unrecorded, cur[w].id \notin excused
        PROVE  cur[w].id \in Deliveries /\ cur[w].id # d
    BY <1>f, <1>i, <1>w, <2>1, <2>3, StaysOwn DEF Faithful
  <2>4. Faithful'
    <3>1. \A c \in Deliveries \ excused', w \in Workers :
            Holds(row'[c], w) => Holds(row[c], w) /\ row'[c].attempts = row[c].attempts
      BY <2>2 DEF Holds
    <3>2. \A w \in Workers : pc[w] \in {"idle", "swept"} => todo[w] = {}
      BY <1>f DEF Faithful
    <3> QED BY <1>f, <2>1, <2>2, <2>3, <3>1, <3>2, FaithfulKept
  <2>5. ASSUME ~off', NEW c \in Deliveries \ excused'
        PROVE  /\ row'[c].status = "none" => posts'[c] = 0
               /\ row'[c].status \in Open =>
                    posts'[c] = IF Unwritten(c)' THEN row'[c].attempts + 1 ELSE row'[c].attempts
    <3>1. /\ row[c].status = "none" => posts[c] = 0
          /\ row[c].status \in Open =>
               posts[c] = IF Unwritten(c) THEN row[c].attempts + 1 ELSE row[c].attempts
          /\ (Unwritten(c)' <=> Unwritten(c)) /\ posts' = posts
      BY <1>f, <2>1, <2>5 DEF Counted, Unwritten
    <3>2. c = d => ~Unwritten(c)
      BY <2>1, <2>3, <2>5 DEF Unwritten
    <3> QED BY <2>1, <2>2, <3>1, <3>2
  <2>6. Counted'
    BY <2>5 DEF Counted
  <2> QED BY <2>4, <2>6
<1>5. ASSUME NEW d \in Deliveries, LeaseExpires(d) PROVE Faithful' /\ Counted'
  <2> DEFINE r == [row[d] EXCEPT !.stale = TRUE]
  <2>1. /\ UNCHANGED <<pc, todo, cur, posts, off>> /\ row' = [row EXCEPT ![d] = r]
        /\ row[d].status = "delivering" /\ excused \subseteq excused'
        /\ InHand(row[d].claim, d) => ~budget[row[d].claim]
        /\ InHand(row[d].claim, d) /\ pc[row[d].claim] \in Recording => d \in excused'
    BY <1>5 DEF LeaseExpires, worker
  <2>2. /\ r.status = row[d].status /\ r.attempts = row[d].attempts /\ r.claim = row[d].claim
    BY <1>w DEF Delivery
  <2>3. ASSUME NEW w \in Workers, pc[w] \in Unrecorded, cur[w].id \notin excused', cur[w].id = d,
               Own(row[d], w)
        PROVE  FALSE
    <3>1. row[d].claim = w /\ InHand(w, d)
      BY <2>1, <2>3 DEF Own, Holds, InHand
    <3>2. pc[w] = "posting" => budget[w]
      BY DEF Whole, Inv, InBudget
    <3> QED BY <1>i, <2>1, <2>3, <3>1, <3>2 DEF Recording
  <2> HIDE DEF r
  <2>4. \A w \in Workers : Holds(r, w) => Holds(row[d], w) /\ r.attempts = row[d].attempts
    BY <2>2 DEF Holds
  <2>5. \A w \in Workers : pc[w] \in Unrecorded /\ cur[w].id \notin excused'
                /\ cur[w].id = d /\ Own(row[d], w) => Own(r, w)
    BY <2>3
  <2> QED BY <1>o, <2>1, <2>2, <2>4, <2>5
<1>6. ASSUME NEW d \in Deliveries, FallsDue(d) PROVE Faithful' /\ Counted'
  <2> DEFINE r == [row[d] EXCEPT !.due = TRUE]
  <2>1. /\ UNCHANGED <<pc, todo, cur, posts, excused, off>> /\ row' = [row EXCEPT ![d] = r]
        /\ row[d].status = "failed"
    BY <1>6 DEF FallsDue, worker, ghosts
  <2>2. /\ r.status = row[d].status /\ r.attempts = row[d].attempts
    BY <1>w DEF Delivery
  <2>3. \A w \in Workers : ~Own(row[d], w) /\ ~Holds(r, w)
    BY <2>1, <2>2 DEF Own, Holds
  <2> HIDE DEF r
  <2> QED BY <1>o, <2>1, <2>2, <2>3
<1>7. ASSUME NEW d \in Deliveries, Cleanup(d) PROVE Faithful' /\ Counted'
  <2>1. /\ UNCHANGED <<pc, todo, cur, posts, excused, off>>
        /\ row' = [row EXCEPT ![d] = Removed(row[d])] /\ Exists(row[d])
    BY <1>7 DEF Cleanup, worker, ghosts
  <2>2. Removed(row[d]).status = "removed"
    BY <2>1 DEF Removed, OnRow, NoDelivery
  <2>3. \A w \in Workers : Own(Removed(row[d]), w) /\ ~Holds(Removed(row[d]), w)
    BY <2>2 DEF Own, Holds
  <2> QED BY <1>o, <2>1, <2>2, <2>3 DEF Final
<1>8. ASSUME \/ \E op \in {"edit", "on", "off", "delete"} : BeginRequest(op)
             \/ EndRequest \/ RunAges
      PROVE  Faithful' /\ Counted'
  <2>1. /\ UNCHANGED <<pc, todo, cur, posts, excused>> /\ (off => off')
        /\ row' = [d \in Deliveries |-> Removed(row[d])] \/ row' = row
    <3>1. ASSUME NEW op \in {"edit", "on", "off", "delete"}, BeginRequest(op)
          PROVE  /\ UNCHANGED <<pc, todo, cur, posts, excused, off>>
                 /\ row' = [d \in Deliveries |-> Removed(row[d])] \/ row' = row
      BY <3>1 DEF BeginRequest, worker, ghosts
    <3>2. CASE EndRequest
      BY <3>2 DEF EndRequest, SubWritten, worker
    <3>3. CASE RunAges
      BY <3>3 DEF RunAges
    <3> QED BY <1>8, <3>1, <3>2, <3>3
  <2>2. Workers = {} \/ RowsKept
    BY <2>1, RowsAreKept
  <2>3. CASE RowsKept
    BY <1>q, <2>1, <2>3 DEF RowsKept
  <2>4. CASE Workers = {}
    <3>1. \A d \in Deliveries : row[d] \in Delivery
      BY <1>w
    <3>2. \A d \in Deliveries : row'[d] = row[d] \/ row'[d].status \in Final
      BY <2>1, <3>1 DEF Removed, OnRow, Exists, NoDelivery, Final
    <3> QED BY <1>q, <2>1, <2>4, <3>2
  <2> QED BY <2>2, <2>3, <2>4
<1>9. ASSUME UNCHANGED vars PROVE Faithful' /\ Counted'
  <2>1. UNCHANGED <<row, pc, todo, cur, posts, excused, off>>
    BY <1>9 DEF vars, rows, worker, ghosts
  <2>2. \A d \in Deliveries : row'[d] = row[d]
    BY <2>1
  <2>3. row' = row /\ excused \subseteq excused' /\ (off => off')
    BY <2>1
  <2> QED BY <1>q, <2>1, <2>3
<1>10. ASSUME Next PROVE Faithful' /\ Counted'
  BY <1>10, <1>1, <1>2, <1>3, <1>4, <1>5, <1>6, <1>7, <1>8 DEF Next
<1>11. Faithful' /\ Counted'
  <2>1. [Next]_vars
    OBVIOUS
  <2> QED BY <1>9, <1>10, <2>1
<1> QED BY <1>s, <1>11 DEF Ladder

LEMMA LadderAtFirst == Init => Ladder
<1> SUFFICES ASSUME Init PROVE Ladder
  OBVIOUS
<1>1. SwitchedOn /\ Faithful
  BY DEF Init, SwitchedOn, Faithful, InHandPCs, Preparing, Recording, Unrecorded
<1>2. Counted
  BY DEF Init, Counted, NoDelivery, Open
<1> QED BY <1>1, <1>2 DEF Ladder

(* A delivery whose outcomes were written in time is given up only after its *)
(* MaxAttempts POSTs, unless the subscription was off or its endpoint said   *)
(* it is gone: sweeps, releases, renewals and the claims of other replicas   *)
(* neither spend an attempt nor give one back (processDelivery,              *)
(* handleDeliveryFailure and drainDelivery of webhook_delivery_worker.go).   *)
THEOREM GivenUpOnlyForCause == Spec => []GivenUpForCause
<1>1. Whole /\ Ladder => GivenUpForCause
  <2> SUFFICES ASSUME Whole, Ladder, NEW d \in Deliveries \ excused, row[d].status = "failed",
                      row[d].attempts >= MaxAttempts, ~off
               PROVE  posts[d] = MaxAttempts
    BY DEF GivenUpForCause
  <2>1. row[d] \in Delivery /\ row[d].attempts = MaxAttempts
    <3>1. row[d] \in Delivery
      BY RowsInHand
    <3>2. row[d].attempts \in 0 .. MaxAttempts
      BY <3>1 DEF Delivery
    <3> QED BY <3>1, <3>2, LadderAssumption
  <2>2. ~Unwritten(d)
    BY <2>1, StaysOwn DEF Unwritten, Ladder, Faithful
  <2> QED BY <2>1, <2>2 DEF Ladder, Counted, Open
<1>2. Init => Whole /\ Ladder
  BY WholeAtFirst, LadderAtFirst
<1>3. Whole /\ Ladder /\ [Next]_vars => (Whole /\ Ladder)'
  BY NextTells, NextOnLadder
<1> QED BY <1>1, <1>2, <1>3, PTL DEF Spec
=============================================================================
