-------------------------- MODULE EmailQueue_proofs --------------------------
(***************************************************************************)
(* Proofs about EmailQueue for every number of entries, broadcasts,        *)
(* integrations and workers, every attempt budget and every threshold.     *)
(***************************************************************************)
EXTENDS EmailQueue, TLAPS

-----------------------------------------------------------------------------
(* The statements of the repository map rows to rows.                      *)

\* Every statement of email_queue_postgres.go leaves a well-formed row.
LEMMA RowOps ==
    ASSUME NEW r \in Row
    PROVE  /\ Gone(r) \in Row
           /\ MarkAsProcessing(r) \in Row
           /\ MarkAsSent(r) \in Row
           /\ MarkAsFailed(r) \in Row
           /\ MarkAsPermanentlyFailed(r) \in Row
           /\ SetNextRetry(r) \in Row
           /\ DeleteTerminallyFailedOlderThan(r) \in Row
           /\ PauseBySource(r) \in Row
           /\ ResumeBySource(r) \in Row
           /\ DeleteBySource(r) \in Row
           /\ DeleteForEmail(r) \in Row
           /\ RetryFallsDue(r) \in Row
           /\ GoesStale(r) \in Row
           /\ Expires(r) \in Row
<1>1. Gone(r) \in Row
    BY DEF Row, Statuses, Gone
<1>2. MarkAsProcessing(r) \in Row
    <2>1. r.attempts + 1 \in Nat
        BY DEF Row
    <2>2. [r EXCEPT !.status = "processing", !.attempts = @ + 1, !.stale = FALSE] \in Row
        BY <2>1 DEF Row, Statuses
    <2> QED
        BY <2>2 DEF MarkAsProcessing
<1>3. MarkAsSent(r) \in Row
    BY DEF Row, Statuses, MarkAsSent, Gone
<1>4. MarkAsFailed(r) \in Row
    BY DEF Row, Statuses, MarkAsFailed
<1>5. MarkAsPermanentlyFailed(r) \in Row
    BY DEF Row, Statuses, MarkAsPermanentlyFailed
<1>6. SetNextRetry(r) \in Row
    BY DEF Row, Statuses, SetNextRetry
<1>7. DeleteTerminallyFailedOlderThan(r) \in Row
    BY DEF Row, Statuses, DeleteTerminallyFailedOlderThan, Gone
<1>8. PauseBySource(r) \in Row
    BY DEF Row, Statuses, PauseBySource
<1>9. ResumeBySource(r) \in Row
    BY DEF Row, Statuses, ResumeBySource
<1>10. DeleteBySource(r) \in Row
    BY DEF Row, Statuses, DeleteBySource, Gone
<1>11. DeleteForEmail(r) \in Row
    BY DEF Row, Statuses, DeleteForEmail, Gone
<1>12. RetryFallsDue(r) \in Row
    BY DEF Row, Statuses, RetryFallsDue
<1>13. GoesStale(r) \in Row
    BY DEF Row, Statuses, GoesStale
<1>14. Expires(r) \in Row
    BY DEF Row, Statuses, Expires
<1> QED
    BY <1>1, <1>2, <1>3, <1>4, <1>5, <1>6, <1>7, <1>8, <1>9, <1>10, <1>11, <1>12, <1>13, <1>14

\* Enqueued and requeued rows are well formed.
LEMMA NewRows ==
    ASSUME NEW i \in Integrations
    PROVE  /\ EnqueuedRow(i) \in Row
           /\ \A r \in Row : ResetTerminallyFailedBySource(r, i) \in Row
BY DEF Row, Statuses, EnqueuedRow, ResetTerminallyFailedBySource

\* Every operation of circuit_breaker.go leaves a well-formed breaker.
LEMMA BreakerOps ==
    ASSUME NEW b \in Breaker
    PROVE  /\ NewCircuitBreaker \in Breaker
           /\ AfterIsOpen(b) \in Breaker
           /\ RecordSuccess(b) \in Breaker
           /\ RecordFailure(b) \in Breaker
           /\ CoolsDown(b) \in Breaker
<1>1. NewCircuitBreaker \in Breaker
    BY DEF Breaker, NewCircuitBreaker
<1>2. AfterIsOpen(b) \in Breaker
    BY <1>1 DEF AfterIsOpen
<1>3. RecordSuccess(b) \in Breaker
    BY <1>1 DEF RecordSuccess
<1>4. RecordFailure(b) \in Breaker
    BY ThresholdAssumption DEF Breaker, RecordFailure
<1>5. CoolsDown(b) \in Breaker
    BY DEF Breaker, CoolsDown
<1> QED
    BY <1>1, <1>2, <1>3, <1>4, <1>5

-----------------------------------------------------------------------------
(* Types.                                                                  *)

\* Away from idle and from between two entries, a worker has one in hand.
CurOK == \A w \in Workers : pc[w] \notin {"idle", "listed", "next"} => cur[w] \in Snapshot

Typed == TypeOK /\ CurOK

\* The entry a worker has in hand is a well-formed snapshot.
LEMMA CurTyped ==
    ASSUME Typed, NEW w \in Workers, pc[w] \notin {"idle", "listed", "next"}
    PROVE  /\ cur[w] \in Snapshot
           /\ cur[w].id \in Entries
           /\ cur[w].attempts \in Nat
           /\ cur[w].integration \in Integrations
BY DEF Typed, CurOK, Snapshot

\* Statements applied to all rows of a broadcast keep the table well formed.
LEMMA BySourceTyped ==
    ASSUME TypeOK, NEW b \in Broadcasts
    PROVE  /\ BySource(b, PauseBySource) \in [Entries -> Row]
           /\ BySource(b, ResumeBySource) \in [Entries -> Row]
           /\ BySource(b, DeleteBySource) \in [Entries -> Row]
BY RowOps DEF BySource, TypeOK

\* The initial state is well typed.
LEMMA InitTyped == Init => Typed
<1> SUFFICES ASSUME Init PROVE Typed
    OBVIOUS
<1>1. queue \in [Entries -> Row]
    BY NewRows, RowOps DEF Init
<1>2. breaker \in [Workers -> [Integrations -> Breaker]]
    BY ThresholdAssumption DEF Init, Breaker, NewCircuitBreaker
<1> QED
    BY <1>1, <1>2 DEF Init, Typed, TypeOK, CurOK, PCs, BroadcastStatuses

\* The worker's own steps keep the types.
LEMMA StepTyped ==
    ASSUME Typed, NEW w \in Workers, Step(w)
    PROVE  Typed'
<1> USE DEF Typed
<1>1. ASSUME Poll(w) PROVE Typed'
    BY <1>1 DEF TypeOK, CurOK, PCs, Holding, rows, bcasts, batch, tripped, ghosts, Charge, Poll, Snapshot, Row
<1>2. ASSUME NEW x \in todo[w], ClaimEntry(w, x) PROVE Typed'
    BY <1>2, RowOps, BreakerOps DEF TypeOK, CurOK, PCs, Holding, rows, bcasts, batch, tripped, ghosts, Charge, ClaimEntry, ConsultBreaker, Snapshot
<1>3. ASSUME NEW x \in todo[w], NEW ok \in BOOLEAN, SkipEntry(w, x, ok) PROVE Typed'
    BY <1>3, RowOps DEF TypeOK, CurOK, PCs, Holding, rows, bcasts, batch, tripped, ghosts, Charge, SkipEntry, Snapshot
<1>4. ASSUME NEW x \in todo[w], NEW ok \in BOOLEAN, ClaimRefused(w, x, ok) PROVE Typed'
    BY <1>4, BreakerOps DEF TypeOK, CurOK, PCs, Holding, rows, bcasts, batch, tripped, ghosts, Charge, ClaimRefused, ConsultBreaker, Snapshot
<1>5. ASSUME EndPoll(w) PROVE Typed'
    BY <1>5 DEF TypeOK, CurOK, PCs, Holding, rows, bcasts, batch, tripped, ghosts, Charge, EndPoll
<1>6. ASSUME SendSucceeds(w) PROVE Typed'
    <2>1. cur[w].id \in Entries /\ cur[w].integration \in Integrations
        BY <1>6, CurTyped DEF SendSucceeds
    <2>2. breaker[w][cur[w].integration] \in Breaker
        BY <2>1 DEF TypeOK
    <2>3. RecordSuccess(breaker[w][cur[w].integration]) \in Breaker
        BY <2>2, BreakerOps
    <2>4. breaker' \in [Workers -> [Integrations -> Breaker]]
        BY <1>6, <2>3 DEF SendSucceeds, TypeOK
    <2>5. sends' \in [Entries -> Nat]
        BY <1>6, <2>1 DEF SendSucceeds, TypeOK
    <2>6. pc' \in [Workers -> PCs]
        BY <1>6 DEF SendSucceeds, TypeOK, PCs, Holding
    <2>7. CurOK'
        BY <1>6 DEF SendSucceeds, CurOK, TypeOK
    <2> QED
        BY <1>6, <2>4, <2>5, <2>6, <2>7 DEF TypeOK, rows, bcasts, batch, tripped, SendSucceeds
<1>7. ASSUME NEW counted \in BOOLEAN, NEW mayRetry \in BOOLEAN, SendFails(w, counted, mayRetry) PROVE Typed'
    <2> DEFINE b == breaker[w][cur[w].integration]
    <2>1. cur[w].integration \in Integrations
        BY <1>7, CurTyped DEF SendFails
    <2>2. b \in Breaker
        BY <2>1 DEF TypeOK
    <2>3. (IF counted THEN RecordFailure(b) ELSE b) \in Breaker
        BY <2>2, BreakerOps
    <2>4. breaker' \in [Workers -> [Integrations -> Breaker]]
        BY <1>7, <2>3 DEF SendFails, TypeOK
    <2>5. retryable' \in [Workers -> BOOLEAN]
        BY <1>7 DEF SendFails, TypeOK
    <2>6. pc' = [pc EXCEPT ![w] = "opened"] \/ pc' = [pc EXCEPT ![w] = "failing"]
        BY <1>7 DEF SendFails
    <2>7. pc' \in [Workers -> PCs] /\ CurOK'
        BY <1>7, <2>6 DEF SendFails, CurOK, TypeOK, PCs, Holding
    <2> QED
        BY <1>7, <2>4, <2>5, <2>7
        DEF TypeOK, rows, bcasts, batch, tripped, ghosts, SendFails
<1>8. ASSUME NEW ok \in BOOLEAN, MarkSent(w, ok) PROVE Typed'
    <2>1. cur[w] \in Snapshot /\ cur[w].id \in Entries
        BY <1>8, CurTyped DEF MarkSent
    <2>2. queue' \in [Entries -> Row]
        BY <1>8, <2>1, RowOps DEF MarkSent, TypeOK
    <2>3. cur' \in [Workers -> Snapshot \cup {None}] /\ CurOK'
        BY <1>8, <2>1 DEF MarkSent, TypeOK, CurOK
    <2> QED
        BY <1>8, <2>2, <2>3 DEF TypeOK, PCs, Holding, rows, bcasts, batch, tripped,
            ghosts, Charge, MarkSent
<1>9. ASSUME NEW ok \in BOOLEAN, RecordSent(w, ok) PROVE Typed'
    <2>1. cur[w].id \in Entries
        BY <1>9, CurTyped DEF RecordSent
    <2>2. history' \in [Entries -> {"none", "failed", "sent"}]
        BY <1>9, <2>1 DEF RecordSent, TypeOK
    <2>3. cur' \in [Workers -> Snapshot \cup {None}] /\ CurOK'
        BY <1>9, <2>1 DEF RecordSent, TypeOK, CurOK
    <2> QED
        BY <1>9, <2>2, <2>3 DEF TypeOK, PCs, Holding, rows, bcasts, batch, tripped,
            ghosts, Charge, RecordSent
<1>10. ASSUME NEW ok \in BOOLEAN, RecordFailed(w, ok) PROVE Typed'
    <2>1. cur[w].id \in Entries
        BY <1>10, CurTyped DEF RecordFailed
    <2>2. history' \in [Entries -> {"none", "failed", "sent"}]
        BY <1>10, <2>1 DEF RecordFailed, TypeOK
    <2>3. CurOK'
        BY <1>10 DEF RecordFailed, TypeOK, CurOK
    <2> QED
        BY <1>10, <2>2, <2>3 DEF TypeOK, PCs, Holding, rows, bcasts, batch, tripped,
            ghosts, Charge, RecordFailed
<1>11. ASSUME NEW ok \in BOOLEAN, MarkFailed(w, ok) PROVE Typed'
    <2>1. cur[w].id \in Entries
        BY <1>11, CurTyped DEF MarkFailed
    <2>2. queue' \in [Entries -> Row]
        BY <1>11, <2>1, RowOps DEF MarkFailed, AfterError, TypeOK
    <2>3. cur' \in [Workers -> Snapshot \cup {None}] /\ CurOK'
        BY <1>11, <2>1 DEF MarkFailed, TypeOK, CurOK
    <2>4. given' \in [Entries -> Nat]
        BY <1>11, <2>1 DEF MarkFailed, TypeOK
    <2> QED
        BY <1>11, <2>2, <2>3, <2>4 DEF TypeOK, PCs, Holding, rows, bcasts, batch, tripped,
            ghosts, Charge, MarkFailed
<1>12. ASSUME NEW ok \in BOOLEAN, PauseTripped(w, ok) PROVE Typed'
    <2>1. seen[w] \in Loaded /\ seen[w].broadcast \in Broadcasts /\ seen[w].completed \in BOOLEAN
        BY <1>12 DEF PauseTripped, TypeOK, Loaded
    <2>2. queue' \in [Entries -> Row]
        BY <1>12, <2>1, BySourceTyped DEF PauseTripped, TypeOK
    <2>3. status' \in [Broadcasts -> BroadcastStatuses]
        BY <1>12, <2>1 DEF PauseTripped, TypeOK, BroadcastStatuses
    <2>4. completed' \in [Broadcasts -> BOOLEAN]
        BY <1>12, <2>1 DEF PauseTripped, TypeOK
    <2> QED
        BY <1>12, <2>2, <2>3, <2>4 DEF TypeOK, CurOK, PCs, Holding, rows, bcasts, batch,
            tripped, ghosts, Charge, PauseTripped
<1>13. ASSUME NEW ok \in BOOLEAN, ListTripped(w, ok) PROVE Typed'
    BY <1>13 DEF TypeOK, CurOK, PCs, Holding, rows, bcasts, batch, tripped, ghosts, Charge, ListTripped
<1>14. ASSUME NEW b \in trip[w], NEW ok \in BOOLEAN, LoadTripped(w, b, ok) PROVE Typed'
    BY <1>14 DEF TypeOK, CurOK, PCs, Holding, rows, bcasts, batch, tripped, ghosts, Charge, LoadTripped, Loaded
<1>15. ASSUME EndTrip(w) PROVE Typed'
    BY <1>15 DEF TypeOK, CurOK, PCs, Holding, rows, bcasts, batch, tripped, ghosts, Charge, EndTrip
<1>16. ASSUME ListWorkspaces(w) PROVE Typed'
    BY <1>16 DEF TypeOK, CurOK, PCs, Holding, rows, bcasts, batch, tripped, ghosts, ListWorkspaces
<1> QED
    BY <1>1, <1>2, <1>3, <1>4, <1>5, <1>6, <1>7, <1>8, <1>9, <1>10, <1>11, <1>12, <1>13,
       <1>14, <1>15, <1>16 DEF Step

\* So do the sweep, a crash, the operator, the application and the clock.
LEMMA OtherTyped ==
    ASSUME Typed,
           \/ \E w \in Workers : Sweep(w) \/ Crash(w)
           \/ Operator \/ Application \/ Clock
    PROVE  Typed'
<1> USE DEF Typed
<1>1. ASSUME NEW w \in Workers, Sweep(w) PROVE Typed'
    <2>1. queue' \in [Entries -> Row]
        BY <1>1, RowOps DEF Sweep, TypeOK
    <2> QED
        BY <1>1, <2>1 DEF Sweep, TypeOK, CurOK, rows, bcasts, batch, tripped
<1>2. ASSUME NEW w \in Workers, Crash(w) PROVE Typed'
    <2>1. breaker' \in [Workers -> [Integrations -> Breaker]]
        BY <1>2, ThresholdAssumption DEF Crash, TypeOK, Breaker, NewCircuitBreaker
    <2> QED
        BY <1>2, <2>1 DEF Crash, TypeOK, CurOK, PCs, rows, bcasts, ghosts
<1>3. ASSUME NEW op \in {"pause", "resume", "cancel", "retry"}, NEW b \in Broadcasts,
             BeginRequest(op, b)
      PROVE  Typed'
    <2>1. request' \in Request
        BY <1>3 DEF BeginRequest, Request, TypeOK
    <2> QED
        BY <1>3, <2>1 DEF BeginRequest, TypeOK, CurOK, rows, batch, tripped, ghosts
<1>4. ASSUME AbortRequest PROVE Typed'
    BY <1>4 DEF AbortRequest, TypeOK, CurOK, rows, batch, tripped, ghosts
<1>5. ASSUME request # None
      PROVE  request.broadcast \in Broadcasts /\ request.completed \in BOOLEAN
    BY <1>5 DEF TypeOK, Request
<1>6. ASSUME PauseBroadcast PROVE Typed'
    <2>1. queue' \in [Entries -> Row]
        BY <1>5, <1>6, BySourceTyped DEF PauseBroadcast
    <2>2. status' \in [Broadcasts -> BroadcastStatuses] /\ completed' \in [Broadcasts -> BOOLEAN]
        BY <1>5, <1>6 DEF PauseBroadcast, TypeOK, BroadcastStatuses
    <2> QED
        BY <1>6, <2>1, <2>2 DEF PauseBroadcast, TypeOK, CurOK, batch, tripped, ghosts
<1>7. ASSUME ResumeBroadcast PROVE Typed'
    <2>1. queue' \in [Entries -> Row]
        BY <1>5, <1>7, BySourceTyped DEF ResumeBroadcast
    <2>2. status' \in [Broadcasts -> BroadcastStatuses] /\ completed' \in [Broadcasts -> BOOLEAN]
        BY <1>5, <1>7 DEF ResumeBroadcast, TypeOK, BroadcastStatuses
    <2> QED
        BY <1>7, <2>1, <2>2 DEF ResumeBroadcast, TypeOK, CurOK, batch, tripped, ghosts
<1>8. ASSUME CancelBroadcast PROVE Typed'
    <2>1. queue' \in [Entries -> Row]
        BY <1>5, <1>8, BySourceTyped DEF CancelBroadcast
    <2>2. status' \in [Broadcasts -> BroadcastStatuses] /\ completed' \in [Broadcasts -> BOOLEAN]
        BY <1>5, <1>8 DEF CancelBroadcast, TypeOK, BroadcastStatuses
    <2> QED
        BY <1>8, <2>1, <2>2 DEF CancelBroadcast, TypeOK, CurOK, batch, tripped
<1>9. ASSUME CheckCounts PROVE Typed'
    <2>1. request' \in Request
        BY <1>5, <1>9 DEF CheckCounts, Request
    <2> QED
        BY <1>9, <2>1 DEF CheckCounts, TypeOK, CurOK, rows, batch, tripped, ghosts
<1>10. ASSUME NEW i \in Integrations, RetryFailedRecipients(i) PROVE Typed'
    <2>1. queue' \in [Entries -> Row]
        BY <1>10, NewRows DEF RetryFailedRecipients, BySource, TypeOK
    <2>2. given' \in [Entries -> Nat]
        BY <1>10 DEF RetryFailedRecipients, TypeOK
    <2> QED
        BY <1>10, <2>1, <2>2 DEF RetryFailedRecipients, TypeOK, CurOK, batch, tripped
<1>11. ASSUME NEW b \in Broadcasts, NEW i \in Integrations,
              NEW B \in SUBSET (fresh \cap EntriesOf(b)), EnqueueBatch(b, B, i)
       PROVE  Typed'
    <2>1. queue' \in [Entries -> Row]
        BY <1>11, NewRows DEF EnqueueBatch, TypeOK
    <2> QED
        BY <1>11, <2>1 DEF EnqueueBatch, TypeOK, CurOK, bcasts, batch, tripped, ghosts
<1>12. ASSUME NEW b \in Broadcasts, FinishEnqueueing(b) PROVE Typed'
    BY <1>12 DEF FinishEnqueueing, TypeOK, BroadcastStatuses, CurOK, rows, batch, tripped, ghosts
<1>13. ASSUME NEW e \in Entries, EraseQueuedMail(e) PROVE Typed'
    <2>1. queue' \in [Entries -> Row]
        BY <1>13, RowOps DEF EraseQueuedMail, TypeOK
    <2> QED
        BY <1>13, <2>1 DEF EraseQueuedMail, TypeOK, CurOK, bcasts, batch, tripped
<1>14. ASSUME NEW i \in Removable, ChangeIntegrations(i) PROVE Typed'
    BY <1>14, RemovableAssumption DEF ChangeIntegrations, TypeOK, CurOK, rows, batch, tripped, ghosts
<1>15. ASSUME NEW e \in Entries, Tick(e) PROVE Typed'
    <2>1. queue' \in [Entries -> Row]
        <3>1. queue[e] \in Row
            BY DEF TypeOK
        <3>2. PICK r \in Row : queue' = [queue EXCEPT ![e] = r]
            BY <1>15, <3>1, RowOps DEF Tick
        <3> QED
            BY <3>2 DEF TypeOK
    <2> QED
        BY <1>15, <2>1 DEF Tick, TypeOK, CurOK, bcasts, batch, tripped, ghosts
<1>16. ASSUME NEW w \in Workers, NEW i \in Integrations, Cool(w, i) PROVE Typed'
    <2>1. breaker' \in [Workers -> [Integrations -> Breaker]]
        BY <1>16, BreakerOps DEF Cool, TypeOK
    <2> QED
        BY <1>16, <2>1 DEF Cool, TypeOK, CurOK, rows, bcasts, batch, tripped, ghosts
<1>17. ASSUME NEW b \in Broadcasts, FailEnqueueing(b) PROVE Typed'
    BY <1>17 DEF FailEnqueueing, TypeOK, BroadcastStatuses, CurOK, rows, batch, tripped, ghosts
<1> QED
    BY <1>1, <1>2, <1>3, <1>4, <1>6, <1>7, <1>8, <1>9, <1>10, <1>11, <1>12, <1>13, <1>14,
       <1>15, <1>16, <1>17 DEF Operator, Application, Clock

\* A step that changes nothing keeps the types.
LEMMA StutterTyped == Typed /\ UNCHANGED vars => Typed'
BY DEF Typed, TypeOK, CurOK, vars, rows, bcasts, batch, tripped, ghosts

\* The email_queue table, the workers and the breakers are always well formed,
\* and a worker past its claim has a well-formed entry in hand.
THEOREM TypeCorrect == Spec => []Typed
<1>1. Typed /\ [Next]_vars => Typed'
    BY StepTyped, OtherTyped, StutterTyped DEF Next
<1> QED
    BY InitTyped, <1>1, PTL DEF Spec

\* The table, the broadcasts' columns, the workers' snapshots and the breakers
\* keep their types under every statement of the worker and of the services.
THEOREM QueueTypeCorrect == Spec => []TypeOK
<1>1. Typed => TypeOK
    BY DEF Typed
<1> QED
    BY <1>1, TypeCorrect, PTL

-----------------------------------------------------------------------------
(* No recipient is lost.                                                   *)

\* Which statements may take a row out of the table, and when.
LEMMA RowPresence ==
    ASSUME NEW r \in Row, Present(r)
    PROVE  /\ Present(MarkAsProcessing(r))
           /\ Present(MarkAsFailed(r))
           /\ Present(MarkAsPermanentlyFailed(r))
           /\ Present(SetNextRetry(r))
           /\ Present(PauseBySource(r))
           /\ Present(ResumeBySource(r))
           /\ \A i \in Integrations : Present(ResetTerminallyFailedBySource(r, i))
           /\ Present(RetryFallsDue(r))
           /\ Present(GoesStale(r))
           /\ Present(Expires(r))
           /\ r.status \notin {"pending", "failed", "paused"} => Present(DeleteBySource(r))
           /\ ~ Expired(r) => Present(DeleteTerminallyFailedOlderThan(r))
<1> USE DEF Row, Statuses, Present
<1>1. Present(MarkAsProcessing(r))
    BY DEF MarkAsProcessing
<1>2. Present(MarkAsFailed(r)) /\ Present(MarkAsPermanentlyFailed(r)) /\ Present(SetNextRetry(r))
    BY DEF MarkAsFailed, MarkAsPermanentlyFailed, SetNextRetry
<1>3. Present(PauseBySource(r)) /\ Present(ResumeBySource(r))
    BY DEF PauseBySource, ResumeBySource
<1>4. \A i \in Integrations : Present(ResetTerminallyFailedBySource(r, i))
    BY DEF ResetTerminallyFailedBySource, EnqueuedRow
<1>5. Present(RetryFallsDue(r)) /\ Present(GoesStale(r)) /\ Present(Expires(r))
    BY DEF RetryFallsDue, GoesStale, Expires
<1>6. r.status \notin {"pending", "failed", "paused"} => Present(DeleteBySource(r))
    BY DEF DeleteBySource
<1>7. ~ Expired(r) => Present(DeleteTerminallyFailedOlderThan(r))
    BY DEF DeleteTerminallyFailedOlderThan
<1> QED
    BY <1>1, <1>2, <1>3, <1>4, <1>5, <1>6, <1>7

\* A freshly enqueued row is in the table.
LEMMA EnqueuedPresent == \A i \in Integrations : Present(EnqueuedRow(i))
BY DEF Present, EnqueuedRow

\* The inductive strengthening: a worker about to delete a row as sent has had
\* its email accepted.
Accounted ==
    /\ NoRecipientLost
    /\ \A w \in Workers : pc[w] = "sent" => sends[cur[w].id] > 0

\* What a step must do for the recipients to stay accounted for.
Keeps ==
    /\ \A e \in Entries : Present(queue[e]) =>
           Present(queue'[e]) \/ sends'[e] > 0 \/ e \in dropped'
    /\ \A e \in fresh : e \in fresh' \/ Present(queue'[e])
    /\ \A e \in Entries : sends[e] > 0 => sends'[e] > 0
    /\ dropped \subseteq dropped'

\* A step that keeps everyone in this sense loses nobody.
LEMMA KeepsNobodyLost == Typed /\ NoRecipientLost /\ Keeps => NoRecipientLost'
BY DEF Typed, TypeOK, NoRecipientLost, Keeps

\* Changing one row to one that is in the table keeps everyone.
LEMMA OneRowKept ==
    ASSUME Typed, NEW e \in Entries, NEW r,
           Present(queue[e]) => Present(r),
           queue' = [queue EXCEPT ![e] = r],
           fresh' = fresh, sends' = sends, dropped \subseteq dropped'
    PROVE  Keeps
BY DEF Typed, TypeOK, Keeps

\* A worker's steps keep everyone accounted for.
LEMMA StepAccounted ==
    ASSUME Typed, Accounted, NEW w \in Workers, Step(w)
    PROVE  Accounted'
<1> USE DEF Accounted
<1>0. ASSUME Keeps, \A v \in Workers : pc'[v] = "sent" => pc[v] = "sent" /\ cur'[v] = cur[v]
      PROVE  Accounted'
    <2>1. NoRecipientLost'
        BY <1>0, KeepsNobodyLost
    <2>2. \A v \in Workers : pc[v] = "sent" => cur[v].id \in Entries
        BY CurTyped
    <2> QED
        BY <1>0, <2>1, <2>2 DEF Keeps
<1>00. ASSUME queue' = queue, fresh' = fresh, dropped' = dropped, sends' = sends PROVE Keeps
    BY <1>00 DEF Keeps
<1> DEFINE Elsewhere == \A v \in Workers : pc'[v] = "sent" => pc[v] = "sent" /\ cur'[v] = cur[v]
<1>1. ASSUME Poll(w) \/ ListWorkspaces(w) \/ EndPoll(w) PROVE Accounted'
    <2>1. Keeps
        BY <1>00, <1>1 DEF Poll, ListWorkspaces, EndPoll, rows, ghosts
    <2>2. Elsewhere
        BY <1>1 DEF Poll, ListWorkspaces, EndPoll, Typed, TypeOK
    <2> QED
        BY <1>0, <2>1, <2>2
<1>2. ASSUME NEW x \in todo[w], ClaimEntry(w, x) PROVE Accounted'
    <2>1. x.id \in Entries /\ queue[x.id] \in Row
        BY DEF Typed, TypeOK, Snapshot
    <2>2. Keeps
        BY <1>2, <2>1, OneRowKept, RowPresence DEF ClaimEntry, ghosts
    <2>3. Elsewhere
        BY <1>2 DEF ClaimEntry, Typed, TypeOK
    <2> QED
        BY <1>0, <2>2, <2>3
<1>3. ASSUME NEW x \in todo[w], NEW ok \in BOOLEAN, SkipEntry(w, x, ok) PROVE Accounted'
    <2>1. x.id \in Entries /\ queue[x.id] \in Row
        BY DEF Typed, TypeOK, Snapshot
    <2>2. Keeps
        BY <1>3, <2>1, OneRowKept, RowPresence DEF SkipEntry, ghosts
    <2>3. Elsewhere
        BY <1>3 DEF SkipEntry, Typed, TypeOK
    <2> QED
        BY <1>0, <2>2, <2>3
<1>4. ASSUME NEW x \in todo[w], NEW ok \in BOOLEAN, ClaimRefused(w, x, ok) PROVE Accounted'
    <2>1. Keeps
        BY <1>00, <1>4 DEF ClaimRefused, rows, ghosts
    <2>2. Elsewhere
        BY <1>4 DEF ClaimRefused
    <2> QED
        BY <1>0, <2>1, <2>2
<1>5. ASSUME SendSucceeds(w) PROVE Accounted'
    <2>1. cur[w].id \in Entries
        BY <1>5, CurTyped DEF SendSucceeds
    <2>2. \A e \in Entries : sends'[e] \in Nat /\ (sends[e] > 0 => sends'[e] > 0)
        BY <1>5, <2>1 DEF SendSucceeds, Typed, TypeOK
    <2>3. Keeps
        BY <1>5, <2>2 DEF SendSucceeds, rows, Keeps
    <2>4. sends'[cur'[w].id] > 0
        BY <1>5, <2>1 DEF SendSucceeds, Typed, TypeOK
    <2>5. \A v \in Workers : pc[v] = "sent" => cur[v].id \in Entries
        BY CurTyped
    <2>6. \A v \in Workers : v # w => (pc'[v] = "sent" => pc[v] = "sent")
        BY <1>5 DEF SendSucceeds, Typed, TypeOK
    <2>7. cur' = cur
        BY <1>5 DEF SendSucceeds
    <2> QED
        BY <2>2, <2>3, <2>4, <2>5, <2>6, <2>7, KeepsNobodyLost
<1>6. ASSUME NEW counted \in BOOLEAN, NEW mayRetry \in BOOLEAN, SendFails(w, counted, mayRetry)
      PROVE  Accounted'
    <2>1. Keeps
        BY <1>00, <1>6 DEF SendFails, rows, ghosts
    <2>2. Elsewhere
        BY <1>6 DEF SendFails, Typed, TypeOK
    <2> QED
        BY <1>0, <2>1, <2>2
<1>7. ASSUME NEW ok \in BOOLEAN, MarkSent(w, ok) PROVE Accounted'
    <2>1. cur[w].id \in Entries /\ sends[cur[w].id] > 0
        BY <1>7, CurTyped DEF MarkSent
    <2>2. \A e \in Entries : e # cur[w].id => queue'[e] = queue[e]
        BY <1>7, <2>1 DEF MarkSent, Typed, TypeOK
    <2>3. Keeps
        BY <1>7, <2>1, <2>2 DEF MarkSent, ghosts, Keeps, Typed, TypeOK
    <2>4. Elsewhere
        BY <1>7 DEF MarkSent, Typed, TypeOK
    <2> QED
        BY <1>0, <2>3, <2>4
<1>8. ASSUME NEW ok \in BOOLEAN, RecordSent(w, ok) \/ RecordFailed(w, ok) PROVE Accounted'
    <2>1. Keeps
        BY <1>00, <1>8 DEF RecordSent, RecordFailed, ghosts
    <2>2. Elsewhere
        BY <1>8 DEF RecordSent, RecordFailed, Typed, TypeOK
    <2> QED
        BY <1>0, <2>1, <2>2
<1>9. ASSUME NEW ok \in BOOLEAN, MarkFailed(w, ok) PROVE Accounted'
    <2>1. cur[w].id \in Entries /\ queue[cur[w].id] \in Row
        BY <1>9, CurTyped DEF MarkFailed, Typed, TypeOK
    <2>2. Keeps
        BY <1>9, <2>1, OneRowKept, RowPresence DEF MarkFailed, AfterError
    <2>3. Elsewhere
        BY <1>9 DEF MarkFailed, Typed, TypeOK
    <2> QED
        BY <1>0, <2>2, <2>3
<1>10. ASSUME NEW ok \in BOOLEAN, PauseTripped(w, ok) PROVE Accounted'
    <2>1. \A e \in Entries : queue[e] \in Row
        BY DEF Typed, TypeOK
    <2>2. \A e \in Entries : Present(queue[e]) => Present(queue'[e])
        BY <1>10, <2>1, RowPresence DEF PauseTripped, BySource
    <2>3. Keeps
        BY <1>10, <2>2 DEF PauseTripped, ghosts, Keeps
    <2>4. Elsewhere
        BY <1>10 DEF PauseTripped
    <2> QED
        BY <1>0, <2>3, <2>4
<1>11. ASSUME NEW ok \in BOOLEAN, ListTripped(w, ok) PROVE Accounted'
    <2>1. Keeps
        BY <1>00, <1>11 DEF ListTripped, rows, ghosts
    <2>2. Elsewhere
        BY <1>11 DEF ListTripped, Typed, TypeOK
    <2> QED
        BY <1>0, <2>1, <2>2
<1>12. ASSUME NEW b \in trip[w], NEW ok \in BOOLEAN, LoadTripped(w, b, ok) PROVE Accounted'
    <2>1. Keeps
        BY <1>00, <1>12 DEF LoadTripped, rows, ghosts
    <2> QED
        BY <1>0, <1>12, <2>1 DEF LoadTripped
<1>13. ASSUME EndTrip(w) PROVE Accounted'
    <2>1. Keeps
        BY <1>00, <1>13 DEF EndTrip, rows, ghosts
    <2>2. Elsewhere
        BY <1>13 DEF EndTrip, Typed, TypeOK
    <2> QED
        BY <1>0, <2>1, <2>2
<1> QED
    BY <1>1, <1>2, <1>3, <1>4, <1>5, <1>6, <1>7, <1>8, <1>9, <1>10, <1>11, <1>12, <1>13 DEF Step

\* So do the sweep, a crash, the operator, the application and the clock.
LEMMA OtherAccounted ==
    ASSUME Typed, Accounted,
           \/ \E w \in Workers : Sweep(w) \/ Crash(w)
           \/ Operator \/ Application \/ Clock
    PROVE  Accounted'
<1> USE DEF Accounted
<1>0. ASSUME Keeps, \A v \in Workers : pc'[v] = "sent" => pc[v] = "sent" /\ cur'[v] = cur[v]
      PROVE  Accounted'
    <2>1. NoRecipientLost'
        BY <1>0, KeepsNobodyLost
    <2>2. \A v \in Workers : pc[v] = "sent" => cur[v].id \in Entries
        BY CurTyped
    <2> QED
        BY <1>0, <2>1, <2>2 DEF Keeps
<1>00. \A e \in Entries : queue[e] \in Row
    BY DEF Typed, TypeOK
<1>1. ASSUME NEW w \in Workers, Sweep(w) PROVE Accounted'
    <2>1. \A e \in Entries : Present(queue[e]) => Present(queue'[e]) \/ e \in dropped'
        BY <1>00, <1>1, RowPresence DEF Sweep
    <2>2. Keeps
        BY <1>1, <2>1 DEF Sweep, Keeps
    <2> QED
        BY <1>0, <1>1, <2>2 DEF Sweep
<1>2. ASSUME NEW w \in Workers, Crash(w) PROVE Accounted'
    <2>1. Keeps
        BY <1>2 DEF Crash, rows, ghosts, Keeps
    <2>2. \A v \in Workers : pc'[v] = "sent" => pc[v] = "sent" /\ cur'[v] = cur[v]
        BY <1>2 DEF Crash, Typed, TypeOK
    <2> QED
        BY <1>0, <2>1, <2>2
<1>3. ASSUME Operator PROVE Accounted'
    <2>1. ASSUME PauseBroadcast \/ ResumeBroadcast PROVE Keeps
        <3>1. \A e \in Entries : Present(queue[e]) => Present(queue'[e])
            BY <1>00, <2>1, RowPresence DEF PauseBroadcast, ResumeBroadcast, BySource
        <3> QED
            BY <2>1, <3>1 DEF PauseBroadcast, ResumeBroadcast, ghosts, Keeps
    <2>2. ASSUME CancelBroadcast PROVE Keeps
        <3>1. \A e \in Entries : Present(queue[e]) => Present(queue'[e]) \/ e \in dropped'
            BY <1>00, <2>2, RowPresence DEF CancelBroadcast, BySource
        <3> QED
            BY <2>2, <3>1 DEF CancelBroadcast, Keeps
    <2>3. ASSUME NEW i \in Integrations, RetryFailedRecipients(i) PROVE Keeps
        <3>1. \A e \in Entries : Present(queue[e]) => Present(queue'[e])
            BY <1>00, <2>3, RowPresence DEF RetryFailedRecipients, BySource
        <3> QED
            BY <2>3, <3>1 DEF RetryFailedRecipients, Keeps
    <2>4. ASSUME \/ \E op \in {"pause", "resume", "cancel", "retry"}, b \in Broadcasts :
                        BeginRequest(op, b)
                 \/ AbortRequest \/ CheckCounts
          PROVE  Keeps
        BY <2>4 DEF BeginRequest, AbortRequest, CheckCounts, rows, ghosts, Keeps
    <2>5. pc' = pc /\ cur' = cur
        BY <1>3 DEF Operator, BeginRequest, AbortRequest, PauseBroadcast, ResumeBroadcast,
            CancelBroadcast, CheckCounts, RetryFailedRecipients
    <2>6. Keeps
        BY <1>3, <2>1, <2>2, <2>3, <2>4 DEF Operator
    <2> QED
        BY <1>0, <2>5, <2>6
<1>4. ASSUME Application PROVE Accounted'
    <2>1. ASSUME NEW b \in Broadcasts, NEW i \in Integrations,
                 NEW B \in SUBSET (fresh \cap EntriesOf(b)), EnqueueBatch(b, B, i)
          PROVE  Keeps
        <3>1. \A e \in Entries : (Present(queue[e]) \/ e \in B) => Present(queue'[e])
            BY <2>1, EnqueuedPresent DEF EnqueueBatch
        <3> QED
            BY <2>1, <3>1 DEF EnqueueBatch, ghosts, Keeps, Typed, TypeOK
    <2>2. ASSUME NEW e \in Entries, EraseQueuedMail(e) PROVE Keeps
        <3>1. \A d \in Entries : d # e => queue'[d] = queue[d]
            BY <2>2 DEF EraseQueuedMail, Typed, TypeOK
        <3> QED
            BY <2>2, <3>1 DEF EraseQueuedMail, Keeps
    <2>3. ASSUME \/ \E b \in Broadcasts : FinishEnqueueing(b) \/ FailEnqueueing(b)
                 \/ \E i \in Removable : ChangeIntegrations(i)
          PROVE  Keeps
        BY <2>3 DEF FinishEnqueueing, FailEnqueueing, ChangeIntegrations, rows, ghosts, Keeps
    <2>4. pc' = pc /\ cur' = cur
        BY <1>4 DEF Application, EnqueueBatch, FinishEnqueueing, FailEnqueueing,
            EraseQueuedMail, ChangeIntegrations
    <2>5. Keeps
        BY <1>4, <2>1, <2>2, <2>3 DEF Application
    <2> QED
        BY <1>0, <2>4, <2>5
<1>5. ASSUME Clock PROVE Accounted'
    <2>1. ASSUME NEW e \in Entries, Tick(e) PROVE Keeps
        <3>1. PICK r : /\ Present(queue[e]) => Present(r)
                       /\ queue' = [queue EXCEPT ![e] = r]
            BY <1>00, <2>1, RowPresence DEF Tick
        <3>2. fresh' = fresh /\ sends' = sends /\ dropped \subseteq dropped'
            BY <2>1 DEF Tick, ghosts
        <3> QED
            BY <3>1, <3>2, OneRowKept
    <2>2. ASSUME NEW w \in Workers, NEW i \in Integrations, Cool(w, i) PROVE Keeps
        BY <2>2 DEF Cool, rows, ghosts, Keeps
    <2>3. pc' = pc /\ cur' = cur
        BY <1>5 DEF Clock, Tick, Cool
    <2>4. Keeps
        BY <1>5, <2>1, <2>2 DEF Clock
    <2> QED
        BY <1>0, <2>3, <2>4
<1> QED
    BY <1>1, <1>2, <1>3, <1>4, <1>5

\* For any number of workers and recipients, however they crash, overlap or lose
\* statements: whoever was enqueued is in the table, was mailed, or was taken
\* out on purpose.
THEOREM NobodyLost == Spec => []NoRecipientLost
<1>1. Init => Accounted
    BY DEF Init, Accounted, NoRecipientLost
<1>2. Typed /\ Accounted /\ [Next]_vars => Accounted'
    <2>1. Accounted /\ UNCHANGED vars => Accounted'
        BY DEF Accounted, NoRecipientLost, vars, rows, ghosts
    <2> QED
        BY <2>1, StepAccounted, OtherAccounted DEF Next
<1>3. Accounted => NoRecipientLost
    BY DEF Accounted
<1> QED
    BY <1>1, <1>2, <1>3, TypeCorrect, PTL DEF Spec

-----------------------------------------------------------------------------
(* An open circuit stops sends.                                            *)

\* A breaker that has used up its threshold is open.
Sound(b) == b.failures <= Threshold /\ (b.failures = Threshold => b.isOpen)

\* The inductive strengthening: every breaker is sound, and between claim and
\* send the worker's breaker is closed.
CircuitOK ==
    /\ \A w \in Workers, i \in Integrations : Sound(breaker[w][i])
    /\ \A w \in Workers : pc[w] = "claimed" => ~ breaker[w][cur[w].integration].isOpen

\* Every operation of circuit_breaker.go keeps a breaker sound, a failure only
\* if the circuit was closed.
LEMMA SoundOps ==
    ASSUME NEW b \in Breaker, Sound(b)
    PROVE  /\ Sound(NewCircuitBreaker)
           /\ Sound(AfterIsOpen(b))
           /\ Sound(RecordSuccess(b))
           /\ ~ b.isOpen => Sound(RecordFailure(b))
           /\ Sound(CoolsDown(b)) /\ CoolsDown(b).isOpen = b.isOpen
           /\ ~ IsOpen(b) => ~ AfterIsOpen(b).isOpen
<1>1. Sound(NewCircuitBreaker) /\ ~ NewCircuitBreaker.isOpen
    BY ThresholdAssumption DEF Sound, NewCircuitBreaker
<1>2. Sound(AfterIsOpen(b)) /\ Sound(RecordSuccess(b))
    BY <1>1 DEF AfterIsOpen, RecordSuccess
<1>3. ~ b.isOpen => Sound(RecordFailure(b))
    <2>1. ~ b.isOpen => b.failures + 1 <= Threshold
        BY ThresholdAssumption DEF Sound, Breaker
    <2>2. RecordFailure(b).failures = b.failures + 1
        BY DEF RecordFailure
    <2>3. b.failures + 1 = Threshold => b.failures + 1 >= Threshold
        BY ThresholdAssumption DEF Breaker
    <2>4. b.failures + 1 >= Threshold => RecordFailure(b).isOpen
        BY Zenon DEF RecordFailure
    <2> QED
        BY <2>1, <2>2, <2>3, <2>4 DEF Sound
<1>4. Sound(CoolsDown(b)) /\ CoolsDown(b).isOpen = b.isOpen
    BY DEF Sound, CoolsDown, Breaker
<1>5. ~ IsOpen(b) => ~ AfterIsOpen(b).isOpen
    BY <1>1 DEF IsOpen, AfterIsOpen, Breaker
<1> QED
    BY <1>1, <1>2, <1>3, <1>4, <1>5

\* Steps after which no worker is newly at the provider and no breaker differs.
LEMMA SameCircuits ==
    ASSUME CircuitOK, breaker' = breaker,
           \A v \in Workers : pc'[v] = "claimed" => pc[v] = "claimed" /\ cur'[v] = cur[v]
    PROVE  CircuitOK'
BY DEF CircuitOK

\* The worker's steps keep the breakers sound.
LEMMA StepCircuit ==
    ASSUME Typed, CircuitOK, NEW w \in Workers, Step(w)
    PROVE  CircuitOK'
<1>0. \A v \in Workers, i \in Integrations : breaker[v][i] \in Breaker /\ Sound(breaker[v][i])
    BY DEF Typed, TypeOK, CircuitOK
<1>1. ASSUME NEW x \in todo[w],
             ClaimEntry(w, x) \/ \E ok \in BOOLEAN : ClaimRefused(w, x, ok)
      PROVE  CircuitOK'
    <2>0. x.integration \in Integrations
        BY DEF Typed, TypeOK, Snapshot
    <2>1. /\ \A v \in Workers : v # w =>
                 breaker'[v] = breaker[v] /\ pc'[v] = pc[v] /\ cur'[v] = cur[v]
          /\ \A i \in Integrations : i # x.integration => breaker'[w][i] = breaker[w][i]
          /\ breaker'[w][x.integration] =
                 IF x.integration \in known[w] THEN AfterIsOpen(breaker[w][x.integration])
                                               ELSE breaker[w][x.integration]
        BY <1>1, <2>0 DEF ClaimEntry, ClaimRefused, ConsultBreaker, Typed, TypeOK
    <2>2. \A v \in Workers, i \in Integrations : Sound(breaker'[v][i])
        BY <1>0, <2>0, <2>1, SoundOps
    <2>3. pc'[w] = "claimed" =>
              cur'[w] = x /\ x.integration \in known[w] /\ ~ IsOpen(breaker[w][x.integration])
        BY <1>1 DEF ClaimEntry, ClaimRefused, MayTry, Typed, TypeOK
    <2>4. pc'[w] = "claimed" => ~ breaker'[w][cur'[w].integration].isOpen
        BY <1>0, <2>0, <2>1, <2>3, SoundOps
    <2> QED
        BY <2>1, <2>2, <2>4 DEF CircuitOK
<1>2. ASSUME \/ SendSucceeds(w)
             \/ \E counted, mayRetry \in BOOLEAN : SendFails(w, counted, mayRetry)
      PROVE  CircuitOK'
    <2> DEFINE j == cur[w].integration
    <2>0. j \in Integrations /\ pc[w] = "claimed" /\ pc'[w] # "claimed" /\ cur' = cur
        BY <1>2, CurTyped DEF SendSucceeds, SendFails, Typed, TypeOK
    <2>1. /\ \A v \in Workers : v # w => breaker'[v] = breaker[v] /\ pc'[v] = pc[v]
          /\ \A i \in Integrations : i # j => breaker'[w][i] = breaker[w][i]
          /\ breaker'[w][j] \in {breaker[w][j], RecordSuccess(breaker[w][j]),
                                 RecordFailure(breaker[w][j])}
        BY <1>2, <2>0 DEF SendSucceeds, SendFails, Typed, TypeOK
    <2>2. ~ breaker[w][j].isOpen
        BY <2>0 DEF CircuitOK
    <2>3. \A v \in Workers, i \in Integrations : Sound(breaker'[v][i])
        BY <1>0, <2>0, <2>1, <2>2, SoundOps
    <2> QED
        BY <2>0, <2>1, <2>3 DEF CircuitOK
<1>3. ASSUME \/ ListWorkspaces(w) \/ Poll(w) \/ EndPoll(w) \/ EndTrip(w)
             \/ \E x \in todo[w], ok \in BOOLEAN : SkipEntry(w, x, ok)
             \/ \E ok \in BOOLEAN : \/ MarkSent(w, ok) \/ RecordSent(w, ok)
                                    \/ RecordFailed(w, ok) \/ MarkFailed(w, ok)
                                    \/ ListTripped(w, ok) \/ PauseTripped(w, ok)
             \/ \E b \in trip[w], ok \in BOOLEAN : LoadTripped(w, b, ok)
      PROVE  CircuitOK'
    <2>1. breaker' = breaker
        BY <1>3 DEF ListWorkspaces, Poll, EndPoll, EndTrip, SkipEntry, MarkSent, RecordSent,
            RecordFailed, MarkFailed, ListTripped, PauseTripped, LoadTripped
    <2>2. \A v \in Workers : pc'[v] = "claimed" => pc[v] = "claimed" /\ cur'[v] = cur[v]
        BY <1>3 DEF ListWorkspaces, Poll, EndPoll, EndTrip, SkipEntry, MarkSent, RecordSent,
            RecordFailed, MarkFailed, ListTripped, PauseTripped, LoadTripped, Typed, TypeOK
    <2> QED
        BY <2>1, <2>2, SameCircuits
<1> QED
    BY <1>1, <1>2, <1>3 DEF Step

\* So do all other steps.
LEMMA OtherCircuit ==
    ASSUME Typed, CircuitOK,
           \/ \E w \in Workers : Sweep(w) \/ Crash(w)
           \/ Operator \/ Application \/ Clock
    PROVE  CircuitOK'
<1>1. ASSUME NEW w \in Workers, Crash(w) PROVE CircuitOK'
    <2>1. /\ \A v \in Workers : v # w =>
                 breaker'[v] = breaker[v] /\ pc'[v] = pc[v] /\ cur'[v] = cur[v]
          /\ breaker'[w] = [i \in Integrations |-> NewCircuitBreaker]
          /\ pc'[w] = "idle"
        BY <1>1 DEF Crash, Typed, TypeOK
    <2>2. Sound(NewCircuitBreaker)
        BY ThresholdAssumption DEF Sound, NewCircuitBreaker
    <2> QED
        BY <2>1, <2>2 DEF CircuitOK
<1>2. ASSUME NEW w \in Workers, NEW j \in Integrations, Cool(w, j) PROVE CircuitOK'
    <2>1. /\ \A v \in Workers, i \in Integrations :
                 breaker'[v][i] = IF v = w /\ i = j THEN CoolsDown(breaker[v][i])
                                                    ELSE breaker[v][i]
          /\ pc' = pc /\ cur' = cur
        BY <1>2 DEF Cool, Typed, TypeOK
    <2>2. \A v \in Workers, i \in Integrations :
              Sound(breaker'[v][i]) /\ breaker'[v][i].isOpen = breaker[v][i].isOpen
        <3> SUFFICES ASSUME NEW v \in Workers, NEW i \in Integrations
                     PROVE  /\ Sound(breaker'[v][i])
                            /\ breaker'[v][i].isOpen = breaker[v][i].isOpen
            OBVIOUS
        <3>1. breaker[v][i] \in Breaker /\ Sound(breaker[v][i])
            BY DEF CircuitOK, Typed, TypeOK
        <3>2. /\ Sound(CoolsDown(breaker[v][i]))
              /\ CoolsDown(breaker[v][i]).isOpen = breaker[v][i].isOpen
            BY <3>1, SoundOps
        <3>3. breaker'[v][i] \in {breaker[v][i], CoolsDown(breaker[v][i])}
            BY <2>1
        <3> QED
            BY <3>1, <3>2, <3>3
    <2>3. \A v \in Workers : pc[v] = "claimed" => cur[v].integration \in Integrations
        BY CurTyped
    <2> QED
        BY <2>1, <2>2, <2>3 DEF CircuitOK
<1>3. ASSUME \/ \E w \in Workers : Sweep(w)
             \/ Operator \/ Application
             \/ \E e \in Entries : Tick(e)
      PROVE  CircuitOK'
    <2>1. breaker' = breaker /\ pc' = pc /\ cur' = cur
        BY <1>3 DEF Sweep, Operator, BeginRequest, AbortRequest, PauseBroadcast,
            ResumeBroadcast, CancelBroadcast, CheckCounts, RetryFailedRecipients,
            Application, EnqueueBatch, FinishEnqueueing, FailEnqueueing, EraseQueuedMail,
            ChangeIntegrations, Tick
    <2> QED
        BY <2>1, SameCircuits
<1> QED
    BY <1>1, <1>2, <1>3 DEF Clock

\* An open circuit lets no attempt through before it has cooled down: in no
\* worker do provider failures ever add up beyond the threshold.
THEOREM CircuitHolds == Spec => []OpenCircuitStopsSends
<1>1. Init => CircuitOK
    BY ThresholdAssumption DEF Init, CircuitOK, Sound, NewCircuitBreaker
<1>2. Typed /\ CircuitOK /\ [Next]_vars => CircuitOK'
    <2>1. CircuitOK /\ UNCHANGED vars => CircuitOK'
        BY DEF CircuitOK, vars
    <2> QED
        BY <2>1, StepCircuit, OtherCircuit DEF Next
<1>3. CircuitOK => OpenCircuitStopsSends
    BY DEF CircuitOK, Sound, OpenCircuitStopsSends
<1> QED
    BY <1>1, <1>2, <1>3, TypeCorrect, PTL DEF Spec
=============================================================================
