----------------------------- MODULE EmailQueue -----------------------------
(***************************************************************************)
(* The email queue of one workspace: the worker processes that drain it    *)
(* (internal/service/queue/worker.go), the broadcast operations that pause,*)
(* resume, cancel and retry what is queued (broadcast_service.go), contact *)
(* deletion, the retention sweep, the clock, and worker or database faults *)
(* between any two statements.                                             *)
(*                                                                         *)
(* Every SQL statement autocommits unless the code opens a transaction, so *)
(* a worker's pass over one entry is as many steps as it issues statements *)
(* and provider calls.  A worker works from the snapshot FetchPending gave *)
(* it: the entry's attempts and integration are never read again.          *)
(*                                                                         *)
(* Only broadcast entries are modelled.                                    *)
(***************************************************************************)
EXTENDS EmailQueueRepository, CircuitBreaker, FiniteSets

CONSTANTS
    Entries,        \* identities of queue entries, one recipient each
    Broadcasts,
    SourceOf,       \* the broadcast an entry belongs to
    Workers,        \* worker processes, one per running instance
    BatchSize,      \* the effective batch size of a poll
    None,           \* no entry, no request
    Removable,      \* integrations an administrator may remove and add back
    MaxFaults,      \* bound: crashes and failed statements in a behaviour
    AttemptBound    \* bound: attempts beyond which a row no longer goes stale

ASSUME SourceAssumption == SourceOf \in [Entries -> Broadcasts]
ASSUME RemovableAssumption == Removable \subseteq Integrations
ASSUME BoundAssumption ==
    BatchSize \in Nat \ {0} /\ MaxFaults \in Nat /\ AttemptBound \in Nat

VARIABLES
    queue,          \* [Entries -> Row], the email_queue table
    fresh,          \* entries never enqueued so far
    status,         \* [Broadcasts -> status column]
    completed,      \* [Broadcasts -> completed_at is set]
    integrations,   \* the workspace's integrations
    history,        \* [Entries -> what message_history says of the last attempt]
    request,        \* the operator's call between its read and its write
    pc,             \* [Workers -> where the worker is in its poll]
    todo,           \* [Workers -> fetched snapshots not yet processed]
    cur,            \* [Workers -> snapshot being processed]
    known,          \* [Workers -> integrations when the poll began]
    retryable,      \* [Workers -> the send error may be retried]
    trip,           \* [Workers -> broadcasts still to be paused by an open circuit]
    seen,           \* [Workers -> broadcast loaded for that pause]
    breaker,        \* [Workers -> [Integrations -> Breaker]]
    sends,          \* history: [Entries -> emails the provider accepted]
    given,          \* history: [Entries -> failures recorded since the last reset]
    dropped,        \* history: entries cancelled, erased or swept
    faults          \* number of faults so far

rows    == <<queue, fresh, history>>
bcasts  == <<status, completed, request, integrations>>
batch   == <<todo, known>>
tripped == <<trip, seen>>
ghosts  == <<sends, given, dropped>>
vars    == <<rows, bcasts, pc, cur, retryable, batch, tripped, breaker, ghosts, faults>>

Snapshot == [id : Entries, attempts : Nat, integration : Integrations]
Loaded   == [broadcast : Broadcasts, completed : BOOLEAN]
Request  == [op : {"pause", "resume", "cancel", "retry", "requeue"},
             broadcast : Broadcasts, completed : BOOLEAN]

BroadcastStatuses == {"processing", "processed", "failed", "paused", "cancelled"}

\* Program points at which a worker has claimed the entry in cur.
Holding == {"claimed", "sent", "opened", "pausing", "failing", "marking"}
PCs     == Holding \cup {"idle", "listed", "next", "recording"}

TypeOK ==
    /\ queue \in [Entries -> Row]
    /\ fresh \subseteq Entries
    /\ status \in [Broadcasts -> BroadcastStatuses]
    /\ completed \in [Broadcasts -> BOOLEAN]
    /\ integrations \subseteq Integrations
    /\ history \in [Entries -> {"none", "failed", "sent"}]
    /\ request \in Request \cup {None}
    /\ pc \in [Workers -> PCs]
    /\ todo \in [Workers -> SUBSET Snapshot]
    /\ cur \in [Workers -> Snapshot \cup {None}]
    /\ known \in [Workers -> SUBSET Integrations]
    /\ retryable \in [Workers -> BOOLEAN]
    /\ trip \in [Workers -> SUBSET Broadcasts]
    /\ seen \in [Workers -> Loaded \cup {None}]
    /\ breaker \in [Workers -> [Integrations -> Breaker]]
    /\ sends \in [Entries -> Nat]
    /\ given \in [Entries -> Nat]
    /\ dropped \subseteq Entries
    /\ faults \in Nat

Init ==
    /\ \E i \in Integrations : queue = [e \in Entries |-> Gone(EnqueuedRow(i))]
    /\ fresh = Entries
    /\ status = [b \in Broadcasts |-> "processing"]
    /\ completed = [b \in Broadcasts |-> FALSE]
    /\ integrations = Integrations
    /\ history = [e \in Entries |-> "none"]
    /\ request = None
    /\ pc = [w \in Workers |-> "idle"]
    /\ todo = [w \in Workers |-> {}]
    /\ cur = [w \in Workers |-> None]
    /\ known = [w \in Workers |-> {}]
    /\ retryable = [w \in Workers |-> TRUE]
    /\ trip = [w \in Workers |-> {}]
    /\ seen = [w \in Workers |-> None]
    /\ breaker = [w \in Workers |-> [i \in Integrations |-> NewCircuitBreaker]]
    /\ sends = [e \in Entries |-> 0]
    /\ given = [e \in Entries |-> 0]
    /\ dropped = {}
    /\ faults = 0

\* Whether a statement succeeds; a failure uses up one of the bounded faults.
Outcome(ok) == ok \/ faults < MaxFaults
Charge(ok)  == faults' = IF ok THEN faults ELSE faults + 1

-----------------------------------------------------------------------------
(* One worker's poll: processWorkspace, processEntry, handleError.         *)

\* processAllWorkspaces: the workspace is loaded, integrations included, before
\* its queue is looked at.
ListWorkspaces(w) ==
    /\ pc[w] = "idle"
    /\ known' = [known EXCEPT ![w] = integrations]
    /\ pc' = [pc EXCEPT ![w] = "listed"]
    /\ UNCHANGED <<rows, bcasts, cur, retryable, todo, tripped, breaker, ghosts, faults>>

\* processWorkspace: fetch up to BatchSize entries.  The order in which a
\* batch is worked off (priority, created_at) is left open.
Poll(w) ==
    /\ pc[w] = "listed"
    /\ LET ready == {e \in Entries : FetchPending(queue[e])}
       IN  \E B \in SUBSET ready :
             /\ Cardinality(B) <= BatchSize
             /\ B = ready \/ Cardinality(B) = BatchSize
             /\ todo' = [todo EXCEPT ![w] =
                   {[id |-> e, attempts |-> queue[e].attempts,
                     integration |-> queue[e].integration] : e \in B}]
    /\ pc' = [pc EXCEPT ![w] = "next"]
    /\ UNCHANGED <<rows, bcasts, cur, retryable, known, tripped, breaker, ghosts, faults>>

\* The circuit is open: the entry is put off without spending an attempt.
SkipEntry(w, x, ok) ==
    /\ pc[w] = "next" /\ x \in todo[w]
    /\ x.integration \in known[w]
    /\ IsOpen(breaker[w][x.integration])
    /\ Outcome(ok) /\ Charge(ok)
    /\ queue' = [queue EXCEPT ![x.id] = IF ok THEN SetNextRetry(@) ELSE @]
    /\ todo' = [todo EXCEPT ![w] = @ \ {x}]
    /\ UNCHANGED <<fresh, history, bcasts, pc, cur, retryable, known, tripped,
                   breaker, ghosts>>

\* Plausible slip: the circuit is not consulted before a claim.
MayTryIgnoringCircuit(w, x) == TRUE

\* The integration is gone (the entry fails below) or its circuit is closed.
MayTry(w, x) ==
    \/ x.integration \notin known[w]
    \/ ~ IsOpen(breaker[w][x.integration])

\* IsOpen resets a circuit that has cooled down.
ConsultBreaker(w, x) ==
    breaker' = IF x.integration \in known[w]
               THEN [breaker EXCEPT ![w][x.integration] = AfterIsOpen(@)]
               ELSE breaker

\* MarkAsProcessing takes the entry; without its integration the entry goes
\* straight to handleError with an unclassified (retryable) error.
ClaimEntry(w, x) ==
    /\ pc[w] = "next" /\ x \in todo[w]
    /\ MayTry(w, x)
    /\ Claimable(queue[x.id])
    /\ queue' = [queue EXCEPT ![x.id] = MarkAsProcessing(@)]
    /\ ConsultBreaker(w, x)
    /\ todo' = [todo EXCEPT ![w] = @ \ {x}]
    /\ cur' = [cur EXCEPT ![w] = x]
    /\ pc' = [pc EXCEPT ![w] = IF x.integration \in known[w] THEN "claimed"
                                                              ELSE "failing"]
    /\ retryable' = [retryable EXCEPT ![w] = TRUE]
    /\ UNCHANGED <<fresh, history, bcasts, known, tripped, ghosts, faults>>

\* MarkAsProcessing matched no row, or failed: on to the next entry.
ClaimRefused(w, x, ok) ==
    /\ pc[w] = "next" /\ x \in todo[w]
    /\ MayTry(w, x)
    /\ ok <=> ~ Claimable(queue[x.id])
    /\ Outcome(ok) /\ Charge(ok)
    /\ ConsultBreaker(w, x)
    /\ todo' = [todo EXCEPT ![w] = @ \ {x}]
    /\ UNCHANGED <<rows, bcasts, pc, cur, retryable, known, tripped, ghosts>>

EndPoll(w) ==
    /\ pc[w] = "next" /\ todo[w] = {}
    /\ pc' = [pc EXCEPT ![w] = "idle"]
    /\ known' = [known EXCEPT ![w] = {}]
    /\ UNCHANGED <<rows, bcasts, cur, retryable, todo, tripped, breaker, ghosts, faults>>

\* SendEmail returns nil; RecordSuccess.
SendSucceeds(w) ==
    /\ pc[w] = "claimed"
    /\ sends' = [sends EXCEPT ![cur[w].id] = @ + 1]
    /\ breaker' = [breaker EXCEPT ![w][cur[w].integration] = RecordSuccess(@)]
    /\ pc' = [pc EXCEPT ![w] = "sent"]
    /\ UNCHANGED <<rows, bcasts, cur, retryable, batch, tripped, given, dropped, faults>>

\* SendEmail fails, and nothing was accepted.  Recipient errors do not count
\* against the provider; the failure that opens the circuit calls back before
\* the entry is dealt with.
SendFails(w, counted, mayRetry) ==
    LET b == breaker[w][cur[w].integration]
    IN  /\ pc[w] = "claimed"
        /\ retryable' = [retryable EXCEPT ![w] = mayRetry]
        /\ breaker' = [breaker EXCEPT ![w][cur[w].integration] =
                           IF counted THEN RecordFailure(@) ELSE @]
        /\ pc' = [pc EXCEPT ![w] = IF counted /\ Opens(b) THEN "opened" ELSE "failing"]
        /\ UNCHANGED <<rows, bcasts, cur, batch, tripped, ghosts, faults>>

\* The accepted entry is deleted; if that fails it stays 'processing'.
MarkSent(w, ok) ==
    /\ pc[w] = "sent"
    /\ Outcome(ok) /\ Charge(ok)
    /\ queue' = [queue EXCEPT ![cur[w].id] = IF ok THEN MarkAsSent(@) ELSE @]
    /\ pc' = [pc EXCEPT ![w] = IF ok THEN "recording" ELSE "next"]
    /\ cur' = [cur EXCEPT ![w] = IF ok THEN @ ELSE None]
    /\ UNCHANGED <<fresh, history, bcasts, retryable, batch, tripped, breaker, ghosts>>

\* upsertMessageHistory after a send; its error is only logged.
RecordSent(w, ok) ==
    /\ pc[w] = "recording"
    /\ Outcome(ok) /\ Charge(ok)
    /\ history' = [history EXCEPT ![cur[w].id] = IF ok THEN "sent" ELSE @]
    /\ pc' = [pc EXCEPT ![w] = "next"]
    /\ cur' = [cur EXCEPT ![w] = None]
    /\ UNCHANGED <<queue, fresh, bcasts, retryable, batch, tripped, breaker, ghosts>>

\* Plausible slip: the history of a failed attempt is not written.
RecordFailedForgets(w, ok) ==
    /\ pc[w] = "failing"
    /\ Outcome(ok) /\ Charge(ok)
    /\ pc' = [pc EXCEPT ![w] = "marking"]
    /\ UNCHANGED <<rows, bcasts, cur, retryable, batch, tripped, breaker, ghosts>>

\* upsertMessageHistory with the failure, before the entry itself is marked.
RecordFailed(w, ok) ==
    /\ pc[w] = "failing"
    /\ Outcome(ok) /\ Charge(ok)
    /\ history' = [history EXCEPT ![cur[w].id] = IF ok THEN "failed" ELSE @]
    /\ pc' = [pc EXCEPT ![w] = "marking"]
    /\ UNCHANGED <<queue, fresh, bcasts, cur, retryable, batch, tripped, breaker, ghosts>>

\* handleError counts the attempt on the snapshot, not on the row.
IsPermanent(x, mayRetry) == x.attempts + 1 >= MaxAttempts \/ ~ mayRetry

\* The row after handleError: given up on, or scheduled for a retry.
AfterError(r, x, mayRetry) ==
    IF IsPermanent(x, mayRetry) THEN MarkAsPermanentlyFailed(r) ELSE MarkAsFailed(r)

MarkFailed(w, ok) ==
    /\ pc[w] = "marking"
    /\ Outcome(ok) /\ Charge(ok)
    /\ queue' = [queue EXCEPT ![cur[w].id] =
                     IF ok THEN AfterError(@, cur[w], retryable[w]) ELSE @]
    /\ given' = [given EXCEPT ![cur[w].id] = IF ok THEN @ + 1 ELSE @]
    /\ pc' = [pc EXCEPT ![w] = "next"]
    /\ cur' = [cur EXCEPT ![w] = None]
    /\ retryable' = [retryable EXCEPT ![w] = TRUE]
    /\ UNCHANGED <<fresh, history, bcasts, batch, tripped, breaker, sends, dropped>>

\* cleanupTerminallyFailed, between two polls.
Sweep(w) ==
    /\ pc[w] = "idle"
    /\ \E e \in Entries : Expired(queue[e])
    /\ queue' = [e \in Entries |-> DeleteTerminallyFailedOlderThan(queue[e])]
    /\ dropped' = dropped \cup {e \in Entries : Expired(queue[e])}
    /\ UNCHANGED <<fresh, history, bcasts, pc, cur, retryable, batch, tripped,
                   breaker, sends, given, faults>>

\* The process dies or is stopped; it comes back with nothing in memory.
Crash(w) ==
    /\ faults < MaxFaults /\ faults' = faults + 1
    /\ pc' = [pc EXCEPT ![w] = "idle"]
    /\ todo' = [todo EXCEPT ![w] = {}]
    /\ cur' = [cur EXCEPT ![w] = None]
    /\ known' = [known EXCEPT ![w] = {}]
    /\ trip' = [trip EXCEPT ![w] = {}]
    /\ seen' = [seen EXCEPT ![w] = None]
    /\ retryable' = [retryable EXCEPT ![w] = TRUE]
    /\ breaker' = [breaker EXCEPT ![w] = [i \in Integrations |-> NewCircuitBreaker]]
    /\ UNCHANGED <<rows, bcasts, ghosts>>

-----------------------------------------------------------------------------
(* PauseForCircuitBreaker, called by the worker whose failure opened the   *)
(* circuit, while its own entry is still 'processing'.                     *)

\* If the listing fails the callback gives up.
ListTripped(w, ok) ==
    /\ pc[w] = "opened"
    /\ Outcome(ok) /\ Charge(ok)
    /\ trip' = [trip EXCEPT ![w] =
          {b \in Broadcasts : ok /\ \E e \in Entries :
               SourceOf[e] = b /\ ActiveOn(queue[e], cur[w].integration)}]
    /\ pc' = [pc EXCEPT ![w] = "pausing"]
    /\ UNCHANGED <<rows, bcasts, cur, retryable, batch, seen, breaker, ghosts>>

Stoppable(b) == status[b] \in {"processing", "processed"}

\* GetBroadcast outside any transaction; one that is not going out, or cannot
\* be loaded, is left.
LoadTripped(w, b, ok) ==
    /\ pc[w] = "pausing" /\ seen[w] = None /\ b \in trip[w]
    /\ Outcome(ok) /\ Charge(ok)
    /\ trip' = [trip EXCEPT ![w] = @ \ {b}]
    /\ seen' = [seen EXCEPT ![w] =
          IF ok /\ Stoppable(b) THEN [broadcast |-> b, completed |-> completed[b]]
                                ELSE None]
    /\ UNCHANGED <<rows, bcasts, pc, cur, retryable, batch, breaker, ghosts>>

\* Rows of broadcast b under statement Op, the others as they are.
BySource(b, Op(_)) == [e \in Entries |-> IF SourceOf[e] = b THEN Op(queue[e]) ELSE queue[e]]

\* The transaction: status columns as loaded, and the queued rows.
PauseTripped(w, ok) ==
    /\ pc[w] = "pausing" /\ seen[w] # None
    /\ Outcome(ok) /\ Charge(ok)
    /\ LET b == seen[w].broadcast
       IN  IF ok
           THEN /\ status' = [status EXCEPT ![b] = "paused"]
                /\ completed' = [completed EXCEPT ![b] = seen[w].completed]
                /\ queue' = BySource(b, PauseBySource)
           ELSE UNCHANGED <<status, completed, queue>>
    /\ seen' = [seen EXCEPT ![w] = None]
    /\ UNCHANGED <<fresh, history, request, integrations, pc, cur, retryable, batch,
                   trip, breaker, ghosts>>

EndTrip(w) ==
    /\ pc[w] = "pausing" /\ seen[w] = None /\ trip[w] = {}
    /\ pc' = [pc EXCEPT ![w] = "failing"]
    /\ UNCHANGED <<rows, bcasts, cur, retryable, batch, tripped, breaker, ghosts, faults>>

-----------------------------------------------------------------------------
(* The operator: each call reads the broadcast, checks it, and writes      *)
(* later.  The reads take no lock.                                         *)

MayAsk(op, b) ==
    CASE op = "pause"  -> status[b] \in {"processing", "processed"}
      [] op = "resume" -> status[b] = "paused"
      [] op = "cancel" -> status[b] \in {"paused", "processing", "processed"}
      [] op = "retry"  -> status[b] \in {"processed", "failed"}

BeginRequest(op, b) ==
    /\ request = None
    /\ MayAsk(op, b)
    /\ request' = [op |-> op, broadcast |-> b, completed |-> completed[b]]
    /\ UNCHANGED <<rows, status, completed, integrations, pc, cur, retryable, batch,
                   tripped, breaker, ghosts, faults>>

\* The call is refused further on, its transaction rolled back, or its
\* caller gone: nothing was written.
AbortRequest ==
    /\ request # None
    /\ request' = None
    /\ UNCHANGED <<rows, status, completed, integrations, pc, cur, retryable, batch,
                   tripped, breaker, ghosts, faults>>

\* UpdateBroadcastStatusTx has no guard and writes the columns as loaded.
PauseBroadcast ==
    /\ request # None /\ request.op = "pause"
    /\ status' = [status EXCEPT ![request.broadcast] = "paused"]
    /\ completed' = [completed EXCEPT ![request.broadcast] = request.completed]
    /\ queue' = BySource(request.broadcast, PauseBySource)
    /\ request' = None
    /\ UNCHANGED <<fresh, history, integrations, pc, cur, retryable, batch, tripped,
                   breaker, ghosts, faults>>

ResumeBroadcast ==
    /\ request # None /\ request.op = "resume"
    /\ status' = [status EXCEPT ![request.broadcast] =
                      IF request.completed THEN "processed" ELSE "processing"]
    /\ completed' = [completed EXCEPT ![request.broadcast] = request.completed]
    /\ queue' = BySource(request.broadcast, ResumeBySource)
    /\ request' = None
    /\ UNCHANGED <<fresh, history, integrations, pc, cur, retryable, batch, tripped,
                   breaker, ghosts, faults>>

CancelBroadcast ==
    /\ request # None /\ request.op = "cancel"
    /\ status' = [status EXCEPT ![request.broadcast] = "cancelled"]
    /\ completed' = [completed EXCEPT ![request.broadcast] = request.completed]
    /\ queue' = BySource(request.broadcast, DeleteBySource)
    /\ dropped' = dropped \cup
          {e \in Entries : /\ SourceOf[e] = request.broadcast
                           /\ queue[e].status \in {"pending", "failed", "paused"}}
    /\ request' = None
    /\ UNCHANGED <<fresh, history, integrations, pc, cur, retryable, batch, tripped,
                   breaker, sends, given, faults>>

EntriesOf(b) == {e \in Entries : SourceOf[e] = b}

\* RetryFailedRecipients, second read: nothing in flight, something given up.
CheckCounts ==
    /\ request # None /\ request.op = "retry"
    /\ \A e \in EntriesOf(request.broadcast) : ~ InFlight(queue[e])
    /\ \E e \in EntriesOf(request.broadcast) : Terminal(queue[e])
    /\ request' = [op |-> "requeue", broadcast |-> request.broadcast,
                   completed |-> request.completed]
    /\ UNCHANGED <<rows, status, completed, integrations, pc, cur, retryable, batch,
                   tripped, breaker, ghosts, faults>>

\* The rows given up on start over on the current marketing integration.
RetryFailedRecipients(i) ==
    /\ request # None /\ request.op = "requeue"
    /\ i \in integrations
    /\ queue' = BySource(request.broadcast, LAMBDA r : ResetTerminallyFailedBySource(r, i))
    /\ given' = [e \in Entries |->
          IF SourceOf[e] = request.broadcast /\ Terminal(queue[e]) THEN 0 ELSE given[e]]
    /\ request' = None
    /\ UNCHANGED <<fresh, history, status, completed, integrations, pc, cur, retryable,
                   batch, tripped, breaker, sends, dropped, faults>>

-----------------------------------------------------------------------------
(* The rest of the application, as far as the queue sees it.               *)

\* The sender's Enqueue: one transaction for a batch of recipients.
EnqueueBatch(b, B, i) ==
    /\ status[b] = "processing"
    /\ i \in integrations
    /\ B # {}
    /\ queue' = [e \in Entries |-> IF e \in B THEN EnqueuedRow(i) ELSE queue[e]]
    /\ fresh' = fresh \ B
    /\ UNCHANGED <<history, bcasts, pc, cur, retryable, batch, tripped, breaker,
                   ghosts, faults>>

\* The orchestrator has enqueued everyone.
FinishEnqueueing(b) ==
    /\ status[b] = "processing"
    /\ status' = [status EXCEPT ![b] = "processed"]
    /\ completed' = [completed EXCEPT ![b] = TRUE]
    /\ UNCHANGED <<rows, request, integrations, pc, cur, retryable, batch, tripped,
                   breaker, ghosts, faults>>

\* The orchestrator's last attempt failed: what it enqueued still goes out.
FailEnqueueing(b) ==
    /\ status[b] = "processing"
    /\ status' = [status EXCEPT ![b] = "failed"]
    /\ UNCHANGED <<rows, completed, request, integrations, pc, cur, retryable, batch,
                   tripped, breaker, ghosts, faults>>

\* DeleteContact's first statement: the recipient's queued email goes.
EraseQueuedMail(e) ==
    /\ Present(queue[e])
    /\ queue' = [queue EXCEPT ![e] = DeleteForEmail(@)]
    /\ dropped' = dropped \cup {e}
    /\ UNCHANGED <<fresh, history, bcasts, pc, cur, retryable, batch, tripped, breaker,
                   sends, given, faults>>

\* An integration is deleted from, or added back to, the workspace.
ChangeIntegrations(i) ==
    /\ integrations' = (integrations \ {i}) \cup ({i} \ integrations)
    /\ UNCHANGED <<rows, status, completed, request, pc, cur, retryable, batch, tripped,
                   breaker, ghosts, faults>>

Tick(e) ==
    /\ \/ queue[e].retry = "future" /\ queue' = [queue EXCEPT ![e] = RetryFallsDue(@)]
       \/ /\ queue[e].status = "processing" /\ ~ queue[e].stale
          /\ queue[e].attempts < AttemptBound
          /\ queue' = [queue EXCEPT ![e] = GoesStale(@)]
       \/ queue[e].processed = "recent" /\ queue' = [queue EXCEPT ![e] = Expires(@)]
    /\ UNCHANGED <<fresh, history, bcasts, pc, cur, retryable, batch, tripped, breaker,
                   ghosts, faults>>

Cool(w, i) ==
    /\ breaker[w][i].isOpen /\ ~ breaker[w][i].cooled
    /\ breaker' = [breaker EXCEPT ![w][i] = CoolsDown(@)]
    /\ UNCHANGED <<rows, bcasts, pc, cur, retryable, batch, tripped, ghosts, faults>>

-----------------------------------------------------------------------------
Step(w) ==
    \/ ListWorkspaces(w)
    \/ Poll(w)
    \/ \E x \in todo[w] : ClaimEntry(w, x)
    \/ \E x \in todo[w], ok \in BOOLEAN : SkipEntry(w, x, ok) \/ ClaimRefused(w, x, ok)
    \/ EndPoll(w)
    \/ SendSucceeds(w)
    \/ \E counted, mayRetry \in BOOLEAN : SendFails(w, counted, mayRetry)
    \/ \E ok \in BOOLEAN : \/ MarkSent(w, ok) \/ RecordSent(w, ok)
                           \/ RecordFailed(w, ok) \/ MarkFailed(w, ok)
                           \/ ListTripped(w, ok) \/ PauseTripped(w, ok)
    \/ \E b \in trip[w], ok \in BOOLEAN : LoadTripped(w, b, ok)
    \/ EndTrip(w)

Operator ==
    \/ \E op \in {"pause", "resume", "cancel", "retry"}, b \in Broadcasts : BeginRequest(op, b)
    \/ AbortRequest
    \/ PauseBroadcast \/ ResumeBroadcast \/ CancelBroadcast
    \/ CheckCounts
    \/ \E i \in Integrations : RetryFailedRecipients(i)

Application ==
    \/ \E b \in Broadcasts, i \in Integrations :
          \E B \in SUBSET (fresh \cap EntriesOf(b)) : EnqueueBatch(b, B, i)
    \/ \E b \in Broadcasts : FinishEnqueueing(b) \/ FailEnqueueing(b)
    \/ \E e \in Entries : EraseQueuedMail(e)
    \/ \E i \in Removable : ChangeIntegrations(i)

Clock ==
    \/ \E e \in Entries : Tick(e)
    \/ \E w \in Workers, i \in Integrations : Cool(w, i)

Next ==
    \/ \E w \in Workers : Step(w) \/ Sweep(w) \/ Crash(w)
    \/ Operator
    \/ Application
    \/ Clock

Spec == Init /\ [][Next]_vars

\* A running worker keeps polling and gets through what it started, and the
\* clock goes on.  Operators and administrators owe nothing.
FairSpec ==
    /\ Spec
    /\ \A w \in Workers : WF_vars(Step(w))
    /\ \A e \in Entries : WF_vars(Tick(e))
    /\ \A w \in Workers, i \in Integrations : WF_vars(Cool(w, i))

-----------------------------------------------------------------------------
(* Safety.                                                                 *)

\* However workers crash, overlap or lose statements, a recipient who was
\* enqueued is still in the table, was mailed, or was taken out on purpose
\* (cancelled, erased, swept): the table alone is the record of who is left.
NoRecipientLost ==
    \A e \in Entries \ fresh : Present(queue[e]) \/ sends[e] > 0 \/ e \in dropped

\* With one worker, a paused row is inert until its broadcast is resumed: no
\* late failure, circuit skip or claim takes it out of the pause; only a
\* cancellation or the contact's deletion removes it.
PausedStayPaused ==
    [][\A e \in Entries : queue[e].status = "paused" =>
          \/ queue'[e].status = "paused"
          \/ queue'[e].status = "absent" /\ e \in dropped'
          \/ ResumeBroadcast]_vars

\* With one worker, a row given up on stays so until an operator retries it:
\* no poll, pause and resume, or circuit skip brings it back.
GivenUpIsFinal ==
    [][\A e \in Entries : Terminal(queue[e]) =>
          \/ Terminal(queue'[e])
          \/ queue'[e].status = "absent" /\ e \in dropped'
          \/ \E i \in Integrations : RetryFailedRecipients(i)]_vars

\* With one worker, no recipient is failed more often than max_attempts
\* between two retries by the operator, whatever crashed in between.
FailuresWithinBudget == \A e \in Entries : given[e] <= MaxAttempts

\* With one worker, every email a recipient gets beyond the first is owed to
\* a fault between the provider's acceptance and the row's deletion, as far as
\* a provider that returns an error has accepted nothing (see SendFails).
DuplicatesNeedFaults == \A e \in Entries : sends[e] <= 1 + faults

\* An open circuit lets no attempt through before it has cooled down, and then
\* counts from zero: provider failures never add up beyond the threshold, with
\* any number of workers, each having breakers of its own.
OpenCircuitStopsSends ==
    \A w \in Workers, i \in Integrations : breaker[w][i].failures <= Threshold

\* With one worker and no faults, whoever was given up on has a failure in
\* message_history: the history is written before the row is marked.
FailureIsOnRecord ==
    faults = 0 => \A e \in Entries : Terminal(queue[e]) => history[e] = "failed"

-----------------------------------------------------------------------------
(* Liveness.                                                               *)

\* With one worker and no faults, an entry in flight is eventually sent, given
\* up on, removed or paused, even while its circuit opens again and again or
\* its integration disappears: nothing is put off for ever.
Drains ==
    \A e \in Entries : InFlight(queue[e]) ~>
        ~ InFlight(queue[e]) \/ queue[e].status = "paused"
=============================================================================
