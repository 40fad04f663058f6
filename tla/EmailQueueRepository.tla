------------------------ MODULE EmailQueueRepository ------------------------
(***************************************************************************)
(* The email_queue table of a workspace and the SQL statements of          *)
(* internal/repository/email_queue_postgres.go, each one as an operator    *)
(* on a single row.  A statement that matches no row returns its argument. *)
(*                                                                         *)
(* Timestamps are kept only as far as the WHERE clauses tell them apart:   *)
(*   retry      next_retry_at: NULL, in the future, or not after NOW()     *)
(*   stale      updated_at lies more than two minutes back                 *)
(*   processed  processed_at: NULL, set, or older than the retention       *)
(* "absent" stands for the row that is not in the table.                   *)
(***************************************************************************)
EXTENDS Naturals

CONSTANTS
    Integrations,   \* the email integrations a row can be bound to
    MaxAttempts     \* max_attempts of every row (3 unless the caller says otherwise)

ASSUME MaxAttemptsAssumption == MaxAttempts \in Nat \ {0}

Statuses == {"absent", "pending", "processing", "failed", "paused"}

Row == [status      : Statuses,
        attempts    : Nat,
        retry       : {"null", "future", "due"},
        stale       : BOOLEAN,
        processed   : {"null", "recent", "expired"},
        integration : Integrations]

Present(r) == r.status # "absent"

\* A row given up on: failed with no retry date.
Terminal(r) == r.status = "failed" /\ r.retry = "null"

\* InFlight of EmailQueueSourceCounts: everything present that is not terminal.
InFlight(r) == Present(r) /\ ~ Terminal(r)

-----------------------------------------------------------------------------
(* Rows entering and leaving the table.                                    *)

\* EnqueueTx: the inserted row.
EnqueuedRow(i) ==
    [status |-> "pending", attempts |-> 0, retry |-> "null", stale |-> FALSE,
     processed |-> "null", integration |-> i]

\* What is left of a deleted row.
Gone(r) ==
    [r EXCEPT !.status = "absent", !.attempts = 0, !.retry = "null",
              !.stale = FALSE, !.processed = "null"]

-----------------------------------------------------------------------------
(* The statements of the queue worker.                                     *)

\* The WHERE clause of FetchPending.  There is no attempt guard on a row
\* reclaimed from a worker that went away.
FetchPending(r) ==
    \/ r.status = "pending" /\ r.attempts < MaxAttempts /\ r.retry # "future"
    \/ r.status = "failed" /\ r.attempts < MaxAttempts /\ r.retry = "due"
    \/ r.status = "processing" /\ r.stale

\* The WHERE clause of MarkAsProcessing: neither the retry date nor the
\* attempts are looked at again.
Claimable(r) ==
    \/ r.status \in {"pending", "failed"}
    \/ r.status = "processing" /\ r.stale

\* Plausible slip: the claim does not count the attempt.
MarkAsProcessingUncounted(r) ==
    IF Claimable(r) THEN [r EXCEPT !.status = "processing", !.stale = FALSE] ELSE r

MarkAsProcessing(r) ==
    IF Claimable(r)
    THEN [r EXCEPT !.status = "processing", !.attempts = @ + 1, !.stale = FALSE]
    ELSE r

\* Plausible slip: the sent row is kept under a status nobody else knows.
MarkAsSentAsStatus(r) == [r EXCEPT !.status = "sent"]

\* Plausible slip: the sent row is put back instead of being deleted.
MarkAsSentKeepsRow(r) ==
    IF Present(r) THEN [r EXCEPT !.status = "pending", !.stale = FALSE] ELSE r

MarkAsSent(r) == Gone(r)

MarkAsFailed(r) ==
    IF Present(r)
    THEN [r EXCEPT !.status = "failed", !.retry = "future", !.stale = FALSE]
    ELSE r

\* The behaviour before entries were kept: the row is deleted.
MarkAsPermanentlyFailedDeletes(r) == Gone(r)

MarkAsPermanentlyFailed(r) ==
    IF Present(r)
    THEN [r EXCEPT !.status = "failed", !.retry = "null", !.stale = FALSE,
                   !.processed = "recent"]
    ELSE r

\* The behaviour before the guard on paused rows.
SetNextRetryUnguarded(r) ==
    IF Present(r)
    THEN [r EXCEPT !.status = "pending", !.retry = "future", !.stale = FALSE]
    ELSE r

\* Any row but a paused one goes back to pending, its attempts untouched.
SetNextRetry(r) ==
    IF Present(r) /\ r.status # "paused"
    THEN [r EXCEPT !.status = "pending", !.retry = "future", !.stale = FALSE]
    ELSE r

\* A terminal row past the retention window is collected.
Expired(r) == Terminal(r) /\ r.processed = "expired"

DeleteTerminallyFailedOlderThan(r) == IF Expired(r) THEN Gone(r) ELSE r

-----------------------------------------------------------------------------
(* The statements of the broadcast and contact services.                   *)

\* The behaviour before terminal rows were left out of a pause.
PauseBySourceTakesAll(r) ==
    IF r.status \in {"pending", "failed"}
    THEN [r EXCEPT !.status = "paused", !.stale = FALSE]
    ELSE r

PauseBySource(r) ==
    IF r.status \in {"pending", "failed"} /\ ~ Terminal(r)
    THEN [r EXCEPT !.status = "paused", !.stale = FALSE]
    ELSE r

ResumeBySource(r) ==
    IF r.status = "paused"
    THEN [r EXCEPT !.status = "pending", !.retry = "null", !.stale = FALSE]
    ELSE r

DeleteBySource(r) ==
    IF r.status \in {"pending", "failed", "paused"} THEN Gone(r) ELSE r

ResetTerminallyFailedBySource(r, i) ==
    IF Terminal(r) THEN EnqueuedRow(i) ELSE r

\* ListActiveSourcesByIntegration counts a row as live on integration i.
ActiveOn(r, i) ==
    r.status \in {"pending", "processing", "failed"} /\ r.integration = i

\* Contact deletion: no status is spared.
DeleteForEmail(r) == Gone(r)

-----------------------------------------------------------------------------
(* The clock, as far as a WHERE clause can see it.                         *)

RetryFallsDue(r) == [r EXCEPT !.retry = "due"]
GoesStale(r)     == [r EXCEPT !.stale = TRUE]
Expires(r)       == [r EXCEPT !.processed = "expired"]
=============================================================================
