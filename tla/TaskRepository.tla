--------------------------- MODULE TaskRepository ---------------------------
(* The statements of internal/repository/task_postgres.go that change a row  *)
(* of the system table `tasks', each as an operator from the row before the  *)
(* statement to the row after it.  Every statement runs in a transaction of  *)
(* its own; the two that read before they write (GetTx in MarkAsFailedTx and *)
(* in the set-up of ExecuteTask) read FOR UPDATE, so each is one step.       *)
(*                                                                           *)
(* A row keeps what control depends on:                                      *)
(*   status    tasks.status                                                  *)
(*   due       next_run_after is NULL or has passed                          *)
(*   lease     timeout_after: the execution whose claim set it, "expired"    *)
(*             once it has passed, "none" for NULL.  The column is read only *)
(*             while the row is running, so it is "none" on any other row.   *)
(*   retries   retry_count                                                   *)
(*   state     the SendBroadcast part of the JSON state: TotalRecipients and *)
(*             RecipientOffset, counted in batches                           *)
EXTENDS Naturals

CONSTANTS
    Executions,     \* calls of ExecuteTask that may be in flight together
    Batches,        \* TotalRecipients, in batches
    MaxRetries      \* tasks.max_retries

ASSUME BatchesAssumption == Batches \in Nat \ {0}
ASSUME MaxRetriesAssumption == MaxRetries \in Nat
ASSUME ExecutionsAssumption == {"none", "expired"} \cap Executions = {}

TaskStatuses == {"pending", "running", "completed", "failed", "paused"}

Progress == [total : {0, Batches}, offset : 0 .. Batches]

Task == [status : TaskStatuses, due : BOOLEAN,
         lease : Executions \cup {"none", "expired"},
         retries : Nat, state : Progress]

NoProgress == [total |-> 0, offset |-> 0]

(* The row handleBroadcastScheduled creates for a broadcast sent now. *)
NewTask == [status |-> "pending", due |-> TRUE, lease |-> "none",
            retries |-> 0, state |-> NoProgress]
-----------------------------------------------------------------------------
\* Plausible slip: a row whose execution died is not reaped.
GetNextBatchWithoutReaping(t) == t.status \in {"pending", "paused"} /\ t.due

(* What the scheduler picks up. *)
GetNextBatch(t) ==
    \/ t.status \in {"pending", "paused"} /\ t.due
    \/ t.status = "running" /\ t.lease = "expired"

\* Plausible slip: the claim does not look at the lease.
ClaimableWhileLeased(t) == t.status \in {"pending", "paused", "running"}

(* The WHERE clause of the claim: next_run_after is not looked at again. *)
Claimable(t) ==
    \/ t.status \in {"pending", "paused"}
    \/ t.status = "running" /\ t.lease = "expired"

MarkAsRunning(t, x) == [t EXCEPT !.status = "running", !.lease = x]

\* Plausible slip: progress is not recorded between slices.
SaveStateNever(t, s) == t

(* Progress is recorded only on a running row; whose execution it is running *)
(* for is not asked.                                                         *)
SaveState(t, s) == IF t.status = "running" THEN [t EXCEPT !.state = s] ELSE t

MarkAsCompleted(t, s) ==
    [t EXCEPT !.status = "completed", !.state = s, !.lease = "none"]

(* A failure is retried after retry_interval while the budget lasts. *)
MarkAsFailed(t) ==
    [t EXCEPT !.status  = IF t.retries < MaxRetries THEN "pending" ELSE "failed",
              !.due     = t.retries >= MaxRetries,
              !.retries = @ + 1,
              !.lease   = "none"]

MarkAsPaused(t, s) ==
    [t EXCEPT !.status = "paused", !.state = s, !.due = FALSE, !.lease = "none"]

MarkAsPending(t, s) ==
    [t EXCEPT !.status = "pending", !.state = s, !.due = TRUE,
              !.lease = "none", !.retries = 0]

\* Plausible slip: a run that was interrupted counts as a failure.
ReleaseTaskAsFailed(t, now) == IF t.status = "running" THEN MarkAsFailed(t) ELSE t

(* Only a running row is handed back; it keeps its progress and its retries. *)
ReleaseTask(t, now) ==
    IF t.status = "running"
      THEN [t EXCEPT !.status = "pending", !.due = now, !.lease = "none"]
      ELSE t

(* UpdateTx writes every column back from the copy handleBroadcastResumed    *)
(* read and changed.                                                         *)
ResumedTask(t, copy) ==
    [t EXCEPT !.status = "pending", !.due = TRUE, !.retries = 0,
              !.state = copy.state, !.lease = "none"]
-----------------------------------------------------------------------------
(* next_run_after passes. *)
FallsDue(t) == [t EXCEPT !.due = TRUE]

(* timeout_after passes. *)
LeaseExpires(t) == [t EXCEPT !.lease = "expired"]
=============================================================================
