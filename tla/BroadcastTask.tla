---------------------------- MODULE BroadcastTask ----------------------------
(* One broadcast and the `send_broadcast' task that enqueues its mail:       *)
(*   - the scheduler and ExecuteTask (internal/service/task_service.go),     *)
(*   - the processor (internal/service/broadcast/orchestrator.go, Process),  *)
(*   - pause, resume and cancel (internal/service/broadcast_service.go),     *)
(*   - the event bus (internal/domain/event.go) and the task service's event *)
(*     handlers, which change the task row of a paused, resumed or cancelled *)
(*     broadcast.                                                            *)
(* The task row lives in the system database, the broadcast in the           *)
(* workspace's: no transaction spans both.  The broadcast has one variation  *)
(* ("single" phase), a non-empty audience and was sent without a schedule.   *)
(*                                                                           *)
(* ExecuteTask is two goroutines.  `main' claims the row, then waits for the *)
(* result or for the end of its context and writes the task's next status;   *)
(* `proc' runs Process and may outlive `main'.  Time is in three actions: a  *)
(* waiting row falls due, an execution passes its deadline (the same instant *)
(* as the lease its claim wrote), the lease of a dead execution expires.     *)
EXTENDS TaskRepository

CONSTANTS
    Users,          \* console requests that may be in flight together
    Budget          \* how often each disturbance happens in a behaviour

(* The disturbances: a replica dies; the context is cancelled by a shutdown  *)
(* or by the dispatcher hanging up; an execution overruns timeout and grace; *)
(* progress cannot be saved; a dispatch is lost; a batch fails; the          *)
(* recipient feed fails; the user acts; a user's transaction rolls back.     *)
Disturbances == {"crash", "hangup", "overrun", "unsaved", "lost",
                 "error", "feed", "op", "rollback"}

ASSUME BudgetAssumption == Budget \in [Disturbances -> Nat]
ASSUME UsersAssumption == Users \cap Executions = {} /\ "none" \notin Users

VARIABLES
    task,       \* the row of the system table `tasks'
    bcast,      \* the row of `broadcasts': status, and whether completed_at is set
    lock,       \* the user whose transaction has updated the broadcasts row, or "none"
    enqueued,   \* per batch: how often its rows were committed to the queue; 2 is "or more"
    exec,       \* the executions
    op,         \* the console requests
    handler,    \* per publisher: the handler of the event it published
    left        \* what is left of Budget

vars == <<task, bcast, lock, enqueued, exec, op, handler, left>>
-----------------------------------------------------------------------------
BroadcastStatuses == {"processing", "paused", "processed", "failed", "cancelled"}

Broadcast == [status : BroadcastStatuses, completed : BOOLEAN]

(* main    "waiting": the row was claimed, the result is awaited             *)
(* proc    where Process stands, "none" when it has returned                 *)
(* state   its task.State                                                    *)
(* last    isLastRetry                                                       *)
(* result  what Process returned, until main has read it                     *)
Execution == [main : {"idle", "dispatched", "waiting"},
              proc : {"none", "start", "loop", "refreshed", "fetched", "sent", "failing"},
              ctx : {"live", "canceled", "deadline"},
              state : Progress, last : BOOLEAN,
              result : {"none", "done", "more", "error"}]

Idle == [main |-> "idle", proc |-> "none", ctx |-> "live", state |-> NoProgress,
         last |-> FALSE, result |-> "none"]

Kinds == {"pause", "resume", "cancel"}

(* begun: the broadcast was read and its status allows the request;          *)
(* locked: the broadcasts row is updated, not yet committed, and the event   *)
(* published.                                                                *)
Request == [pc : {"idle", "begun", "locked"}, kind : Kinds, seen : Broadcast]

NoRequest == [pc |-> "idle", kind |-> "pause",
              seen |-> [status |-> "processing", completed |-> FALSE]]

Handler == [pc : {"idle", "published", "read"}, kind : Kinds, copy : Task]

NoHandler == [pc |-> "idle", kind |-> "pause", copy |-> NewTask]

TypeOK ==
    /\ task \in Task
    /\ bcast \in Broadcast
    /\ lock \in Users \cup {"none"}
    /\ enqueued \in [1 .. Batches -> 0 .. 2]
    /\ exec \in [Executions -> Execution]
    /\ op \in [Users -> Request]
    /\ handler \in [Users \cup Executions -> Handler]
    /\ left \in [Disturbances -> Nat]

Init ==
    /\ task = NewTask
    /\ bcast = [status |-> "processing", completed |-> FALSE]
    /\ lock = "none"
    /\ enqueued = [n \in 1 .. Batches |-> 0]
    /\ exec = [x \in Executions |-> Idle]
    /\ op = [u \in Users |-> NoRequest]
    /\ handler = [p \in Users \cup Executions |-> NoHandler]
    /\ left = Budget

Spend(k) == left[k] > 0 /\ left' = [left EXCEPT ![k] = @ - 1]

Happened(k) == left[k] < Budget[k]

Used(k) == Budget[k] - left[k]
-----------------------------------------------------------------------------
\* Plausible slip: the update does not look at the status it overwrites.
UpdatableUnguarded == TRUE

(* The broadcasts row as the orchestrator writes it (UpdateBroadcastTx): it  *)
(* waits for a user's transaction, and finds no row once the broadcast is    *)
(* cancelled or processed.                                                   *)
Updatable == bcast.status \notin {"cancelled", "processed"}

UpdateBroadcast(b) ==
    /\ lock = "none"
    /\ bcast' = IF Updatable THEN b ELSE bcast
-----------------------------------------------------------------------------
(* ExecutePendingTasks, from the ticker or after a resume: a slot is free    *)
(* for another execution once its goroutines are gone and no lease names it. *)
Dispatch(x) ==
    /\ exec[x].main = "idle" /\ exec[x].proc = "none"
    /\ handler[x].pc = "idle" /\ task.lease # x
    /\ GetNextBatch(task)
    /\ exec' = [exec EXCEPT ![x] = [Idle EXCEPT !.main = "dispatched"]]
    /\ UNCHANGED <<task, bcast, lock, enqueued, op, handler, left>>

(* The HTTP dispatch fails; nobody tries again before the next tick. *)
DispatchLost(x) ==
    /\ exec[x].main = "dispatched"
    /\ exec' = [exec EXCEPT ![x] = Idle]
    /\ Spend("lost")
    /\ UNCHANGED <<task, bcast, lock, enqueued, op, handler>>

(* ExecuteTask's set-up transaction and the start of the processor. *)
Claim(x) ==
    /\ exec[x].main = "dispatched"
    /\ Claimable(task)
    /\ task' = MarkAsRunning(task, x)
    /\ exec' = [exec EXCEPT ![x] = [Idle EXCEPT !.main = "waiting", !.proc = "start",
                                      !.state = task.state,
                                      !.last = task.retries + 1 >= MaxRetries]]
    /\ UNCHANGED <<bcast, lock, enqueued, op, handler, left>>

(* ErrTaskAlreadyRunning. *)
ClaimRefused(x) ==
    /\ exec[x].main = "dispatched"
    /\ ~Claimable(task)
    /\ exec' = [exec EXCEPT ![x] = Idle]
    /\ UNCHANGED <<task, bcast, lock, enqueued, op, handler, left>>
-----------------------------------------------------------------------------
(* Process.  Its database calls carry the execution's context, and fail once *)
(* that has ended, except SaveState and the final UpdateBroadcast.           *)
Live(x) == exec[x].ctx = "live"

(* Process returns; a result nobody waits for any more is dropped. *)
Returned(e, r) ==
    IF e.main = "waiting" THEN [e EXCEPT !.proc = "none", !.result = r] ELSE Idle

(* The first run counts the audience and stops there. *)
CountRecipients(x) ==
    /\ exec[x].proc = "start" /\ exec[x].state.total = 0 /\ Live(x)
    /\ exec' = [exec EXCEPT ![x] = Returned([@ EXCEPT !.state.total = Batches], "more")]
    /\ UNCHANGED <<task, bcast, lock, enqueued, op, handler, left>>

(* The workspace, the broadcast and the templates are loaded. *)
Prepare(x) ==
    /\ exec[x].proc = "start" /\ exec[x].state.total > 0 /\ Live(x)
    /\ exec' = [exec EXCEPT ![x].proc = "loop"]
    /\ UNCHANGED <<task, bcast, lock, enqueued, op, handler, left>>

\* Plausible slip: a cancelled broadcast is left for the next run, like a paused one.
RefreshPastCancel(x) ==
    /\ exec[x].proc = "loop"
    /\ exec' = [exec EXCEPT ![x] =
                 IF Live(x) /\ bcast.status \in {"paused", "cancelled"}
                   THEN Returned(@, "more") ELSE [@ EXCEPT !.proc = "refreshed"]]
    /\ UNCHANGED <<task, bcast, lock, enqueued, op, handler, left>>

(* The loop looks at the broadcast again and stops for a cancelled or a      *)
(* paused one, whose queue rows it deletes or pauses; a look that fails is   *)
(* ignored.                                                                  *)
Refresh(x) ==
    /\ exec[x].proc = "loop"
    /\ exec' = [exec EXCEPT ![x] =
                 IF Live(x) /\ bcast.status = "cancelled" THEN Returned(@, "done")
                 ELSE IF Live(x) /\ bcast.status = "paused" THEN Returned(@, "more")
                 ELSE [@ EXCEPT !.proc = "refreshed"]]
    /\ UNCHANGED <<task, bcast, lock, enqueued, op, handler, left>>

(* timeoutAt has passed: the rest is left to the next run. *)
TimeUp(x) ==
    /\ exec[x].proc = "refreshed"
    /\ exec' = [exec EXCEPT ![x] = Returned(@, "more")]
    /\ UNCHANGED <<task, bcast, lock, enqueued, op, handler, left>>

\* Plausible slip: one batch too many.
AllEnqueuedLate(x) == exec[x].state.offset > exec[x].state.total

\* Plausible slip: one batch too few.
AllEnqueuedEarly(x) == exec[x].state.offset + 1 >= exec[x].state.total

AllEnqueued(x) == exec[x].state.offset >= exec[x].state.total

(* FetchBatch: the batch after the cursor, unless the broadcast is cancelled. *)
FetchBatch(x) ==
    /\ exec[x].proc = "refreshed" /\ ~AllEnqueued(x) /\ Live(x)
    /\ exec' = [exec EXCEPT ![x] = IF bcast.status = "cancelled"
                                     THEN Returned(@, "done")
                                     ELSE [@ EXCEPT !.proc = "fetched"]]
    /\ UNCHANGED <<task, bcast, lock, enqueued, op, handler, left>>

(* SendBatch: its rows are committed to the email queue in one transaction. *)
SendBatch(x) ==
    LET n == exec[x].state.offset + 1 IN
    /\ exec[x].proc = "fetched" /\ Live(x)
    /\ enqueued' = [enqueued EXCEPT ![n] = IF @ = 2 THEN 2 ELSE @ + 1]
    /\ exec' = [exec EXCEPT ![x].proc = "sent"]
    /\ UNCHANGED <<task, bcast, lock, op, handler, left>>

(* The cursor moves past the committed batch and is saved; an error of the   *)
(* save is ignored.                                                          *)
Advance(x) ==
    LET s == [exec[x].state EXCEPT !.offset = @ + 1] IN
    /\ exec[x].proc = "sent"
    /\ exec' = [exec EXCEPT ![x].state = s, ![x].proc = "loop"]
    /\ \/ task' = SaveState(task, s) /\ UNCHANGED left
       \/ task' = task /\ Spend("unsaved")
    /\ UNCHANGED <<bcast, lock, enqueued, op, handler>>

(* A lookup, the fetch or the enqueue fails, by itself or because the        *)
(* context has ended.                                                        *)
FailsOn(x) ==
    \/ exec[x].proc \in {"start", "fetched"}
    \/ exec[x].proc = "refreshed" /\ ~AllEnqueued(x)

ProcessFails(x) ==
    /\ FailsOn(x)
    /\ IF Live(x) THEN Spend("error") ELSE UNCHANGED left
    /\ exec' = [exec EXCEPT ![x].proc = "failing"]
    /\ UNCHANGED <<task, bcast, lock, enqueued, op, handler>>

(* The context had ended before Process was called. *)
NotStarted(x) ==
    /\ exec[x].proc = "start" /\ ~Live(x)
    /\ exec' = [exec EXCEPT ![x] = Returned(@, "error")]
    /\ UNCHANGED <<task, bcast, lock, enqueued, op, handler, left>>

(* The deferred function: on the last retry the broadcast becomes failed, or *)
(* paused when the run was interrupted.                                      *)
Finalize(x) ==
    /\ exec[x].proc = "failing"
    /\ IF exec[x].last
         THEN UpdateBroadcast([bcast EXCEPT !.status = IF Live(x) THEN "failed" ELSE "paused"])
         ELSE UNCHANGED bcast
    /\ exec' = [exec EXCEPT ![x] = Returned(@, "error")]
    /\ UNCHANGED <<task, lock, enqueued, op, handler, left>>

(* The recipient feed fails: the broadcast is paused, the paused event is    *)
(* published without waiting for its handler, and Process fails without      *)
(* finalizing.                                                               *)
FeedFails(x) ==
    /\ exec[x].proc = "fetched" /\ Live(x)
    /\ UpdateBroadcast([bcast EXCEPT !.status = "paused"])
    /\ handler' = IF Updatable
                    THEN [handler EXCEPT ![x].pc = "published", ![x].kind = "pause"]
                    ELSE handler
    /\ exec' = [exec EXCEPT ![x] = Returned(@, "error")]
    /\ Spend("feed")
    /\ UNCHANGED <<task, lock, enqueued, op>>

(* Every batch is enqueued: the broadcast is saved as processed, whatever    *)
(* became of it since the last refresh.                                      *)
Complete(x) ==
    /\ exec[x].proc = "refreshed" /\ AllEnqueued(x)
    /\ UpdateBroadcast([status |-> "processed", completed |-> TRUE])
    /\ exec' = [exec EXCEPT ![x] = IF Updatable THEN Returned(@, "done")
                                              ELSE [@ EXCEPT !.proc = "failing"]]
    /\ UNCHANGED <<task, lock, enqueued, op, handler, left>>
-----------------------------------------------------------------------------
(* ExecuteTask's select.  With both its context ended and a result waiting,  *)
(* either case may be taken.                                                 *)
Settle(x) ==
    exec' = [exec EXCEPT ![x] = IF @.proc = "none" THEN Idle
                                ELSE [@ EXCEPT !.main = "idle"]]

MainInterrupted(x) ==
    /\ exec[x].main = "waiting" /\ exec[x].ctx = "canceled"
    /\ task' = ReleaseTask(task, FALSE)
    /\ Settle(x)
    /\ UNCHANGED <<bcast, lock, enqueued, op, handler, left>>

MainTimedOut(x) ==
    /\ exec[x].main = "waiting" /\ exec[x].ctx = "deadline"
    /\ task' = MarkAsFailed(task)
    /\ Settle(x)
    /\ UNCHANGED <<bcast, lock, enqueued, op, handler, left>>

MainDone(x) ==
    /\ exec[x].main = "waiting" /\ exec[x].result = "done"
    /\ task' = MarkAsCompleted(task, exec[x].state)
    /\ Settle(x)
    /\ UNCHANGED <<bcast, lock, enqueued, op, handler, left>>

MainContinue(x) ==
    /\ exec[x].main = "waiting" /\ exec[x].result = "more"
    /\ task' = MarkAsPending(task, exec[x].state)
    /\ Settle(x)
    /\ UNCHANGED <<bcast, lock, enqueued, op, handler, left>>

MainFailed(x) ==
    /\ exec[x].main = "waiting" /\ exec[x].result = "error"
    /\ task' = IF exec[x].ctx = "canceled" THEN ReleaseTask(task, TRUE)
                                           ELSE MarkAsFailed(task)
    /\ Settle(x)
    /\ UNCHANGED <<bcast, lock, enqueued, op, handler, left>>
-----------------------------------------------------------------------------
(* PauseBroadcast, ResumeBroadcast, CancelBroadcast: one transaction on the  *)
(* workspace database that reads the broadcast without locking it...         *)
Allowed(kind, b) ==
    \/ kind = "pause"  /\ b.status \in {"processing", "processed"}
    \/ kind = "resume" /\ b.status = "paused"
    \/ kind = "cancel" /\ b.status \in {"paused", "processing", "processed"}

BeginRequest(u, kind) ==
    /\ op[u].pc = "idle"
    /\ Allowed(kind, bcast)
    /\ op' = [op EXCEPT ![u] = [pc |-> "begun", kind |-> kind, seen |-> bcast]]
    /\ Spend("op")
    /\ UNCHANGED <<task, bcast, lock, enqueued, exec, handler>>

(* ...then updates it, which locks the row, and publishes the event... *)
UpdateStatus(u) ==
    /\ op[u].pc = "begun" /\ lock = "none"
    /\ lock' = u
    /\ op' = [op EXCEPT ![u].pc = "locked"]
    /\ handler' = [handler EXCEPT ![u].pc = "published", ![u].kind = op[u].kind]
    /\ UNCHANGED <<task, bcast, enqueued, exec, left>>

(* UpdateBroadcastStatusTx writes the status and completed_at it read. *)
NewStatus(r) ==
    [r.seen EXCEPT !.status = IF r.kind = "pause" THEN "paused"
                              ELSE IF r.kind = "cancel" THEN "cancelled"
                              ELSE IF r.seen.completed THEN "processed" ELSE "processing"]

(* ...and commits when the handler has returned. *)
CommitRequest(u) ==
    /\ op[u].pc = "locked" /\ handler[u].pc = "idle"
    /\ bcast' = NewStatus(op[u])
    /\ lock' = "none"
    /\ op' = [op EXCEPT ![u] = NoRequest]
    /\ UNCHANGED <<task, enqueued, exec, handler, left>>

(* The handler times out, or the request's context ends, before the commit;  *)
(* what the handler wrote to the other database stays.                       *)
RollbackRequest(u) ==
    /\ op[u].pc # "idle"
    /\ lock' = IF lock = u THEN "none" ELSE lock
    /\ op' = [op EXCEPT ![u] = NoRequest]
    /\ handler' = [handler EXCEPT ![u] = NoHandler]
    /\ Spend("rollback")
    /\ UNCHANGED <<task, bcast, enqueued, exec>>

(* handleBroadcastPaused, -Resumed and -Cancelled look the task up in one    *)
(* transaction and leave a completed task alone...                           *)
LeavesAlone(t) == t.status = "completed"

HandlerRead(p) ==
    /\ handler[p].pc = "published"
    /\ handler' = [handler EXCEPT ![p] =
                     IF LeavesAlone(task) THEN NoHandler
                     ELSE [@ EXCEPT !.pc = "read", !.copy = task]]
    /\ UNCHANGED <<task, bcast, lock, enqueued, exec, op, left>>

(* ...and write it in another. *)
HandlerWrite(p) ==
    /\ handler[p].pc = "read"
    /\ \/ handler[p].kind = "pause"  /\ task' = MarkAsPaused(task, handler[p].copy.state)
       \/ handler[p].kind = "resume" /\ task' = ResumedTask(task, handler[p].copy)
       \/ handler[p].kind = "cancel" /\ task' = MarkAsFailed(task)
    /\ handler' = [handler EXCEPT ![p] = NoHandler]
    /\ UNCHANGED <<bcast, lock, enqueued, exec, op, left>>
-----------------------------------------------------------------------------
(* Time, and what goes wrong outside the code. *)
BecomesDue ==
    /\ task.status \in {"pending", "paused"} /\ ~task.due
    /\ task' = FallsDue(task)
    /\ UNCHANGED <<bcast, lock, enqueued, exec, op, handler, left>>

(* timeoutAt + grace: the context of the execution and its lease end as one. *)
Overrun(x) ==
    /\ exec[x].main = "waiting" /\ Live(x)
    /\ exec' = [exec EXCEPT ![x].ctx = "deadline"]
    /\ task' = IF task.lease = x THEN LeaseExpires(task) ELSE task
    /\ Spend("overrun")
    /\ UNCHANGED <<bcast, lock, enqueued, op, handler>>

(* The lease of an execution that is gone expires. *)
DeadLeaseExpires(x) ==
    /\ task.lease = x /\ exec[x].main = "idle"
    /\ task' = LeaseExpires(task)
    /\ UNCHANGED <<bcast, lock, enqueued, exec, op, handler, left>>

HangUp(x) ==
    /\ exec[x].main = "waiting" /\ Live(x)
    /\ exec' = [exec EXCEPT ![x].ctx = "canceled"]
    /\ Spend("hangup")
    /\ UNCHANGED <<task, bcast, lock, enqueued, op, handler>>

Crash(x) ==
    /\ exec[x] # Idle
    /\ exec' = [exec EXCEPT ![x] = Idle]
    /\ handler' = [handler EXCEPT ![x] = NoHandler]
    /\ Spend("crash")
    /\ UNCHANGED <<task, bcast, lock, enqueued, op>>
-----------------------------------------------------------------------------
ProcStep(x) ==
    \/ CountRecipients(x) \/ Prepare(x) \/ Refresh(x) \/ TimeUp(x) \/ FetchBatch(x)
    \/ SendBatch(x) \/ Advance(x) \/ ProcessFails(x) \/ NotStarted(x) \/ Finalize(x)
    \/ FeedFails(x) \/ Complete(x)

MainStep(x) ==
    \/ Claim(x) \/ ClaimRefused(x) \/ MainInterrupted(x) \/ MainTimedOut(x)
    \/ MainDone(x) \/ MainContinue(x) \/ MainFailed(x)

Next ==
    \/ \E x \in Executions :
         \/ Dispatch(x) \/ DispatchLost(x) \/ MainStep(x) \/ ProcStep(x)
         \/ Overrun(x) \/ DeadLeaseExpires(x) \/ HangUp(x) \/ Crash(x)
    \/ \E u \in Users :
         \/ \E kind \in Kinds : BeginRequest(u, kind)
         \/ UpdateStatus(u) \/ CommitRequest(u) \/ RollbackRequest(u)
    \/ \E p \in Users \cup Executions : HandlerRead(p) \/ HandlerWrite(p)
    \/ BecomesDue

Spec == Init /\ [][Next]_vars

(* The ticker, the goroutines and the clock go on; a run of 50 s gets one    *)
(* batch, or the final update, done before its time is up.                   *)
Fairness ==
    /\ \A x \in Executions :
         /\ WF_vars(Dispatch(x)) /\ WF_vars(MainStep(x)) /\ WF_vars(ProcStep(x))
         /\ SF_vars(FetchBatch(x)) /\ SF_vars(Complete(x))
         /\ WF_vars(DeadLeaseExpires(x))
    /\ \A u \in Users : WF_vars(UpdateStatus(u)) /\ WF_vars(CommitRequest(u))
    /\ \A p \in Users \cup Executions : WF_vars(HandlerRead(p)) /\ WF_vars(HandlerWrite(p))
    /\ WF_vars(BecomesDue)

FairSpec == Spec /\ Fairness
-----------------------------------------------------------------------------
(* A broadcast is shown as processed, or keeps a completion date, only if    *)
(* every batch of its audience reached the email queue: retries, overlapping *)
(* executions, stale copies of the task and late writes may repeat a batch,  *)
(* they never skip one.                                                      *)
NothingSkipped ==
    bcast.status = "processed" \/ bcast.completed =>
        \A n \in 1 .. Batches : enqueued[n] > 0

Working(x) == exec[x].proc # "none" /\ Live(x)

(* Two processors work on the task at once, both with a live context, only   *)
(* after an execution overran its deadline, a user acted, or the recipient   *)
(* feed paused the broadcast: dispatching, claiming, crashing, reaping and   *)
(* retrying never bring it about.                                            *)
OneAtATime ==
    (\E x, y \in Executions : x # y /\ Working(x) /\ Working(y))
        => Happened("overrun") \/ Happened("op") \/ Happened("feed")

(* A batch is enqueued twice only if an execution was killed, interrupted or *)
(* overran, its progress could not be saved, or the broadcast was paused     *)
(* under it; failed batches and any number of slices and retries repeat      *)
(* nothing.                                                                  *)
OnceIfUndisturbed ==
    (\E n \in 1 .. Batches : enqueued[n] > 1)
        => \E k \in {"crash", "hangup", "overrun", "unsaved", "op", "feed"} : Happened(k)

(* A task whose mail is not all enqueued is given up only after more         *)
(* failures than max_retries: shutdowns, hang-ups, crashes and lost          *)
(* dispatches never use the budget.                                          *)
OnlyFailuresSpendRetries ==
    task.status = "failed" /\ ~bcast.completed /\ ~Happened("op")
        => Used("error") + Used("overrun") + Used("feed") > MaxRetries

(* Whatever the orchestrator still writes, a cancelled broadcast stays       *)
(* cancelled, while the console sends one request at a time.                 *)
CancelIsFinal == [][bcast.status = "cancelled" => bcast'.status = "cancelled"]_vars

(* The task of a cancelled broadcast comes to rest. *)
CancelledTaskEnds ==
    bcast.status = "cancelled" ~> task.status \in {"completed", "failed"}

(* A broadcast does not stay "processing", whatever dies or fails and though *)
(* a user acts on it once: it is processed, or its failure or interruption   *)
(* is put on record.                                                         *)
ProcessingEnds == <>[](bcast.status # "processing")
=============================================================================
