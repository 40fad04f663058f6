# A TLA+ verification of Notifuse

Notifuse is a multi-tenant email platform: a Go server (`src/cmd`, `src/internal`,
`src/pkg`), a PostgreSQL *system* database shared by all workspaces and one PostgreSQL
database *per workspace*, and browser clients. This directory holds TLA+ models of the parts
of the server in which several actors work on the same rows, TLC configurations that check
them on small instances, and TLAPS proofs of their most important properties for every
value of the constants.

Five protocols are covered: a broadcast's way from the console's "send" to the email provider
(the task that enqueues its mail, the queue that holds it, and everything that pauses,
resumes, cancels or retries it underway); the outgoing webhooks; the journeys of contacts
through an automation; the memberships of a segment; and the pools of connections to the
workspaces' databases. The rest is inventoried below, with the reason why it is left out.

Paths in this file are relative to the repository root's `src/`, unless they name a module.

## 1. Inventory

### Parts with a protocol of their own

| Component | State it keeps | Operations | Who interacts with it | What is hard | What makes it correct |
|---|---|---|---|---|---|
| **Email queue repository** (`internal/repository/email_queue_postgres.go`) | table `email_queue` of a workspace: status, attempts, `next_retry_at`, `updated_at`, `processed_at`, integration | `EnqueueTx`, `FetchPending`, `MarkAsProcessing/Sent/Failed/PermanentlyFailed`, `SetNextRetry`, `Pause/Resume/Delete/ResetTerminallyFailedBySource`, `DeleteForEmail`, retention sweep | worker, broadcast service, orchestrator, contact deletion | every statement autocommits; a fetch's row locks end with the `SELECT` | no recipient disappears from the table; statements of one actor respect the state another put a row in |
| **Email queue worker** (`internal/service/queue/worker.go`) | a fetched snapshot of up to a batch of rows, the error of the entry at hand | poll, claim, send, mark, record, sweep | queue, provider, breaker, `message_history` | works from snapshots; crash between provider and database; several instances | at most one email per fault-free recipient, failures within `max_attempts`, given-up means given-up |
| **Circuit breaker** (`internal/service/queue/circuit_breaker.go`) | per integration and process: failures, open, last failure | `IsOpen` (also resets), `RecordSuccess`, `RecordFailure` | worker; opening calls `PauseForCircuitBreaker` | reading it writes it; the callback runs while an entry is in hand | an open circuit stops attempts until it has cooled down |
| **Task repository** (`internal/repository/task_postgres.go`) | table `tasks` of the system database: status, `next_run_after`, `timeout_after` (the lease), `retry_count`, JSON state | claim, save, complete, fail-or-retry, pause, re-queue, release, update | scheduler, executions, event handlers | the lease is the only mutual exclusion between instances | one live execution per row; progress never runs ahead of the work |
| **Task scheduler and execution** (`internal/service/task_service.go`, `task_scheduler.go`) | an execution: two goroutines, a context, the result between them | `ExecutePendingTasks`, `ExecuteTask` | task repository, processors, HTTP self-dispatch | deadline, shutdown, hang-up, late results, lost dispatches | retries are spent by failures only; a task that can run does run |
| **Broadcast orchestrator** (`internal/service/broadcast/orchestrator.go`, `queue_message_sender.go`) | its copy of the broadcast and of the task's cursor | count, refresh, fetch, enqueue, advance, complete, finalize | task, broadcast row, email queue, recipient feed | two databases, no common transaction; interruption between any two steps | nobody in the audience is skipped; a cancelled broadcast stays cancelled |
| **Broadcast service** (`internal/service/broadcast_service.go`, `internal/repository/broadcast_postgres.go`) | table `broadcasts` of a workspace: status, `completed_at` | pause, resume, cancel, `PauseForCircuitBreaker`, `RetryFailedRecipients`, drafts, scheduling, winner | console, worker, event bus | reads without a lock, writes whole columns later | an operator's decision is not undone by a machine's |
| **Event bus** (`internal/domain/event.go`) | subscribers; per event the goroutine of its handler | `Publish`, `PublishWithAck` | broadcast service and orchestrator to task service | a handler past its five seconds is reported as failed and goes on | the two databases agree in the end |
| **Contact erasure** (`internal/service/contact_service.go`) | none | a dozen statements | queue, history, lists, timeline triggers | no transaction; triggers write back | nothing about the contact is left |
| **Outgoing webhooks** (`internal/service/webhook_delivery_worker.go`, `webhook_subscription_service.go`, `internal/repository/webhook_*_postgres.go`) | deliveries: status, attempts, claim; subscriptions: status, run of failures, reason | sweep, claim, renew, release, deliver, reschedule, expire or count a run, retire, purge; edit, toggle, delete | timeline triggers, receivers, console | outcomes written by id after the claim is lost, a retry ladder, runs of failures seen through a copy | one POST of a delivery at a time; every event is delivered or accounted for; a live endpoint is not retired |
| **Automations** (`internal/service/automation_*.go`, `internal/repository/automation_postgres.go`) | the automation with its nodes and its trigger; per contact: current node, status, schedule, retries | activate, pause, edit, delete; enrol, schedule, execute a node, delay, exit, stop on reply | queue, contacts, lists, inbound replies | a node's effect and its record are apart; exits race with executions | a journey advances through its graph once; an exited one does not go on |
| **Segments** (`internal/service/segment_*.go`, `contact_segment_queue_processor.go`) | segment version, memberships, a queue of contacts to recompute | rebuild, per-contact evaluation, recompute task | timeline triggers, tasks | the claim deletes; rebuild and evaluation meet on a contact | memberships converge to the query |
| **A/B tests** (`internal/service/broadcast/ab_test_evaluator.go`, orchestrator) | test phase, winner, shared cursor | test phase, evaluation, choice by hand, winner phase | orchestrator, broadcast service | copies of the broadcast of different ages | test and winner recipients are disjoint and together all |
| **Recurring tasks** (`internal/service/task_service.go`, `integration_sync_processor.go`) | as tasks, with interval and back-off | reschedule, back off, trigger, reset, delete | task repository, third-party sync | reset and deletion under a running execution | a recurring task is never lost, never runs twice at once |
| **Workspace connection manager** (`pkg/database/connection_manager.go`) | pools, reservations, access times under one mutex | get, reserve, create, evict, close | every repository | creation outside the mutex, two-phase eviction | the connection limit holds; a pool in use is not closed |
| **Web analytics ingestion** (`internal/service/web_analytics_buffer.go`) | sessions and events in memory, two generations | add, flush, put back | HTTP ingestion, projections | a failed flush meets newer data | events are counted once |

### Parts without one

Rate limiters and caches (a map under a mutex), mail providers (I/O to third parties),
inbound webhooks (a mapping from payloads to rows), transactional email (one request),
templates and MJML, error classification (pure functions), authentication and licensing,
workspace, contact, list, blog and file CRUD, migrations, the HTTP API, and the console and
browser code. Section 9 says why they, and some of the parts above, are not modelled.

### How the parts of the sending core interact

```
console ──pause/resume/cancel──► broadcast service ──event, waits for ack──► task service's handlers
                                     │ one transaction                            │ transactions of
                                     ▼                                            ▼ their own
                            broadcasts + email_queue                           tasks (system db)
                               (workspace db)                                     ▲
                                     ▲                                            │ claim, save, settle
                                     │ refresh, save                              │
            orchestrator (Process) ──┴── enqueues batches ── started by ── ExecuteTask ◄── scheduler tick
                                     │
                                     ▼
                              email_queue ◄── fetch, claim, mark ── queue worker ──► provider
                                     ▲                                   │
                                     └── PauseForCircuitBreaker ◄────────┘ circuit opens
```

Around it, an event on a contact's timeline makes database triggers queue a webhook delivery,
enrol the contact in automations and queue the contact for the segments; an automation's
email nodes put mail into the same `email_queue`; the queue of contacts and the builds of segments run
as tasks. Every one of them reaches its rows through the connection manager.

Three facts shape everything. A broadcast and its queue are in the workspace's database
and the task is in the system database, so no transaction covers both. Nearly every statement commits
by itself, and the copies read before it are written back later. And each of the server's instances runs
its own scheduler, workers and breakers over the same rows.

## 2. Modules

| Module | What it holds | From |
|---|---|---|
| `EmailQueueRepository` | the row of `email_queue` and each SQL statement as an operator from row to row | `email_queue_postgres.go` |
| `CircuitBreaker` | one breaker's operations | `circuit_breaker.go` |
| `EmailQueue` | the queue of one workspace: workers, breakers, operators, contact deletion, clock, faults. Composes the two above | `worker.go`, `broadcast_service.go` |
| `TaskRepository` | the row of `tasks` and each statement as an operator | `task_postgres.go` |
| `BroadcastTask` | one broadcast, its task, executions, console requests, event handlers, time and mishaps. Extends `TaskRepository` | `task_service.go`, `orchestrator.go`, `broadcast_service.go`, `event.go` |
| `WebhookRepository` | the rows of `webhook_deliveries` and `webhook_subscriptions` and each statement as an operator | `webhook_delivery_postgres.go`, `webhook_subscription_postgres.go` |
| `WebhookDelivery` | one subscription with its deliveries, the workers of several replicas, the console. Extends `WebhookRepository` | `webhook_delivery_worker.go`, `webhook_subscription_service.go` |
| `DeliveryPromise` | the abstract specification `WebhookDelivery` implements: a queue that delivers each item once and tells the truth about it | |
| `Automation` | one automation, its trigger, the rows of its journeys, the console's requests as sequences of statements | `automation_service.go`, `automation_postgres.go`, `automation_triggers.go` |
| `AutomationJourney` | the scheduler's ticks, the nodes, replies and the sending of mail over `Automation`, which it extends | `automation_scheduler.go`, `automation_executor.go`, `automation_node_executor.go`, `queue/worker.go`, `inbound_webhook_event_service.go` |
| `SegmentMembership` | one segment, its memberships, the queue of contacts and its processor, builds, the daily check, the console's requests | `segment_*.go`, `contact_segment_queue_processor.go`, `segment_postgres.go` |
| `ConnectionManager` | the pools to the workspaces' databases and the callers who ask for them | `connection_manager.go` |
| `MC...` | values for the constants, one module per specification | |
| `..._proofs` | the theorems, see section 6: one module per specification, and a second one for what holds with a single worker (`EmailQueueOneWorker_proofs`) and for the refinement (`WebhookPromise_proofs`) | |

The repositories are modules of their own because the code is layered that way, and because
the `WHERE` clause of a statement, with the state it leaves behind, is what the properties
turn on. The models above them decide *when* a statement runs and from which copy.

Some operators come in two forms: the one the specification uses and, just before it, a
variant commented "Plausible slip" or "The behaviour before ...". The variants are in no
specification. Substituting one for the original must make a property fail, which shows
that the property depends on that piece of the code.

### EmailQueue: state

| Variable | In the code |
|---|---|
| `queue` | the rows of `email_queue`, one per recipient (`absent`: no row). Timestamps are kept as the `WHERE` clauses see them: a retry date is absent, ahead or due; a processing row is stale after two minutes; a given-up row expires after the retention |
| `fresh` | recipients not enqueued yet (the audience still before the orchestrator) |
| `history` | what `message_history` says of the last attempt |
| `status`, `completed` | the columns of `broadcasts` |
| `request` | a console request between what it read and its write |
| `integrations` | the workspace's email integrations |
| `pc`, `todo`, `cur`, `known`, `retryable` | a worker's position, the fetched snapshots it has not looked at yet, the one in hand, the integrations listed at the start of the poll, and the class of the error in hand |
| `trip`, `seen` | broadcasts found by `PauseForCircuitBreaker` and the copy it loaded |
| `breaker` | a worker's circuit breakers |
| `sends`, `given`, `dropped` | history variables: emails the provider accepted, failures recorded since the last retry, rows removed on purpose |
| `faults` | the crashes and failed statements so far |

A worker's pass over one entry is as many actions as the code issues statements:
`ListWorkspaces`, `Poll`, then per entry `SkipEntry` (open circuit), `ClaimEntry` or
`ClaimRefused`; `SendSucceeds`, `MarkSent`, `RecordSent`; or `SendFails`, `RecordFailed`,
`MarkFailed`. Between a failure that opens the circuit and the marking of its entry come
`ListTripped`, `LoadTripped`, `PauseTripped`, `EndTrip`, the synchronous callback. Each statement
may fail (`ok`), and `Crash` may strike anywhere. The operator's requests are two or three
actions, one per statement or transaction (`BeginRequest`, `CheckCounts`, then the write).
`EnqueueBatch`, `FinishEnqueueing` and `FailEnqueueing` stand for the orchestrator, which
`BroadcastTask` models in detail.

### BroadcastTask: state

| Variable | In the code |
|---|---|
| `task` | the row of `tasks`: `due` for `next_run_after`, `lease` for `timeout_after` (whose claim set it, or expired), `retries`, and the cursor of the JSON state counted in batches |
| `bcast` | the row of `broadcasts`: status, and whether `completed_at` is set |
| `lock` | the console transaction that has updated that row and not committed |
| `enqueued` | per batch, how often its rows were committed to the queue (2 is "or more") |
| `exec` | the executions: `main`, the goroutine of `ExecuteTask` that waits; `proc`, the one in `Process`; their context; `Process`'s copy of the state; `isLastRetry`; the result between them |
| `op`, `handler` | console requests, and the handler of the event each publisher published |
| `left` | what is left of the budget of disturbances |

`Dispatch`, `Claim`, `ClaimRefused`, `DispatchLost` are the scheduler and the set-up of
`ExecuteTask`. `CountRecipients`, `Prepare`, `Refresh`, `TimeUp`, `FetchBatch`, `SendBatch`,
`Advance`, `Complete`, and on the way out `ProcessFails`, `NotStarted`, `FeedFails`, `Finalize`, are `Process`.
`MainDone`, `MainContinue`, `MainFailed`, `MainTimedOut`, `MainInterrupted` are the cases of the
`select` that waits for it; when both the context has ended and a result is there, either
case may be taken, as in Go. `BeginRequest`, `UpdateStatus`, `CommitRequest`, `RollbackRequest`
are a console request, whose transaction stays open while the event's handler runs;
`HandlerRead` and `HandlerWrite` are the two transactions of that handler. An orchestrator's
own "paused" event (`FeedFails`) is not waited for. `BecomesDue`, `Overrun`, `DeadLeaseExpires`
are time; `HangUp` and `Crash` are what a deployment does.

### WebhookDelivery: state

| Variable | In the code |
|---|---|
| `row` | the table `webhook_deliveries`: status, attempts, whether `next_attempt_at` has passed, and `claimed_at`, which serves as the claim's token and so is the name of the worker it was given to |
| `sub` | the row of `webhook_subscriptions`: status, whether Zapier made it, `consecutive_failures` up to the threshold, the age of `failing_since`, the reason of its retirement |
| `pc`, `todo`, `cur`, `budget`, `cache`, `answer` | a worker's position, the rest of its batch, the delivery in hand, whether `requestTimeout` since the renewal has passed, `subscriptionCache`, and the receiver's answer |
| `request` | a console request between the row it read and its write |
| `posts`, `accepted`, `excused`, `off`, `streak` | history: POSTs begun and accepted, deliveries whose outcome was lost or written late, whether the subscription was ever off, the true run of failures |
| `spent` | the disturbances that happened |

A worker's pass is `Sweep`, `Claim`, then per delivery `RenewAnyClaim` (whose token it must still hold),
`Lookup`, `Post`, the answer (`Respond`, or `BudgetSpent`, which cuts a POST off), and its outcome: `RecordSuccess`,
`ResetSubscriptionFailures`; or `ExpireStaleRun`, `CountFailure`, `Retire`, `HandleDeliveryFailure`;
or `EndpointGone`, `ZapierGone`, `Purge`; `Release` and `Drain` let go of what is not to be
sent. `LeaseExpires` and `FallsDue` are time.

### AutomationJourney: state

| Variable | In the code |
|---|---|
| `auto` | the row of `automations`: status, the configuration it stores, deleted |
| `trigger` | the configuration the installed database trigger was compiled from |
| `admin` | console requests: the statement they are at, the copy of the row they read |
| `row` | `contact_automations`: status, current node, `scheduled_at` (null, due, later), `retry_count` |
| `tick` | the scheduler: its batch of copies, the journey in hand with the automation it read, the nodes run in this tick |
| `mail` | the entries a journey's email nodes put into `email_queue` |
| `exitedMail` | history: mail that was not on its way when its journey exited |
| `left` | requests, faults and blind looks still to come |

`Fetch`, `Take`, `RunNode` (the node's effect), `Persist` (the guarded write of the next node),
`HandleError` and `Close` are the executor, one action per statement; `CheckJourney`
and `Sent` are the queue worker's guard and send, `Reply` the inbound handler. A
request's actions are its statements: `WriteLive`, `Install`, `Restore` for `Activate`, and so on.

### SegmentMembership: state

| Variable | In the code |
|---|---|
| `seg` | the row of `segments`: status, version, tree (the set of values it takes in), `recompute_after` in days |
| `member` | `contact_segments`: the version of each contact's row, 0 for none |
| `value`, `queue` | the contacts; their rows in `contact_segment_queue`, before or past the debounce |
| `queuer` | the queue's processor: the contacts it claimed (and so deleted), those that failed, the segment it loaded, the verdict in hand |
| `task`, `run` | per build: its row in `tasks` and its execution with its copy of the segment |
| `request` | a console request: what it does and the row it read |
| `behind`, `orphaned` | history: contacts somebody knowingly dropped or judged by a segment since changed; whether what the segment is now may have no build that ends |
| `today`, `left` | days passed, disturbances to come |

`Claim`, `Load`, `Evaluate`, `WriteMember`, `Requeue` are `ProcessQueue`; `Begin`, `Mark`, `Check`, `Add`,
`SaveProgress`, `Sweep`, `Activate`, `Reschedule` or `Abort` are a build; `Recompute` is the daily check.

### ConnectionManager: state

`pools` and `recent` are `workspacePools` and `poolAccessTimes`, `inflight` is `inflightPools`, `flight` is
the single-flight group, `db` the `*sql.DB` values with their connections, and `pc`, `ws`, `got`, `victim` say where each
caller stands. Every section under the mutex is one action; `Create` is outside of it.
`IdleConnectionCloses` is `database/sql`, `CloseWorkspaceConnection` a deleted workspace.

### What the models leave out

- *EmailQueue* models broadcast mail only; an automation's entries differ in the guard that
  drops them after a reply, which belongs to the automation model. The order within a batch
  is left open, so every order is checked. A provider that returns an error has accepted nothing: one that
  accepts and times out sends twice, and no row could tell (a listed hazard).
- *BroadcastTask* counts the audience in batches that are committed and passed over whole;
  a deadline in the middle of a batch, which truncates it, is a listed hazard
  that is not modelled. The broadcast has one variation (phase "single"), a non-empty audience that does not
  change, and was sent without a schedule. The provider error that trips the
  orchestrator's own breaker takes the same path as a failing recipient feed.
- A `lease` names the execution that set it although the column is only a time: the name
  decides when the lease expires, never who may write.
- *WebhookDelivery* has one subscription. A payload always encodes and a secret always decodes. The
  deadline of a POST is shorter than the lease and counted from the renewal, as `normaliseTimings` enforces.
- *AutomationJourney* tells nodes apart by what they ask for: go on, wait, lead nowhere, queue a mail, drop the contact.
  The execution log and the log of "once" enrolments are not represented; an automation has `exit_on_reply` on.
- *SegmentMembership* has one segment. That the passage of time changes who matches a tree, contacts that are created
  or deleted, and edits of the time zone alone are left out. The queue's
  processor is one, as its task is; a task that dies is pending again at once (the lease is `BroadcastTask`'s subject).
- *ConnectionManager* gives the system database's own pool a constant size.
- What an email, a payload, a template or a contact contains is nowhere represented.

## 3. Runs

| Run | Configuration | Question and answer |
|---|---|---|
| `queue_single` | `MCEmailQueueSingle.cfg` | One instance, one broadcast of two recipients, an operator who may pause, resume, cancel and retry, contacts deleted, rows swept, circuits opening, one fault anywhere. Nobody is lost (`NoRecipientLost`); duplicates are owed to faults (`DuplicatesNeedFaults`); nobody is failed beyond the budget (`FailuresWithinBudget`), or given up on without a trace in the history (`FailureIsOnRecord`); a paused row stays paused until resumed (`PausedStayPaused`), a given-up one stays given up until retried (`GivenUpIsFinal`); an open circuit stops attempts (`OpenCircuitStopsSends`) |
| `queue_drains` | `MCEmailQueueDrains.cfg` | With fairness, no entry is put off for ever, although the circuit opens again and again and the integration is removed and added back (`Drains`) |
| `task_unattended` | `MCTaskUnattended.cfg` | Nobody at the console; a crash, a hang-up, an overrun, a lost dispatch and two failed batches in any order. One live processor at a time short of an overrun (`OneAtATime`), no batch enqueued twice without an interruption (`OnceIfUndisturbed`), retries spent by failures only (`OnlyFailuresSpendRetries`) |
| `task_operated` | `MCTaskOperated.cfg` | Two console requests, a rollback, a failed save, a failed recipient feed. A processed broadcast has everyone in the queue (`NothingSkipped`); a cancelled one stays cancelled (`CancelIsFinal`) |
| `task_rests` | `MCTaskRests.cfg` | With fairness, a broadcast nobody touches leaves "processing" whatever dies or fails (`ProcessingEnds`), and the task of a cancelled one comes to rest (`CancelledTaskEnds`) |
| `webhook_replicas` | `MCWebhookReplicas.cfg` | Two replicas over one delivery, any two of a crash, a stall and a failed statement. One POST of a delivery at a time (`OnePostAtATime`); accepted twice only if an outcome was lost or late (`OnceUnlessExcused`); given up before the last rung only with the subscription off or gone (`GivenUpForCause`); and the whole is a queue that keeps its promise (`KeepsPromise`, the refinement of `DeliveryPromise`) |
| `webhook_single` | `MCWebhookSingle.cfg` | One replica and two deliveries, a crash or a console request. An endpoint is retired only after the threshold of failures in a row over more than the window (`RetiredForCause`); with fairness every queued delivery is settled (`EverySettled`) |
| `connections` | `MCConnections.cfg` | Two callers, two workspaces, room for three connections. No pool leaks (`NoPoolLeaks`), reservations are exact (`ReservationsMatch`), creations stay within the limit (`CreationsWithinLimit`), evictions spare what is used (`EvictionSparesUse`), and with fairness every caller is answered (`EveryCallReturns`) |
| `automation` | `MCAutomation.cfg` | A journey of five nodes under two requests (pause, edit, delete), a reply, a fault and a failed look. An exit stops mail not on its way (`ExitStopsMail`), a node's mail is doubled by faults only (`MailOnce`), no journey loses its date without a fault (`ForgottenForCause`), a live automation is armed with what it stores (`LiveIsArmed`), an ended journey is never written again (`EndedIsFinal`), and with fairness every journey ends (`EveryJourneyEnds`) |
| `segments` | `MCSegments.cfg` | Two contacts, builds, the queue, the daily check, the console and any two disturbances. A contact whose membership is wrong is on its way to be looked at (`InGoodHands`). With fairness the queue is worked off and every build made comes to an end, whatever happened, and the segment ends deleted, or active with the contacts that match it (`ComesToRest`). The two statements on memberships, and that on the status, are short of the losses listed in section 7, which `behind` and `orphaned` record: an orphaned segment may stay "building", a contact that is behind may stay wrong. A due segment that nobody matches is rebuilt every minute in the code, and as often as `MaxBuilds` allows here |
| `journey_stranded`, `last_mail` | `MCJourneyStranded.cfg`, `MCLastMail.cfg` | Each checks one sentence of the code's comments and finds it violated; see section 7 |

Every property of a passing run fails when one of the "plausible slip" variants replaces
its original (`PROJECT.json`, "mutants").

`NoRecipientLost`, `OpenCircuitStopsSends`, `TypeOK` and `NothingSkipped` hold with any
number of instances. `PausedStayPaused`, `GivenUpIsFinal`, `FailuresWithinBudget` and
`DuplicatesNeedFaults` hold with one instance only and say so; with two, the second can
hold a snapshot the first has invalidated (section 7).

## 4. Bounds

| Bound | Value | Why it is enough |
|---|---|---|
| `Entries` | 2 (1 in `queue_drains`) | Statements touch one row or all rows of a broadcast; two rows show a batch half done and a circuit opened by one entry while the other is fetched |
| `Broadcasts`, `Integrations` | 1 | Rows of different broadcasts meet only in a shared breaker, and breakers of different integrations share nothing |
| `Workers` of `EmailQueue` | 1 | Properties of one instance; those that hold for any number are proved for any number |
| `MaxAttempts`, `Threshold` | 2 (`Threshold` 1 in `queue_drains`, where the circuit should open at once) | One retry and one last attempt; a failure that does not open the circuit, or retire the endpoint, and one that does |
| `MaxFaults` | 1 (0 in `queue_drains`) | One crash or failed statement at every place. `DuplicatesNeedFaults` is stated in the number of faults, `FailureIsOnRecord` and `Drains` for none |
| `AttemptBound` | `MaxAttempts` + 1 | Keeps a row that crash after crash leaves processing from going stale for ever; one claim past the budget is reached |
| `Executions` | 2 | An execution and the one that replaces it |
| `Users` | 1 | One console request in flight at a time; `CancelIsFinal` depends on it (section 7) |
| `Batches` | 2 (1 in `task_rests`) | A batch before the cursor and one after it; one suffices for the ways a task ends |
| `MaxRetries` | 1 for tasks and builds, 2 for journeys | A failure that is retried and one that is not |
| `Budget`, `Combinations`, `Bound`, `Disturbances` | per run, in the `MC` modules and configurations | How often each disturbance happens, and which together. Runs divide the disturbances, not the system: every run has all actions of the code and differs in what happens to it |
| `enqueued` | at most 2 | "More than once" is all the properties tell apart |
| Webhook `Workers`, `Deliveries` | 2 and 1 (`webhook_replicas`), 1 and 2 (`webhook_single`) | Replicas meet on one delivery; the run of failures and the cached subscription need two. The proofs cover any number of both |
| `Callers`, `Workspaces`, `MaxConnections`, `PerDB`, `PoolBound` | 2, 2, 3, 2, 3 | Two creations at once do not both fit, so one waits, evicts or fails; a pool for each workspace and one being made |
| `Nodes`, `Configs`, `Copies` | 5, 2, 2 | A mail, a delay, a fork and a last delay; an edit that takes out the node a journey stands on; one mail and its duplicate |
| `Number`, `BatchSize`, `MaxVersion`, `MaxBuilds` | 2, 1, 2, 3 | A contact the build has passed and one before it; a version and its successor; a build at first, one for a request, one for a day |

Executions are interchangeable, and so are entries and webhook workers; symmetry is used in runs without
liveness. Deadlock is not checked (`CHECK_DEADLOCK FALSE`): a task that has ended, a delivery settled and a
broadcast nobody touches are the system at rest.

## 5. Fairness

*EmailQueue*, `FairSpec`: a running worker goes on with its poll (the ticker of
`EmailQueueWorker.Start` and straight-line code), retry dates and staleness come due, cooldowns pass.
Operators, administrators and the orchestrator owe nothing. Weak fairness of the worker's
step leaves the outcome of a send open: it may fail for ever.

*BroadcastTask*, `FairSpec`: weak fairness of the scheduler's dispatch, of both goroutines,
of an open console request's next step, of event handlers, of due dates and of the expiry of
a dead execution's lease. Strong fairness of `FetchBatch` and `Complete`: `TimeUp` may end a
run before each batch, and a run that never got a batch done would go on for ever; a run has
fifty seconds, and in one of them the next batch, or the final update, comes first. Crashes,
hang-ups, failures and users are bounded and never required.

*WebhookDelivery*, `FairSpec`: weak fairness of each worker's step (the ticker and straight-line code), of leases that
expire and retry dates that come. Strong fairness of `LookupInTime` and `Post`: the budget of a
POST may run out before it begins, and a worker to which this happened every time would never send; a
POST has seconds and the lookup takes milliseconds. Receivers may fail for ever.

*ConnectionManager*, `FairSpec`: each caller inside `GetWorkspaceConnection` goes on; a creation ends within
`workspacePoolCreateTimeout`. Nobody has to give a pool up.

*AutomationJourney*, `FairSpec`: the scheduler ticks, dates come, the queue's worker takes each mail.
*SegmentMembership*, `Fairness`: builds, the queue's processor and open requests go on, the debounce passes; the
daily check and all disturbances owe nothing.

## 6. Proofs

All theorems hold for every value of the constants under the assumptions their modules name:
limits, thresholds and batch sizes are positive, other bounds are natural numbers, each
entry belongs to a broadcast, and names are distinct from words such as `none` that share a place with them. `ConnectionManager`
has finitely many callers and workspaces (`FinitenessAssumption`: reservations and connections are counted); nothing else is assumed finite.

Some theorems assume one more thing, in their statement and under a name. Without it TLC finds the property violated (but for `FailureIsOnRecord`, where only the argument needs it):

| Assumption | Theorems | Why, and what happens without it |
|---|---|---|
| `OneWorker`: one worker process drains the queue | all of `EmailQueueOneWorker_proofs` | `CHANGELOG.md:69` asks for a single instance; with two, one holds snapshots that the other has invalidated (section 7) |
| `OneUser`: one console request on a broadcast at a time | `CancelledForGood` | a second request that read the broadcast before it was cancelled writes its own status over it |
| `OneAdmin`: one administrator at a time | `LiveAreArmed` | activating and pausing at once leaves a live automation without its trigger (section 7) |
| `RoomForAll`: an automation has no more nodes than a tick may run | `ForgottenOnlyForCause` | a longer one is stranded: the run `journey_stranded` |
| `OneReplica`: one webhook worker | `RetiredOnlyForCause` | a worker judges by its own cached copy, and counts on while another, just answered with a success, has not cleared the row yet: the endpoint is retired by failures from before and after it |

Most invariants are not inductive by themselves; the strengthenings below hold in TLC on the instances of the runs, too.

| Theorem | Module | States | Inductive invariant and argument |
|---|---|---|---|
| `TypeCorrect` | `EmailQueue_proofs` | the state stays well formed, and a worker past its claim has an entry in hand | `Typed == TypeOK /\ CurOK`. `TypeOK` alone is not inductive: `cur` may be `None`, and a worker about to mark a row applies `cur[w].id` |
| `QueueTypeCorrect` | `EmailQueue_proofs` | `[]TypeOK` | from `Typed` |
| `NobodyLost` | `EmailQueue_proofs` | `[]NoRecipientLost` | `Accounted` adds that a worker about to delete a row as sent has had its email accepted. Each action is shown to keep every present row, to count its send or to record its removal (`Keeps`) |
| `CircuitHolds` | `EmailQueue_proofs` | `[]OpenCircuitStopsSends` | `CircuitOK`: a breaker that has used up its threshold is open, and between claim and send the worker's breaker is closed. The second half is what allows `RecordFailure` to count one more |
| `PauseHolds`, `GivenUpHolds` | `EmailQueueOneWorker_proofs` | `PausedStayPaused`, `GivenUpIsFinal`, for one worker | `Exclusive`: a row the worker holds is processing or gone, no snapshot still to be processed is of that row, of the same row twice or of a row given up on. The worker's unguarded writes (`MarkAsFailed`, `MarkAsPermanentlyFailed`) then only meet processing rows, and its guarded ones respect a pause by their `WHERE` clause |
| `BudgetHolds`, `DuplicatesAreOwed`, `FailuresRecorded` | `EmailQueueOneWorker_proofs` | `[]FailuresWithinBudget`, `[]DuplicatesNeedFaults`, `[]FailureIsOnRecord`, for one worker | `Tallied`, over `Exclusive`: a row that can still be tried has been failed less often than `max_attempts` and no more often than it was claimed, and mailed at most once per fault, unless its email has just been accepted; for the entry in hand the same of the snapshot, by which the handler judges, and of the row, in which the claim is counted. All statements but the claim, the retry and the last failure keep these relations (`Quiet`) |
| `TaskTypeCorrect` | `BroadcastTask_proofs` | `[]TypeOK` | needs `Progressed`: a cursor that leaves its range would be a type error, and only the position of the processor rules it out |
| `NobodySkipped` | `BroadcastTask_proofs` | `[]NothingSkipped` | `Inv == TypeOK /\ Progressed /\ Backed`: *every* copy of the cursor, in the row, in each execution and in each event handler, stands behind batches that are in the queue, and a completion date in the row or in a request's stale copy is backed by the whole audience. `enqueued` only grows, so copies of any age remain covered, however they overwrite one another |
| `OneProcessor` | `BroadcastTask_proofs` | `[]OneAtATime` | `OwnerInv`: until a deadline is overrun, a user acts or the feed fails, an execution that waits for its processor owns the running row (`Exclusive`), and a processor nobody waits for has lost its context (`Abandoned`). A claim needs a row nobody runs, or whose lease expired, and a lease expires only after its owner is gone |
| `OnceUnlessDisturbed` | `BroadcastTask_proofs` | `[]OnceIfUndisturbed` | `Undisturbed`, over `OwnerInv`: while all is calm every context lives, the copy of the execution that is waited for has the row's cursor, and of the batches beyond the cursor only the one just sent may be in the queue |
| `RetriesSpentByFailures` | `BroadcastTask_proofs` | `[]OnlyFailuresSpendRetries` | `RetryInv`: without a user the row's retries and the failures that executions have still to write down are together no more than the failures that happened (`Accounted`), and a row is given up on only beyond its retries. A failed execution is counted once although `main` may learn of it from the deadline and from the result |
| `CancelledForGood` | `BroadcastTask_proofs` | `CancelIsFinal`, for one user | `NotYetCancelled`: a request under way was let in while the broadcast was not cancelled, and nobody has cancelled it since; the orchestrator's updates ask for the status (`OrchestratorWrites`) |
| `WebhookTypeCorrect` | `WebhookDelivery_proofs` | `[]TypeOK` | `Typed == TypeOK /\ Hands`: past its renewal a worker has an entry below its last rung in hand, past its lookup a copy of the subscription; without them `attempts + 1` could leave its range |
| `OnlyOnePost` | `WebhookDelivery_proofs` | `[]OnePostAtATime` | `InBudget`: a worker whose budget runs holds the row's claim, which has not gone stale, and no other worker's budget runs on the same row. A renewal asks for the worker's own token, a claim or a sweep for a row that is not held, and a lease expires only after the budget |
| `RetiredOnlyForCause` | `WebhookDelivery_proofs` | `RetiredForCause`, for one worker | `Reckoned`: neither the row nor the cached copy counts more failures, or an older run of them, than the answers since the last success formed, with one to spare for a failure answered and not yet counted; and a copy with nothing to clear is of a row with nothing to clear (`Mirrored`), which is why the reset may be left out. The console only clears the row |
| `DeliveredOnce` | `WebhookPromise_proofs` | `[]OnceUnlessExcused` | `Whole == Inv /\ Truth`: unless a delivery is excused, the worker about to try it owns its row and nobody has accepted it, and one accepted is recorded as such or in the hands of the worker that was told, which owns the row |
| `PromiseKept` | `WebhookPromise_proofs` | `KeepsPromise`, the refinement of `DeliveryPromise` | under `Whole`, each action is a step of the abstract queue or changes nothing it shows (`Refined`): a claim or a retry leaves an item "queued", the last rung abandons it, a stale or lost outcome excuses it |
| `DeliveredStays` | `WebhookPromise_proofs` | `DeliveredIsFinal`: "delivered" is not overwritten unless excused | follows the same way; the refinement's mapping is not needed |
| `GivenUpOnlyForCause` | `WebhookPromise_proofs` | `[]GivenUpForCause` | `Whole /\ Ladder`: while the subscription was never off nobody drains (`SwitchedOn`), the copy a worker walks has its row's attempts and the row stays its own until the outcome is written (`Faithful`), and a row's attempts are its POSTs, one less while an outcome is unwritten (`Counted`) |
| `EveryOpenPoolIsKnown` | `ConnectionManager_proofs` | `[]NoPoolLeaks` | `Inv`: a caller past `Lead` is its workspace's flight (`Led`), which found no pool and so has none to replace (`NothingToReplace`); no pool is in the map twice, and a new one is nobody else's (`OnePoolEach`, `FreshPools`) |
| `ReservationsAreExact` | `ConnectionManager_proofs` | `[]ReservationsMatch` | each action moves at most one caller into or out of the counted positions, together with the counter |
| `EvictionsSpareUse` | `ConnectionManager_proofs` | `EvictionSparesUse` | from `Inv`: the pool closed is the one in the map under the lock, looked at again, and no other workspace's |
| `ManagerTypeCorrect` | `ConnectionManager_proofs` | `[]TypeOK` | `Typed /\ Lent /\ Recorded`: a pool's connections in use are its users', so one comes back from every use, even to a pool closed meanwhile |
| `CreationsStayWithin` | `ConnectionManager_proofs` | `CreationsWithinLimit` | from `ReservationsMatch`, `Inv` and `Lent`: a creation's connection was reserved, a step that adds neither connections nor creations commits to no more (`CommitsNoMore`), an inserted pool takes up at most what was reserved for it (`InsertsWithin`), and a reservation is granted only within the limit |
| `AutomationTypeCorrect` | `AutomationJourney_proofs` | `[]TypeOK` | `Typed == TickTyped /\ RestTyped`: what the scheduler has in hand at each of its steps |
| `EndsAreFinal` | `AutomationJourney_proofs` | `EndedIsFinal` | every write of a journey is guarded by "active" or made by a statement that asks for it |
| `ExitsStopMail` | `AutomationJourney_proofs` | `[]ExitStopsMail` | `Recalled`: the journey of recalled mail stays exited, and as long as no look failed the mail is waiting or skipped |
| `ForgottenOnlyForCause` | `AutomationJourney_proofs` | `[]ForgottenForCause`, with `RoomForAll` | `Tended` (the batch holds each journey once, with a row that is due) and `Remembered`: a tick has run fewer nodes than the number of the node it stands at, so it cannot reach its limit before the journey ends, and what it writes of a journey that goes on has a date |
| `MailedOnce` | `AutomationJourney_proofs` | `[]MailOnce` | `CountedMail`: a node still ahead of a journey, by its row or by any copy of it, has queued no more mail than faults struck; one it has passed, one more. Nodes are entered in order and never again |
| `LiveAreArmed` | `AutomationJourney_proofs` | `[]LiveIsArmed`, for one administrator | `Armed`: what a request relies on at each of its statements (`Relies`): the copy it read is the row, and the trigger is that of the row until it is replaced |
| `SegmentTypeCorrect` | `SegmentMembership_proofs` | `[]TypeOK` | `Typed`: a running build has a copy and its row is not ahead of it, and the processor has a copy of the segment and a contact in hand at the steps that need them |
| `NobodyIsLost` | `SegmentMembership_proofs` | `[]InGoodHands` | `Tended`: every copy of the segment is of an older version or of what it is now (`Versioned`); a verdict overtaken by a change has its contact queued (`Judged`); and a contact that is not right is attended by the queue or, if it is out, ahead of a build or of one to be created (`Kept`). `InGoodHands` itself is not inductive: a build adds contacts but takes none out, so one that is wrongly in needs the queue |

Every invariant and action property of the passing runs is proved, and so is the refinement. Model-checked only: the
liveness properties `Drains`, `ProcessingEnds`, `CancelledTaskEnds`, `EverySettled`, `EveryCallReturns`, `EveryJourneyEnds`
and `ComesToRest`. Liveness under fairness and `ENABLED` are out of the prover's reach, and so is
induction over data; no module declares a `RECURSIVE` operator. What the two violated runs state is false and has no theorem.

## 7. Where the code and its comments part

Two runs keep a divergence; `PROJECT.json` "findings" quotes the lines.

- **A journey is stranded** (`journey_stranded`). A tick that ends after `maxNodesPerTick` nodes leaves the journey
  without a date, and no tick fetches it again, though the comment (`automation_executor.go:210`) says the next one does.
- **The last mail is not sent** (`last_mail`). The queue's guard against mail after a reply cancels whenever the
  journey is no longer active, and a journey whose last node is a mail has completed.

The others were found while modelling; TLC finds each within these modules when the
sentence it breaks is stated, and no run is kept for them. In the broadcast's path:

- A spent entry goes back to pending: after a crash in its last attempt an entry is reclaimed and, if
  its circuit is open, put off with no attempt left; no fetch takes it again, and it blocks "retry failed".
- Mail leaves during a pause (`broadcast_service.go:970-971`): the entry in the worker's hands is
  marked `failed` without a guard, and retried under the pause.
- A broadcast fails one attempt early: `isLastRetry` compares with `MaxRetries-1`, `MarkAsFailedTx` with `MaxRetries`.
- A cancelled broadcast's task runs again: the handler marks it failed with the function that retries failures.
- A broadcast is stranded (`broadcast_postgres.go:330`, `orchestrator.go:518-519`): a pause that read it before it
  completed writes the missing `completed_at` back; the resume restores "processing" with a completed task.
- `PauseForCircuitBreaker` (`broadcast_service.go:943-967`) loads a broadcast before its
  transaction, and turns one cancelled in between into a paused one.
- `RetryFailedRecipients` (`broadcast_service.go:1042-1096`) reads status and counts, then
  resets rows; a pause in between has its entries reset underneath it.
- With two instances (`CHANGELOG.md:69`: "designed to run as a single instance"), `MarkAsProcessing`
  (`email_queue_postgres.go:196`) takes a row the other instance has given up on.
- An execution past its deadline (`task_service.go:830`) fails the row that
  another execution has claimed at that instant.
- `handleBroadcastResumed` (`task_service.go:1326`) writes back as pending a task that completed after it looked.
- A crash between the broadcast's last update and the task's (`orchestrator.go:1454`)
  makes every later attempt fail: a processed broadcast with a failed task.

In the other parts:

- *Webhooks.* An edit read before a retirement (`webhook_subscription_service.go:391`) writes the endpoint back enabled. With two
  replicas an endpoint may be retired although it answered with a success between the failures counted against it.
- *Connections.* The limit (`env.example:162`) governs creations; pools already made may grow past it together.
- *Automations.* Two admins who activate and pause at once, or a deletion that fails half-way, leave a live automation
  without its trigger. An automation's `retry_count` is never reset by success. `FOR UPDATE SKIP
  LOCKED` of the scheduler's fetch holds no lock outside a transaction. Statistics and the
  timeline's end event are written before the guarded write that may refuse the end.
- *Segments.* Contacts claimed while the segment is "building" are dropped (`contact_segment_queue_processor.go:123`,
  against "nothing is silently dropped" at `:67-72`) although the build may have passed them. A daily rebuild keeps its version, so the sweep of older
  versions removes nobody who stopped matching. A build that matches nobody returns
  (`segment_build_processor.go:203-216`) before sweep and reschedule, and is rebuilt every minute. A build's last `UpdateSegment` writes the whole row from its
  copy, over an edit or a deletion in between; a rename that read "building" writes it back after the build. A build task that could not be created
  (`segment_service.go:366`) or has failed out leaves the segment without one. A verdict the queue's processor reached from a segment
  since edited is written under the old version.

## 8. Hazards

`PROJECT.json` "hazards" lists what is hard to test in this code, at the line where it bites,
with the properties that would catch it. Those of mail and tasks are the crash between the
provider's answer and the row's deletion, rows reclaimed without an attempt guard, counts
taken from snapshots, writes without a guard on the status they overwrite, fetches whose locks
are gone at once, leases that end while their execution still writes, cursors saved behind
the work, two databases updated in two steps, copies of a row written back later, two places that
count the last retry, interruptions that must not cost a retry, and an event handler that outlives
its five seconds. Webhooks add claims lost in a POST, outcomes written by id alone and runs of failures
seen through a cached copy; connections add creation outside the mutex, eviction in two phases and errors shared by a flight; automations add
effects apart from their record, exits under a running node and compensations that fail themselves; segments add
work deleted before it is done and builds overtaken by an edit. A hazard no property covers has a note that says why;
where a property covers a hazard only up to an exception it states (several workers, a second console request, an overrun, a
lost segment or contact), its note names what is not covered.

## 9. Not modelled

| Part | Why |
|---|---|
| A/B tests | the test and winner phases multiply the states of `BroadcastTask` by phases, variations and the winner's copies, past what its runs hold |
| Recurring tasks | they share claim, lease and release with `BroadcastTask`; reschedule, back-off and reset are their own and left for later |
| Contact erasure | its deletion of queued mail is an action of `EmailQueue`; what a dozen triggers write back is DDL |
| Web analytics ingestion | one protocol, the buffer's flush and put-back, in a large body of queries and enrichment |
| Rate limiters and caches | a map under one mutex each; a limiter only delays, and time in the models already does |
| Mail providers, inbound webhooks, mail relay, integrations | I/O and mappings; their outcomes are inputs of the models |
| Error classification, templates, MJML, validation | pure functions of strings; their verdicts are inputs |
| Authentication, licensing, transactional email, HTTP API | one request, no state between requests |
| Workspaces, contacts, lists, blog, files, analytics, timeline, demo data | single-statement CRUD, queries and sample data |
| Migrations | straight-line DDL before the application starts |
| Console and browser code | clients of the HTTP API |

Most of the repository's lines are of these kinds (a list of disposable domains is almost half of them), which is why the
models, although they cover the protocols of the server, map a small share of them.

## 10. What is left

1. The test and winner phases and truncated batches of `BroadcastTask`, recurring tasks (reset, trigger, back-off).
2. *ContactErasure* and *AnalyticsBuffer*.
3. Proofs: the step-wise facts the liveness properties rest on (what a fair action achieves, and that it is not undone), and theorems about
   what several replicas may and may not break.
4. An abstract specification of a broadcast's life that `BroadcastTask` and `EmailQueue` both implement, as `DeliveryPromise` is for webhooks.

## 11. Running it

`tlc -config MCEmailQueueSingle.cfg MCEmailQueue` (and so on for the other configurations)
checks a run; `tlapm EmailQueue_proofs.tla` checks a module's proofs. The largest runs
have a few million distinct states; each takes under two minutes with two workers.
