------------------------ MODULE BroadcastTask_proofs ------------------------
(* Proofs about BroadcastTask, for any set of executions and of users, any   *)
(* audience, retry budget and number of disturbances.                        *)
EXTENDS BroadcastTask, FiniteSets, FiniteSetTheorems, TLAPS

(* What the statements on a task row return: a row, whose progress is the    *)
(* row's own or the one that was passed.                                     *)
LEMMA RowClaimed ==
    ASSUME NEW t \in Task, NEW x \in Executions
    PROVE  MarkAsRunning(t, x) \in Task /\ MarkAsRunning(t, x).state = t.state
BY DEF Task, TaskStatuses, MarkAsRunning

LEMMA RowSaved ==
    ASSUME NEW t \in Task, NEW s \in Progress
    PROVE  SaveState(t, s) \in Task /\ SaveState(t, s).state \in {t.state, s}
BY DEF Task, TaskStatuses, SaveState

LEMMA RowCompleted ==
    ASSUME NEW t \in Task, NEW s \in Progress
    PROVE  MarkAsCompleted(t, s) \in Task /\ MarkAsCompleted(t, s).state = s
BY DEF Task, TaskStatuses, MarkAsCompleted

LEMMA RowPaused ==
    ASSUME NEW t \in Task, NEW s \in Progress
    PROVE  MarkAsPaused(t, s) \in Task /\ MarkAsPaused(t, s).state = s
BY DEF Task, TaskStatuses, MarkAsPaused

LEMMA RowPending ==
    ASSUME NEW t \in Task, NEW s \in Progress
    PROVE  MarkAsPending(t, s) \in Task /\ MarkAsPending(t, s).state = s
BY DEF Task, TaskStatuses, MarkAsPending

LEMMA RowReleased ==
    ASSUME NEW t \in Task, NEW now \in BOOLEAN
    PROVE  ReleaseTask(t, now) \in Task /\ ReleaseTask(t, now).state = t.state
BY DEF Task, TaskStatuses, ReleaseTask

LEMMA RowResumed ==
    ASSUME NEW t \in Task, NEW c \in Task
    PROVE  ResumedTask(t, c) \in Task /\ ResumedTask(t, c).state = c.state
BY DEF Task, TaskStatuses, ResumedTask

LEMMA RowFailed ==
    ASSUME NEW t \in Task
    PROVE  MarkAsFailed(t) \in Task /\ MarkAsFailed(t).state = t.state
<1>1. t.retries \in Nat /\ t.retries + 1 \in Nat /\ (t.retries >= MaxRetries) \in BOOLEAN
  BY MaxRetriesAssumption DEF Task
<1> QED BY <1>1 DEF Task, TaskStatuses, MarkAsFailed

LEMMA RowDue ==
    ASSUME NEW t \in Task
    PROVE  FallsDue(t) \in Task /\ FallsDue(t).state = t.state
BY DEF Task, TaskStatuses, FallsDue

LEMMA RowExpired ==
    ASSUME NEW t \in Task
    PROVE  LeaseExpires(t) \in Task /\ LeaseExpires(t).state = t.state
BY DEF Task, TaskStatuses, LeaseExpires

(* An execution whose processor or context moves on is still an execution. *)
LEMMA ExecutionMoves ==
    ASSUME NEW e \in Execution,
           NEW c \in {"live", "canceled", "deadline"},
           NEW q \in {"none", "start", "loop", "refreshed", "fetched", "sent", "failing"}
    PROVE  [e EXCEPT !.proc = q] \in Execution /\ [e EXCEPT !.ctx = c] \in Execution
BY DEF Execution

(* The row is always one of the rows. *)
LEMMA TaskTyped == TypeOK => task \in Task /\ task.state \in Progress
BY DEF TypeOK, Task
-----------------------------------------------------------------------------
(* The inductive invariant.  The recorded progress, every copy of it an      *)
(* event handler holds and every processor's own progress only count batches *)
(* that reached the queue; a processor past the count works on the whole     *)
(* audience; the batch it has just sent is in the queue.                     *)
Covered(s) == \A n \in 1 .. s.offset : enqueued[n] > 0

AllIn == \A n \in 1 .. Batches : enqueued[n] > 0

Good(e) ==
    /\ Covered(e.state)
    /\ e.proc \in {"loop", "refreshed", "fetched", "sent"} => e.state.total = Batches
    /\ e.proc \in {"fetched", "sent"} => e.state.offset < Batches
    /\ e.proc = "sent" => enqueued[e.state.offset + 1] > 0

Progressed ==
    /\ Covered(task.state)
    /\ \A p \in Users \cup Executions : Covered(handler[p].copy.state)
    /\ \A x \in Executions : Good(exec[x])

(* A completion date, in the row or in a request's copy of it, is backed by  *)
(* the whole audience.                                                       *)
Backed ==
    /\ bcast.status = "processed" \/ bcast.completed => AllIn
    /\ \A u \in Users : op[u].seen.completed => AllIn

Inv == TypeOK /\ Progressed /\ Backed

LEMMA Constants0 ==
    /\ NoProgress \in Progress /\ NewTask \in Task
    /\ Idle \in Execution /\ NoRequest \in Request /\ NoHandler \in Handler
<1>1. NoProgress \in Progress
  BY BatchesAssumption DEF NoProgress, Progress
<1>2. NewTask \in Task
  BY <1>1 DEF NewTask, Task, TaskStatuses
<1>3. Idle \in Execution
  BY <1>1 DEF Idle, Execution
<1>4. NoRequest \in Request
  BY DEF NoRequest, Request, Kinds, Broadcast, BroadcastStatuses
<1>5. NoHandler \in Handler
  BY <1>2 DEF NoHandler, Handler, Kinds
<1> QED BY <1>1, <1>2, <1>3, <1>4, <1>5

LEMMA ReturnedType ==
    ASSUME NEW e \in Execution, NEW r \in {"done", "more", "error"}
    PROVE  Returned(e, r) \in Execution
<1>1. [e EXCEPT !.proc = "none", !.result = r] \in Execution
  BY DEF Execution
<1> QED BY <1>1, Constants0 DEF Returned

(* A step leaves the variables in their types. *)
LEMMA TypeStep == TypeOK /\ Progressed /\ [Next]_vars => TypeOK'
<1> SUFFICES ASSUME TypeOK, Progressed, [Next]_vars PROVE TypeOK'
  OBVIOUS
<1> USE Constants0
<1>s. ASSUME NEW k \in Disturbances, Spend(k) PROVE left' \in [Disturbances -> Nat]
  BY <1>s DEF TypeOK, Spend
<1>k. /\ Disturbances = {"crash", "hangup", "overrun", "unsaved", "lost",
                         "error", "feed", "op", "rollback"}
  BY DEF Disturbances
<1>0. CASE UNCHANGED vars
  BY <1>0 DEF TypeOK, vars
<1>1. ASSUME NEW x \in Executions, Dispatch(x) PROVE TypeOK'
  BY <1>1 DEF TypeOK, Dispatch, Execution
<1>2. ASSUME NEW x \in Executions, DispatchLost(x) PROVE TypeOK'
  BY <1>2, <1>s, <1>k DEF TypeOK, DispatchLost
<1>3. ASSUME NEW x \in Executions, Claim(x) PROVE TypeOK'
  <2>1. task' \in Task
    BY <1>3, TaskTyped, RowClaimed DEF Claim
  <2>2. (task.retries + 1 >= MaxRetries) \in BOOLEAN /\ task.state \in Progress
    BY MaxRetriesAssumption DEF TypeOK, Task
  <2>3. exec' \in [Executions -> Execution]
    BY <1>3, <2>2 DEF TypeOK, Claim, Execution
  <2> QED BY <1>3, <2>1, <2>3 DEF TypeOK, Claim
<1>4. ASSUME NEW x \in Executions, ClaimRefused(x) PROVE TypeOK'
  BY <1>4 DEF TypeOK, ClaimRefused
<1>5. ASSUME NEW x \in Executions, CountRecipients(x) PROVE TypeOK'
  <2>1. [exec[x] EXCEPT !.state.total = Batches] \in Execution
    <3>1. exec[x] \in Execution /\ exec[x].state \in Progress
      BY DEF TypeOK, Execution
    <3>2. [exec[x].state EXCEPT !.total = Batches] \in Progress
      BY <3>1 DEF Progress
    <3>3. [exec[x] EXCEPT !.state = [exec[x].state EXCEPT !.total = Batches]] \in Execution
      BY <3>1, <3>2 DEF Execution
    <3> QED BY <3>3
  <2>2. exec' \in [Executions -> Execution]
    BY <1>5, <2>1, ReturnedType DEF TypeOK, CountRecipients
  <2> QED BY <1>5, <2>2 DEF TypeOK, CountRecipients
<1>6. ASSUME NEW x \in Executions, Prepare(x) PROVE TypeOK'
  <2>1. exec' \in [Executions -> Execution]
    <3>1. exec \in [Executions -> Execution] /\ exec[x] \in Execution
      BY DEF TypeOK
    <3>2. [exec[x] EXCEPT !.proc = "loop"] \in Execution
      BY <3>1, ExecutionMoves
    <3>3. exec' = [exec EXCEPT ![x] = [exec[x] EXCEPT !.proc = "loop"]]
      BY <1>6 DEF Prepare
    <3> QED BY <3>1, <3>2, <3>3
  <2> QED BY <1>6, <2>1 DEF TypeOK, Prepare
<1>7. ASSUME NEW x \in Executions, Refresh(x) PROVE TypeOK'
  <2>1. [exec[x] EXCEPT !.proc = "refreshed"] \in Execution
    BY DEF TypeOK, Execution
  <2>2. exec' \in [Executions -> Execution]
    BY <1>7, <2>1, ReturnedType DEF TypeOK, Refresh
  <2> QED BY <1>7, <2>2 DEF TypeOK, Refresh
<1>8. ASSUME NEW x \in Executions, TimeUp(x) PROVE TypeOK'
  BY <1>8, ReturnedType DEF TypeOK, TimeUp
<1>9. ASSUME NEW x \in Executions, FetchBatch(x) PROVE TypeOK'
  <2>1. [exec[x] EXCEPT !.proc = "fetched"] \in Execution
    BY DEF TypeOK, Execution
  <2>2. exec' \in [Executions -> Execution]
    BY <1>9, <2>1, ReturnedType DEF TypeOK, FetchBatch
  <2> QED BY <1>9, <2>2 DEF TypeOK, FetchBatch
<1>10. ASSUME NEW x \in Executions, SendBatch(x) PROVE TypeOK'
  <2>1. exec' \in [Executions -> Execution]
    BY <1>10 DEF TypeOK, SendBatch, Execution
  <2>2. enqueued' \in [1 .. Batches -> 0 .. 2]
    <3> DEFINE n == exec[x].state.offset + 1
    <3>1. n \in 1 .. Batches
      BY <1>10, BatchesAssumption DEF TypeOK, Execution, Progress, Progressed, Good, SendBatch
    <3>2. enqueued' = [enqueued EXCEPT ![n] = IF @ = 2 THEN 2 ELSE @ + 1]
      BY <1>10 DEF SendBatch
    <3>3. enqueued[n] \in 0 .. 2
      BY <3>1 DEF TypeOK
    <3> HIDE DEF n
    <3> QED BY <3>1, <3>2, <3>3 DEF TypeOK
  <2> QED BY <1>10, <2>1, <2>2 DEF TypeOK, SendBatch
<1>11. ASSUME NEW x \in Executions, Advance(x) PROVE TypeOK'
  <2> DEFINE s == [exec[x].state EXCEPT !.offset = @ + 1]
  <2>1. exec[x].state \in Progress /\ exec[x].state.offset < Batches
    BY <1>11 DEF TypeOK, Execution, Progressed, Good, Advance
  <2>2. s \in Progress
    BY <2>1, BatchesAssumption DEF Progress
  <2>3. task' = SaveState(task, s) \/ task' = task
    BY <1>11 DEF Advance
  <2>6. task' \in Task
    <3> HIDE DEF s
    <3>1. task \in Task /\ SaveState(task, s) \in Task
      BY <2>2, TaskTyped, RowSaved
    <3> QED BY <2>3, <3>1
  <2>4. [exec[x] EXCEPT !.state = s, !.proc = "loop"] \in Execution
    BY <2>2 DEF TypeOK, Execution
  <2>5. exec' \in [Executions -> Execution]
    BY <1>11, <2>4 DEF TypeOK, Advance
  <2> QED BY <1>11, <2>6, <2>5, <1>s, <1>k DEF TypeOK, Advance
<1>12. ASSUME NEW x \in Executions, ProcessFails(x) PROVE TypeOK'
  <2>1. exec' \in [Executions -> Execution]
    <3>1. exec \in [Executions -> Execution] /\ exec[x] \in Execution
      BY DEF TypeOK
    <3>2. [exec[x] EXCEPT !.proc = "failing"] \in Execution
      BY <3>1, ExecutionMoves
    <3>3. exec' = [exec EXCEPT ![x] = [exec[x] EXCEPT !.proc = "failing"]]
      BY <1>12 DEF ProcessFails
    <3> QED BY <3>1, <3>2, <3>3
  <2> QED BY <1>12, <2>1, <1>s, <1>k DEF TypeOK, ProcessFails
<1>13. ASSUME NEW x \in Executions, NotStarted(x) PROVE TypeOK'
  BY <1>13, ReturnedType DEF TypeOK, NotStarted
<1>14. ASSUME NEW x \in Executions, Finalize(x) PROVE TypeOK'
  <2>1. bcast' \in Broadcast
    BY <1>14 DEF TypeOK, Finalize, UpdateBroadcast, Broadcast, BroadcastStatuses
  <2> QED BY <1>14, <2>1, ReturnedType DEF TypeOK, Finalize
<1>15. ASSUME NEW x \in Executions, FeedFails(x) PROVE TypeOK'
  <2>1. bcast' \in Broadcast
    BY <1>15 DEF TypeOK, FeedFails, UpdateBroadcast, Broadcast, BroadcastStatuses
  <2>2. [handler[x] EXCEPT !.pc = "published", !.kind = "pause"] \in Handler
    BY DEF TypeOK, Handler, Kinds
  <2>3. handler' \in [Users \cup Executions -> Handler]
    BY <1>15, <2>2 DEF TypeOK, FeedFails
  <2>4. exec' \in [Executions -> Execution]
    BY <1>15, ReturnedType DEF TypeOK, FeedFails
  <2> QED BY <1>15, <2>1, <2>3, <2>4, <1>s, <1>k DEF TypeOK, FeedFails
<1>16. ASSUME NEW x \in Executions, Complete(x) PROVE TypeOK'
  <2>1. bcast' \in Broadcast
    BY <1>16 DEF TypeOK, Complete, UpdateBroadcast, Broadcast, BroadcastStatuses
  <2>2. [exec[x] EXCEPT !.proc = "failing"] \in Execution
    BY DEF TypeOK, Execution
  <2>3. exec' \in [Executions -> Execution]
    BY <1>16, <2>2, ReturnedType DEF TypeOK, Complete
  <2> QED BY <1>16, <2>1, <2>3 DEF TypeOK, Complete
<1>m. ASSUME NEW x \in Executions, Settle(x) PROVE exec' \in [Executions -> Execution]
  <2>1. [exec[x] EXCEPT !.main = "idle"] \in Execution
    BY DEF TypeOK, Execution
  <2> QED BY <1>m, <2>1 DEF TypeOK, Settle
<1>p. ASSUME NEW x \in Executions PROVE exec[x].state \in Progress
  BY DEF TypeOK, Execution
<1>17. ASSUME NEW x \in Executions, MainInterrupted(x) PROVE TypeOK'
  <2>1. task' \in Task
    BY <1>17, <1>p, TaskTyped, RowReleased DEF MainInterrupted
  <2> QED BY <1>17, <2>1, <1>m DEF TypeOK, MainInterrupted
<1>18. ASSUME NEW x \in Executions, MainTimedOut(x) PROVE TypeOK'
  <2>1. task' \in Task
    BY <1>18, <1>p, TaskTyped, RowFailed DEF MainTimedOut
  <2> QED BY <1>18, <2>1, <1>m DEF TypeOK, MainTimedOut
<1>19. ASSUME NEW x \in Executions, MainDone(x) PROVE TypeOK'
  <2>1. task' \in Task
    BY <1>19, <1>p, TaskTyped, RowCompleted DEF MainDone
  <2> QED BY <1>19, <2>1, <1>m DEF TypeOK, MainDone
<1>20. ASSUME NEW x \in Executions, MainContinue(x) PROVE TypeOK'
  <2>1. task' \in Task
    BY <1>20, <1>p, TaskTyped, RowPending DEF MainContinue
  <2> QED BY <1>20, <2>1, <1>m DEF TypeOK, MainContinue
<1>21. ASSUME NEW x \in Executions, MainFailed(x) PROVE TypeOK'
  <2>1. task' \in Task
    BY <1>21, TaskTyped, RowReleased, RowFailed DEF MainFailed
  <2> QED BY <1>21, <2>1, <1>m DEF TypeOK, MainFailed
<1>22. ASSUME NEW u \in Users, NEW kind \in Kinds, BeginRequest(u, kind) PROVE TypeOK'
  <2>1. op' \in [Users -> Request]
    BY <1>22 DEF TypeOK, BeginRequest, Request
  <2> QED BY <1>22, <2>1, <1>s, <1>k DEF TypeOK, BeginRequest
<1>23. ASSUME NEW u \in Users, UpdateStatus(u) PROVE TypeOK'
  <2>1. [op[u] EXCEPT !.pc = "locked"] \in Request /\ op[u].kind \in Kinds
    BY DEF TypeOK, Request
  <2>2. [handler[u] EXCEPT !.pc = "published", !.kind = op[u].kind] \in Handler
    BY <2>1 DEF TypeOK, Handler
  <2>3. op' \in [Users -> Request]
    BY <1>23, <2>1 DEF TypeOK, UpdateStatus
  <2>4. handler' \in [Users \cup Executions -> Handler]
    BY <1>23, <2>2 DEF TypeOK, UpdateStatus
  <2> QED BY <1>23, <2>3, <2>4 DEF TypeOK, UpdateStatus
<1>24. ASSUME NEW u \in Users, CommitRequest(u) PROVE TypeOK'
  <2>1. op[u].seen \in Broadcast
    BY DEF TypeOK, Request
  <2>2. bcast' \in Broadcast
    BY <1>24, <2>1 DEF CommitRequest, NewStatus, Broadcast, BroadcastStatuses
  <2> QED BY <1>24, <2>2 DEF TypeOK, CommitRequest
<1>25. ASSUME NEW u \in Users, RollbackRequest(u) PROVE TypeOK'
  <2>1. /\ op' \in [Users -> Request]
        /\ handler' \in [Users \cup Executions -> Handler]
        /\ lock' \in Users \cup {"none"}
    BY <1>25 DEF TypeOK, RollbackRequest
  <2> QED BY <1>25, <2>1, <1>s, <1>k DEF TypeOK, RollbackRequest
<1>26. ASSUME NEW p \in Users \cup Executions, HandlerRead(p) PROVE TypeOK'
  <2>1. [handler[p] EXCEPT !.pc = "read", !.copy = task] \in Handler
    BY DEF TypeOK, Handler
  <2>2. handler' \in [Users \cup Executions -> Handler]
    BY <1>26, <2>1 DEF TypeOK, HandlerRead
  <2> QED BY <1>26, <2>2 DEF TypeOK, HandlerRead
<1>27. ASSUME NEW p \in Users \cup Executions, HandlerWrite(p) PROVE TypeOK'
  <2>1. handler[p].copy \in Task /\ handler[p].copy.state \in Progress
    BY DEF TypeOK, Handler, Task
  <2>2. task' \in Task
    <3>1. CASE task' = MarkAsPaused(task, handler[p].copy.state)
      BY <3>1, <2>1, TaskTyped, RowPaused
    <3>2. CASE task' = ResumedTask(task, handler[p].copy)
      BY <3>2, <2>1, TaskTyped, RowResumed
    <3>3. CASE task' = MarkAsFailed(task)
      BY <3>3, TaskTyped, RowFailed
    <3> QED BY <1>27, <3>1, <3>2, <3>3 DEF HandlerWrite
  <2> QED BY <1>27, <2>2 DEF TypeOK, HandlerWrite
<1>28. CASE BecomesDue
  <2>1. task' \in Task
    BY <1>28, TaskTyped, RowDue DEF BecomesDue
  <2> QED BY <1>28, <2>1 DEF TypeOK, BecomesDue
<1>29. ASSUME NEW x \in Executions, Overrun(x) PROVE TypeOK'
  <2>1. task' \in Task
    BY <1>29, TaskTyped, RowExpired DEF Overrun
  <2>2. exec' \in [Executions -> Execution]
    <3>1. exec \in [Executions -> Execution] /\ exec[x] \in Execution
      BY DEF TypeOK
    <3>2. [exec[x] EXCEPT !.ctx = "deadline"] \in Execution
      BY <3>1, ExecutionMoves
    <3>3. exec' = [exec EXCEPT ![x] = [exec[x] EXCEPT !.ctx = "deadline"]]
      BY <1>29 DEF Overrun
    <3> QED BY <3>1, <3>2, <3>3
  <2> QED BY <1>29, <2>1, <2>2, <1>s, <1>k DEF TypeOK, Overrun
<1>30. ASSUME NEW x \in Executions, DeadLeaseExpires(x) PROVE TypeOK'
  <2>1. task' \in Task
    BY <1>30, TaskTyped, RowExpired DEF DeadLeaseExpires
  <2> QED BY <1>30, <2>1 DEF TypeOK, DeadLeaseExpires
<1>31. ASSUME NEW x \in Executions, HangUp(x) PROVE TypeOK'
  <2>1. exec' \in [Executions -> Execution]
    <3>1. exec \in [Executions -> Execution] /\ exec[x] \in Execution
      BY DEF TypeOK
    <3>2. [exec[x] EXCEPT !.ctx = "canceled"] \in Execution
      BY <3>1, ExecutionMoves
    <3>3. exec' = [exec EXCEPT ![x] = [exec[x] EXCEPT !.ctx = "canceled"]]
      BY <1>31 DEF HangUp
    <3> QED BY <3>1, <3>2, <3>3
  <2> QED BY <1>31, <2>1, <1>s, <1>k DEF TypeOK, HangUp
<1>32. ASSUME NEW x \in Executions, Crash(x) PROVE TypeOK'
  <2>1. /\ exec' \in [Executions -> Execution]
        /\ handler' \in [Users \cup Executions -> Handler]
    BY <1>32 DEF TypeOK, Crash
  <2> QED BY <1>32, <2>1, <1>s, <1>k DEF TypeOK, Crash
<1> QED
  BY <1>0, <1>1, <1>2, <1>3, <1>4, <1>5, <1>6, <1>7, <1>8, <1>9, <1>10, <1>11, <1>12,
     <1>13, <1>14, <1>15, <1>16, <1>17, <1>18, <1>19, <1>20, <1>21, <1>22, <1>23, <1>24,
     <1>25, <1>26, <1>27, <1>28, <1>29, <1>30, <1>31, <1>32
     DEF Next, MainStep, ProcStep
-----------------------------------------------------------------------------
(* A step keeps the rest of the invariant. *)
LEMMA ProgressStep == Inv /\ TypeOK' /\ [Next]_vars => Progressed' /\ Backed'
<1> SUFFICES ASSUME Inv, TypeOK', [Next]_vars PROVE Progressed' /\ Backed'
  OBVIOUS
<1> USE Constants0
<1> DEFINE Tasks == Covered(task.state)
           Copies == \A p \in Users \cup Executions : Covered(handler[p].copy.state)
           Execs == \A x \in Executions : Good(exec[x])
(* What a step leaves alone stays as it is. *)
<1>g. /\ Tasks /\ Copies /\ Execs /\ Backed /\ TypeOK
      /\ \A x \in Executions : /\ exec[x] \in Execution /\ exec[x].state \in Progress
                              /\ Covered(exec[x].state)
      /\ \A p \in Users \cup Executions : /\ handler[p].copy \in Task
                                         /\ handler[p].copy.state \in Progress
  BY DEF Inv, Progressed, Good, TypeOK, Execution, Handler, Task
<1>t. ASSUME task'.state = task.state, enqueued' = enqueued PROVE Tasks'
  BY <1>t, <1>g DEF Covered
<1>c. ASSUME UNCHANGED <<handler, enqueued>> PROVE Copies'
  BY <1>c, <1>g DEF Covered
<1>e. ASSUME UNCHANGED <<exec, enqueued>> PROVE Execs'
  BY <1>e, <1>g DEF Good, Covered
<1>b. ASSUME UNCHANGED <<bcast, op, enqueued>> PROVE Backed'
  BY <1>b, <1>g DEF Backed, AllIn
<1>q. ASSUME Tasks', Copies', Execs', Backed' PROVE Progressed' /\ Backed'
  BY <1>q DEF Progressed
<1> HIDE DEF Tasks, Copies, Execs
(* One execution changes. *)
<1>x. ASSUME NEW x \in Executions, NEW e, exec' = [exec EXCEPT ![x] = e],
             enqueued' = enqueued, Good(e)
      PROVE  Execs'
  <2> SUFFICES ASSUME NEW y \in Executions PROVE Good(exec[y])'
    BY DEF Execs
  <2>1. CASE y = x
    BY <1>x, <2>1, <1>g DEF Good, Covered, TypeOK
  <2>2. CASE y # x
    BY <1>x, <2>2, <1>g DEF Good, Covered, TypeOK, Execs
  <2> QED BY <2>1, <2>2
<1>i. Good(Idle)
  BY DEF Good, Covered, Idle, NoProgress
<1>r. ASSUME NEW e, Covered(e.state), e \in Execution, NEW r \in {"done", "more", "error"}
      PROVE  Good(Returned(e, r))
  BY <1>r, <1>i DEF Good, Returned, Execution
<1>0. CASE UNCHANGED vars
  BY <1>0, <1>t, <1>c, <1>e, <1>b, <1>q DEF vars
<1>1. ASSUME NEW x \in Executions, Dispatch(x) PROVE Progressed' /\ Backed'
  <2>1. Good([Idle EXCEPT !.main = "dispatched"])
    BY DEF Good, Covered, Idle, NoProgress
  <2>3. Execs'
    BY <1>1, <2>1, <1>x DEF Dispatch
  <2> QED BY <1>1, <2>3, <1>t, <1>c, <1>b, <1>q DEF Dispatch
<1>2. ASSUME NEW x \in Executions, DispatchLost(x) PROVE Progressed' /\ Backed'
  <2>1. Good(Idle)
    BY <1>i
  <2>3. Execs'
    BY <1>2, <2>1, <1>x DEF DispatchLost
  <2> QED BY <1>2, <2>3, <1>t, <1>c, <1>b, <1>q DEF DispatchLost
<1>4. ASSUME NEW x \in Executions, ClaimRefused(x) PROVE Progressed' /\ Backed'
  <2>1. Good(Idle)
    BY <1>i
  <2>3. Execs'
    BY <1>4, <2>1, <1>x DEF ClaimRefused
  <2> QED BY <1>4, <2>3, <1>t, <1>c, <1>b, <1>q DEF ClaimRefused
<1>5. ASSUME NEW x \in Executions, CountRecipients(x) PROVE Progressed' /\ Backed'
  <2>1. Good(Returned([exec[x] EXCEPT !.state.total = Batches], "more"))
    <3>1. /\ [exec[x] EXCEPT !.state.total = Batches] \in Execution
          /\ Covered([exec[x] EXCEPT !.state.total = Batches].state)
      BY <1>g DEF Execution, Progress, Covered
    <3> QED BY <3>1, <1>r
  <2>3. Execs'
    BY <1>5, <2>1, <1>x DEF CountRecipients
  <2> QED BY <1>5, <2>3, <1>t, <1>c, <1>b, <1>q DEF CountRecipients
<1>6. ASSUME NEW x \in Executions, Prepare(x) PROVE Progressed' /\ Backed'
  <2>1. Good([exec[x] EXCEPT !.proc = "loop"])
    BY <1>6, <1>g DEF Prepare, Good, Execution, Progress
  <2>3. Execs'
    BY <1>6, <2>1, <1>x DEF Prepare
  <2> QED BY <1>6, <2>3, <1>t, <1>c, <1>b, <1>q DEF Prepare
<1>7. ASSUME NEW x \in Executions, Refresh(x) PROVE Progressed' /\ Backed'
  <2>1. /\ Good([exec[x] EXCEPT !.proc = "refreshed"])
        /\ Good(Returned(exec[x], "done")) /\ Good(Returned(exec[x], "more"))
    BY <1>7, <1>g, <1>r DEF Refresh, Good, Execution, Execs
  <2>3. Execs'
    BY <1>7, <2>1, <1>x DEF Refresh
  <2> QED BY <1>7, <2>3, <1>t, <1>c, <1>b, <1>q DEF Refresh
<1>8. ASSUME NEW x \in Executions, TimeUp(x) PROVE Progressed' /\ Backed'
  <2>1. Good(Returned(exec[x], "more"))
    BY <1>g, <1>r
  <2>3. Execs'
    BY <1>8, <2>1, <1>x DEF TimeUp
  <2> QED BY <1>8, <2>3, <1>t, <1>c, <1>b, <1>q DEF TimeUp
<1>9. ASSUME NEW x \in Executions, FetchBatch(x) PROVE Progressed' /\ Backed'
  <2>1. Good(Returned(exec[x], "done"))
    BY <1>g, <1>r
  <2>2. Good([exec[x] EXCEPT !.proc = "fetched"])
    <3>1. /\ exec[x].state.total = Batches /\ Covered(exec[x].state)
          /\ exec[x].state.offset \in 0 .. Batches
          /\ ~(exec[x].state.offset >= exec[x].state.total)
      BY <1>9, <1>g DEF FetchBatch, AllEnqueued, Good, Progress, Execs
    <3>2. exec[x].state.offset < Batches
      BY <3>1, BatchesAssumption
    <3> QED BY <3>1, <3>2, <1>g DEF Good, Execution
  <2>3. Execs'
    BY <1>9, <2>1, <2>2, <1>x DEF FetchBatch
  <2> QED BY <1>9, <2>3, <1>t, <1>c, <1>b, <1>q DEF FetchBatch
<1>12. ASSUME NEW x \in Executions, ProcessFails(x) PROVE Progressed' /\ Backed'
  <2>1. Good([exec[x] EXCEPT !.proc = "failing"])
    BY <1>g DEF Good, Execution, Execs
  <2>3. Execs'
    BY <1>12, <2>1, <1>x DEF ProcessFails
  <2> QED BY <1>12, <2>3, <1>t, <1>c, <1>b, <1>q DEF ProcessFails
<1>13. ASSUME NEW x \in Executions, NotStarted(x) PROVE Progressed' /\ Backed'
  <2>1. Good(Returned(exec[x], "error"))
    BY <1>g, <1>r
  <2>3. Execs'
    BY <1>13, <2>1, <1>x DEF NotStarted
  <2> QED BY <1>13, <2>3, <1>t, <1>c, <1>b, <1>q DEF NotStarted
<1>31. ASSUME NEW x \in Executions, HangUp(x) PROVE Progressed' /\ Backed'
  <2>1. Good([exec[x] EXCEPT !.ctx = "canceled"])
    BY <1>g DEF Good, Execution, Execs
  <2>3. Execs'
    BY <1>31, <2>1, <1>x DEF HangUp
  <2> QED BY <1>31, <2>3, <1>t, <1>c, <1>b, <1>q DEF HangUp
(* The other actions. *)
<1>3. ASSUME NEW x \in Executions, Claim(x) PROVE Progressed' /\ Backed'
  <2> DEFINE e == [Idle EXCEPT !.main = "waiting", !.proc = "start", !.state = task.state,
                              !.last = task.retries + 1 >= MaxRetries]
  <2>1. e.proc = "start" /\ e.state = task.state
    BY DEF Idle
  <2>2. exec' = [exec EXCEPT ![x] = e] /\ UNCHANGED <<bcast, enqueued, op, handler>>
    BY <1>3 DEF Claim
  <2> HIDE DEF e
  <2>3. Good(e)
    BY <2>1, <1>g DEF Good, Covered, Tasks
  <2>4. Execs'
    BY <2>2, <2>3, <1>x
  <2>5. task'.state = task.state
    BY <1>3, TaskTyped, RowClaimed DEF Claim, Inv
  <2> QED BY <2>2, <2>4, <2>5, <1>t, <1>c, <1>b, <1>q
<1>10. ASSUME NEW x \in Executions, SendBatch(x) PROVE Progressed' /\ Backed'
  <2> DEFINE n == exec[x].state.offset + 1
             v == IF enqueued[n] = 2 THEN 2 ELSE enqueued[n] + 1
  <2>1. n \in 1 .. Batches /\ exec[x].state.total = Batches /\ exec[x].state.offset < Batches
    BY <1>10, <1>g, BatchesAssumption DEF SendBatch, Good, Progress, Execs
  <2>2. /\ enqueued' = [enqueued EXCEPT ![n] = v]
        /\ exec' = [exec EXCEPT ![x].proc = "sent"]
        /\ UNCHANGED <<task, bcast, op, handler>>
    BY <1>10 DEF SendBatch
  <2>3. enqueued[n] \in 0 .. 2 /\ DOMAIN enqueued = 1 .. Batches
    BY <2>1, <1>g DEF TypeOK
  <2>4. v > 0
    BY <2>3
  <2> HIDE DEF v
  <2>5. enqueued'[n] > 0 /\ \A m \in 1 .. Batches : enqueued[m] > 0 => enqueued'[m] > 0
    BY <2>1, <2>2, <2>3, <2>4
  <2>6. ASSUME NEW s \in Progress, Covered(s) PROVE \A m \in 1 .. s.offset : enqueued'[m] > 0
    BY <2>6, <2>5, BatchesAssumption DEF Covered, Progress
  <2>7. Tasks'
    BY <2>2, <2>6, <1>g DEF Tasks, Covered, TypeOK, Task
  <2>8. Copies'
    BY <2>2, <2>6, <1>g DEF Copies, Covered
  <2>9. Execs'
    <3> SUFFICES ASSUME NEW y \in Executions PROVE Good(exec[y])'
      BY DEF Execs
    <3>1. exec'[y].state = exec[y].state
      BY <2>2, <1>g DEF TypeOK, Execution
    <3>2. \A m \in 1 .. exec'[y].state.offset : enqueued'[m] > 0
      BY <3>1, <2>6, <1>g
    <3>3. CASE y = x
      <4>1. exec'[x].proc = "sent"
        BY <2>2, <1>g DEF TypeOK, Execution
      <4> QED BY <3>1, <3>2, <3>3, <4>1, <2>1, <2>5 DEF Good, Covered
    <3>4. CASE y # x
      <4>1. exec'[y] = exec[y]
        BY <3>4, <2>2, <1>g DEF TypeOK
      <4>2. exec[y].state.offset \in 0 .. Batches
        BY <1>g DEF Progress
      <4>3. exec[y].state.offset < Batches => exec[y].state.offset + 1 \in 1 .. Batches
        BY <4>2, BatchesAssumption
      <4> QED BY <3>2, <4>1, <4>3, <2>5, <1>g DEF Good, Covered, Execs
    <3> QED BY <3>3, <3>4
  <2>10. Backed'
    BY <2>2, <2>5, <1>g DEF Backed, AllIn
  <2> QED BY <2>7, <2>8, <2>9, <2>10, <1>q
<1>11. ASSUME NEW x \in Executions, Advance(x) PROVE Progressed' /\ Backed'
  <2> DEFINE s == [exec[x].state EXCEPT !.offset = @ + 1]
             e == [exec[x] EXCEPT !.state = s, !.proc = "loop"]
  <2>1. /\ exec[x].state \in Progress /\ exec[x].state.offset < Batches
        /\ exec[x].state.total = Batches
        /\ Covered(exec[x].state) /\ enqueued[exec[x].state.offset + 1] > 0
    BY <1>11, <1>g DEF Advance, Good, Execs
  <2>2. s \in Progress /\ s.total = Batches /\ s.offset = exec[x].state.offset + 1
    BY <2>1, BatchesAssumption DEF Progress
  <2>3. Covered(s)
    BY <2>1, <2>2, BatchesAssumption DEF Covered, Progress
  <2>4. e.state = s /\ e.proc = "loop"
    BY <1>g DEF Execution
  <2>5. /\ exec' = [exec EXCEPT ![x] = e] /\ UNCHANGED <<bcast, enqueued, op, handler>>
        /\ task' = SaveState(task, s) \/ task' = task
    BY <1>11, <1>g DEF Advance, TypeOK
  <2> HIDE DEF s, e
  <2>6. Good(e)
    BY <2>2, <2>3, <2>4 DEF Good
  <2>7. Execs'
    BY <2>5, <2>6, <1>x
  <2>8. task'.state \in {task.state, s}
    BY <2>2, <2>5, <1>g, TaskTyped, RowSaved
  <2>9. Tasks'
    BY <2>3, <2>5, <2>8, <1>g DEF Tasks, Covered
  <2> QED BY <2>5, <2>7, <2>9, <1>c, <1>b, <1>q
<1>14. ASSUME NEW x \in Executions, Finalize(x) PROVE Progressed' /\ Backed'
  <2>1. Good(Returned(exec[x], "error"))
    BY <1>g, <1>r
  <2>3. Execs'
    BY <1>14, <2>1, <1>x DEF Finalize
  <2>4. /\ bcast'.completed = bcast.completed
        /\ bcast'.status = "processed" => bcast.status = "processed"
    BY <1>14, <1>g DEF Finalize, UpdateBroadcast, TypeOK, Broadcast
  <2>5. Backed'
    BY <1>14, <2>4, <1>g DEF Finalize, Backed, AllIn
  <2> QED BY <1>14, <2>3, <2>5, <1>t, <1>c, <1>q DEF Finalize
<1>15. ASSUME NEW x \in Executions, FeedFails(x) PROVE Progressed' /\ Backed'
  <2>1. Good(Returned(exec[x], "error"))
    BY <1>g, <1>r
  <2>3. Execs'
    BY <1>15, <2>1, <1>x DEF FeedFails
  <2>4. /\ bcast'.completed = bcast.completed
        /\ bcast'.status = "processed" => bcast.status = "processed"
    BY <1>15, <1>g DEF FeedFails, UpdateBroadcast, TypeOK, Broadcast
  <2>5. Backed'
    BY <1>15, <2>4, <1>g DEF FeedFails, Backed, AllIn
  <2>6. \A p \in Users \cup Executions : handler'[p].copy = handler[p].copy
    <3> DEFINE h == [handler[x] EXCEPT !.pc = "published", !.kind = "pause"]
    <3>1. handler' = handler \/ handler' = [handler EXCEPT ![x] = h]
      BY <1>15 DEF FeedFails
    <3>2. handler \in [Users \cup Executions -> Handler] /\ handler[x] \in Handler
      BY <1>g DEF TypeOK
    <3>3. h.copy = handler[x].copy
      BY <3>2 DEF Handler
    <3> HIDE DEF h
    <3> QED BY <3>1, <3>2, <3>3
  <2>7. Copies'
    BY <1>15, <2>6, <1>g DEF FeedFails, Copies, Covered
  <2> QED BY <1>15, <2>3, <2>5, <2>7, <1>t, <1>q DEF FeedFails
<1>16. ASSUME NEW x \in Executions, Complete(x) PROVE Progressed' /\ Backed'
  <2>1. Good(Returned(exec[x], "done"))
    BY <1>g, <1>r
  <2>2. Good([exec[x] EXCEPT !.proc = "failing"])
    BY <1>g DEF Good, Execution, Execs
  <2>3. Execs'
    BY <1>16, <2>1, <2>2, <1>x DEF Complete
  <2>4. AllIn
    <3>1. /\ exec[x].state.offset \in 0 .. Batches /\ exec[x].state.offset >= Batches
          /\ Covered(exec[x].state)
      BY <1>16, <1>g DEF Complete, AllEnqueued, Good, Progress, Execs
    <3>2. exec[x].state.offset = Batches
      BY <3>1, BatchesAssumption
    <3> QED BY <3>1, <3>2 DEF Covered, AllIn
  <2>5. Backed'
    BY <1>16, <2>4 DEF Complete, Backed, AllIn
  <2> QED BY <1>16, <2>3, <2>5, <1>t, <1>c, <1>q DEF Complete
(* main reads the result. *)
<1>m. ASSUME NEW x \in Executions, Settle(x), enqueued' = enqueued PROVE Execs'
  <2> DEFINE e == IF exec[x].proc = "none" THEN Idle ELSE [exec[x] EXCEPT !.main = "idle"]
  <2>1. Good([exec[x] EXCEPT !.main = "idle"])
    BY <1>g DEF Good, Execution, Execs
  <2>2. Good(e) /\ exec' = [exec EXCEPT ![x] = e]
    BY <1>m, <2>1, <1>i, <1>g DEF Settle, TypeOK
  <2> HIDE DEF e
  <2> QED BY <1>m, <2>2, <1>x
<1>u. ASSUME NEW s, Covered(s), task'.state = s, enqueued' = enqueued PROVE Tasks'
  BY <1>u DEF Tasks, Covered
<1>17. ASSUME NEW x \in Executions, MainInterrupted(x) PROVE Progressed' /\ Backed'
  <2>1. task'.state = task.state
    BY <1>17, <1>g, TaskTyped, RowReleased DEF MainInterrupted
  <2> QED BY <1>17, <2>1, <1>m, <1>t, <1>c, <1>b, <1>q DEF MainInterrupted
<1>18. ASSUME NEW x \in Executions, MainTimedOut(x) PROVE Progressed' /\ Backed'
  <2>1. task'.state = task.state
    BY <1>18, <1>g, TaskTyped, RowFailed DEF MainTimedOut
  <2> QED BY <1>18, <2>1, <1>m, <1>t, <1>c, <1>b, <1>q DEF MainTimedOut
<1>19. ASSUME NEW x \in Executions, MainDone(x) PROVE Progressed' /\ Backed'
  <2>1. task'.state = exec[x].state
    <3>1. task \in Task /\ exec[x].state \in Progress
      BY <1>g DEF TypeOK
    <3>2. task' = MarkAsCompleted(task, exec[x].state)
      BY <1>19 DEF MainDone
    <3> QED BY <3>1, <3>2, RowCompleted
  <2>2. Tasks'
    BY <1>19, <2>1, <1>g, <1>u DEF MainDone
  <2> QED BY <1>19, <2>2, <1>m, <1>c, <1>b, <1>q DEF MainDone
<1>20. ASSUME NEW x \in Executions, MainContinue(x) PROVE Progressed' /\ Backed'
  <2>1. task'.state = exec[x].state
    <3>1. task \in Task /\ exec[x].state \in Progress
      BY <1>g DEF TypeOK
    <3>2. task' = MarkAsPending(task, exec[x].state)
      BY <1>20 DEF MainContinue
    <3> QED BY <3>1, <3>2, RowPending
  <2>2. Tasks'
    BY <1>20, <2>1, <1>g, <1>u DEF MainContinue
  <2> QED BY <1>20, <2>2, <1>m, <1>c, <1>b, <1>q DEF MainContinue
<1>21. ASSUME NEW x \in Executions, MainFailed(x) PROVE Progressed' /\ Backed'
  <2>1. task'.state = task.state
    BY <1>21, <1>g, TaskTyped, RowReleased, RowFailed DEF MainFailed
  <2> QED BY <1>21, <2>1, <1>m, <1>t, <1>c, <1>b, <1>q DEF MainFailed
(* The console and the event handlers. *)
<1>22. ASSUME NEW u \in Users, NEW kind \in Kinds, BeginRequest(u, kind)
       PROVE  Progressed' /\ Backed'
  <2>1. \A v \in Users : op'[v].seen = bcast \/ op'[v].seen = op[v].seen
    BY <1>22, <1>g DEF BeginRequest, TypeOK
  <2>2. Backed'
    BY <1>22, <2>1, <1>g DEF BeginRequest, Backed, AllIn
  <2> QED BY <1>22, <2>2, <1>t, <1>c, <1>e, <1>q DEF BeginRequest
<1>23. ASSUME NEW u \in Users, UpdateStatus(u) PROVE Progressed' /\ Backed'
  <2>1. \A v \in Users : op'[v].seen = op[v].seen
    BY <1>23, <1>g DEF UpdateStatus, TypeOK, Request
  <2>2. Backed'
    BY <1>23, <2>1, <1>g DEF UpdateStatus, Backed, AllIn
  <2>3. \A p \in Users \cup Executions : handler'[p].copy = handler[p].copy
    BY <1>23, <1>g DEF UpdateStatus, TypeOK, Handler
  <2>4. Copies'
    BY <1>23, <2>3, <1>g DEF UpdateStatus, Copies, Covered
  <2> QED BY <1>23, <2>2, <2>4, <1>t, <1>e, <1>q DEF UpdateStatus
<1>o. NoRequest.seen.completed = FALSE /\ Covered(NoHandler.copy.state)
  BY DEF NoRequest, NoHandler, NewTask, NoProgress, Covered
<1>24. ASSUME NEW u \in Users, CommitRequest(u) PROVE Progressed' /\ Backed'
  <2>1. \A v \in Users : op'[v] = NoRequest \/ op'[v] = op[v]
    BY <1>24, <1>g DEF CommitRequest, TypeOK
  <2>2. op[u].seen \in Broadcast
    BY <1>g DEF TypeOK, Request
  <2>3. bcast'.completed = op[u].seen.completed
    BY <1>24, <2>2 DEF CommitRequest, NewStatus, Broadcast
  <2>4. bcast'.status = "processed" => op[u].seen.completed
    BY <1>24, <2>2 DEF CommitRequest, NewStatus, Broadcast
  <2>5. Backed'
    BY <1>24, <2>1, <2>3, <2>4, <1>o, <1>g DEF CommitRequest, Backed, AllIn
  <2> QED BY <1>24, <2>5, <1>t, <1>c, <1>e, <1>q DEF CommitRequest
<1>h. ASSUME NEW p \in Users \cup Executions, NEW h, Covered(h.copy.state),
             handler' = [handler EXCEPT ![p] = h], enqueued' = enqueued
      PROVE  Copies'
  <2>1. \A q \in Users \cup Executions : handler'[q] = h \/ handler'[q] = handler[q]
    BY <1>h, <1>g DEF TypeOK
  <2> QED BY <1>h, <2>1, <1>g DEF Copies, Covered
<1>25. ASSUME NEW u \in Users, RollbackRequest(u) PROVE Progressed' /\ Backed'
  <2>1. \A v \in Users : op'[v] = NoRequest \/ op'[v] = op[v]
    BY <1>25, <1>g DEF RollbackRequest, TypeOK
  <2>2. Backed'
    BY <1>25, <2>1, <1>o, <1>g DEF RollbackRequest, Backed, AllIn
  <2>3. Copies'
    BY <1>25, <1>o, <1>h DEF RollbackRequest
  <2> QED BY <1>25, <2>2, <2>3, <1>t, <1>e, <1>q DEF RollbackRequest
<1>26. ASSUME NEW p \in Users \cup Executions, HandlerRead(p) PROVE Progressed' /\ Backed'
  <2>1. Covered([handler[p] EXCEPT !.pc = "read", !.copy = task].copy.state)
    BY <1>g DEF TypeOK, Handler, Tasks
  <2>2. Copies'
    BY <1>26, <2>1, <1>o, <1>h DEF HandlerRead
  <2> QED BY <1>26, <2>2, <1>t, <1>e, <1>b, <1>q DEF HandlerRead
<1>27. ASSUME NEW p \in Users \cup Executions, HandlerWrite(p) PROVE Progressed' /\ Backed'
  <2>1. task'.state = handler[p].copy.state \/ task'.state = task.state
    <3>1. CASE task' = MarkAsPaused(task, handler[p].copy.state)
      BY <3>1, <1>g, TaskTyped, RowPaused
    <3>2. CASE task' = ResumedTask(task, handler[p].copy)
      BY <3>2, <1>g, TaskTyped, RowResumed
    <3>3. CASE task' = MarkAsFailed(task)
      BY <3>3, <1>g, TaskTyped, RowFailed
    <3> QED BY <1>27, <3>1, <3>2, <3>3 DEF HandlerWrite
  <2>2. Covered(handler[p].copy.state) /\ Covered(task.state)
    BY <1>g DEF Copies, Tasks
  <2>3. Tasks'
    BY <1>27, <2>1, <2>2, <1>u DEF HandlerWrite
  <2>4. Copies'
    BY <1>27, <1>o, <1>h DEF HandlerWrite
  <2> QED BY <1>27, <2>3, <2>4, <1>e, <1>b, <1>q DEF HandlerWrite
(* Time, and what goes wrong outside. *)
<1>28. CASE BecomesDue
  <2>1. task'.state = task.state
    BY <1>28, <1>g, TaskTyped, RowDue DEF BecomesDue
  <2> QED BY <1>28, <2>1, <1>t, <1>c, <1>e, <1>b, <1>q DEF BecomesDue
<1>29. ASSUME NEW x \in Executions, Overrun(x) PROVE Progressed' /\ Backed'
  <2>1. task'.state = task.state
    BY <1>29, <1>g, TaskTyped, RowExpired DEF Overrun
  <2>2. Good([exec[x] EXCEPT !.ctx = "deadline"])
    BY <1>g DEF Good, Execution, Execs
  <2>3. Execs'
    BY <1>29, <2>2, <1>x DEF Overrun
  <2> QED BY <1>29, <2>1, <2>3, <1>t, <1>c, <1>b, <1>q DEF Overrun
<1>30. ASSUME NEW x \in Executions, DeadLeaseExpires(x) PROVE Progressed' /\ Backed'
  <2>1. task'.state = task.state
    BY <1>30, <1>g, TaskTyped, RowExpired DEF DeadLeaseExpires
  <2> QED BY <1>30, <2>1, <1>t, <1>c, <1>e, <1>b, <1>q DEF DeadLeaseExpires
<1>32. ASSUME NEW x \in Executions, Crash(x) PROVE Progressed' /\ Backed'
  <2>1. Execs'
    BY <1>32, <1>i, <1>x DEF Crash
  <2>2. Copies'
    BY <1>32, <1>o, <1>h DEF Crash
  <2> QED BY <1>32, <2>1, <2>2, <1>t, <1>b, <1>q DEF Crash
<1> QED
  <2>1. [Next]_vars
    OBVIOUS
  <2> QED
    BY <2>1, <1>0, <1>1, <1>2, <1>3, <1>4, <1>5, <1>6, <1>7, <1>8, <1>9, <1>10, <1>11, <1>12,
       <1>13, <1>14, <1>15, <1>16, <1>17, <1>18, <1>19, <1>20, <1>21, <1>22, <1>23, <1>24,
       <1>25, <1>26, <1>27, <1>28, <1>29, <1>30, <1>31, <1>32
       DEF Next, MainStep, ProcStep
-----------------------------------------------------------------------------
LEMMA InitInv == Init => Inv
<1> SUFFICES ASSUME Init PROVE Inv
  OBVIOUS
<1> USE Constants0
<1>1. TypeOK
  <2>1. enqueued \in [1 .. Batches -> 0 .. 2]
    BY DEF Init
  <2>2. bcast \in Broadcast /\ lock \in Users \cup {"none"}
    BY DEF Init, Broadcast, BroadcastStatuses
  <2>3. left \in [Disturbances -> Nat]
    BY BudgetAssumption DEF Init
  <2> QED BY <2>1, <2>2, <2>3 DEF Init, TypeOK
<1>2. Progressed
  <2>1. /\ \A x \in Executions : exec[x] = Idle
        /\ \A p \in Users \cup Executions : handler[p].copy = NewTask
        /\ task = NewTask
    BY DEF Init, NoHandler
  <2>2. Covered(NewTask.state) /\ Good(Idle)
    BY DEF Covered, Good, NewTask, NoProgress, Idle
  <2> QED BY <2>1, <2>2 DEF Progressed
<1>3. Backed
  BY DEF Init, Backed, NoRequest
<1> QED BY <1>1, <1>2, <1>3 DEF Inv

LEMMA Invariance == Spec => []Inv
<1>1. Inv /\ [Next]_vars => Inv'
  BY TypeStep, ProgressStep DEF Inv
<1> QED BY InitInv, <1>1, PTL DEF Spec

(* The rows, the executions and the requests keep their types: in            *)
(* particular the progress of the task never passes the end of the audience. *)
THEOREM TaskTypeCorrect == Spec => []TypeOK
<1>1. Inv => TypeOK
  BY DEF Inv
<1> QED BY Invariance, <1>1, PTL

(* However executions, retries, stale copies and console requests            *)
(* interleave, a broadcast is processed, or dated as completed, only when    *)
(* every batch of its audience is in the email queue.                        *)
THEOREM NobodySkipped == Spec => []NothingSkipped
<1>1. Inv => NothingSkipped
  BY DEF Inv, Backed, AllIn, NothingSkipped
<1> QED BY Invariance, <1>1, PTL
-----------------------------------------------------------------------------
(* One processor at a time.  While no execution overruns its deadline, no    *)
(* user acts and the recipient feed does not fail, the row's lease is a      *)
(* lock: the execution `main' waits in owns the running row, so no other is  *)
(* dispatched or claims it.                                                  *)
Disturbed == Happened("overrun") \/ Happened("op") \/ Happened("feed")

WithinBudget == \A k \in Disturbances : left[k] <= Budget[k]

Owns(x) == task.status = "running" /\ task.lease = x

(* A processor nobody waits for has lost its context; one that has left a    *)
(* result has returned.                                                      *)
Fit(e) ==
    /\ e.proc # "none" /\ e.ctx = "live" => e.main = "waiting"
    /\ e.result # "none" => e.proc = "none"

Abandoned == \A x \in Executions : Fit(exec[x])

Exclusive ==
    ~Disturbed => /\ \A x \in Executions : exec[x].main = "waiting" => Owns(x)
                  /\ \A p \in Users \cup Executions : handler[p].pc = "idle"
                  /\ \A u \in Users : op[u].pc = "idle"

OwnerInv == WithinBudget /\ Abandoned /\ Exclusive

(* A step spends one disturbance at most. *)
LEMMA BudgetSpent ==
    ASSUME [Next]_vars PROVE left' = left \/ \E k \in Disturbances : Spend(k)
<1> DEFINE Kept == left' = left \/ \E k \in Disturbances : Spend(k)
<1>1. ASSUME NEW x \in Executions, ProcStep(x) PROVE Kept
  BY <1>1 DEF ProcStep, CountRecipients, Prepare, Refresh, TimeUp, FetchBatch, SendBatch,
     Advance, ProcessFails, NotStarted, Finalize, FeedFails, Complete, Disturbances
<1>2. ASSUME NEW x \in Executions, MainStep(x) PROVE Kept
  BY <1>2 DEF MainStep, Claim, ClaimRefused, MainInterrupted, MainTimedOut, MainDone,
     MainContinue, MainFailed
<1>3. ASSUME NEW x \in Executions,
             \/ Dispatch(x) \/ DispatchLost(x) \/ Overrun(x) \/ DeadLeaseExpires(x)
             \/ HangUp(x) \/ Crash(x)
      PROVE  Kept
  BY <1>3 DEF Dispatch, DispatchLost, Overrun, DeadLeaseExpires, HangUp, Crash, Disturbances
<1>4. ASSUME NEW u \in Users,
             \/ \E kind \in Kinds : BeginRequest(u, kind)
             \/ UpdateStatus(u) \/ CommitRequest(u) \/ RollbackRequest(u)
      PROVE  Kept
  BY <1>4 DEF BeginRequest, UpdateStatus, CommitRequest, RollbackRequest, Disturbances
<1>5. ASSUME NEW p \in Users \cup Executions, HandlerRead(p) \/ HandlerWrite(p) PROVE Kept
  BY <1>5 DEF HandlerRead, HandlerWrite
<1>6. CASE BecomesDue \/ UNCHANGED vars
  BY <1>6 DEF BecomesDue, vars
<1> QED BY <1>1, <1>2, <1>3, <1>4, <1>5, <1>6 DEF Next

LEMMA BudgetStep == TypeOK /\ WithinBudget /\ [Next]_vars =>
                        WithinBudget' /\ (Disturbed => Disturbed')
<1> SUFFICES ASSUME TypeOK, WithinBudget, [Next]_vars
             PROVE  WithinBudget' /\ (Disturbed => Disturbed')
  OBVIOUS
<1>1. left' = left \/ \E k \in Disturbances : Spend(k)
  BY BudgetSpent
<1>2. \A k \in Disturbances : left'[k] <= left[k] /\ left[k] \in Nat /\ left'[k] \in Nat
  BY <1>1 DEF TypeOK, Spend
<1>3. \A k \in Disturbances : Budget[k] \in Nat
  BY BudgetAssumption
<1>4. WithinBudget'
  BY <1>2, <1>3 DEF WithinBudget
<1>5. \A k \in Disturbances : left[k] < Budget[k] => left'[k] < Budget[k]
  BY <1>2, <1>3
<1> QED BY <1>4, <1>5 DEF Disturbed, Happened, Disturbances

(* Spending a disturbance puts it on record. *)
LEMMA SpendHappens ==
    ASSUME TypeOK, WithinBudget, NEW k \in Disturbances, Spend(k) PROVE Happened(k)'
<1>1. left[k] \in Nat /\ left[k] <= Budget[k] /\ Budget[k] \in Nat /\ left'[k] = left[k] - 1
  BY BudgetAssumption DEF TypeOK, WithinBudget, Spend
<1>2. left'[k] < Budget[k]
  BY <1>1
<1> QED BY <1>2 DEF Happened

LEMMA OwnerStep == Inv /\ OwnerInv /\ [Next]_vars => OwnerInv'
<1> SUFFICES ASSUME Inv, OwnerInv, [Next]_vars PROVE Abandoned' /\ Exclusive'
  BY BudgetStep DEF OwnerInv, Inv
<1>g. /\ TypeOK /\ WithinBudget /\ Abandoned /\ Exclusive
      /\ exec \in [Executions -> Execution] /\ task \in Task
      /\ handler \in [Users \cup Executions -> Handler] /\ op \in [Users -> Request]
  BY DEF Inv, OwnerInv, TypeOK
<1>k. /\ "overrun" \in Disturbances /\ "op" \in Disturbances /\ "feed" \in Disturbances
  BY DEF Disturbances
<1>d. Disturbed => Disturbed'
  BY <1>g, BudgetStep
(* The parts of the invariant a step leaves alone. *)
<1>a. ASSUME UNCHANGED exec PROVE Abandoned'
  BY <1>a, <1>g DEF Abandoned, Fit
<1>e. ASSUME UNCHANGED <<task, exec, handler, op>> PROVE Exclusive'
  BY <1>e, <1>g, <1>d DEF Exclusive, Owns
(* One execution changes, and does not become another that waits or works. *)
<1>x. ASSUME NEW x \in Executions, NEW e, exec' = [exec EXCEPT ![x] = e]
      PROVE  /\ \A y \in Executions : exec'[y] = IF y = x THEN e ELSE exec[y]
             /\ Fit(e) => Abandoned'
             /\ /\ UNCHANGED <<task, handler, op>>
                /\ e.main = "waiting" => exec[x].main = "waiting"
                => Exclusive'
  <2>1. \A y \in Executions : exec'[y] = IF y = x THEN e ELSE exec[y]
    BY <1>x, <1>g
  <2>2. ASSUME Fit(e) PROVE Abandoned'
    BY <2>1, <2>2, <1>g DEF Abandoned, Fit
  <2>3. ASSUME UNCHANGED <<task, handler, op>>, e.main = "waiting" => exec[x].main = "waiting"
        PROVE  Exclusive'
    BY <2>1, <2>3, <1>g, <1>d DEF Exclusive, Owns
  <2> QED BY <2>1, <2>2, <2>3
<1>i. Idle.proc = "none" /\ Idle.main = "idle" /\ Fit(Idle)
  BY DEF Idle, Fit
<1>w. \A x \in Executions : Fit(exec[x])
  BY <1>g DEF Abandoned
(* The processor goes on. *)
<1>p. ASSUME NEW x \in Executions, NEW e \in Execution, exec[x].proc # "none",
             e.main = exec[x].main, e.ctx = exec[x].ctx, e.result = exec[x].result,
             exec' = [exec EXCEPT ![x] = e]
      PROVE  Abandoned' /\ (UNCHANGED <<task, handler, op>> => Exclusive')
  <2>1. Fit(e)
    BY <1>p, <1>w DEF Fit
  <2> QED BY <1>p, <2>1, <1>x
(* The processor returns. *)
<1>r. ASSUME NEW x \in Executions, NEW e \in Execution, e.main = exec[x].main, NEW r,
             exec' = [exec EXCEPT ![x] = Returned(e, r)]
      PROVE  Abandoned' /\ (UNCHANGED <<task, handler, op>> => Exclusive')
  <2>1. /\ Fit(Returned(e, r))
        /\ Returned(e, r).main = "waiting" => exec[x].main = "waiting"
    BY <1>r, <1>i DEF Returned, Execution, Fit
  <2> QED BY <1>r, <2>1, <1>x
<1>0. CASE UNCHANGED vars
  BY <1>0, <1>a, <1>e DEF vars
<1>1. ASSUME NEW x \in Executions, Dispatch(x) PROVE Abandoned' /\ Exclusive'
  <2> DEFINE e == [Idle EXCEPT !.main = "dispatched"]
  <2>1. Fit(e) /\ e.main = "dispatched"
    BY DEF Idle, Fit
  <2>2. exec' = [exec EXCEPT ![x] = e] /\ UNCHANGED <<task, handler, op>>
    BY <1>1 DEF Dispatch
  <2> HIDE DEF e
  <2> QED BY <2>1, <2>2, <1>x
<1>2. ASSUME NEW x \in Executions, DispatchLost(x) PROVE Abandoned' /\ Exclusive'
  BY <1>2, <1>i, <1>x DEF DispatchLost
<1>3. ASSUME NEW x \in Executions, Claim(x) PROVE Abandoned' /\ Exclusive'
  <2> DEFINE e == [Idle EXCEPT !.main = "waiting", !.proc = "start", !.state = task.state,
                              !.last = task.retries + 1 >= MaxRetries]
  <2>1. e.main = "waiting" /\ Fit(e)
    BY DEF Idle, Fit
  <2>2. /\ exec' = [exec EXCEPT ![x] = e] /\ UNCHANGED <<handler, op>>
        /\ task' = MarkAsRunning(task, x) /\ Claimable(task) /\ exec[x].main = "dispatched"
    BY <1>3 DEF Claim
  <2> HIDE DEF e
  <2>3. task'.status = "running" /\ task'.lease = x
    BY <2>2, <1>g DEF MarkAsRunning, Task
  <2>4. ~Disturbed => \A y \in Executions : exec[y].main # "waiting"
    BY <2>2, <1>g, ExecutionsAssumption DEF Exclusive, Owns, Claimable
  <2>5. \A y \in Executions : exec'[y] = IF y = x THEN e ELSE exec[y]
    BY <2>2, <1>x
  <2>6. Exclusive'
    BY <2>2, <2>3, <2>4, <2>5, <1>g, <1>d DEF Exclusive, Owns
  <2> QED BY <2>1, <2>2, <2>6, <1>x
<1>4. ASSUME NEW x \in Executions, ClaimRefused(x) PROVE Abandoned' /\ Exclusive'
  BY <1>4, <1>i, <1>x DEF ClaimRefused
<1>5. ASSUME NEW x \in Executions, CountRecipients(x) PROVE Abandoned' /\ Exclusive'
  <2> DEFINE e == [exec[x] EXCEPT !.state.total = Batches]
  <2>1. e \in Execution /\ e.main = exec[x].main
    BY <1>g DEF Execution, Progress
  <2>2. exec' = [exec EXCEPT ![x] = Returned(e, "more")] /\ UNCHANGED <<task, handler, op>>
    BY <1>5, <1>g DEF CountRecipients
  <2> HIDE DEF e
  <2> QED BY <2>1, <2>2, <1>r
<1>6. ASSUME NEW x \in Executions, Prepare(x) PROVE Abandoned' /\ Exclusive'
  <2>1. [exec[x] EXCEPT !.proc = "loop"] \in Execution
    BY <1>g DEF Execution
  <2> QED BY <1>6, <2>1, <1>g, <1>p DEF Prepare, Execution
<1>7. ASSUME NEW x \in Executions, Refresh(x) PROVE Abandoned' /\ Exclusive'
  <2> DEFINE e == [exec[x] EXCEPT !.proc = "refreshed"]
  <2>1. e \in Execution /\ e.main = exec[x].main /\ e.ctx = exec[x].ctx /\ e.result = exec[x].result
    BY <1>g DEF Execution
  <2>2. /\ exec[x].proc # "none" /\ UNCHANGED <<task, handler, op>>
        /\ \/ exec' = [exec EXCEPT ![x] = e]
           \/ \E r \in {"done", "more"} : exec' = [exec EXCEPT ![x] = Returned(exec[x], r)]
    BY <1>7, <1>g DEF Refresh
  <2> HIDE DEF e
  <2> QED BY <2>1, <2>2, <1>p, <1>r, <1>g
<1>8. ASSUME NEW x \in Executions, TimeUp(x) PROVE Abandoned' /\ Exclusive'
  BY <1>8, <1>r, <1>g DEF TimeUp
<1>9. ASSUME NEW x \in Executions, FetchBatch(x) PROVE Abandoned' /\ Exclusive'
  <2> DEFINE e == [exec[x] EXCEPT !.proc = "fetched"]
  <2>1. e \in Execution /\ e.main = exec[x].main /\ e.ctx = exec[x].ctx /\ e.result = exec[x].result
    BY <1>g DEF Execution
  <2>2. /\ exec[x].proc # "none" /\ UNCHANGED <<task, handler, op>>
        /\ \/ exec' = [exec EXCEPT ![x] = e]
           \/ exec' = [exec EXCEPT ![x] = Returned(exec[x], "done")]
    BY <1>9, <1>g DEF FetchBatch
  <2> HIDE DEF e
  <2> QED BY <2>1, <2>2, <1>p, <1>r, <1>g
<1>10. ASSUME NEW x \in Executions, SendBatch(x) PROVE Abandoned' /\ Exclusive'
  <2>1. [exec[x] EXCEPT !.proc = "sent"] \in Execution
    BY <1>g DEF Execution
  <2> QED BY <1>10, <2>1, <1>g, <1>p DEF SendBatch, Execution
<1>11. ASSUME NEW x \in Executions, Advance(x) PROVE Abandoned' /\ Exclusive'
  <2> DEFINE s == [exec[x].state EXCEPT !.offset = @ + 1]
             e == [exec[x] EXCEPT !.state = s, !.proc = "loop"]
  <2>1. e.main = exec[x].main /\ e.ctx = exec[x].ctx /\ e.result = exec[x].result
    BY <1>g DEF Execution
  <2>2. /\ exec[x].proc # "none" /\ UNCHANGED <<handler, op>>
        /\ exec' = [exec EXCEPT ![x] = e]
        /\ task' = SaveState(task, s) \/ task' = task
    BY <1>11, <1>g DEF Advance
  <2>3. task'.status = task.status /\ task'.lease = task.lease
    BY <2>2, <1>g DEF SaveState, Task
  <2> HIDE DEF e, s
  <2>4. \A y \in Executions : exec'[y] = IF y = x THEN e ELSE exec[y]
    BY <2>2, <1>x
  <2>5. Exclusive'
    BY <2>1, <2>2, <2>3, <2>4, <1>g, <1>d DEF Exclusive, Owns
  <2>6. Fit(e)
    BY <2>1, <2>2, <1>w DEF Fit
  <2> QED BY <2>2, <2>5, <2>6, <1>x
<1>12. ASSUME NEW x \in Executions, ProcessFails(x) PROVE Abandoned' /\ Exclusive'
  <2>1. [exec[x] EXCEPT !.proc = "failing"] \in Execution
    BY <1>g DEF Execution
  <2> QED BY <1>12, <2>1, <1>g, <1>p DEF ProcessFails, FailsOn, Execution
<1>13. ASSUME NEW x \in Executions, NotStarted(x) PROVE Abandoned' /\ Exclusive'
  BY <1>13, <1>r, <1>g DEF NotStarted
<1>14. ASSUME NEW x \in Executions, Finalize(x) PROVE Abandoned' /\ Exclusive'
  BY <1>14, <1>r, <1>g DEF Finalize
(* From here on Exclusive holds because the disturbance is on record. *)
<1>n. Disturbed' => Exclusive'
  BY DEF Exclusive
<1>15. ASSUME NEW x \in Executions, FeedFails(x) PROVE Abandoned' /\ Exclusive'
  <2>1. Disturbed'
    BY <1>15, <1>g, <1>k, SpendHappens DEF FeedFails, Disturbed
  <2> QED BY <1>15, <2>1, <1>n, <1>r, <1>g DEF FeedFails
<1>16. ASSUME NEW x \in Executions, Complete(x) PROVE Abandoned' /\ Exclusive'
  <2> DEFINE e == [exec[x] EXCEPT !.proc = "failing"]
  <2>1. e \in Execution /\ e.main = exec[x].main /\ e.ctx = exec[x].ctx /\ e.result = exec[x].result
    BY <1>g DEF Execution
  <2>2. /\ exec[x].proc # "none" /\ UNCHANGED <<task, handler, op>>
        /\ \/ exec' = [exec EXCEPT ![x] = e]
           \/ exec' = [exec EXCEPT ![x] = Returned(exec[x], "done")]
    BY <1>16, <1>g DEF Complete
  <2> HIDE DEF e
  <2> QED BY <2>1, <2>2, <1>p, <1>r, <1>g
(* main gives the row up, and waits no more. *)
<1>m. ASSUME NEW x \in Executions, exec[x].main = "waiting", Settle(x),
             UNCHANGED <<handler, op>>, exec[x].proc = "none" \/ exec[x].ctx # "live"
      PROVE  Abandoned' /\ Exclusive'
  <2> DEFINE e == IF exec[x].proc = "none" THEN Idle ELSE [exec[x] EXCEPT !.main = "idle"]
  <2>1. e.main = "idle" /\ Fit(e)
    BY <1>m, <1>g, <1>i, <1>w DEF Execution, Fit
  <2>2. exec' = [exec EXCEPT ![x] = e]
    BY <1>m, <1>g DEF Settle
  <2> HIDE DEF e
  <2>3. \A y \in Executions : exec'[y] = IF y = x THEN e ELSE exec[y]
    BY <2>2, <1>x
  <2>4. ~Disturbed => \A y \in Executions : y # x => exec[y].main # "waiting"
    BY <1>m, <1>g DEF Exclusive, Owns
  <2>5. Exclusive'
    BY <1>m, <2>1, <2>3, <2>4, <1>g, <1>d DEF Exclusive
  <2> QED BY <2>1, <2>2, <2>5, <1>x
<1>v. \A x \in Executions : exec[x].result # "none" => exec[x].proc = "none"
  BY <1>w DEF Fit
<1>17. ASSUME NEW x \in Executions, MainInterrupted(x) PROVE Abandoned' /\ Exclusive'
  BY <1>17, <1>m DEF MainInterrupted
<1>18. ASSUME NEW x \in Executions, MainTimedOut(x) PROVE Abandoned' /\ Exclusive'
  BY <1>18, <1>m DEF MainTimedOut
<1>19. ASSUME NEW x \in Executions, MainDone(x) PROVE Abandoned' /\ Exclusive'
  BY <1>19, <1>m, <1>v DEF MainDone
<1>20. ASSUME NEW x \in Executions, MainContinue(x) PROVE Abandoned' /\ Exclusive'
  BY <1>20, <1>m, <1>v DEF MainContinue
<1>21. ASSUME NEW x \in Executions, MainFailed(x) PROVE Abandoned' /\ Exclusive'
  BY <1>21, <1>m, <1>v DEF MainFailed
<1>22. ASSUME NEW u \in Users, NEW kind \in Kinds, BeginRequest(u, kind)
       PROVE  Abandoned' /\ Exclusive'
  <2>1. Disturbed'
    BY <1>22, <1>g, <1>k, SpendHappens DEF BeginRequest, Disturbed
  <2> QED BY <1>22, <2>1, <1>n, <1>a DEF BeginRequest
(* The other requests have begun, and an event handler has been called. *)
<1>y. ASSUME Disturbed, UNCHANGED exec PROVE Abandoned' /\ Exclusive'
  BY <1>y, <1>d, <1>n, <1>a
<1>23. ASSUME NEW u \in Users, UpdateStatus(u) PROVE Abandoned' /\ Exclusive'
  BY <1>23, <1>y, <1>g DEF UpdateStatus, Exclusive
<1>24. ASSUME NEW u \in Users, CommitRequest(u) PROVE Abandoned' /\ Exclusive'
  BY <1>24, <1>y, <1>g DEF CommitRequest, Exclusive
<1>25. ASSUME NEW u \in Users, RollbackRequest(u) PROVE Abandoned' /\ Exclusive'
  BY <1>25, <1>y, <1>g DEF RollbackRequest, Exclusive
<1>26. ASSUME NEW p \in Users \cup Executions, HandlerRead(p) PROVE Abandoned' /\ Exclusive'
  BY <1>26, <1>y, <1>g DEF HandlerRead, Exclusive
<1>27. ASSUME NEW p \in Users \cup Executions, HandlerWrite(p) PROVE Abandoned' /\ Exclusive'
  BY <1>27, <1>y, <1>g DEF HandlerWrite, Exclusive
(* Time, and what goes wrong outside. *)
<1>28. CASE BecomesDue
  <2>1. task.status # "running" /\ UNCHANGED <<exec, handler, op>>
    BY <1>28 DEF BecomesDue
  <2> QED BY <2>1, <1>a, <1>g, <1>d DEF Exclusive, Owns
<1>29. ASSUME NEW x \in Executions, Overrun(x) PROVE Abandoned' /\ Exclusive'
  <2>1. Disturbed'
    BY <1>29, <1>g, <1>k, SpendHappens DEF Overrun, Disturbed
  <2> DEFINE e == [exec[x] EXCEPT !.ctx = "deadline"]
  <2>2. Fit(e) /\ exec' = [exec EXCEPT ![x] = e]
    BY <1>29, <1>g, <1>w DEF Overrun, Fit, Execution
  <2> HIDE DEF e
  <2> QED BY <2>1, <2>2, <1>n, <1>x
<1>30. ASSUME NEW x \in Executions, DeadLeaseExpires(x) PROVE Abandoned' /\ Exclusive'
  <2>1. task.lease = x /\ exec[x].main = "idle" /\ UNCHANGED <<exec, handler, op>>
    BY <1>30 DEF DeadLeaseExpires
  <2>2. ~Disturbed => \A y \in Executions : exec[y].main # "waiting"
    BY <2>1, <1>g DEF Exclusive, Owns
  <2> QED BY <2>1, <2>2, <1>a, <1>g, <1>d DEF Exclusive
<1>31. ASSUME NEW x \in Executions, HangUp(x) PROVE Abandoned' /\ Exclusive'
  <2> DEFINE e == [exec[x] EXCEPT !.ctx = "canceled"]
  <2>1. Fit(e) /\ e.main = exec[x].main
    BY <1>g, <1>w DEF Fit, Execution
  <2>2. exec' = [exec EXCEPT ![x] = e] /\ UNCHANGED <<task, handler, op>>
    BY <1>31, <1>g DEF HangUp
  <2> HIDE DEF e
  <2> QED BY <2>1, <2>2, <1>x
<1>32. ASSUME NEW x \in Executions, Crash(x) PROVE Abandoned' /\ Exclusive'
  <2>1. \A p \in Users \cup Executions : handler'[p] = NoHandler \/ handler'[p] = handler[p]
    BY <1>32, <1>g DEF Crash
  <2>2. NoHandler.pc = "idle"
    BY DEF NoHandler
  <2>3. exec' = [exec EXCEPT ![x] = Idle] /\ UNCHANGED <<task, op>>
    BY <1>32 DEF Crash
  <2>4. \A y \in Executions : exec'[y] = IF y = x THEN Idle ELSE exec[y]
    BY <2>3, <1>x
  <2>5. Exclusive'
    BY <2>1, <2>2, <2>3, <2>4, <1>i, <1>g, <1>d DEF Exclusive, Owns
  <2> QED BY <2>3, <2>5, <1>i, <1>x
<1> QED
  <2>1. [Next]_vars
    OBVIOUS
  <2> QED
    BY <2>1, <1>0, <1>1, <1>2, <1>3, <1>4, <1>5, <1>6, <1>7, <1>8, <1>9, <1>10, <1>11, <1>12,
       <1>13, <1>14, <1>15, <1>16, <1>17, <1>18, <1>19, <1>20, <1>21, <1>22, <1>23, <1>24,
       <1>25, <1>26, <1>27, <1>28, <1>29, <1>30, <1>31, <1>32
       DEF Next, MainStep, ProcStep
-----------------------------------------------------------------------------
LEMMA InitOwner == Init => OwnerInv
<1> SUFFICES ASSUME Init PROVE OwnerInv
  OBVIOUS
<1>1. WithinBudget
  BY BudgetAssumption DEF Init, WithinBudget
<1>2. Abandoned /\ Exclusive
  BY DEF Init, Abandoned, Fit, Exclusive, Idle, NoHandler, NoRequest
<1> QED BY <1>1, <1>2 DEF OwnerInv

LEMMA Ownership == Spec => []OwnerInv
<1>1. Inv /\ OwnerInv /\ [Next]_vars => OwnerInv'
  BY OwnerStep
<1> QED BY Invariance, InitOwner, <1>1, PTL DEF Spec

(* Two processors with a live context work on the task together only after   *)
(* an execution overran its deadline, a user acted, or the recipient feed    *)
(* paused the broadcast: claims, crashes, shutdowns, lost dispatches, reaped *)
(* leases and retries never let a second one in.                             *)
THEOREM OneProcessor == Spec => []OneAtATime
<1>1. OwnerInv => OneAtATime
  <2> SUFFICES ASSUME OwnerInv, NEW x \in Executions, NEW y \in Executions, x # y,
                      Working(x), Working(y), ~Disturbed
               PROVE  FALSE
    BY DEF OneAtATime, Disturbed
  <2>1. exec[x].main = "waiting" /\ exec[y].main = "waiting"
    BY DEF OwnerInv, Abandoned, Fit, Working, Live
  <2> QED BY <2>1 DEF OwnerInv, Exclusive, Owns
<1> QED BY Ownership, <1>1, PTL
-----------------------------------------------------------------------------
(* No batch twice.  While nothing dies, is interrupted, overruns, goes       *)
(* unsaved, is paused or is asked of the console, the row's progress is the  *)
(* progress of the execution that holds it, and only the batch that          *)
(* execution has just sent lies beyond it.                                   *)
Calm == \A k \in {"crash", "hangup", "overrun", "unsaved", "op", "feed"} : ~Happened(k)

Sending(n) == \E x \in Executions : exec[x].proc = "sent" /\ n = exec[x].state.offset + 1

InStep(e) == e.ctx = "live" /\ (e.main = "waiting" => e.state.offset = task.state.offset)

Undisturbed ==
    Calm =>
        /\ \A x \in Executions : InStep(exec[x])
        /\ \A n \in 1 .. Batches :
             /\ enqueued[n] <= 1
             /\ n > task.state.offset /\ enqueued[n] > 0 => Sending(n)

(* The record of disturbances only grows. *)
LEMMA StaysHappened ==
    ASSUME TypeOK, WithinBudget, [Next]_vars, NEW k \in Disturbances
    PROVE  Used(k)' \in Nat /\ Used(k) \in Nat /\ Used(k) <= Used(k)'
           /\ (Happened(k) => Happened(k)')
<1>1. left' = left \/ \E j \in Disturbances : Spend(j)
  BY BudgetSpent
<1>2. left'[k] <= left[k] /\ left[k] \in Nat /\ left'[k] \in Nat
  BY <1>1 DEF TypeOK, Spend
<1>3. Budget[k] \in Nat /\ left[k] <= Budget[k]
  BY BudgetAssumption DEF WithinBudget
<1> QED BY <1>2, <1>3 DEF Used, Happened

LEMMA OnceStep == Inv /\ OwnerInv /\ Undisturbed /\ [Next]_vars => Undisturbed'
<1> SUFFICES ASSUME Inv, OwnerInv, Undisturbed, [Next]_vars, Calm' PROVE Undisturbed'
  BY DEF Undisturbed
<1>g. /\ TypeOK /\ WithinBudget /\ Abandoned /\ Exclusive
      /\ exec \in [Executions -> Execution] /\ task \in Task
      /\ enqueued \in [1 .. Batches -> 0 .. 2]
  BY DEF Inv, OwnerInv, TypeOK
<1>k. {"crash", "hangup", "overrun", "unsaved", "op", "feed"} \subseteq Disturbances
  BY DEF Disturbances
<1>s. ASSUME NEW k \in {"crash", "hangup", "overrun", "unsaved", "op", "feed"}, Spend(k)
      PROVE  FALSE
  BY <1>s, <1>k, <1>g, SpendHappens DEF Calm
<1>c. Calm /\ ~Disturbed
  BY <1>k, <1>g, StaysHappened DEF Calm, Disturbed
<1>u. /\ \A x \in Executions : InStep(exec[x])
      /\ \A n \in 1 .. Batches :
           /\ enqueued[n] <= 1
           /\ n > task.state.offset /\ enqueued[n] > 0 => Sending(n)
  BY <1>c DEF Undisturbed
<1>o. /\ \A x \in Executions : exec[x].main = "waiting" => Owns(x)
      /\ \A p \in Users \cup Executions : handler[p].pc = "idle"
      /\ \A u \in Users : op[u].pc = "idle"
  BY <1>c, <1>g DEF Exclusive
(* A processor at work is the one the row belongs to. *)
<1>w. \A x \in Executions :
        /\ exec[x].proc # "none" => exec[x].main = "waiting" /\ Owns(x)
        /\ exec[x].result # "none" => exec[x].proc = "none"
        /\ exec[x].ctx = "live"
  BY <1>g, <1>u, <1>o DEF Abandoned, Fit, InStep
(* One execution that was not just sending moves on, and the row's progress  *)
(* and the queue stay.                                                       *)
<1>x. ASSUME NEW x \in Executions, NEW e, exec' = [exec EXCEPT ![x] = e], e.ctx = "live",
             e.main = "waiting" => e.state.offset = task.state.offset,
             exec[x].proc # "sent",
             task'.state.offset = task.state.offset, enqueued' = enqueued
      PROVE  Undisturbed'
  <2>1. \A y \in Executions : exec'[y] = IF y = x THEN e ELSE exec[y]
    BY <1>x, <1>g
  <2>2. \A y \in Executions : InStep(exec[y])'
    BY <1>x, <2>1, <1>u DEF InStep
  <2>3. \A n : Sending(n) => Sending(n)'
    BY <1>x, <2>1 DEF Sending
  <2> QED BY <1>x, <2>2, <2>3, <1>u DEF Undisturbed
<1>e. ASSUME UNCHANGED <<exec, enqueued>>, task'.state = task.state PROVE Undisturbed'
  BY <1>e, <1>u DEF Undisturbed, InStep, Sending
<1>i. Idle.ctx = "live" /\ Idle.main = "idle"
  BY DEF Idle
(* The processor returns; its progress is the row's. *)
<1>r. ASSUME NEW x \in Executions, NEW e \in Execution, NEW r, e.ctx = "live",
             e.state.offset = exec[x].state.offset, e.main = exec[x].main,
             exec[x].proc # "sent",
             exec' = [exec EXCEPT ![x] = Returned(e, r)], UNCHANGED <<task, enqueued>>
      PROVE  Undisturbed'
  <2>1. /\ Returned(e, r).ctx = "live"
        /\ Returned(e, r).main = "waiting" => Returned(e, r).state.offset = task.state.offset
    BY <1>r, <1>i, <1>u DEF Returned, Execution, InStep
  <2> QED BY <1>r, <2>1, <1>x
<1>y. \A x \in Executions : exec[x] \in Execution
  BY <1>g
<1>0. CASE UNCHANGED vars
  BY <1>0, <1>e DEF vars
<1>1. ASSUME NEW x \in Executions, Dispatch(x) PROVE Undisturbed'
  <2> DEFINE e == [Idle EXCEPT !.main = "dispatched"]
  <2>1. e.ctx = "live" /\ e.main = "dispatched"
    BY DEF Idle
  <2>2. /\ exec' = [exec EXCEPT ![x] = e] /\ UNCHANGED <<task, enqueued>>
        /\ exec[x].proc = "none"
    BY <1>1 DEF Dispatch
  <2> HIDE DEF e
  <2> QED BY <2>1, <2>2, <1>x
<1>2. ASSUME NEW x \in Executions, DispatchLost(x) PROVE Undisturbed'
  BY <1>2, <1>i, <1>w, <1>x DEF DispatchLost
<1>3. ASSUME NEW x \in Executions, Claim(x) PROVE Undisturbed'
  <2> DEFINE e == [Idle EXCEPT !.main = "waiting", !.proc = "start", !.state = task.state,
                              !.last = task.retries + 1 >= MaxRetries]
  <2>1. e.ctx = "live" /\ e.state = task.state
    BY DEF Idle
  <2>2. /\ exec' = [exec EXCEPT ![x] = e] /\ enqueued' = enqueued
        /\ task' = MarkAsRunning(task, x) /\ exec[x].main = "dispatched"
    BY <1>3 DEF Claim
  <2> HIDE DEF e
  <2>3. task'.state = task.state
    BY <2>2, <1>g, RowClaimed
  <2>4. exec[x].proc # "sent"
    BY <2>2, <1>w
  <2> QED BY <2>1, <2>2, <2>3, <2>4, <1>x
<1>4. ASSUME NEW x \in Executions, ClaimRefused(x) PROVE Undisturbed'
  BY <1>4, <1>i, <1>w, <1>x DEF ClaimRefused
<1>5. ASSUME NEW x \in Executions, CountRecipients(x) PROVE Undisturbed'
  <2> DEFINE e == [exec[x] EXCEPT !.state.total = Batches]
  <2>1. /\ e \in Execution /\ e.main = exec[x].main /\ e.ctx = exec[x].ctx
        /\ e.state.offset = exec[x].state.offset
    BY <1>y DEF Execution, Progress
  <2>2. /\ exec' = [exec EXCEPT ![x] = Returned(e, "more")] /\ UNCHANGED <<task, enqueued>>
        /\ exec[x].proc = "start"
    BY <1>5, <1>g DEF CountRecipients
  <2> HIDE DEF e
  <2> QED BY <2>1, <2>2, <1>w, <1>r
(* The processor goes on, with the progress it has. *)
<1>p. ASSUME NEW x \in Executions,
             NEW q \in {"none", "start", "loop", "refreshed", "fetched", "sent", "failing"},
             exec' = [exec EXCEPT ![x] = [exec[x] EXCEPT !.proc = q]],
             exec[x].proc # "sent", UNCHANGED <<task, enqueued>>
      PROVE  Undisturbed'
  <2> DEFINE e == [exec[x] EXCEPT !.proc = q]
  <2>1. e.main = exec[x].main /\ e.ctx = exec[x].ctx /\ e.state = exec[x].state
    BY <1>y DEF Execution
  <2> HIDE DEF e
  <2>2. e.ctx = "live" /\ (e.main = "waiting" => e.state.offset = task.state.offset)
    BY <2>1, <1>u DEF InStep
  <2>3. exec' = [exec EXCEPT ![x] = e]
    BY <1>p DEF e
  <2> QED BY <2>2, <2>3, <1>p, <1>x
<1>6. ASSUME NEW x \in Executions, Prepare(x) PROVE Undisturbed'
  BY <1>6, <1>g, <1>p DEF Prepare
<1>7. ASSUME NEW x \in Executions, Refresh(x) PROVE Undisturbed'
  <2>1. /\ exec[x].proc = "loop" /\ UNCHANGED <<task, enqueued>>
        /\ \/ exec' = [exec EXCEPT ![x] = [exec[x] EXCEPT !.proc = "refreshed"]]
           \/ \E r \in {"done", "more"} : exec' = [exec EXCEPT ![x] = Returned(exec[x], r)]
    BY <1>7, <1>g DEF Refresh
  <2> QED BY <2>1, <1>p, <1>r, <1>w, <1>y
<1>8. ASSUME NEW x \in Executions, TimeUp(x) PROVE Undisturbed'
  BY <1>8, <1>r, <1>w, <1>y, <1>g DEF TimeUp
<1>9. ASSUME NEW x \in Executions, FetchBatch(x) PROVE Undisturbed'
  <2>1. /\ exec[x].proc = "refreshed" /\ UNCHANGED <<task, enqueued>>
        /\ \/ exec' = [exec EXCEPT ![x] = [exec[x] EXCEPT !.proc = "fetched"]]
           \/ exec' = [exec EXCEPT ![x] = Returned(exec[x], "done")]
    BY <1>9, <1>g DEF FetchBatch
  <2> QED BY <2>1, <1>p, <1>r, <1>w, <1>y
(* The batch past the row's progress is not in the queue yet: nobody else is *)
(* sending.                                                                  *)
<1>10. ASSUME NEW x \in Executions, SendBatch(x) PROVE Undisturbed'
  <2> DEFINE n == exec[x].state.offset + 1
             e == [exec[x] EXCEPT !.proc = "sent"]
  <2>1. /\ exec[x].proc = "fetched" /\ task' = task
        /\ enqueued' = [enqueued EXCEPT ![n] = IF @ = 2 THEN 2 ELSE @ + 1]
        /\ exec' = [exec EXCEPT ![x] = e]
    BY <1>10, <1>g DEF SendBatch
  <2>2. n \in 1 .. Batches
    BY <2>1, <1>y, BatchesAssumption DEF Inv, Progressed, Good, Execution, Progress
  <2>3. n > task.state.offset /\ n = task.state.offset + 1
    BY <2>1, <1>w, <1>u, <1>y DEF InStep, Execution, Progress
  <2>4. e.proc = "sent" /\ e.main = exec[x].main /\ e.ctx = exec[x].ctx /\ e.state = exec[x].state
    BY <1>y DEF Execution
  <2> HIDE DEF e
  <2>5. \A y \in Executions : exec'[y] = IF y = x THEN e ELSE exec[y]
    BY <2>1, <1>g
  <2>6. ~Sending(n)
    <3> SUFFICES ASSUME NEW y \in Executions, exec[y].proc = "sent" PROVE FALSE
      BY DEF Sending
    <3>1. Owns(x) /\ Owns(y)
      BY <2>1, <1>w
    <3> QED BY <3>1, <2>1 DEF Owns
  <2>7. enqueued[n] = 0
    <3>1. ~(enqueued[n] > 0) /\ enqueued[n] \in 0 .. 2
      BY <2>2, <2>3, <2>6, <1>u, <1>g
    <3> QED BY <3>1
  <2>8. ASSUME NEW m \in 1 .. Batches, m = n PROVE Sending(m)'
    <3>1. exec'[x].proc = "sent" /\ m = exec'[x].state.offset + 1
      BY <2>4, <2>5, <2>8 DEF n
    <3> QED BY <3>1 DEF Sending
  <2>9. \A m \in 1 .. Batches : m # n => enqueued'[m] = enqueued[m]
    BY <2>1, <1>g
  <2>10. enqueued'[n] = 1
    BY <2>1, <2>2, <2>7, <1>g
  <2>11. \A m : Sending(m) => Sending(m)'
    BY <2>1, <2>5 DEF Sending
  <2>12. \A m \in 1 .. Batches : enqueued'[m] <= 1 /\
           (m > task'.state.offset /\ enqueued'[m] > 0 => Sending(m)')
    <3> HIDE DEF n
    <3> SUFFICES ASSUME NEW m \in 1 .. Batches
                 PROVE  /\ enqueued'[m] <= 1
                        /\ m > task.state.offset /\ enqueued'[m] > 0 => Sending(m)'
      BY <2>1
    <3>1. CASE m = n
      BY <3>1, <2>8, <2>10
    <3>2. CASE m # n
      <4>1. enqueued'[m] = enqueued[m] /\ enqueued[m] <= 1
        BY <3>2, <2>9, <1>u
      <4>2. m > task.state.offset /\ enqueued[m] > 0 => Sending(m)'
        BY <2>11, <1>u
      <4> QED BY <4>1, <4>2
    <3> QED BY <3>1, <3>2
  <2>13. \A y \in Executions : InStep(exec[y])'
    BY <2>1, <2>4, <2>5, <1>u DEF InStep
  <2> QED BY <2>12, <2>13 DEF Undisturbed
(* The row's progress passes the batch that was sent, and nothing else.      *)
<1>11. ASSUME NEW x \in Executions, Advance(x) PROVE Undisturbed'
  <2> DEFINE s == [exec[x].state EXCEPT !.offset = @ + 1]
             e == [exec[x] EXCEPT !.state = s, !.proc = "loop"]
  <2>1. /\ exec[x].proc = "sent" /\ enqueued' = enqueued
        /\ exec' = [exec EXCEPT ![x] = e]
        /\ task' = SaveState(task, s)
    <3>1. ~Spend("unsaved")
      BY <1>s
    <3> QED BY <1>11, <3>1, <1>g DEF Advance
  <2>2. Owns(x) /\ exec[x].main = "waiting" /\ exec[x].state.offset = task.state.offset
    BY <2>1, <1>w, <1>u DEF InStep
  <2>3. s.offset = task.state.offset + 1 /\ task.state.offset \in Nat
    BY <2>2, <1>y, <1>g DEF Execution, Progress, Task
  <2>4. e.state = s /\ e.ctx = exec[x].ctx
    BY <1>y DEF Execution
  <2>5. task'.state = s
    BY <2>1, <2>2, <1>g DEF Owns, SaveState, Task
  <2> HIDE DEF e, s
  <2>6. \A y \in Executions : exec'[y] = IF y = x THEN e ELSE exec[y]
    BY <2>1, <1>g
  <2>7. \A y \in Executions : y # x => exec[y].main # "waiting" /\ exec[y].proc = "none"
    BY <2>2, <1>o, <1>w DEF Owns
  <2>8. \A y \in Executions : InStep(exec[y])'
    BY <2>4, <2>5, <2>6, <2>7, <1>u DEF InStep
  <2>9. \A m \in 1 .. Batches : Sending(m) => m = task.state.offset + 1
    BY <2>2, <2>7 DEF Sending
  <2>10. \A m \in 1 .. Batches : enqueued'[m] <= 1 /\ ~(m > task'.state.offset /\ enqueued'[m] > 0)
    <3> SUFFICES ASSUME NEW m \in 1 .. Batches
                 PROVE  enqueued[m] <= 1 /\ ~(m > task.state.offset + 1 /\ enqueued[m] > 0)
      BY <2>1, <2>3, <2>5
    <3>1. m > task.state.offset + 1 => m > task.state.offset /\ m # task.state.offset + 1
      BY <2>3
    <3> QED BY <3>1, <2>9, <1>u
  <2> QED BY <2>8, <2>10 DEF Undisturbed
<1>12. ASSUME NEW x \in Executions, ProcessFails(x) PROVE Undisturbed'
  BY <1>12, <1>g, <1>p DEF ProcessFails, FailsOn
<1>13. ASSUME NEW x \in Executions, NotStarted(x) PROVE Undisturbed'
  BY <1>13, <1>r, <1>w, <1>y DEF NotStarted
<1>14. ASSUME NEW x \in Executions, Finalize(x) PROVE Undisturbed'
  BY <1>14, <1>r, <1>w, <1>y DEF Finalize
<1>15. ASSUME NEW x \in Executions, FeedFails(x) PROVE Undisturbed'
  BY <1>15, <1>s DEF FeedFails
<1>16. ASSUME NEW x \in Executions, Complete(x) PROVE Undisturbed'
  <2>1. /\ exec[x].proc = "refreshed" /\ UNCHANGED <<task, enqueued>>
        /\ \/ exec' = [exec EXCEPT ![x] = [exec[x] EXCEPT !.proc = "failing"]]
           \/ exec' = [exec EXCEPT ![x] = Returned(exec[x], "done")]
    BY <1>16, <1>g DEF Complete
  <2> QED BY <2>1, <1>p, <1>r, <1>w, <1>y
(* main writes a status the row keeps its progress under, and waits no more. *)
<1>m. ASSUME NEW x \in Executions, exec[x].result # "none", Settle(x), enqueued' = enqueued,
             task'.state.offset = task.state.offset
      PROVE  Undisturbed'
  <2>1. exec[x].proc = "none"
    BY <1>m, <1>w
  <2>2. exec' = [exec EXCEPT ![x] = Idle]
    BY <1>m, <2>1, <1>g DEF Settle
  <2> QED BY <1>m, <2>1, <2>2, <1>i, <1>x
<1>17. ASSUME NEW x \in Executions, MainInterrupted(x) PROVE Undisturbed'
  BY <1>17, <1>w DEF MainInterrupted
<1>18. ASSUME NEW x \in Executions, MainTimedOut(x) PROVE Undisturbed'
  BY <1>18, <1>w DEF MainTimedOut
<1>v. \A x \in Executions :
        exec[x].state \in Progress
        /\ (exec[x].main = "waiting" => exec[x].state.offset = task.state.offset)
  BY <1>y, <1>u DEF Execution, InStep
<1>19. ASSUME NEW x \in Executions, MainDone(x) PROVE Undisturbed'
  <2>1. task'.state = exec[x].state /\ exec[x].main = "waiting"
    BY <1>19, <1>v, <1>g, RowCompleted DEF MainDone
  <2> QED BY <1>19, <2>1, <1>v, <1>m DEF MainDone
<1>20. ASSUME NEW x \in Executions, MainContinue(x) PROVE Undisturbed'
  <2>1. task'.state = exec[x].state /\ exec[x].main = "waiting"
    BY <1>20, <1>v, <1>g, RowPending DEF MainContinue
  <2> QED BY <1>20, <2>1, <1>v, <1>m DEF MainContinue
<1>21. ASSUME NEW x \in Executions, MainFailed(x) PROVE Undisturbed'
  <2>1. task'.state = task.state
    BY <1>21, <1>w, <1>g, RowFailed DEF MainFailed
  <2> QED BY <1>21, <2>1, <1>m DEF MainFailed
<1>22. ASSUME NEW u \in Users, NEW kind \in Kinds, BeginRequest(u, kind) PROVE Undisturbed'
  BY <1>22, <1>s DEF BeginRequest
<1>23. ASSUME NEW u \in Users, UpdateStatus(u) \/ CommitRequest(u) \/ RollbackRequest(u)
       PROVE  Undisturbed'
  BY <1>23, <1>o DEF UpdateStatus, CommitRequest, RollbackRequest
<1>26. ASSUME NEW p \in Users \cup Executions, HandlerRead(p) \/ HandlerWrite(p)
       PROVE  Undisturbed'
  BY <1>26, <1>o DEF HandlerRead, HandlerWrite
<1>28. CASE BecomesDue
  BY <1>28, <1>g, <1>e, RowDue DEF BecomesDue
<1>29. ASSUME NEW x \in Executions, Overrun(x) \/ HangUp(x) \/ Crash(x) PROVE Undisturbed'
  BY <1>29, <1>s DEF Overrun, HangUp, Crash
<1>30. ASSUME NEW x \in Executions, DeadLeaseExpires(x) PROVE Undisturbed'
  BY <1>30, <1>g, <1>e, RowExpired DEF DeadLeaseExpires
<1> QED
  <2>1. [Next]_vars
    OBVIOUS
  <2> QED
    BY <2>1, <1>0, <1>1, <1>2, <1>3, <1>4, <1>5, <1>6, <1>7, <1>8, <1>9, <1>10, <1>11, <1>12,
       <1>13, <1>14, <1>15, <1>16, <1>17, <1>18, <1>19, <1>20, <1>21, <1>22, <1>23, <1>26,
       <1>28, <1>29, <1>30
       DEF Next, MainStep, ProcStep

(* A batch reaches the queue a second time only if an execution was killed,  *)
(* interrupted or overran, its progress could not be saved, or the broadcast *)
(* was paused under it: failed batches, slices, lost dispatches and retries  *)
(* repeat nothing.                                                           *)
THEOREM OnceUnlessDisturbed == Spec => []OnceIfUndisturbed
<1>1. Init => Undisturbed
  BY BatchesAssumption DEF Init, Undisturbed, InStep, Idle, NewTask, NoProgress
<1>2. Inv /\ OwnerInv /\ Undisturbed => OnceIfUndisturbed
  <2> SUFFICES ASSUME Inv, Undisturbed, Calm, NEW n \in 1 .. Batches, enqueued[n] > 1
               PROVE  FALSE
    BY DEF OnceIfUndisturbed, Calm
  <2>1. enqueued[n] <= 1 /\ enqueued[n] \in 0 .. 2
    BY DEF Undisturbed, Inv, TypeOK
  <2> QED BY <2>1
<1> QED BY Invariance, Ownership, <1>1, <1>2, OnceStep, PTL DEF Spec
-----------------------------------------------------------------------------
(* Retries are spent by failures.  While no user acts, the row's retries and *)
(* the failures `main' has still to write down are no more than the failed   *)
(* batches, overruns and failed feeds together.                              *)
Charged(e) ==
    /\ e.main = "waiting"
    /\ \/ e.ctx = "deadline"
       \/ e.ctx = "live" /\ (e.proc = "failing" \/ e.result = "error")

Charges == {x \in Executions : Charged(exec[x])}

Failures == Used("error") + Used("overrun") + Used("feed")

(* Nobody at the console: the only events are those of a failed feed, and a  *)
(* broadcast that nobody may update any more was completed.                  *)
LeftAlone ==
    ~Happened("op") =>
        /\ \A u \in Users : op[u].pc = "idle"
        /\ \A p \in Users \cup Executions : handler[p].pc # "idle" => handler[p].kind = "pause"
        /\ bcast.status # "cancelled"
        /\ bcast.status = "processed" => bcast.completed

GivenUpAfter == task.status = "failed" => task.retries > MaxRetries

Accounted ==
    ~Happened("op") /\ ~bcast.completed =>
        IsFiniteSet(Charges) /\ task.retries + Cardinality(Charges) <= Failures

RetryInv == LeftAlone /\ GivenUpAfter /\ Accounted

(* A row that was not given up is given up only by MarkAsFailed, beyond the  *)
(* budget; a statement that leaves a row given up keeps its retries.         *)
LEMMA RowGivenUp ==
    ASSUME NEW t \in Task, t.status = "failed" => t.retries > MaxRetries,
           NEW x \in Executions, NEW s \in Progress, NEW c \in Task, NEW now \in BOOLEAN,
           NEW r,
           r \in {t, MarkAsRunning(t, x), SaveState(t, s), MarkAsCompleted(t, s),
                  MarkAsPaused(t, s), MarkAsPending(t, s), ReleaseTask(t, now),
                  ResumedTask(t, c), MarkAsFailed(t), FallsDue(t), LeaseExpires(t)}
    PROVE  r.status = "failed" => r.retries > MaxRetries
<1>1. CASE r = MarkAsFailed(t)
  <2>1. t.retries \in Nat /\ MaxRetries \in Nat
    BY MaxRetriesAssumption DEF Task
  <2>2. r.retries = t.retries + 1
    BY <1>1 DEF MarkAsFailed, Task
  <2>3. r.status = "failed" => ~(t.retries < MaxRetries)
    BY <1>1 DEF MarkAsFailed, Task
  <2> QED BY <2>1, <2>2, <2>3
<1>2. CASE r \in {t, SaveState(t, s), FallsDue(t), LeaseExpires(t), ReleaseTask(t, now)}
  <2>1. r.status = "failed" => t.status = "failed" /\ r.retries = t.retries
    BY <1>2 DEF Task, SaveState, FallsDue, LeaseExpires, ReleaseTask
  <2> QED BY <2>1
<1>3. CASE r \in {MarkAsRunning(t, x), MarkAsCompleted(t, s), MarkAsPaused(t, s),
                  MarkAsPending(t, s), ResumedTask(t, c)}
  BY <1>3 DEF Task, MarkAsRunning, MarkAsCompleted, MarkAsPaused, MarkAsPending, ResumedTask
<1> QED BY <1>1, <1>2, <1>3

(* Every step writes the row with one of the statements. *)
LEMMA GivenUpStep == TypeOK /\ GivenUpAfter /\ Progressed /\ [Next]_vars => GivenUpAfter'
<1> SUFFICES ASSUME TypeOK, GivenUpAfter, Progressed, [Next]_vars PROVE GivenUpAfter'
  OBVIOUS
<1>g. task \in Task /\ \A x \in Executions : exec[x] \in Execution /\ exec[x].state \in Progress
  BY DEF TypeOK, Execution
<1>w. ASSUME NEW x \in Executions, NEW s \in Progress, NEW c \in Task, NEW now \in BOOLEAN,
             task' \in {task, MarkAsRunning(task, x), SaveState(task, s),
                        MarkAsCompleted(task, s), MarkAsPaused(task, s),
                        MarkAsPending(task, s), ReleaseTask(task, now),
                        ResumedTask(task, c), MarkAsFailed(task), FallsDue(task),
                        LeaseExpires(task)}
      PROVE  GivenUpAfter'
  <2>1. task'.status = "failed" => task'.retries > MaxRetries
    BY <1>w, <1>g, RowGivenUp DEF GivenUpAfter
  <2> QED BY <2>1 DEF GivenUpAfter
<1>b. TRUE \in BOOLEAN /\ FALSE \in BOOLEAN
  OBVIOUS
<1>s. ASSUME task' = task PROVE GivenUpAfter'
  BY <1>s DEF GivenUpAfter
<1>1. ASSUME NEW x \in Executions, Advance(x) PROVE GivenUpAfter'
  <2> DEFINE s == [exec[x].state EXCEPT !.offset = @ + 1]
  <2>1. exec[x].state \in Progress /\ exec[x].state.offset < Batches
    BY <1>1, <1>g DEF Progressed, Good, Advance
  <2>2. s \in Progress
    BY <2>1, BatchesAssumption DEF Progress
  <2>3. task' = SaveState(task, s) \/ task' = task
    BY <1>1 DEF Advance
  <2> HIDE DEF s
  <2> QED BY <2>2, <2>3, <1>w, <1>g, <1>b
<1>2. ASSUME NEW x \in Executions, ProcStep(x) PROVE GivenUpAfter'
  <2>1. Advance(x) \/ task' = task
    BY <1>2 DEF ProcStep, CountRecipients, Prepare, Refresh, TimeUp, FetchBatch, SendBatch,
       ProcessFails, NotStarted, Finalize, FeedFails, Complete
  <2> QED BY <2>1, <1>1, <1>s
<1>3. ASSUME NEW x \in Executions, MainStep(x) PROVE GivenUpAfter'
  <2>1. task' \in {task, MarkAsRunning(task, x), ReleaseTask(task, FALSE),
                   ReleaseTask(task, TRUE), MarkAsFailed(task),
                   MarkAsCompleted(task, exec[x].state), MarkAsPending(task, exec[x].state)}
    BY <1>3 DEF MainStep, Claim, ClaimRefused, MainInterrupted, MainTimedOut, MainDone,
       MainContinue, MainFailed
  <2> QED BY <2>1, <1>w, <1>g, <1>b
<1>4. ASSUME NEW x \in Executions,
             \/ Dispatch(x) \/ DispatchLost(x) \/ Overrun(x) \/ DeadLeaseExpires(x)
             \/ HangUp(x) \/ Crash(x)
      PROVE  GivenUpAfter'
  <2>1. task' \in {task, LeaseExpires(task)}
    BY <1>4 DEF Dispatch, DispatchLost, Overrun, DeadLeaseExpires, HangUp, Crash
  <2> QED BY <2>1, <1>w, <1>g, <1>b
<1>5. ASSUME NEW u \in Users,
             \/ \E kind \in Kinds : BeginRequest(u, kind)
             \/ UpdateStatus(u) \/ CommitRequest(u) \/ RollbackRequest(u)
      PROVE  GivenUpAfter'
  BY <1>5, <1>s DEF BeginRequest, UpdateStatus, CommitRequest, RollbackRequest
(* The statements that name no execution. *)
<1>n. ASSUME NEW s \in Progress, NEW c \in Task,
             task' \in {MarkAsPaused(task, s), ResumedTask(task, c), MarkAsFailed(task),
                        FallsDue(task)}
      PROVE  GivenUpAfter'
  <2>1. CASE task' = MarkAsPaused(task, s) \/ task' = ResumedTask(task, c)
    BY <2>1, <1>g DEF GivenUpAfter, MarkAsPaused, ResumedTask, Task
  <2>2. CASE task' = FallsDue(task)
    BY <2>2, <1>g DEF GivenUpAfter, FallsDue, Task
  <2>3. CASE task' = MarkAsFailed(task)
    <3>1. task.retries \in Nat /\ MaxRetries \in Nat
      BY <1>g, MaxRetriesAssumption DEF Task
    <3>2. task'.retries = task.retries + 1
      BY <2>3, <1>g DEF MarkAsFailed, Task
    <3>3. task'.status = "failed" => ~(task.retries < MaxRetries)
      BY <2>3, <1>g DEF MarkAsFailed, Task
    <3> QED BY <3>1, <3>2, <3>3 DEF GivenUpAfter
  <2> QED BY <1>n, <2>1, <2>2, <2>3
<1>6. ASSUME NEW p \in Users \cup Executions, HandlerRead(p) \/ HandlerWrite(p)
      PROVE  GivenUpAfter'
  <2>1. handler[p].copy \in Task /\ handler[p].copy.state \in Progress
    BY DEF TypeOK, Handler, Task
  <2>2. \/ task' = task
        \/ task' \in {MarkAsPaused(task, handler[p].copy.state),
                      ResumedTask(task, handler[p].copy), MarkAsFailed(task)}
    BY <1>6 DEF HandlerRead, HandlerWrite
  <2> QED BY <2>1, <2>2, <1>n, <1>s
<1>7. CASE BecomesDue
  <2>1. task' = FallsDue(task) /\ task.state \in Progress
    BY <1>7, <1>g DEF BecomesDue, Task
  <2> QED BY <2>1, <1>n, <1>g
<1>8. CASE UNCHANGED vars
  BY <1>8, <1>s DEF vars
<1> QED BY <1>2, <1>3, <1>4, <1>5, <1>6, <1>7, <1>8 DEF Next

(* Outside a user's action the broadcast is only completed, failed or paused *)
(* by the processor.                                                         *)
LEMMA UnattendedStep == TypeOK /\ WithinBudget /\ LeftAlone /\ [Next]_vars => LeftAlone'
<1> SUFFICES ASSUME TypeOK, WithinBudget, LeftAlone, [Next]_vars, ~Happened("op")'
             PROVE  LeftAlone'
  BY DEF LeftAlone
<1>k. "op" \in Disturbances
  BY DEF Disturbances
<1>s. ~Spend("op")
  BY <1>k, SpendHappens
<1>o. ~Happened("op")
  BY <1>k, StaysHappened
<1>u. /\ \A u \in Users : op[u].pc = "idle"
      /\ \A p \in Users \cup Executions : handler[p].pc # "idle" => handler[p].kind = "pause"
      /\ bcast.status # "cancelled"
      /\ bcast.status = "processed" => bcast.completed
      /\ bcast \in Broadcast /\ handler \in [Users \cup Executions -> Handler]
  BY <1>o DEF LeftAlone, TypeOK
<1>w. ASSUME NEW b \in Broadcast, UpdateBroadcast(b), b.status # "cancelled",
             b.status = "processed" => b.completed
      PROVE  bcast'.status # "cancelled" /\ (bcast'.status = "processed" => bcast'.completed)
  BY <1>w, <1>u DEF UpdateBroadcast
<1>e. ASSUME UNCHANGED <<bcast, op, handler>> PROVE LeftAlone'
  BY <1>e, <1>u DEF LeftAlone
<1>1. ASSUME NEW x \in Executions, ProcStep(x) PROVE LeftAlone'
  <2>1. CASE Finalize(x)
    <3>1. /\ [bcast EXCEPT !.status = "failed"] \in Broadcast
          /\ [bcast EXCEPT !.status = "paused"] \in Broadcast
      BY <1>u DEF Broadcast, BroadcastStatuses
    <3>2. \/ bcast' = bcast
          \/ UpdateBroadcast([bcast EXCEPT !.status = "failed"])
          \/ UpdateBroadcast([bcast EXCEPT !.status = "paused"])
      BY <2>1 DEF Finalize
    <3>3. bcast'.status # "cancelled" /\ (bcast'.status = "processed" => bcast'.completed)
      BY <3>1, <3>2, <1>u, <1>w DEF Broadcast
    <3> QED BY <2>1, <3>3, <1>u DEF Finalize, LeftAlone
  <2>2. CASE FeedFails(x)
    <3>1. [bcast EXCEPT !.status = "paused"] \in Broadcast
      BY <1>u DEF Broadcast, BroadcastStatuses
    <3>2. bcast'.status # "cancelled" /\ (bcast'.status = "processed" => bcast'.completed)
      BY <2>2, <3>1, <1>u, <1>w DEF FeedFails, Broadcast
    <3>3. \A p \in Users \cup Executions :
            \/ handler'[p] = handler[p]
            \/ handler'[p] = [handler[p] EXCEPT !.pc = "published", !.kind = "pause"]
      BY <2>2, <1>u DEF FeedFails
    <3>4. \A p \in Users \cup Executions : handler'[p].pc # "idle" => handler'[p].kind = "pause"
      BY <3>3, <1>u DEF Handler
    <3> QED BY <2>2, <3>2, <3>4, <1>u DEF FeedFails, LeftAlone
  <2>3. CASE Complete(x)
    <3>1. [status |-> "processed", completed |-> TRUE] \in Broadcast
      BY DEF Broadcast, BroadcastStatuses
    <3>2. bcast'.status # "cancelled" /\ (bcast'.status = "processed" => bcast'.completed)
      BY <2>3, <3>1, <1>w DEF Complete
    <3> QED BY <2>3, <3>2, <1>u DEF Complete, LeftAlone
  <2>4. CASE UNCHANGED <<bcast, op, handler>>
    BY <2>4, <1>e
  <2> QED BY <1>1, <2>1, <2>2, <2>3, <2>4 DEF ProcStep, CountRecipients, Prepare, Refresh,
         TimeUp, FetchBatch, SendBatch, Advance, ProcessFails, NotStarted
<1>2. ASSUME NEW x \in Executions,
             \/ MainStep(x) \/ Dispatch(x) \/ DispatchLost(x) \/ Overrun(x)
             \/ DeadLeaseExpires(x) \/ HangUp(x)
      PROVE  LeftAlone'
  BY <1>2, <1>e DEF MainStep, Claim, ClaimRefused, MainInterrupted, MainTimedOut, MainDone,
     MainContinue, MainFailed, Dispatch, DispatchLost, Overrun, DeadLeaseExpires, HangUp
<1>i. NoHandler.pc = "idle"
  BY DEF NoHandler
<1>h. ASSUME UNCHANGED <<bcast, op>>,
             \A p \in Users \cup Executions :
               \/ handler'[p] = handler[p] \/ handler'[p].pc = "idle"
               \/ handler[p].pc # "idle" /\ handler'[p].kind = handler[p].kind
      PROVE  LeftAlone'
  BY <1>h, <1>u DEF LeftAlone
<1>3. ASSUME NEW x \in Executions, Crash(x) PROVE LeftAlone'
  <2>1. \A p \in Users \cup Executions : handler'[p] = NoHandler \/ handler'[p] = handler[p]
    BY <1>3, <1>u DEF Crash
  <2> QED BY <1>3, <2>1, <1>i, <1>h DEF Crash
<1>4. ASSUME NEW u \in Users,
             \/ \E kind \in Kinds : BeginRequest(u, kind)
             \/ UpdateStatus(u) \/ CommitRequest(u) \/ RollbackRequest(u)
      PROVE  FALSE
  BY <1>4, <1>s, <1>u DEF BeginRequest, UpdateStatus, CommitRequest, RollbackRequest
<1>5. ASSUME NEW p \in Users \cup Executions, HandlerRead(p) PROVE LeftAlone'
  <2> DEFINE h == [handler[p] EXCEPT !.pc = "read", !.copy = task]
  <2>1. h.kind = handler[p].kind /\ handler[p].pc = "published"
    BY <1>5, <1>u DEF Handler, HandlerRead
  <2>2. \A q \in Users \cup Executions :
          handler'[q] = handler[q] \/ handler'[q] = NoHandler \/ (q = p /\ handler'[q] = h)
    BY <1>5, <1>u DEF HandlerRead
  <2> HIDE DEF h
  <2>3. UNCHANGED <<bcast, op>>
    BY <1>5 DEF HandlerRead
  <2>4. \A q \in Users \cup Executions :
          \/ handler'[q] = handler[q] \/ handler'[q].pc = "idle"
          \/ handler[q].pc # "idle" /\ handler'[q].kind = handler[q].kind
    BY <2>1, <2>2, <1>i
  <2> QED BY <2>3, <2>4, <1>h
<1>6. ASSUME NEW p \in Users \cup Executions, HandlerWrite(p) PROVE LeftAlone'
  <2>1. \A q \in Users \cup Executions : handler'[q] = NoHandler \/ handler'[q] = handler[q]
    BY <1>6, <1>u DEF HandlerWrite
  <2> QED BY <1>6, <2>1, <1>i, <1>h DEF HandlerWrite
<1>7. CASE BecomesDue \/ UNCHANGED vars
  BY <1>7, <1>e DEF BecomesDue, vars
<1> QED BY <1>1, <1>2, <1>3, <1>4, <1>5, <1>6, <1>7 DEF Next

(* A set that loses members, gains one, or loses one of its own.             *)
LEMMA Recount ==
    ASSUME NEW S, NEW T, IsFiniteSet(S), NEW x
    PROVE  /\ Cardinality(S) \in Nat
           /\ T \subseteq S => IsFiniteSet(T) /\ Cardinality(T) <= Cardinality(S)
           /\ T \subseteq S \cup {x} => IsFiniteSet(T) /\ Cardinality(T) <= Cardinality(S) + 1
           /\ x \in S /\ T \subseteq S \ {x} =>
                IsFiniteSet(T) /\ Cardinality(T) + 1 <= Cardinality(S)
<1>1. Cardinality(S) \in Nat
  BY FS_CardinalityType
<1>2. ASSUME T \subseteq S PROVE IsFiniteSet(T) /\ Cardinality(T) <= Cardinality(S)
  BY <1>2, FS_Subset
<1>3. ASSUME T \subseteq S \cup {x}
      PROVE  IsFiniteSet(T) /\ Cardinality(T) <= Cardinality(S) + 1
  <2>1. /\ IsFiniteSet(S \cup {x})
        /\ \/ Cardinality(S \cup {x}) = Cardinality(S)
           \/ Cardinality(S \cup {x}) = Cardinality(S) + 1
    BY FS_AddElement
  <2>2. IsFiniteSet(T) /\ Cardinality(T) <= Cardinality(S \cup {x}) /\ Cardinality(T) \in Nat
    BY <1>3, <2>1, FS_Subset, FS_CardinalityType
  <2> QED BY <1>1, <2>1, <2>2
<1>4. ASSUME x \in S, T \subseteq S \ {x}
      PROVE  IsFiniteSet(T) /\ Cardinality(T) + 1 <= Cardinality(S)
  <2>1. IsFiniteSet(S \ {x}) /\ Cardinality(S \ {x}) = Cardinality(S) - 1
    BY <1>4, FS_RemoveElement
  <2>2. IsFiniteSet(T) /\ Cardinality(T) <= Cardinality(S \ {x}) /\ Cardinality(T) \in Nat
    BY <1>4, <2>1, FS_Subset, FS_CardinalityType
  <2> QED BY <1>1, <2>1, <2>2
<1> QED BY <1>1, <1>2, <1>3, <1>4

(* What a processor returns is charged no more than the execution that       *)
(* returns it, unless it returns an error.                                   *)
LEMMA ChargedReturn ==
    ASSUME NEW e \in Execution, NEW r
    PROVE  /\ Charged(Returned(e, r)) => e.main = "waiting"
           /\ Charged(Returned(e, r)) /\ e.ctx # "live" => Charged(e)
           /\ Charged(Returned(e, r)) /\ r # "error" => Charged(e)
           /\ Charged(Returned(e, r)) /\ e.proc = "failing" => Charged(e)
<1>1. ~Charged(Idle)
  BY DEF Charged, Idle
<1> QED BY <1>1 DEF Returned, Charged, Execution

LEMMA AccountStep ==
    Inv /\ OwnerInv /\ LeftAlone /\ Accounted /\ [Next]_vars => Accounted'
<1> SUFFICES ASSUME Inv, OwnerInv, LeftAlone, Accounted, [Next]_vars,
                    ~Happened("op")', ~bcast'.completed
             PROVE  IsFiniteSet(Charges') /\ task'.retries + Cardinality(Charges') <= Failures'
  BY DEF Accounted
<1> DEFINE Kept == IsFiniteSet(Charges') /\ task'.retries + Cardinality(Charges') <= Failures'
<1>g. /\ TypeOK /\ WithinBudget /\ Abandoned
      /\ exec \in [Executions -> Execution] /\ task \in Task /\ task.retries \in Nat
      /\ \A x \in Executions : exec[x] \in Execution /\ exec[x].state \in Progress
      /\ bcast \in Broadcast
  BY DEF Inv, OwnerInv, TypeOK, Task, Execution
<1>k. {"op", "error", "overrun", "feed"} \subseteq Disturbances
  BY DEF Disturbances
<1>o. ~Happened("op") /\ ~Spend("op")
  BY <1>g, <1>k, SpendHappens, StaysHappened
<1>u. /\ \A u \in Users : op[u].pc = "idle"
      /\ \A p \in Users \cup Executions : handler[p].pc # "idle" => handler[p].kind = "pause"
      /\ bcast.status # "cancelled"
      /\ bcast.status = "processed" => bcast.completed
  BY <1>o DEF LeftAlone
<1>f. Failures \in Nat /\ Failures' \in Nat /\ Failures <= Failures'
  <2>1. \A k \in {"error", "overrun", "feed"} :
          Used(k)' \in Nat /\ Used(k) \in Nat /\ Used(k) <= Used(k)'
    BY <1>g, <1>k, StaysHappened
  <2>2. /\ Used("error")' \in Nat /\ Used("error") \in Nat /\ Used("error") <= Used("error")'
        /\ Used("overrun")' \in Nat /\ Used("overrun") \in Nat
        /\ Used("overrun") <= Used("overrun")'
        /\ Used("feed")' \in Nat /\ Used("feed") \in Nat /\ Used("feed") <= Used("feed")'
    BY <2>1
  <2> QED BY <2>2 DEF Failures
<1>s. ASSUME NEW k \in {"error", "overrun", "feed"}, Spend(k) PROVE Failures' >= Failures + 1
  <2>1. /\ left' = [left EXCEPT ![k] = @ - 1] /\ left \in [Disturbances -> Nat]
        /\ k \in Disturbances /\ left[k] > 0
    BY <1>s, <1>g, <1>k DEF Spend, TypeOK
  <2>2. /\ \A j \in Disturbances : j # k => left'[j] = left[j]
        /\ left'[k] = left[k] - 1 /\ left[k] \in Nat
    BY <2>1
  <2>3. \A j \in {"error", "overrun", "feed"} : Budget[j] \in Nat /\ left[j] \in Nat
    BY <2>1, <1>k, BudgetAssumption
  <2>4. /\ Budget["error"] \in Nat /\ left["error"] \in Nat
        /\ Budget["overrun"] \in Nat /\ left["overrun"] \in Nat
        /\ Budget["feed"] \in Nat /\ left["feed"] \in Nat
    BY <2>3
  <2>5. CASE k = "error"
    BY <2>2, <2>4, <2>5, <1>k DEF Failures, Used
  <2>6. CASE k = "overrun"
    BY <2>2, <2>4, <2>6, <1>k DEF Failures, Used
  <2>7. CASE k = "feed"
    BY <2>2, <2>4, <2>7, <1>k DEF Failures, Used
  <2> QED BY <1>s, <2>5, <2>6, <2>7
(* A completion is never taken back by the processor. *)
<1>c. ~bcast.completed
  <2>1. CASE \E x \in Executions : ProcStep(x)
    <3>1. bcast.completed => bcast'.completed
      BY <2>1, <1>g DEF ProcStep, CountRecipients, Prepare, Refresh, TimeUp, FetchBatch,
         SendBatch, Advance, ProcessFails, NotStarted, Finalize, FeedFails, Complete,
         UpdateBroadcast, Broadcast
    <3> QED BY <3>1
  <2>2. CASE bcast' = bcast
    BY <2>2
  <2>3. CASE \E u \in Users : CommitRequest(u)
    BY <2>3, <1>u DEF CommitRequest
  <2> QED BY <2>1, <2>2, <2>3 DEF Next, MainStep, Claim, ClaimRefused, MainInterrupted,
         MainTimedOut, MainDone, MainContinue, MainFailed, Dispatch, DispatchLost, Overrun,
         DeadLeaseExpires, HangUp, Crash, BeginRequest, UpdateStatus, RollbackRequest,
         HandlerRead, HandlerWrite, BecomesDue, vars
<1>a. IsFiniteSet(Charges) /\ task.retries + Cardinality(Charges) <= Failures
  BY <1>o, <1>c DEF Accounted
(* Charges disappear, one is added and a failure is on record, or one moves  *)
(* into the retries.                                                         *)
<1>x. ASSUME NEW x \in Executions, task'.retries \in Nat,
             \/ Charges' \subseteq Charges /\ task'.retries <= task.retries
             \/ /\ Charges' \subseteq Charges \cup {x} /\ task'.retries = task.retries
                /\ Failures' >= Failures + 1
             \/ /\ x \in Charges /\ Charges' \subseteq Charges \ {x}
                /\ task'.retries = task.retries + 1
      PROVE  Kept
  <2> DEFINE T == Charges'
  <2>1. /\ Cardinality(Charges) \in Nat
        /\ T \subseteq Charges => IsFiniteSet(T) /\ Cardinality(T) <= Cardinality(Charges)
        /\ T \subseteq Charges \cup {x} =>
             IsFiniteSet(T) /\ Cardinality(T) <= Cardinality(Charges) + 1
        /\ x \in Charges /\ T \subseteq Charges \ {x} =>
             IsFiniteSet(T) /\ Cardinality(T) + 1 <= Cardinality(Charges)
    <3> HIDE DEF T
    <3> QED BY <1>a, Recount
  <2>2. IsFiniteSet(T) => Cardinality(T) \in Nat
    BY FS_CardinalityType
  <2> QED BY <2>1, <2>2, <1>x, <1>a, <1>f, <1>g
<1>l. ASSUME Charges' \subseteq Charges, task'.retries \in Nat, task'.retries <= task.retries
      PROVE  Kept
  <2> DEFINE T == Charges'
  <2>1. /\ Cardinality(Charges) \in Nat
        /\ T \subseteq Charges => IsFiniteSet(T) /\ Cardinality(T) <= Cardinality(Charges)
    <3> HIDE DEF T
    <3> QED BY <1>a, Recount
  <2>2. IsFiniteSet(T) => Cardinality(T) \in Nat
    BY FS_CardinalityType
  <2> QED BY <2>1, <2>2, <1>l, <1>a, <1>f, <1>g
<1>e. ASSUME NEW x \in Executions, NEW e, exec' = [exec EXCEPT ![x] = e]
      PROVE  /\ Charges' \subseteq Charges \cup {x}
             /\ (Charged(e) => Charged(exec[x])) => Charges' \subseteq Charges
             /\ ~Charged(e) => Charges' \subseteq Charges \ {x}
  <2>1. \A y \in Executions : exec'[y] = IF y = x THEN e ELSE exec[y]
    BY <1>e, <1>g
  <2>2. Charges' = {y \in Executions : Charged(exec'[y])}
    BY DEF Charges, Charged
  <2> QED BY <2>1, <2>2 DEF Charges
<1>q. ASSUME UNCHANGED exec PROVE Charges' = Charges
  BY <1>q DEF Charges, Charged
<1>i. ~Charged(Idle)
  BY DEF Charged, Idle
<1>r. task.retries <= task.retries
  BY <1>g
<1>0. CASE UNCHANGED vars
  BY <1>0, <1>q, <1>l, <1>r, <1>g DEF vars
(* An execution changes and is charged no more than before. *)
<1>n. ASSUME NEW x \in Executions, NEW e, exec' = [exec EXCEPT ![x] = e],
             Charged(e) => Charged(exec[x]), task'.retries \in Nat,
             task'.retries <= task.retries
      PROVE  Kept
  BY <1>n, <1>e, <1>l
(* A failure is put on record while the row keeps its retries. *)
<1>b. ASSUME NEW x \in Executions, NEW e, exec' = [exec EXCEPT ![x] = e],
             task'.retries = task.retries, NEW k \in {"error", "overrun", "feed"}, Spend(k)
      PROVE  Kept
  BY <1>b, <1>e, <1>x, <1>s, <1>g
<1>1. ASSUME NEW x \in Executions, Dispatch(x) PROVE Kept
  <2>1. ~Charged([Idle EXCEPT !.main = "dispatched"])
    BY DEF Charged, Idle
  <2> QED BY <1>1, <2>1, <1>n, <1>r, <1>g DEF Dispatch
<1>2. ASSUME NEW x \in Executions, DispatchLost(x) PROVE Kept
  BY <1>2, <1>i, <1>n, <1>r, <1>g DEF DispatchLost
<1>3. ASSUME NEW x \in Executions, Claim(x) PROVE Kept
  <2>1. ~Charged([Idle EXCEPT !.main = "waiting", !.proc = "start", !.state = task.state,
                              !.last = task.retries + 1 >= MaxRetries])
    BY DEF Charged, Idle
  <2>2. task'.retries = task.retries
    BY <1>3, <1>g DEF Claim, MarkAsRunning, Task
  <2> QED BY <1>3, <2>1, <2>2, <1>n, <1>r, <1>g DEF Claim
<1>4. ASSUME NEW x \in Executions, ClaimRefused(x) PROVE Kept
  BY <1>4, <1>i, <1>n, <1>r, <1>g DEF ClaimRefused
<1>5. ASSUME NEW x \in Executions, CountRecipients(x) PROVE Kept
  <2> DEFINE e == [exec[x] EXCEPT !.state.total = Batches]
  <2>1. /\ e \in Execution /\ e.main = exec[x].main /\ e.ctx = exec[x].ctx
        /\ e.proc = exec[x].proc /\ e.result = exec[x].result
    BY <1>g DEF Execution, Progress
  <2>2. exec' = [exec EXCEPT ![x] = Returned(e, "more")] /\ task' = task
    BY <1>5, <1>g DEF CountRecipients
  <2>3. Charged(e) => Charged(exec[x])
    BY <2>1 DEF Charged
  <2> HIDE DEF e
  <2> QED BY <2>1, <2>2, <2>3, <1>n, <1>r, <1>g, ChargedReturn
(* The processor goes on. *)
<1>p. ASSUME NEW x \in Executions,
             NEW q \in {"loop", "refreshed", "fetched", "sent"},
             exec' = [exec EXCEPT ![x] = [exec[x] EXCEPT !.proc = q]], task' = task
      PROVE  Kept
  <2>1. Charged([exec[x] EXCEPT !.proc = q]) => Charged(exec[x])
    BY <1>p, <1>g DEF Charged, Execution
  <2> QED BY <1>p, <2>1, <1>n, <1>r, <1>g
(* The processor returns without an error. *)
<1>d. ASSUME NEW x \in Executions, NEW r \in {"done", "more"},
             exec' = [exec EXCEPT ![x] = Returned(exec[x], r)], task' = task
      PROVE  Kept
  <2>1. Charged(Returned(exec[x], r)) => Charged(exec[x])
    BY <1>d, <1>g, ChargedReturn
  <2> QED BY <1>d, <2>1, <1>n, <1>r, <1>g
<1>6. ASSUME NEW x \in Executions, Prepare(x) PROVE Kept
  BY <1>6, <1>g, <1>p DEF Prepare
<1>7. ASSUME NEW x \in Executions, Refresh(x) PROVE Kept
  BY <1>7, <1>g, <1>p, <1>d DEF Refresh
<1>8. ASSUME NEW x \in Executions, TimeUp(x) PROVE Kept
  BY <1>8, <1>g, <1>d DEF TimeUp
<1>9. ASSUME NEW x \in Executions, FetchBatch(x) PROVE Kept
  BY <1>9, <1>g, <1>p, <1>d DEF FetchBatch
<1>10. ASSUME NEW x \in Executions, SendBatch(x) PROVE Kept
  BY <1>10, <1>g, <1>p DEF SendBatch
<1>11. ASSUME NEW x \in Executions, Advance(x) PROVE Kept
  <2> DEFINE s == [exec[x].state EXCEPT !.offset = @ + 1]
             e == [exec[x] EXCEPT !.state = s, !.proc = "loop"]
  <2>1. /\ exec' = [exec EXCEPT ![x] = e]
        /\ task' = SaveState(task, s) \/ task' = task
    BY <1>11, <1>g DEF Advance
  <2>2. Charged(e) => Charged(exec[x])
    BY <1>g DEF Charged, Execution
  <2>3. task'.retries = task.retries
    BY <2>1, <1>g DEF SaveState, Task
  <2> HIDE DEF e, s
  <2> QED BY <2>1, <2>2, <2>3, <1>n, <1>r, <1>g
<1>12. ASSUME NEW x \in Executions, ProcessFails(x) PROVE Kept
  <2>1. exec' = [exec EXCEPT ![x] = [exec[x] EXCEPT !.proc = "failing"]] /\ task' = task
    BY <1>12, <1>g DEF ProcessFails
  <2>2. CASE Live(x)
    BY <1>12, <2>1, <2>2, <1>b DEF ProcessFails
  <2>3. CASE ~Live(x)
    <3>1. Charged([exec[x] EXCEPT !.proc = "failing"]) => Charged(exec[x])
      BY <2>3, <1>g DEF Live, Charged, Execution
    <3> QED BY <2>1, <3>1, <1>n, <1>r, <1>g
  <2> QED BY <2>2, <2>3
<1>13. ASSUME NEW x \in Executions, NotStarted(x) PROVE Kept
  <2>1. Charged(Returned(exec[x], "error")) => Charged(exec[x])
    BY <1>13, <1>g, ChargedReturn DEF NotStarted, Live
  <2> QED BY <1>13, <2>1, <1>n, <1>r, <1>g DEF NotStarted
<1>14. ASSUME NEW x \in Executions, Finalize(x) PROVE Kept
  <2>1. Charged(Returned(exec[x], "error")) => Charged(exec[x])
    BY <1>14, <1>g, ChargedReturn DEF Finalize
  <2> QED BY <1>14, <2>1, <1>n, <1>r, <1>g DEF Finalize
<1>15. ASSUME NEW x \in Executions, FeedFails(x) PROVE Kept
  BY <1>15, <1>b DEF FeedFails
(* The broadcast is not completed, so it may still be updated. *)
<1>16. ASSUME NEW x \in Executions, Complete(x) PROVE Kept
  <2>1. Updatable
    BY <1>c, <1>u DEF Updatable
  <2> QED BY <1>16, <2>1, <1>g, <1>d DEF Complete
(* main waits no more. *)
<1>m. ASSUME NEW x \in Executions, Settle(x), task'.retries \in Nat,
             \/ task'.retries <= task.retries
             \/ Charged(exec[x]) /\ task'.retries = task.retries + 1
      PROVE  Kept
  <2> DEFINE e == IF exec[x].proc = "none" THEN Idle ELSE [exec[x] EXCEPT !.main = "idle"]
  <2>1. ~Charged(e)
    BY <1>g, <1>i DEF Execution, Charged
  <2>2. exec' = [exec EXCEPT ![x] = e]
    BY <1>m, <1>g DEF Settle
  <2> HIDE DEF e
  <2>3. Charges' \subseteq Charges \ {x}
    BY <2>1, <2>2, <1>e
  <2>4. Charged(exec[x]) => x \in Charges
    BY DEF Charges
  <2> QED BY <1>m, <2>3, <2>4, <1>x, <1>l
<1>y. MarkAsFailed(task).retries = task.retries + 1
      /\ \A now \in BOOLEAN : ReleaseTask(task, now).retries = task.retries
  BY <1>g DEF MarkAsFailed, ReleaseTask, Task
<1>17. ASSUME NEW x \in Executions, MainInterrupted(x) PROVE Kept
  BY <1>17, <1>m, <1>y, <1>r, <1>g DEF MainInterrupted
<1>18. ASSUME NEW x \in Executions, MainTimedOut(x) PROVE Kept
  <2>1. Charged(exec[x]) /\ task'.retries = task.retries + 1 /\ Settle(x)
    BY <1>18, <1>y DEF MainTimedOut, Charged
  <2> QED BY <2>1, <1>m, <1>g
<1>19. ASSUME NEW x \in Executions, MainDone(x) PROVE Kept
  <2>1. task'.retries = task.retries /\ Settle(x)
    BY <1>19, <1>g DEF MainDone, MarkAsCompleted, Task
  <2> QED BY <2>1, <1>m, <1>r, <1>g
<1>20. ASSUME NEW x \in Executions, MainContinue(x) PROVE Kept
  <2>1. task'.retries = 0 /\ Settle(x)
    BY <1>20, <1>g DEF MainContinue, MarkAsPending, Task
  <2> QED BY <2>1, <1>m, <1>g
<1>21. ASSUME NEW x \in Executions, MainFailed(x) PROVE Kept
  <2>1. CASE exec[x].ctx = "canceled"
    BY <1>21, <2>1, <1>m, <1>y, <1>r, <1>g DEF MainFailed
  <2>2. CASE exec[x].ctx # "canceled"
    <3>1. Charged(exec[x]) /\ task'.retries = task.retries + 1 /\ Settle(x)
      BY <1>21, <2>2, <1>y, <1>g DEF MainFailed, Charged, Execution
    <3> QED BY <3>1, <1>m, <1>g
  <2> QED BY <2>1, <2>2
<1>22. ASSUME NEW u \in Users,
              \/ \E kind \in Kinds : BeginRequest(u, kind)
              \/ UpdateStatus(u) \/ CommitRequest(u) \/ RollbackRequest(u)
       PROVE  FALSE
  BY <1>22, <1>o, <1>u DEF BeginRequest, UpdateStatus, CommitRequest, RollbackRequest
<1>26. ASSUME NEW p \in Users \cup Executions, HandlerRead(p) PROVE Kept
  BY <1>26, <1>q, <1>l, <1>r, <1>g DEF HandlerRead
<1>27. ASSUME NEW p \in Users \cup Executions, HandlerWrite(p) PROVE Kept
  <2>1. task' = MarkAsPaused(task, handler[p].copy.state) /\ UNCHANGED exec
    BY <1>27, <1>u DEF HandlerWrite
  <2>2. task'.retries = task.retries
    BY <2>1, <1>g DEF MarkAsPaused, Task
  <2> QED BY <2>1, <2>2, <1>q, <1>l, <1>r, <1>g
<1>28. CASE BecomesDue
  <2>1. task'.retries = task.retries
    BY <1>28, <1>g DEF BecomesDue, FallsDue, Task
  <2> QED BY <1>28, <2>1, <1>q, <1>l, <1>r, <1>g DEF BecomesDue
<1>29. ASSUME NEW x \in Executions, Overrun(x) PROVE Kept
  <2>1. task'.retries = task.retries
    BY <1>29, <1>g DEF Overrun, LeaseExpires, Task
  <2>2. exec' = [exec EXCEPT ![x] = [exec[x] EXCEPT !.ctx = "deadline"]] /\ Spend("overrun")
    BY <1>29, <1>g DEF Overrun
  <2> QED BY <2>1, <2>2, <1>b
<1>30. ASSUME NEW x \in Executions, DeadLeaseExpires(x) PROVE Kept
  <2>1. task'.retries = task.retries
    BY <1>30, <1>g DEF DeadLeaseExpires, LeaseExpires, Task
  <2> QED BY <1>30, <2>1, <1>q, <1>l, <1>r, <1>g DEF DeadLeaseExpires
<1>31. ASSUME NEW x \in Executions, HangUp(x) PROVE Kept
  <2>1. ~Charged([exec[x] EXCEPT !.ctx = "canceled"])
    BY <1>g DEF Charged, Execution
  <2>2. exec' = [exec EXCEPT ![x] = [exec[x] EXCEPT !.ctx = "canceled"]] /\ task' = task
    BY <1>31, <1>g DEF HangUp
  <2> QED BY <2>1, <2>2, <1>n, <1>r, <1>g
<1>32. ASSUME NEW x \in Executions, Crash(x) PROVE Kept
  BY <1>32, <1>i, <1>n, <1>r, <1>g DEF Crash
<1>33. ASSUME NEW x \in Executions, ProcStep(x) PROVE Kept
  BY <1>33, <1>5, <1>6, <1>7, <1>8, <1>9, <1>10, <1>11, <1>12, <1>13, <1>14, <1>15, <1>16
     DEF ProcStep
<1>34. ASSUME NEW x \in Executions, MainStep(x) PROVE Kept
  BY <1>34, <1>3, <1>4, <1>17, <1>18, <1>19, <1>20, <1>21 DEF MainStep
<1>35. [Next]_vars
  OBVIOUS
<1> QED BY <1>35, <1>0, <1>1, <1>2, <1>22, <1>26, <1>27, <1>28, <1>29, <1>30, <1>31, <1>32,
       <1>33, <1>34 DEF Next

LEMMA InitRetry == Init => RetryInv
<1> SUFFICES ASSUME Init PROVE RetryInv
  OBVIOUS
<1>1. LeftAlone /\ GivenUpAfter
  BY DEF Init, LeftAlone, GivenUpAfter, NoHandler, NoRequest, NewTask
<1>2. Charges = {}
  BY DEF Init, Charges, Charged, Idle
<1>3. Failures = 0
  <2>1. \A k \in {"error", "overrun", "feed"} : Budget[k] \in Nat /\ left[k] = Budget[k]
    BY BudgetAssumption DEF Init, Disturbances
  <2>2. \A k \in {"error", "overrun", "feed"} : Used(k) = 0
    BY <2>1 DEF Used
  <2> QED BY <2>2 DEF Failures
<1>4. Accounted
  BY <1>2, <1>3, FS_EmptySet DEF Init, Accounted, NewTask
<1> QED BY <1>1, <1>4 DEF RetryInv

(* While no user acts, the task of a broadcast whose mail is not all         *)
(* enqueued is given up only after more failed batches, overruns and failed  *)
(* feeds than max_retries: shutdowns, hang-ups, crashes and lost dispatches  *)
(* are never counted against it.                                             *)
THEOREM RetriesSpentByFailures == Spec => []OnlyFailuresSpendRetries
<1>1. Inv /\ OwnerInv /\ RetryInv /\ [Next]_vars => RetryInv'
  BY UnattendedStep, GivenUpStep, AccountStep DEF RetryInv, Inv, OwnerInv
<1>2. Inv /\ OwnerInv /\ RetryInv => OnlyFailuresSpendRetries
  <2> SUFFICES ASSUME Inv, OwnerInv, RetryInv, task.status = "failed", ~bcast.completed,
                      ~Happened("op")
               PROVE  Failures > MaxRetries
    BY DEF OnlyFailuresSpendRetries, Failures
  <2>1. task.retries > MaxRetries /\ task.retries \in Nat /\ MaxRetries \in Nat
    BY MaxRetriesAssumption DEF RetryInv, GivenUpAfter, Inv, TypeOK, Task
  <2>2. /\ task.retries + Cardinality(Charges) <= Failures
        /\ Cardinality(Charges) \in Nat
    BY FS_CardinalityType DEF RetryInv, Accounted
  <2>3. Failures \in Int
    <3>1. \A k \in {"error", "overrun", "feed"} : Budget[k] \in Nat /\ left[k] \in Nat
      BY BudgetAssumption DEF Inv, TypeOK, Disturbances
    <3>2. \A k \in {"error", "overrun", "feed"} : Used(k) \in Int
      BY <3>1 DEF Used
    <3> QED BY <3>2 DEF Failures
  <2> QED BY <2>1, <2>2, <2>3
<1> QED BY Invariance, Ownership, InitRetry, <1>1, <1>2, PTL DEF Spec
-----------------------------------------------------------------------------
(* A cancelled broadcast stays cancelled.  A request that is under way was   *)
(* let in while the broadcast was not cancelled, and with one at a time      *)
(* nobody has cancelled it since; the orchestrator looks before it writes.   *)
OneUser == \A u, v \in Users : u = v

NotYetCancelled == \A u \in Users : op[u].pc # "idle" => bcast.status # "cancelled"

(* What a step of the orchestrator makes of the broadcast. *)
LEMMA OrchestratorWrites ==
    ASSUME TypeOK, NEW x \in Executions, ProcStep(x)
    PROVE  op' = op /\ (bcast'.status = "cancelled" <=> bcast.status = "cancelled")
<1>g. bcast \in Broadcast
  BY DEF TypeOK
<1>1. CASE Finalize(x)
  BY <1>1, <1>g DEF Finalize, UpdateBroadcast, Updatable, Broadcast
<1>2. CASE FeedFails(x)
  BY <1>2, <1>g DEF FeedFails, UpdateBroadcast, Updatable, Broadcast
<1>3. CASE Complete(x)
  BY <1>3, <1>g DEF Complete, UpdateBroadcast, Updatable, Broadcast
<1>4. CASE UNCHANGED <<bcast, op>>
  BY <1>4
<1> QED BY <1>1, <1>2, <1>3, <1>4 DEF ProcStep, CountRecipients, Prepare, Refresh, TimeUp,
       FetchBatch, SendBatch, Advance, ProcessFails, NotStarted

LEMMA CancelStep ==
    ASSUME OneUser, TypeOK, NotYetCancelled, [Next]_vars
    PROVE  NotYetCancelled' /\ (bcast.status = "cancelled" => bcast'.status = "cancelled")
<1>g. op \in [Users -> Request]
  BY DEF TypeOK
<1>i. NoRequest.pc = "idle"
  BY DEF NoRequest
<1> DEFINE Stays == NotYetCancelled' /\ (bcast.status = "cancelled" => bcast'.status = "cancelled")
<1>1. ASSUME NEW x \in Executions, ProcStep(x) PROVE Stays
  BY <1>1, OrchestratorWrites DEF NotYetCancelled
<1>2. ASSUME NEW u \in Users, NEW kind \in Kinds, BeginRequest(u, kind) PROVE Stays
  <2>1. bcast' = bcast /\ bcast.status # "cancelled"
    BY <1>2 DEF BeginRequest, Allowed
  <2> QED BY <2>1 DEF NotYetCancelled
<1>3. ASSUME NEW u \in Users, UpdateStatus(u) PROVE Stays
  <2>1. bcast' = bcast /\ op[u].pc # "idle"
    BY <1>3 DEF UpdateStatus
  <2> QED BY <2>1 DEF NotYetCancelled
<1>4. ASSUME NEW u \in Users, CommitRequest(u) PROVE Stays
  <2>1. bcast.status # "cancelled"
    BY <1>4 DEF CommitRequest, NotYetCancelled
  <2>2. \A v \in Users : op'[v] = NoRequest
    BY <1>4, <1>g DEF CommitRequest, OneUser
  <2> QED BY <2>1, <2>2, <1>i DEF NotYetCancelled
<1>5. ASSUME NEW u \in Users, RollbackRequest(u) PROVE Stays
  <2>1. bcast' = bcast /\ \A v \in Users : op'[v] = NoRequest \/ op'[v] = op[v]
    BY <1>5, <1>g DEF RollbackRequest
  <2> QED BY <2>1, <1>i DEF NotYetCancelled
<1>6. CASE UNCHANGED <<bcast, op>>
  BY <1>6 DEF NotYetCancelled
<1> QED BY <1>1, <1>2, <1>3, <1>4, <1>5, <1>6 DEF Next, MainStep, Claim, ClaimRefused,
       MainInterrupted, MainTimedOut, MainDone, MainContinue, MainFailed, Dispatch,
       DispatchLost, Overrun, DeadLeaseExpires, HangUp, Crash, HandlerRead, HandlerWrite,
       BecomesDue, vars

(* While the console sends one request at a time, a cancelled broadcast      *)
(* stays cancelled, whatever an orchestrator that has not noticed, a stale   *)
(* handler or a rolled-back transaction still writes.                        *)
THEOREM CancelledForGood == ASSUME OneUser PROVE Spec => CancelIsFinal
<1>1. Init => NotYetCancelled
  BY DEF Init, NotYetCancelled
<1>2. TypeOK /\ NotYetCancelled /\ [Next]_vars => NotYetCancelled'
  BY CancelStep
<1>3. TypeOK /\ NotYetCancelled /\ [Next]_vars =>
        [bcast.status = "cancelled" => bcast'.status = "cancelled"]_vars
  BY CancelStep
<1> QED BY TaskTypeCorrect, <1>1, <1>2, <1>3, PTL DEF Spec, CancelIsFinal
=============================================================================
