--------------------- MODULE EmailQueueOneWorker_proofs ---------------------
(***************************************************************************)
(* What the email queue promises when a single instance of the application *)
(* drains it ("designed to run as a single instance", CHANGELOG.md): the   *)
(* worker's unguarded statements never hit a row that somebody paused or   *)
(* that was given up on, failures stay within the budget, and emails sent  *)
(* twice are owed to faults, for any number of entries, broadcasts and     *)
(* integrations, any attempt budget and any faults.                        *)
(***************************************************************************)
EXTENDS EmailQueue_proofs

OneWorker == \A v, w \in Workers : v = w

\* The inductive invariant.  A row the worker holds can only be deleted under
\* it; what it has still to process was fetched before anything was given up
\* on, and no row is fetched twice.
HeldOK(w) ==
    pc[w] \in Holding =>
        /\ queue[cur[w].id].status \in {"processing", "absent"}
        /\ cur[w].id \notin fresh
        /\ \A x \in todo[w] : x.id # cur[w].id

TodoOK(w) ==
    /\ \A x, y \in todo[w] : x.id = y.id => x = y
    /\ \A x \in todo[w] : ~ Terminal(queue[x.id])

Exclusive ==
    /\ \A e \in fresh : queue[e].status = "absent"
    /\ \A w \in Workers : HeldOK(w) /\ TodoOK(w)

\* The two promises, for one step.
PauseKept ==
    \A e \in Entries : queue[e].status = "paused" =>
        \/ queue'[e].status = "paused"
        \/ queue'[e].status = "absent" /\ e \in dropped'
        \/ ResumeBroadcast

GivenUpKept ==
    \A e \in Entries : Terminal(queue[e]) =>
        \/ Terminal(queue'[e])
        \/ queue'[e].status = "absent" /\ e \in dropped'
        \/ \E i \in Integrations : RetryFailedRecipients(i)

Kept == PauseKept /\ GivenUpKept

-----------------------------------------------------------------------------
(* What the statements do to a status.                                     *)

\* A change of a row the worker does not hold: a claimed row is at most
\* deleted, a missing one stays missing, and nobody is given up on.
Mild(r, s) ==
    /\ r.status = "processing" => s.status \in {"processing", "absent"}
    /\ r.status = "absent" => s.status = "absent"
    /\ Terminal(s) => Terminal(r)

\* The statements that are not the worker's own are mild.
LEMMA MildOps ==
    ASSUME NEW r \in Row
    PROVE  /\ Mild(r, r)
           /\ Mild(r, Gone(r))
           /\ Mild(r, PauseBySource(r))
           /\ Mild(r, ResumeBySource(r))
           /\ Mild(r, DeleteBySource(r))
           /\ \A i \in Integrations : Mild(r, ResetTerminallyFailedBySource(r, i))
           /\ Mild(r, DeleteTerminallyFailedOlderThan(r))
           /\ Mild(r, DeleteForEmail(r))
           /\ Mild(r, RetryFallsDue(r))
           /\ Mild(r, GoesStale(r))
           /\ Mild(r, Expires(r))
<1> USE DEF Row, Statuses, Mild, Terminal
<1>1. Mild(r, r) /\ Mild(r, Gone(r)) /\ Mild(r, DeleteForEmail(r))
    BY DEF Gone, DeleteForEmail
<1>2. Mild(r, PauseBySource(r))
    BY DEF PauseBySource
<1>3. Mild(r, ResumeBySource(r))
    BY DEF ResumeBySource
<1>4. Mild(r, DeleteBySource(r))
    BY DEF DeleteBySource, Gone
<1>5. \A i \in Integrations : Mild(r, ResetTerminallyFailedBySource(r, i))
    BY DEF ResetTerminallyFailedBySource, EnqueuedRow
<1>6. Mild(r, DeleteTerminallyFailedOlderThan(r))
    BY DEF DeleteTerminallyFailedOlderThan, Gone
<1>7. Mild(r, RetryFallsDue(r))
    BY DEF RetryFallsDue
<1>8. Mild(r, GoesStale(r))
    BY DEF GoesStale
<1>9. Mild(r, Expires(r))
    BY DEF Expires
<1> QED
    BY <1>1, <1>2, <1>3, <1>4, <1>5, <1>6, <1>7, <1>8, <1>9

\* What becomes of a paused row, and of one given up on.
LEMMA KeptOps ==
    ASSUME NEW r \in Row
    PROVE  /\ r.status = "paused" =>
                /\ SetNextRetry(r) = r
                /\ PauseBySource(r) = r
                /\ DeleteBySource(r).status = "absent"
                /\ DeleteTerminallyFailedOlderThan(r) = r
                /\ \A i \in Integrations : ResetTerminallyFailedBySource(r, i) = r
                /\ RetryFallsDue(r).status = "paused"
                /\ GoesStale(r).status = "paused"
                /\ Expires(r).status = "paused"
                /\ ~ Claimable(r)
           /\ Terminal(r) =>
                /\ PauseBySource(r) = r
                /\ ResumeBySource(r) = r
                /\ DeleteBySource(r).status = "absent"
                /\ \/ DeleteTerminallyFailedOlderThan(r) = r
                   \/ DeleteTerminallyFailedOlderThan(r).status = "absent" /\ Expired(r)
                /\ Terminal(GoesStale(r))
                /\ Terminal(Expires(r))
                /\ r.retry # "future"
           /\ DeleteForEmail(r).status = "absent"
<1> USE DEF Row, Statuses, Terminal
<1>1. DeleteForEmail(r).status = "absent"
    BY DEF DeleteForEmail, Gone
<1>2. ASSUME r.status = "paused"
      PROVE  /\ SetNextRetry(r) = r
             /\ PauseBySource(r) = r
             /\ DeleteTerminallyFailedOlderThan(r) = r
             /\ \A i \in Integrations : ResetTerminallyFailedBySource(r, i) = r
             /\ ~ Claimable(r)
    BY <1>2 DEF SetNextRetry, PauseBySource, DeleteTerminallyFailedOlderThan, Expired,
        ResetTerminallyFailedBySource, Claimable
<1>3. ASSUME r.status = "paused"
      PROVE  /\ DeleteBySource(r).status = "absent"
             /\ RetryFallsDue(r).status = "paused"
             /\ GoesStale(r).status = "paused"
             /\ Expires(r).status = "paused"
    BY <1>3 DEF DeleteBySource, Gone, RetryFallsDue, GoesStale, Expires
<1>4. ASSUME Terminal(r)
      PROVE  /\ PauseBySource(r) = r
             /\ ResumeBySource(r) = r
             /\ r.retry # "future"
    BY <1>4 DEF PauseBySource, ResumeBySource
<1>5. ASSUME Terminal(r)
      PROVE  /\ DeleteBySource(r).status = "absent"
             /\ \/ DeleteTerminallyFailedOlderThan(r) = r
                \/ DeleteTerminallyFailedOlderThan(r).status = "absent" /\ Expired(r)
    <2>1. Gone(r).status = "absent"
        BY DEF Gone
    <2>2. DeleteBySource(r) = Gone(r)
        BY <1>5 DEF DeleteBySource
    <2>3. CASE Expired(r)
        BY <2>1, <2>2, <2>3 DEF DeleteTerminallyFailedOlderThan
    <2>4. CASE ~ Expired(r)
        BY <2>1, <2>2, <2>4 DEF DeleteTerminallyFailedOlderThan
    <2> QED
        BY <2>3, <2>4
<1>6. ASSUME Terminal(r) PROVE Terminal(GoesStale(r)) /\ Terminal(Expires(r))
    BY <1>6 DEF GoesStale, Expires
<1> QED
    BY <1>1, <1>2, <1>3, <1>4, <1>5, <1>6

\* What the worker fetches was not given up on; what it claims is processing;
\* what it puts off is not given up on.
LEMMA WorkerOps ==
    ASSUME NEW r \in Row
    PROVE  /\ FetchPending(r) => ~ Terminal(r)
           /\ Claimable(r) => MarkAsProcessing(r).status = "processing"
           /\ r.status = "absent" => ~ Claimable(r) /\ SetNextRetry(r) = r
           /\ r.status = "processing" => ~ Terminal(r)
<1>1. FetchPending(r) => ~ Terminal(r)
    BY DEF FetchPending, Terminal
<1>2. Claimable(r) => MarkAsProcessing(r).status = "processing"
    BY DEF MarkAsProcessing, Row
<1>3. r.status = "absent" => ~ Claimable(r) /\ SetNextRetry(r) = r
    BY DEF Claimable, SetNextRetry, Present
<1>4. r.status = "processing" => ~ Terminal(r)
    BY DEF Terminal
<1> QED
    BY <1>1, <1>2, <1>3, <1>4

-----------------------------------------------------------------------------
(* The invariant and the two promises, step by step.                       *)

\* Steps that leave the workers alone and the rows within Mild.
LEMMA MildStep ==
    ASSUME Typed, Exclusive,
           \A e \in Entries : Mild(queue[e], queue'[e]),
           fresh' = fresh, pc' = pc, cur' = cur, todo' = todo
    PROVE  Exclusive'
<1>1. \A e \in fresh' : queue'[e].status = "absent"
    BY DEF Exclusive, Mild, Typed, TypeOK
<1>2. ASSUME NEW w \in Workers PROVE HeldOK(w)'
    <2>1. pc[w] \in Holding => cur[w].id \in Entries
        BY CurTyped DEF Holding
    <2> QED
        BY <2>1 DEF Exclusive, HeldOK, Mild
<1>3. ASSUME NEW w \in Workers PROVE TodoOK(w)'
    <2>1. \A x \in todo[w] : x.id \in Entries
        BY DEF Typed, TypeOK, Snapshot
    <2> QED
        BY <2>1 DEF Exclusive, TodoOK, Mild
<1> QED
    BY <1>1, <1>2, <1>3 DEF Exclusive

\* Steps of the worker that change no row.
LEMMA NoRowStep ==
    ASSUME queue' = queue PROVE Kept
BY DEF Kept, PauseKept, GivenUpKept

\* The worker's steps, when it is the only one.
LEMMA StepExclusive ==
    ASSUME OneWorker, Typed, Exclusive, NEW w \in Workers, Step(w)
    PROVE  Exclusive' /\ Kept
<1>0. \A e \in Entries : queue[e] \in Row
    BY DEF Typed, TypeOK
<1>00. ASSUME \A e \in fresh' : queue'[e].status = "absent", HeldOK(w)', TodoOK(w)'
       PROVE  Exclusive'
    BY <1>00 DEF Exclusive, OneWorker
<1>01. pc[w] \in Holding => cur[w].id \in Entries
    BY CurTyped DEF Holding
<1>02. \A x \in todo[w] : x.id \in Entries
    BY DEF Typed, TypeOK, Snapshot
<1>1. ASSUME ListWorkspaces(w) PROVE Exclusive' /\ Kept
    <2>1. HeldOK(w)' /\ TodoOK(w)'
        BY <1>1 DEF ListWorkspaces, rows, Exclusive, HeldOK, TodoOK, Holding, Typed, TypeOK
    <2> QED
        BY <1>00, <1>1, <2>1, NoRowStep DEF ListWorkspaces, rows, Exclusive
<1>2. ASSUME Poll(w) PROVE Exclusive' /\ Kept
    <2>1. HeldOK(w)'
        BY <1>2 DEF Poll, HeldOK, Holding, Typed, TypeOK
    <2>2. PICK B \in SUBSET {e \in Entries : FetchPending(queue[e])} :
              todo'[w] = {[id |-> e, attempts |-> queue[e].attempts,
                           integration |-> queue[e].integration] : e \in B}
        BY <1>2 DEF Poll, Typed, TypeOK
    <2>3. queue' = queue
        BY <1>2 DEF Poll, rows
    <2>4. TodoOK(w)'
        BY <1>0, <2>2, <2>3, WorkerOps DEF TodoOK
    <2> QED
        BY <1>00, <1>2, <2>1, <2>4, NoRowStep DEF Poll, rows, Exclusive
<1>3. ASSUME NEW x \in todo[w], ClaimEntry(w, x) PROVE Exclusive' /\ Kept
    <2>1. x.id \in Entries /\ queue[x.id] \in Row
        BY <1>0, <1>02
    <2>2. /\ Claimable(queue[x.id])
          /\ queue'[x.id].status = "processing"
          /\ \A e \in Entries : e # x.id => queue'[e] = queue[e]
        BY <1>3, <2>1, WorkerOps DEF ClaimEntry, Typed, TypeOK
    <2>3. todo'[w] = todo[w] \ {x} /\ cur'[w] = x /\ fresh' = fresh
        BY <1>3 DEF ClaimEntry, Typed, TypeOK
    <2>4. queue[x.id].status \notin {"absent", "paused"} /\ ~ Terminal(queue[x.id])
        BY <2>1, <2>2, WorkerOps, KeptOps DEF Exclusive, TodoOK
    <2>5. x.id \notin fresh
        BY <2>4 DEF Exclusive
    <2>6. \A y \in todo'[w] : y \in todo[w] /\ y.id # x.id /\ y.id \in Entries
        BY <1>02, <2>3 DEF Exclusive, TodoOK
    <2>7. HeldOK(w)'
        BY <2>2, <2>3, <2>5, <2>6 DEF HeldOK
    <2>8. TodoOK(w)'
        BY <2>2, <2>6 DEF Exclusive, TodoOK
    <2>9. \A e \in fresh' : queue'[e].status = "absent"
        BY <2>2, <2>3, <2>5 DEF Exclusive, Typed, TypeOK
    <2>10. Kept
        BY <2>2, <2>4 DEF Kept, PauseKept, GivenUpKept
    <2> QED
        BY <1>00, <2>7, <2>8, <2>9, <2>10
<1>4. ASSUME NEW x \in todo[w], NEW ok \in BOOLEAN, SkipEntry(w, x, ok)
      PROVE  Exclusive' /\ Kept
    <2>1. x.id \in Entries /\ queue[x.id] \in Row
        BY <1>0, <1>02
    <2>2. /\ queue'[x.id] = queue[x.id] \/ queue'[x.id] = SetNextRetry(queue[x.id])
          /\ \A e \in Entries : e # x.id => queue'[e] = queue[e]
        BY <1>4, <2>1 DEF SkipEntry, Typed, TypeOK
    <2>3. todo'[w] = todo[w] \ {x} /\ fresh' = fresh
        BY <1>4 DEF SkipEntry, Typed, TypeOK
    <2>4. ~ Terminal(queue[x.id])
        BY DEF Exclusive, TodoOK
    <2>5. \A y \in todo'[w] : y \in todo[w] /\ y.id # x.id /\ y.id \in Entries
        BY <1>02, <2>3 DEF Exclusive, TodoOK
    <2>6. HeldOK(w)'
        BY <1>4 DEF SkipEntry, HeldOK, Holding
    <2>7. TodoOK(w)'
        BY <2>2, <2>5 DEF Exclusive, TodoOK
    <2>8. queue[x.id].status \in {"absent", "paused"} => queue'[x.id] = queue[x.id]
        BY <2>1, <2>2, WorkerOps, KeptOps
    <2>9. \A e \in fresh' : queue'[e].status = "absent"
        BY <2>2, <2>3, <2>8 DEF Exclusive, Typed, TypeOK
    <2>10. Kept
        BY <2>2, <2>4, <2>8 DEF Kept, PauseKept, GivenUpKept
    <2> QED
        BY <1>00, <2>6, <2>7, <2>9, <2>10
<1>5. ASSUME NEW x \in todo[w], NEW ok \in BOOLEAN, ClaimRefused(w, x, ok)
      PROVE  Exclusive' /\ Kept
    <2>1. HeldOK(w)' /\ TodoOK(w)'
        BY <1>5 DEF ClaimRefused, rows, Exclusive, HeldOK, TodoOK, Holding, Typed, TypeOK
    <2> QED
        BY <1>00, <1>5, <2>1, NoRowStep DEF ClaimRefused, rows, Exclusive
<1>6. ASSUME EndPoll(w) PROVE Exclusive' /\ Kept
    <2>1. HeldOK(w)' /\ TodoOK(w)'
        BY <1>6 DEF EndPoll, rows, Exclusive, HeldOK, TodoOK, Holding, Typed, TypeOK
    <2> QED
        BY <1>00, <1>6, <2>1, NoRowStep DEF EndPoll, rows, Exclusive
<1>7. ASSUME \/ SendSucceeds(w)
             \/ \E counted, mayRetry \in BOOLEAN : SendFails(w, counted, mayRetry)
             \/ EndTrip(w)
             \/ \E ok \in BOOLEAN : ListTripped(w, ok)
             \/ \E b \in trip[w], ok \in BOOLEAN : LoadTripped(w, b, ok)
      PROVE  Exclusive' /\ Kept
    <2>1. /\ queue' = queue /\ fresh' = fresh /\ cur' = cur /\ todo' = todo
          /\ pc[w] \in Holding
        BY <1>7 DEF SendSucceeds, SendFails, EndTrip, ListTripped, LoadTripped, rows, batch, Holding
    <2>2. HeldOK(w)' /\ TodoOK(w)'
        BY <2>1 DEF Exclusive, HeldOK, TodoOK
    <2> QED
        BY <1>00, <2>1, <2>2, NoRowStep DEF Exclusive
<1>8. ASSUME NEW ok \in BOOLEAN, RecordFailed(w, ok) PROVE Exclusive' /\ Kept
    <2>1. /\ queue' = queue /\ fresh' = fresh /\ cur' = cur /\ todo' = todo
          /\ pc[w] \in Holding
        BY <1>8 DEF RecordFailed, batch, Holding
    <2>2. HeldOK(w)' /\ TodoOK(w)'
        BY <2>1 DEF Exclusive, HeldOK, TodoOK
    <2> QED
        BY <1>00, <2>1, <2>2, NoRowStep DEF Exclusive
<1>9. ASSUME NEW ok \in BOOLEAN, RecordSent(w, ok) PROVE Exclusive' /\ Kept
    <2>1. queue' = queue /\ fresh' = fresh /\ todo' = todo /\ pc'[w] = "next"
        BY <1>9 DEF RecordSent, batch, Typed, TypeOK
    <2>2. HeldOK(w)' /\ TodoOK(w)'
        BY <2>1 DEF Exclusive, HeldOK, TodoOK, Holding
    <2> QED
        BY <1>00, <2>1, <2>2, NoRowStep DEF Exclusive
<1>10. ASSUME NEW ok \in BOOLEAN, MarkSent(w, ok) \/ MarkFailed(w, ok) PROVE Exclusive' /\ Kept
    <2>1. pc[w] \in Holding /\ pc'[w] \notin Holding
        BY <1>10 DEF MarkSent, MarkFailed, Holding, Typed, TypeOK
    <2>2. \A e \in Entries : e # cur[w].id => queue'[e] = queue[e]
        BY <1>01, <1>10, <2>1 DEF MarkSent, MarkFailed, Typed, TypeOK
    <2>3. fresh' = fresh /\ todo' = todo
        BY <1>10 DEF MarkSent, MarkFailed, batch
    <2>4. HeldOK(w)'
        BY <2>1 DEF HeldOK
    <2>5. TodoOK(w)'
        BY <1>02, <2>1, <2>2, <2>3 DEF Exclusive, HeldOK, TodoOK
    <2>6. \A e \in fresh' : queue'[e].status = "absent"
        BY <2>1, <2>2, <2>3 DEF Exclusive, HeldOK, Typed, TypeOK
    <2>7. queue[cur[w].id].status # "paused" /\ ~ Terminal(queue[cur[w].id])
        BY <2>1 DEF Exclusive, HeldOK, Terminal
    <2>8. Kept
        BY <2>2, <2>7 DEF Kept, PauseKept, GivenUpKept
    <2> QED
        BY <1>00, <2>4, <2>5, <2>6, <2>8
<1>11. ASSUME NEW ok \in BOOLEAN, PauseTripped(w, ok) PROVE Exclusive' /\ Kept
    <2>1. \A e \in Entries : queue'[e] \in {queue[e], PauseBySource(queue[e])}
        BY <1>11 DEF PauseTripped, BySource
    <2>2. \A e \in Entries : Mild(queue[e], queue'[e])
        BY <1>0, <2>1, MildOps
    <2>3. Exclusive'
        BY <1>11, <2>2, MildStep DEF PauseTripped, batch
    <2>4. Kept
        BY <1>0, <2>1, KeptOps DEF Kept, PauseKept, GivenUpKept
    <2> QED
        BY <2>3, <2>4
<1> QED
    BY <1>1, <1>2, <1>3, <1>4, <1>5, <1>6, <1>7, <1>8, <1>9, <1>10, <1>11 DEF Step

\* The sweep, a crash, the operator, the application and the clock.
LEMMA OtherExclusive ==
    ASSUME OneWorker, Typed, Exclusive,
           \/ \E w \in Workers : Sweep(w) \/ Crash(w)
           \/ Operator \/ Application \/ Clock
    PROVE  Exclusive' /\ Kept
<1>0. \A e \in Entries : queue[e] \in Row
    BY DEF Typed, TypeOK
<1>00. ASSUME queue' = queue, fresh' = fresh, pc' = pc, cur' = cur, todo' = todo
       PROVE  Exclusive' /\ Kept
    <2>1. \A e \in Entries : Mild(queue[e], queue'[e])
        BY <1>0, <1>00, MildOps
    <2> QED
        BY <1>00, <2>1, MildStep, NoRowStep
<1>1. ASSUME NEW w \in Workers, Sweep(w) PROVE Exclusive' /\ Kept
    <2>1. \A e \in Entries : queue'[e] = DeleteTerminallyFailedOlderThan(queue[e])
        BY <1>1 DEF Sweep
    <2>2. \A e \in Entries : Mild(queue[e], queue'[e])
        BY <1>0, <2>1, MildOps
    <2>3. Exclusive'
        BY <1>1, <2>2, MildStep DEF Sweep, batch
    <2>4. \A e \in Entries : Expired(queue[e]) => e \in dropped'
        BY <1>1 DEF Sweep
    <2>5. Kept
        BY <1>0, <2>1, <2>4, KeptOps DEF Kept, PauseKept, GivenUpKept
    <2> QED
        BY <2>3, <2>5
<1>2. ASSUME NEW w \in Workers, Crash(w) PROVE Exclusive' /\ Kept
    <2>1. queue' = queue /\ fresh' = fresh /\ pc'[w] = "idle" /\ todo'[w] = {}
        BY <1>2 DEF Crash, rows, Typed, TypeOK
    <2>2. HeldOK(w)' /\ TodoOK(w)'
        BY <2>1 DEF HeldOK, TodoOK, Holding
    <2> QED
        BY <2>1, <2>2, NoRowStep DEF Exclusive, OneWorker
<1>3. ASSUME Operator PROVE Exclusive' /\ Kept
    <2>0. pc' = pc /\ cur' = cur /\ todo' = todo /\ fresh' = fresh
        BY <1>3 DEF Operator, BeginRequest, AbortRequest, PauseBroadcast, ResumeBroadcast,
            CancelBroadcast, CheckCounts, RetryFailedRecipients, rows, batch
    <2>1. CASE PauseBroadcast
        <3>1. \A e \in Entries : queue'[e] \in {queue[e], PauseBySource(queue[e])}
            BY <2>1 DEF PauseBroadcast, BySource
        <3>2. \A e \in Entries : Mild(queue[e], queue'[e])
            BY <1>0, <3>1, MildOps
        <3>3. Kept
            BY <1>0, <3>1, KeptOps DEF Kept, PauseKept, GivenUpKept
        <3> QED
            BY <2>0, <3>2, <3>3, MildStep
    <2>2. CASE ResumeBroadcast
        <3>1. \A e \in Entries : queue'[e] \in {queue[e], ResumeBySource(queue[e])}
            BY <2>2 DEF ResumeBroadcast, BySource
        <3>2. \A e \in Entries : Mild(queue[e], queue'[e])
            BY <1>0, <3>1, MildOps
        <3>3. Kept
            BY <1>0, <2>2, <3>1, KeptOps DEF Kept, PauseKept, GivenUpKept
        <3> QED
            BY <2>0, <3>2, <3>3, MildStep
    <2>3. CASE CancelBroadcast
        <3>1. \A e \in Entries : \/ queue'[e] = queue[e]
                                 \/ /\ SourceOf[e] = request.broadcast
                                    /\ queue'[e] = DeleteBySource(queue[e])
            BY <2>3 DEF CancelBroadcast, BySource
        <3>2. \A e \in Entries : Mild(queue[e], queue'[e])
            BY <1>0, <3>1, MildOps
        <3>3. \A e \in Entries :
                  /\ SourceOf[e] = request.broadcast
                  /\ queue[e].status = "paused" \/ Terminal(queue[e])
                  => e \in dropped'
            BY <2>3 DEF CancelBroadcast, Terminal
        <3>4. Kept
            BY <1>0, <3>1, <3>3, KeptOps DEF Kept, PauseKept, GivenUpKept
        <3> QED
            BY <2>0, <3>2, <3>4, MildStep
    <2>4. ASSUME NEW i \in Integrations, RetryFailedRecipients(i) PROVE Exclusive' /\ Kept
        <3>1. \A e \in Entries :
                  queue'[e] \in {queue[e], ResetTerminallyFailedBySource(queue[e], i)}
            BY <2>4 DEF RetryFailedRecipients, BySource
        <3>2. \A e \in Entries : Mild(queue[e], queue'[e])
            BY <1>0, <3>1, MildOps
        <3>3. Kept
            BY <1>0, <2>4, <3>1, KeptOps DEF Kept, PauseKept, GivenUpKept
        <3> QED
            BY <2>0, <3>2, <3>3, MildStep
    <2>5. ASSUME \/ \E op \in {"pause", "resume", "cancel", "retry"}, b \in Broadcasts :
                        BeginRequest(op, b)
                 \/ AbortRequest \/ CheckCounts
          PROVE  Exclusive' /\ Kept
        BY <1>00, <2>0, <2>5 DEF BeginRequest, AbortRequest, CheckCounts, rows
    <2> QED
        BY <1>3, <2>1, <2>2, <2>3, <2>4, <2>5 DEF Operator
<1>4. ASSUME Application PROVE Exclusive' /\ Kept
    <2>0. pc' = pc /\ cur' = cur /\ todo' = todo
        BY <1>4 DEF Application, EnqueueBatch, FinishEnqueueing, FailEnqueueing,
            EraseQueuedMail, ChangeIntegrations, batch
    <2>1. ASSUME NEW b \in Broadcasts, NEW i \in Integrations,
                 NEW B \in SUBSET (fresh \cap EntriesOf(b)), EnqueueBatch(b, B, i)
          PROVE  Exclusive' /\ Kept
        <3>1. /\ \A e \in Entries : e \notin B => queue'[e] = queue[e]
              /\ \A e \in Entries : e \in B =>
                     queue[e].status = "absent" /\ ~ Terminal(queue'[e])
            BY <2>1 DEF EnqueueBatch, EnqueuedRow, Terminal, Exclusive
        <3>2. fresh' = fresh \ B
            BY <2>1 DEF EnqueueBatch
        <3>3. ASSUME NEW w \in Workers PROVE HeldOK(w)' /\ TodoOK(w)'
            <4>1. pc[w] \in Holding => cur[w].id \in Entries
                BY CurTyped DEF Holding
            <4>2. \A x \in todo[w] : x.id \in Entries
                BY DEF Typed, TypeOK, Snapshot
            <4>3. HeldOK(w)'
                BY <2>0, <3>1, <3>2, <4>1 DEF Exclusive, HeldOK
            <4>4. TodoOK(w)'
                BY <2>0, <3>1, <4>2 DEF Exclusive, TodoOK
            <4> QED
                BY <4>3, <4>4
        <3>4. \A e \in fresh' : queue'[e].status = "absent"
            BY <3>1, <3>2 DEF Exclusive, Typed, TypeOK
        <3>5. Kept
            BY <3>1 DEF Kept, PauseKept, GivenUpKept, Terminal
        <3> QED
            BY <3>3, <3>4, <3>5 DEF Exclusive
    <2>2. ASSUME NEW e \in Entries, EraseQueuedMail(e) PROVE Exclusive' /\ Kept
        <3>1. /\ \A d \in Entries : d # e => queue'[d] = queue[d]
              /\ queue'[e] = DeleteForEmail(queue[e])
              /\ e \in dropped' /\ fresh' = fresh
            BY <2>2 DEF EraseQueuedMail, Typed, TypeOK
        <3>2. \A d \in Entries : Mild(queue[d], queue'[d])
            BY <1>0, <3>1, MildOps
        <3>3. Kept
            BY <1>0, <3>1, KeptOps DEF Kept, PauseKept, GivenUpKept
        <3> QED
            BY <2>0, <3>1, <3>2, <3>3, MildStep
    <2>3. ASSUME \/ \E b \in Broadcasts : FinishEnqueueing(b) \/ FailEnqueueing(b)
                 \/ \E i \in Removable : ChangeIntegrations(i)
          PROVE  Exclusive' /\ Kept
        BY <1>00, <2>0, <2>3 DEF FinishEnqueueing, FailEnqueueing, ChangeIntegrations, rows
    <2> QED
        BY <1>4, <2>1, <2>2, <2>3 DEF Application
<1>5. ASSUME Clock PROVE Exclusive' /\ Kept
    <2>0. pc' = pc /\ cur' = cur /\ todo' = todo /\ fresh' = fresh
        BY <1>5 DEF Clock, Tick, Cool, rows, batch
    <2>1. ASSUME NEW e \in Entries, Tick(e) PROVE Exclusive' /\ Kept
        <3>1. /\ \A d \in Entries : d # e => queue'[d] = queue[d]
              /\ \/ queue[e].retry = "future" /\ queue'[e] = RetryFallsDue(queue[e])
                 \/ queue'[e] \in {GoesStale(queue[e]), Expires(queue[e])}
            BY <2>1 DEF Tick, Typed, TypeOK
        <3>2. \A d \in Entries : Mild(queue[d], queue'[d])
            BY <1>0, <3>1, MildOps
        <3>3. Kept
            BY <1>0, <3>1, KeptOps DEF Kept, PauseKept, GivenUpKept
        <3> QED
            BY <2>0, <3>2, <3>3, MildStep
    <2>2. ASSUME NEW w \in Workers, NEW i \in Integrations, Cool(w, i)
          PROVE  Exclusive' /\ Kept
        BY <1>00, <2>0, <2>2 DEF Cool, rows
    <2> QED
        BY <1>5, <2>1, <2>2 DEF Clock
<1> QED
    BY <1>1, <1>2, <1>3, <1>4, <1>5

\* The invariant holds, and every step keeps both promises.
LEMMA ExclusiveHolds ==
    ASSUME OneWorker
    PROVE  Spec => [](Typed /\ Exclusive)
<1>1. Init => Exclusive
    <2>1. \A i \in Integrations : Gone(EnqueuedRow(i)).status = "absent"
        BY DEF Gone, EnqueuedRow
    <2>2. ASSUME Init PROVE \A e \in fresh : queue[e].status = "absent"
        BY <2>1, <2>2 DEF Init
    <2> QED
        BY <2>2 DEF Init, Exclusive, HeldOK, TodoOK, Holding
<1>2. Typed /\ Exclusive /\ [Next]_vars => Exclusive'
    <2>1. ASSUME Typed, Exclusive, UNCHANGED vars PROVE Exclusive'
        BY <2>1 DEF Exclusive, HeldOK, TodoOK, vars, rows, batch
    <2> QED
        BY <2>1, StepExclusive, OtherExclusive DEF Next
<1> QED
    BY <1>1, <1>2, TypeCorrect, PTL DEF Spec

\* A paused row is inert until its broadcast is resumed: the worker's late
\* failure, circuit skip or claim never takes it out of the pause.
THEOREM PauseHolds ==
    ASSUME OneWorker
    PROVE  Spec => PausedStayPaused
<1>1. Typed /\ Exclusive /\ [Next]_vars =>
          [\A e \in Entries : queue[e].status = "paused" =>
              \/ queue'[e].status = "paused"
              \/ queue'[e].status = "absent" /\ e \in dropped'
              \/ ResumeBroadcast]_vars
    BY StepExclusive, OtherExclusive DEF Next, Kept, PauseKept
<1> QED
    BY <1>1, ExclusiveHolds, PTL DEF Spec, PausedStayPaused

\* A row given up on stays so until an operator retries it, it is swept, its
\* broadcast cancelled or its contact erased.
THEOREM GivenUpHolds ==
    ASSUME OneWorker
    PROVE  Spec => GivenUpIsFinal
<1>1. Typed /\ Exclusive /\ [Next]_vars =>
          [\A e \in Entries : Terminal(queue[e]) =>
              \/ Terminal(queue'[e])
              \/ queue'[e].status = "absent" /\ e \in dropped'
              \/ \E i \in Integrations : RetryFailedRecipients(i)]_vars
    BY StepExclusive, OtherExclusive DEF Next, Kept, GivenUpKept
<1> QED
    BY <1>1, ExclusiveHolds, PTL DEF Spec, GivenUpIsFinal

-----------------------------------------------------------------------------
(* What the counters say: failures against the budget of attempts, emails  *)
(* against faults, and message_history against the rows given up on.       *)

\* The inductive invariant behind the three, for an entry: a row that can
\* still be tried has been failed less often than it was claimed, and has been
\* mailed at most once per fault, unless its email has just been accepted.
EntryTally(e) ==
    /\ e \in fresh => given[e] = 0 /\ sends[e] = 0
    /\ given[e] <= MaxAttempts
    /\ InFlight(queue[e]) => given[e] < MaxAttempts /\ given[e] <= queue[e].attempts
    /\ sends[e] <= 1 + faults
    /\ Present(queue[e]) =>
           sends[e] <= faults \/ \E w \in Workers : pc[w] = "sent" /\ cur[w].id = e
    /\ faults = 0 /\ Terminal(queue[e]) => history[e] = "failed"

\* The same for the entry in a worker's hands: the claim is counted in the row
\* and not in the snapshot, by which handleError judges the budget.
HeldTally(w) ==
    LET e == cur[w].id
    IN  /\ given[e] < MaxAttempts /\ given[e] <= cur[w].attempts
        /\ Present(queue[e]) => given[e] < queue[e].attempts
        /\ pc[w] # "sent" => sends[e] <= faults
        /\ pc[w] = "marking" /\ faults = 0 => history[e] = "failed"

WorkerTally(w) ==
    /\ \A x \in todo[w] : given[x.id] <= x.attempts
    /\ pc[w] \in Holding => HeldTally(w)
    /\ pc[w] = "recording" => ~ Present(queue[cur[w].id]) /\ cur[w].id \notin fresh

Tallied ==
    /\ \A e \in Entries : EntryTally(e)
    /\ \A w \in Workers : WorkerTally(w)

\* A change that makes no row, counts no attempt and gives nobody up.
Quiet(r, s) ==
    Present(s) => /\ Present(r)
                  /\ s.attempts = r.attempts
                  /\ Terminal(s) <=> Terminal(r)

\* All statements but the claim, the retry and the final failure are quiet, on
\* the rows they are used on.
LEMMA QuietOps ==
    ASSUME NEW r \in Row
    PROVE  /\ Quiet(r, r)
           /\ Quiet(r, Gone(r))
           /\ Quiet(r, PauseBySource(r))
           /\ Quiet(r, ResumeBySource(r))
           /\ Quiet(r, DeleteBySource(r))
           /\ Quiet(r, DeleteTerminallyFailedOlderThan(r))
           /\ Quiet(r, DeleteForEmail(r))
           /\ r.retry = "future" => Quiet(r, RetryFallsDue(r))
           /\ Quiet(r, GoesStale(r))
           /\ Quiet(r, Expires(r))
           /\ ~ Terminal(r) => Quiet(r, SetNextRetry(r)) /\ Quiet(r, MarkAsFailed(r))
<1> USE DEF Row, Statuses, Quiet, Terminal, Present
<1>1. Quiet(r, r) /\ Quiet(r, Gone(r)) /\ Quiet(r, DeleteForEmail(r))
    BY DEF Gone, DeleteForEmail
<1>2. Quiet(r, PauseBySource(r))
    BY DEF PauseBySource
<1>3. Quiet(r, ResumeBySource(r))
    BY DEF ResumeBySource
<1>4. Quiet(r, DeleteBySource(r))
    BY DEF DeleteBySource, Gone
<1>5. Quiet(r, DeleteTerminallyFailedOlderThan(r))
    BY DEF DeleteTerminallyFailedOlderThan, Gone
<1>6. r.retry = "future" => Quiet(r, RetryFallsDue(r))
    BY DEF RetryFallsDue
<1>7. Quiet(r, GoesStale(r))
    BY DEF GoesStale
<1>8. Quiet(r, Expires(r))
    BY DEF Expires
<1>9. ~ Terminal(r) => Quiet(r, SetNextRetry(r))
    BY DEF SetNextRetry
<1>10. ~ Terminal(r) => Quiet(r, MarkAsFailed(r))
    BY DEF MarkAsFailed
<1> QED
    BY <1>1, <1>2, <1>3, <1>4, <1>5, <1>6, <1>7, <1>8, <1>9, <1>10

\* Steps that change the rows quietly and touch no counter.
StillTallied ==
    /\ \A e \in Entries : Quiet(queue[e], queue'[e])
    /\ fresh' = fresh /\ history' = history /\ sends' = sends /\ given' = given
    /\ faults' \in {faults, faults + 1}

\* They leave the entries' tallies as they were, ...
LEMMA QuietEntries ==
    ASSUME Typed, Tallied, StillTallied,
           \A w \in Workers : pc[w] = "sent" => pc'[w] = "sent" /\ cur'[w] = cur[w]
    PROVE  \A e \in Entries : EntryTally(e)'
<1> SUFFICES ASSUME NEW e \in Entries PROVE EntryTally(e)'
    OBVIOUS
<1>1. EntryTally(e) /\ Quiet(queue[e], queue'[e])
    BY DEF Tallied, StillTallied
<1>2. /\ queue[e] \in Row /\ queue[e].attempts \in Nat
      /\ given[e] \in Nat /\ sends[e] \in Nat /\ faults \in Nat
    BY DEF Typed, TypeOK, Row
<1>3. /\ given'[e] = given[e] /\ sends'[e] = sends[e] /\ history'[e] = history[e]
      /\ fresh' = fresh /\ faults' \in {faults, faults + 1}
    BY DEF StillTallied
<1>4. InFlight(queue'[e]) =>
          InFlight(queue[e]) /\ queue'[e].attempts = queue[e].attempts
    BY <1>1 DEF Quiet, InFlight
<1>5. Present(queue'[e]) => Present(queue[e])
    BY <1>1 DEF Quiet
<1>6. Terminal(queue'[e]) => Terminal(queue[e])
    BY <1>1 DEF Quiet, Terminal, Present
<1>7. Present(queue'[e]) =>
          sends'[e] <= faults' \/ \E w \in Workers : pc'[w] = "sent" /\ cur'[w].id = e
    <2>1. CASE sends[e] <= faults
        BY <1>2, <1>3, <2>1
    <2>2. CASE Present(queue[e]) /\ \E w \in Workers : pc[w] = "sent" /\ cur[w].id = e
        BY <2>2
    <2> QED
        BY <1>1, <1>5, <2>1, <2>2 DEF EntryTally
<1>8. /\ faults' = 0 /\ Terminal(queue'[e]) => history'[e] = "failed"
      /\ sends'[e] <= 1 + faults'
    BY <1>1, <1>2, <1>3, <1>6 DEF EntryTally
<1> QED
    BY <1>1, <1>3, <1>4, <1>7, <1>8 DEF EntryTally

\* ... and the tally of a worker that keeps its entry, or holds on to it.
LEMMA QuietWorker ==
    ASSUME Typed, Tallied, StillTallied, NEW w \in Workers,
           cur'[w] = cur[w], todo'[w] = todo[w],
           \/ pc'[w] = pc[w]
           \/ pc[w] \in Holding \ {"sent"} /\ pc'[w] \in Holding \ {"marking"}
    PROVE  WorkerTally(w)'
<1>1. WorkerTally(w)
    BY DEF Tallied
<1>2. \A x \in todo'[w] : given'[x.id] <= x.attempts
    BY <1>1 DEF WorkerTally, StillTallied
<1>3. ASSUME pc'[w] = "recording"
      PROVE  ~ Present(queue'[cur'[w].id]) /\ cur'[w].id \notin fresh'
    <2>1. pc[w] = "recording" /\ cur[w].id \in Entries
        BY <1>3, CurTyped DEF Holding
    <2> QED
        BY <1>1, <2>1 DEF WorkerTally, StillTallied, Quiet
<1>4. ASSUME pc'[w] \in Holding PROVE HeldTally(w)'
    <2> DEFINE e == cur[w].id
    <2>1. pc[w] \in Holding
        BY <1>4
    <2>2. /\ e \in Entries /\ HeldTally(w)
        BY <1>1, <2>1, CurTyped DEF WorkerTally, Holding
    <2>3. /\ given'[e] = given[e] /\ sends'[e] = sends[e] /\ history'[e] = history[e]
          /\ faults' \in {faults, faults + 1}
          /\ Quiet(queue[e], queue'[e])
        BY <2>2 DEF StillTallied
    <2>4. faults \in Nat /\ sends[e] \in Nat
        BY <2>2 DEF Typed, TypeOK
    <2>5. pc'[w] # "sent" => sends'[e] <= faults'
        BY <2>2, <2>3, <2>4 DEF HeldTally
    <2>6. Present(queue'[e]) => given'[e] < queue'[e].attempts
        BY <2>2, <2>3 DEF HeldTally, Quiet
    <2>7. pc'[w] = "marking" /\ faults' = 0 => history'[e] = "failed"
        BY <2>2, <2>3, <2>4 DEF HeldTally
    <2> QED
        BY <2>2, <2>3, <2>5, <2>6, <2>7 DEF HeldTally
<1> QED
    BY <1>2, <1>3, <1>4 DEF WorkerTally

\* A worker that holds nothing has nothing to answer for but its batch.
LEMMA EmptyHands ==
    ASSUME NEW w \in Workers, pc'[w] \notin Holding, pc'[w] # "recording",
           \A x \in todo'[w] : given'[x.id] <= x.attempts
    PROVE  WorkerTally(w)'
BY DEF WorkerTally

\* With one worker that has not just been told of a success, a row is in the
\* table at most once per fault.
LEMMA MailedPerFault ==
    ASSUME OneWorker, Tallied, NEW w \in Workers, pc[w] # "sent",
           NEW e \in Entries, Present(queue[e])
    PROVE  sends[e] <= faults
BY DEF OneWorker, Tallied, EntryTally

\* The worker's steps, when it is the only one.
LEMMA StepTallied ==
    ASSUME OneWorker, Typed, Exclusive, Tallied, NEW w \in Workers, Step(w)
    PROVE  Tallied'
<1>0. \A e \in Entries : queue[e] \in Row
    BY DEF Typed, TypeOK
<1>00. ASSUME \A e \in Entries : EntryTally(e)', WorkerTally(w)'
       PROVE  Tallied'
    BY <1>00 DEF Tallied, OneWorker
<1>01. pc[w] \notin {"idle", "listed", "next"} =>
           /\ cur[w] \in Snapshot /\ cur[w].id \in Entries /\ cur[w].attempts \in Nat
    BY CurTyped
<1>02. \A x \in todo[w] : x \in Snapshot /\ x.id \in Entries /\ x.attempts \in Nat
    BY DEF Typed, TypeOK, Snapshot
<1>03. /\ \A x \in todo[w] : given[x.id] <= x.attempts
       /\ pc[w] \in Holding => HeldTally(w)
    BY DEF Tallied, WorkerTally
<1>04. /\ faults \in Nat /\ \A e \in Entries : sends[e] \in Nat /\ given[e] \in Nat
       /\ MaxAttempts \in Nat
    BY MaxAttemptsAssumption DEF Typed, TypeOK
<1>05. ASSUME StillTallied, pc[w] # "sent" PROVE \A e \in Entries : EntryTally(e)'
    BY <1>05, QuietEntries DEF OneWorker
<1>06. ASSUME queue' = queue, fresh' = fresh, history' = history, sends' = sends,
              given' = given, faults' \in {faults, faults + 1}
       PROVE  StillTallied
    BY <1>0, <1>06, QuietOps DEF StillTallied
<1>1. ASSUME ListWorkspaces(w) \/ EndPoll(w) \/ \E x \in todo[w], ok \in BOOLEAN : ClaimRefused(w, x, ok)
      PROVE  Tallied'
    <2>1. /\ pc[w] # "sent" /\ pc'[w] \notin Holding /\ pc'[w] # "recording"
          /\ todo'[w] \subseteq todo[w] /\ given' = given
        BY <1>1 DEF ListWorkspaces, EndPoll, ClaimRefused, Holding, ghosts, Typed, TypeOK
    <2>2. StillTallied
        BY <1>06, <1>1 DEF ListWorkspaces, EndPoll, ClaimRefused, rows, ghosts, Charge
    <2>3. WorkerTally(w)'
        BY <1>03, <2>1, EmptyHands
    <2> QED
        BY <1>00, <1>05, <2>1, <2>2, <2>3
<1>2. ASSUME Poll(w) PROVE Tallied'
    <2>1. pc[w] = "listed" /\ pc'[w] = "next" /\ given' = given
        BY <1>2 DEF Poll, ghosts, Typed, TypeOK
    <2>2. PICK B \in SUBSET {e \in Entries : FetchPending(queue[e])} :
              todo'[w] = {[id |-> e, attempts |-> queue[e].attempts,
                           integration |-> queue[e].integration] : e \in B}
        BY <1>2 DEF Poll, Typed, TypeOK
    <2>3. ASSUME NEW e \in B PROVE given[e] <= queue[e].attempts
        <3>1. e \in Entries /\ FetchPending(queue[e]) /\ ~ Terminal(queue[e])
            BY <1>0, <2>2, WorkerOps
        <3>2. InFlight(queue[e])
            BY <3>1 DEF FetchPending, InFlight, Present
        <3> QED
            BY <3>1, <3>2 DEF Tallied, EntryTally
    <2>4. \A x \in todo'[w] : given'[x.id] <= x.attempts
        BY <2>1, <2>2, <2>3
    <2>5. StillTallied
        BY <1>06, <1>2 DEF Poll, rows, ghosts
    <2>6. WorkerTally(w)'
        BY <2>1, <2>4, EmptyHands DEF Holding
    <2> QED
        BY <1>00, <1>05, <2>1, <2>5, <2>6
<1>3. ASSUME NEW x \in todo[w], ClaimEntry(w, x) PROVE Tallied'
    <2>1. x.id \in Entries /\ queue[x.id] \in Row /\ queue[x.id].attempts \in Nat
        BY <1>0, <1>02 DEF Row
    <2>2. /\ pc[w] = "next" /\ Claimable(queue[x.id])
          /\ queue'[x.id] = MarkAsProcessing(queue[x.id])
          /\ \A e \in Entries : e # x.id => queue'[e] = queue[e]
          /\ todo'[w] = todo[w] \ {x} /\ cur'[w] = x /\ pc'[w] \in {"claimed", "failing"}
          /\ fresh' = fresh /\ history' = history /\ sends' = sends /\ given' = given
          /\ faults' = faults
        BY <1>3, <2>1 DEF ClaimEntry, Typed, TypeOK, ghosts
    <2>3. /\ InFlight(queue[x.id]) /\ Present(queue[x.id])
        BY <2>1, <2>2, WorkerOps DEF Exclusive, TodoOK, InFlight, Present
    <2>4. /\ given[x.id] < MaxAttempts /\ given[x.id] <= queue[x.id].attempts
          /\ sends[x.id] <= faults
        BY <2>1, <2>2, <2>3, MailedPerFault DEF Tallied, EntryTally
    <2>5. /\ queue'[x.id].attempts = queue[x.id].attempts + 1
          /\ queue'[x.id].status = "processing"
        BY <2>1, <2>2, WorkerOps DEF MarkAsProcessing, Row
    <2>6. WorkerTally(w)'
        <3>1. HeldTally(w)'
            BY <1>03, <1>04, <2>1, <2>2, <2>4, <2>5 DEF HeldTally
        <3> QED
            BY <1>03, <2>2, <3>1 DEF WorkerTally
    <2>7. ASSUME NEW e \in Entries PROVE EntryTally(e)'
        <3>1. EntryTally(e)
            BY DEF Tallied
        <3>2. CASE e = x.id
            <4>1. e \in fresh => given[e] = 0 /\ sends[e] = 0
                BY <3>1 DEF EntryTally
            <4>2. ~ Terminal(queue'[e])
                BY <2>5, <3>2 DEF Terminal
            <4> QED
                BY <1>04, <2>1, <2>2, <2>4, <2>5, <3>2, <4>1, <4>2 DEF EntryTally
        <3>3. CASE e # x.id
            <4>1. Present(queue[e]) => sends[e] <= faults
                BY <2>2, MailedPerFault
            <4> QED
                BY <2>2, <3>1, <3>3, <4>1 DEF EntryTally
        <3> QED
            BY <3>2, <3>3
    <2> QED
        BY <1>00, <2>6, <2>7
<1>4. ASSUME NEW x \in todo[w], NEW ok \in BOOLEAN, SkipEntry(w, x, ok) PROVE Tallied'
    <2>1. x.id \in Entries /\ queue[x.id] \in Row /\ ~ Terminal(queue[x.id])
        BY <1>0, <1>02 DEF Exclusive, TodoOK
    <2>2. /\ queue'[x.id] = queue[x.id] \/ queue'[x.id] = SetNextRetry(queue[x.id])
          /\ \A e \in Entries : e # x.id => queue'[e] = queue[e]
        BY <1>4, <2>1 DEF SkipEntry, Typed, TypeOK
    <2>3. /\ pc[w] = "next" /\ pc'[w] = "next" /\ given' = given
          /\ todo'[w] \subseteq todo[w]
        BY <1>4 DEF SkipEntry, ghosts, Typed, TypeOK
    <2>4. \A e \in Entries : Quiet(queue[e], queue'[e])
        BY <1>0, <2>1, <2>2, QuietOps
    <2>5. StillTallied
        BY <1>4, <2>4 DEF SkipEntry, StillTallied, ghosts, Charge
    <2>6. WorkerTally(w)'
        BY <1>03, <2>3, EmptyHands DEF Holding
    <2> QED
        BY <1>00, <1>05, <2>3, <2>5, <2>6
<1>5. ASSUME \/ \E counted, mayRetry \in BOOLEAN : SendFails(w, counted, mayRetry)
             \/ EndTrip(w)
             \/ \E ok \in BOOLEAN : ListTripped(w, ok) \/ PauseTripped(w, ok)
             \/ \E b \in trip[w], ok \in BOOLEAN : LoadTripped(w, b, ok)
      PROVE  Tallied'
    <2>1. /\ pc[w] \in Holding \ {"sent"} /\ pc'[w] \in Holding \ {"marking"}
          /\ cur' = cur /\ todo' = todo
        BY <1>5 DEF SendFails, EndTrip, ListTripped, PauseTripped, LoadTripped, batch, Holding, Typed, TypeOK
    <2>2. \A e \in Entries : queue'[e] \in {queue[e], PauseBySource(queue[e])}
        BY <1>5 DEF SendFails, EndTrip, ListTripped, PauseTripped, LoadTripped, rows, BySource
    <2>3. \A e \in Entries : Quiet(queue[e], queue'[e])
        BY <1>0, <2>2, QuietOps
    <2>4. StillTallied
        BY <1>5, <2>3 DEF SendFails, EndTrip, ListTripped, PauseTripped, LoadTripped, rows,
            ghosts, Charge, StillTallied
    <2>5. WorkerTally(w)'
        BY <2>1, <2>4, QuietWorker
    <2> QED
        BY <1>00, <1>05, <2>1, <2>4, <2>5
<1>6. ASSUME SendSucceeds(w) PROVE Tallied'
    <2> DEFINE c == cur[w].id
    <2>1. /\ pc[w] = "claimed" /\ pc'[w] = "sent" /\ c \in Entries
          /\ cur' = cur /\ todo' = todo /\ queue' = queue /\ fresh' = fresh
          /\ history' = history /\ given' = given /\ faults' = faults
          /\ sends'[c] = sends[c] + 1
          /\ \A e \in Entries : e # c => sends'[e] = sends[e]
        BY <1>6, <1>01 DEF SendSucceeds, rows, batch, Typed, TypeOK
    <2>2. sends[c] <= faults /\ c \notin fresh
        BY <1>03, <2>1 DEF Holding, HeldTally, Exclusive, HeldOK
    <2>3. ASSUME NEW e \in Entries PROVE EntryTally(e)'
        <3>1. EntryTally(e) /\ (Present(queue[e]) => sends[e] <= faults)
            BY <2>1, MailedPerFault DEF Tallied
        <3>2. CASE e = c
            BY <1>04, <2>1, <2>2, <3>1, <3>2 DEF EntryTally
        <3>3. CASE e # c
            BY <2>1, <3>1, <3>3 DEF EntryTally
        <3> QED
            BY <3>2, <3>3
    <2>4. WorkerTally(w)'
        BY <1>03, <2>1 DEF Holding, HeldTally, WorkerTally
    <2> QED
        BY <1>00, <2>3, <2>4
<1>7. ASSUME NEW ok \in BOOLEAN, MarkSent(w, ok) PROVE Tallied'
    <2> DEFINE c == cur[w].id
    <2>1. /\ pc[w] = "sent" /\ pc'[w] = IF ok THEN "recording" ELSE "next"
          /\ c \in Entries /\ todo' = todo /\ fresh' = fresh
          /\ ok => cur'[w] = cur[w]
          /\ history' = history /\ given' = given /\ sends' = sends
          /\ faults' = IF ok THEN faults ELSE faults + 1
          /\ queue'[c] = IF ok THEN Gone(queue[c]) ELSE queue[c]
          /\ \A e \in Entries : e # c => queue'[e] = queue[e]
        BY <1>7, <1>01 DEF MarkSent, MarkAsSent, Charge, batch, ghosts, Typed, TypeOK
    <2>2. c \notin fresh
        BY <2>1 DEF Holding, Exclusive, HeldOK
    <2>3. ~ Present(Gone(queue[c]))
        BY <1>0, <2>1 DEF Gone, Present, Row
    <2>4. ASSUME NEW e \in Entries PROVE EntryTally(e)'
        <3>1. EntryTally(e)
            BY DEF Tallied
        <3>2. CASE e = c /\ ok
            BY <1>04, <2>1, <2>3, <3>1, <3>2 DEF EntryTally, InFlight, Terminal, Present
        <3>3. CASE e = c /\ ~ ok
            BY <1>04, <2>1, <3>1, <3>3 DEF EntryTally
        <3>4. CASE e # c
            <4>1. Present(queue[e]) => sends[e] <= faults
                BY <2>1, <3>1, <3>4 DEF EntryTally, OneWorker
            <4> QED
                BY <1>04, <2>1, <3>1, <3>4, <4>1 DEF EntryTally
        <3> QED
            BY <3>2, <3>3, <3>4
    <2>5. WorkerTally(w)'
        BY <1>03, <2>1, <2>2, <2>3 DEF Holding, WorkerTally
    <2> QED
        BY <1>00, <2>4, <2>5
<1>8. ASSUME NEW ok \in BOOLEAN, RecordSent(w, ok) \/ RecordFailed(w, ok) PROVE Tallied'
    <2> DEFINE c == cur[w].id
    <2>1. /\ c \in Entries /\ todo' = todo /\ fresh' = fresh /\ queue' = queue
          /\ given' = given /\ sends' = sends
          /\ faults' = IF ok THEN faults ELSE faults + 1
          /\ \A e \in Entries : e # c => history'[e] = history[e]
          /\ pc[w] \in {"recording", "failing"}
        BY <1>8, <1>01 DEF RecordSent, RecordFailed, Charge, batch, ghosts, Typed, TypeOK
    <2>2. ~ Terminal(queue[c])
        BY <2>1 DEF Tallied, WorkerTally, Exclusive, HeldOK, Holding, Terminal, Present
    <2>3. ASSUME NEW e \in Entries PROVE EntryTally(e)'
        <3>1. EntryTally(e) /\ (Present(queue[e]) => sends[e] <= faults)
            BY <2>1, MailedPerFault DEF Tallied
        <3> QED
            BY <1>04, <2>1, <2>2, <3>1 DEF EntryTally
    <2>4. CASE RecordSent(w, ok)
        <3>1. pc'[w] = "next"
            BY <2>4 DEF RecordSent, Typed, TypeOK
        <3>2. WorkerTally(w)'
            BY <1>03, <2>1, <3>1 DEF Holding, WorkerTally
        <3> QED
            BY <1>00, <2>3, <3>2
    <2>5. CASE RecordFailed(w, ok)
        <3>1. /\ pc[w] = "failing" /\ pc'[w] = "marking" /\ cur' = cur
              /\ history'[c] = IF ok THEN "failed" ELSE history[c]
            BY <2>1, <2>5 DEF RecordFailed, Typed, TypeOK
        <3>2. HeldTally(w)'
            BY <1>03, <1>04, <2>1, <3>1 DEF Holding, HeldTally
        <3>3. WorkerTally(w)'
            BY <1>03, <2>1, <3>1, <3>2 DEF WorkerTally
        <3> QED
            BY <1>00, <2>3, <3>3
    <2> QED
        BY <1>8, <2>4, <2>5
<1>9. ASSUME NEW ok \in BOOLEAN, MarkFailed(w, ok) PROVE Tallied'
    <2> DEFINE c == cur[w].id
               r == queue[c]
    <2>1. /\ pc[w] = "marking" /\ pc'[w] = "next"
          /\ c \in Entries /\ todo' = todo /\ fresh' = fresh
          /\ history' = history /\ sends' = sends
          /\ faults' = IF ok THEN faults ELSE faults + 1
          /\ given'[c] = IF ok THEN given[c] + 1 ELSE given[c]
          /\ \A e \in Entries : e # c => queue'[e] = queue[e] /\ given'[e] = given[e]
        BY <1>9, <1>01 DEF MarkFailed, Charge, batch, Typed, TypeOK
    <2>2. queue'[c] = IF ok THEN AfterError(r, cur[w], retryable[w]) ELSE r
        BY <1>9, <2>1 DEF MarkFailed, Typed, TypeOK
    <2>3. /\ r \in Row /\ r.attempts \in Nat /\ ~ Terminal(r) /\ c \notin fresh
          /\ HeldTally(w) /\ EntryTally(c) /\ (Present(r) => sends[c] <= faults)
        BY <1>0, <1>03, <2>1, MailedPerFault
            DEF Row, Tallied, Exclusive, HeldOK, Holding, Terminal
    <2>4. ASSUME ok, ~ IsPermanent(cur[w], retryable[w])
          PROVE  /\ InFlight(queue'[c]) => given'[c] < MaxAttempts /\ given'[c] <= queue'[c].attempts
                 /\ Present(queue'[c]) => Present(r)
                 /\ ~ Terminal(queue'[c])
        <3>1. queue'[c] = MarkAsFailed(r) /\ cur[w].attempts + 1 < MaxAttempts
            BY <1>01, <1>04, <2>1, <2>2, <2>4 DEF AfterError, IsPermanent
        <3>2. given'[c] < MaxAttempts
            BY <1>01, <1>04, <2>1, <2>3, <2>4, <3>1 DEF HeldTally
        <3>3. Quiet(r, queue'[c])
            BY <2>3, <3>1, QuietOps
        <3> QED
            BY <1>04, <2>1, <2>3, <2>4, <3>2, <3>3 DEF HeldTally, Quiet, InFlight, Terminal, Present
    <2>5. ASSUME ok, IsPermanent(cur[w], retryable[w])
          PROVE  /\ ~ InFlight(queue'[c])
                 /\ Present(queue'[c]) => Present(r)
        BY <2>2, <2>3, <2>5 DEF AfterError, MarkAsPermanentlyFailed, InFlight, Terminal, Present, Row
    <2>6. ASSUME NEW e \in Entries, e = c PROVE EntryTally(e)'
        <3>1. CASE ok
            <4>1. /\ given'[e] <= MaxAttempts
                  /\ InFlight(queue'[e]) => given'[e] < MaxAttempts /\ given'[e] <= queue'[e].attempts
                  /\ Present(queue'[e]) => Present(r)
                BY <1>04, <2>1, <2>3, <2>4, <2>5, <2>6, <3>1 DEF HeldTally
            <4>2. faults' = 0 => history'[e] = "failed"
                BY <2>1, <2>3, <2>6, <3>1 DEF HeldTally
            <4> QED
                BY <2>1, <2>3, <2>6, <3>1, <4>1, <4>2 DEF EntryTally
        <3>2. CASE ~ ok
            BY <1>04, <2>1, <2>2, <2>3, <2>6, <3>2 DEF EntryTally
        <3> QED
            BY <3>1, <3>2
    <2>7. ASSUME NEW e \in Entries PROVE EntryTally(e)'
        <3>1. EntryTally(e) /\ (Present(queue[e]) => sends[e] <= faults)
            BY <2>1, MailedPerFault DEF Tallied
        <3>2. CASE e # c
            BY <1>04, <2>1, <3>1, <3>2 DEF EntryTally
        <3> QED
            BY <2>6, <3>2
    <2>8. \A x \in todo'[w] : given'[x.id] <= x.attempts
        BY <1>02, <1>03, <2>1 DEF Exclusive, HeldOK, Holding
    <2>9. WorkerTally(w)'
        BY <2>1, <2>8, EmptyHands DEF Holding
    <2> QED
        BY <1>00, <2>7, <2>9
<1> QED
    BY <1>1, <1>2, <1>3, <1>4, <1>5, <1>6, <1>7, <1>8, <1>9 DEF Step

\* The sweep, a crash, the operator, the application and the clock.
LEMMA OtherTallied ==
    ASSUME OneWorker, Typed, Exclusive, Tallied,
           \/ \E w \in Workers : Sweep(w) \/ Crash(w)
           \/ Operator \/ Application \/ Clock
    PROVE  Tallied'
<1>0. \A e \in Entries : queue[e] \in Row
    BY DEF Typed, TypeOK
<1>04. /\ faults \in Nat /\ \A e \in Entries : sends[e] \in Nat /\ given[e] \in Nat
       /\ MaxAttempts \in Nat /\ MaxAttempts > 0
    BY MaxAttemptsAssumption DEF Typed, TypeOK
<1>00. ASSUME StillTallied, pc' = pc, cur' = cur, todo' = todo PROVE Tallied'
    BY <1>00, QuietEntries, QuietWorker DEF Tallied
<1>1. ASSUME NEW w \in Workers, Sweep(w) PROVE Tallied'
    <2>1. \A e \in Entries : Quiet(queue[e], queue'[e])
        BY <1>0, <1>1, QuietOps DEF Sweep
    <2> QED
        BY <1>00, <1>1, <2>1 DEF Sweep, StillTallied, batch
<1>2. ASSUME NEW w \in Workers, Crash(w) PROVE Tallied'
    <2>1. /\ pc'[w] = "idle" /\ todo'[w] = {} /\ faults' = faults + 1
          /\ queue' = queue /\ fresh' = fresh /\ history' = history
          /\ sends' = sends /\ given' = given
        BY <1>2 DEF Crash, rows, ghosts, Typed, TypeOK
    <2>2. ASSUME NEW e \in Entries PROVE EntryTally(e)'
        <3>1. EntryTally(e)
            BY DEF Tallied
        <3> QED
            BY <1>04, <2>1, <3>1 DEF EntryTally
    <2>3. WorkerTally(w)'
        BY <2>1, EmptyHands DEF Holding
    <2> QED
        BY <2>2, <2>3 DEF Tallied, OneWorker
<1>3. ASSUME Operator PROVE Tallied'
    <2>0. /\ pc' = pc /\ cur' = cur /\ todo' = todo /\ fresh' = fresh /\ history' = history
          /\ sends' = sends /\ faults' = faults
        BY <1>3 DEF Operator, BeginRequest, AbortRequest, PauseBroadcast, ResumeBroadcast,
            CancelBroadcast, CheckCounts, RetryFailedRecipients, rows, batch, ghosts
    <2>1. CASE PauseBroadcast \/ ResumeBroadcast \/ CancelBroadcast
        <3>1. /\ \A e \in Entries : queue'[e] \in {queue[e], PauseBySource(queue[e]),
                                                   ResumeBySource(queue[e]), DeleteBySource(queue[e])}
              /\ given' = given
            BY <2>1 DEF PauseBroadcast, ResumeBroadcast, CancelBroadcast, BySource, ghosts
        <3>2. \A e \in Entries : Quiet(queue[e], queue'[e])
            BY <1>0, <3>1, QuietOps
        <3> QED
            BY <1>00, <2>0, <3>1, <3>2 DEF StillTallied
    <2>2. ASSUME NEW i \in Integrations, RetryFailedRecipients(i) PROVE Tallied'
        <3> DEFINE Reset(e) == SourceOf[e] = request.broadcast /\ Terminal(queue[e])
        <3>1. \A e \in Entries : /\ queue'[e] = IF Reset(e) THEN EnqueuedRow(i) ELSE queue[e]
                                 /\ given'[e] = IF Reset(e) THEN 0 ELSE given[e]
            BY <2>2 DEF RetryFailedRecipients, BySource, ResetTerminallyFailedBySource
        <3>2. ASSUME NEW e \in Entries PROVE EntryTally(e)'
            <4>1. EntryTally(e)
                BY DEF Tallied
            <4>2. CASE Reset(e)
                <5>1. ~ Terminal(queue'[e]) /\ queue'[e].attempts = 0 /\ given'[e] = 0
                    BY <3>1, <4>2 DEF EnqueuedRow, Terminal
                <5>2. Present(queue[e])
                    BY <4>2 DEF Terminal, Present
                <5> QED
                    BY <1>04, <2>0, <4>1, <5>1, <5>2 DEF EntryTally
            <4>3. CASE ~ Reset(e)
                BY <2>0, <3>1, <4>1, <4>3 DEF EntryTally
            <4> QED
                BY <4>2, <4>3
        <3>3. ASSUME NEW w \in Workers PROVE WorkerTally(w)'
            <4>1. WorkerTally(w) /\ HeldOK(w)
                BY DEF Tallied, Exclusive
            <4>2. \A x \in todo[w] : x.id \in Entries /\ x.attempts \in Nat
                BY DEF Typed, TypeOK, Snapshot
            <4>3. pc[w] \in Holding \cup {"recording"} => cur[w].id \in Entries
                BY CurTyped DEF Holding
            <4>4. pc[w] \in Holding \cup {"recording"} => ~ Terminal(queue[cur[w].id])
                BY <4>1 DEF HeldOK, WorkerTally, Terminal, Present
            <4>5. \A x \in todo'[w] : given'[x.id] <= x.attempts
                BY <1>04, <2>0, <3>1, <4>1, <4>2 DEF WorkerTally
            <4> QED
                BY <2>0, <3>1, <4>1, <4>3, <4>4, <4>5 DEF WorkerTally, HeldTally
        <3> QED
            BY <3>2, <3>3 DEF Tallied
    <2>3. ASSUME \/ \E op \in {"pause", "resume", "cancel", "retry"}, b \in Broadcasts :
                        BeginRequest(op, b)
                 \/ AbortRequest \/ CheckCounts
          PROVE  Tallied'
        <3>1. queue' = queue /\ given' = given
            BY <2>3 DEF BeginRequest, AbortRequest, CheckCounts, rows, ghosts
        <3>2. \A e \in Entries : Quiet(queue[e], queue'[e])
            BY <1>0, <3>1, QuietOps
        <3> QED
            BY <1>00, <2>0, <3>1, <3>2 DEF StillTallied
    <2> QED
        BY <1>3, <2>1, <2>2, <2>3 DEF Operator
<1>4. ASSUME Application PROVE Tallied'
    <2>0. /\ pc' = pc /\ cur' = cur /\ todo' = todo /\ history' = history
          /\ sends' = sends /\ given' = given /\ faults' = faults
        BY <1>4 DEF Application, EnqueueBatch, FinishEnqueueing, FailEnqueueing,
            EraseQueuedMail, ChangeIntegrations, batch, ghosts, rows
    <2>1. ASSUME NEW b \in Broadcasts, NEW i \in Integrations,
                 NEW B \in SUBSET (fresh \cap EntriesOf(b)), EnqueueBatch(b, B, i)
          PROVE  Tallied'
        <3>1. \A e \in Entries : queue'[e] = IF e \in B THEN EnqueuedRow(i) ELSE queue[e]
            BY <2>1 DEF EnqueueBatch
        <3>2. fresh' = fresh \ B /\ B \subseteq fresh
            BY <2>1 DEF EnqueueBatch
        <3>3. ASSUME NEW e \in Entries PROVE EntryTally(e)'
            <4>1. EntryTally(e)
                BY DEF Tallied
            <4>2. CASE e \in B
                <5>1. /\ ~ Terminal(queue'[e]) /\ queue'[e].attempts = 0
                      /\ given'[e] = 0 /\ sends'[e] = 0
                    BY <2>0, <3>1, <3>2, <4>1, <4>2 DEF EnqueuedRow, Terminal, EntryTally
                <5> QED
                    BY <1>04, <2>0, <3>2, <4>2, <5>1 DEF EntryTally
            <4>3. CASE e \notin B
                BY <2>0, <3>1, <3>2, <4>1, <4>3 DEF EntryTally
            <4> QED
                BY <4>2, <4>3
        <3>4. ASSUME NEW w \in Workers PROVE WorkerTally(w)'
            <4>1. WorkerTally(w) /\ HeldOK(w)
                BY DEF Tallied, Exclusive
            <4>2. pc[w] \in Holding \cup {"recording"} =>
                      cur[w].id \in Entries /\ cur[w].id \notin fresh
                BY <4>1, CurTyped DEF Holding, HeldOK, WorkerTally
            <4> QED
                BY <2>0, <3>1, <3>2, <4>1, <4>2 DEF WorkerTally, HeldTally
        <3> QED
            BY <3>3, <3>4 DEF Tallied
    <2>2. ASSUME NEW e \in Entries, EraseQueuedMail(e) PROVE Tallied'
        <3>1. \A d \in Entries : queue'[d] \in {queue[d], DeleteForEmail(queue[d])}
            BY <2>2 DEF EraseQueuedMail, Typed, TypeOK
        <3>2. \A d \in Entries : Quiet(queue[d], queue'[d])
            BY <1>0, <3>1, QuietOps
        <3> QED
            BY <1>00, <2>0, <2>2, <3>2 DEF EraseQueuedMail, StillTallied
    <2>3. ASSUME \/ \E b \in Broadcasts : FinishEnqueueing(b) \/ FailEnqueueing(b)
                 \/ \E i \in Removable : ChangeIntegrations(i)
          PROVE  Tallied'
        <3>1. queue' = queue /\ fresh' = fresh
            BY <2>3 DEF FinishEnqueueing, FailEnqueueing, ChangeIntegrations, rows
        <3>2. \A e \in Entries : Quiet(queue[e], queue'[e])
            BY <1>0, <3>1, QuietOps
        <3> QED
            BY <1>00, <2>0, <3>1, <3>2 DEF StillTallied
    <2> QED
        BY <1>4, <2>1, <2>2, <2>3 DEF Application
<1>5. ASSUME Clock PROVE Tallied'
    <2>0. /\ pc' = pc /\ cur' = cur /\ todo' = todo /\ fresh' = fresh /\ history' = history
          /\ sends' = sends /\ given' = given /\ faults' = faults
        BY <1>5 DEF Clock, Tick, Cool, rows, batch, ghosts
    <2>1. \A e \in Entries :
              \/ queue'[e] = queue[e]
              \/ queue[e].retry = "future" /\ queue'[e] = RetryFallsDue(queue[e])
              \/ queue'[e] \in {GoesStale(queue[e]), Expires(queue[e])}
        BY <1>5 DEF Clock, Tick, Cool, rows, Typed, TypeOK
    <2>2. \A e \in Entries : Quiet(queue[e], queue'[e])
        BY <1>0, <2>1, QuietOps
    <2> QED
        BY <1>00, <2>0, <2>2 DEF StillTallied
<1> QED
    BY <1>1, <1>2, <1>3, <1>4, <1>5

\* The tallies are right in every reachable state.
LEMMA TalliedHolds ==
    ASSUME OneWorker
    PROVE  Spec => []Tallied
<1>1. Init => Tallied
    <2>1. \A i \in Integrations : ~ Present(Gone(EnqueuedRow(i)))
        BY DEF Gone, EnqueuedRow, Present
    <2>2. ASSUME Init, NEW e \in Entries PROVE EntryTally(e)
        <3>1. ~ Present(queue[e]) /\ given[e] = 0 /\ sends[e] = 0 /\ faults = 0
            BY <2>1, <2>2 DEF Init
        <3> QED
            BY <3>1, MaxAttemptsAssumption DEF EntryTally, InFlight, Terminal, Present
    <2>3. ASSUME Init, NEW w \in Workers PROVE WorkerTally(w)
        BY <2>3 DEF Init, WorkerTally, Holding
    <2> QED
        BY <2>2, <2>3 DEF Tallied
<1>2. Typed /\ Exclusive /\ Tallied /\ [Next]_vars => Tallied'
    <2>1. ASSUME Tallied, UNCHANGED vars PROVE Tallied'
        BY <2>1 DEF Tallied, EntryTally, WorkerTally, HeldTally, vars, rows, batch, ghosts
    <2> QED
        BY <2>1, StepTallied, OtherTallied DEF Next
<1> QED
    BY <1>1, <1>2, ExclusiveHolds, PTL DEF Spec

\* No recipient is failed more often than max_attempts between two retries by
\* the operator, however often the worker dies between a claim and its outcome:
\* MarkAsProcessing counts the attempt in the row, handleError in the snapshot.
THEOREM BudgetHolds ==
    ASSUME OneWorker
    PROVE  Spec => []FailuresWithinBudget
<1>1. Tallied => FailuresWithinBudget
    BY DEF Tallied, EntryTally, FailuresWithinBudget
<1> QED
    BY <1>1, TalliedHolds, PTL

\* Every email beyond the first is owed to a fault between the provider's
\* acceptance and MarkAsSent: there is no other way for a row to be sent twice.
THEOREM DuplicatesAreOwed ==
    ASSUME OneWorker
    PROVE  Spec => []DuplicatesNeedFaults
<1>1. Tallied => DuplicatesNeedFaults
    BY DEF Tallied, EntryTally, DuplicatesNeedFaults
<1> QED
    BY <1>1, TalliedHolds, PTL

\* Without faults, whoever handleError gave up on has the failure in
\* message_history: it is written before the row is marked, and no later
\* success of the same entry overwrites it.
THEOREM FailuresRecorded ==
    ASSUME OneWorker
    PROVE  Spec => []FailureIsOnRecord
<1>1. Tallied => FailureIsOnRecord
    BY DEF Tallied, EntryTally, FailureIsOnRecord
<1> QED
    BY <1>1, TalliedHolds, PTL
=============================================================================
