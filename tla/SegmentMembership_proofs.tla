------------------------ MODULE SegmentMembership_proofs ------------------------
(* What holds of a segment for every number of contacts, builds and           *)
(* disturbances, every size of a batch and every set of trees: type           *)
(* correctness, and that no contact is lost but in the ways "behind" lists.   *)
EXTENDS SegmentMembership, FiniteSetTheorems, TLAPS

(* A build's row and its execution: a copy is there while it runs, and the    *)
(* row is never ahead of it.                                                  *)
BuildOK(t, r) ==
    /\ t \in Task /\ r \in Run
    /\ r.pc # "idle" <=> t.status = "running"
    /\ r.pc # "idle" => r.copy \in Segment /\ t.offset <= r.offset
    /\ r.found \subseteq BatchFrom(r.offset)

BuildsOK ==
    /\ task \in [Builds -> Task] /\ run \in [Builds -> Run]
    /\ \A b \in Builds : BuildOK(task[b], run[b])

QueuerOK ==
    /\ queuer \in Queuer
    /\ queuer.pc = "loaded" /\ queuer.hand # {} => queuer.copy \in Segment
    /\ queuer.pc = "writing" => queuer.copy \in Segment /\ queuer.cur # 0
    /\ queuer.pc # "writing" => queuer.cur = 0
    /\ queuer.pc = "idle" => queuer.hand = {}
    /\ queuer.pc \in {"idle", "claimed"} => queuer.failed = {}

Asked == [pc : {"read", "written"}, op : {"rename", "edit", "rebuild", "delete"}, copy : Segment]

RequestOK ==
    /\ request \in {NoRequest} \cup Asked
    /\ request.pc = "read" /\ request.op \in {"edit", "rebuild"} => request.copy.version < MaxVersion

ContactsOK ==
    /\ member \in [Contacts -> 0 .. MaxVersion] /\ value \in [Contacts -> Values]
    /\ queue \in [Contacts -> {"no", "fresh", "ripe"}] /\ behind \subseteq Contacts

ClockOK == today \in Nat /\ left \in Nat /\ today + left <= Disturbances

Typed ==
    /\ seg \in Segment /\ ContactsOK /\ BuildsOK /\ QueuerOK /\ RequestOK /\ ClockOK
    /\ orphaned \in BOOLEAN

LEMMA Bounds ==
    /\ Number \in Nat /\ BatchSize \in Nat \ {0} /\ MaxVersion \in Nat \ {0} /\ MaxRetries \in Nat
    /\ Disturbances \in Nat /\ MaxBuilds \in Nat \ {0} /\ Trees \subseteq SUBSET Values
    /\ 1 \in Builds /\ 1 \in Versions /\ Versions \subseteq Nat \ {0} /\ Contacts \subseteq Nat \ {0}
BY NumberAssumption, TreesAssumption, BoundsAssumption, DisturbancesAssumption, BuildsAssumption
   DEF Builds, Versions, Contacts

LEMMA TypedIsTypeOK == Typed => TypeOK
<1> SUFFICES ASSUME Typed PROVE TypeOK
  OBVIOUS
<1>1. today \in 0 .. Disturbances /\ left \in 0 .. Disturbances
  BY Bounds DEF Typed, ClockOK
<1> QED BY <1>1 DEF Typed, TypeOK, ContactsOK, BuildsOK, QueuerOK, RequestOK, Asked

LEMMA Nothing ==
    /\ NoRun \in Run /\ NoTask \in Task /\ NoWork \in Queuer /\ NoWork.pc = "idle"
    /\ NoWork.hand = {} /\ NoWork.failed = {} /\ NoWork.cur = 0 /\ NoRun.pc = "idle"
    /\ NoSegment \notin Segment /\ NoRun.found = {}
BY Bounds DEF NoRun, Run, NoTask, Task, NoWork, Queuer, NoSegment, Segment

LEMMA NewTasks ==
    ASSUME NEW v \in Versions
    PROVE  /\ NewTask(v) \in Task /\ NewTask(v).status = "pending"
           /\ NewTask(v).version = v /\ NewTask(v).offset = 0
<1>1. v \in 0 .. MaxVersion
  BY Bounds DEF Versions
<1>2. NoTask \in Task /\ NoTask.offset = 0
  BY Nothing DEF NoTask
<1> QED BY <1>1, <1>2 DEF NewTask, Task

(* What a batch counts, and where the next begins.                            *)
LEMMA NextBatch ==
    ASSUME NEW k \in 0 .. Number + BatchSize
    PROVE  LET n == k + Cardinality(BatchFrom(k))
           IN  /\ n \in 0 .. Number + BatchSize /\ k <= n /\ n <= k + BatchSize
<1>b. Number \in Nat /\ BatchSize \in Nat /\ BatchSize > 0 /\ k \in Nat
  BY Bounds
<1>1. CASE k + BatchSize <= Number
  <2>1. BatchFrom(k) = k + 1 .. k + BatchSize
    BY <1>b, <1>1 DEF BatchFrom, Contacts
  <2>2. Cardinality(BatchFrom(k)) = BatchSize
    BY <1>b, <2>1, FS_Interval
  <2> QED BY <1>b, <1>1, <2>2
<1>2. CASE k + BatchSize > Number /\ k < Number
  <2>1. BatchFrom(k) = k + 1 .. Number
    BY <1>b, <1>2 DEF BatchFrom, Contacts
  <2>2. Cardinality(BatchFrom(k)) = Number - k
    BY <1>b, <1>2, <2>1, FS_Interval
  <2> QED BY <1>b, <1>2, <2>2
<1>3. CASE k >= Number
  <2>1. BatchFrom(k) = {}
    BY <1>b, <1>3 DEF BatchFrom, Contacts
  <2>2. Cardinality(BatchFrom(k)) = 0
    BY <2>1, FS_EmptySet
  <2> QED BY <1>b, <2>2
<1> QED BY <1>b, <1>1, <1>2, <1>3

LEMMA ClockKept ==
    ASSUME ClockOK, UNCHANGED today, UNCHANGED left \/ Spend
    PROVE  ClockOK'
BY Bounds DEF ClockOK, Spend

LEMMA Tried ==
    ASSUME NEW ok \in BOOLEAN, Try(ok) PROVE UNCHANGED left \/ Spend
BY DEF Try

(* A build's step stores its row and its execution.                           *)
Stored(b, t, r) ==
    /\ task' = [task EXCEPT ![b] = t] /\ run' = [run EXCEPT ![b] = r]
    /\ BuildOK(t, r)

LEMMA StoredTyped ==
    ASSUME BuildsOK, NEW b \in Builds, NEW t, NEW r, Stored(b, t, r)
    PROVE  /\ BuildsOK' /\ task'[b] = t /\ run'[b] = r
           /\ \A k \in Builds \ {b} : task'[k] = task[k] /\ run'[k] = run[k]
<1>1. t \in Task /\ r \in Run
  BY DEF Stored, BuildOK
<1>2. /\ task' \in [Builds -> Task] /\ run' \in [Builds -> Run] /\ task'[b] = t /\ run'[b] = r
      /\ \A k \in Builds \ {b} : task'[k] = task[k] /\ run'[k] = run[k]
  BY <1>1 DEF BuildsOK, Stored
<1>3. \A k \in Builds : BuildOK(task'[k], run'[k])
  <2>1. ASSUME NEW k \in Builds PROVE BuildOK(task'[k], run'[k])
    BY <1>2 DEF BuildsOK, Stored
  <2> QED BY <2>1
<1> QED BY <1>2, <1>3 DEF BuildsOK
-----------------------------------------------------------------------------
LEMMA Numbers ==
    /\ \A s \in Segment : s.version \in Nat /\ s.version \in Versions
    /\ \A t \in Task : t.version \in Nat /\ t.offset \in Nat
    /\ \A r \in Run : r.offset \in Nat
<1>1. /\ \A k \in 0 .. MaxVersion : k \in Nat
      /\ \A k \in 0 .. Number + BatchSize : k \in Nat
  BY Bounds
<1> QED BY <1>1, Bounds DEF Segment, Task, Run

(* What a step of a build stores: for each, its row and its execution, and    *)
(* that they are right.                                                       *)
Segments(b) == task[b] \in Task /\ run[b] \in Run /\ BuildOK(task[b], run[b])

LEMMA OfBuild == ASSUME BuildsOK, NEW b \in Builds PROVE Segments(b)
BY DEF BuildsOK, Segments, BuildOK

(* The other builds are left alone.                                           *)
Others(b) == \A k \in Builds \ {b} : task'[k] = task[k] /\ run'[k] = run[k]

LEMMA StoredRun ==
    ASSUME BuildsOK, NEW b \in Builds, NEW r, BuildOK(task[b], r),
           run' = [run EXCEPT ![b] = r], UNCHANGED task
    PROVE  BuildsOK' /\ run'[b] = r /\ task'[b] = task[b] /\ Others(b)
<1>1. task' = [task EXCEPT ![b] = task[b]]
  BY DEF BuildsOK
<1>2. Stored(b, task[b], r)
  BY <1>1 DEF Stored
<1> QED BY <1>2, StoredTyped DEF Others

LEMMA BeginStores ==
    ASSUME Typed, NEW b \in Builds, Begin(b)
    PROVE  /\ BuildsOK' /\ Others(b) /\ task[b].status = "pending"
           /\ task'[b].version = task[b].version
           /\ \/ seg.version > task[b].version /\ run'[b] = NoRun /\ task'[b].status = "completed"
              \/ /\ task'[b].status = "running" /\ run'[b].pc \in {"checking", "marking"}
                 /\ run'[b].copy = seg /\ run'[b].offset = task[b].offset
<1> DEFINE r == [NoRun EXCEPT !.pc = IF seg.status = "building" THEN "checking" ELSE "marking",
                              !.copy = seg, !.offset = task[b].offset,
                              !.matched = task[b].matched]
<1>t. Segments(b) /\ seg \in Segment
  BY OfBuild DEF Typed
<1>p. task[b].status = "pending"
  BY DEF Begin
<1>1. CASE seg.version > task[b].version
  <2>1. /\ task' = [task EXCEPT ![b] = [task[b] EXCEPT !.status = "completed"]]
        /\ run' = [run EXCEPT ![b] = NoRun]
    BY <1>1 DEF Begin, Completed
  <2>2. BuildOK([task[b] EXCEPT !.status = "completed"], NoRun)
    BY <1>t, Nothing DEF BuildOK, Segments, Task
  <2>3. /\ BuildsOK' /\ Others(b) /\ run'[b] = NoRun
        /\ task'[b] = [task[b] EXCEPT !.status = "completed"]
    <3>1. Stored(b, [task[b] EXCEPT !.status = "completed"], NoRun)
      BY <2>1, <2>2 DEF Stored
    <3> QED BY <3>1, StoredTyped DEF Others, Typed
  <2> QED BY <1>t, <1>p, <1>1, <2>3 DEF Segments, Task
<1>2. CASE ~(seg.version > task[b].version)
  <2>1. /\ task' = [task EXCEPT ![b] = [task[b] EXCEPT !.status = "running"]]
        /\ run' = [run EXCEPT ![b] = r]
    BY <1>2 DEF Begin
  <2>2. /\ r.pc \in {"checking", "marking"} /\ r.copy = seg /\ r.offset = task[b].offset
        /\ r.found = {} /\ r \in Run
    BY <1>t, Nothing DEF Run, NoRun, Segments, Task
  <2> HIDE DEF r
  <2>3. BuildOK([task[b] EXCEPT !.status = "running"], r)
    <3>1. task[b].offset <= task[b].offset
      BY <1>t, Numbers DEF Segments
    <3> QED BY <1>t, <2>2, <3>1 DEF BuildOK, Segments, Task
  <2>4. BuildsOK' /\ Others(b) /\ run'[b] = r /\ task'[b] = [task[b] EXCEPT !.status = "running"]
    <3>1. Stored(b, [task[b] EXCEPT !.status = "running"], r)
      BY <2>1, <2>3 DEF Stored
    <3> QED BY <3>1, StoredTyped DEF Others, Typed
  <2> QED BY <1>t, <1>p, <2>2, <2>4 DEF Segments, Task
<1> QED BY <1>1, <1>2

LEMMA MarkStores ==
    ASSUME Typed, NEW b \in Builds, Mark(b)
    PROVE  /\ BuildsOK' /\ Others(b) /\ task'[b] = task[b]
           /\ run[b].pc = "marking" /\ run'[b].pc = "checking" /\ run'[b].offset = run[b].offset
           /\ run[b].copy \in Segment /\ run'[b].copy \in Segment
           /\ run'[b].copy.version = run[b].copy.version /\ run'[b].copy.tree = run[b].copy.tree
           /\ WriteBack(run'[b].copy, run[b].copy)
<1> DEFINE marked == [run[b].copy EXCEPT !.status = "building"]
           r == [run[b] EXCEPT !.pc = "checking", !.copy = marked]
<1>t. Segments(b) /\ run[b].pc = "marking" /\ run[b].copy \in Segment
  BY OfBuild DEF Typed, Mark, Segments, BuildOK
<1>1. /\ marked \in Segment /\ marked.version = run[b].copy.version
      /\ marked.tree = run[b].copy.tree
  BY <1>t DEF Segment
<1>w. WriteBack(marked, run[b].copy)
  BY DEF Mark
<1>2. run' = [run EXCEPT ![b] = r] /\ UNCHANGED task
  BY DEF Mark
<1> HIDE DEF marked
<1>3. /\ r \in Run /\ r.pc = "checking" /\ r.copy = marked /\ r.offset = run[b].offset
      /\ r.found = run[b].found
  BY <1>t, <1>1 DEF Segments, Run
<1> HIDE DEF r
<1>4. BuildOK(task[b], r)
  BY <1>t, <1>1, <1>3 DEF BuildOK, Segments
<1>5. BuildsOK' /\ run'[b] = r /\ task'[b] = task[b] /\ Others(b)
  BY <1>2, <1>4, StoredRun DEF Typed
<1> QED BY <1>t, <1>1, <1>w, <1>3, <1>5

(* A round of a build begins, or the build is over.                           *)
LEMMA CheckStores ==
    ASSUME Typed, NEW b \in Builds, Check(b)
    PROVE  /\ BuildsOK' /\ Others(b) /\ task'[b] = task[b] /\ run[b].pc = "checking"
           /\ run[b].copy \in Segment /\ run'[b].offset = run[b].offset
           /\ \/ seg.version > task[b].version /\ run'[b].pc = "aborting" /\ run'[b].copy = seg
              \/ /\ run'[b].pc = "adding" /\ run'[b].copy = run[b].copy
                 /\ run'[b].found = {c \in BatchFrom(run[b].offset) : Matches(c, run[b].copy.tree)}
              \/ /\ run'[b].pc \in {"activating", "sweeping"} /\ run'[b].copy = run[b].copy
                 /\ BatchFrom(run[b].offset) = {}
<1> DEFINE found == {c \in BatchFrom(run[b].offset) : Matches(c, run[b].copy.tree)}
<1>t. /\ Segments(b) /\ run[b].pc = "checking" /\ run[b].copy \in Segment /\ seg \in Segment
      /\ UNCHANGED task
  BY OfBuild DEF Typed, Check, Segments, BuildOK
<1>f. found \subseteq BatchFrom(run[b].offset) /\ found \in SUBSET Contacts
  BY DEF BatchFrom
<1>n. seg.version \in Nat /\ task[b].version \in Nat
  BY <1>t, Numbers DEF Segments
<1>c. /\ seg.version > task[b].version =>
           run' = [run EXCEPT ![b].pc = "aborting", ![b].copy = seg]
      /\ ~(seg.version > task[b].version) /\ BatchFrom(run[b].offset) # {} =>
           run' = [run EXCEPT ![b].pc = "adding", ![b].ahead = TRUE, ![b].found = found]
      /\ ~(seg.version > task[b].version) /\ BatchFrom(run[b].offset) = {} =>
           run' = [run EXCEPT ![b].pc = IF run[b].matched = 0 THEN "activating" ELSE "sweeping"]
  BY <1>n DEF Check
<1> HIDE DEF found
<1>1. CASE seg.version > task[b].version
  <2> DEFINE r == [run[b] EXCEPT !.pc = "aborting", !.copy = seg]
  <2>1. run' = [run EXCEPT ![b] = r]
    BY <1>1, <1>c
  <2>2. r \in Run /\ r.pc = "aborting" /\ r.copy = seg /\ r.offset = run[b].offset
        /\ r.found = run[b].found
    BY <1>t DEF Segments, Run
  <2> HIDE DEF r
  <2>3. BuildOK(task[b], r)
    BY <1>t, <2>2 DEF BuildOK, Segments
  <2> QED BY <1>t, <1>1, <2>1, <2>2, <2>3, StoredRun DEF Typed
<1>2. CASE ~(seg.version > task[b].version) /\ BatchFrom(run[b].offset) # {}
  <2> DEFINE r == [run[b] EXCEPT !.pc = "adding", !.ahead = TRUE, !.found = found]
  <2>1. run' = [run EXCEPT ![b] = r]
    BY <1>2, <1>c
  <2>2. r \in Run /\ r.pc = "adding" /\ r.copy = run[b].copy /\ r.offset = run[b].offset
        /\ r.found = found
    BY <1>t, <1>f DEF Segments, Run
  <2> HIDE DEF r
  <2>3. BuildOK(task[b], r)
    BY <1>t, <1>f, <2>2 DEF BuildOK, Segments
  <2> QED BY <1>t, <2>1, <2>2, <2>3, StoredRun DEF Typed, found
<1>3. CASE ~(seg.version > task[b].version) /\ BatchFrom(run[b].offset) = {}
  <2> DEFINE r == [run[b] EXCEPT !.pc = IF run[b].matched = 0 THEN "activating" ELSE "sweeping"]
  <2>1. run' = [run EXCEPT ![b] = r]
    BY <1>3, <1>c
  <2>2. r \in Run /\ r.pc \in {"activating", "sweeping"} /\ r.copy = run[b].copy
        /\ r.offset = run[b].offset /\ r.found = run[b].found
    BY <1>t DEF Segments, Run
  <2> HIDE DEF r
  <2>3. BuildOK(task[b], r)
    BY <1>t, <2>2 DEF BuildOK, Segments
  <2> QED BY <1>t, <1>3, <2>1, <2>2, <2>3, StoredRun DEF Typed
<1> QED BY <1>1, <1>2, <1>3

(* An execution ends before its build does.                                   *)
LEMMA HaltStores ==
    ASSUME Typed, NEW b \in Builds, Pause(b) \/ Fails(b) \/ BuildDies(b)
    PROVE  /\ BuildsOK' /\ Others(b) /\ run[b].pc # "idle" /\ run'[b] = NoRun
           /\ task'[b].version = task[b].version /\ task'[b].offset <= run[b].offset
           /\ task'[b].status = "pending" \/ orphaned'
<1>p. run[b].pc # "idle"
  BY DEF Pause, Fails, BuildDies
<1>t. Segments(b) /\ run[b].copy \in Segment /\ task[b].offset <= run[b].offset
  BY <1>p, OfBuild DEF Typed, Segments, BuildOK
<1>n. run[b].offset \in Nat /\ task[b].offset \in Nat /\ run[b].offset <= run[b].offset
  BY <1>t, Numbers DEF Segments
<1>1. ASSUME NEW t \in Task, task' = [task EXCEPT ![b] = t], run' = [run EXCEPT ![b] = NoRun],
             t.version = task[b].version, t.offset <= run[b].offset,
             t.status = "pending" \/ (t.status = "failed" /\ orphaned')
      PROVE  /\ BuildsOK' /\ Others(b) /\ run'[b] = NoRun
             /\ task'[b].version = task[b].version /\ task'[b].offset <= run[b].offset
             /\ task'[b].status = "pending" \/ orphaned'
  <2>1. BuildOK(t, NoRun)
    BY <1>1, Nothing DEF BuildOK
  <2>2. Stored(b, t, NoRun)
    BY <1>1, <2>1 DEF Stored
  <2> QED BY <1>1, <2>2, StoredTyped DEF Others, Typed
<1>2. CASE Pause(b)
  <2> DEFINE t == [task[b] EXCEPT !.status = "pending", !.offset = run[b].offset,
                                  !.matched = run[b].matched, !.retries = 0]
  <2>1. task' = [task EXCEPT ![b] = t] /\ run' = [run EXCEPT ![b] = NoRun]
    BY <1>2 DEF Pause
  <2>2. /\ t \in Task /\ t.status = "pending" /\ t.offset = run[b].offset
        /\ t.version = task[b].version
    <3>1. /\ run[b].offset \in 0 .. Number + BatchSize /\ run[b].matched \in Nat
          /\ task[b] \in Task
      BY <1>t DEF Segments, Run
    <3>2. 0 \in 0 .. MaxRetries
      BY Bounds
    <3> QED BY <3>1, <3>2 DEF Task
  <2> HIDE DEF t
  <2> QED BY <1>p, <1>n, <1>1, <2>1, <2>2
<1>3. CASE Fails(b)
  <2> DEFINE last == task[b].retries = MaxRetries
             n == IF last THEN task[b].retries ELSE task[b].retries + 1
             t == [task[b] EXCEPT !.status = IF last THEN "failed" ELSE "pending", !.retries = n]
  <2>1. /\ task' = [task EXCEPT ![b] = t] /\ run' = [run EXCEPT ![b] = NoRun]
        /\ orphaned' = (orphaned \/ last)
    BY <1>3 DEF Fails
  <2>2. n \in 0 .. MaxRetries
    <3>1. task[b].retries \in 0 .. MaxRetries
      BY <1>t DEF Segments, Task
    <3> QED BY <3>1, Bounds
  <2> HIDE DEF n
  <2>3. /\ t \in Task /\ t.status \in {"failed", "pending"} /\ (t.status = "failed" => last)
        /\ t.offset = task[b].offset /\ t.version = task[b].version
    BY <1>t, <2>2 DEF Segments, Task
  <2> HIDE DEF t, last
  <2>4. last => orphaned'
    BY <2>1
  <2> QED BY <1>p, <1>t, <1>1, <2>1, <2>3, <2>4
<1>4. CASE BuildDies(b)
  <2> DEFINE t == [task[b] EXCEPT !.status = "pending"]
  <2>1. task' = [task EXCEPT ![b] = t] /\ run' = [run EXCEPT ![b] = NoRun]
    BY <1>4 DEF BuildDies
  <2>2. /\ t \in Task /\ t.status = "pending" /\ t.offset = task[b].offset
        /\ t.version = task[b].version
    BY <1>t DEF Segments, Task
  <2> HIDE DEF t
  <2> QED BY <1>p, <1>t, <1>1, <2>1, <2>2
<1> QED BY <1>2, <1>3, <1>4

(* A build is done with.                                                      *)
LEMMA CompletedStores ==
    ASSUME Typed, NEW b \in Builds, Completed(b)
    PROVE  /\ BuildsOK' /\ Others(b) /\ run'[b] = NoRun
           /\ task'[b].version = task[b].version /\ task'[b].status = "completed"
<1> DEFINE t == [task[b] EXCEPT !.status = "completed"]
<1>t. Segments(b)
  BY OfBuild DEF Typed
<1>1. task' = [task EXCEPT ![b] = t] /\ run' = [run EXCEPT ![b] = NoRun]
  BY DEF Completed
<1>2. t \in Task /\ t.status = "completed" /\ t.version = task[b].version
  BY <1>t DEF Segments, Task
<1> HIDE DEF t
<1>3. BuildOK(t, NoRun)
  BY <1>2, Nothing DEF BuildOK
<1>4. Stored(b, t, NoRun)
  BY <1>1, <1>3 DEF Stored
<1> QED BY <1>2, <1>4, StoredTyped DEF Others, Typed

LEMMA GotoStores ==
    ASSUME Typed, NEW b \in Builds, run[b].pc # "idle", UNCHANGED task,
           NEW p \in {"activating", "rescheduling"}, Goto(b, p)
    PROVE  /\ BuildsOK' /\ Others(b) /\ task'[b] = task[b] /\ run'[b].pc = p
           /\ run'[b].copy = run[b].copy /\ run'[b].offset = run[b].offset
<1> DEFINE r == [run[b] EXCEPT !.pc = p]
<1>t. Segments(b) /\ run[b].copy \in Segment
  BY OfBuild DEF Typed, Segments, BuildOK
<1>1. run' = [run EXCEPT ![b] = r]
  BY DEF Goto
<1>2. /\ r \in Run /\ r.pc = p /\ r.copy = run[b].copy /\ r.offset = run[b].offset
      /\ r.found = run[b].found
  BY <1>t DEF Segments, Run
<1> HIDE DEF r
<1>3. BuildOK(task[b], r)
  BY <1>t, <1>2 DEF BuildOK, Segments
<1> QED BY <1>1, <1>2, <1>3, StoredRun DEF Typed

LEMMA AddStores ==
    ASSUME Typed, NEW b \in Builds, NEW c \in Contacts, NEW ok \in BOOLEAN, Add(b, c, ok)
    PROVE  /\ BuildsOK' /\ Others(b) /\ task'[b] = task[b]
           /\ run[b].pc = "adding" /\ run'[b].pc = "adding" /\ run'[b].copy = run[b].copy
           /\ run'[b].offset = run[b].offset /\ run'[b].found = run[b].found \ {c}
<1> DEFINE m == IF ok THEN run[b].matched + 1 ELSE run[b].matched
           r == [run[b] EXCEPT !.found = @ \ {c}, !.matched = m]
<1>t. Segments(b) /\ run[b].copy \in Segment /\ run[b].pc = "adding" /\ UNCHANGED task
  BY OfBuild DEF Typed, Segments, BuildOK, Add
<1>1. run' = [run EXCEPT ![b] = r]
  BY DEF Add
<1>2. m \in Nat
  BY <1>t DEF Segments, Run
<1> HIDE DEF m
<1>3. /\ r \in Run /\ r.pc = "adding" /\ r.copy = run[b].copy /\ r.offset = run[b].offset
      /\ r.found = run[b].found \ {c}
  BY <1>t, <1>2 DEF Segments, Run
<1> HIDE DEF r
<1>4. BuildOK(task[b], r)
  BY <1>t, <1>3 DEF BuildOK, Segments
<1> QED BY <1>t, <1>1, <1>3, <1>4, StoredRun DEF Typed

LEMMA SaveStores ==
    ASSUME Typed, NEW b \in Builds, NEW ok \in BOOLEAN, SaveProgress(b, ok)
    PROVE  /\ BuildsOK' /\ Others(b) /\ task'[b].version = task[b].version
           /\ task'[b].status = task[b].status
           /\ run[b].pc = "adding" /\ run[b].found = {}
           /\ run'[b].pc = "checking" /\ run'[b].copy = run[b].copy
           /\ run'[b].offset <= run[b].offset + BatchSize
<1> DEFINE next == run[b].offset + Cardinality(BatchFrom(run[b].offset))
           r == [run[b] EXCEPT !.pc = "checking", !.offset = next]
           t == IF ok THEN [task[b] EXCEPT !.offset = next, !.matched = run[b].matched] ELSE task[b]
<1>t. /\ Segments(b) /\ run[b].copy \in Segment /\ run[b].pc = "adding" /\ run[b].found = {}
      /\ task[b].offset <= run[b].offset /\ task[b].status = "running"
  BY OfBuild DEF Typed, Segments, BuildOK, SaveProgress
<1>1. run' = [run EXCEPT ![b] = r] /\ task' = [task EXCEPT ![b] = t]
  BY DEF SaveProgress, Typed, BuildsOK
<1>2. /\ next \in 0 .. Number + BatchSize /\ run[b].offset <= next
      /\ next <= run[b].offset + BatchSize
  <2>1. run[b].offset \in 0 .. Number + BatchSize
    BY <1>t DEF Segments, Run
  <2> QED BY <2>1, NextBatch
<1> HIDE DEF next
<1>3. /\ r \in Run /\ r.pc = "checking" /\ r.copy = run[b].copy /\ r.offset = next /\ r.found = {}
  BY <1>t, <1>2 DEF Segments, Run
<1>4. /\ t \in Task /\ t.status = "running" /\ t.version = task[b].version
      /\ t.offset = next \/ t.offset = task[b].offset
  <2>1. CASE ok
    BY <1>t, <1>2, <2>1 DEF Segments, Task, Run
  <2>2. CASE ~ok
    BY <1>t, <2>2 DEF Segments
  <2> QED BY <2>1, <2>2
<1> HIDE DEF r, t
<1>5. t.offset <= next
  <2>1. next \in Nat /\ run[b].offset \in Nat /\ task[b].offset \in Nat
    BY <1>t, <1>2, Numbers, Bounds DEF Segments
  <2> QED BY <1>t, <1>2, <1>4, <2>1
<1>6. BuildOK(t, r)
  BY <1>t, <1>3, <1>4, <1>5 DEF BuildOK
<1>7. Stored(b, t, r)
  BY <1>1, <1>6 DEF Stored
<1> QED BY <1>t, <1>2, <1>3, <1>4, <1>7, StoredTyped DEF Others, Typed

(* A task is created.                                                         *)
LEMMA NewStores ==
    ASSUME Typed, NEW b \in Builds, NEW v \in Versions, task[b].status = "none",
           task' = [task EXCEPT ![b] = NewTask(v)], UNCHANGED run
    PROVE  /\ BuildsOK' /\ Others(b) /\ run'[b] = run[b] /\ run[b].pc = "idle"
           /\ task'[b].status = "pending" /\ task'[b].version = v /\ task'[b].offset = 0
<1>t. Segments(b) /\ run[b].pc = "idle"
  BY OfBuild DEF Typed, Segments, BuildOK
<1>1. run' = [run EXCEPT ![b] = run[b]]
  BY DEF Typed, BuildsOK
<1>2. BuildOK(NewTask(v), run[b])
  BY <1>t, NewTasks DEF BuildOK, Segments
<1>3. Stored(b, NewTask(v), run[b])
  BY <1>1, <1>2 DEF Stored
<1> QED BY <1>t, <1>3, NewTasks, StoredTyped DEF Others, Typed
-----------------------------------------------------------------------------
(* The contacts that the processor of the queue has in hand.                  *)
InWork(c) == c \in queuer.hand \cup queuer.failed \cup {queuer.cur}

LEMMA Rests == ASSUME queuer' = NoWork PROVE QueuerOK' /\ queuer'.pc = "idle"
BY Nothing DEF QueuerOK

LEMMA ClaimMoves ==
    ASSUME Typed, NEW S \in SUBSET Contacts, Claim(S)
    PROVE  /\ QueuerOK' /\ queuer'.pc = "claimed" /\ queuer'.copy = queuer.copy
           /\ \A c : c \in S => InWork(c)'
           /\ \A c \in Contacts : ~InWork(c)
<1>t. queuer \in Queuer /\ QueuerOK /\ queuer.pc = "idle"
  BY DEF Typed, QueuerOK, Claim
<1>1. /\ queuer' \in Queuer /\ queuer'.pc = "claimed" /\ queuer'.hand = S
      /\ queuer'.failed = queuer.failed /\ queuer'.cur = queuer.cur
      /\ queuer'.copy = queuer.copy
  BY <1>t DEF Claim, Queuer
<1> QED BY <1>t, <1>1, Bounds DEF QueuerOK, InWork

LEMMA LoadMoves ==
    ASSUME Typed, NEW ok \in BOOLEAN, Load(ok)
    PROVE  /\ QueuerOK' /\ queuer'.pc # "writing" /\ queuer.pc # "writing"
           /\ \/ queuer' = NoWork /\ behind' = behind \cup {c \in queuer.hand : ~Right(c)}
              \/ /\ UNCHANGED behind /\ queuer'.copy \in {queuer.copy, seg}
                 /\ \A c : InWork(c) => InWork(c)'
           /\ \A c \in Contacts : InWork(c) => c \in queuer.hand
<1>t. queuer \in Queuer /\ QueuerOK /\ queuer.pc = "claimed" /\ seg \in Segment
  BY DEF Typed, QueuerOK, Load
<1>c. \A c \in Contacts : InWork(c) => c \in queuer.hand
  BY <1>t, Bounds DEF InWork, QueuerOK
<1>1. CASE ~ok
  <2>1. queuer' = [queuer EXCEPT !.pc = "loaded", !.hand = {}, !.failed = queuer.hand] /\ UNCHANGED behind
    BY <1>1 DEF Load
  <2>2. /\ queuer' \in Queuer /\ queuer'.pc = "loaded" /\ queuer'.hand = {}
        /\ queuer'.failed = queuer.hand /\ queuer'.cur = queuer.cur
        /\ queuer'.copy = queuer.copy
    BY <1>t, <2>1 DEF Queuer
  <2> QED BY <1>t, <1>c, <2>1, <2>2 DEF QueuerOK, InWork
<1>2. CASE ok /\ seg.status = "active"
  <2>1. queuer' = [queuer EXCEPT !.pc = "loaded", !.copy = seg] /\ UNCHANGED behind
    BY <1>2 DEF Load
  <2>2. /\ queuer' \in Queuer /\ queuer'.pc = "loaded" /\ queuer'.hand = queuer.hand
        /\ queuer'.failed = queuer.failed /\ queuer'.cur = queuer.cur
        /\ queuer'.copy = seg
    BY <1>t, <2>1 DEF Queuer
  <2> QED BY <1>t, <1>c, <2>1, <2>2 DEF QueuerOK, InWork
<1>3. CASE ok /\ seg.status # "active"
  <2>1. queuer' = NoWork /\ Missed(queuer.hand)
    BY <1>3 DEF Load
  <2> QED BY <1>t, <1>c, <2>1, Rests DEF Missed
<1> QED BY <1>1, <1>2, <1>3

LEMMA EvaluateMoves ==
    ASSUME Typed, NEW c \in Contacts, NEW ok \in BOOLEAN, Evaluate(c, ok)
    PROVE  /\ QueuerOK' /\ queuer'.copy = queuer.copy
           /\ \A k : k # 0 /\ InWork(k) => InWork(k)'
           /\ queuer'.pc = "writing" =>
                 queuer'.cur = c /\ queuer'.verdict = Matches(c, queuer.copy.tree)
<1>t. /\ queuer \in Queuer /\ QueuerOK /\ queuer.pc = "loaded" /\ c \in queuer.hand /\ c # 0
      /\ queuer.copy \in Segment /\ queuer.cur = 0
  BY Bounds DEF Typed, QueuerOK, Evaluate
<1>1. CASE ok
  <2> DEFINE v == Matches(c, queuer.copy.tree)
  <2>1. queuer' = [queuer EXCEPT !.pc = "writing", !.hand = @ \ {c}, !.cur = c, !.verdict = v]
    BY <1>1 DEF Evaluate
  <2>2. v \in BOOLEAN
    BY DEF Matches
  <2> HIDE DEF v
  <2>3. /\ queuer' \in Queuer /\ queuer'.pc = "writing" /\ queuer'.hand = queuer.hand \ {c}
        /\ queuer'.failed = queuer.failed /\ queuer'.cur = c
        /\ queuer'.copy = queuer.copy /\ queuer'.verdict = v
    BY <1>t, <2>1, <2>2 DEF Queuer
  <2> QED BY <1>t, <2>3 DEF QueuerOK, InWork, v
<1>2. CASE ~ok
  <2>1. queuer' = [queuer EXCEPT !.hand = @ \ {c}, !.failed = @ \cup {c}]
    BY <1>2 DEF Evaluate
  <2>2. /\ queuer' \in Queuer /\ queuer'.pc = "loaded" /\ queuer'.hand = queuer.hand \ {c}
        /\ queuer'.failed = queuer.failed \cup {c} /\ queuer'.cur = queuer.cur
        /\ queuer'.copy = queuer.copy
    BY <1>t, <2>1 DEF Queuer
  <2> QED BY <1>t, <2>2 DEF QueuerOK, InWork
<1> QED BY <1>1, <1>2

LEMMA WriteMoves ==
    ASSUME Typed, NEW ok \in BOOLEAN, WriteMember(ok)
    PROVE  /\ QueuerOK' /\ queuer.pc = "writing" /\ queuer'.pc = "loaded"
           /\ queuer'.copy = queuer.copy /\ queuer.copy \in Segment /\ queuer.cur \in Contacts
           /\ queuer.verdict \in BOOLEAN
           /\ \A k : k # queuer.cur /\ InWork(k) => InWork(k)'
<1>t. queuer \in Queuer /\ QueuerOK /\ queuer.pc = "writing"
  BY DEF Typed, QueuerOK, WriteMember
<1>1. /\ queuer' \in Queuer /\ queuer'.pc = "loaded" /\ queuer'.hand = queuer.hand
      /\ queuer'.failed = queuer.failed /\ queuer'.cur = 0 /\ queuer'.copy = queuer.copy
  BY <1>t DEF WriteMember, Queuer
<1>2. queuer.copy \in Segment /\ queuer.cur \in Contacts /\ queuer.verdict \in BOOLEAN
  BY <1>t DEF QueuerOK, Queuer
<1> QED BY <1>t, <1>1, <1>2 DEF QueuerOK, InWork

LEMMA StopMoves ==
    ASSUME Typed, StopEarly
    PROVE  /\ QueuerOK' /\ queuer'.pc = "loaded" /\ queuer'.copy = queuer.copy
           /\ \A k : InWork(k) => InWork(k)'
<1>t. queuer \in Queuer /\ QueuerOK /\ queuer.pc = "loaded"
  BY DEF Typed, QueuerOK, StopEarly
<1>1. /\ queuer' \in Queuer /\ queuer'.pc = "loaded" /\ queuer'.hand = {}
      /\ queuer'.failed = queuer.failed \cup queuer.hand /\ queuer'.cur = queuer.cur
      /\ queuer'.copy = queuer.copy
  BY <1>t DEF StopEarly, Queuer
<1> QED BY <1>t, <1>1 DEF QueuerOK, InWork
-----------------------------------------------------------------------------
(* Types are kept.                                                            *)
LEMMA Days == ASSUME ClockOK PROVE today + 1 \in 0 .. Disturbances + 1
BY Bounds DEF ClockOK

LEMMA SegmentsMade ==
    ASSUME ClockOK, NEW s \in Segment
    PROVE  /\ \A st \in {"building", "active", "deleted"} : [s EXCEPT !.status = st] \in Segment
           /\ [s EXCEPT !.recompute_after = today + 1] \in Segment
           /\ s.version < MaxVersion =>
                 /\ Rebuilt(s) \in Segment /\ Rebuilt(s).version = s.version + 1
                 /\ \A t \in Trees : Edited(s, t) \in Segment /\ Edited(s, t).version = s.version + 1
<1>1. today + 1 \in 0 .. Disturbances + 1
  BY Days
<1>2. s.version < MaxVersion => s.version + 1 \in Versions
  BY Bounds DEF Segment, Versions
<1>3. [s EXCEPT !.recompute_after = today + 1] \in Segment
  BY <1>1 DEF Segment
<1>4. ASSUME s.version < MaxVersion
      PROVE  Rebuilt(s) \in Segment /\ Rebuilt(s).version = s.version + 1
  BY <1>2, <1>4 DEF Rebuilt, Segment
<1>5. ASSUME s.version < MaxVersion, NEW t \in Trees
      PROVE  Edited(s, t) \in Segment /\ Edited(s, t).version = s.version + 1
  <2>1. s.version + 1 \in Versions
    BY <1>2, <1>5
  <2> QED BY <1>1, <2>1 DEF Edited, Segment
<1> QED BY <1>3, <1>4, <1>5 DEF Segment

LEMMA MissedTyped ==
    ASSUME behind \subseteq Contacts, NEW S \in SUBSET Contacts, Missed(S)
    PROVE  behind' \subseteq Contacts
BY DEF Missed

LEMMA RemovedTyped ==
    ASSUME member \in [Contacts -> 0 .. MaxVersion], NEW v, RemoveOldMemberships(v)
    PROVE  member' \in [Contacts -> 0 .. MaxVersion]
<1>1. 0 \in 0 .. MaxVersion
  BY Bounds
<1> QED BY <1>1 DEF RemoveOldMemberships

(* The contacts and the processor of their queue.                             *)
QueueActs ==
    \/ \E c \in Contacts : Change(c) \/ Ripen(c)
    \/ QueuerStep \/ StopEarly \/ QueuerDies

LEMMA QueueTyped == ASSUME Typed, QueueActs PROVE Typed'
<1>t. /\ member \in [Contacts -> 0 .. MaxVersion] /\ value \in [Contacts -> Values]
      /\ queue \in [Contacts -> {"no", "fresh", "ripe"}] /\ behind \subseteq Contacts
      /\ QueuerOK /\ ClockOK /\ queuer \in Queuer
      /\ queuer.hand \in SUBSET Contacts /\ queuer.failed \in SUBSET Contacts
  BY DEF Typed, ContactsOK, QueuerOK, Queuer
<1>l. (UNCHANGED left \/ Spend) /\ UNCHANGED today => ClockOK'
  BY <1>t, ClockKept
<1>k. ASSUME ContactsOK', QueuerOK', UNCHANGED left \/ Spend,
             UNCHANGED <<seg, task, run, request, orphaned, today>>
      PROVE  Typed'
  BY <1>k, <1>l DEF Typed, BuildsOK, RequestOK
<1>q. UNCHANGED queuer => QueuerOK'
  BY <1>t DEF QueuerOK
<1>1. ASSUME NEW c \in Contacts, Change(c) PROVE Typed'
  <2>1. ContactsOK'
    BY <1>1, <1>t DEF Change, ContactsOK
  <2> QED BY <1>1, <1>k, <1>q, <2>1 DEF Change
<1>2. ASSUME NEW c \in Contacts, Ripen(c) PROVE Typed'
  <2>1. ContactsOK'
    BY <1>2, <1>t DEF Ripen, ContactsOK
  <2> QED BY <1>2, <1>k, <1>q, <2>1 DEF Ripen
<1>3. ASSUME NEW S \in SUBSET Contacts, Claim(S) PROVE Typed'
  <2>1. ContactsOK'
    BY <1>3, <1>t DEF Claim, ContactsOK
  <2> QED BY <1>3, <1>k, <2>1, ClaimMoves DEF Claim
<1>4. ASSUME NEW ok \in BOOLEAN, Load(ok) PROVE Typed'
  <2>1. ContactsOK'
    BY <1>4, <1>t, LoadMoves DEF Load, ContactsOK
  <2> QED BY <1>4, <1>k, <2>1, LoadMoves, Tried DEF Load
<1>5. ASSUME NEW ok \in BOOLEAN, NEW c \in Contacts, Evaluate(c, ok) PROVE Typed'
  <2>1. ContactsOK'
    BY <1>5, <1>t DEF Evaluate, ContactsOK
  <2> QED BY <1>5, <1>k, <2>1, EvaluateMoves, Tried DEF Evaluate
<1>6. ASSUME NEW ok \in BOOLEAN, WriteMember(ok) PROVE Typed'
  <2> DEFINE m == IF queuer.verdict THEN queuer.copy.version ELSE 0
  <2>1. queuer.cur \in Contacts /\ m \in 0 .. MaxVersion
    BY <1>6, WriteMoves, Bounds DEF Segment, Versions
  <2>2. member' \in [Contacts -> 0 .. MaxVersion]
    <3>1. member' = IF ok THEN [member EXCEPT ![queuer.cur] = m] ELSE member
      BY <1>6 DEF WriteMember
    <3> HIDE DEF m
    <3> QED BY <1>t, <2>1, <3>1
  <2>3. behind' \subseteq Contacts
    BY <1>6, <1>t, <2>1 DEF WriteMember, Missed
  <2>4. ContactsOK'
    BY <1>6, <1>t, <2>2, <2>3 DEF WriteMember, ContactsOK
  <2> QED BY <1>6, <1>k, <2>4, WriteMoves, Tried DEF WriteMember
<1>7. CASE StopEarly
  <2>1. ContactsOK'
    BY <1>7, <1>t DEF StopEarly, ContactsOK
  <2> QED BY <1>7, <1>k, <2>1, StopMoves DEF StopEarly
<1>8. ASSUME NEW ok \in BOOLEAN, Requeue(ok) PROVE Typed'
  <2>1. queue' \in [Contacts -> {"no", "fresh", "ripe"}] /\ behind' \subseteq Contacts
    BY <1>8, <1>t, MissedTyped DEF Requeue
  <2>2. ContactsOK' /\ QueuerOK'
    BY <1>8, <1>t, <2>1, Rests DEF Requeue, ContactsOK
  <2> QED BY <1>8, <1>k, <2>2, Tried DEF Requeue
<1>9. CASE QueuerDies
  <2>1. queuer.hand \cup queuer.failed \cup ({queuer.cur} \ {0}) \in SUBSET Contacts
    BY <1>t DEF Queuer
  <2>2. ContactsOK' /\ QueuerOK'
    BY <1>9, <1>t, <2>1, MissedTyped, Rests DEF QueuerDies, ContactsOK
  <2> QED BY <1>9, <1>k, <2>2 DEF QueuerDies
<1> QED BY <1>1, <1>2, <1>3, <1>4, <1>5, <1>6, <1>7, <1>8, <1>9 DEF QueueActs, QueuerStep

(* The builds.                                                                *)
BuildActs ==
    \E b \in Builds : BuildStep(b) \/ Recompute(b) \/ Pause(b) \/ Fails(b) \/ BuildDies(b)

LEMMA WritesBack ==
    ASSUME Typed, NEW s \in Segment, NEW copy, WriteBack(s, copy)
    PROVE  seg' \in Segment /\ orphaned' \in BOOLEAN
BY DEF Typed, WriteBack, Lost

LEMMA ActivateWrites ==
    ASSUME Typed, NEW b \in Builds, Activate(b)
    PROVE  /\ run[b].pc = "activating" /\ run[b].copy \in Segment
           /\ seg' \in Segment /\ seg'.version = run[b].copy.version
           /\ seg'.tree = run[b].copy.tree
           /\ WriteBack(seg', run[b].copy)
<1>t. run[b].pc = "activating" /\ run[b].copy \in Segment
  BY OfBuild DEF Typed, Segments, BuildOK, Activate
<1>1. WriteBack([run[b].copy EXCEPT !.status = "active"], run[b].copy)
  BY DEF Activate
<1>2. seg' = [run[b].copy EXCEPT !.status = "active"]
  BY <1>1 DEF WriteBack
<1> QED BY <1>t, <1>1, <1>2 DEF Segment

LEMMA BuildsTyped == ASSUME Typed, BuildActs PROVE Typed'
<1>t. /\ member \in [Contacts -> 0 .. MaxVersion] /\ value \in [Contacts -> Values]
      /\ queue \in [Contacts -> {"no", "fresh", "ripe"}] /\ behind \subseteq Contacts
      /\ seg \in Segment /\ ContactsOK /\ ClockOK /\ orphaned \in BOOLEAN
  BY DEF Typed, ContactsOK
<1>k. ASSUME seg' \in Segment, ContactsOK', BuildsOK', orphaned' \in BOOLEAN,
             UNCHANGED left \/ Spend, UNCHANGED <<queuer, request, today>>
      PROVE  Typed'
  BY <1>k, <1>t, ClockKept DEF Typed, QueuerOK, RequestOK
<1>c. UNCHANGED <<member, value, queue, behind>> => ContactsOK'
  BY <1>t DEF ContactsOK
<1>1. ASSUME NEW b \in Builds, Begin(b) PROVE Typed'
  BY <1>1, <1>t, <1>c, <1>k, BeginStores DEF Begin
<1>2. ASSUME NEW b \in Builds, Mark(b) PROVE Typed'
  BY <1>2, <1>c, <1>k, MarkStores, WritesBack DEF Mark
<1>3. ASSUME NEW b \in Builds, Check(b) PROVE Typed'
  BY <1>3, <1>t, <1>c, <1>k, CheckStores DEF Check
<1>4. ASSUME NEW b \in Builds, Sweep(b) PROVE Typed'
  <2>1. ContactsOK'
    BY <1>4, <1>t, RemovedTyped DEF Sweep, ContactsOK
  <2>2. BuildsOK'
    BY <1>4, GotoStores DEF Sweep
  <2> QED BY <1>4, <1>t, <1>k, <2>1, <2>2 DEF Sweep
<1>5. ASSUME NEW b \in Builds, Activate(b) PROVE Typed'
  <2>1. BuildsOK'
    <3>1. CASE Completed(b)
      BY <3>1, CompletedStores
    <3>2. CASE Goto(b, "rescheduling") /\ UNCHANGED task
      BY <1>5, <3>2, GotoStores DEF Activate
    <3> QED BY <1>5, <3>1, <3>2 DEF Activate
  <2>2. seg' \in Segment /\ orphaned' \in BOOLEAN
    BY <1>5, ActivateWrites, WritesBack
  <2> QED BY <1>5, <1>c, <1>k, <2>1, <2>2 DEF Activate
<1>6. ASSUME NEW b \in Builds, NEW c \in Contacts, NEW ok \in BOOLEAN, Add(b, c, ok) PROVE Typed'
  <2>1. task[b].version \in 0 .. MaxVersion
    BY OfBuild DEF Typed, Segments, Task
  <2>2. member' \in [Contacts -> 0 .. MaxVersion]
    BY <1>6, <1>t, <2>1 DEF Add
  <2>3. behind' \subseteq Contacts
    BY <1>6, <1>t DEF Add, Missed
  <2>4. ContactsOK'
    BY <1>6, <1>t, <2>2, <2>3 DEF Add, ContactsOK
  <2> QED BY <1>6, <1>t, <1>k, <2>4, AddStores, Tried DEF Add
<1>7. ASSUME NEW b \in Builds, NEW ok \in BOOLEAN, SaveProgress(b, ok) PROVE Typed'
  BY <1>7, <1>t, <1>c, <1>k, SaveStores, Tried DEF SaveProgress
<1>8. ASSUME NEW b \in Builds, NEW ok \in BOOLEAN, Abort(b, ok) PROVE Typed'
  <2>1. member' \in [Contacts -> 0 .. MaxVersion]
    BY <1>8, <1>t, RemovedTyped DEF Abort
  <2>2. ContactsOK'
    BY <1>8, <1>t, <2>1 DEF Abort, ContactsOK
  <2> QED BY <1>8, <1>t, <1>k, <2>2, CompletedStores, Tried DEF Abort
<1>9. ASSUME NEW b \in Builds, NEW ok \in BOOLEAN, Reschedule(b, ok) PROVE Typed'
  <2>1. seg' \in Segment
    BY <1>9, <1>t, SegmentsMade DEF Reschedule
  <2> QED BY <1>9, <1>t, <1>c, <1>k, <2>1, CompletedStores, Tried DEF Reschedule
<1>10. ASSUME NEW b \in Builds, Recompute(b) PROVE Typed'
  <2>1. seg.version \in Versions /\ task[b].status = "none"
    BY <1>10, <1>t, Numbers DEF Recompute, IsFree
  <2>2. BuildsOK'
    BY <1>10, <2>1, NewStores DEF Recompute
  <2> QED BY <1>10, <1>t, <1>c, <1>k, <2>2 DEF Recompute
<1>11. ASSUME NEW b \in Builds, Pause(b) \/ Fails(b) \/ BuildDies(b) PROVE Typed'
  <2>1. /\ UNCHANGED <<seg, member, value, queue, behind, queuer, request, today>>
        /\ UNCHANGED left \/ Spend
        /\ orphaned' \in BOOLEAN
    BY <1>11, <1>t DEF Pause, Fails, BuildDies
  <2> QED BY <1>11, <1>t, <1>c, <1>k, <2>1, HaltStores
<1> QED BY <1>1, <1>2, <1>3, <1>4, <1>5, <1>6, <1>7, <1>8, <1>9, <1>10, <1>11
        DEF BuildActs, BuildStep

(* The console and the calendar.                                              *)
ConsoleActs ==
    \/ RequestStep \/ Tomorrow
    \/ \E op \in {"rename", "edit", "rebuild", "delete"} : BeginRequest(op)

LEMMA RequestCopies ==
    ASSUME Typed, request.pc # "none"
    PROVE  request \in Asked /\ request.copy \in Segment
BY DEF Typed, RequestOK, Asked, NoRequest

LEMMA ConsoleTyped == ASSUME Typed, ConsoleActs PROVE Typed'
<1>t. /\ seg \in Segment /\ ContactsOK /\ BuildsOK /\ QueuerOK /\ ClockOK /\ RequestOK
      /\ orphaned \in BOOLEAN
  BY DEF Typed
<1>k. ASSUME seg' \in Segment, ContactsOK', BuildsOK', orphaned' \in BOOLEAN, RequestOK',
             UNCHANGED left \/ Spend, UNCHANGED <<queuer, today>>
      PROVE  Typed'
  BY <1>k, <1>t, ClockKept DEF Typed, QueuerOK
<1>c. UNCHANGED <<member, value, queue, behind>> => ContactsOK'
  BY <1>t DEF ContactsOK
<1>b. UNCHANGED <<task, run>> => BuildsOK'
  BY <1>t DEF BuildsOK
<1>n. request' = NoRequest => RequestOK'
  BY DEF RequestOK, NoRequest
<1>w. ASSUME NEW s \in Segment, request.pc # "none", Written(s) PROVE RequestOK'
  <2>1. request.op \in {"rename", "edit", "rebuild", "delete"}
    BY <1>w, RequestCopies DEF Asked
  <2> QED BY <1>w, <2>1 DEF Written, RequestOK, Asked
<1>1. ASSUME NEW op \in {"rename", "edit", "rebuild", "delete"}, BeginRequest(op) PROVE Typed'
  <2>1. RequestOK'
    BY <1>1, <1>t DEF BeginRequest, RequestOK, Asked
  <2> QED BY <1>1, <1>t, <1>c, <1>b, <1>k, <2>1 DEF BeginRequest
<1>2. CASE Rename
  <2>1. request.copy \in Segment
    BY <1>2, RequestCopies DEF Rename, WriteRequest
  <2>2. orphaned' \in BOOLEAN
    BY <1>2, <1>t DEF Rename, Lost
  <2> QED BY <1>2, <1>c, <1>b, <1>n, <1>k, <2>1, <2>2 DEF Rename
<1>3. ASSUME Rebuild \/ \E t \in Trees : Edit(t) PROVE Typed'
  <2>1. request.pc = "read" /\ request.op \in {"edit", "rebuild"}
    BY <1>3 DEF Rebuild, Edit, WriteRequest
  <2>2. request.copy \in Segment /\ request.copy.version < MaxVersion
    BY <1>t, <2>1, RequestCopies DEF RequestOK
  <2>3. PICK s \in Segment : WriteBack(s, request.copy) /\ Written(s)
    BY <1>3, <1>t, <2>2, SegmentsMade DEF Rebuild, Edit
  <2>4. seg' \in Segment /\ orphaned' \in BOOLEAN /\ RequestOK'
    BY <1>w, <2>1, <2>3, WritesBack
  <2>5. UNCHANGED <<member, value, task, run, queue, queuer, behind, today, left>>
    BY <1>3 DEF Rebuild, Edit
  <2> QED BY <1>c, <1>b, <1>k, <2>4, <2>5
<1>4. ASSUME NEW b \in Builds, NEW ok \in BOOLEAN, CreateBuild(b, ok) PROVE Typed'
  <2>1. request.copy \in Segment /\ request.copy.version \in Versions
    BY <1>4, RequestCopies, Numbers DEF CreateBuild
  <2>2. BuildsOK'
    <3>1. CASE ok
      BY <1>4, <2>1, <3>1, NewStores DEF CreateBuild, IsFree
    <3>2. CASE ~ok
      BY <1>4, <1>b, <3>2 DEF CreateBuild
    <3> QED BY <3>1, <3>2
  <2> QED BY <1>4, <1>t, <1>c, <1>n, <1>k, <2>2, Tried DEF CreateBuild
<1>5. CASE MarkDeleted
  <2>1. request.copy \in Segment /\ request.pc # "none"
    BY <1>5, RequestCopies DEF MarkDeleted, WriteRequest
  <2>2. seg' \in Segment
    BY <1>5, <1>t DEF MarkDeleted, Segment
  <2>3. RequestOK'
    BY <1>5, <1>w, <2>1 DEF MarkDeleted
  <2> QED BY <1>5, <1>t, <1>c, <1>b, <1>k, <2>2, <2>3 DEF MarkDeleted
<1>6. ASSUME NEW ok \in BOOLEAN, DeleteMembers(ok) PROVE Typed'
  <2>1. 0 \in 0 .. MaxVersion
    BY Bounds
  <2>2. ContactsOK'
    BY <1>6, <1>t, <2>1 DEF DeleteMembers, ContactsOK
  <2> QED BY <1>6, <1>t, <1>b, <1>n, <1>k, <2>2, Tried DEF DeleteMembers
<1>7. CASE Tomorrow
  <2>1. ClockOK'
    BY <1>7, <1>t, Bounds DEF Tomorrow, Spend, ClockOK
  <2> QED BY <1>7, <1>t, <2>1
          DEF Tomorrow, Typed, ContactsOK, BuildsOK, QueuerOK, RequestOK
<1> QED BY <1>1, <1>2, <1>3, <1>4, <1>5, <1>6, <1>7 DEF ConsoleActs, RequestStep

LEMMA StepsOf == ASSUME Next PROVE QueueActs \/ BuildActs \/ ConsoleActs
BY DEF Next, Disturb, QueueActs, BuildActs, ConsoleActs

LEMMA NextTyped == Typed /\ [Next]_vars => Typed'
<1> SUFFICES ASSUME Typed, [Next]_vars PROVE Typed'
  OBVIOUS
<1>1. CASE Next
  BY <1>1, StepsOf, QueueTyped, BuildsTyped, ConsoleTyped
<1>2. CASE UNCHANGED vars
  BY <1>2 DEF vars, Typed, ContactsOK, BuildsOK, QueuerOK, RequestOK, ClockOK
<1> QED BY <1>1, <1>2

LEMMA TypedAtFirst == Init => Typed
<1> SUFFICES ASSUME Init PROVE Typed
  OBVIOUS
<1>1. 0 \in 0 .. MaxVersion /\ 1 \in 0 .. Disturbances + 1 /\ 0 \in 0 .. Disturbances
  BY Bounds
<1>2. seg \in Segment
  BY <1>1, Bounds DEF Init, Segment
<1>3. ContactsOK /\ ClockOK /\ QueuerOK /\ RequestOK
  BY <1>1, Nothing, Bounds DEF Init, ContactsOK, ClockOK, QueuerOK, RequestOK, NoRequest
<1>4. BuildsOK
  <2>1. NoTask.status = "none" /\ NoTask \in Task /\ NewTask(1) \in Task /\ NewTask(1).status = "pending"
    BY Nothing, NewTasks, Bounds DEF NoTask
  <2>2. BuildOK(NoTask, NoRun) /\ BuildOK(NewTask(1), NoRun)
    BY <2>1, Nothing DEF BuildOK
  <2>3. /\ task \in [Builds -> Task] /\ run \in [Builds -> Run]
        /\ \A b \in Builds : run[b] = NoRun /\ task[b] \in {NoTask, NewTask(1)}
    BY <2>1, Nothing DEF Init
  <2> QED BY <2>2, <2>3 DEF BuildsOK
<1> QED BY <1>2, <1>3, <1>4 DEF Init, Typed

(* Versions, offsets, retries and days stay within what the rows declare,     *)
(* whatever the console, the daily check, the builds and the queue's          *)
(* processor do to one segment at once (segment_build_processor.go,           *)
(* segment_service.go, contact_segment_queue_processor.go).                   *)
THEOREM SegmentTypeCorrect == Spec => []TypeOK
BY TypedAtFirst, NextTyped, TypedIsTypeOK, PTL DEF Spec
-----------------------------------------------------------------------------
(* No contact is lost. What the segment is now may have its builds.           *)
Standing == seg.status # "deleted" /\ ~orphaned

(* A copy of the segment is of an older version, or of what it is now.        *)
Current(copy) ==
    copy \in Segment =>
       copy.version <= seg.version /\ (copy.version = seg.version => copy.tree = seg.tree)

Versioned ==
    /\ \A b \in Builds : Current(run[b].copy) /\ task[b].version <= seg.version
    /\ Current(queuer.copy)
    /\ request.pc # "none" => Current(request.copy)
    /\ request.pc = "written" => request.op \in {"edit", "rebuild"} /\ request.copy.version = seg.version
    /\ \A c \in Contacts : member[c] <= seg.version

Attended(c) == c \in behind \/ queue[c] # "no" \/ InWork(c)

Ordered == request.pc = "written" /\ request.op # "delete"

(* A contact wrongly in the segment is queued or in the processor's hands: no *)
(* build takes it out. One wrongly out may also wait for a build.             *)
Kept(c) ==
    \/ Right(c) \/ Attended(c)
    \/ member[c] # seg.version /\ (Ordered \/ \E b \in Builds : WillVisit(b, c))

(* A verdict overtaken by a change of its contact has the contact queued.     *)
Judged ==
    queuer.pc = "writing" =>
       queue[queuer.cur] # "no" \/ queuer.verdict = Matches(queuer.cur, queuer.copy.tree)

Tended == Judged /\ (Standing => Versioned /\ \A c \in Contacts : Kept(c))

LEMMA SegmentNumbers ==
    ASSUME Typed
    PROVE  /\ seg \in Segment /\ seg.version \in Nat /\ seg.version > 0
           /\ \A c \in Contacts : member[c] \in Nat
           /\ \A b \in Builds : task[b].version \in Nat
           /\ NoRun.copy \notin Segment /\ NoWork.copy \notin Segment
<1>1. seg \in Segment /\ seg.version \in Nat /\ seg.version > 0
  <2>1. \A v \in Versions : v \in Nat /\ v > 0
    BY Bounds
  <2> QED BY <2>1 DEF Typed, Segment
<1>2. \A c \in Contacts : member[c] \in Nat
  BY Bounds DEF Typed, ContactsOK
<1>3. \A b \in Builds : task[b].version \in Nat
  BY Numbers DEF Typed, BuildsOK
<1> QED BY <1>1, <1>2, <1>3, Nothing DEF NoRun, NoWork

(* What the contacts and the processor of the queue do.                       *)
LEMMA QueueTends == ASSUME Typed, Tended, QueueActs PROVE Tended'
<1>u. UNCHANGED <<seg, task, run, request, orphaned>>
  BY DEF QueueActs, QueuerStep, Change, Ripen, Claim, Load, Evaluate, WriteMember, Requeue,
         StopEarly, QueuerDies
<1>n. /\ seg \in Segment /\ seg.version \in Nat /\ seg.version > 0
      /\ NoWork.copy \notin Segment
  BY SegmentNumbers
<1>t. /\ member \in [Contacts -> 0 .. MaxVersion] /\ value \in [Contacts -> Values]
      /\ queue \in [Contacts -> {"no", "fresh", "ripe"}] /\ QueuerOK
  BY DEF Typed, ContactsOK
<1>v. \A c, b : WillVisit(b, c) => WillVisit(b, c)'
  BY <1>u DEF WillVisit
<1>s. Standing' => Standing /\ Versioned /\ \A c \in Contacts : Kept(c)
  BY <1>u DEF Standing, Tended
<1>c. Current(seg)
  BY <1>n DEF Current
(* It is enough to look at the contacts, and at the segment that was loaded.  *)
<1>k. ASSUME Judged',
             queuer'.copy \in {queuer.copy, seg} \/ queuer'.copy \notin Segment,
             Standing => \A c \in Contacts : member'[c] <= seg.version,
             \A c \in Contacts : Standing /\ Kept(c) =>
                \/ Right(c)' \/ Attended(c)'
                \/ UNCHANGED <<member[c], value[c]>> /\ (Attended(c) => Attended(c)')
      PROVE  Tended'
  <2>1. Standing' => Versioned'
    BY <1>u, <1>s, <1>c, <1>k DEF Versioned, Current
  <2>2. ASSUME Standing', NEW c \in Contacts PROVE Kept(c)'
    <3>1. Kept(c) /\ Standing
      BY <1>s, <2>2
    <3>2. CASE UNCHANGED <<member[c], value[c]>> /\ (Attended(c) => Attended(c)')
      <4>1. Right(c) => Right(c)'
        BY <1>u, <3>2 DEF Right, Matches
      <4>2. Ordered => Ordered'
        BY <1>u DEF Ordered
      <4> QED BY <1>u, <1>v, <3>1, <3>2, <4>1, <4>2 DEF Kept
    <3> QED BY <1>k, <3>1, <3>2 DEF Kept
  <2> QED BY <1>k, <2>1, <2>2 DEF Tended
<1>m. UNCHANGED member => (Standing => \A c \in Contacts : member'[c] <= seg.version)
  BY DEF Tended, Versioned
<1>1. ASSUME NEW c \in Contacts, Change(c) PROVE Tended'
  <2>1. /\ UNCHANGED <<member, queuer, behind>> /\ queue'[c] = "fresh"
        /\ \A d \in Contacts \ {c} : queue'[d] = queue[d] /\ value'[d] = value[d]
    BY <1>1, <1>t DEF Change
  <2>2. Judged'
    <3>1. queuer.pc = "writing" => queuer.cur \in Contacts
      BY <1>t DEF QueuerOK, Queuer
    <3>2. Matches(queuer.cur, queuer.copy.tree)' <=> value'[queuer.cur] \in queuer.copy.tree
      BY <2>1 DEF Matches
    <3> QED BY <2>1, <3>1, <3>2 DEF Judged, Tended, Matches
  <2>3. \A d \in Contacts : Attended(d)' \/
                            (UNCHANGED <<member[d], value[d]>> /\ (Attended(d) => Attended(d)'))
    BY <2>1 DEF Attended, InWork
  <2> QED BY <1>k, <1>m, <2>1, <2>2, <2>3
<1>2. ASSUME NEW c \in Contacts, Ripen(c) PROVE Tended'
  <2>1. /\ UNCHANGED <<member, value, queuer, behind>>
        /\ \A d \in Contacts : queue[d] # "no" => queue'[d] # "no"
    BY <1>2, <1>t DEF Ripen
  <2>2. Judged'
    <3>1. queuer.pc = "writing" => queuer.cur \in Contacts
      BY <1>t DEF QueuerOK, Queuer
    <3> QED BY <2>1, <3>1 DEF Judged, Tended, Matches
  <2>3. \A d \in Contacts : Attended(d) => Attended(d)'
    BY <2>1 DEF Attended, InWork
  <2> QED BY <1>k, <1>m, <2>1, <2>2, <2>3
<1>3. ASSUME NEW S \in SUBSET Contacts, Claim(S) PROVE Tended'
  <2>1. /\ UNCHANGED <<member, value, behind>>
        /\ \A d \in Contacts \ S : queue'[d] = queue[d]
    BY <1>3, <1>t DEF Claim
  <2>2. Judged'
    BY <1>3, ClaimMoves DEF Judged
  <2>3. \A d \in Contacts : Attended(d) => Attended(d)'
    BY <1>3, <2>1, ClaimMoves DEF Attended
  <2> QED BY <1>3, <1>k, <1>m, <2>1, <2>2, <2>3, ClaimMoves
<1>4. ASSUME NEW ok \in BOOLEAN, Load(ok) PROVE Tended'
  <2>1. UNCHANGED <<member, value, queue>>
    BY <1>4 DEF Load
  <2>2. Judged'
    BY <1>4, LoadMoves DEF Judged
  <2>3. \A d \in Contacts : Right(d) => Right(d)'
    BY <1>u, <2>1 DEF Right, Matches
  <2>4. \A d \in Contacts : Right(d)' \/ (Attended(d) => Attended(d)')
    BY <1>4, <2>1, <2>3, LoadMoves DEF Attended
  <2> QED BY <1>4, <1>n, <1>k, <1>m, <2>1, <2>2, <2>4, LoadMoves
<1>5. ASSUME NEW ok \in BOOLEAN, NEW c \in Contacts, Evaluate(c, ok) PROVE Tended'
  <2>1. UNCHANGED <<member, value, queue, behind>>
    BY <1>5 DEF Evaluate
  <2>2. Judged'
    <3>1. /\ queuer'.copy = queuer.copy
          /\ queuer'.pc = "writing" =>
                queuer'.cur = c /\ queuer'.verdict = Matches(c, queuer.copy.tree)
      BY <1>5, EvaluateMoves
    <3> QED BY <2>1, <3>1 DEF Judged, Matches
  <2>3. \A d \in Contacts : Attended(d) => Attended(d)'
    <3>1. \A d \in Contacts : d # 0
      BY Bounds
    <3> QED BY <1>5, <2>1, <3>1, EvaluateMoves DEF Attended
  <2> QED BY <1>5, <1>k, <1>m, <2>1, <2>2, <2>3, EvaluateMoves
<1>6. ASSUME NEW ok \in BOOLEAN, WriteMember(ok) PROVE Tended'
  <2> DEFINE m == IF queuer.verdict THEN queuer.copy.version ELSE 0
             right(d) == (m = seg.version) <=> Matches(d, seg.tree)
             outdated == queuer.copy.version # seg.version \/ queuer.copy.tree # seg.tree
  <2>a. /\ queuer.pc = "writing" /\ queuer'.pc = "loaded" /\ queuer'.copy = queuer.copy
        /\ queuer.copy \in Segment /\ queuer.cur \in Contacts /\ queuer.verdict \in BOOLEAN
        /\ \A k : k # queuer.cur /\ InWork(k) => InWork(k)'
    BY <1>6, WriteMoves
  <2>1. /\ UNCHANGED <<value, queue>>
        /\ member' = IF ok THEN [member EXCEPT ![queuer.cur] = m] ELSE member
        /\ ok /\ right(queuer.cur) => behind' = behind \ {queuer.cur}
        /\ ok /\ ~right(queuer.cur) =>
              behind' = IF outdated THEN behind \cup {queuer.cur} ELSE behind
        /\ ~ok => behind' = behind \cup {c \in {queuer.cur} : ~Right(c)}
    BY <1>6 DEF WriteMember, Missed
  <2>2. Judged'
    BY <2>a DEF Judged
  <2>3. queue[queuer.cur] # "no" \/ queuer.verdict = Matches(queuer.cur, queuer.copy.tree)
    BY <2>a DEF Tended, Judged
  <2>4. Standing => \A c \in Contacts : member'[c] <= seg.version
    <3>1. Standing => m <= seg.version
      BY <1>n, <2>a DEF Tended, Versioned, Current
    <3>2. Standing => \A c \in Contacts : member[c] <= seg.version
      BY DEF Tended, Versioned
    <3> HIDE DEF m, right, outdated
    <3>3. \A c \in Contacts : member'[c] \in {m, member[c]}
      BY <1>t, <2>1
    <3> QED BY <3>1, <3>2, <3>3
  <2>5. ASSUME NEW d \in Contacts, d # queuer.cur
        PROVE  UNCHANGED <<member[d], value[d]>> /\ (Attended(d) => Attended(d)')
    <3>1. member'[d] = member[d] /\ (d \in behind => d \in behind')
      <4> HIDE DEF m, right, outdated
      <4> QED BY <1>t, <2>a, <2>1, <2>5
    <3> QED BY <2>a, <2>1, <2>5, <3>1 DEF Attended
  <2>6. ASSUME NEW d \in Contacts, d = queuer.cur, ~Right(d)'
        PROVE  Attended(d)'
    <3>1. CASE ok
      <4>1. member'[d] = m
        <5> HIDE DEF m
        <5> QED BY <1>t, <2>a, <2>1, <2>6, <3>1
      <4>2. ~right(d)
        BY <1>u, <2>1, <2>6, <4>1 DEF Right, Matches
      <4>3. CASE outdated
        BY <2>1, <2>6, <3>1, <4>2, <4>3 DEF Attended
      <4>4. CASE ~outdated
        <5>1. queuer.verdict # Matches(d, queuer.copy.tree)
          BY <1>n, <2>a, <4>2, <4>4
        <5> QED BY <2>1, <2>3, <2>6, <5>1 DEF Attended
      <4> QED BY <4>3, <4>4
    <3>2. CASE ~ok
      <4>1. ~Right(d)
        BY <1>u, <2>1, <2>6, <3>2 DEF Right, Matches
      <4> QED BY <2>1, <2>6, <3>2, <4>1 DEF Attended
    <3> QED BY <3>1, <3>2
  <2>7. \A d \in Contacts : \/ Right(d)' \/ Attended(d)'
                            \/ UNCHANGED <<member[d], value[d]>> /\ (Attended(d) => Attended(d)')
    BY <2>5, <2>6
  <2> QED BY <1>k, <2>a, <2>2, <2>4, <2>7
<1>7. CASE StopEarly
  <2>1. UNCHANGED <<member, value, queue, behind>>
    BY <1>7 DEF StopEarly
  <2>2. Judged'
    BY <1>7, StopMoves DEF Judged
  <2>3. \A d \in Contacts : Attended(d) => Attended(d)'
    BY <1>7, <2>1, StopMoves DEF Attended
  <2> QED BY <1>7, <1>k, <1>m, <2>1, <2>2, <2>3, StopMoves
<1>8. ASSUME NEW ok \in BOOLEAN, Requeue(ok) PROVE Tended'
  <2>1. UNCHANGED <<member, value>> /\ queuer' = NoWork
    BY <1>8 DEF Requeue
  <2>2. Judged'
    BY <2>1, Nothing DEF Judged
  <2>3. \A d \in Contacts : InWork(d) => d \in queuer.failed
    BY <1>8, <1>t, Bounds DEF Requeue, InWork, QueuerOK
  <2>4. \A d \in Contacts : Right(d)' <=> Right(d)
    BY <1>u, <2>1 DEF Right, Matches
  <2>5. \A d \in Contacts : Right(d)' \/ (Attended(d) => Attended(d)')
    <3>1. CASE ok
      <4>1. /\ UNCHANGED behind
            /\ \A d \in Contacts : queue'[d] = IF d \in queuer.failed THEN "fresh" ELSE queue[d]
        BY <1>8, <3>1 DEF Requeue
      <4> QED BY <2>3, <4>1 DEF Attended
    <3>2. CASE ~ok
      <4>1. UNCHANGED queue /\ behind' = behind \cup {c \in queuer.failed : ~Right(c)}
        BY <1>8, <3>2 DEF Requeue, Missed
      <4> QED BY <2>3, <2>4, <4>1 DEF Attended
    <3> QED BY <3>1, <3>2
  <2> QED BY <1>n, <1>k, <1>m, <2>1, <2>2, <2>5
<1>9. CASE QueuerDies
  <2>1. /\ UNCHANGED <<member, value, queue>> /\ queuer' = NoWork
        /\ behind' = behind \cup {c \in queuer.hand \cup queuer.failed \cup ({queuer.cur} \ {0}) : ~Right(c)}
    BY <1>9 DEF QueuerDies, Missed
  <2>2. Judged'
    BY <2>1, Nothing DEF Judged
  <2>3. \A d \in Contacts : Right(d)' <=> Right(d)
    BY <1>u, <2>1 DEF Right, Matches
  <2>4. \A d \in Contacts : Right(d)' \/ (Attended(d) => Attended(d)')
    <3>1. \A d \in Contacts : d # 0
      BY Bounds
    <3> QED BY <2>1, <2>3, <3>1 DEF Attended, InWork
  <2> QED BY <1>n, <1>k, <1>m, <2>1, <2>2, <2>4
<1> QED BY <1>1, <1>2, <1>3, <1>4, <1>5, <1>6, <1>7, <1>8, <1>9 DEF QueueActs, QueuerStep

(* What the builds do.                                                        *)
LEMMA KeptByBuild ==
    ASSUME NEW b \in Builds, Others(b), UNCHANGED <<value, queue, queuer, request>>,
           seg'.version = seg.version, seg'.tree = seg.tree,
           NEW c \in Contacts, Kept(c),
           member'[c] = seg.version <=> member[c] = seg.version,
           c \in behind => c \in behind' \/ Right(c)',
           WillVisit(b, c) => WillVisit(b, c)' \/ Right(c) \/ member[c] = seg.version
    PROVE  Kept(c)'
<1>1. Right(c) <=> Right(c)'
  BY DEF Right, Matches
<1>2. Attended(c) => Attended(c)' \/ Right(c)'
  BY DEF Attended, InWork
<1>3. Ordered <=> Ordered'
  BY DEF Ordered
<1>4. ASSUME NEW k \in Builds, k # b, WillVisit(k, c) PROVE WillVisit(k, c)'
  <2>1. task'[k] = task[k] /\ run'[k] = run[k]
    BY <1>4 DEF Others
  <2> QED BY <1>4, <2>1 DEF WillVisit
<1> QED BY <1>1, <1>2, <1>3, <1>4 DEF Kept

LEMMA TendedByBuild ==
    ASSUME Typed, Tended, NEW b \in Builds, Others(b), UNCHANGED <<value, queue, queuer, request>>,
           Standing' => /\ Standing /\ seg'.version = seg.version /\ seg'.tree = seg.tree
                        /\ Current(run'[b].copy) /\ task'[b].version <= seg.version
                        /\ \A c \in Contacts : member'[c] <= seg.version
                        /\ \A c \in Contacts : Kept(c) => Kept(c)'
    PROVE  Tended'
<1>1. Judged'
  BY DEF Tended, Judged, Matches
<1>2. ASSUME Standing' PROVE Versioned' /\ \A c \in Contacts : Kept(c)'
  <2>1. \A k \in Builds : Current(run'[k].copy) /\ task'[k].version <= seg.version
    BY <1>2 DEF Others, Tended, Versioned
  <2>2. Versioned'
    BY <1>2, <2>1 DEF Tended, Versioned, Current
  <2> QED BY <1>2, <2>2 DEF Tended
<1> QED BY <1>1, <1>2 DEF Tended

(* The row is written back as it was, or something is lost.                   *)
LEMMA OldWritten ==
    ASSUME Typed, NEW s, NEW copy \in Segment, WriteBack(s, copy), seg' = s,
           s.version = copy.version, s.tree = copy.tree
    PROVE  Standing' => Standing /\ seg'.version = seg.version /\ seg'.tree = seg.tree
BY DEF WriteBack, Lost, Standing, Typed

LEMMA RemovesOld ==
    ASSUME Typed, NEW v \in Nat, v <= seg.version, RemoveOldMemberships(v), NEW c \in Contacts
    PROVE  /\ member'[c] = seg.version <=> member[c] = seg.version
           /\ member[c] <= seg.version => member'[c] <= seg.version
<1>1. member[c] \in Nat /\ seg.version \in Nat /\ seg.version > 0
  BY SegmentNumbers
<1>2. member'[c] = IF member[c] < v THEN 0 ELSE member[c]
  BY DEF RemoveOldMemberships
<1> QED BY <1>1, <1>2

LEMMA BuildsTend == ASSUME Typed, Tended, BuildActs PROVE Tended'
<1>n. /\ seg \in Segment /\ seg.version \in Nat /\ seg.version > 0 /\ Current(seg)
      /\ \A c \in Contacts : member[c] \in Nat
      /\ \A b \in Builds : task[b].version \in Nat
      /\ \A copy : copy \notin Segment => Current(copy)
      /\ NoRun.copy \notin Segment /\ NoRun.pc = "idle"
  BY SegmentNumbers, Nothing DEF Current
<1>t. /\ member \in [Contacts -> 0 .. MaxVersion] /\ behind \subseteq Contacts
      /\ \A b \in Builds : BuildOK(task[b], run[b])
  BY DEF Typed, ContactsOK, BuildsOK
<1>o. \A b \in Builds : run[b].offset \in Nat /\ task[b].offset \in Nat
  BY OfBuild, Numbers DEF Typed, Segments
<1>k. Standing => /\ \A c \in Contacts : member[c] <= seg.version /\ Kept(c)
                  /\ \A b \in Builds : Current(run[b].copy) /\ task[b].version <= seg.version
  BY DEF Tended, Versioned
<1>v. ASSUME NEW b \in Builds, NEW c, WillVisit(b, c)
      PROVE  task[b].version = seg.version /\ task[b].status \in {"pending", "running"}
  BY <1>v DEF WillVisit
(* The execution has come to an end, or to a point where it visits nobody.    *)
<1>e. ASSUME NEW b \in Builds, run[b].pc \notin {"idle", "marking", "checking", "adding"}
      PROVE  \A c : ~WillVisit(b, c)
  BY <1>e DEF WillVisit
<1>1. ASSUME NEW b \in Builds, Begin(b) PROVE Tended'
  <2>1. /\ Others(b) /\ task[b].status = "pending" /\ task'[b].version = task[b].version
        /\ \/ seg.version > task[b].version /\ run'[b] = NoRun
           \/ /\ task'[b].status = "running" /\ run'[b].pc \in {"checking", "marking"}
              /\ run'[b].copy = seg /\ run'[b].offset = task[b].offset
    BY <1>1, BeginStores
  <2>2. UNCHANGED <<seg, member, value, queue, queuer, request, behind, orphaned>>
    BY <1>1 DEF Begin
  <2>3. ASSUME NEW c \in Contacts, WillVisit(b, c) PROVE WillVisit(b, c)'
    <3>1. run[b].pc = "idle"
      BY <1>t, <2>1 DEF BuildOK
    <3>2. task[b].version = seg.version /\ task[b].offset < c
      BY <2>3, <3>1 DEF WillVisit
    <3>3. ~(seg.version > task[b].version)
      BY <1>n, <3>2
    <3> QED BY <2>1, <2>2, <3>2, <3>3 DEF WillVisit
  <2>4. \A c \in Contacts : Kept(c) => Kept(c)'
    BY <2>1, <2>2, <2>3, KeptByBuild
  <2> QED BY <1>n, <1>k, <2>1, <2>2, <2>4, TendedByBuild DEF Standing
<1>2. ASSUME NEW b \in Builds, Mark(b) PROVE Tended'
  <2>1. /\ Others(b) /\ task'[b] = task[b] /\ run[b].pc = "marking" /\ run'[b].pc = "checking"
        /\ run'[b].offset = run[b].offset /\ run[b].copy \in Segment
        /\ run'[b].copy.version = run[b].copy.version /\ run'[b].copy.tree = run[b].copy.tree
        /\ WriteBack(run'[b].copy, run[b].copy)
    BY <1>2, MarkStores
  <2>2. UNCHANGED <<member, value, queue, queuer, request, behind>>
    BY <1>2 DEF Mark
  <2>3. Standing' => Standing /\ seg'.version = seg.version /\ seg'.tree = seg.tree
    BY <2>1, OldWritten DEF WriteBack
  <2>4. ASSUME Standing', NEW c \in Contacts, WillVisit(b, c) PROVE WillVisit(b, c)'
    BY <2>1, <2>3, <2>4, Nothing DEF WillVisit
  <2>5. ASSUME Standing', NEW c \in Contacts, Kept(c) PROVE Kept(c)'
    BY <2>1, <2>2, <2>3, <2>4, <2>5, KeptByBuild
  <2>6. Current(run[b].copy) => Current(run'[b].copy)
    BY <2>1 DEF Current
  <2> QED BY <1>n, <1>k, <2>1, <2>2, <2>3, <2>5, <2>6, TendedByBuild
<1>3. ASSUME NEW b \in Builds, Check(b) PROVE Tended'
  <2>1. /\ Others(b) /\ task'[b] = task[b] /\ run[b].pc = "checking" /\ run[b].copy \in Segment
        /\ run'[b].offset = run[b].offset /\ run'[b].copy \in {seg, run[b].copy}
        /\ \/ seg.version > task[b].version /\ run'[b].pc = "aborting"
           \/ /\ run'[b].pc = "adding" /\ run'[b].copy = run[b].copy
              /\ run'[b].found = {c \in BatchFrom(run[b].offset) : Matches(c, run[b].copy.tree)}
           \/ BatchFrom(run[b].offset) = {}
    BY <1>3, CheckStores
  <2>2. UNCHANGED <<seg, member, value, queue, queuer, request, behind, orphaned>>
    BY <1>3 DEF Check
  <2>3. ASSUME NEW c \in Contacts, WillVisit(b, c)
        PROVE  WillVisit(b, c)' \/ Right(c) \/ member[c] = seg.version
    <3>1. /\ task[b].version = seg.version /\ run[b].copy.tree = seg.tree /\ run[b].offset < c
          /\ task[b].status \in {"pending", "running"}
      BY <2>1, <2>3, Nothing DEF WillVisit
    <3>2. ~(seg.version > task[b].version)
      BY <1>n, <3>1
    <3>3. c \in BatchFrom(run[b].offset) \/ run[b].offset + BatchSize < c
      <4>1. c \in Nat /\ BatchSize \in Nat
        BY Bounds
      <4> QED BY <1>o, <3>1, <4>1 DEF BatchFrom
    <3>4. BatchFrom(run[b].offset) # {}
      <4>1. run[b].offset + 1 <= c /\ run[b].offset + 1 \in Contacts
        BY <1>o, <3>1, Bounds DEF Contacts
      <4>2. BatchSize \in Nat /\ BatchSize > 0
        BY Bounds
      <4>3. run[b].offset + 1 \in BatchFrom(run[b].offset)
        BY <1>o, <4>1, <4>2 DEF BatchFrom
      <4> QED BY <4>3
    <3>5. CASE c \in run'[b].found \/ run[b].offset + BatchSize < c
      BY <2>1, <2>2, <3>1, <3>2, <3>4, <3>5 DEF WillVisit
    <3>6. CASE c \notin run'[b].found /\ ~(run[b].offset + BatchSize < c)
      <4>1. ~Matches(c, seg.tree)
        BY <2>1, <3>1, <3>2, <3>3, <3>4, <3>6
      <4> QED BY <4>1 DEF Right
    <3> QED BY <3>5, <3>6
  <2>4. \A c \in Contacts : Kept(c) => Kept(c)'
    BY <2>1, <2>2, <2>3, KeptByBuild
  <2> QED BY <1>n, <1>k, <2>1, <2>2, <2>4, TendedByBuild DEF Standing
<1>4. ASSUME NEW b \in Builds, Sweep(b) PROVE Tended'
  <2>1. run[b].pc = "sweeping" /\ RemoveOldMemberships(task[b].version)
        /\ UNCHANGED <<seg, value, queue, queuer, request, behind, orphaned>>
    BY <1>4 DEF Sweep
  <2>2. Others(b) /\ task'[b] = task[b] /\ run'[b].copy = run[b].copy
    BY <1>4, <2>1, GotoStores DEF Sweep
  <2>3. Standing => \A c \in Contacts : /\ member'[c] = seg.version <=> member[c] = seg.version
                                        /\ member'[c] <= seg.version
    BY <1>n, <1>k, <2>1, RemovesOld
  <2>4. Standing => \A c \in Contacts : Kept(c) => Kept(c)'
    BY <1>e, <2>1, <2>2, <2>3, KeptByBuild
  <2> QED BY <1>k, <2>1, <2>2, <2>3, <2>4, TendedByBuild DEF Standing
<1>5. ASSUME NEW b \in Builds, Activate(b) PROVE Tended'
  <2>1. /\ run[b].pc = "activating" /\ run[b].copy \in Segment
        /\ seg'.version = run[b].copy.version /\ seg'.tree = run[b].copy.tree
        /\ WriteBack(seg', run[b].copy)
    BY <1>5, ActivateWrites
  <2>2. UNCHANGED <<member, value, queue, queuer, request, behind>>
    BY <1>5 DEF Activate
  <2>3. Standing' => Standing /\ seg'.version = seg.version /\ seg'.tree = seg.tree
    BY <2>1, OldWritten
  <2>4. /\ Others(b) /\ task'[b].version = task[b].version
        /\ run'[b].copy = run[b].copy \/ run'[b].copy \notin Segment
    <3>1. CASE Completed(b)
      BY <1>n, <3>1, CompletedStores
    <3>2. CASE Goto(b, "rescheduling") /\ UNCHANGED task
      BY <2>1, <3>2, GotoStores
    <3> QED BY <1>5, <3>1, <3>2 DEF Activate
  <2>5. ASSUME Standing', NEW c \in Contacts, Kept(c) PROVE Kept(c)'
    BY <1>e, <2>1, <2>2, <2>3, <2>4, <2>5, KeptByBuild
  <2> QED BY <1>n, <1>k, <2>2, <2>3, <2>4, <2>5, TendedByBuild
<1>6. ASSUME NEW b \in Builds, NEW c \in Contacts, NEW ok \in BOOLEAN, Add(b, c, ok) PROVE Tended'
  <2> DEFINE right == task[b].version = seg.version /\ Matches(c, seg.tree)
  <2>1. /\ Others(b) /\ task'[b] = task[b] /\ run[b].pc = "adding" /\ run'[b].pc = "adding"
        /\ run'[b].copy = run[b].copy /\ run'[b].offset = run[b].offset
        /\ run'[b].found = run[b].found \ {c}
    BY <1>6, AddStores
  <2>2. /\ UNCHANGED <<seg, value, queue, queuer, request, orphaned>>
        /\ member' = IF ok THEN [member EXCEPT ![c] = task[b].version] ELSE member
        /\ ok /\ right => behind' = behind \ {c}
        /\ ok /\ ~right => behind' = IF queue[c] = "no" THEN behind \cup {c} ELSE behind
        /\ ~ok => behind' = behind \cup {d \in {c} : ~Right(d)}
    BY <1>6 DEF Add, Missed
  <2>3. \A d \in Contacts : member'[d] \in {task[b].version, member[d]}
    BY <1>t, <2>2
  <2>4. Right(c)' \/ Attended(c)'
    <3>1. CASE ok /\ right
      <4>1. member'[c] = seg.version
        BY <1>t, <2>2, <3>1
      <4> QED BY <2>2, <3>1, <4>1 DEF Right, Matches
    <3>2. CASE ok /\ ~right
      BY <2>2, <3>2 DEF Attended
    <3>3. CASE ~ok
      BY <2>2, <3>3 DEF Attended, Right, Matches
    <3> QED BY <3>1, <3>2, <3>3
  <2>5. ASSUME NEW d \in Contacts, d # c, Kept(d) PROVE Kept(d)'
    <3>1. member'[d] = member[d] /\ (d \in behind => d \in behind')
      <4> HIDE DEF right
      <4> QED BY <1>t, <2>2, <2>5
    <3>2. WillVisit(b, d) => WillVisit(b, d)'
      BY <2>1, <2>2, <2>5 DEF WillVisit
    <3> QED BY <2>1, <2>2, <2>5, <3>1, <3>2, KeptByBuild
  <2>6. \A d \in Contacts : Kept(d) => Kept(d)'
    BY <2>4, <2>5 DEF Kept
  <2> QED BY <1>k, <2>1, <2>2, <2>3, <2>6, TendedByBuild DEF Standing
<1>7. ASSUME NEW b \in Builds, NEW ok \in BOOLEAN, SaveProgress(b, ok) PROVE Tended'
  <2>1. /\ Others(b) /\ task'[b].version = task[b].version /\ task'[b].status = task[b].status
        /\ run[b].pc = "adding" /\ run[b].found = {} /\ run'[b].pc = "checking"
        /\ run'[b].copy = run[b].copy /\ run'[b].offset <= run[b].offset + BatchSize
        /\ run'[b].offset \in Nat
    <3>1. BuildsOK'
      BY <1>7, SaveStores
    <3>2. run'[b].offset \in Nat
      BY <3>1, Numbers DEF BuildsOK
    <3> QED BY <1>7, <3>2, SaveStores
  <2>2. UNCHANGED <<seg, member, value, queue, queuer, request, behind, orphaned>>
    BY <1>7 DEF SaveProgress
  <2>3. ASSUME NEW c \in Contacts, WillVisit(b, c) PROVE WillVisit(b, c)'
    <3>1. run[b].offset + BatchSize < c
      BY <2>1, <2>3 DEF WillVisit
    <3>2. run'[b].offset < c
      <4>1. c \in Nat /\ BatchSize \in Nat
        BY Bounds
      <4> QED BY <1>o, <2>1, <3>1, <4>1
    <3> QED BY <2>1, <2>2, <2>3, <3>2 DEF WillVisit
  <2>4. \A c \in Contacts : Kept(c) => Kept(c)'
    BY <2>1, <2>2, <2>3, KeptByBuild
  <2> QED BY <1>k, <2>1, <2>2, <2>4, TendedByBuild DEF Standing
<1>8. ASSUME NEW b \in Builds, NEW ok \in BOOLEAN, Abort(b, ok) PROVE Tended'
  <2>1. /\ run[b].pc = "aborting" /\ Completed(b)
        /\ RemoveOldMemberships(run[b].copy.version) \/ UNCHANGED member
        /\ UNCHANGED <<seg, value, queue, queuer, request, behind, orphaned>>
    BY <1>8 DEF Abort
  <2>2. Others(b) /\ task'[b].version = task[b].version /\ run'[b].copy \notin Segment
    BY <1>n, <2>1, CompletedStores
  <2>3. Standing => \A c \in Contacts : /\ member'[c] = seg.version <=> member[c] = seg.version
                                        /\ member'[c] <= seg.version
    <3>1. run[b].copy \in Segment
      BY <1>t, <2>1 DEF BuildOK
    <3>2. Standing => run[b].copy.version \in Nat /\ run[b].copy.version <= seg.version
      BY <1>k, <3>1, Numbers DEF Current
    <3> QED BY <1>k, <2>1, <3>2, RemovesOld
  <2>4. Standing => \A c \in Contacts : Kept(c) => Kept(c)'
    BY <1>e, <2>1, <2>2, <2>3, KeptByBuild
  <2> QED BY <1>n, <1>k, <2>1, <2>2, <2>3, <2>4, TendedByBuild DEF Standing
<1>9. ASSUME NEW b \in Builds, NEW ok \in BOOLEAN, Reschedule(b, ok) PROVE Tended'
  <2>1. /\ run[b].pc = "rescheduling" /\ Completed(b)
        /\ UNCHANGED <<member, value, queue, queuer, request, behind, orphaned>>
        /\ seg' \in {seg, [seg EXCEPT !.recompute_after = today + 1]}
    BY <1>9 DEF Reschedule
  <2>2. Others(b) /\ task'[b].version = task[b].version /\ run'[b].copy \notin Segment
    BY <1>n, <2>1, CompletedStores
  <2>3. seg'.version = seg.version /\ seg'.tree = seg.tree /\ seg'.status = seg.status
    BY <1>n, <2>1 DEF Segment
  <2>4. \A c \in Contacts : Kept(c) => Kept(c)'
    BY <1>e, <2>1, <2>2, <2>3, KeptByBuild
  <2> QED BY <1>n, <1>k, <2>1, <2>2, <2>3, <2>4, TendedByBuild DEF Standing
<1>10. ASSUME NEW b \in Builds, Recompute(b) PROVE Tended'
  <2>1. /\ task[b].status = "none" /\ seg.version \in Versions
        /\ UNCHANGED <<seg, member, value, queue, queuer, request, behind, orphaned>>
    BY <1>10, <1>n, Numbers DEF Recompute, IsFree
  <2>2. Others(b) /\ run'[b] = run[b] /\ task'[b].version = seg.version
    BY <1>10, <2>1, NewStores DEF Recompute
  <2>3. \A c \in Contacts : Kept(c) => Kept(c)'
    BY <1>v, <2>1, <2>2, KeptByBuild
  <2> QED BY <1>n, <1>k, <2>1, <2>2, <2>3, TendedByBuild DEF Standing
<1>11. ASSUME NEW b \in Builds, Pause(b) \/ Fails(b) \/ BuildDies(b) PROVE Tended'
  <2>1. /\ Others(b) /\ run[b].pc # "idle" /\ run'[b] = NoRun
        /\ task'[b].version = task[b].version /\ task'[b].offset <= run[b].offset
        /\ task'[b].status = "pending" \/ orphaned'
        /\ task'[b].offset \in Nat
    <3>1. BuildsOK'
      BY <1>11, HaltStores
    <3>2. task'[b].offset \in Nat
      BY <3>1, Numbers DEF BuildsOK
    <3> QED BY <1>11, <3>2, HaltStores
  <2>2. /\ UNCHANGED <<seg, member, value, queue, queuer, request, behind>>
        /\ orphaned => orphaned'
    BY <1>11 DEF Pause, Fails, BuildDies, Typed
  <2>3. ASSUME ~orphaned', NEW c \in Contacts, WillVisit(b, c) PROVE WillVisit(b, c)'
    <3>1. run[b].offset < c
      <4>1. c \in Nat /\ BatchSize \in Nat
        BY Bounds
      <4>2. c \in run[b].found => run[b].offset < c
        BY <1>t DEF BuildOK, BatchFrom
      <4>3. run[b].offset < c \/ c \in run[b].found \/ run[b].offset + BatchSize < c
        BY <2>1, <2>3 DEF WillVisit
      <4> QED BY <1>o, <4>1, <4>2, <4>3
    <3>2. task'[b].offset < c
      <4>1. c \in Nat
        BY Bounds
      <4> QED BY <1>o, <2>1, <3>1, <4>1
    <3> QED BY <1>n, <1>v, <2>1, <2>2, <2>3, <3>2 DEF WillVisit
  <2>4. ~orphaned' => \A c \in Contacts : Kept(c) => Kept(c)'
    BY <2>1, <2>2, <2>3, KeptByBuild
  <2> QED BY <1>n, <1>k, <2>1, <2>2, <2>4, TendedByBuild DEF Standing
<1> QED BY <1>1, <1>2, <1>3, <1>4, <1>5, <1>6, <1>7, <1>8, <1>9, <1>10, <1>11
        DEF BuildActs, BuildStep

(* What the console and the calendar do.                                      *)
LEMMA ConsoleTends == ASSUME Typed, Tended, ConsoleActs PROVE Tended'
<1>n. /\ seg \in Segment /\ seg.version \in Nat
      /\ \A c \in Contacts : member[c] \in Nat
      /\ \A b \in Builds : task[b].version \in Nat
      /\ orphaned \in BOOLEAN
  BY SegmentNumbers DEF Typed
<1>u. UNCHANGED <<value, queue, queuer, behind, run>>
  BY DEF ConsoleActs, RequestStep, Tomorrow, BeginRequest, Rename, Rebuild, Edit, CreateBuild,
         MarkDeleted, DeleteMembers
<1>j. Judged'
  BY <1>u DEF Tended, Judged, Matches
<1>a. \A c \in Contacts : Attended(c) => Attended(c)'
  BY <1>u DEF Attended, InWork
<1>k. Standing => Versioned /\ \A c \in Contacts : Kept(c)
  BY DEF Tended
(* The segment is the same, and no request to build it is out.                *)
<1>s. ASSUME Standing, seg'.version = seg.version, seg'.tree = seg.tree, UNCHANGED <<member, task>>,
             ~Ordered, request' = NoRequest \/ (request'.pc = "read" /\ request'.copy = seg)
      PROVE  Versioned' /\ \A c \in Contacts : Kept(c)'
  <2>1. Versioned'
    <3>1. /\ request' = NoRequest => request'.pc = "none"
          /\ seg'.version <= seg'.version
      BY <1>n, <1>s DEF NoRequest
    <3> QED BY <1>u, <1>k, <1>s, <3>1 DEF Versioned, Current
  <2>2. ASSUME NEW c \in Contacts PROVE Kept(c)'
    <3>1. Right(c) => Right(c)'
      BY <1>u, <1>s DEF Right, Matches
    <3>2. \A b \in Builds : WillVisit(b, c) => WillVisit(b, c)'
      BY <1>u, <1>s DEF WillVisit
    <3> QED BY <1>a, <1>k, <1>s, <3>1, <3>2 DEF Kept
  <2> QED BY <2>1, <2>2
<1>1. ASSUME NEW op \in {"rename", "edit", "rebuild", "delete"}, BeginRequest(op) PROVE Tended'
  <2>1. /\ request = NoRequest /\ request'.pc = "read" /\ request'.copy = seg
        /\ UNCHANGED <<seg, member, task, orphaned>>
    BY <1>1 DEF BeginRequest
  <2>2. ~Ordered
    BY <2>1 DEF Ordered, NoRequest
  <2> QED BY <1>s, <1>j, <2>1, <2>2 DEF Tended, Standing
<1>2. CASE Rename
  <2>1. /\ request.pc = "read" /\ seg' = request.copy /\ UNCHANGED <<member, task>>
        /\ request' = NoRequest
        /\ ~orphaned' => ~orphaned /\ ~Lost(request.copy)
    BY <1>2, <1>n DEF Rename, WriteRequest
  <2>2. ~Ordered
    BY <2>1 DEF Ordered
  <2>3. Standing' => Standing /\ seg'.version = seg.version /\ seg'.tree = seg.tree
    BY <2>1 DEF Standing, Lost
  <2> QED BY <1>s, <1>j, <2>1, <2>2, <2>3 DEF Tended
<1>3. ASSUME Rebuild \/ \E t \in Trees : Edit(t) PROVE Tended'
  <2>1. request.pc = "read" /\ request.op \in {"edit", "rebuild"} /\ UNCHANGED <<member, task>>
    BY <1>3 DEF Rebuild, Edit, WriteRequest
  <2>2. request.copy \in Segment /\ request.copy.version < MaxVersion
    BY <2>1, RequestCopies DEF Typed, RequestOK
  <2>3. PICK s \in Segment : /\ s.version = request.copy.version + 1
                             /\ WriteBack(s, request.copy) /\ Written(s)
    BY <1>3, <2>2, SegmentsMade DEF Typed, Rebuild, Edit
  <2>4. /\ seg' = s /\ request'.pc = "written" /\ request'.op = request.op /\ request'.copy = s
        /\ ~orphaned' => ~orphaned /\ ~Lost(request.copy)
    BY <1>n, <2>3 DEF WriteBack, Written
  <2>5. Standing' => Standing /\ seg'.version = seg.version + 1
    BY <2>3, <2>4 DEF Standing, Lost
  <2>6. ASSUME Standing' PROVE Versioned' /\ \A c \in Contacts : Kept(c)'
    <3>1. /\ \A c \in Contacts : member'[c] < seg'.version
          /\ \A b \in Builds : task'[b].version <= seg'.version
      BY <1>n, <1>k, <2>1, <2>5, <2>6 DEF Versioned
    <3>2. ASSUME NEW copy, Current(copy), copy \in Segment
          PROVE  copy.version < seg'.version
      <4>1. copy.version \in Nat
        BY <3>2, Numbers
      <4> QED BY <1>n, <2>5, <2>6, <3>2, <4>1 DEF Current
    <3>3. \A copy : (copy \in Segment => copy.version < seg'.version) \/ copy = seg'
                      => (copy \in Segment =>
                            /\ copy.version <= seg'.version
                            /\ copy.version = seg'.version => copy.tree = seg'.tree)
      <4>1. seg'.version \in Nat
        BY <1>n, <2>5, <2>6
      <4>2. \A copy \in Segment : copy.version \in Nat
        BY Numbers
      <4> QED BY <4>1, <4>2
    <3>4. Versioned'
      <4>1. /\ \A b \in Builds : run[b].copy \in Segment => run[b].copy.version < seg'.version
            /\ queuer.copy \in Segment => queuer.copy.version < seg'.version
        BY <1>k, <2>5, <2>6, <3>2 DEF Versioned
      <4>2. \A c \in Contacts : member'[c] <= seg'.version
        BY <1>n, <2>1, <2>5, <2>6, <3>1
      <4> QED BY <1>u, <2>1, <2>4, <3>1, <3>3, <4>1, <4>2 DEF Versioned, Current
    <3>5. Ordered'
      BY <2>1, <2>4 DEF Ordered
    <3>6. \A c \in Contacts : member'[c] # seg'.version
      BY <1>n, <2>1, <2>5, <2>6, <3>1
    <3> QED BY <3>4, <3>5, <3>6 DEF Kept
  <2> QED BY <1>j, <2>6 DEF Tended
<1>4. ASSUME NEW b \in Builds, NEW ok \in BOOLEAN, CreateBuild(b, ok) PROVE Tended'
  <2>1. /\ request.pc = "written" /\ request.op \in {"edit", "rebuild"} /\ task[b].status = "none"
        /\ UNCHANGED <<seg, member, run>> /\ request' = NoRequest
        /\ task' = IF ok THEN [task EXCEPT ![b] = NewTask(request.copy.version)] ELSE task
        /\ orphaned' = (orphaned \/ ~ok)
    BY <1>4 DEF CreateBuild, IsFree
  <2>2. request.copy \in Segment /\ request.copy.version \in Versions
    BY <2>1, RequestCopies, Numbers
  <2>3. ASSUME Standing' PROVE Versioned' /\ \A c \in Contacts : Kept(c)'
    <3>1. Standing /\ ok /\ seg.version = request.copy.version
      BY <1>k, <2>1, <2>3 DEF Standing, Versioned
    <3>2. /\ Others(b) /\ run[b].pc = "idle" /\ run'[b] = run[b] /\ task'[b].status = "pending"
          /\ task'[b].version = seg.version /\ task'[b].offset = 0
      BY <2>1, <2>2, <3>1, NewStores
    <3>3. Versioned'
      <4>1. \A k \in Builds : Current(run'[k].copy) /\ task'[k].version <= seg.version
        BY <1>n, <1>k, <2>1, <3>1, <3>2 DEF Others, Versioned
      <4> QED BY <1>u, <1>k, <2>1, <3>1, <4>1 DEF Versioned, Current, NoRequest
    <3>4. ASSUME NEW c \in Contacts PROVE WillVisit(b, c)'
      <4>1. 0 < c
        BY Bounds
      <4> QED BY <2>1, <3>2, <4>1 DEF WillVisit
    <3>5. \A c \in Contacts : Right(c) => Right(c)'
      BY <1>u, <2>1 DEF Right, Matches
    <3> QED BY <1>a, <1>k, <2>1, <3>1, <3>3, <3>4, <3>5 DEF Kept
  <2> QED BY <1>j, <2>3 DEF Tended
<1>5. CASE MarkDeleted
  <2>1. seg'.status = "deleted"
    BY <1>5, <1>n DEF MarkDeleted, Segment
  <2> QED BY <1>j, <2>1 DEF Tended, Standing
(* A deletion is under way, so the segment is deleted.                        *)
<1>6. ASSUME NEW ok \in BOOLEAN, DeleteMembers(ok) PROVE Tended'
  <2>1. request.pc = "written" /\ request.op = "delete" /\ UNCHANGED <<seg, orphaned>>
    BY <1>6 DEF DeleteMembers
  <2>2. ~Standing'
    BY <1>k, <2>1 DEF Standing, Versioned
  <2> QED BY <1>j, <2>2 DEF Tended
<1>7. CASE Tomorrow
  <2>1. UNCHANGED <<seg, member, task, orphaned, request>>
    BY <1>7 DEF Tomorrow
  <2>2. Versioned => Versioned'
    BY <1>u, <2>1 DEF Versioned, Current
  <2>3. \A c \in Contacts : Kept(c) => Kept(c)'
    BY <1>u, <2>1 DEF Kept, Right, Matches, Attended, InWork, Ordered, WillVisit
  <2> QED BY <1>j, <1>k, <2>1, <2>2, <2>3 DEF Tended, Standing
<1> QED BY <1>1, <1>2, <1>3, <1>4, <1>5, <1>6, <1>7 DEF ConsoleActs, RequestStep

LEMMA NextTends == Typed /\ Tended /\ [Next]_vars => Tended'
<1> SUFFICES ASSUME Typed, Tended, [Next]_vars PROVE Tended'
  OBVIOUS
<1>1. CASE Next
  BY <1>1, StepsOf, QueueTends, BuildsTend, ConsoleTends
<1>2. CASE UNCHANGED vars
  <2>1. Judged'
    BY <1>2 DEF vars, Tended, Judged, Matches
  <2>2. (Standing' => Standing) /\ (Versioned => Versioned')
    BY <1>2 DEF vars, Standing, Versioned, Current
  <2>3. \A c \in Contacts : Kept(c) => Kept(c)'
    BY <1>2 DEF vars, Kept, Right, Matches, Attended, InWork, Ordered, WillVisit
  <2> QED BY <2>1, <2>2, <2>3 DEF Tended
<1> QED BY <1>1, <1>2

LEMMA TendedAtFirst == Init => Tended
<1> SUFFICES ASSUME Init PROVE Tended
  OBVIOUS
<1>t. /\ Typed /\ seg \in Segment /\ seg.version = 1 /\ NoRun.copy \notin Segment
      /\ NoWork.copy \notin Segment
  BY TypedAtFirst, SegmentNumbers DEF Init
<1>1. task[1].status = "pending" /\ task[1].version = 1 /\ task[1].offset = 0 /\ run[1].pc = "idle"
  BY NewTasks, Nothing, Bounds DEF Init
<1>2. \A b \in Builds : task[b].version \in {0, 1} /\ run[b] = NoRun
  <2>1. NewTask(1).version = 1 /\ NoTask.version = 0
    BY NewTasks, Bounds DEF NoTask
  <2> QED BY <2>1 DEF Init
<1>3. Versioned
  BY <1>t, <1>2 DEF Init, Versioned, Current, NoRequest
<1>4. Judged
  BY Nothing DEF Init, Judged
<1>5. \A c \in Contacts : WillVisit(1, c) /\ member[c] # seg.version
  <2>1. \A c \in Contacts : 0 < c
    BY Bounds
  <2> QED BY <1>t, <1>1, <2>1 DEF Init, WillVisit
<1> QED BY <1>3, <1>4, <1>5, Bounds DEF Tended, Kept

(* A contact whose membership is not what its segment asks for is queued, is  *)
(* in the hands of the queue's processor, or a build is to come to it or to   *)
(* be created, but for the losses "behind" and "orphaned" record. The queue's *)
(* rows are deleted before the work, verdicts are written late and builds     *)
(* abort when the version changes (contact_segment_queue_processor.go,        *)
(* segment_build_processor.go), and none of these loses a contact.            *)
THEOREM NobodyIsLost == Spec => []InGoodHands
<1>1. Tended => InGoodHands
  <2>1. \A c \in Contacts : Attended(c) => \/ c \in behind \/ queue[c] # "no"
                                           \/ c \in queuer.hand \cup queuer.failed \cup {queuer.cur}
    BY DEF Attended, InWork
  <2> QED BY <2>1 DEF Tended, Standing, Kept, Ordered, InGoodHands
<1>2. Typed /\ Tended /\ [Next]_vars => (Typed /\ Tended)'
  BY NextTyped, NextTends
<1> QED BY TypedAtFirst, TendedAtFirst, <1>1, <1>2, PTL DEF Spec
=============================================================================
