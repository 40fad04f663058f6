-------------------------- MODULE SegmentMembership --------------------------
(* Who is in a segment: one segment of a workspace with its memberships, the *)
(* queue of contacts to look at again, the processor of that queue, the      *)
(* tasks that build the segment and the console's requests                   *)
(* (internal/service/contact_segment_queue_processor.go,                     *)
(* segment_build_processor.go, segment_recompute_task_processor.go,          *)
(* segment_service.go, internal/repository/segment_postgres.go).             *)
(*                                                                           *)
(* A contact has one value and a segment's tree is the set of values it      *)
(* takes in.  Trees ask for relative dates, so the segment is due for        *)
(* recomputation every day; that time itself changes who matches is left     *)
(* out.  Contacts are numbered in the order of their addresses; none is      *)
(* created or deleted meanwhile.                                             *)
(*                                                                           *)
(* Tasks.  A task is executed once at a time and an execution that dies is   *)
(* followed by another (BroadcastTask); here it is pending again at once.    *)
(* The queue's processor is such a task too, so there is one of it.          *)
EXTENDS Integers, FiniteSets

CONSTANTS
    Number,         \* of contacts
    Values, Trees,  \* of a contact; of a segment, as sets of values
    MaxBuilds,      \* tasks that may be created
    BatchSize,      \* of builds and of the queue
    MaxVersion,     \* versions considered
    MaxRetries,     \* of a build task
    Disturbances    \* how many: see Disturb

ASSUME NumberAssumption == Number \in Nat /\ BatchSize \in Nat \ {0}
ASSUME TreesAssumption == Trees \subseteq SUBSET Values
ASSUME BoundsAssumption == MaxVersion \in Nat \ {0} /\ MaxRetries \in Nat
ASSUME DisturbancesAssumption == Disturbances \in Nat
ASSUME BuildsAssumption == MaxBuilds \in Nat \ {0}

VARIABLES
    seg,        \* the row of the table segments
    member,     \* contact_segments: per contact the version, 0 for no row
    value,      \* the contacts
    queue,      \* contact_segment_queue: queued_at, seen from the debounce
    task, run,  \* per build: its row in the table tasks, its execution
    queuer,     \* the queue's processor
    request,    \* the console's request: where it stands, the row it read
    behind,     \* contacts written wrongly, or that nobody is to look at again
    orphaned,   \* what the segment is now may have no build that ends
    today,
    left        \* disturbances to come

vars == <<seg, member, value, queue, task, run, queuer, request, behind, orphaned, today, left>>

Contacts == 1 .. Number
Versions == 1 .. MaxVersion
Builds   == 1 .. MaxBuilds

Segment == [status : {"building", "active", "deleted"}, version : Versions,
            tree : Trees, recompute_after : 0 .. Disturbances + 1]

NoSegment == [status |-> "none"]

Task == [status : {"none", "pending", "running", "completed", "failed"},
         version : 0 .. MaxVersion, offset : 0 .. Number + BatchSize,
         matched : Nat, retries : 0 .. MaxRetries]

NoTask == [status |-> "none", version |-> 0, offset |-> 0, matched |-> 0, retries |-> 0]

NewTask(v) == [NoTask EXCEPT !.status = "pending", !.version = v]

Run == [pc : {"idle", "marking", "checking", "adding", "aborting", "sweeping",
              "activating", "rescheduling"},
        copy : Segment \cup {NoSegment}, offset : 0 .. Number + BatchSize,
        matched : Nat, found : SUBSET Contacts, ahead : BOOLEAN]

NoRun == [pc |-> "idle", copy |-> NoSegment, offset |-> 0, matched |-> 0,
          found |-> {}, ahead |-> FALSE]

Queuer == [pc : {"idle", "claimed", "loaded", "writing"},
           hand : SUBSET Contacts, failed : SUBSET Contacts,
           copy : Segment \cup {NoSegment}, cur : Contacts \cup {0}, verdict : BOOLEAN]

NoWork == [pc |-> "idle", hand |-> {}, failed |-> {}, copy |-> NoSegment,
           cur |-> 0, verdict |-> FALSE]

NoRequest == [pc |-> "none"]

TypeOK ==
    /\ seg \in Segment
    /\ member \in [Contacts -> 0 .. MaxVersion]
    /\ value \in [Contacts -> Values]
    /\ queue \in [Contacts -> {"no", "fresh", "ripe"}]
    /\ task \in [Builds -> Task]
    /\ run \in [Builds -> Run]
    /\ queuer \in Queuer
    /\ request \in {NoRequest} \cup [pc : {"read", "written"},
                                     op : {"rename", "edit", "rebuild", "delete"}, copy : Segment]
    /\ behind \subseteq Contacts
    /\ orphaned \in BOOLEAN
    /\ today \in 0 .. Disturbances
    /\ left \in 0 .. Disturbances

Spend == left > 0 /\ left' = left - 1

(* A statement takes effect, or fails and leaves the database as it was. *)
Try(ok) == IF ok THEN UNCHANGED left ELSE Spend

Matches(c, tree) == value[c] \in tree

(* What GetContactSegments tells of a contact is so. *)
Right(c) == (member[c] = seg.version) <=> Matches(c, seg.tree)

(* CreateSegment, whose build task may not be created. *)
Init ==
    /\ \E t \in Trees : seg = [status |-> "building", version |-> 1, tree |-> t, recompute_after |-> 1]
    /\ member = [c \in Contacts |-> 0]
    /\ value \in [Contacts -> Values]
    /\ queue = [c \in Contacts |-> "no"]
    /\ task = [[b \in Builds |-> NoTask] EXCEPT ![1] = NewTask(1)]
    /\ run = [b \in Builds |-> NoRun]
    /\ queuer = NoWork
    /\ request = NoRequest
    /\ behind = {}
    /\ orphaned = FALSE
    /\ today = 0
    /\ left = Disturbances
-----------------------------------------------------------------------------
(* The contacts. *)

(* Whatever goes on a contact's timeline queues the contact. *)
Change(c) ==
    /\ Spend
    /\ \E v \in Values \ {value[c]} : value' = [value EXCEPT ![c] = v]
    /\ queue' = [queue EXCEPT ![c] = "fresh"]
    /\ UNCHANGED <<seg, member, task, run, queuer, request, behind, orphaned, today>>

Ripen(c) ==
    /\ queue[c] = "fresh"
    /\ queue' = [queue EXCEPT ![c] = "ripe"]
    /\ UNCHANGED <<seg, member, value, task, run, queuer, request, behind, orphaned, today, left>>
-----------------------------------------------------------------------------
(* The processor of the queue. *)

Ripe == {c \in Contacts : queue[c] = "ripe"}

(* The rows are deleted before the work. *)
Claim(S) ==
    /\ queuer.pc = "idle"
    /\ S # {} /\ S \subseteq Ripe /\ Cardinality(S) <= BatchSize
    /\ S = Ripe \/ Cardinality(S) = BatchSize
    /\ queue' = [c \in Contacts |-> IF c \in S THEN "no" ELSE queue[c]]
    /\ queuer' = [queuer EXCEPT !.pc = "claimed", !.hand = S]
    /\ UNCHANGED <<seg, member, value, task, run, request, behind, orphaned, today, left>>

(* Contacts that nobody will look at. *)
Missed(S) == behind' = behind \cup {c \in S : ~Right(c)}

\* Plausible slip: the claimed contacts are not queued again.
LoadOrForget(ok) ==
    /\ queuer.pc = "claimed"
    /\ Try(ok)
    /\ IF ok /\ seg.status = "active"
         THEN queuer' = [queuer EXCEPT !.pc = "loaded", !.copy = seg] /\ UNCHANGED behind
         ELSE queuer' = NoWork /\ IF ok THEN Missed(queuer.hand) ELSE UNCHANGED behind
    /\ UNCHANGED <<seg, member, value, queue, task, run, request, orphaned, today>>

(* With no active segment the contacts are done with. *)
Load(ok) ==
    /\ queuer.pc = "claimed"
    /\ Try(ok)
    /\ CASE ~ok -> queuer' = [queuer EXCEPT !.pc = "loaded", !.hand = {}, !.failed = queuer.hand]
                   /\ UNCHANGED behind
         [] ok /\ seg.status = "active" -> queuer' = [queuer EXCEPT !.pc = "loaded", !.copy = seg]
                                           /\ UNCHANGED behind
         [] OTHER -> queuer' = NoWork /\ Missed(queuer.hand)
    /\ UNCHANGED <<seg, member, value, queue, task, run, request, orphaned, today>>

(* The query, which may fail for one contact... *)
Evaluate(c, ok) ==
    /\ queuer.pc = "loaded" /\ c \in queuer.hand
    /\ Try(ok)
    /\ queuer' = IF ok
         THEN [queuer EXCEPT !.pc = "writing", !.hand = @ \ {c}, !.cur = c,
                             !.verdict = Matches(c, queuer.copy.tree)]
         ELSE [queuer EXCEPT !.hand = @ \ {c}, !.failed = @ \cup {c}]
    /\ UNCHANGED <<seg, member, value, queue, task, run, request, behind, orphaned, today>>

(* ...and AddContactToSegment or RemoveContactFromSegment, whose failure is  *)
(* logged.  A membership judged by a segment that has changed may be wrong.  *)
WriteMember(ok) ==
    LET c == queuer.cur
        m == IF queuer.verdict THEN queuer.copy.version ELSE 0
        right == (m = seg.version) <=> Matches(c, seg.tree)
        outdated == queuer.copy.version # seg.version \/ queuer.copy.tree # seg.tree
    IN  /\ queuer.pc = "writing"
        /\ Try(ok)
        /\ queuer' = [queuer EXCEPT !.pc = "loaded", !.cur = 0, !.verdict = FALSE]
        /\ member' = IF ok THEN [member EXCEPT ![c] = m] ELSE member
        /\ CASE ok /\ right     -> behind' = behind \ {c}
             [] ok /\ ~right    -> behind' = IF outdated THEN behind \cup {c} ELSE behind
             [] ~ok             -> Missed({c})
        /\ UNCHANGED <<seg, value, queue, task, run, request, orphaned, today>>

(* The task is out of time or told to stop: the rest is queued again. *)
StopEarly ==
    /\ queuer.pc = "loaded" /\ queuer.hand # {}
    /\ Spend
    /\ queuer' = [queuer EXCEPT !.hand = {}, !.failed = @ \cup queuer.hand]
    /\ UNCHANGED <<seg, member, value, queue, task, run, request, behind, orphaned, today>>

(* requeueOrLog. *)
Requeue(ok) ==
    /\ queuer.pc = "loaded" /\ queuer.hand = {}
    /\ queuer.failed = {} => ok
    /\ Try(ok)
    /\ queue' = IF ok THEN [c \in Contacts |-> IF c \in queuer.failed THEN "fresh" ELSE queue[c]]
                      ELSE queue
    /\ IF ok THEN UNCHANGED behind ELSE Missed(queuer.failed)
    /\ queuer' = NoWork
    /\ UNCHANGED <<seg, member, value, task, run, request, orphaned, today>>

QueuerDies ==
    /\ queuer.pc # "idle"
    /\ Spend
    /\ Missed(queuer.hand \cup queuer.failed \cup ({queuer.cur} \ {0}))
    /\ queuer' = NoWork
    /\ UNCHANGED <<seg, member, value, queue, task, run, request, orphaned, today>>
-----------------------------------------------------------------------------
(* The row of the segment is written back whole (UpdateSegment): what        *)
(* another edit, or a deletion, wrote since it was read is lost.             *)
Lost(copy) == copy.version # seg.version \/ copy.tree # seg.tree \/ seg.status = "deleted"

WriteBack(s, copy) == seg' = s /\ orphaned' = (orphaned \/ Lost(copy))
-----------------------------------------------------------------------------
(* The builds. *)

Goto(b, p) == run' = [run EXCEPT ![b].pc = p]

Completed(b) ==
    /\ task' = [task EXCEPT ![b].status = "completed"]
    /\ run' = [run EXCEPT ![b] = NoRun]

(* The task is claimed and the segment read. *)
Begin(b) ==
    /\ task[b].status = "pending"
    /\ IF seg.version > task[b].version THEN Completed(b)
         ELSE /\ task' = [task EXCEPT ![b].status = "running"]
              /\ run' = [run EXCEPT ![b] =
                    [NoRun EXCEPT !.pc = IF seg.status = "building" THEN "checking" ELSE "marking",
                                  !.copy = seg, !.offset = task[b].offset,
                                  !.matched = task[b].matched]]
    /\ UNCHANGED <<seg, member, value, queue, queuer, request, behind, orphaned, today, left>>

Mark(b) ==
    LET marked == [run[b].copy EXCEPT !.status = "building"]
    IN  /\ run[b].pc = "marking"
        /\ WriteBack(marked, run[b].copy)
        /\ run' = [run EXCEPT ![b].pc = "checking", ![b].copy = marked]
        /\ UNCHANGED <<member, value, queue, task, queuer, request, behind, today, left>>

BatchFrom(k) == {c \in Contacts : k < c /\ c <= k + BatchSize}

(* One round: the segment is read again, and the contacts of the batch that  *)
(* match are found with the query read at the start.                         *)
Check(b) ==
    LET r == run[b]
        batch == BatchFrom(r.offset)
    IN  /\ r.pc = "checking"
        /\ run' = CASE seg.version > task[b].version ->
                         [run EXCEPT ![b].pc = "aborting", ![b].copy = seg]
                    [] seg.version <= task[b].version /\ batch # {} ->
                         [run EXCEPT ![b].pc = "adding", ![b].ahead = TRUE,
                                     ![b].found = {c \in batch : Matches(c, r.copy.tree)}]
                    [] OTHER ->
                         [run EXCEPT ![b].pc = IF r.matched = 0 THEN "activating" ELSE "sweeping"]
        /\ UNCHANGED <<seg, member, value, queue, task, queuer, request, behind, orphaned, today, left>>

(* Approaching the timeout; an execution has time for one batch at least. *)
Pause(b) ==
    /\ run[b].pc = "checking" /\ run[b].ahead
    /\ task' = [task EXCEPT ![b].status = "pending", ![b].offset = run[b].offset,
                            ![b].matched = run[b].matched, ![b].retries = 0]
    /\ run' = [run EXCEPT ![b] = NoRun]
    /\ UNCHANGED <<seg, member, value, queue, queuer, request, behind, orphaned, today, left>>

(* A failure is logged.  What was found may not be so any more. *)
Add(b, c, ok) ==
    LET right == task[b].version = seg.version /\ Matches(c, seg.tree)
    IN  /\ run[b].pc = "adding" /\ c \in run[b].found
        /\ Try(ok)
        /\ run' = [run EXCEPT ![b].found = @ \ {c}, ![b].matched = IF ok THEN @ + 1 ELSE @]
        /\ member' = IF ok THEN [member EXCEPT ![c] = task[b].version] ELSE member
        /\ CASE ok /\ right -> behind' = behind \ {c}
             [] ok /\ ~right -> behind' = IF queue[c] = "no" THEN behind \cup {c} ELSE behind
             [] ~ok -> Missed({c})
        /\ UNCHANGED <<seg, value, queue, task, queuer, request, orphaned, today>>

(* SaveState, whose failure is logged. *)
SaveProgress(b, ok) ==
    LET next == run[b].offset + Cardinality(BatchFrom(run[b].offset))
    IN  /\ run[b].pc = "adding" /\ run[b].found = {}
        /\ Try(ok)
        /\ run' = [run EXCEPT ![b].pc = "checking", ![b].offset = next]
        /\ task' = IF ok THEN [task EXCEPT ![b].offset = next, ![b].matched = run[b].matched]
                         ELSE task
        /\ UNCHANGED <<seg, member, value, queue, queuer, request, behind, orphaned, today>>

RemoveOldMemberships(v) == member' = [c \in Contacts |-> IF member[c] < v THEN 0 ELSE member[c]]

Abort(b, ok) ==
    /\ run[b].pc = "aborting"
    /\ Try(ok)
    /\ IF ok THEN RemoveOldMemberships(run[b].copy.version) ELSE UNCHANGED member
    /\ Completed(b)
    /\ UNCHANGED <<seg, value, queue, queuer, request, behind, orphaned, today>>

Sweep(b) ==
    /\ run[b].pc = "sweeping"
    /\ RemoveOldMemberships(task[b].version)
    /\ Goto(b, "activating")
    /\ UNCHANGED <<seg, value, queue, task, queuer, request, behind, orphaned, today, left>>

\* Plausible slip: a build that matched nobody returns before the last write.
ActivateIfAny(b) ==
    LET active == [run[b].copy EXCEPT !.status = "active"]
    IN  /\ run[b].pc = "activating"
        /\ IF run[b].matched = 0 THEN Completed(b) /\ UNCHANGED <<seg, behind, orphaned, today>>
             ELSE WriteBack(active, run[b].copy) /\ Goto(b, "rescheduling") /\ UNCHANGED task
        /\ UNCHANGED <<member, value, queue, queuer, request, behind, today, left>>

(* A build that matched nobody ends here. *)
Activate(b) ==
    LET active == [run[b].copy EXCEPT !.status = "active"]
    IN  /\ run[b].pc = "activating"
        /\ WriteBack(active, run[b].copy)
        /\ IF run[b].matched = 0 THEN Completed(b)
                                 ELSE Goto(b, "rescheduling") /\ UNCHANGED task
        /\ UNCHANGED <<member, value, queue, queuer, request, behind, today, left>>

(* UpdateRecomputeAfter, whose failure is logged. *)
Reschedule(b, ok) ==
    /\ run[b].pc = "rescheduling"
    /\ Try(ok)
    /\ seg' = IF ok THEN [seg EXCEPT !.recompute_after = today + 1] ELSE seg
    /\ Completed(b)
    /\ UNCHANGED <<member, value, queue, queuer, request, behind, orphaned, today>>

\* Plausible slip: the last retry is not counted.
FailsFreely(b) ==
    /\ run[b].pc \in {"marking", "checking", "sweeping", "activating"}
    /\ Spend
    /\ task' = [task EXCEPT ![b].status = "pending", ![b].retries = @ + 1]
    /\ run' = [run EXCEPT ![b] = NoRun]
    /\ UNCHANGED <<seg, member, value, queue, queuer, request, behind, orphaned, today>>

(* A statement fails that the build cannot do without. *)
Fails(b) ==
    LET last == task[b].retries = MaxRetries
    IN  /\ run[b].pc \in {"marking", "checking", "sweeping", "activating"}
        /\ Spend
        /\ task' = [task EXCEPT ![b].status = IF last THEN "failed" ELSE "pending",
                                ![b].retries = IF last THEN @ ELSE @ + 1]
        /\ run' = [run EXCEPT ![b] = NoRun]
        /\ orphaned' = (orphaned \/ last)
        /\ UNCHANGED <<seg, member, value, queue, queuer, request, behind, today>>

BuildDies(b) ==
    /\ run[b].pc # "idle"
    /\ Spend
    /\ task' = [task EXCEPT ![b].status = "pending"]
    /\ run' = [run EXCEPT ![b] = NoRun]
    /\ UNCHANGED <<seg, member, value, queue, queuer, request, behind, orphaned, today>>

Tomorrow ==
    /\ Spend
    /\ today' = today + 1
    /\ UNCHANGED <<seg, member, value, queue, task, run, queuer, request, behind, orphaned>>

(* The row the next task takes. *)
IsFree(b) == task[b].status = "none" /\ (b > 1 => task[b - 1].status # "none")

(* The recurring check makes a build of the version there is, and another    *)
(* one every minute until the segment is no longer due.  Bound: one task is  *)
(* left for a request.                                                       *)
Recompute(b) ==
    /\ seg.status = "active" /\ seg.recompute_after <= today
    /\ IsFree(b) /\ b < MaxBuilds
    /\ task' = [task EXCEPT ![b] = NewTask(seg.version)]
    /\ UNCHANGED <<seg, member, value, queue, run, queuer, request, behind, orphaned, today, left>>
-----------------------------------------------------------------------------
(* The console: the row is read, written back, and a build created. *)

BeginRequest(op) ==
    /\ request = NoRequest /\ seg.status # "deleted"
    /\ op \in {"edit", "rebuild"} => seg.version < MaxVersion /\ task[MaxBuilds].status = "none"
    /\ Spend
    /\ request' = [pc |-> "read", op |-> op, copy |-> seg]
    /\ UNCHANGED <<seg, member, value, queue, task, run, queuer, behind, orphaned, today>>

Edited(s, t) == [s EXCEPT !.tree = t, !.version = @ + 1, !.recompute_after = today + 1]
Rebuilt(s)   == [s EXCEPT !.version = @ + 1, !.status = "building"]

WriteRequest(op) == request.pc = "read" /\ request.op = op

(* A new name leaves the rest as it was read: a segment that was read while  *)
(* it was built is "building" again.                                         *)
Rename ==
    LET again == request.copy.status = "building" /\ seg.status = "active"
    IN  /\ WriteRequest("rename")
        /\ seg' = request.copy
        /\ orphaned' = (orphaned \/ Lost(request.copy) \/ again)
        /\ request' = NoRequest
        /\ UNCHANGED <<member, value, queue, task, run, queuer, behind, today, left>>

Written(s) == request' = [pc |-> "written", op |-> request.op, copy |-> s]

(* UpdateSegment; the status stays as it was until the build begins. *)
Edit(t) ==
    /\ WriteRequest("edit")
    /\ WriteBack(Edited(request.copy, t), request.copy)
    /\ Written(Edited(request.copy, t))
    /\ UNCHANGED <<member, value, queue, task, run, queuer, behind, today, left>>

Rebuild ==
    /\ WriteRequest("rebuild")
    /\ WriteBack(Rebuilt(request.copy), request.copy)
    /\ Written(Rebuilt(request.copy))
    /\ UNCHANGED <<member, value, queue, task, run, queuer, behind, today, left>>

(* Of a build that could not be created an edit says nothing. *)
CreateBuild(b, ok) ==
    /\ request.pc = "written" /\ request.op \in {"edit", "rebuild"}
    /\ Try(ok)
    /\ IsFree(b)
    /\ task' = IF ok THEN [task EXCEPT ![b] = NewTask(request.copy.version)] ELSE task
    /\ orphaned' = (orphaned \/ ~ok)
    /\ request' = NoRequest
    /\ UNCHANGED <<seg, member, value, queue, run, queuer, behind, today>>

(* DeleteSegment: two statements. *)
MarkDeleted ==
    /\ WriteRequest("delete")
    /\ seg' = [seg EXCEPT !.status = "deleted"]
    /\ Written(request.copy)
    /\ UNCHANGED <<member, value, queue, task, run, queuer, behind, orphaned, today, left>>

DeleteMembers(ok) ==
    /\ request.pc = "written" /\ request.op = "delete"
    /\ Try(ok)
    /\ member' = IF ok THEN [c \in Contacts |-> 0] ELSE member
    /\ request' = NoRequest
    /\ UNCHANGED <<seg, value, queue, task, run, queuer, behind, orphaned, today>>
-----------------------------------------------------------------------------
BuildStep(b) ==
    \/ Begin(b) \/ Mark(b) \/ Check(b) \/ Sweep(b) \/ Activate(b)
    \/ \E ok \in BOOLEAN : \/ \E c \in Contacts : Add(b, c, ok)
                           \/ SaveProgress(b, ok) \/ Abort(b, ok) \/ Reschedule(b, ok)

QueuerStep ==
    \/ \E S \in SUBSET Contacts : Claim(S)
    \/ \E ok \in BOOLEAN : \/ Load(ok) \/ WriteMember(ok) \/ Requeue(ok)
                           \/ \E c \in Contacts : Evaluate(c, ok)

RequestStep ==
    \/ Rename \/ Rebuild \/ MarkDeleted
    \/ \E t \in Trees : Edit(t)
    \/ \E ok \in BOOLEAN : DeleteMembers(ok) \/ \E b \in Builds : CreateBuild(b, ok)

(* A contact changes; a day passes; a statement fails; a process dies, or is *)
(* told to stop; the console is used.  (The failures of statements nothing   *)
(* depends on are with the steps that make them.)                            *)
Disturb ==
    \/ \E c \in Contacts : Change(c)
    \/ \E b \in Builds : Pause(b) \/ Fails(b) \/ BuildDies(b)
    \/ StopEarly \/ QueuerDies \/ Tomorrow
    \/ \E op \in {"rename", "edit", "rebuild", "delete"} : BeginRequest(op)

Next ==
    \/ Disturb \/ QueuerStep \/ RequestStep
    \/ \E b \in Builds : BuildStep(b) \/ Recompute(b)
    \/ \E c \in Contacts : Ripen(c)

(* The scheduler takes pending tasks up and a running one proceeds; so does  *)
(* a request that is being answered.                                         *)
Fairness ==
    /\ \A b \in Builds : WF_vars(BuildStep(b))
    /\ WF_vars(QueuerStep) /\ WF_vars(RequestStep)
    /\ \A c \in Contacts : WF_vars(Ripen(c))

Spec == Init /\ [][Next]_vars /\ Fairness
-----------------------------------------------------------------------------
(* A build of what the segment is now that has the contact before it. *)
WillVisit(b, c) ==
    /\ task[b].status \in {"pending", "running"} /\ task[b].version = seg.version
    /\ IF run[b].pc = "idle" THEN task[b].offset < c
         ELSE /\ run[b].copy = NoSegment \/ run[b].copy.tree = seg.tree
              /\ \/ run[b].pc \in {"marking", "checking"} /\ run[b].offset < c
                 \/ run[b].pc = "adding" /\ (c \in run[b].found \/ run[b].offset + BatchSize < c)

(* A contact whose membership is not what its segment asks for is on its way *)
(* to be looked at: it is queued, or the queue's processor has it, or a      *)
(* build is to come to it, or a build is about to be created.  The queue's   *)
(* rows are deleted before the work, memberships are written from values     *)
(* read earlier, and a build aborts when the segment changes: none of these  *)
(* loses a contact but in the ways "behind" lists.                           *)
InGoodHands ==
    seg.status # "deleted" /\ ~orphaned =>
        \A c \in Contacts :
            \/ Right(c) \/ c \in behind
            \/ queue[c] # "no"
            \/ c \in queuer.hand \cup queuer.failed \cup {queuer.cur}
            \/ request.pc = "written" /\ request.op # "delete"
            \/ \E b \in Builds : WillVisit(b, c)

(* Once nothing happens any more the work comes to an end: no contact stays  *)
(* queued or in the processor's hands, and no build is left to run, whatever *)
(* the segment was when they were taken up and whatever failed.  And unless  *)
(* it was deleted, the segment ends active, with the contacts that match it. *)
(* This does not hold, and is not claimed, where "orphaned" or "behind" say  *)
(* so.  Orphaned is a segment that may be left without a build of what it is *)
(* now, and so perhaps "building" for good: a build could not be created, or *)
(* failed in its last retry; a row written back whole undid an edit or a     *)
(* deletion; a rename that read "building" wrote it back after the build.    *)
(* Behind are contacts that may stay wrong: claimed while the segment was    *)
(* not active and dropped; in hand when the processor died, or not queued    *)
(* again; judged by a segment since edited; added by a build from a value or *)
(* version since changed; their write failed and was logged.  So less holds  *)
(* than "nothing is silently dropped" in ProcessQueue's comment (README,     *)
(* section 7).  That builds end rests on MaxBuilds for a segment that nobody *)
(* matches, which once due is built again every minute (see Recompute).      *)
ComesToRest ==
    <>[](/\ \A c \in Contacts : queue[c] = "no"
         /\ queuer = NoWork
         /\ \A b \in Builds : task[b].status \notin {"pending", "running"}
         /\ \/ seg.status = "deleted" \/ orphaned
            \/ seg.status = "active" /\ \A c \in Contacts : Right(c) \/ c \in behind)
=============================================================================
