-------------------------- MODULE AutomationJourney --------------------------
(* The walk of contacts through an automation: the scheduler's ticks         *)
(* (automation_scheduler.go, automation_executor.go), the nodes' effects     *)
(* (automation_node_executor.go), replies (inbound_webhook_event_service.go) *)
(* and the sending of the mail a node queued (queue/worker.go).              *)
(*                                                                           *)
(* Each database statement of the executor is a step, and so is the          *)
(* execution of a node. A journey is a copy of its row until it is written.  *)
EXTENDS Automation, FiniteSets

CONSTANTS
    Kind,               \* of each node: "pass", "email", "delay" or "fork"
    MaxNodesPerTick,
    Copies,             \* mails a node may queue for one journey
    Mishaps, Bound      \* requests, faults (a crash, a statement that fails), looks at
                        \* a journey that fail; and how many there may be of each

ASSUME JourneyAssumption ==
    /\ Kind \in [Nodes -> {"pass", "email", "delay", "fork"}]
    /\ MaxNodesPerTick \in Nat \ {0} /\ Copies \in Nat
    /\ "none" \notin Journeys
    /\ Mishaps = {"request", "fault", "blind"} /\ Bound \in [Mishaps -> Nat]

Mails == [j : Journeys, n : {n \in Nodes : Kind[n] = "email"}, copy : 1 .. Copies]

VARIABLES
    tick,       \* the scheduler: its step, its batch, the journey in hand
    mail,       \* email_queue
    exitedMail, \* mail that was not on its way when its journey exited
    left

vars == <<auto, trigger, admin, row, tick, mail, exitedMail, left>>

Idle == [pc |-> "idle", batch |-> {}, j |-> "none", ca |-> NoJourney, config |-> 0, nodes |-> 0]

TypeOK ==
    /\ AutomationTypeOK
    /\ tick.pc \in {"idle", "ready", "node", "persisting", "failing", "closing"}
    /\ tick.batch \subseteq [j : Journeys, ca : Row]
    /\ tick.j \in Journeys \cup {"none"} /\ tick.ca \in Row
    /\ tick.config \in Configs \cup {0} /\ tick.nodes \in 0 .. MaxNodesPerTick - 1
    /\ mail \in [Mails -> {"none", "queued", "sending", "sent", "skipped"}]
    /\ exitedMail \subseteq Mails
    /\ left \in [Mishaps -> Nat]
    /\ tick.pc \in {"node", "persisting", "failing", "closing"} => tick.j # "none"
    /\ tick.pc \in {"node", "persisting"} => tick.config # 0
    /\ tick.pc = "node" => tick.ca.node # NoNode

Init ==
    /\ AutomationInit
    /\ tick = Idle
    /\ mail = [m \in Mails |-> "none"]
    /\ exitedMail = {}
    /\ left = Bound

Spend(mishap) == left[mishap] > 0 /\ left' = [left EXCEPT ![mishap] = @ - 1]
-----------------------------------------------------------------------------
(* GetScheduledContactAutomationsGlobal. *)
Fetch ==
    /\ tick.pc = "idle" /\ Due # {}
    /\ tick' = [tick EXCEPT !.pc = "ready", !.batch = {[j |-> j, ca |-> row[j]] : j \in Due}]
    /\ UNCHANGED <<auto, trigger, admin, row, mail, left>>

(* The journey in hand is let go. *)
Over(t) == IF t.batch = {} THEN Idle ELSE [Idle EXCEPT !.pc = "ready", !.batch = t.batch]

Taken(b) == [Idle EXCEPT !.batch = tick.batch \ {b}, !.j = b.j, !.ca = b.ca]

(* Execute reads the automation anew: one paused since leaves the journey    *)
(* where it is, one deleted since is not found; without a node it is done.   *)
Take(b) ==
    /\ tick.pc = "ready" /\ b \in tick.batch
    /\ tick' = IF auto.deleted THEN [Taken(b) EXCEPT !.pc = "failing"]
               ELSE IF auto.status # "live" THEN Over(Taken(b))
               ELSE IF b.ca.node = NoNode
                 THEN [Taken(b) EXCEPT !.pc = "closing", !.ca.status = "completed", !.ca.at = "null"]
               ELSE [Taken(b) EXCEPT !.pc = "node", !.config = auto.config]
    /\ UNCHANGED <<auto, trigger, admin, row, mail, left>>

(* The automation or the contact cannot be read. *)
TakeFails(b) ==
    /\ tick.pc = "ready" /\ b \in tick.batch
    /\ Spend("fault")
    /\ tick' = [Taken(b) EXCEPT !.pc = "failing"]
    /\ UNCHANGED <<auto, trigger, admin, row, mail>>

After(n) == IF n + 1 \in Nodes THEN n + 1 ELSE NoNode

(* A terminal node ends the journey unless it is a delay. *)
GoOn(n) == [node |-> After(n), at |-> "null",
            status |-> IF After(n) = NoNode THEN "completed" ELSE "active"]

\* Plausible slip: the delay does not go on to the next node.
WaitsHere(n) == [node |-> n, at |-> "later", status |-> "active"]

Waits(n) == [node |-> After(n), at |-> "later", status |-> "active"]

(* What a node of each kind asks for: a fork may lead nowhere, an email node *)
(* drops whoever has unsubscribed.                                           *)
Outcomes(n) ==
    CASE Kind[n] = "delay" -> {Waits(n)}
      [] Kind[n] = "fork"  -> {GoOn(n), [node |-> NoNode, at |-> "null", status |-> "completed"]}
      [] Kind[n] = "email" -> {GoOn(n), [node |-> NoNode, at |-> "null", status |-> "exited"]}
      [] OTHER             -> {GoOn(n)}

Walked(ca, o) == [ca EXCEPT !.node = o.node, !.at = o.at, !.status = o.status]

FirstFree(m) ==
    /\ mail[m] = "none"
    /\ \A k \in Mails : k.j = m.j /\ k.n = m.n /\ k.copy < m.copy => mail[k] # "none"

RunNode ==
    LET n == tick.ca.node
    IN  /\ tick.pc = "node" /\ n \in NodesOf[tick.config]
        /\ \E o \in Outcomes(n) :
             /\ tick' = [tick EXCEPT !.pc = "persisting", !.ca = Walked(@, o)]
             /\ IF Kind[n] = "email" /\ o.status # "exited"
                  THEN \E m \in Mails : /\ m.j = tick.j /\ m.n = n /\ FirstFree(m)
                                        /\ mail' = [mail EXCEPT ![m] = "queued"]
                  ELSE UNCHANGED mail
        /\ UNCHANGED <<auto, trigger, admin, row, left>>

(* markAsExited: the node is no longer in the automation. *)
NodeDeleted ==
    /\ tick.pc = "node" /\ tick.ca.node \notin NodesOf[tick.config]
    /\ tick' = [tick EXCEPT !.pc = "closing", !.ca = Exited(@)]
    /\ UNCHANGED <<auto, trigger, admin, row, mail, left>>

NodeFails ==
    /\ tick.pc = "node" /\ tick.ca.node \in NodesOf[tick.config]
    /\ tick' = [tick EXCEPT !.pc = "failing"]
    /\ UNCHANGED <<auto, trigger, admin, row, mail, left>>

(* The tick goes on until the journey rests, or after maxNodesPerTick. *)
GoesOn == tick.ca.status = "active" /\ tick.ca.at # "later" /\ tick.nodes + 1 < MaxNodesPerTick

\* Plausible slip: the journey is written where it stood.
PersistStatusOnly ==
    /\ tick.pc = "persisting"
    /\ UpdateIfActive(tick.j, [tick.ca EXCEPT !.node = row[tick.j].node])
    /\ tick' = IF row[tick.j].status = "active" /\ GoesOn
                 THEN [tick EXCEPT !.pc = "node", !.nodes = @ + 1] ELSE Over(tick)
    /\ UNCHANGED <<auto, trigger, admin, mail, left>>

Persist ==
    /\ tick.pc = "persisting"
    /\ UpdateIfActive(tick.j, tick.ca)
    /\ tick' = IF row[tick.j].status = "active" /\ GoesOn
                 THEN [tick EXCEPT !.pc = "node", !.nodes = @ + 1] ELSE Over(tick)
    /\ UNCHANGED <<auto, trigger, admin, mail, left>>

PersistFails ==
    /\ tick.pc = "persisting"
    /\ Spend("fault")
    /\ tick' = [tick EXCEPT !.pc = "failing"]
    /\ UNCHANGED <<auto, trigger, admin, row, mail>>

\* Plausible slip: the time of the next attempt is not set.
HandleErrorUntimed ==
    /\ tick.pc = "failing"
    /\ tick' = [tick EXCEPT !.pc = "closing", !.ca.retries = @ + 1,
                            !.ca.status = IF tick.ca.retries + 1 >= MaxRetries THEN "failed" ELSE @]
    /\ UNCHANGED <<auto, trigger, admin, row, mail, left>>

\* Plausible slip: the retries are not bounded.
HandleErrorUnbounded ==
    /\ tick.pc = "failing"
    /\ tick' = [tick EXCEPT !.pc = "closing", !.ca.retries = @ + 1, !.ca.at = "later"]
    /\ UNCHANGED <<auto, trigger, admin, row, mail, left>>

(* handleError: the copy keeps what the node made of it. *)
HandleError ==
    /\ tick.pc = "failing"
    /\ LET tried == [tick.ca EXCEPT !.retries = @ + 1]
       IN  tick' = [tick EXCEPT !.pc = "closing",
                                !.ca = IF tried.retries >= MaxRetries
                                         THEN [tried EXCEPT !.status = "failed"]
                                         ELSE [tried EXCEPT !.at = "later"]]
    /\ UNCHANGED <<auto, trigger, admin, row, mail, left>>

(* persistIfActive. *)
Close ==
    /\ tick.pc = "closing"
    /\ UpdateIfActive(tick.j, tick.ca)
    /\ tick' = Over(tick)
    /\ UNCHANGED <<auto, trigger, admin, mail, left>>

CloseFails ==
    /\ tick.pc = "closing"
    /\ Spend("fault")
    /\ tick' = Over(tick)
    /\ UNCHANGED <<auto, trigger, admin, row, mail>>
-----------------------------------------------------------------------------
\* Plausible slip: the mail is not held against its journey.
SendUnchecked(m) ==
    /\ mail[m] = "queued"
    /\ mail' = [mail EXCEPT ![m] = "sending"]
    /\ UNCHANGED <<auto, trigger, admin, row, tick, left>>

(* The queue's worker looks at the journey right before it sends. *)
CheckJourney(m) ==
    /\ mail[m] = "queued"
    /\ mail' = [mail EXCEPT ![m] = IF row[m.j].status = "active" THEN "sending" ELSE "skipped"]
    /\ UNCHANGED <<auto, trigger, admin, row, tick, left>>

(* It fails open. *)
CheckFails(m) ==
    /\ mail[m] = "queued"
    /\ Spend("blind")
    /\ mail' = [mail EXCEPT ![m] = "sending"]
    /\ UNCHANGED <<auto, trigger, admin, row, tick>>

Sent(m) ==
    /\ mail[m] = "sending"
    /\ mail' = [mail EXCEPT ![m] = "sent"]
    /\ UNCHANGED <<auto, trigger, admin, row, tick, left>>

(* A reply names the mail it answers, which is on record before it is sent.  *)
Reply(m) ==
    /\ mail[m] \in {"sending", "sent"}
    /\ ExitOnReply(m.j)
    /\ UNCHANGED <<auto, trigger, admin, tick, mail, left>>

FallsDue(j) ==
    /\ row[j].status = "active" /\ row[j].at = "later"
    /\ row' = [row EXCEPT ![j].at = "now"]
    /\ UNCHANGED <<auto, trigger, admin, tick, mail, left>>

(* The process stops; mail on its way is fetched again. *)
Crash ==
    /\ Spend("fault")
    /\ tick' = Idle
    /\ admin' = [a \in Admins |-> [admin[a] EXCEPT !.pc = "idle"]]
    /\ mail' = [m \in Mails |-> IF mail[m] = "sending" THEN "queued" ELSE mail[m]]
    /\ UNCHANGED <<auto, trigger, row>>

Tick ==
    \/ Fetch \/ (\E b \in tick.batch : Take(b)) \/ RunNode \/ NodeDeleted \/ NodeFails
    \/ Persist \/ HandleError \/ Close

Deliver(m) == CheckJourney(m) \/ Sent(m)

(* The history of exits: mail then still queued, or queued afterwards, has   *)
(* been taken back.                                                          *)
Recall ==
    exitedMail' = exitedMail \cup
        {m \in Mails : row'[m.j].status = "exited" /\ mail'[m] \in {"none", "queued"}}

Next ==
    \/ \E a \in Admins :
         \/ Requests(a) /\ Spend("request") /\ UNCHANGED <<tick, mail>> /\ Recall
         \/ Handles(a) /\ UNCHANGED <<tick, mail, left>> /\ Recall
         \/ LeftHalfDone(a) /\ Spend("fault") /\ UNCHANGED <<tick, mail>> /\ Recall
    \/ \E j \in Journeys :
         \/ Enroll(j) /\ UNCHANGED <<tick, mail, left>> /\ Recall
         \/ FallsDue(j) /\ Recall
    \/ Tick /\ Recall
    \/ \E b \in tick.batch : TakeFails(b) /\ Recall
    \/ PersistFails /\ Recall
    \/ CloseFails /\ Recall
    \/ \E m \in Mails : (Deliver(m) \/ CheckFails(m) \/ Reply(m)) /\ Recall
    \/ Crash /\ Recall

Spec == Init /\ [][Next]_vars

(* The ticker fires, time passes and the queue is worked off. Nobody has to  *)
(* activate anything, and no mishap has to happen.                           *)
FairSpec ==
    /\ Spec
    /\ WF_vars(Tick /\ Recall)
    /\ \A j \in Journeys : WF_vars(FallsDue(j) /\ Recall)
    /\ \A m \in Mails : WF_vars(Deliver(m) /\ Recall)
-----------------------------------------------------------------------------
Spent(mishap) == Bound[mishap] - left[mishap]

(* What has ended stays as it ended: no write of the executor, on its way or *)
(* after an error, brings back a journey that a reply or a deletion exited.  *)
EndedIsFinal ==
    [][\A j \in Journeys : row[j].status \in {"completed", "exited", "failed"}
                             => row'[j] = row[j]]_vars

(* "Remove any one and exited stops meaning no further mail goes out": after *)
(* an exit no mail goes out but what was on its way, whether it was waiting  *)
(* in the queue or is queued by a node still running; unless the worker could*)
(* not read the journey.                                                     *)
ExitStopsMail ==
    Spent("blind") = 0 => \A m \in exitedMail : mail[m] \notin {"sending", "sent"}

(* A node queues its mail a second time only after a crash or an error of    *)
(* the database came between the mail and the write of the next node.        *)
MailOnce ==
    \A j \in Journeys, n \in Nodes :
        Cardinality({m \in Mails : m.j = j /\ m.n = n /\ mail[m] # "none"})
            <= 1 + Spent("fault")

InHand(j) == tick.j = j \/ \E b \in tick.batch : b.j = j

(* A journey nobody is walking has a time at which it is walked on, unless a *)
(* crash or an error left it without: however its node failed, whatever was  *)
(* paused or edited meanwhile.                                               *)
ForgottenForCause ==
    \A j \in Journeys :
        row[j].status = "active" /\ row[j].at = "null" /\ ~InHand(j)
            => Spent("fault") > 0

(* Between requests that met no failed statement a live automation has its   *)
(* trigger, compiled from what the row stores, whatever was activated,       *)
(* paused, edited or deleted before: for one administrator (README, 7).      *)
LiveIsArmed ==
    /\ \A a \in Admins : At(a, "idle")
    /\ auto.status = "live" /\ ~auto.deleted
    /\ Spent("fault") = 0
    => trigger = auto.config

(* A contact enrolled reaches an end, through failing nodes and delays, as   *)
(* long as the automation stays live and no mishap strikes.                  *)
EveryJourneyEnds ==
    \A j \in Journeys :
        row[j].status = "active"
            ~> \/ row[j].status # "active"
               \/ auto.status # "live" \/ auto.deleted
               \/ Spent("fault") > 0
-----------------------------------------------------------------------------
(* "Hit max iterations - remaining nodes picked up next tick".               *)
NotForgotten ==
    \A j \in Journeys : row[j].status = "active" /\ ~InHand(j) => row[j].at # "null"

(* "If a reply exited it after this email was enqueued, cancel the send."    *)
OnlyExitsCancelMail == \A m \in Mails : mail[m] = "skipped" => row[m.j].status = "exited"
=============================================================================
