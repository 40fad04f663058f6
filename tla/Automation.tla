----------------------------- MODULE Automation -----------------------------
(* One automation, its enrolment trigger, and its journeys' rows             *)
(* (automation_service.go, automation_postgres.go, automation_triggers.go).  *)
(*                                                                           *)
(* The row and the trigger compiled from it are written by separate          *)
(* statements, and every request works on a copy it read first: the steps of *)
(* a request are its statements. exit_on_reply is on.                        *)
EXTENDS Naturals

CONSTANTS
    Admins,         \* users of the console
    Journeys,       \* enrolments of contacts
    Nodes,          \* the nodes ever used, from the root 1 to the last
    Configs,        \* what a row may store: a trigger with its nodes
    NodesOf,        \* the nodes of each
    MaxRetries

ASSUME AutomationAssumption ==
    /\ Nodes \subseteq Nat \ {0} /\ 1 \in Nodes
    /\ Configs \subseteq Nat \ {0} /\ Configs # {}
    /\ NodesOf \in [Configs -> SUBSET Nodes]
    /\ MaxRetries \in Nat \ {0}

NoTrigger == 0
NoNode == 0

VARIABLES
    auto,       \* the row in automations
    trigger,    \* the configuration the installed trigger is compiled from
    admin,      \* per admin: the step of the request, the copy it read, its edit
    row         \* contact_automations

Row == [status : {"none", "active", "completed", "exited", "failed"},
        node : Nodes \cup {NoNode}, at : {"null", "now", "later"}, retries : 0 .. MaxRetries]

Steps == {"idle", "activating", "pausing", "updating", "installing", "restoring",
          "dropping", "deleting", "exiting", "removing"}

Request == [pc : Steps, status : {"draft", "paused", "live"}, config : Configs, edit : Configs]

AutomationTypeOK ==
    /\ auto \in [status : {"draft", "paused", "live"}, config : Configs, deleted : BOOLEAN]
    /\ trigger \in Configs \cup {NoTrigger}
    /\ admin \in [Admins -> Request]
    /\ row \in [Journeys -> Row]

NoJourney == [status |-> "none", node |-> NoNode, at |-> "null", retries |-> 0]

(* An automation just drawn, or one that runs. *)
AutomationInit ==
    \E c \in Configs, s \in {"draft", "live"} :
      /\ auto = [status |-> s, config |-> c, deleted |-> FALSE]
      /\ trigger = IF s = "live" THEN c ELSE NoTrigger
      /\ admin = [a \in Admins |-> [pc |-> "idle", status |-> "draft", config |-> c, edit |-> c]]
      /\ row = [j \in Journeys |-> NoJourney]

At(a, step) == admin[a].pc = step
Goto(a, step) == admin' = [admin EXCEPT ![a].pc = step]

(* GetByID, at the start of a request that goes on with step. *)
Read(a, step, edit) ==
    /\ At(a, "idle") /\ ~auto.deleted
    /\ admin' = [admin EXCEPT ![a] = [pc |-> step, status |-> auto.status,
                                      config |-> auto.config, edit |-> edit]]
    /\ UNCHANGED <<auto, trigger, row>>

(* UpdateIfStatus writes the whole row. *)
UpdateIfStatus(a, status, config, expected, next) ==
    /\ IF auto.status = expected
         THEN auto' = [auto EXCEPT !.status = status, !.config = config] /\ Goto(a, next)
         ELSE UNCHANGED auto /\ Goto(a, "idle")
    /\ UNCHANGED <<trigger, row>>
-----------------------------------------------------------------------------
BeginActivate(a) == auto.status # "live" /\ Read(a, "activating", auto.config)

WriteLive(a) ==
    /\ At(a, "activating")
    /\ UpdateIfStatus(a, "live", admin[a].config, admin[a].status, "installing")

(* CreateAutomationTrigger is one transaction. *)
Install(a) ==
    /\ At(a, "installing")
    /\ trigger' = admin[a].edit
    /\ Goto(a, "idle")
    /\ UNCHANGED <<auto, row>>

\* Plausible slip: the row is left as written.
InstallFailsUnrestored(a) ==
    At(a, "installing") /\ Goto(a, "idle") /\ UNCHANGED <<auto, trigger, row>>

InstallFails(a) ==
    At(a, "installing") /\ Goto(a, "restoring") /\ UNCHANGED <<auto, trigger, row>>

(* The unconditional Update puts the copy back. *)
Restore(a) ==
    /\ At(a, "restoring")
    /\ auto' = [auto EXCEPT !.status = admin[a].status, !.config = admin[a].config]
    /\ Goto(a, "idle")
    /\ UNCHANGED <<trigger, row>>

(* Pause: one found paused is only disarmed. *)
BeginPause(a) ==
    \/ auto.status = "live" /\ Read(a, "pausing", auto.config)
    \/ auto.status = "paused" /\ Read(a, "dropping", auto.config)

WritePaused(a) ==
    /\ At(a, "pausing")
    /\ UpdateIfStatus(a, "paused", admin[a].config, "live", "dropping")

DropTrigger(a) ==
    /\ At(a, "dropping")
    /\ trigger' = NoTrigger
    /\ Goto(a, "idle")
    /\ UNCHANGED <<auto, row>>

BeginUpdate(a, c) == Read(a, "updating", c)

(* The status stays; a live automation's new trigger is installed after.     *)
WriteEdit(a) ==
    LET r == admin[a]
    IN  /\ At(a, "updating")
        /\ UpdateIfStatus(a, r.status, r.edit, r.status,
                          IF r.status = "live" /\ r.edit # r.config THEN "installing" ELSE "idle")

(* DeleteTx, which reads nothing and ignores an error of the drop. *)
BeginDelete(a) ==
    At(a, "idle") /\ Goto(a, "deleting") /\ UNCHANGED <<auto, trigger, row>>

DropIgnored(a) ==
    /\ At(a, "deleting")
    /\ trigger' \in {NoTrigger, trigger}
    /\ Goto(a, "exiting")
    /\ UNCHANGED <<auto, row>>

Exited(r) == [r EXCEPT !.status = "exited", !.at = "null"]

ExitActive(a) ==
    /\ At(a, "exiting")
    /\ row' = [j \in Journeys |-> IF row[j].status = "active" THEN Exited(row[j]) ELSE row[j]]
    /\ Goto(a, "removing")
    /\ UNCHANGED <<auto, trigger>>

Remove(a) ==
    /\ At(a, "removing")
    /\ auto' = [auto EXCEPT !.deleted = TRUE]
    /\ Goto(a, "idle")
    /\ UNCHANGED <<trigger, row>>

(* A statement fails that has nothing before it to be undone... *)
RequestFails(a) ==
    /\ admin[a].pc \in {"activating", "pausing", "updating", "dropping"}
    /\ Goto(a, "idle")
    /\ UNCHANGED <<auto, trigger, row>>

(* ...or one that leaves a request half done. *)
LeftHalfDone(a) ==
    /\ admin[a].pc \in {"restoring", "exiting", "removing"}
    /\ Goto(a, "idle")
    /\ UNCHANGED <<auto, trigger, row>>

(* A request is made, or takes a step. *)
Requests(a) ==
    BeginActivate(a) \/ BeginPause(a) \/ (\E c \in Configs : BeginUpdate(a, c)) \/ BeginDelete(a)

Handles(a) ==
    \/ WriteLive(a) \/ Install(a) \/ InstallFails(a) \/ Restore(a)
    \/ WritePaused(a) \/ DropTrigger(a) \/ WriteEdit(a)
    \/ DropIgnored(a) \/ ExitActive(a) \/ Remove(a) \/ RequestFails(a)
-----------------------------------------------------------------------------
(* automation_enroll_contact: the trigger may outlive the live automation.   *)
Enroll(j) ==
    /\ row[j].status = "none"
    /\ trigger # NoTrigger
    /\ auto.status = "live" /\ ~auto.deleted
    /\ row' = [row EXCEPT ![j] = [NoJourney EXCEPT !.status = "active", !.node = 1, !.at = "now"]]
    /\ UNCHANGED <<auto, trigger, admin>>

\* Plausible slip: the row is written whatever became of it.
UpdateContactAutomation(j, ca) == row' = [row EXCEPT ![j] = ca]

(* UpdateContactAutomationIfActive. *)
UpdateIfActive(j, ca) ==
    row' = IF row[j].status = "active" THEN [row EXCEPT ![j] = ca] ELSE row

(* ExitContactJourneysOnReply. *)
ExitOnReply(j) ==
    /\ row[j].status = "active" /\ ~auto.deleted
    /\ row' = [row EXCEPT ![j] = Exited(row[j])]

(* GetScheduledContactAutomations: a journey without a time is not due. *)
Due == {j \in Journeys : /\ row[j].status = "active" /\ row[j].at = "now"
                         /\ auto.status = "live" /\ ~auto.deleted}
=============================================================================
