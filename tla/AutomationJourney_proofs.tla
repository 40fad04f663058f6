----------------------- MODULE AutomationJourney_proofs -----------------------
(* What holds of automations for every drawing of their nodes, every number  *)
(* of journeys and administrators and every bound on their mishaps: type     *)
(* correctness, that an end is final, that an exit stops the mail, that no   *)
(* journey is forgotten and no mail queued again without a fault, and that a *)
(* live automation has its trigger.                                          *)
EXTENDS AutomationJourney, FiniteSetTheorems, TLAPS

Pair == [j : Journeys, ca : Row]

Scheduler ==
    [pc : {"idle", "ready", "node", "persisting", "failing", "closing"}, batch : SUBSET Pair,
     j : Journeys \cup {"none"}, ca : Row, config : Configs \cup {0},
     nodes : 0 .. MaxNodesPerTick - 1]

(* A journey that goes on has an attempt left, in its row and in every copy. *)
Live(ca) == ca.status = "active" => ca.retries < MaxRetries

TickTyped ==
    /\ tick \in Scheduler
    /\ \A b \in tick.batch : b.ca.status = "active" /\ b.ca.retries < MaxRetries
    /\ tick.pc \in {"node", "persisting", "failing"} => tick.ca.retries < MaxRetries
    /\ tick.pc \in {"node", "persisting", "failing", "closing"} => tick.j \in Journeys
    /\ tick.pc = "closing" => Live(tick.ca)
    /\ tick.pc \in {"node", "persisting"} => tick.config \in Configs
    /\ tick.pc = "node" => tick.ca.node \in Nodes
    /\ tick.pc = "persisting" /\ tick.ca.status = "active" /\ tick.ca.at # "later"
         => tick.ca.node \in Nodes

RestTyped ==
    /\ AutomationTypeOK
    /\ \A j \in Journeys : Live(row[j])
    /\ mail \in [Mails -> {"none", "queued", "sending", "sent", "skipped"}]
    /\ exitedMail \subseteq Mails
    /\ left \in [Mishaps -> Nat]

Typed == TickTyped /\ RestTyped

LEMMA NodeNames ==
    /\ NoNode \notin Nodes /\ 1 \in Nodes /\ NoTrigger \notin Configs /\ 0 \notin Configs
    /\ MaxRetries \in Nat \ {0} /\ MaxNodesPerTick \in Nat \ {0}
    /\ 0 \in 0 .. MaxNodesPerTick - 1 /\ 0 \in 0 .. MaxRetries
BY AutomationAssumption, JourneyAssumption DEF NoNode, NoTrigger

LEMMA TypedAtFirst == Init => Typed
<1> SUFFICES ASSUME Init PROVE Typed
  OBVIOUS
<1>1. NoJourney \in Row /\ Live(NoJourney)
  BY NodeNames DEF NoJourney, Row, Live
<1>2. TickTyped
  BY <1>1, NodeNames DEF Init, Idle, TickTyped, Scheduler
<1>3. AutomationTypeOK /\ \A j \in Journeys : Live(row[j])
  BY <1>1, NodeNames DEF Init, AutomationInit, AutomationTypeOK, Request, Steps
<1>4. left \in [Mishaps -> Nat]
  BY JourneyAssumption DEF Init
<1> QED BY <1>2, <1>3, <1>4 DEF Init, Typed, RestTyped

LEMMA ExitedTyped ==
    ASSUME NEW r \in Row PROVE Exited(r) \in Row /\ Live(Exited(r)) /\ Exited(r).status = "exited"
BY DEF Exited, Row, Live

(* What the administrators do keeps the types. *)
LEMMA AdminsTyped ==
    ASSUME Typed, NEW a \in Admins, Requests(a) \/ Handles(a) \/ LeftHalfDone(a)
    PROVE  AutomationTypeOK' /\ \A j \in Journeys : Live(row'[j])
<1> USE NodeNames
<1>a. /\ auto \in [status : {"draft", "paused", "live"}, config : Configs, deleted : BOOLEAN]
      /\ trigger \in Configs \cup {NoTrigger} /\ admin \in [Admins -> Request]
      /\ row \in [Journeys -> Row] /\ \A j \in Journeys : Live(row[j])
  BY DEF Typed, RestTyped, AutomationTypeOK
<1>g. \A step \in Steps : Goto(a, step) => admin' \in [Admins -> Request]
  BY <1>a DEF Goto, Request
<1>r. ASSUME NEW step \in Steps, NEW edit \in Configs, Read(a, step, edit)
      PROVE  AutomationTypeOK' /\ \A j \in Journeys : Live(row'[j])
  BY <1>r, <1>a DEF Read, AutomationTypeOK, Request
<1>u. ASSUME NEW s \in {"draft", "paused", "live"}, NEW c \in Configs, NEW e,
             NEW step \in Steps, UpdateIfStatus(a, s, c, e, step)
      PROVE  AutomationTypeOK' /\ \A j \in Journeys : Live(row'[j])
  <2>1. auto' \in [status : {"draft", "paused", "live"}, config : Configs, deleted : BOOLEAN]
    BY <1>u, <1>a DEF UpdateIfStatus
  <2>2. admin' \in [Admins -> Request]
    BY <1>u, <1>g DEF UpdateIfStatus, Steps
  <2> QED BY <1>u, <1>a, <2>1, <2>2 DEF UpdateIfStatus, AutomationTypeOK
(* Statements that leave the rows of the journeys alone. *)
<1>w. ASSUME auto' = auto \/ (\E s \in {"draft", "paused", "live"}, c \in Configs, d \in BOOLEAN :
                                auto' = [auto EXCEPT !.status = s, !.config = c, !.deleted = d]),
             trigger' \in Configs \cup {NoTrigger}, \E step \in Steps : Goto(a, step),
             UNCHANGED row
      PROVE  AutomationTypeOK' /\ \A j \in Journeys : Live(row'[j])
  <2>1. auto' \in [status : {"draft", "paused", "live"}, config : Configs, deleted : BOOLEAN]
    BY <1>w, <1>a
  <2> QED BY <1>w, <1>a, <1>g, <2>1 DEF AutomationTypeOK
<1>q. admin[a] \in Request
  BY <1>a
<1>1. CASE Requests(a)
  BY <1>1, <1>a, <1>r, <1>w
     DEF Requests, BeginActivate, BeginPause, BeginUpdate, BeginDelete, Steps
<1>2. CASE WriteLive(a) \/ WritePaused(a) \/ WriteEdit(a)
  BY <1>2, <1>q, <1>u DEF WriteLive, WritePaused, WriteEdit, Request, Steps
<1>3. CASE Install(a) \/ InstallFails(a) \/ DropTrigger(a) \/ DropIgnored(a) \/ RequestFails(a)
           \/ LeftHalfDone(a)
  BY <1>3, <1>a, <1>q, <1>w
     DEF Install, InstallFails, DropTrigger, DropIgnored, RequestFails, LeftHalfDone, Request, Steps
<1>4. CASE Restore(a)
  <2>1. auto' \in [status : {"draft", "paused", "live"}, config : Configs, deleted : BOOLEAN]
    BY <1>4, <1>a, <1>q DEF Restore, Request
  <2> QED BY <1>4, <1>a, <1>g, <2>1 DEF Restore, AutomationTypeOK, Steps
<1>5. CASE Remove(a)
  <2>1. auto' \in [status : {"draft", "paused", "live"}, config : Configs, deleted : BOOLEAN]
    BY <1>5, <1>a DEF Remove
  <2> QED BY <1>5, <1>a, <1>g, <2>1 DEF Remove, AutomationTypeOK, Steps
<1>6. CASE ExitActive(a)
  <2>1. row' \in [Journeys -> Row] /\ \A j \in Journeys : Live(row'[j])
    BY <1>6, <1>a, ExitedTyped DEF ExitActive
  <2> QED BY <1>6, <1>a, <1>g, <2>1 DEF ExitActive, AutomationTypeOK, Steps
<1> QED BY <1>1, <1>2, <1>3, <1>4, <1>5, <1>6 DEF Handles

(* Mishaps are spent from a finite store. *)
LEMMA SpendTyped ==
    ASSUME Typed, NEW k \in Mishaps, Spend(k) PROVE left' \in [Mishaps -> Nat]
BY DEF Typed, RestTyped, Spend

LEMMA MishapNames == "request" \in Mishaps /\ "fault" \in Mishaps /\ "blind" \in Mishaps
BY JourneyAssumption

LEMMA PairTyped ==
    ASSUME Typed, NEW b \in tick.batch
    PROVE  /\ b.j \in Journeys /\ b.ca \in Row /\ b.ca.status = "active"
           /\ b.ca.retries < MaxRetries
BY DEF Typed, TickTyped, Scheduler, Pair

LEMMA OverTyped ==
    ASSUME Typed, NEW S \in SUBSET tick.batch, NEW t, t.batch = S, tick' = Over(t)
    PROVE  TickTyped'
<1>1. S \in SUBSET Pair /\ \A b \in S : b.ca.status = "active" /\ b.ca.retries < MaxRetries
  BY DEF Typed, TickTyped, Scheduler
<1>2. NoJourney \in Row
  BY NodeNames DEF NoJourney, Row
<1>3. Idle \in Scheduler /\ Idle.pc = "idle" /\ Idle.batch = {}
  BY <1>2, NodeNames DEF Idle, Scheduler
<1>4. [Idle EXCEPT !.pc = "ready", !.batch = S] \in Scheduler
  BY <1>1, <1>2, NodeNames DEF Idle, Scheduler
<1>5. /\ tick' \in Scheduler /\ tick'.pc \in {"idle", "ready"}
      /\ tick'.batch \in SUBSET S
  BY <1>3, <1>4 DEF Over, Idle
<1> QED BY <1>1, <1>5 DEF TickTyped

(* A journey as a node leaves it. *)
LEMMA WalkedTyped ==
    ASSUME NEW ca \in Row, NEW n \in Nodes, NEW o \in Outcomes(n)
    PROVE  /\ Walked(ca, o) \in Row /\ Walked(ca, o).retries = ca.retries
           /\ Walked(ca, o).status = "active" /\ Walked(ca, o).at # "later"
                => Walked(ca, o).node \in Nodes
<1>1. /\ o.node \in Nodes \cup {NoNode} /\ o.at \in {"null", "later"}
      /\ o.status \in {"active", "completed", "exited"}
      /\ o.status = "active" /\ o.at # "later" => o.node \in Nodes
  BY DEF Outcomes, GoOn, Waits, After
<1> DEFINE w == [ca EXCEPT !.node = o.node, !.at = o.at, !.status = o.status]
<1>2. o.node \in Nodes \cup {NoNode} /\ o.at \in {"null", "now", "later"}
      /\ o.status \in {"none", "active", "completed", "exited", "failed"}
  BY <1>1
<1>3. /\ w \in Row /\ w.retries = ca.retries /\ w.node = o.node /\ w.at = o.at
      /\ w.status = o.status
  BY <1>2 DEF Row
<1>4. Walked(ca, o) = w
  BY DEF Walked
<1> HIDE DEF w
<1> QED BY <1>1, <1>3, <1>4

LEMMA TickSteps ==
    ASSUME Typed, Tick \/ (\E b \in tick.batch : TakeFails(b)) \/ PersistFails \/ CloseFails
    PROVE  TickTyped'
<1> USE NodeNames
<1>t. /\ tick \in Scheduler
      /\ tick.pc \in {"node", "persisting", "failing"} => tick.ca.retries < MaxRetries
      /\ tick.pc \in {"node", "persisting", "failing", "closing"} => tick.j \in Journeys
      /\ \A b \in tick.batch : b.ca.status = "active" /\ b.ca.retries < MaxRetries
      /\ tick.ca \in Row
  BY DEF Typed, TickTyped, Scheduler
<1>o. tick' = Over(tick) => TickTyped'
  BY OverTyped
(* The scheduler keeps its batch and the journey in hand. *)
<1>k. ASSUME NEW p \in {"node", "persisting", "failing", "closing"}, NEW ca \in Row,
             NEW n \in 0 .. MaxNodesPerTick - 1,
             tick.pc \in {"node", "persisting", "failing"},
             tick' = [tick EXCEPT !.pc = p, !.ca = ca, !.nodes = n],
             p # "closing" => ca.retries < MaxRetries, Live(ca),
             p \in {"node", "persisting"} => tick.config \in Configs,
             p = "node" => ca.node \in Nodes,
             p = "persisting" /\ ca.status = "active" /\ ca.at # "later" => ca.node \in Nodes
      PROVE  TickTyped'
  <2>1. /\ tick' \in Scheduler /\ tick'.pc = p /\ tick'.ca = ca /\ tick'.batch = tick.batch
        /\ tick'.j = tick.j /\ tick'.config = tick.config
    BY <1>k, <1>t DEF Scheduler
  <2> QED BY <1>k, <1>t, <2>1 DEF TickTyped
(* The scheduler takes a journey of its batch in hand. *)
<1>p. ASSUME NEW b \in tick.batch
      PROVE  /\ Taken(b) \in Scheduler /\ Taken(b).batch = tick.batch \ {b}
             /\ Taken(b).j = b.j /\ Taken(b).ca = b.ca /\ Taken(b).config = 0
  <2>1. b.j \in Journeys /\ b.ca \in Row /\ tick.batch \ {b} \in SUBSET Pair
    BY <1>t, PairTyped DEF Scheduler
  <2> QED BY <2>1 DEF Taken, Idle, Scheduler
<1>h. ASSUME NEW b \in tick.batch, NEW p \in {"node", "failing", "closing"}, NEW c \in Configs \cup {0},
             NEW ca \in Row, ca.retries < MaxRetries, ca.node = b.ca.node,
             p = "node" => c \in Configs /\ b.ca.node # NoNode,
             tick' = [Taken(b) EXCEPT !.pc = p, !.config = c, !.ca = ca]
      PROVE  TickTyped'
  <2>1. Taken(b) \in Scheduler /\ Taken(b).batch = tick.batch \ {b} /\ Taken(b).j = b.j
    BY <1>p
  <2>0. b.j \in Journeys
    BY PairTyped
  <2>2. /\ tick' \in Scheduler /\ tick'.pc = p /\ tick'.ca = ca /\ tick'.batch = tick.batch \ {b}
        /\ tick'.j = b.j /\ tick'.config = c
    BY <1>h, <2>1 DEF Scheduler
  <2>3. p = "node" => ca.node \in Nodes
    BY <1>h, PairTyped DEF Row
  <2> QED BY <1>h, <1>t, <2>0, <2>1, <2>2, <2>3 DEF TickTyped, Live
<1>1. CASE Fetch
  <2>1. tick' = [tick EXCEPT !.pc = "ready", !.batch = {[j |-> j, ca |-> row[j]] : j \in Due}]
    BY <1>1 DEF Fetch
  <2>2. \A j \in Due : /\ j \in Journeys /\ row[j] \in Row /\ row[j].status = "active"
                       /\ row[j].retries < MaxRetries
    BY DEF Due, Typed, RestTyped, AutomationTypeOK, Live
  <2> DEFINE B == {[j |-> j, ca |-> row[j]] : j \in Due}
  <2>3. B \in SUBSET Pair /\ \A b \in B : b.ca.status = "active" /\ b.ca.retries < MaxRetries
    BY <2>2 DEF Pair
  <2> HIDE DEF B
  <2>4. tick' \in Scheduler /\ tick'.pc = "ready" /\ tick'.batch = B
    BY <1>t, <2>1, <2>3 DEF Scheduler, B
  <2> QED BY <2>3, <2>4 DEF TickTyped
<1>2. ASSUME NEW b \in tick.batch, Take(b) PROVE TickTyped'
  <2>1. b.ca \in Row /\ b.ca.retries < MaxRetries /\ auto.config \in Configs
    BY PairTyped DEF Typed, RestTyped, AutomationTypeOK
  <2>2. CASE auto.deleted
    <3>1. tick' = [Taken(b) EXCEPT !.pc = "failing", !.config = 0, !.ca = b.ca]
      BY <1>2, <1>p, <2>2 DEF Take, Scheduler
    <3> QED BY <1>h, <2>1, <3>1
  <2>3. CASE ~auto.deleted /\ auto.status # "live"
    <3>1. tick' = Over(Taken(b)) /\ Taken(b).batch = tick.batch \ {b}
      BY <1>2, <2>3 DEF Take, Taken, Idle
    <3> QED BY <3>1, OverTyped
  <2>4. CASE ~auto.deleted /\ auto.status = "live" /\ b.ca.node = NoNode
    <3> DEFINE ca == [b.ca EXCEPT !.status = "completed", !.at = "null"]
    <3>1. ca \in Row /\ ca.retries < MaxRetries /\ ca.node = b.ca.node
      BY <2>1 DEF Row
    <3>2. tick' = [Taken(b) EXCEPT !.pc = "closing", !.config = 0, !.ca = ca]
      <4>1. tick' = [Taken(b) EXCEPT !.pc = "closing", !.ca.status = "completed", !.ca.at = "null"]
        BY <1>2, <2>4 DEF Take
      <4>2. Taken(b) \in Scheduler /\ Taken(b).ca = b.ca /\ Taken(b).config = 0
        BY <1>p
      <4>3. tick' = [Taken(b) EXCEPT !.pc = "closing", !.ca = ca]
        BY <4>1, <4>2 DEF Scheduler, Row
      <4> HIDE DEF ca
      <4> QED BY <4>2, <4>3 DEF Scheduler
    <3> HIDE DEF ca
    <3> QED BY <1>h, <3>1, <3>2
  <2>5. CASE ~auto.deleted /\ auto.status = "live" /\ b.ca.node # NoNode
    <3>1. tick' = [Taken(b) EXCEPT !.pc = "node", !.config = auto.config, !.ca = b.ca]
      BY <1>2, <1>p, <2>5 DEF Take, Scheduler
    <3> QED BY <1>h, <2>1, <2>5, <3>1
  <2> QED BY <2>2, <2>3, <2>4, <2>5
<1>3. ASSUME NEW b \in tick.batch, TakeFails(b) PROVE TickTyped'
  <2>1. tick' = [Taken(b) EXCEPT !.pc = "failing", !.config = 0, !.ca = b.ca]
    BY <1>3, <1>p DEF TakeFails, Scheduler
  <2> QED BY <1>h, <2>1, PairTyped
<1>4. CASE RunNode
  <2>1. /\ tick.pc = "node" /\ tick.ca.node \in Nodes /\ tick.config \in Configs
        /\ tick.ca.retries < MaxRetries
    BY <1>4 DEF RunNode, Typed, TickTyped
  <2>2. PICK o \in Outcomes(tick.ca.node) :
          tick' = [tick EXCEPT !.pc = "persisting", !.ca = Walked(@, o)]
    BY <1>4 DEF RunNode
  <2> DEFINE ca == Walked(tick.ca, o)
  <2>3. /\ ca \in Row /\ ca.retries < MaxRetries /\ Live(ca)
        /\ ca.status = "active" /\ ca.at # "later" => ca.node \in Nodes
    BY <1>t, <2>1, WalkedTyped DEF Live
  <2>4. tick' = [tick EXCEPT !.pc = "persisting", !.ca = ca, !.nodes = tick.nodes]
    BY <1>t, <2>2 DEF Scheduler
  <2>5. tick.nodes \in 0 .. MaxNodesPerTick - 1
    BY <1>t DEF Scheduler
  <2> HIDE DEF ca
  <2> QED BY <1>k, <2>1, <2>3, <2>4, <2>5
<1>n. tick.nodes \in 0 .. MaxNodesPerTick - 1
  BY <1>t DEF Scheduler
<1>5. CASE NodeDeleted
  <2>1. tick.pc = "node" /\ tick' = [tick EXCEPT !.pc = "closing", !.ca = Exited(tick.ca), !.nodes = tick.nodes]
    BY <1>5, <1>t DEF NodeDeleted, Scheduler
  <2> QED BY <1>k, <1>n, <1>t, <2>1, ExitedTyped
<1>6. CASE NodeFails \/ PersistFails
  <2>1. /\ tick.pc \in {"node", "persisting"}
        /\ tick' = [tick EXCEPT !.pc = "failing", !.ca = tick.ca, !.nodes = tick.nodes]
    BY <1>6, <1>t DEF NodeFails, PersistFails, Scheduler
  <2> QED BY <1>k, <1>n, <1>t, <2>1 DEF Live
<1>7. CASE Persist
  <2>1. CASE row[tick.j].status = "active" /\ GoesOn
    <3>1. /\ tick.pc = "persisting" /\ tick.ca.node \in Nodes /\ tick.config \in Configs
          /\ tick.nodes + 1 \in 0 .. MaxNodesPerTick - 1
      BY <1>7, <1>n, <2>1 DEF Persist, GoesOn, Typed, TickTyped
    <3>2. tick' = [tick EXCEPT !.pc = "node", !.ca = tick.ca, !.nodes = tick.nodes + 1]
      BY <1>7, <1>t, <2>1 DEF Persist, Scheduler
    <3> QED BY <1>k, <1>t, <3>1, <3>2 DEF Live
  <2>2. CASE ~(row[tick.j].status = "active" /\ GoesOn)
    BY <1>7, <1>o, <2>2 DEF Persist
  <2> QED BY <2>1, <2>2
<1>8. CASE HandleError
  <2> DEFINE n == tick.ca.retries + 1
  <2> DEFINE tried == [tick.ca EXCEPT !.retries = n]
  <2> DEFINE ca == IF n >= MaxRetries THEN [tried EXCEPT !.status = "failed"]
                                      ELSE [tried EXCEPT !.at = "later"]
  <2>1. tick.pc = "failing" /\ tick.ca.retries \in 0 .. MaxRetries /\ tick.ca.retries < MaxRetries
    BY <1>8, <1>t DEF HandleError, Row
  <2>2. n \in 0 .. MaxRetries
    BY <2>1
  <2>3. tried \in Row /\ tried.retries = n
    BY <1>t, <2>2 DEF Row
  <2>4. tick' = [tick EXCEPT !.pc = "closing", !.ca = ca]
    BY <1>8, <2>3 DEF HandleError
  <2>5. tick' = [tick EXCEPT !.pc = "closing", !.ca = ca, !.nodes = tick.nodes]
    BY <1>t, <2>4 DEF Scheduler
  <2> HIDE DEF tried
  <2>6. ca \in Row /\ Live(ca)
    BY <2>2, <2>3, Z3 DEF Row, Live
  <2> HIDE DEF ca
  <2> QED BY <1>k, <1>n, <2>1, <2>5, <2>6
<1>9. CASE Close \/ CloseFails
  BY <1>9, <1>o DEF Close, CloseFails
<1> QED BY <1>1, <1>2, <1>3, <1>4, <1>5, <1>6, <1>7, <1>8, <1>9 DEF Tick

(* The scheduler's writes, as all others, put rows where rows are. *)
LEMMA RowWritten ==
    ASSUME Typed, NEW j \in Journeys, NEW ca \in Row, Live(ca), UNCHANGED <<auto, trigger, admin>>,
           row' = [row EXCEPT ![j] = ca] \/ row' = row
    PROVE  AutomationTypeOK' /\ \A k \in Journeys : Live(row'[k])
<1>1. row' \in [Journeys -> Row] /\ \A k \in Journeys : Live(row'[k])
  BY DEF Typed, RestTyped, AutomationTypeOK
<1> QED BY <1>1 DEF Typed, RestTyped, AutomationTypeOK

LEMMA SchedulerRows ==
    ASSUME Typed, Tick \/ (\E b \in tick.batch : TakeFails(b)) \/ PersistFails \/ CloseFails
    PROVE  AutomationTypeOK' /\ \A k \in Journeys : Live(row'[k])
<1>1. CASE UNCHANGED <<auto, trigger, admin, row>>
  BY <1>1 DEF Typed, RestTyped, AutomationTypeOK
<1>2. CASE Persist \/ Close
  <2>1. /\ tick.j \in Journeys /\ tick.ca \in Row /\ Live(tick.ca)
        /\ UpdateIfActive(tick.j, tick.ca) /\ UNCHANGED <<auto, trigger, admin>>
    BY <1>2 DEF Persist, Close, Typed, TickTyped, Scheduler, Live
  <2> QED BY <2>1, RowWritten DEF UpdateIfActive
<1>3. ~(Persist \/ Close) => UNCHANGED <<auto, trigger, admin, row>>
  BY DEF Tick, Fetch, Take, RunNode, NodeDeleted, NodeFails, HandleError, TakeFails,
         PersistFails, CloseFails
<1> QED BY <1>1, <1>2, <1>3

LEMMA NextTyped ==
    ASSUME Typed, [Next]_vars
    PROVE  Typed'
<1> USE MishapNames
<1>q. TickTyped /\ AutomationTypeOK /\ (\A j \in Journeys : Live(row[j]))
      /\ mail \in [Mails -> {"none", "queued", "sending", "sent", "skipped"}]
      /\ exitedMail \subseteq Mails /\ left \in [Mishaps -> Nat]
  BY DEF Typed, RestTyped
<1>e. Recall => exitedMail' \subseteq Mails
  BY <1>q DEF Recall
<1>m. ASSUME NEW m \in Mails, NEW v \in {"none", "queued", "sending", "sent", "skipped"}
      PROVE  [mail EXCEPT ![m] = v] \in [Mails -> {"none", "queued", "sending", "sent", "skipped"}]
  BY <1>q
<1>k. UNCHANGED tick => TickTyped'
  BY <1>q DEF TickTyped
<1>c. UNCHANGED <<auto, trigger, admin, row>> => AutomationTypeOK' /\ \A j \in Journeys : Live(row'[j])
  BY <1>q DEF AutomationTypeOK
<1>1. CASE UNCHANGED vars
  BY <1>1, <1>q, <1>k, <1>c DEF vars, Typed, RestTyped
<1>2. ASSUME NEW a \in Admins, Requests(a) \/ Handles(a) \/ LeftHalfDone(a), Recall,
             UNCHANGED <<tick, mail>>,
             UNCHANGED left \/ Spend("request") \/ Spend("fault")
      PROVE  Typed'
  BY <1>2, <1>q, <1>e, <1>k, AdminsTyped, SpendTyped DEF Typed, RestTyped
<1>3. ASSUME NEW j \in Journeys, Enroll(j) \/ FallsDue(j), UNCHANGED <<tick, mail, left>>, Recall
      PROVE  Typed'
  <2>1. \E ca \in Row : /\ Live(ca) /\ UNCHANGED <<auto, trigger, admin>>
                        /\ row' = [row EXCEPT ![j] = ca]
    <3>1. CASE Enroll(j)
      <4> DEFINE ca == [NoJourney EXCEPT !.status = "active", !.node = 1, !.at = "now"]
      <4>0. NoJourney \in Row /\ NoJourney.retries = 0
        BY NodeNames DEF NoJourney, Row
      <4>1. ca \in Row /\ ca.retries = 0
        BY <4>0, NodeNames DEF Row
      <4>3. Live(ca)
        BY <4>1, NodeNames DEF Live
      <4>2. UNCHANGED <<auto, trigger, admin>> /\ row' = [row EXCEPT ![j] = ca]
        BY <3>1 DEF Enroll
      <4> QED BY <4>1, <4>2, <4>3
    <3>2. CASE FallsDue(j)
      <4> DEFINE ca == [row[j] EXCEPT !.at = "now"]
      <4>1. ca \in Row /\ Live(ca)
        BY <1>q DEF Row, Live, AutomationTypeOK
      <4>2. UNCHANGED <<auto, trigger, admin>> /\ row' = [row EXCEPT ![j] = ca]
        BY <3>2 DEF FallsDue
      <4> QED BY <4>1, <4>2
    <3> QED BY <1>3, <3>1, <3>2
  <2> QED BY <1>3, <1>q, <1>e, <1>k, <2>1, RowWritten DEF Typed, RestTyped
<1>4. ASSUME Tick \/ (\E b \in tick.batch : TakeFails(b)) \/ PersistFails \/ CloseFails, Recall
      PROVE  Typed'
  <2>1. TickTyped' /\ AutomationTypeOK' /\ \A j \in Journeys : Live(row'[j])
    BY <1>4, TickSteps, SchedulerRows
  <2>2. mail' \in [Mails -> {"none", "queued", "sending", "sent", "skipped"}]
    <3>1. CASE RunNode
      BY <1>m, <1>q, <3>1 DEF RunNode
    <3>2. CASE ~RunNode
      BY <1>4, <1>q, <3>2
         DEF Tick, Fetch, Take, NodeDeleted, NodeFails, Persist, HandleError, Close, TakeFails,
             PersistFails, CloseFails
    <3> QED BY <3>1, <3>2
  <2>3. UNCHANGED left \/ Spend("fault")
    BY <1>4 DEF Tick, Fetch, Take, RunNode, NodeDeleted, NodeFails, Persist, HandleError, Close,
                TakeFails, PersistFails, CloseFails
  <2> QED BY <1>4, <1>q, <1>e, <2>1, <2>2, <2>3, SpendTyped DEF Typed, RestTyped
<1>5. ASSUME NEW m \in Mails, Deliver(m) \/ CheckFails(m), Recall PROVE Typed'
  <2>1. mail' \in [Mails -> {"none", "queued", "sending", "sent", "skipped"}]
    BY <1>5, <1>m DEF Deliver, CheckJourney, Sent, CheckFails
  <2>2. UNCHANGED <<auto, trigger, admin, row, tick>> /\ (UNCHANGED left \/ Spend("blind"))
    BY <1>5 DEF Deliver, CheckJourney, Sent, CheckFails
  <2> QED BY <1>5, <1>q, <1>e, <1>k, <1>c, <2>1, <2>2, SpendTyped DEF Typed, RestTyped
<1>6. ASSUME NEW m \in Mails, Reply(m), Recall PROVE Typed'
  <2>1. m.j \in Journeys
    BY DEF Mails
  <2>2. UNCHANGED <<auto, trigger, admin, tick, mail, left>> /\ row' = [row EXCEPT ![m.j] = Exited(row[m.j])]
    BY <1>6 DEF Reply, ExitOnReply
  <2>3. Exited(row[m.j]) \in Row /\ Live(Exited(row[m.j]))
    BY <1>q, <2>1, ExitedTyped DEF AutomationTypeOK
  <2>4. AutomationTypeOK' /\ \A j \in Journeys : Live(row'[j])
    BY <2>1, <2>2, <2>3, RowWritten
  <2> QED BY <1>6, <1>q, <1>e, <1>k, <2>2, <2>4 DEF Typed, RestTyped
<1>7. CASE Crash /\ Recall
  <2>1. admin' \in [Admins -> Request]
    BY <1>7, <1>q DEF Crash, AutomationTypeOK, Request, Steps
  <2>2. AutomationTypeOK' /\ \A j \in Journeys : Live(row'[j])
    BY <1>7, <1>q, <2>1 DEF Crash, AutomationTypeOK
  <2>3. mail' \in [Mails -> {"none", "queued", "sending", "sent", "skipped"}]
    BY <1>7, <1>q DEF Crash
  <2>4. tick' = Over([Idle EXCEPT !.batch = {}])
    BY <1>7 DEF Crash, Over, Idle
  <2>5. TickTyped'
    BY <2>4, OverTyped DEF Idle
  <2>6. left' \in [Mishaps -> Nat]
    BY <1>7, SpendTyped DEF Crash
  <2> QED BY <1>7, <1>q, <1>e, <2>2, <2>3, <2>5, <2>6 DEF Typed, RestTyped
<1>8. ASSUME NEW j \in Journeys, FallsDue(j), Recall PROVE Typed'
  BY <1>8, <1>3 DEF FallsDue
<1> QED BY <1>1, <1>2, <1>3, <1>4, <1>5, <1>6, <1>7, <1>8 DEF Next

(* The executor's copies, the nodes' outcomes and the requests' half-written *)
(* states stay what the tables and the Go types can hold; in particular no   *)
(* journey is tried again once it has no attempt left (handleError).         *)
THEOREM AutomationTypeCorrect == Spec => []TypeOK
<1>1. Typed => TypeOK
  <2> SUFFICES ASSUME Typed PROVE TypeOK
    OBVIOUS
  <2>1. /\ tick.pc \in {"idle", "ready", "node", "persisting", "failing", "closing"}
        /\ tick.batch \subseteq [j : Journeys, ca : Row]
        /\ tick.j \in Journeys \cup {"none"} /\ tick.ca \in Row
        /\ tick.config \in Configs \cup {0} /\ tick.nodes \in 0 .. MaxNodesPerTick - 1
    BY DEF Typed, TickTyped, Scheduler, Pair
  <2>2. tick.pc \in {"node", "persisting"} => tick.config # 0
    BY NodeNames DEF Typed, TickTyped
  <2>3. tick.pc = "node" => tick.ca.node # NoNode
    BY NodeNames DEF Typed, TickTyped
  <2>4. tick.pc \in {"node", "persisting", "failing", "closing"} => tick.j # "none"
    BY JourneyAssumption DEF Typed, TickTyped
  <2> QED BY <2>1, <2>2, <2>3, <2>4 DEF Typed, RestTyped, TypeOK
<1> QED BY TypedAtFirst, NextTyped, <1>1, PTL DEF Spec
-----------------------------------------------------------------------------
(* Every write to a journey asks whether it is still active, or still to be  *)
(* enrolled.                                                                 *)
Finality ==
    \A j \in Journeys : row[j].status \in {"completed", "exited", "failed"} => row'[j] = row[j]

LEMMA EndsAreKept ==
    ASSUME Typed, [Next]_vars PROVE Finality
<1>t. row \in [Journeys -> Row] /\ \A m \in Mails : m.j \in Journeys
  BY DEF Typed, RestTyped, AutomationTypeOK, Mails
<1>w. ASSUME NEW j \in Journeys, NEW ca, row[j].status \in {"none", "active"},
             row' = [row EXCEPT ![j] = ca]
      PROVE  Finality
  BY <1>t, <1>w DEF Finality
<1>u. UNCHANGED row => Finality
  BY DEF Finality
<1>1. CASE UNCHANGED vars
  BY <1>1, <1>u DEF vars
<1>2. ASSUME NEW a \in Admins, Requests(a) PROVE Finality
  BY <1>2, <1>u DEF Requests, BeginActivate, BeginPause, BeginUpdate, BeginDelete, Read
<1>3. ASSUME NEW a \in Admins, Handles(a) \/ LeftHalfDone(a) PROVE Finality
  <2>1. CASE ExitActive(a)
    BY <1>t, <2>1 DEF ExitActive, Finality
  <2>2. CASE ~ExitActive(a)
    BY <1>3, <1>u, <2>2
       DEF Handles, LeftHalfDone, WriteLive, Install, InstallFails, Restore, WritePaused,
           DropTrigger, WriteEdit, DropIgnored, Remove, RequestFails, UpdateIfStatus
  <2> QED BY <2>1, <2>2
<1>4. ASSUME NEW j \in Journeys, Enroll(j) PROVE Finality
  BY <1>4, <1>t DEF Enroll, Finality
<1>5. ASSUME NEW j \in Journeys, FallsDue(j) PROVE Finality
  BY <1>5, <1>t DEF FallsDue, Finality
<1>6. CASE Persist \/ Close
  <2>1. tick.j \in Journeys
    BY <1>6 DEF Persist, Close, Typed, TickTyped
  <2> QED BY <1>6, <1>u, <1>w, <2>1 DEF Persist, Close, UpdateIfActive
<1>7. CASE /\ Tick \/ (\E b \in tick.batch : TakeFails(b)) \/ PersistFails \/ CloseFails
           /\ ~Persist /\ ~Close
  BY <1>7, <1>u DEF Tick, Fetch, Take, RunNode, NodeDeleted, NodeFails, HandleError, TakeFails,
                    PersistFails, CloseFails
<1>8. ASSUME NEW m \in Mails, Deliver(m) \/ CheckFails(m) PROVE Finality
  BY <1>8, <1>u DEF Deliver, CheckJourney, Sent, CheckFails
<1>9. ASSUME NEW m \in Mails, Reply(m) PROVE Finality
  <2>1. m.j \in Journeys /\ row[m.j].status = "active"
    BY <1>9, <1>t DEF Reply, ExitOnReply
  <2>2. row' = [row EXCEPT ![m.j] = Exited(row[m.j])]
    BY <1>9 DEF Reply, ExitOnReply
  <2> QED BY <1>t, <2>1, <2>2 DEF Finality
<1>10. CASE Crash
  BY <1>10, <1>u DEF Crash
<1> QED BY <1>1, <1>2, <1>3, <1>4, <1>5, <1>6, <1>7, <1>8, <1>9, <1>10 DEF Next

(* A journey that completed, was exited or failed is never written again:    *)
(* not by a tick that fetched it before, not by the error handling of a node *)
(* that ran while a reply exited it (UpdateContactAutomationIfActive).       *)
THEOREM EndsAreFinal == Spec => EndedIsFinal
<1>1. Typed /\ [Next]_vars => [Finality]_vars
  BY EndsAreKept
<1> QED BY TypedAtFirst, NextTyped, <1>1, PTL DEF Spec, EndedIsFinal, Finality
-----------------------------------------------------------------------------
(* Mail taken back belongs to a journey that has been exited for good, and   *)
(* has not gone out as long as the sender could look.                        *)
Recalled ==
    /\ \A m \in exitedMail : row[m.j].status = "exited"
    /\ left["blind"] <= Bound["blind"]
    /\ left["blind"] = Bound["blind"]
         => \A m \in exitedMail : mail[m] \in {"none", "queued", "skipped"}

LEMMA NextRecalls ==
    ASSUME Typed, Recalled, [Next]_vars
    PROVE  Recalled'
<1>t. /\ row \in [Journeys -> Row] /\ \A m \in Mails : m.j \in Journeys
      /\ exitedMail \subseteq Mails
      /\ mail \in [Mails -> {"none", "queued", "sending", "sent", "skipped"}]
      /\ left \in [Mishaps -> Nat] /\ Bound \in [Mishaps -> Nat]
  BY JourneyAssumption DEF Typed, RestTyped, AutomationTypeOK, Mails
<1> USE MishapNames
<1>e. \A m \in exitedMail : row'[m.j].status = "exited"
  BY <1>t, EndsAreKept DEF Recalled, Finality
(* A step that spends no look, under which no mail taken back goes out. *)
<1>k. ASSUME Recall, left'["blind"] = left["blind"],
             \A m \in exitedMail : mail[m] \in {"none", "queued", "skipped"}
                                   => mail'[m] \in {"none", "queued", "skipped"}
      PROVE  Recalled'
  BY <1>k, <1>e, <1>t DEF Recall, Recalled
<1>l. ASSUME NEW k \in {"request", "fault"}, Spend(k) PROVE left'["blind"] = left["blind"]
  BY <1>l, <1>t DEF Spend
<1>1. CASE UNCHANGED vars
  BY <1>1 DEF vars, Recalled
<1>2. CASE /\ \/ \E a \in Admins :
                  \/ Requests(a) /\ Spend("request") /\ UNCHANGED <<tick, mail>>
                  \/ Handles(a) /\ UNCHANGED <<tick, mail, left>>
                  \/ LeftHalfDone(a) /\ Spend("fault") /\ UNCHANGED <<tick, mail>>
              \/ \E j \in Journeys : (Enroll(j) /\ UNCHANGED <<tick, mail, left>>) \/ FallsDue(j)
           /\ Recall
  BY <1>2, <1>k, <1>l DEF FallsDue
<1>3. CASE /\ Tick \/ (\E b \in tick.batch : TakeFails(b)) \/ PersistFails \/ CloseFails
           /\ Recall
  <2>1. left'["blind"] = left["blind"]
    BY <1>3, <1>l DEF Tick, Fetch, Take, RunNode, NodeDeleted, NodeFails, Persist, HandleError, Close,
                TakeFails, PersistFails, CloseFails
  <2>2. UNCHANGED mail \/ \E m \in Mails : mail' = [mail EXCEPT ![m] = "queued"]
    BY <1>3 DEF Tick, Fetch, Take, RunNode, NodeDeleted, NodeFails, Persist, HandleError, Close,
                TakeFails, PersistFails, CloseFails
  <2> QED BY <1>3, <1>k, <1>t, <2>1, <2>2
<1>4. ASSUME NEW m \in Mails, CheckJourney(m), Recall PROVE Recalled'
  <2>1. m \in exitedMail => mail'[m] = "skipped"
    BY <1>4, <1>t DEF CheckJourney, Recalled
  <2> QED BY <1>4, <1>k, <1>t, <2>1 DEF CheckJourney
<1>5. ASSUME NEW m \in Mails, Sent(m), Recall PROVE Recalled'
  BY <1>5, <1>k, <1>t DEF Sent
<1>6. ASSUME NEW m \in Mails, CheckFails(m), Recall PROVE Recalled'
  <2>1. left'["blind"] <= Bound["blind"] /\ left'["blind"] # Bound["blind"]
    BY <1>6, <1>t DEF CheckFails, Spend, Recalled
  <2>2. \A k \in exitedMail' : row'[k.j].status = "exited"
    BY <1>6, <1>e DEF Recall
  <2> QED BY <2>1, <2>2 DEF Recalled
<1>7. ASSUME NEW m \in Mails, Reply(m), Recall PROVE Recalled'
  BY <1>7, <1>k DEF Reply
<1>8. CASE Crash /\ Recall
  BY <1>8, <1>k, <1>l, <1>t DEF Crash
<1> QED BY <1>1, <1>2, <1>3, <1>4, <1>5, <1>6, <1>7, <1>8 DEF Next, Deliver

(* After an exit no mail of the journey goes out but what was on its way:    *)
(* the sender's look at the journey catches what was queued before and what  *)
(* a node still running queues after (queue/worker.go, processEntry).         *)
THEOREM ExitsStopMail == Spec => []ExitStopsMail
<1>1. Init => Recalled
  BY MishapNames, JourneyAssumption DEF Init, Recalled
<1>2. Typed /\ Recalled => ExitStopsMail
  BY MishapNames, JourneyAssumption DEF Typed, RestTyped, Recalled, ExitStopsMail, Spent
<1>3. Typed /\ Recalled /\ [Next]_vars => (Typed /\ Recalled)'
  BY NextTyped, NextRecalls
<1> QED BY TypedAtFirst, <1>1, <1>2, <1>3, PTL DEF Spec
-----------------------------------------------------------------------------
(* What the scheduler's steps do to the journey in hand and to its batch.    *)
HandPCs == {"node", "persisting", "failing", "closing"}

LetGo(S) ==
    /\ tick'.j = "none" /\ tick'.batch = S /\ tick'.pc \in {"idle", "ready"}
    /\ tick'.pc = "idle" => S = {}

TakenUp(b) ==
    /\ tick'.j = b.j /\ tick'.batch = tick.batch \ {b} /\ tick'.ca.node = b.ca.node
    /\ tick'.pc \in {"node", "failing", "closing"}
    /\ tick'.pc = "node" => tick'.nodes = 0 /\ b.ca.node # NoNode
    /\ tick'.pc = "closing" => tick'.ca.status = "completed"
    /\ tick'.ca.status \in {b.ca.status, "completed"}

CarriedOn ==
    /\ tick'.j = tick.j /\ tick'.batch = tick.batch
    /\ tick.pc \in HandPCs /\ tick'.pc \in HandPCs

LEMMA LetsGo ==
    ASSUME NEW t, tick' = Over(t) PROVE LetGo(t.batch)
<1>1. CASE t.batch = {}
  BY <1>1 DEF Over, Idle, LetGo
<1>2. CASE t.batch # {}
  BY <1>2 DEF Over, Idle, LetGo
<1> QED BY <1>1, <1>2

LEMMA TakesUp ==
    ASSUME Typed, NEW b \in tick.batch, Take(b) \/ TakeFails(b)
    PROVE  tick.pc = "ready" /\ (TakenUp(b) \/ LetGo(tick.batch \ {b}))
<1>b. b.ca \in Row
  BY PairTyped
<1>1. tick.pc = "ready"
  BY DEF Take, TakeFails
<1>2. /\ Taken(b) \in Scheduler /\ Taken(b).batch = tick.batch \ {b}
      /\ Taken(b).j = b.j /\ Taken(b).ca = b.ca /\ Taken(b).nodes = 0
  <2>1. b.j \in Journeys /\ b.ca \in Row /\ tick.batch \ {b} \in SUBSET Pair
    BY PairTyped DEF Typed, TickTyped, Scheduler
  <2> QED BY <2>1, NodeNames DEF Taken, Idle, Scheduler
<1>3. ASSUME tick' = [Taken(b) EXCEPT !.pc = "failing"] PROVE TakenUp(b)
  BY <1>2, <1>3 DEF TakenUp, Scheduler
<1>4. ASSUME tick' = [Taken(b) EXCEPT !.pc = "node", !.config = auto.config], b.ca.node # NoNode
      PROVE  TakenUp(b)
  BY <1>2, <1>4 DEF TakenUp, Scheduler
<1>5. ASSUME tick' = [Taken(b) EXCEPT !.pc = "closing", !.ca.status = "completed", !.ca.at = "null"]
      PROVE  TakenUp(b)
  <2>1. /\ tick'.pc = "closing" /\ tick'.j = b.j /\ tick'.batch = tick.batch \ {b}
        /\ tick'.ca = [b.ca EXCEPT !.status = "completed", !.at = "null"]
    BY <1>2, <1>5 DEF Scheduler
  <2> QED BY <1>b, <2>1 DEF TakenUp, Row
<1>6. ASSUME tick' = Over(Taken(b)) PROVE LetGo(tick.batch \ {b})
  BY <1>2, <1>6, LetsGo
<1> QED BY <1>1, <1>3, <1>4, <1>5, <1>6 DEF Take, TakeFails

LEMMA CarriesOn ==
    ASSUME Typed
    PROVE  /\ RunNode => /\ CarriedOn /\ tick.pc = "node" /\ tick'.pc = "persisting"
                         /\ tick'.nodes = tick.nodes /\ tick.ca.node \in Nodes
                         /\ \E o \in Outcomes(tick.ca.node) :
                              /\ tick'.ca = Walked(tick.ca, o)
                              /\ UNCHANGED mail \/ \E m \in Mails :
                                    /\ m.j = tick.j /\ m.n = tick.ca.node
                                    /\ mail' = [mail EXCEPT ![m] = "queued"]
           /\ NodeDeleted => CarriedOn /\ tick'.pc = "closing" /\ tick'.ca = Exited(tick.ca)
           /\ NodeFails \/ PersistFails => CarriedOn /\ tick'.pc = "failing" /\ tick'.ca = tick.ca
           /\ HandleError => /\ CarriedOn /\ tick'.pc = "closing" /\ tick'.ca.node = tick.ca.node
                             /\ tick'.ca.status = "active" => tick'.ca.at = "later"
                             /\ tick'.ca.status \in {tick.ca.status, "failed"}
           /\ Persist /\ row[tick.j].status = "active" /\ GoesOn
                => /\ CarriedOn /\ tick'.pc = "node" /\ tick'.ca = tick.ca
                   /\ tick.pc = "persisting" /\ tick'.nodes = tick.nodes + 1
           /\ (Persist /\ ~(row[tick.j].status = "active" /\ GoesOn)) \/ Close \/ CloseFails
                => tick.pc \in HandPCs /\ LetGo(tick.batch)
<1>t. tick \in Scheduler /\ tick.ca \in Row /\ (tick.pc = "node" => tick.ca.node \in Nodes)
  BY DEF Typed, TickTyped, Scheduler
<1>1. ASSUME RunNode PROVE /\ CarriedOn /\ tick.pc = "node" /\ tick'.pc = "persisting"
                           /\ tick'.nodes = tick.nodes /\ tick.ca.node \in Nodes
                           /\ \E o \in Outcomes(tick.ca.node) :
                                /\ tick'.ca = Walked(tick.ca, o)
                                /\ UNCHANGED mail \/ \E m \in Mails :
                                      /\ m.j = tick.j /\ m.n = tick.ca.node
                                      /\ mail' = [mail EXCEPT ![m] = "queued"]
  <2>1. PICK o \in Outcomes(tick.ca.node) :
          /\ tick' = [tick EXCEPT !.pc = "persisting", !.ca = Walked(@, o)]
          /\ UNCHANGED mail \/ \E m \in Mails : /\ m.j = tick.j /\ m.n = tick.ca.node
                                                /\ mail' = [mail EXCEPT ![m] = "queued"]
    BY <1>1 DEF RunNode
  <2>2. tick.pc = "node"
    BY <1>1 DEF RunNode
  <2>3. /\ tick'.pc = "persisting" /\ tick'.nodes = tick.nodes /\ tick'.j = tick.j
        /\ tick'.batch = tick.batch /\ tick'.ca = Walked(tick.ca, o)
    BY <1>t, <2>1 DEF Scheduler
  <2> QED BY <1>t, <2>1, <2>2, <2>3 DEF CarriedOn, HandPCs
<1>2. NodeDeleted => CarriedOn /\ tick'.pc = "closing" /\ tick'.ca = Exited(tick.ca)
  BY <1>t DEF NodeDeleted, CarriedOn, HandPCs, Scheduler
<1>3. NodeFails \/ PersistFails => CarriedOn /\ tick'.pc = "failing" /\ tick'.ca = tick.ca
  BY <1>t DEF NodeFails, PersistFails, CarriedOn, HandPCs, Scheduler
<1>4. ASSUME HandleError
      PROVE  /\ CarriedOn /\ tick'.pc = "closing" /\ tick'.ca.node = tick.ca.node
             /\ tick'.ca.status = "active" => tick'.ca.at = "later"
             /\ tick'.ca.status \in {tick.ca.status, "failed"}
  <2> DEFINE tried == [tick.ca EXCEPT !.retries = @ + 1]
             ca == IF tried.retries >= MaxRetries THEN [tried EXCEPT !.status = "failed"]
                                                  ELSE [tried EXCEPT !.at = "later"]
  <2>1. tick.pc = "failing" /\ tick' = [tick EXCEPT !.pc = "closing", !.ca = ca]
    BY <1>4 DEF HandleError
  <2>2. /\ ca.node = tick.ca.node /\ (ca.status = "active" => ca.at = "later")
        /\ ca.status \in {tick.ca.status, "failed"}
    BY <1>t DEF Row
  <2> HIDE DEF ca
  <2> QED BY <1>t, <2>1, <2>2 DEF CarriedOn, HandPCs, Scheduler
<1>5. Persist /\ row[tick.j].status = "active" /\ GoesOn
        => /\ CarriedOn /\ tick'.pc = "node" /\ tick'.ca = tick.ca
           /\ tick.pc = "persisting" /\ tick'.nodes = tick.nodes + 1
  BY <1>t DEF Persist, CarriedOn, HandPCs, Scheduler
<1>6. (Persist /\ ~(row[tick.j].status = "active" /\ GoesOn)) \/ Close \/ CloseFails
        => tick.pc \in HandPCs /\ LetGo(tick.batch)
  BY LetsGo DEF Persist, Close, CloseFails, HandPCs
<1> QED BY <1>1, <1>2, <1>3, <1>4, <1>5, <1>6

(* What everybody else does: nothing is queued, and a journey is enrolled,   *)
(* exited or falls due.                                                      *)
FirstRow == [NoJourney EXCEPT !.status = "active", !.node = 1, !.at = "now"]

Aside ==
    /\ UNCHANGED tick
    /\ \A m \in Mails : mail'[m] # "none" <=> mail[m] # "none"
    /\ left'["fault"] = left["fault"] \/ Spend("fault")
    /\ \A j \in Journeys :
          \/ row'[j] = row[j]
          \/ row[j].status = "active" /\ row'[j].status = "exited"
          \/ row[j].status = "none" /\ row'[j] = FirstRow
          \/ /\ row[j].at = "later" /\ row'[j].at = "now" /\ row'[j].status = row[j].status
             /\ row'[j].node = row[j].node

Walking == Tick \/ (\E b \in tick.batch : TakeFails(b)) \/ PersistFails \/ CloseFails

LEMMA StepsAside ==
    ASSUME Typed, [Next]_vars, ~Walking, ~Crash
    PROVE  Aside
<1> USE MishapNames
<1>t. /\ row \in [Journeys -> Row] /\ \A m \in Mails : m.j \in Journeys
      /\ mail \in [Mails -> {"none", "queued", "sending", "sent", "skipped"}]
      /\ left \in [Mishaps -> Nat]
  BY DEF Typed, RestTyped, AutomationTypeOK, Mails
<1>l. ASSUME NEW k \in {"request", "blind"}, Spend(k) PROVE left'["fault"] = left["fault"]
  BY <1>l, <1>t DEF Spend
<1>1. CASE UNCHANGED vars
  BY <1>1 DEF vars, Aside
<1>2. ASSUME NEW a \in Admins, Requests(a), Spend("request"), UNCHANGED <<tick, mail>> PROVE Aside
  <2>1. UNCHANGED row
    BY <1>2 DEF Requests, BeginActivate, BeginPause, BeginUpdate, BeginDelete, Read
  <2> QED BY <1>2, <1>l, <2>1 DEF Aside
<1>3. ASSUME NEW a \in Admins, Handles(a) \/ LeftHalfDone(a), UNCHANGED <<tick, mail>>,
             UNCHANGED left \/ Spend("fault")
      PROVE  Aside
  <2>1. CASE ExitActive(a)
    <3>1. \A j \in Journeys : row'[j] = IF row[j].status = "active" THEN Exited(row[j]) ELSE row[j]
      BY <2>1 DEF ExitActive
    <3>2. \A j \in Journeys : Exited(row[j]).status = "exited"
      BY <1>t, ExitedTyped
    <3> QED BY <1>3, <3>1, <3>2 DEF Aside
  <2>2. CASE ~ExitActive(a)
    <3>1. UNCHANGED row
      BY <1>3, <2>2
         DEF Handles, LeftHalfDone, WriteLive, Install, InstallFails, Restore, WritePaused,
             DropTrigger, WriteEdit, DropIgnored, Remove, RequestFails, UpdateIfStatus
    <3> QED BY <1>3, <3>1 DEF Aside
  <2> QED BY <2>1, <2>2
<1>4. ASSUME NEW j \in Journeys, Enroll(j), UNCHANGED <<tick, mail, left>> PROVE Aside
  BY <1>4, <1>t DEF Enroll, FirstRow, Aside
<1>5. ASSUME NEW j \in Journeys, FallsDue(j) PROVE Aside
  <2>1. /\ row' = [row EXCEPT ![j] = [row[j] EXCEPT !.at = "now"]] /\ row[j].at = "later"
        /\ UNCHANGED <<tick, mail, left>>
    BY <1>5, <1>t DEF FallsDue, Row
  <2>2. \A k \in Journeys : row'[k] = IF k = j THEN [row[j] EXCEPT !.at = "now"] ELSE row[k]
    BY <1>t, <2>1
  <2>3. row'[j].at = "now" /\ row'[j].status = row[j].status /\ row'[j].node = row[j].node
    BY <1>t, <2>2 DEF Row
  <2> QED BY <2>1, <2>2, <2>3 DEF Aside
<1>6. ASSUME NEW m \in Mails, Deliver(m) \/ CheckFails(m) PROVE Aside
  <2>1. /\ UNCHANGED <<row, tick>> /\ mail[m] # "none" /\ left'["fault"] = left["fault"]
        /\ \E v \in {"sending", "skipped", "sent"} : mail' = [mail EXCEPT ![m] = v]
    BY <1>6, <1>l DEF Deliver, CheckJourney, Sent, CheckFails
  <2>2. \A k \in Mails : mail'[k] # "none" <=> mail[k] # "none"
    BY <1>t, <2>1
  <2> QED BY <2>1, <2>2 DEF Aside
<1>7. ASSUME NEW m \in Mails, Reply(m) PROVE Aside
  <2>1. /\ m.j \in Journeys /\ row[m.j].status = "active" /\ UNCHANGED <<tick, mail, left>>
        /\ row' = [row EXCEPT ![m.j] = Exited(row[m.j])]
    BY <1>7, <1>t DEF Reply, ExitOnReply
  <2>2. Exited(row[m.j]).status = "exited"
    BY <1>t, <2>1, ExitedTyped
  <2>3. \A j \in Journeys : row'[j] = IF j = m.j THEN Exited(row[m.j]) ELSE row[j]
    BY <1>t, <2>1
  <2> QED BY <2>1, <2>2, <2>3 DEF Aside
<1>8. CASE Next
  BY <1>8, <1>2, <1>3, <1>4, <1>5, <1>6, <1>7 DEF Next, Walking
<1> QED BY <1>1, <1>8

(* Faults are counted down from their bound. *)
Unfaulted == left["fault"] = Bound["fault"]

LEMMA FaultsSpent ==
    ASSUME Typed, left["fault"] <= Bound["fault"]
    PROVE  /\ Spent("fault") \in Nat /\ (Unfaulted <=> Spent("fault") = 0)
           /\ Spend("fault") => /\ ~Unfaulted' /\ left'["fault"] <= Bound["fault"]
                                /\ Spent("fault")' = Spent("fault") + 1
           /\ left'["fault"] = left["fault"] => /\ Unfaulted' <=> Unfaulted
                                                /\ Spent("fault")' = Spent("fault")
<1>1. /\ left \in [Mishaps -> Nat] /\ Bound["fault"] \in Nat /\ left["fault"] \in Nat
      /\ "fault" \in Mishaps
  BY MishapNames, JourneyAssumption DEF Typed, RestTyped
<1>2. Spent("fault") \in Nat /\ (Unfaulted <=> Spent("fault") = 0)
  BY <1>1 DEF Spent, Unfaulted
<1>3. ASSUME Spend("fault")
      PROVE  /\ ~Unfaulted' /\ left'["fault"] <= Bound["fault"]
             /\ Spent("fault")' = Spent("fault") + 1
  <2>1. left'["fault"] = left["fault"] - 1
    BY <1>1, <1>3 DEF Spend
  <2> QED BY <1>1, <2>1 DEF Spent, Unfaulted
<1>4. left'["fault"] = left["fault"] => /\ Unfaulted' <=> Unfaulted
                                        /\ Spent("fault")' = Spent("fault")
  BY DEF Spent, Unfaulted
<1> QED BY <1>2, <1>3, <1>4

(* Every journey of the batch is there once, is not in hand, and its row is  *)
(* due unless it ended.                                                      *)
Tended ==
    /\ tick.pc \in {"idle", "ready"} => tick.j = "none"
    /\ tick.pc = "idle" => tick.batch = {}
    /\ \A b \in tick.batch : /\ b.j # tick.j
                             /\ row[b.j].status = "active" => row[b.j].at = "now"
    /\ \A b, c \in tick.batch : b.j = c.j => b = c
    /\ left["fault"] <= Bound["fault"]

(* What the scheduler writes, and what it spends. *)
LEMMA WalkWrites ==
    ASSUME Typed, Walking
    PROVE  /\ left'["fault"] = left["fault"] \/ Spend("fault")
           /\ \/ row' = row
              \/ /\ Persist \/ Close
                 /\ row[tick.j].status = "active" /\ row' = [row EXCEPT ![tick.j] = tick.ca]
           /\ RunNode \/ UNCHANGED mail
<1>1. left'["fault"] = left["fault"] \/ Spend("fault")
  BY DEF Walking, Tick, Fetch, Take, RunNode, NodeDeleted, NodeFails, Persist, HandleError, Close,
         TakeFails, PersistFails, CloseFails
<1>2. \/ row' = row
      \/ /\ Persist \/ Close
         /\ row[tick.j].status = "active" /\ row' = [row EXCEPT ![tick.j] = tick.ca]
  <2>1. CASE Persist \/ Close
    BY <2>1 DEF Persist, Close, UpdateIfActive
  <2>2. CASE ~(Persist \/ Close)
    BY <2>2 DEF Walking, Tick, Fetch, Take, RunNode, NodeDeleted, NodeFails, HandleError,
                TakeFails, PersistFails, CloseFails
  <2> QED BY <2>1, <2>2
<1>3. RunNode \/ UNCHANGED mail
  BY DEF Walking, Tick, Fetch, Take, NodeDeleted, NodeFails, Persist, HandleError, Close,
         TakeFails, PersistFails, CloseFails
<1> QED BY <1>1, <1>2, <1>3

LEMMA WalkCases ==
    ASSUME Typed, Walking
    PROVE  \/ Fetch
           \/ tick.pc = "ready" /\ \E b \in tick.batch : TakenUp(b) \/ LetGo(tick.batch \ {b})
           \/ CarriedOn
           \/ tick.pc \in HandPCs /\ LetGo(tick.batch)
BY TakesUp, CarriesOn DEF Walking, Tick

LEMMA Fetched ==
    ASSUME Typed, Fetch
    PROVE  /\ tick.pc = "idle" /\ tick'.pc = "ready" /\ tick'.j = tick.j /\ tick'.ca = tick.ca
           /\ \A b \in tick'.batch : b.j \in Due /\ b.ca = row[b.j]
           /\ \A b, c \in tick'.batch : b.j = c.j => b = c
<1> DEFINE B == {[j |-> j, ca |-> row[j]] : j \in Due}
<1>1. tick.pc = "idle" /\ tick' = [tick EXCEPT !.pc = "ready", !.batch = B] /\ tick \in Scheduler
  BY DEF Fetch, Typed, TickTyped
<1>2. \A b \in B : b.j \in Due /\ b.ca = row[b.j] /\ b = [j |-> b.j, ca |-> row[b.j]]
  OBVIOUS
<1> HIDE DEF B
<1>3. tick'.batch = B /\ tick'.pc = "ready" /\ tick'.j = tick.j /\ tick'.ca = tick.ca
  BY <1>1 DEF Scheduler
<1> QED BY <1>1, <1>2, <1>3

LEMMA NextTends == Typed /\ Tended /\ [Next]_vars => Tended'
<1> SUFFICES ASSUME Typed, Tended, [Next]_vars PROVE Tended'
  OBVIOUS
<1>t. /\ row \in [Journeys -> Row] /\ "none" \notin Journeys
      /\ \A b \in tick.batch : b.j \in Journeys
      /\ tick.pc \in HandPCs => tick.j \in Journeys
  BY JourneyAssumption, PairTyped DEF Typed, RestTyped, TickTyped, AutomationTypeOK, HandPCs
<1>p. HandPCs \cap {"idle", "ready"} = {}
  BY DEF HandPCs
<1>1. ASSUME Aside PROVE Tended'
  <2>1. left'["fault"] <= Bound["fault"]
    BY <1>1, FaultsSpent DEF Aside, Tended
  <2>2. \A j \in Journeys : row'[j].status = "active" /\ (row[j].status = "active" => row[j].at = "now")
                              => row'[j].at = "now"
    <3>1. FirstRow.at = "now"
      BY DEF FirstRow, NoJourney
    <3> QED BY <1>1, <3>1 DEF Aside
  <2>3. \A b \in tick.batch : row'[b.j].status = "active" => row'[b.j].at = "now"
    BY <1>t, <2>2 DEF Tended
  <2> QED BY <1>1, <2>1, <2>3 DEF Aside, Tended
<1>2. CASE Crash
  <2>1. tick'.pc = "idle" /\ tick'.batch = {} /\ tick'.j = "none" /\ Spend("fault")
    BY <1>2 DEF Crash, Idle
  <2>2. left'["fault"] <= Bound["fault"]
    BY <2>1, FaultsSpent DEF Tended
  <2> QED BY <2>1, <2>2 DEF Tended
<1>3. ASSUME Walking PROVE Tended'
  <2>1. left'["fault"] <= Bound["fault"]
    BY <1>3, WalkWrites, FaultsSpent DEF Tended
  <2>2. \A j \in Journeys \ {tick.j} : row'[j] = row[j]
    BY <1>3, <1>t, WalkWrites
  <2>3. CASE Fetch
    <3>1. /\ tick'.pc = "ready" /\ tick'.j = "none"
          /\ \A b \in tick'.batch : b.j \in Due
          /\ \A b, c \in tick'.batch : b.j = c.j => b = c
      BY <2>3, Fetched DEF Tended
    <3>2. \A b \in tick'.batch : b.j # "none" /\ row'[b.j].at = "now"
      BY <1>t, <2>3, <3>1 DEF Due, Fetch
    <3> QED BY <2>1, <3>1, <3>2 DEF Tended
  (* The batch does not grow, and the journey in hand is not in it. *)
  <2>4. ASSUME tick'.batch \subseteq tick.batch, \A b \in tick'.batch : b.j # tick'.j,
               tick'.pc \in {"idle", "ready"} => tick'.j = "none",
               tick'.pc = "idle" => tick'.batch = {}
        PROVE  Tended'
    <3>1. \A b \in tick'.batch : row'[b.j].status = "active" => row'[b.j].at = "now"
      BY <1>t, <2>2, <2>4 DEF Tended
    <3> QED BY <2>1, <2>4, <3>1 DEF Tended
  <2>5. ASSUME NEW S \in SUBSET tick.batch, LetGo(S) PROVE Tended'
    BY <1>t, <2>4, <2>5 DEF LetGo
  <2>6. ASSUME NEW b \in tick.batch, TakenUp(b) PROVE Tended'
    <3>1. \A c \in tick'.batch : c.j # tick'.j
      BY <2>6 DEF TakenUp, Tended
    <3> QED BY <2>4, <2>6, <3>1 DEF TakenUp
  <2>7. CASE CarriedOn
    BY <1>p, <2>4, <2>7 DEF CarriedOn, Tended
  <2> QED BY <1>3, <2>3, <2>5, <2>6, <2>7, WalkCases
<1> QED BY <1>1, <1>2, <1>3, StepsAside

LEMMA TendedAtFirst == Init => Tended
<1> SUFFICES ASSUME Init PROVE Tended
  OBVIOUS
<1>1. tick.pc = "idle" /\ tick.batch = {} /\ tick.j = "none" /\ left = Bound
  BY DEF Init, Idle
<1>2. left["fault"] <= Bound["fault"]
  BY <1>1, MishapNames, JourneyAssumption
<1> QED BY <1>1, <1>2 DEF Tended

(* A tick has run fewer nodes than the node it stands at tells, so an        *)
(* automation that has no more nodes than a tick may run is walked through   *)
(* in one; and what is written back of a journey that goes on has a date.    *)
Remembered ==
    /\ tick.pc = "node" => tick.ca.node > tick.nodes
    /\ tick.pc = "persisting" /\ tick.ca.status = "active" /\ tick.ca.at # "later"
         => tick.ca.node > tick.nodes + 1
    /\ tick.pc = "closing" /\ tick.ca.status = "active" => tick.ca.at = "later"
    /\ Unfaulted => \A j \in Journeys :
                       row[j].status = "active" /\ row[j].at = "null" => InHand(j)

RoomForAll == \A n \in Nodes : n <= MaxNodesPerTick

LEMMA WalkedNode ==
    ASSUME NEW ca \in Row, NEW n \in Nodes, NEW o \in Outcomes(n)
    PROVE  /\ Walked(ca, o).node \in {After(n), NoNode}
           /\ Walked(ca, o).status = "active" /\ Walked(ca, o).at # "later"
                => Walked(ca, o).node = n + 1
           /\ Walked(ca, o).status # "none"
<1>1. /\ o.node \in {After(n), NoNode} /\ o.at \in {"null", "now", "later"}
      /\ o.status \in {"none", "active", "completed", "exited", "failed"}
      /\ o.status = "active" /\ o.at # "later" => o.node = n + 1
      /\ o.status # "none"
  BY DEF Outcomes, GoOn, Waits, After
<1>2. o.node \in Nodes \cup {NoNode}
  BY <1>1 DEF After
<1>3. Walked(ca, o).node = o.node /\ Walked(ca, o).at = o.at /\ Walked(ca, o).status = o.status
  BY <1>1, <1>2 DEF Walked, Row
<1> QED BY <1>1, <1>3

LEMMA NextRemembers ==
    ASSUME RoomForAll, Typed, Tended, Remembered, [Next]_vars
    PROVE  Remembered'
<1>t. /\ row \in [Journeys -> Row] /\ Nodes \subseteq Nat \ {0} /\ NoNode = 0
      /\ tick.nodes \in 0 .. MaxNodesPerTick - 1 /\ tick.ca \in Row
      /\ MaxNodesPerTick \in Nat
      /\ tick.pc \in HandPCs => tick.j \in Journeys
      /\ "none" \notin Journeys
  BY AutomationAssumption, JourneyAssumption
     DEF Typed, RestTyped, TickTyped, AutomationTypeOK, Scheduler, HandPCs, NoNode
<1>n. tick.nodes \in Nat /\ \A n \in Nodes : n \in Nat /\ n > 0
  BY <1>t
<1>y. Typed'
  BY NextTyped
<1>f. Unfaulted' => left'["fault"] = left["fault"] \/ ~Spend("fault")
  BY FaultsSpent DEF Tended
<1>g. left'["fault"] = left["fault"] => (Unfaulted' <=> Unfaulted)
  BY FaultsSpent DEF Tended
<1>i. ASSUME Unfaulted, tick.pc \in {"idle", "ready"}, NEW j \in Journeys
      PROVE  ~(row[j].status = "active" /\ row[j].at = "null")
  BY <1>i, <1>t DEF Tended, Remembered, InHand
<1>1. ASSUME Aside PROVE Remembered'
  <2>1. ASSUME Unfaulted', NEW j \in Journeys, row'[j].status = "active", row'[j].at = "null"
        PROVE  InHand(j)'
    <3>1. Unfaulted
      BY <1>1, <1>f, <1>g, <2>1 DEF Aside
    <3>2. FirstRow.at = "now"
      BY DEF FirstRow, NoJourney
    <3>3. row'[j] = row[j]
      BY <1>1, <2>1, <3>2 DEF Aside
    <3>4. InHand(j)
      BY <2>1, <3>1, <3>3 DEF Remembered
    <3> QED BY <1>1, <3>4 DEF Aside, InHand
  <2>2. UNCHANGED tick
    BY <1>1 DEF Aside
  <2> QED BY <2>1, <2>2 DEF Remembered
<1>2. CASE Crash
  <2>1. tick'.pc = "idle" /\ ~Unfaulted'
    BY <1>2, FaultsSpent DEF Crash, Idle, Tended
  <2> QED BY <2>1 DEF Remembered
<1>3. ASSUME Walking PROVE Remembered'
  <2>1. tick'.pc = "node" => tick'.ca.node > tick'.nodes
    <3>1. ASSUME tick'.pc = "node"
          PROVE  \/ tick'.nodes = 0
                 \/ /\ Persist /\ row[tick.j].status = "active" /\ GoesOn
                    /\ tick'.nodes = tick.nodes + 1 /\ tick'.ca = tick.ca
      <4>1. CASE Persist
        BY <3>1, <4>1, CarriesOn DEF LetGo
      <4>2. CASE ~Persist
        BY <1>3, <3>1, <4>2, CarriesOn, TakesUp, Fetched DEF LetGo, TakenUp, Walking, Tick
      <4> QED BY <4>1, <4>2
    <3>2. tick'.pc = "node" => tick'.ca.node \in Nodes
      BY <1>y DEF Typed, TickTyped
    <3>3. Persist => tick.pc = "persisting"
      BY DEF Persist
    <3> QED BY <1>n, <3>1, <3>2, <3>3 DEF GoesOn, Remembered
  <2>2. tick'.pc = "persisting" /\ tick'.ca.status = "active" /\ tick'.ca.at # "later"
          => tick'.ca.node > tick'.nodes + 1
    <3>1. tick'.pc = "persisting" => RunNode
      BY <1>3, CarriesOn, TakesUp, Fetched DEF LetGo, TakenUp, Walking, Tick
    <3>2. ASSUME RunNode, tick'.ca.status = "active", tick'.ca.at # "later"
          PROVE  tick'.ca.node > tick'.nodes + 1
      <4>1. /\ tick.ca.node > tick.nodes /\ tick.ca.node \in Nodes /\ tick'.nodes = tick.nodes
            /\ \E o \in Outcomes(tick.ca.node) : tick'.ca = Walked(tick.ca, o)
        BY <3>2, CarriesOn DEF Remembered
      <4>2. tick'.ca.node = tick.ca.node + 1
        BY <1>t, <3>2, <4>1, WalkedNode
      <4> QED BY <1>n, <4>1, <4>2
    <3> QED BY <3>1, <3>2
  <2>3. tick'.pc = "closing" /\ tick'.ca.status = "active" => tick'.ca.at = "later"
    <3>1. Exited(tick.ca).status = "exited"
      BY <1>t, ExitedTyped
    <3>2. CASE Persist
      BY <3>2, CarriesOn DEF LetGo
    <3>3. CASE ~Persist
      BY <1>3, <3>1, <3>3, CarriesOn, TakesUp, Fetched DEF LetGo, TakenUp, Walking, Tick
    <3> QED BY <3>2, <3>3
  <2>4. ASSUME Unfaulted', NEW j \in Journeys, row'[j].status = "active", row'[j].at = "null"
        PROVE  InHand(j)'
    <3>1. Unfaulted /\ ~Spend("fault")
      BY <1>3, <1>f, <1>g, <2>4, WalkWrites, FaultsSpent DEF Tended
    <3>2. j # tick.j => row'[j] = row[j] /\ InHand(j)
      <4>1. j # tick.j => row'[j] = row[j]
        BY <1>3, <1>t, WalkWrites
      <4> QED BY <2>4, <3>1, <4>1 DEF Remembered
    <3>3. CASE tick.pc \in {"idle", "ready"}
      <4>1. j # tick.j
        BY <1>t, <3>3 DEF Tended
      <4> QED BY <1>i, <2>4, <3>1, <3>2, <3>3, <4>1
    <3>4. CASE CarriedOn
      BY <3>2, <3>4 DEF CarriedOn, InHand
    <3>5. CASE tick.pc \in HandPCs /\ LetGo(tick.batch)
      <4>1. j # tick.j
        <5> SUFFICES ASSUME j = tick.j PROVE FALSE
          OBVIOUS
        <5>1. (Persist /\ ~(row[tick.j].status = "active" /\ GoesOn)) \/ Close
          <6>1. tick'.pc \notin HandPCs
            BY <3>5 DEF LetGo, HandPCs
          <6>2. ~CarriedOn /\ tick.pc \notin {"idle", "ready"}
            BY <3>5, <6>1 DEF CarriedOn, HandPCs
          <6>3. ~CloseFails
            BY <3>1 DEF CloseFails
          <6> QED BY <1>3, <6>2, <6>3, CarriesOn, TakesUp, Fetched DEF Walking, Tick
        <5>2. CASE row[j].status # "active"
          <6>1. row'[j] = row[j]
            BY <1>3, <5>2, WalkWrites
          <6> QED BY <2>4, <5>2, <6>1
        <5>3. CASE row[j].status = "active"
          <6>1. row'[j] = tick.ca
            BY <1>t, <5>1, <5>3 DEF Persist, Close, UpdateIfActive
          <6>2. CASE Close
            BY <2>4, <6>1, <6>2 DEF Close, Remembered
          <6>3. CASE Persist /\ ~GoesOn
            <7>1. tick.ca.node > tick.nodes + 1 /\ tick.ca.node \in Nodes
              BY <2>4, <6>1, <6>3 DEF Persist, Remembered, Typed, TickTyped
            <7>2. tick.ca.node <= MaxNodesPerTick
              BY <7>1 DEF RoomForAll
            <7>3. tick.nodes + 1 < MaxNodesPerTick
              <8>1. tick.nodes \in Nat /\ tick.ca.node \in Nat /\ MaxNodesPerTick \in Nat
                BY <1>n, <1>t, <7>1
              <8> QED BY <7>1, <7>2, <8>1
            <7> QED BY <2>4, <6>1, <6>3, <7>3 DEF GoesOn
          <6> QED BY <5>1, <5>3, <6>2, <6>3
        <5> QED BY <5>2, <5>3
      <4> QED BY <3>2, <3>5, <4>1 DEF LetGo, InHand
    <3> QED BY <1>3, <3>3, <3>4, <3>5, WalkCases, Fetched
  <2> QED BY <2>1, <2>2, <2>3, <2>4 DEF Remembered
<1> QED BY <1>1, <1>2, <1>3, StepsAside

(* In an automation with no more nodes than a tick may run, a journey that   *)
(* nobody is walking has a date, unless a crash or a failed write took it:   *)
(* the executor writes a journey back without one only when it goes on in    *)
(* the same tick, and puts off what failed (Execute and handleError of       *)
(* automation_executor.go).                                                  *)
THEOREM ForgottenOnlyForCause ==
    ASSUME RoomForAll
    PROVE  Spec => []ForgottenForCause
<1>1. Init => Remembered
  BY DEF Init, Idle, AutomationInit, NoJourney, Remembered
<1>2. Typed /\ Tended /\ Remembered => ForgottenForCause
  <2> SUFFICES ASSUME Typed, Tended, Remembered PROVE ForgottenForCause
    OBVIOUS
  <2>1. Spent("fault") \in Nat /\ (Unfaulted <=> Spent("fault") = 0)
    BY FaultsSpent DEF Tended
  <2> QED BY <2>1 DEF Remembered, ForgottenForCause
<1>3. Typed /\ Tended /\ Remembered /\ [Next]_vars => (Typed /\ Tended /\ Remembered)'
  BY NextTyped, NextTends, NextRemembers
<1> QED BY TypedAtFirst, TendedAtFirst, <1>1, <1>2, <1>3, PTL DEF Spec
-----------------------------------------------------------------------------
(* The mails a node queued for a journey.                                    *)
Asked(j, n) == {m \in Mails : m.j = j /\ m.n = n /\ mail[m] # "none"}

Ahead(node, n) == node # NoNode /\ node <= n

(* A node that a journey has still before it, by its row or by a copy, has   *)
(* queued a mail per fault; one that it passed, one more.                    *)
CountedMail ==
    \A j \in Journeys, n \in Nodes :
       LET q == Cardinality(Asked(j, n))
       IN  /\ q <= 1 + Spent("fault")
           /\ tick.j = j /\ Ahead(tick.ca.node, n) => q <= Spent("fault")
           /\ \A b \in tick.batch : b.j = j /\ Ahead(b.ca.node, n) => q <= Spent("fault")
           /\ \/ row[j].status = "none"
              \/ row[j].status = "active" /\ tick.j # j /\ Ahead(row[j].node, n)
              => q <= Spent("fault")

MailsOf(j, n) == {m \in Mails : m.j = j /\ m.n = n}

LEMMA MailsFinite ==
    ASSUME NEW j \in Journeys, NEW n \in Nodes, NEW S \in SUBSET MailsOf(j, n)
    PROVE  IsFiniteSet(S) /\ Cardinality(S) \in Nat
<1> DEFINE f == [m \in S |-> m.copy]
<1>1. IsFiniteSet(1 .. Copies)
  BY JourneyAssumption, FS_Interval
<1>2. \A m \in S : m.copy \in 1 .. Copies /\ m = [j |-> j, n |-> n, copy |-> m.copy]
  BY DEF MailsOf, Mails
<1>3. \A x, y \in S : x.copy = y.copy => x = y
  BY <1>2
<1>4. f \in Injection(S, 1 .. Copies)
  BY <1>2, <1>3 DEF Injection, IsInjective
<1> HIDE DEF f
<1>5. IsFiniteSet(S)
  BY <1>1, <1>4, FS_Injection
<1>6. Cardinality(S) \in Nat
  BY <1>5, FS_CardinalityType
<1> QED BY <1>5, <1>6

LEMMA AskedFinite ==
    ASSUME NEW j \in Journeys, NEW n \in Nodes
    PROVE  /\ IsFiniteSet(Asked(j, n)) /\ Cardinality(Asked(j, n)) \in Nat
           /\ Cardinality(Asked(j, n)') \in Nat
<1>1. Asked(j, n) \in SUBSET MailsOf(j, n) /\ Asked(j, n)' \in SUBSET MailsOf(j, n)
  BY DEF Asked, MailsOf
<1> QED BY <1>1, MailsFinite

(* A mail queued is one more; a step that queues none leaves the count.      *)
LEMMA MailQueued ==
    ASSUME NEW m \in Mails, mail' = [mail EXCEPT ![m] = "queued"], Typed
    PROVE  \A j \in Journeys, n \in Nodes :
              Cardinality(Asked(j, n)') <= Cardinality(Asked(j, n)) +
                                           (IF m.j = j /\ m.n = n THEN 1 ELSE 0)
<1> SUFFICES ASSUME NEW j \in Journeys, NEW n \in Nodes
             PROVE  Cardinality(Asked(j, n)') <= Cardinality(Asked(j, n)) +
                                                 (IF m.j = j /\ m.n = n THEN 1 ELSE 0)
  OBVIOUS
<1>1. \A k \in Mails : mail'[k] = IF k = m THEN "queued" ELSE mail[k]
  BY DEF Typed, RestTyped
<1>2. IsFiniteSet(Asked(j, n)) /\ Cardinality(Asked(j, n)) \in Nat
  BY AskedFinite
<1>3. CASE m.j = j /\ m.n = n
  <2>1. Asked(j, n)' = Asked(j, n) \cup {m}
    BY <1>1, <1>3 DEF Asked
  <2>2. Cardinality(Asked(j, n) \cup {m}) \in {Cardinality(Asked(j, n)), Cardinality(Asked(j, n)) + 1}
    BY <1>2, FS_AddElement
  <2>3. Cardinality(Asked(j, n)') <= Cardinality(Asked(j, n)) + 1
    BY <1>2, <2>1, <2>2
  <2> QED BY <1>3, <2>3
<1>4. CASE ~(m.j = j /\ m.n = n)
  <2>1. Asked(j, n)' = Asked(j, n)
    BY <1>1, <1>4 DEF Asked
  <2> QED BY <1>2, <1>4, <2>1
<1> QED BY <1>3, <1>4

LEMMA NoMailQueued ==
    ASSUME \A m \in Mails : mail'[m] # "none" <=> mail[m] # "none"
    PROVE  \A j, n : Asked(j, n)' = Asked(j, n)
BY DEF Asked

(* A fault allows for one mail more, wherever the journeys are after it.     *)
LEMMA FaultAllows ==
    ASSUME Typed, Tended, CountedMail, Spend("fault"), \A j, n : Asked(j, n)' = Asked(j, n)
    PROVE  CountedMail'
<1>1. Spent("fault") \in Nat /\ Spent("fault")' = Spent("fault") + 1
  BY FaultsSpent DEF Tended
<1>2. \A j \in Journeys, n \in Nodes : Cardinality(Asked(j, n)) <= 1 + Spent("fault")
  BY DEF CountedMail
<1>3. \A j \in Journeys, n \in Nodes :
        Cardinality(Asked(j, n)') \in Nat /\ Cardinality(Asked(j, n)') <= Spent("fault")'
  BY <1>1, <1>2, AskedFinite
<1>4. \A j \in Journeys, n \in Nodes : Cardinality(Asked(j, n)') <= 1 + Spent("fault")'
  BY <1>1, <1>3
<1> QED BY <1>3, <1>4 DEF CountedMail

(* Without a fault or a mail, what is before a journey afterwards was before *)
(* it.                                                                       *)
LEMMA NothingAsked ==
    ASSUME Typed, CountedMail, \A j, n : Asked(j, n)' = Asked(j, n),
           left'["fault"] = left["fault"],
           \A j \in Journeys, n \in Nodes :
              /\ \/ tick'.j = j /\ Ahead(tick'.ca.node, n)
                 \/ \E b \in tick'.batch : b.j = j /\ Ahead(b.ca.node, n)
                 \/ row'[j].status = "none"
                 \/ row'[j].status = "active" /\ tick'.j # j /\ Ahead(row'[j].node, n)
              => \/ tick.j = j /\ Ahead(tick.ca.node, n)
                 \/ \E b \in tick.batch : b.j = j /\ Ahead(b.ca.node, n)
                 \/ row[j].status = "none"
                 \/ row[j].status = "active" /\ tick.j # j /\ Ahead(row[j].node, n)
    PROVE  CountedMail'
<1>1. Spent("fault")' = Spent("fault")
  BY DEF Spent
<1>2. ASSUME NEW j \in Journeys, NEW n \in Nodes,
             \/ tick'.j = j /\ Ahead(tick'.ca.node, n)
             \/ \E b \in tick'.batch : b.j = j /\ Ahead(b.ca.node, n)
             \/ row'[j].status = "none"
             \/ row'[j].status = "active" /\ tick'.j # j /\ Ahead(row'[j].node, n)
      PROVE  Cardinality(Asked(j, n)') <= Spent("fault")'
  <2>1. \/ tick.j = j /\ Ahead(tick.ca.node, n)
        \/ \E b \in tick.batch : b.j = j /\ Ahead(b.ca.node, n)
        \/ row[j].status = "none"
        \/ row[j].status = "active" /\ tick.j # j /\ Ahead(row[j].node, n)
    BY <1>2
  <2>2. Cardinality(Asked(j, n)) <= Spent("fault")
    BY <2>1 DEF CountedMail
  <2> QED BY <1>1, <2>2
<1>3. \A j \in Journeys, n \in Nodes : Cardinality(Asked(j, n)') <= 1 + Spent("fault")'
  BY <1>1 DEF CountedMail
<1>4. \A node, n : Ahead(node, n)' <=> Ahead(node, n)
  BY DEF Ahead
<1> QED BY <1>2, <1>3 DEF CountedMail, Ahead

(* A journey in hand has been enrolled. *)
Begun ==
    /\ tick.pc \in HandPCs => tick.ca.status # "none"
    /\ \A j \in Journeys : InHand(j) => row[j].status # "none"

LEMMA NextBegins == Typed /\ Begun /\ [Next]_vars => Begun'
<1> SUFFICES ASSUME Typed, Begun, [Next]_vars PROVE Begun'
  OBVIOUS
<1>t. /\ row \in [Journeys -> Row] /\ "none" \notin Journeys
      /\ tick.pc \in HandPCs => tick.j \in Journeys
      /\ tick.ca \in Row /\ \A b \in tick.batch : b.ca.status = "active"
  BY JourneyAssumption DEF Typed, RestTyped, TickTyped, AutomationTypeOK, Scheduler, HandPCs
<1>1. ASSUME Aside PROVE Begun'
  <2>1. \A j \in Journeys : row[j].status # "none" => row'[j].status # "none"
    <3>1. FirstRow.status = "active"
      BY DEF FirstRow, NoJourney
    <3> QED BY <1>1, <3>1 DEF Aside
  <2> QED BY <1>1, <2>1 DEF Aside, Begun, InHand
<1>2. CASE Crash
  BY <1>2, <1>t DEF Crash, Idle, HandPCs, Begun, InHand
<1>3. ASSUME Walking, tick'.pc \in HandPCs PROVE tick'.ca.status # "none"
  <2>1. ASSUME NEW b \in tick.batch, TakenUp(b) PROVE tick'.ca.status # "none"
    BY <1>t, <2>1 DEF TakenUp
  <2>2. CASE CarriedOn
    <3>1. tick.ca.status # "none"
      BY <2>2 DEF CarriedOn, Begun
    <3>2. CASE NodeDeleted \/ NodeFails \/ PersistFails \/ HandleError
      BY <1>t, <3>1, <3>2, ExitedTyped, CarriesOn
    <3>3. CASE RunNode
      BY <1>t, <3>3, CarriesOn, WalkedNode
    <3>4. CASE Persist
      <4>1. tick'.ca = tick.ca
        <5>1. ~LetGo(tick.batch)
          BY <1>3 DEF LetGo, HandPCs
        <5> QED BY <3>4, <5>1, CarriesOn
      <4> QED BY <3>1, <4>1
    <3>5. ~(Fetch \/ Close \/ CloseFails \/ \E b \in tick.batch : Take(b) \/ TakeFails(b))
      BY <2>2, CarriesOn, TakesUp, Fetched DEF CarriedOn, LetGo, HandPCs
    <3> QED BY <1>3, <3>2, <3>3, <3>4, <3>5 DEF Walking, Tick
  <2>3. ~Fetch /\ \A S : ~LetGo(S)
    BY <1>3, Fetched DEF LetGo, HandPCs
  <2> QED BY <1>3, <2>1, <2>2, <2>3, WalkCases
<1>4. ASSUME Walking, NEW j \in Journeys, InHand(j)' PROVE row'[j].status # "none"
  <2>1. row[j].status # "none" => row'[j].status # "none"
    <3>1. CASE row' = row
      BY <3>1
    <3>2. CASE Persist \/ Close
      <4>1. tick.pc \in HandPCs
        BY <3>2 DEF Persist, Close, HandPCs
      <4> QED BY <1>4, <1>t, <4>1, WalkWrites DEF Begun
    <3> QED BY <1>4, <3>1, <3>2, WalkWrites
  <2>2. CASE Fetch
    <3>1. tick'.j = tick.j /\ \A b \in tick'.batch : row[b.j].status = "active"
      BY <2>2, Fetched DEF Due
    <3> QED BY <1>4, <2>1, <3>1 DEF Begun, InHand
  <2>3. CASE tick.pc = "ready" /\ \E b \in tick.batch : TakenUp(b) \/ LetGo(tick.batch \ {b})
    BY <1>4, <1>t, <2>1, <2>3 DEF TakenUp, LetGo, Begun, InHand
  <2>4. CASE CarriedOn
    BY <1>4, <2>1, <2>4 DEF CarriedOn, Begun, InHand
  <2>5. CASE LetGo(tick.batch)
    BY <1>4, <1>t, <2>1, <2>5 DEF LetGo, Begun, InHand
  <2> QED BY <1>4, <2>2, <2>3, <2>4, <2>5, WalkCases
<1> QED BY <1>1, <1>2, <1>3, <1>4, StepsAside DEF Begun

LEMMA NextCountsMail == Typed /\ Tended /\ Begun /\ CountedMail /\ [Next]_vars => CountedMail'
<1> SUFFICES ASSUME Typed, Tended, Begun, CountedMail, [Next]_vars PROVE CountedMail'
  OBVIOUS
<1>t. /\ row \in [Journeys -> Row] /\ Nodes \subseteq Nat \ {0} /\ NoNode = 0 /\ tick.ca \in Row
      /\ tick.pc \in HandPCs => tick.j \in Journeys
      /\ "none" \notin Journeys /\ \A b \in tick.batch : b.j \in Journeys
      /\ mail \in [Mails -> {"none", "queued", "sending", "sent", "skipped"}]
  BY AutomationAssumption, JourneyAssumption, PairTyped
     DEF Typed, RestTyped, TickTyped, AutomationTypeOK, Scheduler, HandPCs, NoNode
<1>1. ASSUME Aside PROVE CountedMail'
  <2>1. \A j, n : Asked(j, n)' = Asked(j, n)
    BY <1>1, NoMailQueued DEF Aside
  <2>2. CASE Spend("fault")
    BY <2>1, <2>2, FaultAllows
  <2>3. CASE left'["fault"] = left["fault"]
    <3>1. FirstRow.status = "active"
      BY DEF FirstRow, NoJourney
    <3>2. \A j \in Journeys :
            \/ row[j].status = "none"
            \/ /\ row'[j].status # "none"
               /\ row'[j].status = "active" => row[j].status = "active" /\ row'[j].node = row[j].node
      BY <1>1, <3>1 DEF Aside
    <3>3. UNCHANGED tick
      BY <1>1 DEF Aside
    <3> QED BY <2>1, <2>3, <3>2, <3>3, NothingAsked
  <2> QED BY <1>1, <2>2, <2>3 DEF Aside
<1>2. CASE Crash
  <2>1. \A m \in Mails : mail'[m] # "none" <=> mail[m] # "none"
    BY <1>2, <1>t DEF Crash
  <2> QED BY <1>2, <2>1, NoMailQueued, FaultAllows DEF Crash
<1>3. ASSUME Walking PROVE CountedMail'
  <2>u. ~RunNode => \A j, n : Asked(j, n)' = Asked(j, n)
    BY <1>3, WalkWrites, NoMailQueued
  <2>f. CASE Spend("fault")
    <3>1. ~RunNode
      <4>1. left["fault"] \in Nat /\ left'["fault"] = left["fault"] - 1
        BY <2>f, MishapNames DEF Typed, RestTyped, Spend
      <4>2. left'["fault"] # left["fault"]
        BY <4>1
      <4> QED BY <4>2 DEF RunNode
    <3> QED BY <2>f, <2>u, <3>1, FaultAllows
  <2>g. CASE ~Spend("fault") /\ ~RunNode
    <3>1. left'["fault"] = left["fault"] /\ \A j, n : Asked(j, n)' = Asked(j, n)
      BY <1>3, <2>g, <2>u, WalkWrites
    <3>2. ASSUME UNCHANGED row, tick'.batch \subseteq tick.batch,
                 \/ tick'.j = "none" /\ tick.pc \in {"idle", "ready"}
                 \/ tick'.j = tick.j /\ tick'.ca.node = tick.ca.node
                 \/ tick.pc = "ready" /\ \E b \in tick.batch : tick'.j = b.j /\ tick'.ca.node = b.ca.node
          PROVE  CountedMail'
      <4>1. tick.pc \in {"idle", "ready"} => \A j \in Journeys : tick.j # j
        BY <1>t DEF Tended
      <4> QED BY <1>t, <3>1, <3>2, <4>1, NothingAsked
    <3>3. CASE Fetch
      <4>1. /\ tick.pc = "idle" /\ tick'.j = tick.j /\ tick'.ca = tick.ca /\ UNCHANGED row
            /\ \A b \in tick'.batch : row[b.j].status = "active" /\ b.ca = row[b.j]
        BY <3>3, Fetched DEF Fetch, Due
      <4>2. \A j \in Journeys : tick.j # j
        BY <1>t, <4>1 DEF Tended
      <4> QED BY <3>1, <4>1, <4>2, NothingAsked
    <3>4. CASE tick.pc = "ready" /\ \E b \in tick.batch : TakenUp(b) \/ LetGo(tick.batch \ {b})
      <4>1. UNCHANGED row
        BY <1>3, <3>4, WalkWrites DEF Persist, Close
      <4> QED BY <3>2, <3>4, <4>1 DEF TakenUp, LetGo
    <3>5. CASE CarriedOn
      <4>1. CASE NodeDeleted \/ NodeFails \/ PersistFails \/ HandleError
        <5>1. tick'.ca.node = tick.ca.node /\ UNCHANGED row
          <6>1. Exited(tick.ca).node = tick.ca.node
            BY <1>t DEF Exited, Row
          <6> QED BY <4>1, <6>1, CarriesOn DEF NodeDeleted, NodeFails, PersistFails, HandleError
        <5> QED BY <3>2, <3>5, <5>1 DEF CarriedOn
      <4>2. CASE Persist
        <5>1. tick'.ca = tick.ca
          <6>1. tick'.pc \in HandPCs
            BY <3>5 DEF CarriedOn
          <6> QED BY <4>2, <6>1, CarriesOn DEF LetGo, HandPCs
        <5>2. \A j \in Journeys \ {tick.j} : row'[j] = row[j]
          BY <1>3, <1>t, WalkWrites
        <5>3. row'[tick.j].status # "none" \/ row'[tick.j] = row[tick.j]
          <6>1. CASE row' = row
            BY <6>1
          <6>2. CASE row[tick.j].status = "active" /\ row' = [row EXCEPT ![tick.j] = tick.ca]
            <7>1. tick.j \in Journeys /\ tick.pc = "persisting"
              BY <1>t, <4>2 DEF Persist, HandPCs
            <7>2. row'[tick.j] = tick.ca
              BY <1>t, <6>2, <7>1
            <7>3. tick'.pc = "node" /\ GoesOn
              <8>1. tick'.pc \in HandPCs
                BY <3>5 DEF CarriedOn
              <8> QED BY <4>2, <8>1, CarriesOn DEF LetGo, HandPCs
            <7> QED BY <7>2, <7>3 DEF GoesOn
          <6> QED BY <1>3, <6>1, <6>2, WalkWrites
        <5> QED BY <3>1, <3>5, <5>1, <5>2, <5>3, NothingAsked DEF CarriedOn
      <4>3. ~(Fetch \/ Close \/ CloseFails \/ \E b \in tick.batch : Take(b) \/ TakeFails(b))
        BY <3>5, CarriesOn, TakesUp, Fetched DEF CarriedOn, LetGo, HandPCs
      <4> QED BY <1>3, <2>g, <4>1, <4>2, <4>3 DEF Walking, Tick
    <3>6. CASE tick.pc \in HandPCs /\ LetGo(tick.batch)
      <4>1. \A j \in Journeys \ {tick.j} : row'[j] = row[j]
        BY <1>3, <1>t, WalkWrites
      <4>2. tick.j \in Journeys
        BY <1>t, <3>6
      <4>3. \/ row'[tick.j].status # "active" /\ row'[tick.j].status # "none"
            \/ row'[tick.j] = row[tick.j] /\ row[tick.j].status # "active"
            \/ row'[tick.j].status = "active" /\ row'[tick.j].node = tick.ca.node
        <5>1. Persist \/ Close
          <6>1. tick'.pc \notin HandPCs /\ ~CarriedOn /\ tick.pc \notin {"idle", "ready"}
            BY <3>6 DEF LetGo, HandPCs, CarriedOn
          <6>2. ~CloseFails
            BY <2>g DEF CloseFails
          <6> QED BY <1>3, <6>1, <6>2, CarriesOn, TakesUp, Fetched DEF Walking, Tick
        <5>2. UpdateIfActive(tick.j, tick.ca)
          BY <5>1 DEF Persist, Close
        <5>3. tick.ca.status # "none"
          BY <3>6 DEF Begun
        <5> QED BY <1>t, <4>2, <5>2, <5>3 DEF UpdateIfActive
      <4>4. tick'.j = "none" /\ tick'.batch = tick.batch
        BY <3>6 DEF LetGo
      <4> QED BY <1>t, <3>1, <4>1, <4>2, <4>3, <4>4, NothingAsked
    <3> QED BY <1>3, <3>3, <3>4, <3>5, <3>6, WalkCases
  (* A node queues its mail and is passed. *)
  <2>r. CASE RunNode /\ ~Spend("fault")
    <3>1. /\ CarriedOn /\ tick.pc = "node" /\ tick.ca.node \in Nodes
          /\ \E o \in Outcomes(tick.ca.node) : tick'.ca = Walked(tick.ca, o)
          /\ UNCHANGED mail \/ \E m \in Mails : /\ m.j = tick.j /\ m.n = tick.ca.node
                                                /\ mail' = [mail EXCEPT ![m] = "queued"]
          /\ left'["fault"] = left["fault"] /\ UNCHANGED row
      BY <2>r, CarriesOn DEF RunNode
    <3>2. tick.j \in Journeys /\ tick'.j = tick.j /\ tick'.batch = tick.batch
      BY <1>t, <3>1 DEF CarriedOn, HandPCs
    <3>3. \A n \in Nodes : Ahead(tick'.ca.node, n) => n # tick.ca.node /\ Ahead(tick.ca.node, n)
      <4>1. tick'.ca.node \in {tick.ca.node + 1, NoNode}
        <5>1. tick'.ca.node \in {After(tick.ca.node), NoNode}
          BY <1>t, <3>1, WalkedNode
        <5> QED BY <5>1 DEF After
      <4>2. (\A n \in Nodes : n \in Nat /\ n # 0) /\ tick.ca.node \in Nat /\ tick.ca.node # 0
        BY <1>t, <3>1
      <4>3. ASSUME NEW n \in Nodes, tick'.ca.node # NoNode, tick'.ca.node <= n
            PROVE  n # tick.ca.node /\ tick.ca.node <= n
        <5>1. tick'.ca.node = tick.ca.node + 1 /\ n \in Nat
          BY <4>1, <4>2, <4>3
        <5> QED BY <4>2, <4>3, <5>1
      <4> QED BY <1>t, <4>2, <4>3 DEF Ahead
    <3>4. Spent("fault") \in Nat
      BY FaultsSpent DEF Tended
    <3>f. Spent("fault")' = Spent("fault")
      BY <3>1 DEF Spent
    <3>5. \A j \in Journeys, n \in Nodes :
            /\ Cardinality(Asked(j, n)') \in Nat /\ Cardinality(Asked(j, n)) \in Nat
            /\ Cardinality(Asked(j, n)') <= Cardinality(Asked(j, n)) +
                   (IF j = tick.j /\ n = tick.ca.node THEN 1 ELSE 0)
      <4>1. CASE UNCHANGED mail
        <5>1. \A j, n : Asked(j, n)' = Asked(j, n)
          BY <4>1 DEF Asked
        <5> QED BY <5>1, AskedFinite
      <4>2. ASSUME NEW m \in Mails, m.j = tick.j, m.n = tick.ca.node,
                   mail' = [mail EXCEPT ![m] = "queued"]
            PROVE  \A j \in Journeys, n \in Nodes :
                     /\ Cardinality(Asked(j, n)') \in Nat /\ Cardinality(Asked(j, n)) \in Nat
                     /\ Cardinality(Asked(j, n)') <= Cardinality(Asked(j, n)) +
                            (IF j = tick.j /\ n = tick.ca.node THEN 1 ELSE 0)
        <5>1. \A j \in Journeys, n \in Nodes :
                Cardinality(Asked(j, n)') <= Cardinality(Asked(j, n)) +
                                             (IF m.j = j /\ m.n = n THEN 1 ELSE 0)
          BY <4>2, MailQueued
        <5>2. \A j \in Journeys, n \in Nodes :
                Cardinality(Asked(j, n)') \in Nat /\ Cardinality(Asked(j, n)) \in Nat
          BY AskedFinite
        <5> QED BY <4>2, <5>1, <5>2
      <4> QED BY <3>1, <4>1, <4>2
    <3>6. Ahead(tick.ca.node, tick.ca.node)
      <4>1. tick.ca.node \in Nat /\ tick.ca.node # 0
        BY <1>t, <3>1
      <4> QED BY <1>t, <4>1 DEF Ahead
    <3>7. ASSUME NEW j \in Journeys, NEW n \in Nodes, j # tick.j \/ n # tick.ca.node
          PROVE  Cardinality(Asked(j, n)') <= Cardinality(Asked(j, n))
      BY <3>5, <3>7
    <3>8. ASSUME NEW j \in Journeys, NEW n \in Nodes, j = tick.j, n = tick.ca.node
          PROVE  Cardinality(Asked(j, n)') <= 1 + Spent("fault")
      <4>1. Cardinality(Asked(j, n)) <= Spent("fault")
        BY <3>6, <3>8 DEF CountedMail
      <4>2. /\ Cardinality(Asked(j, n)') \in Nat /\ Cardinality(Asked(j, n)) \in Nat
            /\ Cardinality(Asked(j, n)') <= Cardinality(Asked(j, n)) + 1
        BY <3>5, <3>8
      <4> QED BY <3>4, <4>1, <4>2
    <3>9. ASSUME NEW j \in Journeys, NEW n \in Nodes
          PROVE  Cardinality(Asked(j, n)') <= 1 + Spent("fault")
      <4>1. ASSUME j = tick.j, n = tick.ca.node
            PROVE  Cardinality(Asked(j, n)') <= 1 + Spent("fault")
        BY <3>8, <4>1
      <4>2. ASSUME j # tick.j \/ n # tick.ca.node
            PROVE  Cardinality(Asked(j, n)') <= 1 + Spent("fault")
        <5>1. Cardinality(Asked(j, n)) <= 1 + Spent("fault")
          BY DEF CountedMail
        <5> QED BY <3>4, <3>5, <3>7, <4>2, <5>1
      <4> QED BY <4>1, <4>2
    (* What is before a journey afterwards was before it, and was not run. *)
    <3>10. ASSUME NEW j \in Journeys, NEW n \in Nodes,
                  \/ tick'.j = j /\ Ahead(tick'.ca.node, n)
                  \/ \E b \in tick'.batch : b.j = j /\ Ahead(b.ca.node, n)
                  \/ row'[j].status = "none"
                  \/ row'[j].status = "active" /\ tick'.j # j /\ Ahead(row'[j].node, n)
           PROVE  Cardinality(Asked(j, n)') <= Spent("fault")
      <4>1. j # tick.j \/ n # tick.ca.node
        <5>1. row[tick.j].status # "none" /\ \A b \in tick.batch : b.j # tick.j
          BY <3>2 DEF Tended, Begun, InHand
        <5> QED BY <3>1, <3>2, <3>3, <3>10, <5>1
      <4>2. Cardinality(Asked(j, n)) <= Spent("fault")
        BY <3>1, <3>2, <3>3, <3>10 DEF CountedMail
      <4> QED BY <3>4, <3>5, <3>7, <4>1, <4>2
    <3>11. \A node, n : Ahead(node, n)' <=> Ahead(node, n)
      BY DEF Ahead
    <3> QED BY <3>f, <3>9, <3>10 DEF CountedMail, Ahead
  <2> QED BY <1>3, <2>f, <2>g, <2>r
<1> QED BY <1>1, <1>2, <1>3, StepsAside

(* A node queues its mail for a journey once, and once more for every crash  *)
(* or failed statement that came between the mail and the write of the next  *)
(* node: whoever has the node still before it was taken back to it by a      *)
(* fault (Execute of automation_executor.go, EmailNodeExecutor).             *)
THEOREM MailedOnce == Spec => []MailOnce
<1>1. Init => CountedMail /\ Begun
  <2> SUFFICES ASSUME Init PROVE CountedMail /\ Begun
    OBVIOUS
  <2>1. Spent("fault") \in Nat
    BY FaultsSpent, TypedAtFirst, TendedAtFirst DEF Tended
  <2>2. \A j, n : Asked(j, n) = {}
    BY DEF Init, Asked
  <2>3. \A j, n : Cardinality(Asked(j, n)) = 0
    BY <2>2, FS_EmptySet
  <2>4. \A j \in Journeys : ~InHand(j)
    BY JourneyAssumption DEF Init, Idle, InHand
  <2>5. tick.pc \notin HandPCs
    BY DEF Init, Idle, HandPCs
  <2> QED BY <2>1, <2>3, <2>4, <2>5 DEF CountedMail, Begun
<1>2. CountedMail => MailOnce
  BY DEF CountedMail, MailOnce, Asked
<1>3. /\ Typed /\ Tended /\ Begun /\ CountedMail /\ [Next]_vars
      => (Typed /\ Tended /\ Begun /\ CountedMail)'
  BY NextTyped, NextTends, NextBegins, NextCountsMail
<1> QED BY TypedAtFirst, TendedAtFirst, <1>1, <1>2, <1>3, PTL DEF Spec
-----------------------------------------------------------------------------
(* One administrator at a time.                                              *)
OneAdmin == \A a, b \in Admins : a = b

(* What a request relies on between its statements, as nobody else writes    *)
(* the row and no fault struck.                                              *)
Relies(a) ==
    /\ At(a, "activating") =>
          auto.status # "live" /\ admin[a].status = auto.status /\ admin[a].edit = admin[a].config
    /\ At(a, "pausing") =>
          auto.status = "live" /\ trigger = auto.config /\ admin[a].config = auto.config
    /\ At(a, "updating") =>
          /\ admin[a].status = auto.status /\ admin[a].config = auto.config
          /\ auto.status = "live" => trigger = auto.config
    /\ At(a, "installing") => auto.config = admin[a].edit
    /\ admin[a].pc \in {"installing", "restoring"} /\ admin[a].status = "live"
          => trigger = admin[a].config
    /\ At(a, "dropping") => auto.status = "paused"

AtRest ==
    (\A a \in Admins : At(a, "idle")) /\ auto.status = "live" /\ ~auto.deleted
        => trigger = auto.config

Armed == Unfaulted => AtRest /\ \A a \in Admins : Relies(a)

(* A request begins with the row as it is.                                   *)
LEMMA RequestsArm ==
    ASSUME OneAdmin, Typed, AtRest, NEW a \in Admins, Requests(a)
    PROVE  AtRest' /\ Relies(a)'
<1>t. /\ admin \in [Admins -> Request] /\ admin[a] \in Request /\ \A b \in Admins : b = a
      /\ auto.status \in {"draft", "paused", "live"} /\ auto.config \in Configs
  BY DEF Typed, RestTyped, AutomationTypeOK, OneAdmin
<1>1. At(a, "idle") /\ UNCHANGED <<auto, trigger>>
  BY DEF Requests, BeginActivate, BeginPause, BeginUpdate, BeginDelete, Read
<1>2. ~auto.deleted /\ auto.status = "live" => trigger = auto.config
  BY <1>t, <1>1 DEF AtRest
<1>3. ASSUME NEW step \in Steps \ {"idle"}, NEW edit \in Configs, Read(a, step, edit)
      PROVE  /\ ~auto.deleted /\ admin'[a].pc = step /\ admin'[a].status = auto.status
             /\ admin'[a].config = auto.config /\ admin'[a].edit = edit
  BY <1>3, <1>t DEF Read
<1>4. CASE BeginActivate(a)
  <2>1. /\ auto.status # "live" /\ admin'[a].pc = "activating" /\ admin'[a].status = auto.status
        /\ admin'[a].config = auto.config /\ admin'[a].edit = auto.config
    BY <1>3, <1>4, <1>t DEF BeginActivate, Steps
  <2> QED BY <1>1, <2>1 DEF AtRest, Relies, At
<1>5. CASE BeginPause(a)
  <2>1. /\ ~auto.deleted /\ admin'[a].config = auto.config
        /\ \/ auto.status = "live" /\ admin'[a].pc = "pausing"
           \/ auto.status = "paused" /\ admin'[a].pc = "dropping"
    BY <1>3, <1>5, <1>t DEF BeginPause, Steps
  <2> QED BY <1>1, <1>2, <2>1 DEF AtRest, Relies, At
<1>6. CASE \E c \in Configs : BeginUpdate(a, c)
  <2>1. /\ ~auto.deleted /\ admin'[a].config = auto.config /\ admin'[a].status = auto.status
        /\ admin'[a].pc = "updating"
    BY <1>3, <1>6, <1>t DEF BeginUpdate, Steps
  <2> QED BY <1>1, <1>2, <2>1 DEF AtRest, Relies, At
<1>7. CASE BeginDelete(a)
  <2>1. admin'[a].pc = "deleting"
    BY <1>7, <1>t DEF BeginDelete, Goto, Request
  <2> QED BY <1>1, <2>1 DEF AtRest, Relies, At
<1> QED BY <1>4, <1>5, <1>6, <1>7 DEF Requests

(* Each statement leaves what the next relies on, or the trigger right.      *)
LEMMA HandlesArm ==
    ASSUME OneAdmin, Typed, NEW a \in Admins, Relies(a), Handles(a)
    PROVE  AtRest' /\ Relies(a)'
<1>t. /\ admin \in [Admins -> Request] /\ admin[a] \in Request /\ \A b \in Admins : b = a
      /\ auto \in [status : {"draft", "paused", "live"}, config : Configs, deleted : BOOLEAN]
  BY DEF Typed, RestTyped, AutomationTypeOK, OneAdmin
<1>g. ASSUME NEW step, Goto(a, step)
      PROVE  /\ admin'[a].pc = step /\ admin'[a].status = admin[a].status
             /\ admin'[a].config = admin[a].config /\ admin'[a].edit = admin[a].edit
  BY <1>g, <1>t DEF Goto, Request
<1>u. ASSUME NEW s, NEW c, NEW e, NEW step, UpdateIfStatus(a, s, c, e, step), auto.status = e
      PROVE  Goto(a, step) /\ auto'.status = s /\ auto'.config = c /\ UNCHANGED trigger
  BY <1>u, <1>t DEF UpdateIfStatus
<1>1. CASE WriteLive(a)
  <2>1. At(a, "activating") /\ auto.status # "live" /\ admin[a].status = auto.status
        /\ admin[a].edit = admin[a].config
    BY <1>1 DEF WriteLive, Relies
  <2>2. Goto(a, "installing") /\ auto'.config = admin[a].config
    BY <1>1, <1>u, <2>1 DEF WriteLive
  <2> QED BY <1>g, <2>1, <2>2 DEF AtRest, Relies, At
<1>2. CASE Install(a)
  <2>1. auto.config = admin[a].edit /\ trigger' = admin[a].edit /\ Goto(a, "idle") /\ UNCHANGED auto
    BY <1>2 DEF Install, Relies
  <2> QED BY <1>g, <2>1 DEF AtRest, Relies, At
<1>3. CASE InstallFails(a)
  <2>1. /\ At(a, "installing") /\ Goto(a, "restoring") /\ UNCHANGED <<auto, trigger>>
        /\ admin[a].status = "live" => trigger = admin[a].config
    BY <1>3 DEF InstallFails, Relies, At
  <2> QED BY <1>g, <2>1 DEF AtRest, Relies, At
<1>4. CASE Restore(a)
  <2>1. /\ At(a, "restoring") /\ Goto(a, "idle") /\ UNCHANGED trigger
        /\ auto'.status = admin[a].status /\ auto'.config = admin[a].config
        /\ admin[a].status = "live" => trigger = admin[a].config
    BY <1>4, <1>t DEF Restore, Relies, At
  <2> QED BY <1>g, <2>1 DEF AtRest, Relies, At
<1>5. CASE WritePaused(a)
  <2>1. At(a, "pausing") /\ auto.status = "live"
    BY <1>5 DEF WritePaused, Relies
  <2>2. Goto(a, "dropping") /\ auto'.status = "paused"
    BY <1>5, <1>u, <2>1 DEF WritePaused
  <2> QED BY <1>g, <2>2 DEF AtRest, Relies, At
<1>6. CASE DropTrigger(a)
  <2>1. auto.status = "paused" /\ Goto(a, "idle") /\ UNCHANGED auto
    BY <1>6 DEF DropTrigger, Relies
  <2> QED BY <1>g, <2>1 DEF AtRest, Relies, At
<1>7. CASE WriteEdit(a)
  <2>1. /\ admin[a].status = auto.status /\ admin[a].config = auto.config
        /\ auto.status = "live" => trigger = auto.config
    BY <1>7 DEF WriteEdit, Relies
  <2>2. /\ auto'.status = auto.status /\ auto'.config = admin[a].edit /\ UNCHANGED trigger
        /\ Goto(a, IF admin[a].status = "live" /\ admin[a].edit # admin[a].config
                     THEN "installing" ELSE "idle")
    BY <1>7, <1>u, <2>1 DEF WriteEdit
  <2>3. CASE admin[a].status = "live" /\ admin[a].edit # admin[a].config
    <3>1. Goto(a, "installing")
      BY <2>2, <2>3
    <3> QED BY <1>g, <2>1, <2>2, <3>1 DEF AtRest, Relies, At
  <2>4. CASE ~(admin[a].status = "live" /\ admin[a].edit # admin[a].config)
    <3>1. Goto(a, "idle")
      BY <2>2, <2>4
    <3> QED BY <1>g, <2>1, <2>2, <2>4, <3>1 DEF AtRest, Relies, At
  <2> QED BY <2>3, <2>4
<1>8. CASE DropIgnored(a) \/ ExitActive(a)
  <2>1. Goto(a, "exiting") \/ Goto(a, "removing")
    BY <1>8 DEF DropIgnored, ExitActive
  <2> QED BY <1>g, <2>1 DEF AtRest, Relies, At
<1>9. CASE Remove(a)
  <2>1. Goto(a, "idle") /\ auto'.deleted
    BY <1>9, <1>t DEF Remove
  <2> QED BY <1>g, <2>1 DEF AtRest, Relies, At
<1>10. CASE RequestFails(a)
  <2>1. /\ Goto(a, "idle") /\ UNCHANGED <<auto, trigger>>
        /\ auto.status = "live" => trigger = auto.config
    BY <1>10 DEF RequestFails, Relies, At
  <2> QED BY <1>g, <2>1 DEF AtRest, Relies, At
<1> QED BY <1>1, <1>2, <1>3, <1>4, <1>5, <1>6, <1>7, <1>8, <1>9, <1>10 DEF Handles

LEMMA NextArms ==
    ASSUME OneAdmin, Typed, Tended, Armed, [Next]_vars
    PROVE  Armed'
<1>n. [Next]_vars
  OBVIOUS
<1>f. /\ Spend("fault") => ~Unfaulted'
      /\ left'["fault"] = left["fault"] => (Unfaulted' <=> Unfaulted)
  BY FaultsSpent DEF Tended
<1>o. ASSUME NEW a \in Admins, NEW b \in Admins PROVE a = b
  BY <1>o DEF OneAdmin
<1>s. ASSUME Spend("fault") PROVE Armed'
  BY <1>f, <1>s DEF Armed
<1>k. ASSUME UNCHANGED <<auto, trigger, admin>>, left'["fault"] = left["fault"] \/ Spend("fault")
      PROVE  Armed'
  BY <1>f, <1>k DEF Armed, AtRest, Relies, At
<1>l. ASSUME NEW k \in {"request", "blind"}, Spend(k) PROVE left'["fault"] = left["fault"]
  BY <1>l, MishapNames DEF Spend, Typed, RestTyped
<1>1. ASSUME NEW a \in Admins, Requests(a), Spend("request") PROVE Armed'
  BY <1>1, <1>f, <1>l, <1>o, RequestsArm DEF Armed
<1>2. ASSUME NEW a \in Admins, Handles(a), UNCHANGED left PROVE Armed'
  BY <1>2, <1>f, <1>o, HandlesArm DEF Armed
<1>3. CASE Crash
  BY <1>3, <1>s DEF Crash
<1>4. CASE Walking
  <2>1. UNCHANGED <<auto, trigger, admin>>
    BY <1>4 DEF Walking, Tick, Fetch, Take, RunNode, NodeDeleted, NodeFails, Persist, HandleError,
                Close, TakeFails, PersistFails, CloseFails
  <2> QED BY <1>4, <1>k, <2>1, WalkWrites
<1>5. ASSUME NEW j \in Journeys, (Enroll(j) /\ UNCHANGED left) \/ FallsDue(j) PROVE Armed'
  BY <1>5, <1>k DEF Enroll, FallsDue
<1>6. ASSUME NEW m \in Mails, Deliver(m) \/ CheckFails(m) \/ Reply(m) PROVE Armed'
  <2>1. UNCHANGED <<auto, trigger, admin>> /\ (UNCHANGED left \/ Spend("blind"))
    BY <1>6 DEF Deliver, CheckJourney, Sent, CheckFails, Reply
  <2> QED BY <1>k, <1>l, <2>1
<1>7. CASE UNCHANGED vars
  BY <1>7, <1>k DEF vars
<1> QED BY <1>n, <1>s, <1>1, <1>2, <1>3, <1>4, <1>5, <1>6, <1>7 DEF Next, Walking

(* With one administrator at a time, a live automation whose requests are    *)
(* done has the trigger compiled from what its row stores, whatever failed   *)
(* once on the way: Activate and Update put the row back when the trigger    *)
(* cannot be installed (automation_service.go). Two administrators who       *)
(* activate and pause at once break it without any fault.                    *)
THEOREM LiveAreArmed ==
    ASSUME OneAdmin
    PROVE  Spec => []LiveIsArmed
<1>1. Init => Armed
  BY DEF Init, AutomationInit, Armed, AtRest, Relies, At
<1>2. Typed /\ Tended /\ Armed => LiveIsArmed
  BY FaultsSpent DEF Tended, Armed, AtRest, LiveIsArmed
<1>3. Typed /\ Tended /\ Armed /\ [Next]_vars => (Typed /\ Tended /\ Armed)'
  BY NextTyped, NextTends, NextArms
<1> QED BY TypedAtFirst, TendedAtFirst, <1>1, <1>2, <1>3, PTL DEF Spec
=============================================================================
