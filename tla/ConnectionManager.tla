-------------------------- MODULE ConnectionManager --------------------------
(* The pools of connections to the workspaces' databases                     *)
(* (pkg/database/connection_manager.go).                                     *)
(*                                                                           *)
(* Every section of the code under mu is a step; the creation of a pool is   *)
(* outside of it, and singleflight lets one caller per workspace at a time   *)
(* be its leader while the others wait for the leader's result.              *)
(* The system database's own pool is taken to have a constant size.          *)
EXTENDS Naturals, Sequences, FiniteSets

CONSTANTS
    Workspaces, Callers,
    PoolBound,          \* *sql.DB values told apart; a closed one is used again
    MaxConnections,     \* DB_MAX_CONNECTIONS
    PerDB,              \* DB_MAX_CONNECTIONS_PER_DB
    SystemOpen          \* connections of the system database

ASSUME LimitsAssumption == MaxConnections \in Nat /\ PerDB \in Nat \ {0}
                            /\ SystemOpen \in Nat /\ PoolBound \in Nat
ASSUME NamesAssumption == "none" \notin Workspaces \cup Callers
ASSUME FinitenessAssumption == IsFiniteSet(Callers) /\ IsFiniteSet(Workspaces)

Pools == 1 .. PoolBound
NoPool == 0

VARIABLES
    pools,      \* workspacePools
    recent,     \* poolAccessTimes: the workspaces that have one, oldest first
    inflight,   \* inflightPools
    flight,     \* createGroup: per workspace the leader of the creation under way
    db,         \* per pool: whether it is open, its connections, those in use
    pc, ws,     \* per caller: where it stands, the workspace it asked for
    got,        \* the pool it found, made, or was handed
    victim      \* the pool to be evicted for it, by workspace

registry == <<pools, recent>>
caller   == <<ws, got, victim>>
vars     == <<registry, inflight, flight, db, pc, caller>>

PCs == {"idle", "found", "missed", "waiting", "leading", "reserving", "evicting", "closing",
        "retrying", "creating", "inserting", "releasing", "returning", "holding", "using",
        "failed"}

(* A leader that has counted itself in inflightPools. *)
Reserved == {"creating", "inserting", "releasing"}

SQLDB == {d \in [open : BOOLEAN, conns : 0 .. PerDB, busy : 0 .. PerDB] : d.busy <= d.conns}
Closed == [open |-> FALSE, conns |-> 0, busy |-> 0]

TypeOK ==
    /\ pools \in [Workspaces -> Pools \cup {NoPool}]
    /\ recent \in Seq(Workspaces)
    /\ inflight \in Nat
    /\ flight \in [Workspaces -> Callers \cup {"none"}]
    /\ db \in [Pools -> SQLDB]
    /\ pc \in [Callers -> PCs]
    /\ ws \in [Callers -> Workspaces \cup {"none"}]
    /\ got \in [Callers -> Pools \cup {NoPool}]
    /\ victim \in [Callers -> Workspaces \cup {"none"}]
    /\ \A c \in Callers :
         /\ pc[c] # "idle" => ws[c] # "none"
         /\ pc[c] \in {"found", "inserting", "holding", "using"} => got[c] # NoPool
         /\ pc[c] = "closing" => victim[c] # "none"

Init ==
    /\ pools = [w \in Workspaces |-> NoPool]
    /\ recent = <<>>
    /\ inflight = 0
    /\ flight = [w \in Workspaces |-> "none"]
    /\ db = [p \in Pools |-> Closed]
    /\ pc = [c \in Callers |-> "idle"]
    /\ ws = [c \in Callers |-> "none"]
    /\ got = [c \in Callers |-> NoPool]
    /\ victim = [c \in Callers |-> "none"]

Goto(c, p) == pc' = [pc EXCEPT ![c] = p]

(* A workspace has one access time at most. *)
Forget(w, times) ==
    IF \E i \in DOMAIN times : times[i] = w
      THEN LET i == CHOOSE j \in DOMAIN times : times[j] = w
           IN  SubSeq(times, 1, i - 1) \o SubSeq(times, i + 1, Len(times))
      ELSE times

Touched(w) == Append(Forget(w, recent), w)

(* The *sql.DB closes: connections in use are closed as they come back. *)
Shut(p) == [db[p] EXCEPT !.open = FALSE, !.conns = db[p].busy]
-----------------------------------------------------------------------------
(* GetWorkspaceConnection: the fast path reads the map under the read lock...*)
Call(c, w) ==
    /\ pc[c] = "idle"
    /\ ws' = [ws EXCEPT ![c] = w]
    /\ got' = [got EXCEPT ![c] = pools[w]]
    /\ Goto(c, IF pools[w] = NoPool THEN "missed" ELSE "found")
    /\ UNCHANGED <<registry, inflight, flight, db, victim>>

(* ...and sets the access time under the write lock. *)
Touch(c) ==
    /\ pc[c] = "found"
    /\ recent' = Touched(ws[c])
    /\ Goto(c, "holding")
    /\ UNCHANGED <<pools, inflight, flight, db, caller>>

(* createGroup.Do. *)
Join(c) ==
    /\ pc[c] = "missed"
    /\ IF flight[ws[c]] = "none"
         THEN flight' = [flight EXCEPT ![ws[c]] = c] /\ Goto(c, "leading")
         ELSE UNCHANGED flight /\ Goto(c, "waiting")
    /\ UNCHANGED <<registry, inflight, db, caller>>

\* Plausible slip: who leads the creation does not look for the pool again.
LeadWithoutLooking(c) ==
    /\ pc[c] = "leading"
    /\ Goto(c, "reserving")
    /\ UNCHANGED <<registry, inflight, flight, db, caller>>

(* "Another caller may have finished creating it while we waited." *)
Lead(c) ==
    /\ pc[c] = "leading"
    /\ got' = [got EXCEPT ![c] = pools[ws[c]]]
    /\ Goto(c, IF pools[ws[c]] = NoPool THEN "reserving" ELSE "returning")
    /\ UNCHANGED <<registry, inflight, flight, db, ws, victim>>
-----------------------------------------------------------------------------
(* reserveCapacityForNewPool. *)
Open(w) == IF pools[w] = NoPool THEN 0 ELSE db[pools[w]].conns

(* The connections of each pool in the map, numbered from 1: a sum written   *)
(* as a cardinality.                                                         *)
OpenConnections == {x \in Workspaces \X (1 .. PerDB) : x[2] <= Open(x[1])}

TotalConnections == SystemOpen + Cardinality(OpenConnections)

\* Plausible slip: pools under creation are not counted.
HasCapacityForOne == TotalConnections + PerDB <= MaxConnections

HasCapacity == TotalConnections + (inflight + 1) * PerDB <= MaxConnections

Reserve(c) ==
    /\ pc[c] = "reserving"
    /\ IF HasCapacity THEN inflight' = inflight + 1 /\ Goto(c, "creating")
                      ELSE UNCHANGED inflight /\ Goto(c, "evicting")
    /\ UNCHANGED <<registry, flight, db, caller>>

Idle(w) == pools[w] # NoPool /\ db[pools[w]].busy = 0

(* identifyLRUCandidates(1): a pool without connections frees nothing. *)
Candidates == {w \in Workspaces : Idle(w) /\ db[pools[w]].conns > 0}

Older(v, w) == \E i, j \in DOMAIN recent : recent[i] = v /\ recent[j] = w /\ i < j

Identify(c) ==
    /\ pc[c] = "evicting"
    /\ IF Candidates = {} THEN UNCHANGED victim /\ Goto(c, "retrying")
       ELSE /\ \E w \in Candidates : /\ \A v \in Candidates : ~Older(v, w)
                                     /\ victim' = [victim EXCEPT ![c] = w]
            /\ Goto(c, "closing")
    /\ UNCHANGED <<registry, inflight, flight, db, ws, got>>

Unmap(w) ==
    /\ db' = [db EXCEPT ![pools[w]] = Shut(pools[w])]
    /\ pools' = [pools EXCEPT ![w] = NoPool]
    /\ recent' = Forget(w, recent)

\* Plausible slip: the candidate is taken at its word.
CloseIdentified(c) ==
    /\ pc[c] = "closing"
    /\ IF pools[victim[c]] # NoPool THEN Unmap(victim[c]) ELSE UNCHANGED <<registry, db>>
    /\ victim' = [victim EXCEPT ![c] = "none"]
    /\ Goto(c, "retrying")
    /\ UNCHANGED <<inflight, flight, ws, got>>

(* closeLRUIdlePools, which looks again: the pool may be in use by now, gone,*)
(* or another one.                                                           *)
CloseIdle(c) ==
    /\ pc[c] = "closing"
    /\ IF Idle(victim[c]) THEN Unmap(victim[c]) ELSE UNCHANGED <<registry, db>>
    /\ victim' = [victim EXCEPT ![c] = "none"]
    /\ Goto(c, "retrying")
    /\ UNCHANGED <<inflight, flight, ws, got>>

\* Plausible slip: evict until there is room.
ReserveSooner(c) ==
    /\ pc[c] = "retrying"
    /\ IF HasCapacity THEN inflight' = inflight + 1 /\ Goto(c, "creating")
                      ELSE UNCHANGED inflight /\ Goto(c, "evicting")
    /\ UNCHANGED <<registry, flight, db, caller>>

(* ConnectionLimitError, if room there is none. *)
ReserveAgain(c) ==
    /\ pc[c] = "retrying"
    /\ IF HasCapacity THEN inflight' = inflight + 1 /\ Goto(c, "creating")
                      ELSE UNCHANGED inflight /\ Goto(c, "returning")
    /\ UNCHANGED <<registry, flight, db, caller>>
-----------------------------------------------------------------------------
Free(p) ==
    /\ ~db[p].open /\ db[p].conns = 0
    /\ \A c \in Callers : got[c] # p

Unused(p) == Free(p) /\ \A q \in Pools : Free(q) => p <= q

(* createWorkspacePool: the verified pool has the connection of its ping. *)
Create(c, p) ==
    /\ pc[c] = "creating" /\ Unused(p)
    /\ db' = [db EXCEPT ![p] = [open |-> TRUE, conns |-> 1, busy |-> 0]]
    /\ got' = [got EXCEPT ![c] = p]
    /\ Goto(c, "inserting")
    /\ UNCHANGED <<registry, inflight, flight, ws, victim>>

\* Plausible slip: the error is dropped.
CreationErrorDropped(c) ==
    /\ pc[c] = "creating"
    /\ Goto(c, "inserting")
    /\ UNCHANGED <<registry, inflight, flight, db, caller>>

(* The server cannot be reached, or does not answer in time. *)
CreateFails(c) ==
    /\ pc[c] = "creating"
    /\ Goto(c, "releasing")
    /\ UNCHANGED <<registry, inflight, flight, db, caller>>

Insert(c) ==
    /\ pc[c] = "inserting"
    /\ pools' = [pools EXCEPT ![ws[c]] = got[c]]
    /\ recent' = Touched(ws[c])
    /\ Goto(c, "releasing")
    /\ UNCHANGED <<inflight, flight, db, caller>>

\* Plausible slip: the reservation is released only with a pool.
ReleaseIfMade(c) ==
    /\ pc[c] = "releasing"
    /\ inflight' = IF inflight > 0 /\ got[c] # NoPool THEN inflight - 1 ELSE inflight
    /\ Goto(c, "returning")
    /\ UNCHANGED <<registry, flight, db, caller>>

(* releasePoolReservation, deferred. *)
ReleaseReservation(c) ==
    /\ pc[c] = "releasing"
    /\ inflight' = IF inflight > 0 THEN inflight - 1 ELSE inflight
    /\ Goto(c, "returning")
    /\ UNCHANGED <<registry, flight, db, caller>>

(* The leader returns: whoever waits for it is handed its pool, or error. *)
Return(c) ==
    LET served == {k \in Callers : k = c \/ (pc[k] = "waiting" /\ ws[k] = ws[c])}
    IN  /\ pc[c] = "returning"
        /\ flight' = [flight EXCEPT ![ws[c]] = "none"]
        /\ got' = [k \in Callers |-> IF k \in served THEN got[c] ELSE got[k]]
        /\ pc' = [k \in Callers |-> IF k \notin served THEN pc[k]
                                    ELSE IF got[c] = NoPool THEN "failed" ELSE "holding"]
        /\ UNCHANGED <<registry, inflight, db, ws, victim>>
-----------------------------------------------------------------------------
(* A caller uses the pool it holds: database/sql opens a connection if none  *)
(* is idle, up to SetMaxOpenConns, and keeps one idle (SetMaxIdleConns).     *)
Query(c) ==
    LET d == db[got[c]]
    IN  /\ pc[c] = "holding" /\ d.open
        /\ d.busy < PerDB
        /\ db' = [db EXCEPT ![got[c]] =
                    [d EXCEPT !.busy = @ + 1, !.conns = IF d.busy = d.conns THEN @ + 1 ELSE @]]
        /\ Goto(c, "using")
        /\ UNCHANGED <<registry, inflight, flight, caller>>

Done(c) ==
    LET d == db[got[c]]
    IN  /\ pc[c] = "using"
        /\ db' = [db EXCEPT ![got[c]] =
                    [d EXCEPT !.busy = @ - 1,
                              !.conns = IF d.open /\ d.conns = d.busy THEN @ ELSE @ - 1]]
        /\ Goto(c, "holding")
        /\ UNCHANGED <<registry, inflight, flight, caller>>

(* It is done with it, finds it closed ("sql: database is closed"), or gives *)
(* the error on.                                                             *)
Leave(c) ==
    /\ pc[c] \in {"holding", "failed"}
    /\ Goto(c, "idle")
    /\ ws' = [ws EXCEPT ![c] = "none"]
    /\ got' = [got EXCEPT ![c] = NoPool]
    /\ UNCHANGED <<registry, inflight, flight, db, victim>>

(* SetConnMaxIdleTime. *)
IdleConnectionCloses(p) ==
    /\ db[p].open /\ db[p].conns > db[p].busy
    /\ \A c \in Callers : pc[c] = "inserting" => got[c] # p
    /\ db' = [db EXCEPT ![p].conns = @ - 1]
    /\ UNCHANGED <<registry, inflight, flight, pc, caller>>

(* The workspace is deleted; Close does this for all of them. *)
CloseWorkspaceConnection(w) ==
    /\ pools[w] # NoPool
    /\ Unmap(w)
    /\ UNCHANGED <<inflight, flight, pc, caller>>
-----------------------------------------------------------------------------
Progress(c) ==
    \/ Touch(c) \/ Join(c) \/ Lead(c)
    \/ Reserve(c) \/ Identify(c) \/ CloseIdle(c) \/ ReserveAgain(c)
    \/ (\E p \in Pools : Create(c, p)) \/ CreateFails(c) \/ Insert(c)
    \/ ReleaseReservation(c) \/ Return(c)

Next ==
    \/ \E c \in Callers :
         \/ \E w \in Workspaces : Call(c, w)
         \/ Progress(c) \/ Query(c) \/ Done(c) \/ Leave(c)
    \/ \E p \in Pools : IdleConnectionCloses(p)
    \/ \E w \in Workspaces : CloseWorkspaceConnection(w)

Spec == Init /\ [][Next]_vars

(* Goroutines run, and a creation ends within workspacePoolCreateTimeout.    *)
(* Nobody has to let go of a pool.                                           *)
FairSpec == Spec /\ \A c \in Callers : WF_vars(Progress(c))
-----------------------------------------------------------------------------
(* No connection leaks: an open pool is in the map, or about to be put there *)
(* by its creator, and the map never has a closed one; whatever is evicted,  *)
(* closed and created meanwhile, and whoever leads the creation.             *)
NoPoolLeaks ==
    \A p \in Pools :
        db[p].open <=> \/ \E w \in Workspaces : pools[w] = p
                       \/ \E c \in Callers : pc[c] = "inserting" /\ got[c] = p

(* inflightPools is the number of creations under way: none is left behind   *)
(* by one that failed, none is released twice.                               *)
ReservationsMatch == inflight = Cardinality({c \in Callers : pc[c] \in Reserved})

(* Connections the manager has committed itself to: the open ones, and a     *)
(* full pool for every creation under way.                                   *)
Committed ==
    TotalConnections
      + PerDB * Cardinality({c \in Callers : pc[c] \in {"creating", "inserting"}})

(* "Concurrent creations of distinct workspaces cannot collectively exceed   *)
(* maxConnections": only a query that opens a connection in a pool long made *)
(* may take the commitments past the limit.                                  *)
CreationsWithinLimit ==
    [][Committed' > Committed /\ Committed' > MaxConnections
         => \E c \in Callers : pc[c] = "holding" /\ pc'[c] = "using"]_vars

(* An eviction closes no pool with a connection in use, although its         *)
(* candidate was chosen under another lock.                                  *)
EvictionSparesUse ==
    [][\A c \in Callers : pc[c] = "closing" /\ pc'[c] = "retrying"
         => \A p \in Pools : db[p].open /\ db[p].busy > 0 => db'[p].open]_vars

(* Whoever asks is answered, with a pool or an error, however many wait for  *)
(* one creation and though nobody gives up a pool.                           *)
EveryCallReturns ==
    \A c \in Callers : pc[c] = "missed" ~> pc[c] \in {"holding", "failed"}
=============================================================================
