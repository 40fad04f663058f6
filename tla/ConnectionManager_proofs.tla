----------------------- MODULE ConnectionManager_proofs -----------------------
(* What holds of the pools for every number of callers, workspaces and pools *)
(* and every limit: no pool leaks, the reservations are counted exactly, an  *)
(* eviction spares the pools in use, and creations stay within the limit.    *)
EXTENDS ConnectionManager, FiniteSetTheorems, SequenceTheorems, TLAPS

(* What the proofs need of the types; the order of the accesses and the      *)
(* number of connections do not matter for them.                             *)
Typed ==
    /\ pools \in [Workspaces -> Pools \cup {NoPool}]
    /\ flight \in [Workspaces -> Callers \cup {"none"}]
    /\ db \in [Pools -> [open : BOOLEAN, conns : Int, busy : Int]]
    /\ pc \in [Callers -> PCs]
    /\ ws \in [Callers -> Workspaces \cup {"none"}]
    /\ got \in [Callers -> Pools \cup {NoPool}]
    /\ victim \in [Callers -> Workspaces \cup {"none"}]
    /\ \A c \in Callers :
         /\ pc[c] # "idle" => ws[c] \in Workspaces
         /\ pc[c] \in {"found", "inserting", "holding", "using"} => got[c] \in Pools
         /\ pc[c] = "closing" => victim[c] \in Workspaces

(* A leader, and a leader that has found that there is no pool.              *)
Making  == {"reserving", "evicting", "closing", "retrying", "creating", "inserting"}
Leading == Making \cup {"leading", "releasing", "returning"}

Led == \A c \in Callers : pc[c] \in Leading => flight[ws[c]] = c

NothingToReplace == \A c \in Callers : pc[c] \in Making => pools[ws[c]] = NoPool

OnePoolEach == \A v, w \in Workspaces : v # w /\ pools[v] # NoPool => pools[v] # pools[w]

FreshPools ==
    \A c \in Callers : pc[c] = "inserting"
        => /\ \A w \in Workspaces : pools[w] # got[c]
           /\ \A k \in Callers : k # c /\ pc[k] = "inserting" => got[k] # got[c]

Inv == Typed /\ Led /\ NothingToReplace /\ OnePoolEach /\ FreshPools /\ NoPoolLeaks

LEMMA PoolNames == NoPool \notin Pools /\ Pools \subseteq Int
BY DEF NoPool, Pools

LEMMA InvAtFirst == Init => Inv
BY PoolNames, NamesAssumption
   DEF Init, Inv, Typed, PCs, Led, Leading, Making, NothingToReplace, OnePoolEach, FreshPools,
       NoPoolLeaks, Closed

(* Steps that move one caller on and leave the pools as they are.            *)
LEMMA MovesOn ==
    ASSUME Inv, Typed', NEW c \in Callers, NEW p \in PCs, p # "inserting",
           pc' = [pc EXCEPT ![c] = p], UNCHANGED <<pools, flight>>,
           p \in Leading => pc[c] \in Leading,
           p \in Making => pools[ws[c]] = NoPool, pc[c] # "inserting",
           \A k \in Callers : k # c \/ p \in Leading => ws'[k] = ws[k],
           \A k \in Callers : k # c => got'[k] = got[k],
           \A q \in Pools : db'[q].open = db[q].open
    PROVE  Inv'
<1>1. \A k \in Callers : pc'[k] = IF k = c THEN p ELSE pc[k]
  BY DEF Inv, Typed
<1>2. Led'
  BY <1>1 DEF Inv, Led
<1>3. NothingToReplace'
  BY <1>1 DEF Inv, NothingToReplace, Making, Leading
<1>4. OnePoolEach'
  BY DEF Inv, OnePoolEach
<1>5. FreshPools'
  BY <1>1 DEF Inv, FreshPools
<1>6. NoPoolLeaks'
  BY <1>1 DEF Inv, NoPoolLeaks
<1> QED BY <1>2, <1>3, <1>4, <1>5, <1>6 DEF Inv

(* A connection is lent, and comes back. *)
LEMMA Lending ==
    ASSUME NEW d \in [open : BOOLEAN, conns : Int, busy : Int]
    PROVE  /\ [d EXCEPT !.busy = @ + 1, !.conns = IF d.busy = d.conns THEN @ + 1 ELSE @]
                 \in [open : BOOLEAN, conns : Int, busy : Int]
           /\ [d EXCEPT !.busy = @ - 1, !.conns = IF d.open /\ d.conns = d.busy THEN @ ELSE @ - 1]
                 \in [open : BOOLEAN, conns : Int, busy : Int]
<1>1. \A b, n \in Int : [d EXCEPT !.busy = b, !.conns = n] \in [open : BOOLEAN, conns : Int, busy : Int]
  OBVIOUS
<1>2. /\ d.busy + 1 \in Int /\ (IF d.busy = d.conns THEN d.conns + 1 ELSE d.conns) \in Int
      /\ d.busy - 1 \in Int
      /\ (IF d.open /\ d.conns = d.busy THEN d.conns ELSE d.conns - 1) \in Int
  OBVIOUS
<1> QED BY <1>1, <1>2

LEMMA NextTyped ==
    ASSUME Typed, [Next]_vars
    PROVE  Typed'
<1> USE PoolNames
<1>d. \A p \in Pools : db[p] \in [open : BOOLEAN, conns : Int, busy : Int]
  BY DEF Typed
<1>s. \A p \in Pools : Shut(p) \in [open : BOOLEAN, conns : Int, busy : Int]
  BY <1>d DEF Shut
<1>u. ASSUME NEW w \in Workspaces, pools[w] # NoPool, Unmap(w)
      PROVE  /\ pools' \in [Workspaces -> Pools \cup {NoPool}]
             /\ db' \in [Pools -> [open : BOOLEAN, conns : Int, busy : Int]]
  BY <1>u, <1>s DEF Unmap, Typed
(* The steps of one caller that change only where it stands. *)
<1>g. ASSUME NEW c \in Callers, NEW p \in PCs, pc' = [pc EXCEPT ![c] = p],
             UNCHANGED <<ws, got, victim>>, pc[c] # "idle",
             p \in {"found", "inserting", "holding", "using"} => got[c] \in Pools,
             p = "closing" => victim[c] \in Workspaces
      PROVE  /\ pc' \in [Callers -> PCs]
             /\ \A k \in Callers :
                  /\ pc'[k] # "idle" => ws'[k] \in Workspaces
                  /\ pc'[k] \in {"found", "inserting", "holding", "using"} => got'[k] \in Pools
                  /\ pc'[k] = "closing" => victim'[k] \in Workspaces
  BY <1>g DEF Typed
<1>1. CASE UNCHANGED vars
  BY <1>1 DEF vars, registry, caller, Typed
<1>2. ASSUME NEW c \in Callers, NEW w \in Workspaces, Call(c, w) PROVE Typed'
  BY <1>2 DEF Call, Goto, registry, Typed, PCs
<1>3. ASSUME NEW c \in Callers, Touch(c) PROVE Typed'
  BY <1>3 DEF Touch, Goto, caller, Typed, PCs
<1>4. ASSUME NEW c \in Callers, Join(c) PROVE Typed'
  BY <1>4 DEF Join, Goto, registry, caller, Typed, PCs
<1>5. ASSUME NEW c \in Callers, Lead(c) PROVE Typed'
  BY <1>5 DEF Lead, Goto, registry, Typed, PCs
<1>6. ASSUME NEW c \in Callers, Reserve(c) \/ ReserveAgain(c) PROVE Typed'
  BY <1>6 DEF Reserve, ReserveAgain, Goto, registry, caller, Typed, PCs
<1>7. ASSUME NEW c \in Callers, Identify(c) PROVE Typed'
  BY <1>7 DEF Identify, Candidates, Goto, registry, Typed, PCs
<1>8. ASSUME NEW c \in Callers, CloseIdle(c) PROVE Typed'
  <2>1. victim[c] \in Workspaces
    BY <1>8 DEF CloseIdle, Typed
  <2>2. /\ pools' \in [Workspaces -> Pools \cup {NoPool}]
        /\ db' \in [Pools -> [open : BOOLEAN, conns : Int, busy : Int]]
    BY <1>8, <1>u, <2>1 DEF CloseIdle, Idle, registry, Typed
  <2> QED BY <1>8, <2>2 DEF CloseIdle, Goto, Typed, PCs
<1>9. ASSUME NEW c \in Callers, NEW p \in Pools, Create(c, p) PROVE Typed'
  BY <1>9 DEF Create, Goto, registry, Typed, PCs
<1>10. ASSUME NEW c \in Callers, CreateFails(c) \/ ReleaseReservation(c) PROVE Typed'
  BY <1>10 DEF CreateFails, ReleaseReservation, Goto, registry, caller, Typed, PCs
<1>11. ASSUME NEW c \in Callers, Insert(c) PROVE Typed'
  BY <1>11 DEF Insert, Goto, caller, Typed, PCs
<1>12. ASSUME NEW c \in Callers, Return(c) PROVE Typed'
  BY <1>12 DEF Return, registry, Typed, PCs
<1>13. ASSUME NEW c \in Callers, Query(c) \/ Done(c) PROVE Typed'
  <2>1. got[c] \in Pools /\ db[got[c]] \in [open : BOOLEAN, conns : Int, busy : Int]
    BY <1>13, <1>d DEF Query, Done, Typed
  <2>2. db' \in [Pools -> [open : BOOLEAN, conns : Int, busy : Int]]
    <3> DEFINE d == db[got[c]]
    <3> DEFINE lent == [d EXCEPT !.busy = @ + 1, !.conns = IF d.busy = d.conns THEN @ + 1 ELSE @]
    <3> DEFINE back == [d EXCEPT !.busy = @ - 1,
                                 !.conns = IF d.open /\ d.conns = d.busy THEN @ ELSE @ - 1]
    <3>1. /\ lent \in [open : BOOLEAN, conns : Int, busy : Int]
          /\ back \in [open : BOOLEAN, conns : Int, busy : Int]
      BY <2>1, Lending
    <3>2. \E r \in {lent, back} : db' = [db EXCEPT ![got[c]] = r]
      BY <1>13 DEF Query, Done
    <3>3. PICK r \in [open : BOOLEAN, conns : Int, busy : Int] :
            db' = [db EXCEPT ![got[c]] = r]
      BY <3>1, <3>2
    <3> HIDE DEF d, lent, back
    <3> QED BY <3>3 DEF Typed
  <2> QED BY <1>13, <2>1, <2>2 DEF Query, Done, Goto, registry, caller, Typed, PCs
<1>14. ASSUME NEW c \in Callers, Leave(c) PROVE Typed'
  BY <1>14 DEF Leave, Goto, registry, Typed, PCs
<1>15. ASSUME NEW p \in Pools, IdleConnectionCloses(p) PROVE Typed'
  <2>1. db' \in [Pools -> [open : BOOLEAN, conns : Int, busy : Int]]
    BY <1>15, <1>d DEF IdleConnectionCloses, Typed
  <2> QED BY <1>15, <2>1 DEF IdleConnectionCloses, registry, caller, Typed
<1>16. ASSUME NEW w \in Workspaces, CloseWorkspaceConnection(w) PROVE Typed'
  BY <1>16, <1>u DEF CloseWorkspaceConnection, caller, Typed
<1> QED
  BY <1>1, <1>2, <1>3, <1>4, <1>5, <1>6, <1>7, <1>8, <1>9, <1>10, <1>11, <1>12, <1>13, <1>14,
     <1>15, <1>16 DEF Next, Progress

(* Closing a pool and forgetting it, by the workspace's deletion or for      *)
(* another one's sake.                                                       *)
LEMMA ClosingKeeps ==
    ASSUME Inv, Typed', NEW w \in Workspaces, pools[w] # NoPool, Unmap(w),
           UNCHANGED <<flight, ws, got>>,
           \A c \in Callers : pc'[c] = pc[c] \/ (pc[c] = "closing" /\ pc'[c] = "retrying")
    PROVE  Inv'
<1>1. /\ pools[w] \in Pools
      /\ \A v \in Workspaces : pools'[v] = IF v = w THEN NoPool ELSE pools[v]
      /\ \A p \in Pools : db'[p].open <=> db[p].open /\ p # pools[w]
  BY DEF Unmap, Shut, Inv, Typed
<1>2. Led'
  BY DEF Inv, Led, Leading, Making
<1>3. NothingToReplace'
  BY <1>1 DEF Inv, NothingToReplace, Making, Typed
<1>4. OnePoolEach'
  BY <1>1 DEF Inv, OnePoolEach
<1>5. FreshPools'
  BY <1>1, PoolNames DEF Inv, FreshPools, Typed
<1>6. NoPoolLeaks'
  BY <1>1, PoolNames DEF Inv, OnePoolEach, FreshPools, NoPoolLeaks
<1> QED BY <1>2, <1>3, <1>4, <1>5, <1>6 DEF Inv

LEMMA NextKeeps ==
    ASSUME Inv, [Next]_vars
    PROVE  Inv'
<1>t. Typed'
  BY NextTyped DEF Inv
<1> USE PoolNames
<1>1. CASE UNCHANGED vars
  <2>1. UNCHANGED <<pools, flight, db, pc, ws, got>>
    BY <1>1 DEF vars, registry, caller
  <2> QED BY <1>t, <2>1 DEF Inv, Led, NothingToReplace, OnePoolEach, FreshPools, NoPoolLeaks
<1>2. ASSUME NEW c \in Callers, NEW w \in Workspaces, Call(c, w) PROVE Inv'
  <2> DEFINE p == IF pools[w] = NoPool THEN "missed" ELSE "found"
  <2>1. /\ pc[c] = "idle" /\ pc' = [pc EXCEPT ![c] = p] /\ UNCHANGED <<pools, flight, db>>
        /\ ws' = [ws EXCEPT ![c] = w] /\ got' = [got EXCEPT ![c] = pools[w]]
    BY <1>2 DEF Call, Goto, registry
  <2>2. p \in PCs \ (Leading \cup {"inserting"})
    BY DEF PCs, Leading, Making
  <2>3. \A k \in Callers : k # c => ws'[k] = ws[k] /\ got'[k] = got[k]
    BY <2>1 DEF Inv, Typed
  <2>4. \A k \in Callers : pc'[k] = IF k = c THEN p ELSE pc[k]
    BY <2>1 DEF Inv, Typed
  <2> HIDE DEF p
  <2>5. Led' /\ NothingToReplace'
    BY <2>1, <2>2, <2>3, <2>4 DEF Inv, Led, NothingToReplace, Leading
  <2>6. OnePoolEach'
    BY <2>1 DEF Inv, OnePoolEach
  <2>7. FreshPools' /\ NoPoolLeaks'
    BY <2>1, <2>2, <2>3, <2>4 DEF Inv, FreshPools, NoPoolLeaks
  <2> QED BY <1>t, <2>5, <2>6, <2>7 DEF Inv
<1>3. ASSUME NEW c \in Callers, Touch(c) PROVE Inv'
  BY <1>3, <1>t, MovesOn DEF Touch, Goto, caller, PCs, Leading, Making
<1>4. ASSUME NEW c \in Callers, Join(c) PROVE Inv'
  <2>1. CASE flight[ws[c]] = "none"
    <3>1. /\ pc[c] = "missed" /\ flight' = [flight EXCEPT ![ws[c]] = c]
          /\ pc' = [pc EXCEPT ![c] = "leading"] /\ UNCHANGED <<pools, db, ws, got>>
      BY <1>4, <2>1 DEF Join, Goto, registry, caller
    <3>2. ws[c] \in Workspaces /\ c # "none"
      BY <3>1, NamesAssumption DEF Inv, Typed
    <3>3. \A k \in Callers : k # c /\ pc[k] \in Leading => ws[k] # ws[c]
      BY <2>1, NamesAssumption DEF Inv, Led
    <3>4. Led'
      BY <3>1, <3>2, <3>3 DEF Inv, Typed, Led
    <3>5. NothingToReplace' /\ OnePoolEach' /\ FreshPools' /\ NoPoolLeaks'
      BY <3>1 DEF Inv, Typed, NothingToReplace, Making, OnePoolEach, FreshPools, NoPoolLeaks
    <3> QED BY <1>t, <3>4, <3>5 DEF Inv
  <2>2. CASE flight[ws[c]] # "none"
    BY <1>4, <1>t, <2>2, MovesOn DEF Join, Goto, registry, caller, PCs, Leading, Making
  <2> QED BY <2>1, <2>2
<1>5. ASSUME NEW c \in Callers, Lead(c) PROVE Inv'
  <2> DEFINE p == IF pools[ws[c]] = NoPool THEN "reserving" ELSE "returning"
  <2>1. /\ pc[c] = "leading" /\ pc' = [pc EXCEPT ![c] = p] /\ UNCHANGED <<pools, flight, db, ws>>
        /\ got' = [got EXCEPT ![c] = pools[ws[c]]]
    BY <1>5 DEF Lead, Goto, registry
  <2>2. p \in PCs \ {"inserting"} /\ pc[c] \in Leading
        /\ (p \in Making => pools[ws[c]] = NoPool)
    BY <2>1 DEF PCs, Leading, Making
  <2>3. \A k \in Callers : k # c => got'[k] = got[k]
    BY <2>1 DEF Inv, Typed
  <2> HIDE DEF p
  <2> QED BY <1>t, <2>1, <2>2, <2>3, MovesOn
(* A leader goes on, before it has a pool or after it has inserted it. *)
<1>g. ASSUME NEW c \in Callers, NEW p \in PCs, p # "inserting",
             pc' = [pc EXCEPT ![c] = p], UNCHANGED <<pools, flight, db, ws, got>>,
             \/ pc[c] \in Making \ {"inserting"}
             \/ p \notin Making /\ pc[c] = "releasing"
             \/ p \notin Leading /\ pc[c] # "inserting"
      PROVE  Inv'
  <2>1. p \in Leading => pc[c] \in Leading
    BY <1>g DEF Leading, Making
  <2>2. p \in Making => pools[ws[c]] = NoPool
    BY <1>g DEF Inv, NothingToReplace, Leading
  <2>3. pc[c] # "inserting"
    BY <1>g DEF Making
  <2> QED BY <1>g, <1>t, <2>1, <2>2, <2>3, MovesOn
<1>6. ASSUME NEW c \in Callers, Reserve(c) \/ ReserveAgain(c) PROVE Inv'
  BY <1>6, <1>g DEF Reserve, ReserveAgain, Goto, registry, caller, Making, PCs
<1>7. ASSUME NEW c \in Callers, Identify(c) PROVE Inv'
  BY <1>7, <1>g DEF Identify, Goto, registry, Making, PCs
<1>8. ASSUME NEW c \in Callers, CloseIdle(c) PROVE Inv'
  <2>1. CASE Idle(victim[c])
    <3>1. victim[c] \in Workspaces /\ pools[victim[c]] # NoPool /\ Unmap(victim[c])
      BY <1>8, <2>1 DEF CloseIdle, Idle, Inv, Typed
    <3>2. \A k \in Callers : pc'[k] = pc[k] \/ (pc[k] = "closing" /\ pc'[k] = "retrying")
      BY <1>8 DEF CloseIdle, Goto, Inv, Typed
    <3> QED BY <1>8, <1>t, <3>1, <3>2, ClosingKeeps DEF CloseIdle
  <2>2. CASE ~Idle(victim[c])
    BY <1>8, <1>g, <2>2 DEF CloseIdle, Goto, registry, Making, PCs
  <2> QED BY <2>1, <2>2
<1>9. ASSUME NEW c \in Callers, NEW p \in Pools, Create(c, p) PROVE Inv'
  <2>1. /\ pc[c] = "creating" /\ ~db[p].open /\ pc' = [pc EXCEPT ![c] = "inserting"]
        /\ UNCHANGED <<pools, flight, ws>> /\ got' = [got EXCEPT ![c] = p]
        /\ db' = [db EXCEPT ![p] = [open |-> TRUE, conns |-> 1, busy |-> 0]]
    BY <1>9 DEF Create, Unused, Free, Goto, registry
  <2>2. (\A w \in Workspaces : pools[w] # p)
        /\ (\A k \in Callers : pc[k] = "inserting" => got[k] # p)
    BY <2>1 DEF Inv, NoPoolLeaks
  <2>3. Led' /\ NothingToReplace' /\ OnePoolEach'
    BY <2>1 DEF Inv, Typed, Led, Leading, Making, NothingToReplace, OnePoolEach
  <2>4. FreshPools'
    BY <2>1, <2>2 DEF Inv, Typed, FreshPools
  <2>5. NoPoolLeaks'
    <3> SUFFICES ASSUME NEW q \in Pools
                 PROVE  db'[q].open <=> \/ \E w \in Workspaces : pools'[w] = q
                                        \/ \E k \in Callers : pc'[k] = "inserting" /\ got'[k] = q
      BY DEF NoPoolLeaks
    <3>1. CASE q = p
      BY <2>1, <3>1 DEF Inv, Typed
    <3>2. CASE q # p
      <4>1. db'[q] = db[q]
        BY <2>1, <3>2 DEF Inv, Typed
      <4>2. \A k \in Callers : pc'[k] = "inserting" /\ got'[k] = q <=> pc[k] = "inserting" /\ got[k] = q
        BY <2>1, <3>2 DEF Inv, Typed
      <4> QED BY <2>1, <4>1, <4>2 DEF Inv, NoPoolLeaks
    <3> QED BY <3>1, <3>2
  <2> QED BY <1>t, <2>3, <2>4, <2>5 DEF Inv
<1>10. ASSUME NEW c \in Callers, CreateFails(c) \/ ReleaseReservation(c) PROVE Inv'
  BY <1>10, <1>g DEF CreateFails, ReleaseReservation, Goto, registry, caller, Making, PCs
<1>11. ASSUME NEW c \in Callers, Insert(c) PROVE Inv'
  <2>1. /\ pc[c] = "inserting" /\ pools' = [pools EXCEPT ![ws[c]] = got[c]]
        /\ pc' = [pc EXCEPT ![c] = "releasing"] /\ UNCHANGED <<flight, db, ws, got>>
    BY <1>11 DEF Insert, Goto, caller
  <2>2. /\ ws[c] \in Workspaces /\ got[c] \in Pools /\ pools[ws[c]] = NoPool
        /\ \A k \in Callers : k # c /\ pc[k] \in Making => ws[k] # ws[c]
    BY <2>1 DEF Inv, Typed, NothingToReplace, Led, Leading, Making
  <2>3. \A k \in Callers : pc'[k] = IF k = c THEN "releasing" ELSE pc[k]
    BY <2>1 DEF Inv, Typed
  <2>4. \A w \in Workspaces : pools'[w] = IF w = ws[c] THEN got[c] ELSE pools[w]
    BY <2>1 DEF Inv, Typed
  <2>5. Led' /\ NothingToReplace'
    BY <2>1, <2>2, <2>3, <2>4 DEF Inv, Led, NothingToReplace, Leading, Making
  <2>6. OnePoolEach' /\ FreshPools'
    BY <2>1, <2>2, <2>3, <2>4 DEF Inv, OnePoolEach, FreshPools
  <2>7. NoPoolLeaks'
    BY <2>1, <2>2, <2>3, <2>4 DEF Inv, NoPoolLeaks
  <2> QED BY <1>t, <2>5, <2>6, <2>7 DEF Inv
<1>12. ASSUME NEW c \in Callers, Return(c) PROVE Inv'
  <2>1. /\ pc[c] = "returning" /\ flight' = [flight EXCEPT ![ws[c]] = "none"]
        /\ UNCHANGED <<pools, db, ws>>
    BY <1>12 DEF Return, registry
  <2>2. ASSUME NEW k \in Callers
        PROVE  \/ pc'[k] = pc[k] /\ got'[k] = got[k] /\ k # c
               \/ /\ k = c \/ pc[k] = "waiting"
                  /\ pc'[k] \in {"failed", "holding"}
    BY <1>12 DEF Return
  <2>3. \A k \in Callers : pc'[k] \in Leading =>
          k # c /\ pc'[k] = pc[k] /\ got'[k] = got[k] /\ ws[k] # ws[c]
    BY <2>1, <2>2 DEF Inv, Led, Leading, Making
  <2>4. \A k \in Callers : pc[k] = "inserting" => pc'[k] = "inserting"
    BY <2>1, <2>2
  <2>5. Led' /\ NothingToReplace' /\ OnePoolEach'
    BY <2>1, <2>3 DEF Inv, Typed, Led, NothingToReplace, Leading, OnePoolEach
  <2>6. FreshPools'
    BY <2>1, <2>3 DEF Inv, FreshPools, Leading, Making
  <2>7. NoPoolLeaks'
    BY <2>1, <2>3, <2>4 DEF Inv, NoPoolLeaks, Leading, Making
  <2> QED BY <1>t, <2>5, <2>6, <2>7 DEF Inv
<1>13. ASSUME NEW c \in Callers, Query(c) \/ Done(c) PROVE Inv'
  <2>1. /\ UNCHANGED <<pools, flight, ws, got>> /\ got[c] \in Pools
        /\ pc[c] \in {"holding", "using"}
        /\ \E p \in {"holding", "using"} : pc' = [pc EXCEPT ![c] = p]
    BY <1>13 DEF Query, Done, Goto, registry, caller, Inv, Typed
  <2>2. \A q \in Pools : db'[q].open = db[q].open
    <3>1. \E b, n : db' = [db EXCEPT ![got[c]] = [db[got[c]] EXCEPT !.busy = b, !.conns = n]]
      BY <1>13 DEF Query, Done
    <3>2. db[got[c]] \in [open : BOOLEAN, conns : Int, busy : Int]
      BY <2>1 DEF Inv, Typed
    <3> QED BY <2>1, <3>1, <3>2 DEF Inv, Typed
  <2> QED BY <1>t, <2>1, <2>2, MovesOn DEF PCs, Leading, Making
<1>14. ASSUME NEW c \in Callers, Leave(c) PROVE Inv'
  <2>1. /\ UNCHANGED <<pools, flight, db>> /\ pc' = [pc EXCEPT ![c] = "idle"]
        /\ pc[c] # "inserting" /\ \A k \in Callers : k # c => ws'[k] = ws[k] /\ got'[k] = got[k]
    BY <1>14 DEF Leave, Goto, registry, Inv, Typed
  <2> QED BY <1>t, <2>1, MovesOn DEF PCs, Leading, Making
<1>15. ASSUME NEW p \in Pools, IdleConnectionCloses(p) PROVE Inv'
  <2>1. UNCHANGED <<pools, flight, pc, ws, got>>
    BY <1>15 DEF IdleConnectionCloses, registry, caller
  <2>2. \A q \in Pools : db'[q].open = db[q].open
    BY <1>15 DEF IdleConnectionCloses, Inv, Typed
  <2> QED BY <1>t, <2>1, <2>2 DEF Inv, Led, NothingToReplace, OnePoolEach, FreshPools, NoPoolLeaks
<1>16. ASSUME NEW w \in Workspaces, CloseWorkspaceConnection(w) PROVE Inv'
  BY <1>16, <1>t, ClosingKeeps DEF CloseWorkspaceConnection, caller
<1> QED
  BY <1>1, <1>2, <1>3, <1>4, <1>5, <1>6, <1>7, <1>8, <1>9, <1>10, <1>11, <1>12, <1>13, <1>14,
     <1>15, <1>16 DEF Next, Progress

(* No connection is lost: an open pool is in workspacePools or in the hands  *)
(* of the one leader that is about to put it there, for singleflight lets no *)
(* second leader overwrite it (connection_manager.go, GetWorkspaceConnection,*)
(* getOrCreateWorkspacePool).                                                *)
THEOREM EveryOpenPoolIsKnown == Spec => []NoPoolLeaks
<1>1. Inv => NoPoolLeaks
  BY DEF Inv
<1> QED BY InvAtFirst, NextKeeps, <1>1, PTL DEF Spec
-----------------------------------------------------------------------------
(* The reservations.                                                         *)
Counted == {c \in Callers : pc[c] \in Reserved}

LEMMA CountedAtFirst == Init => ReservationsMatch
<1> SUFFICES ASSUME Init PROVE ReservationsMatch
  OBVIOUS
<1>1. {c \in Callers : pc[c] \in Reserved} = {} /\ inflight = 0
  BY DEF Init, Reserved
<1> QED BY <1>1, FS_EmptySet DEF ReservationsMatch

LEMMA NextCounts ==
    ASSUME Typed, ReservationsMatch, [Next]_vars
    PROVE  ReservationsMatch'
<1>f. IsFiniteSet(Counted) /\ Cardinality(Counted) \in Nat
  BY FinitenessAssumption, FS_Subset, FS_CardinalityType DEF Counted
<1>m. inflight = Cardinality(Counted)
  BY DEF ReservationsMatch, Counted
(* Most steps neither reserve nor release. *)
<1>s. ASSUME UNCHANGED inflight, \A k \in Callers : pc'[k] \in Reserved <=> pc[k] \in Reserved
      PROVE  ReservationsMatch'
  <2>1. Counted' = Counted
    BY <1>s DEF Counted
  <2> QED BY <1>s, <1>m, <2>1 DEF ReservationsMatch, Counted
<1>g. ASSUME UNCHANGED inflight, NEW c \in Callers, NEW p, pc' = [pc EXCEPT ![c] = p],
             p \in Reserved <=> pc[c] \in Reserved
      PROVE  ReservationsMatch'
  BY <1>g, <1>s DEF Typed
<1>1. CASE UNCHANGED vars
  BY <1>1, <1>s DEF vars
<1>2. ASSUME NEW c \in Callers, NEW w \in Workspaces, Call(c, w) PROVE ReservationsMatch'
  BY <1>2, <1>g DEF Call, Goto, Reserved
<1>3. ASSUME NEW c \in Callers, Touch(c) \/ Join(c) \/ Lead(c) PROVE ReservationsMatch'
  BY <1>3, <1>g DEF Touch, Join, Lead, Goto, Reserved
<1>4. ASSUME NEW c \in Callers, Reserve(c) \/ ReserveAgain(c) PROVE ReservationsMatch'
  <2>1. CASE HasCapacity
    <3>1. /\ inflight' = inflight + 1 /\ pc' = [pc EXCEPT ![c] = "creating"]
          /\ pc[c] \notin Reserved
      BY <1>4, <2>1 DEF Reserve, ReserveAgain, Goto, Reserved
    <3>2. Counted' = Counted \cup {c} /\ c \notin Counted
      BY <3>1 DEF Counted, Reserved, Typed
    <3>3. Cardinality(Counted') = Cardinality(Counted) + 1
      BY <1>f, <3>2, FS_AddElement
    <3> QED BY <1>m, <3>1, <3>3 DEF ReservationsMatch, Counted
  <2>2. CASE ~HasCapacity
    BY <1>4, <1>g, <2>2 DEF Reserve, ReserveAgain, Goto, Reserved
  <2> QED BY <2>1, <2>2
<1>5. ASSUME NEW c \in Callers, Identify(c) \/ CloseIdle(c) PROVE ReservationsMatch'
  BY <1>5, <1>g DEF Identify, CloseIdle, Goto, Reserved
<1>6. ASSUME NEW c \in Callers, NEW p \in Pools, Create(c, p) PROVE ReservationsMatch'
  BY <1>6, <1>g DEF Create, Goto, Reserved
<1>7. ASSUME NEW c \in Callers, CreateFails(c) \/ Insert(c) PROVE ReservationsMatch'
  BY <1>7, <1>g DEF CreateFails, Insert, Goto, Reserved
<1>8. ASSUME NEW c \in Callers, ReleaseReservation(c) PROVE ReservationsMatch'
  <2>1. /\ inflight' = IF inflight > 0 THEN inflight - 1 ELSE inflight
        /\ pc[c] \in Reserved /\ pc' = [pc EXCEPT ![c] = "returning"]
    BY <1>8 DEF ReleaseReservation, Goto, Reserved
  <2>2. c \in Counted /\ Counted' = Counted \ {c}
    BY <2>1 DEF Counted, Reserved, Typed
  <2>3. Cardinality(Counted) # 0
    BY <1>f, <2>2, FS_EmptySet
  <2> QED BY <1>f, <1>m, <2>1, <2>2, <2>3, FS_RemoveElement DEF ReservationsMatch, Counted
<1>9. ASSUME NEW c \in Callers, Return(c) PROVE ReservationsMatch'
  BY <1>9, <1>s DEF Return, Reserved
<1>10. ASSUME NEW c \in Callers, Query(c) \/ Done(c) \/ Leave(c) PROVE ReservationsMatch'
  BY <1>10, <1>g DEF Query, Done, Leave, Goto, Reserved
<1>11. ASSUME NEW p \in Pools, IdleConnectionCloses(p) PROVE ReservationsMatch'
  BY <1>11, <1>s DEF IdleConnectionCloses
<1>12. ASSUME NEW w \in Workspaces, CloseWorkspaceConnection(w) PROVE ReservationsMatch'
  BY <1>12, <1>s DEF CloseWorkspaceConnection
<1> QED
  BY <1>1, <1>2, <1>3, <1>4, <1>5, <1>6, <1>7, <1>8, <1>9, <1>10, <1>11, <1>12 DEF Next, Progress

(* No reservation is left behind and none is released twice, however a       *)
(* creation ends (reserveCapacityForNewPool, releasePoolReservation).        *)
THEOREM ReservationsAreExact == Spec => []ReservationsMatch
<1>1. Init => Typed
  BY InvAtFirst DEF Inv
<1>2. Typed /\ ReservationsMatch /\ [Next]_vars => (Typed /\ ReservationsMatch)'
  BY NextTyped, NextCounts
<1> QED BY CountedAtFirst, <1>1, <1>2, PTL DEF Spec

(* The candidate of an eviction is looked at again under the lock that       *)
(* closes it, so that no connection in use is cut (closeLRUIdlePools).       *)
THEOREM EvictionsSpareUse == Spec => EvictionSparesUse
<1> DEFINE Spared == \A c \in Callers : pc[c] = "closing" /\ pc'[c] = "retrying"
                       => \A p \in Pools : db[p].open /\ db[p].busy > 0 => db'[p].open
<1>1. Inv /\ [Next]_vars => Spared
  <2> SUFFICES ASSUME Inv, [Next]_vars, NEW c \in Callers,
                      pc[c] = "closing", pc'[c] = "retrying"
               PROVE  \A p \in Pools : db[p].open /\ db[p].busy > 0 => db'[p].open
    OBVIOUS
  <2>1. \A k \in Callers : \A p : p # "retrying" => pc' # [pc EXCEPT ![k] = p]
    BY DEF Inv, Typed
  <2>2. PICK k \in Callers : CloseIdle(k)
    <3>1. ~UNCHANGED vars
      BY DEF vars
    <3>2. \A k \in Callers, w \in Workspaces : ~Call(k, w)
      BY <2>1 DEF Call, Goto
    <3>3. \A k \in Callers : ~Touch(k) /\ ~Join(k) /\ ~Lead(k) /\ ~Reserve(k) /\ ~ReserveAgain(k)
      BY <2>1 DEF Touch, Join, Lead, Reserve, ReserveAgain, Goto
    <3>4. \A k \in Callers, p \in Pools : ~Create(k, p)
      BY <2>1 DEF Create, Goto
    <3>5. \A k \in Callers : ~CreateFails(k) /\ ~Insert(k) /\ ~ReleaseReservation(k)
                             /\ ~Query(k) /\ ~Done(k) /\ ~Leave(k)
      BY <2>1 DEF CreateFails, Insert, ReleaseReservation, Query, Done, Leave, Goto
    <3>6. \A k \in Callers : ~Return(k)
      BY DEF Return
    <3>7. \A k \in Callers : Identify(k) => k # c
      BY DEF Identify
    <3>8. \A k \in Callers : ~Identify(k)
      BY <3>7 DEF Identify, Goto, Inv, Typed
    <3>9. (\A p \in Pools : ~IdleConnectionCloses(p))
          /\ (\A w \in Workspaces : ~CloseWorkspaceConnection(w))
      BY DEF IdleConnectionCloses, CloseWorkspaceConnection
    <3> QED BY <3>1, <3>2, <3>3, <3>4, <3>5, <3>6, <3>8, <3>9 DEF Next, Progress
  <2>3. victim[k] \in Workspaces
    BY <2>2 DEF CloseIdle, Inv, Typed
  <2>4. \A p \in Pools : db[p].busy > 0 => db'[p] = db[p]
    BY <2>2, <2>3, PoolNames DEF CloseIdle, Idle, Unmap, registry, Inv, Typed
  <2> QED BY <2>4
<1>2. Inv /\ [Next]_vars => [Spared]_vars
  BY <1>1
<1> QED BY InvAtFirst, NextKeeps, <1>2, PTL DEF Spec, EvictionSparesUse
-----------------------------------------------------------------------------
(* The types, sizes of the pools included.                                   *)
Users(p) == {c \in Callers : pc[c] = "using" /\ got[c] = p}

(* A pool's connections in use are those its users have, which is why one    *)
(* comes back from every use, even to a pool that was closed meanwhile.      *)
Lent == \A p \in Pools : db[p] \in SQLDB /\ db[p].busy = Cardinality(Users(p))

Recorded == recent \in Seq(Workspaces) /\ inflight \in Nat

LEMMA UsersFinite == \A p : IsFiniteSet(Users(p)) /\ Cardinality(Users(p)) \in Nat
BY FinitenessAssumption, FS_Subset, FS_CardinalityType DEF Users

LEMMA Sized ==
    ASSUME NEW d
    PROVE  d \in SQLDB <=> /\ d \in [open : BOOLEAN, conns : Int, busy : Int]
                           /\ 0 <= d.busy /\ d.busy <= d.conns /\ d.conns <= PerDB
BY LimitsAssumption DEF SQLDB

LEMMA Resized ==
    ASSUME NEW d \in [open : BOOLEAN, conns : Int, busy : Int], NEW b \in Int, NEW n \in Int
    PROVE  LET r == [d EXCEPT !.busy = b, !.conns = n]
           IN  /\ r \in [open : BOOLEAN, conns : Int, busy : Int]
               /\ r.open = d.open /\ r.busy = b /\ r.conns = n
OBVIOUS

(* What is left of the access times are workspaces still.                    *)
LEMMA ForgetTyped ==
    ASSUME NEW times \in Seq(Workspaces), NEW w
    PROVE  Forget(w, times) \in Seq(Workspaces)
<1> DEFINE Without(i) == SubSeq(times, 1, i - 1) \o SubSeq(times, i + 1, Len(times))
<1>1. ASSUME NEW i \in DOMAIN times PROVE Without(i) \in Seq(Workspaces)
  <2>1. i \in 1 .. Len(times) /\ Len(times) \in Nat
    OBVIOUS
  <2>2. SubSeq(times, 1, i - 1) \in Seq(Workspaces) /\ SubSeq(times, i + 1, Len(times)) \in Seq(Workspaces)
    BY <2>1, SubSeqProperties
  <2> QED BY <2>2
<1>2. CASE \E i \in DOMAIN times : times[i] = w
  <2> DEFINE i == CHOOSE j \in DOMAIN times : times[j] = w
  <2>1. i \in DOMAIN times
    BY <1>2
  <2> QED BY <1>1, <1>2, <2>1 DEF Forget
<1>3. CASE ~ \E i \in DOMAIN times : times[i] = w
  BY <1>3 DEF Forget
<1> QED BY <1>2, <1>3

(* The pools stay as they are, and their users.                              *)
LEMMA StaysLent ==
    ASSUME Lent, db' = db,
           \A c \in Callers : /\ pc'[c] = "using" <=> pc[c] = "using"
                              /\ pc[c] = "using" => got'[c] = got[c]
    PROVE  Lent'
<1>1. \A p : Users(p)' = Users(p)
  BY DEF Users
<1> QED BY <1>1 DEF Lent

(* One caller moves on, and uses nothing before or after.                    *)
LEMMA MovesUnlent ==
    ASSUME Typed, Lent, db' = db, NEW c \in Callers, NEW p, p # "using", pc[c] # "using",
           pc' = [pc EXCEPT ![c] = p], \A k \in Callers : k # c => got'[k] = got[k]
    PROVE  Lent'
BY StaysLent DEF Typed

(* A pool is closed: what is in use of it stays open until it comes back.    *)
LEMMA ClosedLent ==
    ASSUME Typed, Lent, NEW w \in Workspaces, pools[w] # NoPool, Unmap(w), got' = got,
           \A c \in Callers : pc'[c] = "using" <=> pc[c] = "using"
    PROVE  Lent'
<1> DEFINE p == pools[w]
<1>1. /\ p \in Pools
      /\ \A q \in Pools : db'[q] = IF q = p THEN Shut(p) ELSE db[q]
  BY DEF Unmap, Typed
<1>2. db[p] \in [open : BOOLEAN, conns : Int, busy : Int]
      /\ 0 <= db[p].busy /\ db[p].busy <= db[p].conns /\ db[p].conns <= PerDB
  BY <1>1, Sized DEF Lent
<1>3. Shut(p) \in [open : BOOLEAN, conns : Int, busy : Int]
      /\ Shut(p).busy = db[p].busy /\ Shut(p).conns = db[p].busy
  BY <1>2 DEF Shut
<1>4. Shut(p) \in SQLDB
  BY <1>2, <1>3, Sized, LimitsAssumption
<1>5. \A q : Users(q)' = Users(q)
  BY DEF Users
<1> QED BY <1>1, <1>3, <1>4, <1>5 DEF Lent

LEMMA NextLent ==
    ASSUME Typed, Typed', Lent, [Next]_vars
    PROVE  Lent'
<1>0. \A p \in Pools : /\ db[p] \in [open : BOOLEAN, conns : Int, busy : Int]
                       /\ 0 <= db[p].busy /\ db[p].busy <= db[p].conns /\ db[p].conns <= PerDB
                       /\ db[p].busy = Cardinality(Users(p))
  BY Sized DEF Lent
<1>1. CASE UNCHANGED vars
  BY <1>1, StaysLent DEF vars, caller
<1>2. ASSUME NEW c \in Callers, NEW w \in Workspaces, Call(c, w) PROVE Lent'
  <2>1. \A k \in Callers : k # c => got'[k] = got[k]
    BY <1>2 DEF Call, Typed
  <2> QED BY <1>2, <2>1, MovesUnlent DEF Call, Goto
<1>3. ASSUME NEW c \in Callers,
             \/ Touch(c) \/ Join(c) \/ Reserve(c) \/ Identify(c) \/ ReserveAgain(c)
             \/ CreateFails(c) \/ Insert(c) \/ ReleaseReservation(c)
      PROVE  Lent'
  BY <1>3, MovesUnlent
     DEF Touch, Join, Reserve, Identify, ReserveAgain, CreateFails, Insert, ReleaseReservation,
         Goto, caller
<1>4. ASSUME NEW c \in Callers, Lead(c) \/ Leave(c) PROVE Lent'
  <2>1. \A k \in Callers : k # c => got'[k] = got[k]
    BY <1>4 DEF Lead, Leave, Typed
  <2> QED BY <1>4, <2>1, MovesUnlent DEF Lead, Leave, Goto
<1>5. ASSUME NEW c \in Callers, Return(c) PROVE Lent'
  <2>1. db' = db
    BY <1>5 DEF Return
  <2>2. \A k \in Callers : \/ pc'[k] = pc[k] /\ got'[k] = got[k]
                           \/ pc[k] \in {"returning", "waiting"} /\ pc'[k] \in {"failed", "holding"}
    BY <1>5 DEF Return
  <2> QED BY <2>1, <2>2, StaysLent
<1>6. ASSUME NEW c \in Callers, CloseIdle(c) PROVE Lent'
  <2>1. CASE Idle(victim[c])
    <3>1. victim[c] \in Workspaces /\ pools[victim[c]] # NoPool /\ Unmap(victim[c])
      BY <1>6, <2>1 DEF CloseIdle, Idle, Typed
    <3>2. \A k \in Callers : pc'[k] = "using" <=> pc[k] = "using"
      BY <1>6 DEF CloseIdle, Goto, Typed
    <3> QED BY <1>6, <3>1, <3>2, ClosedLent DEF CloseIdle
  <2>2. CASE ~Idle(victim[c])
    BY <1>6, <2>2, MovesUnlent DEF CloseIdle, Goto, registry
  <2> QED BY <2>1, <2>2
<1>7. ASSUME NEW w \in Workspaces, CloseWorkspaceConnection(w) PROVE Lent'
  BY <1>7, ClosedLent DEF CloseWorkspaceConnection, caller
<1>8. ASSUME NEW c \in Callers, NEW p \in Pools, Create(c, p) PROVE Lent'
  <2>1. /\ pc[c] = "creating" /\ pc' = [pc EXCEPT ![c] = "inserting"]
        /\ \A k \in Callers : got[k] # p
        /\ \A k \in Callers : k # c => got'[k] = got[k]
        /\ \A q \in Pools : db'[q] = IF q = p THEN [open |-> TRUE, conns |-> 1, busy |-> 0] ELSE db[q]
    BY <1>8 DEF Create, Unused, Free, Goto, Typed
  <2>2. Users(p) = {} /\ \A q \in Pools : Users(q)' = Users(q)
    BY <2>1 DEF Users, Typed
  <2>3. [open |-> TRUE, conns |-> 1, busy |-> 0] \in SQLDB
    BY LimitsAssumption DEF SQLDB
  <2> QED BY <2>1, <2>2, <2>3, FS_EmptySet DEF Lent
<1>9. ASSUME NEW c \in Callers, Query(c) PROVE Lent'
  <2> DEFINE p == got[c]
             d == db[p]
             n == IF d.busy = d.conns THEN d.conns + 1 ELSE d.conns
             lent == [d EXCEPT !.busy = @ + 1, !.conns = n]
  <2>1. p \in Pools /\ d \in [open : BOOLEAN, conns : Int, busy : Int]
    BY <1>9, <1>0 DEF Query, Typed
  <2>2. /\ pc[c] = "holding" /\ pc' = [pc EXCEPT ![c] = "using"] /\ got' = got /\ d.busy < PerDB
        /\ \A q \in Pools : db'[q] = IF q = p THEN lent ELSE db[q]
    BY <1>9, <2>1 DEF Query, Goto, caller, Typed
  <2>3. lent \in [open : BOOLEAN, conns : Int, busy : Int] /\ lent.busy = d.busy + 1 /\ lent.conns = n
    <3>1. d.busy + 1 \in Int /\ n \in Int
      BY <2>1
    <3> QED BY <2>1, <3>1, Resized
  <2>4. lent \in SQLDB
    <3>1. 0 <= d.busy + 1 /\ d.busy + 1 <= n /\ n <= PerDB
      BY <1>0, <2>1, <2>2, LimitsAssumption
    <3> QED BY <2>3, <3>1, Sized
  <2>5. Users(p)' = Users(p) \cup {c} /\ c \notin Users(p)
    BY <2>2 DEF Users, Typed
  <2>6. \A q \in Pools : q # p => Users(q)' = Users(q)
    BY <2>2 DEF Users, Typed
  <2>7. Cardinality(Users(p)') = d.busy + 1
    <3>1. IsFiniteSet(Users(p)) /\ Cardinality(Users(p)) = d.busy
      BY <1>0, <2>1, UsersFinite
    <3>2. Cardinality(Users(p) \cup {c}) = Cardinality(Users(p)) + 1
      BY <2>5, <3>1, FS_AddElement
    <3> QED BY <2>5, <3>1, <3>2
  <2> QED
    <3> SUFFICES ASSUME NEW q \in Pools
                 PROVE  db'[q] \in SQLDB /\ db'[q].busy = Cardinality(Users(q)')
      BY DEF Lent
    <3>1. CASE q = p
      BY <2>2, <2>3, <2>4, <2>7, <3>1
    <3>2. CASE q # p
      BY <2>2, <2>6, <3>2 DEF Lent
    <3> QED BY <3>1, <3>2
<1>10. ASSUME NEW c \in Callers, Done(c) PROVE Lent'
  <2> DEFINE p == got[c]
             d == db[p]
             n == IF d.open /\ d.conns = d.busy THEN d.conns ELSE d.conns - 1
             back == [d EXCEPT !.busy = @ - 1, !.conns = n]
  <2>1. p \in Pools /\ d \in [open : BOOLEAN, conns : Int, busy : Int]
    BY <1>10, <1>0 DEF Done, Typed
  <2>2. /\ pc[c] = "using" /\ pc' = [pc EXCEPT ![c] = "holding"] /\ got' = got
        /\ \A q \in Pools : db'[q] = IF q = p THEN back ELSE db[q]
    BY <1>10, <2>1 DEF Done, Goto, caller, Typed
  <2>3. back \in [open : BOOLEAN, conns : Int, busy : Int] /\ back.busy = d.busy - 1 /\ back.conns = n
    <3>1. d.busy - 1 \in Int /\ n \in Int
      BY <2>1
    <3> QED BY <2>1, <3>1, Resized
  <2>4. Users(p)' = Users(p) \ {c} /\ c \in Users(p)
    BY <2>2 DEF Users, Typed
  <2>5. Cardinality(Users(p)) > 0 /\ Cardinality(Users(p)') = d.busy - 1
    BY <1>0, <2>1, <2>4, UsersFinite, FS_EmptySet, FS_RemoveElement
  <2>6. back \in SQLDB
    <3>1. 0 <= d.busy - 1 /\ d.busy - 1 <= n /\ n <= PerDB
      BY <1>0, <2>1, <2>5, LimitsAssumption
    <3> QED BY <2>3, <3>1, Sized
  <2>7. \A q \in Pools : q # p => Users(q)' = Users(q)
    BY <2>2 DEF Users, Typed
  <2> QED
    <3> SUFFICES ASSUME NEW q \in Pools
                 PROVE  db'[q] \in SQLDB /\ db'[q].busy = Cardinality(Users(q)')
      BY DEF Lent
    <3>1. CASE q = p
      BY <2>2, <2>3, <2>5, <2>6, <3>1
    <3>2. CASE q # p
      BY <2>2, <2>7, <3>2 DEF Lent
    <3> QED BY <3>1, <3>2
<1>11. ASSUME NEW p \in Pools, IdleConnectionCloses(p) PROVE Lent'
  <2> DEFINE left == [db[p] EXCEPT !.conns = @ - 1]
  <2>1. /\ pc' = pc /\ got' = got /\ db[p].conns > db[p].busy
        /\ \A q \in Pools : db'[q] = IF q = p THEN left ELSE db[q]
    BY <1>11 DEF IdleConnectionCloses, caller, Typed
  <2>2. left \in [open : BOOLEAN, conns : Int, busy : Int] /\ left.busy = db[p].busy
        /\ left.conns = db[p].conns - 1
    BY <1>0
  <2>3. left \in SQLDB
    BY <1>0, <2>1, <2>2, Sized, LimitsAssumption
  <2>4. \A q : Users(q)' = Users(q)
    BY <2>1 DEF Users
  <2> QED BY <2>1, <2>2, <2>3, <2>4 DEF Lent
<1> QED
  BY <1>1, <1>2, <1>3, <1>4, <1>5, <1>6, <1>7, <1>8, <1>9, <1>10, <1>11 DEF Next, Progress

LEMMA NextRecorded ==
    ASSUME Typed, Recorded, [Next]_vars
    PROVE  Recorded'
<1>1. \A w : Forget(w, recent) \in Seq(Workspaces)
  BY ForgetTyped DEF Recorded
<1>2. \A w \in Workspaces : Touched(w) \in Seq(Workspaces)
  BY <1>1, AppendProperties DEF Touched
<1>3. recent' \in Seq(Workspaces)
  <2>1. \/ recent' = recent
        \/ \E c \in Callers : ws[c] \in Workspaces /\ recent' = Touched(ws[c])
        \/ \E w : recent' = Forget(w, recent)
    BY DEF Next, Progress, vars, registry, Typed, Unmap, Call, Touch, Join, Lead, Reserve, Identify,
           CloseIdle, ReserveAgain, Create, CreateFails, Insert, ReleaseReservation, Return,
           Query, Done, Leave, IdleConnectionCloses, CloseWorkspaceConnection
  <2> QED BY <1>1, <1>2, <2>1 DEF Recorded
<1>4. inflight' \in Nat
  <2>1. CASE inflight' = inflight
    BY <2>1 DEF Recorded
  <2>2. ASSUME NEW c \in Callers, Reserve(c) \/ ReserveAgain(c) \/ ReleaseReservation(c)
        PROVE  inflight' \in Nat
    BY <2>2 DEF Reserve, ReserveAgain, ReleaseReservation, Recorded
  <2>3. \/ inflight' = inflight
        \/ \E c \in Callers : Reserve(c) \/ ReserveAgain(c) \/ ReleaseReservation(c)
    BY DEF Next, Progress, vars, Call, Touch, Join, Lead, Identify, CloseIdle, Create,
           CreateFails, Insert, Return, Query, Done, Leave, IdleConnectionCloses,
           CloseWorkspaceConnection
  <2> QED BY <2>1, <2>2, <2>3
<1> QED BY <1>3, <1>4 DEF Recorded

LEMMA SizesAtFirst == Init => Lent /\ Recorded
<1> SUFFICES ASSUME Init PROVE Lent /\ Recorded
  OBVIOUS
<1>1. Closed \in SQLDB /\ Closed.busy = 0
  BY LimitsAssumption DEF Closed, SQLDB
<1>2. \A p \in Pools : Users(p) = {}
  BY DEF Init, Users
<1>3. Lent
  BY <1>1, <1>2, FS_EmptySet DEF Init, Lent
<1> QED BY <1>3 DEF Init, Recorded

(* Every pool stays within SetMaxOpenConns with no more connections in use   *)
(* than it has, whatever is closed while it is in use, and every caller past *)
(* its lookup knows the pool it works with (createWorkspacePool,             *)
(* closeLRUIdlePools, GetWorkspaceConnection).                               *)
THEOREM ManagerTypeCorrect == Spec => []TypeOK
<1>1. Init => Typed /\ Lent /\ Recorded
  BY InvAtFirst, SizesAtFirst DEF Inv
<1>2. (Typed /\ Lent /\ Recorded) /\ [Next]_vars => (Typed /\ Lent /\ Recorded)'
  BY NextTyped, NextLent, NextRecorded
<1>3. Typed /\ Lent /\ Recorded => TypeOK
  <2> SUFFICES ASSUME Typed, Lent, Recorded PROVE TypeOK
    OBVIOUS
  <2>1. db \in [Pools -> SQLDB]
    BY DEF Typed, Lent
  <2> QED BY <2>1, NamesAssumption, PoolNames DEF TypeOK, Typed, Recorded
<1> QED BY <1>1, <1>2, <1>3, PTL DEF Spec
-----------------------------------------------------------------------------
(* The limit.                                                                *)
Creations == {c \in Callers : pc[c] \in {"creating", "inserting"}}

LEMMA ConnectionsFinite ==
    ASSUME NEW S \in SUBSET (Workspaces \X (1 .. PerDB))
    PROVE  /\ IsFiniteSet(S) /\ Cardinality(S) \in Nat
           /\ \A T \in SUBSET S : Cardinality(T) <= Cardinality(S)
<1>1. IsFiniteSet(1 .. PerDB) /\ IsFiniteSet(Workspaces)
  BY LimitsAssumption, FinitenessAssumption, FS_Interval
<1>2. IsFiniteSet(Workspaces \X (1 .. PerDB))
  BY <1>1, FS_Product
<1> QED BY <1>2, FS_Subset, FS_CardinalityType

LEMMA CreationsFinite ==
    ASSUME NEW S \in SUBSET Callers
    PROVE  /\ IsFiniteSet(S) /\ Cardinality(S) \in Nat
           /\ \A T \in SUBSET S : Cardinality(T) <= Cardinality(S)
BY FinitenessAssumption, FS_Subset, FS_CardinalityType

LEMMA Multiples ==
    ASSUME NEW a \in Nat, NEW b \in Nat
    PROVE  /\ PerDB * a \in Nat
           /\ a <= b => PerDB * a <= PerDB * b
           /\ PerDB * (a + 1) = PerDB * a + PerDB
           /\ (a + 1) * PerDB = PerDB * a + PerDB
BY LimitsAssumption

(* No pool grows and no creation begins: nothing more is committed.          *)
LEMMA CommitsNoMore ==
    ASSUME OpenConnections' \subseteq OpenConnections, Creations' \subseteq Creations
    PROVE  ~(Committed' > Committed)
<1> DEFINE o == Cardinality(OpenConnections)
           k == Cardinality(Creations)
<1>1. o \in Nat /\ o' \in Nat /\ o' <= o
  BY ConnectionsFinite DEF OpenConnections
<1>2. k \in Nat /\ k' \in Nat /\ k' <= k
  BY CreationsFinite DEF Creations
<1>3. PerDB * k \in Nat /\ PerDB * k' \in Nat /\ PerDB * k' <= PerDB * k
  BY <1>2, Multiples
<1>4. Committed = SystemOpen + o + PerDB * k /\ Committed' = SystemOpen + o' + PerDB * k'
  BY DEF Committed, TotalConnections, Creations
<1> HIDE DEF o, k
<1> QED BY <1>1, <1>3, <1>4, LimitsAssumption

(* Pools that stay where they are and have no more connections than before.  *)
LEMMA PoolsNoLarger ==
    ASSUME Typed,
           \A w \in Workspaces : pools'[w] # NoPool =>
               pools'[w] = pools[w] /\ db'[pools[w]].conns \in Int
                                    /\ db'[pools[w]].conns <= db[pools[w]].conns
    PROVE  OpenConnections' \subseteq OpenConnections
<1> SUFFICES ASSUME NEW x \in OpenConnections' PROVE x \in OpenConnections
  OBVIOUS
<1>1. x \in Workspaces \X (1 .. PerDB) /\ x[2] <= Open(x[1])'
  BY DEF OpenConnections
<1>2. x[1] \in Workspaces /\ x[2] \in 1 .. PerDB
  BY <1>1
<1>3. pools'[x[1]] # NoPool
  BY <1>1, <1>2 DEF Open
<1>4. x[2] <= db[pools[x[1]]].conns /\ pools[x[1]] # NoPool
  <2>1. db[pools[x[1]]].conns \in Int
    BY <1>2, <1>3 DEF Typed
  <2> QED BY <1>1, <1>2, <1>3, <2>1 DEF Open
<1> QED BY <1>1, <1>4 DEF OpenConnections, Open

(* A leader that begins to create has found room for a full pool, next to    *)
(* the full pools of all creations under way.                                *)
LEMMA ReservesWithin ==
    ASSUME Typed, Lent, Recorded, ReservationsMatch, HasCapacity, NEW c \in Callers,
           pools' = pools, db' = db, pc' = [pc EXCEPT ![c] = "creating"]
    PROVE  ~(Committed' > MaxConnections)
<1> DEFINE o == Cardinality(OpenConnections)
           k == Cardinality(Creations)
<1>1. o \in Nat /\ o' = o
  BY ConnectionsFinite DEF OpenConnections, Open
<1>2. k \in Nat /\ k <= inflight /\ inflight \in Nat
  <2>1. Creations \in SUBSET Counted /\ Counted \in SUBSET Callers
    BY DEF Creations, Counted, Reserved
  <2> QED BY <2>1, CreationsFinite DEF ReservationsMatch, Counted, Recorded
<1>3. Creations' \in SUBSET (Creations \cup {c})
  BY DEF Creations, Typed
<1>4. k' \in Nat /\ k' <= k + 1
  <2>1. Creations \cup {c} \in SUBSET Callers /\ Creations \in SUBSET Callers
    BY DEF Creations
  <2>2. Cardinality(Creations \cup {c}) <= k + 1
    BY <1>2, <2>1, CreationsFinite, FS_AddElement
  <2> QED BY <1>2, <1>3, <2>1, <2>2, CreationsFinite
<1>5. k' <= inflight + 1
  BY <1>2, <1>4
<1>6. PerDB * k' \in Nat /\ PerDB * k' <= (inflight + 1) * PerDB /\ (inflight + 1) * PerDB \in Nat
  <2>1. inflight + 1 \in Nat /\ (inflight + 1) * PerDB = PerDB * (inflight + 1)
    BY <1>2, Multiples
  <2> QED BY <1>4, <1>5, <2>1, Multiples
<1>7. Committed' = SystemOpen + o' + PerDB * k'
  BY DEF Committed, TotalConnections, Creations
<1>8. SystemOpen + o + (inflight + 1) * PerDB <= MaxConnections
  BY DEF HasCapacity, TotalConnections
<1> HIDE DEF o, k
<1> QED BY <1>1, <1>6, <1>7, <1>8, LimitsAssumption

(* The pool that is inserted takes up at most what was reserved for it.      *)
LEMMA InsertsWithin ==
    ASSUME Typed, NothingToReplace, NEW c \in Callers, Insert(c)
    PROVE  ~(Committed' > Committed)
<1> DEFINE o == Cardinality(OpenConnections)
           k == Cardinality(Creations)
           place == [n \in 1 .. PerDB |-> <<ws[c], n>>]
           room == {<<ws[c], n>> : n \in 1 .. PerDB}
<1>1. /\ pc[c] = "inserting" /\ pc' = [pc EXCEPT ![c] = "releasing"] /\ db' = db
      /\ pools' = [pools EXCEPT ![ws[c]] = got[c]]
      /\ ws[c] \in Workspaces /\ pools[ws[c]] = NoPool
  BY DEF Insert, Goto, caller, Typed, NothingToReplace, Making
<1>2. IsFiniteSet(room) /\ Cardinality(room) <= PerDB
  <2>1. place \in Surjection(1 .. PerDB, room)
    BY DEF Surjection
  <2>2. IsFiniteSet(1 .. PerDB) /\ Cardinality(1 .. PerDB) = PerDB
    BY LimitsAssumption, FS_Interval
  <2> HIDE DEF place, room
  <2> QED BY <2>1, <2>2, FS_Surjection
<1>3. OpenConnections' \in SUBSET (OpenConnections \cup room)
  <2> SUFFICES ASSUME NEW x \in OpenConnections' PROVE x \in OpenConnections \cup room
    OBVIOUS
  <2>1. x \in Workspaces \X (1 .. PerDB) /\ x[2] <= Open(x[1])'
    BY DEF OpenConnections
  <2>2. CASE x[1] = ws[c]
    BY <2>1, <2>2
  <2>3. CASE x[1] # ws[c]
    <3>1. pools'[x[1]] = pools[x[1]]
      BY <1>1, <2>1, <2>3 DEF Typed
    <3> QED BY <1>1, <2>1, <3>1 DEF OpenConnections, Open
  <2> QED BY <2>2, <2>3
<1>4. o \in Nat /\ o' \in Nat /\ o' <= o + PerDB
  <2>1. room \in SUBSET (Workspaces \X (1 .. PerDB))
        /\ OpenConnections \in SUBSET (Workspaces \X (1 .. PerDB))
    BY <1>1 DEF OpenConnections
  <2>2. OpenConnections \cup room \in SUBSET (Workspaces \X (1 .. PerDB))
        /\ OpenConnections \cap room \in SUBSET (Workspaces \X (1 .. PerDB))
    BY <2>1
  <2>3. /\ IsFiniteSet(OpenConnections) /\ IsFiniteSet(room)
        /\ o \in Nat /\ Cardinality(room) \in Nat
        /\ Cardinality(OpenConnections \cup room) \in Nat
        /\ Cardinality(OpenConnections \cap room) \in Nat
        /\ IsFiniteSet(OpenConnections \cup room)
    BY <2>1, <2>2, ConnectionsFinite
  <2>4. Cardinality(OpenConnections \cup room)
          = o + Cardinality(room) - Cardinality(OpenConnections \cap room)
    BY <2>3, FS_Union
  <2>5. o' \in Nat /\ o' <= Cardinality(OpenConnections \cup room)
    BY <1>3, <2>3, FS_Subset, FS_CardinalityType
  <2> HIDE DEF room, o
  <2> QED BY <1>2, <2>3, <2>4, <2>5, LimitsAssumption
<1>5. k \in Nat /\ k' \in Nat /\ k = k' + 1
  <2>1. Creations' = Creations \ {c} /\ c \in Creations /\ Creations \in SUBSET Callers
    BY <1>1 DEF Creations, Typed
  <2>2. IsFiniteSet(Creations) /\ k \in Nat /\ k # 0
    BY <2>1, CreationsFinite, FS_EmptySet
  <2> QED BY <2>1, <2>2, FS_RemoveElement
<1>6. PerDB * k = PerDB * k' + PerDB /\ PerDB * k' \in Nat
  BY <1>5, Multiples
<1>7. Committed = SystemOpen + o + PerDB * k /\ Committed' = SystemOpen + o' + PerDB * k'
  BY DEF Committed, TotalConnections, Creations
<1> HIDE DEF o, k
<1> QED BY <1>4, <1>6, <1>7, LimitsAssumption

(* However many creations of distinct workspaces overlap, none of them takes *)
(* the connections the manager has committed itself to past maxConnections:  *)
(* only a query in a pool long made may (hasCapacityForNewPool,              *)
(* reserveCapacityForNewPool, createWorkspacePool).                          *)
THEOREM CreationsStayWithin == Spec => CreationsWithinLimit
<1> DEFINE Within == Committed' > Committed /\ Committed' > MaxConnections
                       => \E c \in Callers : pc[c] = "holding" /\ pc'[c] = "using"
<1>1. ASSUME Inv, Typed', Lent, Recorded, ReservationsMatch, [Next]_vars PROVE Within
  <2>t. Typed
    BY <1>1 DEF Inv
  <2>s. ASSUME pools' = pools, db' = db, Creations' \subseteq Creations PROVE Within
    <3>1. OpenConnections' = OpenConnections
      BY <2>s DEF OpenConnections, Open
    <3> QED BY <2>s, <3>1, CommitsNoMore
  <2>g. ASSUME NEW c \in Callers, NEW p, pc' = [pc EXCEPT ![c] = p], pools' = pools, db' = db,
               p \in {"creating", "inserting"} => pc[c] \in {"creating", "inserting"}
        PROVE  Within
    <3>1. Creations' \subseteq Creations
      BY <2>g, <2>t DEF Creations, Typed
    <3> QED BY <2>g, <2>s, <3>1
  <2>1. CASE UNCHANGED vars
    BY <2>1, <2>s DEF vars, registry, Creations
  <2>2. ASSUME NEW c \in Callers, NEW w \in Workspaces, Call(c, w) PROVE Within
    BY <2>2, <2>g DEF Call, Goto, registry
  <2>3. ASSUME NEW c \in Callers,
               \/ Touch(c) \/ Join(c) \/ Lead(c) \/ Identify(c) \/ CreateFails(c)
               \/ ReleaseReservation(c) \/ Leave(c)
        PROVE  Within
    BY <2>3, <2>g DEF Touch, Join, Lead, Identify, CreateFails, ReleaseReservation, Leave, Goto,
                      registry
  <2>4. ASSUME NEW c \in Callers, Reserve(c) \/ ReserveAgain(c) PROVE Within
    <3>1. CASE HasCapacity
      BY <1>1, <2>4, <2>t, <3>1, ReservesWithin DEF Reserve, ReserveAgain, Goto, registry
    <3>2. CASE ~HasCapacity
      BY <2>4, <2>g, <3>2 DEF Reserve, ReserveAgain, Goto, registry
    <3> QED BY <3>1, <3>2
  <2>5. ASSUME NEW c \in Callers, Return(c) PROVE Within
    <3>1. Creations' \subseteq Creations
      BY <2>5 DEF Return, Creations
    <3> QED BY <2>5, <2>s, <3>1 DEF Return, registry
  <2>u. ASSUME NEW w \in Workspaces, pools[w] # NoPool, Unmap(w), Creations' \subseteq Creations
        PROVE  Within
    <3>1. \A v \in Workspaces : pools'[v] # NoPool => v # w /\ pools'[v] = pools[v]
      BY <2>u, <2>t DEF Unmap, Typed
    <3>2. \A v \in Workspaces : v # w /\ pools[v] # NoPool =>
            pools[v] \in Pools /\ db'[pools[v]] = db[pools[v]] /\ db[pools[v]].conns \in Int
      BY <1>1, <2>u, <2>t DEF Unmap, Inv, OnePoolEach, Typed
    <3>3. OpenConnections' \subseteq OpenConnections
      BY <2>t, <3>1, <3>2, PoolsNoLarger
    <3> QED BY <2>u, <3>3, CommitsNoMore
  <2>6. ASSUME NEW c \in Callers, CloseIdle(c) PROVE Within
    <3>1. Creations' \subseteq Creations
      BY <2>6, <2>t DEF CloseIdle, Goto, Creations, Typed
    <3>2. CASE Idle(victim[c])
      <4>1. victim[c] \in Workspaces /\ pools[victim[c]] # NoPool /\ Unmap(victim[c])
        BY <2>6, <2>t, <3>2 DEF CloseIdle, Idle, Typed
      <4> QED BY <2>u, <3>1, <4>1
    <3>3. CASE ~Idle(victim[c])
      BY <2>6, <2>s, <3>1, <3>3 DEF CloseIdle, registry
    <3> QED BY <3>2, <3>3
  <2>7. ASSUME NEW w \in Workspaces, CloseWorkspaceConnection(w) PROVE Within
    BY <2>7, <2>u DEF CloseWorkspaceConnection, Creations
  <2>8. ASSUME NEW c \in Callers, NEW p \in Pools, Create(c, p) PROVE Within
    <3>1. /\ pc[c] = "creating" /\ pc' = [pc EXCEPT ![c] = "inserting"] /\ ~db[p].open
          /\ pools' = pools /\ \A q \in Pools : q # p => db'[q] = db[q]
      BY <2>8, <2>t DEF Create, Unused, Free, Goto, registry, Typed
    <3>2. \A w \in Workspaces : pools[w] # p
      BY <1>1, <3>1 DEF Inv, NoPoolLeaks
    <3>3. \A w \in Workspaces : pools[w] # NoPool => db'[pools[w]] = db[pools[w]]
      BY <2>t, <3>1, <3>2 DEF Typed
    <3>4. OpenConnections' = OpenConnections
      BY <3>1, <3>3 DEF OpenConnections, Open
    <3>5. Creations' \subseteq Creations
      BY <2>t, <3>1 DEF Creations, Typed
    <3> QED BY <3>4, <3>5, CommitsNoMore
  <2>9. ASSUME NEW c \in Callers, Insert(c) PROVE Within
    BY <1>1, <2>9, <2>t, InsertsWithin DEF Inv
  <2>10. ASSUME NEW c \in Callers, Query(c) PROVE Within
    <3>1. pc[c] = "holding" /\ pc'[c] = "using"
      BY <2>10, <2>t DEF Query, Goto, Typed
    <3> QED BY <3>1
  <2>11. ASSUME \/ \E c \in Callers : Done(c)
                \/ \E p \in Pools : IdleConnectionCloses(p)
         PROVE  Within
    <3>1. pools' = pools /\ Creations' \subseteq Creations
      BY <2>11, <2>t DEF Done, IdleConnectionCloses, Goto, registry, Creations, Typed
    <3>2. PICK p \in Pools, n \in Int :
            /\ n <= db[p].conns
            /\ \A q \in Pools : db'[q].conns = IF q = p THEN n ELSE db[q].conns
      <4>1. ASSUME NEW c \in Callers, Done(c)
            PROVE  \E p \in Pools, n \in Int :
                     /\ n <= db[p].conns
                     /\ \A q \in Pools : db'[q].conns = IF q = p THEN n ELSE db[q].conns
        <5> DEFINE p == got[c]
                   d == db[p]
                   n == IF d.open /\ d.conns = d.busy THEN d.conns ELSE d.conns - 1
        <5>1. p \in Pools /\ d \in [open : BOOLEAN, conns : Int, busy : Int]
              /\ db' = [db EXCEPT ![p] = [d EXCEPT !.busy = @ - 1, !.conns = n]]
          BY <4>1, <2>t DEF Done, Typed
        <5>2. n \in Int /\ n <= d.conns /\ d.busy - 1 \in Int
          BY <5>1
        <5>3. [d EXCEPT !.busy = d.busy - 1, !.conns = n].conns = n
          BY <5>1, <5>2, Resized
        <5> HIDE DEF d, n
        <5>4. \A q \in Pools : db'[q].conns = IF q = p THEN n ELSE db[q].conns
          BY <2>t, <5>1, <5>3 DEF Typed
        <5> QED BY <5>1, <5>2, <5>4 DEF d
      <4>2. ASSUME NEW p \in Pools, IdleConnectionCloses(p)
            PROVE  \E n \in Int :
                     /\ n <= db[p].conns
                     /\ \A q \in Pools : db'[q].conns = IF q = p THEN n ELSE db[q].conns
        <5>1. /\ db[p] \in [open : BOOLEAN, conns : Int, busy : Int]
              /\ db' = [db EXCEPT ![p] = [db[p] EXCEPT !.conns = @ - 1]]
          BY <4>2, <2>t DEF IdleConnectionCloses, Typed
        <5>2. \A q \in Pools : db'[q].conns = IF q = p THEN db[p].conns - 1 ELSE db[q].conns
          BY <2>t, <5>1 DEF Typed
        <5> QED BY <5>1, <5>2
      <4> QED BY <2>11, <4>1, <4>2
    <3>3. \A w \in Workspaces : pools[w] # NoPool =>
            db'[pools[w]].conns \in Int /\ db'[pools[w]].conns <= db[pools[w]].conns
      BY <2>t, <3>2 DEF Typed
    <3>4. OpenConnections' \subseteq OpenConnections
      BY <2>t, <3>1, <3>3, PoolsNoLarger
    <3> QED BY <3>1, <3>4, CommitsNoMore
  <2> HIDE DEF Within
  <2> QED
    BY <1>1, <2>1, <2>2, <2>3, <2>4, <2>5, <2>6, <2>7, <2>8, <2>9, <2>10, <2>11 DEF Next, Progress
<1>2. (Inv /\ Lent /\ Recorded /\ ReservationsMatch) /\ [Next]_vars
        => (Inv /\ Lent /\ Recorded /\ ReservationsMatch)'
  BY NextKeeps, NextTyped, NextLent, NextRecorded, NextCounts DEF Inv
<1>3. (Inv /\ Lent /\ Recorded /\ ReservationsMatch) /\ [Next]_vars => [Within]_vars
  BY <1>1, NextTyped DEF Inv
<1>4. Init => Inv /\ Lent /\ Recorded /\ ReservationsMatch
  BY InvAtFirst, SizesAtFirst, CountedAtFirst
<1> QED BY <1>2, <1>3, <1>4, PTL DEF Spec, CreationsWithinLimit
=============================================================================
