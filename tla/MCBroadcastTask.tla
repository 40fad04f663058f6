--------------------------- MODULE MCBroadcastTask ---------------------------
(* Instances of BroadcastTask for TLC: each names the disturbances its       *)
(* behaviours may meet, and how many of each.                                *)
EXTENDS BroadcastTask, TLC

CONSTANTS x1, x2, u1

NoneOf == [k \in Disturbances |-> 0]

(* A replica dies, one is shut down, an execution overruns its deadline, a   *)
(* dispatch is lost and batches fail.                                        *)
Unattended ==
    ("crash" :> 1) @@ ("hangup" :> 1) @@ ("overrun" :> 1) @@ ("lost" :> 1)
        @@ ("error" :> 2) @@ NoneOf

(* The console is used, the recipient feed fails and so does a save. *)
Operated ==
    ("op" :> 2) @@ ("rollback" :> 1) @@ ("feed" :> 1) @@ ("unsaved" :> 1)
        @@ NoneOf

(* A replica dies, batches fail and the console is used once. *)
Mishaps == ("crash" :> 1) @@ ("error" :> 2) @@ ("op" :> 1) @@ NoneOf

Interchangeable == Permutations(Executions)
=============================================================================
