----------------------------- MODULE MCScheduler -----------------------------
(* Small instances of Scheduler. *)
EXTENDS Scheduler, TLC

CONSTANTS main, idle, a, b, c

MCThread == {main, idle, a, b, c}
MCThread4 == {main, idle, a, b}
MCPriorities == main :> 1 @@ idle :> 2 @@ a :> 0 @@ b :> 1 @@ c :> 1
MCEqual == main :> 0 @@ idle :> 1 @@ a :> 0 @@ b :> 0
=============================================================================
