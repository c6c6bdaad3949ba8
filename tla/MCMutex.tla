------------------------------- MODULE MCMutex -------------------------------
(* Three threads of three priorities. *)
EXTENDS Mutex, TLC

CONSTANTS hi, mid, lo

MCThread == {hi, mid, lo}
MCPrio == hi :> 0 @@ mid :> 1 @@ lo :> 2
=============================================================================
