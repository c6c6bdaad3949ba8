----------------------------- MODULE MCSemaphore -----------------------------
(* Three threads of two priorities, one of which changes; one semaphore of
   each kind. *)
EXTENDS Semaphore, TLC

CONSTANTS h, l1, l2, byFifo, byPrio

MCThread == {h, l1, l2}
MCInitPrio == h :> 0 @@ l1 :> 1 @@ l2 :> 1
MCGiven == h :> {} @@ l1 :> {0, 1} @@ l2 :> {}
MCFlag == byFifo :> "FIFO" @@ byPrio :> "PRIO"
MCInitValue == byFifo :> 1 @@ byPrio :> 0
=============================================================================
