-------------------------- MODULE MCProducerConsumer --------------------------
(* The demo with its own constants: ten numbers through five places. *)
EXTENDS ProducerConsumer, TLC

MCThread == {producer, consumer}
MCSem == {empty, full, lock}
MCFlag == [s \in MCSem |-> "FIFO"]
MCInitPrio == producer :> 10 @@ consumer :> 9
MCGiven == [t \in MCThread |-> {}]
MCInitValue == empty :> MAXSEM @@ full :> 0 @@ lock :> 1
=============================================================================
