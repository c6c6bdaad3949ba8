------------------------------- MODULE MCTimer -------------------------------
(* A one-shot and a periodic timer that a thread starts and stops, and one *)
(* that only a callback starts; the tick wraps after twelve.               *)
EXTENDS Timer, TLC

CONSTANTS once, often, third, worker

MCInitTick == once :> 3 @@ often :> 2 @@ third :> 3
MCManaged == worker :> {once, often}
MCStarts == {<<once, third>>}
MCStops == {<<often, often>>, <<often, third>>}
MCSelfStart == {<<once, once>>}
=============================================================================
