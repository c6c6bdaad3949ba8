---------------------------- MODULE BoundedBuffer ----------------------------
(***************************************************************************)
(* What the producer-consumer demo promises: the numbers 1, 2, ... go      *)
(* through a buffer of Capacity places in the order they were produced,    *)
(* and the consumer adds each of them once.                                *)
(***************************************************************************)
EXTENDS Integers, Sequences

CONSTANTS Capacity, Numbers

VARIABLES buffer, produced, sum

vars == <<buffer, produced, sum>>

Init == buffer = <<>> /\ produced = 0 /\ sum = 0

Put ==
    /\ produced < Numbers
    /\ Len(buffer) < Capacity
    /\ buffer' = Append(buffer, produced + 1)
    /\ produced' = produced + 1
    /\ UNCHANGED sum

Get ==
    /\ buffer # <<>>
    /\ sum' = sum + Head(buffer)
    /\ buffer' = Tail(buffer)
    /\ UNCHANGED produced

Next == Put \/ Get

Spec == Init /\ [][Next]_vars
=============================================================================
