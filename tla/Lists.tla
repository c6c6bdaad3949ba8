-------------------------------- MODULE Lists --------------------------------
(***************************************************************************)
(* The intrusive lists of RT-Thread (rtservice.h), as sequences, and the   *)
(* order in which an IPC object keeps the threads that wait on it.         *)
(***************************************************************************)
EXTENDS Integers, Sequences

Elements(s) == {s[i] : i \in 1..Len(s)}

\* rt_list_remove: the sequence s without its element x; a node that is on no
\* list is linked to itself, so removing it changes nothing.
Without(s, x) ==
    IF \E i \in 1..Len(s) : s[i] = x
      THEN LET i == CHOOSE i \in 1..Len(s) : s[i] = x
           IN  SubSeq(s, 1, i - 1) \o SubSeq(s, i + 1, Len(s))
      ELSE s

\* rt_list_insert_before the i-th element.
InsertedAt(s, i, x) == SubSeq(s, 1, i - 1) \o <<x>> \o SubSeq(s, i, Len(s))

\* The waiters of s that a thread of priority p goes in front of.
Behind(s, p, prio) == {i \in 1..Len(s) : p < prio[s[i]]}

\* Fault: <= for <, the newcomer overtakes waiters of its own priority.
EnqueuedOvertaking(s, t, flag, prio) ==
    LET behind == {i \in 1..Len(s) : prio[t] <= prio[s[i]]}
    IN  IF flag = "PRIO" /\ behind # {}
          THEN InsertedAt(s, CHOOSE i \in behind : \A j \in behind : i <= j, t)
          ELSE Append(s, t)

\* rt_ipc_list_suspend: the waiting list with t added, at the end for
\* RT_IPC_FLAG_FIFO, before the first thread of a lower priority for
\* RT_IPC_FLAG_PRIO.
Enqueued(s, t, flag, prio) ==
    LET behind == Behind(s, prio[t], prio)
    IN  IF flag = "PRIO" /\ behind # {}
          THEN InsertedAt(s, CHOOSE i \in behind : \A j \in behind : i <= j, t)
          ELSE Append(s, t)
=============================================================================
