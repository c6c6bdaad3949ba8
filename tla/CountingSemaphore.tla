-------------------------- MODULE CountingSemaphore --------------------------
(***************************************************************************)
(* What a semaphore promises: a take succeeds only by consuming a token    *)
(* that was there initially or was released, and no token is consumed by a *)
(* take that fails.                                                        *)
(***************************************************************************)
EXTENDS Integers

CONSTANTS Thread, Sem, InitValue, NoSem, Resettable

VARIABLES
    avail,      \* tokens of each semaphore
    wants,      \* the semaphore a thread is inside rt_sem_take of, or NoSem
    result      \* what the last rt_sem_take of a thread returned

vars == <<avail, wants, result>>

Init ==
    /\ avail = InitValue
    /\ wants = [t \in Thread |-> NoSem]
    /\ result = [t \in Thread |-> "EOK"]

\* Thread t consumes a token, at once or after it waited.
Take(t, s) ==
    /\ wants[t] \in {NoSem, s}
    /\ avail[s] > 0
    /\ avail' = [avail EXCEPT ![s] = @ - 1]
    /\ wants' = [wants EXCEPT ![t] = NoSem]
    /\ result' = [result EXCEPT ![t] = "EOK"]

\* Thread t starts to wait.
Ask(t, s) ==
    /\ wants[t] = NoSem
    /\ wants' = [wants EXCEPT ![t] = s]
    /\ UNCHANGED <<avail, result>>

\* A take fails, at once or after a wait, and leaves the tokens alone.
Fail(t) ==
    /\ wants' = [wants EXCEPT ![t] = NoSem]
    /\ \E e \in {"ETIMEOUT", "ERROR"} : result' = [result EXCEPT ![t] = e]
    /\ UNCHANGED avail

Release(s) ==
    /\ UNCHANGED <<wants, result>>
    /\ avail' = [avail EXCEPT ![s] = @ + 1]

\* An interrupt handler consumes a token.
TakeIsr(s) ==
    /\ UNCHANGED <<wants, result>>
    /\ avail[s] > 0
    /\ avail' = [avail EXCEPT ![s] = @ - 1]

\* The tokens not yet promised to a thread are replaced by any number.
Reset(s) ==
    /\ UNCHANGED <<wants, result>>
    /\ avail'[s] \in Nat
    /\ avail' = [avail EXCEPT ![s] = avail'[s]]

Next ==
    \/ \E s \in Sem : Release(s) \/ TakeIsr(s) \/ (s \in Resettable /\ Reset(s))
    \/ \E t \in Thread : Fail(t) \/ \E s \in Sem : Take(t, s) \/ Ask(t, s)

Spec == Init /\ [][Next]_vars
=============================================================================
