------------------------------- MODULE Mailbox -------------------------------
(***************************************************************************)
(* RT-Thread mailboxes: rt_mb_send_wait and rt_mb_recv with their retry    *)
(* loops, sends by interrupt handlers, and rt_mb_control.  Receivers wait  *)
(* while the mailbox is empty, senders while it is full, on a list each.   *)
(***************************************************************************)
EXTENDS Waiters

CONSTANTS
    Size            \* mb->size

ASSUME MailboxAssumption ==
    /\ Size \in Nat \ {0}
    /\ {"mb_receivers", "mb_senders"} \subseteq List

VARIABLES
    pool,           \* mb->msg_pool
    entry,          \* mb->entry
    inOffset,       \* mb->in_offset
    outOffset,      \* mb->out_offset
    mbResult        \* what the last call of a thread gave it: a mail,
                    \* "EOK", or "failed" for the error codes

mbVars == <<pool, entry, inOffset, outOffset, mbResult>>

Sending(m) == [op |-> "send", arg |-> m]
Receiving == [op |-> "receive", arg |-> "EOK"]

\* rt_mb_init
MbInit ==
    /\ pool = [i \in 0..(Size - 1) |-> NoMessage]
    /\ entry = 0
    /\ inOffset = 0
    /\ outOffset = 0
    /\ mbResult = [t \in Thread |-> "EOK"]

\* A call of t on the mailbox has not returned yet.
MbWaits(t) == mbResult' = [mbResult EXCEPT ![t] = "EOK"]

\* A call of t on the mailbox returns r.
MbReturns(t, r) ==
    /\ Leaves(t)
    /\ mbResult' = [mbResult EXCEPT ![t] = r]

\* Fault: an offset runs one place too far.
NextOffsetLate(i) == IF i + 1 > Size THEN 0 ELSE i + 1

\* An offset moves on.
NextOffset(i) == IF i + 1 >= Size THEN 0 ELSE i + 1

\* Fault: a receiver is woken only if the mailbox was empty.
PutWakesIfEmpty(m, running) ==
    /\ entry < Size
    /\ pool' = [pool EXCEPT ![inOffset] = m]
    /\ inOffset' = NextOffset(inOffset)
    /\ entry' = entry + 1
    /\ IF entry = 0 THEN ResumeFirst("mb_receivers", running)
       ELSE /\ state' = [t \in Thread |-> IF t \in running THEN "run" ELSE state[t]]
            /\ UNCHANGED waiting
    /\ UNCHANGED outOffset

\* A mail enters the mailbox, and the first receiver is woken.
Put(m, running) ==
    /\ entry < Size
    /\ pool' = [pool EXCEPT ![inOffset] = m]
    /\ inOffset' = NextOffset(inOffset)
    /\ entry' = entry + 1
    /\ ResumeFirst("mb_receivers", running)
    /\ UNCHANGED outOffset

\* The mailbox is full: rt_mb_send_wait returns, or t waits for a place.
NoPlace(t, m, left) ==
    /\ entry = Size
    /\ IF ~ left
         THEN /\ state' = [state EXCEPT ![t] = "run"]
              /\ MbReturns(t, "failed")
              /\ UNCHANGED waiting
         ELSE SuspendOn("mb_senders", t, Sending(m)) /\ MbWaits(t)
    /\ UNCHANGED <<pool, entry, inOffset, outOffset>>

\* rt_mb_send_wait, or rt_mb_send without time to wait.
MbSend(t, m, left) ==
    /\ Idle(t)
    /\ \/ Put(m, {t}) /\ MbReturns(t, "EOK")
       \/ NoPlace(t, m, left)

\* rt_mb_send_wait after rt_schedule, woken by a receiver: the place may be
\* taken again.
MbSendAgain(t) ==
    /\ state[t] = "woken"
    /\ \E m \in Message :
         /\ call[t] = Sending(m)
         /\ \/ Put(m, {t}) /\ MbReturns(t, "EOK")
            \/ \E left \in BOOLEAN : NoPlace(t, m, left)

\* rt_mb_send by an interrupt handler.
MbSendIsr(m) ==
    /\ Put(m, {})
    /\ UNCHANGED <<call, mbResult>>

\* Fault: nobody waits for the place.
GetSilently(t) ==
    /\ entry > 0
    /\ MbReturns(t, pool[outOffset])
    /\ outOffset' = NextOffset(outOffset)
    /\ entry' = entry - 1
    /\ state' = [state EXCEPT ![t] = "run"]
    /\ UNCHANGED <<waiting, pool, inOffset>>

\* A mail leaves the mailbox, and the first sender is woken.
Get(t) ==
    /\ entry > 0
    /\ MbReturns(t, pool[outOffset])
    /\ outOffset' = NextOffset(outOffset)
    /\ entry' = entry - 1
    /\ ResumeFirst("mb_senders", {t})
    /\ UNCHANGED <<pool, inOffset>>

\* The mailbox is empty: rt_mb_recv returns, or t waits for a mail.
NoMail(t, left) ==
    /\ entry = 0
    /\ IF ~ left
         THEN /\ state' = [state EXCEPT ![t] = "run"]
              /\ MbReturns(t, "failed")
              /\ UNCHANGED waiting
         ELSE SuspendOn("mb_receivers", t, Receiving) /\ MbWaits(t)
    /\ UNCHANGED <<pool, entry, inOffset, outOffset>>

\* rt_mb_recv
MbRecv(t, left) ==
    /\ Idle(t)
    /\ Get(t) \/ NoMail(t, left)

\* rt_mb_recv after rt_schedule, woken by a sender: the mail may be gone.
MbRecvAgain(t) ==
    /\ state[t] = "woken"
    /\ call[t] = Receiving
    /\ Get(t) \/ \E left \in BOOLEAN : NoMail(t, left)

\* The wait of t on the mailbox failed.
MbFails(t) ==
    /\ WaitFails(t)
    /\ mbResult' = [mbResult EXCEPT ![t] = "failed"]
    /\ UNCHANGED <<pool, entry, inOffset, outOffset>>

\* rt_mb_control with RT_IPC_CMD_RESET
MbReset ==
    /\ ResumeAll({"mb_receivers", "mb_senders"})
    /\ entry' = 0
    /\ inOffset' = 0
    /\ outOffset' = 0
    /\ UNCHANGED <<pool, mbResult>>

MbNext ==
    \/ \E t \in Thread :
         \/ \E left \in BOOLEAN : MbRecv(t, left)
         \/ \E m \in Message, left \in BOOLEAN : MbSend(t, m, left)
         \/ MbRecvAgain(t) \/ MbSendAgain(t) \/ MbFails(t)
         \/ Timeout(t) /\ UNCHANGED mbVars
    \/ \E m \in Message : MbSendIsr(m)
    \/ MbReset

MbSpec == WaitersInit /\ MbInit /\ [][MbNext]_<<waitVars, mbVars>>

-----------------------------------------------------------------------------
(* Properties *)

\* The mails in the mailbox, oldest first.
Mails == [i \in 1..entry |-> pool[(outOffset + i - 1) % Size]]

\* A receiver sleeps next to a mail, or a sender next to a free place, only if
\* somebody is awake for each of them: a mail (a place) that a woken thread
\* finds taken by another was counted out by a wake-up of its own.
MailboxWakes ==
    /\ waiting["mb_receivers"] # <<>> => entry <= Cardinality(Woken("receive"))
    /\ waiting["mb_senders"] # <<>> => Size - entry <= Cardinality(Woken("send"))

\* The mailbox is a channel: mails are received in the order they were sent, by
\* one thread each, also when a sender and a receiver go round their loops.
MailCall ==
    [t \in Thread |-> IF call[t] # NoCall /\ call[t].op \in {"send", "receive"}
                        THEN call[t] ELSE NoCall]
MailChannel == INSTANCE Channel WITH queue <- Mails, call <- MailCall,
                                     result <- mbResult, Capacity <- Size
MailboxIsChannel == MailChannel!Spec
=============================================================================
