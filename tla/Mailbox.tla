------------------------------ MODULE Mailbox ------------------------------
(***************************************************************************)
(* The command inbox of the orchestrator: the only way any goroutine       *)
(* reaches the event loop.  send() takes sendMu, refuses when the loop has *)
(* exited, counts the command in inflight and puts it into the bounded     *)
(* channel WHILE HOLDING sendMu.  A sender that finds the channel full     *)
(* therefore sleeps with the mutex held, and every other sender, and the   *)
(* loop's own exit test, waits for it.                                     *)
(*                                                                         *)
(* A process that is inside send() has its command in outgoing.            *)
(***************************************************************************)
EXTENDS Integers, Sequences

CONSTANTS
    Procs,      \* the goroutines that send commands
    InboxCap,   \* capacity of the channel (4096 in the code)
    Free        \* sendMu is unlocked

ASSUME MailboxAssumption ==
    /\ InboxCap \in Nat \ {0}
    /\ Free \notin Procs

VARIABLES
    inbox,      \* the buffered channel
    sendMu,     \* Free, or the sender asleep on the full channel
    outgoing,   \* the command each process is sending, NoCmd when it is not
    inflight,   \* commands submitted and not handled to the end
    exited      \* the loop will receive no more

mailVars == <<inbox, sendMu, outgoing, inflight, exited>>

NoCmd == [type |-> "none"]

MailboxInit ==
    /\ inbox = <<>>
    /\ sendMu = Free
    /\ outgoing = [p \in Procs |-> NoCmd]
    /\ inflight = 0
    /\ exited = FALSE

Idle(p) == outgoing[p] = NoCmd

\* p is about to call send(c); the caller adds what it does before the call.
Submit(p, c) == outgoing' = [outgoing EXCEPT ![p] = c]

\* Mutant: every send counts when it enters the channel, so one that slept is
\* counted twice.
EnqueueCountedTwice(p) ==
    /\ ~Idle(p) /\ sendMu \in {Free, p} /\ ~exited /\ Len(inbox) < InboxCap
    /\ inbox' = Append(inbox, outgoing[p])
    /\ inflight' = inflight + 1
    /\ sendMu' = Free
    /\ outgoing' = [outgoing EXCEPT ![p] = NoCmd]
    /\ UNCHANGED exited

\* Mutant: the channel takes one command more than its capacity.
EnqueueOverfull(p) ==
    /\ ~Idle(p) /\ sendMu \in {Free, p} /\ ~exited /\ Len(inbox) <= InboxCap
    /\ inbox' = Append(inbox, outgoing[p])
    /\ inflight' = IF sendMu = p THEN inflight ELSE inflight + 1
    /\ sendMu' = Free
    /\ outgoing' = [outgoing EXCEPT ![p] = NoCmd]
    /\ UNCHANGED exited

\* A send that finds the loop alive and room in the channel.  The lock, the
\* test of exited, the count and the channel operation are one step: only
\* the loop touches the channel meanwhile, and it only makes more room.  A
\* sender that slept on the full channel was counted when it began to sleep.
Enqueue(p) ==
    /\ ~Idle(p)
    /\ sendMu \in {Free, p}
    /\ ~exited
    /\ Len(inbox) < InboxCap
    /\ inbox' = Append(inbox, outgoing[p])
    /\ inflight' = IF sendMu = p THEN inflight ELSE inflight + 1
    /\ sendMu' = Free
    /\ outgoing' = [outgoing EXCEPT ![p] = NoCmd]
    /\ UNCHANGED exited

\* A send that finds the channel full: counted, and asleep holding sendMu.
Block(p) ==
    /\ ~Idle(p)
    /\ sendMu = Free
    /\ ~exited
    /\ Len(inbox) = InboxCap
    /\ sendMu' = p
    /\ inflight' = inflight + 1
    /\ UNCHANGED <<inbox, outgoing, exited>>

\* A send after the loop has exited returns false.
Reject(p) ==
    /\ ~Idle(p)
    /\ sendMu = Free
    /\ exited
    /\ outgoing' = [outgoing EXCEPT ![p] = NoCmd]
    /\ UNCHANGED <<inbox, sendMu, inflight, exited>>
=============================================================================
