---------------------------- MODULE WatchProofs -----------------------------
(***************************************************************************)
(* Proofs about WatchLoop: types, and that the debounce loses no change.   *)
(* QuietMeansCurrent speaks of an idle loop only.  It is inductive once it *)
(* says, for every place of the loop, what keeps the promise meanwhile: a  *)
(* queued event that will start the timer, the timer itself, or a callback *)
(* about to look at the file.                                              *)
(***************************************************************************)
EXTENDS WatchLoop, SequenceTheorems, TLAPS

Pending == \E i \in 1..Len(queue) : queue[i] \in Followed

Awaited == Pending \/ timer # "off" \/ loop = "reading"

Kept == Settled /\ loop # "done" => seen = Content \/ Awaited

WatchInv == TypeOK /\ Kept

\* A change the loop follows is queued, or is counted as unseen.
LEMMA NotifyIsSeen ==
    ASSUME TypeOK, NEW op \in Followed, Notify(op), UNCHANGED <<form, loop>>
    PROVE  unseen' \/ Pending'
<1>1. CASE ~Watched \/ Len(queue) >= QueueCap
  BY <1>1 DEF Notify
<1>2. CASE Watched /\ Len(queue) < QueueCap
  <2>1. queue' = Append(queue, op)
    BY <1>2, WatchAssumption DEF Notify, TypeOK
  <2>2. Len(queue') = Len(queue) + 1 /\ queue'[Len(queue) + 1] = op
    BY <2>1 DEF TypeOK, Followed, Ops
  <2>3. Len(queue) + 1 \in 1..Len(queue')
    BY <2>2 DEF TypeOK
  <2> QED
    BY <2>2, <2>3 DEF Pending, Followed
<1> QED
  BY <1>1, <1>2, WatchAssumption DEF TypeOK

\* What was queued stays queued.
LEMMA NotifyKeeps ==
    ASSUME TypeOK, NEW op \in Ops, Notify(op), UNCHANGED form, Pending
    PROVE  Pending'
<1>1. PICK i \in 1..Len(queue) : queue[i] \in Followed
  BY DEF Pending
<1>2. queue' = queue \/ queue' = Append(queue, op) \/ queue' = Append(queue, Overflow)
  BY WatchAssumption DEF Notify, TypeOK
<1>3. i \in 1..Len(queue') /\ queue'[i] = queue[i]
  <2>1. ASSUME NEW x \in Ops \cup {Overflow}, queue' = Append(queue, x)
        PROVE  i \in 1..Len(queue') /\ queue'[i] = queue[i]
    BY <1>1, <2>1 DEF TypeOK
  <2> QED
    BY <1>1, <1>2, <2>1
<1> QED
  BY <1>1, <1>3 DEF Pending, Followed

LEMMA NotifyTyped ==
    ASSUME TypeOK, NEW op \in Ops, Notify(op)
    PROVE  /\ queue' \in Seq(Ops \cup {Overflow}) /\ Len(queue') <= QueueCap + 1
           /\ unseen' \in BOOLEAN
<1>1. unseen' \in BOOLEAN
  BY DEF Notify, TypeOK
<1>2. CASE queue' = queue
  BY <1>1, <1>2 DEF TypeOK
<1>3. CASE /\ Len(queue) <= QueueCap
           /\ queue' = Append(queue, op) \/ queue' = Append(queue, Overflow)
  <2>1. ASSUME NEW x \in Ops \cup {Overflow}, queue' = Append(queue, x)
        PROVE  queue' \in Seq(Ops \cup {Overflow}) /\ Len(queue') = Len(queue) + 1
    BY <2>1 DEF TypeOK
  <2>2. queue' \in Seq(Ops \cup {Overflow}) /\ Len(queue') = Len(queue) + 1
    BY <1>3, <2>1
  <2> QED
    BY <1>1, <1>3, <2>2, WatchAssumption DEF TypeOK
<1>4. \/ queue' = queue
      \/ /\ Len(queue) <= QueueCap
         /\ queue' = Append(queue, op) \/ queue' = Append(queue, Overflow)
  BY WatchAssumption DEF Notify, TypeOK
<1> QED
  BY <1>2, <1>3, <1>4

\* Taking an event that is not followed loses nothing.
LEMMA TakeKeeps ==
    ASSUME TypeOK, queue # <<>>, queue' = Tail(queue), Head(queue) \notin Followed,
           UNCHANGED form, Pending
    PROVE  Pending'
<1>1. PICK i \in 1..Len(queue) : queue[i] \in Followed
  BY DEF Pending
<1>2. i # 1
  BY <1>1 DEF TypeOK
<1>3. i - 1 \in 1..Len(queue') /\ queue'[i - 1] = queue[i]
  BY <1>1, <1>2 DEF TypeOK
<1> QED
  BY <1>1, <1>3 DEF Pending, Followed

LEMMA FileStepKeeps == ASSUME WatchInv, FileStep \/ EndWrite PROVE WatchInv'
<1> USE WatchAssumption DEF WatchInv
<1>1. ASSUME NEW op \in Ops, Notify(op), UNCHANGED <<form, loop, timer, seen, askVars>>,
             torn' \in BOOLEAN, file' \in 0..MaxSteps + 1, steps' \in Nat
      PROVE  TypeOK'
  BY <1>1, NotifyTyped DEF TypeOK, askVars
<1>2. ASSUME NEW op \in Ops, Notify(op), UNCHANGED <<form, loop, timer, seen>>,
             op \in Followed \/ (Settled' => Settled /\ Content' = Content)
      PROVE  Kept'
  <2>1. CASE op \in Followed
    <3>1. unseen' \/ Pending'
      BY <1>2, <2>1, NotifyIsSeen
    <3> QED
      BY <3>1 DEF Kept, Awaited, Settled
  <2>2. CASE Settled' => Settled /\ Content' = Content
    <3>1. Pending => Pending'
      BY <1>2, NotifyKeeps
    <3> QED
      BY <1>2, <2>2, <3>1 DEF Kept, Awaited
  <2> QED
    BY <1>2, <2>1, <2>2
<1>3. CASE BeginWrite
  <2>1. PICK op \in {"create", "write"} : Notify(op)
    BY <1>3 DEF BeginWrite
  <2>2. op \in Ops /\ op \in Followed
    BY DEF Ops, Followed
  <2>3. TypeOK'
    BY <1>1, <1>3, <2>1, <2>2 DEF BeginWrite, Touch, TypeOK
  <2>4. Kept'
    BY <1>2, <1>3, <2>1, <2>2 DEF BeginWrite, Touch
  <2> QED
    BY <2>3, <2>4
<1>4. CASE SaveAtomically
  <2>1. "create" \in Ops /\ "create" \in Followed
    BY DEF Ops, Followed
  <2>2. TypeOK'
    BY <1>1, <1>4, <2>1 DEF SaveAtomically, Touch, TypeOK
  <2>3. Kept'
    BY <1>2, <1>4, <2>1 DEF SaveAtomically, Touch
  <2> QED
    BY <2>2, <2>3
<1>5. CASE MoveAway
  <2>1. PICK op \in {"rename", "remove"} : Notify(op)
    BY <1>5 DEF MoveAway
  <2>2. op \in Ops /\ (op \in Followed \/ ~Settled')
    BY <1>5 DEF Ops, Followed, MoveAway, Touch, Settled
  <2>3. TypeOK'
    BY <1>1, <1>5, <2>1, <2>2 DEF MoveAway, Touch, TypeOK
  <2>4. Kept'
    BY <1>2, <1>5, <2>1, <2>2 DEF MoveAway, Touch
  <2> QED
    BY <2>3, <2>4
<1>6. CASE Chmod
  <2>1. "chmod" \in Ops
    BY DEF Ops
  <2>2. TypeOK'
    BY <1>1, <1>6, <2>1 DEF Chmod, Touch, TypeOK
  <2>3. Settled' => Settled /\ Content' = Content
    BY <1>6 DEF Chmod, Touch, Settled, Content, Notify, TypeOK
  <2>4. Kept'
    BY <1>2, <1>6, <2>1, <2>3 DEF Chmod, Touch
  <2> QED
    BY <2>2, <2>4
<1>7. CASE EndWrite
  <2>1. "write" \in Ops /\ "write" \in Followed
    BY DEF Ops, Followed
  <2>2. TypeOK'
    BY <1>1, <1>7, <2>1 DEF EndWrite, TypeOK
  <2>3. Kept'
    BY <1>2, <1>7, <2>1 DEF EndWrite
  <2> QED
    BY <2>2, <2>3
<1> QED
  BY <1>3, <1>4, <1>5, <1>6, <1>7 DEF FileStep

LEMMA LoopStepKeeps == ASSUME WatchInv, LoopStep PROVE WatchInv'
<1> USE DEF WatchInv
<1>0. ASSUME queue # <<>>, queue' = Tail(queue)
      PROVE  queue' \in Seq(Ops \cup {Overflow}) /\ Len(queue') <= QueueCap + 1
  BY <1>0, WatchAssumption DEF TypeOK
<1>1. CASE Start
  BY <1>1 DEF Start, TypeOK, Kept, Awaited, Pending, Settled, Content, Followed, fileVars, askVars
<1>2. CASE TakeEvent
  <2>1. TypeOK'
    BY <1>0, <1>2 DEF TakeEvent, TypeOK, fileVars, askVars
  <2>2. Kept'
    <3>1. CASE Head(queue) \in Followed
      BY <1>2, <3>1 DEF TakeEvent, Kept, Awaited
    <3>2. CASE Head(queue) \notin Followed
      <4>1. Pending => Pending'
        BY <1>2, <3>2, TakeKeeps DEF TakeEvent
      <4> QED
        BY <1>2, <3>2, <4>1 DEF TakeEvent, Kept, Awaited, Settled, Content, fileVars
    <3> QED
      BY <3>1, <3>2
  <2> QED
    BY <2>1, <2>2
<1>3. CASE TakeError
  <2>1. TypeOK'
    BY <1>0, <1>3 DEF TakeError, TypeOK, fileVars, askVars
  <2>2. Head(queue) \notin Followed
    BY <1>3 DEF TakeError, Overflow, Followed, Ops
  <2>3. Pending => Pending'
    BY <1>3, <2>2, TakeKeeps DEF TakeError
  <2>4. Kept'
    BY <1>3, <2>3 DEF TakeError, Kept, Awaited, Settled, Content, fileVars
  <2> QED
    BY <2>1, <2>4
<1>4. CASE Fire
  BY <1>4 DEF Fire, TypeOK, Kept, Awaited, fileVars, askVars
<1>5. CASE Read
  BY <1>5 DEF Read, TypeOK, Kept, Content, fileVars, askVars
<1>6. CASE Lock \/ Return
  BY <1>6 DEF Lock, Return, TypeOK, Kept, Awaited, Pending, Settled, Content, Followed, fileVars, askVars
<1>7. CASE Stop
  BY <1>7 DEF Stop, TypeOK, Kept, fileVars, askVars
<1> QED
  BY <1>1, <1>2, <1>3, <1>4, <1>5, <1>6, <1>7 DEF LoopStep

\* The properties proved.
LEMMA WatchInvariant == Spec => []WatchInv
<1>1. Init => WatchInv
  <2>1. <<>> \in Seq(Ops \cup {Overflow}) /\ Len(<<>>) = 0
    OBVIOUS
  <2>2. Init => TypeOK
    <3>1. 1 \in 0..MaxSteps + 1 /\ 1 \in Nat /\ 0 <= QueueCap + 1
      BY WatchAssumption
    <3>2. <<1, FALSE>> \in (0..MaxSteps + 1) \X BOOLEAN
      BY <3>1
    <3>3. Init => /\ queue \in Seq(Ops \cup {Overflow}) /\ Len(queue) <= QueueCap + 1
                  /\ file \in 0..MaxSteps + 1 /\ steps \in Nat
                  /\ seen \in (0..MaxSteps + 1) \X BOOLEAN
      BY <2>1, <3>1, <3>2 DEF Init
    <3> QED
      BY <3>3 DEF Init, TypeOK
  <2>3. Init => Kept
    BY DEF Init, Kept, Content
  <2> QED
    BY <2>2, <2>3 DEF WatchInv
<1>2. WatchInv /\ [Next]_vars => WatchInv'
  <2> SUFFICES ASSUME WatchInv, [Next]_vars PROVE WatchInv'
    OBVIOUS
  <2>1. CASE FileStep \/ EndWrite
    BY <2>1, FileStepKeeps
  <2>2. CASE LoopStep
    BY <2>2, LoopStepKeeps
  <2> USE DEF WatchInv, TypeOK, Kept, Awaited, Pending, Settled, Content, Followed, fileVars,
              askVars
  <2>3. CASE TimerFires
    BY <2>3 DEF TimerFires
  <2>4. CASE Cancel
    BY <2>4 DEF Cancel
  <2>5. CASE Close
    BY <2>5 DEF Close
  <2>6. CASE Flip
    BY <2>6 DEF Flip
  <2>8. CASE Hold \/ Unhold
    BY <2>8 DEF Hold, Unhold
  <2>7. CASE UNCHANGED vars
    BY <2>7 DEF vars
  <2> QED
    BY <2>1, <2>2, <2>3, <2>4, <2>5, <2>6, <2>7, <2>8 DEF Next
<1> QED
  BY <1>1, <1>2, PTL DEF Spec

\* Types, and the bound on the queue.
THEOREM WatchTypeCorrect == Spec => []TypeOK
BY WatchInvariant, PTL DEF WatchInv

\* An idle loop has read what the file holds, whatever the order of events,
\* firings, callbacks and saves, for every number of saves and every capacity
\* of the queue (hmr.go:85-117, watch.go:129-158).
THEOREM DebounceLosesNothing == Spec => []QuietMeansCurrent
<1>1. WatchInv => QuietMeansCurrent
  BY DEF WatchInv, QuietMeansCurrent, Kept, Awaited, Pending, TypeOK
<1> QED
  BY <1>1, WatchInvariant, PTL
=============================================================================
