---------------------------- MODULE Orchestrator ----------------------------
(***************************************************************************)
(* The life cycle of fibers.  One event loop receives commands, handles    *)
(* each, and then settles: it visits every registered fiber, starts the    *)
(* pending ones whose dependencies are all provided and stops the active   *)
(* ones whose dependencies went away or were replaced, until a pass        *)
(* changes nothing.  Apply functions and the unwinding of contexts run in  *)
(* goroutines of their own and report back with a command.  Clients load,  *)
(* dispose, provide, withdraw and close at any time.                       *)
(*                                                                         *)
(* The loop reads the service table one key at a time, under a lock it     *)
(* takes for that key only, so everything else may happen between two of   *)
(* its reads; each read is a step of its own here.                         *)
(*                                                                         *)
(* There is one realm, every fiber is loaded from the root context, and    *)
(* nobody but the loop and its goroutines releases a fiber's context.      *)
(***************************************************************************)
EXTENDS Mailbox, Contexts, FiniteSets

CONSTANTS
    Users,      \* client goroutines
    Inject,     \* per fiber: the keys its component depends on
    Offers,     \* per fiber: the keys its Apply provides
    Readers,    \* fibers whose Apply reads its dependencies with Service()
    Flaky,      \* fibers whose Apply may fail of itself
    LateKeys,   \* keys clients may provide through Fiber.Context()
    Manual,     \* owners whose Provide inverses clients may call by hand
    RootKeys,   \* keys clients provide on the root context
    MaxOps      \* bound on the calls of the clients, Load and Close aside

ASSUME OrchestratorAssumption ==
    /\ Procs = Users \cup Fibers \cup {Root}
    /\ Users \cap Owners = {}
    /\ IsFiniteSet(Fibers)
    /\ Inject \in [Fibers -> SUBSET Keys]
    /\ Offers \in [Fibers -> SUBSET Keys]
    /\ Readers \subseteq Fibers
    /\ Flaky \subseteq Fibers
    /\ LateKeys \subseteq Keys
    /\ RootKeys \subseteq Keys
    /\ Manual \subseteq Owners
    /\ MaxOps \in Nat

VARIABLES
    \* the event loop
    pc,         \* where the loop is
    cur,        \* the fiber whose dependencies it looks at, Root when none
    why,        \* what the answer decides
    left,       \* the keys it has not read yet
    todo,       \* registered fibers this settle pass has not visited
    changed,    \* this settle pass has changed something
    stopping,   \* shutdown has begun
    \* fibers
    state,      \* FiberState, "none" before Load
    registry,   \* fibers the loop manages
    disposeRequested,
    failed,
    depSnap,    \* per fiber: the generation of each dependency it was built on
    \* the goroutines of Apply and unwind, and that of Close under Root
    job,        \* what the goroutine is doing
    toRead,     \* dependencies Apply has not read yet
    toProvide,  \* keys Apply has not provided yet
    seen,       \* per fiber: the generation of each dependency Apply read
    pending,    \* running goroutines of Apply and unwind
    \* the bound
    ops

loopVars == <<pc, cur, why, left, todo, changed>>
fiberVars == <<state, registry, disposeRequested, failed, depSnap>>
workVars == <<job, toRead, toProvide, seen, pending>>
vars == <<mailVars, svcVars, ctxVars, loopVars, stopping, fiberVars, workVars, ops>>

LoadCmd(f) == [type |-> "load", fiber |-> f]
DisposeCmd(f) == [type |-> "dispose", fiber |-> f]
UnwoundCmd(f) == [type |-> "unwound", fiber |-> f]
AppliedCmd(f, inv, err) == [type |-> "applied", fiber |-> f, inv |-> inv, err |-> err]
ServiceCmd == [type |-> "service"]

Cmd ==
    [type : {"load", "dispose", "unwound"}, fiber : Fibers]
    \cup [type : {"applied"}, fiber : Fibers, inv : BOOLEAN, err : BOOLEAN]
    \cup {ServiceCmd}

States == {"none", "pending", "loading", "active", "unloading", "failed", "gone"}
Jobs == {"idle", "apply", "unload", "unwind", "closing", "done"}

Init ==
    /\ MailboxInit
    /\ ServicesInit
    /\ ContextsInit
    /\ pc = "recv" /\ cur = Root /\ why = "idle" /\ left = {}
    /\ todo = {} /\ changed = FALSE /\ stopping = FALSE
    /\ state = [f \in Fibers |-> "none"]
    /\ registry = {}
    /\ disposeRequested = [f \in Fibers |-> FALSE]
    /\ failed = [f \in Fibers |-> FALSE]
    /\ depSnap = [f \in Fibers |-> [k \in Keys |-> 0]]
    /\ job = [o \in Owners |-> "idle"]
    /\ toRead = [f \in Fibers |-> {}]
    /\ toProvide = [f \in Fibers |-> {}]
    /\ seen = [f \in Fibers |-> [k \in Keys |-> 0]]
    /\ pending = 0
    /\ ops = 0
-----------------------------------------------------------------------------
(* Clients. *)

\* Load: the handle is made at once, the fiber enters the registry when the
\* loop handles the command.
Load(u, f) ==
    /\ Idle(u)
    /\ state[f] = "none"
    /\ IF ctx[Root] = "closed"
       THEN state' = [state EXCEPT ![f] = "failed"] /\ UNCHANGED outgoing
       ELSE state' = [state EXCEPT ![f] = "pending"] /\ Submit(u, LoadCmd(f))
    /\ UNCHANGED <<inbox, sendMu, inflight, exited, svcVars, ctxVars, loopVars, stopping,
                   registry, disposeRequested, failed, depSnap, workVars, ops>>

\* The handle reaches its users only when Load's own send has returned.
Returned(f) == state[f] # "none" /\ \A p \in Procs : outgoing[p] # LoadCmd(f)

Dispose(u, f) ==
    /\ Idle(u)
    /\ Returned(f)
    /\ ops < MaxOps /\ ops' = ops + 1
    /\ Submit(u, DisposeCmd(f))
    /\ UNCHANGED <<inbox, sendMu, inflight, exited, svcVars, ctxVars, loopVars, stopping,
                   fiberVars, workVars>>

\* Provide on the root context, or on the context Fiber.Context() returns.
\* The entry is there before the loop is told.
ProvideOn(u, o, k) ==
    /\ Idle(u)
    /\ k \in IF o = Root THEN RootKeys ELSE LateKeys
    /\ ops < MaxOps /\ ops' = ops + 1
    /\ ProvideIn(o, k)
    /\ Submit(u, ServiceCmd)
    /\ UNCHANGED <<inbox, sendMu, inflight, exited, loopVars, stopping, fiberVars, workVars>>

\* Mutant: a withdrawal by hand does not tell the loop.
WithdrawUntold(u, e) ==
    /\ Idle(u)
    /\ e.owner \in Manual
    /\ ops < MaxOps /\ ops' = ops + 1
    /\ DropEntry(e.seq)
    /\ UNCHANGED <<mailVars, ctxVars, loopVars, stopping, fiberVars, workVars>>

\* The inverse a Provide returned, called by hand.  Calling it again, or after
\* the context has unwound, does nothing.
Withdraw(u, e) ==
    /\ Idle(u)
    /\ e.owner \in Manual
    /\ ops < MaxOps /\ ops' = ops + 1
    /\ DropEntry(e.seq)
    /\ Submit(u, ServiceCmd)
    /\ UNCHANGED <<inbox, sendMu, inflight, exited, ctxVars, loopVars, stopping, fiberVars, workVars>>

\* Mutant: shutdown sets the flag and does not wake the loop.
CloseBeginUntold ==
    /\ job[Root] = "idle" /\ Idle(Root)
    /\ job' = [job EXCEPT ![Root] = "closing"]
    /\ stopping' = TRUE
    /\ UNCHANGED <<mailVars, svcVars, ctxVars, loopVars, fiberVars, toRead, toProvide, seen,
                   pending, ops>>

\* Close on the root: shutdown sets the flag, wakes the loop and waits for it
\* to exit; then the root context unwinds.
CloseBegin ==
    /\ job[Root] = "idle" /\ Idle(Root)
    /\ job' = [job EXCEPT ![Root] = "closing"]
    /\ stopping' = TRUE
    /\ Submit(Root, ServiceCmd)
    /\ UNCHANGED <<inbox, sendMu, inflight, exited, svcVars, ctxVars, loopVars, fiberVars,
                   toRead, toProvide, seen, pending, ops>>

CloseRewind ==
    /\ job[Root] = "closing"
    /\ exited
    /\ job' = [job EXCEPT ![Root] = "unwind"]
    /\ CloseScope(Root)
    /\ UNCHANGED <<mailVars, svcVars, loopVars, stopping, fiberVars, toRead, toProvide, seen,
                   pending, ops>>

CloseEnd ==
    /\ job[Root] = "unwind"
    /\ Idle(Root)
    /\ inverses[Root] = <<>>
    /\ job' = [job EXCEPT ![Root] = "done"]
    /\ UNCHANGED <<mailVars, svcVars, ctxVars, loopVars, stopping, fiberVars, toRead, toProvide,
                   seen, pending, ops>>
-----------------------------------------------------------------------------
(* Sending: any process inside send(). *)

Sending(p) ==
    /\ Enqueue(p) \/ Block(p)
    /\ UNCHANGED <<svcVars, ctxVars, loopVars, stopping, fiberVars, workVars, ops>>

\* The loop has exited: a fiber whose Load is refused is failed, every other
\* command is dropped.
Refusal(p) ==
    /\ Reject(p)
    /\ state' = [f \in Fibers |-> IF outgoing[p] = LoadCmd(f) THEN "failed" ELSE state[f]]
    /\ UNCHANGED <<svcVars, ctxVars, loopVars, stopping, registry, disposeRequested, failed,
                   depSnap, workVars, ops>>
-----------------------------------------------------------------------------
(* The goroutine of f: its component's Apply, or the unwinding of its      *)
(* context.                                                                *)

ApplyRead(f, k) ==
    /\ job[f] = "apply"
    /\ k \in toRead[f]
    /\ Visible(k) # 0
    /\ toRead' = [toRead EXCEPT ![f] = @ \ {k}]
    /\ seen' = [seen EXCEPT ![f][k] = Visible(k)]
    /\ UNCHANGED <<mailVars, svcVars, ctxVars, loopVars, stopping, fiberVars, job, toProvide,
                   pending, ops>>

ApplyProvide(f, k) ==
    /\ job[f] = "apply" /\ Idle(f)
    /\ toRead[f] = {}
    /\ k \in toProvide[f]
    /\ toProvide' = [toProvide EXCEPT ![f] = @ \ {k}]
    /\ ProvideIn(f, k)
    /\ Submit(f, ServiceCmd)
    /\ UNCHANGED <<inbox, sendMu, inflight, exited, loopVars, stopping, fiberVars, job, toRead,
                   seen, pending, ops>>

\* The goroutine of f ends: pending first, the report second.
Report(f, c) ==
    /\ job' = [job EXCEPT ![f] = "idle"]
    /\ pending' = pending - 1
    /\ Submit(f, c)

\* Mutant: Apply returns before it has provided everything.
ApplyReturnEarly(f) ==
    /\ job[f] = "apply" /\ Idle(f)
    /\ toRead[f] = {}
    /\ effect' = [effect EXCEPT ![f] = TRUE]
    /\ Report(f, AppliedCmd(f, TRUE, FALSE))
    /\ UNCHANGED <<inbox, sendMu, inflight, exited, svcVars, ctx, inverses, loopVars, stopping,
                   fiberVars, toRead, toProvide, seen, ops>>

ApplyReturn(f) ==
    /\ job[f] = "apply" /\ Idle(f)
    /\ toRead[f] = {} /\ toProvide[f] = {}
    /\ effect' = [effect EXCEPT ![f] = TRUE]
    /\ Report(f, AppliedCmd(f, TRUE, FALSE))
    /\ UNCHANGED <<inbox, sendMu, inflight, exited, svcVars, ctx, inverses, loopVars, stopping,
                   fiberVars, toRead, toProvide, seen, ops>>

\* Apply returns an error: a dependency it reads is gone, a Provide is refused,
\* or its own work failed; with or without an inverse for what it did before.
ApplyFail(f, inv) ==
    /\ job[f] = "apply" /\ Idle(f)
    /\ \/ \E k \in toRead[f] : Visible(k) = 0
       \/ toRead[f] = {} /\ \E k \in toProvide[f] : Refused(k, f)
       \/ f \in Flaky
    /\ effect' = [effect EXCEPT ![f] = inv]
    /\ toRead' = [toRead EXCEPT ![f] = {}]
    /\ toProvide' = [toProvide EXCEPT ![f] = {}]
    /\ Report(f, AppliedCmd(f, inv, TRUE))
    /\ UNCHANGED <<inbox, sendMu, inflight, exited, svcVars, ctx, inverses, loopVars, stopping,
                   fiberVars, seen, ops>>

UnwindBegin(f) ==
    /\ job[f] = "unload"
    /\ job' = [job EXCEPT ![f] = "unwind"]
    /\ CloseScope(f)
    /\ UNCHANGED <<mailVars, svcVars, loopVars, stopping, fiberVars, toRead, toProvide, seen,
                   pending, ops>>

\* One inverse, of a fiber or of the root.  The loop is told when an entry
\* really left the table.
UnwindStep(o) ==
    /\ job[o] = "unwind" /\ Idle(o)
    /\ RunInverse(o)
    /\ IF Present(NextInverse(o)) THEN Submit(o, ServiceCmd) ELSE UNCHANGED outgoing
    /\ UNCHANGED <<inbox, sendMu, inflight, exited, loopVars, stopping, fiberVars, workVars, ops>>

UnwindEnd(f) ==
    /\ job[f] = "unwind" /\ Idle(f)
    /\ inverses[f] = <<>>
    /\ Report(f, UnwoundCmd(f))
    /\ UNCHANGED <<inbox, sendMu, inflight, exited, svcVars, ctxVars, loopVars, stopping,
                   fiberVars, toRead, toProvide, seen, ops>>
-----------------------------------------------------------------------------
(* The event loop: steps that several handlers share. *)

\* Go and read the dependencies of f; the answer decides what w says.
Consult(f, w) ==
    /\ pc' = "deps"
    /\ cur' = f
    /\ why' = w
    /\ left' = Inject[f]

\* The decision is taken: back to the visits of the pass, or, at the end of a
\* handler, on to settle.
Decided ==
    /\ pc' = IF why \in {"pending", "active"} THEN "visit" ELSE "settle"
    /\ cur' = Root
    /\ why' = "idle"
    /\ left' = {}

\* beginUnload and removeFiber, less the variables their callers share.
StartUnload(S) ==
    /\ state' = [f \in Fibers |-> IF f \in S THEN "unloading" ELSE state[f]]
    /\ job' = [o \in Owners |-> IF o \in S THEN "unload" ELSE job[o]]
    /\ pending' = pending + Cardinality(S)
    /\ UNCHANGED <<registry, depSnap, toRead, toProvide, seen>>

Remove(f, terminal) ==
    /\ registry' = registry \ {f}
    /\ state' = [state EXCEPT ![f] = terminal]
    /\ UNCHANGED <<failed, depSnap, workVars>>

\* The loop takes the next command; the handler is part of the step.
Receive(type) ==
    /\ pc = "recv"
    /\ inbox # <<>>
    /\ Head(inbox).type = type
    /\ inbox' = Tail(inbox)
    /\ UNCHANGED <<sendMu, outgoing, inflight, exited, seq, provides, stopping, todo, changed, ops>>

ToSettle == pc' = "settle" /\ UNCHANGED <<cur, why, left>>

Subject == Head(inbox).fiber
-----------------------------------------------------------------------------
(* The event loop: handle(). *)

HandleLoad ==
    /\ Receive("load")
    /\ registry' = registry \cup {Subject}
    /\ ToSettle
    /\ UNCHANGED <<ctxVars, state, disposeRequested, failed, depSnap, workVars>>

HandleService ==
    /\ Receive("service")
    /\ ToSettle
    /\ UNCHANGED <<ctxVars, fiberVars, workVars>>

\* Mutant: a fiber being loaded is stopped under its running Apply.
HandleDisposeAtOnce ==
    /\ Receive("dispose")
    /\ ToSettle
    /\ disposeRequested' = [disposeRequested EXCEPT
           ![Subject] = @ \/ state[Subject] \in {"loading", "unloading", "active"}]
    /\ \/ state[Subject] = "pending" /\ Remove(Subject, "gone")
       \/ state[Subject] \in {"loading", "active"} /\ StartUnload({Subject}) /\ UNCHANGED failed
       \/ /\ state[Subject] \in {"unloading", "failed", "gone"}
          /\ UNCHANGED <<state, registry, failed, depSnap, workVars>>
    /\ UNCHANGED ctxVars

\* Mutant: a Dispose that arrives while the fiber is being loaded is forgotten.
HandleDisposeForgotten ==
    /\ Receive("dispose")
    /\ ToSettle
    /\ disposeRequested' = [disposeRequested EXCEPT
           ![Subject] = @ \/ state[Subject] \in {"unloading", "active"}]
    /\ \/ state[Subject] = "pending" /\ Remove(Subject, "gone")
       \/ state[Subject] = "active" /\ StartUnload({Subject}) /\ UNCHANGED failed
       \/ /\ state[Subject] \in {"loading", "unloading", "failed", "gone"}
          /\ UNCHANGED <<state, registry, failed, depSnap, workVars>>
    /\ UNCHANGED ctxVars

\* A pending fiber goes at once; one in transition finishes it first; an active
\* one is stopped for good; a terminated one is left alone.
HandleDispose ==
    /\ Receive("dispose")
    /\ ToSettle
    /\ disposeRequested' = [disposeRequested EXCEPT
           ![Subject] = @ \/ state[Subject] \in {"loading", "unloading", "active"}]
    /\ \/ state[Subject] = "pending" /\ Remove(Subject, "gone")
       \/ state[Subject] = "active" /\ StartUnload({Subject}) /\ UNCHANGED failed
       \/ /\ state[Subject] \in {"loading", "unloading", "failed", "gone"}
          /\ UNCHANGED <<state, registry, failed, depSnap, workVars>>
    /\ UNCHANGED ctxVars

\* Apply has returned: its inverse is kept, then the fiber is stopped if it
\* failed, was disposed of, or the system is stopping; otherwise the present
\* dependencies decide.
HandleApplied ==
    /\ Receive("applied")
    /\ IF Head(inbox).inv THEN KeepApplyInverse(Subject) ELSE UNCHANGED ctxVars
    /\ IF Head(inbox).err \/ disposeRequested[Subject] \/ stopping
       THEN /\ ToSettle
            /\ failed' = [failed EXCEPT ![Subject] = @ \/ Head(inbox).err]
            /\ StartUnload({Subject})
       ELSE /\ Consult(Subject, "applied")
            /\ UNCHANGED <<state, registry, failed, depSnap, workVars>>
    /\ UNCHANGED disposeRequested

\* Mutant: the dependencies are asked before disposal is.
HandleUnwoundRevived ==
    /\ Receive("unwound")
    /\ IF failed[Subject] \/ stopping
       THEN ToSettle /\ Remove(Subject, IF failed[Subject] THEN "failed" ELSE "gone")
       ELSE /\ Consult(Subject, "unwound")
            /\ UNCHANGED <<state, registry, failed, depSnap, workVars>>
    /\ UNCHANGED <<ctxVars, disposeRequested>>

\* The context has unwound: the fiber ends, or its dependencies decide whether
\* it is loaded again or waits.
HandleUnwound ==
    /\ Receive("unwound")
    /\ IF failed[Subject] \/ disposeRequested[Subject] \/ stopping
       THEN ToSettle /\ Remove(Subject, IF failed[Subject] THEN "failed" ELSE "gone")
       ELSE /\ Consult(Subject, "unwound")
            /\ UNCHANGED <<state, registry, failed, depSnap, workVars>>
    /\ UNCHANGED <<ctxVars, disposeRequested>>
-----------------------------------------------------------------------------
(* The event loop: depsSatisfied, depStale and captureDeps, key by key. *)

\* Mutant: an active fiber is judged by presence alone, not by generation.
UnfitIfMissing(f, k) == External(k, f) = 0

\* What makes the loop say no at key k: it is not provided, or, for an active
\* fiber, it is not the generation the fiber was built on.  (settle reads an
\* active fiber's keys twice, for presence and for generation; a key that is
\* absent the first time cannot show the old generation the second.)
Unfit(f, k) ==
    \/ External(k, f) = 0
    \/ why = "active" /\ External(k, f) # depSnap[f][k]

ReadOn(k) ==
    /\ pc = "deps"
    /\ k \in left
    /\ ~Unfit(cur, k)
    /\ left' = left \ {k}
    /\ UNCHANGED <<mailVars, svcVars, ctxVars, pc, cur, why, todo, changed, stopping, fiberVars,
                   workVars, ops>>

\* Mutant: a fiber that goes on waiting counts as a change.
DeclineChanged(k) ==
    /\ pc = "deps"
    /\ k \in left
    /\ Unfit(cur, k)
    /\ Decided
    /\ IF why \in {"applied", "active"}
       THEN StartUnload({cur}) /\ UNCHANGED failed
       ELSE /\ state' = [state EXCEPT ![cur] = "pending"]
            /\ UNCHANGED <<registry, failed, depSnap, workVars>>
    /\ changed' = (changed \/ why \in {"active", "pending"})
    /\ UNCHANGED <<mailVars, svcVars, ctxVars, todo, stopping, disposeRequested, ops>>

\* The first unfit key ends the reading: a fiber that was being loaded or is
\* active is stopped, one that has unwound waits, one that waits goes on waiting.
Decline(k) ==
    /\ pc = "deps"
    /\ k \in left
    /\ Unfit(cur, k)
    /\ Decided
    /\ IF why \in {"applied", "active"}
       THEN StartUnload({cur}) /\ UNCHANGED failed
       ELSE /\ state' = [state EXCEPT ![cur] = "pending"]
            /\ UNCHANGED <<registry, failed, depSnap, workVars>>
    /\ changed' = (changed \/ why = "active")
    /\ UNCHANGED <<mailVars, svcVars, ctxVars, todo, stopping, disposeRequested, ops>>

\* Every key was fit when it was read.  An active fiber stays; for the others
\* the generations are recorded, key by key, in the fiber's context, which is
\* a fresh one if a load begins.
Accept ==
    /\ pc = "deps"
    /\ left = {}
    /\ IF why = "active"
       THEN Decided /\ UNCHANGED ctxVars
       ELSE /\ pc' = "capture"
            /\ left' = Inject[cur]
            /\ UNCHANGED <<cur, why>>
            /\ IF why = "applied" THEN UNCHANGED ctxVars ELSE OpenScope(cur)
    /\ UNCHANGED <<mailVars, svcVars, todo, changed, stopping, fiberVars, workVars, ops>>

Capture(k) ==
    /\ pc = "capture"
    /\ k \in left
    /\ left' = left \ {k}
    /\ depSnap' = [depSnap EXCEPT ![cur][k] = External(k, cur)]
    /\ UNCHANGED <<mailVars, svcVars, ctxVars, pc, cur, why, todo, changed, stopping, state,
                   registry, disposeRequested, failed, workVars, ops>>

Activate ==
    /\ pc = "capture" /\ left = {} /\ why = "applied"
    /\ Decided
    /\ state' = [state EXCEPT ![cur] = "active"]
    /\ UNCHANGED <<mailVars, svcVars, ctxVars, todo, changed, stopping, registry,
                   disposeRequested, failed, depSnap, workVars, ops>>

\* beginLoad: the goroutine of Apply is started.
StartLoad ==
    /\ pc = "capture" /\ left = {} /\ why \in {"pending", "unwound"}
    /\ Decided
    /\ state' = [state EXCEPT ![cur] = "loading"]
    /\ job' = [job EXCEPT ![cur] = "apply"]
    /\ toRead' = [toRead EXCEPT ![cur] = IF cur \in Readers THEN Inject[cur] ELSE {}]
    /\ toProvide' = [toProvide EXCEPT ![cur] = Offers[cur]]
    /\ pending' = pending + 1
    /\ changed' = (changed \/ why = "pending")
    /\ UNCHANGED <<mailVars, svcVars, ctxVars, todo, stopping, registry, disposeRequested, failed,
                   depSnap, seen, ops>>
-----------------------------------------------------------------------------
(* The event loop: settle() and the exit test. *)

\* Mutant: a pass visits only the fibers that wait.
SettleBeginWaiting ==
    /\ pc = "settle" /\ ~stopping
    /\ pc' = "visit"
    /\ todo' = {f \in registry : state[f] = "pending"}
    /\ changed' = FALSE
    /\ UNCHANGED <<mailVars, svcVars, ctxVars, cur, why, left, stopping, fiberVars, workVars, ops>>

\* A pass begins with a snapshot of the registry; the fibers in transition are
\* passed over.
SettleBegin ==
    /\ pc = "settle" /\ ~stopping
    /\ pc' = "visit"
    /\ todo' = {f \in registry : state[f] \in {"pending", "active"}}
    /\ changed' = FALSE
    /\ UNCHANGED <<mailVars, svcVars, ctxVars, cur, why, left, stopping, fiberVars, workVars, ops>>

Visit(f) ==
    /\ pc = "visit"
    /\ f \in todo
    /\ todo' = todo \ {f}
    /\ Consult(f, state[f])
    /\ UNCHANGED <<mailVars, svcVars, ctxVars, changed, stopping, fiberVars, workVars, ops>>

\* Another pass if this one changed anything.
SettleEnd ==
    /\ pc = "visit"
    /\ todo = {}
    /\ pc' = IF changed THEN "settle" ELSE "finish"
    /\ changed' = FALSE
    /\ UNCHANGED <<mailVars, svcVars, ctxVars, cur, why, left, todo, stopping, fiberVars, workVars,
                   ops>>

\* Mutant: under shutdown a pass withdraws the active fibers and forgets those that wait.
SettleStopServing ==
    /\ pc = "settle" /\ stopping
    /\ pc' = "finish"
    /\ LET serving == {f \in registry : state[f] = "active" /\ ~disposeRequested[f]}
       IN  /\ state' = [f \in Fibers |-> IF f \in serving THEN "unloading" ELSE state[f]]
           /\ job' = [o \in Owners |-> IF o \in serving THEN "unload" ELSE job[o]]
           /\ pending' = pending + Cardinality(serving)
           /\ disposeRequested' = [f \in Fibers |-> disposeRequested[f] \/ f \in serving]
    /\ UNCHANGED <<mailVars, svcVars, ctxVars, cur, why, left, todo, changed, stopping, registry,
                   failed, depSnap, toRead, toProvide, seen, ops>>

\* Once stopping, a pass withdraws every registered fiber: it reads no
\* dependency, and the next pass finds nothing to do.
SettleStop ==
    /\ pc = "settle" /\ stopping
    /\ pc' = "finish"
    /\ LET waiting == {f \in registry : state[f] = "pending" /\ ~disposeRequested[f]}
           serving == {f \in registry : state[f] = "active" /\ ~disposeRequested[f]}
       IN  /\ registry' = registry \ waiting
           /\ state' = [f \in Fibers |-> IF f \in waiting THEN "gone"
                                         ELSE IF f \in serving THEN "unloading" ELSE state[f]]
           /\ job' = [o \in Owners |-> IF o \in serving THEN "unload" ELSE job[o]]
           /\ pending' = pending + Cardinality(serving)
    /\ disposeRequested' = [f \in Fibers |-> disposeRequested[f] \/ f \in registry]
    /\ UNCHANGED <<mailVars, svcVars, ctxVars, cur, why, left, todo, changed, stopping, failed,
                   depSnap, toRead, toProvide, seen, ops>>

Finish ==
    /\ pc = "finish"
    /\ inflight' = inflight - 1
    /\ pc' = IF stopping THEN "exit" ELSE "recv"
    /\ UNCHANGED <<inbox, sendMu, outgoing, exited, svcVars, ctxVars, cur, why, left, todo,
                   changed, stopping, fiberVars, workVars, ops>>

\* Mutant: only the running goroutines count, not the registry.
QuiescentPending == pending = 0

Quiescent == registry = {} /\ pending = 0

\* Mutant: the exit test overlooks the commands still to be handled.
ExitTestHasty ==
    /\ pc = "exit"
    /\ sendMu = Free
    /\ exited' = Quiescent
    /\ pc' = IF exited' THEN "exited" ELSE "recv"
    /\ UNCHANGED <<inbox, sendMu, outgoing, inflight, svcVars, ctxVars, cur, why, left, todo,
                   changed, stopping, fiberVars, workVars, ops>>

\* The exit test runs under sendMu: no send can be half-way through it.
ExitTest ==
    /\ pc = "exit"
    /\ sendMu = Free
    /\ exited' = (inflight = 0 /\ inbox = <<>> /\ Quiescent)
    /\ pc' = IF exited' THEN "exited" ELSE "recv"
    /\ UNCHANGED <<inbox, sendMu, outgoing, inflight, svcVars, ctxVars, cur, why, left, todo,
                   changed, stopping, fiberVars, workVars, ops>>
-----------------------------------------------------------------------------
Client(u) ==
    \/ \E f \in Fibers : Load(u, f) \/ Dispose(u, f)
    \/ \E o \in Owners, k \in Keys : ProvideOn(u, o, k)
    \/ \E e \in provides : Withdraw(u, e)

Worker(f) ==
    \/ \E k \in Keys : ApplyRead(f, k) \/ ApplyProvide(f, k)
    \/ ApplyReturn(f)
    \/ \E inv \in BOOLEAN : ApplyFail(f, inv)
    \/ UnwindBegin(f)
    \/ UnwindStep(f)
    \/ UnwindEnd(f)

Closer == CloseBegin \/ CloseRewind \/ UnwindStep(Root) \/ CloseEnd

Handle == HandleLoad \/ HandleDispose \/ HandleApplied \/ HandleUnwound \/ HandleService

Loop ==
    \/ Handle
    \/ \E k \in Keys : ReadOn(k) \/ Decline(k) \/ Capture(k)
    \/ Accept \/ Activate \/ StartLoad
    \/ SettleBegin \/ SettleEnd \/ SettleStop
    \/ \E f \in Fibers : Visit(f)
    \/ Finish \/ ExitTest

Next ==
    \/ \E u \in Users : Client(u)
    \/ \E f \in Fibers : Worker(f)
    \/ Closer
    \/ \E p \in Procs : Sending(p) \/ Refusal(p)
    \/ Loop

Spec == Init /\ [][Next]_vars
=============================================================================
