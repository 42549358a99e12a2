----------------------------- MODULE WasmHandle -----------------------------
(***************************************************************************)
(* A wasm.Handle: one mutex, the fiber that runs the present version, the  *)
(* bytes to roll back to, and a reference through which the fibers hand    *)
(* their module instance to Call.  Load, Update, Call and Dispose are      *)
(* calls of client goroutines; fibers are loaded, reloaded and withdrawn   *)
(* by the orchestrator meanwhile, without the handle's mutex.              *)
(*                                                                         *)
(* Fibers are numbered in the order they are loaded.  Of their life cycle  *)
(* (module Orchestrator) this module keeps what the handle and the module  *)
(* instances can tell apart: a failing Apply is one step, and so is the    *)
(* end of unwinding.  The withdrawal and the return of a dependency stand  *)
(* for its replacement as well.                                            *)
(***************************************************************************)
EXTENDS Naturals, FiniteSets

CONSTANTS
    Versions,   \* the binaries
    Broken,     \* those that cannot be instantiated: the probe fails
    MaxLoads,   \* bound on the fibers loaded
    MaxFlips    \* bound on the changes of the dependency

ASSUME WasmAssumption ==
    /\ Broken \subseteq Versions
    /\ MaxLoads \in Nat
    /\ MaxFlips \in Nat

FiberIds == 1..MaxLoads
None == 0

VARIABLES
    \* the handle; there is none while fiber = None
    phase,      \* where Load or Update is, "idle" when neither runs
    fiber,      \* Handle.fiber
    src,        \* Handle.src
    newSrc,     \* the argument of the Update that runs
    awaited,    \* the fiber whose Ready Load or Update waits for
    expired,    \* the context.Context of a Load or an Update has ended early
    inCall,     \* the fiber whose instance a Call is inside of
    ref,        \* instanceRef.mod, named by the fiber that instantiated it
    \* the fibers
    loads,      \* how many were loaded
    stage,      \* FiberState
    version,    \* the binary of its component
    disposeRequested,
    instance,   \* its module instance: "none", "running" or "stopping"
    \* what the fibers live in
    dependency, \* the services they inject are provided
    flips,
    closed      \* the home context is closed

handleVars == <<phase, fiber, src, newSrc, awaited, expired, inCall>>
fiberVars == <<loads, stage, version, disposeRequested>>
homeVars == <<dependency, flips, closed>>
vars == <<handleVars, ref, fiberVars, instance, homeVars>>

Phases == {"idle", "load", "probe", "gone", "ready", "rollback"}
Stages == {"none", "pending", "loading", "active", "unloading", "failed", "gone"}

Live(f) == stage[f] \in {"pending", "loading", "active", "unloading"}
Doomed(f) == disposeRequested[f] \/ closed
Dead(f) == stage[f] \in {"failed", "gone"}

\* Handle.mu is free, and there is a handle.
Unlocked == phase = "idle" /\ inCall = None /\ fiber # None

Init ==
    /\ phase = "idle" /\ fiber = None /\ awaited = None /\ inCall = None /\ expired = FALSE
    /\ src \in Versions \ Broken /\ newSrc = src
    /\ ref = None
    /\ loads = 0
    /\ stage = [f \in FiberIds |-> "none"]
    /\ version = [f \in FiberIds |-> src]
    /\ disposeRequested = [f \in FiberIds |-> FALSE]
    /\ instance = [f \in FiberIds |-> "none"]
    /\ dependency \in BOOLEAN /\ flips = 0 /\ closed = FALSE
-----------------------------------------------------------------------------
(* Load and Update. *)

\* Mutant: the number of the fiber is taken twice.
LoadFiberTwice(v) ==
    /\ loads < MaxLoads
    /\ loads' = loads + 2
    /\ stage' = [stage EXCEPT ![loads + 1] = IF closed THEN "failed" ELSE "pending"]
    /\ version' = [version EXCEPT ![loads + 1] = v]
    /\ awaited' = loads + 1

\* home.Load(component(v)): the fiber is pending, or failed at once when the
\* home context is closed; the caller goes on to wait for it.
LoadFiber(v) ==
    /\ loads < MaxLoads
    /\ loads' = loads + 1
    /\ stage' = [stage EXCEPT ![loads + 1] = IF closed THEN "failed" ELSE "pending"]
    /\ version' = [version EXCEPT ![loads + 1] = v]
    /\ awaited' = loads + 1

\* Ready(ctx) returns nil, or an error: the fiber failed or ended, or the
\* caller's context did, at any moment.
ReadyOk == stage[awaited] = "active" /\ UNCHANGED expired
ReadyErr == expired' = TRUE \/ (Dead(awaited) /\ UNCHANGED expired)

Load ==
    /\ phase = "idle" /\ loads = 0
    /\ phase' = "load"
    /\ LoadFiber(src)
    /\ UNCHANGED <<fiber, src, newSrc, expired, inCall, ref, disposeRequested, instance, homeVars>>

\* Load returns a handle on the fiber, or an error and no handle.
LoadReturns ==
    /\ phase = "load"
    /\ phase' = "idle"
    /\ \/ ReadyOk /\ fiber' = awaited
       \/ ReadyErr /\ UNCHANGED fiber
    /\ UNCHANGED <<src, newSrc, awaited, inCall, ref, fiberVars, instance, homeVars>>

\* Update takes the mutex, and keeps it until it returns.
Update(v) ==
    /\ Unlocked
    /\ loads + 2 <= MaxLoads
    /\ phase' = "probe"
    /\ newSrc' = v
    /\ UNCHANGED <<fiber, src, awaited, expired, inCall, ref, fiberVars, instance, homeVars>>

ProbeFails ==
    /\ phase = "probe" /\ newSrc \in Broken
    /\ phase' = "idle"
    /\ UNCHANGED <<fiber, src, newSrc, awaited, expired, inCall, ref, fiberVars, instance, homeVars>>

\* Mutant: the old fiber is not asked to go.
ProbePassesUndisposed ==
    /\ phase = "probe" /\ newSrc \notin Broken
    /\ phase' = "gone"
    /\ UNCHANGED <<fiber, src, newSrc, awaited, expired, inCall, ref, fiberVars, instance, homeVars>>

ProbePasses ==
    /\ phase = "probe" /\ newSrc \notin Broken
    /\ phase' = "gone"
    /\ disposeRequested' = [disposeRequested EXCEPT ![fiber] = TRUE]
    /\ UNCHANGED <<fiber, src, newSrc, awaited, expired, inCall, ref, loads, stage, version, instance,
                   homeVars>>

\* Mutant: the new version is loaded without waiting for the old one.
ReplaceAtOnce ==
    /\ phase = "gone"
    /\ phase' = "ready"
    /\ LoadFiber(newSrc)
    /\ UNCHANGED <<fiber, src, newSrc, expired, inCall, ref, disposeRequested, instance, homeVars>>

\* The old fiber is gone: the new version is loaded.
Replace ==
    /\ phase = "gone" /\ Dead(fiber)
    /\ phase' = "ready"
    /\ LoadFiber(newSrc)
    /\ UNCHANGED <<fiber, src, newSrc, expired, inCall, ref, disposeRequested, instance, homeVars>>

\* The caller's context ends before the old fiber has gone.
GiveUp ==
    /\ phase = "gone"
    /\ phase' = "idle"
    /\ expired' = TRUE
    /\ UNCHANGED <<fiber, src, newSrc, awaited, inCall, ref, fiberVars, instance, homeVars>>

UpdateReturns ==
    /\ phase = "ready" /\ ReadyOk
    /\ phase' = "idle"
    /\ src' = newSrc /\ fiber' = awaited
    /\ UNCHANGED <<newSrc, awaited, inCall, ref, fiberVars, instance, homeVars>>

\* Mutant: what is rolled back to is the version that failed.
RollBackForward ==
    /\ phase = "ready" /\ ReadyErr
    /\ phase' = "rollback"
    /\ LoadFiber(newSrc)
    /\ UNCHANGED <<fiber, src, newSrc, inCall, ref, disposeRequested, instance, homeVars>>

\* The new version did not come up: the old bytes are loaded again.
RollBack ==
    /\ phase = "ready" /\ ReadyErr
    /\ phase' = "rollback"
    /\ LoadFiber(src)
    /\ UNCHANGED <<fiber, src, newSrc, inCall, ref, disposeRequested, instance, homeVars>>

RolledBack ==
    /\ phase = "rollback"
    /\ phase' = "idle"
    /\ \/ ReadyOk /\ fiber' = awaited
       \/ ReadyErr /\ UNCHANGED fiber
    /\ UNCHANGED <<src, newSrc, awaited, inCall, ref, fiberVars, instance, homeVars>>
-----------------------------------------------------------------------------
(* Call and Dispose. *)

\* Mutant: Call reads the reference without the mutex.
CallUnlocked ==
    /\ inCall = None /\ ref # None
    /\ inCall' = ref
    /\ UNCHANGED <<phase, fiber, src, newSrc, awaited, expired, ref, fiberVars, instance, homeVars>>

\* A Call that finds a module; it holds the mutex while the guest runs.  One
\* that finds none returns an error and changes nothing.
Call ==
    /\ Unlocked /\ ref # None
    /\ inCall' = ref
    /\ UNCHANGED <<phase, fiber, src, newSrc, awaited, expired, ref, fiberVars, instance, homeVars>>

CallReturns ==
    /\ inCall # None
    /\ inCall' = None
    /\ UNCHANGED <<phase, fiber, src, newSrc, awaited, expired, ref, fiberVars, instance, homeVars>>

Dispose ==
    /\ Unlocked
    /\ disposeRequested' = [disposeRequested EXCEPT ![fiber] = TRUE]
    /\ UNCHANGED <<handleVars, ref, loads, stage, version, instance, homeVars>>
-----------------------------------------------------------------------------
(* Fibers. *)

ToStage(f, s) == stage' = [stage EXCEPT ![f] = s]

\* The orchestrator starts a pending fiber, or drops one that is to go.
Begin(f) ==
    /\ stage[f] = "pending"
    /\ \/ dependency /\ ~Doomed(f) /\ ToStage(f, "loading")
       \/ Doomed(f) /\ ToStage(f, "gone")
    /\ UNCHANGED <<handleVars, ref, loads, version, disposeRequested, instance, homeVars>>

\* Apply: the module is instantiated, started, and handed to the handle.
Start(f) ==
    /\ stage[f] = "loading" /\ instance[f] = "none"
    /\ instance' = [instance EXCEPT ![f] = "running"]
    /\ ref' = f
    /\ UNCHANGED <<handleVars, fiberVars, homeVars>>

\* Apply: the module cannot be instantiated or its start fails, it is closed and
\* the fiber fails.  Bytes that started before can fail as well: a start depends
\* on the services it reads and on whether what it provides is accepted.
ApplyFails(f) ==
    /\ stage[f] = "loading" /\ instance[f] = "none"
    /\ ToStage(f, "failed")
    /\ UNCHANGED <<handleVars, ref, loads, version, disposeRequested, instance, homeVars>>

\* The orchestrator hears of the end of Apply.
Activate(f) ==
    /\ stage[f] = "loading" /\ instance[f] = "running"
    /\ ~Doomed(f) /\ dependency
    /\ ToStage(f, "active")
    /\ UNCHANGED <<handleVars, ref, loads, version, disposeRequested, instance, homeVars>>

\* A fiber with an instance is to go, or lacks its dependency.
Withdraw(f) ==
    /\ stage[f] \in {"loading", "active"} /\ instance[f] = "running"
    /\ Doomed(f) \/ ~dependency
    /\ ToStage(f, "unloading")
    /\ UNCHANGED <<handleVars, ref, loads, version, disposeRequested, instance, homeVars>>

\* Mutant: stop is called before the reference is cleared.
StopBeforeClear(f) ==
    /\ stage[f] = "unloading" /\ instance[f] = "running"
    /\ instance' = [instance EXCEPT ![f] = "stopping"]
    /\ UNCHANGED <<handleVars, ref, fiberVars, homeVars>>

\* The inverse of Apply: the reference is cleared, whatever it refers to, and
\* the guest's stop is called.
Stop(f) ==
    /\ stage[f] = "unloading" /\ instance[f] = "running"
    /\ instance' = [instance EXCEPT ![f] = "stopping"]
    /\ ref' = None
    /\ UNCHANGED <<handleVars, fiberVars, homeVars>>

\* stop has returned, the instance is closed and the fiber has unwound.
Unwound(f) ==
    /\ stage[f] = "unloading" /\ instance[f] = "stopping"
    /\ instance' = [instance EXCEPT ![f] = "none"]
    /\ ToStage(f, IF Doomed(f) THEN "gone" ELSE "pending")
    /\ UNCHANGED <<handleVars, ref, loads, version, disposeRequested, homeVars>>

Fiber(f) == Begin(f) \/ Start(f) \/ ApplyFails(f) \/ Activate(f) \/ Withdraw(f) \/ Stop(f) \/ Unwound(f)
-----------------------------------------------------------------------------
(* The application around the handle. *)

\* Another component provides the dependency, or withdraws it.
FlipDependency ==
    /\ flips < MaxFlips
    /\ dependency' = ~dependency
    /\ flips' = flips + 1
    /\ UNCHANGED <<handleVars, ref, fiberVars, instance, closed>>

\* The home context is closed: every fiber is to go.
CloseHome ==
    /\ ~closed
    /\ closed' = TRUE
    /\ UNCHANGED <<handleVars, ref, fiberVars, instance, dependency, flips>>

\* What a goroutine inside Load or Update does without a new call.
GoesOn ==
    \/ LoadReturns \/ ProbeFails \/ ProbePasses \/ Replace \/ GiveUp
    \/ UpdateReturns \/ RollBack \/ RolledBack

Next ==
    \/ Load \/ (\E v \in Versions : Update(v)) \/ GoesOn
    \/ Call \/ CallReturns \/ Dispose
    \/ \E f \in FiberIds : Fiber(f)
    \/ FlipDependency \/ CloseHome

Spec == Init /\ [][Next]_vars

\* The orchestrator and the goroutines of fibers always go on, and so does a
\* goroutine inside Load or Update whose condition holds.  Nothing is assumed
\* of a guest function that is being called; no deadline need ever end, and
\* nothing makes a client call.
FairSpec ==
    /\ Spec
    /\ \A f \in FiberIds : WF_vars(Fiber(f))
    /\ WF_vars(GoesOn /\ ~GiveUp /\ UNCHANGED expired)
-----------------------------------------------------------------------------
\* Types, and the numbering of fibers: those loaded so far have a state, and
\* whoever is waited for or is called into is one of them.
TypeOK ==
    /\ phase \in Phases
    /\ {fiber, awaited, inCall, ref} \subseteq 0..loads
    /\ {src, newSrc} \subseteq Versions
    /\ loads \in 0..MaxLoads
    /\ stage \in [FiberIds -> Stages]
    /\ \A f \in FiberIds : stage[f] = "none" <=> f > loads
    /\ version \in [FiberIds -> Versions]
    /\ disposeRequested \in [FiberIds -> BOOLEAN]
    /\ instance \in [FiberIds -> {"none", "running", "stopping"}]
    /\ expired \in BOOLEAN /\ dependency \in BOOLEAN /\ closed \in BOOLEAN
    /\ flips \in 0..MaxFlips

\* The reference Call reads never names an instance that is being stopped or
\* has been closed, although several fibers set and clear it without the
\* handle's mutex (instanceRef.set in Apply and in its inverse).
RefAlive == ref # None => instance[ref] = "running"

\* While no caller's deadline has ended, a handle at rest owns every fiber of
\* its component that is alive: neither Update nor the rollback leaves one
\* behind (Update waits for Gone before it loads).
NoOrphans ==
    ~expired /\ phase = "idle" => \A f \in FiberIds : Live(f) => f = fiber

\* While no deadline has ended, a Call runs inside the version the last Update
\* settled on, on the handle's fiber, from its beginning to its end.
CallsCurrent ==
    ~expired /\ inCall # None => inCall = fiber /\ version[inCall] = src

\* While no deadline has ended, a handle at rest whose fiber is active answers
\* Calls: the reference is the one that fiber set, although the inverse of any
\* other fiber clears it whatever it refers to (instanceRef.set).
ActiveIsCallable ==
    ~expired /\ phase = "idle" /\ fiber # None /\ stage[fiber] = "active" => ref = fiber

\* Once Update has asked the old version to go, the wait for it ends, whatever
\* Calls, dependencies and the home context do.
WithdrawalCompletes == phase = "gone" ~> phase # "gone"

\* A failed Update ends with the previous version in service again, unless the
\* old bytes do not start this time, the dependency is missing, the home context
\* is closed or the deadline ends.
RollbackServes ==
    phase = "rollback" ~>
        \/ fiber = awaited /\ fiber # None /\ stage[fiber] = "active" /\ version[fiber] = src
        \/ awaited # None /\ stage[awaited] = "failed"
        \/ ~dependency \/ closed \/ expired

\* The package says that calls after an Update has settled run the version it
\* settled on (Handle.Call), and that Update replaces it atomically.
SettledVersion == Unlocked /\ ref # None => version[ref] = src

\* The package says that a Call in progress runs to its end, and that module
\* instances cannot be called concurrently: nobody calls stop on the instance
\* a Call is inside of, or closes it.
CallUndisturbed == inCall # None => instance[inCall] = "running"
=============================================================================
