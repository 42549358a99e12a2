---------------------------- MODULE HandleProofs ----------------------------
(***************************************************************************)
(* What module WasmHandle checks on small instances, for all values of the *)
(* constants: types, the reference that never dangles, no orphans, and the *)
(* version Calls run in.                                                   *)
(***************************************************************************)
EXTENDS WasmHandle, TLAPS

\* An instance exists only between the start and the end of unwinding.
Housed == \A f \in FiberIds : instance[f] # "none" => stage[f] \in {"loading", "active", "unloading"}

\* What the goroutine that holds the mutex has established at each place.
Placed ==
    /\ phase = "load" => fiber = None
    /\ phase \in {"load", "ready", "rollback"} => awaited # None
    /\ phase \in {"probe", "gone", "ready", "rollback"} => fiber # None
    /\ phase # "idle" => inCall = None

\* The versions of the fibers that matter: a handle's fiber runs the bytes the
\* handle would roll back to, although an Update may be under way.
Versioned ==
    /\ fiber # None => version[fiber] = src
    /\ phase \in {"load", "rollback"} => version[awaited] = src
    /\ phase = "ready" => version[awaited] = newSrc

\* Who is alive while no deadline has ended: the handle's fiber, and from the
\* moment a replacement is loaded only the replacement.
Alone ==
    ~expired =>
        /\ phase \in {"idle", "probe", "gone"} => \A f \in FiberIds : Live(f) => f = fiber
        /\ phase \in {"load", "ready", "rollback"} => \A f \in FiberIds : Live(f) => f = awaited
        /\ inCall # None => inCall = fiber

HandleInv == TypeOK /\ RefAlive /\ Housed /\ Placed /\ Versioned /\ Alone
-----------------------------------------------------------------------------
LEMMA InitSafe == Init => HandleInv
<1> USE DEF None
<1> SUFFICES ASSUME Init PROVE HandleInv
  OBVIOUS
<1>1. TypeOK
  <2>1. phase \in Phases /\ {src, newSrc} \subseteq Versions
    BY DEF Init, Phases
  <2>2. {fiber, awaited, inCall, ref} \subseteq 0..loads /\ loads \in 0..MaxLoads /\ flips \in 0..MaxFlips
    BY WasmAssumption DEF Init
  <2>3. /\ stage \in [FiberIds -> Stages]
        /\ version \in [FiberIds -> Versions]
        /\ disposeRequested \in [FiberIds -> BOOLEAN]
        /\ instance \in [FiberIds -> {"none", "running", "stopping"}]
    BY DEF Init, Stages
  <2>4. \A f \in FiberIds : stage[f] = "none" <=> f > loads
    BY WasmAssumption DEF Init, FiberIds
  <2>5. expired \in BOOLEAN /\ dependency \in BOOLEAN /\ closed \in BOOLEAN
    BY DEF Init
  <2> QED
    BY <2>1, <2>2, <2>3, <2>4, <2>5, Zenon DEF TypeOK
<1>2. RefAlive /\ Housed /\ Placed /\ Versioned /\ Alone
  BY WasmAssumption DEF Init, RefAlive, Housed, Placed, Versioned, Alone, Live
<1> QED
  BY <1>1, <1>2 DEF HandleInv

LEMMA LoadSafe ==
    ASSUME HandleInv, Load
    PROVE  HandleInv'
<1> USE DEF None, FiberIds, Load, LoadFiber, handleVars, fiberVars, homeVars
<1>1. TypeOK'
  BY WasmAssumption DEF HandleInv, TypeOK, Phases, Stages
<1>2. RefAlive' /\ Housed'
  BY DEF HandleInv, TypeOK, RefAlive, Housed
<1>3. Placed'
  BY DEF HandleInv, TypeOK, Placed
<1>4. Versioned'
  <2>1. loads + 1 \in FiberIds /\ fiber \in 0..loads /\ loads \in Nat
    BY WasmAssumption DEF HandleInv, TypeOK
  <2>2. version'[loads + 1] \in {src, newSrc} /\ version' = [version EXCEPT ![loads + 1] = version'[loads + 1]]
    BY <2>1 DEF HandleInv, TypeOK
  <2>3. fiber # None => version'[fiber] = version[fiber]
    BY <2>1, <2>2 DEF HandleInv, TypeOK
  <2>4. version'[awaited'] = src
    BY <2>1 DEF HandleInv, TypeOK
  <2> QED
    BY <2>3, <2>4 DEF HandleInv, Versioned
<1>5. Alone'
  <2>1. loads + 1 \in FiberIds /\ awaited' = loads + 1 /\ expired' \in BOOLEAN /\ inCall' = None
    BY WasmAssumption DEF HandleInv, TypeOK, Placed
  <2>2. ASSUME ~expired', NEW f \in FiberIds, Live(f)' PROVE f = awaited'
    <3>1. ~expired
      BY <2>2
    <3>2. SUFFICES ASSUME f # loads + 1 PROVE FALSE
      BY <2>1
    <3>3. stage'[f] = stage[f] /\ Live(f)
      BY <2>2, <3>2 DEF HandleInv, TypeOK, Live
    <3> QED
      BY <2>2, <3>1, <3>3 DEF HandleInv, TypeOK, Placed, Alone, Live
  <2> QED
    BY <2>1, <2>2 DEF Alone
<1> QED
  BY <1>1, <1>2, <1>3, <1>4, <1>5 DEF HandleInv

LEMMA LoadReturnsSafe ==
    ASSUME HandleInv, LoadReturns
    PROVE  HandleInv'
<1> USE DEF None, FiberIds, LoadReturns, ReadyOk, ReadyErr, Dead, handleVars, fiberVars, homeVars
<1>1. TypeOK'
  BY WasmAssumption DEF HandleInv, TypeOK, Phases, Stages
<1>2. RefAlive' /\ Housed'
  BY DEF HandleInv, TypeOK, RefAlive, Housed
<1>3. Placed'
  BY DEF HandleInv, TypeOK, Placed
<1>4. Versioned'
  BY DEF HandleInv, TypeOK, Placed, Versioned
<1>5. Alone'
  BY DEF HandleInv, TypeOK, RefAlive, Housed, Placed, Alone, Live
<1> QED
  BY <1>1, <1>2, <1>3, <1>4, <1>5 DEF HandleInv

LEMMA UpdateSafe ==
    ASSUME NEW v \in Versions, HandleInv, Update(v)
    PROVE  HandleInv'
<1> USE DEF None, FiberIds, Update, Unlocked, handleVars, fiberVars, homeVars
<1>1. TypeOK'
  BY WasmAssumption DEF HandleInv, TypeOK, Phases, Stages
<1>2. RefAlive' /\ Housed'
  BY DEF HandleInv, TypeOK, RefAlive, Housed
<1>3. Placed'
  BY DEF HandleInv, TypeOK, Placed
<1>4. Versioned'
  BY DEF HandleInv, TypeOK, Placed, Versioned
<1>5. Alone'
  BY DEF HandleInv, TypeOK, RefAlive, Housed, Placed, Alone, Live
<1> QED
  BY <1>1, <1>2, <1>3, <1>4, <1>5 DEF HandleInv

LEMMA ProbeFailsSafe ==
    ASSUME HandleInv, ProbeFails
    PROVE  HandleInv'
<1> USE DEF None, FiberIds, ProbeFails, handleVars, fiberVars, homeVars
<1>1. TypeOK'
  BY WasmAssumption DEF HandleInv, TypeOK, Phases, Stages
<1>2. RefAlive' /\ Housed'
  BY DEF HandleInv, TypeOK, RefAlive, Housed
<1>3. Placed'
  BY DEF HandleInv, TypeOK, Placed
<1>4. Versioned'
  BY DEF HandleInv, TypeOK, Placed, Versioned
<1>5. Alone'
  BY DEF HandleInv, TypeOK, RefAlive, Housed, Placed, Alone, Live
<1> QED
  BY <1>1, <1>2, <1>3, <1>4, <1>5 DEF HandleInv

LEMMA ProbePassesSafe ==
    ASSUME HandleInv, ProbePasses
    PROVE  HandleInv'
<1> USE DEF None, FiberIds, ProbePasses, handleVars, fiberVars, homeVars
<1>1. TypeOK'
  BY WasmAssumption DEF HandleInv, TypeOK, Phases, Stages
<1>2. RefAlive' /\ Housed'
  BY DEF HandleInv, TypeOK, RefAlive, Housed
<1>3. Placed'
  BY DEF HandleInv, TypeOK, Placed
<1>4. Versioned'
  BY DEF HandleInv, TypeOK, Placed, Versioned
<1>5. Alone'
  BY DEF HandleInv, TypeOK, RefAlive, Housed, Placed, Alone, Live
<1> QED
  BY <1>1, <1>2, <1>3, <1>4, <1>5 DEF HandleInv

LEMMA ReplaceSafe ==
    ASSUME HandleInv, Replace
    PROVE  HandleInv'
<1> USE DEF None, FiberIds, Replace, LoadFiber, Dead, handleVars, fiberVars, homeVars
<1>1. TypeOK'
  BY WasmAssumption DEF HandleInv, TypeOK, Phases, Stages
<1>2. RefAlive' /\ Housed'
  BY DEF HandleInv, TypeOK, RefAlive, Housed
<1>3. Placed'
  BY DEF HandleInv, TypeOK, Placed
<1>4. Versioned'
  <2>1. loads + 1 \in FiberIds /\ fiber \in 0..loads /\ loads \in Nat
    BY WasmAssumption DEF HandleInv, TypeOK
  <2>2. version'[loads + 1] \in {src, newSrc} /\ version' = [version EXCEPT ![loads + 1] = version'[loads + 1]]
    BY <2>1 DEF HandleInv, TypeOK
  <2>3. fiber # None => version'[fiber] = version[fiber]
    BY <2>1, <2>2 DEF HandleInv, TypeOK
  <2>4. version'[awaited'] = newSrc
    BY <2>1 DEF HandleInv, TypeOK
  <2> QED
    BY <2>3, <2>4 DEF HandleInv, Versioned
<1>5. Alone'
  <2>1. loads + 1 \in FiberIds /\ awaited' = loads + 1 /\ expired' \in BOOLEAN /\ inCall' = None
    BY WasmAssumption DEF HandleInv, TypeOK, Placed
  <2>2. ASSUME ~expired', NEW f \in FiberIds, Live(f)' PROVE f = awaited'
    <3>1. ~expired
      BY <2>2
    <3>2. SUFFICES ASSUME f # loads + 1 PROVE FALSE
      BY <2>1
    <3>3. stage'[f] = stage[f] /\ Live(f)
      BY <2>2, <3>2 DEF HandleInv, TypeOK, Live
    <3> QED
      BY <2>2, <3>1, <3>3 DEF HandleInv, TypeOK, Placed, Alone, Live
  <2> QED
    BY <2>1, <2>2 DEF Alone
<1> QED
  BY <1>1, <1>2, <1>3, <1>4, <1>5 DEF HandleInv

LEMMA GiveUpSafe ==
    ASSUME HandleInv, GiveUp
    PROVE  HandleInv'
<1> USE DEF None, FiberIds, GiveUp, handleVars, fiberVars, homeVars
<1>1. TypeOK'
  BY WasmAssumption DEF HandleInv, TypeOK, Phases, Stages
<1>2. RefAlive' /\ Housed'
  BY DEF HandleInv, TypeOK, RefAlive, Housed
<1>3. Placed'
  BY DEF HandleInv, TypeOK, Placed
<1>4. Versioned'
  BY DEF HandleInv, TypeOK, Placed, Versioned
<1>5. Alone'
  BY DEF HandleInv, TypeOK, RefAlive, Housed, Placed, Alone, Live
<1> QED
  BY <1>1, <1>2, <1>3, <1>4, <1>5 DEF HandleInv

LEMMA UpdateReturnsSafe ==
    ASSUME HandleInv, UpdateReturns
    PROVE  HandleInv'
<1> USE DEF None, FiberIds, UpdateReturns, ReadyOk, handleVars, fiberVars, homeVars
<1>1. TypeOK'
  BY WasmAssumption DEF HandleInv, TypeOK, Phases, Stages
<1>2. RefAlive' /\ Housed'
  BY DEF HandleInv, TypeOK, RefAlive, Housed
<1>3. Placed'
  BY DEF HandleInv, TypeOK, Placed
<1>4. Versioned'
  BY DEF HandleInv, TypeOK, Placed, Versioned
<1>5. Alone'
  BY DEF HandleInv, TypeOK, RefAlive, Housed, Placed, Alone, Live
<1> QED
  BY <1>1, <1>2, <1>3, <1>4, <1>5 DEF HandleInv

LEMMA RollBackSafe ==
    ASSUME HandleInv, RollBack
    PROVE  HandleInv'
<1> USE DEF None, FiberIds, RollBack, LoadFiber, ReadyErr, Dead, handleVars, fiberVars, homeVars
<1>0. expired' \in BOOLEAN /\ UNCHANGED <<fiber, src, newSrc, inCall, ref, disposeRequested, instance, homeVars>>
  BY DEF HandleInv, TypeOK
<1>1. TypeOK'
  <2>1. loads + 1 \in FiberIds /\ awaited' = loads + 1 /\ loads' = loads + 1 /\ loads \in Nat
    BY WasmAssumption DEF HandleInv, TypeOK
  <2>2. stage' \in [FiberIds -> Stages] /\ version' \in [FiberIds -> Versions]
    BY DEF HandleInv, TypeOK, Stages
  <2>3. \A f \in FiberIds : stage'[f] = "none" <=> f > loads'
    BY <2>1 DEF HandleInv, TypeOK
  <2>4. {fiber, awaited, inCall, ref}' \subseteq 0..loads' /\ loads' \in 0..MaxLoads
    BY <1>0, <2>1 DEF HandleInv, TypeOK
  <2> QED
    BY <1>0, <2>1, <2>2, <2>3, <2>4 DEF HandleInv, TypeOK, Phases
<1>2. RefAlive' /\ Housed'
  BY DEF HandleInv, TypeOK, RefAlive, Housed
<1>3. Placed'
  BY DEF HandleInv, TypeOK, Placed
<1>4. Versioned'
  <2>1. loads + 1 \in FiberIds /\ fiber \in 0..loads /\ loads \in Nat
    BY WasmAssumption DEF HandleInv, TypeOK
  <2>2. version'[loads + 1] \in {src, newSrc} /\ version' = [version EXCEPT ![loads + 1] = version'[loads + 1]]
    BY <2>1 DEF HandleInv, TypeOK
  <2>3. fiber # None => version'[fiber] = version[fiber]
    BY <2>1, <2>2 DEF HandleInv, TypeOK
  <2>4. version'[awaited'] = src
    BY <2>1 DEF HandleInv, TypeOK
  <2> QED
    BY <2>3, <2>4 DEF HandleInv, Versioned
<1>5. Alone'
  <2>1. loads + 1 \in FiberIds /\ awaited' = loads + 1 /\ expired' \in BOOLEAN /\ inCall' = None
    BY <1>0, WasmAssumption DEF HandleInv, TypeOK, Placed
  <2>2. ASSUME ~expired', NEW f \in FiberIds, Live(f)' PROVE f = awaited'
    <3>1. ~expired /\ Dead(awaited)
      BY <2>2 DEF HandleInv, TypeOK
    <3>2. SUFFICES ASSUME f # loads + 1 PROVE FALSE
      BY <2>1
    <3>3. stage'[f] = stage[f] /\ Live(f)
      BY <2>2, <3>2 DEF HandleInv, TypeOK, Live
    <3> QED
      BY <2>2, <3>1, <3>3 DEF HandleInv, TypeOK, Placed, Alone, Live
  <2> QED
    BY <2>1, <2>2 DEF Alone
<1> QED
  BY <1>1, <1>2, <1>3, <1>4, <1>5 DEF HandleInv

LEMMA RolledBackSafe ==
    ASSUME HandleInv, RolledBack
    PROVE  HandleInv'
<1> USE DEF None, FiberIds, RolledBack, ReadyOk, ReadyErr, Dead, handleVars, fiberVars, homeVars
<1>1. TypeOK'
  BY WasmAssumption DEF HandleInv, TypeOK, Phases, Stages
<1>2. RefAlive' /\ Housed'
  BY DEF HandleInv, TypeOK, RefAlive, Housed
<1>3. Placed'
  BY DEF HandleInv, TypeOK, Placed
<1>4. Versioned'
  BY DEF HandleInv, TypeOK, Placed, Versioned
<1>5. Alone'
  BY DEF HandleInv, TypeOK, RefAlive, Housed, Placed, Alone, Live
<1> QED
  BY <1>1, <1>2, <1>3, <1>4, <1>5 DEF HandleInv

LEMMA CallSafe ==
    ASSUME HandleInv, Call
    PROVE  HandleInv'
<1> USE DEF None, FiberIds, Call, Unlocked, handleVars, fiberVars, homeVars
<1>1. TypeOK'
  BY WasmAssumption DEF HandleInv, TypeOK, Phases, Stages
<1>2. RefAlive' /\ Housed'
  BY DEF HandleInv, TypeOK, RefAlive, Housed
<1>3. Placed'
  BY DEF HandleInv, TypeOK, Placed
<1>4. Versioned'
  BY DEF HandleInv, TypeOK, Placed, Versioned
<1>5. Alone'
  <2>1. ref \in FiberIds /\ Live(ref)
    BY WasmAssumption DEF HandleInv, TypeOK, RefAlive, Housed, Live
  <2>2. ~expired => ref = fiber
    BY <2>1 DEF HandleInv, Alone
  <2> QED
    BY <2>2 DEF HandleInv, Alone, Live
<1> QED
  BY <1>1, <1>2, <1>3, <1>4, <1>5 DEF HandleInv

LEMMA CallReturnsSafe ==
    ASSUME HandleInv, CallReturns
    PROVE  HandleInv'
<1> USE DEF None, FiberIds, CallReturns, handleVars, fiberVars, homeVars
<1>1. TypeOK'
  BY WasmAssumption DEF HandleInv, TypeOK, Phases, Stages
<1>2. RefAlive' /\ Housed'
  BY DEF HandleInv, TypeOK, RefAlive, Housed
<1>3. Placed'
  BY DEF HandleInv, TypeOK, Placed
<1>4. Versioned'
  BY DEF HandleInv, TypeOK, Placed, Versioned
<1>5. Alone'
  BY DEF HandleInv, TypeOK, RefAlive, Housed, Placed, Alone, Live
<1> QED
  BY <1>1, <1>2, <1>3, <1>4, <1>5 DEF HandleInv

LEMMA DisposeSafe ==
    ASSUME HandleInv, Dispose
    PROVE  HandleInv'
<1> USE DEF None, FiberIds, Dispose, Unlocked, handleVars, fiberVars, homeVars
<1>1. TypeOK'
  BY WasmAssumption DEF HandleInv, TypeOK, Phases, Stages
<1>2. RefAlive' /\ Housed'
  BY DEF HandleInv, TypeOK, RefAlive, Housed
<1>3. Placed'
  BY DEF HandleInv, TypeOK, Placed
<1>4. Versioned'
  BY DEF HandleInv, TypeOK, Placed, Versioned
<1>5. Alone'
  BY DEF HandleInv, TypeOK, RefAlive, Housed, Placed, Alone, Live
<1> QED
  BY <1>1, <1>2, <1>3, <1>4, <1>5 DEF HandleInv

LEMMA BeginSafe ==
    ASSUME NEW f \in FiberIds, HandleInv, Begin(f)
    PROVE  HandleInv'
<1> USE DEF None, FiberIds, Begin, ToStage, handleVars, fiberVars, homeVars
<1>1. TypeOK'
  BY WasmAssumption DEF HandleInv, TypeOK, Phases, Stages
<1>2. RefAlive' /\ Housed'
  BY DEF HandleInv, TypeOK, RefAlive, Housed
<1>3. Placed'
  BY DEF HandleInv, TypeOK, Placed
<1>4. Versioned'
  BY DEF HandleInv, TypeOK, Placed, Versioned
<1>5. Alone'
  BY DEF HandleInv, TypeOK, RefAlive, Housed, Placed, Alone, Live
<1> QED
  BY <1>1, <1>2, <1>3, <1>4, <1>5 DEF HandleInv

LEMMA StartSafe ==
    ASSUME NEW f \in FiberIds, HandleInv, Start(f)
    PROVE  HandleInv'
<1> USE DEF None, FiberIds, Start, handleVars, fiberVars, homeVars
<1>1. TypeOK'
  BY WasmAssumption DEF HandleInv, TypeOK, Phases, Stages
<1>2. RefAlive' /\ Housed'
  BY DEF HandleInv, TypeOK, RefAlive, Housed
<1>3. Placed'
  BY DEF HandleInv, TypeOK, Placed
<1>4. Versioned'
  BY DEF HandleInv, TypeOK, Placed, Versioned
<1>5. Alone'
  BY DEF HandleInv, TypeOK, RefAlive, Housed, Placed, Alone, Live
<1> QED
  BY <1>1, <1>2, <1>3, <1>4, <1>5 DEF HandleInv

LEMMA ApplyFailsSafe ==
    ASSUME NEW f \in FiberIds, HandleInv, ApplyFails(f)
    PROVE  HandleInv'
<1> USE DEF None, FiberIds, ApplyFails, ToStage, handleVars, fiberVars, homeVars
<1>1. TypeOK'
  BY WasmAssumption DEF HandleInv, TypeOK, Phases, Stages
<1>2. RefAlive' /\ Housed'
  BY DEF HandleInv, TypeOK, RefAlive, Housed
<1>3. Placed'
  BY DEF HandleInv, TypeOK, Placed
<1>4. Versioned'
  BY DEF HandleInv, TypeOK, Placed, Versioned
<1>5. Alone'
  BY DEF HandleInv, TypeOK, RefAlive, Housed, Placed, Alone, Live
<1> QED
  BY <1>1, <1>2, <1>3, <1>4, <1>5 DEF HandleInv

LEMMA ActivateSafe ==
    ASSUME NEW f \in FiberIds, HandleInv, Activate(f)
    PROVE  HandleInv'
<1> USE DEF None, FiberIds, Activate, ToStage, handleVars, fiberVars, homeVars
<1>1. TypeOK'
  BY WasmAssumption DEF HandleInv, TypeOK, Phases, Stages
<1>2. RefAlive' /\ Housed'
  BY DEF HandleInv, TypeOK, RefAlive, Housed
<1>3. Placed'
  BY DEF HandleInv, TypeOK, Placed
<1>4. Versioned'
  BY DEF HandleInv, TypeOK, Placed, Versioned
<1>5. Alone'
  BY DEF HandleInv, TypeOK, RefAlive, Housed, Placed, Alone, Live
<1> QED
  BY <1>1, <1>2, <1>3, <1>4, <1>5 DEF HandleInv

LEMMA WithdrawSafe ==
    ASSUME NEW f \in FiberIds, HandleInv, Withdraw(f)
    PROVE  HandleInv'
<1> USE DEF None, FiberIds, Withdraw, ToStage, handleVars, fiberVars, homeVars
<1>1. TypeOK'
  BY WasmAssumption DEF HandleInv, TypeOK, Phases, Stages
<1>2. RefAlive' /\ Housed'
  BY DEF HandleInv, TypeOK, RefAlive, Housed
<1>3. Placed'
  BY DEF HandleInv, TypeOK, Placed
<1>4. Versioned'
  BY DEF HandleInv, TypeOK, Placed, Versioned
<1>5. Alone'
  BY DEF HandleInv, TypeOK, RefAlive, Housed, Placed, Alone, Live
<1> QED
  BY <1>1, <1>2, <1>3, <1>4, <1>5 DEF HandleInv

LEMMA StopSafe ==
    ASSUME NEW f \in FiberIds, HandleInv, Stop(f)
    PROVE  HandleInv'
<1> USE DEF None, FiberIds, Stop, handleVars, fiberVars, homeVars
<1>1. TypeOK'
  BY WasmAssumption DEF HandleInv, TypeOK, Phases, Stages
<1>2. RefAlive' /\ Housed'
  BY DEF HandleInv, TypeOK, RefAlive, Housed
<1>3. Placed'
  BY DEF HandleInv, TypeOK, Placed
<1>4. Versioned'
  BY DEF HandleInv, TypeOK, Placed, Versioned
<1>5. Alone'
  BY DEF HandleInv, TypeOK, RefAlive, Housed, Placed, Alone, Live
<1> QED
  BY <1>1, <1>2, <1>3, <1>4, <1>5 DEF HandleInv

LEMMA UnwoundSafe ==
    ASSUME NEW f \in FiberIds, HandleInv, Unwound(f)
    PROVE  HandleInv'
<1> USE DEF None, FiberIds, Unwound, ToStage, handleVars, fiberVars, homeVars
<1>1. TypeOK'
  BY WasmAssumption DEF HandleInv, TypeOK, Phases, Stages
<1>2. RefAlive' /\ Housed'
  BY DEF HandleInv, TypeOK, RefAlive, Housed
<1>3. Placed'
  BY DEF HandleInv, TypeOK, Placed
<1>4. Versioned'
  BY DEF HandleInv, TypeOK, Placed, Versioned
<1>5. Alone'
  BY DEF HandleInv, TypeOK, RefAlive, Housed, Placed, Alone, Live
<1> QED
  BY <1>1, <1>2, <1>3, <1>4, <1>5 DEF HandleInv

LEMMA FlipDependencySafe ==
    ASSUME HandleInv, FlipDependency
    PROVE  HandleInv'
<1> USE DEF None, FiberIds, FlipDependency, handleVars, fiberVars, homeVars
<1>1. TypeOK'
  BY WasmAssumption DEF HandleInv, TypeOK, Phases, Stages
<1>2. RefAlive' /\ Housed'
  BY DEF HandleInv, TypeOK, RefAlive, Housed
<1>3. Placed'
  BY DEF HandleInv, TypeOK, Placed
<1>4. Versioned'
  BY DEF HandleInv, TypeOK, Placed, Versioned
<1>5. Alone'
  BY DEF HandleInv, TypeOK, RefAlive, Housed, Placed, Alone, Live
<1> QED
  BY <1>1, <1>2, <1>3, <1>4, <1>5 DEF HandleInv

LEMMA CloseHomeSafe ==
    ASSUME HandleInv, CloseHome
    PROVE  HandleInv'
<1> USE DEF None, FiberIds, CloseHome, handleVars, fiberVars, homeVars
<1>1. TypeOK'
  BY WasmAssumption DEF HandleInv, TypeOK, Phases, Stages
<1>2. RefAlive' /\ Housed'
  BY DEF HandleInv, TypeOK, RefAlive, Housed
<1>3. Placed'
  BY DEF HandleInv, TypeOK, Placed
<1>4. Versioned'
  BY DEF HandleInv, TypeOK, Placed, Versioned
<1>5. Alone'
  BY DEF HandleInv, TypeOK, RefAlive, Housed, Placed, Alone, Live
<1> QED
  BY <1>1, <1>2, <1>3, <1>4, <1>5 DEF HandleInv

LEMMA StutterSafe ==
    ASSUME HandleInv, UNCHANGED vars
    PROVE  HandleInv'
BY DEF vars, handleVars, fiberVars, homeVars, HandleInv, TypeOK, RefAlive, Housed, Placed, Versioned,
       Alone, Live

LEMMA StepSafe == HandleInv /\ [Next]_vars => HandleInv'
<1> SUFFICES ASSUME HandleInv, [Next]_vars PROVE HandleInv'
  OBVIOUS
<1>1. CASE Load
  BY <1>1, LoadSafe
<1>2. CASE \E v \in Versions : Update(v)
  BY <1>2, UpdateSafe
<1>3. CASE GoesOn
  BY <1>3, LoadReturnsSafe, ProbeFailsSafe, ProbePassesSafe, ReplaceSafe, GiveUpSafe, UpdateReturnsSafe,
     RollBackSafe, RolledBackSafe DEF GoesOn
<1>4. CASE Call \/ CallReturns \/ Dispose
  BY <1>4, CallSafe, CallReturnsSafe, DisposeSafe
<1>5. CASE \E f \in FiberIds : Fiber(f)
  BY <1>5, BeginSafe, StartSafe, ApplyFailsSafe, ActivateSafe, WithdrawSafe, StopSafe, UnwoundSafe DEF Fiber
<1>6. CASE FlipDependency \/ CloseHome
  BY <1>6, FlipDependencySafe, CloseHomeSafe
<1>7. CASE UNCHANGED vars
  BY <1>7, StutterSafe
<1> QED
  BY <1>1, <1>2, <1>3, <1>4, <1>5, <1>6, <1>7 DEF Next

\* In every state of every behaviour the strengthened invariant holds.
THEOREM HandleSafe == Spec => []HandleInv
BY InitSafe, StepSafe, PTL DEF Spec

\* The reference Call reads never names an instance that is being stopped or
\* is closed, however many fibers set and clear it (instanceRef.set).
THEOREM ReferenceNeverDangles == Spec => []RefAlive
<1>1. HandleInv => RefAlive
  BY DEF HandleInv
<1> QED
  BY <1>1, HandleSafe, PTL

\* Update and its rollback leave no fiber of the component behind, as long as
\* no caller's deadline ended (Handle.Update).
THEOREM NoFiberLeftBehind == Spec => []NoOrphans
<1>1. HandleInv => NoOrphans
  BY DEF HandleInv, Alone, NoOrphans
<1> QED
  BY <1>1, HandleSafe, PTL

\* A Call runs in the version the last Update settled on, from its beginning
\* to its end, as long as no caller's deadline ended (Handle.Call).
THEOREM CallsRunCurrentVersion == Spec => []CallsCurrent
<1>1. HandleInv => CallsCurrent
  BY DEF HandleInv, Alone, Versioned, CallsCurrent, None
<1> QED
  BY <1>1, HandleSafe, PTL

\* The phases, versions and references of the handle stay what they are
\* declared to be, whatever fails and whichever deadline ends (Load, Update,
\* rollback, Dispose).
THEOREM HandleTypeCorrect == Spec => []TypeOK
<1>1. HandleInv => TypeOK
  BY DEF HandleInv
<1> QED
  BY <1>1, HandleSafe, PTL
-----------------------------------------------------------------------------
\* What the reference says of the instances: an active fiber has one, and while no
\* deadline has ended the one that runs is the one Call finds.
Shown ==
    /\ \A f \in FiberIds : stage[f] = "active" => instance[f] = "running"
    /\ ~expired => \A f \in FiberIds : instance[f] = "running" => ref = f

\* While no deadline has ended two fibers are never alive at once.
LEMMA OneAlive ==
    ASSUME HandleInv, ~expired, NEW f \in FiberIds, NEW g \in FiberIds, Live(f), Live(g)
    PROVE  f = g
BY DEF HandleInv, TypeOK, Phases, Alone

\* Outside the fibers nobody touches an instance or the reference, and no fiber becomes active.
LEMMA ShownOutside ==
    ASSUME HandleInv, Shown,
           Load \/ (\E v \in Versions : Update(v)) \/ GoesOn \/ Call \/ CallReturns \/ Dispose
               \/ FlipDependency \/ CloseHome \/ UNCHANGED vars
    PROVE  Shown'
<1>1. UNCHANGED <<ref, instance>>
  BY DEF Load, Update, GoesOn, LoadReturns, ProbeFails, ProbePasses, Replace, GiveUp, UpdateReturns,
         RollBack, RolledBack, Call, CallReturns, Dispose, FlipDependency, CloseHome, vars
<1>2. \A f \in FiberIds : stage'[f] = "active" => stage[f] = "active"
  BY DEF HandleInv, TypeOK, Load, LoadFiber, Update, GoesOn, LoadReturns, ProbeFails, ProbePasses,
         Replace, GiveUp, UpdateReturns, RollBack, RolledBack, Call, CallReturns, Dispose,
         FlipDependency, CloseHome, vars, fiberVars
<1>3. ~expired' => ~expired
  BY DEF Load, Update, GoesOn, LoadReturns, ProbeFails, ProbePasses, Replace, GiveUp, UpdateReturns,
         RollBack, RolledBack, ReadyOk, ReadyErr, Call, CallReturns, Dispose, FlipDependency,
         CloseHome, vars, handleVars
<1> QED
  BY <1>1, <1>2, <1>3 DEF Shown

LEMMA ShownFiber ==
    ASSUME HandleInv, Shown, NEW f \in FiberIds, Fiber(f)
    PROVE  Shown'
<1> USE DEF ToStage
<1>1. /\ stage \in [FiberIds -> Stages] /\ instance \in [FiberIds -> {"none", "running", "stopping"}]
      /\ expired' = expired
  BY DEF HandleInv, TypeOK, Fiber, Begin, Start, ApplyFails, Activate, Withdraw, Stop, Unwound, handleVars
<1>2. CASE Begin(f) \/ ApplyFails(f) \/ Activate(f) \/ Withdraw(f)
  BY <1>1, <1>2 DEF Begin, ApplyFails, Activate, Withdraw, Shown
<1>3. ASSUME Start(f) \/ Stop(f), ~expired, NEW g \in FiberIds \ {f} PROVE instance[g] # "running"
  <2>1. Live(f)
    BY <1>3 DEF Start, Stop, Live
  <2>2. instance[g] = "running" => Live(g)
    BY DEF HandleInv, Housed, Live
  <2> QED
    BY <1>3, <2>1, <2>2, OneAlive
<1>4. CASE Start(f)
  BY <1>1, <1>3, <1>4 DEF Start, fiberVars, Shown
<1>5. CASE Stop(f)
  BY <1>1, <1>3, <1>5 DEF Stop, fiberVars, Shown
<1>6. CASE Unwound(f)
  BY <1>1, <1>6 DEF Unwound, Shown
<1> QED
  BY <1>2, <1>4, <1>5, <1>6 DEF Fiber

LEMMA ShownHolds == Spec => []Shown
<1>1. Init => Shown
  BY DEF Init, Shown
<1>2. HandleInv /\ Shown /\ [Next]_vars => Shown'
  BY ShownOutside, ShownFiber DEF Next
<1> QED
  BY <1>1, <1>2, HandleSafe, PTL DEF Spec

\* A handle at rest whose fiber is active answers Calls, as long as no caller's
\* deadline ended: no inverse of an older fiber clears the reference after the
\* fiber has set it (instanceRef.set, Handle.Update waits for Gone).
THEOREM ActiveFibersAreCallable == Spec => []ActiveIsCallable
<1>1. HandleInv /\ Shown => ActiveIsCallable
  <2> SUFFICES ASSUME HandleInv, Shown, ~expired, fiber # None, stage[fiber] = "active"
               PROVE  ref = fiber
    BY DEF ActiveIsCallable
  <2>1. fiber \in FiberIds
    BY WasmAssumption DEF HandleInv, TypeOK, None, FiberIds
  <2> QED
    BY <2>1 DEF Shown
<1> QED
  BY <1>1, HandleSafe, ShownHolds, PTL
=============================================================================
