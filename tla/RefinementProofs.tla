-------------------------- MODULE RefinementProofs --------------------------
(***************************************************************************)
(* The orchestrator implements the life cycle a handle shows: every step   *)
(* of the loop, of a goroutine or of a client moves each fiber along the   *)
(* diagram of Lifecycle or leaves it in its place.                         *)
(***************************************************************************)
EXTENDS InvariantProofs

PhaseOf(f) == IF Opening(f) THEN "loading" ELSE state[f]

Live == {"loading", "active", "unloading"}

\* A transition of f as Lifecycle allows it.
Moves(f) ==
    /\ <<PhaseOf(f), PhaseOf(f)'>> \in Promise!Diagram
    /\ Holds(f)' <=> Holds(f)
    /\ PhaseOf(f)' \in {"pending", "loading", "active"} => ~disposeRequested[f]
    /\ PhaseOf(f)' \in {"pending", "loading", "failed", "gone"} => ~Holds(f)

LEMMA HeldLive == ASSUME Inductive, NEW f \in Fibers, Holds(f) PROVE PhaseOf(f) \in Live
BY HeldFollows DEF HeldOnlyWhileLive, PhaseOf, Live

\* What a step has to show: each fiber stays in its place or moves, and a request
\* to end stands.  While a fiber stays, its effects can only be those of a live one.
LEMMA PromiseNext ==
    ASSUME Inductive, Inductive',
           \A f \in Fibers : PhaseOf(f)' = PhaseOf(f) \/ Moves(f),
           \A f \in Fibers : disposeRequested[f] => disposeRequested'[f]
    PROVE Promise!Next
<1>. SUFFICES ASSUME NEW f \in Fibers PROVE Promise!Stay(f) \/ Promise!Move(f)
  BY DEF Promise!Next
<1>1. Holds(f) \in BOOLEAN /\ Holds(f)' \in BOOLEAN
  BY DEF Inductive, TypeOK, ContextsTypeOK, Holds
<1>2. CASE PhaseOf(f)' = PhaseOf(f)
  <2>1. Holds(f) \/ Holds(f)' => PhaseOf(f) \in Live
    <3>1. HeldOnlyWhileLive'
      BY HeldFollows, PTL
    <3>2. Holds(f)' => PhaseOf(f)' \in Live
      BY <3>1 DEF HeldOnlyWhileLive, PhaseOf, Live
    <3>. QED BY <1>2, <3>2, HeldLive
  <2>. QED BY <1>1, <1>2, <2>1 DEF Promise!Stay, PhaseOf, Live
<1>3. CASE Moves(f)
  <2>1. Holds(f)' = Holds(f)
    BY <1>1, <1>3 DEF Moves
  <2>. QED BY <1>3, <2>1 DEF Moves, PhaseOf, Promise!Move, Promise!Terminal
<1>. QED BY <1>2, <1>3
-----------------------------------------------------------------------------
(* The steps. *)

\* A fiber in no transition and not being opened holds nothing.
LEMMA IdleHolds ==
    ASSUME Inductive, NEW f \in Fibers, PhaseOf(f) \notin Live PROVE ~Holds(f)
BY HeldLive

LEMMA IdleHoldsNext ==
    ASSUME Inductive', NEW f \in Fibers, PhaseOf(f)' \notin Live PROVE ~Holds(f)'
<1>1. HeldOnlyWhileLive'
  BY HeldFollows, PTL
<1>. QED BY <1>1 DEF HeldOnlyWhileLive, PhaseOf, Live

LEMMA PromiseOutside ==
    ASSUME Inductive, Inductive',
           \/ \E u \in Users : Client(u)
           \/ \E f \in Fibers : Worker(f)
           \/ Closer
           \/ \E p \in Procs : Sending(p) \/ Refusal(p)
    PROVE Promise!Next
<1>1. /\ UNCHANGED <<pc, cur, why, registry, disposeRequested>>
      /\ \A f \in Fibers :
             \/ state'[f] = state[f]
             \/ /\ f \notin registry
                /\ \/ state[f] = "none" /\ state'[f] \in {"pending", "failed"}
                   \/ state[f] = "pending" /\ state'[f] = "failed"
  <2>1. \A f \in Fibers, p \in Procs : outgoing[p] = LoadCmd(f) => state[f] = "pending"
    BY DEF Inductive, Enrolled
  <2>. QED BY <2>1, OutsideLoop DEF loopVars
<1>2. ASSUME NEW f \in Fibers PROVE PhaseOf(f)' = PhaseOf(f) \/ Moves(f)
  <2>1. CASE state'[f] = state[f]
    BY <1>1, <2>1 DEF PhaseOf, Opening
  <2>2. CASE state'[f] # state[f]
    <3>1. ~Opening(f) /\ ~Opening(f)'
      BY <1>1, <2>2 DEF Opening, Inductive, Visits
    <3>2. PhaseOf(f) = state[f] /\ PhaseOf(f)' = state'[f]
      BY <3>1 DEF PhaseOf
    <3>3. ~Holds(f) /\ ~Holds(f)'
      BY <1>1, <2>2, <3>2, IdleHolds, IdleHoldsNext DEF Live
    <3>4. ~disposeRequested[f]
      BY <1>1, <2>2 DEF Inductive, Retired
    <3>. QED BY <1>1, <2>2, <3>2, <3>3, <3>4 DEF Moves, Promise!Diagram, Promise!Terminal
  <2>. QED BY <2>1, <2>2
<1>. QED BY <1>1, <1>2, PromiseNext

\* What the loop does to a fiber: nothing, or it ends it while it waits, stops it,
\* or ends it when it has unwound.
LEMMA PromiseHandle == ASSUME Inductive, Inductive', Handle PROVE Promise!Next
<1>. USE DEF Inductive
<1>1. \A f \in Fibers : ~Opening(f) /\ ~Opening(f)'
  BY DEF Handle, HandleLoad, HandleDispose, HandleApplied, HandleUnwound, HandleService, Receive,
         ToSettle, Consult, Opening
<1>2. \A f \in Fibers : PhaseOf(f) = state[f] /\ PhaseOf(f)' = state'[f]
  BY <1>1 DEF PhaseOf
<1>3. \A f \in Fibers : disposeRequested[f] => disposeRequested'[f]
  BY DEF Handle, HandleLoad, HandleDispose, HandleApplied, HandleUnwound, HandleService, fiberVars,
         TypeOK, FibersTypeOK
<1>4. state \in [Fibers -> States]
  BY DEF TypeOK, FibersTypeOK
<1>. PICK F : F = Subject
  OBVIOUS
<1>5. ASSUME NEW type, Receive(type), type # "service" PROVE F \in Fibers
  BY <1>5, ReceiveFacts, SubjectType
<1>6. ASSUME UNCHANGED state PROVE Promise!Next
  BY <1>2, <1>3, <1>6, PromiseNext
<1>7. ASSUME F \in Fibers, \A f \in Fibers : f # F => state'[f] = state[f], Moves(F)
      PROVE Promise!Next
  BY <1>2, <1>3, <1>7, PromiseNext
<1>8. ASSUME F \in Fibers, state[F] \in {"active", "loading"}, StartUnload({F}),
             UNCHANGED <<provides, effect>>
      PROVE Promise!Next
  <2>1. /\ state'[F] = "unloading" /\ \A f \in Fibers : f # F => state'[f] = state[f]
    BY <1>4, <1>8 DEF StartUnload
  <2>2. Holds(F)' <=> Holds(F)
    BY <1>8 DEF Holds, EntriesOf
  <2>3. Moves(F)
    BY <1>2, <1>8, <2>1, <2>2 DEF Moves, Promise!Diagram
  <2>. QED BY <1>7, <1>8, <2>1, <2>3
<1>9. ASSUME F \in Fibers, state[F] \in {"pending", "unloading"}, ~Holds(F),
             NEW t \in {"failed", "gone"}, Remove(F, t)
      PROVE Promise!Next
  <2>1. /\ state'[F] = t /\ \A f \in Fibers : f # F => state'[f] = state[f]
    BY <1>4, <1>9 DEF Remove
  <2>2. ~Holds(F)'
    BY <1>2, <1>9, <2>1, IdleHoldsNext DEF Live
  <2>3. Moves(F)
    BY <1>2, <1>9, <2>1, <2>2 DEF Moves, Promise!Diagram, Promise!Terminal
  <2>. QED BY <1>7, <1>9, <2>1, <2>3
<1>10. CASE HandleLoad \/ HandleService
  BY <1>6, <1>10 DEF HandleLoad, HandleService, fiberVars
<1>11. CASE HandleDispose
  <2>1. F \in Fibers /\ UNCHANGED <<provides, effect>>
    BY <1>5, <1>11 DEF HandleDispose, Receive, ctxVars
  <2>2. CASE state[F] = "pending" /\ Remove(F, "gone")
    <3>1. ~Holds(F)
      BY <1>2, <2>1, <2>2, IdleHolds DEF Live
    <3>. QED BY <1>9, <2>1, <2>2, <3>1
  <2>3. CASE state[F] = "active" /\ StartUnload({F})
    BY <1>8, <2>1, <2>3
  <2>4. CASE UNCHANGED state
    BY <1>6, <2>4
  <2>. QED BY <1>11, <2>2, <2>3, <2>4 DEF HandleDispose
<1>12. CASE HandleApplied
  <2>1. F \in Fibers /\ state[F] = "loading"
    BY <1>12, Reported DEF HandleApplied, Phase
  <2>2. ctx[F] = "open"
    BY <2>1 DEF Scoped
  <2>3. UNCHANGED <<provides, effect>>
    BY <1>12, <2>2 DEF HandleApplied, Receive, KeepApplyInverse, ctxVars
  <2>4. CASE StartUnload({F})
    BY <1>8, <2>1, <2>3, <2>4
  <2>5. CASE UNCHANGED state
    BY <1>6, <2>5
  <2>. QED BY <1>12, <2>4, <2>5 DEF HandleApplied
<1>13. CASE HandleUnwound
  <2>1. F \in Fibers /\ state[F] = "unloading" /\ job[F] = "idle"
    BY <1>13, Reported DEF HandleUnwound, Phase
  <2>2. ~Holds(F)
    BY <1>1, <2>1, NothingListed
  <2>3. CASE \E t \in {"failed", "gone"} : Remove(F, t)
    BY <1>9, <2>1, <2>2, <2>3
  <2>4. CASE UNCHANGED state
    BY <1>6, <2>4
  <2>. QED BY <1>13, <2>3, <2>4 DEF HandleUnwound
<1>. QED BY <1>10, <1>11, <1>12, <1>13 DEF Handle

LEMMA PromiseDeps == ASSUME Inductive, Inductive', DepsStep PROVE Promise!Next
<1>. USE DEF Inductive
<1>1. state \in [Fibers -> States]
  BY DEF TypeOK, FibersTypeOK
<1>2. cur \in Fibers /\ why \in {"applied", "unwound", "pending", "active"}
  BY DEF DepsStep, ReadOn, Decline, Capture, Accept, Activate, StartLoad, TypeOK, LoopTypeOK, Visits
<1>. PICK f : f = cur
  OBVIOUS
<1>3. /\ job[f] = "idle" /\ ~disposeRequested[f]
      /\ why = "applied" => state[f] = "loading"
      /\ why = "unwound" => state[f] = "unloading"
      /\ why \in {"pending", "active"} => state[f] = why
  BY <1>2, NoToken DEF Visits, Tokens, Phase, Retired
<1>4. UNCHANGED <<provides, effect, disposeRequested>> /\ \A g \in Fibers : Holds(g)' <=> Holds(g)
  BY DEF DepsStep, ReadOn, Decline, Capture, Accept, Activate, StartLoad, OpenScope, svcVars,
         ctxVars, fiberVars, Holds, EntriesOf
<1>5. ASSUME \A g \in Fibers : g # f => PhaseOf(g)' = PhaseOf(g),
             PhaseOf(f)' = PhaseOf(f) \/ Moves(f)
      PROVE Promise!Next
  BY <1>4, <1>5, PromiseNext
<1>6. CASE \E k \in Keys : ReadOn(k) \/ Capture(k)
  BY <1>5, <1>6 DEF ReadOn, Capture, fiberVars, PhaseOf, Opening
<1>7. CASE \E k \in Keys : Decline(k)
  <2>1. \A g \in Fibers : ~Opening(g) /\ ~Opening(g)'
    BY <1>7 DEF Decline, Decided, Opening
  <2>2. \A g \in Fibers : PhaseOf(g) = state[g] /\ PhaseOf(g)' = state'[g]
    BY <2>1 DEF PhaseOf
  <2>3. CASE why \in {"applied", "active"} /\ StartUnload({cur})
    <3>1. state'[f] = "unloading" /\ \A g \in Fibers : g # f => state'[g] = state[g]
      BY <1>1, <1>2, <2>3 DEF StartUnload
    <3>2. Moves(f)
      BY <1>2, <1>3, <1>4, <2>2, <2>3, <3>1 DEF Moves, Promise!Diagram
    <3>. QED BY <1>5, <2>2, <3>1, <3>2
  <2>4. CASE why \in {"pending", "unwound"} /\ state' = [state EXCEPT ![cur] = "pending"]
    <3>1. state'[f] = "pending" /\ \A g \in Fibers : g # f => state'[g] = state[g]
      BY <1>1, <1>2, <2>4
    <3>2. CASE why = "pending"
      BY <1>2, <1>3, <1>5, <2>2, <3>1, <3>2
    <3>3. CASE why = "unwound"
      <4>1. ~Holds(f)
        BY <1>2, <1>3, <2>1, <3>3, NothingListed
      <4>2. Moves(f)
        BY <1>2, <1>3, <1>4, <2>2, <3>1, <3>3, <4>1 DEF Moves, Promise!Diagram
      <4>. QED BY <1>5, <2>2, <3>1, <4>2
    <3>. QED BY <2>4, <3>2, <3>3
  <2>. QED BY <1>2, <1>7, <2>3, <2>4 DEF Decline
<1>8. CASE Accept
  <2>1. UNCHANGED state /\ \A g \in Fibers : ~Opening(g)
    BY <1>8 DEF Accept, fiberVars, Opening
  <2>2. CASE why \in {"active", "applied"}
    <3>1. \A g \in Fibers : ~Opening(g)'
      BY <1>8, <2>2 DEF Accept, Decided, Opening
    <3>. QED BY <1>2, <1>5, <2>1, <3>1 DEF PhaseOf
  <2>3. CASE why \in {"pending", "unwound"}
    <3>1. \A g \in Fibers : Opening(g)' <=> g = f
      BY <1>8, <2>3 DEF Accept, Opening
    <3>2. ~Holds(f)
      BY <1>2, <1>3, <2>1, <2>3, NothingListed
    <3>3. PhaseOf(f)' = "loading" /\ PhaseOf(f) \in {"pending", "unloading"}
      BY <1>2, <1>3, <2>1, <2>3, <3>1 DEF PhaseOf
    <3>4. Moves(f)
      BY <1>2, <1>3, <1>4, <3>2, <3>3 DEF Moves, Promise!Diagram
    <3>. QED BY <1>5, <2>1, <3>1, <3>4 DEF PhaseOf
  <2>. QED BY <1>2, <2>2, <2>3
<1>9. CASE Activate
  <2>1. /\ \A g \in Fibers : ~Opening(g) /\ ~Opening(g)'
        /\ state'[f] = "active" /\ state[f] = "loading"
        /\ \A g \in Fibers : g # f => state'[g] = state[g]
    BY <1>1, <1>2, <1>3, <1>9 DEF Activate, Decided, Opening
  <2>2. \A g \in Fibers : PhaseOf(g) = state[g] /\ PhaseOf(g)' = state'[g]
    BY <2>1 DEF PhaseOf
  <2>3. Moves(f)
    BY <1>2, <1>3, <1>4, <2>1, <2>2 DEF Moves, Promise!Diagram
  <2>. QED BY <1>5, <2>1, <2>2, <2>3
<1>10. CASE StartLoad
  <2>1. /\ \A g \in Fibers : (Opening(g) <=> g = f) /\ ~Opening(g)'
        /\ state'[f] = "loading"
        /\ \A g \in Fibers : g # f => state'[g] = state[g]
    BY <1>1, <1>2, <1>10 DEF StartLoad, Decided, Opening
  <2>. QED BY <1>2, <1>5, <2>1 DEF PhaseOf
<1>. QED BY <1>6, <1>7, <1>8, <1>9, <1>10 DEF DepsStep

LEMMA PromiseSettle == ASSUME Inductive, Inductive', SettleStep PROVE Promise!Next
<1>. USE DEF Inductive
<1>1. /\ UNCHANGED <<provides, effect>> /\ \A f \in Fibers : ~Opening(f) /\ ~Opening(f)'
  BY DEF SettleStep, SettleBegin, SettleEnd, SettleStop, Visit, Consult, Finish, ExitTest, svcVars,
         ctxVars, Opening
<1>2. \A f \in Fibers : PhaseOf(f) = state[f] /\ PhaseOf(f)' = state'[f]
  BY <1>1 DEF PhaseOf
<1>3. CASE UNCHANGED <<state, disposeRequested>>
  BY <1>2, <1>3, PromiseNext
<1>4. CASE SettleStop
  <2>1. state \in [Fibers -> States] /\ disposeRequested \in [Fibers -> BOOLEAN]
    BY DEF TypeOK, FibersTypeOK
  <2>2. \A f \in Fibers :
            \/ state'[f] = state[f]
            \/ state[f] = "pending" /\ state'[f] = "gone"
            \/ state[f] = "active" /\ state'[f] = "unloading"
    BY <1>4, <2>1 DEF SettleStop
  <2>3. \A f \in Fibers : disposeRequested[f] => disposeRequested'[f]
    BY <1>4, <2>1 DEF SettleStop
  <2>4. \A f \in Fibers : state'[f] = state[f] \/ Moves(f)
    <3>. SUFFICES ASSUME NEW f \in Fibers, state'[f] # state[f] PROVE Moves(f)
      OBVIOUS
    <3>1. Holds(f)' <=> Holds(f)
      BY <1>1 DEF Holds, EntriesOf
    <3>2. state[f] = "pending" => ~Holds(f)
      BY <1>2, IdleHolds DEF Live
    <3>. QED BY <1>2, <2>2, <3>1, <3>2 DEF Moves, Promise!Diagram, Promise!Terminal
  <2>. QED BY <1>2, <2>3, <2>4, PromiseNext
<1>. QED BY <1>3, <1>4
         DEF SettleStep, SettleBegin, SettleEnd, Visit, Finish, ExitTest, fiberVars

LEMMA PromiseStep == Inductive /\ Inductive' /\ [Next]_vars =>
                         [Promise!Next]_<<[f \in Fibers |-> PhaseOf(f)], disposeRequested,
                                          [f \in Fibers |-> Holds(f)]>>
<1>. SUFFICES ASSUME Inductive, Inductive', [Next]_vars, ~UNCHANGED vars PROVE Promise!Next
  BY DEF vars, svcVars, ctxVars, loopVars, fiberVars, PhaseOf, Opening, Holds, EntriesOf
<1>. QED BY Steps, PromiseOutside, PromiseHandle, PromiseDeps, PromiseSettle

LEMMA PromiseInit == Init => Promise!Init
<1>. SUFFICES ASSUME Init PROVE Promise!Init
  OBVIOUS
<1>1. \A f \in Fibers : ~Opening(f) /\ Holds(f) = FALSE
  BY DEF Init, ServicesInit, ContextsInit, Opening, Holds, EntriesOf
<1>. QED BY <1>1 DEF Init, Promise!Init

\* The orchestrator implements Lifecycle: whatever commands, goroutines and clients
\* interleave, a handle only ever shows the transitions of the FiberState diagram,
\* a fiber asked to end never loads or serves again, and it is waiting or ended
\* only with nothing in place.
THEOREM LifecycleImplemented == Spec => KeepsPromise
<1>1. Inductive /\ Inductive' /\ [Next]_vars =>
          [Promise!Next]_<<[f \in Fibers |-> IF Opening(f) THEN "loading" ELSE state[f]],
                           disposeRequested, [f \in Fibers |-> Holds(f)]>>
  BY PromiseStep DEF PhaseOf
<1>. QED BY <1>1, PromiseInit, InvariantHolds, PTL DEF Spec, KeepsPromise, Promise!Spec
=============================================================================
