------------------------- MODULE OrchestratorProofs -------------------------
(***************************************************************************)
(* Proofs about the orchestrator, for any fibers, clients, keys, component *)
(* shapes and channel capacity.                                            *)
(***************************************************************************)
EXTENDS OrchestratorProperties, FiniteSetTheorems, TLAPS

USE DEF ApplyInverse

LEMMA Owned == Fibers \subseteq Owners /\ Root \in Owners /\ Root \notin Fibers
BY ServicesAssumption DEF Owners

LEMMA Callers == Fibers \subseteq Procs /\ Users \subseteq Procs /\ Root \in Procs
BY OrchestratorAssumption

\* The commands are commands.
LEMMA CmdTypes ==
    /\ ServiceCmd \in Cmd
    /\ \A f \in Fibers : LoadCmd(f) \in Cmd /\ DisposeCmd(f) \in Cmd /\ UnwoundCmd(f) \in Cmd
    /\ \A f \in Fibers, inv \in BOOLEAN, err \in BOOLEAN : AppliedCmd(f, inv, err) \in Cmd
BY DEF Cmd, ServiceCmd, LoadCmd, DisposeCmd, UnwoundCmd, AppliedCmd

\* A set of entries shows a natural number.
LEMMA GenerationType ==
    ASSUME NEW S, S \subseteq Entry PROVE Generation(S) \in Nat
<1>1. CASE Newest(S) = {}
  BY <1>1 DEF Generation
<1>2. CASE Newest(S) # {}
  <2>1. (CHOOSE e \in Newest(S) : TRUE) \in S
    BY <1>2 DEF Newest
  <2>. QED BY <1>2, <2>1 DEF Generation, Entry
<1>. QED BY <1>1, <1>2

LEMMA ReadTypes ==
    ASSUME TypeOK, NEW k, NEW f PROVE Visible(k) \in Nat /\ External(k, f) \in Nat
BY GenerationType DEF TypeOK, ContextsTypeOK, Visible, External

-----------------------------------------------------------------------------
(* Type correctness. *)

LEMMA TypeInit == Init => TypeOK
<1>. SUFFICES ASSUME Init PROVE TypeOK
  OBVIOUS
<1>. USE DEF Init
<1>1. MailTypeOK
  <2>1. inbox = <<>> /\ inbox \in Seq(Cmd) /\ Len(inbox) = 0
    BY DEF MailboxInit
  <2>2. outgoing \in [Procs -> Cmd \cup {NoCmd}]
    BY DEF MailboxInit
  <2>3. 0 <= InboxCap
    BY MailboxAssumption
  <2>4. inflight \in Int
    BY DEF MailboxInit
  <2>5. sendMu \in Procs \cup {Free} /\ exited \in BOOLEAN
    BY DEF MailboxInit
  <2>. QED BY <2>1, <2>2, <2>3, <2>4, <2>5 DEF MailTypeOK
<1>2. ContextsTypeOK
  BY Owned DEF ServicesInit, ContextsInit, ContextsTypeOK
<1>3. LoopTypeOK
  BY DEF LoopTypeOK
<1>4. FibersTypeOK
  BY DEF FibersTypeOK, States
<1>5. WorkTypeOK
  BY DEF WorkTypeOK, Jobs
<1>. QED BY <1>1, <1>2, <1>3, <1>4, <1>5 DEF TypeOK

\* What a step leaves alone keeps its type.
LEMMA TypeKept ==
    ASSUME TypeOK
    PROVE /\ UNCHANGED mailVars => MailTypeOK'
          /\ UNCHANGED <<svcVars, ctxVars>> => ContextsTypeOK'
          /\ UNCHANGED <<loopVars, stopping>> => LoopTypeOK'
          /\ UNCHANGED fiberVars => FibersTypeOK'
          /\ UNCHANGED <<workVars, ops>> => WorkTypeOK'
<1>. USE DEF TypeOK
<1>1. UNCHANGED mailVars => MailTypeOK'
  BY DEF mailVars, MailTypeOK
<1>2. UNCHANGED <<svcVars, ctxVars>> => ContextsTypeOK'
  BY DEF svcVars, ctxVars, ContextsTypeOK
<1>3. UNCHANGED <<loopVars, stopping>> => LoopTypeOK'
  BY DEF loopVars, LoopTypeOK
<1>4. UNCHANGED fiberVars => FibersTypeOK'
  BY DEF fiberVars, FibersTypeOK
<1>5. UNCHANGED <<workVars, ops>> => WorkTypeOK'
  BY DEF workVars, WorkTypeOK
<1>. QED BY <1>1, <1>2, <1>3, <1>4, <1>5

\* Beginning to send a command.
LEMMA SubmitType ==
    ASSUME TypeOK, NEW p \in Procs, NEW c \in Cmd, Submit(p, c),
           UNCHANGED <<inbox, sendMu, inflight, exited>>
    PROVE MailTypeOK'
BY DEF TypeOK, MailTypeOK, Submit

\* Sending it, sleeping on the full channel, and being refused.
LEMMA SendType ==
    ASSUME TypeOK, NEW p \in Procs, Enqueue(p) \/ Block(p) \/ Reject(p)
    PROVE MailTypeOK'
<1>. USE DEF TypeOK, MailTypeOK
<1>1. CASE Enqueue(p)
  <2>1. outgoing[p] \in Cmd
    BY <1>1 DEF Enqueue, Idle
  <2>2. inbox' \in Seq(Cmd) /\ Len(inbox') = Len(inbox) + 1
    BY <1>1, <2>1 DEF Enqueue
  <2>3. Len(inbox') <= InboxCap
    BY <1>1, <2>2, MailboxAssumption DEF Enqueue
  <2>4. outgoing' \in [Procs -> Cmd \cup {NoCmd}]
    BY <1>1 DEF Enqueue
  <2>5. inflight' \in Int
    BY <1>1 DEF Enqueue
  <2>6. sendMu' \in Procs \cup {Free} /\ exited' \in BOOLEAN
    BY <1>1 DEF Enqueue
  <2>. QED BY <2>2, <2>3, <2>4, <2>5, <2>6
<1>2. CASE Block(p)
  <2>1. inflight' \in Int
    BY <1>2 DEF Block
  <2>2. sendMu' \in Procs \cup {Free} /\ exited' \in BOOLEAN
    BY <1>2 DEF Block
  <2>. QED BY <1>2, <2>1, <2>2 DEF Block
<1>3. CASE Reject(p)
  BY <1>3 DEF Reject
<1>. QED BY <1>1, <1>2, <1>3

\* Taking a command out of the channel.
LEMMA ReceiveType ==
    ASSUME TypeOK, NEW type, Receive(type)
    PROVE MailTypeOK' /\ Head(inbox) \in Cmd
<1>. USE DEF TypeOK, MailTypeOK
<1>1. Head(inbox) \in Cmd /\ inbox' \in Seq(Cmd) /\ Len(inbox') = Len(inbox) - 1
  BY DEF Receive
<1>2. Len(inbox') <= InboxCap
  BY <1>1, MailboxAssumption
<1>. QED BY <1>1, <1>2 DEF Receive

\* The command is about a fiber, unless it only wakes the loop.
LEMMA SubjectType ==
    ASSUME NEW c \in Cmd
    PROVE /\ c.type # "service" => c.fiber \in Fibers
          /\ c.type = "applied" => c.inv \in BOOLEAN /\ c.err \in BOOLEAN
BY DEF Cmd, ServiceCmd

LEMMA ProvideType ==
    ASSUME TypeOK, NEW o \in Owners, NEW k \in Keys, ProvideIn(o, k)
    PROVE ContextsTypeOK'
<1>. USE DEF TypeOK, ContextsTypeOK
<1>1. seq' \in Nat /\ [key |-> k, owner |-> o, seq |-> seq + 1] \in Entry
  BY DEF ProvideIn, AddEntry, Entry
<1>2. provides' \subseteq Entry
  BY <1>1 DEF ProvideIn, AddEntry
<1>3. inverses' \in [Owners -> Seq(Nat)]
  BY DEF ProvideIn
<1>. QED BY <1>1, <1>2, <1>3 DEF ProvideIn

LEMMA DropType ==
    ASSUME TypeOK, NEW s, DropEntry(s) PROVE provides' \subseteq Entry /\ seq' \in Nat
BY DEF TypeOK, ContextsTypeOK, DropEntry

LEMMA RunInverseType ==
    ASSUME TypeOK, NEW o \in Owners, RunInverse(o) PROVE ContextsTypeOK'
<1>. USE DEF TypeOK, ContextsTypeOK
<1>1. inverses[o] \in Seq(Nat) /\ inverses[o] # <<>>
  BY DEF RunInverse
<1>2. SubSeq(inverses[o], 1, Len(inverses[o]) - 1) \in Seq(Nat)
  BY <1>1
<1>3. inverses' \in [Owners -> Seq(Nat)]
  BY <1>2 DEF RunInverse
<1>4. effect' \in [Fibers -> BOOLEAN]
  BY DEF RunInverse
<1>5. provides' \subseteq Entry /\ seq' \in Nat
  BY DropType DEF RunInverse, svcVars
<1>. QED BY <1>3, <1>4, <1>5 DEF RunInverse

LEMMA ScopeType ==
    ASSUME TypeOK, UNCHANGED svcVars, NEW o \in Owners,
           \/ OpenScope(o)
           \/ CloseScope(o)
           \/ KeepApplyInverse(o)
    PROVE ContextsTypeOK'
<1>. USE DEF TypeOK, ContextsTypeOK, svcVars
<1>1. CASE OpenScope(o)
  BY <1>1 DEF OpenScope
<1>2. CASE CloseScope(o)
  BY <1>2 DEF CloseScope
<1>3. CASE KeepApplyInverse(o)
  <2>1. Append(inverses[o], 0) \in Seq(Nat)
    OBVIOUS
  <2>. QED BY <1>3, <2>1 DEF KeepApplyInverse
<1>. QED BY <1>1, <1>2, <1>3

LEMMA TypeClient ==
    ASSUME TypeOK, NEW u \in Users, Client(u) PROVE TypeOK'
<1>. USE Owned, Callers, CmdTypes, TypeKept
<1>1. ASSUME NEW f \in Fibers, Load(u, f) PROVE TypeOK'
  <2>1. MailTypeOK'
    BY <1>1, SubmitType DEF Load, mailVars
  <2>2. FibersTypeOK'
    BY <1>1 DEF Load, TypeOK, FibersTypeOK, States
  <2>. QED BY <1>1, <2>1, <2>2 DEF Load, TypeOK
<1>2. ASSUME NEW f \in Fibers, Dispose(u, f) PROVE TypeOK'
  <2>1. MailTypeOK'
    BY <1>2, SubmitType DEF Dispose
  <2>2. WorkTypeOK'
    BY <1>2 DEF Dispose, TypeOK, WorkTypeOK, workVars
  <2>. QED BY <1>2, <2>1, <2>2 DEF Dispose, TypeOK
<1>3. ASSUME NEW o \in Owners, NEW k \in Keys, ProvideOn(u, o, k) PROVE TypeOK'
  <2>1. MailTypeOK'
    BY <1>3, SubmitType DEF ProvideOn
  <2>2. ContextsTypeOK'
    BY <1>3, ProvideType DEF ProvideOn
  <2>3. WorkTypeOK'
    BY <1>3 DEF ProvideOn, TypeOK, WorkTypeOK, workVars
  <2>. QED BY <1>3, <2>1, <2>2, <2>3 DEF ProvideOn, TypeOK
<1>4. ASSUME NEW e \in provides, Withdraw(u, e) PROVE TypeOK'
  <2>1. MailTypeOK'
    BY <1>4, SubmitType DEF Withdraw
  <2>2. ContextsTypeOK'
    BY <1>4, DropType DEF Withdraw, TypeOK, ContextsTypeOK, ctxVars
  <2>3. WorkTypeOK'
    BY <1>4 DEF Withdraw, TypeOK, WorkTypeOK, workVars
  <2>. QED BY <1>4, <2>1, <2>2, <2>3 DEF Withdraw, TypeOK
<1>. QED BY <1>1, <1>2, <1>3, <1>4 DEF Client

LEMMA TypeWorker ==
    ASSUME TypeOK, NEW f \in Fibers, Worker(f) PROVE TypeOK'
<1>. USE Owned, Callers, CmdTypes, TypeKept
<1>1. ASSUME NEW k \in Keys, ApplyRead(f, k) PROVE TypeOK'
  <2>1. WorkTypeOK'
    BY <1>1, ReadTypes DEF ApplyRead, TypeOK, WorkTypeOK
  <2>. QED BY <1>1, <2>1 DEF ApplyRead, TypeOK
<1>2. ASSUME NEW k \in Keys, ApplyProvide(f, k) PROVE TypeOK'
  <2>1. MailTypeOK'
    BY <1>2, SubmitType DEF ApplyProvide
  <2>2. ContextsTypeOK'
    BY <1>2, ProvideType DEF ApplyProvide
  <2>3. WorkTypeOK'
    BY <1>2 DEF ApplyProvide, TypeOK, WorkTypeOK
  <2>. QED BY <1>2, <2>1, <2>2, <2>3 DEF ApplyProvide, TypeOK
<1>3. ASSUME ApplyReturn(f) PROVE TypeOK'
  <2>1. MailTypeOK'
    BY <1>3, SubmitType DEF ApplyReturn, Report
  <2>2. ContextsTypeOK'
    BY <1>3 DEF ApplyReturn, TypeOK, ContextsTypeOK, svcVars
  <2>3. WorkTypeOK'
    BY <1>3 DEF ApplyReturn, Report, TypeOK, WorkTypeOK, Jobs
  <2>. QED BY <1>3, <2>1, <2>2, <2>3 DEF ApplyReturn, TypeOK
<1>4. ASSUME NEW inv \in BOOLEAN, ApplyFail(f, inv) PROVE TypeOK'
  <2>1. MailTypeOK'
    BY <1>4, SubmitType DEF ApplyFail, Report
  <2>2. ContextsTypeOK'
    BY <1>4 DEF ApplyFail, TypeOK, ContextsTypeOK, svcVars
  <2>3. WorkTypeOK'
    BY <1>4 DEF ApplyFail, Report, TypeOK, WorkTypeOK, Jobs
  <2>. QED BY <1>4, <2>1, <2>2, <2>3 DEF ApplyFail, TypeOK
<1>5. ASSUME UnwindBegin(f) PROVE TypeOK'
  <2>1. ContextsTypeOK'
    BY <1>5, ScopeType DEF UnwindBegin
  <2>2. WorkTypeOK'
    BY <1>5 DEF UnwindBegin, TypeOK, WorkTypeOK, Jobs
  <2>. QED BY <1>5, <2>1, <2>2 DEF UnwindBegin, TypeOK
<1>6. ASSUME UnwindStep(f) PROVE TypeOK'
  <2>1. MailTypeOK'
    BY <1>6, SubmitType DEF UnwindStep, mailVars
  <2>2. ContextsTypeOK'
    BY <1>6, RunInverseType DEF UnwindStep
  <2>. QED BY <1>6, <2>1, <2>2 DEF UnwindStep, TypeOK
<1>7. ASSUME UnwindEnd(f) PROVE TypeOK'
  <2>1. MailTypeOK'
    BY <1>7, SubmitType DEF UnwindEnd, Report
  <2>2. WorkTypeOK'
    BY <1>7 DEF UnwindEnd, Report, TypeOK, WorkTypeOK, Jobs
  <2>. QED BY <1>7, <2>1, <2>2 DEF UnwindEnd, TypeOK
<1>. QED BY <1>1, <1>2, <1>3, <1>4, <1>5, <1>6, <1>7 DEF Worker

LEMMA TypeCloser == ASSUME TypeOK, Closer PROVE TypeOK'
<1>. USE Owned, Callers, CmdTypes, TypeKept
<1>1. ASSUME CloseBegin PROVE TypeOK'
  <2>1. MailTypeOK'
    BY <1>1, SubmitType DEF CloseBegin
  <2>2. LoopTypeOK'
    BY <1>1 DEF CloseBegin, TypeOK, LoopTypeOK, loopVars
  <2>3. WorkTypeOK'
    BY <1>1 DEF CloseBegin, TypeOK, WorkTypeOK, Jobs
  <2>. QED BY <1>1, <2>1, <2>2, <2>3 DEF CloseBegin, TypeOK
<1>2. ASSUME CloseRewind PROVE TypeOK'
  <2>1. ContextsTypeOK'
    BY <1>2, ScopeType DEF CloseRewind
  <2>2. WorkTypeOK'
    BY <1>2 DEF CloseRewind, TypeOK, WorkTypeOK, Jobs
  <2>. QED BY <1>2, <2>1, <2>2 DEF CloseRewind, TypeOK
<1>3. ASSUME UnwindStep(Root) PROVE TypeOK'
  <2>1. MailTypeOK'
    BY <1>3, SubmitType DEF UnwindStep, mailVars
  <2>2. ContextsTypeOK'
    BY <1>3, RunInverseType DEF UnwindStep
  <2>. QED BY <1>3, <2>1, <2>2 DEF UnwindStep, TypeOK
<1>4. ASSUME CloseEnd PROVE TypeOK'
  <2>1. WorkTypeOK'
    BY <1>4 DEF CloseEnd, TypeOK, WorkTypeOK, Jobs
  <2>. QED BY <1>4, <2>1 DEF CloseEnd, TypeOK
<1>. QED BY <1>1, <1>2, <1>3, <1>4 DEF Closer

LEMMA TypeSend ==
    ASSUME TypeOK, NEW p \in Procs, Sending(p) \/ Refusal(p) PROVE TypeOK'
<1>. USE TypeKept, SendType
<1>1. CASE Sending(p)
  BY <1>1 DEF Sending, TypeOK
<1>2. CASE Refusal(p)
  <2>1. FibersTypeOK'
    BY <1>2 DEF Refusal, TypeOK, FibersTypeOK, States
  <2>. QED BY <1>2, <2>1 DEF Refusal, TypeOK
<1>. QED BY <1>1, <1>2

\* The shapes of components.
LEMMA ShapeType == \A f \in Fibers : Inject[f] \subseteq Keys /\ Offers[f] \subseteq Keys
BY OrchestratorAssumption

LEMMA CountType == \A S \in SUBSET Fibers : Cardinality(S) \in Nat
BY OrchestratorAssumption, FS_Subset, FS_CardinalityType

LEMMA StartUnloadType ==
    ASSUME TypeOK, NEW S \in SUBSET Fibers, StartUnload(S), failed' \in [Fibers -> BOOLEAN],
           disposeRequested' \in [Fibers -> BOOLEAN], UNCHANGED ops
    PROVE FibersTypeOK' /\ WorkTypeOK'
<1>1. FibersTypeOK'
  BY DEF StartUnload, TypeOK, FibersTypeOK, States
<1>2. WorkTypeOK'
  BY CountType, Owned DEF StartUnload, TypeOK, WorkTypeOK, Jobs
<1>. QED BY <1>1, <1>2

LEMMA RemoveType ==
    ASSUME TypeOK, NEW f \in Fibers, NEW t \in {"failed", "gone"}, Remove(f, t),
           disposeRequested' \in [Fibers -> BOOLEAN], UNCHANGED ops
    PROVE FibersTypeOK' /\ WorkTypeOK'
<1>1. FibersTypeOK'
  BY DEF Remove, TypeOK, FibersTypeOK, States
<1>2. WorkTypeOK'
  BY TypeKept DEF Remove
<1>. QED BY <1>1, <1>2

LEMMA TypeHandle == ASSUME TypeOK, Handle PROVE TypeOK'
<1>. USE Owned, TypeKept, ShapeType
<1>1. ASSUME HandleLoad PROVE TypeOK'
  <2>1. MailTypeOK' /\ Head(inbox) \in Cmd /\ Head(inbox).type = "load"
    BY <1>1, ReceiveType DEF HandleLoad, Receive
  <2>2. Subject \in Fibers
    BY <2>1, SubjectType DEF Subject
  <2>3. ContextsTypeOK' /\ WorkTypeOK'
    BY <1>1 DEF HandleLoad, Receive, svcVars
  <2>4. LoopTypeOK'
    BY <1>1 DEF HandleLoad, Receive, ToSettle, TypeOK, LoopTypeOK
  <2>5. FibersTypeOK'
    BY <1>1, <2>2 DEF HandleLoad, TypeOK, FibersTypeOK
  <2>. QED BY <2>1, <2>3, <2>4, <2>5 DEF TypeOK
<1>2. ASSUME HandleService PROVE TypeOK'
  <2>1. MailTypeOK'
    BY <1>2, ReceiveType DEF HandleService
  <2>2. ContextsTypeOK' /\ FibersTypeOK' /\ WorkTypeOK'
    BY <1>2 DEF HandleService, Receive, svcVars
  <2>3. LoopTypeOK'
    BY <1>2 DEF HandleService, Receive, ToSettle, TypeOK, LoopTypeOK
  <2>. QED BY <2>1, <2>2, <2>3 DEF TypeOK
<1>3. ASSUME HandleDispose PROVE TypeOK'
  <2>1. MailTypeOK' /\ Head(inbox) \in Cmd /\ Head(inbox).type = "dispose"
    BY <1>3, ReceiveType DEF HandleDispose, Receive
  <2>2. Subject \in Fibers
    BY <2>1, SubjectType DEF Subject
  <2>3. ContextsTypeOK'
    BY <1>3 DEF HandleDispose, Receive, svcVars
  <2>4. LoopTypeOK'
    BY <1>3 DEF HandleDispose, Receive, ToSettle, TypeOK, LoopTypeOK
  <2>5. disposeRequested' \in [Fibers -> BOOLEAN] /\ UNCHANGED ops
    BY <1>3, <2>2 DEF HandleDispose, Receive, TypeOK, FibersTypeOK
  <2>6. FibersTypeOK' /\ WorkTypeOK'
    <3>1. CASE Remove(Subject, "gone")
      BY <2>2, <2>5, <3>1, RemoveType
    <3>2. CASE StartUnload({Subject}) /\ UNCHANGED failed
      BY <2>2, <2>5, <3>2, StartUnloadType DEF TypeOK, FibersTypeOK
    <3>3. CASE UNCHANGED <<state, registry, failed, depSnap, workVars>>
      BY <2>5, <3>3 DEF TypeOK, FibersTypeOK
    <3>. QED BY <1>3, <3>1, <3>2, <3>3 DEF HandleDispose
  <2>. QED BY <2>1, <2>3, <2>4, <2>6 DEF TypeOK
<1>4. ASSUME HandleApplied PROVE TypeOK'
  <2>1. MailTypeOK' /\ Head(inbox) \in Cmd /\ Head(inbox).type = "applied"
    BY <1>4, ReceiveType DEF HandleApplied, Receive
  <2>2. Subject \in Fibers /\ Head(inbox).err \in BOOLEAN
    BY <2>1, SubjectType DEF Subject
  <2>3. ContextsTypeOK'
    BY <1>4, <2>2, ScopeType DEF HandleApplied, Receive, svcVars
  <2>4. disposeRequested' \in [Fibers -> BOOLEAN] /\ UNCHANGED <<ops, todo, changed, stopping>>
    BY <1>4 DEF HandleApplied, Receive, TypeOK, FibersTypeOK
  <2>5. LoopTypeOK' /\ FibersTypeOK' /\ WorkTypeOK'
    <3>1. CASE ToSettle /\ StartUnload({Subject})
               /\ failed' = [failed EXCEPT ![Subject] = @ \/ Head(inbox).err]
      <4>1. LoopTypeOK'
        BY <1>4, <2>4, <3>1 DEF HandleApplied, Receive, ToSettle, TypeOK, LoopTypeOK
      <4>2. failed' \in [Fibers -> BOOLEAN]
        BY <2>2, <3>1 DEF TypeOK, FibersTypeOK
      <4>. QED BY <2>2, <2>4, <3>1, <4>1, <4>2, StartUnloadType
    <3>2. CASE Consult(Subject, "applied")
               /\ UNCHANGED <<state, registry, failed, depSnap, workVars>>
      <4>1. LoopTypeOK'
        BY <2>2, <2>4, <3>2 DEF Consult, TypeOK, LoopTypeOK
      <4>2. FibersTypeOK'
        BY <2>4, <3>2 DEF TypeOK, FibersTypeOK
      <4>. QED BY <2>4, <3>2, <4>1, <4>2
    <3>. QED BY <1>4, <3>1, <3>2 DEF HandleApplied
  <2>. QED BY <2>1, <2>3, <2>5 DEF TypeOK
<1>5. ASSUME HandleUnwound PROVE TypeOK'
  <2>1. MailTypeOK' /\ Head(inbox) \in Cmd /\ Head(inbox).type = "unwound"
    BY <1>5, ReceiveType DEF HandleUnwound, Receive
  <2>2. Subject \in Fibers
    BY <2>1, SubjectType DEF Subject
  <2>3. ContextsTypeOK'
    BY <1>5 DEF HandleUnwound, Receive, svcVars
  <2>4. disposeRequested' \in [Fibers -> BOOLEAN] /\ UNCHANGED <<ops, todo, changed, stopping>>
    BY <1>5 DEF HandleUnwound, Receive, TypeOK, FibersTypeOK
  <2>5. LoopTypeOK' /\ FibersTypeOK' /\ WorkTypeOK'
    <3>1. CASE ToSettle /\ Remove(Subject, IF failed[Subject] THEN "failed" ELSE "gone")
      <4>1. LoopTypeOK'
        BY <1>5, <2>4, <3>1 DEF HandleUnwound, Receive, ToSettle, TypeOK, LoopTypeOK
      <4>. QED BY <2>2, <2>4, <3>1, <4>1, RemoveType
    <3>2. CASE Consult(Subject, "unwound")
               /\ UNCHANGED <<state, registry, failed, depSnap, workVars>>
      <4>1. LoopTypeOK'
        BY <2>2, <2>4, <3>2 DEF Consult, TypeOK, LoopTypeOK
      <4>2. FibersTypeOK'
        BY <2>4, <3>2 DEF TypeOK, FibersTypeOK
      <4>. QED BY <2>4, <3>2, <4>1, <4>2
    <3>. QED BY <1>5, <3>1, <3>2 DEF HandleUnwound
  <2>. QED BY <2>1, <2>3, <2>5 DEF TypeOK
<1>. QED BY <1>1, <1>2, <1>3, <1>4, <1>5 DEF Handle

LEMMA TypeDeps ==
    ASSUME TypeOK,
           \/ \E k \in Keys : ReadOn(k) \/ Decline(k) \/ Capture(k)
           \/ Accept \/ Activate \/ StartLoad
    PROVE TypeOK'
<1>. USE Owned, TypeKept, ShapeType
<1>1. pc \in {"deps", "capture"} /\ cur \in Fibers
  BY DEF ReadOn, Decline, Capture, Accept, Activate, StartLoad, TypeOK, LoopTypeOK
<1>2. ASSUME NEW k \in Keys, ReadOn(k) PROVE TypeOK'
  <2>1. LoopTypeOK'
    BY <1>2 DEF ReadOn, TypeOK, LoopTypeOK
  <2>. QED BY <1>2, <2>1 DEF ReadOn, TypeOK
<1>3. ASSUME NEW k \in Keys, Decline(k) PROVE TypeOK'
  <2>1. LoopTypeOK'
    BY <1>3 DEF Decline, Decided, TypeOK, LoopTypeOK
  <2>2. FibersTypeOK' /\ WorkTypeOK'
    <3>1. CASE StartUnload({cur}) /\ UNCHANGED failed
      BY <1>1, <1>3, <3>1, StartUnloadType DEF Decline, TypeOK, FibersTypeOK
    <3>2. CASE /\ state' = [state EXCEPT ![cur] = "pending"]
               /\ UNCHANGED <<registry, failed, depSnap, workVars>>
      BY <1>3, <3>2 DEF Decline, TypeOK, FibersTypeOK, States
    <3>. QED BY <1>3, <3>1, <3>2 DEF Decline
  <2>. QED BY <1>3, <2>1, <2>2 DEF Decline, TypeOK
<1>4. ASSUME NEW k \in Keys, Capture(k) PROVE TypeOK'
  <2>1. LoopTypeOK'
    BY <1>4 DEF Capture, TypeOK, LoopTypeOK
  <2>2. FibersTypeOK'
    BY <1>1, <1>4, ReadTypes DEF Capture, TypeOK, FibersTypeOK
  <2>. QED BY <1>4, <2>1, <2>2 DEF Capture, TypeOK
<1>5. ASSUME Accept PROVE TypeOK'
  <2>1. LoopTypeOK'
    BY <1>1, <1>5 DEF Accept, Decided, TypeOK, LoopTypeOK
  <2>2. ContextsTypeOK'
    BY <1>1, <1>5, ScopeType DEF Accept
  <2>. QED BY <1>5, <2>1, <2>2 DEF Accept, TypeOK
<1>6. ASSUME Activate PROVE TypeOK'
  <2>1. LoopTypeOK'
    BY <1>6 DEF Activate, Decided, TypeOK, LoopTypeOK
  <2>2. FibersTypeOK'
    BY <1>6 DEF Activate, TypeOK, FibersTypeOK, States
  <2>. QED BY <1>6, <2>1, <2>2 DEF Activate, TypeOK
<1>7. ASSUME StartLoad PROVE TypeOK'
  <2>1. LoopTypeOK'
    BY <1>7 DEF StartLoad, Decided, TypeOK, LoopTypeOK
  <2>2. FibersTypeOK'
    BY <1>7 DEF StartLoad, TypeOK, FibersTypeOK, States
  <2>3. WorkTypeOK'
    BY <1>1, <1>7 DEF StartLoad, TypeOK, WorkTypeOK, Jobs
  <2>. QED BY <1>7, <2>1, <2>2, <2>3 DEF StartLoad, TypeOK
<1>. QED BY <1>2, <1>3, <1>4, <1>5, <1>6, <1>7

LEMMA TypeSettle ==
    ASSUME TypeOK,
           \/ SettleBegin \/ SettleEnd \/ SettleStop
           \/ \E f \in Fibers : Visit(f)
           \/ Finish \/ ExitTest
    PROVE TypeOK'
<1>. USE Owned, TypeKept, ShapeType
<1>1. ASSUME SettleBegin PROVE TypeOK'
  <2>1. LoopTypeOK'
    BY <1>1 DEF SettleBegin, TypeOK, LoopTypeOK, FibersTypeOK
  <2>. QED BY <1>1, <2>1 DEF SettleBegin, TypeOK
<1>2. ASSUME SettleEnd PROVE TypeOK'
  <2>1. LoopTypeOK'
    BY <1>2 DEF SettleEnd, TypeOK, LoopTypeOK
  <2>. QED BY <1>2, <2>1 DEF SettleEnd, TypeOK
<1>3. ASSUME SettleStop PROVE TypeOK'
  <2>. DEFINE serving == {f \in registry : state[f] = "active" /\ ~disposeRequested[f]}
              waiting == {f \in registry : state[f] = "pending" /\ ~disposeRequested[f]}
  <2>1. serving \in SUBSET Fibers
    BY DEF TypeOK, FibersTypeOK
  <2>2. LoopTypeOK'
    BY <1>3 DEF SettleStop, TypeOK, LoopTypeOK
  <2>3. FibersTypeOK'
    <3>1. registry' \subseteq Fibers
      BY <1>3 DEF SettleStop, TypeOK, FibersTypeOK
    <3>2. state' = [f \in Fibers |-> IF f \in waiting THEN "gone"
                                    ELSE IF f \in serving THEN "unloading" ELSE state[f]]
      BY <1>3 DEF SettleStop
    <3>3. state' \in [Fibers -> States]
      BY <3>2 DEF TypeOK, FibersTypeOK, States
    <3>4. disposeRequested' \in [Fibers -> BOOLEAN]
      BY <1>3 DEF SettleStop, TypeOK, FibersTypeOK
    <3>. QED BY <1>3, <3>1, <3>3, <3>4 DEF SettleStop, TypeOK, FibersTypeOK
  <2>4. WorkTypeOK'
    <3>1. pending' = pending + Cardinality(serving)
      BY <1>3 DEF SettleStop
    <3>2. pending' \in Int
      BY <2>1, <3>1, CountType DEF TypeOK, WorkTypeOK
    <3>3. job' = [o \in Owners |-> IF o \in serving THEN "unload" ELSE job[o]]
      BY <1>3 DEF SettleStop
    <3>4. job' \in [Owners -> Jobs]
      BY <3>3 DEF TypeOK, WorkTypeOK, Jobs
    <3>. QED BY <1>3, <3>2, <3>4 DEF SettleStop, TypeOK, WorkTypeOK
  <2>. QED BY <1>3, <2>2, <2>3, <2>4 DEF SettleStop, TypeOK
<1>4. ASSUME NEW f \in Fibers, Visit(f) PROVE TypeOK'
  <2>1. LoopTypeOK'
    BY <1>4 DEF Visit, Consult, TypeOK, LoopTypeOK, FibersTypeOK
  <2>. QED BY <1>4, <2>1 DEF Visit, TypeOK
<1>5. ASSUME Finish PROVE TypeOK'
  <2>1. MailTypeOK'
    <3>1. inflight' \in Int
      BY <1>5 DEF Finish, TypeOK, MailTypeOK
    <3>. QED BY <1>5, <3>1 DEF Finish, TypeOK, MailTypeOK
  <2>2. LoopTypeOK'
    BY <1>5 DEF Finish, TypeOK, LoopTypeOK
  <2>. QED BY <1>5, <2>1, <2>2 DEF Finish, TypeOK
<1>6. ASSUME ExitTest PROVE TypeOK'
  <2>1. MailTypeOK'
    BY <1>6 DEF ExitTest, TypeOK, MailTypeOK
  <2>2. LoopTypeOK'
    BY <1>6 DEF ExitTest, TypeOK, LoopTypeOK
  <2>. QED BY <1>6, <2>1, <2>2 DEF ExitTest, TypeOK
<1>. QED BY <1>1, <1>2, <1>3, <1>4, <1>5, <1>6

LEMMA TypeStep == TypeOK /\ [Next]_vars => TypeOK'
<1>. SUFFICES ASSUME TypeOK, [Next]_vars PROVE TypeOK'
  OBVIOUS
<1>1. CASE Next
  BY <1>1, TypeClient, TypeWorker, TypeCloser, TypeSend, TypeHandle, TypeDeps, TypeSettle
     DEF Next, Loop
<1>2. CASE UNCHANGED vars
  BY <1>2, TypeKept DEF vars, TypeOK
<1>. QED BY <1>1, <1>2

\* Type correctness: every variable keeps its type, the channel never exceeds its
\* capacity, and the loop looks at a fiber exactly while it reads dependencies.
THEOREM TypeCorrect == Spec => []TypeOK
<1>. QED BY TypeInit, TypeStep, PTL DEF Spec
-----------------------------------------------------------------------------
(* One fiber per key. *)

\* Entries leave freely; one may come only past the refusal.
LEMMA OneProviderStep ==
    ASSUME TypeOK, OneFiberProvider, [Next]_vars PROVE OneFiberProvider'
<1>1. ASSUME provides' \subseteq provides PROVE OneFiberProvider'
  BY <1>1 DEF OneFiberProvider
<1>2. ASSUME NEW o \in Owners, NEW k \in Keys, ProvideIn(o, k) PROVE OneFiberProvider'
  <2>. DEFINE new == [key |-> k, owner |-> o, seq |-> seq + 1]
  <2>1. provides' = provides \cup {new}
    BY <1>2 DEF ProvideIn, AddEntry
  <2>2. \A e \in provides : e.key = k => e.owner \notin Fibers \ {o}
    BY <1>2 DEF ProvideIn, AddEntry, Refused
  <2>3. new.key = k /\ new.owner = o
    OBVIOUS
  <2>. HIDE DEF new
  <2>. QED BY <2>1, <2>2, <2>3 DEF OneFiberProvider
<1>3. ASSUME NEW o, RunInverse(o) PROVE provides' \subseteq provides
  BY <1>3 DEF RunInverse, DropEntry, svcVars
<1>4. CASE \E u \in Users : Client(u)
  <2>. PICK u \in Users : Client(u)
    BY <1>4
  <2>. QED BY <1>1, <1>2, Owned DEF Client, Load, Dispose, ProvideOn, Withdraw, DropEntry, svcVars
<1>5. CASE \E f \in Fibers : Worker(f)
  <2>. PICK f \in Fibers : Worker(f)
    BY <1>5
  <2>. QED BY <1>1, <1>2, <1>3, Owned
           DEF Worker, ApplyRead, ApplyProvide, ApplyReturn, ApplyFail, UnwindBegin, UnwindStep,
               UnwindEnd, svcVars
<1>6. CASE Closer
  BY <1>1, <1>3, <1>6 DEF Closer, CloseBegin, CloseRewind, UnwindStep, CloseEnd, svcVars
<1>7. CASE \E p \in Procs : Sending(p) \/ Refusal(p)
  BY <1>1, <1>7 DEF Sending, Refusal, svcVars
<1>8. CASE Handle
  BY <1>1, <1>8 DEF Handle, HandleLoad, HandleDispose, HandleApplied, HandleUnwound,
                    HandleService, Receive
<1>9. CASE Loop /\ ~Handle
  BY <1>1, <1>9 DEF Loop, ReadOn, Decline, Capture, Accept, Activate, StartLoad, SettleBegin,
                    SettleEnd, SettleStop, Visit, Finish, ExitTest, svcVars
<1>10. CASE UNCHANGED vars
  BY <1>1, <1>10 DEF vars, svcVars
<1>. QED BY <1>4, <1>5, <1>6, <1>7, <1>8, <1>9, <1>10 DEF Next

\* At most one fiber provides a key at any time, whatever races: the refusal in
\* Provide and the entry it lets through are one step under the lock.
THEOREM NoDuplicateProviders == Spec => []OneFiberProvider
<1>1. Init => OneFiberProvider
  BY DEF Init, ServicesInit, OneFiberProvider
<1>. QED BY <1>1, TypeCorrect, OneProviderStep, PTL DEF Spec
=============================================================================
