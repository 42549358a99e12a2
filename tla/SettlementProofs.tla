-------------------------- MODULE SettlementProofs --------------------------
(***************************************************************************)
(* The counters of the exit test, the reports of goroutines, the order of  *)
(* undoing, and the settling of the services: the second inductive         *)
(* invariant of the orchestrator; then what Apply delivers, shutdown, and  *)
(* the outcome of settling: the third.  With the properties that follow,   *)
(* for any fibers, clients, keys, component shapes and channel capacity.   *)
(***************************************************************************)
EXTENDS InvariantProofs, WellFoundedInduction

-----------------------------------------------------------------------------
(* The counter of goroutines. *)

Busy == {f \in Fibers : job[f] # "idle"}

LEMMA BusyFinite == IsFiniteSet(Busy) /\ Cardinality(Busy) \in Nat
<1>1. Busy \in SUBSET Fibers
  BY DEF Busy
<1>. QED BY <1>1, OrchestratorAssumption, FS_Subset, FS_CardinalityType

LEMMA BusyFiniteNext == IsFiniteSet(Busy') /\ Cardinality(Busy') \in Nat
<1>1. Busy' \in SUBSET Fibers
  BY DEF Busy
<1>. QED BY <1>1, OrchestratorAssumption, FS_Subset, FS_CardinalityType

\* No goroutine begins or ends; or one ends; or one begins for each fiber of S.
JobsStand == pending' = pending /\ \A f \in Fibers : job'[f] = "idle" <=> job[f] = "idle"

JobEnds(f) ==
    /\ pending' = pending - 1 /\ job[f] # "idle"
    /\ \A g \in Fibers : job'[g] = "idle" <=> g = f \/ job[g] = "idle"

JobsBegin(S) ==
    /\ pending' = pending + Cardinality(S) /\ \A f \in S : job[f] = "idle"
    /\ \A g \in Fibers : job'[g] = "idle" <=> g \notin S /\ job[g] = "idle"

LEMMA StandCounts ==
    ASSUME pending = Cardinality(Busy), JobsStand PROVE pending' = Cardinality(Busy')
<1>1. Busy' = Busy
  BY DEF Busy, JobsStand
<1>. QED BY <1>1 DEF JobsStand

LEMMA EndCounts ==
    ASSUME pending = Cardinality(Busy), NEW f \in Fibers, JobEnds(f)
    PROVE pending' = Cardinality(Busy')
<1>1. Busy' = Busy \ {f} /\ f \in Busy
  BY DEF Busy, JobEnds
<1>2. Cardinality(Busy \ {f}) = Cardinality(Busy) - 1
  BY <1>1, BusyFinite, FS_RemoveElement
<1>. QED BY <1>1, <1>2 DEF JobEnds

LEMMA BeginCounts ==
    ASSUME pending = Cardinality(Busy), NEW S \in SUBSET Fibers, JobsBegin(S)
    PROVE pending' = Cardinality(Busy')
<1>1. Busy' = Busy \cup S /\ Busy \cap S = {}
  BY DEF Busy, JobsBegin
<1>2. IsFiniteSet(S) /\ Cardinality(S) \in Nat
  BY OrchestratorAssumption, FS_Subset, FS_CardinalityType
<1>3. Cardinality(Busy \cup S) = Cardinality(Busy) + Cardinality(S) - Cardinality(Busy \cap S)
  BY <1>2, BusyFinite, FS_Union
<1>4. Cardinality(Busy \cap S) = 0
  BY <1>1, FS_EmptySet
<1>. QED BY <1>1, <1>2, <1>3, <1>4, BusyFinite DEF JobsBegin

\* What a step of each kind does with the goroutines.
LEMMA JobsOutside ==
    ASSUME Inductive,
           (\E u \in Users : Client(u)) \/ Closer
               \/ (\E p \in Procs : Sending(p) \/ Refusal(p)) \/ SettleStep \/ UNCHANGED vars
    PROVE JobsStand \/ \E S \in SUBSET Fibers : JobsBegin(S)
<1>. USE Owned
<1>0. job \in [Owners -> Jobs] /\ state \in [Fibers -> States]
  BY DEF Inductive, TypeOK, WorkTypeOK, FibersTypeOK
<1>1. CASE (\E u \in Users : Client(u)) \/ (\E p \in Procs : Sending(p) \/ Refusal(p))
           \/ UNCHANGED vars
  BY <1>1 DEF Client, Load, Dispose, ProvideOn, Withdraw, Sending, Refusal, vars, workVars, JobsStand
<1>2. CASE Closer
  BY <1>0, <1>2 DEF Closer, CloseBegin, CloseRewind, UnwindStep, CloseEnd, workVars, JobsStand
<1>3. CASE SettleBegin \/ SettleEnd \/ Finish \/ ExitTest \/ \E f \in Fibers : Visit(f)
  BY <1>3 DEF SettleBegin, SettleEnd, Finish, ExitTest, Visit, workVars, JobsStand
<1>4. CASE SettleStop
  <2>1. PICK serving : serving = {f \in registry : state[f] = "active" /\ ~disposeRequested[f]}
    OBVIOUS
  <2>2. serving \in SUBSET Fibers
    BY <2>1 DEF Inductive, TypeOK, FibersTypeOK
  <2>3. \A f \in serving : job[f] = "idle"
    BY <2>1, <2>2, NoToken DEF Inductive
  <2>4. /\ pending' = pending + Cardinality(serving)
        /\ \A g \in Fibers : job'[g] = IF g \in serving THEN "unload" ELSE job[g]
    BY <1>4, <2>1 DEF SettleStop
  <2>. QED BY <2>2, <2>3, <2>4 DEF JobsBegin
<1>. QED BY <1>1, <1>2, <1>3, <1>4 DEF SettleStep

LEMMA JobsWorker ==
    ASSUME Inductive, NEW f \in Fibers, Worker(f) PROVE JobsStand \/ JobEnds(f)
<1>. USE Owned
<1>0. job \in [Owners -> Jobs]
  BY DEF Inductive, TypeOK, WorkTypeOK
<1>1. CASE \E k \in Keys : ApplyRead(f, k) \/ ApplyProvide(f, k)
  BY <1>1 DEF ApplyRead, ApplyProvide, JobsStand
<1>2. CASE ApplyReturn(f) \/ (\E inv \in BOOLEAN : ApplyFail(f, inv)) \/ UnwindEnd(f)
  <2>1. job' = [job EXCEPT ![f] = "idle"] /\ pending' = pending - 1 /\ job[f] # "idle"
    BY <1>2 DEF ApplyReturn, ApplyFail, UnwindEnd, Report
  <2>. QED BY <1>0, <2>1 DEF JobEnds
<1>3. CASE UnwindBegin(f) \/ UnwindStep(f)
  BY <1>0, <1>3 DEF UnwindBegin, UnwindStep, workVars, JobsStand
<1>. QED BY <1>1, <1>2, <1>3 DEF Worker

LEMMA UnloadBegins ==
    ASSUME Inductive, NEW f \in Fibers, job[f] = "idle", StartUnload({f})
    PROVE JobsBegin({f})
BY Owned DEF StartUnload, JobsBegin, Inductive, TypeOK, WorkTypeOK

LEMMA JobsLoop ==
    ASSUME Inductive, Handle \/ DepsStep PROVE JobsStand \/ \E f \in Fibers : JobsBegin({f})
<1>. USE Owned
<1>0. job \in [Owners -> Jobs] /\ Tokens
  BY DEF Inductive, TypeOK, WorkTypeOK
<1>1. CASE HandleLoad \/ HandleService
  BY <1>1 DEF HandleLoad, HandleService, workVars, JobsStand
<1>2. CASE HandleDispose
  <2>1. CASE StartUnload({Subject}) /\ state[Subject] = "active"
    <3>1. Subject \in Fibers
      BY <1>2, ReceiveFacts, SubjectType DEF HandleDispose, Inductive
    <3>. QED BY <1>0, <2>1, <3>1, NoToken, UnloadBegins
  <2>. QED BY <1>2, <2>1 DEF HandleDispose, Remove, workVars, JobsStand
<1>3. CASE HandleApplied \/ HandleUnwound
  <2>1. Subject \in Fibers /\ job[Subject] = "idle"
    BY <1>3, Reported DEF HandleApplied, HandleUnwound
  <2>2. StartUnload({Subject}) \/ UNCHANGED workVars
    BY <1>3 DEF HandleApplied, HandleUnwound, Remove
  <2>. QED BY <2>1, <2>2, UnloadBegins DEF workVars, JobsStand
<1>4. CASE DepsStep
  <2>1. cur \in Fibers /\ why \in {"applied", "unwound", "pending", "active"}
    BY <1>4 DEF DepsStep, ReadOn, Decline, Capture, Accept, Activate, StartLoad, Inductive, TypeOK,
                LoopTypeOK, Visits
  <2>2. job[cur] = "idle"
    BY <1>0, <2>1, NoToken DEF Inductive, Visits, Tokens
  <2>3. CASE StartLoad
    <3>1. job' = [job EXCEPT ![cur] = "apply"] /\ pending' = pending + 1
      BY <2>3 DEF StartLoad
    <3>2. Cardinality({cur}) = 1
      BY FS_Singleton
    <3>. QED BY <1>0, <2>1, <2>2, <3>1, <3>2 DEF JobsBegin
  <2>4. StartLoad \/ StartUnload({cur}) \/ UNCHANGED workVars
    BY <1>4 DEF DepsStep, ReadOn, Decline, Capture, Accept, Activate, workVars
  <2>. QED BY <2>1, <2>2, <2>3, <2>4, UnloadBegins DEF workVars, JobsStand
<1>. QED BY <1>1, <1>2, <1>3, <1>4 DEF Handle

LEMMA PendingExact ==
    ASSUME Inductive, CountersExact, [Next]_vars PROVE pending' = Cardinality(Busy')
<1>1. pending = Cardinality(Busy)
  BY DEF CountersExact, Busy
<1>2. JobsStand \/ (\E f \in Fibers : JobEnds(f)) \/ \E S \in SUBSET Fibers : JobsBegin(S)
  BY Steps, JobsOutside, JobsWorker, JobsLoop
<1>. QED BY <1>1, <1>2, StandCounts, EndCounts, BeginCounts
-----------------------------------------------------------------------------
(* The counter of commands. *)

\* The loop is in a command's handler, or settles after it.
Handling == pc \notin {"recv", "exit", "exited"}

InflightExact == inflight = Len(inbox) + Count(sendMu # Free) + Count(Handling)

LEMMA InflightOutside ==
    ASSUME Inductive, InflightExact,
           \/ \E u \in Users : Client(u)
           \/ \E f \in Fibers : Worker(f)
           \/ Closer
           \/ UNCHANGED vars
    PROVE InflightExact'
<1>1. UNCHANGED <<inbox, sendMu, inflight, pc>>
  BY DEF Client, Load, Dispose, ProvideOn, Withdraw, Worker, ApplyRead, ApplyProvide, ApplyReturn,
         ApplyFail, UnwindBegin, UnwindStep, UnwindEnd, Closer, CloseBegin, CloseRewind, CloseEnd,
         vars, mailVars, loopVars
<1>. QED BY <1>1 DEF InflightExact, Handling, Count

LEMMA InflightSend ==
    ASSUME Inductive, InflightExact, NEW p \in Procs, Sending(p) \/ Refusal(p)
    PROVE InflightExact'
<1>1. pc' = pc
  BY DEF Sending, Refusal, loopVars
<1>2. inbox \in Seq(Cmd) /\ Len(inbox) \in Nat /\ p # Free
  BY MailboxAssumption DEF Inductive, TypeOK, MailTypeOK
<1>3. CASE Enqueue(p)
  <2>1. Len(inbox') = Len(inbox) + 1
    BY <1>2, <1>3 DEF Enqueue
  <2>2. /\ sendMu' = Free
        /\ inflight' = IF sendMu = Free THEN inflight + 1 ELSE inflight
    BY <1>2, <1>3 DEF Enqueue
  <2>3. inflight = Len(inbox) + Count(sendMu # Free) + Count(Handling) /\ inflight \in Int
    BY DEF InflightExact, Inductive, TypeOK, MailTypeOK
  <2>4. /\ Count(Handling)' = Count(Handling) /\ Count(Handling) \in Nat
        /\ Count(sendMu # Free)' = 0
    BY <1>1, <2>2 DEF Handling, Count
  <2>5. inflight' = Len(inbox) + 1 + Count(Handling)
    <3>1. CASE sendMu = Free
      BY <1>2, <2>2, <2>3, <2>4, <3>1 DEF Count
    <3>2. CASE sendMu # Free
      BY <1>2, <2>2, <2>3, <2>4, <3>2 DEF Count
    <3>. QED BY <3>1, <3>2
  <2>. QED BY <1>2, <2>1, <2>4, <2>5 DEF InflightExact
<1>4. CASE Block(p)
  BY <1>1, <1>2, <1>4 DEF Block, InflightExact, Handling, Count
<1>5. CASE Reject(p)
  BY <1>1, <1>2, <1>5 DEF Reject, InflightExact, Handling, Count
<1>. QED BY <1>3, <1>4, <1>5 DEF Sending, Refusal

LEMMA InflightLoop ==
    ASSUME Inductive, InflightExact, Handle \/ DepsStep \/ SettleStep PROVE InflightExact'
<1>1. inbox \in Seq(Cmd) /\ Len(inbox) \in Nat
  BY DEF Inductive, TypeOK, MailTypeOK
<1>2. CASE Handle
  <2>1. pc = "recv" /\ inbox # <<>> /\ inbox' = Tail(inbox) /\ UNCHANGED <<sendMu, inflight>>
    BY <1>2 DEF Handle, HandleLoad, HandleDispose, HandleApplied, HandleUnwound, HandleService,
                Receive
  <2>2. pc' \in {"settle", "deps"}
    BY <1>2 DEF Handle, HandleLoad, HandleDispose, HandleApplied, HandleUnwound, HandleService,
                ToSettle, Consult
  <2>3. Len(inbox') = Len(inbox) - 1
    BY <1>1, <2>1
  <2>4. /\ Count(Handling) = 0 /\ Count(Handling)' = 1
        /\ Count(sendMu # Free)' = Count(sendMu # Free) /\ Count(sendMu # Free) \in Nat
    BY <2>1, <2>2 DEF Handling, Count
  <2>5. inflight = Len(inbox) + Count(sendMu # Free) + Count(Handling)
    BY DEF InflightExact
  <2>. QED BY <1>1, <2>1, <2>3, <2>4, <2>5 DEF InflightExact
<1>3. CASE DepsStep
  <2>1. UNCHANGED <<inbox, sendMu, inflight>> /\ Handling /\ Handling'
    BY <1>3 DEF DepsStep, ReadOn, Decline, Capture, Accept, Activate, StartLoad, Decided, mailVars,
                Handling
  <2>. QED BY <2>1 DEF InflightExact, Count
<1>4. CASE SettleStep
  <2>1. CASE SettleBegin \/ SettleEnd \/ SettleStop \/ \E f \in Fibers : Visit(f)
    <3>1. UNCHANGED <<inbox, sendMu, inflight>> /\ Handling /\ Handling'
      BY <2>1 DEF SettleBegin, SettleEnd, SettleStop, Visit, Consult, mailVars, Handling
    <3>. QED BY <3>1 DEF InflightExact, Count
  <2>2. CASE Finish
    BY <1>1, <2>2 DEF Finish, InflightExact, Handling, Count
  <2>3. CASE ExitTest
    <3>1. UNCHANGED <<inbox, sendMu, inflight>> /\ ~Handling /\ ~Handling'
      BY <2>3 DEF ExitTest, Handling
    <3>. QED BY <3>1 DEF InflightExact, Count
  <2>. QED BY <1>4, <2>1, <2>2, <2>3 DEF SettleStep
<1>. QED BY <1>2, <1>3, <1>4

LEMMA CountersStep == ASSUME Inductive, CountersExact, [Next]_vars PROVE CountersExact'
<1>1. InflightExact
  BY DEF CountersExact, InflightExact, Handling
<1>2. InflightExact'
  BY <1>1, Steps, InflightOutside, InflightSend, InflightLoop
<1>. QED BY <1>2, PendingExact DEF CountersExact, InflightExact, Handling, Busy

LEMMA CountersInit == Init => CountersExact
<1>. SUFFICES ASSUME Init PROVE CountersExact
  OBVIOUS
<1>1. {f \in Fibers : job[f] # "idle"} = {}
  BY Owned DEF Init
<1>. QED BY <1>1, FS_EmptySet DEF Init, MailboxInit, CountersExact, Count

\* The exit test can trust its counters: pending is the number of goroutines that
\* run and inflight the number of commands submitted and not handled to the end,
\* whatever goroutines and senders did between two of the loop's steps.
THEOREM CountersAreExact == Spec => []CountersExact
<1>1. Inductive /\ CountersExact /\ [Next]_vars => CountersExact'
  BY CountersStep
<1>. QED BY <1>1, CountersInit, InvariantHolds, PTL DEF Spec
-----------------------------------------------------------------------------
(* Reports. *)

LEMMA ExpectedOutside ==
    ASSUME Inductive, Expected, (\E u \in Users : Client(u)) \/ Closer PROVE Expected'
<1>. USE Owned, Callers DEF Inductive
<1>1. /\ UNCHANGED <<inbox, why, cur>>
      /\ job \in [Owners -> Jobs] /\ outgoing \in [Procs -> Cmd \cup {NoCmd}]
      /\ state \in [Fibers -> States]
  BY DEF TypeOK, WorkTypeOK, MailTypeOK, FibersTypeOK, Client, Load, Dispose, ProvideOn, Withdraw,
         Closer, CloseBegin, CloseRewind, UnwindStep, CloseEnd, mailVars, loopVars
<1>2. \A f \in Fibers : job'[f] = job[f]
  BY <1>1 DEF Client, Load, Dispose, ProvideOn, Withdraw, Closer, CloseBegin, CloseRewind,
              UnwindStep, CloseEnd, workVars
<1>3. \A f \in Fibers : outgoing'[f] = outgoing[f]
  <2>1. ASSUME NEW u \in Users, Client(u) PROVE \A f \in Fibers : outgoing'[f] = outgoing[f]
    <3>1. \A f \in Fibers : f # u
      BY OrchestratorAssumption
    <3>. QED BY <1>1, <2>1, <3>1 DEF Client, Load, Dispose, ProvideOn, Withdraw, Submit
  <2>2. CASE Closer
    BY <1>1, <2>2 DEF Closer, CloseBegin, CloseRewind, UnwindStep, CloseEnd, Submit, mailVars
  <2>. QED BY <2>1, <2>2
<1>4. \A f \in Fibers : state'[f] \in {"loading", "unloading"} => state'[f] = state[f]
  BY <1>1 DEF Client, Load, Dispose, ProvideOn, Withdraw, Closer, CloseBegin, CloseRewind,
              UnwindStep, CloseEnd, fiberVars
<1>. QED BY <1>1, <1>2, <1>3, <1>4 DEF Expected, Attended

LEMMA ExpectedWorker ==
    ASSUME Inductive, Expected, NEW f \in Fibers, Worker(f) PROVE Expected'
<1>. USE Owned, Callers, CmdFacts DEF Inductive
<1>1. /\ UNCHANGED <<inbox, why, cur, state>>
      /\ job \in [Owners -> Jobs] /\ outgoing \in [Procs -> Cmd \cup {NoCmd}]
  BY DEF TypeOK, WorkTypeOK, MailTypeOK, Worker, ApplyRead, ApplyProvide, ApplyReturn, ApplyFail,
         UnwindBegin, UnwindStep, UnwindEnd, mailVars, loopVars, fiberVars
<1>2. \A g \in Fibers \ {f} : job'[g] = job[g] /\ outgoing'[g] = outgoing[g]
  BY <1>1 DEF Worker, ApplyRead, ApplyProvide, ApplyReturn, ApplyFail, UnwindBegin, UnwindStep,
              UnwindEnd, Report, Submit, mailVars, workVars
<1>3. Attended(f)'
  <2>1. ASSUME NEW c, c.type \in {"applied", "unwound"}, c.fiber = f, Report(f, c)
        PROVE Attended(f)'
    BY <1>1, <2>1 DEF Report, Submit, IsReport, Attended
  <2>2. CASE ApplyReturn(f) \/ \E inv \in BOOLEAN : ApplyFail(f, inv)
    <3>1. PICK inv \in BOOLEAN, err \in BOOLEAN : Report(f, AppliedCmd(f, inv, err))
      BY <2>2 DEF ApplyReturn, ApplyFail
    <3>2. AppliedCmd(f, inv, err).type = "applied" /\ AppliedCmd(f, inv, err).fiber = f
      BY CmdFacts
    <3>. QED BY <2>1, <3>1, <3>2
  <2>3. CASE UnwindEnd(f)
    BY <2>1, <2>3 DEF UnwindEnd
  <2>4. CASE (\E k \in Keys : ApplyRead(f, k) \/ ApplyProvide(f, k)) \/ UnwindBegin(f) \/ UnwindStep(f)
    BY <1>1, <2>4 DEF ApplyRead, ApplyProvide, UnwindBegin, UnwindStep, workVars, Attended
  <2>. QED BY <2>2, <2>3, <2>4 DEF Worker
<1>. QED BY <1>1, <1>2, <1>3 DEF Expected, Attended

LEMMA ExpectedSend ==
    ASSUME Inductive, Expected, NEW p \in Procs, Sending(p) \/ Refusal(p) PROVE Expected'
<1>. USE Callers DEF Inductive
<1>1. UNCHANGED <<job, why, cur>>
  BY DEF Sending, Refusal, loopVars, workVars
<1>2. ASSUME Enqueue(p), Sending(p), NEW f \in Fibers, Attended(f) PROVE Attended(f)'
  <2>1. CASE IsReport(outgoing[f], f) /\ p = f
    <3>1. Len(inbox) + 1 \in DOMAIN inbox' /\ inbox'[Len(inbox) + 1] = outgoing[p]
      BY <1>2, EnqueueFacts
    <3>. QED BY <2>1, <3>1 DEF IsReport, Attended
  <2>2. CASE IsReport(outgoing[f], f) /\ p # f
    <3>1. outgoing'[f] = outgoing[f]
      BY <1>2, <2>2, EnqueueFacts DEF TypeOK, MailTypeOK
    <3>. QED BY <2>2, <3>1 DEF Attended
  <2>3. CASE \E i \in DOMAIN inbox : IsReport(inbox[i], f)
    BY <1>2, <2>3, EnqueueFacts DEF Attended
  <2>. QED BY <1>1, <1>2, <2>1, <2>2, <2>3 DEF Attended
<1>3. CASE Sending(p) /\ Enqueue(p)
  BY <1>2, <1>3 DEF Sending, fiberVars, Expected
<1>4. CASE Sending(p) /\ Block(p)
  BY <1>1, <1>4 DEF Sending, Block, fiberVars, Expected, Attended
<1>5. CASE Refusal(p)
  <2>1. exited /\ \A f \in Fibers : state'[f] \in {"failed", state[f]}
    BY <1>5 DEF Refusal, Reject
  <2>2. \A f \in Fibers : state[f] \notin {"loading", "unloading"}
    BY <2>1 DEF Closed, Enrolled
  <2>. QED BY <2>1, <2>2 DEF Expected
<1>. QED BY <1>3, <1>4, <1>5 DEF Sending

\* Taking a command out of the channel leaves every other report in its place.
LEMMA AttendedReceive ==
    ASSUME Inductive, NEW type, Receive(type), UNCHANGED job, NEW f \in Fibers, Attended(f),
           type \in {"applied", "unwound"} => f # Subject
    PROVE \/ job'[f] # "idle"
          \/ IsReport(outgoing'[f], f)
          \/ \E i \in DOMAIN inbox' : IsReport(inbox'[i], f)
<1>. USE DEF Inductive
<1>1. why = "idle" /\ UNCHANGED outgoing
  BY DEF Receive, Visits
<1>2. ASSUME NEW i \in DOMAIN inbox, IsReport(inbox[i], f)
      PROVE \E j \in DOMAIN inbox' : IsReport(inbox'[j], f)
  <2>1. i # 1
    BY <1>2, ReceiveFacts DEF IsReport
  <2>. QED BY <1>2, <2>1, ReceiveFacts
<1>. QED BY <1>1, <1>2 DEF Attended

LEMMA ExpectedHandle == ASSUME Inductive, Expected, Handle PROVE Expected'
<1>. USE Owned DEF Inductive
<1>1. state \in [Fibers -> States] /\ job \in [Owners -> Jobs]
  BY DEF TypeOK, FibersTypeOK, WorkTypeOK
<1>2. CASE HandleLoad \/ HandleService
  <2>1. PICK type : Receive(type) /\ type \notin {"applied", "unwound"}
    BY <1>2 DEF HandleLoad, HandleService
  <2>2. UNCHANGED <<job, state>>
    BY <1>2 DEF HandleLoad, HandleService, fiberVars, workVars
  <2>. QED BY <2>1, <2>2, AttendedReceive DEF Expected, Attended
<1>3. ASSUME NEW type, Receive(type), StartUnload({Subject}), Subject \in Fibers
      PROVE Expected'
  <2>1. UNCHANGED outgoing /\ \A f \in Fibers \ {Subject} : job'[f] = job[f] /\ state'[f] = state[f]
    BY <1>1, <1>3 DEF Receive, StartUnload
  <2>2. job'[Subject] = "unload"
    BY <1>1, <1>3 DEF StartUnload
  <2>3. ASSUME NEW f \in Fibers \ {Subject}, Attended(f) PROVE Attended(f)'
    <3>1. why = "idle"
      BY <1>3 DEF Receive, Visits
    <3>2. ASSUME NEW i \in DOMAIN inbox, IsReport(inbox[i], f)
          PROVE \E j \in DOMAIN inbox' : IsReport(inbox'[j], f)
      <4>1. i # 1
        BY <1>3, <3>2, ReceiveFacts DEF IsReport
      <4>. QED BY <1>3, <3>2, <4>1, ReceiveFacts
    <3>. QED BY <2>1, <2>3, <3>1, <3>2 DEF Attended
  <2>. QED BY <2>1, <2>2, <2>3 DEF Expected, Attended
<1>4. CASE HandleDispose
  <2>1. Receive("dispose") /\ Subject \in Fibers
    BY <1>4, ReceiveFacts, SubjectType DEF HandleDispose
  <2>2. CASE StartUnload({Subject})
    BY <1>3, <2>1, <2>2
  <2>3. CASE UNCHANGED workVars /\ \A f \in Fibers : state'[f] \in {"gone", state[f]}
    <3>1. UNCHANGED job
      BY <2>3 DEF workVars
    <3>. QED BY <2>1, <2>3, <3>1, AttendedReceive DEF Expected, Attended
  <2>. QED BY <1>1, <1>4, <2>2, <2>3 DEF HandleDispose, Remove
<1>5. CASE HandleApplied \/ HandleUnwound
  <2>1. PICK type \in {"applied", "unwound"} : Receive(type)
    BY <1>5 DEF HandleApplied, HandleUnwound
  <2>2. PICK F \in Fibers : F = Subject
    BY <2>1, Reported
  <2>3. CASE StartUnload({Subject})
    BY <1>3, <2>1, <2>2, <2>3
  <2>4. CASE /\ UNCHANGED workVars
             /\ \/ \E t \in {"failed", "gone"} : state' = [state EXCEPT ![Subject] = t]
                \/ UNCHANGED state /\ why' \in {"applied", "unwound"} /\ cur' = Subject
    <3>1. UNCHANGED job /\ \A f \in Fibers : f # F => state'[f] = state[f]
      BY <1>1, <2>2, <2>4 DEF workVars
    <3>2. state'[F] \in {"loading", "unloading"} => Attended(F)'
      BY <1>1, <2>2, <2>4 DEF Attended
    <3>3. ASSUME NEW f \in Fibers, f # F, state'[f] \in {"loading", "unloading"}
          PROVE Attended(f)'
      <4>1. Attended(f)
        BY <3>1, <3>3 DEF Expected
      <4>. QED BY <2>1, <2>2, <3>1, <3>3, <4>1, AttendedReceive DEF Attended
    <3>. QED BY <3>2, <3>3 DEF Expected
  <2>. QED BY <1>5, <2>1, <2>3, <2>4
           DEF HandleApplied, HandleUnwound, Receive, Consult, Remove, workVars
<1>. QED BY <1>2, <1>4, <1>5 DEF Handle

LEMMA ExpectedRest == ASSUME Inductive, Expected, DepsStep \/ SettleStep PROVE Expected'
<1>. USE Owned DEF Inductive
<1>1. /\ UNCHANGED <<outgoing, inbox>>
      /\ state \in [Fibers -> States] /\ job \in [Owners -> Jobs]
  BY DEF TypeOK, FibersTypeOK, WorkTypeOK, DepsStep, ReadOn, Decline, Capture, Accept, Activate,
         StartLoad, SettleStep, SettleBegin, SettleEnd, SettleStop, Visit, Finish, ExitTest, mailVars
<1>2. CASE DepsStep
  <2>1. cur \in Fibers /\ \A f \in Fibers \ {cur} : state'[f] = state[f] /\ job'[f] = job[f]
    BY <1>1, <1>2 DEF DepsStep, ReadOn, Decline, Capture, Accept, Activate, StartLoad, StartUnload,
                      TypeOK, LoopTypeOK, fiberVars, workVars
  <2>2. \A f \in Fibers \ {cur} : Attended(f) => Attended(f)'
    BY <1>1, <2>1 DEF Attended
  <2>3. \/ job'[cur] # "idle" \/ state'[cur] \notin {"loading", "unloading"}
        \/ UNCHANGED <<state, job, why, cur>>
        \/ UNCHANGED <<state, job>> /\ why = "active"
    BY <1>1, <1>2, <2>1 DEF DepsStep, ReadOn, Decline, Capture, Accept, Activate, StartLoad,
                            StartUnload, Decided, fiberVars, workVars
  <2>4. why = "active" => state[cur] = "active"
    BY DEF Visits
  <2>. QED BY <1>1, <2>1, <2>2, <2>3, <2>4 DEF Expected, Attended
<1>3. CASE SettleStep
  <2>1. why = "idle"
    BY <1>3 DEF SettleStep, SettleBegin, SettleEnd, SettleStop, Visit, Finish, ExitTest, Visits
  <2>2. \A f \in Fibers :
            \/ state'[f] = state[f] /\ job'[f] = job[f]
            \/ state'[f] = "gone" \/ job'[f] = "unload"
    BY <1>1, <1>3 DEF SettleStep, SettleBegin, SettleEnd, SettleStop, Visit, Finish, ExitTest,
                      fiberVars, workVars
  <2>. QED BY <1>1, <2>1, <2>2 DEF Expected, Attended
<1>. QED BY <1>2, <1>3

LEMMA ExpectedStep == ASSUME Inductive, Expected, [Next]_vars PROVE Expected'
<1>1. CASE UNCHANGED vars
  BY <1>1 DEF vars, mailVars, loopVars, fiberVars, workVars, Expected, Attended
<1>. QED BY <1>1, Steps, ExpectedOutside, ExpectedWorker, ExpectedSend, ExpectedHandle, ExpectedRest

\* Four things that exclude one another, and one of which there is exactly when S.
LEMMA ExactlyOne ==
    ASSUME NEW S \in BOOLEAN, NEW A \in BOOLEAN, NEW B \in BOOLEAN, NEW C \in BOOLEAN,
           NEW D \in BOOLEAN,
           S <=> A \/ B \/ C \/ D,
           ~(A /\ B), ~(A /\ C), ~(A /\ D), ~(B /\ C), ~(B /\ D), ~(C /\ D)
    PROVE Count(A) + (Count(B) + Count(C)) + Count(D) = Count(S)
<1>1. CASE A
  BY <1>1 DEF Count
<1>2. CASE ~A /\ B
  BY <1>2 DEF Count
<1>3. CASE ~A /\ ~B
  BY <1>3 DEF Count
<1>. QED BY <1>1, <1>2, <1>3

\* A fiber has at most one report in the channel.
LEMMA ReportsInChannel ==
    ASSUME Inductive, NEW f \in Fibers, NEW type \in {"applied", "unwound"}
    PROVE Cardinality({i \in DOMAIN inbox : inbox[i].type = type /\ inbox[i].fiber = f})
              = Count(\E i \in DOMAIN inbox : inbox[i].type = type /\ IsReport(inbox[i], f))
<1>. DEFINE There == {i \in DOMAIN inbox : inbox[i].type = type /\ inbox[i].fiber = f}
<1>1. There = {i \in DOMAIN inbox : inbox[i].type = type /\ IsReport(inbox[i], f)}
  BY DEF IsReport
<1>. HIDE DEF There
<1>2. CASE There = {}
  <2>1. ~\E i \in DOMAIN inbox : inbox[i].type = type /\ IsReport(inbox[i], f)
    BY <1>1, <1>2
  <2>. QED BY <1>2, <2>1, FS_EmptySet DEF There, Count
<1>3. CASE There # {}
  <2>1. PICK i \in DOMAIN inbox : inbox[i].type = type /\ IsReport(inbox[i], f)
    BY <1>1, <1>3
  <2>2. There = {i}
    BY <1>1, <2>1 DEF Inductive, Tokens
  <2>. QED BY <2>1, <2>2, FS_Singleton DEF There, Count
<1>. QED BY <1>2, <1>3

\* A report that f is sending is its own.
LEMMA OwnReport ==
    ASSUME Inductive, NEW f \in Fibers, NEW type \in {"applied", "unwound"}
    PROVE outgoing[f] # NoCmd /\ outgoing[f].type = type
              <=> outgoing[f].type = type /\ IsReport(outgoing[f], f)
<1>1. outgoing[f] \in Cmd \cup {NoCmd}
  BY Callers DEF Inductive, TypeOK, MailTypeOK
<1>2. ASSUME outgoing[f] # NoCmd, outgoing[f].type = type PROVE IsReport(outgoing[f], f)
  <2>1. PICK g \in Fibers : IsReport(outgoing[f], g)
    BY <1>1, <1>2 DEF Cmd, ServiceCmd, IsReport
  <2>. QED BY <2>1, Callers DEF Inductive, Tokens
<1>. QED BY <1>2, CmdFacts

\* A is that f's goroutine is doing what ends in a report of this type.
LEMMA OneReportOf ==
    ASSUME Inductive, Expected, NEW f \in Fibers, NEW type \in {"applied", "unwound"},
           NEW A \in BOOLEAN,
           A <=> IF type = "applied" THEN job[f] = "apply" ELSE job[f] \in {"unload", "unwind"}
    PROVE Count(A) + Reports(f, type) + Count(cur = f /\ why = type)
              = Count(state[f] = Phase(type))
<1>. DEFINE B == outgoing[f].type = type /\ IsReport(outgoing[f], f)
            C == \E i \in DOMAIN inbox : inbox[i].type = type /\ IsReport(inbox[i], f)
            D == cur = f /\ why = type
            S == state[f] = Phase(type)
<1>1. /\ A => S /\ job[f] # "idle"
      /\ B => S /\ job[f] = "idle"
      /\ C => S /\ job[f] = "idle" /\ ~IsReport(outgoing[f], f)
      /\ D => /\ S /\ job[f] = "idle" /\ ~IsReport(outgoing[f], f)
              /\ \A i \in DOMAIN inbox : ~IsReport(inbox[i], f)
  BY Callers DEF Inductive, Tokens, Phase
<1>2. S => A \/ B \/ C \/ D
  <2>1. S => Attended(f)
    BY DEF Phase, Expected
  <2>2. ASSUME S, job[f] # "idle" PROVE A
    BY <2>2 DEF Inductive, Tokens, Phase
  <2>3. ASSUME S, IsReport(outgoing[f], f) PROVE B
    BY <2>3, Callers DEF Inductive, Tokens, Phase, IsReport
  <2>4. ASSUME S, NEW i \in DOMAIN inbox, IsReport(inbox[i], f) PROVE C
    BY <2>4 DEF Inductive, Tokens, Phase, IsReport
  <2>5. ASSUME S, why \in {"applied", "unwound"}, cur = f PROVE D
    BY <2>5 DEF Inductive, Tokens, Phase
  <2>. HIDE DEF B, C, D, S
  <2>. QED BY <2>1, <2>2, <2>3, <2>4, <2>5 DEF Attended
<1>3. ~(B /\ C) /\ ~(B /\ D) /\ ~(C /\ D)
  BY <1>1
<1>4. B \in BOOLEAN /\ C \in BOOLEAN /\ D \in BOOLEAN /\ S \in BOOLEAN
  OBVIOUS
<1>5. Reports(f, type) = Count(B) + Count(C)
  BY ReportsInChannel, OwnReport DEF Reports
<1>. HIDE DEF B, C, D, S
<1>6. Count(A) + (Count(B) + Count(C)) + Count(D) = Count(S)
  BY <1>1, <1>2, <1>3, <1>4, ExactlyOne
<1>. QED BY <1>5, <1>6 DEF D, S

LEMMA OneReportFollows == Inductive /\ Expected => OneReport
<1>. SUFFICES ASSUME Inductive, Expected, NEW f \in Fibers
              PROVE /\ Count(job[f] = "apply") + Reports(f, "applied")
                           + Count(cur = f /\ why = "applied")
                       = Count(state[f] = "loading")
                    /\ Count(job[f] \in {"unload", "unwind"}) + Reports(f, "unwound")
                           + Count(cur = f /\ why = "unwound")
                       = Count(state[f] = "unloading")
  BY DEF OneReport
<1>1. Phase("applied") = "loading" /\ Phase("unwound") = "unloading"
  BY DEF Phase
<1>2. Count(job[f] = "apply") + Reports(f, "applied") + Count(cur = f /\ why = "applied")
      = Count(state[f] = Phase("applied"))
  <2>. DEFINE A == job[f] = "apply"
  <2>1. A \in BOOLEAN /\ (A <=> job[f] = "apply")
    OBVIOUS
  <2>. HIDE DEF A
  <2>2. Count(A) + Reports(f, "applied") + Count(cur = f /\ why = "applied")
        = Count(state[f] = Phase("applied"))
    BY <2>1, OneReportOf
  <2>. QED BY <2>2 DEF A
<1>3. Count(job[f] \in {"unload", "unwind"}) + Reports(f, "unwound")
          + Count(cur = f /\ why = "unwound")
      = Count(state[f] = Phase("unwound"))
  <2>. DEFINE A == job[f] \in {"unload", "unwind"}
  <2>1. A \in BOOLEAN /\ (A <=> job[f] \in {"unload", "unwind"})
    OBVIOUS
  <2>. HIDE DEF A
  <2>2. Count(A) + Reports(f, "unwound") + Count(cur = f /\ why = "unwound")
        = Count(state[f] = Phase("unwound"))
    BY <2>1, OneReportOf
  <2>. QED BY <2>2 DEF A
<1>. QED BY <1>1, <1>2, <1>3

LEMMA ExpectedInit == Init => Expected
BY DEF Init, Expected

LEMMA ExpectedHolds == Spec => []Expected
<1>1. Inductive /\ Expected /\ [Next]_vars => Expected'
  BY ExpectedStep
<1>. QED BY <1>1, ExpectedInit, InvariantHolds, PTL DEF Spec

\* A fiber in transition waits for exactly one thing, and a settled one for none:
\* no report of a goroutine is lost, handled twice, or handled after the fiber has
\* moved on, in whatever order reports, disposals and shutdown reach the loop.
THEOREM OneReportEach == Spec => []OneReport
<1>. QED BY ExpectedHolds, InvariantHolds, OneReportFollows, PTL
-----------------------------------------------------------------------------
(* The lists of inverses. *)

\* Lists get shorter, at their ends or altogether.
ListsShrink ==
    /\ seq' = seq
    /\ \A o \in Owners : \A i \in DOMAIN inverses'[o] :
           i \in DOMAIN inverses[o] /\ inverses'[o][i] = inverses[o][i]

\* One list gets x at its end: a new number, or the mark of Apply's inverse.
ListGrows(o, x) ==
    /\ inverses' = [inverses EXCEPT ![o] = Append(@, x)]
    /\ (x = seq + 1 /\ seq' = seq + 1) \/ (x = ApplyInverse /\ seq' = seq)

LEMMA ShrinkAscends == ASSUME Ascending, ListsShrink PROVE Ascending'
BY DEF Ascending, ListsShrink

LEMMA GrowElements ==
    ASSUME Inductive, NEW o \in Owners, NEW x \in Nat, ListGrows(o, x), NEW p \in Owners
    PROVE /\ \A i \in DOMAIN inverses[p] :
                 i \in Nat /\ inverses[p][i] \in Nat /\ (p = o => i < Len(inverses[o]) + 1)
          /\ \A i \in DOMAIN inverses'[p] :
                 \/ i \in DOMAIN inverses[p] /\ inverses'[p][i] = inverses[p][i]
                 \/ p = o /\ i = Len(inverses[o]) + 1 /\ inverses'[p][i] = x
<1>1. inverses[p] \in Seq(Nat) /\ inverses \in [Owners -> Seq(Nat)]
  BY DEF Inductive, TypeOK, ContextsTypeOK
<1>2. CASE p # o
  <2>1. inverses'[p] = inverses[p]
    BY <1>1, <1>2 DEF ListGrows
  <2>. QED BY <1>1, <1>2, <2>1
<1>3. CASE p = o
  <2>1. inverses'[p] = Append(inverses[p], x)
    BY <1>1, <1>3 DEF ListGrows
  <2>. QED BY <1>1, <1>3, <2>1
<1>. QED BY <1>2, <1>3

LEMMA GrowAscends ==
    ASSUME Inductive, Ascending, NEW o \in Owners, NEW x \in Nat, ListGrows(o, x)
    PROVE Ascending'
<1>1. /\ seq \in Nat /\ seq' \in Nat /\ seq <= seq'
      /\ x <= seq' /\ (x # ApplyInverse => x = seq + 1)
      /\ Len(inverses[o]) \in Nat
  <2>1. seq \in Nat /\ inverses[o] \in Seq(Nat)
    BY DEF Inductive, TypeOK, ContextsTypeOK
  <2>2. (x = seq + 1 /\ seq' = seq + 1) \/ (x = 0 /\ seq' = seq)
    BY DEF ListGrows, ApplyInverse
  <2>. QED BY <2>1, <2>2 DEF ApplyInverse
<1>2. ASSUME NEW p \in Owners, NEW i \in DOMAIN inverses'[p] PROVE inverses'[p][i] <= seq'
  BY <1>1, <1>2, GrowElements DEF Ascending
<1>3. ASSUME NEW p \in Owners, NEW i \in DOMAIN inverses'[p], NEW j \in DOMAIN inverses'[p],
             i < j, inverses'[p][j] # ApplyInverse
      PROVE inverses'[p][i] < inverses'[p][j]
  <2>1. i \in DOMAIN inverses[p] /\ inverses'[p][i] = inverses[p][i]
    BY <1>1, <1>3, GrowElements
  <2>2. CASE j \in DOMAIN inverses[p] /\ inverses'[p][j] = inverses[p][j]
    BY <1>3, <2>1, <2>2 DEF Ascending
  <2>3. CASE inverses'[p][j] = x
    <3>1. inverses[p][i] <= seq /\ inverses[p][i] \in Nat
      BY <2>1, GrowElements DEF Ascending
    <3>. QED BY <1>1, <1>3, <2>1, <2>3, <3>1
  <2>. QED BY <1>3, <2>2, <2>3, GrowElements
<1>4. ASSUME NEW p \in Owners, NEW q \in Owners, NEW i \in DOMAIN inverses'[p],
             NEW j \in DOMAIN inverses'[q],
             inverses'[p][i] = inverses'[q][j], inverses'[p][i] # ApplyInverse
      PROVE p = q
  <2>1. ASSUME NEW r \in Owners, NEW l \in DOMAIN inverses[r] PROVE inverses[r][l] # seq + 1
    BY <1>1, <2>1, GrowElements DEF Ascending
  <2>. QED BY <1>1, <1>4, <2>1, GrowElements DEF Ascending
<1>. QED BY <1>2, <1>3, <1>4 DEF Ascending

\* What any step does with the lists.
LEMMA ListsStep ==
    ASSUME Inductive, [Next]_vars
    PROVE ListsShrink \/ \E o \in Owners, x \in Nat : ListGrows(o, x)
<1>. USE Owned DEF Inductive
<1>0. seq \in Nat /\ inverses \in [Owners -> Seq(Nat)] /\ seq + 1 \in Nat
  BY DEF TypeOK, ContextsTypeOK
<1>1. UNCHANGED <<seq, inverses>> => ListsShrink
  BY DEF ListsShrink
<1>2. ASSUME NEW o \in Owners, NEW k, ProvideIn(o, k) PROVE ListGrows(o, seq + 1)
  BY <1>2 DEF ProvideIn, AddEntry, ListGrows
<1>3. ASSUME NEW o \in Owners, RunInverse(o) PROVE ListsShrink
  <2>1. inverses[o] \in Seq(Nat) /\ inverses[o] # <<>>
    BY <1>0, <1>3 DEF RunInverse
  <2>2. seq' = seq /\ \A p \in Owners : inverses'[p] =
            IF p = o THEN SubSeq(inverses[o], 1, Len(inverses[o]) - 1) ELSE inverses[p]
    BY <1>0, <1>3 DEF RunInverse, DropEntry, svcVars
  <2>3. \A i \in DOMAIN SubSeq(inverses[o], 1, Len(inverses[o]) - 1) :
            /\ i \in DOMAIN inverses[o]
            /\ SubSeq(inverses[o], 1, Len(inverses[o]) - 1)[i] = inverses[o][i]
    BY <2>1
  <2>. QED BY <2>2, <2>3 DEF ListsShrink
<1>4. ASSUME NEW f \in Fibers, OpenScope(f), seq' = seq PROVE ListsShrink
  <2>1. \A p \in Owners : inverses'[p] = IF p = f THEN <<>> ELSE inverses[p]
    BY <1>0, <1>4 DEF OpenScope
  <2>. QED BY <1>4, <2>1 DEF ListsShrink
<1>5. ASSUME NEW f \in Fibers, KeepApplyInverse(f)
      PROVE ListGrows(f, ApplyInverse) \/ UNCHANGED <<seq, inverses>>
  BY <1>5 DEF KeepApplyInverse, ListGrows, svcVars
<1>6. ASSUME NEW u \in Users, Client(u)
      PROVE UNCHANGED <<seq, inverses>> \/ \E o \in Owners, k \in Keys : ProvideIn(o, k)
  BY <1>6 DEF Client, Load, Dispose, ProvideOn, Withdraw, DropEntry, svcVars, ctxVars
<1>7. ASSUME NEW f \in Fibers, Worker(f)
      PROVE \/ UNCHANGED <<seq, inverses>>
            \/ \E k \in Keys : ProvideIn(f, k)
            \/ RunInverse(f)
  BY <1>7 DEF Worker, ApplyRead, ApplyProvide, ApplyReturn, ApplyFail, UnwindBegin, CloseScope,
              UnwindStep, UnwindEnd, svcVars, ctxVars
<1>8. CASE Closer
  <2>1. UNCHANGED <<seq, inverses>> \/ RunInverse(Root)
    BY <1>8 DEF Closer, CloseBegin, CloseRewind, CloseScope, UnwindStep, CloseEnd, svcVars, ctxVars
  <2>. QED BY <1>1, <1>3, <2>1
<1>9. CASE \E p \in Procs : Sending(p) \/ Refusal(p)
  BY <1>1, <1>9 DEF Sending, Refusal, svcVars, ctxVars
<1>10. CASE Handle
  <2>1. \/ UNCHANGED <<seq, inverses>>
        \/ HandleApplied /\ KeepApplyInverse(Subject)
    BY <1>10 DEF Handle, HandleLoad, HandleDispose, HandleApplied, HandleUnwound, HandleService,
                 Receive, ctxVars
  <2>2. CASE HandleApplied /\ KeepApplyInverse(Subject)
    <3>1. PICK F \in Fibers : F = Subject
      BY <2>2, Reported DEF HandleApplied
    <3>2. ListGrows(F, ApplyInverse) \/ UNCHANGED <<seq, inverses>>
      BY <1>5, <2>2, <3>1
    <3>3. F \in Owners /\ ApplyInverse \in Nat
      BY DEF ApplyInverse
    <3>. QED BY <1>1, <3>2, <3>3
  <2>. QED BY <1>1, <2>1, <2>2
<1>11. CASE DepsStep
  <2>1. cur \in Fibers /\ seq' = seq
    BY <1>11 DEF DepsStep, ReadOn, Decline, Capture, Accept, Activate, StartLoad, TypeOK, LoopTypeOK,
                 svcVars
  <2>2. UNCHANGED inverses \/ OpenScope(cur)
    BY <1>11 DEF DepsStep, ReadOn, Decline, Capture, Accept, Activate, StartLoad, ctxVars
  <2>. QED BY <1>1, <1>4, <2>1, <2>2
<1>12. CASE SettleStep
  BY <1>1, <1>12 DEF SettleStep, SettleBegin, SettleEnd, SettleStop, Visit, Finish, ExitTest,
                     svcVars, ctxVars
<1>13. CASE UNCHANGED vars
  BY <1>1, <1>13 DEF vars, svcVars, ctxVars
<1>. QED BY <1>0, <1>1, <1>2, <1>3, <1>6, <1>7, <1>8, <1>9, <1>10, <1>11, <1>12, <1>13, Steps

LEMMA AscendingStep == ASSUME Inductive, Ascending, [Next]_vars PROVE Ascending'
BY ListsStep, ShrinkAscends, GrowAscends

LEMMA AscendingInit == Init => Ascending
BY DEF Init, ServicesInit, ContextsInit, Ascending

LEMMA AscendingHolds == Spec => []Ascending
<1>1. Inductive /\ Ascending /\ [Next]_vars => Ascending'
  BY AscendingStep
<1>. QED BY <1>1, AscendingInit, InvariantHolds, PTL DEF Spec

\* What any step does with the service table, and who is left to tell the loop: a
\* process that is sending, or the goroutine that unwinds.
LEMMA TableStep ==
    ASSUME Inductive, [Next]_vars
    PROVE \/ provides' = provides
          \/ /\ \E e \in Entry : provides' = provides \cup {e}
             /\ \E p \in Procs : ~Idle(p)'
          \/ /\ \E e \in provides : e.owner \in Manual /\ DropEntry(e.seq)
             /\ UNCHANGED inverses
             /\ \E p \in Procs : ~Idle(p)'
          \/ \E o \in Owners : /\ RunInverse(o) /\ job[o] = "unwind" /\ UNCHANGED job
                               /\ NextInverse(o) # ApplyInverse /\ DropEntry(NextInverse(o))
<1>. USE Owned, Callers DEF Inductive
<1>1. outgoing \in [Procs -> Cmd \cup {NoCmd}] /\ seq \in Nat
  BY DEF TypeOK, MailTypeOK, ContextsTypeOK
<1>2. ASSUME NEW p \in Procs, Submit(p, ServiceCmd) PROVE ~Idle(p)'
  BY <1>1, <1>2, CmdFacts DEF Submit, Idle
<1>3. ASSUME NEW o \in Owners, NEW k \in Keys, ProvideIn(o, k)
      PROVE \E e \in Entry : provides' = provides \cup {e}
  <2>1. [key |-> k, owner |-> o, seq |-> seq + 1] \in Entry
    BY <1>1 DEF Entry
  <2>2. provides' = provides \cup {[key |-> k, owner |-> o, seq |-> seq + 1]}
    BY <1>3 DEF ProvideIn, AddEntry
  <2>. QED BY <2>1, <2>2
<1>4. ASSUME NEW o \in Owners, UnwindStep(o), provides' # provides
      PROVE /\ RunInverse(o) /\ job[o] = "unwind" /\ UNCHANGED job
            /\ NextInverse(o) # ApplyInverse /\ DropEntry(NextInverse(o))
  BY <1>4 DEF UnwindStep, RunInverse, svcVars, workVars
<1>5. ASSUME NEW u \in Users, Client(u), provides' # provides
      PROVE \/ (\E o \in Owners, k \in Keys : ProvideIn(o, k)) /\ Submit(u, ServiceCmd)
            \/ /\ \E e \in provides : e.owner \in Manual /\ DropEntry(e.seq)
               /\ UNCHANGED inverses /\ Submit(u, ServiceCmd)
  BY <1>5 DEF Client, Load, Dispose, ProvideOn, Withdraw, svcVars, ctxVars
<1>6. ASSUME NEW f \in Fibers, Worker(f), provides' # provides
      PROVE \/ (\E k \in Keys : ProvideIn(f, k)) /\ Submit(f, ServiceCmd)
            \/ UnwindStep(f)
  BY <1>6 DEF Worker, ApplyRead, ApplyProvide, ApplyReturn, ApplyFail, UnwindBegin, UnwindEnd,
              svcVars
<1>7. ASSUME Closer, provides' # provides PROVE UnwindStep(Root)
  BY <1>7 DEF Closer, CloseBegin, CloseRewind, CloseEnd, svcVars
<1>8. CASE \/ \E p \in Procs : Sending(p) \/ Refusal(p)
           \/ Handle \/ DepsStep \/ SettleStep \/ UNCHANGED vars
  BY <1>8 DEF Sending, Refusal, Handle, HandleLoad, HandleDispose, HandleApplied, HandleUnwound,
              HandleService, Receive, DepsStep, ReadOn, Decline, Capture, Accept, Activate, StartLoad,
              SettleStep, SettleBegin, SettleEnd, SettleStop, Visit, Finish, ExitTest, vars, svcVars
<1>9. CASE \E u \in Users : Client(u)
  <2>1. PICK u \in Users : Client(u)
    BY <1>9
  <2>. QED BY <1>2, <1>3, <1>5, <2>1
<1>10. CASE \E f \in Fibers : Worker(f)
  <2>1. PICK f \in Fibers : Worker(f)
    BY <1>10
  <2>. QED BY <1>2, <1>3, <1>4, <1>6, <2>1
<1>11. CASE Closer
  BY <1>4, <1>7, <1>11
<1>. QED BY <1>8, <1>9, <1>10, <1>11, Steps

\* When the last number of a list is taken out of the table, what is left of that
\* context is older.  Taking entries out by hand makes lists with gaps, and a
\* number may be on a list when its entry has gone, but no entry lacks its number.
LEMMA NewestGoesFirst ==
    ASSUME Inductive, Ascending, [Next]_vars,
           NEW o \in Owners, Unwinds(o), NEW d \in EntriesOf(o), d \notin provides',
           NEW e \in EntriesOf(o)'
    PROVE e.seq < d.seq
<1>. USE DEF Inductive, EntriesOf
<1>1. /\ d \in provides /\ d.owner = o /\ d.seq # ApplyInverse
      /\ \E i \in DOMAIN inverses[o] : inverses[o][i] = d.seq
  BY DEF Owed, Listed
<1>2. CASE \E x \in Entry : provides' = provides \cup {x}
  BY <1>1, <1>2
<1>3. inverses' # inverses
  BY DEF Unwinds
<1>4. ASSUME NEW q \in Owners, RunInverse(q), DropEntry(NextInverse(q)) PROVE e.seq < d.seq
  <2>1. /\ d.seq = NextInverse(q)
        /\ e \in provides /\ e.owner = o /\ e.seq # NextInverse(q)
    BY <1>1, <1>4 DEF DropEntry
  <2>2. /\ inverses[q] \in Seq(Nat) /\ inverses[q] # <<>>
        /\ DOMAIN inverses[q] = 1 .. Len(inverses[q]) /\ Len(inverses[q]) \in Nat \ {0}
    BY <1>4 DEF RunInverse, TypeOK, ContextsTypeOK
  <2>3. /\ Len(inverses[q]) \in DOMAIN inverses[q]
        /\ inverses[q][Len(inverses[q])] = d.seq
    BY <2>1, <2>2 DEF NextInverse
  <2>4. q = o
    BY <1>1, <2>3 DEF Ascending
  <2>5. PICK i \in DOMAIN inverses[o] : inverses[o][i] = e.seq
    BY <2>1 DEF Owed, Listed
  <2>6. i # Len(inverses[o])
    BY <2>1, <2>3, <2>4, <2>5
  <2>7. i < Len(inverses[o])
    BY <2>2, <2>4, <2>5, <2>6
  <2>. QED BY <1>1, <2>3, <2>4, <2>5, <2>7 DEF Ascending
<1>. QED BY <1>1, <1>2, <1>3, <1>4, TableStep

\* The effects of one context are undone newest first, whatever its Apply and late
\* providers put in, and whatever clients take out by hand before and between two
\* inverses that its unwinding runs.
THEOREM NewestUndoneFirst == Spec => UndoneInReverse
<1>1. ASSUME Inductive, Ascending, [Next]_vars
      PROVE \A o \in Owners : Unwinds(o) =>
                \A d \in EntriesOf(o) : d \notin provides' =>
                    \A e \in EntriesOf(o)' : e.seq < d.seq
  BY <1>1, NewestGoesFirst
<1>2. Inductive /\ Ascending /\ [Next]_vars =>
          [\A o \in Owners : Unwinds(o) =>
               \A d \in EntriesOf(o) : d \notin provides' =>
                   \A e \in EntriesOf(o)' : e.seq < d.seq]_vars
  BY <1>1
<1>. QED BY <1>2, InvariantHolds, AscendingHolds, PTL DEF Spec, UndoneInReverse
-----------------------------------------------------------------------------
(* Settling. *)

LEMMA StoppingStays == [Next]_vars /\ stopping => stopping'
BY DEF Next, Client, Load, Dispose, ProvideOn, Withdraw, Worker, ApplyRead, ApplyProvide,
         ApplyReturn, ApplyFail, UnwindBegin, UnwindStep, UnwindEnd, Closer, CloseBegin, CloseRewind,
         CloseEnd, Sending, Refusal, Loop, Handle, HandleLoad, HandleDispose, HandleApplied,
         HandleUnwound, HandleService, Receive, ReadOn, Decline, Capture, Accept, Activate,
         StartLoad, SettleBegin, SettleEnd, SettleStop, Visit, Finish, ExitTest, vars

LEMMA StopsStep == ASSUME Inductive, Stops, [Next]_vars PROVE Stops'
<1>. USE Owned DEF Inductive
<1>1. job \in [Owners -> Jobs]
  BY DEF TypeOK, WorkTypeOK
<1>2. stopping => stopping'
  BY StoppingStays
<1>3. pc' \in {"exit", "exited"} => stopping'
  <2>1. CASE Handle \/ DepsStep
    BY <2>1 DEF Handle, HandleLoad, HandleDispose, HandleApplied, HandleUnwound, HandleService,
                ToSettle, Consult, DepsStep, ReadOn, Decline, Capture, Accept, Activate, StartLoad,
                Decided
  <2>2. CASE SettleStep
    BY <1>2, <2>2 DEF SettleStep, SettleBegin, SettleEnd, SettleStop, Visit, Consult, Finish,
                      ExitTest, Stops
  <2>3. ASSUME pc' = pc PROVE pc' \in {"exit", "exited"} => stopping'
    BY <1>2, <2>3 DEF Stops
  <2>. QED BY <2>1, <2>2, <2>3, Steps, OutsideLoop DEF vars, loopVars
<1>4. job'[Root] # "idle" => stopping'
  <2>1. CASE Handle \/ DepsStep \/ SettleStep
    <3>1. job'[Root] = job[Root]
      <4>1. cur \in Fibers \/ ~DepsStep
        BY DEF DepsStep, ReadOn, Decline, Capture, Accept, Activate, StartLoad, TypeOK, LoopTypeOK
      <4>2. Subject # Root \/ ~(HandleDispose \/ HandleApplied)
        BY ReceiveFacts, SubjectType DEF HandleDispose, HandleApplied
      <4>3. registry \subseteq Fibers
        BY DEF TypeOK, FibersTypeOK
      <4>4. CASE Handle
        BY <1>1, <4>2, <4>4 DEF Handle, HandleLoad, HandleDispose, HandleApplied, HandleUnwound,
                                HandleService, StartUnload, Remove, workVars
      <4>5. CASE DepsStep
        BY <1>1, <4>1, <4>5 DEF DepsStep, ReadOn, Decline, Capture, Accept, Activate, StartLoad,
                                StartUnload, workVars
      <4>6. CASE SettleStep
        BY <1>1, <4>3, <4>6 DEF SettleStep, SettleBegin, SettleEnd, SettleStop, Visit, Finish,
                                ExitTest, workVars
      <4>. QED BY <2>1, <4>4, <4>5, <4>6
    <3>. QED BY <1>2, <3>1 DEF Stops
  <2>2. CASE CloseBegin
    BY <2>2 DEF CloseBegin
  <2>3. CASE Closer /\ ~CloseBegin
    BY <1>2, <2>3 DEF Closer, CloseRewind, UnwindStep, CloseEnd, workVars, Stops
  <2>4. ASSUME NEW f \in Fibers, Worker(f) PROVE job'[Root] = job[Root]
    BY <1>1, <2>4 DEF Worker, ApplyRead, ApplyProvide, ApplyReturn, ApplyFail, Report, UnwindBegin,
                      UnwindStep, UnwindEnd, workVars
  <2>5. CASE \/ \E u \in Users : Client(u)
             \/ \E p \in Procs : Sending(p) \/ Refusal(p)
             \/ UNCHANGED vars
    BY <1>2, <2>5 DEF Client, Load, Dispose, ProvideOn, Withdraw, Sending, Refusal, workVars, vars,
                      Stops
  <2>. QED BY <1>2, <2>1, <2>2, <2>3, <2>4, <2>5, Steps DEF Stops
<1>. QED BY <1>3, <1>4 DEF Stops

LEMMA AskingStep == ASSUME Inductive, Asking, [Next]_vars PROVE Asking'
<1>. USE DEF Inductive
<1>1. CASE Handle
  <2>1. why = "idle"
    BY <1>1 DEF Handle, HandleLoad, HandleDispose, HandleApplied, HandleUnwound, HandleService,
                Receive, Visits
  <2>2. why' = "idle" \/ left' = Inject[cur']
    BY <1>1, <2>1 DEF Handle, HandleLoad, HandleDispose, HandleApplied, HandleUnwound,
                      HandleService, ToSettle, Consult
  <2>. QED BY <2>2 DEF Asking
<1>2. CASE DepsStep
  BY <1>2 DEF DepsStep, ReadOn, Decline, Capture, Accept, Activate, StartLoad, Decided, Asking
<1>3. CASE SettleStep
  BY <1>3 DEF SettleStep, SettleBegin, SettleEnd, SettleStop, Visit, Consult, Finish, ExitTest, Asking
<1>4. CASE UNCHANGED <<why, left, cur>>
  BY <1>4 DEF Asking
<1>. QED BY <1>1, <1>2, <1>3, <1>4, Steps, OutsideLoop DEF vars, loopVars

\* Work that is under way ends in a command, and the command in a pass, unless the
\* loop has exited.
LEMMA UnderWayStays ==
    ASSUME Inductive, UnderWay, [Next]_vars
    PROVE UnderWay' \/ pc' = "settle" \/ why' \in {"applied", "unwound"} \/ exited
<1>. USE Owned, Callers, CmdFacts DEF Inductive
<1>1. outgoing \in [Procs -> Cmd \cup {NoCmd}] /\ job \in [Owners -> Jobs]
  BY DEF TypeOK, MailTypeOK, WorkTypeOK
<1>2. CASE Handle
  BY <1>2 DEF Handle, HandleLoad, HandleDispose, HandleApplied, HandleUnwound, HandleService,
              ToSettle, Consult
<1>3. CASE DepsStep \/ SettleStep \/ UNCHANGED vars
  <2>1. UNCHANGED <<inbox, outgoing>>
    BY <1>3 DEF DepsStep, ReadOn, Decline, Capture, Accept, Activate, StartLoad, SettleStep,
                SettleBegin, SettleEnd, SettleStop, Visit, Finish, ExitTest, vars, mailVars
  <2>2. JobsStand \/ \E S \in SUBSET Fibers : JobsBegin(S)
    BY <1>3, JobsLoop, JobsOutside
  <2>3. \A f \in Fibers : job[f] # "idle" => job'[f] # "idle"
    BY <2>2 DEF JobsStand, JobsBegin
  <2>. QED BY <2>1, <2>3 DEF UnderWay, Idle
<1>4. CASE (\E u \in Users : Client(u)) \/ Closer
  <2>1. UNCHANGED inbox
    BY <1>4 DEF Client, Load, Dispose, ProvideOn, Withdraw, Closer, CloseBegin, CloseRewind,
                UnwindStep, CloseEnd, mailVars
  <2>2. \A f \in Fibers : job'[f] = job[f]
    BY <1>1, <1>4 DEF Client, Load, Dispose, ProvideOn, Withdraw, Closer, CloseBegin, CloseRewind,
                      UnwindStep, CloseEnd, workVars
  <2>3. \A p \in Procs : ~Idle(p) => ~Idle(p)'
    BY <1>1, <1>4 DEF Client, Load, Dispose, ProvideOn, Withdraw, Closer, CloseBegin, CloseRewind,
                      UnwindStep, CloseEnd, Submit, Idle, mailVars
  <2>. QED BY <2>1, <2>2, <2>3 DEF UnderWay
<1>5. ASSUME NEW f \in Fibers, Worker(f) PROVE UnderWay'
  <2>1. CASE JobsStand
    <3>1. job[f] # "idle"
      BY <1>5 DEF Worker, ApplyRead, ApplyProvide, ApplyReturn, ApplyFail, UnwindBegin,
                  UnwindStep, UnwindEnd
    <3>. QED BY <2>1, <3>1 DEF JobsStand, UnderWay
  <2>2. CASE \E c \in Cmd : Report(f, c)
    <3>1. PICK c \in Cmd : outgoing' = [outgoing EXCEPT ![f] = c]
      BY <2>2 DEF Report, Submit
    <3>2. c # NoCmd
      BY DEF Cmd, ServiceCmd, NoCmd
    <3>. QED BY <1>1, <3>1, <3>2 DEF UnderWay, Idle
  <2>3. CASE (\E k \in Keys : ApplyRead(f, k) \/ ApplyProvide(f, k)) \/ UnwindBegin(f) \/ UnwindStep(f)
    <3>1. JobsStand
      BY <1>1, <2>3 DEF ApplyRead, ApplyProvide, UnwindBegin, UnwindStep, workVars, JobsStand
    <3>. QED BY <2>1, <3>1
  <2>4. CASE ApplyReturn(f)
    BY <2>2, <2>4, CmdTypes DEF ApplyReturn
  <2>5. ASSUME NEW inv \in BOOLEAN, ApplyFail(f, inv) PROVE UnderWay'
    <3>1. Report(f, AppliedCmd(f, inv, TRUE)) /\ AppliedCmd(f, inv, TRUE) \in Cmd
      BY <2>5, CmdTypes DEF ApplyFail
    <3>. QED BY <2>2, <3>1
  <2>6. CASE UnwindEnd(f)
    BY <2>2, <2>6, CmdTypes DEF UnwindEnd
  <2>. QED BY <1>5, <2>3, <2>4, <2>5, <2>6 DEF Worker
<1>6. ASSUME NEW p \in Procs, Sending(p) \/ Refusal(p) PROVE UnderWay' \/ exited
  <2>1. CASE Enqueue(p)
    <3>1. 1 \in DOMAIN inbox'
      BY <2>1, EnqueueFacts
    <3>. QED BY <3>1 DEF UnderWay
  <2>2. CASE Sending(p) /\ Block(p)
    BY <2>2 DEF Sending, Block, workVars, UnderWay, Idle
  <2>3. CASE Refusal(p)
    BY <2>3 DEF Refusal, Reject
  <2>. QED BY <1>6, <2>1, <2>2, <2>3 DEF Sending
<1>. QED BY <1>2, <1>3, <1>4, <1>5, <1>6, Steps

\* Before shutdown the loop has not exited.
LEMMA UnderWayKept ==
    ASSUME Inductive, Stops, UnderWay, [Next]_vars, ~stopping'
    PROVE UnderWay' \/ pc' = "settle" \/ why' \in {"applied", "unwound"}
BY UnderWayStays, StoppingStays DEF Inductive, Closed, Stops

\* As long as the table stands, what a fiber's dependencies are resolved to stands.
LEMMA ResolutionStands ==
    ASSUME UNCHANGED provides, NEW f
    PROVE (\A k : External(k, f)' = External(k, f)) /\ (Satisfied(f)' <=> Satisfied(f))
<1>1. \A k : External(k, f)' = External(k, f)
  BY DEF External, Generation, Newest
<1>. QED BY <1>1 DEF Satisfied

\* The loop comes to f, or work is under way that will make it do so.
Minded(f) == UnderWay \/ Awaits(f)

LEMMA WatchedOutside ==
    ASSUME Inductive, Inductive', Stops, Watched, [Next]_vars, ~stopping', ~stopping,
           \/ \E u \in Users : Client(u)
           \/ \E f \in Fibers : Worker(f)
           \/ Closer
           \/ \E p \in Procs : Sending(p) \/ Refusal(p)
           \/ UNCHANGED vars,
           NEW f \in Fibers, Unsettled(f)'
    PROVE Minded(f)'
<1>1. /\ UNCHANGED <<loopVars, registry, depSnap>>
      /\ \A g \in registry : state'[g] = state[g]
  <2>1. CASE UNCHANGED vars
    BY <2>1 DEF vars, fiberVars
  <2>2. CASE ~UNCHANGED vars
    <3>1. UNCHANGED depSnap
      BY <2>2 DEF Client, Load, Dispose, ProvideOn, Withdraw, Worker, ApplyRead, ApplyProvide,
         ApplyReturn, ApplyFail, UnwindBegin, UnwindStep, UnwindEnd, Closer, CloseBegin, CloseRewind,
         CloseEnd, Sending, Refusal, fiberVars
    <3>. QED BY <2>2, <3>1, OutsideLoop
  <2>. QED BY <2>1, <2>2
<1>2. CASE UNCHANGED provides
  <2>1. state'[f] = state[f]
    BY <1>1 DEF Unsettled, Inductive, Enrolled
  <2>2. Unsettled(f)
    BY <1>1, <1>2, <2>1, ResolutionStands DEF Unsettled
  <2>3. CASE UnderWay
    BY <2>3, UnderWayKept DEF Minded, Awaits
  <2>4. CASE Awaits(f)
    <3>1. \A k : External(k, f)' = External(k, f)
      BY <1>2, ResolutionStands
    <3>. QED BY <1>1, <2>4, <3>1 DEF Minded, Awaits, loopVars
  <2>. QED BY <2>2, <2>3, <2>4 DEF Watched
<1>3. CASE \E p \in Procs : ~Idle(p)'
  BY <1>3 DEF Minded, UnderWay
<1>4. CASE \E o \in Owners : job[o] = "unwind" /\ UNCHANGED job
  <2>1. PICK o \in Owners : job[o] = "unwind" /\ UNCHANGED job
    BY <1>4
  <2>2. o \in Fibers
    BY <2>1 DEF Stops, Owners
  <2>. QED BY <2>1, <2>2 DEF Minded, UnderWay
<1>. QED BY <1>2, <1>3, <1>4, TableStep

LEMMA WatchedHandle == ASSUME Inductive, Handle, NEW f \in Fibers PROVE Minded(f)'
BY DEF Handle, HandleLoad, HandleDispose, HandleApplied, HandleUnwound, HandleService, ToSettle,
       Consult, Minded, Awaits

LEMMA WatchedDeps ==
    ASSUME Inductive, Stops, Asking, Watched, [Next]_vars, DepsStep, ~stopping, ~stopping',
           NEW f \in Fibers, Unsettled(f)'
    PROVE Minded(f)'
<1>. USE Owned DEF Inductive
<1>1. /\ UNCHANGED <<provides, registry, todo>>
      /\ cur \in Fibers /\ why \in {"applied", "unwound", "pending", "active"}
      /\ state \in [Fibers -> States] /\ depSnap \in [Fibers -> [Keys -> Nat]]
      /\ job \in [Owners -> Jobs]
  BY DEF DepsStep, ReadOn, Decline, Capture, Accept, Activate, StartLoad, StartUnload, TypeOK,
         LoopTypeOK, FibersTypeOK, WorkTypeOK, Visits, svcVars, fiberVars
<1>2. (\A k : External(k, f)' = External(k, f)) /\ (Satisfied(f)' <=> Satisfied(f))
  BY <1>1, ResolutionStands
<1>3. CASE Activate
  BY <1>3 DEF Activate, Decided, Minded, Awaits
<1>4. CASE StartLoad
  <2>1. job'[cur] = "apply"
    BY <1>1, <1>4 DEF StartLoad
  <2>. QED BY <1>1, <2>1 DEF Minded, UnderWay
<1>5. ASSUME NEW k \in Keys, Decline(k), why \in {"applied", "unwound"} PROVE Minded(f)'
  BY <1>5 DEF Decline, Decided, Minded, Awaits
<1>6. ASSUME NEW k \in Keys, Decline(k), why = "active" PROVE Minded(f)'
  BY <1>6 DEF Decline, Decided, Minded, Awaits
<1>7. ASSUME why \in {"applied", "unwound"}, UNCHANGED why PROVE Minded(f)'
  BY <1>7 DEF Minded, Awaits
\* What is left stands between f and the present services as it did.
<1>8. ASSUME UNCHANGED <<state, depSnap, changed>>, Awaits(f) => Awaits(f)' PROVE Minded(f)'
  <2>1. Unsettled(f)
    BY <1>1, <1>2, <1>8 DEF Unsettled
  <2>2. UnderWay \/ Awaits(f)
    BY <2>1 DEF Watched
  <2>. QED BY <1>8, <2>2, UnderWayKept DEF Minded, Awaits
<1>9. ASSUME NEW k \in Keys, ReadOn(k) PROVE Minded(f)'
  <2>1. UNCHANGED <<state, depSnap, changed, pc, cur, why, todo>>
    BY <1>9 DEF ReadOn, fiberVars
  <2>2. cur = f /\ why = "active" =>
            \A l \in left : (External(l, f) = 0 \/ External(l, f) # depSnap[f][l]) => l \in left'
    BY <1>9 DEF ReadOn, Unfit
  <2>3. Awaits(f) => Awaits(f)'
    BY <1>2, <2>1, <2>2 DEF Awaits
  <2>. QED BY <1>8, <2>1, <2>3
<1>10. ASSUME NEW k \in Keys, Decline(k), why = "pending" PROVE Minded(f)'
  <2>0. why = "pending" /\ state[cur] = "pending" /\ k \in left /\ left \subseteq Inject[cur]
    BY <1>10 DEF Decline, Asking, Visits
  <2>1. /\ state'[f] = state[f] /\ UNCHANGED depSnap /\ (changed => changed')
        /\ pc' = "visit" /\ k \in Inject[cur] /\ External(k, cur) = 0 /\ pc = "deps"
    <3>1. /\ UNCHANGED depSnap /\ (changed => changed')
          /\ pc' = "visit" /\ pc = "deps" /\ External(k, cur) = 0
      BY <2>0, <1>10 DEF Decline, Decided, Unfit
    <3>2. state' = [state EXCEPT ![cur] = "pending"]
      BY <2>0, <1>10 DEF Decline
    <3>3. state'[f] = state[f]
      BY <1>1, <2>0, <3>2
    <3>. QED BY <2>0, <3>1, <3>3
  <2>2. Unsettled(f)
    BY <1>1, <1>2, <2>1 DEF Unsettled
  <2>3. CASE f = cur
    <3>1. state[f] = "pending" /\ ~Satisfied(f)
      BY <1>10, <2>1, <2>3 DEF Visits, Satisfied
    <3>. QED BY <2>2, <3>1 DEF Unsettled
  <2>4. CASE f # cur
    <3>1. Awaits(f) => Awaits(f)'
      BY <1>1, <1>10, <2>1, <2>4 DEF Awaits
    <3>. QED BY <2>2, <3>1, UnderWayKept DEF Watched, Minded, Awaits
  <2>. QED BY <2>3, <2>4
<1>11. CASE Accept
  <2>1. UNCHANGED <<state, depSnap, changed>> /\ left = {} /\ pc = "deps"
    BY <1>11 DEF Accept, fiberVars
  <2>2. CASE why = "active"
    <3>1. Awaits(f) => Awaits(f)'
      BY <1>1, <1>11, <2>1, <2>2 DEF Accept, Decided, Awaits
    <3>. QED BY <1>8, <2>1, <3>1
  <2>3. CASE why # "active"
    <3>1. Awaits(f) => Awaits(f)'
      BY <1>1, <1>11, <2>1, <2>3 DEF Accept, Awaits
    <3>. QED BY <1>8, <2>1, <3>1
  <2>. QED BY <2>2, <2>3
<1>12. ASSUME NEW k \in Keys, Capture(k) PROVE Minded(f)'
  <2>1. /\ UNCHANGED <<state, changed, pc, cur, why, todo>> /\ pc = "capture"
        /\ \A g \in Fibers \ {cur} : depSnap'[g] = depSnap[g]
    BY <1>1, <1>12 DEF Capture
  <2>2. why \in {"applied", "unwound", "pending"}
    BY <2>1 DEF Visits
  <2>3. CASE f = cur /\ why = "pending"
    BY <2>1, <2>3 DEF Minded, Awaits
  <2>4. CASE f # cur /\ why = "pending"
    <3>1. Unsettled(f)
      BY <1>1, <1>2, <2>1, <2>4 DEF Unsettled
    <3>2. Awaits(f) => Awaits(f)'
      BY <2>1, <2>4 DEF Awaits
    <3>. QED BY <3>1, <3>2, UnderWayKept DEF Watched, Minded, Awaits
  <2>. QED BY <1>7, <2>1, <2>2, <2>3, <2>4
<1>. QED BY <1>1, <1>3, <1>4, <1>5, <1>6, <1>9, <1>10, <1>11, <1>12 DEF DepsStep

LEMMA WatchedSettle ==
    ASSUME Inductive, Inductive', Stops, Watched, [Next]_vars, SettleStep, ~stopping, ~stopping',
           NEW f \in Fibers, Unsettled(f)'
    PROVE Minded(f)'
<1>. USE DEF Inductive
<1>1. UNCHANGED <<provides, registry, state, depSnap>>
  BY DEF SettleStep, SettleBegin, SettleEnd, SettleStop, Visit, Finish, ExitTest, svcVars, fiberVars
<1>2. (\A k : External(k, f)' = External(k, f)) /\ (Satisfied(f)' <=> Satisfied(f))
  BY <1>1, ResolutionStands
<1>3. Unsettled(f)
  BY <1>1, <1>2 DEF Unsettled
<1>4. UnderWay \/ Awaits(f)
  BY <1>3 DEF Watched
<1>5. (Awaits(f) => Minded(f)') => Minded(f)'
  BY <1>4, UnderWayKept DEF Minded, Awaits
<1>6. why = "idle" /\ pc \notin {"deps", "capture"} /\ (todo # {} => pc = "visit")
  BY DEF SettleStep, SettleBegin, SettleEnd, SettleStop, Visit, Finish, ExitTest, Visits
<1>7. CASE SettleBegin
  <2>1. f \in registry /\ state[f] \in {"pending", "active"}
    BY <1>3 DEF Unsettled, Enrolled
  <2>. QED BY <1>7, <2>1 DEF SettleBegin, Minded, Awaits
<1>8. CASE SettleEnd
  <2>1. Awaits(f) => Awaits(f)'
    BY <1>6, <1>8 DEF SettleEnd, Awaits
  <2>. QED BY <1>5, <2>1 DEF Minded
<1>9. CASE Finish \/ ExitTest
  <2>1. ~Awaits(f)
    BY <1>6, <1>9 DEF Finish, ExitTest, Awaits
  <2>. QED BY <1>5, <2>1
<1>10. ASSUME NEW g \in Fibers, Visit(g) PROVE Minded(f)'
  <2>1. /\ cur' = g /\ why' = state[g] /\ why' \in {"pending", "active"} /\ left' = Inject[g]
        /\ changed' = changed /\ todo' = todo \ {g} /\ pc = "visit"
    BY <1>10 DEF Visit, Consult, Visits
  <2>2. CASE f = g
    BY <1>1, <1>2, <1>3, <2>1, <2>2 DEF Unsettled, Minded, Awaits
  <2>3. CASE f # g
    <3>1. Awaits(f) => Awaits(f)'
      BY <1>6, <2>1, <2>3 DEF Awaits
    <3>. QED BY <1>5, <3>1 DEF Minded
  <2>. QED BY <2>2, <2>3
<1>11. ~SettleStop
  BY DEF SettleStop
<1>. QED BY <1>7, <1>8, <1>9, <1>10, <1>11 DEF SettleStep

LEMMA WatchedStep ==
    ASSUME Inductive, Inductive', Stops, Asking, Watched, [Next]_vars PROVE Watched'
<1>. SUFFICES ASSUME ~stopping', NEW f \in Fibers, Unsettled(f)' PROVE Minded(f)'
  BY DEF Watched, Minded
<1>1. stopping => stopping'
  BY StoppingStays
<1>. QED BY <1>1, Steps, WatchedOutside, WatchedHandle, WatchedDeps, WatchedSettle

LEMMA SettlingInit == Init => Stops /\ Asking /\ Watched
<1>. SUFFICES ASSUME Init PROVE Stops /\ Asking /\ Watched
  OBVIOUS
<1>1. Stops /\ Asking
  BY Owned DEF Init, Stops, Asking
<1>2. \A f \in Fibers : ~Unsettled(f)
  BY DEF Init, Unsettled
<1>. QED BY <1>1, <1>2 DEF Watched

LEMMA AccountingStep ==
    ASSUME Inductive, Inductive', Accounting, [Next]_vars PROVE Accounting'
BY ExpectedStep, CountersStep, AscendingStep, StopsStep, AskingStep, WatchedStep DEF Accounting

\* Reports, counters, lists of inverses and the wake-ups of the loop agree with the
\* rest of the state, for any number of fibers and clients, any component shapes
\* and any channel capacity.
THEOREM AccountingHolds == Spec => []Accounting
<1>1. Init => Accounting
  BY ExpectedInit, CountersInit, AscendingInit, SettlingInit DEF Accounting
<1>2. Inductive /\ Inductive' /\ Accounting /\ [Next]_vars => Accounting'
  BY AccountingStep
<1>. QED BY <1>1, <1>2, InvariantHolds, PTL DEF Spec

LEMMA SettledFollows == Inductive /\ Accounting => QuietMeansSettled
<1>. SUFFICES ASSUME Inductive, Accounting, Quiet, ~stopping, NEW f \in Fibers
              PROVE /\ state[f] \in {"none", "pending", "active", "failed", "gone"}
                    /\ state[f] = "pending" => f \in registry /\ ~Satisfied(f)
                    /\ state[f] = "active" => \A k \in Inject[f] :
                           External(k, f) # 0 /\ External(k, f) = depSnap[f][k]
  BY DEF QuietMeansSettled
<1>1. why = "idle" /\ todo = {} /\ ~UnderWay /\ pc = "recv"
  BY DEF Inductive, Visits, Quiet, UnderWay
<1>2. state[f] \notin {"loading", "unloading"}
  <2>1. ~Attended(f)
    BY <1>1, CmdFacts, Callers DEF Quiet, Idle, Attended, IsReport
  <2>. QED BY <2>1 DEF Accounting, Expected
<1>3. ~Unsettled(f)
  BY <1>1 DEF Accounting, Watched, Awaits
<1>4. state[f] = "pending" => f \in registry
  <2>1. \A p \in Procs : outgoing[p] # LoadCmd(f)
    <3>1. LoadCmd(f).type = "load" /\ NoCmd.type = "none"
      BY CmdFacts
    <3>2. \A p \in Procs : outgoing[p] = NoCmd
      BY DEF Quiet, Idle
    <3>. QED BY <3>1, <3>2
  <2>2. inbox = <<>>
    BY DEF Quiet
  <2>. QED BY <2>1, <2>2 DEF Inductive, Announced
<1>5. state[f] \in States
  BY DEF Inductive, TypeOK, FibersTypeOK
<1>. QED BY <1>2, <1>3, <1>4, <1>5 DEF Unsettled, States

\* No change of the services is lost on the loop.  When nothing is under way every
\* fiber that waits lacks a dependency, and every active one has the generations it
\* was built on, although the loop reads the table key by key while anybody changes
\* it, and passes over fibers in transition.
THEOREM QuietIsSettled == Spec => []QuietMeansSettled
<1>. QED BY AccountingHolds, InvariantHolds, SettledFollows, PTL
-----------------------------------------------------------------------------
(* What Apply delivers. *)

\* What a step does with commands: nothing, an idle process begins to send one, one
\* enters the channel, one is refused, or the loop takes one.
LEMMA MailStep ==
    ASSUME Inductive, [Next]_vars
    PROVE \/ UNCHANGED <<inbox, outgoing, sendMu>>
          \/ /\ UNCHANGED <<inbox, sendMu>>
             /\ \E p \in Procs, c \in Cmd : Idle(p) /\ Submit(p, c)
          \/ \E p \in Procs : Sending(p) \/ Refusal(p)
          \/ Handle /\ UNCHANGED <<outgoing, sendMu>> /\ \E type : Receive(type)
<1>. USE Owned, Callers, CmdTypes
<1>1. CASE \E u \in Users : Client(u)
  BY <1>1 DEF Client, Load, Dispose, ProvideOn, Withdraw
<1>2. CASE \E f \in Fibers : Worker(f)
  <2>1. PICK f \in Fibers : Worker(f)
    BY <1>2
  <2>2. UNCHANGED <<inbox, sendMu>>
    BY <2>1 DEF Worker, ApplyRead, ApplyProvide, ApplyReturn, ApplyFail, UnwindBegin, UnwindStep,
                UnwindEnd, mailVars
  <2>3. CASE (\E k \in Keys : ApplyRead(f, k)) \/ UnwindBegin(f)
    BY <2>3 DEF ApplyRead, UnwindBegin, mailVars
  <2>4. CASE (\E k \in Keys : ApplyProvide(f, k)) \/ UnwindStep(f) \/ UnwindEnd(f) \/ ApplyReturn(f)
    BY <2>2, <2>4 DEF ApplyProvide, UnwindStep, UnwindEnd, ApplyReturn, Report
  <2>5. CASE \E inv \in BOOLEAN : ApplyFail(f, inv)
    BY <2>2, <2>5 DEF ApplyFail, Report
  <2>. QED BY <2>1, <2>3, <2>4, <2>5 DEF Worker
<1>3. CASE Closer
  BY <1>3 DEF Closer, CloseBegin, CloseRewind, UnwindStep, CloseEnd, mailVars
<1>4. CASE Handle
  BY <1>4 DEF Handle, HandleLoad, HandleDispose, HandleApplied, HandleUnwound, HandleService, Receive
<1>5. CASE DepsStep \/ SettleStep
  BY <1>5 DEF DepsStep, ReadOn, Decline, Capture, Accept, Activate, StartLoad, SettleStep,
              SettleBegin, SettleEnd, SettleStop, Visit, Finish, ExitTest, mailVars
<1>6. CASE UNCHANGED vars
  BY <1>6 DEF vars, mailVars
<1>. QED BY <1>1, <1>2, <1>3, <1>4, <1>5, <1>6, Steps

\* The report of a failed Apply keeps its fiber loading until the loop takes it.
LEMMA ErredStays ==
    ASSUME Inductive, [Next]_vars, NEW f \in Fibers, Erred(f), state'[f] = "loading"
    PROVE Erred(f)'
<1>. USE Owned, Callers DEF Inductive
<1>1. outgoing \in [Procs -> Cmd \cup {NoCmd}] /\ state \in [Fibers -> States]
  BY DEF TypeOK, MailTypeOK, FibersTypeOK
<1>2. ASSUME NEW p \in Procs, NEW c \in Cmd, Idle(p), Submit(p, c), UNCHANGED inbox
      PROVE Erred(f)'
  <2>1. Failure(outgoing[f], f) => outgoing'[f] = outgoing[f]
    BY <1>1, <1>2, CmdFacts DEF Submit, Idle, Failure
  <2>. QED BY <1>2, <2>1 DEF Erred
<1>3. ASSUME NEW p \in Procs, Sending(p) \/ Refusal(p) PROVE Erred(f)'
  <2>1. CASE Enqueue(p)
    <3>1. CASE Failure(outgoing[f], f) /\ p = f
      BY <2>1, <3>1, EnqueueFacts DEF Erred
    <3>2. CASE Failure(outgoing[f], f) /\ p # f
      <4>1. outgoing'[f] = outgoing[f]
        BY <1>1, <2>1, <3>2, EnqueueFacts
      <4>. QED BY <3>2, <4>1 DEF Erred
    <3>3. CASE \E i \in DOMAIN inbox : Failure(inbox[i], f)
      BY <2>1, <3>3, EnqueueFacts DEF Erred
    <3>. QED BY <3>1, <3>2, <3>3 DEF Erred
  <2>2. CASE Block(p)
    BY <2>2 DEF Block, Erred
  <2>3. CASE Refusal(p)
    <3>1. exited /\ state'[f] \in {"failed", state[f]}
      BY <1>1, <2>3 DEF Refusal, Reject
    <3>. QED BY <3>1 DEF Closed, Enrolled
  <2>. QED BY <1>3, <2>1, <2>2, <2>3 DEF Sending
<1>4. CASE Handle /\ UNCHANGED outgoing /\ \E type : Receive(type)
  <2>1. PICK type : Receive(type)
    BY <1>4
  <2>2. CASE \E i \in DOMAIN inbox : i # 1 /\ Failure(inbox[i], f)
    BY <2>1, <2>2, ReceiveFacts DEF Erred
  <2>3. CASE Failure(inbox[1], f)
    <3>1. type = "applied" /\ Subject = f /\ Head(inbox).err
      BY <2>1, <2>3, ReceiveFacts DEF Failure
    <3>2. HandleApplied
      BY <1>4, <2>1, <3>1 DEF Handle, HandleLoad, HandleDispose, HandleUnwound, HandleService, Receive
    <3>3. state'[f] = "unloading"
      BY <3>1, <3>2 DEF HandleApplied, StartUnload
    <3>. QED BY <3>3
  <2>4. CASE Failure(outgoing[f], f)
    BY <1>4, <2>4 DEF Erred
  <2>. QED BY <2>2, <2>3, <2>4 DEF Erred
<1>5. UNCHANGED <<inbox, outgoing>> => Erred(f)'
  BY DEF Erred
<1>. QED BY <1>2, <1>3, <1>4, <1>5, MailStep

\* What a step does with what Apply has still to provide.
LEMMA ApplyStep ==
    ASSUME Inductive, [Next]_vars, NEW f \in Fibers
    PROVE \/ toProvide'[f] = toProvide[f] /\ (job'[f] = "apply" <=> job[f] = "apply")
          \/ \E k \in toProvide[f] : ApplyProvide(f, k)
          \/ ApplyReturn(f) \/ \E inv \in BOOLEAN : ApplyFail(f, inv)
          \/ StartLoad /\ cur = f
<1>. USE Owned DEF Inductive
<1>1. /\ job \in [Owners -> Jobs] /\ toProvide \in [Fibers -> SUBSET Keys]
      /\ state \in [Fibers -> States]
  BY DEF TypeOK, WorkTypeOK, FibersTypeOK
<1>2. UNCHANGED <<job, toProvide>> =>
          toProvide'[f] = toProvide[f] /\ (job'[f] = "apply" <=> job[f] = "apply")
  OBVIOUS
<1>3. ASSUME NEW S \in SUBSET Fibers, \A g \in S : job[g] = "idle", UNCHANGED toProvide,
             job' = [o \in Owners |-> IF o \in S THEN "unload" ELSE job[o]]
      PROVE toProvide'[f] = toProvide[f] /\ (job'[f] = "apply" <=> job[f] = "apply")
  BY <1>1, <1>3
<1>4. CASE (\E u \in Users : Client(u)) \/ (\E p \in Procs : Sending(p) \/ Refusal(p))
           \/ UNCHANGED vars
  BY <1>2, <1>4 DEF Client, Load, Dispose, ProvideOn, Withdraw, Sending, Refusal, vars, workVars
<1>5. ASSUME NEW g \in Fibers, Worker(g)
      PROVE \/ toProvide'[f] = toProvide[f] /\ (job'[f] = "apply" <=> job[f] = "apply")
            \/ \E k \in toProvide[f] : ApplyProvide(f, k)
            \/ ApplyReturn(f) \/ \E inv \in BOOLEAN : ApplyFail(f, inv)
  <2>1. CASE (\E k \in Keys : ApplyRead(g, k)) \/ UnwindStep(g)
    BY <1>2, <2>1 DEF ApplyRead, UnwindStep, workVars
  <2>2. CASE UnwindBegin(g) \/ UnwindEnd(g)
    BY <1>1, <2>2 DEF UnwindBegin, UnwindEnd, Report
  <2>3. CASE \E k \in Keys : ApplyProvide(g, k)
    BY <1>1, <2>3 DEF ApplyProvide
  <2>4. CASE ApplyReturn(g) /\ f # g
    BY <1>1, <2>4 DEF ApplyReturn, Report
  <2>5. CASE (\E inv \in BOOLEAN : ApplyFail(g, inv)) /\ f # g
    BY <1>1, <2>5 DEF ApplyFail, Report
  <2>. QED BY <1>5, <2>1, <2>2, <2>3, <2>4, <2>5 DEF Worker
<1>6. CASE Closer
  BY <1>1, <1>6 DEF Closer, CloseBegin, CloseRewind, UnwindStep, CloseEnd, workVars
<1>7. CASE Handle
  <2>1. CASE UNCHANGED workVars
    BY <1>2, <2>1 DEF workVars
  <2>2. CASE HandleDispose
    <3>1. CASE StartUnload({Subject}) /\ state[Subject] = "active"
      <4>1. Subject \in Fibers
        BY <2>2, ReceiveFacts, SubjectType DEF HandleDispose
      <4>2. job[Subject] = "idle"
        BY <3>1, <4>1, NoToken
      <4>. QED BY <1>3, <3>1, <4>1, <4>2 DEF StartUnload
    <3>. QED BY <2>1, <2>2, <3>1 DEF HandleDispose, Remove
  <2>3. CASE HandleApplied \/ HandleUnwound
    <3>1. Subject \in Fibers /\ job[Subject] = "idle"
      BY <2>3, Reported DEF HandleApplied, HandleUnwound
    <3>2. StartUnload({Subject}) \/ UNCHANGED workVars
      BY <2>3 DEF HandleApplied, HandleUnwound, Remove
    <3>. QED BY <1>3, <2>1, <3>1, <3>2 DEF StartUnload
  <2>. QED BY <1>7, <2>1, <2>2, <2>3 DEF Handle, HandleLoad, HandleService
<1>8. CASE DepsStep
  <2>1. cur \in Fibers /\ job[cur] = "idle"
    BY <1>8, NoToken DEF DepsStep, ReadOn, Decline, Capture, Accept, Activate, StartLoad, TypeOK,
                         LoopTypeOK, Visits, Tokens
  <2>2. CASE StartLoad
    BY <1>1, <2>1, <2>2 DEF StartLoad
  <2>3. CASE StartUnload({cur})
    BY <1>3, <2>1, <2>3 DEF StartUnload
  <2>. QED BY <1>2, <1>8, <2>2, <2>3 DEF DepsStep, ReadOn, Decline, Capture, Accept, Activate, workVars
<1>9. CASE SettleStep /\ ~SettleStop
  BY <1>2, <1>9 DEF SettleStep, SettleBegin, SettleEnd, Visit, Finish, ExitTest, workVars
<1>10. CASE SettleStop
  <2>1. PICK serving : serving = {g \in registry : state[g] = "active" /\ ~disposeRequested[g]}
    OBVIOUS
  <2>2. serving \in SUBSET Fibers /\ \A g \in serving : job[g] = "idle"
    BY <2>1, NoToken DEF TypeOK, FibersTypeOK
  <2>3. UNCHANGED toProvide /\ job' = [o \in Owners |-> IF o \in serving THEN "unload" ELSE job[o]]
    BY <1>10, <2>1 DEF SettleStop
  <2>. QED BY <1>3, <2>2, <2>3
<1>. QED BY <1>4, <1>5, <1>6, <1>7, <1>8, <1>9, <1>10, Steps

\* Every step into loading begins an Apply, and every step into active ends one
\* that has not failed.
LEMMA SoundBefore ==
    ASSUME Inductive, [Next]_vars, NEW f \in Fibers, Sound(f)'
    PROVE Sound(f) \/ (StartLoad /\ cur = f)
<1>. USE Owned DEF Inductive
<1>1. state \in [Fibers -> States]
  BY DEF TypeOK, FibersTypeOK
<1>2. ASSUME state'[f] = state[f] PROVE Sound(f)
  BY <1>2, ErredStays DEF Sound
<1>3. CASE \/ \E u \in Users : Client(u)
           \/ \E g \in Fibers : Worker(g)
           \/ Closer
           \/ \E p \in Procs : Sending(p) \/ Refusal(p)
  BY <1>2, <1>3, OutsideLoop DEF Sound
<1>4. CASE Handle
  BY <1>1, <1>2, <1>4 DEF Handle, HandleLoad, HandleService, HandleDispose, HandleApplied,
                         HandleUnwound, Remove, StartUnload, fiberVars, Sound
<1>5. CASE DepsStep /\ ~Activate /\ ~StartLoad
  BY <1>1, <1>2, <1>5 DEF DepsStep, ReadOn, Decline, Capture, Accept, StartUnload, fiberVars, Sound
<1>6. CASE Activate
  <2>1. why = "applied" /\ pc = "capture" /\ cur \in Fibers
    BY <1>6 DEF Activate, TypeOK, LoopTypeOK
  <2>2. state[cur] = "loading" /\ ~Erred(cur)
    BY <2>1 DEF Tokens, Phase, Erred, Failure, IsReport
  <2>3. f # cur => state'[f] = state[f]
    BY <1>1, <1>6 DEF Activate
  <2>. QED BY <1>2, <2>2, <2>3 DEF Sound
<1>7. CASE StartLoad
  <2>1. f # cur => state'[f] = state[f]
    BY <1>1, <1>7 DEF StartLoad
  <2>. QED BY <1>2, <1>7, <2>1
<1>8. CASE SettleStep
  BY <1>1, <1>2, <1>8 DEF SettleStep, SettleBegin, SettleEnd, SettleStop, Visit, Finish, ExitTest,
                          fiberVars, Sound
<1>9. CASE UNCHANGED vars
  BY <1>2, <1>9 DEF vars, fiberVars
<1>. QED BY <1>3, <1>4, <1>5, <1>6, <1>7, <1>8, <1>9, Steps

\* Nobody takes an entry of a fiber out of the table before it unwinds, but by hand.
LEMMA EntryStays ==
    ASSUME Inductive, Ascending, [Next]_vars, NEW f \in Fibers \ Manual,
           job[f] # "unwind", NEW e \in provides, e.owner = f
    PROVE e \in provides'
<1>. USE Owned DEF Inductive
<1>1. e.seq # ApplyInverse /\ f \in Owners /\ \E i \in DOMAIN inverses[f] : inverses[f][i] = e.seq
  BY DEF Owed, Listed
<1>2. ASSUME NEW d \in provides, d.owner \in Manual, DropEntry(d.seq) PROVE e \in provides'
  <2>1. d.owner \in Owners /\ \E i \in DOMAIN inverses[d.owner] : inverses[d.owner][i] = d.seq
    BY DEF Owed, Listed, TypeOK, ContextsTypeOK, Entry
  <2>2. e.seq # d.seq
    BY <1>1, <1>2, <2>1 DEF Ascending
  <2>. QED BY <1>2, <2>2 DEF DropEntry
<1>3. ASSUME NEW o \in Owners, RunInverse(o), job[o] = "unwind", DropEntry(NextInverse(o))
      PROVE e \in provides'
  <2>1. Len(inverses[o]) \in DOMAIN inverses[o]
    BY <1>3 DEF RunInverse, TypeOK, ContextsTypeOK
  <2>2. e.seq # NextInverse(o)
    BY <1>1, <1>3, <2>1 DEF Ascending, NextInverse
  <2>. QED BY <1>3, <2>2 DEF DropEntry
<1>. QED BY <1>2, <1>3, TableStep

LEMMA DeliveredStep ==
    ASSUME Inductive, Ascending, Delivered, [Next]_vars PROVE Delivered'
<1>. USE Owned DEF Inductive
<1>1. /\ job \in [Owners -> Jobs] /\ toProvide \in [Fibers -> SUBSET Keys]
      /\ state \in [Fibers -> States] /\ outgoing \in [Procs -> Cmd \cup {NoCmd}]
  BY DEF TypeOK, WorkTypeOK, FibersTypeOK, MailTypeOK
<1>2. ASSUME NEW f \in Fibers
      PROVE /\ toProvide'[f] \subseteq Offers[f]
            /\ job'[f] # "apply" => toProvide'[f] = {}
  <2>1. CASE \E k \in toProvide[f] : ApplyProvide(f, k)
    BY <1>1, <2>1 DEF ApplyProvide, Delivered
  <2>2. CASE ApplyReturn(f)
    BY <1>1, <2>2 DEF ApplyReturn, Delivered
  <2>3. CASE \E inv \in BOOLEAN : ApplyFail(f, inv)
    BY <1>1, <2>3 DEF ApplyFail, Delivered
  <2>4. CASE StartLoad /\ cur = f
    BY <1>1, <2>4 DEF StartLoad
  <2>5. CASE toProvide'[f] = toProvide[f] /\ (job'[f] = "apply" <=> job[f] = "apply")
    BY <2>5 DEF Delivered
  <2>. QED BY <2>1, <2>2, <2>3, <2>4, <2>5, ApplyStep
<1>3. ASSUME NEW f \in Fibers \ Manual, Sound(f)', NEW k \in Offers[f] \ toProvide'[f]
      PROVE \E e \in provides' : e.owner = f /\ e.key = k
  <2>1. CASE StartLoad /\ cur = f
    BY <1>1, <1>3, <2>1 DEF StartLoad
  <2>2. CASE Sound(f) /\ k \notin toProvide[f]
    <3>1. PICK e \in provides : e.owner = f /\ e.key = k
      BY <2>2 DEF Delivered
    <3>2. job[f] # "unwind"
      BY <2>2 DEF Sound, Tokens
    <3>. QED BY <3>1, <3>2, EntryStays
  <2>3. CASE Sound(f) /\ k \in toProvide[f]
    <3>1. CASE \E l \in toProvide[f] : ApplyProvide(f, l)
      <4>1. ApplyProvide(f, k)
        <5>1. PICK l \in toProvide[f] : ApplyProvide(f, l)
          BY <3>1
        <5>2. toProvide'[f] = toProvide[f] \ {l}
          BY <1>1, <5>1, SMTT(20) DEF ApplyProvide
        <5>. QED BY <1>3, <2>3, <5>1, <5>2
      <4>2. [key |-> k, owner |-> f, seq |-> seq + 1] \in provides'
        BY <4>1 DEF ApplyProvide, ProvideIn, AddEntry
      <4>. QED BY <4>2
    <3>2. CASE \E inv \in BOOLEAN : ApplyFail(f, inv)
      <4>1. PICK inv \in BOOLEAN : outgoing'[f] = AppliedCmd(f, inv, TRUE)
        BY <1>1, <3>2, Callers DEF ApplyFail, Report, Submit
      <4>2. Erred(f)'
        BY <4>1 DEF AppliedCmd, Failure, Erred
      <4>3. state'[f] = state[f] /\ job[f] = "apply"
        BY <3>2 DEF ApplyFail, fiberVars
      <4>. QED BY <1>3, <4>2, <4>3 DEF Sound, Tokens
    <3>3. ~ApplyReturn(f)
      BY <2>3 DEF ApplyReturn
    <3>4. CASE StartLoad /\ cur = f
      BY <2>1, <3>4
    <3>. QED BY <1>3, <2>3, <3>1, <3>2, <3>3, <3>4, ApplyStep
  <2>. QED BY <1>3, <2>1, <2>2, <2>3, SoundBefore
<1>. QED BY <1>2, <1>3 DEF Delivered
-----------------------------------------------------------------------------
(* Components that cannot fail one another. *)
\* Only an Apply that fails makes the report of a failure.
LEMMA ErredBegins ==
    ASSUME Inductive, [Next]_vars, NEW f \in Fibers, ~Erred(f), Erred(f)'
    PROVE \E inv \in BOOLEAN : ApplyFail(f, inv)
<1>. USE Owned, Callers DEF Inductive
<1>1. outgoing \in [Procs -> Cmd \cup {NoCmd}]
  BY DEF TypeOK, MailTypeOK
<1>2. ASSUME UNCHANGED inbox, outgoing'[f] = outgoing[f] PROVE FALSE
  BY <1>2 DEF Erred
<1>3. ASSUME NEW c, ~Failure(c, f), outgoing' = [outgoing EXCEPT ![f] = c], UNCHANGED inbox
      PROVE FALSE
  BY <1>1, <1>3 DEF Erred
<1>4. ~Failure(ServiceCmd, f) /\ ~Failure(UnwoundCmd(f), f) /\ ~Failure(AppliedCmd(f, TRUE, FALSE), f)
      /\ ~Failure(NoCmd, f)
  BY DEF Failure, ServiceCmd, UnwoundCmd, AppliedCmd, NoCmd
<1>5. ASSUME NEW u \in Users, Client(u) PROVE FALSE
  <2>1. f # u /\ UNCHANGED inbox
    BY <1>5, OrchestratorAssumption DEF Client, Load, Dispose, ProvideOn, Withdraw
  <2>2. outgoing'[f] = outgoing[f]
    BY <1>1, <1>5, <2>1 DEF Client, Load, Dispose, ProvideOn, Withdraw, Submit
  <2>. QED BY <1>2, <2>1, <2>2
<1>6. CASE Closer
  <2>1. outgoing'[f] = outgoing[f] /\ UNCHANGED inbox
    BY <1>1, <1>6 DEF Closer, CloseBegin, CloseRewind, UnwindStep, CloseEnd, Submit, mailVars
  <2>. QED BY <1>2, <2>1
<1>7. ASSUME NEW g \in Fibers, Worker(g) PROVE \E inv \in BOOLEAN : ApplyFail(f, inv)
  <2>1. UNCHANGED inbox
    BY <1>7 DEF Worker, ApplyRead, ApplyProvide, ApplyReturn, ApplyFail, UnwindBegin, UnwindStep,
                UnwindEnd, mailVars
  <2>2. g = f
    <3>1. g # f => outgoing'[f] = outgoing[f]
      BY <1>1, <1>7 DEF Worker, ApplyRead, ApplyProvide, ApplyReturn, ApplyFail, UnwindBegin,
                        UnwindStep, UnwindEnd, Report, Submit, mailVars
    <3>. QED BY <1>2, <2>1, <3>1
  <2>3. CASE (\E k \in Keys : ApplyRead(f, k)) \/ UnwindBegin(f)
    BY <1>2, <2>3 DEF ApplyRead, UnwindBegin, mailVars
  <2>4. CASE (\E k \in Keys : ApplyProvide(f, k)) \/ ApplyReturn(f) \/ UnwindStep(f) \/ UnwindEnd(f)
    <3>1. \/ UNCHANGED outgoing
          \/ \E c \in {ServiceCmd, UnwoundCmd(f), AppliedCmd(f, TRUE, FALSE)} :
                 outgoing' = [outgoing EXCEPT ![f] = c]
      BY <2>4 DEF ApplyProvide, ApplyReturn, UnwindStep, UnwindEnd, Report, Submit
    <3>. QED BY <1>2, <1>3, <1>4, <2>1, <3>1
  <2>. QED BY <1>7, <2>2, <2>3, <2>4 DEF Worker
<1>8. ASSUME NEW p \in Procs, Enqueue(p) PROVE FALSE
  <2>1. Failure(outgoing'[f], f) => Failure(outgoing[f], f)
    BY <1>1, <1>4, <1>8, EnqueueFacts
  <2>2. PICK i \in DOMAIN inbox' : Failure(inbox'[i], f)
    BY <2>1 DEF Erred
  <2>3. Failure(outgoing[p], f)
    BY <1>8, <2>2, EnqueueFacts DEF Erred
  <2>4. p = f
    BY <2>3 DEF Tokens, IsReport, Failure
  <2>. QED BY <2>3, <2>4 DEF Erred
<1>9. ASSUME NEW p \in Procs, Block(p) \/ Refusal(p) PROVE FALSE
  <2>1. UNCHANGED inbox /\ outgoing'[f] \in {outgoing[f], NoCmd}
    BY <1>1, <1>9 DEF Block, Refusal, Reject
  <2>. QED BY <1>4, <2>1 DEF Erred
<1>10. CASE Handle
  <2>1. PICK type : Receive(type)
    BY <1>10 DEF Handle, HandleLoad, HandleDispose, HandleApplied, HandleUnwound, HandleService
  <2>2. UNCHANGED outgoing
    BY <2>1 DEF Receive
  <2>. QED BY <2>1, <2>2, ReceiveFacts DEF Erred
<1>11. CASE DepsStep \/ SettleStep \/ UNCHANGED vars
  BY <1>2, <1>11 DEF DepsStep, ReadOn, Decline, Capture, Accept, Activate, StartLoad, SettleStep,
              SettleBegin, SettleEnd, SettleStop, Visit, Finish, ExitTest, mailVars, vars
<1>. QED BY <1>5, <1>6, <1>7, <1>8, <1>9, <1>10, <1>11, Steps DEF Sending

\* Placid components never fail.
LEMMA ApplySucceeds ==
    ASSUME Inductive, Delivered, Unfailing, Placid, NEW f \in Fibers, NEW inv \in BOOLEAN
    PROVE ~ApplyFail(f, inv)
<1>1. ASSUME NEW k \in toProvide[f] PROVE ~Refused(k, f)
  BY <1>1 DEF Refused, Unfailing, Placid, Delivered
<1>. QED BY <1>1 DEF ApplyFail, Unfailing, Placid

\* Where a new entry comes from: the root, a client, or an Apply.
LEMMA NewEntry ==
    ASSUME Inductive, [Next]_vars, NEW e \in provides', e \notin provides
    PROVE e.owner = Root \/ e.key \in LateKeys \/ e.key \in toProvide[e.owner]
<1>. USE Owned
<1>1. ASSUME NEW o, NEW k, ProvideIn(o, k) PROVE e.owner = o /\ e.key = k
  BY <1>1 DEF ProvideIn, AddEntry
<1>2. ASSUME NEW s, DropEntry(s) PROVE FALSE
  BY <1>2 DEF DropEntry
<1>3. ASSUME UNCHANGED provides PROVE FALSE
  BY <1>3
<1>4. ASSUME NEW o, UnwindStep(o) PROVE FALSE
  BY <1>2, <1>3, <1>4 DEF UnwindStep, RunInverse, svcVars
<1>5. CASE \E u \in Users : Client(u)
  BY <1>1, <1>2, <1>3, <1>5 DEF Client, Load, Dispose, ProvideOn, Withdraw, svcVars
<1>6. CASE \E f \in Fibers : Worker(f)
  BY <1>1, <1>3, <1>4, <1>6 DEF Worker, ApplyRead, ApplyProvide, ApplyReturn, ApplyFail,
                                UnwindBegin, UnwindEnd, svcVars
<1>7. CASE Closer
  BY <1>3, <1>4, <1>7 DEF Closer, CloseBegin, CloseRewind, CloseEnd, svcVars
<1>8. CASE \/ \E p \in Procs : Sending(p) \/ Refusal(p)
           \/ Handle \/ DepsStep \/ SettleStep \/ UNCHANGED vars
  BY <1>3, <1>8 DEF Sending, Refusal, Handle, HandleLoad, HandleDispose, HandleApplied,
              HandleUnwound, HandleService, Receive, DepsStep, ReadOn, Decline, Capture, Accept,
              Activate, StartLoad, SettleStep, SettleBegin, SettleEnd, SettleStop, Visit, Finish,
              ExitTest, vars, svcVars
<1>. QED BY <1>5, <1>6, <1>7, <1>8, Steps

LEMMA UnfailingStep ==
    ASSUME Inductive, Stops, Delivered, Unfailing, Withdrawing, [Next]_vars PROVE Unfailing'
<1>. SUFFICES ASSUME Placid
              PROVE /\ \A e \in provides' : e.owner \in Fibers =>
                           e.key \in Offers[e.owner] \cup LateKeys
                    /\ \A f \in Fibers : toRead'[f] = {} /\ ~failed'[f] /\ ~Erred(f)'
                    /\ ~stopping' => \A f \in Fibers : state'[f] # "failed"
  BY DEF Unfailing, Placid
<1>. USE Owned DEF Inductive
<1>1. /\ toRead \in [Fibers -> SUBSET Keys] /\ failed \in [Fibers -> BOOLEAN]
      /\ state \in [Fibers -> States] /\ registry \subseteq Fibers
  BY DEF TypeOK, WorkTypeOK, FibersTypeOK
<1>2. ASSUME NEW e \in provides', e.owner \in Fibers PROVE e.key \in Offers[e.owner] \cup LateKeys
  BY <1>2, NewEntry DEF Unfailing, Delivered
<1>3. ASSUME NEW f \in Fibers PROVE ~Erred(f)'
  BY ErredBegins, ApplySucceeds DEF Unfailing
<1>4. ASSUME NEW f \in Fibers PROVE toRead'[f] = {}
  <2>1. CASE \E g \in Fibers : Worker(g)
    BY <1>1, <2>1 DEF Worker, ApplyRead, ApplyProvide, ApplyReturn, ApplyFail, UnwindBegin,
                      UnwindStep, UnwindEnd, workVars, Unfailing
  <2>2. CASE StartLoad
    BY <1>1, <2>2 DEF StartLoad, Unfailing, Placid
  <2>3. ~StartLoad /\ ~(\E g \in Fibers : Worker(g)) => UNCHANGED toRead
    BY Steps DEF Client, Load, Dispose, ProvideOn, Withdraw, Closer, CloseBegin, CloseRewind,
           UnwindStep, CloseEnd, Sending, Refusal, Handle, HandleLoad, HandleDispose, HandleApplied,
           HandleUnwound, HandleService, StartUnload, Remove, DepsStep, ReadOn, Decline, Capture,
           Accept, Activate, SettleStep, SettleBegin, SettleEnd, SettleStop, Visit, Finish, ExitTest,
           vars, workVars
  <2>. QED BY <2>1, <2>2, <2>3 DEF Unfailing
<1>5. ASSUME NEW f \in Fibers PROVE ~failed'[f]
  <2>1. CASE HandleApplied
    <3>1. ~Head(inbox).err
      <4>1. 1 \in DOMAIN inbox /\ Head(inbox) = inbox[1] /\ Subject = inbox[1].fiber
            /\ inbox[1].type = "applied" /\ Subject \in Fibers
        BY <2>1, ReceiveFacts, SubjectType DEF HandleApplied
      <4>2. ~Erred(Subject)
        BY <4>1 DEF Unfailing
      <4>. QED BY <4>1, <4>2 DEF Erred, Failure
    <3>2. failed' = [failed EXCEPT ![Subject] = @ \/ Head(inbox).err] \/ UNCHANGED failed
      BY <2>1 DEF HandleApplied
    <3>3. \A g \in Fibers : ~failed[g]
      BY DEF Unfailing
    <3>. QED BY <1>1, <3>1, <3>2, <3>3
  <2>2. CASE Handle /\ ~HandleApplied
    <3>1. UNCHANGED failed
      BY <2>2 DEF Handle, HandleLoad, HandleDispose, HandleUnwound, HandleService, Remove, fiberVars
    <3>. QED BY <3>1 DEF Unfailing
  <2>3. ~Handle => UNCHANGED failed
    BY Steps, OutsideLoop DEF DepsStep, ReadOn, Decline, Capture, Accept, Activate, StartLoad,
           SettleStep, SettleBegin, SettleEnd, SettleStop, Visit, Finish, ExitTest, vars, fiberVars
  <2>. QED BY <2>1, <2>2, <2>3 DEF Unfailing
<1>6. ASSUME ~stopping', NEW f \in Fibers PROVE state'[f] # "failed"
  <2>1. ~stopping /\ state[f] # "failed" /\ ~exited /\ ctx[Root] # "closed"
    BY <1>6, StoppingStays DEF Unfailing, Stops, Closed, Withdrawing
  <2>2. ASSUME NEW u \in Users, Client(u) PROVE state'[f] # "failed"
    BY <1>1, <2>1, <2>2 DEF Client, Load, Dispose, ProvideOn, Withdraw, fiberVars
  <2>3. CASE (\E g \in Fibers : Worker(g)) \/ Closer \/ (\E p \in Procs : Sending(p) \/ Refusal(p))
    BY <2>1, <2>3 DEF Worker, ApplyRead, ApplyProvide, ApplyReturn, ApplyFail, UnwindBegin,
           UnwindStep, UnwindEnd, Closer, CloseBegin, CloseRewind, CloseEnd, Sending, Refusal,
           Reject, fiberVars
  <2>4. CASE Handle
    <3>1. CASE HandleUnwound
      <4>1. ~failed[Subject]
        BY <3>1, Reported DEF HandleUnwound, Unfailing
      <4>. QED BY <1>1, <2>1, <3>1, <4>1 DEF HandleUnwound, Remove
    <3>2. CASE ~HandleUnwound
      BY <1>1, <2>1, <2>4, <3>2 DEF Handle, HandleLoad, HandleDispose, HandleApplied, HandleService,
                                    Remove, StartUnload, fiberVars
    <3>. QED BY <3>1, <3>2
  <2>5. CASE DepsStep
    BY <1>1, <2>1, <2>5 DEF DepsStep, ReadOn, Decline, Capture, Accept, Activate, StartLoad,
                            StartUnload, fiberVars
  <2>6. CASE SettleStep
    BY <1>1, <2>1, <2>6 DEF SettleStep, SettleBegin, SettleEnd, SettleStop, Visit, Finish, ExitTest,
                            fiberVars
  <2>7. CASE UNCHANGED vars
    BY <2>1, <2>7 DEF vars, fiberVars
  <2>. QED BY <2>2, <2>3, <2>4, <2>5, <2>6, <2>7, Steps
<1>. QED BY <1>2, <1>3, <1>4, <1>5, <1>6
-----------------------------------------------------------------------------
(* Shutdown. *)

LEMMA RootCloses ==
    ASSUME Inductive, Stops, ctx[Root] = "closed" => stopping, [Next]_vars,
           ctx'[Root] = "closed"
    PROVE stopping'
<1>. USE Owned DEF Inductive
<1>1. ctx \in [Owners -> {"none", "open", "closed"}]
  BY DEF TypeOK, ContextsTypeOK
<1>2. ASSUME ctx'[Root] = ctx[Root] PROVE stopping'
  BY <1>2, StoppingStays
<1>3. CASE CloseRewind
  BY <1>3, StoppingStays DEF CloseRewind, Stops
<1>4. CASE Closer /\ ~CloseRewind
  BY <1>2, <1>4 DEF Closer, CloseBegin, UnwindStep, RunInverse, CloseEnd, ctxVars
<1>5. CASE \/ \E u \in Users : Client(u)
           \/ \E f \in Fibers : Worker(f)
           \/ \E p \in Procs : Sending(p) \/ Refusal(p)
           \/ UNCHANGED vars
  <2>1. CASE \E f \in Fibers : UnwindBegin(f)
    BY <1>1, <1>2, <2>1 DEF UnwindBegin, CloseScope
  <2>2. CASE ~\E f \in Fibers : UnwindBegin(f)
    BY <1>2, <1>5, <2>2 DEF Client, Load, Dispose, ProvideOn, Withdraw, ProvideIn, Worker, ApplyRead,
           ApplyProvide, ApplyReturn, ApplyFail, UnwindStep, RunInverse, UnwindEnd, Sending, Refusal,
           vars, ctxVars
  <2>. QED BY <2>1, <2>2
<1>6. CASE Handle \/ SettleStep
  BY <1>2, <1>6 DEF Handle, HandleLoad, HandleDispose, HandleApplied, HandleUnwound, HandleService,
         KeepApplyInverse, SettleStep, SettleBegin, SettleEnd, SettleStop, Visit, Finish, ExitTest,
         ctxVars
<1>7. CASE DepsStep
  <2>1. cur \in Fibers
    BY <1>7 DEF DepsStep, ReadOn, Decline, Capture, Accept, Activate, StartLoad, TypeOK, LoopTypeOK
  <2>2. UNCHANGED ctxVars \/ OpenScope(cur)
    BY <1>7 DEF DepsStep, ReadOn, Decline, Capture, Accept, Activate, StartLoad
  <2>. QED BY <1>1, <1>2, <2>1, <2>2 DEF OpenScope, ctxVars
<1>. QED BY <1>3, <1>4, <1>5, <1>6, <1>7, Steps

LEMMA SleeperSends ==
    ASSUME Inductive, sendMu # Free => ~Idle(sendMu), [Next]_vars, sendMu' # Free
    PROVE ~Idle(sendMu)'
<1>. USE DEF Inductive
<1>1. outgoing \in [Procs -> Cmd \cup {NoCmd}] /\ sendMu \in Procs \cup {Free}
  BY DEF TypeOK, MailTypeOK
<1>2. ASSUME UNCHANGED <<outgoing, sendMu>> PROVE ~Idle(sendMu)'
  BY <1>2 DEF Idle
<1>3. ASSUME NEW p \in Procs, NEW c \in Cmd, Idle(p), Submit(p, c), UNCHANGED sendMu
      PROVE ~Idle(sendMu)'
  BY <1>1, <1>3 DEF Submit, Idle
<1>4. ASSUME NEW p \in Procs, Sending(p) \/ Refusal(p) PROVE ~Idle(sendMu)'
  BY <1>4 DEF Sending, Refusal, Enqueue, Block, Reject, Idle
<1>. QED BY <1>2, <1>3, <1>4, MailStep

\* Once stopping, the loop runs out of fibers to withdraw or of reasons to wait.
LEMMA StopPass ==
    ASSUME Inductive, Expected, SettleStop, [Next]_vars PROVE UnderWay' \/ registry' = {}
<1>. USE Owned, Callers DEF Inductive
<1>. SUFFICES ASSUME NEW f \in registry' PROVE UnderWay'
  OBVIOUS
<1>1. /\ job \in [Owners -> Jobs] /\ registry \subseteq Fibers
      /\ pc = "settle" /\ pc' = "finish" /\ why' = why
  BY DEF SettleStop, TypeOK, WorkTypeOK, FibersTypeOK
<1>2. f \in registry /\ ~(state[f] = "pending" /\ ~disposeRequested[f])
  BY DEF SettleStop
<1>3. state[f] \in {"loading", "active", "unloading"} /\ f \in Fibers
  BY <1>1, <1>2 DEF Enrolled, Retired
<1>4. why = "idle" /\ ~exited
  BY <1>1 DEF Visits, Closed
<1>5. CASE state[f] = "active"
  <2>1. ~disposeRequested[f]
    BY <1>3, <1>5 DEF Retired
  <2>2. job'[f] = "unload"
    BY <1>2, <1>3, <1>5, <2>1 DEF SettleStop
  <2>. QED BY <1>3, <2>2 DEF UnderWay
<1>6. CASE state[f] \in {"loading", "unloading"}
  <2>1. Attended(f)
    BY <1>3, <1>6 DEF Expected
  <2>2. UnderWay
    BY <1>3, <1>4, <2>1, CmdFacts DEF Attended, IsReport, Idle, UnderWay
  <2>. QED BY <1>1, <1>4, <2>2, UnderWayStays
<1>. QED BY <1>3, <1>5, <1>6

\* The exit test of a loop with nobody left to wait for succeeds.
LEMMA LastExitTest ==
    ASSUME Inductive, CountersExact, ~UnderWay, registry = {}, ExitTest PROVE pc' = "exited"
<1>1. inbox = <<>> /\ pc = "exit" /\ sendMu = Free
  BY DEF UnderWay, ExitTest
<1>2. {f \in Fibers : job[f] # "idle"} = {}
  BY DEF UnderWay
<1>3. pending = 0
  BY <1>2, FS_EmptySet DEF CountersExact
<1>4. inflight = 0
  BY <1>1 DEF CountersExact, Count
<1>. QED BY <1>1, <1>3, <1>4 DEF ExitTest, Quiescent

LEMMA WithdrawingStep ==
    ASSUME Inductive, Accounting, Withdrawing, [Next]_vars PROVE Withdrawing'
<1>. USE DEF Inductive, Accounting
<1>1. ctx'[Root] = "closed" => stopping'
  BY RootCloses DEF Withdrawing
<1>2. sendMu' # Free => ~Idle(sendMu)'
  BY SleeperSends DEF Withdrawing
<1>. SUFFICES ASSUME stopping'
              PROVE /\ pc' = "visit" \/ why' \in {"pending", "active"} => UnderWay'
                    /\ pc' \in {"finish", "exit"} => UnderWay' \/ registry' = {}
                    /\ pc' = "recv" => UnderWay'
  BY <1>1, <1>2 DEF Withdrawing
<1>3. CASE CloseBegin
  <2>1. ~Idle(Root)'
    BY <1>3, Callers, CmdFacts DEF CloseBegin, Submit, Idle, TypeOK, MailTypeOK
  <2>. QED BY <2>1, Callers DEF UnderWay
<1>4. ~CloseBegin => stopping
  BY DEF Next, Client, Load, Dispose, ProvideOn, Withdraw, Worker, ApplyRead, ApplyProvide,
         ApplyReturn, ApplyFail, UnwindBegin, UnwindStep, UnwindEnd, Closer, CloseRewind,
         CloseEnd, Sending, Refusal, Loop, Handle, HandleLoad, HandleDispose, HandleApplied,
         HandleUnwound, HandleService, Receive, ReadOn, Decline, Capture, Accept, Activate,
         StartLoad, SettleBegin, SettleEnd, SettleStop, Visit, Finish, ExitTest, vars
<1>5. CASE Handle
  BY <1>5 DEF Handle, HandleLoad, HandleDispose, HandleApplied, HandleUnwound, HandleService,
              ToSettle, Consult, Receive, Visits
<1>6. CASE DepsStep /\ stopping
  <2>1. /\ pc \in {"deps", "capture"} /\ pc' \in {"deps", "capture", "visit", "settle"}
        /\ pc' = "visit" \/ why' \in {"pending", "active"} => why \in {"pending", "active"}
        /\ pc' = "visit" => why' = "idle"
    BY <1>6 DEF DepsStep, ReadOn, Decline, Capture, Accept, Activate, StartLoad, Decided
  <2>2. pc' = "visit" \/ why' \in {"pending", "active"} => UnderWay /\ ~exited
    BY <1>6, <2>1 DEF Withdrawing, Closed
  <2>3. pc' = "settle" => why' = "idle"
    BY <1>6 DEF DepsStep, ReadOn, Decline, Capture, Accept, Activate, StartLoad, Decided
  <2>. QED BY <2>1, <2>2, <2>3, UnderWayStays
<1>7. CASE SettleStep /\ stopping
  <2>1. why = "idle" /\ ~exited
    BY <1>7 DEF SettleStep, SettleBegin, SettleEnd, SettleStop, Visit, Finish, ExitTest, Visits,
                Closed
  <2>2. CASE SettleEnd \/ \E f \in Fibers : Visit(f)
    <3>1. UnderWay /\ why' \notin {"applied", "unwound"}
      BY <1>7, <2>1, <2>2 DEF SettleEnd, Visit, Consult, Withdrawing, Visits
    <3>2. pc' # "settle" => UnderWay'
      BY <2>1, <3>1, UnderWayStays
    <3>3. pc' = "settle" => why' = "idle"
      BY <2>1, <2>2 DEF SettleEnd, Visit, Consult
    <3>. QED BY <3>2, <3>3
  <2>3. CASE SettleStop
    <3>1. pc' = "finish" /\ why' = "idle"
      BY <2>1, <2>3 DEF SettleStop
    <3>. QED BY <2>3, <3>1, StopPass
  <2>4. CASE Finish
    <3>1. pc' = "exit" /\ why' = "idle" /\ registry' = registry /\ (UnderWay \/ registry = {})
      BY <1>7, <2>1, <2>4 DEF Finish, Withdrawing, fiberVars
    <3>. QED BY <2>1, <3>1, UnderWayStays
  <2>5. CASE ExitTest
    <3>1. pc' \in {"recv", "exited"} /\ why' = "idle" /\ (UnderWay \/ registry = {})
      BY <1>7, <2>1, <2>5 DEF ExitTest, Withdrawing
    <3>. QED BY <2>1, <2>5, <3>1, UnderWayStays, LastExitTest
  <2>. QED BY <1>7, <2>2, <2>3, <2>4, <2>5 DEF SettleStep, SettleBegin
<1>8. CASE stopping /\ UNCHANGED <<loopVars, registry>>
  <2>1. UNCHANGED <<pc, why, registry>>
    BY <1>8 DEF loopVars
  <2>2. UnderWay => UnderWay' \/ pc = "settle" \/ why \in {"applied", "unwound"} \/ pc = "exited"
    BY <2>1, UnderWayStays DEF Closed
  <2>3. pc \in {"settle", "exited"} => why = "idle"
    BY DEF Visits
  <2>4. why \in {"applied", "unwound"} => pc \in {"deps", "capture"}
    BY DEF Visits, TypeOK, LoopTypeOK
  <2>. QED BY <1>8, <2>1, <2>2, <2>3, <2>4 DEF Withdrawing
<1>9. CASE UNCHANGED vars
  BY <1>8, <1>9 DEF vars, loopVars, fiberVars
<1>. QED BY <1>3, <1>4, <1>5, <1>6, <1>7, <1>8, <1>9, Steps, OutsideLoop

LEMMA DeliveryInit == Init => Delivery
<1>. SUFFICES ASSUME Init PROVE Delivery
  OBVIOUS
<1>. USE Owned, Callers DEF Init, MailboxInit, ServicesInit, ContextsInit
<1>1. Delivered
  BY DEF Delivered, Sound
<1>2. Unfailing
  <2>1. \A f \in Fibers : ~Erred(f)
    BY CmdFacts DEF Erred, Failure
  <2>. QED BY <2>1 DEF Unfailing
<1>3. Withdrawing
  BY DEF Withdrawing
<1>. QED BY <1>1, <1>2, <1>3 DEF Delivery

LEMMA DeliveryStep ==
    ASSUME Inductive, Accounting, Delivery, [Next]_vars PROVE Delivery'
BY DeliveredStep, UnfailingStep, WithdrawingStep DEF Delivery, Accounting

\* What Apply has provided stays until it is unloaded, components that cannot fail one
\* another never fail, and shutdown always has work under way or nothing left to do, for
\* any number of fibers and clients, any component shapes and any channel capacity.
THEOREM DeliveryHolds == Spec => []Delivery
<1>1. Inductive /\ Accounting /\ Delivery /\ [Next]_vars => Delivery'
  BY DeliveryStep
<1>. QED BY <1>1, DeliveryInit, InvariantHolds, AccountingHolds, PTL DEF Spec

LEMMA ServingFollows == Inductive /\ Delivery => ActiveDelivers
<1>. SUFFICES ASSUME Inductive, Delivery, NEW f \in Fibers \ Manual, state[f] = "active",
                     NEW k \in Offers[f]
              PROVE \E e \in EntriesOf(f) : e.key = k
  BY DEF ActiveDelivers
<1>1. toProvide[f] = {}
  BY DEF Inductive, Tokens, Delivery, Delivered
<1>. QED BY <1>1 DEF Delivery, Delivered, Sound, EntriesOf

\* Whoever depends on an active fiber finds what it offers: the fiber has provided every
\* key of its component, and nobody can have taken an entry away, whatever went on
\* between the Provide, the report of Apply and the decision of the loop.
THEOREM ActiveFibersDeliver == Spec => []ActiveDelivers
<1>. QED BY InvariantHolds, DeliveryHolds, ServingFollows, PTL

LEMMA StrandedNot == Delivery => NeverStranded
BY DEF Delivery, Withdrawing, NeverStranded, Quiet, UnderWay

\* Close never waits for a loop that nobody will wake: from the call until the loop has
\* exited, a command, a goroutine or a step of the loop is under way, because the last
\* command or report to be handled leads to an exit test that succeeds.
THEOREM ShutdownNeverStrands == Spec => []NeverStranded
<1>. QED BY DeliveryHolds, StrandedNot, PTL
-----------------------------------------------------------------------------
(* The outcome. *)

\* A set of numbers that has a member has a least one.
LEMMA LeastOf == ASSUME NEW S \in SUBSET Nat, S # {} PROVE \E n \in S : \A m \in S : n <= m
<1>. DEFINE Below == {p \in Nat \X Nat : p[1] < p[2]}
<1>1. Below = OpToRel(<, Nat)
  BY DEF OpToRel
<1>2. IsWellFoundedOn(Below, Nat)
  BY <1>1, NatLessThanWellFounded, Zenon
<1>. HIDE DEF Below
<1>3. PICK n \in S : \A m \in S : <<m, n>> \notin Below
  BY <1>2, WFMin
<1>4. \A m \in S : ~(m < n)
  BY <1>3 DEF Below
<1>. QED BY <1>4

\* A fiber sees a generation of a key exactly when somebody else provides it.
LEMMA ShownFrom ==
    ASSUME Inductive, Ascending, NEW k, NEW f
    PROVE External(k, f) # 0 <=> \E e \in provides : e.key = k /\ e.owner # f
<1>. USE DEF Inductive
<1>. DEFINE S == {e \in provides : e.key = k /\ e.owner # f}
<1>1. seq \in Nat /\ \A e \in provides : e.seq \in Nat /\ e.seq # 0 /\ e.seq <= seq
  BY DEF TypeOK, ContextsTypeOK, Entry, Owed, Listed, ApplyInverse, Ascending
<1>2. External(k, f) = IF Newest(S) = {} THEN 0 ELSE (CHOOSE e \in Newest(S) : TRUE).seq
  BY DEF External, Generation
<1>3. Newest(S) \subseteq S
  BY DEF Newest
<1>4. ASSUME S # {} PROVE Newest(S) # {}
  <2>. DEFINE T == {seq - e.seq : e \in S}
  <2>1. T \in SUBSET Nat /\ T # {}
    BY <1>1, <1>4
  <2>. HIDE DEF T
  <2>2. PICK n \in T : \A m \in T : n <= m
    BY <2>1, LeastOf
  <2>. USE DEF T
  <2>3. PICK d \in S : n = seq - d.seq
    BY <2>2
  <2>4. \A e \in S : e.seq <= d.seq
    <3>1. ASSUME NEW e \in S PROVE e.seq <= d.seq
      <4>1. seq - d.seq <= seq - e.seq
        BY <2>2, <2>3
      <4>. QED BY <1>1, <4>1
    <3>. QED BY <3>1
  <2>. QED BY <2>3, <2>4 DEF Newest
<1>5. ASSUME Newest(S) # {} PROVE External(k, f) # 0
  <2>1. (CHOOSE e \in Newest(S) : TRUE) \in S
    BY <1>3, <1>5
  <2>. QED BY <1>1, <1>2, <1>5, <2>1
<1>6. External(k, f) # 0 <=> S # {}
  BY <1>2, <1>3, <1>4, <1>5
<1>. HIDE DEF S
<1>7. S # {} <=> \E e \in provides : e.key = k /\ e.owner # f
  BY DEF S
<1>. QED BY <1>6, <1>7

Serving == {f \in Fibers : state[f] = "active"}

\* At rest the dependencies of a fiber are there exactly if the root or the other active
\* fibers provide them.
LEMMA RestingServices ==
    ASSUME Inductive, Accounting, Delivery, Orderly, Quiet, ~stopping, NEW f \in Fibers
    PROVE Satisfied(f) <=> Supports(Serving, f)
<1>. USE DEF Accounting
<1>1. HeldOnlyWhileLive /\ QuietMeansSettled /\ ActiveDelivers
  BY HeldFollows, SettledFollows, ServingFollows
<1>2. ASSUME NEW k \in Inject[f], NEW e \in provides, e.key = k, e.owner # f
      PROVE \/ \E d \in provides : d.key = k /\ d.owner = Root
            \/ \E g \in Serving \ {f} : k \in Offers[g]
  <2>1. CASE e.owner = Root
    BY <1>2, <2>1
  <2>2. CASE e.owner # Root
    <3>1. e.owner \in Fibers
      BY <2>2 DEF Inductive, TypeOK, ContextsTypeOK, Entry, Owners
    <3>2. state[e.owner] \in {"loading", "active", "unloading"}
      BY <1>1, <3>1 DEF HeldOnlyWhileLive, Holds, EntriesOf, Opening, Quiet
    <3>3. e.owner \in Serving
      BY <1>1, <3>1, <3>2 DEF QuietMeansSettled, Serving
    <3>4. k \in Offers[e.owner]
      BY <1>2, <3>1 DEF Delivery, Unfailing, Orderly, Placid
    <3>. QED BY <1>2, <3>3, <3>4
  <2>. QED BY <2>1, <2>2
<1>3. ASSUME NEW k \in Inject[f],
             \/ \E d \in provides : d.key = k /\ d.owner = Root
             \/ \E g \in Serving \ {f} : k \in Offers[g]
      PROVE \E e \in provides : e.key = k /\ e.owner # f
  <2>1. CASE \E d \in provides : d.key = k /\ d.owner = Root
    BY <2>1, Owned
  <2>2. ASSUME NEW g \in Serving \ {f}, k \in Offers[g]
        PROVE \E e \in provides : e.key = k /\ e.owner # f
    <3>1. g \in Fibers \ Manual /\ state[g] = "active"
      BY Owned DEF Orderly, Serving
    <3>2. PICK e \in EntriesOf(g) : e.key = k
      BY <1>1, <2>2, <3>1 DEF ActiveDelivers
    <3>. QED BY <3>2 DEF EntriesOf
  <2>. QED BY <1>3, <2>1, <2>2
<1>. QED BY <1>2, <1>3, ShownFrom DEF Satisfied, Supports

LEMMA RestingFibers ==
    ASSUME Inductive, Accounting, Delivery, Orderly, Quiet, ~stopping
    PROVE /\ Serving \subseteq Supportable
          /\ \A f \in Supportable : f \in Serving <=> Supports(Serving, f)
<1>1. Serving \subseteq Supportable
  BY DEF Serving, Supportable
<1>2. ASSUME NEW f \in Supportable PROVE f \in Serving <=> Supports(Serving, f)
  <2>1. f \in Fibers /\ state[f] \in {"pending", "active"}
    BY SettledFollows DEF QuietMeansSettled, Supportable, Delivery, Unfailing, Orderly
  <2>2. state[f] = "active" <=> Satisfied(f)
    BY <2>1, SettledFollows DEF QuietMeansSettled, Satisfied
  <2>. QED BY <2>1, <2>2, RestingServices DEF Serving
<1>. QED BY <1>1, <1>2

LEMMA ConfluenceFollows ==
    ASSUME Inductive, Accounting, Delivery, Orderly PROVE ConfluentEnd
<1>. SUFFICES ASSUME Quiet, ~stopping PROVE Serving = Supported
  BY DEF ConfluentEnd, Serving
<1>1. /\ Serving \in SUBSET Supportable
      /\ \A f \in Supportable : f \in Serving <=> Supports(Serving, f)
  BY RestingFibers
<1>2. Supported \subseteq Serving
  BY <1>1 DEF Supported
<1>3. ASSUME NEW S \in SUBSET Supportable, \A g \in Supportable : Supports(S, g) => g \in S
      PROVE Serving \subseteq S
  <2>. SUFFICES ASSUME Serving \ S # {} PROVE FALSE
    OBVIOUS
  <2>1. PICK rank \in [Fibers -> 0 .. Cardinality(Fibers)] :
            \A f, g \in Fibers : f # g /\ Inject[f] \cap Offers[g] # {} => rank[g] < rank[f]
    BY DEF Orderly
  <2>2. Serving \subseteq Fibers /\ \A f \in Fibers : rank[f] \in Nat
    BY <2>1 DEF Serving
  <2>. DEFINE R == {rank[f] : f \in Serving \ S}
  <2>3. R \in SUBSET Nat /\ R # {}
    BY <2>2
  <2>. HIDE DEF R
  <2>4. PICK n \in R : \A m \in R : n <= m
    BY <2>3, LeastOf
  <2>5. PICK f \in Serving \ S : n = rank[f]
    BY <2>4 DEF R
  <2>6. ASSUME NEW k \in Inject[f], NEW g \in Serving \ {f}, k \in Offers[g] PROVE g \in S
    <3>1. rank[g] < rank[f]
      BY <2>1, <2>2, <2>6
    <3>2. g \notin S => rank[g] \in R
      BY DEF R
    <3>. QED BY <2>2, <2>4, <2>5, <3>1, <3>2
  <2>7. Supports(Serving, f)
    BY <1>1
  <2>8. Supports(S, f)
    BY <2>6, <2>7 DEF Supports
  <2>. QED BY <1>1, <1>3, <2>8
<1>. QED BY <1>1, <1>2, <1>3 DEF Supported

\* Confluence.  For components that cannot fail one another and whose dependencies make no
\* circle, the fibers that are active once nothing is under way are those the loaded
\* components and the services of the root support, whatever the schedule was: the visits
\* of the loop, the Applies and the unwindings may have come in any order.
THEOREM OutcomeIsDetermined == ASSUME Orderly PROVE Spec => []ConfluentEnd
<1>1. Inductive /\ Accounting /\ Delivery => ConfluentEnd
  BY ConfluenceFollows
<1>. QED BY <1>1, InvariantHolds, AccountingHolds, DeliveryHolds, PTL
=============================================================================
