-------------------------- MODULE InvariantProofs --------------------------
(***************************************************************************)
(* The inductive invariant of the orchestrator is preserved by every step, *)
(* and the safety properties follow from it.                               *)
(***************************************************************************)
EXTENDS OrchestratorInvariant, OrchestratorProofs

-----------------------------------------------------------------------------
(* Commands and the channel. *)

LEMMA CmdFacts ==
    /\ NoCmd.type = "none" /\ ServiceCmd.type = "service"
    /\ \A f : LoadCmd(f).type = "load" /\ LoadCmd(f).fiber = f
    /\ \A f : DisposeCmd(f).type = "dispose" /\ DisposeCmd(f).fiber = f
    /\ \A f : UnwoundCmd(f).type = "unwound" /\ UnwoundCmd(f).fiber = f
    /\ \A f \in Fibers, inv \in BOOLEAN, err \in BOOLEAN :
           /\ AppliedCmd(f, inv, err).type = "applied" /\ AppliedCmd(f, inv, err).fiber = f
           /\ AppliedCmd(f, inv, err).inv = inv
BY DEF NoCmd, ServiceCmd, LoadCmd, DisposeCmd, UnwoundCmd, AppliedCmd

\* A command that loads or disposes of f is the one its type and fiber say.
LEMMA CmdNames ==
    ASSUME NEW c \in Cmd
    PROVE /\ c.type = "load" => c = LoadCmd(c.fiber)
          /\ c.type = "dispose" => c = DisposeCmd(c.fiber)
BY DEF Cmd, LoadCmd, DisposeCmd, ServiceCmd

\* What a command is does not depend on the moment it is looked at.
LEMMA EnqueueFacts ==
    ASSUME TypeOK, NEW p \in Procs, Enqueue(p)
    PROVE /\ outgoing[p] \in Cmd
          /\ DOMAIN inbox' = 1 .. Len(inbox) + 1 /\ DOMAIN inbox = 1 .. Len(inbox)
          /\ Len(inbox) \in Nat
          /\ \A i \in DOMAIN inbox : i \in DOMAIN inbox' /\ inbox'[i] = inbox[i]
          /\ inbox'[Len(inbox) + 1] = outgoing[p]
          /\ \A i \in DOMAIN inbox' : i \in DOMAIN inbox \/ i = Len(inbox) + 1
          /\ outgoing' = [outgoing EXCEPT ![p] = NoCmd]
<1>. USE DEF TypeOK, MailTypeOK
<1>1. outgoing[p] \in Cmd
  BY DEF Enqueue, Idle
<1>2. inbox' = Append(inbox, outgoing[p]) /\ inbox \in Seq(Cmd)
  BY DEF Enqueue
<1>. QED BY <1>1, <1>2 DEF Enqueue

LEMMA ReceiveFacts ==
    ASSUME TypeOK, NEW type, Receive(type)
    PROVE /\ 1 \in DOMAIN inbox /\ Head(inbox) = inbox[1] /\ inbox[1] \in Cmd
          /\ inbox[1].type = type /\ Subject = inbox[1].fiber
          /\ \A i \in DOMAIN inbox' : i + 1 \in DOMAIN inbox /\ inbox'[i] = inbox[i + 1]
          /\ \A i \in DOMAIN inbox : i # 1 => i - 1 \in DOMAIN inbox' /\ inbox'[i - 1] = inbox[i]
          /\ DOMAIN inbox \subseteq Nat /\ DOMAIN inbox' \subseteq Nat \ {0}
<1>. USE DEF TypeOK, MailTypeOK
<1>1. inbox \in Seq(Cmd) /\ inbox # <<>> /\ inbox' = Tail(inbox) /\ Head(inbox).type = type
  BY DEF Receive
<1>. QED BY <1>1 DEF Subject
-----------------------------------------------------------------------------
(* Goroutines and reports. *)

\* A fiber that is in no transition has no goroutine and no report.
LEMMA NoToken ==
    ASSUME Tokens, NEW f \in Fibers, state[f] \notin {"loading", "unloading"}
    PROVE /\ job[f] = "idle"
          /\ \A p \in Procs : ~IsReport(outgoing[p], f)
          /\ \A i \in DOMAIN inbox : ~IsReport(inbox[i], f)
BY DEF Tokens, Phase

LEMMA TokensClient ==
    ASSUME Inductive, NEW u \in Users, Client(u) PROVE Tokens'
<1>. USE Owned, Callers, CmdFacts DEF Inductive
<1>. DEFINE Sends(c) == /\ outgoing' = [outgoing EXCEPT ![u] = c]
                       /\ \A f \in Fibers : ~IsReport(c, f)
<1>1. PICK c \in Cmd \cup {NoCmd} : Sends(c)
  <2>1. ASSUME NEW f \in Fibers, Load(u, f) PROVE \E c \in Cmd \cup {NoCmd} : Sends(c)
    <3>1. CASE outgoing' = [outgoing EXCEPT ![u] = LoadCmd(f)]
      BY <3>1, CmdTypes DEF IsReport
    <3>2. CASE UNCHANGED outgoing
      BY <2>1, <3>2 DEF Load, Idle, IsReport, TypeOK, MailTypeOK
    <3>. QED BY <2>1, <3>1, <3>2 DEF Load, Submit
  <2>2. ASSUME NEW f \in Fibers, Dispose(u, f) PROVE \E c \in Cmd \cup {NoCmd} : Sends(c)
    BY <2>2, CmdTypes DEF Dispose, Submit, IsReport
  <2>3. ASSUME NEW o \in Owners, NEW k \in Keys, ProvideOn(u, o, k) PROVE \E c \in Cmd \cup {NoCmd} : Sends(c)
    BY <2>3, CmdTypes DEF ProvideOn, Submit, IsReport
  <2>4. ASSUME NEW e \in provides, Withdraw(u, e) PROVE \E c \in Cmd \cup {NoCmd} : Sends(c)
    BY <2>4, CmdTypes DEF Withdraw, Submit, IsReport
  <2>. QED BY <2>1, <2>2, <2>3, <2>4 DEF Client
<1>2. UNCHANGED <<job, inbox, why, cur>>
  BY DEF Client, Load, Dispose, ProvideOn, Withdraw, workVars, loopVars
<1>3. \A f \in Fibers : state[f] \in {"loading", "unloading"} => state'[f] = state[f]
  BY DEF Client, Load, Dispose, ProvideOn, Withdraw, fiberVars, TypeOK, FibersTypeOK
<1>4. \A p \in Procs, f \in Fibers : IsReport(outgoing'[p], f) => outgoing'[p] = outgoing[p]
  BY <1>1 DEF TypeOK, MailTypeOK
<1>5. u \notin Fibers
  BY OrchestratorAssumption DEF Owners
<1>6. \A f \in Fibers : outgoing'[f] = outgoing[f]
  BY <1>1, <1>5 DEF TypeOK, MailTypeOK
<1>7. why \in {"applied", "unwound"} => cur \in Fibers
  BY DEF TypeOK, LoopTypeOK, Visits
<1>. QED BY <1>2, <1>3, <1>4, <1>6, <1>7 DEF Tokens, Phase

LEMMA TokensSend ==
    ASSUME Inductive, NEW p \in Procs, Sending(p) \/ Refusal(p) PROVE Tokens'
<1>. USE Owned, Callers, CmdFacts DEF Inductive
<1>1. UNCHANGED <<job, why, cur>>
  BY DEF Sending, Refusal, workVars, loopVars
<1>2. why \in {"applied", "unwound"} => cur \in Fibers
  BY DEF TypeOK, LoopTypeOK, Visits
<1>3. ASSUME Enqueue(p), UNCHANGED state PROVE Tokens'
  <2>1. \A q \in Procs, f \in Fibers :
            IsReport(outgoing'[q], f) => outgoing'[q] = outgoing[q] /\ q # p
    BY <1>3, EnqueueFacts DEF IsReport, TypeOK, MailTypeOK
  <2>2. \A f \in Fibers, i \in DOMAIN inbox' : IsReport(inbox'[i], f) =>
            \/ i \in DOMAIN inbox /\ inbox'[i] = inbox[i]
            \/ i = Len(inbox) + 1 /\ inbox'[i] = outgoing[p] /\ p = f
    BY <1>3, EnqueueFacts DEF Tokens
  <2>. QED BY <1>1, <1>2, <1>3, <2>1, <2>2, EnqueueFacts DEF Tokens, Phase
<1>4. ASSUME Block(p), UNCHANGED state PROVE Tokens'
  BY <1>1, <1>4 DEF Block, Tokens, Phase
<1>5. ASSUME Refusal(p) PROVE Tokens'
  <2>1. \A q \in Procs, f \in Fibers :
            IsReport(outgoing'[q], f) => outgoing'[q] = outgoing[q]
    BY <1>5 DEF Refusal, Reject, IsReport, TypeOK, MailTypeOK
  <2>2. \A f \in Fibers : state[f] \in {"loading", "unloading"} => state'[f] = state[f]
    BY <1>5 DEF Refusal, Enrolled
  <2>3. inbox' = inbox
    BY <1>5 DEF Refusal, Reject
  <2>. QED BY <1>1, <1>2, <2>1, <2>2, <2>3 DEF Tokens, Phase
<1>. QED BY <1>3, <1>4, <1>5 DEF Sending, fiberVars

\* The goroutine of f goes on without a report, or ends with the one that suits it.
LEMMA TokensWorker ==
    ASSUME Inductive, NEW f \in Fibers, Worker(f) PROVE Tokens'
<1>. USE Owned, Callers, CmdFacts DEF Inductive
<1>1. UNCHANGED <<state, inbox, why, cur>>
  BY DEF Worker, ApplyRead, ApplyProvide, ApplyReturn, ApplyFail, UnwindBegin, UnwindStep,
         UnwindEnd, fiberVars, loopVars, mailVars
<1>2. why \in {"applied", "unwound"} => cur \in Fibers
  BY DEF TypeOK, LoopTypeOK, Visits
<1>3. job \in [Owners -> Jobs] /\ outgoing \in [Procs -> Cmd \cup {NoCmd}]
  BY DEF TypeOK, MailTypeOK, WorkTypeOK
<1>4. ASSUME NEW c, c.type \notin {"applied", "unwound"}, job[f] \in {"apply", "unload", "unwind"},
             \/ UNCHANGED outgoing
             \/ outgoing' = [outgoing EXCEPT ![f] = c],
             \/ UNCHANGED job
             \/ job[f] = "unload" /\ job' = [job EXCEPT ![f] = "unwind"]
      PROVE Tokens'
  <2>1. \A p \in Procs, g \in Fibers :
            IsReport(outgoing'[p], g) => outgoing'[p] = outgoing[p]
    BY <1>3, <1>4 DEF IsReport
  <2>2. \A g \in Fibers :
            /\ job'[g] = job[g] \/ (job[g] = "unload" /\ job'[g] = "unwind")
            /\ job[g] = "idle" => job'[g] = "idle"
    BY <1>3, <1>4
  <2>. QED BY <1>1, <1>2, <2>1, <2>2 DEF Tokens, Phase
<1>5. ASSUME NEW c, IsReport(c, f), Report(f, c), job[f] # "idle", state[f] = Phase(c.type)
      PROVE Tokens'
  <2>1. job' = [job EXCEPT ![f] = "idle"] /\ outgoing' = [outgoing EXCEPT ![f] = c]
    BY <1>5 DEF Report, Submit
  <2>2. \A p \in Procs, g \in Fibers :
            IsReport(outgoing'[p], g) => \/ outgoing'[p] = outgoing[p] /\ g # f
                                         \/ p = f /\ g = f /\ outgoing'[p] = c
    BY <1>3, <1>5, <2>1 DEF Tokens, IsReport
  <2>3. \A i \in DOMAIN inbox, g \in Fibers : IsReport(inbox[i], g) => g # f
    BY <1>5 DEF Tokens
  <2>4. why \in {"applied", "unwound"} => cur # f
    BY <1>5 DEF Tokens
  <2>5. \A g \in Fibers : job'[g] = IF g = f THEN "idle" ELSE job[g]
    BY <1>3, <2>1
  <2>6. \A g \in Fibers : g # f => outgoing'[g] = outgoing[g]
    BY <1>3, <2>1
  <2>. QED BY <1>1, <1>2, <1>5, <2>2, <2>3, <2>4, <2>5, <2>6 DEF Tokens, Phase
<1>6. ASSUME NEW k \in Keys, ApplyRead(f, k) \/ ApplyProvide(f, k) PROVE Tokens'
  BY <1>4, <1>6 DEF ApplyRead, ApplyProvide, Submit, mailVars
<1>7. ASSUME ApplyReturn(f) PROVE Tokens'
  <2>1. state[f] = "loading"
    BY <1>7 DEF ApplyReturn, Tokens
  <2>. DEFINE c == AppliedCmd(f, TRUE, FALSE)
  <2>2. c.type = "applied" /\ c.fiber = f
    BY DEF AppliedCmd
  <2>3. Report(f, c) /\ job[f] # "idle"
    BY <1>7 DEF ApplyReturn
  <2>. HIDE DEF c
  <2>4. IsReport(c, f) /\ state[f] = Phase(c.type)
    BY <2>1, <2>2 DEF IsReport, Phase
  <2>. QED BY <1>5, <2>3, <2>4
<1>8. ASSUME NEW inv \in BOOLEAN, ApplyFail(f, inv) PROVE Tokens'
  <2>1. state[f] = "loading"
    BY <1>8 DEF ApplyFail, Tokens
  <2>. DEFINE c == AppliedCmd(f, inv, TRUE)
  <2>2. c.type = "applied" /\ c.fiber = f
    BY DEF AppliedCmd
  <2>3. Report(f, c) /\ job[f] # "idle"
    BY <1>8 DEF ApplyFail
  <2>. HIDE DEF c
  <2>4. IsReport(c, f) /\ state[f] = Phase(c.type)
    BY <2>1, <2>2 DEF IsReport, Phase
  <2>. QED BY <1>5, <2>3, <2>4
<1>9. ASSUME UnwindBegin(f) PROVE Tokens'
  BY <1>4, <1>9 DEF UnwindBegin, mailVars
<1>10. ASSUME UnwindStep(f) PROVE Tokens'
  BY <1>4, <1>10 DEF UnwindStep, Submit, workVars
<1>11. ASSUME UnwindEnd(f) PROVE Tokens'
  <2>1. state[f] = "unloading"
    BY <1>11 DEF UnwindEnd, Tokens
  <2>. QED BY <1>5, <1>11, <2>1 DEF UnwindEnd, IsReport, Phase
<1>. QED BY <1>6, <1>7, <1>8, <1>9, <1>10, <1>11 DEF Worker

LEMMA TokensCloser == ASSUME Inductive, Closer PROVE Tokens'
<1>. USE Owned, Callers, CmdFacts DEF Inductive
<1>1. UNCHANGED <<state, inbox, why, cur>>
  BY DEF Closer, CloseBegin, CloseRewind, UnwindStep, CloseEnd, fiberVars, loopVars, mailVars
<1>2. why \in {"applied", "unwound"} => cur \in Fibers
  BY DEF TypeOK, LoopTypeOK, Visits
<1>3. \A f \in Fibers : job'[f] = job[f]
  BY DEF Closer, CloseBegin, CloseRewind, UnwindStep, CloseEnd, workVars, TypeOK, WorkTypeOK
<1>4. \A p \in Procs, f \in Fibers : IsReport(outgoing'[p], f) => outgoing'[p] = outgoing[p]
  BY DEF Closer, CloseBegin, CloseRewind, UnwindStep, CloseEnd, mailVars, Submit, IsReport,
         TypeOK, MailTypeOK
<1>. QED BY <1>1, <1>2, <1>3, <1>4 DEF Tokens, Phase

\* StartUnload and the other changes of the loop, for fibers without a token.
LEMMA TokensLoop ==
    ASSUME Inductive, UNCHANGED outgoing,
           \A i \in DOMAIN inbox', f \in Fibers : IsReport(inbox'[i], f) =>
               /\ \E j \in DOMAIN inbox : inbox'[i] = inbox[j]
               /\ \A j \in DOMAIN inbox' : IsReport(inbox'[j], f) => i = j,
           \A f \in Fibers :
               \/ state'[f] = state[f] /\ job'[f] = job[f]
               \/ /\ job[f] = "idle"
                  /\ ~IsReport(outgoing[f], f)
                  /\ \A i \in DOMAIN inbox' : ~IsReport(inbox'[i], f)
                  /\ \/ job'[f] = "idle"
                     \/ job'[f] = "apply" /\ state'[f] = "loading"
                     \/ job'[f] = "unload" /\ state'[f] = "unloading",
           why' \in {"applied", "unwound"} =>
               /\ cur' \in Fibers
               /\ job'[cur'] = "idle"
               /\ state'[cur'] = Phase(why')
               /\ ~IsReport(outgoing[cur'], cur')
               /\ \A i \in DOMAIN inbox' : ~IsReport(inbox'[i], cur')
    PROVE Tokens'
<1>. USE Callers DEF Inductive
<1>1. \A f \in Fibers : /\ job'[f] \in {"idle", "apply", "unload", "unwind"}
                        /\ job'[f] = "apply" => state'[f] = "loading"
                        /\ job'[f] \in {"unload", "unwind"} => state'[f] = "unloading"
  BY DEF Tokens
<1>2. \A p \in Procs, f \in Fibers : IsReport(outgoing'[p], f) =>
           p = f /\ job'[f] = "idle" /\ state'[f] = Phase(outgoing'[p].type)
  BY DEF Tokens
<1>3. \A i \in DOMAIN inbox', f \in Fibers : IsReport(inbox'[i], f) =>
           /\ job'[f] = "idle"
           /\ state'[f] = Phase(inbox'[i].type)
           /\ ~IsReport(outgoing'[f], f)
  BY DEF Tokens
<1>. QED BY <1>1, <1>2, <1>3 DEF Tokens, Phase

LEMMA TokensHandle == ASSUME Inductive, Handle PROVE Tokens'
<1>. USE Owned, Callers DEF Inductive
<1>. DEFINE F == Subject
<1>1. ASSUME NEW type, Receive(type)
      PROVE /\ UNCHANGED outgoing
            /\ \A i \in DOMAIN inbox', f \in Fibers : IsReport(inbox'[i], f) =>
                   /\ \E j \in DOMAIN inbox : inbox'[i] = inbox[j]
                   /\ \A j \in DOMAIN inbox' : IsReport(inbox'[j], f) => i = j
            /\ type \in {"applied", "unwound"} =>
                   /\ F \in Fibers
                   /\ job[F] = "idle"
                   /\ state[F] = Phase(type)
                   /\ ~IsReport(outgoing[F], F)
                   /\ \A i \in DOMAIN inbox' : ~IsReport(inbox'[i], F)
            /\ type # "service" => F \in Fibers
            /\ why = "idle"
  <2>1. UNCHANGED outgoing /\ why = "idle"
    BY <1>1 DEF Receive, Visits
  <2>2. \A i \in DOMAIN inbox', f \in Fibers : IsReport(inbox'[i], f) =>
            \A j \in DOMAIN inbox' : IsReport(inbox'[j], f) => i = j
    <3>. SUFFICES ASSUME NEW i \in DOMAIN inbox', NEW f \in Fibers, IsReport(inbox'[i], f),
                         NEW j \in DOMAIN inbox', IsReport(inbox'[j], f)
                  PROVE i = j
      OBVIOUS
    <3>1. i + 1 = j + 1
      BY <1>1, ReceiveFacts DEF Tokens
    <3>2. i \in Nat /\ j \in Nat
      BY <1>1, ReceiveFacts
    <3>. QED BY <3>1, <3>2
  <2>3. \A i \in DOMAIN inbox' : \E j \in DOMAIN inbox : inbox'[i] = inbox[j]
    BY <1>1, ReceiveFacts
  <2>4. type # "service" => F \in Fibers
    BY <1>1, ReceiveFacts, SubjectType
  <2>5. ASSUME type \in {"applied", "unwound"}
        PROVE /\ job[F] = "idle"
              /\ state[F] = Phase(type)
              /\ ~IsReport(outgoing[F], F)
              /\ \A i \in DOMAIN inbox' : ~IsReport(inbox'[i], F)
    <3>1. 1 \in DOMAIN inbox /\ IsReport(inbox[1], F) /\ inbox[1].type = type /\ F \in Fibers
      BY <1>1, <2>4, <2>5, ReceiveFacts DEF IsReport
    <3>2. ASSUME NEW i \in DOMAIN inbox', IsReport(inbox'[i], F) PROVE FALSE
      <4>1. i + 1 = 1 /\ i \in Nat \ {0}
        BY <1>1, <3>1, <3>2, ReceiveFacts DEF Tokens
      <4>. QED BY <4>1
    <3>. QED BY <3>1, <3>2 DEF Tokens
  <2>. HIDE DEF F
  <2>. QED BY <2>1, <2>2, <2>3, <2>4, <2>5
<1>. HIDE DEF F
<1>2. state \in [Fibers -> States] /\ job \in [Owners -> Jobs]
  BY DEF TypeOK, FibersTypeOK, WorkTypeOK
<1>3. CASE HandleLoad
  BY <1>1, <1>3, TokensLoop DEF HandleLoad, ToSettle, workVars
<1>4. CASE HandleService
  BY <1>1, <1>4, TokensLoop DEF HandleService, ToSettle, workVars, fiberVars
<1>5. CASE HandleDispose
  <2>1. why' = "idle" /\ F \in Fibers
    BY <1>1, <1>5 DEF HandleDispose, ToSettle
  <2>2. CASE state[F] = "pending" /\ Remove(F, "gone")
    <3>1. job' = job /\ state' = [state EXCEPT ![F] = "gone"]
      BY <2>2 DEF Remove, workVars
    <3>2. /\ job[F] = "idle" /\ ~IsReport(outgoing[F], F)
          /\ \A i \in DOMAIN inbox' : ~IsReport(inbox'[i], F)
      BY <1>1, <1>5, <2>1, <2>2, NoToken DEF HandleDispose
    <3>. QED BY <1>1, <1>2, <1>5, <2>1, <3>1, <3>2, TokensLoop DEF HandleDispose
  <2>3. CASE state[F] = "active" /\ StartUnload({F})
    <3>1. /\ job[F] = "idle" /\ ~IsReport(outgoing[F], F)
          /\ \A i \in DOMAIN inbox' : ~IsReport(inbox'[i], F)
      BY <1>1, <1>5, <2>1, <2>3, NoToken DEF HandleDispose
    <3>2. \A f \in Fibers : IF f = F THEN job'[f] = "unload" /\ state'[f] = "unloading"
                                     ELSE job'[f] = job[f] /\ state'[f] = state[f]
      BY <1>2, <2>3 DEF StartUnload
    <3>. QED BY <1>1, <1>5, <2>1, <3>1, <3>2, TokensLoop DEF HandleDispose
  <2>4. CASE UNCHANGED <<state, workVars>>
    BY <1>1, <1>5, <2>1, <2>4, TokensLoop DEF HandleDispose, workVars
  <2>. QED BY <1>5, <2>2, <2>3, <2>4 DEF HandleDispose, F
<1>6. CASE HandleApplied \/ HandleUnwound
  <2>. PICK type \in {"applied", "unwound"} : Receive(type)
    BY <1>6 DEF HandleApplied, HandleUnwound
  <2>1. CASE StartUnload({F}) /\ why' = "idle"
    <3>1. \A f \in Fibers : IF f = F THEN job'[f] = "unload" /\ state'[f] = "unloading"
                                     ELSE job'[f] = job[f] /\ state'[f] = state[f]
      BY <1>2, <2>1 DEF StartUnload
    <3>. QED BY <1>1, <2>1, <3>1, TokensLoop
  <2>2. CASE \E t : Remove(F, t) /\ why' = "idle"
    <3>1. \A f \in Fibers : job'[f] = job[f] /\ (f # F => state'[f] = state[f])
      BY <1>2, <2>2 DEF Remove, workVars
    <3>. QED BY <1>1, <2>2, <3>1, TokensLoop
  <2>3. CASE UNCHANGED <<state, job>> /\ why' = type /\ cur' = F
    BY <1>1, <2>3, TokensLoop
  <2>. QED BY <1>1, <1>6, <2>1, <2>2, <2>3
           DEF HandleApplied, HandleUnwound, Receive, ToSettle, Consult, workVars, F
<1>. QED BY <1>3, <1>4, <1>5, <1>6 DEF Handle

\* The steps that read dependencies, and those of settle and the exit test.
DepsStep ==
    \/ \E k \in Keys : ReadOn(k) \/ Decline(k) \/ Capture(k)
    \/ Accept \/ Activate \/ StartLoad

SettleStep ==
    \/ SettleBegin \/ SettleEnd \/ SettleStop
    \/ \E f \in Fibers : Visit(f)
    \/ Finish \/ ExitTest

\* Reports in an unchanged channel are as Tokens says.
LEMMA SameInbox ==
    ASSUME Tokens, UNCHANGED inbox
    PROVE \A i \in DOMAIN inbox', f \in Fibers : IsReport(inbox'[i], f) =>
               /\ \E j \in DOMAIN inbox : inbox'[i] = inbox[j]
               /\ \A j \in DOMAIN inbox' : IsReport(inbox'[j], f) => i = j
BY DEF Tokens

LEMMA TokensDeps == ASSUME Inductive, DepsStep PROVE Tokens'
<1>. USE Owned, Callers DEF Inductive
<1>1. UNCHANGED <<outgoing, inbox>>
  BY DEF DepsStep, ReadOn, Decline, Capture, Accept, Activate, StartLoad, mailVars
<1>2. cur \in Fibers /\ why \in {"applied", "unwound", "pending", "active"}
  BY DEF DepsStep, ReadOn, Decline, Capture, Accept, Activate, StartLoad, TypeOK, LoopTypeOK, Visits
<1>3. /\ job[cur] = "idle" /\ ~IsReport(outgoing[cur], cur)
      /\ \A i \in DOMAIN inbox : ~IsReport(inbox[i], cur)
  BY <1>2, NoToken DEF Visits, Tokens
<1>4. state \in [Fibers -> States] /\ job \in [Owners -> Jobs]
  BY DEF TypeOK, FibersTypeOK, WorkTypeOK
<1>5. CASE /\ UNCHANGED <<state, job>>
           /\ UNCHANGED <<cur, why>> \/ why' = "idle"
  BY <1>1, <1>5, SameInbox, <1>2, TokensLoop DEF Tokens
<1>6. CASE /\ job' = job /\ state' = [state EXCEPT ![cur] = "pending"]
           /\ why' = "idle"
  BY <1>1, <1>3, <1>4, <1>6, SameInbox, TokensLoop
<1>7. CASE StartUnload({cur}) /\ why' = "idle"
  <2>1. \A f \in Fibers : IF f = cur THEN job'[f] = "unload" /\ state'[f] = "unloading"
                                     ELSE job'[f] = job[f] /\ state'[f] = state[f]
    BY <1>4, <1>7 DEF StartUnload
  <2>. QED BY <1>1, <1>3, <1>7, <2>1, SameInbox, TokensLoop
<1>8. CASE Activate
  BY <1>1, <1>3, <1>4, <1>8, SameInbox, TokensLoop DEF Activate, Decided, workVars
<1>9. CASE StartLoad
  BY <1>1, <1>2, <1>3, <1>4, <1>9, SameInbox, TokensLoop DEF StartLoad, Decided
<1>10. CASE \E k \in Keys : ReadOn(k) \/ Capture(k)
  BY <1>5, <1>10 DEF ReadOn, Capture, fiberVars, workVars
<1>11. CASE \E k \in Keys : Decline(k)
  BY <1>6, <1>7, <1>11 DEF Decline, Decided, workVars
<1>12. CASE Accept
  BY <1>5, <1>12 DEF Accept, Decided, fiberVars, workVars
<1>. QED BY <1>8, <1>9, <1>10, <1>11, <1>12 DEF DepsStep

LEMMA TokensSettle == ASSUME Inductive, SettleStep PROVE Tokens'
<1>. USE Owned, Callers DEF Inductive
<1>1. UNCHANGED <<outgoing, inbox>>
  BY DEF SettleStep, SettleBegin, SettleEnd, SettleStop, Visit, Finish, ExitTest, mailVars
<1>2. why = "idle"
  BY DEF SettleStep, SettleBegin, SettleEnd, SettleStop, Visit, Finish, ExitTest, Visits
<1>3. state \in [Fibers -> States] /\ job \in [Owners -> Jobs]
  BY DEF TypeOK, FibersTypeOK, WorkTypeOK
<1>4. CASE SettleBegin \/ SettleEnd \/ Finish \/ ExitTest
  BY <1>1, <1>2, <1>4, SameInbox, TokensLoop
     DEF SettleBegin, SettleEnd, Finish, ExitTest, fiberVars, workVars
<1>5. CASE \E f \in Fibers : Visit(f)
  <2>1. why' \in {"pending", "active"}
    BY <1>5 DEF Visit, Consult, Visits
  <2>. QED BY <1>1, <1>5, <2>1, SameInbox, TokensLoop DEF Visit, fiberVars, workVars
<1>6. CASE SettleStop
  <2>1. why' = "idle"
    BY <1>2, <1>6 DEF SettleStop
  <2>2. \A f \in Fibers :
            \/ state'[f] = state[f] /\ job'[f] = job[f]
            \/ state[f] = "pending" /\ state'[f] = "gone" /\ job'[f] = job[f]
            \/ state[f] = "active" /\ state'[f] = "unloading" /\ job'[f] = "unload"
    BY <1>3, <1>6 DEF SettleStop
  <2>. QED BY <1>1, <2>1, <2>2, SameInbox, NoToken, TokensLoop
<1>. QED BY <1>4, <1>5, <1>6 DEF SettleStep

\* A step is a client's, a goroutine's, Close's, a sender's or the loop's.
LEMMA Steps ==
    ASSUME Next
    PROVE \/ \E u \in Users : Client(u)
          \/ \E f \in Fibers : Worker(f)
          \/ Closer
          \/ \E p \in Procs : Sending(p) \/ Refusal(p)
          \/ Handle
          \/ DepsStep
          \/ SettleStep
BY DEF Next, Loop, DepsStep, SettleStep

LEMMA TokensStep == ASSUME Inductive, [Next]_vars PROVE Tokens'
<1>1. CASE UNCHANGED vars
  BY <1>1 DEF vars, mailVars, loopVars, fiberVars, workVars, Inductive, Tokens
<1>2. CASE Next
  BY <1>2, Steps, TokensClient, TokensWorker, TokensCloser, TokensSend, TokensHandle, TokensDeps,
     TokensSettle
<1>. QED BY <1>1, <1>2
-----------------------------------------------------------------------------
(* The loop. *)

\* Outside the loop only fibers that are not in the registry change state.
LEMMA OutsideLoop ==
    ASSUME Inductive,
           \/ \E u \in Users : Client(u)
           \/ \E f \in Fibers : Worker(f)
           \/ Closer
           \/ \E p \in Procs : Sending(p) \/ Refusal(p)
    PROVE /\ UNCHANGED <<loopVars, registry, disposeRequested, failed>>
          /\ \A f \in Fibers : state'[f] = state[f]
                               \/ (state[f] = "none" /\ state'[f] \in {"pending", "failed"})
                               \/ (\E p \in Procs : /\ outgoing[p] = LoadCmd(f) /\ exited
                                                    /\ outgoing'[p] = NoCmd /\ state'[f] = "failed")
          /\ \A f \in registry : state'[f] = state[f]
<1>. USE DEF Inductive
<1>1. state \in [Fibers -> States] /\ registry \subseteq Fibers
  BY DEF TypeOK, FibersTypeOK
<1>2. CASE \E u \in Users : Client(u)
  BY <1>1, <1>2 DEF Client, Load, Dispose, ProvideOn, Withdraw, fiberVars, Enrolled
<1>3. CASE \E f \in Fibers : Worker(f)
  BY <1>3 DEF Worker, ApplyRead, ApplyProvide, ApplyReturn, ApplyFail, UnwindBegin, UnwindStep,
              UnwindEnd, fiberVars
<1>4. CASE Closer
  BY <1>4 DEF Closer, CloseBegin, CloseRewind, UnwindStep, CloseEnd, fiberVars
<1>5. CASE \E p \in Procs : Sending(p)
  BY <1>5 DEF Sending, fiberVars
<1>6. CASE \E p \in Procs : Refusal(p)
  <2>. PICK p \in Procs : Refusal(p)
    BY <1>6
  <2>1. \A f \in Fibers : state'[f] = IF outgoing[p] = LoadCmd(f) THEN "failed" ELSE state[f]
    BY DEF Refusal
  <2>2. \A f \in Fibers : outgoing[p] = LoadCmd(f) => f \notin registry
    BY DEF Enrolled
  <2>3. outgoing'[p] = NoCmd /\ exited
    BY DEF Refusal, Reject, TypeOK, MailTypeOK
  <2>. QED BY <1>1, <2>1, <2>2, <2>3 DEF Refusal
<1>. QED BY <1>2, <1>3, <1>4, <1>5, <1>6

\* The subject of a report is in the registry and in transition.
LEMMA Reported ==
    ASSUME Inductive, NEW type \in {"applied", "unwound"}, Receive(type)
    PROVE /\ Subject \in Fibers /\ Subject \in registry
          /\ job[Subject] = "idle" /\ state[Subject] = Phase(type)
<1>1. 1 \in DOMAIN inbox /\ IsReport(inbox[1], Subject) /\ inbox[1].type = type
      /\ Subject \in Fibers
  BY ReceiveFacts, SubjectType DEF IsReport, Inductive
<1>2. job[Subject] = "idle" /\ state[Subject] = Phase(type)
  BY <1>1 DEF Inductive, Tokens
<1>. QED BY <1>1, <1>2 DEF Inductive, Enrolled, Phase

LEMMA VisitsStep == ASSUME Inductive, [Next]_vars PROVE Visits'
<1>. USE DEF Inductive
<1>1. state \in [Fibers -> States] /\ registry \subseteq Fibers
  BY DEF TypeOK, FibersTypeOK
<1>2. CASE UNCHANGED vars
  BY <1>2 DEF vars, loopVars, fiberVars, Visits
<1>3. CASE \/ \E u \in Users : Client(u)
           \/ \E f \in Fibers : Worker(f)
           \/ Closer
           \/ \E p \in Procs : Sending(p) \/ Refusal(p)
  BY <1>1, <1>3, OutsideLoop DEF loopVars, Visits
<1>4. CASE Handle
  <2>1. todo = {} /\ why = "idle" /\ todo' = {} /\ pc = "recv"
    BY <1>4 DEF Handle, HandleLoad, HandleDispose, HandleApplied, HandleUnwound, HandleService,
                Receive, Visits
  <2>2. CASE ToSettle
    BY <2>1, <2>2 DEF ToSettle, Visits
  <2>3. CASE \E type \in {"applied", "unwound"} :
                 Receive(type) /\ Consult(Subject, type) /\ UNCHANGED registry
    BY <2>1, <2>3, Reported DEF Consult, Visits
  <2>. QED BY <1>4, <2>2, <2>3
           DEF Handle, HandleLoad, HandleDispose, HandleApplied, HandleUnwound, HandleService
<1>5. CASE DepsStep
  <2>1. cur \in Fibers
    BY <1>5 DEF DepsStep, ReadOn, Decline, Capture, Accept, Activate, StartLoad, TypeOK, LoopTypeOK
  <2>2. registry' = registry /\ todo' = todo
    BY <1>5 DEF DepsStep, ReadOn, Decline, Capture, Accept, Activate, StartLoad, StartUnload,
                fiberVars
  <2>3. \A f \in Fibers : f # cur => state'[f] = state[f]
    BY <1>1, <1>5 DEF DepsStep, ReadOn, Decline, Capture, Accept, Activate, StartLoad,
                      StartUnload, fiberVars
  <2>4. CASE UNCHANGED <<pc, why, cur, state>>
    BY <2>2, <2>4 DEF Visits
  <2>5. CASE Decided
    <3>1. todo # {} => why \in {"pending", "active"} /\ pc' = "visit"
      BY <1>5, <2>5 DEF Decided, Visits, DepsStep, ReadOn, Decline, Capture, Accept, Activate,
                        StartLoad
    <3>2. why \in {"pending", "active"} => cur \notin todo
      BY DEF Visits
    <3>3. todo' \subseteq {f \in registry : state'[f] \in {"pending", "active"}}
      BY <1>1, <2>2, <2>3, <3>1, <3>2 DEF Visits
    <3>. QED BY <2>2, <2>5, <3>1, <3>3 DEF Decided, Visits
  <2>6. CASE Accept /\ why # "active"
    BY <2>2, <2>6 DEF Accept, Visits, fiberVars
  <2>. QED BY <1>5, <2>4, <2>5, <2>6
           DEF DepsStep, ReadOn, Decline, Capture, Accept, Activate, StartLoad, fiberVars
<1>6. CASE SettleStep
  <2>1. why = "idle" /\ pc \notin {"deps", "capture"}
    BY <1>6 DEF SettleStep, SettleBegin, SettleEnd, SettleStop, Visit, Finish, ExitTest, Visits
  <2>2. CASE SettleBegin
    BY <2>1, <2>2 DEF SettleBegin, Visits, fiberVars
  <2>3. CASE SettleEnd
    BY <2>1, <2>3 DEF SettleEnd, Visits, fiberVars
  <2>4. CASE SettleStop
    BY <2>1, <2>4 DEF SettleStop, Visits
  <2>5. CASE \E f \in Fibers : Visit(f)
    BY <2>1, <2>5 DEF Visit, Consult, Visits, fiberVars
  <2>6. CASE Finish \/ ExitTest
    BY <2>1, <2>6 DEF Finish, ExitTest, Visits, fiberVars
  <2>. QED BY <1>6, <2>2, <2>3, <2>4, <2>5, <2>6 DEF SettleStep
<1>. QED BY <1>2, <1>3, <1>4, <1>5, <1>6, Steps
-----------------------------------------------------------------------------
(* The registry. *)

\* The loop changes only fibers no Load is under way for.
LEMMA EnrolledLoop ==
    ASSUME Inductive, UNCHANGED outgoing,
           inbox' = inbox \/ (\E type : Receive(type)),
           \A f \in Fibers :
               \/ state'[f] = state[f] /\ (f \in registry' <=> f \in registry)
               \/ /\ state[f] # "none" /\ state'[f] # "none"
                  /\ state'[f] = "pending" => f \in registry'
                  /\ f \in registry' => state'[f] \in {"pending", "loading", "active", "unloading"}
                  /\ state'[f] \in {"loading", "active", "unloading"} => f \in registry'
                  /\ \A p \in Procs : outgoing[p] # LoadCmd(f)
                  /\ \A i \in DOMAIN inbox' : inbox'[i] # LoadCmd(f),
           \A f \in Fibers : state'[f] = "pending" /\ f \notin registry' /\ inbox' # inbox =>
               inbox[1] # LoadCmd(f)
    PROVE Enrolled' /\ Announced'
<1>. USE DEF Inductive
<1>1. \A i \in DOMAIN inbox' : \E n \in {0, 1} :
          i + n \in DOMAIN inbox /\ inbox'[i] = inbox[i + n]
  BY ReceiveFacts DEF TypeOK, MailTypeOK
<1>2. \A f \in Fibers, i, j \in DOMAIN inbox' :
          inbox'[i] = LoadCmd(f) /\ inbox'[j] = DisposeCmd(f) => i < j
  <2>1. CASE inbox' = inbox
    BY <2>1 DEF Enrolled
  <2>2. CASE \E type : Receive(type)
    <3>. SUFFICES ASSUME NEW f \in Fibers, NEW i \in DOMAIN inbox', NEW j \in DOMAIN inbox',
                         inbox'[i] = LoadCmd(f), inbox'[j] = DisposeCmd(f)
                  PROVE i < j
      OBVIOUS
    <3>1. i + 1 < j + 1
      BY <2>2, ReceiveFacts DEF Enrolled
    <3>2. i \in Nat /\ j \in Nat
      BY <2>2, ReceiveFacts
    <3>. QED BY <3>1, <3>2
  <2>. QED BY <2>1, <2>2
<1>3. \A f \in Fibers, i, j \in DOMAIN inbox' :
          inbox'[i] = LoadCmd(f) /\ inbox'[j] = LoadCmd(f) => i = j
  <2>1. CASE inbox' = inbox
    BY <2>1 DEF Enrolled
  <2>2. CASE \E type : Receive(type)
    <3>. SUFFICES ASSUME NEW f \in Fibers, NEW i \in DOMAIN inbox', NEW j \in DOMAIN inbox',
                         inbox'[i] = LoadCmd(f), inbox'[j] = LoadCmd(f)
                  PROVE i = j
      OBVIOUS
    <3>1. i + 1 = j + 1
      BY <2>2, ReceiveFacts DEF Enrolled
    <3>2. i \in Nat /\ j \in Nat
      BY <2>2, ReceiveFacts
    <3>. QED BY <3>1, <3>2
  <2>. QED BY <2>1, <2>2
<1>4. Enrolled'
  <2>1. \A f \in Fibers :
           /\ f \in registry' => state'[f] \in {"pending", "loading", "active", "unloading"}
           /\ state'[f] \in {"loading", "active", "unloading"} => f \in registry'
    BY DEF Enrolled
  <2>2. /\ \A p \in Procs, f \in Fibers :
               outgoing'[p] \in {LoadCmd(f), DisposeCmd(f)} => state'[f] # "none"
        /\ \A i \in DOMAIN inbox', f \in Fibers :
               inbox'[i] \in {LoadCmd(f), DisposeCmd(f)} => state'[f] # "none"
    BY <1>1 DEF Enrolled
  <2>3. \A p \in Procs, f \in Fibers : outgoing'[p] = LoadCmd(f) =>
           /\ state'[f] = "pending" /\ f \notin registry'
           /\ \A q \in Procs : outgoing'[q] # DisposeCmd(f)
           /\ \A q \in Procs : outgoing'[q] = LoadCmd(f) => q = p
           /\ \A i \in DOMAIN inbox' : inbox'[i] \notin {LoadCmd(f), DisposeCmd(f)}
    BY <1>1 DEF Enrolled
  <2>4. \A i \in DOMAIN inbox', f \in Fibers : inbox'[i] = LoadCmd(f) =>
           state'[f] = "pending" /\ f \notin registry'
    BY <1>1 DEF Enrolled
  <2>. QED BY <1>2, <1>3, <2>1, <2>2, <2>3, <2>4 DEF Enrolled
<1>5. Announced'
  <2>. SUFFICES ASSUME NEW f \in Fibers, state'[f] = "pending", f \notin registry'
                PROVE \/ \E p \in Procs : outgoing'[p] = LoadCmd(f)
                      \/ \E i \in DOMAIN inbox' : inbox'[i] = LoadCmd(f)
    BY DEF Announced
  <2>1. \/ \E p \in Procs : outgoing[p] = LoadCmd(f)
        \/ \E i \in DOMAIN inbox : inbox[i] = LoadCmd(f)
    BY DEF Announced
  <2>. QED BY <2>1, ReceiveFacts
<1>. QED BY <1>4, <1>5

LEMMA EnrolledHandle == ASSUME Inductive, Handle PROVE Enrolled' /\ Announced'
<1>. USE Owned, Callers, CmdFacts DEF Inductive
<1>. DEFINE F == Subject
<1>1. state \in [Fibers -> States] /\ registry \subseteq Fibers
  BY DEF TypeOK, FibersTypeOK
<1>2. ASSUME NEW type, Receive(type)
      PROVE /\ UNCHANGED outgoing
            /\ type # "service" => F \in Fibers
            /\ type = "load" => inbox[1] = LoadCmd(F)
            /\ type = "dispose" => inbox[1] = DisposeCmd(F)
            /\ type # "load" => \A f \in Fibers : inbox[1] # LoadCmd(f)
            /\ 1 \in DOMAIN inbox
            /\ \A i \in DOMAIN inbox' : i + 1 \in DOMAIN inbox /\ inbox'[i] = inbox[i + 1]
            /\ DOMAIN inbox' \subseteq Nat \ {0}
  BY <1>2, ReceiveFacts, SubjectType, CmdNames DEF Receive
<1>. HIDE DEF F
<1>3. CASE HandleLoad
  <2>1. inbox[1] = LoadCmd(F) /\ F \in Fibers
    BY <1>2, <1>3 DEF HandleLoad
  <2>2. state[F] = "pending" /\ \A p \in Procs : outgoing[p] # LoadCmd(F)
    BY <1>2, <1>3, <2>1 DEF HandleLoad, Enrolled
  <2>3. \A i \in DOMAIN inbox' : inbox'[i] # LoadCmd(F)
    <3>. SUFFICES ASSUME NEW i \in DOMAIN inbox', inbox'[i] = LoadCmd(F) PROVE FALSE
      OBVIOUS
    <3>1. 1 = i + 1
      BY <1>2, <1>3, <2>1 DEF HandleLoad, Enrolled
    <3>. QED BY <1>2, <1>3, <3>1 DEF HandleLoad
  <2>4. state' = state /\ registry' = registry \cup {F}
    BY <1>3 DEF HandleLoad, F
  <2>. QED BY <1>2, <1>3, <2>1, <2>2, <2>3, <2>4, EnrolledLoop DEF HandleLoad
<1>4. CASE HandleService
  BY <1>2, <1>4, EnrolledLoop DEF HandleService, fiberVars, Enrolled
<1>5. CASE HandleDispose
  <2>1. inbox[1] = DisposeCmd(F) /\ F \in Fibers
    BY <1>2, <1>5 DEF HandleDispose
  <2>2. \A p \in Procs : outgoing[p] # LoadCmd(F)
    BY <1>2, <1>5, <2>1 DEF HandleDispose, Enrolled
  <2>3. \A i \in DOMAIN inbox' : inbox'[i] # LoadCmd(F)
    <3>. SUFFICES ASSUME NEW i \in DOMAIN inbox', inbox'[i] = LoadCmd(F) PROVE FALSE
      OBVIOUS
    <3>1. i + 1 < 1
      BY <1>2, <1>5, <2>1 DEF HandleDispose, Enrolled
    <3>. QED BY <1>2, <1>5, <3>1 DEF HandleDispose
  <2>4. CASE state[F] = "pending" /\ Remove(F, "gone")
    BY <1>1, <1>2, <1>5, <2>1, <2>2, <2>3, <2>4, EnrolledLoop DEF HandleDispose, Remove
  <2>5. CASE state[F] = "active" /\ StartUnload({F})
    <3>1. F \in registry
      BY <2>1, <2>5 DEF Enrolled
    <3>. QED BY <1>1, <1>2, <1>5, <2>1, <2>2, <2>3, <2>5, <3>1, EnrolledLoop
             DEF HandleDispose, StartUnload
  <2>6. CASE UNCHANGED <<state, registry>>
    BY <1>2, <1>5, <2>6, EnrolledLoop DEF HandleDispose
  <2>. QED BY <1>5, <2>4, <2>5, <2>6 DEF HandleDispose, F
<1>6. CASE HandleApplied \/ HandleUnwound
  <2>. PICK type \in {"applied", "unwound"} : Receive(type)
    BY <1>6 DEF HandleApplied, HandleUnwound
  <2>1. F \in registry /\ state[F] \in {"loading", "unloading"}
    BY Reported DEF F, Phase
  <2>2. /\ \A p \in Procs : outgoing[p] # LoadCmd(F)
        /\ \A i \in DOMAIN inbox' : inbox'[i] # LoadCmd(F)
    BY <1>2, <2>1 DEF Enrolled
  <2>3. CASE StartUnload({F})
    BY <1>1, <1>2, <2>1, <2>2, <2>3, EnrolledLoop DEF StartUnload
  <2>4. CASE \E t \in {"failed", "gone"} : Remove(F, t)
    BY <1>1, <1>2, <2>1, <2>2, <2>4, EnrolledLoop DEF Remove
  <2>5. CASE UNCHANGED <<state, registry>>
    BY <1>2, <2>5, EnrolledLoop
  <2>. QED BY <1>6, <2>3, <2>4, <2>5 DEF HandleApplied, HandleUnwound, F
<1>. QED BY <1>3, <1>4, <1>5, <1>6 DEF Handle

\* A process begins to send c; f is a fiber that enters with it, if c loads one.
LEMMA EnrolledSubmit ==
    ASSUME Inductive, NEW p \in Procs, NEW c \in Cmd, Idle(p), Submit(p, c), UNCHANGED inbox,
           UNCHANGED registry,
           \/ /\ UNCHANGED state
              /\ \A f \in Fibers : c # LoadCmd(f)
              /\ \A f \in Fibers : c = DisposeCmd(f) => Returned(f)
           \/ \E f \in Fibers : /\ c = LoadCmd(f) /\ state[f] = "none"
                                /\ state' = [state EXCEPT ![f] = "pending"]
    PROVE Enrolled' /\ Announced'
<1>. USE CmdFacts DEF Inductive
<1>1. /\ state \in [Fibers -> States]
      /\ \A q \in Procs : outgoing'[q] = IF q = p THEN c ELSE outgoing[q]
      /\ outgoing[p] = NoCmd
  BY DEF TypeOK, FibersTypeOK, MailTypeOK, Submit, Idle
<1>2. CASE /\ UNCHANGED state
           /\ \A f \in Fibers : c # LoadCmd(f)
           /\ \A f \in Fibers : c = DisposeCmd(f) => Returned(f)
  <2>1. Enrolled'
    BY <1>1, <1>2 DEF Enrolled, Returned
  <2>2. \A q \in Procs, f \in Fibers : outgoing[q] = LoadCmd(f) => outgoing'[q] = LoadCmd(f)
    BY <1>1
  <2>. QED BY <1>2, <2>1, <2>2 DEF Announced
<1>3. ASSUME NEW f \in Fibers, c = LoadCmd(f), state[f] = "none",
             state' = [state EXCEPT ![f] = "pending"]
      PROVE Enrolled' /\ Announced'
  <2>1. \A g \in Fibers : g # f => c # LoadCmd(g) /\ c # DisposeCmd(g)
    BY <1>3
  <2>2. c # DisposeCmd(f)
    BY <1>3
  <2>3. Enrolled'
    BY <1>1, <1>3, <2>1, <2>2 DEF Enrolled
  <2>4. \A q \in Procs, g \in Fibers : outgoing[q] = LoadCmd(g) => outgoing'[q] = LoadCmd(g)
    BY <1>1
  <2>. QED BY <1>1, <1>3, <2>3, <2>4 DEF Announced
<1>. QED BY <1>2, <1>3

LEMMA EnrolledKept ==
    ASSUME Inductive, UNCHANGED <<inbox, outgoing, registry, state>>
    PROVE Enrolled' /\ Announced'
BY DEF Inductive, Enrolled, Announced

LEMMA EnrolledClient ==
    ASSUME Inductive, NEW u \in Users, Client(u) PROVE Enrolled' /\ Announced'
<1>. USE Callers, CmdTypes, CmdFacts
<1>1. ASSUME NEW f \in Fibers, Load(u, f) PROVE Enrolled' /\ Announced'
  <2>1. CASE Submit(u, LoadCmd(f)) /\ state' = [state EXCEPT ![f] = "pending"]
    BY <1>1, <2>1, EnrolledSubmit DEF Load
  <2>2. CASE UNCHANGED outgoing /\ state' = [state EXCEPT ![f] = "failed"]
    <3>1. state[f] = "none" /\ f \notin registry
      BY <1>1 DEF Load, Inductive, Enrolled
    <3>2. \A g \in Fibers : state'[g] = IF g = f THEN "failed" ELSE state[g]
      BY <2>2 DEF Inductive, TypeOK, FibersTypeOK
    <3>3. UNCHANGED <<inbox, registry, outgoing>>
      BY <1>1, <2>2 DEF Load
    <3>4. Announced'
      BY <3>2, <3>3 DEF Inductive, Announced
    <3>5. Enrolled'
      BY <3>1, <3>2, <3>3 DEF Inductive, Enrolled
    <3>. QED BY <3>4, <3>5
  <2>. QED BY <1>1, <2>1, <2>2 DEF Load
<1>2. ASSUME NEW f \in Fibers, Dispose(u, f) PROVE Enrolled' /\ Announced'
  BY <1>2, EnrolledSubmit DEF Dispose, fiberVars
<1>3. ASSUME NEW o \in Owners, NEW k \in Keys, ProvideOn(u, o, k) PROVE Enrolled' /\ Announced'
  BY <1>3, EnrolledSubmit DEF ProvideOn, fiberVars
<1>4. ASSUME NEW e \in provides, Withdraw(u, e) PROVE Enrolled' /\ Announced'
  BY <1>4, EnrolledSubmit DEF Withdraw, fiberVars
<1>. QED BY <1>1, <1>2, <1>3, <1>4 DEF Client

LEMMA EnrolledOthers ==
    ASSUME Inductive, (\E f \in Fibers : Worker(f)) \/ Closer PROVE Enrolled' /\ Announced'
<1>. USE Callers, CmdTypes, CmdFacts
<1>1. ASSUME NEW p \in Procs, NEW c \in Cmd, c.type \notin {"load", "dispose"}, Idle(p),
             Submit(p, c), UNCHANGED <<inbox, registry, state>>
      PROVE Enrolled' /\ Announced'
  <2>1. \A f \in Fibers : c # LoadCmd(f) /\ c # DisposeCmd(f)
    BY <1>1
  <2>. QED BY <1>1, <2>1, EnrolledSubmit
<1>2. ASSUME NEW o \in Owners, UnwindStep(o) PROVE Enrolled' /\ Announced'
  <2>1. o \in Procs
    BY Owned DEF Owners
  <2>2. CASE Submit(o, ServiceCmd)
    BY <1>1, <1>2, <2>1, <2>2 DEF UnwindStep, fiberVars
  <2>3. CASE UNCHANGED outgoing
    BY <1>2, <2>3, EnrolledKept DEF UnwindStep, fiberVars
  <2>. QED BY <1>2, <2>2, <2>3 DEF UnwindStep
<1>3. CASE \E f \in Fibers : Worker(f)
  <2>. PICK f \in Fibers : Worker(f)
    BY <1>3
  <2>1. CASE \E k \in Keys : ApplyRead(f, k)
    BY <2>1, EnrolledKept DEF ApplyRead, mailVars, fiberVars
  <2>2. CASE \E k \in Keys : ApplyProvide(f, k)
    BY <1>1, <2>2 DEF ApplyProvide, fiberVars
  <2>3. CASE ApplyReturn(f)
    BY <1>1, <2>3 DEF ApplyReturn, Report, fiberVars
  <2>4. CASE \E inv \in BOOLEAN : ApplyFail(f, inv)
    BY <1>1, <2>4 DEF ApplyFail, Report, fiberVars
  <2>5. CASE UnwindBegin(f)
    BY <2>5, EnrolledKept DEF UnwindBegin, mailVars, fiberVars
  <2>6. CASE UnwindStep(f)
    BY <1>2, <2>6, Owned
  <2>7. CASE UnwindEnd(f)
    BY <1>1, <2>7 DEF UnwindEnd, Report, fiberVars
  <2>. QED BY <2>1, <2>2, <2>3, <2>4, <2>5, <2>6, <2>7 DEF Worker
<1>4. CASE Closer
  <2>1. CASE CloseBegin
    BY <1>1, <2>1 DEF CloseBegin, fiberVars
  <2>2. CASE CloseRewind \/ CloseEnd
    BY <2>2, EnrolledKept DEF CloseRewind, CloseEnd, mailVars, fiberVars
  <2>. QED BY <1>2, <1>4, <2>1, <2>2, Owned DEF Closer
<1>. QED BY <1>3, <1>4

LEMMA EnrolledSend ==
    ASSUME Inductive, NEW p \in Procs, Sending(p) \/ Refusal(p) PROVE Enrolled' /\ Announced'
<1>. USE CmdFacts DEF Inductive
<1>1. ASSUME Enqueue(p), UNCHANGED <<state, registry>> PROVE Enrolled' /\ Announced'
  <2>. DEFINE n == Len(inbox) + 1
  <2>1. /\ \A q \in Procs : outgoing'[q] = IF q = p THEN NoCmd ELSE outgoing[q]
        /\ \A i \in DOMAIN inbox' : \/ i \in DOMAIN inbox /\ inbox'[i] = inbox[i] /\ i < n
                                    \/ i = n /\ inbox'[i] = outgoing[p]
        /\ \A i \in DOMAIN inbox : i \in DOMAIN inbox' /\ inbox'[i] = inbox[i]
        /\ n \in DOMAIN inbox' /\ inbox'[n] = outgoing[p] /\ n \in Nat
        /\ DOMAIN inbox \subseteq Nat
    BY <1>1, EnqueueFacts DEF TypeOK, MailTypeOK
  <2>. HIDE DEF n
  <2>2. /\ \A q \in Procs, f \in Fibers :
               outgoing'[q] \in {LoadCmd(f), DisposeCmd(f)} => state'[f] # "none"
        /\ \A i \in DOMAIN inbox', f \in Fibers :
               inbox'[i] \in {LoadCmd(f), DisposeCmd(f)} => state'[f] # "none"
    BY <1>1, <2>1 DEF Enrolled
  <2>3. \A q \in Procs, f \in Fibers : outgoing'[q] = LoadCmd(f) =>
           /\ state'[f] = "pending" /\ f \notin registry'
           /\ \A r \in Procs : outgoing'[r] # DisposeCmd(f)
           /\ \A r \in Procs : outgoing'[r] = LoadCmd(f) => r = q
           /\ \A i \in DOMAIN inbox' : inbox'[i] \notin {LoadCmd(f), DisposeCmd(f)}
    BY <1>1, <2>1 DEF Enrolled
  <2>4. \A i \in DOMAIN inbox', f \in Fibers : inbox'[i] = LoadCmd(f) =>
           state'[f] = "pending" /\ f \notin registry'
    BY <1>1, <2>1 DEF Enrolled
  <2>5. \A f \in Fibers, i, j \in DOMAIN inbox' :
           inbox'[i] = LoadCmd(f) /\ inbox'[j] = LoadCmd(f) => i = j
    BY <2>1 DEF Enrolled
  <2>6. \A f \in Fibers, i, j \in DOMAIN inbox' :
           inbox'[i] = LoadCmd(f) /\ inbox'[j] = DisposeCmd(f) => i < j
    BY <2>1 DEF Enrolled
  <2>7. Enrolled'
    BY <1>1, <2>2, <2>3, <2>4, <2>5, <2>6 DEF Enrolled
  <2>8. Announced'
    BY <1>1, <2>1 DEF Announced
  <2>. QED BY <2>7, <2>8
<1>2. ASSUME Block(p), UNCHANGED <<state, registry>> PROVE Enrolled' /\ Announced'
  BY <1>2, EnrolledKept DEF Block
<1>3. ASSUME Refusal(p) PROVE Enrolled' /\ Announced'
  <2>1. /\ \A q \in Procs : outgoing'[q] = IF q = p THEN NoCmd ELSE outgoing[q]
        /\ UNCHANGED <<inbox, registry>>
        /\ \A f \in Fibers : state'[f] = IF outgoing[p] = LoadCmd(f) THEN "failed" ELSE state[f]
    BY <1>3 DEF Refusal, Reject, TypeOK, MailTypeOK
  <2>2. \A f \in Fibers : outgoing[p] = LoadCmd(f) => f \notin registry /\ state[f] = "pending"
    BY DEF Enrolled
  <2>3. \A f \in Fibers : outgoing[p] = LoadCmd(f) =>
            /\ \A q \in Procs : outgoing'[q] # LoadCmd(f)
            /\ \A i \in DOMAIN inbox : inbox[i] # LoadCmd(f)
    BY <2>1 DEF Enrolled
  <2>4. Enrolled'
    BY <2>1, <2>2, <2>3 DEF Enrolled
  <2>5. Announced'
    BY <2>1, <2>3 DEF Announced
  <2>. QED BY <2>4, <2>5
<1>. QED BY <1>1, <1>2, <1>3 DEF Sending, fiberVars

\* The rest of the loop changes registered fibers only.
LEMMA EnrolledRest == ASSUME Inductive, DepsStep \/ SettleStep PROVE Enrolled' /\ Announced'
<1>. USE DEF Inductive
<1>1. UNCHANGED <<outgoing, inbox>>
  BY DEF DepsStep, ReadOn, Decline, Capture, Accept, Activate, StartLoad, SettleStep, SettleBegin,
         SettleEnd, SettleStop, Visit, Finish, ExitTest, mailVars
<1>2. state \in [Fibers -> States] /\ registry \subseteq Fibers
  BY DEF TypeOK, FibersTypeOK
<1>3. ASSUME NEW f \in registry
      PROVE /\ state[f] # "none"
            /\ \A p \in Procs : outgoing[p] # LoadCmd(f)
            /\ \A i \in DOMAIN inbox : inbox[i] # LoadCmd(f)
  BY <1>2 DEF Enrolled
<1>4. ASSUME \A f \in Fibers :
                 \/ state'[f] = state[f] /\ (f \in registry' <=> f \in registry)
                 \/ /\ f \in registry /\ f \in registry'
                    /\ state'[f] \in {"pending", "loading", "active", "unloading"}
                 \/ f \in registry /\ f \notin registry' /\ state'[f] = "gone"
      PROVE Enrolled' /\ Announced'
  BY <1>1, <1>3, <1>4, EnrolledLoop
<1>5. CASE DepsStep
  <2>1. cur \in Fibers /\ cur \in registry
    BY <1>5 DEF DepsStep, ReadOn, Decline, Capture, Accept, Activate, StartLoad, TypeOK, LoopTypeOK,
                Visits
  <2>2. registry' = registry
    BY <1>5 DEF DepsStep, ReadOn, Decline, Capture, Accept, Activate, StartLoad, StartUnload,
                fiberVars
  <2>3. CASE UNCHANGED state
    BY <1>4, <2>2, <2>3
  <2>4. CASE \E t \in {"pending", "loading", "active", "unloading"} :
                 state' = [state EXCEPT ![cur] = t]
    BY <1>2, <1>4, <2>1, <2>2, <2>4
  <2>5. CASE StartUnload({cur})
    BY <1>2, <1>4, <2>1, <2>2, <2>5 DEF StartUnload
  <2>. QED BY <1>5, <2>3, <2>4, <2>5
           DEF DepsStep, ReadOn, Decline, Capture, Accept, Activate, StartLoad, fiberVars
<1>6. CASE SettleStep
  <2>1. CASE UNCHANGED <<state, registry>>
    BY <1>4, <2>1
  <2>2. CASE SettleStop
    <3>. DEFINE waiting == {f \in registry : state[f] = "pending" /\ ~disposeRequested[f]}
                serving == {f \in registry : state[f] = "active" /\ ~disposeRequested[f]}
    <3>1. /\ registry' = registry \ waiting
          /\ \A f \in Fibers : state'[f] = IF f \in waiting THEN "gone"
                                           ELSE IF f \in serving THEN "unloading" ELSE state[f]
      BY <2>2 DEF SettleStop
    <3>2. waiting \subseteq registry /\ serving \subseteq registry
      OBVIOUS
    <3>3. waiting \cap serving = {}
      OBVIOUS
    <3>. HIDE DEF waiting, serving
    <3>. QED BY <1>2, <1>4, <3>1, <3>2, <3>3
  <2>. QED BY <1>6, <2>1, <2>2
           DEF SettleStep, SettleBegin, SettleEnd, Visit, Finish, ExitTest, fiberVars
<1>. QED BY <1>5, <1>6

LEMMA EnrolledStep == ASSUME Inductive, [Next]_vars PROVE Enrolled' /\ Announced'
<1>1. CASE UNCHANGED vars
  BY <1>1, EnrolledKept DEF vars, mailVars, fiberVars
<1>2. CASE Next
  BY <1>2, Steps, EnrolledClient, EnrolledOthers, EnrolledSend, EnrolledHandle, EnrolledRest
<1>. QED BY <1>1, <1>2
-----------------------------------------------------------------------------
(* Contexts. *)

\* A goroutine that unwinds belongs to a fiber the loop has not in hand.
LEMMA NotOpening ==
    ASSUME Inductive, NEW f \in Fibers, job[f] # "idle" PROVE ~Opening(f) /\ ~(cur = f /\ why # "idle")
<1>. USE DEF Inductive
<1>1. ASSUME cur = f, why # "idle" PROVE job[f] = "idle"
  BY <1>1, NoToken DEF Visits, Tokens
<1>. QED BY <1>1 DEF Opening

LEMMA ScopedOutside ==
    ASSUME Inductive,
           \/ \E u \in Users : Client(u)
           \/ \E f \in Fibers : Worker(f)
           \/ Closer
           \/ \E p \in Procs : Sending(p) \/ Refusal(p)
    PROVE Scoped'
<1>. USE DEF Inductive
<1>1. UNCHANGED <<cur, pc, why>>
  BY OutsideLoop DEF loopVars
<1>2. \A f \in Fibers : (state'[f] \in {"loading", "active"} <=> state[f] \in {"loading", "active"})
  BY OutsideLoop DEF Enrolled
<1>3. \A f \in Fibers : Opening(f)' <=> Opening(f)
  BY <1>1 DEF Opening
<1>4. /\ inverses \in [Owners -> Seq(Nat)] /\ ctx \in [Owners -> {"none", "open", "closed"}]
      /\ job \in [Owners -> Jobs] /\ Fibers \subseteq Owners /\ Root \notin Fibers
  BY Owned DEF TypeOK, ContextsTypeOK, WorkTypeOK
<1>5. ASSUME \A f \in Fibers :
                 /\ ctx'[f] = ctx[f]
                 /\ job'[f] = "unload" <=> job[f] = "unload"
                 /\ \/ inverses'[f] = inverses[f] /\ (job'[f] = job[f] \/ inverses[f] = <<>>)
                    \/ ctx[f] = "open"
                    \/ job'[f] = "unwind"
      PROVE Scoped'
  BY <1>2, <1>3, <1>5 DEF Scoped
<1>6. ASSUME NEW o \in Owners, NEW k \in Keys, ProvideIn(o, k), UNCHANGED job PROVE Scoped'
  BY <1>4, <1>5, <1>6 DEF ProvideIn
<1>7. ASSUME NEW o \in Owners, UnwindStep(o) PROVE Scoped'
  BY <1>4, <1>5, <1>7 DEF UnwindStep, RunInverse, workVars
<1>8. ASSUME UNCHANGED <<ctx, inverses>>, \A f \in Fibers : job'[f] = job[f] PROVE Scoped'
  BY <1>5, <1>8
<1>9. CASE \E u \in Users : Client(u)
  BY <1>6, <1>8, <1>9 DEF Client, Load, Dispose, ProvideOn, Withdraw, ctxVars, workVars
<1>10. CASE \E f \in Fibers : Worker(f)
  <2>. PICK f \in Fibers : Worker(f)
    BY <1>10
  <2>1. ASSUME job[f] = "apply", UNCHANGED <<ctx, inverses>>, job' = [job EXCEPT ![f] = "idle"]
        PROVE Scoped'
    <3>1. state[f] = "loading"
      BY <2>1 DEF Tokens
    <3>2. ctx[f] = "open"
      BY <3>1 DEF Scoped
    <3>. QED BY <1>4, <1>5, <2>1, <3>2
  <2>2. CASE \E k \in Keys : ApplyRead(f, k) \/ ApplyProvide(f, k)
    BY <1>4, <1>6, <1>8, <2>2 DEF ApplyRead, ApplyProvide, ctxVars
  <2>3. CASE ApplyReturn(f) \/ \E inv \in BOOLEAN : ApplyFail(f, inv)
    BY <2>1, <2>3 DEF ApplyReturn, ApplyFail, Report
  <2>4. CASE UnwindBegin(f)
    <3>1. state[f] = "unloading" /\ ~Opening(f)
      BY <2>4, NotOpening DEF UnwindBegin, Tokens
    <3>2. /\ \A g \in Fibers : job'[g] = IF g = f THEN "unwind" ELSE job[g]
          /\ \A g \in Fibers : ctx'[g] = IF g = f THEN "closed" ELSE ctx[g]
          /\ UNCHANGED inverses
      BY <1>4, <2>4 DEF UnwindBegin, CloseScope
    <3>. QED BY <1>2, <1>3, <3>1, <3>2 DEF Scoped
  <2>5. CASE UnwindStep(f)
    BY <1>4, <1>7, <2>5
  <2>6. CASE UnwindEnd(f)
    BY <1>4, <1>5, <2>6 DEF UnwindEnd, Report, ctxVars
  <2>. QED BY <2>2, <2>3, <2>4, <2>5, <2>6 DEF Worker
<1>11. CASE Closer
  <2>1. CASE UnwindStep(Root)
    BY <1>7, <2>1, Owned
  <2>2. CASE CloseBegin \/ CloseRewind \/ CloseEnd
    BY <1>4, <1>5, <2>2 DEF CloseBegin, CloseRewind, CloseEnd, CloseScope, ctxVars
  <2>. QED BY <1>11, <2>1, <2>2 DEF Closer
<1>12. CASE \E p \in Procs : Sending(p) \/ Refusal(p)
  BY <1>8, <1>12 DEF Sending, Refusal, ctxVars, workVars
<1>. QED BY <1>9, <1>10, <1>11, <1>12

LEMMA ScopedHandle == ASSUME Inductive, Handle PROVE Scoped'
<1>. USE DEF Inductive
<1>. DEFINE F == Subject
<1>1. pc = "recv" /\ pc' # "capture" /\ (\A f \in Fibers : ~Opening(f) /\ ~Opening(f)')
  BY DEF Handle, HandleLoad, HandleDispose, HandleApplied, HandleUnwound, HandleService, Receive,
         ToSettle, Consult, Opening
<1>2. /\ inverses \in [Owners -> Seq(Nat)] /\ ctx \in [Owners -> {"none", "open", "closed"}]
      /\ state \in [Fibers -> States] /\ job \in [Owners -> Jobs] /\ Fibers \subseteq Owners
  BY Owned DEF TypeOK, ContextsTypeOK, FibersTypeOK, WorkTypeOK
<1>3. ASSUME NEW type, Receive(type), type # "service" PROVE F \in Fibers
  BY <1>3, ReceiveFacts, SubjectType
<1>. HIDE DEF F
<1>4. ASSUME UNCHANGED <<ctx, inverses>>,
             \A f \in Fibers :
                 \/ state'[f] = state[f] /\ job'[f] = job[f]
                 \/ state[f] = "active" /\ state'[f] = "unloading" /\ job'[f] = "unload"
                 \/ /\ state[f] \in {"pending", "unloading"} /\ job'[f] = job[f] /\ job[f] = "idle"
                    /\ state'[f] \in {"failed", "gone"}
      PROVE Scoped'
  BY <1>1, <1>4 DEF Scoped
<1>5. CASE HandleLoad \/ HandleService
  BY <1>4, <1>5 DEF HandleLoad, HandleService, ctxVars, fiberVars, workVars
<1>6. CASE HandleDispose
  <2>1. F \in Fibers
    BY <1>3, <1>6 DEF HandleDispose
  <2>2. CASE state[F] = "pending" /\ Remove(F, "gone")
    <3>1. job[F] = "idle"
      BY <2>1, <2>2, NoToken
    <3>. QED BY <1>2, <1>4, <1>6, <2>1, <2>2, <3>1 DEF HandleDispose, Remove, ctxVars, workVars
  <2>3. CASE state[F] = "active" /\ StartUnload({F})
    BY <1>2, <1>4, <1>6, <2>1, <2>3 DEF HandleDispose, StartUnload, ctxVars
  <2>4. CASE UNCHANGED <<state, job>>
    BY <1>4, <1>6, <2>4 DEF HandleDispose, ctxVars
  <2>. QED BY <1>6, <2>2, <2>3, <2>4 DEF HandleDispose, workVars, F
<1>7. CASE HandleApplied
  <2>1. F \in Fibers /\ job[F] = "idle" /\ state[F] = "loading"
    BY <1>7, Reported DEF HandleApplied, Phase, F
  <2>2. ctx[F] = "open"
    BY <2>1 DEF Scoped
  <2>3. /\ ctx' = ctx
        /\ \A f \in Fibers : f # F => inverses'[f] = inverses[f]
    BY <1>2, <1>7, <2>1, <2>2 DEF HandleApplied, KeepApplyInverse, ctxVars, F
  <2>4. CASE StartUnload({F})
    <3>1. \A f \in Fibers : IF f = F THEN state'[f] = "unloading" /\ job'[f] = "unload"
                                     ELSE state'[f] = state[f] /\ job'[f] = job[f]
      BY <1>2, <2>4 DEF StartUnload
    <3>. QED BY <1>1, <2>2, <2>3, <3>1 DEF Scoped
  <2>5. CASE UNCHANGED <<state, job>>
    BY <1>1, <2>2, <2>3, <2>5 DEF Scoped
  <2>. QED BY <1>7, <2>4, <2>5 DEF HandleApplied, workVars, F
<1>8. CASE HandleUnwound
  <2>1. F \in Fibers /\ job[F] = "idle" /\ state[F] = "unloading"
    BY <1>8, Reported DEF HandleUnwound, Phase, F
  <2>2. CASE \E t \in {"failed", "gone"} : Remove(F, t)
    BY <1>2, <1>4, <1>8, <2>1, <2>2 DEF HandleUnwound, Remove, ctxVars, workVars
  <2>3. CASE UNCHANGED <<state, job>>
    BY <1>4, <1>8, <2>3 DEF HandleUnwound, ctxVars
  <2>. QED BY <1>8, <2>2, <2>3 DEF HandleUnwound, workVars, F
<1>. QED BY <1>5, <1>6, <1>7, <1>8 DEF Handle

LEMMA ScopedDeps == ASSUME Inductive, DepsStep PROVE Scoped'
<1>. USE DEF Inductive
<1>1. /\ inverses \in [Owners -> Seq(Nat)] /\ ctx \in [Owners -> {"none", "open", "closed"}]
      /\ state \in [Fibers -> States] /\ job \in [Owners -> Jobs] /\ Fibers \subseteq Owners
  BY Owned DEF TypeOK, ContextsTypeOK, FibersTypeOK, WorkTypeOK
<1>2. cur \in Fibers /\ why \in {"applied", "unwound", "pending", "active"}
  BY DEF DepsStep, ReadOn, Decline, Capture, Accept, Activate, StartLoad, TypeOK, LoopTypeOK, Visits
<1>3. /\ job[cur] = "idle"
      /\ why = "applied" => state[cur] = "loading"
      /\ why = "unwound" => state[cur] = "unloading"
      /\ why \in {"pending", "active"} => state[cur] = why
  BY <1>2, NoToken DEF Visits, Tokens, Phase
<1>4. CASE \E k \in Keys : ReadOn(k) \/ Capture(k)
  BY <1>4 DEF ReadOn, Capture, ctxVars, fiberVars, workVars, Scoped, Opening
<1>5. CASE \E k \in Keys : Decline(k)
  <2>1. UNCHANGED <<ctx, inverses>> /\ pc = "deps" /\ pc' \in {"visit", "settle"}
    BY <1>5 DEF Decline, Decided, ctxVars
  <2>2. \A f \in Fibers : ~Opening(f) /\ ~Opening(f)'
    BY <2>1 DEF Opening
  <2>3. CASE why \in {"applied", "active"} /\ StartUnload({cur})
    <3>1. \A f \in Fibers : IF f = cur THEN state'[f] = "unloading" /\ job'[f] = "unload"
                                       ELSE state'[f] = state[f] /\ job'[f] = job[f]
      BY <1>1, <2>3 DEF StartUnload
    <3>. QED BY <1>3, <2>1, <2>2, <2>3, <3>1 DEF Scoped
  <2>4. CASE /\ why \in {"pending", "unwound"} /\ UNCHANGED job
             /\ state' = [state EXCEPT ![cur] = "pending"]
    <3>1. \A f \in Fibers : IF f = cur THEN state'[f] = "pending" ELSE state'[f] = state[f]
      BY <1>1, <2>4
    <3>. QED BY <1>3, <2>1, <2>2, <2>4, <3>1 DEF Scoped
  <2>. QED BY <1>2, <1>5, <2>3, <2>4 DEF Decline, workVars
<1>6. CASE Accept
  <2>1. UNCHANGED <<state, job>> /\ pc = "deps" /\ \A f \in Fibers : ~Opening(f)
    BY <1>6 DEF Accept, fiberVars, workVars, Opening
  <2>2. CASE why = "active" \/ why = "applied"
    <3>1. UNCHANGED <<ctx, inverses>> /\ \A f \in Fibers : ~Opening(f)'
      BY <1>6, <2>2 DEF Accept, Decided, ctxVars, Opening
    <3>. QED BY <2>1, <3>1 DEF Scoped
  <2>3. CASE why \in {"pending", "unwound"}
    <3>1. OpenScope(cur) /\ UNCHANGED <<cur, why>> /\ pc' = "capture"
      BY <1>6, <2>3 DEF Accept
    <3>2. \A f \in Fibers : Opening(f)' <=> f = cur
      BY <2>3, <3>1 DEF Opening
    <3>3. \A f \in Fibers : IF f = cur THEN ctx'[f] = "open"
                                       ELSE ctx'[f] = ctx[f] /\ inverses'[f] = inverses[f]
      BY <1>1, <3>1 DEF OpenScope
    <3>. QED BY <2>1, <3>2, <3>3 DEF Scoped
  <2>. QED BY <1>2, <2>2, <2>3
<1>7. CASE Activate
  <2>1. /\ UNCHANGED <<ctx, inverses, job>>
        /\ \A f \in Fibers : IF f = cur THEN state'[f] = "active" ELSE state'[f] = state[f]
        /\ \A f \in Fibers : ~Opening(f) /\ ~Opening(f)'
    BY <1>1, <1>7 DEF Activate, Decided, ctxVars, workVars, Opening
  <2>2. state[cur] = "loading"
    BY <1>3, <1>7 DEF Activate
  <2>. QED BY <2>1, <2>2 DEF Scoped
<1>8. CASE StartLoad
  <2>1. /\ UNCHANGED <<ctx, inverses>>
        /\ \A f \in Fibers : IF f = cur THEN state'[f] = "loading" /\ job'[f] = "apply"
                             ELSE state'[f] = state[f] /\ job'[f] = job[f]
        /\ \A f \in Fibers : (Opening(f) <=> f = cur) /\ ~Opening(f)'
    BY <1>1, <1>8 DEF StartLoad, Decided, ctxVars, Opening
  <2>. QED BY <1>2, <2>1 DEF Scoped
<1>. QED BY <1>4, <1>5, <1>6, <1>7, <1>8 DEF DepsStep

LEMMA ScopedSettle == ASSUME Inductive, SettleStep PROVE Scoped'
<1>. USE DEF Inductive
<1>1. UNCHANGED <<ctx, inverses>> /\ \A f \in Fibers : ~Opening(f) /\ ~Opening(f)'
  BY DEF SettleStep, SettleBegin, SettleEnd, SettleStop, Visit, Consult, Finish, ExitTest, ctxVars,
         Opening
<1>2. CASE UNCHANGED <<state, job>>
  BY <1>1, <1>2 DEF Scoped
<1>3. CASE SettleStop
  <2>1. state \in [Fibers -> States] /\ job \in [Owners -> Jobs] /\ Fibers \subseteq Owners
    BY Owned DEF TypeOK, FibersTypeOK, WorkTypeOK
  <2>2. \A f \in Fibers :
            \/ state'[f] = state[f] /\ job'[f] = job[f]
            \/ state[f] = "pending" /\ state'[f] = "gone" /\ job'[f] = job[f]
            \/ state[f] = "active" /\ state'[f] = "unloading" /\ job'[f] = "unload"
    BY <1>3, <2>1 DEF SettleStop
  <2>. QED BY <1>1, <2>2 DEF Scoped
<1>. QED BY <1>2, <1>3
         DEF SettleStep, SettleBegin, SettleEnd, Visit, Finish, ExitTest, fiberVars, workVars

LEMMA ScopedStep == ASSUME Inductive, [Next]_vars PROVE Scoped'
<1>1. CASE UNCHANGED vars
  BY <1>1 DEF vars, ctxVars, loopVars, fiberVars, workVars, Inductive, Scoped, Opening
<1>2. CASE Next
  BY <1>2, Steps, ScopedOutside, ScopedHandle, ScopedDeps, ScopedSettle
<1>. QED BY <1>1, <1>2
-----------------------------------------------------------------------------
(* Disposal and the exit. *)

LEMMA RetiredStep == ASSUME Inductive, [Next]_vars PROVE Retired'
<1>. USE DEF Inductive
<1>1. /\ state \in [Fibers -> States] /\ disposeRequested \in [Fibers -> BOOLEAN]
      /\ registry \subseteq Fibers
  BY DEF TypeOK, FibersTypeOK
<1>2. CASE UNCHANGED vars
  BY <1>2 DEF vars, loopVars, fiberVars, Retired
<1>3. CASE \/ \E u \in Users : Client(u)
           \/ \E f \in Fibers : Worker(f)
           \/ Closer
           \/ \E p \in Procs : Sending(p) \/ Refusal(p)
  BY <1>3, OutsideLoop DEF loopVars, Retired
<1>4. CASE Handle
  <2>1. CASE HandleLoad \/ HandleService
    BY <2>1 DEF HandleLoad, HandleService, Receive, ToSettle, fiberVars, Retired
  <2>2. CASE HandleDispose
    <3>. DEFINE F == Subject
    <3>1. F \in Fibers /\ why = "idle" /\ why' = "idle"
      BY <2>2, ReceiveFacts, SubjectType DEF HandleDispose, Receive, ToSettle, Visits
    <3>2. \A f \in Fibers : disposeRequested'[f] <=>
              disposeRequested[f] \/ (f = F /\ state[F] \in {"loading", "unloading", "active"})
      BY <1>1, <2>2, <3>1 DEF HandleDispose
    <3>3. \/ UNCHANGED state /\ state[F] \in {"loading", "unloading", "failed", "gone"}
          \/ \A f \in Fibers : IF f = F THEN state'[f] \in {"gone", "unloading"}
                                        ELSE state'[f] = state[f]
      BY <1>1, <2>2 DEF HandleDispose, Remove, StartUnload
    <3>. HIDE DEF F
    <3>. QED BY <3>1, <3>2, <3>3 DEF Retired
  <2>3. CASE HandleApplied \/ HandleUnwound
    <3>. DEFINE F == Subject
    <3>1. disposeRequested' = disposeRequested
      BY <2>3 DEF HandleApplied, HandleUnwound
    <3>2. \/ why' = "idle"
          \/ cur' = F /\ ~disposeRequested[F]
      BY <2>3 DEF HandleApplied, HandleUnwound, ToSettle, Consult, Receive, Visits
    <3>3. \/ UNCHANGED state
          \/ \A f \in Fibers : IF f = F THEN state'[f] \in {"gone", "failed", "unloading"}
                                        ELSE state'[f] = state[f]
      BY <1>1, <2>3 DEF HandleApplied, HandleUnwound, Remove, StartUnload
    <3>. HIDE DEF F
    <3>. QED BY <3>1, <3>2, <3>3 DEF Retired
  <2>. QED BY <1>4, <2>1, <2>2, <2>3 DEF Handle
<1>5. CASE DepsStep
  <2>1. cur \in Fibers /\ why \in {"applied", "unwound", "pending", "active"}
    BY <1>5 DEF DepsStep, ReadOn, Decline, Capture, Accept, Activate, StartLoad, TypeOK, LoopTypeOK,
                Visits
  <2>2. ~disposeRequested[cur]
    BY <2>1 DEF Visits, Retired
  <2>3. disposeRequested' = disposeRequested /\ (UNCHANGED <<why, cur>> \/ why' = "idle")
    BY <1>5 DEF DepsStep, ReadOn, Decline, Capture, Accept, Activate, StartLoad, Decided, fiberVars
  <2>4. \A f \in Fibers : f # cur => state'[f] = state[f]
    BY <1>1, <1>5 DEF DepsStep, ReadOn, Decline, Capture, Accept, Activate, StartLoad,
                      StartUnload, fiberVars
  <2>. QED BY <2>2, <2>3, <2>4 DEF Retired
<1>6. CASE SettleStep
  <2>1. why = "idle" /\ why' \notin {"applied", "unwound"}
    BY <1>6 DEF SettleStep, SettleBegin, SettleEnd, SettleStop, Visit, Consult, Finish, ExitTest,
                Visits
  <2>2. CASE UNCHANGED <<state, disposeRequested>>
    BY <2>1, <2>2 DEF Retired
  <2>3. CASE SettleStop
    <3>1. \A f \in Fibers :
              /\ disposeRequested'[f] <=> disposeRequested[f] \/ f \in registry
              /\ \/ state'[f] = state[f] /\ (disposeRequested[f] \/ state[f] \notin {"pending", "active"}
                                             \/ f \notin registry)
                 \/ state'[f] \in {"gone", "unloading"}
      BY <1>1, <2>3 DEF SettleStop
    <3>. QED BY <2>1, <3>1 DEF Retired, Enrolled
  <2>. QED BY <1>6, <2>2, <2>3
           DEF SettleStep, SettleBegin, SettleEnd, Visit, Finish, ExitTest, fiberVars
<1>. QED BY <1>2, <1>3, <1>4, <1>5, <1>6, Steps

LEMMA ClosedStep == ASSUME Inductive, [Next]_vars PROVE Closed'
<1>. USE DEF Inductive
<1>1. ASSUME UNCHANGED <<exited, pc, registry>>, exited => UNCHANGED <<inbox, sendMu>>
      PROVE Closed'
  BY <1>1 DEF Closed
<1>2. CASE UNCHANGED vars
  BY <1>1, <1>2 DEF vars, mailVars, loopVars, fiberVars
<1>3. CASE \E u \in Users : Client(u)
  BY <1>1, <1>3 DEF Client, Load, Dispose, ProvideOn, Withdraw, loopVars, fiberVars
<1>4. CASE \E f \in Fibers : Worker(f)
  BY <1>1, <1>4 DEF Worker, ApplyRead, ApplyProvide, ApplyReturn, ApplyFail, UnwindBegin,
                    UnwindStep, UnwindEnd, mailVars, loopVars, fiberVars
<1>5. CASE Closer
  BY <1>1, <1>5 DEF Closer, CloseBegin, CloseRewind, UnwindStep, CloseEnd, mailVars, loopVars,
                    fiberVars
<1>6. CASE \E p \in Procs : Sending(p) \/ Refusal(p)
  BY <1>1, <1>6 DEF Sending, Enqueue, Block, Refusal, Reject, loopVars, fiberVars
<1>7. CASE Handle
  <2>1. pc = "recv" /\ exited' = exited /\ pc' \in {"settle", "deps"}
    BY <1>7 DEF Handle, HandleLoad, HandleDispose, HandleApplied, HandleUnwound, HandleService,
                Receive, ToSettle, Consult
  <2>. QED BY <2>1 DEF Closed
<1>8. CASE DepsStep
  <2>1. pc \in {"deps", "capture"} /\ exited' = exited /\ pc' # "exited"
    BY <1>8 DEF DepsStep, ReadOn, Decline, Capture, Accept, Activate, StartLoad, Decided, mailVars
  <2>. QED BY <2>1 DEF Closed
<1>9. CASE SettleStep
  <2>1. CASE ExitTest
    BY <2>1 DEF ExitTest, Quiescent, fiberVars, Closed
  <2>2. CASE /\ pc \in {"settle", "visit", "finish"} /\ exited' = exited
             /\ pc' \in {"visit", "deps", "settle", "finish", "exit", "recv"}
    BY <2>2 DEF Closed
  <2>. QED BY <1>9, <2>1, <2>2
           DEF SettleStep, SettleBegin, SettleEnd, SettleStop, Visit, Consult, Finish, mailVars
<1>. QED BY <1>2, <1>3, <1>4, <1>5, <1>6, <1>7, <1>8, <1>9, Steps
-----------------------------------------------------------------------------
(* Inverses. *)

\* What is on a list stays on it when an inverse is added.
LEMMA ListedAppend ==
    ASSUME Inductive, NEW o \in Owners, NEW q \in Owners, NEW x,
           inverses' = [inverses EXCEPT ![q] = Append(@, x)]
    PROVE /\ \A s : Listed(s, o) => Listed(s, o)'
          /\ o = q => Listed(x, o)'
<1>1. inverses[o] \in Seq(Nat) /\ inverses \in [Owners -> Seq(Nat)]
  BY DEF Inductive, TypeOK, ContextsTypeOK
<1>2. CASE o # q
  <2>1. inverses'[o] = inverses[o]
    BY <1>1, <1>2
  <2>. QED BY <1>2, <2>1 DEF Listed
<1>3. CASE o = q
  <2>. DEFINE L == inverses[o]
  <2>1. inverses'[o] = Append(L, x) /\ L \in Seq(Nat)
    BY <1>1, <1>3
  <2>. HIDE DEF L
  <2>2. /\ DOMAIN Append(L, x) = 1 .. Len(L) + 1 /\ DOMAIN L = 1 .. Len(L) /\ Len(L) \in Nat
        /\ \A i \in DOMAIN L : i \in DOMAIN Append(L, x) /\ Append(L, x)[i] = L[i]
        /\ Append(L, x)[Len(L) + 1] = x
    BY <2>1
  <2>3. Listed(x, o)'
    BY <2>1, <2>2 DEF Listed
  <2>4. \A s : Listed(s, o) => Listed(s, o)'
    BY <2>1, <2>2 DEF Listed, L
  <2>. QED BY <2>3, <2>4
<1>. QED BY <1>2, <1>3

\* What is on a list stays on it when an inverse is run, unless it was the one.
LEMMA ListedRun ==
    ASSUME Inductive, NEW o \in Owners, NEW q \in Owners, RunInverse(q), NEW s, Listed(s, o)
    PROVE Listed(s, o)' \/ (o = q /\ s = NextInverse(q))
<1>1. inverses[o] \in Seq(Nat) /\ inverses \in [Owners -> Seq(Nat)]
  BY DEF Inductive, TypeOK, ContextsTypeOK
<1>2. CASE o # q
  <2>1. inverses'[o] = inverses[o]
    BY <1>1, <1>2 DEF RunInverse
  <2>. QED BY <2>1 DEF Listed
<1>3. CASE o = q
  <2>. DEFINE L == inverses[o]
              M == SubSeq(L, 1, Len(L) - 1)
  <2>1. inverses'[o] = M /\ L \in Seq(Nat) /\ L # <<>>
    BY <1>1, <1>3 DEF RunInverse
  <2>2. /\ DOMAIN L = 1 .. Len(L) /\ Len(L) \in Nat \ {0}
        /\ DOMAIN M = 1 .. Len(L) - 1
        /\ \A i \in 1 .. Len(L) - 1 : M[i] = L[i]
    BY <2>1
  <2>3. PICK i \in DOMAIN L : L[i] = s
    BY DEF Listed
  <2>4. NextInverse(q) = L[Len(L)]
    BY <1>3 DEF NextInverse
  <2>. HIDE DEF L, M
  <2>5. CASE i = Len(L)
    BY <1>3, <2>3, <2>4, <2>5
  <2>6. CASE i # Len(L)
    <3>1. i \in DOMAIN M /\ M[i] = s
      BY <2>2, <2>3, <2>6
    <3>. QED BY <2>1, <3>1 DEF Listed
  <2>. QED BY <2>5, <2>6
<1>. QED BY <1>2, <1>3

LEMMA OwedKept ==
    ASSUME Inductive, provides' \subseteq provides,
           \A e \in provides' : Listed(e.seq, e.owner) => Listed(e.seq, e.owner)',
           \A f \in Fibers : effect'[f] =>
               /\ effect[f]
               /\ Listed(ApplyInverse, f) \/ Carried(f) =>
                      Listed(ApplyInverse, f)' \/ Carried(f)'
    PROVE Owed'
<1>1. \A e \in provides' : e.seq # ApplyInverse /\ Listed(e.seq, e.owner)'
  BY DEF Inductive, Owed
<1>2. \A f \in Fibers : effect'[f] => Listed(ApplyInverse, f)' \/ Carried(f)'
  BY DEF Inductive, Owed
<1>. QED BY <1>1, <1>2 DEF Owed

\* No report is lost: the channel stands, and only idle processes begin to send.
ReportsStay ==
    /\ UNCHANGED inbox
    /\ \A f \in Fibers : outgoing'[f] = outgoing[f] \/ Idle(f)

LEMMA CarriedKept ==
    ASSUME ReportsStay, NEW f \in Fibers, Carried(f) PROVE Carried(f)'
BY CmdFacts DEF ReportsStay, Idle, Carried

LEMMA SubmitStays ==
    ASSUME Inductive, NEW p \in Procs, NEW c, Submit(p, c), Idle(p), UNCHANGED inbox
    PROVE ReportsStay
BY Callers DEF Inductive, TypeOK, MailTypeOK, Submit, ReportsStay

LEMMA OwedProvide ==
    ASSUME Inductive, ReportsStay, NEW o \in Owners, NEW k \in Keys, ProvideIn(o, k)
    PROVE Owed'
<1>. PICK n : n = seq + 1
  OBVIOUS
<1>. PICK new : new = [key |-> k, owner |-> o, seq |-> n]
  OBVIOUS
<1>1. /\ inverses' = [inverses EXCEPT ![o] = Append(@, n)]
      /\ provides' = provides \cup {new}
      /\ effect' = effect
  BY DEF ProvideIn, AddEntry
<1>2. /\ \A q \in Owners : \A s : Listed(s, q) => Listed(s, q)'
      /\ Listed(n, o)'
  BY <1>1, ListedAppend
<1>3. n # ApplyInverse /\ \A e \in provides : e.owner \in Owners
  BY DEF Inductive, TypeOK, ContextsTypeOK, Entry, ApplyInverse
<1>4. new.owner = o /\ new.seq = n
  OBVIOUS
<1>5. \A e \in provides' : e.seq # ApplyInverse /\ Listed(e.seq, e.owner)'
  <2>1. \A e \in provides : e.seq # ApplyInverse /\ Listed(e.seq, e.owner)'
    BY <1>2, <1>3 DEF Inductive, Owed
  <2>2. new.seq # ApplyInverse /\ Listed(new.seq, new.owner)'
    BY <1>2, <1>3, <1>4
  <2>. QED BY <1>1, <2>1, <2>2
<1>6. \A f \in Fibers : effect'[f] => Listed(ApplyInverse, f)' \/ Carried(f)'
  BY <1>1, <1>2, CarriedKept, Owned DEF Inductive, Owed
<1>. QED BY <1>5, <1>6 DEF Owed

LEMMA OwedRun ==
    ASSUME Inductive, ReportsStay, NEW o \in Owners, RunInverse(o) PROVE Owed'
<1>. USE DEF Inductive
<1>1. \A q \in Owners : \A s : Listed(s, q) => Listed(s, q)' \/ (q = o /\ s = NextInverse(o))
  BY ListedRun
<1>2. \A e \in provides : e.owner \in Owners /\ e.seq # ApplyInverse
  BY DEF TypeOK, ContextsTypeOK, Entry, Owed
<1>3. effect \in [Fibers -> BOOLEAN]
  BY DEF TypeOK, ContextsTypeOK
<1>4. CASE NextInverse(o) = ApplyInverse
  <2>1. provides' = provides /\ effect' = [effect EXCEPT ![o] = FALSE]
    BY <1>4 DEF RunInverse, svcVars
  <2>2. \A f \in Fibers : effect'[f] => effect[f] /\ f # o
    BY <1>3, <2>1
  <2>3. \A e \in provides' : Listed(e.seq, e.owner) => Listed(e.seq, e.owner)'
    BY <1>1, <1>2, <1>4, <2>1
  <2>. QED BY <1>1, <2>1, <2>2, <2>3, CarriedKept, OwedKept, Owned
<1>5. CASE NextInverse(o) # ApplyInverse
  <2>1. provides' = {e \in provides : e.seq # NextInverse(o)} /\ effect' = effect
    BY <1>5 DEF RunInverse, DropEntry
  <2>2. \A e \in provides' : Listed(e.seq, e.owner) => Listed(e.seq, e.owner)'
    BY <1>1, <1>2, <2>1
  <2>. QED BY <1>1, <1>5, <2>1, <2>2, CarriedKept, OwedKept, Owned
<1>. QED BY <1>4, <1>5

\* Entries may go; inverses and effects stand.
LEMMA OwedDrop ==
    ASSUME Inductive, ReportsStay, UNCHANGED <<inverses, effect>>, provides' \subseteq provides
    PROVE Owed'
<1>1. \A s, o : Listed(s, o) => Listed(s, o)'
  BY DEF Listed
<1>. QED BY <1>1, CarriedKept, OwedKept

LEMMA OwedOutside ==
    ASSUME Inductive,
           \/ \E u \in Users : Client(u)
           \/ \E f \in Fibers : Worker(f)
           \/ Closer
           \/ \E p \in Procs : Sending(p) \/ Refusal(p)
    PROVE Owed'
<1>. USE Callers DEF Inductive
<1>1. ASSUME NEW o \in Owners, UnwindStep(o) PROVE Owed'
  <2>1. CASE Submit(o, ServiceCmd)
    BY <1>1, <2>1, SubmitStays, OwedRun DEF UnwindStep, Owners
  <2>2. CASE UNCHANGED outgoing
    BY <1>1, <2>2, OwedRun DEF UnwindStep, ReportsStay
  <2>. QED BY <1>1, <2>1, <2>2 DEF UnwindStep
<1>2. CASE \E u \in Users : Client(u)
  <2>. PICK u \in Users : Client(u)
    BY <1>2
  <2>1. CASE \E f \in Fibers : Load(u, f)
    <3>1. ReportsStay
      BY <2>1, SubmitStays DEF Load, ReportsStay
    <3>. QED BY <2>1, <3>1, OwedDrop DEF Load, svcVars, ctxVars
  <2>2. CASE \E f \in Fibers : Dispose(u, f)
    <3>1. ReportsStay
      BY <2>2, SubmitStays DEF Dispose
    <3>. QED BY <2>2, <3>1, OwedDrop DEF Dispose, svcVars, ctxVars
  <2>3. CASE \E o \in Owners, k \in Keys : ProvideOn(u, o, k)
    <3>1. ReportsStay
      BY <2>3, SubmitStays DEF ProvideOn
    <3>. QED BY <2>3, <3>1, OwedProvide DEF ProvideOn
  <2>4. CASE \E e \in provides : Withdraw(u, e)
    <3>1. ReportsStay
      BY <2>4, SubmitStays DEF Withdraw
    <3>2. provides' \subseteq provides
      BY <2>4 DEF Withdraw, DropEntry
    <3>. QED BY <2>4, <3>1, <3>2, OwedDrop DEF Withdraw, ctxVars
  <2>. QED BY <2>1, <2>2, <2>3, <2>4 DEF Client
<1>3. CASE \E f \in Fibers : Worker(f)
  <2>. PICK f \in Fibers : Worker(f)
    BY <1>3
  <2>1. CASE \E k \in Keys : ApplyRead(f, k)
    <3>1. ReportsStay
      BY <2>1 DEF ApplyRead, mailVars, ReportsStay
    <3>. QED BY <2>1, <3>1, OwedDrop DEF ApplyRead, svcVars, ctxVars
  <2>2. CASE \E k \in Keys : ApplyProvide(f, k)
    <3>1. ReportsStay
      BY <2>2, SubmitStays DEF ApplyProvide
    <3>. QED BY <2>2, <3>1, OwedProvide, Owned DEF ApplyProvide
  <2>3. ASSUME NEW inv \in BOOLEAN, NEW err \in BOOLEAN, Idle(f),
               Report(f, AppliedCmd(f, inv, err)), effect' = [effect EXCEPT ![f] = inv],
               UNCHANGED <<inbox, svcVars, inverses>>
        PROVE Owed'
    <3>1. ReportsStay
      BY <2>3, SubmitStays DEF Report
    <3>2. outgoing'[f] = AppliedCmd(f, inv, err)
      BY <2>3 DEF Report, Submit, TypeOK, MailTypeOK
    <3>3. inv => Carried(f)'
      <4>1. outgoing'[f].type = "applied" /\ (inv => outgoing'[f].inv)
        BY <3>2 DEF AppliedCmd
      <4>. QED BY <4>1, Zenon DEF Carried
    <3>4. \A g \in Fibers : g # f => effect'[g] = effect[g]
      BY <2>3 DEF TypeOK, ContextsTypeOK
    <3>5. effect'[f] = inv
      BY <2>3 DEF TypeOK, ContextsTypeOK
    <3>6. \A s, o : Listed(s, o)' <=> Listed(s, o)
      BY <2>3 DEF Listed
    <3>7. \A g \in Fibers : effect'[g] => Listed(ApplyInverse, g)' \/ Carried(g)'
      BY <3>1, <3>3, <3>4, <3>5, <3>6, CarriedKept DEF Owed
    <3>8. \A e \in provides' : e.seq # ApplyInverse /\ Listed(e.seq, e.owner)'
      BY <2>3, <3>6 DEF Owed, svcVars
    <3>. QED BY <3>7, <3>8 DEF Owed
  <2>4. CASE ApplyReturn(f)
    BY <2>3, <2>4 DEF ApplyReturn
  <2>5. CASE \E inv \in BOOLEAN : ApplyFail(f, inv)
    BY <2>3, <2>5 DEF ApplyFail
  <2>6. CASE UnwindBegin(f)
    <3>1. ReportsStay
      BY <2>6 DEF UnwindBegin, mailVars, ReportsStay
    <3>. QED BY <2>6, <3>1, OwedDrop DEF UnwindBegin, CloseScope, svcVars
  <2>7. CASE UnwindStep(f)
    BY <1>1, <2>7, Owned
  <2>8. CASE UnwindEnd(f)
    <3>1. ReportsStay
      BY <2>8, SubmitStays DEF UnwindEnd, Report
    <3>. QED BY <2>8, <3>1, OwedDrop DEF UnwindEnd, svcVars, ctxVars
  <2>. QED BY <2>1, <2>2, <2>4, <2>5, <2>6, <2>7, <2>8 DEF Worker
<1>4. CASE Closer
  <2>1. CASE CloseBegin
    <3>1. ReportsStay
      BY <2>1, SubmitStays DEF CloseBegin
    <3>. QED BY <2>1, <3>1, OwedDrop DEF CloseBegin, svcVars, ctxVars
  <2>2. CASE CloseRewind \/ CloseEnd
    <3>1. ReportsStay
      BY <2>2 DEF CloseRewind, CloseEnd, mailVars, ReportsStay
    <3>. QED BY <2>2, <3>1, OwedDrop DEF CloseRewind, CloseEnd, CloseScope, svcVars, ctxVars
  <2>. QED BY <1>1, <1>4, <2>1, <2>2, Owned DEF Closer
<1>5. CASE \E p \in Procs : Sending(p) \/ Refusal(p)
  <2>. PICK p \in Procs : Sending(p) \/ Refusal(p)
    BY <1>5
  <2>1. UNCHANGED <<provides, inverses, effect>>
    BY DEF Sending, Refusal, svcVars, ctxVars
  <2>2. ASSUME NEW f \in Fibers, Carried(f) PROVE Carried(f)'
    <3>1. CASE Enqueue(p)
      <4>1. /\ \A i \in DOMAIN inbox : i \in DOMAIN inbox' /\ inbox'[i] = inbox[i]
            /\ Len(inbox) + 1 \in DOMAIN inbox' /\ inbox'[Len(inbox) + 1] = outgoing[p]
            /\ p # f => outgoing'[f] = outgoing[f]
            /\ outgoing[p] \in Cmd
        BY <3>1, EnqueueFacts DEF TypeOK, MailTypeOK
      <4>2. CASE p = f /\ outgoing[f].type = "applied" /\ outgoing[f].inv
        <5>1. outgoing[f].fiber \in Fibers
          BY <4>1, <4>2 DEF Cmd, ServiceCmd
        <5>2. outgoing[f].fiber = f
          BY <4>2, <5>1 DEF Tokens, IsReport
        <5>. QED BY <4>1, <4>2, <5>2 DEF Carried
      <4>. QED BY <2>2, <4>1, <4>2 DEF Carried
    <3>2. CASE Block(p)
      BY <2>2, <3>2 DEF Block, Carried
    <3>3. CASE Refusal(p)
      <4>1. exited /\ inbox' = inbox /\ (p # f => outgoing'[f] = outgoing[f]) /\ outgoing[p] # NoCmd
        BY <3>3 DEF Refusal, Reject, Idle, TypeOK, MailTypeOK
      <4>2. ASSUME p = f, outgoing[f].type = "applied" PROVE FALSE
        <5>1. outgoing[f].fiber \in Fibers
          BY <4>1, <4>2 DEF Cmd, ServiceCmd, TypeOK, MailTypeOK
        <5>2. state[f] = "loading"
          BY <4>2, <5>1 DEF Tokens, IsReport, Phase
        <5>3. registry = {}
          BY <4>1 DEF Closed
        <5>. QED BY <5>2, <5>3 DEF Enrolled
      <4>. QED BY <2>2, <4>1, <4>2 DEF Carried
    <3>. QED BY <3>1, <3>2, <3>3 DEF Sending
  <2>3. \A s, o : Listed(s, o) <=> Listed(s, o)'
    BY <2>1 DEF Listed
  <2>. QED BY <2>1, <2>2, <2>3, OwedKept
<1>. QED BY <1>2, <1>3, <1>4, <1>5

LEMMA OwedHandle == ASSUME Inductive, Handle PROVE Owed'
<1>. USE DEF Inductive
<1>. DEFINE F == Subject
<1>1. UNCHANGED <<outgoing, provides>>
  BY DEF Handle, HandleLoad, HandleDispose, HandleApplied, HandleUnwound, HandleService, Receive
<1>2. PICK type : Receive(type)
  BY DEF Handle, HandleLoad, HandleDispose, HandleApplied, HandleUnwound, HandleService
<1>3. /\ Head(inbox) = inbox[1] /\ inbox[1].type = type /\ F = inbox[1].fiber
      /\ \A i \in DOMAIN inbox : i # 1 => i - 1 \in DOMAIN inbox' /\ inbox'[i - 1] = inbox[i]
  BY <1>2, ReceiveFacts
<1>. HIDE DEF F
<1>4. ASSUME NEW f \in Fibers, Carried(f), ~(f = F /\ inbox[1].type = "applied" /\ inbox[1].inv)
      PROVE Carried(f)'
  <2>1. CASE outgoing[f].type = "applied" /\ outgoing[f].inv
    BY <1>1, <2>1 DEF Carried
  <2>2. CASE \E i \in DOMAIN inbox :
                 inbox[i].type = "applied" /\ inbox[i].fiber = f /\ inbox[i].inv
    <3>. PICK i \in DOMAIN inbox :
                 inbox[i].type = "applied" /\ inbox[i].fiber = f /\ inbox[i].inv
      BY <2>2
    <3>1. i # 1
      BY <1>3, <1>4
    <3>2. i - 1 \in DOMAIN inbox' /\ inbox'[i - 1] = inbox[i]
      BY <1>3, <3>1
    <3>. QED BY <3>2 DEF Carried
  <2>. QED BY <1>4, <2>1, <2>2 DEF Carried
<1>5. CASE UNCHANGED ctxVars /\ ~(inbox[1].type = "applied" /\ inbox[1].inv)
  <2>1. \A s, o : Listed(s, o) <=> Listed(s, o)'
    BY <1>5 DEF Listed, ctxVars
  <2>. QED BY <1>1, <1>4, <1>5, <2>1, OwedKept DEF ctxVars
<1>6. CASE HandleApplied /\ KeepApplyInverse(F)
  <2>1. F \in Fibers /\ state[F] = "loading"
    BY <1>6, Reported DEF HandleApplied, Phase, F
  <2>2. inverses' = [inverses EXCEPT ![F] = Append(@, ApplyInverse)] /\ effect' = effect
    BY <1>6, <2>1 DEF KeepApplyInverse, Scoped
  <2>3. \A o \in Owners : /\ \A s : Listed(s, o) => Listed(s, o)'
                          /\ o = F => Listed(ApplyInverse, o)'
    BY <2>1, <2>2, ListedAppend, Owned
  <2>4. \A e \in provides : e.owner \in Owners
    BY DEF TypeOK, ContextsTypeOK, Entry
  <2>5. \A e \in provides' : Listed(e.seq, e.owner) => Listed(e.seq, e.owner)'
    BY <1>1, <2>3, <2>4
  <2>6. \A f \in Fibers : Listed(ApplyInverse, f) \/ Carried(f) =>
                              Listed(ApplyInverse, f)' \/ Carried(f)'
    BY <1>4, <2>3, Owned
  <2>. QED BY <1>1, <2>2, <2>5, <2>6, OwedKept
<1>7. CASE HandleApplied /\ ~Head(inbox).inv
  BY <1>3, <1>5, <1>7 DEF HandleApplied
<1>8. CASE HandleLoad \/ HandleDispose \/ HandleUnwound \/ HandleService
  <2>1. inbox[1].type # "applied"
    BY <1>3, <1>8 DEF HandleLoad, HandleDispose, HandleUnwound, HandleService, Receive
  <2>. QED BY <1>5, <1>8, <2>1 DEF HandleLoad, HandleDispose, HandleUnwound, HandleService
<1>. QED BY <1>6, <1>7, <1>8 DEF Handle, HandleApplied, F

\* A fiber about to be loaded has no inverse left, so its fresh context forgets none.
LEMMA NothingListed ==
    ASSUME Inductive, NEW f \in Fibers, state[f] \notin {"loading", "active"},
           job[f] = "idle", ~Opening(f)
    PROVE inverses[f] = <<>> /\ ~Holds(f)
<1>. USE DEF Inductive
<1>1. inverses[f] = <<>>
  BY DEF Scoped
<1>2. \A s : ~Listed(s, f)
  BY <1>1 DEF Listed
<1>3. EntriesOf(f) = {}
  BY <1>2 DEF EntriesOf, Owed
<1>4. ~Carried(f)
  <2>1. ASSUME outgoing[f].type = "applied" PROVE FALSE
    <3>1. outgoing[f] \in Cmd
      BY <2>1, CmdFacts, Callers DEF TypeOK, MailTypeOK
    <3>2. outgoing[f].fiber \in Fibers
      BY <2>1, <3>1 DEF Cmd, ServiceCmd
    <3>. QED BY <2>1, <3>2, Callers DEF Tokens, IsReport, Phase
  <2>2. ASSUME NEW i \in DOMAIN inbox, inbox[i].type = "applied", inbox[i].fiber = f PROVE FALSE
    BY <2>2 DEF Tokens, IsReport, Phase
  <2>. QED BY <2>1, <2>2 DEF Carried
<1>. QED BY <1>1, <1>2, <1>3, <1>4 DEF Owed, Holds

LEMMA OwedRest == ASSUME Inductive, DepsStep \/ SettleStep PROVE Owed'
<1>. USE DEF Inductive
<1>1. UNCHANGED <<inbox, outgoing, provides, effect>>
  BY DEF DepsStep, ReadOn, Decline, Capture, Accept, Activate, StartLoad, SettleStep, SettleBegin,
         SettleEnd, SettleStop, Visit, Finish, ExitTest, mailVars, svcVars, ctxVars, OpenScope
<1>2. ReportsStay
  BY <1>1 DEF ReportsStay
<1>3. CASE UNCHANGED inverses
  BY <1>1, <1>2, <1>3, OwedDrop
<1>4. CASE Accept /\ OpenScope(cur) /\ why \in {"unwound", "pending"}
  <2>1. cur \in Fibers /\ pc = "deps" /\ ~Opening(cur)
    BY <1>4 DEF Accept, TypeOK, LoopTypeOK, Opening
  <2>2. state[cur] \notin {"loading", "active"} /\ job[cur] = "idle"
    BY <1>4, <2>1, NoToken DEF Visits, Tokens, Phase
  <2>3. \A o \in Owners : o # cur => inverses'[o] = inverses[o]
    BY <1>4 DEF OpenScope, TypeOK, ContextsTypeOK
  <2>4. ~Holds(cur)
    BY <2>1, <2>2, NothingListed
  <2>6. \A e \in provides : e.owner \in Owners \ {cur}
    BY <2>4 DEF Holds, EntriesOf, TypeOK, ContextsTypeOK, Entry
  <2>7. \A e \in provides' : Listed(e.seq, e.owner) => Listed(e.seq, e.owner)'
    <3>1. \A s, o : o \in Owners /\ o # cur /\ Listed(s, o) => Listed(s, o)'
      BY <2>3 DEF Listed
    <3>. QED BY <1>1, <2>6, <3>1
  <2>8. \A f \in Fibers : effect'[f] =>
            /\ effect[f]
            /\ Listed(ApplyInverse, f) \/ Carried(f) =>
                   Listed(ApplyInverse, f)' \/ Carried(f)'
    <3>. SUFFICES ASSUME NEW f \in Fibers, effect'[f], Listed(ApplyInverse, f) \/ Carried(f)
                  PROVE effect[f] /\ (Listed(ApplyInverse, f)' \/ Carried(f)')
      BY <1>1
    <3>1. effect[f] /\ f # cur
      BY <1>1, <2>4 DEF Holds
    <3>2. Listed(ApplyInverse, f) => Listed(ApplyInverse, f)'
      BY <2>3, <3>1, Owned DEF Listed
    <3>. QED BY <1>2, <3>1, <3>2, CarriedKept
  <2>. QED BY <1>1, <2>7, <2>8, OwedKept
<1>. QED BY <1>3, <1>4
         DEF DepsStep, ReadOn, Decline, Capture, Accept, Activate, StartLoad, SettleStep,
             SettleBegin, SettleEnd, SettleStop, Visit, Finish, ExitTest, ctxVars, Visits

LEMMA OwedStep == ASSUME Inductive, [Next]_vars PROVE Owed'
<1>1. CASE UNCHANGED vars
  BY <1>1, OwedDrop DEF vars, mailVars, svcVars, ctxVars, ReportsStay
<1>2. CASE Next
  BY <1>2, Steps, OwedOutside, OwedHandle, OwedRest
<1>. QED BY <1>1, <1>2
-----------------------------------------------------------------------------
(* The invariant and what follows from it. *)

LEMMA InductiveInit == Init => Inductive
<1>. SUFFICES ASSUME Init PROVE Inductive
  OBVIOUS
<1>1. /\ inbox = <<>> /\ DOMAIN inbox = {} /\ sendMu = Free /\ exited = FALSE
      /\ \A p \in Procs : outgoing[p] = NoCmd
      /\ provides = {}
      /\ \A f \in Fibers : /\ ctx[f] = "none" /\ inverses[f] = <<>> /\ effect[f] = FALSE
                           /\ state[f] = "none" /\ job[f] = "idle"
                           /\ disposeRequested[f] = FALSE
      /\ pc = "recv" /\ why = "idle" /\ todo = {} /\ registry = {}
  BY Owned DEF Init, MailboxInit, ServicesInit, ContextsInit
<1>2. TypeOK
  BY TypeInit
<1>3. Tokens
  BY <1>1, CmdFacts DEF Tokens, IsReport
<1>4. Visits
  BY <1>1 DEF Visits
<1>5. Enrolled /\ Announced
  BY <1>1, CmdFacts DEF Enrolled, Announced
<1>6. Scoped
  BY <1>1 DEF Scoped, Opening
<1>7. Owed
  BY <1>1 DEF Owed
<1>8. Retired /\ Closed
  BY <1>1 DEF Retired, Closed
<1>. QED BY <1>2, <1>3, <1>4, <1>5, <1>6, <1>7, <1>8 DEF Inductive

LEMMA InductiveStep == Inductive /\ [Next]_vars => Inductive'
<1>. SUFFICES ASSUME Inductive, [Next]_vars PROVE Inductive'
  OBVIOUS
<1>1. TypeOK'
  BY TypeStep DEF Inductive
<1>. QED BY <1>1, TokensStep, VisitsStep, EnrolledStep, ScopedStep, OwedStep, RetiredStep,
            ClosedStep DEF Inductive

\* The states of a fiber, its goroutine, the reports about it, its context and the
\* loop's place agree in every reachable state, for any number of fibers and
\* clients, any component shapes and any channel capacity.
THEOREM InvariantHolds == Spec => []Inductive
<1>. QED BY InductiveInit, InductiveStep, PTL DEF Spec

LEMMA HeldFollows == Inductive => HeldOnlyWhileLive
<1>. SUFFICES ASSUME Inductive, NEW f \in Fibers, Holds(f)
              PROVE state[f] \in {"loading", "active", "unloading"} \/ Opening(f)
  BY DEF HeldOnlyWhileLive
<1>1. CASE job[f] = "idle"
  BY <1>1, NothingListed
<1>2. CASE job[f] # "idle"
  BY <1>2 DEF Inductive, Tokens
<1>. QED BY <1>1, <1>2

\* A fiber that waits or has ended has nothing in place, whatever interleaving of
\* load cycles, late providers, withdrawals and disposals brought it there.
THEOREM NothingLeftBehind == Spec => []HeldOnlyWhileLive
<1>. QED BY InvariantHolds, HeldFollows, PTL

LEMMA ExitedFollows == Inductive => ExitedClean
<1>. SUFFICES ASSUME Inductive, exited PROVE ExitedClean
  BY DEF ExitedClean
<1>. USE DEF Inductive
<1>1. registry = {} /\ inbox = <<>> /\ DOMAIN inbox = {} /\ sendMu = Free /\ pc = "exited"
  BY DEF Closed
<1>2. ASSUME NEW f \in Fibers
      PROVE /\ state[f] \in {"none", "failed", "gone"} \/ ~Returned(f)
            /\ job[f] = "idle" /\ ~Holds(f)
  <2>1. state[f] \in {"none", "pending", "failed", "gone"}
    BY <1>1 DEF Enrolled, TypeOK, FibersTypeOK, States
  <2>2. job[f] = "idle"
    BY <2>1, NoToken
  <2>3. ~Holds(f)
    BY <1>1, <2>1, HeldFollows DEF HeldOnlyWhileLive, Opening
  <2>4. state[f] = "pending" => ~Returned(f)
    BY <1>1 DEF Announced, Returned
  <2>. QED BY <2>1, <2>2, <2>3, <2>4
<1>. QED BY <1>1, <1>2 DEF ExitedClean

\* When the loop has exited there is nobody left to manage and nothing in place:
\* shutdown under sendMu misses no command and no goroutine.
THEOREM ExitLeavesNothing == Spec => []ExitedClean
<1>. QED BY InvariantHolds, ExitedFollows, PTL
=============================================================================
