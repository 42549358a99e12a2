----------------------- MODULE OrchestratorProperties -----------------------
(***************************************************************************)
(* What the event loop, the goroutines of the fibers and the clients       *)
(* together guarantee.                                                     *)
(***************************************************************************)
EXTENDS Orchestrator

MailTypeOK ==
    /\ inbox \in Seq(Cmd)
    /\ Len(inbox) <= InboxCap
    /\ sendMu \in Procs \cup {Free}
    /\ outgoing \in [Procs -> Cmd \cup {NoCmd}]
    /\ inflight \in Int
    /\ exited \in BOOLEAN

ContextsTypeOK ==
    /\ provides \subseteq Entry
    /\ seq \in Nat
    /\ ctx \in [Owners -> {"none", "open", "closed"}]
    /\ inverses \in [Owners -> Seq(Nat)]
    /\ effect \in [Fibers -> BOOLEAN]

LoopTypeOK ==
    /\ pc \in {"recv", "deps", "capture", "settle", "visit", "finish", "exit", "exited"}
    /\ why \in {"idle", "applied", "unwound"} \cup States
    /\ cur \in IF pc \in {"deps", "capture"} THEN Fibers ELSE {Root}
    /\ left \subseteq Keys
    /\ todo \subseteq Fibers
    /\ changed \in BOOLEAN
    /\ stopping \in BOOLEAN

FibersTypeOK ==
    /\ state \in [Fibers -> States]
    /\ registry \subseteq Fibers
    /\ disposeRequested \in [Fibers -> BOOLEAN]
    /\ failed \in [Fibers -> BOOLEAN]
    /\ depSnap \in [Fibers -> [Keys -> Nat]]

WorkTypeOK ==
    /\ job \in [Owners -> Jobs]
    /\ toRead \in [Fibers -> SUBSET Keys]
    /\ toProvide \in [Fibers -> SUBSET Keys]
    /\ seen \in [Fibers -> [Keys -> Nat]]
    /\ pending \in Int
    /\ ops \in Nat

\* Every variable has its type, the channel never holds more than its capacity,
\* and the loop looks at a fiber exactly while it reads dependencies.
TypeOK == MailTypeOK /\ ContextsTypeOK /\ LoopTypeOK /\ FibersTypeOK /\ WorkTypeOK
-----------------------------------------------------------------------------
(* Safety. *)

\* Two fibers never provide the same key at the same time, whichever of their
\* Apply functions and late providers race: what Provide's refusal is for.
OneFiberProvider ==
    \A d, e \in provides :
        d.key = e.key /\ d.owner \in Fibers /\ e.owner \in Fibers => d.owner = e.owner

\* The commands of one type about f that are submitted and not yet handled.
Count(b) == IF b THEN 1 ELSE 0
Reports(f, type) ==
    Count(outgoing[f] # NoCmd /\ outgoing[f].type = type)
    + Cardinality({i \in DOMAIN inbox : inbox[i].type = type /\ inbox[i].fiber = f})

\* A fiber in transition is waiting for exactly one thing: its goroutine, the
\* report of its goroutine, or the decision of the loop on that report.  A
\* settled fiber waits for none, so no report is ever handled twice or late.
OneReport ==
    \A f \in Fibers :
        /\ Count(job[f] = "apply") + Reports(f, "applied") + Count(cur = f /\ why = "applied")
           = Count(state[f] = "loading")
        /\ Count(job[f] \in {"unload", "unwind"}) + Reports(f, "unwound")
           + Count(cur = f /\ why = "unwound")
           = Count(state[f] = "unloading")

\* The two counters the exit test relies on are exact, although goroutines and
\* senders change them without the loop.
CountersExact ==
    /\ pending = Cardinality({f \in Fibers : job[f] # "idle"})
    /\ inflight = Len(inbox) + Count(sendMu # Free)
                  + Count(pc \notin {"recv", "exit", "exited"})

\* The load cycle of f has begun: its context is open although the state has
\* not been set yet.
Opening(f) == cur = f /\ pc = "capture" /\ why \in {"pending", "unwound"}

Holds(f) == EntriesOf(f) # {} \/ effect[f]

\* Whatever a fiber installed is in place only while it is loading, active or
\* unloading: a fiber that waits or has ended leaves nothing behind, however
\* its cycles, its late providers and disposal interleaved.
HeldOnlyWhileLive ==
    \A f \in Fibers : Holds(f) => state[f] \in {"loading", "active", "unloading"} \/ Opening(f)

\* Nothing is under way: the loop waits, no command is submitted, no goroutine
\* of a fiber runs.
Quiet ==
    /\ pc = "recv" /\ inbox = <<>>
    /\ \A p \in Procs : Idle(p)
    /\ \A f \in Fibers : job[f] = "idle"

Satisfied(f) == \A k \in Inject[f] : External(k, f) # 0

\* No change of the service table is ever lost: when nothing is under way, no
\* fiber waits whose dependencies are there, and no fiber is active without
\* them or on a generation that has been replaced.
QuietMeansSettled ==
    Quiet /\ ~stopping =>
        \A f \in Fibers :
            /\ state[f] \in {"none", "pending", "active", "failed", "gone"}
            /\ state[f] = "pending" => f \in registry /\ ~Satisfied(f)
            /\ state[f] = "active" => \A k \in Inject[f] :
                   External(k, f) # 0 /\ External(k, f) = depSnap[f][k]

\* After the loop has exited nobody is left to manage: no fiber is registered,
\* in transition or active, none holds anything, and no command waits for an
\* answer that will not come.
ExitedClean ==
    exited =>
        /\ registry = {} /\ inbox = <<>> /\ sendMu = Free
        /\ \A f \in Fibers :
               /\ state[f] \in {"none", "failed", "gone"} \/ ~Returned(f)
               /\ job[f] = "idle" /\ ~Holds(f)

\* The loop never waits for sendMu while the sender that holds it waits for the
\* loop to make room.
LoopNeverBlocks == ~(pc = "exit" /\ sendMu # Free /\ Len(inbox) = InboxCap)

\* When nothing is under way, what an active fiber read when it was loaded is
\* what its dependencies are now.
ServesCurrent ==
    Quiet /\ ~stopping =>
        \A f \in Readers : state[f] = "active" =>
            \A k \in Inject[f] : seen[f][k] = External(k, f)

\* An active fiber provides every key its component offers, unless clients may
\* take its entries out by hand: whoever depends on it may count on it.
ActiveDelivers ==
    \A f \in Fibers \ Manual : state[f] = "active" =>
        Offers[f] \subseteq {e.key : e \in EntriesOf(f)}

\* Once Close has begun, something is always under way until the loop has exited:
\* no command, report or exit test is the last one too early, so Close does not
\* wait for a loop that nobody will wake.  (That what is under way can also go on
\* is LoopNeverBlocks.)
NeverStranded == stopping => ~Quiet

\* The fibers that can be active: the least set that has every fiber whose
\* dependencies are provided by the root or offered by other members.
Supportable == {f \in Fibers : state[f] \notin {"none", "gone"}}

Supports(S, f) ==
    \A k \in Inject[f] :
        \/ \E e \in provides : e.key = k /\ e.owner = Root
        \/ \E g \in S \ {f} : k \in Offers[g]

Supported ==
    {f \in Supportable : \A S \in SUBSET Supportable :
         (\A g \in Supportable : Supports(S, g) => g \in S) => f \in S}

\* Confluence: once nothing is under way, which fibers are active depends only
\* on which are loaded and what the root provides, not on the schedule.
ConfluentEnd ==
    Quiet /\ ~stopping =>
        {f \in Fibers : state[f] = "active"} = Supported
-----------------------------------------------------------------------------
(* What a step may never do. *)

\* A step of the goroutine that unwinds the context of o: an inverse is run.
Unwinds(o) == job[o] = "unwind" /\ inverses'[o] # inverses[o]

\* The effects of one context are undone newest first: when unwinding removes
\* an entry, no newer entry of that context is left, whatever clients provided
\* late and took out by hand before, or do while it is unwound.
UndoneInReverse ==
    [][\A o \in Owners : Unwinds(o) =>
           \A d \in EntriesOf(o) : d \notin provides' =>
               \A e \in EntriesOf(o)' : e.seq < d.seq]_vars

\* The loop and its goroutines implement the life cycle a handle shows.
Promise == INSTANCE Lifecycle WITH
    phase <- [f \in Fibers |-> IF Opening(f) THEN "loading" ELSE state[f]],
    retiring <- disposeRequested,
    held <- [f \in Fibers |-> Holds(f)]

KeepsPromise == Promise!Spec
-----------------------------------------------------------------------------
(* Liveness. *)

\* Apply functions and inverses return, the loop and Close go on when they can,
\* and every sender gets sendMu and room in the channel when there is some.
FairSpec ==
    /\ Spec
    /\ WF_vars(Loop)
    /\ \A f \in Fibers : WF_vars(Worker(f))
    /\ \A p \in Procs : WF_vars(Sending(p) \/ Refusal(p))
    /\ WF_vars(CloseRewind \/ UnwindStep(Root) \/ CloseEnd)

\* Close returns: the loop withdraws every fiber and exits, and the root unwinds.
CloseCompletes == (job[Root] = "closing") ~> (job[Root] = "done")

\* A disposed fiber ends, whatever it was doing when the call was made.
DisposeCompletes ==
    \A f \in Fibers :
        (\E u \in Users : outgoing[u] = DisposeCmd(f)) ~> (state[f] \in {"failed", "gone"})

\* The fibers stop reloading one another once the clients stop.
ComesToRest == <>[](Quiet \/ exited)
=============================================================================
