------------------------ MODULE OrchestratorInvariant ------------------------
(***************************************************************************)
(* The inductive invariants behind the safety properties, each resting on  *)
(* the ones before it: what ties the state of a fiber to its goroutine, to *)
(* the commands about it, to its context and to the place of the loop;     *)
(* what settling rests on; and what the end of shutdown and the outcome of *)
(* settling rest on.                                                       *)
(***************************************************************************)
EXTENDS OrchestratorProperties

IsReport(c, f) == c.type \in {"applied", "unwound"} /\ c.fiber = f

\* The state of a fiber whose goroutine reports this way.
Phase(type) == IF type = "applied" THEN "loading" ELSE "unloading"

\* Goroutines and reports.  A running goroutine, its report while it is sent,
\* the report in the channel, and the loop's decision on it exclude one another,
\* and each fixes the state of the fiber.
Tokens ==
    /\ \A f \in Fibers :
           /\ job[f] \in {"idle", "apply", "unload", "unwind"}
           /\ job[f] = "apply" => state[f] = "loading"
           /\ job[f] \in {"unload", "unwind"} => state[f] = "unloading"
    /\ \A p \in Procs, f \in Fibers : IsReport(outgoing[p], f) =>
           p = f /\ job[f] = "idle" /\ state[f] = Phase(outgoing[p].type)
    /\ \A i \in DOMAIN inbox, f \in Fibers : IsReport(inbox[i], f) =>
           /\ job[f] = "idle"
           /\ state[f] = Phase(inbox[i].type)
           /\ ~IsReport(outgoing[f], f)
           /\ \A j \in DOMAIN inbox : IsReport(inbox[j], f) => j = i
    /\ why \in {"applied", "unwound"} =>
           /\ job[cur] = "idle"
           /\ state[cur] = Phase(why)
           /\ ~IsReport(outgoing[cur], cur)
           /\ \A i \in DOMAIN inbox : ~IsReport(inbox[i], cur)

\* The loop.  It has a fiber in hand exactly while it reads dependencies, and the
\* fibers it has still to visit are as the snapshot of the pass found them.
Visits ==
    /\ why \in IF pc = "deps" THEN {"applied", "unwound", "pending", "active"}
               ELSE IF pc = "capture" THEN {"applied", "unwound", "pending"}
               ELSE {"idle"}
    /\ why # "idle" => cur \in registry
    /\ why \in {"pending", "active"} => state[cur] = why
    /\ why \in {"pending", "active"} => cur \notin todo
    /\ todo \subseteq {f \in registry : state[f] \in {"pending", "active"}}
    /\ todo # {} => pc = "visit" \/ why \in {"pending", "active"}

\* The registry.  A fiber in it is alive; one not yet in it has exactly one Load
\* under way, ahead of every Dispose.
Enrolled ==
    /\ \A f \in Fibers :
           /\ f \in registry => state[f] \in {"pending", "loading", "active", "unloading"}
           /\ state[f] \in {"loading", "active", "unloading"} => f \in registry
    /\ \A p \in Procs, f \in Fibers :
           outgoing[p] \in {LoadCmd(f), DisposeCmd(f)} => state[f] # "none"
    /\ \A i \in DOMAIN inbox, f \in Fibers :
           inbox[i] \in {LoadCmd(f), DisposeCmd(f)} => state[f] # "none"
    /\ \A p \in Procs, f \in Fibers : outgoing[p] = LoadCmd(f) =>
           /\ state[f] = "pending" /\ f \notin registry
           /\ \A q \in Procs : outgoing[q] # DisposeCmd(f)
           /\ \A q \in Procs : outgoing[q] = LoadCmd(f) => q = p
           /\ \A i \in DOMAIN inbox : inbox[i] \notin {LoadCmd(f), DisposeCmd(f)}
    /\ \A i \in DOMAIN inbox, f \in Fibers : inbox[i] = LoadCmd(f) =>
           /\ state[f] = "pending" /\ f \notin registry
           /\ \A j \in DOMAIN inbox : inbox[j] = LoadCmd(f) => i = j
           /\ \A j \in DOMAIN inbox : inbox[j] = DisposeCmd(f) => i < j

\* A fiber that waits outside the registry has its Load under way.
Announced ==
    \A f \in Fibers : state[f] = "pending" /\ f \notin registry =>
        \/ \E p \in Procs : outgoing[p] = LoadCmd(f)
        \/ \E i \in DOMAIN inbox : inbox[i] = LoadCmd(f)

\* Contexts.  The context of a fiber is open from the beginning of its load to
\* the beginning of its unwinding, and has inverses only until unwinding ends.
Scoped ==
    \A f \in Fibers :
        /\ ctx[f] = "open" <=> state[f] \in {"loading", "active"} \/ job[f] = "unload" \/ Opening(f)
        /\ inverses[f] # <<>> => ctx[f] = "open" \/ job[f] = "unwind"

\* The report of f is under way and carries the inverse Apply returned.
Carried(f) ==
    \/ outgoing[f].type = "applied" /\ outgoing[f].inv
    \/ \E i \in DOMAIN inbox :
           inbox[i].type = "applied" /\ inbox[i].fiber = f /\ inbox[i].inv

Listed(s, o) == \E i \in DOMAIN inverses[o] : inverses[o][i] = s

\* Inverses.  Whatever is in place has its inverse on the list of its context, or
\* on its way there.
Owed ==
    /\ \A e \in provides : e.seq # ApplyInverse /\ Listed(e.seq, e.owner)
    /\ \A f \in Fibers : effect[f] => Listed(ApplyInverse, f) \/ Carried(f)

\* Disposal.  A fiber asked to end neither waits nor serves, and the loop is not
\* about to make it do so.
Retired ==
    /\ \A f \in Fibers :
           disposeRequested[f] => state[f] \in {"loading", "unloading", "failed", "gone"}
    /\ why \in {"applied", "unwound"} => ~disposeRequested[cur]

\* The exit.
Closed ==
    /\ exited <=> pc = "exited"
    /\ exited => registry = {} /\ inbox = <<>> /\ sendMu = Free

\* The invariant the safety proofs rest on: see its parts.
Inductive ==
    /\ TypeOK
    /\ Tokens
    /\ Visits
    /\ Enrolled
    /\ Announced
    /\ Scoped
    /\ Owed
    /\ Retired
    /\ Closed
-----------------------------------------------------------------------------
(* What settling rests on, beyond the parts above. *)

\* Somebody will end what f is doing: its goroutine, the report on its way, or
\* the loop with the report in hand.
Attended(f) ==
    \/ job[f] # "idle"
    \/ IsReport(outgoing[f], f)
    \/ \E i \in DOMAIN inbox : IsReport(inbox[i], f)
    \/ why \in {"applied", "unwound"} /\ cur = f

\* A fiber in transition is attended to.
Expected == \A f \in Fibers : state[f] \in {"loading", "unloading"} => Attended(f)

\* Every list of inverses has the numbers of its Provides in the order they were
\* given out, and no number is on two lists.
Ascending ==
    /\ \A o \in Owners : \A i \in DOMAIN inverses[o] : inverses[o][i] <= seq
    /\ \A o \in Owners : \A i, j \in DOMAIN inverses[o] :
           i < j /\ inverses[o][j] # ApplyInverse => inverses[o][i] < inverses[o][j]
    /\ \A o, p \in Owners : \A i \in DOMAIN inverses[o], j \in DOMAIN inverses[p] :
           inverses[o][i] = inverses[p][j] /\ inverses[o][i] # ApplyInverse => o = p

\* The loop ends, and the root unwinds, only after shutdown has begun.
Stops ==
    /\ pc \in {"exit", "exited"} => stopping
    /\ job[Root] # "idle" => stopping

\* The loop asks about no key but those its fiber depends on.
Asking == why # "idle" => left \subseteq Inject[cur]

\* The present services ask for another state of f than it is in.
Unsettled(f) ==
    \/ state[f] = "pending" /\ f \in registry /\ Satisfied(f)
    \/ state[f] = "active" /\ \E k \in Inject[f] :
           External(k, f) = 0 \/ External(k, f) # depSnap[f][k]

\* Something that ends in a command to the loop, and so in a new pass.
UnderWay ==
    \/ inbox # <<>>
    \/ \E p \in Procs : ~Idle(p)
    \/ \E f \in Fibers : job[f] # "idle"

\* The loop itself will come to f, with the services as they are now.
Awaits(f) ==
    \/ pc = "settle" \/ why \in {"applied", "unwound"}
    \/ changed /\ (pc = "visit" \/ why \in {"pending", "active"})
    \/ f \in todo
    \/ cur = f /\ why = "pending"
    \/ cur = f /\ why = "active" /\ \E k \in left :
           External(k, f) = 0 \/ External(k, f) # depSnap[f][k]

\* No wake-up is lost: a fiber whose services ask for another state is one the
\* loop will come to, or a command that makes it do so is under way.
Watched == ~stopping => \A f \in Fibers : Unsettled(f) => UnderWay \/ Awaits(f)

\* The second inductive invariant, on top of the first.
Accounting ==
    /\ Expected
    /\ CountersExact
    /\ Ascending
    /\ Stops
    /\ Asking
    /\ Watched
-----------------------------------------------------------------------------
(* What the end of shutdown, and the set of active fibers, rest on. *)

\* The Apply of f has failed and its report is under way.
Failure(c, f) == c.type = "applied" /\ c.fiber = f /\ c.err

Erred(f) == Failure(outgoing[f], f) \/ \E i \in DOMAIN inbox : Failure(inbox[i], f)

\* f is active, or its Apply has not failed so far.
Sound(f) == state[f] = "active" \/ (state[f] = "loading" /\ ~Erred(f))

\* What a fiber offers and Apply has still to provide shrinks to nothing, and the
\* rest is in the table from then on until the fiber is unloaded.
Delivered ==
    /\ \A f \in Fibers :
           /\ toProvide[f] \subseteq Offers[f]
           /\ job[f] # "apply" => toProvide[f] = {}
    /\ \A f \in Fibers \ Manual : Sound(f) =>
           \A k \in Offers[f] \ toProvide[f] : \E e \in provides : e.owner = f /\ e.key = k

\* Components that cannot fail one another: no Apply fails of itself or reads, and
\* a key has one fiber that offers it, and late provides only if nobody needs it.
Placid ==
    /\ Readers = {} /\ Flaky = {}
    /\ \A f \in Fibers : LateKeys \cap (Inject[f] \cup Offers[f]) = {}
    /\ \A f, g \in Fibers : f # g => Offers[f] \cap Offers[g] = {}

\* Among such components every Provide succeeds, and so does every Apply.
Unfailing ==
    Placid =>
        /\ \A e \in provides : e.owner \in Fibers => e.key \in Offers[e.owner] \cup LateKeys
        /\ \A f \in Fibers : toRead[f] = {} /\ ~failed[f] /\ ~Erred(f)
        /\ ~stopping => \A f \in Fibers : state[f] # "failed"

\* Shutdown.  Nothing else closes the root.  A sender asleep on the full channel is
\* inside send.  A pass that began before shutdown has the command that announced it
\* ahead; a pass after it leaves only fibers that somebody attends to; and the loop
\* waits only for a command that is under way.
Withdrawing ==
    /\ ctx[Root] = "closed" => stopping
    /\ sendMu # Free => ~Idle(sendMu)
    /\ stopping =>
           /\ pc = "visit" \/ why \in {"pending", "active"} => UnderWay
           /\ pc \in {"finish", "exit"} => UnderWay \/ registry = {}
           /\ pc = "recv" => UnderWay

\* The third inductive invariant, on top of the other two.
Delivery ==
    /\ Delivered
    /\ Unfailing
    /\ Withdrawing

\* Components for which the outcome does not depend on the schedule: placid ones,
\* whose entries clients leave alone, and whose dependencies make no circle.
Orderly ==
    /\ Placid
    /\ Manual \subseteq {Root}
    /\ \E rank \in [Fibers -> 0 .. Cardinality(Fibers)] :
           \A f, g \in Fibers :
               f # g /\ Inject[f] \cap Offers[g] # {} => rank[g] < rank[f]
=============================================================================
