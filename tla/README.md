# A verification project for stc-go

stc-go runs *components* as *fibers*: a component names the services it depends
on (`Inject`) and has an `Apply` function that installs effects; a single event
loop loads a fiber when its dependencies are provided, unloads it when one goes
away or is replaced, and undoes whatever it installed in reverse order. This
directory holds TLA+ modules that model that machinery, the tree of contexts that
scopes it, and the WASM handle and file watchers built on it, TLC configurations
that check them on small instances, and theorems that TLAPS proves for all values
of the constants. Paths such as `orchestrator.go:67`
are relative to the repository.

    tlc -workers 2 -config Chain.cfg MCOrchestrator.tla   # and the other .cfg files
    tlc -workers 2 -config Handle.cfg WasmHandle.tla
    tlc -workers 2 -config Scopes.cfg MCContextTree.tla   # and Notices.cfg
    tlc -workers 2 -config Watch.cfg WatchLoop.tla
    tlapm InvariantProofs.tla

## The system

| Part | State | Operations | Talks to | What is hard |
|---|---|---|---|---|
| Command inbox (`orchestrator.go`) | bounded channel, `sendMu`, `inflight`, `exited` | `send` | every goroutine sends, the loop receives | a sender sleeps on the full channel with the mutex held; the loop's exit test needs the mutex |
| Event loop (`orchestrator.go`) | the registry, `stopping`; per fiber `disposeRequested`, `failed`, `depSnap` | `handle` of five commands, `settle`, exit test, `shutdown` | reads the service table, starts goroutines | dependencies are read key by key while everybody changes them; dispose during a load; shutdown |
| Fiber (`fiber.go`) | `FiberState`, the context of the present cycle | `Load`, `Dispose`, `Ready`, `Gone`, accessors | inbox, waiters | several cycles with one handle, late answers |
| Context and service table (`context.go`) | `closed`/`unwinding`, list of inverses, children, `provides` stacks, generations | `Provide`, its inverse, `Service`, `Effect`, `unwind`, `Close`, `Release`, `Child` | notifies the loop and the waiters | a provide that races the unwinding; inverses called by hand |
| Realms, interceptors, values, events (`context.go`, `key.go`) | maps under the shared lock | `Isolate`, `Intercept`, `Set`/`Get`, `On`/`Emit` | the same list of inverses | undoing `Isolate` changes what keys mean and tells nobody |
| Waiters (`fiber.go`, `context.go`) | a channel closed and replaced by each change | `Ready`, `Gone`, `WaitService` | loop, provides | a wake-up lost between test and sleep |
| Trace (`trace.go`) | a bounded log | `Trace` | all | dropping at the bound |
| Stable registry (`registry/`) | name to value with generations | `Register`, its inverse, `Lookup`, `List` | Apply functions | the inverse of a superseded registration |
| WASM component and handle (`wasm/`) | `Handle.mu`, fiber, bytes, shared instance reference | `Load`, `Update`, `Call`, `Dispose` | fibers, guest instances | update with rollback, deadlines, calls against unloading |
| Guest SDK (`guest/`) | none in the host | pointer packing | runs in the guest | |
| Watchers (`watch/`, `hmr/`) | debounce timer, the kernel's queue | `Watch`, `Close` | file system; `hmr` drives `Handle.Update` | timer against events against `Close`; overflow; an Update that blocks the loop |

What makes each part right: no command is lost or handled twice and the counters
of the exit test are exact (inbox); each fiber has at most one goroutine and one
report, follows the `FiberState` diagram, ends up where its dependencies say and
never revives after disposal (loop); what is in place belongs to a live fiber
and is undone newest first, and a key has one provider (contexts); `Close`
ends and leaves nothing (all of them); a handle runs one version, the one the
last update settled on, and Calls never reach a dead instance (WASM); no inverse
and no scope is lost to an unwinding that races with it, and children are undone
before their parents (context tree); whoever waits for a service, the loop and
`WaitService`, hears of every change (waiters, realms); the newest registration
is the one seen (registry); the last state of a file is read (watchers).

`PROJECT.json` lists the components, and under `hazards` the places in the code
that a test would hardly reach, each with the properties that watch it.

## The modules

`Mailbox`, `Services` and `Contexts` are the parts, `Orchestrator` composes them
(each EXTENDS the ones it uses) and adds loop, fibers, goroutines and clients.

* **Mailbox** is `send`. A process in `send` has its command in `outgoing`;
  `Enqueue`, `Block` and `Reject` are the three things that can happen to it.
  Lock, test of `exited`, count and channel operation are one step, because only
  the loop touches the channel meanwhile and it only makes room. A sender that
  finds the channel full keeps `sendMu` (`Block`) and finishes with `Enqueue`.
* **Services** is the table `provides`. Sequence numbers are never reused, so the
  stack of a key is a set of entries whose newest has the largest number.
  `External` is `resolveExternal`: a fiber's own entries do not count for it.
* **Contexts** gives each owner (the root, and each fiber for its present load
  cycle) a list of inverses. An inverse is named by the sequence number of the
  entry it removes; 0 is the inverse `Apply` returned. Contexts of earlier cycles
  are closed for good and need no state.
* **Orchestrator**. `pc` is the place of the loop: `recv`, `deps` and `capture`
  (it reads the dependencies of `cur`, one key per step, because the code takes
  the lock once per key), `settle`, `visit`, `finish`, `exit`, `exited`. `why`
  says what the answer decides: a report of Apply, a report of unwinding, or a
  visit by `settle` to a pending or active fiber. `job` is the goroutine of each
  fiber and, under `Root`, the goroutine of `Close`. Apply reads its dependencies
  (`toRead`, only for `Readers`), provides its keys (`toProvide`), and returns an
  inverse or an error; unwinding runs one inverse per step; both report with a
  command. The setters of the state of a fiber are the handlers themselves, so
  the guard of each action is the `switch` and the early returns of the code.
* **Lifecycle** is the abstract specification of a handle: the diagram of
  `FiberState` (`fiber.go:10-14`), disposal is final, and something is in place
  only while loading, active or unloading. `OrchestratorProperties!Promise`
  maps the orchestrator to it.
* **OrchestratorProperties** states types, safety, action and liveness properties;
  **OrchestratorInvariant** the three inductive invariants, `Inductive`, on top of it
  `Accounting`, and on top of both `Delivery`; and `Orderly`, the condition under
  which the outcome of settling does not depend on the schedule.
* **MCOrchestrator** gives TLC two shapes of components: a *chain* (root provides
  `a`; f1 builds `b` on `a`; f2 depends on `b`) and a *duel* (both offer `b`, f2
  depends on `a`).
* **WasmHandle** is `wasm.Handle` and the part of `wasm.component` that shares the
  instance reference with it. Fibers are numbered in the order they are loaded,
  as the code numbers them. `phase` and `inCall` are the goroutine that holds
  `Handle.mu`: inside `Load`, at one of the four places where `Update` can stop,
  or inside a guest function. Of the life cycle of fibers it keeps the stages
  the handle can tell apart. Any start may fail (`ApplyFails`), that of bytes that
  have started before as well: it depends on the services it reads and on whether
  what it provides is accepted. `expired` remembers that some caller's
  `context.Context` has ended early (which `hmr` does on cancellation).
* **ContextTree** is `context.go` seen from the tree. The orchestrator knows fibers
  and one context each; here a fiber is nothing but its context, which the loop
  makes (`Child`), cuts loose (`Detach`) and unwinds (`Release`), and the subject is
  what any number of goroutines do to the tree at the same time. An effect is
  named by its place in `log`, and its inverse by the same number: `inverses` is the
  list of each context, a frame of `stack` is one call of `unwind` with the children
  and inverses it took and has not dealt with, `task` is what a goroutine has to do
  after the lock is released: register or run the inverse of an `Effect`, or wake
  the waiters. `Descend`, `RunInverse` and `Return` are the two loops of `unwind` and
  its end. A key resolves through `RealmOf` (the nearest isolation on the way up)
  and falls back to the root realm. `wait` and `stale` are the calls of `WaitService`
  and whether the channel each one holds has been closed; `told` and `known` are the
  loop's notice and the generation it saw last.
* **StableRegistry** is `registry.Registry`, a part of ContextTree: its members are
  registered through `Effect`, as the package intends.
* **MCContextTree** gives TLC two trees and what is installed where.
* **WatchLoop** is the loop of `hmr.Watcher` and of `watch.Watcher` (`form` says which;
  they differ in the operations they follow and in the callback), with the file,
  the kernel's queue of notifications, the timer, and the callback that reads the
  file. The file has a version and may be torn, that is, half written. Of the handle
  it has the mutex: the callback of `hmr` waits for it (`Lock`) before anything else
  that Update does, while other Updates and Calls hold it as long as they like
  (`held`, `Hold`, `Unhold`).
* **OrchestratorProofs**, **InvariantProofs**, **SettlementProofs** and
  **RefinementProofs** hold the theorems about the orchestrator, **HandleProofs** those
  about the handle, **ScopeProofs** and **TreeProofs** those about the tree of contexts,
  **WatchProofs** those about the watchers.

Definitions whose comment begins with "Mutant:" are deliberate faults. They
appear in no specification; substituting one for the definition that follows it
must break the property `PROJECT.json` pairs it with.

## What is abstracted

In the orchestrator: values, names and errors; a fiber is loaded once, from the
root context; one realm; `Effect`, `On` and `Intercept` are not told apart from other
inverses. `MaxOps` bounds the calls of clients other than `Load` and `Close` (a guard of
those calls only, so it never stops the system). `Flaky`, `Readers`, `LateKeys`
and `Manual` switch on the behaviours of Apply functions and clients that a
shape of components has. `MaxLoads` and `MaxFlips` bound the fibers a handle loads
and the changes of its dependency; `Update` begins only when both the new
version and a rollback still fit. In `WasmHandle` a failing Apply and the end of
an unwinding are one step each; a Call that finds no module changes nothing and
has no action.

In `ContextTree` there is one key, realms are one level deep, and each context is
made at most once; what `Effect` installs is a registration in a stable registry,
which is the case where the order of inverses can be seen; listeners and
interceptors are effects like others. `MaxEffects` bounds the effects ever
installed and `Menu` says what is installed where; neither stops an unwinding. The
loop is only what it looks at: `Evaluate` reads one dependency of one fiber, and
what it makes of the answer is in `Orchestrator`. The
inverse that an Apply returns is not an effect of the tree: the loop appends it to
the fiber's context unless that is being unwound (`orchestrator.go:143`), one born
closed included, and it is in `Orchestrator`, whose contexts are never born closed.
A call refused with an error
changes nothing and has no action.

In `WatchLoop` a version of the file is the number of the step that made it;
`MaxSteps` bounds these. A change of another file, or one that carries no content,
is `Chmod`. The kernel's queue holds `QueueCap` notifications and then one overflow
mark, as inotify's does; the goroutine of fsnotify that hands it on is not a step of
its own, and a loop that does not read `Errors` stops it. The callback's reading is
one step, the rest of the callback another; which event of a burst the callback is
given is left out. `OnFire` of `watch.Watcher` is assumed to return, and so are a
guest's `start` and `stop`, which `Update` waits for.

## What the runs show

| Run | Instance | Checked | Result |
|---|---|---|---|
| Chain | 2 clients, 2 fibers, channel of 1, 2 calls | `TypeOK`, `Inductive`, `Accounting`, `Delivery`, `OneReport`, `CountersExact`, `QuietMeansSettled`, `ExitedClean`, `NeverStranded`, `ConfluentEnd` | holds, 665 565 states |
| Duel | 1 client, channel of 4, f2 reads and may fail, late provides of `b`, inverses of the root and of f1 called by hand | `OneFiberProvider`, `ActiveDelivers`, `HeldOnlyWhileLive`, `QuietMeansSettled`, `ExitedClean`, `UndoneInReverse`, `KeepsPromise` | holds, 4 438 601 states |
| Live | chain, 1 client, channel that never fills, fair | `CloseCompletes`, `DisposeCompletes`, `ComesToRest` | holds, 374 912 states |
| Handle | 4 fibers, good and broken binaries, starts that may fail, 2 flips, fair | `TypeOK`, `RefAlive`, `NoOrphans`, `CallsCurrent`, `ActiveIsCallable`, `WithdrawalCompletes`, `RollbackServes` | holds, 97 464 states |
| Scopes | root, zone with a leaf, a fiber loaded in the zone with a child of its context; 2 goroutines, 3 effects, fair | `TypeOK`, `NothingLost`, `ChildrenFirst`, `NewestRegistrationShown`, `ReleaseReturns` | holds, 297 788 states |
| Notices | root, zone, a fiber in the zone; 2 goroutines, one realm below the root realm, one `WaitService` in the zone, 3 effects | `NoLostWakeup`, `DependencyFollowed` | holds, 3 878 603 states |
| Watch | both forms, 3 changes of the file, queue of 2, fair | `TypeOK`, `QuietMeansCurrent`, `CatchesUp`, `CancelStops`, `CloseStops` | holds, 115 422 states |
| Blocked | chain, channel of 2 | `LoopNeverBlocks` | violated |
| StaleRead | f1 reads its dependency | `ServesCurrent` | violated |
| Confluence | f1 reads its dependency, 3 calls | `ConfluentEnd` | violated |
| LateStart | as Handle | `SettledVersion` | violated |
| TornCall | as Handle | `CallUndisturbed` | violated |

Why these bounds are enough to be interesting: two fibers are what it takes for
a cascade, a contest, and a reload of one while the other is in transition. A
channel of one place makes senders, inverses and goroutines that report sleep on
it with the mutex held in most schedules of Chain, which is where `inflight`
and the exit test could go wrong; a channel of four in Duel hardly ever fills
and leaves the interleavings of providers. Two client calls beside Load and
Close make a provide that is withdrawn or replaced, or a dispose in any
state. In Handle, four fibers are one load, an update that succeeds and one
that rolls back; two flips withdraw the dependency and bring it back at any
moment. In Scopes, five contexts are one of each sort: a root, a scope with two below
it of which one is detached, and a child of a detached one; two goroutines are
what it takes for one to unwind, pass over or install in what the other is
unwinding. In Notices three effects are a provide, an isolation that hides it and a
provide in the other realm. In Watch, a queue of two overflows within one burst,
and three changes are a write in place, a save during the callback that reads it,
and a removal. CHECK_DEADLOCK is off because the system really stops: after Close, and when the
clients have nothing more to say.

### Disagreements found

* **Blocked.** `send` puts the command into the channel while it holds `sendMu`
  (`orchestrator.go:67`), and the loop takes `sendMu` before it exits
  (`orchestrator.go:84`). With the channel full, a sender waits for room and the
  loop for the sender. The comment at `orchestrator.go:13` says the loop never
  blocks. The capacity is 4096, so it takes a burst of that size. A full channel
  also stops inverses that notify the loop while the loop waits for their
  report; liveness is therefore checked with a channel that never fills.
* **StaleRead.** The generations are recorded again when Apply has returned, so a
  service replaced after Apply read it and before it returned goes unnoticed
  until the next replacement. The comment at that line says so; the README of
  the repository promises "no stale services".
* **Confluence.** A dependency withdrawn while Apply reads it makes Apply fail,
  and a failed fiber stays out for good, although other schedules of the same
  calls leave it active. For components of which none can make another fail, the
  outcome is settled: Chain shows it and `OutcomeIsDetermined` proves it.
* **LateStart.** A deadline that ends while `Update` waits for the new version
  makes it roll back and report an error, with the new fiber still alive: it
  starts later and later Calls run it.
* **TornCall.** `Call` holds the handle's mutex but the inverse of Apply does not:
  when the fiber is withdrawn for another reason than an Update, `stop` runs and
  the instance is closed while a Call is inside it.

### Where the promise is weaker than the words

Some properties carry an exception or a condition. TLC refutes each of them without
it, and the exceptions are what the code does.

* `ChildrenFirst` does not hold where another goroutine had begun to unwind the
  child. `unwind` passes over a child that is being unwound (`context.go:231`), and a
  child leaves its parent's list when its unwinding begins (`context.go:243`), not
  when it ends: a parent that is released meanwhile runs its own inverses while
  those of the child are still to come. The comment at `context.go:125` says that
  closing a parent unwinds all of the subtree first. For the same reason a second
  `Close` returns at once, while the first is still at work.
* `NoLostWakeup` and `DependencyFollowed` do not hold after an isolation was undone
  until the next notice (`silent`). The inverse of `Isolate` (`context.go:435`) changes
  what keys resolve to and calls neither `wakeServiceWatchers` nor `notifyOrch`, as
  `Isolate` itself does. It matters where the waiter or the fiber lives below the
  isolated context without being unwound with it: a fiber's context is detached,
  but resolves through its home. Such a fiber keeps the service of the realm it is
  no longer in, against the repository's README, which says dependents reload by
  themselves.
* `RollbackServes` excepts a rollback that itself fails. The old bytes are started
  again, and what they read or the keys they provide may have changed meanwhile
  (another component may have taken a key after the old fiber was gone). The comment
  at `wasm.go:255` provides for it. A missing dependency, a closed home and a
  deadline are the other three reasons not to be in service.
* `CancelStops` and `CloseStops` ask, for `hmr`, that nobody keep the handle for ever
  (`HandleFrees`). `Update` takes `Handle.mu` (`wasm.go:257`) before it looks at its
  context, so behind an Update without a deadline whose services are missing, or
  behind a Call whose guest does not return, the loop hears neither of cancelling
  nor of `Close`.
* `CloseStops` asks besides that the services the component injects come back.
  `Close` closes a channel the loop looks at between callbacks, and an `Update` that
  waits for the new version is inside a callback; cancelling the context reaches it
  there. The comment at `hmr.go:120` calls the two equivalent. Until the loop ends,
  both ways may be followed by further callbacks, since `select` prefers no case.

`QuietMeansCurrent` and `CatchesUp` speak of a file whose changes were all notified
(`Settled`): after an overflow the loop reports an error and does not read the file,
and changes made before `fw.Add` or, for `hmr`, plain removals are not followed.

### Fairness

`FairSpec` of the orchestrator: weak fairness of the loop (a goroutine that can
run, runs), of each fiber's goroutine (Apply functions and inverses return), of
each sender, and of `Close` once called. Nothing makes a client call anything.
Go's mutexes and channels serve waiters in turn, and in these runs the channel
never fills, so weak fairness per sender is all that is used. `FairSpec` of the
handle: weak fairness of the fibers and of a goroutine inside Load or Update
whose condition holds. Guest functions need not return and deadlines need not end.
`FairSpec` of the tree: weak fairness of each goroutine inside a call (inverses
return, and the lock is granted in turn); nobody need call anything. `FairSpec` of
the watchers: weak fairness of the loop's goroutine, of the timer, and of whoever is
in the middle of writing the file, and strong fairness of `Lock`, because others may
take the handle's mutex between any two moments at which it is free: `sync.Mutex`
hands itself to a waiter after a millisecond, so one that is free again and again
comes to every waiter, and nobody need ever leave it. For the loop itself one
condition covers all cases of the `select`, which picks among those that are ready,
so no case is assumed to be taken in preference to another.

## What is proved

For every set of fibers, keys and clients, every shape of components, every
capacity and bound that satisfies the named assumptions:

* `OrchestratorProofs!TypeCorrect` and `NoDuplicateProviders`: types, and one fiber
  per key. These need nothing but themselves.
* `InvariantProofs!InvariantHolds`: `Inductive` is an invariant. The safety
  properties are not inductive: that a waiting fiber has nothing in place depends
  on its context having been unwound, that on the report having been sent by the
  one goroutine, and that on the place of the loop. The parts of `Inductive` say
  so one by one: `Tokens` (goroutine, report under way, report in the channel and
  the loop's decision exclude one another and fix the state), `Visits` (the loop's
  snapshot), `Enrolled` and `Announced` (registry and Load commands), `Scoped`
  (contexts), `Owed` (whatever is in place has its inverse listed or carried by a
  report), `Retired` (disposal), `Closed` (exit). Each action has one lemma per part.
* `NothingLeftBehind` (`HeldOnlyWhileLive`) and `ExitLeavesNothing` (`ExitedClean`)
  follow from it.
* `SettlementProofs!AccountingHolds`: `Accounting` is an invariant, given `Inductive`.
  It has what settling rests on. `Expected`: a fiber in transition is attended to by
  its goroutine, a report, or the loop with the report in hand. `CountersExact`: the
  two counters of the exit test. `Ascending`: every list of inverses has the numbers
  of its Provides in the order they were given out. `Stops` and `Asking`: shutdown
  has begun where the loop leaves, and the loop asks about the keys of its fiber only.
  `Watched`: a fiber whose services ask for another state than it has is one that the
  loop will come to, with the services as they are now, or a command that starts a
  new pass is under way. The hard part is `Watched`, because the loop reads one key
  per step while everybody changes the table: every step that changes what a fiber
  sees leaves a notification to be sent, and every step that takes the loop past a
  fiber leaves one it has found to be right, or a pass that will be repeated.
* From the two: `OneReportEach` (`OneReport`), `CountersAreExact` (`CountersExact`),
  `QuietIsSettled` (`QuietMeansSettled`: with nothing under way, nothing is left that
  `Watched` could point to) and `NewestUndoneFirst` (`UndoneInReverse`): the inverse
  that a step of an unwinding runs is the last on the list of its context, the lists
  ascend (`Ascending`), and the entries in place are on them (`Owed`). It speaks of the
  steps of unwinding, whichever the context, so it covers those whose entries
  clients take out by hand.
* `SettlementProofs!DeliveryHolds`: `Delivery` is an invariant, given the other two.
  `Delivered`: as long as an Apply has not failed, what it has provided stays in the
  table until the fiber is unloaded; neither a late answer nor another provider takes
  it away. `Unfailing`: among components that cannot fail one another (`Placid`) every
  Provide succeeds, so no fiber fails before shutdown. `Withdrawing`: during shutdown
  the loop returns to the channel only if a command is under way. It has to say this
  of each place of the loop: a pass that began before `Close` has the command of
  `Close` still ahead, and one that began after it leaves each fiber gone or with a
  goroutine that will report. The report that leaves the registry empty finds the
  counters at zero because no other sender is left (`LastExitTest`).
* From it: `ActiveFibersDeliver` (`ActiveDelivers`) and `ShutdownNeverStrands`
  (`NeverStranded`). The latter is the safety half of `CloseCompletes`, with any
  channel: after `Close` something is under way until the loop has exited. That
  what is under way can also go on fails in one case, the one Blocked shows.
* `OutcomeIsDetermined` (`ConfluentEnd`), assuming `Orderly`: once nothing is under way
  the active fibers are the least set that the loaded components and the services
  of the root support. An active fiber has its dependencies, from the root or from
  another active fiber (`QuietIsSettled`), which comes earlier in the order of
  dependencies, so by well-founded induction all active fibers are supported
  (`RestingFibers`); conversely the active fibers support whatever they satisfy,
  since each has provided what it offers and a waiting one lacks something. Each
  condition of `Orderly` is needed. Applies that read or fail, two components that offer
  one key, and late provides of a key somebody needs or offers leave a fiber failed
  or not with the schedule, as in the run Confluence; inverses called by hand take
  away what an active fiber offers; and in a circle (f1 needs `a` and offers `b`, f2
  needs `b` and offers `a`, the root provides `a` and withdraws it) two fibers may
  keep each other active without any support (TLC finds that end too).
  `ChainIsOrderly` in `MCOrchestrator` has
  TLC check that the components of Chain satisfy it; no proof uses that.
* `RefinementProofs!LifecycleImplemented`: the orchestrator implements `Lifecycle`.
  Every step moves each fiber along the diagram or leaves it in its place.
* `HandleProofs`: `ReferenceNeverDangles` (`RefAlive`), `NoFiberLeftBehind`
  (`NoOrphans`), `CallsRunCurrentVersion` (`CallsCurrent`) and `ActiveFibersAreCallable`
  (`ActiveIsCallable`). The invariant adds where
  the holder of the mutex is (`Placed`), which bytes the fibers that matter run
  (`Versioned`), that an instance belongs to a fiber that is loading, active or
  unloading (`Housed`), and who is alive while no deadline has ended (`Alone`). The
  last theorem needs one thing more (`Shown`): an active fiber's instance runs, and the
  reference is to the instance that runs. An inverse clears the reference whatever it
  refers to, so this rests on two fibers never being alive at once (`OneAlive`).
* `HandleProofs!HandleTypeCorrect`: the types of the handle, from the same invariant.
* `ScopeProofs!NothingIsLost` (`NothingLost`), for every tree, every number of
  goroutines and any menu of effects. `ScopeInv` adds to the property only the shape
  of the state (`Shape`): the property says, for every effect in place, in whose hands
  its inverse is, and for every open context, how its parent's unwinding will reach
  it, and that is inductive: each step hands on what it takes. One lemma per sort
  of step: effects put in place, effects undone (`UndoSafe`), contexts entered
  (`EnterSafe`), frames with less to do (`LessToDoSafe`), and steps that only look.
* `TreeProofs`, for the same trees, goroutines and menus, with any number of waiters:
  * `TreeTypeCorrect` (`TypeOK`). A realm is found by recursion up the tree
    (`RealmOf`); that the recursion has a value, and a realm for one, is proved from the
    well-ordering of the numbers: of the contexts for which it fails, none is nearest
    to the root (`Nearest`, `DefinedUpwards`).
  * `NewestIsShown` (`NewestRegistrationShown`): an undone registration clears the name
    only if it is the one shown, and a new one is the newest.
  * `NoWakeupIsLost` (`NoLostWakeup`) and `DependenciesAreFollowed` (`DependencyFollowed`).
    The invariant (`NoticeInv`) covers a waiter from the moment it has looked; the lemma
    behind it (`EntriesKept`, `UndoUnseen`) is that every step that changes what any key
    resolves to in any context leaves a goroutine that owes the wake-up, the undoing
    of an isolation excepted.
  * `ChildrenComeFirst` (`ChildrenFirst`). The invariant (`Lineage`) says that lists and
    frames hold children of their context, that frames belong to closed contexts, and
    that the frames of a goroutine go down the tree. A context below the one whose
    inverse runs, with something left to undo, is either open, and then, going up from
    it, one meets a frame of another goroutine before the closed context whose
    children are done (`OpenBelow`); or it is being unwound, by another goroutine because
    the newest frame of this one is its deepest (`LeftBelow`).
* `WatchProofs`: `WatchTypeCorrect` and `DebounceLosesNothing` (`QuietMeansCurrent`).
  The strengthening (`Kept`) drops the condition that the loop is at rest: as long as
  it runs and the file is settled, what was read is what the file holds, or the next
  reading is on its way as a followed notification in the queue, a timer, or a
  callback about to read.

The assumptions are those of `MailboxAssumption`, `ServicesAssumption`,
`OrchestratorAssumption`, `WasmAssumption`, `TreeAssumption`, `RootedAssumption` (there are
finitely many contexts and the parents lead up to the root, as they do in a tree in
which a context is made from one that is there) and `WatchAssumption`; TLC evaluates
them in every run.

Only model-checked: all liveness (`CloseCompletes`, `DisposeCompletes`, `ComesToRest`,
`WithdrawalCompletes`, `RollbackServes`, `ReleaseReturns`, `CatchesUp`, `CancelStops`,
`CloseStops`), because liveness under fairness and ENABLED are beyond the prover. The five violated
properties are refuted by TLC; one of them, `ConfluentEnd`, is a theorem for the components
that `Orderly` describes and fails for those of Confluence.

## Not modelled, and the plan

* The values of contexts (`Set`, `Get`) and reading interceptors: one critical
  section each, with no step that spans two.
* `Emit`: it calls a copy of the listeners outside the lock, so a listener may be
  called after its inverse has run. No comment promises otherwise, and the tree's
  state does not change.
* `Ready` and `Gone`: the protocol of `WaitService`, line by line, on another channel.
* The trace ring: a bounded log by which nothing is decided.
* Typed keys: immutable values. Type tests of values at run time.
* The guest SDK, the memory protocol of `Call` and the host functions: they run in or
  against a guest's memory, of which the host keeps no state.
* The example host, and file-system notification itself (external to `WatchLoop`).
* The orchestrator over a tree with more than one level: `Orchestrator` loads fibers
  from the root, `ContextTree` covers what happens to the contexts. Composing the two
  is beyond TLC at sizes where the interesting cases happen.

Every invariant and every action property that the passing runs check is a theorem,
`ConfluentEnd` for components that are `Orderly`.
