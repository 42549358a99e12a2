---------------------------- MODULE ContextTree -----------------------------
(***************************************************************************)
(* The tree of contexts: children, effects and their inverses, Release and *)
(* Close, isolation, and those who are told when services change, the      *)
(* waiters of WaitService and the loop.  All contexts share one lock; what *)
(* a call does under it is one step, and what it does before or after is   *)
(* another.  Any number of goroutines call at the same time.               *)
(*                                                                         *)
(* The life cycle of fibers is in module Orchestrator; here a fiber is its *)
(* context, which the loop makes (Child), cuts from its parent (detach)    *)
(* and later unwinds.  An effect is named by its place in the log.  There  *)
(* is one service key, and one level of realms below the root realm.       *)
(***************************************************************************)
EXTENDS StableRegistry, SequencesExt

CONSTANTS
    Contexts, Top, Parent,      \* the contexts, the root, and the parents of the others
    FiberContexts,              \* those that belong to a fiber
    Dependent,                  \* the fiber context whose dependency the loop watches
    RootRealm, Realms,          \* Realms are the ones below the root realm
    Threads,                    \* goroutines that call
    Waiters, WaitsAt,           \* calls of WaitService, and the context of each
    Menu,                       \* the kinds of effects installed in each context
    MaxEffects                  \* bound on the effects installed

Kinds == {"provide", "isolate", "listener", "member"}

ASSUME TreeAssumption ==
    /\ Top \in Contexts
    /\ Parent \in [Contexts \ {Top} -> Contexts]
    /\ FiberContexts \subseteq Contexts \ {Top} /\ Dependent \in FiberContexts
    /\ RootRealm \notin Realms
    /\ WaitsAt \in [Waiters -> Contexts]
    /\ Menu \in [Contexts -> SUBSET Kinds]
    /\ MaxEffects \in Nat

\* A context is made from one that is there: the parents lead up to the root.
ASSUME RootedAssumption ==
    /\ IsFiniteSet(Contexts)
    /\ \E depth \in [Contexts -> 0..Cardinality(Contexts)] :
           \A c \in Contexts \ {Top} : depth[Parent[c]] < depth[c]

VARIABLES
    \* the tree
    mode,       \* "none" yet, "open", or "closed" (unwinding too)
    children,   \* those the unwinding of a context descends into
    detached,   \* the fiber contexts that are cut from their parents
    \* the effects
    log,        \* all effects installed so far: where, which kind, what of
    inPlace,    \* the effects in place
    inverses,   \* per context: the effects whose inverses are registered
    isolation,  \* realmFor
    \* the goroutines
    stack,      \* the calls of unwind that a goroutine is inside of
    task,       \* what it has to do before anything else
    \* those who are told
    wait, stale,    \* per waiter: where it is, and its channel is closed
    told,           \* the loop has been notified
    known,          \* what the dependency was when it looked last
    silent          \* an isolation was undone since anybody was told

treeVars == <<mode, children, detached>>
effectVars == <<log, inPlace, isolation, members>>
waitVars == <<wait, stale>>
loopVars == <<told, known, silent>>
vars == <<treeVars, effectVars, inverses, stack, task, waitVars, loopVars>>

None == "none"
NoTask == [do |-> "none", id |-> 0]

Effects == 1..Len(log)
At(e) == log[e].at

\* x is taken out of s, if it is there.
Without(s, x) ==
    IF x \in ToSet(s) THEN RemoveAt(s, CHOOSE i \in DOMAIN s : s[i] = x) ELSE s

\* The goroutine is in no call, or inside unwind with nothing else to do first.
Free(t) == task[t] = NoTask
Idle(t) == Free(t) /\ stack[t] = <<>>

Frame(t) == Last(stack[t])

\* A context that its users have: a fiber's Apply gets the context after detach.
Known(c) == mode[c] # "none" /\ (c \in FiberContexts => c \in detached)

Init ==
    /\ mode = [c \in Contexts |-> IF c = Top THEN "open" ELSE "none"]
    /\ children = [c \in Contexts |-> <<>>] /\ detached = {}
    /\ log = <<>> /\ inPlace = {} /\ RegistryInit
    /\ inverses = [c \in Contexts |-> <<>>]
    /\ isolation = [c \in Contexts |-> None]
    /\ stack = [t \in Threads |-> <<>>] /\ task = [t \in Threads |-> NoTask]
    /\ wait = [w \in Waiters |-> "idle"] /\ stale = [w \in Waiters |-> FALSE]
    /\ told = FALSE /\ known = 0 /\ silent = FALSE
-----------------------------------------------------------------------------
(* What a key resolves to. *)

\* The nearest isolation on the way to the root counts.
RealmOf[c \in Contexts] ==
    IF isolation[c] # None THEN isolation[c]
    ELSE IF c = Top THEN RootRealm ELSE RealmOf[Parent[c]]

Entries(r) == {e \in inPlace : log[e].kind = "provide" /\ log[e].of = r}

Newest(S) == IF S = {} THEN 0 ELSE CHOOSE e \in S : \A d \in S : d <= e

\* A realm where nothing is provided falls back to the root realm.
Resolved(c, S) ==
    LET own == S \cap Entries(RealmOf[c])
    IN  Newest(IF own # {} THEN own ELSE S \cap Entries(RootRealm))

Resolve(c) == Resolved(c, inPlace)

\* A fiber does not see what its own context provides; a child of that context
\* has no fiber, and what it provides is seen.
External(c) == Resolved(c, {e \in inPlace : At(e) # c})

\* What some fiber's context provides is refused to every other context.
Refused(c, r) == \E e \in Entries(r) : At(e) \in FiberContexts \ {c}
-----------------------------------------------------------------------------
(* Scopes. *)

Child(c) ==
    /\ c # Top /\ mode[c] = "none" /\ Known(Parent[c])
    /\ IF mode[Parent[c]] = "open"
       THEN /\ mode' = [mode EXCEPT ![c] = "open"]
            /\ children' = [children EXCEPT ![Parent[c]] = Append(@, c)]
       ELSE /\ mode' = [mode EXCEPT ![c] = "closed"]
            /\ UNCHANGED children
    /\ UNCHANGED <<detached, effectVars, inverses, stack, task, waitVars, loopVars>>

\* The loop cuts the context of a new load cycle from its parent, in a critical
\* section of its own; the parent may have been unwound since Child.
Detach(c) ==
    /\ c \in FiberContexts \ detached /\ mode[c] # "none"
    /\ detached' = detached \cup {c}
    /\ children' = [children EXCEPT ![Parent[c]] = Without(@, c)]
    /\ UNCHANGED <<mode, effectVars, inverses, stack, task, waitVars, loopVars>>
-----------------------------------------------------------------------------
(* Effects. *)

\* An effect of kind k is put in place in context c by goroutine t.
Put(t, c, k, x) ==
    /\ Idle(t) /\ Known(c)
    /\ k \in Menu[c] /\ Len(log) < MaxEffects
    /\ log' = Append(log, [at |-> c, kind |-> k, of |-> x])
    /\ inPlace' = inPlace \cup {Len(log) + 1}

\* Mutant: the number of the effect is taken twice.
PutAndKeepAhead(t, c, k, x) ==
    /\ mode[c] = "open"
    /\ Put(t, c, k, x)
    /\ inverses' = [inverses EXCEPT ![c] = Append(@, Len(log) + 2)]

\* Its inverse is registered under the same lock.
PutAndKeep(t, c, k, x) ==
    /\ mode[c] = "open"
    /\ Put(t, c, k, x)
    /\ inverses' = [inverses EXCEPT ![c] = Append(@, Len(log) + 1)]

\* Provide and Isolate have others told after the lock is released.
Provide(t, c) ==
    /\ ~Refused(c, RealmOf[c])
    /\ PutAndKeep(t, c, "provide", RealmOf[c])
    /\ task' = [task EXCEPT ![t] = [do |-> "wake", id |-> 0]]
    /\ UNCHANGED <<treeVars, isolation, members, stack, waitVars, loopVars>>

\* Mutant: Isolate tells nobody.
IsolateUntold(t, c, r) ==
    /\ PutAndKeep(t, c, "isolate", r)
    /\ isolation' = [isolation EXCEPT ![c] = r]
    /\ UNCHANGED <<treeVars, members, stack, task, waitVars, loopVars>>

Isolate(t, c, r) ==
    /\ PutAndKeep(t, c, "isolate", r)
    /\ isolation' = [isolation EXCEPT ![c] = r]
    /\ task' = [task EXCEPT ![t] = [do |-> "wake", id |-> 0]]
    /\ UNCHANGED <<treeVars, members, stack, waitVars, loopVars>>

\* On and Intercept.
Listen(t, c) ==
    /\ PutAndKeep(t, c, "listener", None)
    /\ UNCHANGED <<treeVars, isolation, members, stack, task, waitVars, loopVars>>

\* Effect runs the installation without the lock, and whatever the context's
\* state; here it registers a member in a stable registry.
Install(t, c, n) ==
    /\ Put(t, c, "member", n)
    /\ Register(n, Len(log) + 1)
    /\ task' = [task EXCEPT ![t] = [do |-> "keep", id |-> Len(log) + 1]]
    /\ UNCHANGED <<treeVars, isolation, inverses, stack, waitVars, loopVars>>

\* Mutant: the context is not looked at again.
KeepAnyway(t) ==
    /\ task[t].do = "keep"
    /\ inverses' = [inverses EXCEPT ![At(task[t].id)] = Append(@, task[t].id)]
    /\ task' = [task EXCEPT ![t] = NoTask]
    /\ UNCHANGED <<treeVars, effectVars, stack, waitVars, loopVars>>

\* Then it takes the lock, and keeps the inverse or has to run it itself.
Keep(t) ==
    /\ task[t].do = "keep"
    /\ LET e == task[t].id
       IN  IF mode[At(e)] = "open"
           THEN /\ inverses' = [inverses EXCEPT ![At(e)] = Append(@, e)]
                /\ task' = [task EXCEPT ![t] = NoTask]
           ELSE /\ task' = [task EXCEPT ![t] = [do |-> "drop", id |-> e]]
                /\ UNCHANGED inverses
    /\ UNCHANGED <<treeVars, effectVars, stack, waitVars, loopVars>>

\* The inverse of an effect.  That of Isolate tells nobody.  That of Provide
\* does, except when the entry was withdrawn by hand before.
Undo(t, e) ==
    /\ inPlace' = inPlace \ {e}
    /\ IF log[e].kind = "isolate"
       THEN isolation' = [isolation EXCEPT ![At(e)] = None] /\ silent' = TRUE
       ELSE UNCHANGED <<isolation, silent>>
    /\ IF log[e].kind = "member" THEN Unregister(log[e].of, e) ELSE UNCHANGED members
    /\ task' = [task EXCEPT ![t] = IF log[e].kind = "provide" /\ e \in inPlace
                                   THEN [do |-> "wake", id |-> 0] ELSE NoTask]
    /\ UNCHANGED <<log, told, known>>

Drop(t) ==
    /\ task[t].do = "drop"
    /\ Undo(t, task[t].id)
    /\ UNCHANGED <<treeVars, inverses, stack, waitVars>>

\* A client calls the inverse that Provide returned; it stays registered.
Withdraw(t, e) ==
    /\ Idle(t)
    /\ e \in inPlace /\ log[e].kind = "provide"
    /\ Undo(t, e)
    /\ UNCHANGED <<treeVars, inverses, stack, waitVars>>
-----------------------------------------------------------------------------
(* unwind, for Release and Close.  A goroutine inside of it has one frame per  *)
(* context, with the children and inverses that it took and has not yet dealt *)
(* with.                                                                      *)

\* The context is marked, leaves its parent's list, and hands over its lists.
Enter(t, frames, c) ==
    /\ mode' = [mode EXCEPT ![c] = "closed"]
    /\ children' = [d \in Contexts |-> CASE d = c -> <<>>
                                         [] c # Top /\ d = Parent[c] -> Without(children[d], c)
                                         [] OTHER -> children[d]]
    /\ inverses' = [inverses EXCEPT ![c] = <<>>]
    /\ stack' = [stack EXCEPT ![t] =
                    Append(frames, [ctx |-> c, kids |-> children[c], undo |-> inverses[c]])]

\* Whoever comes second finds the context marked and returns at once.
Release(t, c) ==
    /\ Idle(t) /\ Known(c) /\ mode[c] = "open"
    /\ Enter(t, <<>>, c)
    /\ UNCHANGED <<detached, effectVars, task, waitVars, loopVars>>

\* The same frame with other lists left to do.
With(t, kids, undo) ==
    Append(Front(stack[t]), [ctx |-> Frame(t).ctx, kids |-> kids, undo |-> undo])

\* Mutant: a child that is being unwound is not passed over.
DescendOpen(t) ==
    /\ Free(t) /\ stack[t] # <<>> /\ Frame(t).kids # <<>>
    /\ mode[Last(Frame(t).kids)] = "open"
    /\ Enter(t, With(t, Front(Frame(t).kids), Frame(t).undo), Last(Frame(t).kids))
    /\ UNCHANGED <<detached, effectVars, task, waitVars, loopVars>>

\* The next child is the youngest; one that is being unwound is passed over.
Descend(t) ==
    /\ Free(t) /\ stack[t] # <<>> /\ Frame(t).kids # <<>>
    /\ LET d == Last(Frame(t).kids)
           rest == With(t, Front(Frame(t).kids), Frame(t).undo)
       IN  IF mode[d] = "open"
           THEN Enter(t, rest, d)
           ELSE stack' = [stack EXCEPT ![t] = rest] /\ UNCHANGED <<mode, children, inverses>>
    /\ UNCHANGED <<detached, effectVars, task, waitVars, loopVars>>

\* Mutant: the context's own inverses do not wait for the children.
RunInverseEarly(t) ==
    /\ Free(t) /\ stack[t] # <<>> /\ Frame(t).undo # <<>>
    /\ Undo(t, Last(Frame(t).undo))
    /\ stack' = [stack EXCEPT ![t] = With(t, Frame(t).kids, Front(Frame(t).undo))]
    /\ UNCHANGED <<treeVars, inverses, waitVars>>

\* The children done, the newest inverse is next.
RunInverse(t) ==
    /\ Free(t) /\ stack[t] # <<>> /\ Frame(t).kids = <<>> /\ Frame(t).undo # <<>>
    /\ Undo(t, Last(Frame(t).undo))
    /\ stack' = [stack EXCEPT ![t] = With(t, <<>>, Front(Frame(t).undo))]
    /\ UNCHANGED <<treeVars, inverses, waitVars>>

Return(t) ==
    /\ Free(t) /\ stack[t] # <<>> /\ Frame(t).kids = <<>> /\ Frame(t).undo = <<>>
    /\ stack' = [stack EXCEPT ![t] = Front(@)]
    /\ UNCHANGED <<treeVars, effectVars, inverses, task, waitVars, loopVars>>
-----------------------------------------------------------------------------
(* Who is told. *)

\* wakeServiceWatchers closes the channel and puts a new one in its place;
\* then the loop is notified.
Wake(t) ==
    /\ task[t].do = "wake"
    /\ task' = [task EXCEPT ![t] = NoTask]
    /\ stale' = [w \in Waiters |-> wait[w] # "idle"]
    /\ told' = TRUE /\ silent' = FALSE
    /\ UNCHANGED <<treeVars, effectVars, inverses, stack, wait, known>>

\* The loop looks at its dependencies again.
Evaluate ==
    /\ told
    /\ told' = FALSE
    /\ known' = External(Dependent)
    /\ UNCHANGED <<treeVars, effectVars, inverses, stack, task, waitVars, silent>>

\* WaitService takes the channel,
Subscribe(w) ==
    /\ wait[w] = "idle" /\ Known(WaitsAt[w])
    /\ wait' = [wait EXCEPT ![w] = "subscribed"]
    /\ stale' = [stale EXCEPT ![w] = FALSE]
    /\ UNCHANGED <<treeVars, effectVars, inverses, stack, task, loopVars>>

\* then looks,
Test(w) ==
    /\ wait[w] = "subscribed"
    /\ wait' = [wait EXCEPT ![w] = IF Resolve(WaitsAt[w]) # 0 THEN "idle" ELSE "looked"]
    /\ UNCHANGED <<stale, treeVars, effectVars, inverses, stack, task, loopVars>>

\* Mutant: the channel is taken only now.
SleepAfresh(w) ==
    /\ wait[w] = "looked"
    /\ wait' = [wait EXCEPT ![w] = "asleep"]
    /\ stale' = [stale EXCEPT ![w] = FALSE]
    /\ UNCHANGED <<treeVars, effectVars, inverses, stack, task, loopVars>>

\* and sleeps until the channel is closed,
Sleep(w) ==
    /\ wait[w] = "looked"
    /\ wait' = [wait EXCEPT ![w] = "asleep"]
    /\ UNCHANGED <<stale, treeVars, effectVars, inverses, stack, task, loopVars>>

\* to begin again.  The end of its context.Context ends the sleep as well, and
\* the call; another may follow.
Rouse(w) ==
    /\ wait[w] = "asleep"
    /\ wait' = [wait EXCEPT ![w] = "idle"]
    /\ UNCHANGED <<stale, treeVars, effectVars, inverses, stack, task, loopVars>>
-----------------------------------------------------------------------------
Call(t) ==
    \E c \in Contexts :
        \/ Provide(t, c) \/ Listen(t, c) \/ Release(t, c)
        \/ \E r \in Realms \cup {RootRealm} : Isolate(t, c, r)
        \/ \E n \in Names : Install(t, c, n)

Proceed(t) ==
    Keep(t) \/ Drop(t) \/ Descend(t) \/ RunInverse(t) \/ Return(t) \/ Wake(t)

Next ==
    \/ \E c \in Contexts : Child(c) \/ Detach(c)
    \/ \E t \in Threads : Call(t) \/ Proceed(t) \/ \E e \in Effects : Withdraw(t, e)
    \/ \E w \in Waiters : Subscribe(w) \/ Test(w) \/ Sleep(w) \/ Rouse(w)
    \/ Evaluate

Spec == Init /\ [][Next]_vars

\* A goroutine that can run, runs; inverses return.
FairSpec == Spec /\ \A t \in Threads : WF_vars(Proceed(t))
-----------------------------------------------------------------------------
TypeOK ==
    /\ mode \in [Contexts -> {"none", "open", "closed"}]
    /\ children \in [Contexts -> Seq(Contexts)] /\ detached \subseteq FiberContexts
    /\ log \in Seq([at : Contexts, kind : Kinds, of : Realms \cup {RootRealm, None} \cup Names])
    /\ inPlace \subseteq Effects
    /\ members \in [Names -> Nat]
    /\ inverses \in [Contexts -> Seq(Effects)]
    /\ isolation \in [Contexts -> Realms \cup {RootRealm, None}]
    /\ stack \in [Threads -> Seq([ctx : Contexts, kids : Seq(Contexts), undo : Seq(Effects)])]
    /\ task \in [Threads -> [do : {"none", "wake", "keep", "drop"}, id : Effects \cup {0}]]
    /\ wait \in [Waiters -> {"idle", "subscribed", "looked", "asleep"}]
    /\ stale \in [Waiters -> BOOLEAN]
    /\ told \in BOOLEAN /\ known \in Effects \cup {0} /\ silent \in BOOLEAN

Frames == UNION {ToSet(stack[t]) : t \in Threads}
HeldBy(t) == IF task[t].do \in {"keep", "drop"} THEN {task[t].id} ELSE {}

\* Nothing is lost, whatever is called while contexts are being unwound.  An
\* effect in place has its inverse on the list of an open context, in the hands
\* of somebody who unwinds the context, or with the Effect call that installed
\* it; and an open context below another is one its unwinding will reach.
NothingLost ==
    /\ \A e \in inPlace :
        \/ mode[At(e)] = "open" /\ e \in ToSet(inverses[At(e)])
        \/ \E fr \in Frames : fr.ctx = At(e) /\ e \in ToSet(fr.undo)
        \/ \E t \in Threads : e \in HeldBy(t)
    /\ \A c \in Contexts \ ({Top} \cup detached) :
        mode[c] = "open" =>
            \/ mode[Parent[c]] = "open" /\ c \in ToSet(children[Parent[c]])
            \/ \E fr \in Frames : fr.ctx = Parent[c] /\ c \in ToSet(fr.kids)

\* The contexts above c that take c with them.
Above[c \in Contexts] ==
    IF c = Top \/ c \in FiberContexts THEN {} ELSE {Parent[c]} \cup Above[Parent[c]]

\* Effects whose inverses wait for those who unwind, registered or not yet run.
Left(c) == {e \in inPlace : At(e) = c /\ \A t \in Threads : e \notin HeldBy(t)}

\* A step in which t runs one of the inverses of its newest frame.
Undoes(t) ==
    /\ stack[t] # <<>> /\ Len(stack'[t]) = Len(stack[t])
    /\ Last(stack'[t]).undo # Frame(t).undo

\* Somebody else is unwinding c, or a context above c.
InOtherHands(c, t) ==
    \E u \in Threads \ {t} : \E fr \in ToSet(stack[u]) : fr.ctx \in {c} \cup Above[c]

\* Children first: an inverse of a context runs only when nothing is left to
\* undo in the contexts below, except where another goroutine had begun to
\* unwind them.  (The children of a fiber's context are below it; a fiber's
\* context is not below the one it was made from.)
ChildrenFirst ==
    [][\A t \in Threads : Undoes(t) =>
         \A c \in Contexts : Frame(t).ctx \in Above[c] => Left(c) = {} \/ InOtherHands(c, t)]_vars

Owed == \E t \in Threads : task[t].do = "wake"

\* No wake-up is lost: a call of WaitService sleeps on an open channel while its
\* key resolves only if somebody is still to close that channel, or if an
\* isolation was undone, which closes none.
NoLostWakeup ==
    \A w \in Waiters :
        wait[w] = "asleep" /\ ~stale[w] /\ Resolve(WaitsAt[w]) # 0 => Owed \/ silent

\* The loop hears of every change of a dependency, by whatever call in whatever
\* context it came about, the undoing of an isolation excepted.
DependencyFollowed ==
    ~told /\ ~Owed /\ ~silent => known = External(Dependent)

\* The stable registry shows the newest registration of a name as long as it is
\* in place, and nothing after that, in whatever order contexts are unwound.
NewestRegistrationShown ==
    \A n \in Names :
        LET newest == Newest({e \in Effects : log[e].kind = "member" /\ log[e].of = n})
        IN  members[n] = IF newest \in inPlace THEN newest ELSE 0

\* Whoever calls Release or Close returns, also when others unwind parts of the
\* same tree or add to it meanwhile.
ReleaseReturns == \A t \in Threads : (stack[t] # <<>>) ~> (stack[t] = <<>>)
=============================================================================
