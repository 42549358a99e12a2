------------------------------ MODULE Contexts ------------------------------
(***************************************************************************)
(* Contexts as accumulators of revertible effects: every Provide leaves an *)
(* entry in the service table and its inverse on the context's list, and   *)
(* unwinding the context runs the list from its end.  The inverse an       *)
(* Apply function returns goes on the same list, as the number 0.          *)
(*                                                                         *)
(* The root context lives as long as the tree.  A fiber gets a fresh       *)
(* context in each load cycle; ctx[f] is that of the present cycle, and    *)
(* those of earlier cycles are closed for good, so they refuse everything  *)
(* and need no state.                                                      *)
(***************************************************************************)
EXTENDS Services, Sequences

VARIABLES
    ctx,        \* per owner: "none" yet, "open", or "closed" (unwinding too)
    inverses,   \* per owner: the inverses that remain to be run, oldest first
    effect      \* per fiber: what Apply's returned inverse undoes is in place

ctxVars == <<ctx, inverses, effect>>

ApplyInverse == 0

ContextsInit ==
    /\ ctx = [o \in Owners |-> IF o = Root THEN "open" ELSE "none"]
    /\ inverses = [o \in Owners |-> <<>>]
    /\ effect = [f \in Fibers |-> FALSE]

\* Context.Provide: entry and inverse appear under one lock.
ProvideIn(o, k) ==
    /\ ctx[o] = "open"
    /\ AddEntry(k, o)
    /\ inverses' = [inverses EXCEPT ![o] = Append(@, seq + 1)]
    /\ UNCHANGED <<ctx, effect>>

\* A fresh context for the next load cycle of f (Child, detach).
OpenScope(f) ==
    /\ ctx' = [ctx EXCEPT ![f] = "open"]
    /\ inverses' = [inverses EXCEPT ![f] = <<>>]
    /\ UNCHANGED effect

\* Mutant: unwind() takes the inverses without marking the context.
CloseScopeUnmarked(o) == UNCHANGED <<ctx, inverses, effect>>

\* unwind() marks the context before it runs the first inverse.
CloseScope(o) ==
    /\ ctx' = [ctx EXCEPT ![o] = "closed"]
    /\ UNCHANGED <<inverses, effect>>

\* The newest inverse that remains.
NextInverse(o) == inverses[o][Len(inverses[o])]

\* Mutant: inverses run oldest first.
RunOldestInverse(o) ==
    /\ inverses[o] # <<>>
    /\ inverses' = [inverses EXCEPT ![o] = Tail(@)]
    /\ IF Head(inverses[o]) = ApplyInverse
       THEN effect' = [effect EXCEPT ![o] = FALSE] /\ UNCHANGED svcVars
       ELSE DropEntry(Head(inverses[o])) /\ UNCHANGED effect
    /\ UNCHANGED ctx

\* It is run, and is gone from the list.  The inverse of a Provide whose
\* entry was withdrawn by hand before does nothing.
RunInverse(o) ==
    /\ inverses[o] # <<>>
    /\ inverses' = [inverses EXCEPT ![o] = SubSeq(@, 1, Len(@) - 1)]
    /\ IF NextInverse(o) = ApplyInverse
       THEN effect' = [effect EXCEPT ![o] = FALSE] /\ UNCHANGED svcVars
       ELSE DropEntry(NextInverse(o)) /\ UNCHANGED effect
    /\ UNCHANGED ctx

\* The loop appends the inverse Apply returned.  Had the context been unwound
\* meanwhile, the loop would run it at once.
KeepApplyInverse(f) ==
    /\ IF ctx[f] = "open"
       THEN inverses' = [inverses EXCEPT ![f] = Append(@, ApplyInverse)] /\ UNCHANGED effect
       ELSE effect' = [effect EXCEPT ![f] = FALSE] /\ UNCHANGED inverses
    /\ UNCHANGED <<ctx, svcVars>>
=============================================================================
