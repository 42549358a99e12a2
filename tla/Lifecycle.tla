----------------------------- MODULE Lifecycle -----------------------------
(***************************************************************************)
(* What a fiber promises to whoever holds its handle, whatever the loop,   *)
(* the inbox and the goroutines do: the transition diagram of FiberState,  *)
(* that disposal is final, and that effects exist only while the fiber is  *)
(* loading, active or unloading.  One step may move several fibers.        *)
(***************************************************************************)
CONSTANT Fibers

VARIABLES
    phase,      \* where each fiber is
    retiring,   \* it has been asked to end
    held        \* something it installed is in place

Terminal == {"failed", "gone"}

Diagram ==
    {<<"none", "pending">>, <<"none", "failed">>,
     <<"pending", "loading">>, <<"loading", "active">>,
     <<"loading", "unloading">>, <<"active", "unloading">>,
     <<"unloading", "pending">>, <<"unloading", "loading">>}
    \cup ({"pending", "unloading"} \X Terminal)

Init ==
    /\ phase = [f \in Fibers |-> "none"]
    /\ retiring = [f \in Fibers |-> FALSE]
    /\ held = [f \in Fibers |-> FALSE]

\* Effects come and go while the fiber is in its place.
Stay(f) ==
    /\ phase'[f] = phase[f]
    /\ held'[f] # held[f] => phase[f] \in {"loading", "active", "unloading"}

\* A transition disturbs no effect; a fiber that has to end turns neither to
\* loading, nor to active, nor back to waiting, and one that leaves unloading
\* has nothing left in place.
Move(f) ==
    /\ <<phase[f], phase'[f]>> \in Diagram
    /\ held'[f] = held[f]
    /\ phase'[f] \in {"pending", "loading", "active"} => ~retiring[f]
    /\ phase'[f] \in {"pending", "loading"} \cup Terminal => ~held[f]

Next == \A f \in Fibers : (Stay(f) \/ Move(f)) /\ (retiring[f] => retiring'[f])

Spec == Init /\ [][Next]_<<phase, retiring, held>>
=============================================================================
