--------------------------- MODULE MCOrchestrator ---------------------------
EXTENDS OrchestratorInvariant

MCProcs == Users \cup Fibers \cup {Root}

\* A chain: the root may provide a, f1 builds b on a, f2 depends on b.
ChainInject == [f \in Fibers |-> IF f = "f1" THEN {"a"} ELSE {"b"}]
ChainOffers == [f \in Fibers |-> IF f = "f1" THEN {"b"} ELSE {}]

\* The chain, with Applies that neither read nor fail, is orderly.
ASSUME ChainIsOrderly ==
    /\ Inject = ChainInject /\ Offers = ChainOffers
    /\ Readers = {} /\ Flaky = {} /\ LateKeys = {} /\ Manual \subseteq {Root}
    => Orderly

\* A contest: both fibers offer b, and f2 depends on a; clients provide late.
DuelInject == [f \in Fibers |-> IF f = "f1" THEN {} ELSE {"a"}]
DuelOffers == [f \in Fibers |-> {"b"}]
=============================================================================
