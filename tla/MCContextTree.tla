--------------------------- MODULE MCContextTree ----------------------------
(***************************************************************************)
(* A small tree: the root, a zone with a leaf below it, and a fiber loaded *)
(* from the zone whose Apply makes a child context, the part.              *)
(***************************************************************************)
EXTENDS ContextTree

MCContexts == {"root", "zone", "leaf", "job", "part"}

MCParent ==
    [c \in MCContexts \ {"root"} |->
        CASE c = "zone" -> "root" [] c \in {"leaf", "job"} -> "zone" [] c = "part" -> "job"]

\* Scopes: the effects are what unwinding has to get right.
ScopesMenu ==
    [c \in MCContexts |->
        CASE c = "zone" -> {"listener"} [] c \in {"leaf", "job"} -> {"member"}
          [] c = "part" -> {"listener"} [] OTHER -> {}]

\* Notices: no leaf, part or members, but services, realms and a waiter.
NoticesContexts == {"root", "zone", "job"}
NoticesParent == [c \in NoticesContexts \ {"root"} |-> MCParent[c]]
NoticesMenu ==
    [c \in NoticesContexts |->
        CASE c = "root" -> {"provide", "isolate"} [] c = "zone" -> {"isolate"}
          [] c = "job" -> {"provide"}]

NoWaiters == [w \in {} |-> "root"]
ZoneWaits == [w \in Waiters |-> "zone"]
=============================================================================
