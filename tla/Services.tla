------------------------------ MODULE Services ------------------------------
(***************************************************************************)
(* The service table of one tree of contexts: which context provides which *)
(* key, in which generation.  A key holds a stack of entries; readers see  *)
(* the newest.  An entry is named by its owner and its sequence number     *)
(* (provideIdent), and sequence numbers are never reused, so the newest    *)
(* entry of the stack is the one with the largest number and the stack can *)
(* be kept as a set.  Every key lives in one realm here.                   *)
(*                                                                         *)
(* An owner is a context: the root context, or the context of a fiber's    *)
(* present load cycle, named by the fiber.                                 *)
(***************************************************************************)
EXTENDS Naturals

CONSTANTS
    Keys,       \* service keys
    Fibers,     \* fibers that may be loaded
    Root        \* the root context

ASSUME ServicesAssumption == Root \notin Fibers

Owners == Fibers \cup {Root}

VARIABLES
    provides,   \* the entries of every key
    seq         \* the last sequence number given out

svcVars == <<provides, seq>>

Entry == [key : Keys, owner : Owners, seq : Nat]

ServicesInit ==
    /\ provides = {}
    /\ seq = 0

Newest(S) == {e \in S : \A d \in S : d.seq <= e.seq}

\* The generation a set of entries shows: 0 when there is none.
Generation(S) ==
    IF Newest(S) = {} THEN 0 ELSE (CHOOSE e \in Newest(S) : TRUE).seq

\* What Service() reads: the newest entry of the key, whoever provides it.
Visible(k) == Generation({e \in provides : e.key = k})

\* What a fiber's own dependencies are resolved to: its own entries never
\* count, a fiber cannot satisfy itself.
External(k, f) == Generation({e \in provides : e.key = k /\ e.owner # f})

\* Mutant: no provider is ever refused.
NeverRefused(k, o) == FALSE

\* Well-formedness: a key some fiber provides is refused to everybody else,
\* the root context included.
Refused(k, o) == \E e \in provides : e.key = k /\ e.owner \in Fibers \ {o}

AddEntry(k, o) ==
    /\ ~Refused(k, o)
    /\ seq' = seq + 1
    /\ provides' = provides \cup {[key |-> k, owner |-> o, seq |-> seq + 1]}

\* The entry numbered s is taken out of the table, if it is still there.
DropEntry(s) ==
    /\ provides' = {e \in provides : e.seq # s}
    /\ UNCHANGED seq

Present(s) == \E e \in provides : e.seq = s

EntriesOf(o) == {e \in provides : e.owner = o}
=============================================================================
