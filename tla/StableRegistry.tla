-------------------------- MODULE StableRegistry ----------------------------
(***************************************************************************)
(* registry.Registry: a table from names to values that consumers read and *)
(* never inject by member, so that members come and go without reloading   *)
(* anybody.  A value is known by its generation; generations increase.     *)
(* Whoever registers keeps the inverse of that registration.               *)
(***************************************************************************)
EXTENDS Naturals

CONSTANT Names

VARIABLE members    \* Registry.m: the generation under each name, 0 if none

RegistryInit == members = [n \in Names |-> 0]

\* A second registration of a name replaces the first.
Register(n, s) == members' = [members EXCEPT ![n] = s]

\* Mutant: the inverse does not look at the generation.
UnregisterAny(n, s) == members' = [members EXCEPT ![n] = 0]

\* The inverse of generation s removes that generation only.
Unregister(n, s) == members' = [members EXCEPT ![n] = IF @ = s THEN 0 ELSE @]
=============================================================================
