----------------------------- MODULE TreeProofs -----------------------------
(***************************************************************************)
(* Proofs about ContextTree beyond those of ScopeProofs: types, the stable *)
(* registry, those who are told of changes, and the order of unwinding.    *)
(***************************************************************************)
EXTENDS ScopeProofs, FiniteSetTheorems, WellFoundedInduction

(* Numbers, and the way up to the root. *)

LEMMA LeastNumber ==
    ASSUME NEW S \in SUBSET Nat, S # {}
    PROVE  \E m \in S : \A k \in S : m <= k
<1> DEFINE R == {ss \in Nat \X Nat : ss[1] < ss[2]}
<1>1. R = OpToRel(<, Nat)
  BY DEF OpToRel
<1>2. IsWellFoundedOn(R, Nat)
  BY <1>1, NatLessThanWellFounded, Zenon
<1>3. PICK m \in S : \A k \in S : ~(<<k, m>> \in R)
  <2> HIDE DEF R
  <2> QED
    BY <1>2, WFMin
<1>4. \A k \in S : ~(k < m)
  BY <1>3
<1> QED
  BY <1>4

LEMMA NewestIsMember ==
    ASSUME NEW n \in Nat, NEW S \in SUBSET (1..n), S # {}
    PROVE  Newest(S) \in S /\ \A d \in S : d <= Newest(S)
<1> DEFINE U == {m \in Nat : \A d \in S : d <= m}
<1>1. n \in U /\ U \in SUBSET Nat
  OBVIOUS
<1>2. PICK m \in U : \A k \in U : m <= k
  <2> HIDE DEF U
  <2> QED
    BY <1>1, LeastNumber
<1>3. m \in S
  <2> SUFFICES ASSUME m \notin S PROVE FALSE
    OBVIOUS
  <2>1. \A d \in S : d \in Nat /\ 1 <= d /\ d <= m /\ d # m
    BY <1>2
  <2>2. m \in Nat /\ \A k \in U : m <= k
    BY <1>2
  <2>3. \A d \in S : d <= m - 1
    BY <2>1, <2>2
  <2>4. PICK d \in S : TRUE
    OBVIOUS
  <2>5. m - 1 \in Nat
    BY <2>1, <2>2, <2>4
  <2>6. m - 1 \in U
    BY <2>3, <2>5
  <2> QED
    BY <2>2, <2>6
<1>4. \E e \in S : \A d \in S : d <= e
  BY <1>2, <1>3
<1> QED
  BY <1>4 DEF Newest

\* How far a context is from the root.
Depth == CHOOSE d \in [Contexts -> 0..Cardinality(Contexts)] :
             \A c \in Contexts \ {Top} : d[Parent[c]] < d[c]

LEMMA Depths ==
    /\ Cardinality(Contexts) \in Nat
    /\ \A c \in Contexts : Depth[c] \in Nat /\ Depth[c] <= Cardinality(Contexts)
    /\ \A c \in Contexts \ {Top} : Parent[c] \in Contexts /\ Depth[Parent[c]] < Depth[c]
<1>1. Cardinality(Contexts) \in Nat
  BY RootedAssumption, FS_CardinalityType
<1>2. /\ Depth \in [Contexts -> 0..Cardinality(Contexts)]
      /\ \A c \in Contexts \ {Top} : Depth[Parent[c]] < Depth[c]
  BY RootedAssumption DEF Depth
<1> QED
  BY <1>1, <1>2, TreeAssumption

\* Induction up the tree: of the contexts that have something, there is one
\* nearest to the root.
LEMMA Nearest ==
    ASSUME NEW B \in SUBSET Contexts, B # {}
    PROVE  \E c \in B : \A d \in B : Depth[c] <= Depth[d]
<1> DEFINE S == {Depth[c] : c \in B}
<1>1. S \in SUBSET Nat /\ S # {}
  BY Depths
<1>2. PICK m \in S : \A k \in S : m <= k
  <2> HIDE DEF S
  <2> QED
    BY <1>1, LeastNumber
<1> QED
  BY <1>2

\* f has its base value where it stops, and elsewhere one made from the parent's.
Climbs(f, Stop, base, step) ==
    \A c \in Contexts : f[c] = IF c \in Stop THEN base[c] ELSE step[<<c, f[Parent[c]]>>]

\* What is defined along the way to the root exists.
LEMMA DefinedUpwards ==
    ASSUME NEW V, NEW Stop \in SUBSET Contexts, Top \in Stop,
           NEW base \in [Contexts -> V], NEW step \in [Contexts \X V -> V]
    PROVE  \E f \in [Contexts -> V] : Climbs(f, Stop, base, step)
<1> DEFINE Val(f, c) == IF c \in Stop THEN base[c] ELSE step[<<c, f[Parent[c]]>>]
           Agrees(f, n) == \A c \in Contexts : Depth[c] < n => f[c] = Val(f, c)
           Open == {n \in Nat : ~\E f \in [Contexts -> V] : Agrees(f, n)}
<1>1. ASSUME Open # {} PROVE FALSE
  <2>1. PICK n \in Open : \A k \in Open : n <= k
    <3>1. Open \in SUBSET Nat
      OBVIOUS
    <3> HIDE DEF Open
    <3> QED
      BY <1>1, <3>1, LeastNumber
  <2>2. n # 0
    <3>1. Agrees(base, 0)
      BY Depths
    <3> QED
      BY <3>1
  <2>3. n \in Nat /\ n - 1 \in Nat /\ n - 1 \notin Open
    BY <2>1, <2>2
  <2>4. PICK f \in [Contexts -> V] : Agrees(f, n - 1)
    BY <2>3
  <2> DEFINE g == [c \in Contexts |-> Val(f, c)]
  <2>5. g \in [Contexts -> V]
    BY TreeAssumption
  <2>6. ASSUME NEW c \in Contexts, Depth[c] < n PROVE g[c] = Val(g, c)
    <3>1. CASE c \in Stop
      BY <3>1
    <3>2. CASE c \notin Stop
      <4>1. Parent[c] \in Contexts /\ Depth[Parent[c]] < n - 1
        BY <2>3, <2>6, <3>2, Depths
      <4>2. f[Parent[c]] = g[Parent[c]]
        BY <2>4, <4>1
      <4> QED
        BY <3>2, <4>2
    <3> QED
      BY <3>1, <3>2
  <2>7. Agrees(g, n)
    BY <2>6
  <2> QED
    BY <2>1, <2>5, <2>7
<1>2. PICK f \in [Contexts -> V] : Agrees(f, Cardinality(Contexts) + 1)
  <2>1. Cardinality(Contexts) + 1 \in Nat /\ Cardinality(Contexts) + 1 \notin Open
    <3> HIDE DEF Open
    <3> QED
      BY <1>1, Depths
  <2> HIDE DEF Agrees
  <2> QED
    BY <2>1
<1>3. \A c \in Contexts : f[c] = Val(f, c)
  BY <1>2, Depths
<1> HIDE DEF Agrees, Open
<1> QED
  BY <1>3 DEF Climbs

\* The realm of a context is the nearest isolation's, or the root realm.
LEMMA RealmIs ==
    ASSUME isolation \in [Contexts -> Realms \cup {RootRealm, None}]
    PROVE  RealmOf = [c \in Contexts |->
                         IF isolation[c] # None THEN isolation[c]
                         ELSE IF c = Top THEN RootRealm ELSE RealmOf[Parent[c]]]
<1> DEFINE V == Realms \cup {RootRealm, None}
           Stop == {c \in Contexts : isolation[c] # None} \cup {Top}
           base == [c \in Contexts |-> IF isolation[c] # None THEN isolation[c] ELSE RootRealm]
           step == [p \in Contexts \X V |-> p[2]]
<1>1. Stop \in SUBSET Contexts /\ Top \in Stop /\ base \in [Contexts -> V] /\ step \in [Contexts \X V -> V]
  BY TreeAssumption
<1>2. PICK f \in [Contexts -> V] : Climbs(f, Stop, base, step)
  <2> HIDE DEF V, Stop, base, step
  <2> QED
    BY <1>1, DefinedUpwards
<1>3. f = [c \in Contexts |-> IF isolation[c] # None THEN isolation[c]
                              ELSE IF c = Top THEN RootRealm ELSE f[Parent[c]]]
  <2>1. \A c \in Contexts \ Stop : Parent[c] \in Contexts
    BY TreeAssumption
  <2>2. \A c \in Contexts : f[c] = IF isolation[c] # None THEN isolation[c]
                                   ELSE IF c = Top THEN RootRealm ELSE f[Parent[c]]
    BY <1>2, <2>1 DEF Climbs
  <2> QED
    BY <2>2
<1> QED
  BY <1>3 DEF RealmOf

LEMMA RealmTyped ==
    ASSUME isolation \in [Contexts -> Realms \cup {RootRealm, None}], NEW c \in Contexts
    PROVE  RealmOf[c] \in Realms \cup {RootRealm}
<1> DEFINE B == {d \in Contexts : RealmOf[d] \notin Realms \cup {RootRealm}}
<1>1. ASSUME B # {} PROVE FALSE
  <2>1. PICK d \in B : \A e \in B : Depth[d] <= Depth[e]
    <3>1. B \in SUBSET Contexts
      OBVIOUS
    <3> HIDE DEF B
    <3> QED
      BY <1>1, <3>1, Nearest
  <2>2. RealmOf[d] = IF isolation[d] # None THEN isolation[d]
                     ELSE IF d = Top THEN RootRealm ELSE RealmOf[Parent[d]]
    BY RealmIs
  <2>3. d # Top /\ Parent[d] \in B
    BY <2>1, <2>2, Depths
  <2> QED
    BY <2>1, <2>3, Depths
<1> QED
  BY <1>1

LEMMA AboveIs ==
    /\ Above \in [Contexts -> SUBSET Contexts]
    /\ \A c \in Contexts : Above[c] = IF c = Top \/ c \in FiberContexts THEN {}
                                      ELSE {Parent[c]} \cup Above[Parent[c]]
    /\ \A c \in Contexts : \A p \in Above[c] : Depth[p] < Depth[c]
<1> DEFINE V == SUBSET Contexts
           Stop == FiberContexts \cup {Top}
           base == [c \in Contexts |-> {}]
           step == [p \in Contexts \X V |-> IF p[1] = Top THEN {} ELSE {Parent[p[1]]} \cup p[2]]
<1>1. /\ Stop \in SUBSET Contexts /\ Top \in Stop /\ base \in [Contexts -> V]
      /\ step \in [Contexts \X V -> V]
  <2>1. \A c \in Contexts \ {Top} : Parent[c] \in Contexts
    BY TreeAssumption
  <2> QED
    BY <2>1, TreeAssumption
<1>2. PICK f \in [Contexts -> V] : Climbs(f, Stop, base, step)
  <2> HIDE DEF V, Stop, base, step
  <2> QED
    BY <1>1, DefinedUpwards
<1>4. f = [c \in Contexts |-> IF c = Top \/ c \in FiberContexts THEN {}
                              ELSE {Parent[c]} \cup f[Parent[c]]]
  <2>1. \A c \in Contexts \ Stop : Parent[c] \in Contexts /\ c # Top
    BY TreeAssumption
  <2>2. \A c \in Contexts : f[c] = IF c = Top \/ c \in FiberContexts THEN {}
                                   ELSE {Parent[c]} \cup f[Parent[c]]
    <3> SUFFICES ASSUME NEW c \in Contexts
                 PROVE  f[c] = IF c = Top \/ c \in FiberContexts THEN {}
                               ELSE {Parent[c]} \cup f[Parent[c]]
      OBVIOUS
    <3>1. CASE c \in Stop
      BY <1>2, <3>1 DEF Climbs
    <3>2. CASE c \notin Stop
      <4>1. f[c] = step[<<c, f[Parent[c]]>>] /\ <<c, f[Parent[c]]>> \in Contexts \X V /\ c # Top
        <5> HIDE DEF step, base, V
        <5> QED
          BY <1>2, <2>1, <3>2 DEF Climbs
      <4>2. step[<<c, f[Parent[c]]>>] = {Parent[c]} \cup f[Parent[c]]
        BY <4>1
      <4> QED
        BY <3>2, <4>1, <4>2
    <3> QED
      BY <3>1, <3>2
  <2> QED
    BY <2>2
<1>5. Above = [c \in Contexts |-> IF c = Top \/ c \in FiberContexts THEN {}
                                  ELSE {Parent[c]} \cup Above[Parent[c]]]
  BY <1>4 DEF Above
<1>6. \A c \in Contexts : Above[c] = IF c = Top \/ c \in FiberContexts THEN {}
                                     ELSE {Parent[c]} \cup Above[Parent[c]]
  BY <1>5, Zenon
<1> DEFINE Deeper(c) == \A p \in Above[c] : p \in Contexts /\ Depth[p] < Depth[c]
           B == {c \in Contexts : ~Deeper(c)}
<1>7. ASSUME B # {} PROVE FALSE
  <2>1. PICK c \in B : \A d \in B : Depth[c] <= Depth[d]
    <3>1. B \in SUBSET Contexts
      OBVIOUS
    <3> HIDE DEF B
    <3> QED
      BY <1>7, <3>1, Nearest
  <2>2. c # Top /\ Above[c] = {Parent[c]} \cup Above[Parent[c]]
    BY <1>6, <2>1
  <2>3. Parent[c] \in Contexts /\ Depth[Parent[c]] < Depth[c] /\ Depth[c] \in Nat
        /\ Depth[Parent[c]] \in Nat
    BY <2>1, <2>2, Depths
  <2>4. Parent[c] \notin B
    BY <2>1, <2>3
  <2>5. Deeper(Parent[c])
    BY <2>3, <2>4
  <2>6. \A p \in Above[c] : p \in Contexts /\ Depth[p] < Depth[c]
    BY <2>2, <2>3, <2>5, Depths
  <2> QED
    BY <2>1, <2>6
<1>8. \A c \in Contexts : Deeper(c)
  BY <1>7
<1>9. Above \in [Contexts -> SUBSET Contexts]
  <2>1. \A c \in Contexts : Above[c] \subseteq Contexts
    BY <1>8
  <2> QED
    BY <1>5, <2>1
<1> QED
  BY <1>6, <1>8, <1>9

-----------------------------------------------------------------------------
(* Types. *)

EffectRecord == [at : Contexts, kind : Kinds, of : Realms \cup {RootRealm, None} \cup Names]
TypedFrame == [ctx : Contexts, kids : Seq(Contexts), undo : Seq(Effects)]

\* What TypeOK says beyond Shape.
Ranges ==
    /\ detached \subseteq FiberContexts
    /\ log \in Seq(EffectRecord)
    /\ members \in [Names -> Nat]
    /\ inverses \in [Contexts -> Seq(Effects)]
    /\ isolation \in [Contexts -> Realms \cup {RootRealm, None}]
    /\ stack \in [Threads -> Seq(TypedFrame)]
    /\ \A t \in Threads : task[t].id \in Effects \cup {0}
    /\ wait \in [Waiters -> {"idle", "subscribed", "looked", "asleep"}]
    /\ stale \in [Waiters -> BOOLEAN]
    /\ told \in BOOLEAN /\ known \in Effects \cup {0} /\ silent \in BOOLEAN

LEMMA RangesSay == Shape /\ Ranges => TypeOK
<1> SUFFICES ASSUME Shape, Ranges PROVE TypeOK
  OBVIOUS
<1>1. task \in [Threads -> [do : {"none", "wake", "keep", "drop"}, id : Effects \cup {0}]]
  <2>1. \A t \in Threads : task[t] \in [do : {"none", "wake", "keep", "drop"}, id : Effects \cup {0}]
    BY DEF Shape, Ranges
  <2> QED
    BY <2>1 DEF Shape
<1> QED
  BY <1>1 DEF Shape, Ranges, TypeOK, EffectRecord, TypedFrame

LEMMA RangesInit == Init => Ranges
<1> SUFFICES ASSUME Init PROVE Ranges
  OBVIOUS
<1>1. /\ <<>> \in Seq(EffectRecord) /\ <<>> \in Seq(Effects) /\ <<>> \in Seq(TypedFrame)
  OBVIOUS
<1>2. /\ inverses \in [Contexts -> Seq(Effects)] /\ stack \in [Threads -> Seq(TypedFrame)]
      /\ log \in Seq(EffectRecord)
  BY <1>1 DEF Init
<1> QED
  BY <1>2 DEF Init, RegistryInit, Ranges, NoTask

\* Longer lists of effects are lists of effects.
LEMMA Wider ==
    ASSUME Ranges, Effects \subseteq Effects'
    PROVE  /\ Seq(Effects) \subseteq Seq(Effects')
           /\ stack \in [Threads -> Seq(TypedFrame')]
<1>1. Seq(Effects) \subseteq Seq(Effects')
  OBVIOUS
<1>2. TypedFrame \subseteq TypedFrame'
  BY <1>1 DEF TypedFrame
<1>3. Seq(TypedFrame) \subseteq Seq(TypedFrame')
  BY <1>2
<1> QED
  BY <1>1, <1>3 DEF Ranges

LEMMA ResolvedTyped ==
    ASSUME Shape, NEW c, NEW S
    PROVE  Resolved(c, S) \in Effects \cup {0}
<1> DEFINE own == S \cap Entries(RealmOf[c])
           T == IF own # {} THEN own ELSE S \cap Entries(RootRealm)
<1>1. T \subseteq Effects
  BY DEF Entries, Shape
<1>2. Newest(T) \in Effects \cup {0}
  <2> HIDE DEF T
  <2>1. CASE T = {}
    BY <2>1 DEF Newest
  <2>2. CASE T # {}
    <3>1. Len(log) \in Nat /\ T \in SUBSET (1..Len(log))
      BY <1>1 DEF Shape, Effects
    <3> QED
      BY <2>2, <3>1, NewestIsMember, <1>1
  <2> QED
    BY <2>1, <2>2
<1> QED
  BY <1>2 DEF Resolved

\* A new effect.
LEMMA PutTyped ==
    ASSUME Shape, Ranges, NEW t \in Threads, NEW c \in Contexts, NEW k \in Kinds,
           NEW x \in Realms \cup {RootRealm, None} \cup Names, Put(t, c, k, x)
    PROVE  /\ log' \in Seq(EffectRecord)
           /\ Len(log) + 1 \in Effects' /\ Effects \subseteq Effects'
           /\ Seq(Effects) \subseteq Seq(Effects')
           /\ stack \in [Threads -> Seq(TypedFrame')]
<1>1. PICK r : r = [at |-> c, kind |-> k, of |-> x]
  OBVIOUS
<1>2. r \in EffectRecord /\ log' = Append(log, r)
  BY <1>1 DEF EffectRecord, Put
<1>3. log' \in Seq(EffectRecord) /\ Len(log') = Len(log) + 1 /\ Len(log) \in Nat
  BY <1>2 DEF Ranges
<1>4. Len(log) + 1 \in Effects' /\ Effects \subseteq Effects'
  BY <1>3 DEF Effects
<1> QED
  BY <1>3, <1>4, Wider

LEMMA PutAndKeepTyped ==
    ASSUME Shape, Ranges, NEW t \in Threads, NEW c \in Contexts, NEW k \in Kinds,
           NEW x \in Realms \cup {RootRealm, None} \cup Names, PutAndKeep(t, c, k, x),
           UNCHANGED <<treeVars, members, stack, waitVars, loopVars>>,
           task' = task \/ task' = [task EXCEPT ![t] = [do |-> "wake", id |-> 0]],
           isolation' \in [Contexts -> Realms \cup {RootRealm, None}]
    PROVE  Ranges'
<1>1. /\ log' \in Seq(EffectRecord) /\ stack \in [Threads -> Seq(TypedFrame')]
      /\ Len(log) + 1 \in Effects' /\ Effects \subseteq Effects' /\ Seq(Effects) \subseteq Seq(Effects')
  BY PutTyped DEF PutAndKeep
<1>2. inverses' \in [Contexts -> Seq(Effects')]
  <2>1. inverses[c] \in Seq(Effects') /\ inverses \in [Contexts -> Seq(Effects')]
    BY <1>1 DEF Ranges
  <2>2. Append(inverses[c], Len(log) + 1) \in Seq(Effects')
    BY <1>1, <2>1
  <2> QED
    BY <2>1, <2>2 DEF PutAndKeep
<1>3. ASSUME NEW u \in Threads PROVE task'[u].id \in Effects' \cup {0}
  <2>1. task[u].id \in Effects' \cup {0}
    BY <1>1 DEF Ranges
  <2>2. task'[u] = task[u] \/ task'[u] = [do |-> "wake", id |-> 0]
    BY DEF Shape
  <2> QED
    BY <2>1, <2>2
<1> QED
  BY <1>1, <1>2, <1>3 DEF Ranges, treeVars, waitVars, loopVars

LEMMA CallTyped == ASSUME Shape, Ranges, NEW t \in Threads, Call(t) PROVE Ranges'
<1>1. PICK c \in Contexts :
        \/ Provide(t, c) \/ Listen(t, c) \/ Release(t, c)
        \/ \E r \in Realms \cup {RootRealm} : Isolate(t, c, r)
        \/ \E n \in Names : Install(t, c, n)
  BY DEF Call
<1>2. CASE Provide(t, c)
  <2>1. RealmOf[c] \in Realms \cup {RootRealm, None} \cup Names /\ "provide" \in Kinds
    BY RealmTyped DEF Ranges, Kinds
  <2> QED
    BY <1>2, <2>1, PutAndKeepTyped DEF Provide, Ranges
<1>3. CASE Listen(t, c)
  <2>1. "listener" \in Kinds
    BY DEF Kinds
  <2> QED
    BY <1>3, <2>1, PutAndKeepTyped DEF Listen, Ranges
<1>4. CASE Release(t, c)
  <2>1. /\ UNCHANGED <<detached, effectVars, task, waitVars, loopVars>>
        /\ inverses' = [inverses EXCEPT ![c] = <<>>]
        /\ stack' = [stack EXCEPT ![t] = Append(<<>>, [ctx |-> c, kids |-> children[c], undo |-> inverses[c]])]
    BY <1>4 DEF Release, Enter
  <2>2. [ctx |-> c, kids |-> children[c], undo |-> inverses[c]] \in TypedFrame
    BY DEF TypedFrame, Shape, Ranges
  <2>3. stack' \in [Threads -> Seq(TypedFrame)] /\ inverses' \in [Contexts -> Seq(Effects)]
    <3>1. <<>> \in Seq(TypedFrame) /\ <<>> \in Seq(Effects)
      OBVIOUS
    <3>2. Append(<<>>, [ctx |-> c, kids |-> children[c], undo |-> inverses[c]]) \in Seq(TypedFrame)
      BY <2>2, <3>1
    <3> QED
      BY <2>1, <3>1, <3>2 DEF Ranges
  <2> QED
    BY <2>1, <2>3 DEF Ranges, effectVars, waitVars, loopVars, Effects, TypedFrame
<1>5. ASSUME NEW r \in Realms \cup {RootRealm}, Isolate(t, c, r) PROVE Ranges'
  <2>1. "isolate" \in Kinds /\ isolation' \in [Contexts -> Realms \cup {RootRealm, None}]
    BY <1>5 DEF Kinds, Isolate, Ranges
  <2> QED
    BY <1>5, <2>1, PutAndKeepTyped DEF Isolate
<1>6. ASSUME NEW n \in Names, Install(t, c, n) PROVE Ranges'
  <2>1. "member" \in Kinds /\ Put(t, c, "member", n)
    BY <1>6 DEF Kinds, Install
  <2>2. /\ log' \in Seq(EffectRecord) /\ stack \in [Threads -> Seq(TypedFrame')]
        /\ Len(log) + 1 \in Effects' /\ Effects \subseteq Effects' /\ Seq(Effects) \subseteq Seq(Effects')
    BY <2>1, PutTyped
  <2>3. Len(log) + 1 \in Nat
    BY DEF Ranges
  <2>4. members' \in [Names -> Nat]
    BY <1>6, <2>3 DEF Install, Register, Ranges
  <2>5. inverses' \in [Contexts -> Seq(Effects')]
    BY <1>6, <2>2 DEF Install, Ranges
  <2>6. \A u \in Threads : task'[u].id \in Effects' \cup {0}
    BY <1>6, <2>2 DEF Install, Ranges, Shape
  <2>7. UNCHANGED <<treeVars, isolation, stack, waitVars, loopVars>>
    BY <1>6 DEF Install
  <2> QED
    BY <2>2, <2>4, <2>5, <2>6, <2>7 DEF Ranges, treeVars, waitVars, loopVars
<1> QED
  BY <1>1, <1>2, <1>3, <1>4, <1>5, <1>6

\* Running an inverse.
LEMMA UndoTyped ==
    ASSUME Shape, Ranges, NEW t \in Threads, NEW e, Undo(t, e),
           UNCHANGED <<treeVars, inverses, waitVars>>, stack' \in [Threads -> Seq(TypedFrame)]
    PROVE  Ranges'
<1>1. Effects' = Effects /\ TypedFrame' = TypedFrame
  BY DEF Undo, Effects, TypedFrame
<1>2. members' \in [Names -> Nat]
  BY DEF Undo, Unregister, Ranges
<1>3. isolation' \in [Contexts -> Realms \cup {RootRealm, None}]
  BY DEF Undo, Ranges
<1>4. \A u \in Threads : task'[u].id \in Effects \cup {0}
  BY DEF Undo, Ranges, Shape, NoTask
<1>5. silent' \in BOOLEAN
  BY DEF Undo, Ranges
<1> QED
  BY <1>1, <1>2, <1>3, <1>4, <1>5 DEF Ranges, Undo, treeVars, waitVars

LEMMA TypedFrames ==
    ASSUME Ranges, NEW t \in Threads, stack[t] # <<>>
    PROVE  /\ Front(stack[t]) \in Seq(TypedFrame) /\ Frame(t) \in TypedFrame
           /\ \A kids \in Seq(Contexts), undo \in Seq(Effects) :
                  With(t, kids, undo) \in Seq(TypedFrame)
<1>1. stack[t] \in Seq(TypedFrame)
  BY DEF Ranges
<1>2. Front(stack[t]) \in Seq(TypedFrame) /\ Frame(t) \in TypedFrame
  BY <1>1, FrontElements DEF Frame
<1>3. ASSUME NEW kids \in Seq(Contexts), NEW undo \in Seq(Effects)
      PROVE  With(t, kids, undo) \in Seq(TypedFrame)
  <2>1. [ctx |-> Frame(t).ctx, kids |-> kids, undo |-> undo] \in TypedFrame
    BY <1>2 DEF TypedFrame
  <2> QED
    BY <1>2, <2>1, AppendElements DEF With
<1> QED
  BY <1>2, <1>3

LEMMA DescendTyped == ASSUME Shape, Ranges, NEW t \in Threads, Descend(t) PROVE Ranges'
<1>1. PICK d : d = Last(Frame(t).kids)
  OBVIOUS
<1>2. PICK rest : rest = With(t, Front(Frame(t).kids), Frame(t).undo)
  OBVIOUS
<1>3. /\ stack[t] # <<>> /\ Frame(t).kids # <<>>
      /\ UNCHANGED <<detached, effectVars, task, waitVars, loopVars>>
      /\ IF mode[d] = "open" THEN Enter(t, rest, d)
         ELSE stack' = [stack EXCEPT ![t] = rest] /\ UNCHANGED <<mode, children, inverses>>
  BY <1>1, <1>2 DEF Descend
<1>4. Frame(t).kids \in Seq(Contexts) /\ Frame(t).undo \in Seq(Effects)
  BY <1>3, TypedFrames DEF TypedFrame
<1>5. d \in Contexts /\ Front(Frame(t).kids) \in Seq(Contexts)
  BY <1>1, <1>3, <1>4, FrontElements
<1>6. rest \in Seq(TypedFrame)
  BY <1>2, <1>3, <1>4, <1>5, TypedFrames
<1>7. inverses' \in [Contexts -> Seq(Effects)] /\ stack' \in [Threads -> Seq(TypedFrame)]
  <2>1. CASE mode[d] = "open"
    <3>1. PICK new : new = [ctx |-> d, kids |-> children[d], undo |-> inverses[d]]
      OBVIOUS
    <3>2. /\ inverses' = [inverses EXCEPT ![d] = <<>>]
          /\ stack' = [stack EXCEPT ![t] = Append(rest, new)]
      BY <1>3, <2>1, <3>1 DEF Enter
    <3>3. new \in TypedFrame
      BY <1>5, <3>1 DEF TypedFrame, Shape, Ranges
    <3>4. Append(rest, new) \in Seq(TypedFrame) /\ <<>> \in Seq(Effects)
      BY <1>6, <3>3
    <3> QED
      BY <3>2, <3>4 DEF Ranges
  <2>2. CASE mode[d] # "open"
    BY <1>3, <1>6, <2>2 DEF Ranges
  <2> QED
    BY <2>1, <2>2
<1> QED
  BY <1>3, <1>7 DEF Ranges, effectVars, waitVars, loopVars, Effects, TypedFrame

LEMMA ProceedTyped == ASSUME Shape, Ranges, NEW t \in Threads, Proceed(t) PROVE Ranges'
<1>1. CASE Keep(t)
  <2>1. PICK e : e = task[t].id
    OBVIOUS
  <2>2. /\ UNCHANGED <<treeVars, effectVars, stack, waitVars, loopVars>>
        /\ \/ /\ inverses' = [inverses EXCEPT ![At(e)] = Append(@, e)]
              /\ task' = [task EXCEPT ![t] = NoTask]
           \/ /\ task' = [task EXCEPT ![t] = [do |-> "drop", id |-> e]] /\ UNCHANGED inverses
    BY <1>1, <2>1 DEF Keep
  <2>3. e \in Effects
    BY <1>1, <2>1 DEF Keep, HeldBy, Shape
  <2>4. At(e) \in Contexts /\ Append(inverses[At(e)], e) \in Seq(Effects)
    BY <2>3 DEF Shape, Ranges
  <2>5. inverses' \in [Contexts -> Seq(Effects)]
    BY <2>2, <2>4 DEF Ranges
  <2>6. ASSUME NEW u \in Threads PROVE task'[u].id \in Effects \cup {0}
    <3>1. task'[u] \in {task[u], NoTask, [do |-> "drop", id |-> e]}
      BY <2>2 DEF Shape
    <3>2. NoTask.id = 0 /\ [do |-> "drop", id |-> e].id = e /\ task[u].id \in Effects \cup {0}
      BY DEF NoTask, Ranges
    <3> QED
      BY <2>3, <3>1, <3>2
  <2> QED
    BY <2>2, <2>5, <2>6 DEF Ranges, treeVars, effectVars, waitVars, loopVars, Effects, TypedFrame
<1>2. CASE Drop(t)
  BY <1>2, UndoTyped DEF Drop, Ranges
<1>3. CASE Descend(t)
  BY <1>3, DescendTyped
<1>4. CASE RunInverse(t)
  <2>1. /\ stack[t] # <<>> /\ Frame(t).undo # <<>> /\ Undo(t, Last(Frame(t).undo))
        /\ stack' = [stack EXCEPT ![t] = With(t, <<>>, Front(Frame(t).undo))]
        /\ UNCHANGED <<treeVars, inverses, waitVars>>
    BY <1>4 DEF RunInverse
  <2>2. Frame(t).undo \in Seq(Effects) /\ <<>> \in Seq(Contexts)
    BY <2>1, TypedFrames DEF TypedFrame
  <2>3. Front(Frame(t).undo) \in Seq(Effects)
    BY <2>1, <2>2, FrontElements
  <2>4. With(t, <<>>, Front(Frame(t).undo)) \in Seq(TypedFrame)
    BY <2>1, <2>2, <2>3, TypedFrames
  <2>5. stack' \in [Threads -> Seq(TypedFrame)]
    BY <2>1, <2>4 DEF Ranges
  <2> QED
    BY <2>1, <2>5, UndoTyped
<1>5. CASE Return(t)
  <2>1. /\ stack' = [stack EXCEPT ![t] = Front(@)] /\ stack[t] # <<>>
        /\ UNCHANGED <<treeVars, effectVars, inverses, task, waitVars, loopVars>>
    BY <1>5 DEF Return
  <2>2. stack' \in [Threads -> Seq(TypedFrame)]
    BY <2>1, TypedFrames DEF Ranges
  <2> QED
    BY <2>1, <2>2 DEF Ranges, treeVars, effectVars, waitVars, loopVars, Effects, TypedFrame
<1>6. CASE Wake(t)
  <2>1. \A u \in Threads : task'[u].id \in Effects \cup {0}
    BY <1>6 DEF Wake, Ranges, Shape, NoTask
  <2>2. stale' \in [Waiters -> BOOLEAN]
    BY <1>6 DEF Wake
  <2> QED
    BY <1>6, <2>1, <2>2 DEF Wake, Ranges, treeVars, effectVars, Effects, TypedFrame
<1> QED
  BY <1>1, <1>2, <1>3, <1>4, <1>5, <1>6 DEF Proceed

LEMMA RangesStep == Shape /\ Ranges /\ [Next]_vars => Ranges'
<1> SUFFICES ASSUME Shape, Ranges, [Next]_vars PROVE Ranges'
  OBVIOUS
<1>1. ASSUME NEW c \in Contexts, Child(c) \/ Detach(c) PROVE Ranges'
  <2>1. UNCHANGED <<effectVars, inverses, stack, task, waitVars, loopVars>>
        /\ (detached' = detached \/ (c \in FiberContexts /\ detached' = detached \cup {c}))
    BY <1>1 DEF Child, Detach
  <2> QED
    BY <2>1 DEF Ranges, effectVars, waitVars, loopVars, Effects, TypedFrame
<1>2. ASSUME NEW t \in Threads, Call(t) \/ Proceed(t) PROVE Ranges'
  BY <1>2, CallTyped, ProceedTyped
<1>3. ASSUME NEW t \in Threads, NEW e \in Effects, Withdraw(t, e) PROVE Ranges'
  BY <1>3, UndoTyped DEF Withdraw, Ranges
<1>4. ASSUME NEW w \in Waiters, Subscribe(w) \/ Test(w) \/ Sleep(w) \/ Rouse(w) PROVE Ranges'
  <2>1. UNCHANGED <<treeVars, effectVars, inverses, stack, task, loopVars>>
    BY <1>4 DEF Subscribe, Test, Sleep, Rouse
  <2>2. /\ wait' \in [Waiters -> {"idle", "subscribed", "looked", "asleep"}]
        /\ stale' \in [Waiters -> BOOLEAN]
    BY <1>4 DEF Subscribe, Test, Sleep, Rouse, Ranges
  <2> QED
    BY <2>1, <2>2 DEF Ranges, treeVars, effectVars, loopVars, Effects, TypedFrame
<1>5. CASE Evaluate
  <2>1. known' \in Effects \cup {0}
    BY <1>5, ResolvedTyped DEF Evaluate, External
  <2> QED
    BY <1>5, <2>1 DEF Evaluate, Ranges, treeVars, effectVars, waitVars, Effects, TypedFrame
<1>6. CASE UNCHANGED vars
  BY <1>6 DEF vars, Ranges, treeVars, effectVars, waitVars, loopVars, Effects, TypedFrame
<1> QED
  BY <1>1, <1>2, <1>3, <1>4, <1>5, <1>6 DEF Next

LEMMA ShapeHolds == Spec => []ScopeInv
BY ScopeInit, ScopeStep, PTL DEF Spec

\* Every variable of the tree keeps its type, in any tree and with any number of
\* goroutines: an inverse is always that of an effect in the log, and what a
\* key resolves to is an effect or nothing (context.go: Context, effect lists).
THEOREM TreeTypeCorrect == Spec => []TypeOK
<1>1. ScopeInv => Shape
  BY DEF ScopeInv
<1>2. Spec => []Ranges
  BY <1>1, ShapeHolds, RangesInit, RangesStep, PTL DEF Spec
<1> QED
  BY <1>1, <1>2, ShapeHolds, RangesSay, PTL
-----------------------------------------------------------------------------
(* The stable registry. *)

LEMMA PutLog ==
    ASSUME Shape, Ranges, NEW t, NEW c \in Contexts, NEW k, NEW x, Put(t, c, k, x)
    PROVE  /\ Len(log) \in Nat /\ Effects' = Effects \cup {Len(log) + 1}
           /\ Effects = 1..Len(log) /\ Len(log) + 1 \notin Effects
           /\ \A e \in Effects : log'[e] = log[e]
           /\ log'[Len(log) + 1].kind = k /\ log'[Len(log) + 1].of = x
           /\ log'[Len(log) + 1].at = c
           /\ inPlace' = inPlace \cup {Len(log) + 1} /\ inPlace \subseteq Effects
<1>1. PICK r : r = [at |-> c, kind |-> k, of |-> x]
  OBVIOUS
<1>2. PICK S : log \in Seq(S)
  BY DEF Shape
<1>3. log' = Append(log, r) /\ log \in Seq(S \cup {r}) /\ r \in S \cup {r}
  BY <1>1, <1>2 DEF Put
<1>4. /\ Len(log') = Len(log) + 1 /\ Len(log) \in Nat
      /\ log'[Len(log) + 1] = r /\ \A e \in 1..Len(log) : log'[e] = log[e]
  BY <1>3
<1>5. Effects' = Effects \cup {Len(log) + 1} /\ Effects = 1..Len(log) /\ Len(log) + 1 \notin Effects
  BY <1>4 DEF Effects
<1> QED
  BY <1>1, <1>4, <1>5 DEF Put, Shape, Effects

Registrations(n) == {e \in Effects : log[e].kind = "member" /\ log[e].of = n}

\* What the registry shows under n.
Shown(n) == IF Newest(Registrations(n)) \in inPlace THEN Newest(Registrations(n)) ELSE 0

LEMMA NewestRegistration ==
    ASSUME Shape, NEW n
    PROVE  /\ Newest(Registrations(n)) \in Registrations(n) \cup {0}
           /\ \A d \in Registrations(n) : d <= Newest(Registrations(n))
           /\ 0 \notin inPlace
<1>1. Len(log) \in Nat /\ Registrations(n) \in SUBSET (1..Len(log)) /\ 0 \notin inPlace
  BY DEF Registrations, Shape, Effects
<1>2. CASE Registrations(n) = {}
  BY <1>1, <1>2 DEF Newest
<1>3. CASE Registrations(n) # {}
  BY <1>1, <1>3, NewestIsMember
<1> QED
  BY <1>2, <1>3

\* Effects of other kinds, and registrations of other names.
LEMMA OthersKeep ==
    ASSUME Shape, Ranges, NEW t, NEW c \in Contexts, NEW k, NEW x, Put(t, c, k, x),
           NEW n, k # "member" \/ x # n
    PROVE  Shown(n)' = Shown(n)
<1>0. /\ Len(log) \in Nat /\ Effects' = Effects \cup {Len(log) + 1}
      /\ Effects = 1..Len(log) /\ Len(log) + 1 \notin Effects
      /\ \A e \in Effects : log'[e] = log[e]
      /\ log'[Len(log) + 1].kind = k /\ log'[Len(log) + 1].of = x
      /\ inPlace' = inPlace \cup {Len(log) + 1}
  BY PutLog
<1>1. Registrations(n)' = Registrations(n)
  <2>1. \A e \in Effects : e \in Registrations(n)' <=> e \in Registrations(n)
    BY <1>0 DEF Registrations
  <2>2. Len(log) + 1 \notin Registrations(n)'
    BY <1>0 DEF Registrations
  <2>3. Registrations(n)' \subseteq Effects' /\ Registrations(n) \subseteq Effects
    BY DEF Registrations
  <2> QED
    BY <1>0, <2>1, <2>2, <2>3
<1>2. Newest(Registrations(n))' = Newest(Registrations(n))
  BY <1>1 DEF Newest
<1>3. Newest(Registrations(n)) # Len(log) + 1
  <2>1. Newest(Registrations(n)) \in Effects \cup {0}
    BY NewestRegistration DEF Registrations
  <2> QED
    BY <1>0, <2>1
<1> QED
  BY <1>0, <1>2, <1>3 DEF Shown

LEMMA InstallShown ==
    ASSUME Shape, Ranges, NEW t, NEW c \in Contexts, NEW n, Put(t, c, "member", n)
    PROVE  Shown(n)' = Len(log) + 1
<1>0. /\ Len(log) \in Nat /\ Effects' = Effects \cup {Len(log) + 1}
      /\ Effects = 1..Len(log) /\ Len(log) + 1 \notin Effects
      /\ \A e \in Effects : log'[e] = log[e]
      /\ log'[Len(log) + 1].kind = "member" /\ log'[Len(log) + 1].of = n
      /\ inPlace' = inPlace \cup {Len(log) + 1}
  BY PutLog
<1>1. PICK x : x = Len(log) + 1
  OBVIOUS
<1>2. Registrations(n)' = Registrations(n) \cup {x}
  <2>1. \A e \in Effects : e \in Registrations(n)' <=> e \in Registrations(n)
    BY <1>0 DEF Registrations
  <2>2. x \in Registrations(n)'
    BY <1>0, <1>1 DEF Registrations
  <2>3. Registrations(n)' \subseteq Effects' /\ Registrations(n) \subseteq Effects
    BY DEF Registrations
  <2> QED
    BY <1>0, <1>1, <2>1, <2>2, <2>3
<1>3. \A d \in Registrations(n) : d \in Nat /\ d < x
  <2>1. Registrations(n) \subseteq 1..Len(log)
    BY <1>0 DEF Registrations
  <2> QED
    BY <1>0, <1>1, <2>1
<1>4. Newest(Registrations(n) \cup {x}) = x
  <2>1. x \in Nat
    BY <1>0, <1>1
  <2> QED
    BY <1>3, <2>1 DEF Newest
<1>5. x \in inPlace'
  BY <1>0, <1>1
<1> QED
  BY <1>1, <1>2, <1>4, <1>5 DEF Shown

\* The inverse of a registration clears the name if nothing newer is shown.
LEMMA UndoShown ==
    ASSUME Shape, Ranges, NEW t, NEW e \in Effects, Undo(t, e),
           NEW n \in Names, members[n] = Shown(n)
    PROVE  members'[n] = Shown(n)'
<1>1. PICK s : s = Newest(Registrations(n))
  OBVIOUS
<1>2. /\ s \in Registrations(n) \cup {0} /\ 0 \notin inPlace
      /\ members[n] = IF s \in inPlace THEN s ELSE 0
  BY <1>1, NewestRegistration DEF Shown
<1>3. Newest(Registrations(n))' = s /\ inPlace' = inPlace \ {e}
  BY <1>1 DEF Undo, Registrations, Effects, Newest
<1>4. Shown(n)' = IF s \in inPlace \ {e} THEN s ELSE 0
  BY <1>3 DEF Shown
<1>5. CASE log[e].kind = "member" /\ log[e].of = n
  <2>1. members'[n] = IF members[n] = e THEN 0 ELSE members[n]
    BY <1>5 DEF Undo, Unregister, Ranges
  <2>2. 0 # e
    BY DEF Effects
  <2> QED
    BY <1>2, <1>4, <2>1, <2>2
<1>6. CASE ~(log[e].kind = "member" /\ log[e].of = n)
  <2>1. members'[n] = members[n]
    BY <1>6 DEF Undo, Unregister, Ranges
  <2>2. s # e \/ s \notin inPlace
    BY <1>2, <1>6 DEF Registrations
  <2> QED
    BY <1>2, <1>4, <2>1, <2>2
<1> QED
  BY <1>5, <1>6

\* Frames and goroutines undo what is in the log.
LEMMA UndoneLogged ==
    ASSUME Shape, Ranges, NEW t \in Threads
    PROVE  /\ Drop(t) => task[t].id \in Effects
           /\ RunInverse(t) => Last(Frame(t).undo) \in Effects
<1>1. Drop(t) => task[t].id \in Effects
  BY DEF Drop, HeldBy, Shape
<1>2. ASSUME RunInverse(t) PROVE Last(Frame(t).undo) \in Effects
  <2>1. stack[t] # <<>> /\ Frame(t).undo # <<>>
    BY <1>2 DEF RunInverse
  <2>2. Frame(t).undo \in Seq(Effects)
    BY <2>1, TypedFrames DEF TypedFrame
  <2> QED
    BY <2>1, <2>2, FrontElements
<1> QED
  BY <1>1, <1>2

ShownAll == \A n \in Names : members[n] = Shown(n)

LEMMA ShownAllSays == ShownAll => NewestRegistrationShown
BY DEF ShownAll, Shown, Registrations, NewestRegistrationShown

LEMMA ShownInit == Init => ShownAll
<1> SUFFICES ASSUME Init, NEW n \in Names PROVE members[n] = Shown(n)
  BY DEF ShownAll
<1>1. inPlace = {} /\ members[n] = 0
  BY DEF Init, RegistryInit
<1> QED
  BY <1>1 DEF Shown

LEMMA ShownStep == Shape /\ Ranges /\ ShownAll /\ [Next]_vars => ShownAll'
<1> SUFFICES ASSUME Shape, Ranges, ShownAll, [Next]_vars PROVE ShownAll'
  OBVIOUS
<1>1. ASSUME UNCHANGED effectVars PROVE ShownAll'
  BY <1>1 DEF effectVars, ShownAll, Shown, Registrations, Effects
<1>2. ASSUME NEW t, NEW c \in Contexts, NEW k, NEW x, k # "member", Put(t, c, k, x), members' = members
      PROVE  ShownAll'
  BY <1>2, OthersKeep DEF ShownAll
<1>3. ASSUME NEW t, NEW e \in Effects, Undo(t, e) PROVE ShownAll'
  BY <1>3, UndoShown DEF ShownAll
<1>4. ASSUME NEW t \in Threads, Call(t) PROVE ShownAll'
  <2>1. PICK c \in Contexts :
          \/ Provide(t, c) \/ Listen(t, c) \/ Release(t, c)
          \/ \E r \in Realms \cup {RootRealm} : Isolate(t, c, r)
          \/ \E n \in Names : Install(t, c, n)
    BY <1>4 DEF Call
  <2>2. CASE Provide(t, c) \/ Listen(t, c) \/ \E r \in Realms \cup {RootRealm} : Isolate(t, c, r)
    <3>1. \E k \in {"provide", "listener", "isolate"} : \E x : Put(t, c, k, x) /\ members' = members
      BY <2>2 DEF Provide, Listen, Isolate, PutAndKeep
    <3> QED
      BY <1>2, <3>1
  <2>3. CASE Release(t, c)
    BY <1>1, <2>3 DEF Release
  <2>4. ASSUME NEW m \in Names, Install(t, c, m) PROVE ShownAll'
    <3>1. Put(t, c, "member", m) /\ members' = [members EXCEPT ![m] = Len(log) + 1]
      BY <2>4 DEF Install, Register
    <3>2. ASSUME NEW n \in Names PROVE members'[n] = Shown(n)'
      <4>1. CASE n = m
        BY <3>1, <4>1, InstallShown DEF Ranges
      <4>2. CASE n # m
        BY <3>1, <4>2, OthersKeep DEF Ranges, ShownAll
      <4> QED
        BY <4>1, <4>2
    <3> QED
      BY <3>2 DEF ShownAll
  <2> QED
    BY <2>1, <2>2, <2>3, <2>4
<1>5. ASSUME NEW t \in Threads, Proceed(t) PROVE ShownAll'
  <2>1. CASE Drop(t)
    BY <1>3, <2>1, UndoneLogged DEF Drop
  <2>2. CASE RunInverse(t)
    BY <1>3, <2>2, UndoneLogged DEF RunInverse
  <2>3. CASE Keep(t) \/ Descend(t) \/ Return(t) \/ Wake(t)
    BY <1>1, <2>3 DEF Keep, Descend, Return, Wake
  <2> QED
    BY <1>5, <2>1, <2>2, <2>3 DEF Proceed
<1>6. ASSUME NEW t \in Threads, NEW e \in Effects, Withdraw(t, e) PROVE ShownAll'
  BY <1>3, <1>6 DEF Withdraw
<1>7. ASSUME \/ \E c \in Contexts : Child(c) \/ Detach(c)
             \/ \E w \in Waiters : Subscribe(w) \/ Test(w) \/ Sleep(w) \/ Rouse(w)
             \/ Evaluate \/ UNCHANGED vars
      PROVE  ShownAll'
  BY <1>1, <1>7 DEF Child, Detach, Subscribe, Test, Sleep, Rouse, Evaluate, vars
<1> QED
  BY <1>4, <1>5, <1>6, <1>7 DEF Next

\* In whatever order registrations are made and contexts unwound, a name shows
\* the newest registration while it is in place, and nothing otherwise: the
\* inverse of a superseded one never removes its successor (registry.go: Register).
THEOREM NewestIsShown == Spec => []NewestRegistrationShown
<1>1. ScopeInv => Shape
  BY DEF ScopeInv
<1>2. Spec => []Ranges
  BY <1>1, ShapeHolds, RangesInit, RangesStep, PTL DEF Spec
<1>3. Spec => []ShownAll
  BY <1>1, <1>2, ShapeHolds, ShownInit, ShownStep, PTL DEF Spec
<1> QED
  BY <1>3, ShownAllSays, PTL
-----------------------------------------------------------------------------
(* Those who are told. *)

LEMMA RealmsKept == isolation' = isolation => RealmOf' = RealmOf
BY DEF RealmOf

\* Nothing changes for anybody as long as the entries and the realms stay.
Unseen == \A c : Resolve(c)' = Resolve(c) /\ External(c)' = External(c)

LEMMA EntriesKept ==
    ASSUME isolation' = isolation, \A r : Entries(r)' = Entries(r),
           \A e \in inPlace : log'[e] = log[e]
    PROVE  Unseen
<1>1. RealmOf' = RealmOf
  BY RealmsKept
<1> DEFINE Here(r) == {e \in inPlace : log[e].kind = "provide" /\ log[e].of = r}
           There(r) == {e \in inPlace' : log'[e].kind = "provide" /\ log'[e].of = r}
<1>2. \A r : There(r) = Here(r)
  BY DEF Entries
<1> SUFFICES ASSUME NEW c PROVE Resolve(c)' = Resolve(c) /\ External(c)' = External(c)
  BY DEF Unseen
<1>3. \A r : inPlace' \cap There(r) = inPlace \cap Here(r)
  BY <1>2
<1>4. \A r : {e \in inPlace' : log'[e].at # c} \cap There(r)
            = {e \in inPlace : log[e].at # c} \cap Here(r)
  <2> SUFFICES ASSUME NEW r
               PROVE  {e \in inPlace' : log'[e].at # c} \cap There(r)
                      = {e \in inPlace : log[e].at # c} \cap Here(r)
    OBVIOUS
  <2>1. There(r) = Here(r) /\ There(r) \subseteq inPlace' /\ Here(r) \subseteq inPlace
    BY <1>2
  <2> HIDE DEF Here, There
  <2> QED
    BY <2>1
<1> DEFINE Of(mine, root) == Newest(IF mine # {} THEN mine ELSE root)
           Others == {e \in inPlace : log[e].at # c}
           OthersNow == {e \in inPlace' : log'[e].at # c}
<1>5. /\ Resolve(c) = Of(inPlace \cap Here(RealmOf[c]), inPlace \cap Here(RootRealm))
      /\ External(c) = Of(Others \cap Here(RealmOf[c]), Others \cap Here(RootRealm))
  BY DEF Resolve, External, Resolved, Entries, At
<1>6. /\ Resolve(c)' = Of(inPlace' \cap There(RealmOf[c]), inPlace' \cap There(RootRealm))
      /\ External(c)' = Of(OthersNow \cap There(RealmOf[c]), OthersNow \cap There(RootRealm))
  BY <1>1 DEF Resolve, External, Resolved, Entries, At, Newest
<1>7. \A r : OthersNow \cap There(r) = Others \cap Here(r)
  BY <1>4
<1> HIDE DEF Here, There, Of, Others, OthersNow
<1> QED
  BY <1>3, <1>5, <1>6, <1>7

LEMMA TreeKept == UNCHANGED effectVars => Unseen
BY RealmsKept DEF effectVars, Unseen, Resolve, External, Resolved, Entries, At, Newest

LEMMA PutUnseen ==
    ASSUME Shape, Ranges, NEW t, NEW c \in Contexts, NEW k, NEW x, Put(t, c, k, x),
           k # "provide", isolation' = isolation
    PROVE  Unseen
<1>0. /\ Effects' = Effects \cup {Len(log) + 1} /\ Len(log) + 1 \notin Effects
      /\ \A e \in Effects : log'[e] = log[e]
      /\ log'[Len(log) + 1].kind = k
      /\ inPlace' = inPlace \cup {Len(log) + 1} /\ inPlace \subseteq Effects
  BY PutLog
<1>1. \A r : Entries(r)' = Entries(r)
  BY <1>0 DEF Entries
<1> QED
  BY <1>0, <1>1, EntriesKept

LEMMA UndoUnseen ==
    ASSUME NEW t \in Threads, NEW e, Undo(t, e), task \in [Threads -> [do : {"none", "wake", "keep", "drop"}, id : Nat]]
    PROVE  Unseen \/ silent' \/ Owed'
<1>1. CASE log[e].kind = "isolate"
  BY <1>1 DEF Undo
<1>2. CASE log[e].kind = "provide" /\ e \in inPlace
  <2>1. task'[t].do = "wake"
    BY <1>2 DEF Undo
  <2> QED
    BY <2>1 DEF Owed
<1>3. CASE log[e].kind # "isolate" /\ ~(log[e].kind = "provide" /\ e \in inPlace)
  <2>1. isolation' = isolation /\ \A r : Entries(r)' = Entries(r)
    BY <1>3 DEF Undo, Entries
  <2>2. \A d \in inPlace : log'[d] = log[d]
    BY DEF Undo
  <2> QED
    BY <2>1, <2>2, EntriesKept
<1> QED
  BY <1>1, <1>2, <1>3

\* A waiter that has looked sleeps, or will, on a channel that somebody closes.
Heard ==
    \A w \in Waiters :
        wait[w] \in {"looked", "asleep"} /\ ~stale[w] /\ Resolve(WaitsAt[w]) # 0
            => Owed \/ silent

NoticeInv == Heard /\ DependencyFollowed

LEMMA NoticeInvSays == NoticeInv => NoLostWakeup /\ DependencyFollowed
BY DEF NoticeInv, Heard, NoLostWakeup

LEMMA NoticeInit == Init => NoticeInv
<1> SUFFICES ASSUME Init PROVE NoticeInv
  OBVIOUS
<1>1. inPlace = {} /\ known = 0 /\ \A w \in Waiters : wait[w] = "idle"
  BY DEF Init
<1>2. External(Dependent) = 0
  BY <1>1 DEF External, Resolved, Newest
<1> QED
  BY <1>1, <1>2 DEF NoticeInv, Heard, DependencyFollowed

\* Only the goroutine that owes a wake-up ends the debt.
LEMMA OwedStays ==
    ASSUME NEW t \in Threads, task[t].do # "wake", \A u \in Threads \ {t} : task'[u] = task[u]
    PROVE  Owed => Owed'
BY DEF Owed

LEMMA OwedSafe == ASSUME Owed' \/ silent' PROVE NoticeInv'
BY DEF NoticeInv, Heard, DependencyFollowed

LEMMA UnseenSafe ==
    ASSUME NoticeInv, Unseen, UNCHANGED <<waitVars, told, known>>,
           silent => silent' \/ Owed', Owed => Owed'
    PROVE  NoticeInv'
<1>1. External(Dependent)' = External(Dependent)
  BY DEF Unseen
<1>2. \A w \in Waiters : Resolve(WaitsAt[w])' = Resolve(WaitsAt[w])
  BY DEF Unseen
<1>3. Heard'
  <2> SUFFICES ASSUME NEW w \in Waiters, wait'[w] \in {"looked", "asleep"}, ~stale'[w],
                      Resolve(WaitsAt[w])' # 0
               PROVE  Owed' \/ silent'
    BY DEF Heard
  <2>1. Owed \/ silent
    BY <1>2 DEF NoticeInv, Heard, waitVars
  <2> QED
    BY <2>1
<1>4. DependencyFollowed'
  BY <1>1 DEF NoticeInv, DependencyFollowed
<1> QED
  BY <1>3, <1>4 DEF NoticeInv

LEMMA UndoTold ==
    ASSUME Shape, NoticeInv, NEW t \in Threads, task[t].do # "wake", NEW e, Undo(t, e),
           UNCHANGED waitVars
    PROVE  NoticeInv'
<1>1. Unseen \/ silent' \/ Owed'
  BY UndoUnseen DEF Shape
<1>2. (silent => silent') /\ told' = told /\ known' = known
  BY DEF Undo
<1>3. Owed => Owed'
  <2>1. \A u \in Threads \ {t} : task'[u] = task[u]
    BY DEF Undo, Shape
  <2> QED
    BY <2>1, OwedStays
<1> QED
  BY <1>1, <1>2, <1>3, OwedSafe, UnseenSafe

LEMMA CallTold == ASSUME Shape, Ranges, NoticeInv, NEW t \in Threads, Call(t) PROVE NoticeInv'
<1>1. PICK c \in Contexts :
        \/ Provide(t, c) \/ Listen(t, c) \/ Release(t, c)
        \/ \E r \in Realms \cup {RootRealm} : Isolate(t, c, r)
        \/ \E n \in Names : Install(t, c, n)
  BY DEF Call
<1>2. CASE Provide(t, c) \/ \E r \in Realms \cup {RootRealm} : Isolate(t, c, r)
  <2>1. task' = [task EXCEPT ![t] = [do |-> "wake", id |-> 0]]
    BY <1>2 DEF Provide, Isolate
  <2>2. task'[t].do = "wake"
    BY <2>1 DEF Shape
  <2> QED
    BY <2>2, OwedSafe DEF Owed
<1>3. CASE Listen(t, c)
  <2>1. /\ Put(t, c, "listener", None)
        /\ UNCHANGED <<isolation, task, waitVars, loopVars>>
    BY <1>3 DEF Listen, PutAndKeep
  <2>2. Unseen
    BY <2>1, PutUnseen
  <2> QED
    BY <2>1, <2>2, UnseenSafe DEF loopVars, Owed
<1>4. CASE Release(t, c)
  <2>1. UNCHANGED <<effectVars, task, waitVars, loopVars>>
    BY <1>4 DEF Release
  <2> QED
    BY <2>1, TreeKept, UnseenSafe DEF loopVars, Owed
<1>5. ASSUME NEW n, Install(t, c, n) PROVE NoticeInv'
  <2>1. /\ Put(t, c, "member", n) /\ task[t] = NoTask
        /\ UNCHANGED <<isolation, waitVars, loopVars>>
        /\ task' = [task EXCEPT ![t] = [do |-> "keep", id |-> Len(log) + 1]]
    BY <1>5 DEF Install, Put, Idle, Free
  <2>2. Unseen
    BY <2>1, PutUnseen
  <2>3. Owed => Owed'
    <3>1. task[t].do # "wake" /\ \A u \in Threads \ {t} : task'[u] = task[u]
      BY <2>1 DEF NoTask, Shape
    <3> QED
      BY <3>1, OwedStays
  <2> QED
    BY <2>1, <2>2, <2>3, UnseenSafe DEF loopVars
<1> QED
  BY <1>1, <1>2, <1>3, <1>4, <1>5

\* Waking closes the channel of everybody who has taken it, and tells the loop.
LEMMA WakeTold == ASSUME NEW t, Wake(t) PROVE NoticeInv'
<1>1. told' /\ \A w \in Waiters : wait'[w] # "idle" => stale'[w]
  BY DEF Wake
<1> QED
  BY <1>1 DEF NoticeInv, Heard, DependencyFollowed

LEMMA ProceedTold == ASSUME Shape, NoticeInv, NEW t \in Threads, Proceed(t) PROVE NoticeInv'
<1>1. CASE Keep(t)
  <2>1. /\ task[t].do # "wake" /\ UNCHANGED <<effectVars, waitVars, loopVars>>
        /\ \A u \in Threads \ {t} : task'[u] = task[u]
    BY <1>1 DEF Keep, Shape
  <2>2. Unseen /\ (Owed => Owed')
    BY <2>1, TreeKept, OwedStays
  <2> QED
    BY <2>1, <2>2, UnseenSafe DEF loopVars
<1>2. CASE Drop(t)
  <2>1. task[t].do # "wake" /\ Undo(t, task[t].id) /\ UNCHANGED waitVars
    BY <1>2 DEF Drop
  <2> QED
    BY <2>1, UndoTold
<1>3. CASE Descend(t) \/ Return(t)
  <2>1. UNCHANGED <<effectVars, task, waitVars, loopVars>>
    BY <1>3 DEF Descend, Return
  <2> QED
    BY <2>1, TreeKept, UnseenSafe DEF loopVars, Owed
<1>4. CASE RunInverse(t)
  <2>1. task[t].do # "wake" /\ Undo(t, Last(Frame(t).undo)) /\ UNCHANGED waitVars
    BY <1>4 DEF RunInverse, Free, NoTask
  <2> QED
    BY <2>1, UndoTold
<1>5. CASE Wake(t)
  BY <1>5, WakeTold
<1> QED
  BY <1>1, <1>2, <1>3, <1>4, <1>5 DEF Proceed

LEMMA WaiterTold ==
    ASSUME Ranges, NoticeInv, NEW w \in Waiters, Subscribe(w) \/ Test(w) \/ Sleep(w) \/ Rouse(w)
    PROVE  NoticeInv'
<1>1. UNCHANGED <<effectVars, task, loopVars>>
  BY DEF Subscribe, Test, Sleep, Rouse
<1>2. /\ \A c : Resolve(c)' = Resolve(c) /\ External(c)' = External(c)
      /\ Owed' = Owed
  BY <1>1, TreeKept DEF Unseen, Owed
<1>3. DependencyFollowed'
  <2>1. External(Dependent)' = External(Dependent)
    BY <1>2
  <2> QED
    BY <1>1, <1>2, <2>1 DEF NoticeInv, DependencyFollowed, loopVars
<1>4. ASSUME NEW v \in Waiters, wait'[v] \in {"looked", "asleep"}, ~stale'[v],
             Resolve(WaitsAt[v]) # 0
      PROVE  Owed \/ silent
  <2>1. wait[v] \in {"looked", "asleep"} /\ ~stale[v]
    <3>1. CASE v # w
      BY <1>4, <3>1 DEF Subscribe, Test, Sleep, Rouse, Ranges
    <3>2. CASE v = w
      BY <1>4, <3>2 DEF Subscribe, Test, Sleep, Rouse, Ranges
    <3> QED
      BY <3>1, <3>2
  <2> QED
    BY <1>4, <2>1 DEF NoticeInv, Heard
<1>5. Heard'
  <2> SUFFICES ASSUME NEW v \in Waiters, wait'[v] \in {"looked", "asleep"}, ~stale'[v],
                      Resolve(WaitsAt[v])' # 0
               PROVE  Owed' \/ silent'
    BY DEF Heard
  <2>1. Resolve(WaitsAt[v])' = Resolve(WaitsAt[v])
    BY <1>2
  <2> QED
    BY <1>1, <1>2, <1>4, <2>1 DEF loopVars
<1> QED
  BY <1>3, <1>5 DEF NoticeInv

LEMMA NoticeStep == Shape /\ Ranges /\ NoticeInv /\ [Next]_vars => NoticeInv'
<1> SUFFICES ASSUME Shape, Ranges, NoticeInv, [Next]_vars PROVE NoticeInv'
  OBVIOUS
<1>1. CASE (\E c \in Contexts : Child(c) \/ Detach(c)) \/ UNCHANGED vars
  <2>1. UNCHANGED <<effectVars, task, waitVars, loopVars>>
    BY <1>1 DEF Child, Detach, vars
  <2> QED
    BY <2>1, TreeKept, UnseenSafe DEF loopVars, Owed
<1>2. ASSUME NEW t \in Threads, Call(t) \/ Proceed(t) PROVE NoticeInv'
  BY <1>2, CallTold, ProceedTold
<1>3. ASSUME NEW t \in Threads, NEW e \in Effects, Withdraw(t, e) PROVE NoticeInv'
  <2>1. task[t].do # "wake" /\ Undo(t, e) /\ UNCHANGED waitVars
    BY <1>3 DEF Withdraw, Idle, Free, NoTask
  <2> QED
    BY <2>1, UndoTold
<1>4. ASSUME NEW w \in Waiters, Subscribe(w) \/ Test(w) \/ Sleep(w) \/ Rouse(w) PROVE NoticeInv'
  BY <1>4, WaiterTold
<1>5. CASE Evaluate
  <2>1. /\ known' = External(Dependent) /\ UNCHANGED <<effectVars, task, waitVars, silent>>
    BY <1>5 DEF Evaluate
  <2>2. Unseen /\ Owed' = Owed
    BY <2>1, TreeKept DEF Owed
  <2>3. External(Dependent)' = External(Dependent)
    BY <2>2 DEF Unseen
  <2>4. DependencyFollowed'
    BY <2>1, <2>3 DEF DependencyFollowed
  <2>5. Heard'
    <3> SUFFICES ASSUME NEW v \in Waiters, wait'[v] \in {"looked", "asleep"}, ~stale'[v],
                        Resolve(WaitsAt[v])' # 0
                 PROVE  Owed' \/ silent'
      BY DEF Heard
    <3>1. Resolve(WaitsAt[v])' = Resolve(WaitsAt[v])
      BY <2>2 DEF Unseen
    <3> QED
      BY <2>1, <2>2, <3>1 DEF NoticeInv, Heard, waitVars
  <2> QED
    BY <2>4, <2>5 DEF NoticeInv
<1> QED
  BY <1>1, <1>2, <1>3, <1>4, <1>5 DEF Next

LEMMA NoticesHold == Spec => []NoticeInv
<1>1. ScopeInv => Shape
  BY DEF ScopeInv
<1>2. Spec => []Ranges
  BY <1>1, ShapeHolds, RangesInit, RangesStep, PTL DEF Spec
<1> QED
  BY <1>1, <1>2, ShapeHolds, NoticeInit, NoticeStep, PTL DEF Spec

\* No wake-up of WaitService is lost, in any tree and with any number of waiters:
\* one that sleeps on an open channel while its key resolves has a goroutine that
\* is still to close it, or an isolation was undone (context.go: WaitService,
\* wakeServiceWatchers).
THEOREM NoWakeupIsLost == Spec => []NoLostWakeup
BY NoticesHold, NoticeInvSays, PTL

\* Whatever call changes what a dependency resolves to, in whatever context, the
\* loop has been notified or will be, the undoing of an isolation excepted
\* (context.go: Provide, Isolate and their inverses).
THEOREM DependenciesAreFollowed == Spec => []DependencyFollowed
BY NoticesHold, NoticeInvSays, PTL
-----------------------------------------------------------------------------
(* The order of unwinding. *)

KidsOf(c) == {k \in Contexts \ {Top} : Parent[k] = c}

\* Frames go down the tree.
Deepens(s) == \A i, j \in DOMAIN s : i < j => Depth[s[i].ctx] < Depth[s[j].ctx]

\* Lists and frames hold children of their context, and a goroutine's frames
\* belong to closed contexts on one way down.
Lineage ==
    /\ \A c \in Contexts : ToSet(children[c]) \subseteq KidsOf(c)
    /\ \A t \in Threads : \A fr \in ToSet(stack[t]) :
           mode[fr.ctx] = "closed" /\ ToSet(fr.kids) \subseteq KidsOf(fr.ctx)
    /\ \A t \in Threads : Deepens(stack[t])

LEMMA WithoutSubset ==
    ASSUME NEW S, NEW s \in Seq(S), NEW x
    PROVE  ToSet(Without(s, x)) \subseteq ToSet(s)
<1>1. s \in Seq(ToSet(s))
  BY DEF ToSet
<1>2. PICK r : r = Without(s, x)
  OBVIOUS
<1>3. r \in Seq(ToSet(s))
  BY <1>1, <1>2, WithoutElements
<1>4. ToSet(r) \subseteq ToSet(s)
  <2>1. \A T : \A q \in Seq(T) : \A i \in DOMAIN q : q[i] \in T
    OBVIOUS
  <2> QED
    BY <1>3, <2>1 DEF ToSet
<1> QED
  BY <1>2, <1>4

LEMMA DeepFront ==
    ASSUME NEW s \in Seq(FrameRecord), s # <<>>, Deepens(s)
    PROVE  /\ Deepens(Front(s))
           /\ \A fr \in ToSet(Front(s)) : Depth[fr.ctx] < Depth[Last(s).ctx]
<1>1. /\ Len(s) \in Nat \ {0} /\ DOMAIN s = 1..Len(s)
      /\ DOMAIN Front(s) = 1..Len(s) - 1
      /\ \A i \in 1..Len(s) - 1 : Front(s)[i] = s[i]
      /\ Last(s) = s[Len(s)]
  BY DEF Front, Last
<1>2. Deepens(Front(s))
  BY <1>1 DEF Deepens
<1>3. ASSUME NEW fr \in ToSet(Front(s)) PROVE Depth[fr.ctx] < Depth[Last(s).ctx]
  <2>1. PICK i \in 1..Len(s) - 1 : fr = s[i]
    BY <1>1 DEF ToSet
  <2>2. i \in DOMAIN s /\ Len(s) \in DOMAIN s /\ i < Len(s)
    BY <1>1
  <2> QED
    BY <1>1, <2>1, <2>2 DEF Deepens
<1> QED
  BY <1>2, <1>3

LEMMA DeepAppend ==
    ASSUME NEW s \in Seq(FrameRecord), NEW r \in FrameRecord, Deepens(s),
           \A fr \in ToSet(s) : Depth[fr.ctx] < Depth[r.ctx]
    PROVE  Deepens(Append(s, r))
<1> DEFINE a == Append(s, r)
<1>1. /\ Len(s) \in Nat /\ DOMAIN a = 1..Len(s) + 1 /\ DOMAIN s = 1..Len(s)
      /\ \A i \in 1..Len(s) : a[i] = s[i]
      /\ a[Len(s) + 1] = r
  OBVIOUS
<1> SUFFICES ASSUME NEW i \in DOMAIN a, NEW j \in DOMAIN a, i < j
             PROVE  Depth[a[i].ctx] < Depth[a[j].ctx]
  BY DEF Deepens
<1> HIDE DEF a
<1>2. i \in 1..Len(s) /\ a[i] = s[i] /\ i \in DOMAIN s
  BY <1>1
<1>3. CASE j = Len(s) + 1
  <2>1. s[i] \in ToSet(s)
    BY <1>2 DEF ToSet
  <2> QED
    BY <1>1, <1>2, <1>3, <2>1
<1>4. CASE j # Len(s) + 1
  <2>1. j \in DOMAIN s /\ a[j] = s[j]
    BY <1>1, <1>4
  <2> QED
    BY <1>2, <2>1 DEF Deepens
<1> QED
  BY <1>3, <1>4

\* A frame with other lists is as deep as before.
LEMMA DeepWith ==
    ASSUME Shape, Lineage, NEW t \in Threads, stack[t] # <<>>,
           NEW kids \in Seq(Contexts), NEW undo \in Seq(Nat)
    PROVE  Deepens(With(t, kids, undo))
<1>1. PICK to : to = [ctx |-> Frame(t).ctx, kids |-> kids, undo |-> undo]
  OBVIOUS
<1>2. stack[t] \in Seq(FrameRecord) /\ Deepens(stack[t])
  BY DEF Shape, Lineage
<1>3. Front(stack[t]) \in Seq(FrameRecord) /\ Frame(t) \in FrameRecord
  BY NewestFrame
<1>4. to \in FrameRecord /\ to.ctx = Last(stack[t]).ctx
  BY <1>1, <1>3 DEF FrameRecord, Frame
<1>5. /\ Deepens(Front(stack[t]))
      /\ \A fr \in ToSet(Front(stack[t])) : Depth[fr.ctx] < Depth[to.ctx]
  BY <1>2, <1>4, DeepFront
<1>6. Deepens(Append(Front(stack[t]), to))
  BY <1>3, <1>4, <1>5, DeepAppend
<1> QED
  BY <1>1, <1>6 DEF With

LEMMA LineageInit == Init => Lineage
<1> SUFFICES ASSUME Init PROVE Lineage
  OBVIOUS
<1>1. ToSet(<<>>) = {} /\ Deepens(<<>>)
  BY DEF ToSet, Deepens
<1>2. /\ \A c \in Contexts : children[c] = <<>>
      /\ \A t \in Threads : stack[t] = <<>>
  BY DEF Init
<1> QED
  BY <1>1, <1>2 DEF Lineage

LEMMA FramesOfContexts ==
    ASSUME Shape
    PROVE  \A t \in Threads : \A fr \in ToSet(stack[t]) : fr.ctx \in Contexts
<1> SUFFICES ASSUME NEW t \in Threads, NEW fr \in ToSet(stack[t]) PROVE fr.ctx \in Contexts
  OBVIOUS
<1>1. stack[t] \in Seq(FrameRecord)
  BY DEF Shape
<1>2. fr \in FrameRecord
  BY <1>1 DEF ToSet
<1> QED
  BY <1>2 DEF FrameRecord

\* One goroutine's frames change, and contexts may close.
LEMMA LineageKept ==
    ASSUME Shape, Lineage, NEW t \in Threads,
           \A c \in Contexts : ToSet(children'[c]) \subseteq KidsOf(c),
           \A c \in Contexts : mode[c] = "closed" => mode'[c] = "closed",
           \A u \in Threads \ {t} : stack'[u] = stack[u],
           Deepens(stack'[t]),
           \A fr \in ToSet(stack'[t]) :
               mode'[fr.ctx] = "closed" /\ ToSet(fr.kids) \subseteq KidsOf(fr.ctx)
    PROVE  Lineage'
<1>1. ASSUME NEW u \in Threads
      PROVE  /\ Deepens(stack'[u])
             /\ \A fr \in ToSet(stack'[u]) :
                    mode'[fr.ctx] = "closed" /\ ToSet(fr.kids) \subseteq KidsOf(fr.ctx)
  <2>1. CASE u = t
    BY <2>1
  <2>2. CASE u # t
    <3>1. stack'[u] = stack[u]
      BY <2>2
    <3>2. \A fr \in ToSet(stack[u]) : fr.ctx \in Contexts
      BY FramesOfContexts
    <3> QED
      BY <3>1, <3>2 DEF Lineage
  <2> QED
    BY <2>1, <2>2
<1> QED
  BY <1>1 DEF Lineage, KidsOf, Deepens

LEMMA FramesKept ==
    ASSUME Shape, Lineage, UNCHANGED stack,
           \A c \in Contexts : ToSet(children'[c]) \subseteq KidsOf(c),
           \A c \in Contexts : mode[c] = "closed" => mode'[c] = "closed"
    PROVE  Lineage'
BY FramesOfContexts DEF Lineage, KidsOf, Deepens

LEMMA EnterLineage ==
    ASSUME Shape, Lineage, NEW t \in Threads, NEW c \in Contexts,
           NEW frames \in Seq(FrameRecord), Enter(t, frames, c), Deepens(frames),
           \A fr \in ToSet(frames) : /\ mode[fr.ctx] = "closed" /\ Depth[fr.ctx] < Depth[c]
                                     /\ ToSet(fr.kids) \subseteq KidsOf(fr.ctx)
    PROVE  Lineage'
<1>1. PICK new : new = [ctx |-> c, kids |-> children[c], undo |-> inverses[c]]
  OBVIOUS
<1>2. /\ mode' = [mode EXCEPT ![c] = "closed"]
      /\ stack' = [stack EXCEPT ![t] = Append(frames, new)]
      /\ new \in FrameRecord /\ new.ctx = c /\ new.kids = children[c]
  BY <1>1 DEF Enter, Shape, FrameRecord
<1>3. /\ stack'[t] = Append(frames, new) /\ \A u \in Threads \ {t} : stack'[u] = stack[u]
      /\ \A d \in Contexts : mode[d] = "closed" => mode'[d] = "closed"
      /\ mode'[c] = "closed"
  BY <1>2 DEF Shape
<1>4. ToSet(stack'[t]) = ToSet(frames) \cup {new} /\ Deepens(stack'[t])
  BY <1>2, <1>3, AppendElements, DeepAppend
<1>5. ASSUME NEW d \in Contexts PROVE ToSet(children'[d]) \subseteq KidsOf(d)
  <2>1. children'[d] \in {<<>>, children[d], Without(children[d], c)}
    BY DEF Enter
  <2>2. ToSet(children'[d]) \subseteq ToSet(children[d])
    <3>1. children[d] \in Seq(Contexts) /\ ToSet(<<>>) = {}
      BY DEF Shape, ToSet
    <3> QED
      BY <2>1, <3>1, WithoutSubset
  <2> QED
    BY <2>2 DEF Lineage
<1>6. \A fr \in ToSet(stack'[t]) : mode'[fr.ctx] = "closed" /\ ToSet(fr.kids) \subseteq KidsOf(fr.ctx)
  BY <1>2, <1>3, <1>4 DEF Lineage
<1> QED
  BY <1>3, <1>4, <1>5, <1>6, LineageKept

\* The frame that With replaces has the same context, and no more children.
LEMMA WithLineage ==
    ASSUME Shape, Lineage, NEW t \in Threads, stack[t] # <<>>,
           NEW kids \in Seq(Contexts), NEW undo \in Seq(Nat),
           ToSet(kids) \subseteq ToSet(Frame(t).kids)
    PROVE  /\ With(t, kids, undo) \in Seq(FrameRecord) /\ Deepens(With(t, kids, undo))
           /\ \A fr \in ToSet(With(t, kids, undo)) :
                  /\ mode[fr.ctx] = "closed" /\ ToSet(fr.kids) \subseteq KidsOf(fr.ctx)
                  /\ fr.ctx = Frame(t).ctx \/ Depth[fr.ctx] < Depth[Frame(t).ctx]
<1>1. PICK to : to = [ctx |-> Frame(t).ctx, kids |-> kids, undo |-> undo]
  OBVIOUS
<1>2. PICK w : w = With(t, kids, undo)
  OBVIOUS
<1>3. w \in Seq(FrameRecord) /\ ToSet(w) = ToSet(Front(stack[t])) \cup {to}
  BY <1>1, <1>2, WithFrame
<1>4. /\ Frame(t) \in ToSet(stack[t]) /\ ToSet(Front(stack[t])) \subseteq ToSet(stack[t])
      /\ to.ctx = Frame(t).ctx /\ to.kids = kids
  BY <1>1, NewestFrame
<1>5. \A fr \in ToSet(Front(stack[t])) : Depth[fr.ctx] < Depth[Frame(t).ctx]
  <2>1. stack[t] \in Seq(FrameRecord) /\ Deepens(stack[t])
    BY DEF Shape, Lineage
  <2> QED
    BY <2>1, DeepFront DEF Frame
<1>6. \A fr \in ToSet(w) : /\ mode[fr.ctx] = "closed" /\ ToSet(fr.kids) \subseteq KidsOf(fr.ctx)
                           /\ fr.ctx = Frame(t).ctx \/ Depth[fr.ctx] < Depth[Frame(t).ctx]
  BY <1>3, <1>4, <1>5 DEF Lineage
<1>7. Deepens(w)
  BY <1>2, DeepWith
<1> QED
  BY <1>2, <1>3, <1>6, <1>7

LEMMA DescendLineage == ASSUME Shape, Lineage, NEW t \in Threads, Descend(t) PROVE Lineage'
<1>1. PICK d : d = Last(Frame(t).kids)
  OBVIOUS
<1>2. PICK rest : rest = With(t, Front(Frame(t).kids), Frame(t).undo)
  OBVIOUS
<1>3. /\ stack[t] # <<>> /\ Frame(t).kids # <<>>
      /\ IF mode[d] = "open" THEN Enter(t, rest, d)
         ELSE stack' = [stack EXCEPT ![t] = rest] /\ UNCHANGED <<mode, children, inverses>>
  BY <1>1, <1>2 DEF Descend
<1>4. /\ Frame(t) \in ToSet(stack[t]) /\ Frame(t).ctx \in Contexts
      /\ Frame(t).kids \in Seq(Contexts) /\ Frame(t).undo \in Seq(Nat)
  BY <1>3, NewestFrame DEF FrameRecord
<1>5. /\ Front(Frame(t).kids) \in Seq(Contexts)
      /\ ToSet(Frame(t).kids) = ToSet(Front(Frame(t).kids)) \cup {d}
  BY <1>1, <1>3, <1>4, FrontElements
<1>6. d \in KidsOf(Frame(t).ctx)
  BY <1>4, <1>5 DEF Lineage
<1>7. /\ rest \in Seq(FrameRecord) /\ Deepens(rest)
      /\ \A fr \in ToSet(rest) :
             /\ mode[fr.ctx] = "closed" /\ ToSet(fr.kids) \subseteq KidsOf(fr.ctx)
             /\ fr.ctx = Frame(t).ctx \/ Depth[fr.ctx] < Depth[Frame(t).ctx]
  <2>1. ToSet(Front(Frame(t).kids)) \subseteq ToSet(Frame(t).kids)
    BY <1>5
  <2> QED
    BY <1>2, <1>3, <1>4, <1>5, <2>1, WithLineage
<1>8. CASE mode[d] = "open"
  <2>1. d \in Contexts \ {Top} /\ Depth[Frame(t).ctx] < Depth[d]
    BY <1>6, Depths DEF KidsOf
  <2>2. ASSUME NEW fr \in ToSet(rest) PROVE Depth[fr.ctx] < Depth[d]
    <3>1. fr.ctx \in Contexts
      <4>1. fr \in FrameRecord
        BY <1>7 DEF ToSet
      <4> QED
        BY <4>1 DEF FrameRecord
    <3>2. Depth[fr.ctx] \in Nat /\ Depth[d] \in Nat /\ Depth[Frame(t).ctx] \in Nat
      BY <1>4, <2>1, <3>1, Depths
    <3> QED
      BY <1>7, <2>1, <3>2
  <2> QED
    BY <1>3, <1>7, <1>8, <2>1, <2>2, EnterLineage
<1>9. CASE mode[d] # "open"
  <2>1. stack'[t] = rest /\ (\A u \in Threads \ {t} : stack'[u] = stack[u]) /\ UNCHANGED <<mode, children>>
    BY <1>3, <1>9 DEF Shape
  <2>2. \A c \in Contexts : ToSet(children'[c]) \subseteq KidsOf(c)
    BY <2>1 DEF Lineage
  <2> QED
    BY <1>7, <2>1, <2>2, LineageKept
<1> QED
  BY <1>8, <1>9

\* Steps that only take from the frames of one goroutine.
LEMMA LessLineage ==
    ASSUME Shape, Lineage, NEW t \in Threads, stack[t] # <<>>, UNCHANGED treeVars,
           NEW s, stack' = [stack EXCEPT ![t] = s], Deepens(s),
           \A fr \in ToSet(s) : mode[fr.ctx] = "closed" /\ ToSet(fr.kids) \subseteq KidsOf(fr.ctx)
    PROVE  Lineage'
<1>1. stack'[t] = s /\ (\A u \in Threads \ {t} : stack'[u] = stack[u]) /\ UNCHANGED <<mode, children>>
  BY DEF Shape, treeVars
<1>2. \A c \in Contexts : ToSet(children'[c]) \subseteq KidsOf(c)
  BY <1>1 DEF Lineage
<1> QED
  BY <1>1, <1>2, LineageKept

LEMMA RunInverseLineage == ASSUME Shape, Lineage, NEW t \in Threads, RunInverse(t) PROVE Lineage'
<1>1. PICK undo : undo = Front(Frame(t).undo)
  OBVIOUS
<1>2. /\ stack[t] # <<>> /\ Frame(t).undo # <<>> /\ UNCHANGED treeVars
      /\ stack' = [stack EXCEPT ![t] = With(t, <<>>, undo)]
  BY <1>1 DEF RunInverse
<1>3. undo \in Seq(Nat) /\ <<>> \in Seq(Contexts) /\ ToSet(<<>>) = {}
  <2>1. Frame(t).undo \in Seq(Nat)
    BY <1>2, NewestFrame DEF FrameRecord
  <2> QED
    BY <1>1, <1>2, <2>1, FrontElements DEF ToSet
<1>4. /\ Deepens(With(t, <<>>, undo))
      /\ \A fr \in ToSet(With(t, <<>>, undo)) :
             mode[fr.ctx] = "closed" /\ ToSet(fr.kids) \subseteq KidsOf(fr.ctx)
  BY <1>2, <1>3, WithLineage
<1> QED
  BY <1>2, <1>4, LessLineage

LEMMA ReturnLineage == ASSUME Shape, Lineage, NEW t \in Threads, Return(t) PROVE Lineage'
<1>1. /\ stack[t] # <<>> /\ UNCHANGED treeVars
      /\ stack' = [stack EXCEPT ![t] = Front(stack[t])]
  BY DEF Return
<1>2. stack[t] \in Seq(FrameRecord) /\ Deepens(stack[t])
  BY DEF Shape, Lineage
<1>3. Deepens(Front(stack[t])) /\ ToSet(Front(stack[t])) \subseteq ToSet(stack[t])
  BY <1>1, <1>2, DeepFront, NewestFrame
<1>4. \A fr \in ToSet(Front(stack[t])) :
          mode[fr.ctx] = "closed" /\ ToSet(fr.kids) \subseteq KidsOf(fr.ctx)
  BY <1>3 DEF Lineage
<1> QED
  BY <1>1, <1>3, <1>4, LessLineage

LEMMA ReleaseLineage ==
    ASSUME Shape, Lineage, NEW t \in Threads, NEW c \in Contexts, Release(t, c)
    PROVE  Lineage'
<1>1. <<>> \in Seq(FrameRecord) /\ Deepens(<<>>) /\ ToSet(<<>>) = {}
  BY DEF Deepens, ToSet
<1>2. PICK s : s = <<>>
  OBVIOUS
<1>3. Enter(t, s, c)
  BY <1>2 DEF Release
<1> QED
  BY <1>1, <1>2, <1>3, EnterLineage

LEMMA TreeLineage ==
    ASSUME Shape, Lineage, NEW c \in Contexts, Child(c) \/ Detach(c)
    PROVE  Lineage'
<1>1. /\ UNCHANGED stack /\ c # Top /\ Parent[c] \in Contexts
      /\ \A d \in Contexts : mode[d] = "closed" => mode'[d] = "closed"
  BY TreeAssumption DEF Child, Detach, Shape
<1>2. children[Parent[c]] \in Seq(Contexts) /\ c \in KidsOf(Parent[c])
  BY <1>1 DEF Shape, KidsOf
<1>3. \/ children' = children
      \/ children' = [children EXCEPT ![Parent[c]] = Append(children[Parent[c]], c)]
      \/ children' = [children EXCEPT ![Parent[c]] = Without(children[Parent[c]], c)]
  BY DEF Child, Detach
<1>4. /\ ToSet(Append(children[Parent[c]], c)) = ToSet(children[Parent[c]]) \cup {c}
      /\ ToSet(Without(children[Parent[c]], c)) \subseteq ToSet(children[Parent[c]])
  BY <1>2, AppendElements, WithoutSubset
<1>5. ASSUME NEW d \in Contexts PROVE ToSet(children'[d]) \subseteq KidsOf(d)
  <2>1. ToSet(children[d]) \subseteq KidsOf(d)
    BY DEF Lineage
  <2>2. CASE d # Parent[c]
    <3>1. children'[d] = children[d]
      BY <1>3, <2>2 DEF Shape
    <3> QED
      BY <2>1, <3>1
  <2>3. CASE d = Parent[c]
    <3>1. children'[d] \in {children[d], Append(children[d], c), Without(children[d], c)}
      BY <1>3, <2>3 DEF Shape
    <3> QED
      BY <1>2, <1>4, <2>1, <2>3, <3>1
  <2> QED
    BY <2>2, <2>3
<1> QED
  BY <1>1, <1>5, FramesKept

LEMMA LineageStep == Shape /\ Lineage /\ [Next]_vars => Lineage'
<1> SUFFICES ASSUME Shape, Lineage, [Next]_vars PROVE Lineage'
  OBVIOUS
<1>1. ASSUME UNCHANGED <<treeVars, stack>> PROVE Lineage'
  BY <1>1 DEF treeVars, Lineage, KidsOf, Deepens
<1>2. CASE \E c \in Contexts : Child(c) \/ Detach(c)
  BY <1>2, TreeLineage
<1>3. ASSUME NEW t \in Threads, Call(t) PROVE Lineage'
  <2>1. PICK c \in Contexts :
          \/ Provide(t, c) \/ Listen(t, c) \/ Release(t, c)
          \/ \E r \in Realms \cup {RootRealm} : Isolate(t, c, r)
          \/ \E n \in Names : Install(t, c, n)
    BY <1>3 DEF Call
  <2>2. CASE Release(t, c)
    BY <2>2, ReleaseLineage
  <2>3. CASE ~Release(t, c)
    BY <1>1, <2>1, <2>3 DEF Provide, Listen, Isolate, Install
  <2> QED
    BY <2>2, <2>3
<1>4. ASSUME NEW t \in Threads, Proceed(t) PROVE Lineage'
  <2>1. CASE Keep(t) \/ Drop(t) \/ Wake(t)
    BY <1>1, <2>1 DEF Keep, Drop, Wake
  <2> QED
    BY <1>4, <2>1, DescendLineage, RunInverseLineage, ReturnLineage DEF Proceed
<1>5. ASSUME \/ \E t \in Threads : \E e \in Effects : Withdraw(t, e)
             \/ \E w \in Waiters : Subscribe(w) \/ Test(w) \/ Sleep(w) \/ Rouse(w)
             \/ Evaluate \/ UNCHANGED vars
      PROVE  Lineage'
  BY <1>1, <1>5 DEF Withdraw, Subscribe, Test, Sleep, Rouse, Evaluate, vars
<1> QED
  BY <1>2, <1>3, <1>4, <1>5 DEF Next

\* The newest frame is the deepest.
LEMMA NewestIsDeepest ==
    ASSUME Shape, Lineage, NEW t \in Threads, stack[t] # <<>>, NEW fr \in ToSet(stack[t])
    PROVE  fr = Frame(t) \/ Depth[fr.ctx] < Depth[Frame(t).ctx]
<1>1. stack[t] \in Seq(FrameRecord) /\ Deepens(stack[t])
  BY DEF Shape, Lineage
<1>2. \A o \in ToSet(Front(stack[t])) : Depth[o.ctx] < Depth[Frame(t).ctx]
  BY <1>1, DeepFront DEF Frame
<1> QED
  BY <1>2, NewestFrame

\* An open context below the one whose inverses t runs is below one that
\* somebody else unwinds: otherwise it is in the list of an open context nearer
\* to that of t, which is closed, or among the children t has left to do.
LEMMA OpenBelow ==
    ASSUME ScopeInv, Ranges, Lineage, NEW t \in Threads, stack[t] # <<>>, Frame(t).kids = <<>>,
           NEW c \in Contexts, Frame(t).ctx \in Above[c], mode[c] = "open"
    PROVE  InOtherHands(c, t)
<1> USE DEF ScopeInv
<1>0. PICK p : p = Frame(t).ctx
  OBVIOUS
<1>1. p \in Contexts /\ mode[p] = "closed" /\ Depth[p] \in Nat
  BY <1>0, NewestFrame, FramesOfContexts, Depths DEF Lineage
<1> DEFINE Bad == {d \in Contexts : p \in Above[d] /\ mode[d] = "open" /\ ~InOtherHands(d, t)}
<1>2. ASSUME Bad # {} PROVE FALSE
  <2>1. PICK d \in Bad : \A e \in Bad : Depth[d] <= Depth[e]
    <3>1. Bad \in SUBSET Contexts
      OBVIOUS
    <3> HIDE DEF Bad
    <3> QED
      BY <1>2, <3>1, Nearest
  <2>2. d \in Contexts /\ p \in Above[d] /\ mode[d] = "open" /\ ~InOtherHands(d, t)
    BY <2>1
  <2>3. d # Top /\ d \notin FiberContexts /\ Above[d] = {Parent[d]} \cup Above[Parent[d]]
    BY <2>2, AboveIs
  <2>4. /\ Parent[d] \in Contexts /\ Depth[Parent[d]] \in Nat /\ Depth[d] \in Nat
        /\ Depth[Parent[d]] < Depth[d]
    BY <2>2, <2>3, Depths
  <2>5. InList(d) \/ InFrame(d)
    BY <2>2, <2>3 DEF Attached, Ranges
  <2>6. CASE InList(d)
    <3>1. mode[Parent[d]] = "open"
      BY <2>6 DEF InList
    <3>2. p \in Above[Parent[d]]
      BY <1>1, <2>2, <2>3, <3>1
    <3>3. Parent[d] \notin Bad
      BY <2>1, <2>4
    <3>4. InOtherHands(Parent[d], t)
      BY <2>4, <3>1, <3>2, <3>3
    <3> QED
      BY <2>2, <2>3, <3>4 DEF InOtherHands
  <2>7. CASE InFrame(d)
    <3>1. PICK u \in Threads : \E fr \in ToSet(stack[u]) : fr.ctx = Parent[d] /\ d \in ToSet(fr.kids)
      BY <2>7 DEF InFrame
    <3>2. PICK fr \in ToSet(stack[u]) : fr.ctx = Parent[d] /\ d \in ToSet(fr.kids)
      BY <3>1
    <3>3. u = t
      BY <2>2, <2>3, <3>2 DEF InOtherHands
    <3>4. fr # Frame(t)
      BY <3>2 DEF ToSet
    <3>5. Depth[Parent[d]] < Depth[p]
      BY <1>0, <3>2, <3>3, <3>4, NewestIsDeepest
    <3>6. p = Parent[d] \/ Depth[p] < Depth[Parent[d]]
      BY <2>2, <2>3, <2>4, AboveIs
    <3> QED
      BY <1>1, <2>4, <3>5, <3>6
  <2> QED
    BY <2>5, <2>6, <2>7
<1> QED
  BY <1>0, <1>2

\* So is a context with inverses left to run.
LEMMA LeftBelow ==
    ASSUME ScopeInv, Ranges, Lineage, NEW t \in Threads, stack[t] # <<>>, Frame(t).kids = <<>>,
           NEW c \in Contexts, Frame(t).ctx \in Above[c]
    PROVE  Left(c) = {} \/ InOtherHands(c, t)
<1> USE DEF ScopeInv
<1> SUFFICES ASSUME NEW e \in Left(c) PROVE InOtherHands(c, t)
  OBVIOUS
<1>1. e \in inPlace /\ At(e) = c /\ ~Held(e)
  BY DEF Left, Held
<1>2. Listed(e) \/ Unwinding(e)
  BY <1>1 DEF Covered
<1>3. CASE Listed(e)
  BY <1>1, <1>3, OpenBelow DEF Listed
<1>4. CASE Unwinding(e)
  <2>1. PICK u \in Threads : \E fr \in ToSet(stack[u]) : fr.ctx = c
    BY <1>1, <1>4 DEF Unwinding
  <2>2. PICK fr \in ToSet(stack[u]) : fr.ctx = c
    BY <2>1
  <2>3. Depth[Frame(t).ctx] < Depth[c] /\ Depth[c] \in Nat /\ Depth[Frame(t).ctx] \in Nat
    <3>1. Frame(t).ctx \in Contexts
      BY NewestFrame, FramesOfContexts
    <3> QED
      BY <3>1, AboveIs, Depths
  <2>4. u # t
    BY <2>2, <2>3, NewestIsDeepest
  <2> QED
    BY <2>2, <2>4 DEF InOtherHands
<1> QED
  BY <1>2, <1>3, <1>4

\* Only RunInverse takes an inverse from the newest frame and leaves the frame.
LEMMA WhoUndoes ==
    ASSUME Shape, [Next]_vars, NEW t \in Threads, Undoes(t)
    PROVE  RunInverse(t)
<1>1. /\ stack[t] # <<>> /\ Len(stack'[t]) = Len(stack[t])
      /\ Last(stack'[t]).undo # Frame(t).undo
  BY DEF Undoes
<1>2. stack'[t] # stack[t]
  BY <1>1 DEF Frame
<1>3. stack' # stack
  BY <1>2
<1>4. PICK u \in Threads : \/ \E c \in Contexts : Release(u, c)
                           \/ Descend(u) \/ RunInverse(u) \/ Return(u)
  BY <1>3 DEF Next, vars, Call, Proceed, Child, Detach, Provide, Listen, Isolate, Install,
              Keep, Drop, Withdraw, Wake, Evaluate, Subscribe, Test, Sleep, Rouse
<1>5. u = t
  <2>1. \E s : stack' = [stack EXCEPT ![u] = s]
    BY <1>4 DEF Release, Enter, Descend, RunInverse, Return
  <2> QED
    BY <1>2, <2>1 DEF Shape
<1>6. ~\E c \in Contexts : Release(t, c)
  BY <1>1 DEF Release, Idle
<1>7. stack[t] \in Seq(FrameRecord) /\ Len(stack[t]) \in Nat \ {0}
      /\ Front(stack[t]) \in Seq(FrameRecord) /\ Len(Front(stack[t])) = Len(stack[t]) - 1
  <2>1. stack[t] \in Seq(FrameRecord)
    BY DEF Shape
  <2> QED
    BY <1>1, <2>1 DEF Front
<1>8. ASSUME NEW kids \in Seq(Contexts)
      PROVE  /\ With(t, kids, Frame(t).undo) \in Seq(FrameRecord)
             /\ Len(With(t, kids, Frame(t).undo)) = Len(stack[t])
             /\ Last(With(t, kids, Frame(t).undo)).undo = Frame(t).undo
  <2>1. PICK to : to = [ctx |-> Frame(t).ctx, kids |-> kids, undo |-> Frame(t).undo]
    OBVIOUS
  <2>2. to \in FrameRecord /\ to.undo = Frame(t).undo
    BY <1>1, <2>1, NewestFrame DEF FrameRecord
  <2>3. With(t, kids, Frame(t).undo) = Append(Front(stack[t]), to)
    BY <2>1 DEF With
  <2> QED
    BY <1>7, <2>2, <2>3 DEF Last
<1>9. ~Descend(t)
  <2> SUFFICES ASSUME Descend(t) PROVE FALSE
    OBVIOUS
  <2>1. PICK d : d = Last(Frame(t).kids)
    OBVIOUS
  <2>2. PICK rest : rest = With(t, Front(Frame(t).kids), Frame(t).undo)
    OBVIOUS
  <2>3. /\ Frame(t).kids # <<>>
        /\ IF mode[d] = "open" THEN Enter(t, rest, d) ELSE stack' = [stack EXCEPT ![t] = rest]
    BY <2>1, <2>2 DEF Descend
  <2>4. Front(Frame(t).kids) \in Seq(Contexts)
    <3>1. Frame(t).kids \in Seq(Contexts)
      BY <1>1, NewestFrame DEF FrameRecord
    <3> QED
      BY <2>3, <3>1, FrontElements
  <2>5. rest \in Seq(FrameRecord) /\ Len(rest) = Len(stack[t]) /\ Last(rest).undo = Frame(t).undo
    BY <1>8, <2>2, <2>4
  <2>6. CASE mode[d] = "open"
    <3>1. PICK new : new = [ctx |-> d, kids |-> children[d], undo |-> inverses[d]]
      OBVIOUS
    <3>2. stack'[t] = Append(rest, new)
      BY <2>3, <2>6, <3>1 DEF Enter, Shape
    <3>3. Len(Append(rest, new)) = Len(rest) + 1
      <4>1. rest \in Seq(FrameRecord \cup {new}) /\ new \in FrameRecord \cup {new}
        BY <2>5
      <4> QED
        BY <4>1
    <3> QED
      BY <1>1, <1>7, <2>5, <3>2, <3>3
  <2>7. CASE mode[d] # "open"
    <3>1. stack'[t] = rest
      BY <2>3, <2>7 DEF Shape
    <3> QED
      BY <1>1, <2>5, <3>1
  <2> QED
    BY <2>6, <2>7
<1>10. ~Return(t)
  <2> SUFFICES ASSUME Return(t) PROVE FALSE
    OBVIOUS
  <2>1. stack'[t] = Front(stack[t])
    BY DEF Return, Shape
  <2> QED
    BY <1>1, <1>7, <2>1
<1> QED
  BY <1>4, <1>5, <1>6, <1>9, <1>10

\* Children first, in every tree and with any number of goroutines that unwind
\* parts of it at the same time: when an inverse of a context runs, nothing is
\* left to undo in the contexts below it, except where another goroutine had
\* begun to unwind them (context.go: unwind).
THEOREM ChildrenComeFirst == Spec => ChildrenFirst
<1>1. ScopeInv => Shape
  BY DEF ScopeInv
<1>2. Spec => []Ranges
  BY <1>1, ShapeHolds, RangesInit, RangesStep, PTL DEF Spec
<1>3. Spec => []Lineage
  BY <1>1, ShapeHolds, LineageInit, LineageStep, PTL DEF Spec
<1>4. ScopeInv /\ Ranges /\ Lineage /\ [Next]_vars
          => [\A t \in Threads : Undoes(t) =>
                \A c \in Contexts : Frame(t).ctx \in Above[c] => Left(c) = {} \/ InOtherHands(c, t)]_vars
  <2> SUFFICES ASSUME ScopeInv, Ranges, Lineage, [Next]_vars, NEW t \in Threads, Undoes(t),
                      NEW c \in Contexts, Frame(t).ctx \in Above[c]
               PROVE  Left(c) = {} \/ InOtherHands(c, t)
    OBVIOUS
  <2>1. RunInverse(t)
    BY <1>1, WhoUndoes
  <2> QED
    BY <2>1, LeftBelow DEF RunInverse
<1> QED
  BY <1>2, <1>3, <1>4, ShapeHolds, PTL DEF Spec, ChildrenFirst
=============================================================================
