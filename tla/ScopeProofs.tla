---------------------------- MODULE ScopeProofs -----------------------------
(***************************************************************************)
(* Proof that no effect and no context is lost in the tree of ContextTree. *)
(* NothingLost is inductive beside the shape of the state: wherever the    *)
(* inverse of an effect is (a list, a frame of unwind, an Effect call),    *)
(* the step that takes it from there puts it into the next place or undoes *)
(* the effect; and likewise for open contexts.                             *)
(***************************************************************************)
EXTENDS ContextTree, SequenceTheorems, TLAPS

FrameRecord == [ctx : Contexts, kids : Seq(Contexts), undo : Seq(Nat)]

\* What the proof needs of types.
Shape ==
    /\ mode \in [Contexts -> {"none", "open", "closed"}]
    /\ children \in [Contexts -> Seq(Contexts)]
    /\ \E S : log \in Seq(S)
    /\ \A e \in Effects : At(e) \in Contexts
    /\ inPlace \subseteq Effects
    /\ inverses \in [Contexts -> Seq(Nat)]
    /\ stack \in [Threads -> Seq(FrameRecord)]
    /\ task \in [Threads -> [do : {"none", "wake", "keep", "drop"}, id : Nat]]
    /\ \A t \in Threads : HeldBy(t) \subseteq Effects

\* Where the inverse of e is.
Listed(e) == mode[At(e)] = "open" /\ e \in ToSet(inverses[At(e)])
Unwinding(e) == \E t \in Threads : \E fr \in ToSet(stack[t]) :
                    fr.ctx = At(e) /\ e \in ToSet(fr.undo)
Held(e) == \E t \in Threads : e \in HeldBy(t)

\* How the unwinding of the parent of c reaches c.
InList(c) == mode[Parent[c]] = "open" /\ c \in ToSet(children[Parent[c]])
InFrame(c) == \E t \in Threads : \E fr \in ToSet(stack[t]) :
                  fr.ctx = Parent[c] /\ c \in ToSet(fr.kids)

Covered == \A e \in inPlace : Listed(e) \/ Unwinding(e) \/ Held(e)
Attached == \A c \in Contexts \ ({Top} \cup detached) :
                mode[c] = "open" => InList(c) \/ InFrame(c)

ScopeInv == Shape /\ Covered /\ Attached

LEMMA ScopeInvSays == ScopeInv => NothingLost
BY DEF ScopeInv, Covered, Attached, NothingLost, Listed, Unwinding, Held, InList, InFrame, Frames

-----------------------------------------------------------------------------
(* Sequences. *)

LEMMA AppendElements ==
    ASSUME NEW S, NEW s \in Seq(S), NEW x
    PROVE  /\ ToSet(Append(s, x)) = ToSet(s) \cup {x}
           /\ x \in S => Append(s, x) \in Seq(S)
<1>1. /\ DOMAIN Append(s, x) = 1..Len(s) + 1 /\ DOMAIN s = 1..Len(s)
      /\ \A i \in 1..Len(s) : Append(s, x)[i] = s[i]
      /\ Append(s, x)[Len(s) + 1] = x
      /\ Len(s) \in Nat
  <2>1. s \in Seq(S \cup {x}) /\ x \in S \cup {x}
    OBVIOUS
  <2> QED
    BY <2>1
<1>2. ASSUME NEW y \in ToSet(Append(s, x)) PROVE y \in ToSet(s) \cup {x}
  <2>1. PICK i \in 1..Len(s) + 1 : y = Append(s, x)[i]
    BY <1>1 DEF ToSet
  <2>2. i = Len(s) + 1 \/ i \in 1..Len(s)
    BY <1>1
  <2> QED
    BY <1>1, <2>1, <2>2 DEF ToSet
<1>3. ASSUME NEW y \in ToSet(s) \cup {x} PROVE y \in ToSet(Append(s, x))
  <2>1. Len(s) + 1 \in 1..Len(s) + 1 /\ 1..Len(s) \subseteq 1..Len(s) + 1
    BY <1>1
  <2> QED
    BY <1>1, <2>1 DEF ToSet
<1> QED
  BY <1>2, <1>3

\* What is before the last element stays.
LEMMA FrontElements ==
    ASSUME NEW S, NEW s \in Seq(S), s # <<>>
    PROVE  /\ Front(s) \in Seq(S) /\ Last(s) \in S
           /\ ToSet(s) = ToSet(Front(s)) \cup {Last(s)}
<1>1. Len(s) \in Nat \ {0} /\ DOMAIN s = 1..Len(s)
  OBVIOUS
<1>2. /\ Front(s) \in Seq(S) /\ DOMAIN Front(s) = 1..Len(s) - 1
      /\ \A i \in 1..Len(s) - 1 : Front(s)[i] = s[i]
  BY <1>1 DEF Front
<1>3. Last(s) \in S
  BY <1>1 DEF Last
<1>4. 1..Len(s) = (1..Len(s) - 1) \cup {Len(s)}
  BY <1>1
<1> QED
  BY <1>1, <1>2, <1>3, <1>4 DEF ToSet, Last

LEMMA WithoutElements ==
    ASSUME NEW S, NEW s \in Seq(S), NEW x
    PROVE  /\ Without(s, x) \in Seq(S)
           /\ \A y \in ToSet(s) : y # x => y \in ToSet(Without(s, x))
<1>1. CASE x \notin ToSet(s)
  BY <1>1 DEF Without
<1>2. CASE x \in ToSet(s)
  <2> DEFINE i == CHOOSE j \in DOMAIN s : s[j] = x
  <2>1. i \in 1..Len(s) /\ s[i] = x /\ Len(s) \in Nat
    BY <1>2 DEF ToSet
  <2> HIDE DEF i
  <2>2. Without(s, x) = SubSeq(s, 1, i - 1) \o SubSeq(s, i + 1, Len(s))
    BY <1>2 DEF Without, RemoveAt, i
  <2> DEFINE a == SubSeq(s, 1, i - 1)
             b == SubSeq(s, i + 1, Len(s))
  <2>3. a \in Seq(S) /\ Len(a) = i - 1 /\ \A j \in 1..i - 1 : a[j] = s[j]
    <3>1. \A j \in 1..i - 1 : s[j] \in S
      BY <2>1
    <3> QED
      BY <2>1, <3>1, SubSeqProperties
  <2>4. /\ b \in Seq(S) /\ Len(b) = Len(s) - i
        /\ \A j \in 1..Len(s) - i : b[j] = s[i + j]
    <3>1. \A j \in i + 1..Len(s) : s[j] \in S
      BY <2>1
    <3> QED
      BY <2>1, <3>1, SubSeqProperties
  <2> HIDE DEF a, b
  <2>5. /\ a \o b \in Seq(S) /\ DOMAIN (a \o b) = 1..Len(s) - 1
        /\ \A j \in 1..i - 1 : (a \o b)[j] = s[j]
        /\ \A j \in i..Len(s) - 1 : (a \o b)[j] = s[j + 1]
    <3>0. /\ a \o b \in Seq(S) /\ Len(a \o b) = Len(a) + Len(b)
          /\ \A j \in 1..Len(a) + Len(b) : (a \o b)[j] = IF j <= Len(a) THEN a[j] ELSE b[j - Len(a)]
      BY <2>3, <2>4, ConcatProperties
    <3>1. Len(a) + Len(b) = Len(s) - 1
      BY <2>1, <2>3, <2>4
    <3>2. \A j \in 1..Len(s) - 1 : (a \o b)[j] = IF j <= i - 1 THEN a[j] ELSE b[j - (i - 1)]
      BY <2>3, <3>0, <3>1
    <3>3. \A j \in 1..i - 1 : (a \o b)[j] = s[j]
      BY <2>1, <2>3, <3>2
    <3>4. ASSUME NEW j \in i..Len(s) - 1 PROVE (a \o b)[j] = s[j + 1]
      <4>1. j - (i - 1) \in 1..Len(s) - i /\ i + (j - (i - 1)) = j + 1 /\ ~(j <= i - 1)
            /\ j \in 1..Len(s) - 1
        BY <2>1
      <4> QED
        BY <2>4, <3>2, <4>1
    <3>5. DOMAIN (a \o b) = 1..Len(a \o b)
      <4> DEFINE c == a \o b
      <4>1. c \in Seq(S)
        BY <3>0
      <4> HIDE DEF c
      <4>2. DOMAIN c = 1..Len(c)
        BY <4>1
      <4> QED
        BY <4>2 DEF c
    <3> QED
      BY <3>0, <3>1, <3>3, <3>4, <3>5
  <2>6. ASSUME NEW y \in ToSet(s), y # x PROVE y \in ToSet(a \o b)
    <3>1. PICK j \in 1..Len(s) : y = s[j]
      BY DEF ToSet
    <3>2. j \in 1..i - 1 \/ (j - 1 \in i..Len(s) - 1 /\ (j - 1) + 1 = j)
      BY <2>1, <2>6, <3>1
    <3>3. CASE j \in 1..i - 1
      <4>1. j \in 1..Len(s) - 1 /\ (a \o b)[j] = y
        BY <2>1, <2>5, <3>1, <3>3
      <4> QED
        BY <2>5, <4>1 DEF ToSet
    <3>4. CASE j - 1 \in i..Len(s) - 1 /\ (j - 1) + 1 = j
      <4>1. j - 1 \in 1..Len(s) - 1
        BY <2>1, <3>4
      <4>2. (a \o b)[j - 1] = s[(j - 1) + 1]
        BY <2>5, <3>4
      <4> QED
        BY <2>5, <3>1, <3>4, <4>1, <4>2 DEF ToSet
    <3> QED
      BY <3>2, <3>3, <3>4
  <2> QED
    BY <2>2, <2>5, <2>6 DEF a, b
<1> QED
  BY <1>1, <1>2

-----------------------------------------------------------------------------
(* Steps that leave the goroutines' frames alone. *)

\* The log only grows, and what it says of earlier effects stays.
LEMMA LogGrows ==
    ASSUME Shape, NEW c \in Contexts, NEW k, NEW x,
           log' = Append(log, [at |-> c, kind |-> k, of |-> x])
    PROVE  /\ Len(log) \in Nat
           /\ Effects' = Effects \cup {Len(log) + 1}
           /\ \A e \in Effects : At(e)' = At(e)
           /\ log'[Len(log) + 1].at = c
           /\ \E S : log' \in Seq(S)
<1>1. PICK S : log \in Seq(S)
  BY DEF Shape
<1> DEFINE r == [at |-> c, kind |-> k, of |-> x]
<1>2. r.at = c
  OBVIOUS
<1> HIDE DEF r
<1>3. log' = Append(log, r) /\ log \in Seq(S \cup {r}) /\ r \in S \cup {r}
  BY <1>1 DEF r
<1>4. /\ log' \in Seq(S \cup {r}) /\ Len(log') = Len(log) + 1 /\ Len(log) \in Nat
      /\ log'[Len(log) + 1] = r /\ \A e \in 1..Len(log) : log'[e] = log[e]
  BY <1>3
<1>5. Effects' = Effects \cup {Len(log) + 1}
  BY <1>4 DEF Effects
<1>6. \A e \in Effects : At(e)' = At(e)
  BY <1>4 DEF Effects, At
<1> QED
  BY <1>2, <1>4, <1>5, <1>6

\* A step that takes no inverse from where it is, and closes nothing.
LEMMA StillCovered ==
    ASSUME ScopeInv, NEW e \in inPlace, At(e)' = At(e),
           mode[At(e)] = "open" => mode'[At(e)] = "open",
           ToSet(inverses[At(e)]) \subseteq ToSet(inverses'[At(e)]),
           UNCHANGED stack,
           \A t \in Threads : HeldBy(t) \subseteq HeldBy(t)'
    PROVE  (Listed(e) \/ Unwinding(e) \/ Held(e))'
<1>1. Listed(e) => Listed(e)'
  BY DEF Listed
<1>2. Unwinding(e) => Unwinding(e)'
  BY DEF Unwinding
<1>3. Held(e) => Held(e)'
  BY DEF Held
<1> QED
  BY <1>1, <1>2, <1>3 DEF ScopeInv, Covered

\* The tree and the frames unchanged, contexts stay within reach.
LEMMA StillAttached ==
    ASSUME ScopeInv, UNCHANGED <<mode, children, detached, stack>>
    PROVE  Attached'
BY DEF ScopeInv, Attached, InList, InFrame

LEMMA PutAndKeepSafe ==
    ASSUME ScopeInv, NEW t \in Threads, NEW c \in Contexts, NEW k, NEW x, PutAndKeep(t, c, k, x),
           UNCHANGED <<mode, children, detached, stack>>,
           task' = task \/ task' = [task EXCEPT ![t] = [do |-> "wake", id |-> 0]]
    PROVE  ScopeInv'
<1> USE DEF ScopeInv
<1>0. PICK n : n = Len(log) + 1
  OBVIOUS
<1>1. /\ log' = Append(log, [at |-> c, kind |-> k, of |-> x])
      /\ inPlace' = inPlace \cup {n} /\ inverses' = [inverses EXCEPT ![c] = Append(@, n)]
      /\ mode[c] = "open" /\ task[t] = NoTask
  BY <1>0 DEF PutAndKeep, Put, Idle, Free
<1>2. /\ Len(log) \in Nat /\ Effects' = Effects \cup {n} /\ At(n)' = c
      /\ \A e \in Effects : At(e)' = At(e)
      /\ \E S : log' \in Seq(S)
  BY <1>0, <1>1, LogGrows DEF At
<1>3. n \in Nat /\ inverses[c] \in Seq(Nat)
  BY <1>0, <1>2 DEF Shape
<1>4. /\ ToSet(Append(inverses[c], n)) = ToSet(inverses[c]) \cup {n}
      /\ Append(inverses[c], n) \in Seq(Nat)
  BY <1>3, AppendElements
<1>5. inverses' \in [Contexts -> Seq(Nat)] /\ inverses'[c] = Append(inverses[c], n)
      /\ \A d \in Contexts : ToSet(inverses[d]) \subseteq ToSet(inverses'[d])
  BY <1>1, <1>4 DEF Shape
<1>6. \A u \in Threads : HeldBy(u)' = HeldBy(u)
  <2>1. task' = task => \A u \in Threads : HeldBy(u)' = HeldBy(u)
    BY DEF HeldBy
  <2>2. ASSUME task' = [task EXCEPT ![t] = [do |-> "wake", id |-> 0]], NEW u \in Threads
        PROVE  HeldBy(u)' = HeldBy(u)
    <3>1. task[t].do = "none"
      BY <1>1 DEF NoTask
    <3>2. task'[u] = IF u = t THEN [do |-> "wake", id |-> 0] ELSE task[u]
      BY <2>2 DEF Shape
    <3> QED
      BY <3>1, <3>2 DEF HeldBy
  <2> QED
    BY <2>1, <2>2
<1>7. task' \in [Threads -> [do : {"none", "wake", "keep", "drop"}, id : Nat]]
  <2>1. [do |-> "wake", id |-> 0] \in [do : {"none", "wake", "keep", "drop"}, id : Nat]
    OBVIOUS
  <2> QED
    BY <2>1 DEF Shape
<1>8. Shape'
  BY <1>1, <1>2, <1>5, <1>6, <1>7 DEF Shape
<1>9. Covered'
  <2> SUFFICES ASSUME NEW e \in inPlace' PROVE (Listed(e) \/ Unwinding(e) \/ Held(e))'
    BY DEF Covered
  <2>1. CASE e = n
    BY <1>1, <1>2, <1>4, <1>5, <2>1 DEF Listed
  <2>2. CASE e # n
    <3>1. e \in inPlace /\ At(e)' = At(e) /\ At(e) \in Contexts
      BY <1>1, <1>2, <2>2 DEF Shape
    <3> QED
      BY <1>5, <1>6, <3>1, StillCovered
  <2> QED
    BY <2>1, <2>2
<1> QED
  BY <1>8, <1>9, StillAttached

LEMMA InstallSafe ==
    ASSUME ScopeInv, NEW t \in Threads, NEW c \in Contexts, NEW x, Install(t, c, x)
    PROVE  ScopeInv'
<1> USE DEF ScopeInv
<1>0. PICK n : n = Len(log) + 1
  OBVIOUS
<1>1. /\ log' = Append(log, [at |-> c, kind |-> "member", of |-> x])
      /\ inPlace' = inPlace \cup {n} /\ UNCHANGED <<treeVars, inverses, stack>>
      /\ task[t] = NoTask /\ task' = [task EXCEPT ![t] = [do |-> "keep", id |-> n]]
  BY <1>0 DEF Install, Put, Idle, Free
<1>2. /\ Len(log) \in Nat /\ Effects' = Effects \cup {n}
      /\ \A e \in Effects : At(e)' = At(e)
      /\ At(n)' = c
      /\ \E S : log' \in Seq(S)
  BY <1>0, <1>1, LogGrows DEF At
<1>3. n \in Nat
  BY <1>0, <1>2
<1>4. task' \in [Threads -> [do : {"none", "wake", "keep", "drop"}, id : Nat]]
  BY <1>1, <1>3 DEF Shape
<1>5. \A u \in Threads : HeldBy(u)' = IF u = t THEN {n} ELSE HeldBy(u)
  BY <1>1 DEF HeldBy, Shape
<1>6. HeldBy(t) = {}
  BY <1>1 DEF HeldBy, NoTask
<1>7. Shape'
  BY <1>1, <1>2, <1>4, <1>5 DEF Shape, treeVars
<1>8. Covered'
  <2> SUFFICES ASSUME NEW e \in inPlace' PROVE (Listed(e) \/ Unwinding(e) \/ Held(e))'
    BY DEF Covered
  <2>1. CASE e = n
    BY <1>5, <2>1 DEF Held
  <2>2. CASE e # n
    <3>1. e \in inPlace /\ At(e)' = At(e) /\ At(e) \in Contexts
      BY <1>1, <1>2, <2>2 DEF Shape
    <3> QED
      BY <1>1, <1>5, <1>6, <3>1, StillCovered DEF treeVars
  <2> QED
    BY <2>1, <2>2
<1> QED
  BY <1>1, <1>7, <1>8, StillAttached DEF treeVars

LEMMA KeepSafe == ASSUME ScopeInv, NEW t \in Threads, Keep(t) PROVE ScopeInv'
<1> DEFINE n == task[t].id
<1> USE DEF ScopeInv
<1>1. /\ task[t].do = "keep" /\ UNCHANGED <<treeVars, effectVars, stack>>
      /\ HeldBy(t) = {n} /\ n \in Effects /\ n \in Nat /\ At(n) \in Contexts
  BY DEF Keep, HeldBy, Shape
<1>2. Effects' = Effects /\ \A e \in Effects : At(e)' = At(e)
  BY <1>1 DEF effectVars, Effects, At
<1>3. CASE mode[At(n)] = "open"
  <2>1. inverses' = [inverses EXCEPT ![At(n)] = Append(@, n)] /\ task' = [task EXCEPT ![t] = NoTask]
    BY <1>3 DEF Keep
  <2>2. inverses[At(n)] \in Seq(Nat)
    BY <1>1 DEF Shape
  <2> HIDE DEF n
  <2>3. /\ ToSet(Append(inverses[At(n)], n)) = ToSet(inverses[At(n)]) \cup {n}
        /\ Append(inverses[At(n)], n) \in Seq(Nat)
    BY <1>1, <2>2, AppendElements
  <2>4. /\ inverses' \in [Contexts -> Seq(Nat)] /\ inverses'[At(n)] = Append(inverses[At(n)], n)
        /\ \A d \in Contexts : ToSet(inverses[d]) \subseteq ToSet(inverses'[d])
    BY <1>1, <2>1, <2>3 DEF Shape
  <2>5. \A u \in Threads : HeldBy(u)' = IF u = t THEN {} ELSE HeldBy(u)
    BY <2>1 DEF HeldBy, NoTask, Shape
  <2>6. Shape'
    BY <1>1, <1>2, <2>1, <2>4, <2>5 DEF Shape, treeVars, effectVars, NoTask
  <2>7. Covered'
    <3> SUFFICES ASSUME NEW e \in inPlace PROVE (Listed(e) \/ Unwinding(e) \/ Held(e))'
      BY <1>1 DEF Covered, effectVars
    <3>1. At(e)' = At(e) /\ At(e) \in Contexts
      BY <1>2 DEF Shape
    <3>2. Listed(e) => Listed(e)'
      BY <1>1, <2>4, <3>1 DEF Listed, treeVars
    <3>3. Unwinding(e) => Unwinding(e)'
      BY <1>1, <3>1 DEF Unwinding
    <3>4. Held(e) => Held(e)' \/ e = n
      BY <1>1, <2>5 DEF Held
    <3>5. e = n => Listed(e)'
      BY <1>1, <1>3, <2>3, <2>4, <3>1 DEF Listed, treeVars
    <3> QED
      BY <3>2, <3>3, <3>4, <3>5 DEF Covered
  <2> QED
    BY <1>1, <2>6, <2>7, StillAttached DEF treeVars
<1>4. CASE mode[At(n)] # "open"
  <2>1. UNCHANGED inverses /\ task' = [task EXCEPT ![t] = [do |-> "drop", id |-> n]]
    BY <1>4 DEF Keep
  <2>2. \A u \in Threads : HeldBy(u)' = HeldBy(u)
    BY <1>1, <2>1 DEF HeldBy, Shape
  <2>3. Shape'
    BY <1>1, <1>2, <2>1, <2>2 DEF Shape, treeVars, effectVars
  <2>4. Covered'
    <3> SUFFICES ASSUME NEW e \in inPlace PROVE (Listed(e) \/ Unwinding(e) \/ Held(e))'
      BY <1>1 DEF Covered, effectVars
    <3>1. At(e)' = At(e)
      BY <1>2 DEF Shape
    <3> QED
      BY <1>1, <2>1, <2>2, <3>1, StillCovered DEF treeVars
  <2> QED
    BY <1>1, <2>3, <2>4, StillAttached DEF treeVars
<1> QED
  BY <1>3, <1>4

LEMMA ChildSafe == ASSUME ScopeInv, NEW c \in Contexts, Child(c) PROVE ScopeInv'
<1> USE DEF ScopeInv
<1>1. /\ c # Top /\ mode[c] = "none" /\ UNCHANGED <<detached, effectVars, inverses, stack, task>>
      /\ Parent[c] \in Contexts /\ children[Parent[c]] \in Seq(Contexts)
      /\ \/ /\ mode[Parent[c]] = "open" /\ mode' = [mode EXCEPT ![c] = "open"]
            /\ children' = [children EXCEPT ![Parent[c]] = Append(@, c)]
         \/ mode' = [mode EXCEPT ![c] = "closed"] /\ UNCHANGED children
  BY TreeAssumption DEF Child, Shape
<1>2. /\ ToSet(Append(children[Parent[c]], c)) = ToSet(children[Parent[c]]) \cup {c}
      /\ Append(children[Parent[c]], c) \in Seq(Contexts)
  BY <1>1, AppendElements
<1>3. /\ children' \in [Contexts -> Seq(Contexts)]
      /\ \A d \in Contexts : ToSet(children[d]) \subseteq ToSet(children'[d])
  <2>1. CASE UNCHANGED children
    BY <2>1 DEF Shape
  <2>2. CASE children' = [children EXCEPT ![Parent[c]] = Append(@, c)]
    <3>1. \A d \in Contexts : children'[d] = IF d = Parent[c] THEN Append(children[Parent[c]], c)
                                            ELSE children[d]
      BY <2>2 DEF Shape
    <3>2. children' \in [Contexts -> Seq(Contexts)]
      BY <1>1, <1>2, <2>2 DEF Shape
    <3> QED
      BY <1>2, <3>1, <3>2
  <2> QED
    BY <1>1, <2>1, <2>2
<1>4. \A d \in Contexts \ {c} : mode'[d] = mode[d]
  BY <1>1 DEF Shape
<1>5. mode' \in [Contexts -> {"none", "open", "closed"}]
  BY <1>1 DEF Shape
<1>6. Shape'
  BY <1>1, <1>3, <1>5 DEF Shape, effectVars, Effects, At, HeldBy
<1>7. Covered'
  <2> SUFFICES ASSUME NEW e \in inPlace PROVE (Listed(e) \/ Unwinding(e) \/ Held(e))'
    BY <1>1 DEF Covered, effectVars
  <2>1. At(e) \in Contexts /\ At(e)' = At(e) /\ \A t \in Threads : HeldBy(t)' = HeldBy(t)
    BY <1>1 DEF Shape, At, effectVars, HeldBy
  <2>2. mode[At(e)] = "open" => mode'[At(e)] = "open"
    BY <1>1, <1>4, <2>1
  <2> QED
    BY <1>1, <2>1, <2>2, StillCovered
<1>8. Attached'
  <2> SUFFICES ASSUME NEW d \in Contexts \ ({Top} \cup detached), mode'[d] = "open"
               PROVE  InList(d)' \/ InFrame(d)'
    BY <1>1 DEF Attached
  <2>0. Parent[d] \in Contexts
    BY TreeAssumption
  <2>1. CASE d = c
    <3>1. mode'[Parent[c]] = "open" /\ c \in ToSet(children'[Parent[c]])
      BY <1>1, <1>2, <1>4, <2>1 DEF Shape
    <3> QED
      BY <2>1, <3>1 DEF InList
  <2>2. CASE d # c
    <3>1. InList(d) \/ InFrame(d)
      BY <1>4, <2>2 DEF Attached
    <3>2. InList(d) => InList(d)'
      BY <1>1, <1>3, <1>4, <2>0 DEF InList
    <3>3. InFrame(d) => InFrame(d)'
      BY <1>1 DEF InFrame
    <3> QED
      BY <3>1, <3>2, <3>3
  <2> QED
    BY <2>1, <2>2
<1> QED
  BY <1>6, <1>7, <1>8

LEMMA DetachSafe == ASSUME ScopeInv, NEW c \in Contexts, Detach(c) PROVE ScopeInv'
<1> USE DEF ScopeInv
<1>1. /\ c \in FiberContexts \ detached /\ detached' = detached \cup {c}
      /\ children' = [children EXCEPT ![Parent[c]] = Without(@, c)]
      /\ UNCHANGED <<mode, effectVars, inverses, stack, task>>
      /\ Parent[c] \in Contexts /\ children[Parent[c]] \in Seq(Contexts)
  BY TreeAssumption DEF Detach, Shape
<1>2. /\ Without(children[Parent[c]], c) \in Seq(Contexts)
      /\ \A d \in ToSet(children[Parent[c]]) : d # c => d \in ToSet(Without(children[Parent[c]], c))
  BY <1>1, WithoutElements
<1>3. /\ children' \in [Contexts -> Seq(Contexts)]
      /\ \A d, x \in Contexts : d # c /\ d \in ToSet(children[x]) => d \in ToSet(children'[x])
  BY <1>1, <1>2 DEF Shape
<1>4. Shape'
  BY <1>1, <1>3 DEF Shape, effectVars, Effects, At, HeldBy
<1>5. Covered'
  BY <1>1 DEF Covered, Listed, Unwinding, Held, HeldBy, At, effectVars
<1>6. Attached'
  <2> SUFFICES ASSUME NEW d \in Contexts \ ({Top} \cup detached \cup {c}), mode[d] = "open"
               PROVE  InList(d)' \/ InFrame(d)'
    BY <1>1 DEF Attached
  <2>1. InList(d) => InList(d)'
    BY <1>1, <1>3, TreeAssumption DEF InList
  <2>2. InFrame(d) => InFrame(d)'
    BY <1>1 DEF InFrame
  <2> QED
    BY <2>1, <2>2 DEF Attached
<1> QED
  BY <1>4, <1>5, <1>6

\* Steps after which nobody owes what was owed, and nothing else that counts.
LEMMA TellingSafe ==
    ASSUME ScopeInv, UNCHANGED <<treeVars, effectVars, inverses, stack>>,
           task' \in [Threads -> [do : {"none", "wake", "keep", "drop"}, id : Nat]],
           \A t \in Threads : HeldBy(t)' = HeldBy(t)
    PROVE  ScopeInv'
<1> USE DEF ScopeInv
<1>1. Shape'
  BY DEF Shape, treeVars, effectVars, Effects, At
<1>2. Covered'
  BY DEF Covered, Listed, Unwinding, Held, At, treeVars, effectVars
<1> QED
  BY <1>1, <1>2, StillAttached DEF treeVars

LEMMA WakeSafe == ASSUME ScopeInv, NEW t \in Threads, Wake(t) PROVE ScopeInv'
<1>1. /\ task[t].do = "wake" /\ task' = [task EXCEPT ![t] = NoTask]
      /\ UNCHANGED <<treeVars, effectVars, inverses, stack>>
      /\ task \in [Threads -> [do : {"none", "wake", "keep", "drop"}, id : Nat]]
  BY DEF Wake, ScopeInv, Shape
<1>2. \A u \in Threads : HeldBy(u)' = HeldBy(u)
  BY <1>1 DEF HeldBy, NoTask
<1>3. task' \in [Threads -> [do : {"none", "wake", "keep", "drop"}, id : Nat]]
  BY <1>1 DEF NoTask
<1> QED
  BY <1>1, <1>2, <1>3, TellingSafe

-----------------------------------------------------------------------------
(* Inverses. *)

\* The inverse of e is run, by whoever had it.
LEMMA UndoSafe ==
    ASSUME ScopeInv, NEW t \in Threads, NEW e, Undo(t, e), UNCHANGED <<treeVars, inverses>>,
           stack' \in [Threads -> Seq(FrameRecord)],
           \A u \in Threads : \A fr \in ToSet(stack[u]) : \E to \in ToSet(stack'[u]) :
               /\ to.ctx = fr.ctx /\ to.kids = fr.kids
               /\ ToSet(fr.undo) \subseteq ToSet(to.undo) \cup {e},
           HeldBy(t) \subseteq {e}
    PROVE  ScopeInv'
<1> USE DEF ScopeInv
<1>1. /\ inPlace' = inPlace \ {e} /\ UNCHANGED log
      /\ \E x \in {[do |-> "wake", id |-> 0], NoTask} : task' = [task EXCEPT ![t] = x]
  BY DEF Undo
<1>2. task' \in [Threads -> [do : {"none", "wake", "keep", "drop"}, id : Nat]]
  BY <1>1 DEF Shape, NoTask
<1>3. \A u \in Threads : HeldBy(u)' = IF u = t THEN {} ELSE HeldBy(u)
  <2>1. PICK x \in {[do |-> "wake", id |-> 0], NoTask} : task' = [task EXCEPT ![t] = x]
    BY <1>1
  <2>2. x.do \notin {"keep", "drop"}
    BY DEF NoTask
  <2>3. \A u \in Threads : task'[u] = IF u = t THEN x ELSE task[u]
    BY <2>1 DEF Shape
  <2> QED
    BY <2>2, <2>3 DEF HeldBy
<1>4. Shape'
  BY <1>1, <1>2, <1>3 DEF Shape, treeVars, Effects, At
<1>5. Covered'
  <2> SUFFICES ASSUME NEW d \in inPlace, d # e PROVE (Listed(d) \/ Unwinding(d) \/ Held(d))'
    BY <1>1 DEF Covered
  <2>1. At(d)' = At(d)
    BY <1>1 DEF At
  <2>2. Listed(d) => Listed(d)'
    BY <2>1 DEF Listed, treeVars
  <2>3. ASSUME Unwinding(d) PROVE Unwinding(d)'
    <3>1. PICK u \in Threads : \E fr \in ToSet(stack[u]) : fr.ctx = At(d) /\ d \in ToSet(fr.undo)
      BY <2>3 DEF Unwinding
    <3>2. PICK fr \in ToSet(stack[u]) : fr.ctx = At(d) /\ d \in ToSet(fr.undo)
      BY <3>1
    <3>3. PICK o \in ToSet(stack'[u]) : o.ctx = fr.ctx /\ ToSet(fr.undo) \subseteq ToSet(o.undo) \cup {e}
      OBVIOUS
    <3>4. o.ctx = At(d)' /\ d \in ToSet(o.undo)
      BY <2>1, <3>2, <3>3
    <3> QED
      BY <3>4 DEF Unwinding
  <2>4. Held(d) => Held(d)'
    BY <1>3 DEF Held
  <2> QED
    BY <2>2, <2>3, <2>4 DEF Covered
<1>6. Attached'
  <2> SUFFICES ASSUME NEW c \in Contexts \ ({Top} \cup detached), mode[c] = "open"
               PROVE  InList(c)' \/ InFrame(c)'
    BY DEF Attached, treeVars
  <2>1. InList(c) => InList(c)'
    BY DEF InList, treeVars
  <2>2. InFrame(c) => InFrame(c)'
    BY DEF InFrame
  <2> QED
    BY <2>1, <2>2 DEF Attached
<1> QED
  BY <1>4, <1>5, <1>6

LEMMA WithdrawSafe == ASSUME ScopeInv, NEW t \in Threads, NEW e, Withdraw(t, e) PROVE ScopeInv'
<1>1. Undo(t, e) /\ UNCHANGED <<treeVars, inverses, stack>> /\ task[t] = NoTask
  BY DEF Withdraw, Idle, Free
<1>2. HeldBy(t) = {}
  BY <1>1 DEF HeldBy, NoTask
<1> QED
  BY <1>1, <1>2, UndoSafe DEF ScopeInv, Shape

LEMMA DropSafe == ASSUME ScopeInv, NEW t \in Threads, Drop(t) PROVE ScopeInv'
<1>1. PICK e : e = task[t].id
  OBVIOUS
<1>2. Undo(t, e) /\ UNCHANGED <<treeVars, inverses, stack>> /\ HeldBy(t) \subseteq {e}
  BY <1>1 DEF Drop, HeldBy
<1> QED
  BY <1>2, UndoSafe DEF ScopeInv, Shape

-----------------------------------------------------------------------------
(* Frames. *)

\* The newest frame of t, and those below it.
LEMMA NewestFrame ==
    ASSUME Shape, NEW t \in Threads, stack[t] # <<>>
    PROVE  /\ Front(stack[t]) \in Seq(FrameRecord) /\ Frame(t) \in FrameRecord
           /\ ToSet(stack[t]) = ToSet(Front(stack[t])) \cup {Frame(t)}
<1>1. stack[t] \in Seq(FrameRecord)
  BY DEF Shape
<1> QED
  BY <1>1, FrontElements DEF Frame

\* It is exchanged for one with other lists.
LEMMA WithFrame ==
    ASSUME Shape, NEW t \in Threads, stack[t] # <<>>,
           NEW kids \in Seq(Contexts), NEW undo \in Seq(Nat)
    PROVE  /\ With(t, kids, undo) \in Seq(FrameRecord)
           /\ ToSet(With(t, kids, undo)) =
                  ToSet(Front(stack[t])) \cup {[ctx |-> Frame(t).ctx, kids |-> kids, undo |-> undo]}
<1>1. Front(stack[t]) \in Seq(FrameRecord) /\ Frame(t) \in FrameRecord
  BY NewestFrame
<1>2. [ctx |-> Frame(t).ctx, kids |-> kids, undo |-> undo] \in FrameRecord
  BY <1>1 DEF FrameRecord
<1> QED
  BY <1>1, <1>2, AppendElements DEF With

LEMMA RunInverseSafe == ASSUME ScopeInv, NEW t \in Threads, RunInverse(t) PROVE ScopeInv'
<1>1. PICK e : e = Last(Frame(t).undo)
  OBVIOUS
<1>2. /\ Undo(t, e) /\ UNCHANGED <<treeVars, inverses>> /\ task[t] = NoTask
      /\ stack[t] # <<>> /\ Frame(t).kids = <<>> /\ Frame(t).undo # <<>>
      /\ stack' = [stack EXCEPT ![t] = With(t, <<>>, Front(Frame(t).undo))]
      /\ stack \in [Threads -> Seq(FrameRecord)] /\ Shape
  BY <1>1 DEF RunInverse, Free, ScopeInv, Shape
<1>3. Frame(t) \in FrameRecord /\ ToSet(stack[t]) = ToSet(Front(stack[t])) \cup {Frame(t)}
  BY <1>2, NewestFrame
<1>4. /\ Front(Frame(t).undo) \in Seq(Nat)
      /\ ToSet(Frame(t).undo) = ToSet(Front(Frame(t).undo)) \cup {e}
  BY <1>1, <1>2, <1>3, FrontElements DEF FrameRecord
<1>5. PICK to : to = [ctx |-> Frame(t).ctx, kids |-> <<>>, undo |-> Front(Frame(t).undo)]
  OBVIOUS
<1>6. /\ With(t, <<>>, Front(Frame(t).undo)) \in Seq(FrameRecord)
      /\ ToSet(With(t, <<>>, Front(Frame(t).undo))) = ToSet(Front(stack[t])) \cup {to}
  <2>1. /\ Shape /\ stack[t] # <<>> /\ <<>> \in Seq(Contexts)
        /\ Front(Frame(t).undo) \in Seq(Nat)
    BY <1>2, <1>4
  <2>2. PICK undo \in Seq(Nat) : undo = Front(Frame(t).undo)
    BY <2>1
  <2>3. /\ With(t, <<>>, undo) \in Seq(FrameRecord)
        /\ ToSet(With(t, <<>>, undo)) =
               ToSet(Front(stack[t])) \cup {[ctx |-> Frame(t).ctx, kids |-> <<>>, undo |-> undo]}
    BY <2>1, WithFrame
  <2> QED
    BY <1>5, <2>2, <2>3
<1>7. stack' \in [Threads -> Seq(FrameRecord)]
  BY <1>2, <1>6
<1>8. ASSUME NEW u \in Threads, NEW fr \in ToSet(stack[u])
      PROVE  \E o \in ToSet(stack'[u]) : /\ o.ctx = fr.ctx /\ o.kids = fr.kids
                                         /\ ToSet(fr.undo) \subseteq ToSet(o.undo) \cup {e}
  <2>1. CASE u = t
    <3>1. stack'[t] = With(t, <<>>, Front(Frame(t).undo))
      BY <1>2
    <3>2. CASE fr \in ToSet(Front(stack[t]))
      BY <1>6, <2>1, <3>1, <3>2
    <3>3. CASE fr = Frame(t)
      <4>1. /\ to.ctx = fr.ctx /\ to.kids = fr.kids
            /\ ToSet(fr.undo) \subseteq ToSet(to.undo) \cup {e}
        BY <1>2, <1>4, <1>5, <3>3
      <4> QED
        BY <1>6, <2>1, <3>1, <4>1
    <3> QED
      BY <1>3, <2>1, <3>2, <3>3
  <2>2. CASE u # t
    BY <1>2, <2>2
  <2> QED
    BY <2>1, <2>2
<1>9. HeldBy(t) = {}
  BY <1>2 DEF HeldBy, NoTask
<1> QED
  BY <1>2, <1>7, <1>8, <1>9, UndoSafe

\* A context is taken into unwind: its lists go into a frame of their own.
LEMMA EnterSafe ==
    ASSUME ScopeInv, NEW t \in Threads, NEW c \in Contexts, NEW frames \in Seq(FrameRecord),
           Enter(t, frames, c), UNCHANGED <<detached, effectVars, task>>,
           \A fr \in ToSet(stack[t]) : \E o \in ToSet(frames) :
               o.ctx = fr.ctx /\ o.undo = fr.undo /\ ToSet(fr.kids) \subseteq ToSet(o.kids) \cup {c}
    PROVE  ScopeInv'
<1> USE DEF ScopeInv
<1>0. PICK new : new = [ctx |-> c, kids |-> children[c], undo |-> inverses[c]]
  OBVIOUS
<1>1. /\ mode' = [mode EXCEPT ![c] = "closed"] /\ inverses' = [inverses EXCEPT ![c] = <<>>]
      /\ stack' = [stack EXCEPT ![t] = Append(frames, new)]
      /\ children[c] \in Seq(Contexts) /\ inverses[c] \in Seq(Nat) /\ new \in FrameRecord
  BY <1>0 DEF Enter, Shape, FrameRecord
<1>2. /\ ToSet(Append(frames, new)) = ToSet(frames) \cup {new}
      /\ Append(frames, new) \in Seq(FrameRecord)
  BY <1>1, AppendElements
<1>3. /\ stack' \in [Threads -> Seq(FrameRecord)] /\ ToSet(stack'[t]) = ToSet(frames) \cup {new}
      /\ \A u \in Threads \ {t} : stack'[u] = stack[u]
  BY <1>1, <1>2 DEF Shape
<1>4. \A d \in Contexts : /\ Without(children[d], c) \in Seq(Contexts)
                          /\ \A x \in ToSet(children[d]) : x # c => x \in ToSet(Without(children[d], c))
  BY WithoutElements DEF Shape
<1>5. /\ children' = [d \in Contexts |-> CASE d = c -> <<>>
                                           [] c # Top /\ d = Parent[c] -> Without(children[d], c)
                                           [] OTHER -> children[d]]
  BY DEF Enter
<1>6. /\ children' \in [Contexts -> Seq(Contexts)]
      /\ \A d \in Contexts \ {c} : \A x \in ToSet(children[d]) : x # c => x \in ToSet(children'[d])
  <2>1. ASSUME NEW d \in Contexts
        PROVE  /\ children'[d] \in Seq(Contexts)
               /\ d # c => \A x \in ToSet(children[d]) : x # c => x \in ToSet(children'[d])
    <3>1. CASE d = c /\ ~(c # Top /\ d = Parent[c])
      <4>1. children'[d] = <<>>
        BY <1>5, <3>1
      <4> QED
        BY <3>1, <4>1
    <3>2. CASE d = c /\ c # Top /\ d = Parent[c]
      <4>1. children'[d] = <<>> \/ children'[d] = Without(children[d], c)
        BY <1>5, <3>2
      <4>2. <<>> \in Seq(Contexts)
        OBVIOUS
      <4>3. children'[d] \in Seq(Contexts)
        BY <1>4, <4>1, <4>2
      <4> QED
        BY <3>2, <4>3
    <3>3. CASE d # c /\ c # Top /\ d = Parent[c]
      <4>1. children'[d] = Without(children[d], c)
        BY <1>5, <3>3
      <4> QED
        BY <1>4, <4>1
    <3>4. CASE d # c /\ ~(c # Top /\ d = Parent[c])
      <4>1. children'[d] = children[d]
        BY <1>5, <3>4
      <4> QED
        BY <4>1 DEF Shape
    <3> QED
      BY <3>1, <3>2, <3>3, <3>4
  <2> QED
    BY <1>5, <2>1
<1>7. \A d \in Contexts : mode'[d] = IF d = c THEN "closed" ELSE mode[d]
  BY <1>1 DEF Shape
<1>8. Shape'
  <2>1. inverses' \in [Contexts -> Seq(Nat)]
    BY <1>1 DEF Shape
  <2>2. mode' \in [Contexts -> {"none", "open", "closed"}]
    BY <1>1 DEF Shape
  <2> QED
    BY <1>3, <1>6, <2>1, <2>2 DEF Shape, effectVars, Effects, At, HeldBy
<1>9. Covered'
  <2> SUFFICES ASSUME NEW e \in inPlace PROVE (Listed(e) \/ Unwinding(e) \/ Held(e))'
    BY DEF Covered, effectVars
  <2>1. At(e)' = At(e) /\ At(e) \in Contexts
    BY DEF Shape, At, effectVars
  <2>2. ASSUME Listed(e), At(e) = c PROVE Unwinding(e)'
    <3>1. new \in ToSet(stack'[t]) /\ new.ctx = At(e)' /\ e \in ToSet(new.undo)
      BY <1>0, <1>3, <2>1, <2>2 DEF Listed
    <3> QED
      BY <3>1 DEF Unwinding
  <2>3. ASSUME Listed(e), At(e) # c PROVE Listed(e)'
    BY <1>1, <1>7, <2>1, <2>3 DEF Listed, Shape
  <2>4. ASSUME Unwinding(e) PROVE Unwinding(e)'
    <3>1. PICK u \in Threads : \E fr \in ToSet(stack[u]) : fr.ctx = At(e) /\ e \in ToSet(fr.undo)
      BY <2>4 DEF Unwinding
    <3>2. \E fr \in ToSet(stack'[u]) : fr.ctx = At(e) /\ e \in ToSet(fr.undo)
      BY <1>3, <3>1
    <3> QED
      BY <2>1, <3>2 DEF Unwinding
  <2>5. Held(e) => Held(e)'
    BY DEF Held, HeldBy
  <2> QED
    BY <2>2, <2>3, <2>4, <2>5 DEF Covered
<1>10. Attached'
  <2> SUFFICES ASSUME NEW d \in Contexts \ ({Top} \cup detached), mode'[d] = "open"
               PROVE  InList(d)' \/ InFrame(d)'
    BY DEF Attached
  <2>1. d # c /\ mode[d] = "open" /\ Parent[d] \in Contexts
    BY <1>7, TreeAssumption
  <2>2. ASSUME InList(d), Parent[d] = c PROVE InFrame(d)'
    <3>1. new \in ToSet(stack'[t]) /\ new.ctx = Parent[d] /\ d \in ToSet(new.kids)
      BY <1>0, <1>3, <2>2 DEF InList
    <3> QED
      BY <3>1 DEF InFrame
  <2>3. ASSUME InList(d), Parent[d] # c PROVE InList(d)'
    BY <1>6, <1>7, <2>1, <2>3 DEF InList
  <2>4. ASSUME InFrame(d) PROVE InFrame(d)'
    <3>1. PICK u \in Threads : \E fr \in ToSet(stack[u]) : fr.ctx = Parent[d] /\ d \in ToSet(fr.kids)
      BY <2>4 DEF InFrame
    <3>2. PICK fr \in ToSet(stack[u]) : fr.ctx = Parent[d] /\ d \in ToSet(fr.kids)
      BY <3>1
    <3>3. CASE u = t
      <4>1. PICK o \in ToSet(frames) : o.ctx = fr.ctx /\ ToSet(fr.kids) \subseteq ToSet(o.kids) \cup {c}
        BY <3>3
      <4>2. o \in ToSet(stack'[u]) /\ o.ctx = Parent[d] /\ d \in ToSet(o.kids)
        BY <1>3, <2>1, <3>2, <3>3, <4>1
      <4> QED
        BY <4>2 DEF InFrame
    <3>4. CASE u # t
      <4>1. fr \in ToSet(stack'[u])
        BY <1>3, <3>2, <3>4
      <4> QED
        BY <3>2, <4>1 DEF InFrame
    <3> QED
      BY <3>3, <3>4
  <2> QED
    BY <2>1, <2>2, <2>3, <2>4 DEF Attached
<1> QED
  BY <1>8, <1>9, <1>10

LEMMA ReleaseSafe ==
    ASSUME ScopeInv, NEW t \in Threads, NEW c \in Contexts, Release(t, c)
    PROVE  ScopeInv'
<1>1. Enter(t, <<>>, c) /\ UNCHANGED <<detached, effectVars, task>> /\ stack[t] = <<>>
  BY DEF Release, Idle
<1>2. <<>> \in Seq(FrameRecord) /\ ToSet(stack[t]) = {}
  BY <1>1 DEF ToSet
<1> QED
  BY <1>1, <1>2, EnterSafe

\* A frame gives up what is closed already, or goes when nothing is left in it.
LEMMA LessToDoSafe ==
    ASSUME ScopeInv, UNCHANGED <<treeVars, effectVars, inverses, task>>,
           stack' \in [Threads -> Seq(FrameRecord)],
           \A u \in Threads : \A fr \in ToSet(stack[u]) :
               \/ fr.kids = <<>> /\ fr.undo = <<>>
               \/ \E o \in ToSet(stack'[u]) :
                     /\ o.ctx = fr.ctx /\ o.undo = fr.undo
                     /\ \A k \in ToSet(fr.kids) : mode[k] = "open" => k \in ToSet(o.kids)
    PROVE  ScopeInv'
<1> USE DEF ScopeInv
<1>1. Shape'
  BY DEF Shape, treeVars, effectVars, Effects, At, HeldBy
<1>2. ToSet(<<>>) = {}
  BY DEF ToSet
<1>3. Covered'
  <2> SUFFICES ASSUME NEW e \in inPlace PROVE (Listed(e) \/ Unwinding(e) \/ Held(e))'
    BY DEF Covered, effectVars
  <2>1. (Listed(e) => Listed(e)') /\ (Held(e) => Held(e)') /\ At(e)' = At(e)
    BY DEF Listed, Held, HeldBy, At, treeVars, effectVars
  <2>2. ASSUME Unwinding(e) PROVE Unwinding(e)'
    <3>1. PICK u \in Threads : \E fr \in ToSet(stack[u]) : fr.ctx = At(e) /\ e \in ToSet(fr.undo)
      BY <2>2 DEF Unwinding
    <3>2. \E fr \in ToSet(stack'[u]) : fr.ctx = At(e) /\ e \in ToSet(fr.undo)
      BY <1>2, <3>1
    <3> QED
      BY <2>1, <3>2 DEF Unwinding
  <2> QED
    BY <2>1, <2>2 DEF Covered
<1>4. Attached'
  <2> SUFFICES ASSUME NEW c \in Contexts \ ({Top} \cup detached), mode[c] = "open"
               PROVE  InList(c)' \/ InFrame(c)'
    BY DEF Attached, treeVars
  <2>1. InList(c) => InList(c)'
    BY DEF InList, treeVars
  <2>2. ASSUME InFrame(c) PROVE InFrame(c)'
    <3>1. PICK u \in Threads : \E fr \in ToSet(stack[u]) : fr.ctx = Parent[c] /\ c \in ToSet(fr.kids)
      BY <2>2 DEF InFrame
    <3>2. \E fr \in ToSet(stack'[u]) : fr.ctx = Parent[c] /\ c \in ToSet(fr.kids)
      BY <1>2, <3>1
    <3> QED
      BY <3>2 DEF InFrame
  <2> QED
    BY <2>1, <2>2 DEF Attached
<1> QED
  BY <1>1, <1>3, <1>4

LEMMA DescendSafe == ASSUME ScopeInv, NEW t \in Threads, Descend(t) PROVE ScopeInv'
<1>1. PICK d : d = Last(Frame(t).kids)
  OBVIOUS
<1>2. PICK kids : kids = Front(Frame(t).kids)
  OBVIOUS
<1>3. PICK to : to = [ctx |-> Frame(t).ctx, kids |-> kids, undo |-> Frame(t).undo]
  OBVIOUS
<1>4. PICK rest : rest = With(t, kids, Frame(t).undo)
  OBVIOUS
<1>5. /\ stack[t] # <<>> /\ Frame(t).kids # <<>> /\ Shape
      /\ UNCHANGED <<detached, effectVars, task>>
      /\ IF mode[d] = "open" THEN Enter(t, rest, d)
         ELSE stack' = [stack EXCEPT ![t] = rest] /\ UNCHANGED <<mode, children, inverses>>
  BY <1>1, <1>2, <1>4 DEF Descend, ScopeInv
<1>6. Frame(t) \in FrameRecord /\ ToSet(stack[t]) = ToSet(Front(stack[t])) \cup {Frame(t)}
  BY <1>5, NewestFrame
<1>7. d \in Contexts /\ kids \in Seq(Contexts) /\ ToSet(Frame(t).kids) = ToSet(kids) \cup {d}
  BY <1>1, <1>2, <1>5, <1>6, FrontElements DEF FrameRecord
<1>8. rest \in Seq(FrameRecord) /\ ToSet(rest) = ToSet(Front(stack[t])) \cup {to}
  <2>1. Frame(t).undo \in Seq(Nat) /\ kids \in Seq(Contexts) /\ stack[t] # <<>> /\ Shape
    BY <1>5, <1>6, <1>7 DEF FrameRecord
  <2>2. /\ With(t, kids, Frame(t).undo) \in Seq(FrameRecord)
        /\ ToSet(With(t, kids, Frame(t).undo)) =
              ToSet(Front(stack[t])) \cup {[ctx |-> Frame(t).ctx, kids |-> kids, undo |-> Frame(t).undo]}
    BY <2>1, WithFrame
  <2> QED
    BY <1>3, <1>4, <2>2
<1>9. to.ctx = Frame(t).ctx /\ to.undo = Frame(t).undo /\ ToSet(Frame(t).kids) \subseteq ToSet(to.kids) \cup {d}
  BY <1>3, <1>7
<1>10. \A fr \in ToSet(stack[t]) : \E o \in ToSet(rest) :
           o.ctx = fr.ctx /\ o.undo = fr.undo /\ ToSet(fr.kids) \subseteq ToSet(o.kids) \cup {d}
  BY <1>6, <1>8, <1>9
<1>11. CASE mode[d] = "open"
  BY <1>5, <1>7, <1>8, <1>10, <1>11, EnterSafe
<1>12. CASE mode[d] # "open"
  <2>1. stack' = [stack EXCEPT ![t] = rest] /\ UNCHANGED <<treeVars, effectVars, inverses, task>>
    BY <1>5, <1>12 DEF treeVars
  <2>2. /\ stack' \in [Threads -> Seq(FrameRecord)] /\ stack'[t] = rest
        /\ \A u \in Threads \ {t} : stack'[u] = stack[u]
    BY <1>5, <1>8, <2>1 DEF Shape
  <2>3. ASSUME NEW u \in Threads, NEW fr \in ToSet(stack[u])
        PROVE  \E o \in ToSet(stack'[u]) : /\ o.ctx = fr.ctx /\ o.undo = fr.undo
                                           /\ \A k \in ToSet(fr.kids) : mode[k] = "open" => k \in ToSet(o.kids)
    <3>1. CASE u # t
      BY <2>2, <3>1
    <3>2. CASE u = t
      <4>1. PICK o \in ToSet(rest) :
                o.ctx = fr.ctx /\ o.undo = fr.undo /\ ToSet(fr.kids) \subseteq ToSet(o.kids) \cup {d}
        BY <1>10, <3>2
      <4> QED
        BY <1>12, <2>2, <3>2, <4>1
    <3> QED
      BY <3>1, <3>2
  <2> QED
    BY <2>1, <2>2, <2>3, LessToDoSafe
<1> QED
  BY <1>11, <1>12

LEMMA ReturnSafe == ASSUME ScopeInv, NEW t \in Threads, Return(t) PROVE ScopeInv'
<1>1. /\ UNCHANGED <<treeVars, effectVars, inverses, task>> /\ Shape
      /\ stack[t] # <<>> /\ Frame(t).kids = <<>> /\ Frame(t).undo = <<>>
      /\ stack' = [stack EXCEPT ![t] = Front(@)]
  BY DEF Return, ScopeInv
<1>2. /\ Front(stack[t]) \in Seq(FrameRecord)
      /\ ToSet(stack[t]) = ToSet(Front(stack[t])) \cup {Frame(t)}
  BY <1>1, NewestFrame
<1>3. /\ stack' \in [Threads -> Seq(FrameRecord)] /\ stack'[t] = Front(stack[t])
      /\ \A u \in Threads \ {t} : stack'[u] = stack[u]
  BY <1>1, <1>2 DEF Shape
<1>4. ASSUME NEW u \in Threads, NEW fr \in ToSet(stack[u]), ~(fr.kids = <<>> /\ fr.undo = <<>>)
      PROVE  fr \in ToSet(stack'[u])
  <2>1. CASE u # t
    BY <1>3, <2>1
  <2>2. CASE u = t
    BY <1>1, <1>2, <1>3, <1>4, <2>2
  <2> QED
    BY <2>1, <2>2
<1> QED
  BY <1>1, <1>3, <1>4, LessToDoSafe

-----------------------------------------------------------------------------
(* All steps. *)

LEMMA ScopeInit == Init => ScopeInv
<1> SUFFICES ASSUME Init PROVE ScopeInv
  OBVIOUS
<1>1. log = <<>> /\ Len(<<>>) = 0 /\ 1..0 = {} /\ \E S : log \in Seq(S)
  <2>1. <<>> \in Seq(Nat) /\ Len(<<>>) = 0
    OBVIOUS
  <2> QED
    BY <2>1 DEF Init
<1>2. Effects = {} /\ inPlace = {}
  BY <1>1 DEF Effects, Init
<1>3. /\ children \in [Contexts -> Seq(Contexts)] /\ inverses \in [Contexts -> Seq(Nat)]
      /\ stack \in [Threads -> Seq(FrameRecord)]
      /\ mode \in [Contexts -> {"none", "open", "closed"}]
  <2>1. <<>> \in Seq(Contexts) /\ <<>> \in Seq(Nat) /\ <<>> \in Seq(FrameRecord)
    OBVIOUS
  <2> QED
    BY <2>1 DEF Init
<1>4. /\ task \in [Threads -> [do : {"none", "wake", "keep", "drop"}, id : Nat]]
      /\ \A t \in Threads : HeldBy(t) = {}
  BY DEF Init, NoTask, HeldBy
<1>5. Shape
  BY <1>1, <1>2, <1>3, <1>4 DEF Shape
<1>6. Covered
  BY <1>2 DEF Covered
<1>7. Attached
  BY DEF Attached, Init
<1> QED
  BY <1>5, <1>6, <1>7 DEF ScopeInv

LEMMA CallSafe == ASSUME ScopeInv, NEW t \in Threads, Call(t) PROVE ScopeInv'
<1>1. PICK c \in Contexts :
        \/ Provide(t, c) \/ Listen(t, c) \/ Release(t, c)
        \/ \E r \in Realms \cup {RootRealm} : Isolate(t, c, r)
        \/ \E n \in Names : Install(t, c, n)
  BY DEF Call
<1>2. CASE Provide(t, c)
  <2>1. /\ PutAndKeep(t, c, "provide", RealmOf[c])
        /\ task' = [task EXCEPT ![t] = [do |-> "wake", id |-> 0]]
        /\ UNCHANGED <<mode, children, detached, stack>>
    BY <1>2 DEF Provide, treeVars
  <2> QED
    BY <2>1, PutAndKeepSafe
<1>3. CASE Listen(t, c)
  <2>1. PutAndKeep(t, c, "listener", None) /\ UNCHANGED <<mode, children, detached, stack, task>>
    BY <1>3 DEF Listen, treeVars
  <2> QED
    BY <2>1, PutAndKeepSafe
<1>4. CASE Release(t, c)
  BY <1>4, ReleaseSafe
<1>5. ASSUME NEW r, Isolate(t, c, r) PROVE ScopeInv'
  <2>1. /\ PutAndKeep(t, c, "isolate", r)
        /\ task' = [task EXCEPT ![t] = [do |-> "wake", id |-> 0]]
        /\ UNCHANGED <<mode, children, detached, stack>>
    BY <1>5 DEF Isolate, treeVars
  <2> QED
    BY <2>1, PutAndKeepSafe
<1>6. ASSUME NEW n, Install(t, c, n) PROVE ScopeInv'
  BY <1>6, InstallSafe
<1> QED
  BY <1>1, <1>2, <1>3, <1>4, <1>5, <1>6

LEMMA ProceedSafe == ASSUME ScopeInv, NEW t \in Threads, Proceed(t) PROVE ScopeInv'
BY KeepSafe, DropSafe, DescendSafe, RunInverseSafe, ReturnSafe, WakeSafe DEF Proceed

\* Waiters and the loop only read the tree; a stutter does nothing.
LEMMA ReadersSafe ==
    ASSUME ScopeInv, UNCHANGED <<treeVars, effectVars, inverses, stack, task>>
    PROVE  ScopeInv'
<1>1. \A t \in Threads : HeldBy(t)' = HeldBy(t)
  BY DEF HeldBy
<1> QED
  BY <1>1, TellingSafe DEF ScopeInv, Shape

LEMMA ScopeStep == ScopeInv /\ [Next]_vars => ScopeInv'
<1> SUFFICES ASSUME ScopeInv, [Next]_vars PROVE ScopeInv'
  OBVIOUS
<1>1. CASE \E c \in Contexts : Child(c) \/ Detach(c)
  BY <1>1, ChildSafe, DetachSafe
<1>2. ASSUME NEW t \in Threads, Call(t) \/ Proceed(t) \/ \E e \in Effects : Withdraw(t, e)
      PROVE  ScopeInv'
  BY <1>2, CallSafe, ProceedSafe, WithdrawSafe
<1>3. CASE \E w \in Waiters : Subscribe(w) \/ Test(w) \/ Sleep(w) \/ Rouse(w)
  <2>1. UNCHANGED <<treeVars, effectVars, inverses, stack, task>>
    BY <1>3 DEF Subscribe, Test, Sleep, Rouse
  <2> QED
    BY <2>1, ReadersSafe
<1>4. CASE Evaluate \/ UNCHANGED vars
  <2>1. UNCHANGED <<treeVars, effectVars, inverses, stack, task>>
    BY <1>4 DEF Evaluate, vars
  <2> QED
    BY <2>1, ReadersSafe
<1> QED
  BY <1>1, <1>2, <1>3, <1>4 DEF Next

\* At no time, in any tree, with any number of goroutines that make children,
\* install effects and unwind contexts, is the inverse of an effect in place
\* out of everybody's reach, or an open context out of reach of the unwinding of
\* its parent (context.go: Effect, Child, unwind; orchestrator.go: detach).
THEOREM NothingIsLost == Spec => []NothingLost
<1>1. Spec => []ScopeInv
  BY ScopeInit, ScopeStep, PTL DEF Spec
<1>2. []ScopeInv => []NothingLost
  BY ScopeInvSays, PTL
<1> QED
  BY <1>1, <1>2
=============================================================================
