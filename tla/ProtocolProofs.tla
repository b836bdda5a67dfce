--------------------------- MODULE ProtocolProofs ---------------------------
(***************************************************************************)
(* Session implements Protocol, for every design and every evaluator: a    *)
(* step leaves every instance once and its children before it, and what a  *)
(* session remembers is written at no other time.                          *)
(*                                                                         *)
(* The stack of a step says which instances are still to be entered: those *)
(* that wait for it and all below them.  Entering one hands its place to   *)
(* its children and its own "close", behind theirs.                        *)
(***************************************************************************)
EXTENDS StepProofs

-----------------------------------------------------------------------------
(* The invariant. *)

\* An item that enters or leaves an instance.
Turn(w) == w.op \in {"step", "close"}

\* Every instance has one turn at most.
Apart(s) ==
  \A j, k \in 1..Len(s) : Turn(s[j]) /\ Turn(s[k]) /\ s[j].inst = s[k].inst => j = k

\* No instance waits below one that waits to be entered, and the children of
\* an instance that waits to be left are left, or have their turn before.
Ordered(s) ==
  /\ Apart(s)
  /\ \A i \in Waiting(s, "step") : i = Top \/ Parent(i) \notin ToEnter(s)
  /\ Waiting(s, "close") \cap ToEnter(s) = {}
  /\ \A k \in 1..Len(s) : s[k].op = "close" =>
       \A c \in ChildrenOf(s[k].inst) :
         c \in Left(s) \/ \E j \in 1..Len(s) : j < k /\ Turn(s[j]) /\ s[j].inst = c

WalkOrder == phase = "step" => Ordered(todo)

-----------------------------------------------------------------------------
(* Instances and all that are below them. *)

\* They are closed, and the smallest such set.
LEMMA AllBelowIsClosed ==
  ASSUME NEW W, W \subseteq Instance
  PROVE  /\ WithAllBelow(W) \subseteq Instance /\ W \subseteq WithAllBelow(W)
         /\ \A c \in Instance \ {Top} : Parent(c) \in WithAllBelow(W) => c \in WithAllBelow(W)
         /\ \A S \in SUBSET Instance :
              /\ W \subseteq S
              /\ \A c \in Instance \ {Top} : Parent(c) \in S => c \in S
              => WithAllBelow(W) \subseteq S
  BY DEF WithAllBelow

\* Nothing is below nothing.
LEMMA NothingBelow == WithAllBelow({}) = {}
<1>1. {} \in SUBSET Instance
  OBVIOUS
<1> QED
  BY <1>1 DEF WithAllBelow

\* Everything is below the top instance, since the instances are a tree.
LEMMA AllBelowTop == WithAllBelow({Top}) = Instance
<1> DEFINE A == WithAllBelow({Top})
           S == Instance \ A
<1>1. {Top} \subseteq Instance
  BY DesignAssumption
<1>2. A \subseteq Instance /\ Top \in A
      /\ \A c \in Instance \ {Top} : Parent(c) \in A => c \in A
  BY <1>1, AllBelowIsClosed
<1> HIDE DEF A
<1>3. S = {}
  <2> SUFFICES ASSUME S # {} PROVE FALSE
    OBVIOUS
  <2>1. S \in SUBSET (Instance \ {Top})
    BY <1>2
  <2>2. PICK i \in S : Design[i].parent \notin S
    BY <2>1, HierarchyAssumption
  <2>3. i \in Instance \ {Top} /\ Design[i].parent \in Instance
    BY <2>1, HierarchyAssumption
  <2> QED
    BY <1>2, <2>2, <2>3 DEF Parent
<1>4. Instance \subseteq A
  BY <1>3
<1>5. A = Instance
  BY <1>2, <1>4
<1> QED
  BY <1>5 DEF A

\* The children of an instance are below it and nowhere else.
LEMMA ChildrenBelow ==
  ASSUME NEW i \in Instance
  PROVE  /\ ChildrenOf(i) \subseteq Instance \ {Top}
         /\ \A c \in ChildrenOf(i) : Parent(c) = i
         /\ i \notin ChildrenOf(i)
         /\ \A c \in Instance \ {Top} : Parent(c) = i => c \in ChildrenOf(i)
<1>1. \A k \in 1..Len(Design[i].children) :
        /\ Design[i].children[k] \in Instance /\ Design[Design[i].children[k]].parent = i
        /\ Design[i].children[k] # Top
  BY DesignAssumption, ChildrenAssumption
<1>2. \A c \in ChildrenOf(i) : c \in Instance /\ c # Top /\ Parent(c) = i
  BY <1>1 DEF ChildrenOf, Parent
<1>3. i \notin ChildrenOf(i)
  <2> SUFFICES ASSUME i \in ChildrenOf(i) PROVE FALSE
    OBVIOUS
  <2>1. {i} \in SUBSET (Instance \ {Top}) /\ {i} # {}
    BY <1>2
  <2>2. \E j \in {i} : Design[j].parent \notin {i}
    BY <2>1, HierarchyAssumption
  <2> QED
    BY <1>2, <2>2 DEF Parent
<1>4. ASSUME NEW c \in Instance \ {Top}, Parent(c) = i PROVE c \in ChildrenOf(i)
  BY <1>4, HierarchyAssumption DEF Parent, ChildrenOf
<1> QED
  BY <1>2, <1>3, <1>4

\* An instance gives way to its children: it alone is no longer below.
LEMMA ChildrenInstead ==
  ASSUME NEW W, W \subseteq Instance, NEW i \in W,
         i = Top \/ Parent(i) \notin WithAllBelow(W)
  PROVE  WithAllBelow((W \ {i}) \cup ChildrenOf(i)) = WithAllBelow(W) \ {i}
<1> DEFINE A == WithAllBelow(W)
           V == (W \ {i}) \cup ChildrenOf(i)
           B == WithAllBelow(V)
<1>1. /\ A \subseteq Instance /\ W \subseteq A
      /\ \A c \in Instance \ {Top} : Parent(c) \in A => c \in A
      /\ \A S \in SUBSET Instance :
              /\ W \subseteq S
              /\ \A c \in Instance \ {Top} : Parent(c) \in S => c \in S
              => A \subseteq S
  BY AllBelowIsClosed
<1>2. /\ ChildrenOf(i) \subseteq Instance \ {Top}
      /\ \A c \in ChildrenOf(i) : Parent(c) = i
      /\ i \notin ChildrenOf(i)
      /\ \A c \in Instance \ {Top} : Parent(c) = i => c \in ChildrenOf(i)
  BY ChildrenBelow
<1>3. V \subseteq Instance
  BY <1>2
<1>4. /\ B \subseteq Instance /\ V \subseteq B
      /\ \A c \in Instance \ {Top} : Parent(c) \in B => c \in B
      /\ \A S \in SUBSET Instance :
              /\ V \subseteq S
              /\ \A c \in Instance \ {Top} : Parent(c) \in S => c \in S
              => B \subseteq S
  BY <1>3, AllBelowIsClosed
<1>5. i = Top \/ Parent(i) \notin A
  OBVIOUS
<1> HIDE DEF A, B
<1>6. B \subseteq A \ {i}
  <2>1. V \subseteq A \ {i}
    BY <1>1, <1>2
  <2>2. \A c \in Instance \ {Top} : Parent(c) \in A \ {i} => c \in A \ {i}
    BY <1>1, <1>5
  <2>3. A \ {i} \in SUBSET Instance
    BY <1>1
  <2> HIDE DEF V
  <2> QED
    BY <1>4, <2>1, <2>2, <2>3
<1>7. A \subseteq B \cup {i}
  <2>1. W \subseteq B \cup {i}
    BY <1>4
  <2>2. \A c \in Instance \ {Top} : Parent(c) \in B \cup {i} => c \in B \cup {i}
    BY <1>2, <1>4
  <2>3. B \cup {i} \in SUBSET Instance
    BY <1>4
  <2> QED
    BY <1>1, <2>1, <2>2, <2>3
<1>8. B = A \ {i}
  BY <1>6, <1>7
<1> QED
  BY <1>8 DEF A, B

-----------------------------------------------------------------------------
(* Turns, when the head of a stack is replaced by other work. *)

\* Who waits behind the head.
Rest(s, op) == {s[k].inst : k \in {n \in 2..Len(s) : s[n].op = op}}

\* Who waits are the head, if it does, and those behind it.
LEMMA HeadAndRest ==
  ASSUME NEW s, IsSequence(s), s # <<>>, NEW op
  PROVE  /\ Head(s).op = op => Waiting(s, op) = Rest(s, op) \cup {Head(s).inst}
         /\ Head(s).op # op => Waiting(s, op) = Rest(s, op)
<1>1. Head(s) = s[1] /\ Len(s) \in Nat \ {0}
  BY IsSequenceHead
<1>2. \A k \in 1..Len(s) : k = 1 \/ k \in 2..Len(s)
  BY <1>1
<1>3. 1 \in 1..Len(s) /\ \A k \in 2..Len(s) : k \in 1..Len(s)
  BY <1>1
<1> QED
  BY <1>1, <1>2, <1>3 DEF Waiting, Rest

\* After it is replaced those behind it wait, and those of the new work.
LEMMA RestWaits ==
  ASSUME NEW s, IsSequence(s), s # <<>>, NEW t, IsSequence(t), NEW r, Replaces(r, s, t), NEW op
  PROVE  Waiting(r, op) = Waiting(t, op) \cup Rest(s, op)
<1>1. /\ Len(t) \in Nat /\ Len(s) \in Nat \ {0} /\ Len(r) \in Nat
      /\ \A k \in 1..Len(t) : k \in 1..Len(r) /\ r[k] = t[k]
      /\ \A k \in 2..Len(s) : Len(t) + k - 1 \in 1..Len(r) /\ r[Len(t) + k - 1] = s[k]
      /\ \A k \in 1..Len(r) : k > Len(t) =>
           k - Len(t) + 1 \in 2..Len(s) /\ r[k] = s[k - Len(t) + 1]
  BY Replaced
<1>2. \A k \in 2..Len(s) : \E j \in 1..Len(r) : r[j] = s[k]
  BY <1>1
<1>3. \A k \in 1..Len(r) : (k \in 1..Len(t) /\ r[k] = t[k]) \/ \E j \in 2..Len(s) : r[k] = s[j]
  <2> SUFFICES ASSUME NEW k \in 1..Len(r), k \notin 1..Len(t)
               PROVE  \E j \in 2..Len(s) : r[k] = s[j]
    BY <1>1
  <2>1. k > Len(t)
    BY <1>1
  <2> QED
    BY <1>1, <2>1
<1>4. Waiting(r, op) \subseteq Waiting(t, op) \cup Rest(s, op)
  <2> SUFFICES ASSUME NEW i \in Waiting(r, op) PROVE i \in Waiting(t, op) \cup Rest(s, op)
    OBVIOUS
  <2>1. PICK k \in 1..Len(r) : r[k].op = op /\ r[k].inst = i
    BY DEF Waiting
  <2>2. CASE k \in 1..Len(t) /\ r[k] = t[k]
    BY <2>1, <2>2 DEF Waiting
  <2>3. CASE \E j \in 2..Len(s) : r[k] = s[j]
    BY <2>1, <2>3 DEF Rest
  <2> QED
    BY <1>3, <2>2, <2>3
<1>5. Waiting(t, op) \subseteq Waiting(r, op)
  BY <1>1 DEF Waiting
<1>6. Rest(s, op) \subseteq Waiting(r, op)
  <2> SUFFICES ASSUME NEW i \in Rest(s, op) PROVE i \in Waiting(r, op)
    OBVIOUS
  <2>1. PICK k \in 2..Len(s) : s[k].op = op /\ s[k].inst = i
    BY DEF Rest
  <2>2. PICK j \in 1..Len(r) : r[j] = s[k]
    BY <1>2
  <2> QED
    BY <2>1, <2>2 DEF Waiting
<1> QED
  BY <1>4, <1>5, <1>6

\* The instance whose turn it is has no other turn.
LEMMA HeadIsApart ==
  ASSUME NEW s, IsSequence(s), s # <<>>, Apart(s), Turn(Head(s)), NEW op \in {"step", "close"}
  PROVE  Head(s).inst \notin Rest(s, op)
<1>1. Head(s) = s[1] /\ Len(s) \in Nat \ {0}
  BY IsSequenceHead
<1>2. SUFFICES ASSUME NEW k \in 2..Len(s), s[k].op = op, s[k].inst = s[1].inst PROVE FALSE
  BY <1>1 DEF Rest
<1>3. k \in 1..Len(s) /\ 1 \in 1..Len(s) /\ k # 1
  BY <1>1
<1>4. Turn(s[k]) /\ Turn(s[1])
  BY <1>1, <1>2 DEF Turn
<1> QED
  BY <1>2, <1>3, <1>4 DEF Apart

\* Work without turns in the place of a head without one leaves the turns of a
\* stack in their order.
LEMMA TurnsAfter ==
  ASSUME NEW s, IsSequence(s), s # <<>>, NEW t, IsSequence(t), NEW r, Replaces(r, s, t),
         \A k \in 1..Len(t) : ~Turn(t[k]), Apart(s)
  PROVE  /\ Apart(r)
         /\ \A k \in 1..Len(r) : Turn(r[k]) =>
              \E m \in 2..Len(s) :
                /\ r[k] = s[m]
                /\ \A j \in 2..Len(s) : j < m => \E n \in 1..Len(r) : n < k /\ r[n] = s[j]
<1>1. /\ Len(t) \in Nat /\ Len(s) \in Nat \ {0} /\ Len(r) \in Nat
      /\ \A k \in 1..Len(t) : k \in 1..Len(r) /\ r[k] = t[k]
      /\ \A k \in 2..Len(s) : Len(t) + k - 1 \in 1..Len(r) /\ r[Len(t) + k - 1] = s[k]
      /\ \A k \in 1..Len(r) : k > Len(t) =>
           k - Len(t) + 1 \in 2..Len(s) /\ r[k] = s[k - Len(t) + 1]
  BY Replaced
<1>2. \A k \in 1..Len(r) : Turn(r[k]) => k > Len(t)
  <2> SUFFICES ASSUME NEW k \in 1..Len(r), k <= Len(t) PROVE ~Turn(r[k])
    BY <1>1
  <2>1. k \in 1..Len(t)
    BY <1>1
  <2> QED
    BY <1>1, <2>1
<1>3. Apart(r)
  <2> SUFFICES ASSUME NEW j \in 1..Len(r), NEW k \in 1..Len(r), Turn(r[j]), Turn(r[k]),
                      r[j].inst = r[k].inst
               PROVE  j = k
    BY DEF Apart
  <2>1. /\ j - Len(t) + 1 \in 2..Len(s) /\ r[j] = s[j - Len(t) + 1]
        /\ k - Len(t) + 1 \in 2..Len(s) /\ r[k] = s[k - Len(t) + 1]
    BY <1>1, <1>2
  <2>2. j - Len(t) + 1 \in 1..Len(s) /\ k - Len(t) + 1 \in 1..Len(s)
    BY <1>1, <2>1
  <2>3. j - Len(t) + 1 = k - Len(t) + 1
    BY <2>1, <2>2 DEF Apart
  <2> QED
    BY <1>1, <2>3
<1>4. ASSUME NEW k \in 1..Len(r), Turn(r[k])
      PROVE  \E m \in 2..Len(s) :
                /\ r[k] = s[m]
                /\ \A j \in 2..Len(s) : j < m => \E n \in 1..Len(r) : n < k /\ r[n] = s[j]
  <2>1. PICK m : m = k - Len(t) + 1
    OBVIOUS
  <2>2. m \in 2..Len(s) /\ r[k] = s[m]
    BY <1>1, <1>2, <1>4, <2>1
  <2>3. ASSUME NEW j \in 2..Len(s), j < m PROVE \E n \in 1..Len(r) : n < k /\ r[n] = s[j]
    <3>1. Len(t) + j - 1 \in 1..Len(r) /\ r[Len(t) + j - 1] = s[j]
      BY <1>1
    <3>2. Len(t) + j - 1 < k
      BY <1>1, <2>1, <2>3
    <3> QED
      BY <3>1, <3>2
  <2> QED
    BY <2>2, <2>3
<1> QED
  BY <1>3, <1>4

\* So what is to be entered and what is left stays.
LEMMA QuietKeepsOrder ==
  ASSUME NEW s, IsSequence(s), s # <<>>, NEW t, IsSequence(t), NEW r, Replaces(r, s, t),
         \A k \in 1..Len(t) : ~Turn(t[k]), ~Turn(Head(s)), Ordered(s)
  PROVE  Ordered(r) /\ Left(r) = Left(s)
<1>1. \A op \in {"step", "close"} : Waiting(r, op) = Waiting(s, op)
  <2> SUFFICES ASSUME NEW op \in {"step", "close"} PROVE Waiting(r, op) = Waiting(s, op)
    OBVIOUS
  <2>1. Waiting(t, op) = {}
    BY DEF Waiting, Turn
  <2>2. Head(s).op # op
    BY DEF Turn
  <2>3. Waiting(r, op) = Waiting(t, op) \cup Rest(s, op)
    BY RestWaits
  <2>4. Waiting(s, op) = Rest(s, op)
    BY <2>2, HeadAndRest
  <2> QED
    BY <2>1, <2>3, <2>4
<1>2. ToEnter(r) = ToEnter(s) /\ Left(r) = Left(s)
  BY <1>1 DEF ToEnter, Left
<1>3. /\ Apart(r)
      /\ \A k \in 1..Len(r) : Turn(r[k]) =>
           \E m \in 2..Len(s) :
             /\ r[k] = s[m]
             /\ \A j \in 2..Len(s) : j < m => \E n \in 1..Len(r) : n < k /\ r[n] = s[j]
  BY TurnsAfter DEF Ordered
<1>4. ASSUME NEW k \in 1..Len(r), r[k].op = "close", NEW c \in ChildrenOf(r[k].inst), c \notin Left(r)
      PROVE  \E j \in 1..Len(r) : j < k /\ Turn(r[j]) /\ r[j].inst = c
  <2>1. PICK m \in 2..Len(s) :
             /\ r[k] = s[m]
             /\ \A j \in 2..Len(s) : j < m => \E n \in 1..Len(r) : n < k /\ r[n] = s[j]
    BY <1>3, <1>4 DEF Turn
  <2>2. Len(s) \in Nat \ {0} /\ Head(s) = s[1]
    BY IsSequenceHead
  <2>3. m \in 1..Len(s)
    BY <2>2
  <2>4. PICK j \in 1..Len(s) : j < m /\ Turn(s[j]) /\ s[j].inst = c
    BY <1>2, <1>4, <2>1, <2>3 DEF Ordered
  <2>5. j \in 2..Len(s)
    BY <2>2, <2>4
  <2> QED
    BY <2>1, <2>4, <2>5
<1> QED
  BY <1>1, <1>2, <1>3, <1>4 DEF Ordered

\* The instance whose close is at the head is left next, after its children.
LEMMA CloseKeepsOrder ==
  ASSUME NEW s, IsSequence(s), s # <<>>, \A k \in 1..Len(s) : s[k].inst \in Instance,
         NEW t, IsSequence(t), Len(t) = 0, NEW r, Replaces(r, s, t),
         Head(s).op = "close", Ordered(s)
  PROVE  /\ Ordered(r)
         /\ Head(s).inst \notin Left(s) /\ ChildrenOf(Head(s).inst) \subseteq Left(s)
         /\ Left(r) = Left(s) \cup {Head(s).inst}
<1>1. Head(s) = s[1] /\ Len(s) \in Nat \ {0} /\ 1 \in 1..Len(s)
  BY IsSequenceHead
<1>2. Turn(Head(s)) /\ Head(s).op # "step"
  BY DEF Turn
<1>3. \A op : Waiting(t, op) = {}
  BY DEF Waiting
<1>4. Waiting(r, "step") = Waiting(s, "step")
  <2>1. Waiting(r, "step") = Waiting(t, "step") \cup Rest(s, "step")
    BY RestWaits
  <2>2. Waiting(s, "step") = Rest(s, "step")
    BY <1>2, HeadAndRest
  <2> QED
    BY <1>3, <2>1, <2>2
<1>5. /\ Waiting(s, "close") = Waiting(r, "close") \cup {Head(s).inst}
      /\ Head(s).inst \notin Waiting(r, "close")
  <2>1. Waiting(r, "close") = Waiting(t, "close") \cup Rest(s, "close")
    BY RestWaits
  <2>2. Waiting(s, "close") = Rest(s, "close") \cup {Head(s).inst}
    BY HeadAndRest
  <2>3. Head(s).inst \notin Rest(s, "close")
    BY <1>2, HeadIsApart DEF Ordered
  <2> QED
    BY <1>3, <2>1, <2>2, <2>3
<1>6. Head(s).inst \in Instance /\ Head(s).inst \notin ToEnter(s)
  BY <1>1, <1>5 DEF Ordered
<1>7. ToEnter(r) = ToEnter(s) /\ Left(r) = Left(s) \cup {Head(s).inst}
  BY <1>4, <1>5, <1>6 DEF ToEnter, Left
<1>8. Head(s).inst \notin Left(s)
  BY <1>5 DEF Left
<1>9. ChildrenOf(Head(s).inst) \subseteq Left(s)
  <2> SUFFICES ASSUME NEW c \in ChildrenOf(Head(s).inst), c \notin Left(s) PROVE FALSE
    OBVIOUS
  <2>1. \E j \in 1..Len(s) : j < 1 /\ Turn(s[j]) /\ s[j].inst = c
    BY <1>1 DEF Ordered
  <2> QED
    BY <1>1, <2>1
<1>10. /\ Apart(r)
       /\ \A k \in 1..Len(r) : Turn(r[k]) =>
            \E m \in 2..Len(s) :
              /\ r[k] = s[m]
              /\ \A j \in 2..Len(s) : j < m => \E n \in 1..Len(r) : n < k /\ r[n] = s[j]
  <2>1. \A k \in 1..Len(t) : ~Turn(t[k])
    OBVIOUS
  <2> QED
    BY <2>1, TurnsAfter DEF Ordered
<1>11. ASSUME NEW k \in 1..Len(r), r[k].op = "close", NEW c \in ChildrenOf(r[k].inst), c \notin Left(r)
       PROVE  \E j \in 1..Len(r) : j < k /\ Turn(r[j]) /\ r[j].inst = c
  <2>1. PICK m \in 2..Len(s) :
             /\ r[k] = s[m]
             /\ \A j \in 2..Len(s) : j < m => \E n \in 1..Len(r) : n < k /\ r[n] = s[j]
    BY <1>10, <1>11 DEF Turn
  <2>2. m \in 1..Len(s)
    BY <1>1
  <2>3. PICK j \in 1..Len(s) : j < m /\ Turn(s[j]) /\ s[j].inst = c
    BY <1>7, <1>11, <2>1, <2>2 DEF Ordered
  <2>4. j # 1
    BY <1>1, <1>7, <1>11, <2>3
  <2>5. j \in 2..Len(s)
    BY <1>1, <2>4
  <2> QED
    BY <2>1, <2>3, <2>5
<1>12. \A i \in Waiting(r, "step") : i = Top \/ Parent(i) \notin ToEnter(r)
  BY <1>4, <1>7 DEF Ordered
<1>13. Waiting(r, "close") \cap ToEnter(r) = {}
  BY <1>5, <1>7 DEF Ordered
<1> QED
  BY <1>7, <1>8, <1>9, <1>10, <1>11, <1>12, <1>13 DEF Ordered

-----------------------------------------------------------------------------
(* An instance is entered. *)

\* The turns of an instance's work are those of its children and, last, its own
\* close.
LEMMA TurnsOfWork ==
  ASSUME NEW i \in Instance
  PROVE  LET n == Len(Design[i].children)
             t == StepWork(i)
         IN  /\ n \in Nat /\ IsSequence(t) /\ Len(t) \in Nat /\ n < Len(t)
             /\ \A k \in 1..Len(t) : Turn(t[k]) => k \in 1..n \/ k = Len(t)
             /\ \A k \in 1..n : t[k].op = "step" /\ t[k].inst = Design[i].children[k]
             /\ t[Len(t)].op = "close" /\ t[Len(t)].inst = i
<1> DEFINE n == Len(Design[i].children)
           m == Len(Design[i].blocks)
           d == Len(Design[i].decls)
           t == StepWork(i)
<1>1. /\ n \in Nat /\ m \in Nat /\ d \in Nat
      /\ IsSequence(t) /\ Len(t) = n + m + d + 2
      /\ \A k \in 1..n : t[k] = Item("step", Design[i].children[k])
      /\ t[n + 1] = Item("open", i)
      /\ \A k \in 1..m : t[n + 1 + k] = ItemAt("block", i, k)
      /\ \A k \in 1..d : t[n + 1 + m + k] = ItemAt("sync", i, k)
      /\ t[n + m + d + 2] = Item("close", i)
  BY StepWorkItems
<1> HIDE DEF n, m, d, t
<1>2. /\ \A k \in 1..n : t[k].op = "step" /\ t[k].inst = Design[i].children[k]
      /\ t[Len(t)].op = "close" /\ t[Len(t)].inst = i
      /\ t[n + 1].op = "open"
      /\ \A k \in 1..m : t[n + 1 + k].op = "block"
      /\ \A k \in 1..d : t[n + 1 + m + k].op = "sync"
  <2>1. \A k \in 1..n : t[k].op = "step" /\ t[k].inst = Design[i].children[k]
    BY <1>1, ItemParts
  <2>2. t[Len(t)] = Item("close", i)
    BY <1>1
  <2>3. t[Len(t)].op = "close" /\ t[Len(t)].inst = i /\ t[n + 1].op = "open"
    BY <1>1, <2>2, ItemParts
  <2>4. \A k \in 1..m : t[n + 1 + k].op = "block"
    <3>1. \A k \in 1..m : t[n + 1 + k] = ItemAt("block", i, k)
      BY <1>1
    <3> QED
      BY <3>1, ItemParts
  <2>5. \A k \in 1..d : t[n + 1 + m + k].op = "sync"
    <3>1. \A k \in 1..d : t[n + 1 + m + k] = ItemAt("sync", i, k)
      BY <1>1
    <3> QED
      BY <3>1, ItemParts
  <2> QED
    BY <2>1, <2>3, <2>4, <2>5
<1>a. n \in Nat /\ m \in Nat /\ d \in Nat /\ Len(t) = n + m + d + 2
  BY <1>1
<1>3. ASSUME NEW k \in 1..Len(t), k \notin 1..n, k # Len(t) PROVE ~Turn(t[k])
  <2>1. CASE k = n + 1
    BY <1>2, <2>1 DEF Turn
  <2>2. CASE k \in (n + 2)..(n + m + 1)
    <3>1. k - n - 1 \in 1..m /\ n + 1 + (k - n - 1) = k
      BY <1>a, <2>2
    <3> QED
      BY <1>2, <3>1 DEF Turn
  <2>3. CASE k \in (n + m + 2)..(n + m + d + 1)
    <3>1. k - n - m - 1 \in 1..d /\ n + 1 + m + (k - n - m - 1) = k
      BY <1>a, <2>3
    <3> QED
      BY <1>2, <3>1 DEF Turn
  <2> QED
    BY <1>a, <1>3, <2>1, <2>2, <2>3
<1> QED
  BY <1>1, <1>2, <1>3 DEF n, t

\* The children take the turn of an instance that is entered, before its close:
\* what is left stays, and one instance less is to be entered.
LEMMA EnterWaits ==
  ASSUME NEW s, IsSequence(s), s # <<>>, \A k \in 1..Len(s) : s[k].inst \in Instance,
         NEW i, i = Head(s).inst, i \in Instance, Head(s).op = "step", Ordered(s),
         NEW r, Replaces(r, s, StepWork(i))
  PROVE  /\ Waiting(r, "step") = (Waiting(s, "step") \ {i}) \cup ChildrenOf(i)
         /\ Waiting(r, "close") = Waiting(s, "close") \cup {i}
         /\ i \in ToEnter(s) /\ ToEnter(r) = ToEnter(s) \ {i}
         /\ Left(r) = Left(s)
<1> DEFINE n == Len(Design[i].children)
           t == StepWork(i)
<1>1. /\ n \in Nat /\ IsSequence(t) /\ Len(t) \in Nat /\ n < Len(t)
      /\ \A k \in 1..Len(t) : Turn(t[k]) => k \in 1..n \/ k = Len(t)
      /\ \A k \in 1..n : t[k].op = "step" /\ t[k].inst = Design[i].children[k]
      /\ t[Len(t)].op = "close" /\ t[Len(t)].inst = i
  BY TurnsOfWork
<1>2. Turn(Head(s)) /\ Head(s).op # "close"
  BY DEF Turn
<1> HIDE DEF t
<1>3. Waiting(t, "step") = ChildrenOf(i)
  <2>1. \A k \in 1..n : k \in 1..Len(t)
    BY <1>1
  <2>2. \A k \in 1..Len(t) : t[k].op = "step" => k \in 1..n
    BY <1>1 DEF Turn
  <2> QED
    BY <1>1, <2>1, <2>2 DEF Waiting, ChildrenOf
<1>4. Waiting(t, "close") = {i}
  <2>1. Len(t) \in 1..Len(t)
    BY <1>1
  <2>2. \A k \in 1..Len(t) : t[k].op = "close" => k = Len(t)
    BY <1>1 DEF Turn
  <2> QED
    BY <1>1, <2>1, <2>2 DEF Waiting
<1>5. Waiting(s, "step") = Rest(s, "step") \cup {i} /\ Waiting(s, "close") = Rest(s, "close")
  BY <1>2, HeadAndRest
<1>6. i \notin Rest(s, "step")
  BY <1>2, HeadIsApart DEF Ordered
<1>7. Waiting(r, "step") = (Waiting(s, "step") \ {i}) \cup ChildrenOf(i)
  <2>1. Waiting(r, "step") = Waiting(t, "step") \cup Rest(s, "step")
    BY <1>1, RestWaits DEF t
  <2> QED
    BY <1>3, <1>5, <1>6, <2>1
<1>8. Waiting(r, "close") = Waiting(s, "close") \cup {i}
  <2>1. Waiting(r, "close") = Waiting(t, "close") \cup Rest(s, "close")
    BY <1>1, RestWaits DEF t
  <2> QED
    BY <1>4, <1>5, <2>1
<1>9. Waiting(s, "step") \subseteq Instance /\ i \in Waiting(s, "step")
  BY <1>5 DEF Waiting
<1>10. i = Top \/ Parent(i) \notin WithAllBelow(Waiting(s, "step"))
  BY <1>9 DEF Ordered, ToEnter
<1>11. ToEnter(r) = ToEnter(s) \ {i}
  BY <1>7, <1>9, <1>10, ChildrenInstead DEF ToEnter
<1>12. i \in ToEnter(s)
  BY <1>9, AllBelowIsClosed DEF ToEnter
<1>13. Left(r) = Left(s)
  BY <1>8, <1>11, <1>12 DEF Left
<1> QED
  BY <1>7, <1>8, <1>11, <1>12, <1>13

\* No two turns meet.
LEMMA EnterIsApart ==
  ASSUME NEW s, IsSequence(s), s # <<>>, \A k \in 1..Len(s) : s[k].inst \in Instance,
         NEW i, i = Head(s).inst, i \in Instance, Head(s).op = "step", Ordered(s),
         NEW r, Replaces(r, s, StepWork(i))
  PROVE  Apart(r)
<1> DEFINE n == Len(Design[i].children)
           t == StepWork(i)
           Behind(k) == k > Len(t)
<1>1. /\ n \in Nat /\ IsSequence(t) /\ Len(t) \in Nat /\ n < Len(t)
      /\ \A k \in 1..Len(t) : Turn(t[k]) => k \in 1..n \/ k = Len(t)
      /\ \A k \in 1..n : t[k].op = "step" /\ t[k].inst = Design[i].children[k]
      /\ t[Len(t)].op = "close" /\ t[Len(t)].inst = i
  BY TurnsOfWork
<1>2. /\ Len(t) \in Nat /\ Len(s) \in Nat \ {0} /\ Len(r) \in Nat
      /\ \A k \in 1..Len(t) : k \in 1..Len(r) /\ r[k] = t[k]
      /\ \A k \in 1..Len(r) : k > Len(t) =>
           k - Len(t) + 1 \in 2..Len(s) /\ r[k] = s[k - Len(t) + 1]
  BY <1>1, Replaced
<1>3. /\ ChildrenOf(i) \subseteq Instance \ {Top}
      /\ \A c \in ChildrenOf(i) : Parent(c) = i
      /\ i \notin ChildrenOf(i)
  BY ChildrenBelow
<1>4. /\ i \in ToEnter(s)
      /\ Waiting(s, "close") \cap ToEnter(s) = {}
      /\ \A j \in Waiting(s, "step") : j = Top \/ Parent(j) \notin ToEnter(s)
  BY EnterWaits DEF Ordered
<1>5. ChildrenOf(i) \subseteq ToEnter(s)
  <2>1. Waiting(s, "step") \subseteq Instance
    BY DEF Waiting
  <2> QED
    BY <1>3, <1>4, <2>1, AllBelowIsClosed DEF ToEnter
<1>6. \A m \in 2..Len(s) : Turn(s[m]) => s[m].inst \notin ChildrenOf(i) /\ s[m].inst # i
  <2> SUFFICES ASSUME NEW m \in 2..Len(s), Turn(s[m])
               PROVE  s[m].inst \notin ChildrenOf(i) /\ s[m].inst # i
    OBVIOUS
  <2>1. m \in 1..Len(s)
    BY <1>2
  <2>2. PICK op \in {"step", "close"} : s[m].op = op
    BY DEF Turn
  <2>3. s[m].inst \in Waiting(s, op) /\ s[m].inst \in Rest(s, op)
    BY <2>1, <2>2 DEF Waiting, Rest
  <2>4. i \notin Rest(s, op)
    BY HeadIsApart DEF Ordered, Turn
  <2> QED
    BY <1>3, <1>4, <1>5, <2>3, <2>4
<1>7. \A j, k \in 1..n : Design[i].children[j] = Design[i].children[k] => j = k
  BY ChildrenAssumption
<1>8. \A k \in 1..n : Design[i].children[k] \in ChildrenOf(i)
  BY DEF ChildrenOf
<1> HIDE DEF t, n
<1>9. \A k \in 1..Len(r) : Turn(r[k]) =>
         \/ k \in 1..n /\ r[k].inst = Design[i].children[k]
         \/ k = Len(t) /\ r[k].inst = i
         \/ k > Len(t) /\ r[k].inst \notin ChildrenOf(i) /\ r[k].inst # i
  <2> SUFFICES ASSUME NEW k \in 1..Len(r), Turn(r[k])
               PROVE  \/ k \in 1..n /\ r[k].inst = Design[i].children[k]
                      \/ k = Len(t) /\ r[k].inst = i
                      \/ k > Len(t) /\ r[k].inst \notin ChildrenOf(i) /\ r[k].inst # i
    OBVIOUS
  <2>1. CASE k > Len(t)
    BY <1>2, <1>6, <2>1
  <2>2. CASE k <= Len(t)
    <3>1. k \in 1..Len(t) /\ r[k] = t[k]
      BY <1>2, <2>2
    <3> QED
      BY <1>1, <3>1
  <2> QED
    BY <1>2, <2>1, <2>2
<1>10. SUFFICES ASSUME NEW j \in 1..Len(r), NEW k \in 1..Len(r), Turn(r[j]), Turn(r[k]),
                      r[j].inst = r[k].inst
               PROVE  j = k
  BY DEF Apart
<1>11. CASE j > Len(t) /\ k > Len(t)
  <2>1. /\ j - Len(t) + 1 \in 2..Len(s) /\ r[j] = s[j - Len(t) + 1]
        /\ k - Len(t) + 1 \in 2..Len(s) /\ r[k] = s[k - Len(t) + 1]
    BY <1>2, <1>11
  <2>2. j - Len(t) + 1 \in 1..Len(s) /\ k - Len(t) + 1 \in 1..Len(s)
    BY <1>2, <2>1
  <2>3. j - Len(t) + 1 = k - Len(t) + 1
    BY <1>10, <2>1, <2>2 DEF Ordered, Apart
  <2> QED
    BY <1>2, <2>3
<1>12. CASE ~(j > Len(t) /\ k > Len(t))
  BY <1>1, <1>3, <1>7, <1>8, <1>9, <1>10, <1>12
<1> QED
  BY <1>11, <1>12

\* Entering keeps the order.
LEMMA EnterKeepsOrder ==
  ASSUME NEW s, IsSequence(s), s # <<>>, \A k \in 1..Len(s) : s[k].inst \in Instance,
         NEW i, i = Head(s).inst, i \in Instance, Head(s).op = "step", Ordered(s),
         NEW r, Replaces(r, s, StepWork(i))
  PROVE  Ordered(r) /\ Left(r) = Left(s)
<1> DEFINE n == Len(Design[i].children)
           t == StepWork(i)
<1>1. /\ n \in Nat /\ IsSequence(t) /\ Len(t) \in Nat /\ n < Len(t)
      /\ \A k \in 1..Len(t) : Turn(t[k]) => k \in 1..n \/ k = Len(t)
      /\ \A k \in 1..n : t[k].op = "step" /\ t[k].inst = Design[i].children[k]
      /\ t[Len(t)].op = "close" /\ t[Len(t)].inst = i
  BY TurnsOfWork
<1>2. /\ Len(t) \in Nat /\ Len(s) \in Nat \ {0} /\ Len(r) \in Nat /\ Head(s) = s[1]
      /\ \A k \in 1..Len(t) : k \in 1..Len(r) /\ r[k] = t[k]
      /\ \A k \in 2..Len(s) : Len(t) + k - 1 \in 1..Len(r) /\ r[Len(t) + k - 1] = s[k]
      /\ \A k \in 1..Len(r) : k > Len(t) =>
           k - Len(t) + 1 \in 2..Len(s) /\ r[k] = s[k - Len(t) + 1]
  BY <1>1, Replaced
<1>3. /\ Waiting(r, "step") = (Waiting(s, "step") \ {i}) \cup ChildrenOf(i)
      /\ Waiting(r, "close") = Waiting(s, "close") \cup {i}
      /\ i \in ToEnter(s) /\ ToEnter(r) = ToEnter(s) \ {i}
      /\ Left(r) = Left(s)
  BY EnterWaits
<1>4. \A c \in ChildrenOf(i) : Parent(c) = i
  BY ChildrenBelow
<1> HIDE DEF n, t
<1>5. \A j \in Waiting(r, "step") : j = Top \/ Parent(j) \notin ToEnter(r)
  BY <1>3, <1>4 DEF Ordered
<1>6. Waiting(r, "close") \cap ToEnter(r) = {}
  BY <1>3 DEF Ordered
<1>7. ASSUME NEW k \in 1..Len(r), r[k].op = "close", NEW c \in ChildrenOf(r[k].inst), c \notin Left(r)
      PROVE  \E j \in 1..Len(r) : j < k /\ Turn(r[j]) /\ r[j].inst = c
  <2>1. CASE k <= Len(t)
    <3>1. k \in 1..Len(t) /\ r[k] = t[k]
      BY <1>2, <2>1
    <3>2. k = Len(t) /\ r[k].inst = i
      BY <1>1, <1>7, <3>1 DEF Turn
    <3>3. PICK j \in 1..n : Design[i].children[j] = c
      BY <1>7, <3>2 DEF ChildrenOf, n
    <3>4. j \in 1..Len(t) /\ j < k
      BY <1>1, <3>2
    <3>5. j \in 1..Len(r) /\ r[j] = t[j]
      BY <1>2, <3>4
    <3> QED
      BY <1>1, <3>3, <3>4, <3>5 DEF Turn
  <2>2. CASE k > Len(t)
    <3>1. PICK m \in 2..Len(s) : m = k - Len(t) + 1 /\ r[k] = s[m]
      BY <1>2, <2>2
    <3>2. m \in 1..Len(s)
      BY <1>2
    <3>3. PICK j \in 1..Len(s) : j < m /\ Turn(s[j]) /\ s[j].inst = c
      BY <1>3, <1>7, <3>1, <3>2 DEF Ordered
    <3>4. CASE j = 1
      <4>1. Len(t) \in 1..Len(t) /\ Len(t) < k
        BY <1>1, <1>2, <2>2
      <4>2. Len(t) \in 1..Len(r) /\ r[Len(t)] = t[Len(t)]
        BY <1>2, <4>1
      <4>3. c = i
        BY <1>2, <3>3, <3>4
      <4> QED
        BY <1>1, <4>1, <4>2, <4>3 DEF Turn
    <3>5. CASE j # 1
      <4>1. j \in 2..Len(s)
        BY <1>2, <3>5
      <4>2. Len(t) + j - 1 \in 1..Len(r) /\ r[Len(t) + j - 1] = s[j]
        BY <1>2, <4>1
      <4>3. Len(t) + j - 1 < k
        BY <1>2, <3>1, <3>3
      <4> QED
        BY <3>3, <4>2, <4>3
    <3> QED
      BY <3>4, <3>5
  <2> QED
    BY <1>2, <2>1, <2>2
<1>8. Apart(r)
  BY EnterIsApart
<1> QED
  BY <1>3, <1>5, <1>6, <1>7, <1>8 DEF Ordered
-----------------------------------------------------------------------------
(* The order of a step, from its start to its commit. *)

\* A step starts with everything to enter and nothing left.
LEMMA StartIsOrdered ==
  ASSUME NEW s, s = <<Item("step", Top)>>
  PROVE  Ordered(s) /\ Left(s) = {}
<1> DEFINE w == Item("step", Top)
<1>1. w.op = "step" /\ w.inst = Top
  BY ItemParts
<1> HIDE DEF w
<1>2. Len(s) = 1 /\ s[1] = w
  BY DEF w
<1>3. \A k \in 1..Len(s) : k = 1
  BY <1>2
<1>4. 1 \in 1..Len(s)
  BY <1>2
<1>5. Waiting(s, "step") = {Top}
  BY <1>1, <1>2, <1>3, <1>4 DEF Waiting
<1>6. Waiting(s, "close") = {}
  BY <1>1, <1>2, <1>3 DEF Waiting
<1>7. Left(s) = {}
  BY <1>5, <1>6, AllBelowTop DEF Left, ToEnter
<1>8. Apart(s)
  BY <1>3 DEF Apart
<1> QED
  BY <1>1, <1>2, <1>3, <1>5, <1>6, <1>7, <1>8 DEF Ordered

\* A step without work has left all.
LEMMA EmptyHasLeftAll == ASSUME NEW s, s = <<>> PROVE Left(s) = Instance
<1>1. 1..Len(<<>>) = {}
  OBVIOUS
<1>2. \A op : Waiting(s, op) = {}
  BY <1>1 DEF Waiting
<1> QED
  BY <1>2, NothingBelow DEF Left, ToEnter

\* The items of a stack of a step are for instances.
LEMMA ItemsAreForInstances ==
  ASSUME NEW s, NEW ops, IsStack(s, ops)
  PROVE  IsSequence(s) /\ \A k \in 1..Len(s) : s[k].inst \in Instance
  BY DEF IsStack, IsItem

\* Entering, opening and running the blocks of an instance leave none.
LEMMA InnerKeepsOrder ==
  ASSUME IInv, WalkOrder, EnterStep \/ OpenInstance \/ BodyAction
  PROVE  phase = "step" /\ Ordered(todo') /\ Left(todo') = Left(todo)
<1>1. CASE EnterStep
  <2>1. "step" \in StepOps /\ Doing("step") /\ todo' = StepWork(Head(todo).inst) \o Tail(todo)
    BY <1>1 DEF StepOps, EnterStep, Push, Head1
  <2>2. /\ phase = "step" /\ todo # <<>> /\ Head(todo).op = "step"
        /\ Head(todo).inst \in Instance /\ IsStack(todo, StepOps)
    BY <2>1, DoingInStep DEF IsItem
  <2>3. Replaces(todo', todo, StepWork(Head(todo).inst)) /\ Ordered(todo)
    BY <2>1, <2>2 DEF Replaces, WalkOrder
  <2> QED
    BY <2>2, <2>3, ItemsAreForInstances, EnterKeepsOrder
<1>2. CASE OpenInstance
  <2>1. "open" \in StepOps /\ Doing("open") /\ todo' = Tail(todo)
    BY <1>2 DEF StepOps, OpenInstance, Pop
  <2>2. /\ phase = "step" /\ todo # <<>> /\ Head(todo).op = "open" /\ IsSequence(todo)
    BY <2>1, DoingInStep DEF IsStack
  <2>3. IsSequence(<<>>) /\ Len(<<>>) = 0 /\ Replaces(todo', todo, <<>>) /\ Ordered(todo)
    BY <2>1, <2>2, PopReplaces DEF Replaces, WalkOrder
  <2>4. ~Turn(Head(todo)) /\ \A k \in 1..Len(<<>>) : ~Turn(<<>>[k])
    BY <2>2, <2>3 DEF Turn
  <2> QED
    BY <2>2, <2>3, <2>4, QuietKeepsOrder
<1>3. CASE BodyAction
  <2>1. phase = "step" /\ todo # <<>> /\ Head(todo).op \in BodyOps
    BY <1>3, BodyReplaces
  <2>2. PICK t : BecomesWork(t)
    BY <1>3, BodyReplaces
  <2>3. /\ IsSequence(t) /\ Replaces(todo', todo, t) /\ IsBlockWork(t, Head(todo).inst)
        /\ IsSequence(todo) /\ Ordered(todo)
    BY <2>1, <2>2 DEF BecomesWork, WalkOrder, IInv, StepInv, IsStack
  <2>4. ~Turn(Head(todo)) /\ \A k \in 1..Len(t) : ~Turn(t[k])
    BY <2>1, <2>3 DEF Turn, BodyOps, IsBlockWork
  <2> QED
    BY <2>1, <2>3, <2>4, QuietKeepsOrder
<1> QED
  BY <1>1, <1>2, <1>3

\* Closing an instance leaves it, after its children.
LEMMA CloseLeaves ==
  ASSUME IInv, WalkOrder, CloseInstance
  PROVE  /\ phase = "step" /\ Head(todo).inst \in Instance
         /\ Ordered(todo')
         /\ Head(todo).inst \notin Left(todo) /\ ChildrenOf(Head(todo).inst) \subseteq Left(todo)
         /\ Left(todo') = Left(todo) \cup {Head(todo).inst}
<1>1. "close" \in StepOps /\ Doing("close") /\ todo' = Tail(todo)
  BY DEF StepOps, CloseInstance, Pop
<1>2. /\ phase = "step" /\ todo # <<>> /\ Head(todo).op = "close"
      /\ Head(todo).inst \in Instance /\ IsStack(todo, StepOps)
  BY <1>1, DoingInStep DEF IsItem
<1>3. IsSequence(todo) /\ \A k \in 1..Len(todo) : todo[k].inst \in Instance
  BY <1>2, ItemsAreForInstances
<1>4. IsSequence(<<>>) /\ Len(<<>>) = 0 /\ Replaces(todo', todo, <<>>) /\ Ordered(todo)
  BY <1>1, <1>2, <1>3, PopReplaces DEF Replaces, WalkOrder
<1> QED
  BY <1>2, <1>3, <1>4, CloseKeepsOrder

\* Every step keeps the order.
LEMMA WalkOrderPreserves == IInv /\ WalkOrder /\ [AnyNext]_vars => WalkOrder'
<1> SUFFICES ASSUME IInv, WalkOrder, [AnyNext]_vars, phase' = "step" PROVE Ordered(todo')
  BY DEF WalkOrder
<1>1. CASE BeginStep
  BY <1>1, StartIsOrdered DEF BeginStep
<1>2. CASE StepAction
  BY <1>2, InnerKeepsOrder, CloseLeaves DEF StepAction, BodyAction
<1>3. CASE UNCHANGED vars /\ phase = "step"
  BY <1>3 DEF vars, WalkOrder
<1> QED
  BY <1>1, <1>2, <1>3, IntoStep

\* The three invariants hold in every state of every behaviour.
LEMMA OrderInductive == AnySpec => [](IInv /\ WalkInv /\ WalkOrder)
<1>1. Init => IInv /\ WalkInv /\ WalkOrder
  BY InitHolds DEF Init, WalkInv, WalkOrder
<1>2. IInv /\ WalkInv /\ WalkOrder /\ [AnyNext]_vars => (IInv /\ WalkInv /\ WalkOrder)'
  BY NextPreserves, WalkPreserves, WalkOrderPreserves
<1> QED
  BY <1>1, <1>2, PTL DEF AnySpec

-----------------------------------------------------------------------------
(* Every step of a session is a step of the protocol, or none of its. *)

\* Outside of the walk a step that keeps the phase, the call and what the
\* session remembers is none of the protocol's.
LEMMA OutsideIsNoStep ==
  ASSUME phase # "step", UNCHANGED <<phase, call, session>> PROVE UNCHANGED Calls!vars
  BY DEF Calls!vars, Calls!session, session

\* In the walk it is none as long as no instance is left.
LEMMA InsideIsNoStep ==
  ASSUME phase = "step", phase' = "step", UNCHANGED <<session, preFrame>>, Left(todo') = Left(todo)
  PROVE  UNCHANGED Calls!vars
<1>1. \A i, c : Level(i, c)' = Level(i, c)
  BY LevelsKept
<1>2. [i \in Instance |-> [c \in Design[i].clocks |-> Level(i, c)]]'
      = [i \in Instance |-> [c \in Design[i].clocks |-> Level(i, c)]]
  BY <1>1
<1> QED
  BY <1>2 DEF Calls!vars, Calls!session, session

\* A session starts between calls.
LEMMA InitMaps == Init => Calls!Init
  BY DEF Init, Calls!Init

\* A call begins.
LEMMA BeginMaps == ASSUME NEW r, Begin(r) PROVE Calls!Call
  BY DEF Begin, Calls!Call, Calls!session, session

\* Loading words touches the memories of one instance.
LEMMA LoadMaps ==
  ASSUME IInv, NEW r, Load(r)
  PROVE  (\E i \in Instance : Calls!Load(i)) \/ UNCHANGED Calls!vars
<1>1. phase = "idle" /\ phase' = "idle" /\ UNCHANGED <<persisted, clocks, call>>
  BY DEF Load
<1>2. CASE Addressable(r)
  <2>1. r.inst \in Instance /\ DOMAIN memories = Instance
    BY <1>2 DEF Addressable, IInv, TypeOK
  <2>2. \A j \in Instance \ {r.inst} : memories'[j] = memories[j]
    BY <1>2, <2>1 DEF Load
  <2>3. Calls!Load(r.inst)
    BY <1>1, <2>2 DEF Calls!Load, Calls!OnlyMemoriesOf
  <2> QED
    BY <2>1, <2>3
<1>3. CASE ~Addressable(r)
  <2>1. UNCHANGED memories
    BY <1>3 DEF Load
  <2> QED
    BY <1>1, <2>1, OutsideIsNoStep DEF session
<1> QED
  BY <1>2, <1>3

\* A step takes the levels of the settled frame.
LEMMA BeginStepMaps == BeginStep => Calls!Edge
<1> SUFFICES ASSUME BeginStep PROVE Calls!Edge
  OBVIOUS
<1>1. /\ phase = "settle" /\ call.op = "step" /\ phase' = "step"
      /\ todo' = <<Item("step", Top)>> /\ UNCHANGED session
  BY DEF BeginStep
<1>2. Left(todo') = {}
  BY <1>1, StartIsOrdered
<1>3. \A i, c : Level(i, c)' \in BOOLEAN
  BY DEF Level, Truthy
<1> QED
  BY <1>1, <1>2, <1>3 DEF Calls!Edge, Calls!session, session

\* Closing an instance leaves it, with its clocks at the levels of the frame.
LEMMA CloseMaps ==
  ASSUME IInv, WalkInv, WalkOrder, CloseInstance
  PROVE  \E i \in Instance : Calls!Leave(i)
<1> DEFINE i == Head(todo).inst
<1>1. /\ phase = "step" /\ i \in Instance
      /\ i \notin Left(todo) /\ ChildrenOf(i) \subseteq Left(todo)
      /\ Left(todo') = Left(todo) \cup {i}
  BY CloseLeaves
<1>2. /\ phase' = "step" /\ UNCHANGED <<persisted, preFrame>>
      /\ memories' = [memories EXCEPT ![i] = stagedMem]
      /\ clocks' = [clocks EXCEPT ![i] = sampled]
  BY <1>1 DEF CloseInstance, Head1
<1>3. "close" \in StepOps /\ Doing("close")
  BY DEF StepOps, CloseInstance
<1>4. DOMAIN memories = Instance /\ sampled \in [Design[i].clocks -> BOOLEAN]
  BY <1>3, DoingInStep DEF OwnTables
<1>5. \A c \in Design[i].clocks : sampled[c] = Level(i, c)
  BY <1>3, ClosingHasSampled
<1>6. sampled = [c \in Design[i].clocks |-> Level(i, c)]
  BY <1>4, <1>5
<1>7. \A j \in Instance \ {i} : memories'[j] = memories[j]
  BY <1>2, <1>4
<1>8. \A j, c : Level(j, c)' = Level(j, c)
  BY <1>2, LevelsKept
<1>9. [j \in Instance |-> [c \in Design[j].clocks |-> Level(j, c)]]'
      = [j \in Instance |-> [c \in Design[j].clocks |-> Level(j, c)]]
  BY <1>8
<1> HIDE DEF i
<1>10. Calls!Leave(i)
  BY <1>1, <1>2, <1>6, <1>7, <1>9 DEF Calls!Leave, Calls!OnlyMemoriesOf
<1> QED
  BY <1>1, <1>10

\* A step commits when it has left every instance.
LEMMA CommitMaps == CommitStep => Calls!Commit
<1> SUFFICES ASSUME CommitStep PROVE Calls!Commit
  OBVIOUS
<1>1. phase = "step" /\ phase' = "resettle" /\ todo = <<>> /\ UNCHANGED <<memories, clocks>>
  BY DEF CommitStep
<1>2. Left(todo) = Instance
  BY <1>1, EmptyHasLeftAll
<1> QED
  BY <1>1, <1>2 DEF Calls!Commit

\* An answer and an error leave what the session remembers.
LEMMA ReturnMaps == IInv /\ (Reply \/ Fail) => Calls!Return
<1> SUFFICES ASSUME IInv, Reply \/ Fail PROVE Calls!Return
  OBVIOUS
<1>1. phase # "idle"
  BY DEF Reply, Fail, Converged, Exhausted, EndOfPass, InSettle, WorkFails, IInv
<1>2. phase' = "idle" /\ UNCHANGED session
  BY DEF Reply, Fail, Return
<1> QED
  BY <1>1, <1>2 DEF Calls!Return, Calls!session, session

\* Every step.
LEMMA NextMaps == IInv /\ WalkInv /\ WalkOrder /\ [AnyNext]_vars => [Calls!Next]_(Calls!vars)
<1> SUFFICES ASSUME IInv, WalkInv, WalkOrder, [AnyNext]_vars PROVE Calls!Next \/ UNCHANGED Calls!vars
  OBVIOUS
<1>1. ASSUME NEW r, Begin(r) \/ Refuse(r) \/ Load(r) \/ ReadWord(r)
      PROVE  Calls!Next \/ UNCHANGED Calls!vars
  <2>1. CASE Begin(r)
    BY <2>1, BeginMaps DEF Calls!Next
  <2>2. CASE Refuse(r)
    BY <2>2, OutsideIsNoStep DEF Refuse, Return, IInv, TypeOK
  <2>3. CASE Load(r)
    BY <2>3, LoadMaps DEF Calls!Next
  <2>4. CASE ReadWord(r)
    BY <2>4, OutsideIsNoStep DEF ReadWord
  <2> QED
    BY <1>1, <2>1, <2>2, <2>3, <2>4
<1>2. CASE SettleAction
  BY <1>2, SettleActionSettles, OutsideIsNoStep DEF SettleEffect, InSettle
<1>3. CASE NextPass
  BY <1>3, OutsideIsNoStep DEF NextPass, EndOfPass, InSettle
<1>4. CASE BeginStep
  BY <1>4, BeginStepMaps DEF Calls!Next
<1>5. CASE Reply \/ Fail
  BY <1>5, ReturnMaps DEF Calls!Next
<1>6. CASE StepAction /\ ~CloseInstance
  <2>1. EnterStep \/ OpenInstance \/ BodyAction
    BY <1>6 DEF StepAction, BodyAction
  <2>2. phase = "step" /\ Left(todo') = Left(todo)
    BY <2>1, InnerKeepsOrder
  <2>3. phase' = phase /\ UNCHANGED <<session, preFrame>>
    BY <2>1 DEF EnterStep, OpenInstance, BodyAction, ClockedBlock, SeqControl, SeqAssign,
                SeqLeaf, SyncName, stepping
  <2> QED
    BY <2>2, <2>3, InsideIsNoStep
<1>7. CASE CloseInstance
  BY <1>7, CloseMaps DEF Calls!Next
<1>8. CASE CommitStep
  BY <1>8, CommitMaps DEF Calls!Next
<1>9. CASE UNCHANGED vars
  <2>1. UNCHANGED <<session, preFrame, phase, call, todo>>
    BY <1>9 DEF vars, stepping
  <2> QED
    BY <2>1, OutsideIsNoStep, InsideIsNoStep
<1> QED
  BY <1>1, <1>2, <1>3, <1>4, <1>5, <1>6, <1>7, <1>8, <1>9 DEF AnyNext, Work, AnyRequest

\* Whatever it is asked, a session implements the protocol.
LEMMA ClientsKeepProtocol == AnySpec => KeepsProtocol
<1>1. Init => Calls!Init
  BY InitMaps
<1>2. IInv /\ WalkInv /\ WalkOrder /\ [AnyNext]_vars => [Calls!Next]_(Calls!vars)
  BY NextMaps
<1> QED
  BY <1>1, <1>2, OrderInductive, PTL DEF AnySpec, KeepsProtocol, Calls!Spec

\* A session keeps to the protocol of its calls, whatever the design and the
\* evaluator: a step leaves every instance once, its children before it, each
\* with all of its clocks at levels settled at one moment; its objects are
\* committed when it has left them all; and nothing else writes what a session
\* remembers, but for the loading of memories (step, step_module).
THEOREM SessionKeepsProtocol == Spec => KeepsProtocol
  BY ClientsKeepProtocol, SpecIsAny, PTL

=============================================================================
