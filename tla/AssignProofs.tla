---------------------------- MODULE AssignProofs ----------------------------
(***************************************************************************)
(* Proofs about the settle loop, for every design whose assignments write  *)
(* bits of their own: when a settle ends, every continuous assignment holds *)
(* of the values it ends with.                                             *)
(***************************************************************************)
EXTENDS SettleProofs

-----------------------------------------------------------------------------
(* The order of the work of a module: its assignments, then its blocks,    *)
(* then its commit.                                                        *)

AssignOps == {"assign", "assign leaf"}
BlockOps  == {"stmt", "comb leaf"}
CodeOps   == AssignOps \cup BlockOps \cup {"comb"}
ModuleOps == CodeOps \cup {"commit"}

AssignLeafOp == "assign leaf"
CombLeafOp   == "comb leaf"

LeavesOf(i, k) == {AssignLeafOf(i, k, n) : n \in 1..Len(Design[i].assigns[k].target.leaves)}

\* The leaves an item is to assign.
Places(w) == IF w.op = "assign" THEN LeavesOf(w.inst, w.at) ELSE {w.leaf}

\* What holds of an item and one that comes after it.
Before(v, w) ==
  /\ w.op \in ModuleOps => v.op \in CodeOps /\ v.inst = w.inst
  /\ w.op \in AssignOps =>
       v.op \in AssignOps /\ \A l \in Places(v) : \A m \in Places(w) : ApartIn(w.inst, l, m)
  /\ w.op \in BlockOps => v.op \in BlockOps
  /\ w.op = "comb" /\ v.op = "comb" => v.at # w.at
  /\ w.op = "commit" => w.done = {}

InOrder(s) == \A m, n \in 1..Len(s) : m < n => Before(s[m], s[n])

\* An item stems from the assignments or the blocks of its instance.
IsModules(w) ==
  /\ w.op = AssignLeafOp =>
       /\ \E k \in 1..Len(Design[w.inst].assigns) : w.leaf \in LeavesOf(w.inst, k)
       /\ w.leaf.kind # "memory" /\ IsVector(w.bits, w.leaf.width)
  /\ w.op = "stmt" => WriteSets[w.stmt] \subseteq CombWrites(w.inst)
  /\ w.op = CombLeafOp => w.leaf.name \in CombWrites(w.inst)
  /\ w.op = "commit" => w = [op |-> "commit", inst |-> w.inst, done |-> w.done]

\* An instance runs its code, or is committing.
Commits(i) == \E w \in Items(todo) : w.op = "commit" /\ w.inst = i

OrderInv ==
  InSettle =>
    /\ InOrder(todo)
    /\ \A w \in Items(todo) : IsModules(w) /\ (w.op \in CodeOps => Commits(w.inst))

\* What is in the place of the head is of its kind.
Narrows(u) ==
  /\ Head(todo).op \in CodeOps => u.op \in CodeOps /\ u.inst = Head(todo).inst
  /\ Head(todo).op \in AssignOps => u.op \in AssignOps /\ Places(u) \subseteq Places(Head(todo))
  /\ Head(todo).op \in BlockOps => u.op \in BlockOps
  /\ Head(todo).op \in CodeOps => u.op # "comb"

Arranged(t) ==
  /\ InOrder(t)
  /\ \A u \in Items(t) :
       /\ IsModules(u) /\ Narrows(u)
       /\ u.op \in CodeOps =>
            Head(todo).op \in CodeOps \/ \E v \in Items(t) : v.op = "commit" /\ v.inst = u.inst

\* The kinds of work.
LEMMA OpKinds ==
  /\ AssignOps \subseteq CodeOps /\ CodeOps \subseteq ModuleOps
  /\ "assign" \in AssignOps /\ AssignLeafOp \in AssignOps
  /\ BlockOps \subseteq CodeOps \ AssignOps /\ "stmt" \in BlockOps /\ CombLeafOp \in BlockOps
  /\ "comb" \in CodeOps \ (AssignOps \cup BlockOps)
  /\ AssignOps = {"assign", AssignLeafOp} /\ BlockOps = {"stmt", CombLeafOp}
  /\ "commit" \in ModuleOps \ CodeOps
  /\ "input" \notin ModuleOps /\ "module" \notin ModuleOps /\ "child" \notin ModuleOps
  /\ "drive" \notin ModuleOps /\ "sink" \notin ModuleOps /\ LeafOp \notin ModuleOps
  /\ AssignLeafOp \notin {"assign", "comb", "stmt", "commit"} /\ CombLeafOp # AssignLeafOp
  /\ CombLeafOp \notin {"assign", "comb", "stmt", "commit"}
  BY Zenon DEF AssignOps, BlockOps, CodeOps, ModuleOps, AssignLeafOp, CombLeafOp, LeafOp

\* What comes after the head comes after work of its kind.
LEMMA NarrowerBefore ==
  ASSUME NEW u, Narrows(u), NEW w, Before(Head(todo), w) PROVE Before(u, w)
  BY OpKinds DEF Narrows, Before

\* Work is in order when its head becomes other work.
LEMMA OrderReplaced ==
  ASSUME NEW s, IsSequence(s), s # <<>>, InOrder(s),
         NEW t, IsSequence(t), InOrder(t), NEW r, Replaces(r, s, t),
         \A u \in Items(t) : \A w : Before(Head(s), w) => Before(u, w)
  PROVE  /\ InOrder(r)
         /\ \A w \in Items(r) : w \in Items(t) \/ (w \in Items(s) /\ Before(Head(s), w))
<1>1. /\ Len(t) \in Nat /\ Len(s) \in Nat \ {0} /\ Len(r) \in Nat
      /\ Len(r) = Len(t) + Len(s) - 1
      /\ Head(s) = s[1]
      /\ \A k \in 1..Len(t) : k \in 1..Len(r) /\ r[k] = t[k]
      /\ \A k \in 1..Len(r) : k > Len(t) =>
           k - Len(t) + 1 \in 2..Len(s) /\ r[k] = s[k - Len(t) + 1]
  BY Replaced
<1>2. ASSUME NEW k \in 1..Len(r), k > Len(t)
      PROVE  r[k] \in Items(s) /\ Before(Head(s), r[k])
  <2>1. k - Len(t) + 1 \in 2..Len(s) /\ r[k] = s[k - Len(t) + 1]
    BY <1>1, <1>2
  <2>2. k - Len(t) + 1 \in 1..Len(s) /\ 1 \in 1..Len(s) /\ 1 < k - Len(t) + 1
    BY <1>1, <2>1
  <2> QED
    BY <1>1, <2>1, <2>2 DEF Items, InOrder
<1>3. ASSUME NEW k \in 1..Len(r), ~(k > Len(t))
      PROVE  k \in 1..Len(t) /\ r[k] = t[k] /\ r[k] \in Items(t)
  <2>1. k \in 1..Len(t)
    BY <1>1, <1>3
  <2> QED
    BY <1>1, <2>1 DEF Items
<1>4. ASSUME NEW m \in 1..Len(r), NEW n \in 1..Len(r), m < n PROVE Before(r[m], r[n])
  <2>1. CASE ~(n > Len(t))
    <3>1. ~(m > Len(t))
      BY <1>1, <1>4, <2>1
    <3>2. m \in 1..Len(t) /\ n \in 1..Len(t) /\ r[m] = t[m] /\ r[n] = t[n]
      BY <1>3, <2>1, <3>1
    <3> QED
      BY <1>4, <3>2 DEF InOrder
  <2>2. CASE n > Len(t) /\ ~(m > Len(t))
    BY <1>2, <1>3, <2>2
  <2>3. CASE n > Len(t) /\ m > Len(t)
    <3>1. /\ m - Len(t) + 1 \in 2..Len(s) /\ r[m] = s[m - Len(t) + 1]
          /\ n - Len(t) + 1 \in 2..Len(s) /\ r[n] = s[n - Len(t) + 1]
      BY <1>1, <2>3
    <3>2. /\ m - Len(t) + 1 \in 1..Len(s) /\ n - Len(t) + 1 \in 1..Len(s)
          /\ m - Len(t) + 1 < n - Len(t) + 1
      BY <1>1, <1>4, <3>1
    <3> QED
      BY <3>1, <3>2 DEF InOrder
  <2> QED
    BY <2>1, <2>2, <2>3
<1>5. ASSUME NEW w \in Items(r)
      PROVE  w \in Items(t) \/ (w \in Items(s) /\ Before(Head(s), w))
  <2>1. PICK k \in 1..Len(r) : w = r[k]
    BY DEF Items
  <2> QED
    BY <1>2, <1>3, <2>1
<1> QED
  BY <1>4, <1>5 DEF InOrder

\* And when it follows other work that may be before it.
LEMMA OrderJoined ==
  ASSUME NEW s, IsSequence(s), InOrder(s), NEW t, IsSequence(t), InOrder(t),
         NEW r, Joins(r, s, t), \A u \in Items(s) : \A w \in Items(t) : Before(u, w)
  PROVE  InOrder(r)
<1>1. /\ Len(s) \in Nat /\ Len(t) \in Nat
      /\ Len(r) = Len(s) + Len(t)
      /\ \A k \in 1..Len(s) : r[k] = s[k]
      /\ \A k \in 1..Len(t) : r[Len(s) + k] = t[k]
  BY Joined
<1>2. ASSUME NEW k \in 1..Len(r), k > Len(s)
      PROVE  k - Len(s) \in 1..Len(t) /\ r[k] = t[k - Len(s)] /\ r[k] \in Items(t)
  <2>1. k - Len(s) \in 1..Len(t) /\ k = Len(s) + (k - Len(s))
    BY <1>1, <1>2
  <2>2. r[k] = t[k - Len(s)]
    BY <1>1, <2>1
  <2> QED
    BY <2>1, <2>2 DEF Items
<1>3. ASSUME NEW k \in 1..Len(r), ~(k > Len(s))
      PROVE  k \in 1..Len(s) /\ r[k] = s[k] /\ r[k] \in Items(s)
  <2>1. k \in 1..Len(s)
    BY <1>1, <1>3
  <2> QED
    BY <1>1, <2>1 DEF Items
<1>4. ASSUME NEW m \in 1..Len(r), NEW n \in 1..Len(r), m < n PROVE Before(r[m], r[n])
  <2>1. CASE ~(n > Len(s))
    <3>1. ~(m > Len(s))
      BY <1>1, <1>4, <2>1
    <3> QED
      BY <1>3, <1>4, <2>1, <3>1 DEF InOrder
  <2>2. CASE n > Len(s) /\ ~(m > Len(s))
    BY <1>2, <1>3, <2>2
  <2>3. CASE n > Len(s) /\ m > Len(s)
    <3>1. /\ m - Len(s) \in 1..Len(t) /\ r[m] = t[m - Len(s)]
          /\ n - Len(s) \in 1..Len(t) /\ r[n] = t[n - Len(s)]
      BY <1>2, <2>3
    <3>2. m - Len(s) < n - Len(s)
      BY <1>1, <1>4
    <3> QED
      BY <3>1, <3>2 DEF InOrder
  <2> QED
    BY <2>1, <2>2, <2>3
<1> QED
  BY <1>4 DEF InOrder

\* No work, one item, and work before which any of its kind may be.
LEMMA OrderListed ==
  /\ InOrder(<<>>)
  /\ \A w : InOrder(<<w>>)
  /\ \A t : IsSequence(t) /\ (\A u, w \in Items(t) : Before(u, w)) => InOrder(t)
<1>1. InOrder(<<>>)
  <2>1. 1..Len(<<>>) = {}
    OBVIOUS
  <2> QED
    BY <2>1 DEF InOrder
<1>2. ASSUME NEW w PROVE InOrder(<<w>>)
  <2>1. 1..Len(<<w>>) = {1}
    OBVIOUS
  <2> QED
    BY <2>1 DEF InOrder
<1>3. ASSUME NEW t, IsSequence(t), \A u, w \in Items(t) : Before(u, w) PROVE InOrder(t)
  BY <1>3 DEF InOrder, Items
<1> QED
  BY <1>1, <1>2, <1>3

\* Work that is arranged keeps the stack in order.
LEMMA ArrangedKeeps ==
  ASSUME InSettle, OrderInv, IsSequence(todo), todo # <<>>,
         NEW t, IsSequence(t), Replaces(todo', todo, t), Arranged(t)
  PROVE  /\ InOrder(todo')
         /\ \A w \in Items(todo') :
              /\ w \in Items(t) \/ (w \in Items(todo) /\ Before(Head(todo), w))
              /\ IsModules(w)
              /\ w.op \in CodeOps => Commits(w.inst)'
<1>1. \A u \in Items(t) : \A w : Before(Head(todo), w) => Before(u, w)
  BY NarrowerBefore DEF Arranged
<1>2. InOrder(todo) /\ InOrder(t)
  BY DEF OrderInv, Arranged
<1>3. InOrder(todo')
  BY <1>1, <1>2, OrderReplaced
<1>4. \A w \in Items(todo') : w \in Items(t) \/ (w \in Items(todo) /\ Before(Head(todo), w))
  BY <1>1, <1>2, OrderReplaced
<1>5. \A w \in Items(todo) : w \in Items(todo') \/ w = Head(todo)
  BY ItemsReplaced
<1>6. Items(t) \subseteq Items(todo')
  BY ItemsReplaced
<1>7. Head(todo) \in Items(todo)
  BY IsSequenceHead DEF Items
<1>8. ASSUME NEW i, Commits(i), Head(todo).op \in CodeOps PROVE Commits(i)'
  <2>1. PICK w \in Items(todo) : w.op = "commit" /\ w.inst = i
    BY <1>8 DEF Commits
  <2>2. w \in Items(todo')
    BY <1>5, <1>8, <2>1, OpKinds
  <2> QED
    BY <2>1, <2>2 DEF Commits
<1>9. ASSUME NEW w \in Items(todo') PROVE IsModules(w) /\ (w.op \in CodeOps => Commits(w.inst)')
  <2>1. CASE w \in Items(t)
    <3>1. IsModules(w) /\ Narrows(w)
      BY <2>1 DEF Arranged
    <3>2. CASE Head(todo).op \in CodeOps
      <4>1. w.inst = Head(todo).inst
        BY <3>1, <3>2 DEF Narrows
      <4>2. Commits(w.inst)
        BY <1>7, <3>2, <4>1 DEF OrderInv
      <4> QED
        BY <1>8, <3>1, <3>2, <4>2
    <3>3. CASE Head(todo).op \notin CodeOps /\ w.op \in CodeOps
      <4>1. PICK v \in Items(t) : v.op = "commit" /\ v.inst = w.inst
        BY <2>1, <3>3 DEF Arranged
      <4>2. Commits(w.inst)'
        BY <1>6, <4>1 DEF Commits
      <4> QED
        BY <3>1, <4>2
    <3> QED
      BY <3>1, <3>2, <3>3
  <2>2. CASE w \in Items(todo) /\ Before(Head(todo), w)
    <3>1. IsModules(w) /\ (w.op \in CodeOps => Commits(w.inst))
      BY <2>2 DEF OrderInv
    <3>2. w.op \in CodeOps => Head(todo).op \in CodeOps
      BY <2>2, OpKinds DEF Before
    <3> QED
      BY <1>8, <3>1, <3>2
  <2> QED
    BY <1>4, <2>1, <2>2
<1> QED
  BY <1>3, <1>4, <1>9

\* No work is.
LEMMA PopArranged == Arranged(<<>>)
  BY OrderListed, ListedItems DEF Arranged

\* What an action moves to, when its new work writes no output.
LEMMA MovesTo ==
  ASSUME \E t : Moves(t), NEW t, IsSequence(t), todo' = t \o Tail(todo),
         \A w \in Items(t) : w.op # LeafOp
  PROVE  Moves(t)
<1>1. \A w \in Items(t) : Justifies(w)
  BY Zenon DEF Justifies, LeafOp
<1> QED
  BY <1>1 DEF Moves, Replaces

\* The leaves of assignments have bits of their own.
LEMMA LeavesApart ==
  ASSUME SingleWriters, NEW i \in Instance, NEW k \in 1..Len(Design[i].assigns),
         NEW n \in 1..Len(Design[i].assigns[k].target.leaves),
         NEW j \in 1..Len(Design[i].assigns),
         NEW m \in 1..Len(Design[i].assigns[j].target.leaves), k # j \/ n # m
  PROVE  ApartIn(i, AssignLeafOf(i, k, n), AssignLeafOf(i, j, m))
  BY DEF SingleWriters

AssignWork ==
  LeafItems(AssignLeafOp, Head1.inst, AssignOf(Head1).target, CombValue(Head1.inst, AssignOf(Head1).expr))

\* A continuous assignment gives way to the writes of its leaves.
LEMMA AssignArranges ==
  ASSUME SingleWriters, IInv, StagedInv, ContinuousAssign
  PROVE  /\ Head(todo).op = "assign" /\ Head(todo).inst \in Instance
         /\ Head(todo).at \in 1..Len(Design[Head(todo).inst].assigns)
         /\ Head(todo) \in Items(todo)
         /\ \A n \in 1..Len(AssignOf(Head(todo)).target.leaves) :
              AssignOf(Head(todo)).target.leaves[n].kind # "memory"
         /\ Items(AssignWork) =
              LeafWrites(AssignLeafOp, Head1.inst, AssignOf(Head1).target,
                         CombValue(Head1.inst, AssignOf(Head1).expr))
         /\ Moves(AssignWork) /\ Arranged(AssignWork)
<1> DEFINE i == Head1.inst
           k == Head1.at
           target == AssignOf(Head1).target
           v == CombValue(i, AssignOf(Head1).expr)
           N == Len(target.leaves)
           op == AssignLeafOp
           t == LeafItems(op, i, target, v)
<1>1. "assign" \in SettleOps /\ Doing("assign")
  BY Zenon DEF SettleOps, ContinuousAssign
<1>2. /\ Head(todo).op = "assign" /\ i \in Instance /\ k \in 1..Len(Design[i].assigns)
      /\ Head(todo) \in Items(todo)
  BY <1>1, DoingInPass DEF IsItem, Head1
<1>3. IsSequence(target.leaves) /\ N \in Nat
  BY <1>2, DesignAssumption, SequenceLength DEF AssignOf
<1>4. todo' = t \o Tail(todo) /\ ~HasMemoryLeaf(target)
  BY Zenon DEF ContinuousAssign, Push, AssignLeafOp
<1>5. \A n \in 1..N : target.leaves[n].kind # "memory"
  BY <1>4 DEF HasMemoryLeaf
<1>6. \A n \in 1..N : target.leaves[n] = AssignLeafOf(i, k, n)
  BY DEF AssignOf, AssignLeafOf, Head1
<1>7. Places(Head(todo)) = {target.leaves[n] : n \in 1..N}
  BY <1>2 DEF Places, LeavesOf, AssignOf, AssignLeafOf, Head1
<1>8. ASSUME NEW n \in 1..N, NEW m \in 1..N, m # n
      PROVE  ApartIn(i, target.leaves[m], target.leaves[n])
  <2>1. ApartIn(i, AssignLeafOf(i, k, m), AssignLeafOf(i, k, n))
    BY <1>2, <1>8, LeavesApart DEF AssignOf
  <2> QED
    BY <1>6, <2>1
<1>t. t = AssignWork
  BY DEF AssignWork
<1> HIDE DEF op, v, target, t
<1>9. IsSequence(t) /\ Items(t) = LeafWrites(op, i, target, v)
  BY <1>3, LeafItemsItems DEF t
<1>10. \A n \in 1..N : t[n] = LeafItem(op, i, target.leaves[n], LeafBits(target, target.leaves[n], v))
  BY DEF t, LeafItems
<1>11. Len(t) = N
  BY <1>3, FunctionIsSequence DEF t, LeafItems
<1>12. \A n \in 1..N : /\ t[n].op = op /\ t[n].inst = i /\ t[n].leaf = target.leaves[n]
                       /\ t[n].bits = LeafBits(target, target.leaves[n], v)
  BY <1>10, WaitedParts
<1>13. \A n \in 1..N : Places(t[n]) = {target.leaves[n]}
  BY <1>12, OpKinds DEF Places, op
<1>14. InOrder(t)
  <2> SUFFICES ASSUME NEW m \in 1..N, NEW n \in 1..N, m < n PROVE Before(t[m], t[n])
    BY <1>11 DEF InOrder
  <2>1. ApartIn(i, target.leaves[m], target.leaves[n])
    BY <1>3, <1>8
  <2> QED
    BY <1>12, <1>13, <2>1, OpKinds DEF Before, op
<1>15. ASSUME NEW u \in Items(t)
       PROVE  IsModules(u) /\ Narrows(u) /\ u.op # LeafOp
  <2>1. PICK n \in 1..N : u = t[n]
    BY <1>11 DEF Items
  <2>2. IsVector(u.bits, u.leaf.width)
    BY <1>12, <2>1 DEF IsVector, LeafBits, Slice
  <2>3. u.leaf \in LeavesOf(i, k) /\ u.leaf.kind # "memory"
    BY <1>5, <1>6, <1>12, <2>1 DEF LeavesOf, AssignOf, target, Head1
  <2>4. IsModules(u)
    BY <1>2, <1>12, <2>1, <2>2, <2>3, OpKinds DEF IsModules, op
  <2>5. Narrows(u)
    BY <1>2, <1>7, <1>12, <1>13, <2>1, OpKinds DEF Narrows, op, Head1
  <2> QED
    BY <1>12, <2>1, <2>4, <2>5, OpKinds DEF op
<1>16. Arranged(t)
  BY <1>2, <1>14, <1>15, OpKinds DEF Arranged
<1>17. \E x : Moves(x)
  BY CodeMoves
<1>18. Moves(t)
  BY <1>4, <1>9, <1>15, <1>17, MovesTo
<1> QED
  BY <1>2, <1>5, <1>9, <1>16, <1>18, <1>t DEF target, v, op, Head1

\* Work of blocks that takes the place of such work.
LEMMA CombArranged ==
  ASSUME Head(todo).op \in CodeOps \ AssignOps, \E x : Moves(x),
         NEW t, IsSequence(t), todo' = t \o Tail(todo),
         \A u \in Items(t) : u.op \in BlockOps /\ u.inst = Head(todo).inst /\ IsModules(u)
  PROVE  Moves(t) /\ Arranged(t)
<1>1. \A u \in Items(t) : u.op # LeafOp /\ u.op # "commit"
  BY OpKinds
<1>2. Moves(t)
  BY <1>1, MovesTo
<1>3. \A u, w \in Items(t) : Before(u, w)
  BY <1>1, OpKinds DEF Before
<1>4. InOrder(t)
  BY <1>3, OrderListed
<1>5. \A u \in Items(t) : Narrows(u)
  BY OpKinds DEF Narrows
<1> QED
  BY <1>2, <1>4, <1>5 DEF Arranged

\* The blocks of a module give way to their statements, these to others or to
\* the writes of their leaves.
LEMMA BlockArranges ==
  ASSUME IInv, StagedInv, CombBlock
  PROVE  /\ Head(todo).op \in CodeOps \ AssignOps
         /\ \E t : /\ Moves(t) /\ Arranged(t)
                   /\ \A u \in Items(t) : u.op \in BlockOps
<1> DEFINE i == Head1.inst
           b == Design[i].blocks[Head1.at]
           w == StmtItem("stmt", i, b.body)
           t == <<w>>
<1>1. "comb" \in SettleOps /\ Doing("comb")
  BY Zenon DEF SettleOps, CombBlock
<1>2. /\ Head(todo).op = "comb" /\ i \in Instance
      /\ Head1.at \in 1..Len(Design[i].blocks) /\ IsSequence(todo) /\ todo # <<>>
  BY <1>1, DoingInPass DEF IsItem, Head1
<1>3. Head(todo).op \in CodeOps \ AssignOps
  BY <1>2, OpKinds
<1>4. \E x : Moves(x)
  BY CodeMoves
<1>5. CASE b.kind = "comb"
  <2>1. todo' = t \o Tail(todo)
    BY <1>5 DEF CombBlock, Push
  <2>2. w.op = "stmt" /\ w.inst = i /\ w.stmt = b.body
    BY DEF StmtItem
  <2>3. WriteSets[b.body] \subseteq CombWrites(i)
    BY <1>2, <1>5 DEF CombWrites, BlocksOf
  <2> HIDE DEF w, b
  <2>4. IsSequence(t) /\ Items(t) = {w}
    BY ListedItems
  <2>5. w.op \in BlockOps /\ w.inst = Head(todo).inst /\ IsModules(w)
    BY <2>2, <2>3, OpKinds DEF IsModules, Head1
  <2> HIDE DEF t
  <2>6. Moves(t) /\ Arranged(t)
    BY <1>3, <1>4, <2>1, <2>4, <2>5, CombArranged
  <2> QED
    BY <1>3, <2>4, <2>5, <2>6
<1>6. CASE b.kind # "comb"
  <2>1. todo' = <<>> \o Tail(todo) /\ IsSequence(<<>>)
    BY <1>2, <1>6, PopReplaces DEF CombBlock, Pop
  <2>2. Items(<<>>) = {}
    BY ListedItems
  <2>3. Moves(<<>>) /\ Arranged(<<>>)
    BY <1>4, <2>1, <2>2, MovesTo, PopArranged
  <2> QED
    BY <1>3, <2>2, <2>3
<1> QED
  BY <1>5, <1>6

\* A statement gives way to those it chooses.
LEMMA ControlArranges ==
  ASSUME IInv, StagedInv, OrderInv, CombControl
  PROVE  /\ Head(todo).op \in CodeOps \ AssignOps
         /\ \E t : /\ Moves(t) /\ Arranged(t)
                   /\ \A u \in Items(t) : u.op \in BlockOps
<1> DEFINE i == Head(todo).inst
           s == Head(todo).stmt
<1>1. "stmt" \in SettleOps /\ Doing("stmt")
  BY Zenon DEF SettleOps, CombControl
<1>2. /\ Head(todo).op = "stmt" /\ i \in Instance /\ s \in Label
      /\ Head(todo) \in Items(todo) /\ InSettle
  BY <1>1, DoingInPass DEF IsItem
<1>3. PICK body \in Branches(Code[s]) :
        /\ Code[s].kind # "assign" /\ IsBody(body)
        /\ todo' = [k \in 1..Len(body) |-> StmtItem("stmt", i, body[k])] \o Tail(todo)
  BY CombControlChooses DEF Head1
<1> DEFINE t == [k \in 1..Len(body) |-> StmtItem("stmt", i, body[k])]
<1>4. Len(body) \in Nat
  BY <1>3, SequenceLength DEF IsBody
<1>5. /\ IsSequence(t) /\ Items(t) = {t[k] : k \in 1..Len(body)}
      /\ \A k \in 1..Len(body) : t[k].op = "stmt" /\ t[k].inst = i /\ t[k].stmt = body[k]
  <2>1. t = [k \in 1..Len(body) |-> t[k]]
    OBVIOUS
  <2>2. \A k \in 1..Len(body) : t[k].op = "stmt" /\ t[k].inst = i /\ t[k].stmt = body[k]
    BY DEF StmtItem
  <2> HIDE DEF t
  <2> QED
    BY <1>4, <2>1, <2>2, ListedItems
<1>6. todo' = t \o Tail(todo)
  BY <1>3
<1> HIDE DEF t
<1>7. WriteSets[s] \subseteq CombWrites(i)
  BY <1>2 DEF OrderInv, IsModules
<1>8. ASSUME NEW u \in Items(t)
      PROVE  u.op \in BlockOps /\ u.inst = Head(todo).inst /\ IsModules(u)
  <2>1. PICK k \in 1..Len(body) : u = t[k]
    BY <1>5
  <2>2. body[k] \in Substatements(s)
    BY <1>2, <1>3, BranchesAreSubstatements
  <2>3. WriteSets[body[k]] \subseteq WriteSets[s]
    BY <1>2, <2>2, WriteSetsGather DEF Gathered
  <2> QED
    BY <1>5, <1>7, <2>1, <2>3, OpKinds DEF IsModules
<1>9. Head(todo).op \in CodeOps \ AssignOps
  BY <1>2, OpKinds
<1>10. \E x : Moves(x)
  BY CodeMoves
<1>11. Moves(t) /\ Arranged(t)
  BY <1>5, <1>6, <1>8, <1>9, <1>10, CombArranged
<1> QED
  BY <1>8, <1>9, <1>11

\* A procedural assignment gives way to the writes of its leaves.
LEMMA WriteArranges ==
  ASSUME IInv, StagedInv, OrderInv, CombAssign
  PROVE  /\ Head(todo).op \in CodeOps \ AssignOps
         /\ \E t : /\ Moves(t) /\ Arranged(t)
                   /\ \A u \in Items(t) : u.op \in BlockOps
<1> DEFINE i == Head1.inst
           l == Head1.stmt
           target == Code[l].target
           op == CombLeafOp
           v == CombValue(i, Code[l].expr)
           t == LeafItems(op, i, target, v)
<1>1. "stmt" \in SettleOps /\ Doing("stmt")
  BY Zenon DEF SettleOps, CombAssign
<1>2. /\ Head(todo).op = "stmt" /\ i \in Instance /\ l \in Label
      /\ Head(todo) \in Items(todo) /\ InSettle
  BY <1>1, DoingInPass DEF IsItem, Head1
<1>3. Code[l].kind = "assign" /\ IsSequence(target.leaves)
  BY <1>2, CodeAssumption DEF CombAssign
<1>4. todo' = t \o Tail(todo) /\ ~HasMemoryLeaf(target)
  BY Zenon DEF CombAssign, Push, CombLeafOp
<1>5. \A n \in 1..Len(target.leaves) : target.leaves[n].kind # "memory"
  BY <1>4 DEF HasMemoryLeaf
<1>6. WriteSets[l] \subseteq CombWrites(i)
  BY <1>2 DEF OrderInv, IsModules, Head1
<1>7. \A n \in 1..Len(target.leaves) : target.leaves[n].name \in CombWrites(i)
  BY <1>2, <1>3, <1>5, <1>6, LeavesAreWritten
<1>8. Head(todo).op \in CodeOps \ AssignOps
  BY <1>2, OpKinds
<1>9. \E x : Moves(x)
  BY CodeMoves
<1> HIDE DEF op, v, target
<1>10. IsSequence(t) /\ Items(t) = LeafWrites(op, i, target, v)
  BY <1>3, LeafItemsItems
<1> HIDE DEF t
<1>11. ASSUME NEW u \in Items(t)
       PROVE  u.op \in BlockOps /\ u.inst = Head(todo).inst /\ IsModules(u)
  <2>1. PICK n \in 1..Len(target.leaves) :
          u = LeafItem(op, i, target.leaves[n], LeafBits(target, target.leaves[n], v))
    BY <1>10 DEF LeafWrites
  <2>2. u.op = op /\ u.inst = i /\ u.leaf = target.leaves[n]
    BY <2>1, WaitedParts
  <2> QED
    BY <1>7, <2>2, OpKinds DEF IsModules, op, Head1
<1>12. Moves(t) /\ Arranged(t)
  BY <1>4, <1>8, <1>9, <1>10, <1>11, CombArranged
<1> QED
  BY <1>8, <1>11, <1>12

\* A commit gives way to what is left of it.
LEMMA CommitArranges ==
  ASSUME IInv, StagedInv, OrderInv, CommitName \/ RefreshName, NEW n, CommitDone(n)
  PROVE  /\ Head(todo).op = "commit" /\ Head(todo) \in Items(todo)
         /\ \E u : /\ u.op = "commit" /\ u.inst = Head(todo).inst
                   /\ u.done = Head(todo).done \cup {n}
                   /\ Moves(<<u>>) /\ Arranged(<<u>>)
<1> DEFINE h == Head(todo)
           u == [h EXCEPT !.done = @ \cup {n}]
           t == <<u>>
<1>1. "commit" \in SettleOps /\ Doing("commit")
  BY Zenon DEF SettleOps, CommitName, RefreshName
<1>2. h.op = "commit" /\ h \in Items(todo) /\ InSettle
  BY <1>1, DoingInPass
<1>3. h = [op |-> "commit", inst |-> h.inst, done |-> h.done]
  BY <1>2 DEF OrderInv, IsModules
<1>4. todo' = t \o Tail(todo)
  BY DEF CommitDone, Push, Head1
<1> HIDE DEF h
<1>5. u = [op |-> "commit", inst |-> h.inst, done |-> h.done \cup {n}]
  BY <1>3
<1>6. u.op = "commit" /\ u.inst = h.inst /\ u.done = h.done \cup {n}
  BY <1>5
<1> HIDE DEF u
<1>7. IsSequence(t) /\ Items(t) = {u} /\ InOrder(t)
  BY ListedItems, OrderListed
<1>8. IsModules(u)
  BY <1>5, <1>6, OpKinds DEF IsModules
<1>9. Narrows(u)
  BY <1>2, OpKinds DEF Narrows, h
<1> HIDE DEF t
<1>10. Arranged(t)
  BY <1>6, <1>7, <1>8, <1>9, OpKinds DEF Arranged
<1>11. Moves(t)
  BY <1>4, <1>6, <1>7, CommitMoves, MovesTo, OpKinds
<1> QED
  BY <1>2, <1>6, <1>10, <1>11 DEF t, h

\* Work outside the modules' code.
LEMMA OutsideArranged ==
  ASSUME Head(todo).op \notin ModuleOps, NEW t, IsSequence(t),
         \A u \in Items(t) : u.op \notin ModuleOps
  PROVE  Arranged(t)
<1>1. \A u \in Items(t) : IsModules(u) /\ Narrows(u) /\ u.op \notin CodeOps
  BY OpKinds DEF IsModules, Narrows
<1>2. \A u, w \in Items(t) : Before(u, w)
  BY OpKinds DEF Before
<1>3. InOrder(t)
  BY <1>2, OrderListed
<1> QED
  BY <1>1, <1>3 DEF Arranged

\* A module that is entered gives way to its assignments, its blocks, its commit
\* and its children, in this order.
LEMMA ModuleArranged ==
  ASSUME SingleWriters, NEW i \in Instance, Head(todo).op = "module"
  PROVE  /\ Arranged(ModuleWork(i))
         /\ \A k \in 1..Len(Design[i].assigns) : ItemAt("assign", i, k) \in Items(ModuleWork(i))
         /\ \A k \in 1..Len(Design[i].blocks) : ItemAt("comb", i, k) \in Items(ModuleWork(i))
         /\ \A u \in Items(ModuleWork(i)) :
              /\ u.op \in ModuleOps => u.inst = i
              /\ u.op = "commit" => u.done = {}
<1> DEFINE A == Len(Design[i].assigns)
           ws == [k \in 1..A |-> ItemAt("assign", i, k)]
           bs == [k \in 1..Len(Design[i].blocks) |-> ItemAt("comb", i, k)]
           co == [op |-> "commit", inst |-> i, done |-> {}]
           cs == [k \in 1..Len(Design[i].children) |-> Item("child", Design[i].children[k])]
           cm == <<co>>
           s1 == ws \o bs
           s2 == s1 \o cm
           s3 == s2 \o cs
<1>1. /\ A \in Nat
      /\ Len(Design[i].blocks) \in Nat
      /\ Len(Design[i].children) \in Nat
  BY DesignAssumption, SequenceLength
<1>2. \A k \in 1..A : /\ ws[k] = ItemAt("assign", i, k)
                      /\ ws[k].op = "assign" /\ ws[k].inst = i /\ ws[k].at = k
  BY ItemParts
<1>3. \A k \in 1..Len(Design[i].blocks) : bs[k].op = "comb" /\ bs[k].inst = i /\ bs[k].at = k
  BY ItemParts
<1>c. \A k \in 1..Len(Design[i].blocks) : bs[k] = ItemAt("comb", i, k)
  OBVIOUS
<1>4. co.op = "commit" /\ co.inst = i /\ co.done = {} /\ IsModules(co)
  BY OpKinds DEF IsModules
<1>5. \A k \in 1..Len(Design[i].children) : cs[k].op = "child"
  BY ItemParts
<1>6. /\ ws = [k \in 1..A |-> ws[k]]
      /\ bs = [k \in 1..Len(Design[i].blocks) |-> bs[k]]
      /\ cs = [k \in 1..Len(Design[i].children) |-> cs[k]]
  OBVIOUS
<1>7. ModuleWork(i) = s3
  BY DEF ModuleWork
<1>8. Joins(s1, ws, bs) /\ Joins(s2, s1, cm) /\ Joins(s3, s2, cs)
  BY DEF Joins
<1>9. IsSequence(cm) /\ Items(cm) = {co} /\ InOrder(cm)
  BY ListedItems, OrderListed
<1> HIDE DEF ws, bs, co, cs, cm, s1, s2, s3
<1>10. /\ IsSequence(ws) /\ Items(ws) = {ws[k] : k \in 1..A}
       /\ IsSequence(bs) /\ Items(bs) = {bs[k] : k \in 1..Len(Design[i].blocks)}
       /\ IsSequence(cs) /\ Items(cs) = {cs[k] : k \in 1..Len(Design[i].children)}
  BY <1>1, <1>6, ListedItems
<1>a. \A u \in Items(ws) : u.op = "assign" /\ u.inst = i
  BY <1>2, <1>10
<1>11. Len(ws) = A
  BY <1>1, <1>6, FunctionIsSequence
<1>12. InOrder(ws)
  <2> SUFFICES ASSUME NEW m \in 1..A, NEW n \in 1..A, m < n PROVE Before(ws[m], ws[n])
    BY <1>11 DEF InOrder
  <2>1. Places(ws[m]) = LeavesOf(i, m) /\ Places(ws[n]) = LeavesOf(i, n)
    BY <1>2 DEF Places
  <2>2. m # n
    BY <1>1
  <2>3. \A x \in LeavesOf(i, m) : \A y \in LeavesOf(i, n) : ApartIn(i, x, y)
    BY <2>2, LeavesApart DEF LeavesOf
  <2>4. /\ ws[m].op = "assign" /\ ws[m].inst = i
        /\ ws[n].op = "assign" /\ ws[n].inst = i
    BY <1>2
  <2> HIDE DEF ws
  <2>5. \A x \in Places(ws[m]) : \A y \in Places(ws[n]) : ApartIn(ws[n].inst, x, y)
    BY <2>1, <2>3, <2>4
  <2>6. ws[n].op # "commit" /\ ws[m].op \in CodeOps /\ ws[m].op \in AssignOps
    BY <2>4, OpKinds
  <2> QED
    BY <2>4, <2>5, <2>6 DEF Before
<1>b. Len(bs) = Len(Design[i].blocks)
  BY <1>1, <1>6, FunctionIsSequence
<1>13. InOrder(bs)
  <2> SUFFICES ASSUME NEW m \in 1..Len(Design[i].blocks), NEW n \in 1..Len(Design[i].blocks), m < n
               PROVE  Before(bs[m], bs[n])
    BY <1>b DEF InOrder
  <2>1. m # n
    BY <1>1
  <2> QED
    BY <1>3, <2>1, OpKinds DEF Before
<1>14. InOrder(cs)
  <2>1. \A u, w \in Items(cs) : Before(u, w)
    BY <1>5, <1>10, OpKinds DEF Before
  <2> QED
    BY <1>10, <2>1, OrderListed
<1>15. /\ IsSequence(s1) /\ Items(s1) = Items(ws) \cup Items(bs) /\ InOrder(s1)
       /\ \A u \in Items(s1) : u.op \in CodeOps /\ u.inst = i
  <2>1. \A u \in Items(ws) : \A w \in Items(bs) : Before(u, w)
    BY <1>a, <1>3, <1>10, OpKinds DEF Before
  <2>2. IsSequence(s1) /\ Items(s1) = Items(ws) \cup Items(bs)
    BY <1>8, <1>10, JoinedItems
  <2>3. InOrder(s1)
    BY <1>8, <1>10, <1>12, <1>13, <2>1, OrderJoined
  <2> QED
    BY <1>a, <1>3, <1>10, <2>2, <2>3, OpKinds
<1>16. IsSequence(s2) /\ Items(s2) = Items(s1) \cup {co} /\ InOrder(s2)
  <2>1. \A u \in Items(s1) : \A w \in Items(cm) : Before(u, w)
    BY <1>4, <1>9, <1>15, OpKinds DEF Before
  <2>2. IsSequence(s2) /\ Items(s2) = Items(s1) \cup Items(cm)
    BY <1>8, <1>9, <1>15, JoinedItems
  <2>3. InOrder(s2)
    BY <1>8, <1>9, <1>15, <2>1, OrderJoined
  <2> QED
    BY <1>9, <2>2, <2>3
<1>17. IsSequence(s3) /\ Items(s3) = Items(s2) \cup Items(cs) /\ InOrder(s3)
  <2>1. \A u \in Items(s2) : \A w \in Items(cs) : Before(u, w)
    BY <1>5, <1>10, OpKinds DEF Before
  <2>2. IsSequence(s3) /\ Items(s3) = Items(s2) \cup Items(cs)
    BY <1>8, <1>10, <1>16, JoinedItems
  <2>3. InOrder(s3)
    BY <1>8, <1>10, <1>14, <1>16, <2>1, OrderJoined
  <2> QED
    BY <2>2, <2>3
<1>18. ASSUME NEW u \in Items(s3)
       PROVE  /\ IsModules(u) /\ Narrows(u)
              /\ u.op \in ModuleOps => u.inst = i
              /\ u.op = "commit" => u.done = {}
  <2>1. u \in Items(ws) \/ u \in Items(bs) \/ u = co \/ u \in Items(cs)
    BY <1>15, <1>16, <1>17
  <2>2. Narrows(u)
    BY OpKinds DEF Narrows
  <2>3. CASE u \in Items(ws)
    BY <1>a, <2>2, <2>3, OpKinds DEF IsModules
  <2>4. CASE u \in Items(bs)
    BY <1>3, <1>10, <2>2, <2>4, OpKinds DEF IsModules
  <2>5. CASE u \in Items(cs)
    BY <1>5, <1>10, <2>2, <2>5, OpKinds DEF IsModules
  <2> QED
    BY <1>4, <2>1, <2>2, <2>3, <2>4, <2>5
<1>19. co \in Items(s3)
  BY <1>16, <1>17
<1>20. \A k \in 1..A : ItemAt("assign", i, k) \in Items(s3)
  BY <1>2, <1>10, <1>15, <1>16, <1>17
<1>d. \A k \in 1..Len(Design[i].blocks) : ItemAt("comb", i, k) \in Items(s3)
  BY <1>c, <1>10, <1>15, <1>16, <1>17
<1>21. Arranged(s3)
  BY <1>4, <1>17, <1>18, <1>19, OpKinds DEF Arranged
<1> QED
  BY <1>7, <1>18, <1>20, <1>21, <1>d

\* Actions outside the modules' code.
LEMMA OutsideArranges ==
  ASSUME IInv, StagedInv
  PROVE  /\ EnterChild => /\ Head1.inst \in Instance /\ Head(todo).op = "child"
                          /\ Moves(ChildWork(Head1.inst)) /\ Arranged(ChildWork(Head1.inst))
         /\ SinkOutput => \E t : /\ Moves(t) /\ Arranged(t) /\ Head(todo).op = "sink"
                                 /\ \A u \in Items(t) : u.op = LeafOp
<1>1. ASSUME EnterChild
      PROVE  /\ Head1.inst \in Instance /\ Head(todo).op = "child"
             /\ Moves(ChildWork(Head1.inst)) /\ Arranged(ChildWork(Head1.inst))
  <2>1. Head(todo).op = "child"
    BY <1>1 DEF EnterChild, Doing, Head1
  <2>2. Head1.inst \in Instance /\ Moves(ChildWork(Head1.inst))
    BY <1>1, HierarchyMoves
  <2>3. PICK c : c = Head1.inst
    OBVIOUS
  <2>4. IsSequence(ChildWork(c)) /\ \A u \in Items(ChildWork(c)) : u.op \in {"drive", "module", "sink"}
    BY <2>2, <2>3, ChildItems, ItemParts
  <2>5. \A u \in Items(ChildWork(c)) : u.op \notin ModuleOps
    BY <2>4, OpKinds
  <2>6. Arranged(ChildWork(c))
    BY <2>1, <2>4, <2>5, OutsideArranged, OpKinds
  <2> QED
    BY <2>1, <2>2, <2>3, <2>6
<1>2. ASSUME SinkOutput
      PROVE  \E t : /\ Moves(t) /\ Arranged(t) /\ Head(todo).op = "sink"
                    /\ \A u \in Items(t) : u.op = LeafOp
  <2>1. Head(todo).op = "sink"
    BY <1>2 DEF SinkOutput, Doing, Head1
  <2> DEFINE c == Head1.inst
             s == Design[c].sinks[Head1.at]
             v == Unsigned(ReadBinding(Binding(c, s.port), frame))
             p == Parent(c)
  <2>2. IsSequence(s.target.leaves) /\ Moves(LeafItems(LeafOp, p, s.target, v))
    BY <1>2, SinkOutputMoves, Zenon DEF LeafOp
  <2>3. PICK target : target = s.target
    OBVIOUS
  <2>4. PICK x : x = v
    OBVIOUS
  <2>5. PICK q : q = p
    OBVIOUS
  <2> HIDE DEF c, s, v, p
  <2>6. PICK t : t = LeafItems(LeafOp, q, target, x)
    OBVIOUS
  <2>7. IsSequence(t) /\ Items(t) = LeafWrites(LeafOp, q, target, x)
    BY <2>2, <2>3, <2>6, LeafItemsItems
  <2>8. \A u \in Items(t) : u.op = LeafOp
    BY <2>7, WaitedParts DEF LeafWrites
  <2>9. Arranged(t)
    BY <2>1, <2>7, <2>8, OutsideArranged, OpKinds
  <2> QED
    BY <2>1, <2>2, <2>3, <2>4, <2>5, <2>6, <2>8, <2>9
<1> QED
  BY <1>1, <1>2

\* A module that is entered.
LEMMA EnterArranges ==
  ASSUME SingleWriters, IInv, StagedInv, EnterModule
  PROVE  /\ Head1.inst \in Instance /\ Head(todo).op = "module"
         /\ Moves(ModuleWork(Head1.inst)) /\ Arranged(ModuleWork(Head1.inst))
<1>1. Head(todo).op = "module"
  BY DEF EnterModule, Doing, Head1
<1>2. Head1.inst \in Instance /\ Moves(ModuleWork(Head1.inst))
  BY HierarchyMoves
<1>3. PICK i : i = Head1.inst
  OBVIOUS
<1>4. Arranged(ModuleWork(i))
  BY <1>1, <1>2, <1>3, ModuleArranged
<1> QED
  BY <1>1, <1>2, <1>3, <1>4

\* Every action of a pass puts work in its place.
LEMMA SettleArranges ==
  ASSUME SingleWriters, IInv, StagedInv, OrderInv, SettleAction
  PROVE  \E t : Moves(t) /\ Arranged(t)
<1>1. CASE ApplyInput \/ AssignLeaf \/ CombLeaf \/ EndCommit \/ DriveInput
  BY <1>1, PoppingMoves, PopArranged
<1>2. CASE SinkLeaf
  BY <1>2, SinkLeafMoves, PopArranged
<1>3. CASE EnterModule
  BY <1>3, EnterArranges
<1>4. CASE EnterChild \/ SinkOutput
  BY <1>4, OutsideArranges
<1>5. CASE ContinuousAssign
  BY <1>5, AssignArranges
<1>6. CASE CombBlock
  BY <1>6, BlockArranges
<1>7. CASE CombControl
  BY <1>7, ControlArranges
<1>8. CASE CombAssign
  BY <1>8, WriteArranges
<1>9. CASE CommitName \/ RefreshName
  <2>1. PICK n : CommitDone(n)
    BY <1>9 DEF CommitName, RefreshName
  <2> QED
    BY <1>9, <2>1, CommitArranges
<1> QED
  BY <1>1, <1>2, <1>3, <1>4, <1>5, <1>6, <1>7, <1>8, <1>9 DEF SettleAction

\* So the work of a pass is in order.
LEMMA OrderPreserves ==
  ASSUME SingleWriters, IInv, StagedInv, OrderInv, [AnyNext]_vars
  PROVE  OrderInv'
<1> SUFFICES ASSUME InSettle'
             PROVE  /\ InOrder(todo')
                    /\ \A w \in Items(todo') : IsModules(w) /\ (w.op \in CodeOps => Commits(w.inst)')
  BY DEF OrderInv, Commits, IsModules
<1>1. CASE SettleAction
  <2>1. InSettle /\ IsSequence(todo) /\ todo # <<>>
    BY <1>1, SettleHasWork
  <2>2. PICK t : Moves(t) /\ Arranged(t)
    BY <1>1, SettleArranges
  <2> QED
    BY <2>1, <2>2, ArrangedKeeps DEF Moves
<1>2. ASSUME NEW f, NEW n, StartPass(f, n)
      PROVE  /\ InOrder(todo')
             /\ \A w \in Items(todo') : IsModules(w) /\ (w.op \in CodeOps => Commits(w.inst)')
  <2>1. todo' = PassWork
    BY <1>2 DEF StartPass
  <2>2. \A w \in Items(PassWork) : w.op \in {"input", "module"}
    BY PassItems, ItemParts
  <2>3. \A w \in Items(PassWork) : w.op \notin ModuleOps
    BY <2>2, OpKinds
  <2>4. \A u, w \in Items(PassWork) : Before(u, w)
    BY <2>3, OpKinds DEF Before
  <2>5. InOrder(PassWork)
    BY <2>4, PassItems, OrderListed
  <2>6. \A w \in Items(PassWork) : IsModules(w) /\ w.op \notin CodeOps
    BY <2>3, OpKinds DEF IsModules
  <2> QED
    BY <2>1, <2>5, <2>6
<1>3. CASE UNCHANGED vars /\ InSettle
  <2>1. todo' = todo
    BY <1>3 DEF vars, settling
  <2> QED
    BY <1>3, <2>1 DEF OrderInv, Commits
<1> QED
  BY <1>1, <1>2, <1>3, IntoPass

-----------------------------------------------------------------------------
(* What the overlay of an instance has, while a pass reports no change.    *)

\* The variables an instance's continuous assignments write.
Vars(i) ==
  {leaf.name : leaf \in {l \in UNION {LeavesOf(i, k) : k \in 1..Len(Design[i].assigns)} :
                           l.kind # "memory" /\ ~NetSignal(i, l.name)}}

AssignsWait   == \E w \in Items(todo) : w.op \in AssignOps
InFrame(i, n) == overlay[n] = ReadBinding(Binding(i, n), frame)

\* Its other signals it has as the frame does, while there is an assignment to
\* execute.
OverlayOK(i) ==
  \A n \in DOMAIN overlay :
    IF n \in Vars(i) THEN IsVector(overlay[n], Binding(i, n).view)
    ELSE AssignsWait => n \in Names(i) /\ InFrame(i, n)

\* And the bits of variables that are still to be assigned.
Kept(i, leaf) ==
  leaf.name \in DOMAIN overlay /\ leaf.kind # "memory" /\ ~NetSignal(i, leaf.name) =>
    Slice(overlay[leaf.name], leaf.low, leaf.width)
      = Slice(ReadBinding(Binding(i, leaf.name), frame), leaf.low, leaf.width)

Untouched(w) == w.op \in AssignOps => \A leaf \in Places(w) : Kept(w.inst, leaf)

\* What is committed is in the frame.
Committed(w) ==
  w.op = "commit" => \A n \in w.done \cap Vars(w.inst) \cap DOMAIN overlay : InFrame(w.inst, n)

OverlayInv ==
  /\ \A i \in Instance : Commits(i) => OverlayOK(i)
  /\ \A w \in Items(todo) : Untouched(w) /\ Committed(w)

\* The commit will change the frame.
Differs(i) == Commits(i) /\ \E n \in Vars(i) \cap DOMAIN overlay : ~InFrame(i, n)

\* An assignment is waited for, or has delivered.
AssignWrite(i, k, n) == LeafItem(AssignLeafOp, i, AssignLeafOf(i, k, n), AssignBits(i, k, n, frame))

AssignOK(i, k, n) ==
  \/ Waits(ItemAt("assign", i, k))
  \/ /\ AssignLeafOf(i, k, n).kind # "memory"
     /\ Waits(AssignWrite(i, k, n)) \/ Delivered(AssignDrive(i, k, n, frame))

AllAssigned(i) ==
  \A k \in 1..Len(Design[i].assigns) :
    \A n \in 1..Len(Design[i].assigns[k].target.leaves) : AssignOK(i, k, n)

\* An instance is to be entered, or will change the frame, or its assignments
\* are waited for or have delivered.
ModuleOK(i) == Waits(Item("module", i)) \/ Differs(i) \/ AllAssigned(i)

\* B are the instances a pass has not come to.
Ahead(B) ==
  /\ \A c \in B : EnteredLater(c, B)
  /\ \A i \in Instance \ B : ModuleOK(i)

AssignInv ==
  InSettle /\ ~changed =>
    OverlayInv /\ \E B \in SUBSET (Instance \ {Top}) : Ahead(B)

\* The leaves of assignments.
LEMMA AssignLeaves ==
  ASSUME FittingTargets, NEW i \in Instance, NEW k \in 1..Len(Design[i].assigns), NEW leaf \in LeavesOf(i, k)
  PROVE  /\ leaf.kind # "memory" =>
              /\ leaf.name \in Names(i) /\ FitsObject(Binding(i, leaf.name))
              /\ IsPart(leaf, Binding(i, leaf.name).view)
              /\ NetSignal(i, leaf.name) => IsNet(Binding(i, leaf.name).obj)
         /\ leaf.kind # "memory" /\ ~NetSignal(i, leaf.name) => leaf.name \in Vars(i)
         /\ leaf.kind # "memory" /\ NetSignal(i, leaf.name) => leaf.name \notin Vars(i)
<1>1. PICK n \in 1..Len(Design[i].assigns[k].target.leaves) : leaf = AssignLeafOf(i, k, n)
  BY DEF LeavesOf
<1>2. LeafFits(i, leaf)
  BY <1>1 DEF FittingTargets
<1>3. leaf.kind # "memory" => FitsObject(Binding(i, leaf.name))
  BY <1>2, DrivesFit DEF LeafFits
<1>4. leaf.kind # "memory" /\ ~NetSignal(i, leaf.name) => leaf.name \in Vars(i)
  BY DEF Vars
<1>5. leaf.kind # "memory" /\ NetSignal(i, leaf.name) => leaf.name \notin Vars(i)
  BY DEF Vars
<1> QED
  BY <1>2, <1>3, <1>4, <1>5 DEF LeafFits, IsPart

\* The variables they write are signals.
LEMMA VarsNamed ==
  ASSUME FittingTargets, NEW i \in Instance, NEW n \in Vars(i)
  PROVE  n \in Names(i) /\ FitsObject(Binding(i, n))
<1>1. PICK k \in 1..Len(Design[i].assigns) : \E leaf \in LeavesOf(i, k) :
        leaf.kind # "memory" /\ leaf.name = n
  BY DEF Vars
<1> QED
  BY <1>1, AssignLeaves

\* No other code writes the variables they write.
LEMMA VarsApart ==
  ASSUME SingleWriters, NEW i \in Instance, NEW n \in Vars(i)
  PROVE  /\ n \notin Design[i].childDriven /\ n \notin CombWrites(i)
         /\ IsNet(Binding(i, n).obj) => n \in DOMAIN Design[i].specials /\ Special(i, n) = "replace"
<1>1. PICK k \in 1..Len(Design[i].assigns) :
        \E m \in 1..Len(Design[i].assigns[k].target.leaves) :
          LET leaf == AssignLeafOf(i, k, m)
          IN  leaf.kind # "memory" /\ ~NetSignal(i, leaf.name) /\ n = leaf.name
  BY DEF Vars, LeavesOf
<1>2. PICK m \in 1..Len(Design[i].assigns[k].target.leaves) :
        LET leaf == AssignLeafOf(i, k, m)
        IN  leaf.kind # "memory" /\ ~NetSignal(i, leaf.name) /\ n = leaf.name
  BY <1>1
<1> QED
  BY <1>2 DEF SingleWriters

\* The frame's values are vectors.
LEMMA FrameVectors ==
  ASSUME NEW b, FitsObject(b), NEW f
  PROVE  IsVector(ReadBinding(b, f), b.view) /\ Len(ReadBinding(b, f)) = b.view /\ b.view \in Nat
<1>1. b.view \in Nat
  BY HierarchyAssumption DEF FitsObject
<1> QED
  BY <1>1, CoercedBits DEF ReadBinding

\* The bits of a leaf's write: its own, and the old ones elsewhere.
LEMMA MergedKeeps ==
  ASSUME NEW w \in Nat, NEW old, IsVector(old, w), NEW leaf, IsPart(leaf, w),
         NEW bits, IsVector(bits, leaf.width),
         NEW k \in 1..w, ~(leaf.low < k /\ k <= leaf.low + leaf.width)
  PROVE  Merged(leaf, old, bits)[k] = old[k]
<1>1. Len(old) = w
  BY VectorBits
<1>2. leaf.kind # "whole"
  BY DEF IsPart
<1>3. Merged(leaf, old, bits) = ReplaceSlice(old, leaf.low, leaf.width, bits)
  BY <1>2 DEF Merged
<1>4. k \notin (leaf.low + 1)..(leaf.low + leaf.width)
  BY DEF IsPart
<1> QED
  BY <1>1, <1>3, <1>4 DEF ReplaceSlice

\* So parts that lie apart keep theirs.
LEMMA MergedApart ==
  ASSUME NEW w \in Nat, NEW old, IsVector(old, w), NEW leaf, IsPart(leaf, w),
         NEW bits, IsVector(bits, leaf.width), NEW m, IsPart(m, w),
         leaf.low + leaf.width <= m.low \/ m.low + m.width <= leaf.low
  PROVE  Slice(Merged(leaf, old, bits), m.low, m.width) = Slice(old, m.low, m.width)
<1> DEFINE new == Merged(leaf, old, bits)
<1>1. /\ m.low \in Nat /\ m.width \in Nat /\ m.low + m.width <= w
      /\ leaf.low \in Nat /\ leaf.width \in Nat
  BY DEF IsPart
<1>2. IsVector(new, w)
  <2>1. Len(old) = w
    BY VectorBits
  <2> QED
    BY <2>1, MergedBits
<1>3. ASSUME NEW k \in 1..m.width PROVE BitOf(new, m.low + k) = BitOf(old, m.low + k)
  <2>1. m.low + k \in 1..w
    BY <1>1
  <2>2. ~(leaf.low < m.low + k /\ m.low + k <= leaf.low + leaf.width)
    BY <1>1
  <2>3. new[m.low + k] = old[m.low + k]
    BY <2>1, <2>2, MergedKeeps
  <2> HIDE DEF new
  <2> QED
    BY <1>2, <2>1, <2>3, VectorBits
<1> HIDE DEF new
<1> QED
  BY <1>3 DEF Slice, new

\* A vector whose part is that of another has a different bit outside it.
LEMMA DiffersOutside ==
  ASSUME NEW w \in Nat, NEW u, IsVector(u, w), NEW v, IsVector(v, w), u # v,
         NEW leaf, IsPart(leaf, w), Slice(u, leaf.low, leaf.width) = Slice(v, leaf.low, leaf.width)
  PROVE  \E k \in 1..w : ~(leaf.low < k /\ k <= leaf.low + leaf.width) /\ u[k] # v[k]
<1>1. PICK k \in 1..w : u[k] # v[k]
  BY SameBits
<1>2. leaf.low \in Nat /\ leaf.width \in Nat
  BY DEF IsPart
<1>3. ASSUME leaf.low < k /\ k <= leaf.low + leaf.width PROVE FALSE
  <2>1. k - leaf.low \in 1..leaf.width /\ leaf.low + (k - leaf.low) = k
    BY <1>2, <1>3
  <2>2. /\ Slice(u, leaf.low, leaf.width)[k - leaf.low] = BitOf(u, k)
        /\ Slice(v, leaf.low, leaf.width)[k - leaf.low] = BitOf(v, k)
    BY <1>2, <2>1, SlicedBits
  <2>3. BitOf(u, k) = u[k] /\ BitOf(v, k) = v[k]
    BY VectorBits
  <2> QED
    BY <1>1, <2>2, <2>3
<1> QED
  BY <1>1, <1>3

-----------------------------------------------------------------------------
(* What an action of a pass that reports no change leaves as it was.       *)

\* A move that leaves the overlay.
Steady(t) ==
  /\ InSettle /\ QuietMove(t) /\ overlay' = overlay
  /\ \A u \in Items(t) :
       /\ u.op \in AssignOps =>
            /\ Head(todo).op \in AssignOps /\ u.inst = Head(todo).inst
            /\ Places(u) \subseteq Places(Head(todo))
       /\ u.op = "commit" => Head(todo).op = "commit" /\ u.inst = Head(todo).inst /\ Committed(u)

\* What follows the head is before nothing it must come after.
LEMMA HeadFirst ==
  ASSUME InSettle, OrderInv, IsSequence(todo), todo # <<>>, NEW w \in Items(todo), w # Head(todo)
  PROVE  Before(Head(todo), w)
<1>1. PICK m \in 1..Len(todo) : w = todo[m]
  BY DEF Items
<1>2. Head(todo) = todo[1] /\ 1 \in 1..Len(todo)
  BY IsSequenceHead
<1>3. m # 1 /\ InOrder(todo)
  BY <1>1, <1>2 DEF OrderInv
<1>4. 1 < m
  BY <1>3
<1> QED
  BY <1>1, <1>2, <1>3, <1>4 DEF InOrder

\* The head is work.
LEMMA HeadWaits ==
  ASSUME IsSequence(todo), todo # <<>> PROVE Head(todo) \in Items(todo)
  BY IsSequenceHead DEF Items

\* The items after a move are those before it, and its new ones.
LEMMA ItemsAfter ==
  ASSUME NEW t, QuietMove(t)
  PROVE  /\ Items(todo') \subseteq Items(t) \cup Items(todo)
         /\ \A w \in Items(todo) : w \in Items(todo') \/ w = Head(todo)
         /\ Items(t) \subseteq Items(todo')
         /\ Head(todo) \in Items(todo)
  BY ItemsReplaced, HeadWaits DEF QuietMove, Moves

\* An overlay that stays is as good as it was.
LEMMA OverlayKept ==
  ASSUME NEW t, Steady(t), OverlayInv PROVE OverlayInv'
<1>1. frame' = frame /\ overlay' = overlay /\ QuietMove(t)
  BY DEF Steady, QuietMove
<1>2. Items(todo') \subseteq Items(t) \cup Items(todo) /\ Head(todo) \in Items(todo)
  BY <1>1, ItemsAfter
<1>3. /\ \A i, n : InFrame(i, n)' = InFrame(i, n)
      /\ \A i, leaf : Kept(i, leaf)' = Kept(i, leaf)
  BY <1>1 DEF InFrame, Kept
<1>4. ASSUME NEW i \in Instance, Commits(i)' PROVE OverlayOK(i)'
  <2>1. PICK w \in Items(todo') : w.op = "commit" /\ w.inst = i
    BY <1>4 DEF Commits
  <2>2. Commits(i)
    BY <1>2, <2>1 DEF Commits, Steady
  <2>3. OverlayOK(i)
    BY <2>2 DEF OverlayInv
  <2>4. AssignsWait' => AssignsWait
    BY <1>2 DEF AssignsWait, Steady
  <2> QED
    BY <1>1, <1>3, <2>3, <2>4 DEF OverlayOK
<1>5. ASSUME NEW w \in Items(todo') PROVE Untouched(w)' /\ Committed(w)'
  <2>1. (Untouched(w)' <=> Untouched(w)) /\ (Committed(w)' <=> Committed(w))
    BY <1>1, <1>3 DEF Untouched, Committed
  <2>2. CASE w \in Items(todo)
    BY <2>1, <2>2 DEF OverlayInv
  <2>3. CASE w \in Items(t)
    <3>1. Untouched(Head(todo))
      BY <1>2 DEF OverlayInv
    <3>2. Untouched(w)
      BY <2>3, <3>1 DEF Untouched, Steady
    <3>3. Committed(w)
      BY <2>3 DEF Committed, Steady
    <3> QED
      BY <2>1, <3>2, <3>3
  <2> QED
    BY <1>2, <2>2, <2>3
<1> QED
  BY <1>4, <1>5 DEF OverlayInv

\* A commit to come is still to come.
LEMMA CommitsOn ==
  ASSUME NEW t, QuietMove(t), NEW i, Commits(i),
         Head(todo).op = "commit" => \E u \in Items(t) : u.op = "commit" /\ u.inst = Head(todo).inst
  PROVE  Commits(i)'
<1>1. PICK w \in Items(todo) : w.op = "commit" /\ w.inst = i
  BY DEF Commits
<1>2. CASE w = Head(todo)
  BY <1>1, <1>2, ItemsAfter DEF Commits
<1>3. CASE w # Head(todo)
  BY <1>1, <1>3, ItemsAfter DEF Commits
<1> QED
  BY <1>2, <1>3

\* And will still change the frame.
LEMMA DiffersKept ==
  ASSUME NEW t, Steady(t), NEW i, Differs(i),
         Head(todo).op = "commit" => \E u \in Items(t) : u.op = "commit" /\ u.inst = Head(todo).inst
  PROVE  Differs(i)'
<1>1. frame' = frame /\ overlay' = overlay /\ QuietMove(t)
  BY DEF Steady, QuietMove
<1>2. Commits(i)'
  BY <1>1, CommitsOn DEF Differs
<1> QED
  BY <1>1, <1>2 DEF Differs, InFrame

\* What assignments drive does not change.
LEMMA AssignsKept ==
  ASSUME NEW t, QuietMove(t)
  PROVE  /\ \A i, k, n : AssignDrive(i, k, n, frame)' = AssignDrive(i, k, n, frame)
         /\ \A i, k, n : AssignWrite(i, k, n)' = AssignWrite(i, k, n)
<1>1. frame' = frame /\ memories' = memories
  BY DEF QuietMove
<1>2. \A i, k, n : AssignDrive(i, k, n, frame)' = AssignDrive(i, k, n, frame)
  BY <1>1 DEF AssignDrive, AssignBits
<1>3. \A i, k, n : AssignWrite(i, k, n)' = AssignWrite(i, k, n)
  BY <1>1 DEF AssignWrite, AssignBits
<1> QED
  BY <1>2, <1>3

\* An assignment is waited for or has delivered until its own work is the head.
LEMMA AssignKept ==
  ASSUME FittingTargets, NEW t, QuietMove(t),
         NEW i \in Instance, NEW k \in 1..Len(Design[i].assigns),
         NEW n \in 1..Len(Design[i].assigns[k].target.leaves),
         AssignOK(i, k, n), Head(todo) # ItemAt("assign", i, k), Head(todo) # AssignWrite(i, k, n)
  PROVE  AssignOK(i, k, n)'
<1> DEFINE leaf == AssignLeafOf(i, k, n)
<1>1. CASE Waits(ItemAt("assign", i, k))
  BY <1>1, WaitsOn DEF AssignOK
<1>2. CASE leaf.kind # "memory" /\ Waits(AssignWrite(i, k, n))
  <2>1. PICK w : w = AssignWrite(i, k, n)
    OBVIOUS
  <2>2. AssignWrite(i, k, n)' = w
    BY <2>1, AssignsKept
  <2>3. Waits(w)'
    BY <1>2, <2>1, WaitsOn
  <2>4. Waits(AssignWrite(i, k, n))'
    BY <2>2, <2>3
  <2> QED
    BY <1>2, <2>4 DEF AssignOK
<1>3. CASE leaf.kind # "memory" /\ Delivered(AssignDrive(i, k, n, frame))
  <2>1. PICK d : d = AssignDrive(i, k, n, frame)
    OBVIOUS
  <2>2. AssignDrive(i, k, n, frame)' = d
    BY <2>1, AssignsKept
  <2>3. leaf \in LeavesOf(i, k)
    BY DEF LeavesOf
  <2>4. d.binding = Binding(i, leaf.name)
    BY <2>1 DEF AssignDrive, LeafDrive
  <2>5. d.binding.obj \in Object
    BY <1>3, <2>3, <2>4, AssignLeaves DEF FitsObject
  <2>6. Delivered(d)'
    BY <1>3, <2>1, <2>5, DeliveredOn
  <2>7. Delivered(AssignDrive(i, k, n, frame))'
    BY <2>2, <2>6
  <2> QED
    BY <1>3, <2>7 DEF AssignOK
<1> QED
  BY <1>1, <1>2, <1>3 DEF AssignOK

\* What is ahead stays so if the head's own work is dealt with.
LEMMA StillAhead ==
  ASSUME FittingTargets, NEW t, QuietMove(t),
         NEW B \in SUBSET (Instance \ {Top}), Ahead(B), NEW C \in SUBSET B,
         \A c \in C : Head(todo) = Item("child", c) \/ Head(todo) = Item("module", Parent(c))
                        \/ Parent(c) \in B \ C => EnteredLater(c, C)',
         \A i \in B \ C : ModuleOK(i)',
         \A i \in Instance \ B : Differs(i) \/ Head(todo) = Item("module", i) => ModuleOK(i)',
         \A i \in Instance \ B : \A k \in 1..Len(Design[i].assigns) :
           \A n \in 1..Len(Design[i].assigns[k].target.leaves) :
             ~Differs(i) /\ AssignOK(i, k, n)
               /\ (Head(todo) = ItemAt("assign", i, k) \/ Head(todo) = AssignWrite(i, k, n))
               => AssignOK(i, k, n)' \/ Differs(i)'
  PROVE  Ahead(C)'
<1>1. ASSUME NEW c \in C PROVE EnteredLater(c, C)'
  <2>1. EnteredLater(c, B)
    BY DEF Ahead
  <2>2. CASE Head(todo) # Item("child", c) /\ Head(todo) # Item("module", Parent(c))
             /\ Parent(c) \notin B \ C
    <3>1. Waits(Item("child", c)) => Waits(Item("child", c))'
      BY <2>2, WaitsOn
    <3>2. Waits(Item("module", Parent(c))) => Waits(Item("module", Parent(c)))'
      BY <2>2, WaitsOn DEF Parent
    <3> QED
      BY <2>1, <2>2, <3>1, <3>2 DEF EnteredLater
  <2> QED
    BY <2>2
<1>2. ASSUME NEW i \in Instance \ C PROVE ModuleOK(i)'
  <2>1. CASE i \in B
    BY <2>1
  <2>2. CASE i \notin B /\ (Differs(i) \/ Head(todo) = Item("module", i))
    BY <2>2
  <2>3. CASE i \notin B /\ ~Differs(i) /\ Waits(Item("module", i)) /\ Head(todo) # Item("module", i)
    BY <2>3, WaitsOn DEF ModuleOK
  <2>4. CASE i \notin B /\ ~Differs(i) /\ AllAssigned(i)
    <3>1. ASSUME NEW k \in 1..Len(Design[i].assigns),
                 NEW n \in 1..Len(Design[i].assigns[k].target.leaves)
          PROVE  AssignOK(i, k, n)' \/ Differs(i)'
      <4>1. AssignOK(i, k, n)
        BY <2>4 DEF AllAssigned
      <4>2. CASE Head(todo) # ItemAt("assign", i, k) /\ Head(todo) # AssignWrite(i, k, n)
        BY <4>1, <4>2, AssignKept
      <4>3. CASE Head(todo) = ItemAt("assign", i, k) \/ Head(todo) = AssignWrite(i, k, n)
        BY <2>4, <4>1, <4>3
      <4> QED
        BY <4>2, <4>3
    <3>2. Differs(i)' \/ AllAssigned(i)'
      BY <3>1 DEF AllAssigned
    <3> QED
      BY <3>2 DEF ModuleOK
  <2>5. ModuleOK(i) \/ i \in B
    BY DEF Ahead
  <2> QED
    BY <2>1, <2>2, <2>3, <2>4, <2>5 DEF ModuleOK
<1> QED
  BY <1>1, <1>2 DEF Ahead

-----------------------------------------------------------------------------
(* The actions of a pass that reports no change.                           *)

\* What a pass has to show for an action.
AssignsHeld ==
  /\ OverlayInv'
  /\ \A B \in SUBSET (Instance \ {Top}) : Ahead(B) => \E C \in SUBSET (Instance \ {Top}) : Ahead(C)'

\* The head as the work of an assignment, and as other work.
LEMMA AssignParts ==
  ASSUME NEW w
  PROVE  /\ \A i, k : w = ItemAt("assign", i, k) => w.op = "assign" /\ w.inst = i /\ w.at = k
         /\ \A i, k, n : w = AssignWrite(i, k, n) =>
              /\ w.op = AssignLeafOp /\ w.inst = i
              /\ w.leaf = AssignLeafOf(i, k, n) /\ w.bits = AssignBits(i, k, n, frame)
         /\ \A c : w = Item("child", c) => w.op = "child" /\ w.inst = c
         /\ \A c : w = Item("module", c) => w.op = "module" /\ w.inst = c
         /\ AssignLeafOp \notin {"assign", "child", "module", "commit"}
<1>1. AssignLeafOp \notin {"assign", "child", "module", "commit"}
  BY Zenon DEF AssignLeafOp
<1>2. \A i, k, n : w = AssignWrite(i, k, n) =>
        /\ w.op = AssignLeafOp /\ w.inst = i
        /\ w.leaf = AssignLeafOf(i, k, n) /\ w.bits = AssignBits(i, k, n, frame)
  BY WaitedParts DEF AssignWrite
<1> QED
  BY <1>1, <1>2, ItemParts

\* An action that is none of an assignment, and enters nothing.
LEMMA PlainHolds ==
  ASSUME FittingTargets, OverlayInv, NEW t, Steady(t),
         Head(todo).op \notin {"child", "module", "assign", AssignLeafOp},
         Head(todo).op = "commit" =>
           \/ \E u \in Items(t) : u.op = "commit" /\ u.inst = Head(todo).inst
           \/ \A i \in Instance : ~Differs(i)
  PROVE  AssignsHeld
<1>1. OverlayInv'
  BY OverlayKept
<1>2. QuietMove(t)
  BY DEF Steady
<1>3. \A i \in Instance : Differs(i) => ModuleOK(i)'
  BY DiffersKept DEF ModuleOK
<1>4. ASSUME NEW B \in SUBSET (Instance \ {Top}), Ahead(B) PROVE Ahead(B)'
  BY <1>2, <1>3, <1>4, AssignParts, StillAhead
<1> QED
  BY <1>1, <1>4 DEF AssignsHeld

\* The head of an action.
LEMMA HeadOps ==
  /\ ApplyInput => Head(todo).op = "input"
  /\ DriveInput => Head(todo).op = "drive"
  /\ SinkLeaf => Head(todo).op = LeafOp
  /\ CombLeaf => Head(todo).op = CombLeafOp
  /\ AssignLeaf => Head(todo).op = AssignLeafOp
  /\ CommitName \/ RefreshName \/ EndCommit => Head(todo).op = "commit"
  /\ CombBlock => Head(todo).op = "comb"
  /\ CombControl \/ CombAssign => Head(todo).op = "stmt"
  BY Zenon DEF ApplyInput, DriveInput, SinkLeaf, CombLeaf, AssignLeaf, CommitName, RefreshName,
               EndCommit, CombBlock, CombControl, CombAssign, Doing, Head1, LeafOp, CombLeafOp,
               AssignLeafOp

\* Inputs, outputs, blocks and statements.
LEMMA PlainActions ==
  ASSUME FittingTargets, SingleWriters, IInv, StagedInv, OrderInv, OverlayInv, ~changed',
         \/ ApplyInput \/ DriveInput \/ SinkOutput \/ SinkLeaf
         \/ CombBlock \/ CombControl \/ CombAssign
  PROVE  AssignsHeld
<1>1. SettleAction
  BY DEF SettleAction
<1>2. overlay' = overlay
  BY DEF ApplyInput, DriveInput, SinkOutput, SinkLeaf, CombBlock, CombControl, CombAssign, settling
<1>3. CASE ApplyInput \/ DriveInput \/ SinkLeaf
  <2>1. Moves(<<>>)
    BY <1>3, PoppingMoves, SinkLeafMoves
  <2>2. QuietMove(<<>>) /\ InSettle
    BY <1>1, <2>1, SettlesQuietly
  <2>3. Items(<<>>) = {}
    BY ListedItems
  <2>4. Steady(<<>>)
    BY <1>2, <2>2, <2>3 DEF Steady
  <2>5. Head(todo).op \in {"input", "drive", LeafOp}
    BY <1>3, HeadOps
  <2>6. Head(todo).op \notin {"child", "module", "assign", "commit", AssignLeafOp}
    BY <2>5, Zenon DEF LeafOp, AssignLeafOp
  <2> QED
    BY <2>4, <2>6, PlainHolds
<1>4. CASE SinkOutput
  <2>1. PICK t : /\ Moves(t) /\ Head(todo).op = "sink"
                 /\ \A u \in Items(t) : u.op = LeafOp
    BY <1>4, OutsideArranges
  <2>2. QuietMove(t) /\ InSettle
    BY <1>1, <2>1, SettlesQuietly
  <2>3. LeafOp \notin AssignOps /\ LeafOp # "commit" /\ AssignLeafOp # "sink"
    BY OpKinds, Zenon DEF AssignLeafOp
  <2>4. Steady(t)
    BY <1>2, <2>1, <2>2, <2>3 DEF Steady
  <2> QED
    BY <2>1, <2>3, <2>4, PlainHolds
<1>5. CASE CombBlock \/ CombControl \/ CombAssign
  <2>1. Head(todo).op \in {"comb", "stmt"}
    BY <1>5, HeadOps
  <2>2. PICK t : Moves(t) /\ \A u \in Items(t) : u.op \in BlockOps
    BY <1>5, BlockArranges, ControlArranges, WriteArranges
  <2>3. QuietMove(t) /\ InSettle
    BY <1>1, <2>2, SettlesQuietly
  <2>4. Steady(t)
    BY <1>2, <2>2, <2>3, OpKinds DEF Steady
  <2>5. Head(todo).op \notin {"child", "module", "assign", "commit", AssignLeafOp}
    BY <2>1, Zenon DEF AssignLeafOp
  <2> QED
    BY <2>4, <2>5, PlainHolds
<1> QED
  BY <1>3, <1>4, <1>5

\* A child is entered: its module waits.
LEMMA ChildAssigns ==
  ASSUME FittingTargets, SingleWriters, IInv, StagedInv, OrderInv, OverlayInv, ~changed', EnterChild
  PROVE  AssignsHeld
<1>1. /\ Head1.inst \in Instance /\ Head(todo).op = "child"
      /\ Moves(ChildWork(Head1.inst)) /\ overlay' = overlay
  BY OutsideArranges DEF EnterChild, settling
<1>2. PICK q : q = Head1.inst
  OBVIOUS
<1>3. SettleAction
  BY DEF SettleAction
<1>4. QuietMove(ChildWork(q)) /\ InSettle /\ q \in Instance
  BY <1>1, <1>2, <1>3, SettlesQuietly
<1>5. Steady(ChildWork(q))
  <2>1. \A u \in Items(ChildWork(q)) : u.op \in {"drive", "module", "sink"}
    BY <1>4, ChildItems, ItemParts
  <2>2. \A u \in Items(ChildWork(q)) : u.op \notin AssignOps /\ u.op # "commit"
    BY <2>1, OpKinds
  <2> QED
    BY <1>1, <1>4, <2>2 DEF Steady
<1>6. OverlayInv'
  BY <1>5, OverlayKept
<1>7. \A i \in Instance : Differs(i) => ModuleOK(i)'
  BY <1>1, <1>5, DiffersKept DEF ModuleOK
<1>8. Waits(Item("module", q))'
  <2>1. Item("module", q) \in Items(ChildWork(q))
    BY <1>4, ChildItems
  <2> QED
    BY <1>4, <2>1, WaitsOn
<1>9. ASSUME NEW B \in SUBSET (Instance \ {Top}), Ahead(B)
      PROVE  \E C \in SUBSET (Instance \ {Top}) : Ahead(C)'
  <2> DEFINE C == B \ {q}
  <2>1. ModuleOK(q)'
    BY <1>8 DEF ModuleOK
  <2>2. ASSUME NEW c \in C, Parent(c) \in B \ C PROVE EnteredLater(c, C)'
    <3>1. Parent(c) = q
      BY <2>2
    <3>2. Waits(Item("module", Parent(c)))'
      BY <1>8, <3>1 DEF Parent
    <3> QED
      BY <3>2 DEF EnteredLater
  <2>3. \A c \in C : Head(todo) # Item("child", c)
    BY <1>2, AssignParts DEF Head1
  <2>4. C \in SUBSET B /\ C \in SUBSET (Instance \ {Top}) /\ (\A c \in B \ C : c = q)
    OBVIOUS
  <2> HIDE DEF C
  <2>5. Ahead(C)'
    BY <1>1, <1>4, <1>7, <1>9, <2>1, <2>2, <2>3, <2>4, AssignParts, StillAhead
  <2> QED
    BY <2>4, <2>5
<1> QED
  BY <1>6, <1>9 DEF AssignsHeld

\* A module is entered: its assignments and its children wait, and no instance
\* is at its code.
LEMMA ModuleAssigns ==
  ASSUME FittingTargets, SingleWriters, IInv, StagedInv, OrderInv, ~changed', EnterModule
  PROVE  AssignsHeld
<1>1. /\ Head1.inst \in Instance /\ Head(todo).op = "module"
      /\ Moves(ModuleWork(Head1.inst)) /\ overlay' = <<>>
  BY EnterArranges DEF EnterModule, Nothing
<1>2. PICK q : q = Head1.inst
  OBVIOUS
<1>3. SettleAction
  BY DEF SettleAction
<1>4. QuietMove(ModuleWork(q)) /\ InSettle /\ q \in Instance
  BY <1>1, <1>2, <1>3, SettlesQuietly
<1>5. OverlayInv'
  <2>1. DOMAIN overlay' = {}
    BY <1>1
  <2>2. \A i : OverlayOK(i)'
    BY <2>1 DEF OverlayOK
  <2>3. \A i, leaf : Kept(i, leaf)'
    BY <2>1 DEF Kept
  <2>4. \A w : Untouched(w)' /\ Committed(w)'
    BY <2>1, <2>3 DEF Untouched, Committed
  <2> QED
    BY <2>2, <2>4 DEF OverlayInv
<1>6. \A i : ~Differs(i)
  <2> SUFFICES ASSUME NEW i, Commits(i) PROVE FALSE
    BY DEF Differs
  <2>1. PICK w \in Items(todo) : w.op = "commit"
    BY DEF Commits
  <2>2. Before(Head(todo), w)
    BY <1>1, <1>4, <2>1, HeadFirst DEF QuietMove
  <2> QED
    BY <1>1, <2>1, <2>2, OpKinds DEF Before
<1>7. /\ \A k \in 1..Len(Design[q].assigns) : Waits(ItemAt("assign", q, k))'
      /\ \A k \in 1..Len(Design[q].children) : Waits(Item("child", Design[q].children[k]))'
  <2>1. /\ \A k \in 1..Len(Design[q].assigns) : ItemAt("assign", q, k) \in Items(ModuleWork(q))
        /\ \A k \in 1..Len(Design[q].children) :
             Item("child", Design[q].children[k]) \in Items(ModuleWork(q))
    BY <1>1, <1>4, ModuleArranged, ModuleItems
  <2> QED
    BY <1>4, <2>1, WaitsOn
<1>8. ModuleOK(q)'
  <2>1. AllAssigned(q)'
    BY <1>7 DEF AllAssigned, AssignOK
  <2> QED
    BY <2>1 DEF ModuleOK
<1>9. ASSUME NEW B \in SUBSET (Instance \ {Top}), Ahead(B) PROVE Ahead(B)'
  <2>1. ASSUME NEW c \in B, Head(todo) = Item("module", Parent(c)) PROVE EnteredLater(c, B)'
    <3>1. Parent(c) = q
      BY <1>2, <2>1, AssignParts DEF Head1
    <3>2. PICK k \in 1..Len(Design[q].children) : Design[q].children[k] = c
      BY <3>1, HierarchyAssumption DEF Parent
    <3>3. Waits(Item("child", c))'
      BY <1>7, <3>2
    <3> QED
      BY <3>3 DEF EnteredLater
  <2>2. \A i : Head(todo) = Item("module", i) => i = q
    BY <1>2, AssignParts DEF Head1
  <2> QED
    BY <1>1, <1>4, <1>6, <1>8, <1>9, <2>1, <2>2, AssignParts, StillAhead
<1> QED
  BY <1>5, <1>9 DEF AssignsHeld

\* An assignment is executed: its leaves wait, with the bits its expression has
\* in the frame, unless a variable it may read is to change the frame.
LEMMA ExecuteAssigns ==
  ASSUME FittingTargets, SingleWriters, IInv, StagedInv, OrderInv, OverlayInv, ~changed',
         ContinuousAssign
  PROVE  AssignsHeld
<1>1. /\ Head(todo).op = "assign" /\ Head(todo).inst \in Instance
      /\ Head(todo).at \in 1..Len(Design[Head(todo).inst].assigns)
      /\ Head(todo) \in Items(todo)
      /\ \A n \in 1..Len(AssignOf(Head(todo)).target.leaves) :
           AssignOf(Head(todo)).target.leaves[n].kind # "memory"
      /\ Items(AssignWork) =
           LeafWrites(AssignLeafOp, Head1.inst, AssignOf(Head1).target,
                      CombValue(Head1.inst, AssignOf(Head1).expr))
      /\ Moves(AssignWork) /\ Arranged(AssignWork)
  BY AssignArranges
<1>2. overlay' = overlay /\ SettleAction
  BY DEF ContinuousAssign, settling, SettleAction
<1>i. PICK i \in Instance : i = Head(todo).inst
  BY <1>1
<1>3. PICK k \in 1..Len(Design[i].assigns) : i = Head(todo).inst /\ k = Head(todo).at
  BY <1>1, <1>i
<1> DEFINE a == Design[i].assigns[k]
<1>4. AssignOf(Head1) = a /\ AssignOf(Head(todo)) = a /\ Head1.inst = i
  BY <1>3 DEF AssignOf, Head1
<1>5. PICK v : v = CombValue(i, a.expr)
  OBVIOUS
<1>6. PICK t : t = AssignWork
  OBVIOUS
<1>7. Items(t) = LeafWrites(AssignLeafOp, i, a.target, v) /\ Moves(t) /\ Arranged(t)
  BY <1>1, <1>4, <1>5, <1>6
<1>8. QuietMove(t) /\ InSettle
  BY <1>2, <1>7, SettlesQuietly
<1>9. \A u \in Items(t) : u.op = AssignLeafOp
  BY <1>7, WaitedParts DEF LeafWrites
<1>10. Steady(t)
  <2>1. ASSUME NEW u \in Items(t)
        PROVE  /\ Head(todo).op \in AssignOps /\ u.inst = Head(todo).inst
               /\ Places(u) \subseteq Places(Head(todo))
    BY <1>1, <1>7, OpKinds DEF Arranged, Narrows
  <2> QED
    BY <1>2, <1>8, <1>9, <2>1, AssignParts DEF Steady
<1>11. OverlayInv'
  BY <1>10, OverlayKept
<1>12. \A j \in Instance : Differs(j) => ModuleOK(j)'
  BY <1>1, <1>10, DiffersKept DEF ModuleOK
<1>13. ASSUME ~Differs(i) PROVE Overlaid(i) = Table(i, frame)
  <2>1. Commits(i) /\ AssignsWait
    BY <1>1, <1>3, <1>8, OpKinds DEF OrderInv, AssignsWait
  <2>2. \A n \in DOMAIN overlay : InFrame(i, n)
    BY <1>13, <2>1 DEF Differs, OverlayInv, OverlayOK
  <2> QED
    BY <2>2 DEF Overlaid, Table, InFrame
<1>14. ASSUME ~Differs(i), NEW n \in 1..Len(a.target.leaves) PROVE AssignOK(i, k, n)'
  <2>1. AssignLeafOf(i, k, n) = a.target.leaves[n] /\ AssignLeafOf(i, k, n).kind # "memory"
    BY <1>1, <1>4 DEF AssignLeafOf
  <2>2. v = ValueIn(a.expr, i, Table(i, frame), memories[i])
    BY <1>5, <1>13, <1>14 DEF CombValue
  <2>3. AssignWrite(i, k, n) = LeafItem(AssignLeafOp, i, a.target.leaves[n],
                                        LeafBits(a.target, a.target.leaves[n], v))
    BY <2>1, <2>2 DEF AssignWrite, AssignBits
  <2>4. PICK w : w = AssignWrite(i, k, n)
    OBVIOUS
  <2>5. w \in Items(t)
    BY <1>7, <2>3, <2>4 DEF LeafWrites
  <2>6. Waits(w)'
    BY <1>8, <2>5, WaitsOn
  <2>7. AssignWrite(i, k, n)' = w
    BY <1>8, <2>4, AssignsKept
  <2>8. Waits(AssignWrite(i, k, n))'
    BY <2>6, <2>7
  <2> QED
    BY <2>1, <2>8 DEF AssignOK
<1>15. ASSUME NEW B \in SUBSET (Instance \ {Top}), Ahead(B) PROVE Ahead(B)'
  <2>1. \A j, m : Head(todo) = ItemAt("assign", j, m) => j = i /\ m = k
    BY <1>3, AssignParts
  <2>2. \A j, m, n : Head(todo) # AssignWrite(j, m, n)
    BY <1>1, AssignParts
  <2>3. /\ \A c : Head(todo) # Item("child", c)
        /\ \A c : Head(todo) # Item("module", c)
    BY <1>1, AssignParts
  <2> QED
    BY <1>8, <1>12, <1>14, <1>15, <2>1, <2>2, <2>3, StillAhead
<1> QED
  BY <1>11, <1>15 DEF AssignsHeld

\* A name is committed: the frame had its value.
LEMMA CommitAssigns ==
  ASSUME FittingTargets, SingleWriters, IInv, StagedInv, OrderInv, OverlayInv, ~changed',
         CommitName \/ RefreshName
  PROVE  AssignsHeld
<1> DEFINE i == Head(todo).inst
<1>1. Head(todo).op = "commit" /\ SettleAction /\ overlay' = overlay
  BY HeadOps DEF SettleAction, CommitName, RefreshName
<1>2. "commit" \in SettleOps /\ Doing("commit")
  BY Zenon DEF CommitName, RefreshName, SettleOps
<1>3. Head(todo) \in Items(todo) /\ i \in Instance /\ InSettle /\ IsFrame(frame)
  BY <1>2, DoingInPass, DoingInSettle DEF IsItem
<1>4. PICK n : CommitDone(n) /\ (n \in Vars(i) \cap DOMAIN overlay => InFrame(i, n))
  <2>1. CASE CommitName
    <3> DEFINE b(n) == Binding(i, n)
    <3>1. PICK n \in ToCommit(i) \ Head(todo).done :
            /\ CommitDone(n)
            /\ CASE ~IsNet(b(n).obj) ->
                      WriteFrame(b(n), overlay[n]) /\ UNCHANGED drivers
                 [] IsNet(b(n).obj) /\ Special(i, n) = "replace" ->
                      /\ WriteFrame(b(n), overlay[n])
                      /\ ReplaceDriver(b(n).obj, Stored(b(n), overlay[n]))
                 [] IsNet(b(n).obj) /\ Special(i, n) = "stage" ->
                      StageIfUndriven(b(n), overlay[n]) /\ KeepFrame
      BY <2>1 DEF CommitName, Head1
    <3>2. ASSUME n \in Vars(i), n \in DOMAIN overlay PROVE InFrame(i, n)
      <4>1. IsNet(b(n).obj) => Special(i, n) = "replace"
        BY <1>3, <3>2, VarsApart
      <4>2. WriteFrame(b(n), overlay[n])
        BY <3>1, <4>1
      <4>3. frame[b(n).obj] = Stored(b(n), overlay[n])
        BY <4>2 DEF WriteFrame
      <4>4. Commits(i)
        BY <1>1, <1>3 DEF Commits
      <4>5. IsVector(overlay[n], b(n).view)
        BY <1>3, <3>2, <4>4 DEF OverlayInv, OverlayOK
      <4>6. FitsObject(b(n))
        BY <1>3, <3>2, VarsNamed
      <4>7. ReadBinding(b(n), frame) = overlay[n]
        BY <4>3, <4>5, <4>6, StoredReadsBack
      <4> QED
        BY <4>7 DEF InFrame
    <3> QED
      BY <3>1, <3>2
  <2>2. CASE RefreshName
    <3>1. PICK n \in ToRefresh(i) \ Head(todo).done : CommitDone(n)
      BY <2>2 DEF RefreshName, Head1
    <3>2. n \notin DOMAIN overlay
      BY <3>1 DEF ToRefresh
    <3> QED
      BY <3>1, <3>2
  <2> QED
    BY <2>1, <2>2
<1>5. PICK u : /\ u.op = "commit" /\ u.inst = i
               /\ u.done = Head(todo).done \cup {n}
               /\ Moves(<<u>>)
  BY <1>4, CommitArranges
<1>6. QuietMove(<<u>>)
  BY <1>1, <1>5, SettlesQuietly
<1>7. Items(<<u>>) = {u}
  BY ListedItems
<1>8. Committed(u)
  <2>1. Committed(Head(todo))
    BY <1>3 DEF OverlayInv
  <2> QED
    BY <1>1, <1>4, <1>5, <2>1 DEF Committed
<1>9. Steady(<<u>>)
  BY <1>1, <1>3, <1>5, <1>6, <1>7, <1>8, OpKinds DEF Steady
<1>10. Head(todo).op \notin {"child", "module", "assign", AssignLeafOp}
  BY <1>1, AssignParts
<1> QED
  BY <1>5, <1>7, <1>9, <1>10, PlainHolds

\* A commit ends: all its names have been committed.
LEMMA EndAssigns ==
  ASSUME FittingTargets, SingleWriters, IInv, StagedInv, OrderInv, OverlayInv, ~changed', EndCommit
  PROVE  AssignsHeld
<1> DEFINE i == Head(todo).inst
<1>1. Head(todo).op = "commit" /\ SettleAction /\ overlay' = overlay
  BY HeadOps DEF SettleAction, EndCommit, settling
<1>2. "commit" \in SettleOps /\ Doing("commit")
  BY Zenon DEF EndCommit, SettleOps
<1>3. /\ Head(todo) \in Items(todo) /\ i \in Instance /\ InSettle
      /\ IsSequence(todo) /\ todo # <<>>
  BY <1>2, DoingInPass DEF IsItem
<1>4. QuietMove(<<>>)
  BY <1>1, PoppingMoves, SettlesQuietly
<1>5. Items(<<>>) = {}
  BY ListedItems
<1>6. Steady(<<>>)
  BY <1>1, <1>3, <1>4, <1>5 DEF Steady
<1>7. ASSUME NEW j \in Instance, Differs(j) PROVE FALSE
  <2>1. PICK w \in Items(todo) : w.op = "commit" /\ w.inst = j
    BY <1>7 DEF Differs, Commits
  <2>2. w = Head(todo)
    <3> SUFFICES ASSUME w # Head(todo) PROVE FALSE
      OBVIOUS
    <3>1. Before(Head(todo), w)
      BY <1>3, HeadFirst
    <3> QED
      BY <1>1, <2>1, <3>1, OpKinds DEF Before
  <2>3. j = i
    BY <2>1, <2>2
  <2>4. PICK n \in Vars(i) \cap DOMAIN overlay : ~InFrame(i, n)
    BY <1>7, <2>3 DEF Differs
  <2>5. n \in ToCommit(i)
    BY <1>3, <2>4, VarsApart DEF ToCommit
  <2>6. n \in Head(todo).done
    BY <2>5 DEF EndCommit, Head1
  <2>7. Committed(Head(todo))
    BY <1>3 DEF OverlayInv
  <2> QED
    BY <1>1, <2>4, <2>6, <2>7 DEF Committed
<1>8. Head(todo).op \notin {"child", "module", "assign", AssignLeafOp}
  BY <1>1, AssignParts
<1> QED
  BY <1>6, <1>7, <1>8, PlainHolds

\* While an instance runs its code, no other is to commit.
LEMMA CodeAlone ==
  ASSUME InSettle, OrderInv, IsSequence(todo), todo # <<>>, Head(todo).op \in CodeOps,
         NEW j, Commits(j)
  PROVE  j = Head(todo).inst
<1>1. PICK w \in Items(todo) : w.op = "commit" /\ w.inst = j
  BY DEF Commits
<1>2. w # Head(todo)
  BY <1>1, OpKinds
<1>3. Before(Head(todo), w)
  BY <1>2, HeadFirst
<1> QED
  BY <1>1, <1>3, OpKinds DEF Before

\* A block writes a signal that no assignment does, and none waits.
LEMMA BlockAssigns ==
  ASSUME FittingTargets, SingleWriters, IInv, StagedInv, OrderInv, OverlayInv, ~changed', CombLeaf
  PROVE  AssignsHeld
<1> DEFINE name == Head(todo).leaf.name
<1>1. Head(todo).op = CombLeafOp /\ SettleAction
  BY HeadOps DEF SettleAction
<1>2. CombLeafOp \in SettleOps /\ Doing(CombLeafOp)
  BY Zenon DEF CombLeaf, SettleOps, CombLeafOp
<1>3. /\ Head(todo) \in Items(todo) /\ Head(todo).inst \in Instance /\ InSettle
      /\ IsSequence(todo) /\ todo # <<>>
  BY <1>2, DoingInPass DEF IsItem
<1>4. PICK i \in Instance : i = Head(todo).inst
  BY <1>3
<1>5. QuietMove(<<>>) /\ frame' = frame
  BY <1>1, PoppingMoves, SettlesQuietly DEF QuietMove
<1>6. Items(<<>>) = {}
  BY ListedItems
<1>7. /\ DOMAIN overlay' = DOMAIN overlay \cup {name}
      /\ \A n \in DOMAIN overlay : n # name => overlay'[n] = overlay[n]
  BY DEF CombLeaf, OverlayLeaf, Head1
<1>8. name \notin Vars(i)
  <2>1. name \in CombWrites(i)
    BY <1>1, <1>3, <1>4 DEF OrderInv, IsModules
  <2> QED
    BY <2>1, VarsApart
<1> HIDE DEF name
<1>9. \A j : Commits(j) => j = i
  BY <1>1, <1>3, <1>4, CodeAlone, OpKinds
<1>10. \A w \in Items(todo') : w \in Items(todo)
  BY <1>5, <1>6, ItemsAfter
<1>11. ASSUME NEW w \in Items(todo') PROVE w.op \notin AssignOps /\ (w.op = "commit" => w.done = {})
  <2>1. CASE w = Head(todo)
    BY <1>1, <2>1, OpKinds
  <2>2. CASE w # Head(todo)
    <3>1. Before(Head(todo), w)
      BY <1>3, <1>10, <2>2, HeadFirst
    <3> QED
      BY <1>1, <3>1, OpKinds DEF Before
  <2> QED
    BY <2>1, <2>2
<1>12. OverlayInv'
  <2>1. ASSUME NEW j \in Instance, Commits(j)' PROVE OverlayOK(j)'
    <3>1. Commits(j)
      BY <1>10, <2>1 DEF Commits
    <3>2. j = i /\ OverlayOK(i)
      BY <1>9, <3>1 DEF OverlayInv
    <3>3. ~AssignsWait'
      BY <1>11 DEF AssignsWait
    <3> QED
      BY <1>7, <1>8, <3>2, <3>3 DEF OverlayOK
  <2>2. \A w \in Items(todo') : Untouched(w)' /\ Committed(w)'
    BY <1>11 DEF Untouched, Committed
  <2> QED
    BY <2>1, <2>2 DEF OverlayInv
<1>13. ASSUME NEW j \in Instance, Differs(j) PROVE ModuleOK(j)'
  <2>1. Commits(j)' /\ j = i
    BY <1>1, <1>5, <1>9, <1>13, CommitsOn, OpKinds DEF Differs
  <2>2. PICK n \in Vars(i) \cap DOMAIN overlay : ~InFrame(i, n)
    BY <1>13, <2>1 DEF Differs
  <2>3. n \in DOMAIN overlay' /\ ~InFrame(i, n)'
    BY <1>5, <1>7, <1>8, <2>2 DEF InFrame
  <2>4. Differs(i)'
    BY <2>1, <2>2, <2>3 DEF Differs
  <2> QED
    BY <2>1, <2>4 DEF ModuleOK
<1>14. Head(todo).op \notin {"child", "module", "assign", AssignLeafOp}
  BY <1>1, OpKinds, Zenon DEF CombLeafOp, AssignLeafOp
<1>15. ASSUME NEW B \in SUBSET (Instance \ {Top}), Ahead(B) PROVE Ahead(B)'
  BY <1>5, <1>13, <1>14, <1>15, AssignParts, StillAhead
<1> QED
  BY <1>12, <1>15 DEF AssignsHeld

\* The write of a leaf replaces its bits of the vector the instance read.
WritesOver(i, leaf, bits) ==
  \E old : /\ IsVector(old, Binding(i, leaf.name).view)
           /\ old = IF leaf.name \in DOMAIN overlay THEN overlay[leaf.name]
                    ELSE ReadBinding(Binding(i, leaf.name), frame)
           /\ overlay'[leaf.name] = Merged(leaf, old, bits)

\* What the write of a leaf makes of the overlay of its instance.
LEMMA LeafWritten ==
  ASSUME FittingTargets, SingleWriters, IInv, StagedInv, OrderInv, OverlayInv, AssignLeaf,
         NEW i, i = Head(todo).inst, NEW leaf, leaf = Head(todo).leaf,
         NEW bits, bits = Head(todo).bits
  PROVE  /\ InSettle /\ IsSequence(todo) /\ todo # <<>> /\ IsFrame(frame)
         /\ DriversStaged /\ DOMAIN drivers = Object
         /\ Head(todo) \in Items(todo) /\ Head(todo).op = AssignLeafOp
         /\ i \in Instance /\ Commits(i) /\ leaf.kind # "memory" /\ leaf.name \in Names(i)
         /\ FitsObject(Binding(i, leaf.name)) /\ IsPart(leaf, Binding(i, leaf.name).view)
         /\ IsVector(bits, leaf.width)
         /\ NetSignal(i, leaf.name) => IsNet(Binding(i, leaf.name).obj)
         /\ NetSignal(i, leaf.name) <=> leaf.name \notin Vars(i)
         /\ DOMAIN overlay' = DOMAIN overlay \cup {leaf.name}
         /\ \A n \in DOMAIN overlay : n # leaf.name => overlay'[n] = overlay[n]
         /\ NetSignal(i, leaf.name) =>
              /\ overlay'[leaf.name] = ReadBinding(Binding(i, leaf.name), frame)
              /\ StageDriver(Binding(i, leaf.name).obj, LeafDriver(i, leaf, bits))
         /\ ~NetSignal(i, leaf.name) => WritesOver(i, leaf, bits)
<1> DEFINE b == Binding(i, leaf.name)
<1>1. AssignLeafOp \in SettleOps /\ Doing(AssignLeafOp)
  BY Zenon DEF AssignLeaf, SettleOps, AssignLeafOp
<1>2. /\ InSettle /\ IsSequence(todo) /\ todo # <<>> /\ IsFrame(frame)
      /\ DriversStaged /\ DOMAIN drivers = Object
      /\ Head(todo) \in Items(todo) /\ Head(todo).op = AssignLeafOp /\ i \in Instance
  BY <1>1, DoingInPass, DoingInSettle DEF IsItem
<1>3. Commits(i) /\ IsModules(Head(todo))
  BY <1>2, OpKinds DEF OrderInv
<1>4. PICK k \in 1..Len(Design[i].assigns) : leaf \in LeavesOf(i, k)
  BY <1>2, <1>3 DEF IsModules
<1>5. leaf.kind # "memory" /\ IsVector(bits, leaf.width)
  BY <1>2, <1>3 DEF IsModules
<1>6. /\ leaf.name \in Names(i) /\ FitsObject(b) /\ IsPart(leaf, b.view)
      /\ NetSignal(i, leaf.name) => IsNet(b.obj)
      /\ NetSignal(i, leaf.name) <=> leaf.name \notin Vars(i)
  BY <1>2, <1>4, <1>5, AssignLeaves
<1>7. OverlayOK(i) /\ AssignsWait
  BY <1>2, <1>3, OpKinds DEF OverlayInv, AssignsWait
<1>8. Overlaid(i)[leaf.name] = IF leaf.name \in DOMAIN overlay THEN overlay[leaf.name]
                               ELSE ReadBinding(b, frame)
  BY <1>6 DEF Overlaid
<1>9. CASE NetSignal(i, leaf.name)
  <2>1. SeedOverlay(i, leaf.name) /\ StageDriver(b.obj, LeafDriver(i, leaf, bits))
    BY <1>9 DEF AssignLeaf, Head1
  <2>2. DOMAIN overlay' = DOMAIN overlay \cup {leaf.name}
        /\ \A m \in DOMAIN overlay' : overlay'[m] = Overlaid(i)[m]
    BY <2>1 DEF SeedOverlay
  <2>3. Overlaid(i)[leaf.name] = ReadBinding(b, frame)
    BY <1>6, <1>7, <1>8, <1>9 DEF OverlayOK, InFrame
  <2>4. \A n \in DOMAIN overlay : overlay'[n] = Overlaid(i)[n]
    BY <2>2
  <2>5. \A n \in DOMAIN overlay : n \in Names(i)
    BY <1>2, <1>7, VarsNamed DEF OverlayOK
  <2>6. \A n \in DOMAIN overlay : Overlaid(i)[n] = overlay[n]
    BY <2>5 DEF Overlaid
  <2> QED
    BY <1>2, <1>3, <1>5, <1>6, <1>9, <2>1, <2>2, <2>3, <2>4, <2>6
<1>10. CASE ~NetSignal(i, leaf.name)
  <2>1. OverlayLeaf(i, leaf, bits)
    BY <1>10 DEF AssignLeaf, Head1
  <2>2. /\ DOMAIN overlay' = DOMAIN overlay \cup {leaf.name}
        /\ \A n \in DOMAIN overlay : n # leaf.name => overlay'[n] = overlay[n]
        /\ overlay'[leaf.name] = Merged(leaf, Overlaid(i)[leaf.name], bits)
    BY <2>1 DEF OverlayLeaf
  <2>3. IsVector(Overlaid(i)[leaf.name], b.view)
    BY <1>6, <1>7, <1>8, <1>10, FrameVectors DEF OverlayOK
  <2>4. WritesOver(i, leaf, bits)
    BY <1>8, <2>2, <2>3 DEF WritesOver
  <2> QED
    BY <1>2, <1>3, <1>5, <1>6, <1>10, <2>2, <2>4
<1> QED
  BY <1>9, <1>10

\* What the end of a write leaves.
LEMMA LeafLeaves ==
  ASSUME FittingTargets, SingleWriters, IInv, StagedInv, OrderInv, OverlayInv, ~changed', AssignLeaf
  PROVE  /\ QuietMove(<<>>) /\ frame' = frame
         /\ \A j : Commits(j) => j = Head(todo).inst /\ Commits(j)'
         /\ \A w \in Items(todo') : w \in Items(todo) /\ Before(Head(todo), w) /\ IsModules(w) /\ IsItem(w)
<1>1. /\ InSettle /\ IsSequence(todo) /\ todo # <<>> /\ Head(todo).op = AssignLeafOp
  BY LeafWritten
<1>2. SettleAction /\ Moves(<<>>)
  BY PoppingMoves DEF SettleAction
<1>3. QuietMove(<<>>) /\ frame' = frame
  BY <1>2, SettlesQuietly DEF QuietMove
<1>4. Items(<<>>) = {}
  BY ListedItems
<1>5. \A w \in Items(todo') : w \in Items(todo) /\ Before(Head(todo), w) /\ IsModules(w)
  <2>1. IsSequence(<<>>) /\ Replaces(todo', todo, <<>>)
    BY <1>2 DEF Moves
  <2> QED
    BY <1>1, <1>4, <2>1, PopArranged, ArrangedKeeps
<1>6. \A w \in Items(todo) : IsItem(w)
  <2>1. AssignLeafOp \in SettleOps /\ Doing(AssignLeafOp)
    BY Zenon DEF AssignLeaf, SettleOps, AssignLeafOp
  <2> QED
    BY <2>1, DoingInSettle DEF IsStack, Items
<1>7. \A j : Commits(j) => j = Head(todo).inst /\ Commits(j)'
  BY <1>1, <1>3, CodeAlone, CommitsOn, OpKinds
<1> QED
  BY <1>3, <1>5, <1>6, <1>7

\* The write of a leaf touches its own bits.
LEMMA LeafOverlay ==
  ASSUME FittingTargets, SingleWriters, IInv, StagedInv, OrderInv, OverlayInv, ~changed', AssignLeaf
  PROVE  OverlayInv'
<1>1. PICK i : i = Head(todo).inst
  OBVIOUS
<1>2. PICK leaf : leaf = Head(todo).leaf
  OBVIOUS
<1>3. PICK bits : bits = Head(todo).bits
  OBVIOUS
<1> DEFINE b == Binding(i, leaf.name)
           name == leaf.name
<1>4. /\ frame' = frame
      /\ \A j : Commits(j) => j = i
      /\ \A w \in Items(todo') : w \in Items(todo) /\ Before(Head(todo), w) /\ IsModules(w) /\ IsItem(w)
  BY <1>1, LeafLeaves
<1>5. /\ Head(todo) \in Items(todo) /\ Head(todo).op = AssignLeafOp
      /\ i \in Instance /\ Commits(i) /\ leaf.kind # "memory" /\ name \in Names(i)
      /\ FitsObject(b) /\ IsPart(leaf, b.view) /\ IsVector(bits, leaf.width)
      /\ NetSignal(i, name) <=> name \notin Vars(i)
      /\ DOMAIN overlay' = DOMAIN overlay \cup {name}
      /\ \A n \in DOMAIN overlay : n # name => overlay'[n] = overlay[n]
      /\ NetSignal(i, name) => overlay'[name] = ReadBinding(b, frame)
  BY <1>1, <1>2, <1>3, LeafWritten
<1>6. ~NetSignal(i, name) =>
        \E old : /\ IsVector(old, b.view)
                 /\ old = IF name \in DOMAIN overlay THEN overlay[name] ELSE ReadBinding(b, frame)
                 /\ overlay'[name] = Merged(leaf, old, bits)
  <2>1. ~NetSignal(i, leaf.name) => WritesOver(i, leaf, bits)
    BY <1>1, <1>2, <1>3, LeafWritten
  <2> QED
    BY <2>1 DEF WritesOver
<1>7. b.view \in Nat
  BY <1>5, FrameVectors
<1>8. AssignsWait /\ OverlayOK(i)
  BY <1>5, OpKinds DEF AssignsWait, OverlayInv
<1>9. ASSUME NEW j \in Instance, Commits(j)' PROVE OverlayOK(j)'
  <2>1. j = i
    BY <1>4, <1>9 DEF Commits
  <2>2. ASSUME NEW n \in DOMAIN overlay'
        PROVE  IF n \in Vars(i) THEN IsVector(overlay'[n], Binding(i, n).view)
               ELSE n \in Names(i) /\ InFrame(i, n)'
    <3>1. CASE n # name
      <4>1. n \in DOMAIN overlay /\ overlay'[n] = overlay[n]
        BY <1>5, <3>1
      <4> QED
        BY <1>4, <1>8, <4>1 DEF OverlayOK, InFrame
    <3>2. CASE n = name /\ NetSignal(i, name)
      BY <1>4, <1>5, <3>2 DEF InFrame
    <3>3. CASE n = name /\ ~NetSignal(i, name)
      <4>1. PICK old : IsVector(old, b.view) /\ overlay'[name] = Merged(leaf, old, bits)
        BY <1>6, <3>3
      <4>2. Len(old) = b.view
        BY <1>7, <4>1, VectorBits
      <4>3. IsVector(Merged(leaf, old, bits), b.view)
        BY <1>5, <1>7, <4>2, MergedBits
      <4> QED
        BY <1>5, <3>3, <4>1, <4>3
    <3> QED
      BY <3>1, <3>2, <3>3
  <2> QED
    BY <2>1, <2>2 DEF OverlayOK
<1>10. ASSUME NEW w \in Items(todo') PROVE Committed(w)'
  BY <1>4, OpKinds DEF Before, Committed
<1>11. ASSUME NEW w \in Items(todo'), w.op \in AssignOps, NEW l \in Places(w) PROVE Kept(w.inst, l)'
  <2>1. w.inst = i
    BY <1>1, <1>4, <1>11, OpKinds DEF Before
  <2>2. leaf \in Places(Head(todo))
    BY <1>2, <1>5, OpKinds DEF Places
  <2>3. ApartIn(i, leaf, l)
    BY <1>4, <1>11, <2>1, <2>2 DEF Before
  <2>4. Kept(i, l)
    BY <1>4, <1>11, <2>1 DEF OverlayInv, Untouched
  <2>5. \E k \in 1..Len(Design[i].assigns) : l \in LeavesOf(i, k)
    <3>1. CASE w.op = "assign"
      BY <1>4, <1>11, <2>1, <3>1 DEF IsItem, Places
    <3>2. CASE w.op = AssignLeafOp
      BY <1>4, <1>11, <2>1, <3>2, OpKinds DEF IsModules, Places
    <3>3. w.op = "assign" \/ w.op = AssignLeafOp
      BY <1>11, Zenon DEF AssignOps, AssignLeafOp
    <3> QED
      BY <3>1, <3>2, <3>3
  <2>6. ASSUME l.name \in DOMAIN overlay', l.kind # "memory", ~NetSignal(i, l.name)
        PROVE  Slice(overlay'[l.name], l.low, l.width)
                 = Slice(ReadBinding(Binding(i, l.name), frame), l.low, l.width)
    <3>1. CASE l.name # name
      <4>1. l.name \in DOMAIN overlay /\ overlay'[l.name] = overlay[l.name]
        BY <1>5, <2>6, <3>1
      <4> QED
        BY <2>4, <2>6, <4>1 DEF Kept
    <3>2. CASE l.name = name
      <4>1. PICK old : /\ IsVector(old, b.view)
                       /\ old = IF name \in DOMAIN overlay THEN overlay[name] ELSE ReadBinding(b, frame)
                       /\ overlay'[name] = Merged(leaf, old, bits)
        BY <1>6, <2>6, <3>2
      <4>2. leaf.low + leaf.width <= l.low \/ l.low + l.width <= leaf.low
        BY <1>5, <2>3, <2>6, <3>2 DEF ApartIn
      <4>3. IsPart(l, b.view)
        BY <1>5, <2>5, <2>6, <3>2, AssignLeaves
      <4>4. Slice(overlay'[name], l.low, l.width) = Slice(old, l.low, l.width)
        BY <1>5, <1>7, <4>1, <4>2, <4>3, MergedApart
      <4>5. Slice(old, l.low, l.width) = Slice(ReadBinding(b, frame), l.low, l.width)
        BY <2>4, <2>6, <3>2, <4>1 DEF Kept
      <4> QED
        BY <3>2, <4>4, <4>5
    <3> QED
      BY <3>1, <3>2
  <2> QED
    BY <1>4, <2>1, <2>6 DEF Kept
<1>12. \A w \in Items(todo') : Untouched(w)'
  BY <1>11 DEF Untouched
<1> QED
  BY <1>9, <1>10, <1>12 DEF OverlayInv

\* A variable that differs from the frame still does: its other bits do.
LEMMA LeafDiffers ==
  ASSUME FittingTargets, SingleWriters, IInv, StagedInv, OrderInv, OverlayInv, ~changed', AssignLeaf,
         NEW j \in Instance, Differs(j)
  PROVE  Differs(j)'
<1>1. PICK i : i = Head(todo).inst
  OBVIOUS
<1>2. PICK leaf : leaf = Head(todo).leaf
  OBVIOUS
<1>3. PICK bits : bits = Head(todo).bits
  OBVIOUS
<1> DEFINE b == Binding(i, leaf.name)
           name == leaf.name
<1>4. frame' = frame /\ j = i /\ Commits(i)'
  BY <1>1, LeafLeaves DEF Differs
<1>5. /\ Head(todo) \in Items(todo) /\ Head(todo).op = AssignLeafOp /\ leaf.kind # "memory"
      /\ FitsObject(b) /\ IsPart(leaf, b.view) /\ IsVector(bits, leaf.width)
      /\ NetSignal(i, name) <=> name \notin Vars(i)
      /\ DOMAIN overlay' = DOMAIN overlay \cup {name}
      /\ \A n \in DOMAIN overlay : n # name => overlay'[n] = overlay[n]
  BY <1>1, <1>2, <1>3, LeafWritten
<1>6. ~NetSignal(i, name) =>
        \E old : /\ IsVector(old, b.view)
                 /\ old = IF name \in DOMAIN overlay THEN overlay[name] ELSE ReadBinding(b, frame)
                 /\ overlay'[name] = Merged(leaf, old, bits)
  <2>1. ~NetSignal(i, leaf.name) => WritesOver(i, leaf, bits)
    BY <1>1, <1>2, <1>3, LeafWritten
  <2> QED
    BY <2>1 DEF WritesOver
<1>7. PICK n \in Vars(i) \cap DOMAIN overlay : ~InFrame(i, n)
  BY <1>4 DEF Differs
<1>8. CASE n # name
  BY <1>4, <1>5, <1>7, <1>8 DEF Differs, InFrame
<1>9. CASE n = name
  <2>1. PICK f : f = ReadBinding(b, frame)
    OBVIOUS
  <2>2. IsVector(f, b.view) /\ b.view \in Nat
    BY <1>5, <2>1, FrameVectors
  <2>3. PICK old : /\ IsVector(old, b.view) /\ old = overlay[name]
                   /\ overlay'[name] = Merged(leaf, old, bits)
    BY <1>5, <1>6, <1>7, <1>9
  <2>4. old # f
    BY <1>7, <1>9, <2>1, <2>3 DEF InFrame
  <2>5. Slice(old, leaf.low, leaf.width) = Slice(f, leaf.low, leaf.width)
    <3>1. Untouched(Head(todo)) /\ leaf \in Places(Head(todo))
      BY <1>2, <1>5, OpKinds DEF OverlayInv, Places
    <3>2. Kept(i, leaf)
      BY <1>1, <1>5, <3>1, OpKinds DEF Untouched
    <3> QED
      BY <1>5, <1>7, <1>9, <2>1, <2>3, <3>2 DEF Kept
  <2>6. PICK k \in 1..b.view : ~(leaf.low < k /\ k <= leaf.low + leaf.width) /\ old[k] # f[k]
    BY <1>5, <2>2, <2>3, <2>4, <2>5, DiffersOutside
  <2>7. Merged(leaf, old, bits)[k] = old[k]
    BY <1>5, <2>2, <2>3, <2>6, MergedKeeps
  <2>8. overlay'[name] # f
    BY <2>3, <2>6, <2>7
  <2> QED
    BY <1>4, <1>5, <1>7, <1>9, <2>1, <2>8 DEF Differs, InFrame
<1> QED
  BY <1>8, <1>9

\* An assignment has delivered, unless its variable is to change the frame.
LEMMA LeafAssigned ==
  ASSUME FittingTargets, SingleWriters, IInv, StagedInv, OrderInv, OverlayInv, ~changed', AssignLeaf,
         NEW i \in Instance, NEW k \in 1..Len(Design[i].assigns),
         NEW n \in 1..Len(Design[i].assigns[k].target.leaves), Head(todo) = AssignWrite(i, k, n)
  PROVE  AssignOK(i, k, n)' \/ Differs(i)'
<1> DEFINE leaf == AssignLeafOf(i, k, n)
           b == Binding(i, leaf.name)
           name == leaf.name
<1>1. PICK bits : bits = AssignBits(i, k, n, frame)
  OBVIOUS
<1>2. Head(todo).inst = i /\ Head(todo).leaf = leaf /\ Head(todo).bits = bits
  BY <1>1, AssignParts
<1> HIDE DEF leaf
<1>3. QuietMove(<<>>) /\ frame' = frame /\ Commits(i) => Commits(i)'
  BY LeafLeaves
<1>4. /\ Commits(i) /\ leaf.kind # "memory" /\ IsFrame(frame)
      /\ DriversStaged /\ DOMAIN drivers = Object
      /\ FitsObject(b) /\ IsPart(leaf, b.view) /\ IsVector(bits, leaf.width)
      /\ NetSignal(i, name) => IsNet(b.obj)
      /\ NetSignal(i, name) <=> name \notin Vars(i)
      /\ DOMAIN overlay' = DOMAIN overlay \cup {name}
      /\ NetSignal(i, name) => StageDriver(b.obj, LeafDriver(i, leaf, bits))
  BY <1>2, LeafWritten
<1>5. ~NetSignal(i, name) =>
        \E old : /\ IsVector(old, b.view)
                 /\ old = IF name \in DOMAIN overlay THEN overlay[name] ELSE ReadBinding(b, frame)
                 /\ overlay'[name] = Merged(leaf, old, bits)
  <2>1. ~NetSignal(i, leaf.name) => WritesOver(i, leaf, bits)
    BY <1>2, LeafWritten
  <2> QED
    BY <2>1 DEF WritesOver
<1>6. QuietMove(<<>>) /\ frame' = frame /\ Commits(i)'
  BY <1>4, LeafLeaves
<1>7. AssignDrive(i, k, n, frame)' = LeafDrive(i, leaf, bits)
  <2>1. AssignDrive(i, k, n, frame) = LeafDrive(i, leaf, bits)
    BY <1>1 DEF AssignDrive, leaf
  <2> QED
    BY <1>6, <2>1, AssignsKept
<1>8. ASSUME Delivered(LeafDrive(i, leaf, bits))' PROVE AssignOK(i, k, n)'
  <2>1. Delivered(AssignDrive(i, k, n, frame))'
    BY <1>7, <1>8
  <2> QED
    BY <1>4, <2>1 DEF AssignOK, leaf
<1>9. CASE NetSignal(i, name)
  <2>1. Delivered(LeafDrive(i, leaf, bits))'
    BY <1>4, <1>9, LeafDelivers
  <2> QED
    BY <1>8, <2>1
<1>10. CASE ~NetSignal(i, name) /\ IsNet(b.obj)
  <2>1. IsReplaced(b.obj)
    BY <1>4, <1>10, VarsApart DEF IsReplaced
  <2>2. LeafDrive(i, leaf, bits).binding = b
    BY DEF LeafDrive
  <2>3. Delivered(LeafDrive(i, leaf, bits))'
    BY <1>10, <2>1, <2>2 DEF Delivered
  <2> QED
    BY <1>8, <2>3
<1>11. CASE ~NetSignal(i, name) /\ ~IsNet(b.obj) /\ InFrame(i, name)'
  <2>1. PICK old : IsVector(old, b.view) /\ overlay'[name] = Merged(leaf, old, bits)
    BY <1>5, <1>11
  <2>2. b.view \in Nat /\ leaf.width \in Nat
    BY <1>4, FrameVectors DEF IsPart
  <2>3. Len(old) = b.view /\ Len(bits) = leaf.width
    BY <1>4, <2>1, <2>2, VectorBits
  <2>4. Slice(Merged(leaf, old, bits), leaf.low, leaf.width) = bits
    BY <1>4, <2>2, <2>3, MergedBits
  <2>5. ReadBinding(b, frame') = Merged(leaf, old, bits)
    BY <1>11, <2>1 DEF InFrame
  <2> DEFINE d == LeafDrive(i, leaf, bits)
  <2>6. d.binding = b /\ d.low = leaf.low /\ d.bits = bits
    BY DEF LeafDrive
  <2> HIDE DEF d
  <2>7. TakesBits(frame', d)
    BY <2>3, <2>4, <2>5, <2>6 DEF TakesBits
  <2>8. Delivered(d)'
    BY <1>11, <2>6, <2>7 DEF Delivered, d
  <2> QED
    BY <1>8, <2>8 DEF d
<1>12. CASE ~NetSignal(i, name) /\ ~InFrame(i, name)'
  BY <1>4, <1>6, <1>12 DEF Differs
<1> QED
  BY <1>9, <1>10, <1>11, <1>12

\* So the write of a leaf holds its assignment.
LEMMA LeafAssigns ==
  ASSUME FittingTargets, SingleWriters, IInv, StagedInv, OrderInv, OverlayInv, ~changed', AssignLeaf
  PROVE  AssignsHeld
<1>1. Head(todo).op = AssignLeafOp
  BY HeadOps
<1>2. QuietMove(<<>>)
  BY LeafLeaves
<1>3. \A i \in Instance : Differs(i) => ModuleOK(i)'
  BY LeafDiffers DEF ModuleOK
<1>4. /\ \A c : Head(todo) # Item("child", c)
      /\ \A c : Head(todo) # Item("module", c)
      /\ \A i, k : Head(todo) # ItemAt("assign", i, k)
  BY <1>1, AssignParts
<1>5. ASSUME NEW B \in SUBSET (Instance \ {Top}), Ahead(B) PROVE Ahead(B)'
  BY <1>2, <1>3, <1>4, <1>5, LeafAssigned, StillAhead
<1> QED
  BY <1>5, LeafOverlay DEF AssignsHeld

\* Every action of a pass that reports no change.
LEMMA SettleAssigns ==
  ASSUME FittingTargets, SingleWriters, IInv, StagedInv, OrderInv, OverlayInv, ~changed', SettleAction
  PROVE  AssignsHeld
<1>1. CASE ApplyInput \/ DriveInput \/ SinkOutput \/ SinkLeaf \/ CombBlock \/ CombControl \/ CombAssign
  BY <1>1, PlainActions
<1>2. CASE EnterChild
  BY <1>2, ChildAssigns
<1>3. CASE EnterModule
  BY <1>3, ModuleAssigns
<1>4. CASE ContinuousAssign
  BY <1>4, ExecuteAssigns
<1>5. CASE AssignLeaf
  BY <1>5, LeafAssigns
<1>6. CASE CombLeaf
  BY <1>6, BlockAssigns
<1>7. CASE CommitName \/ RefreshName
  BY <1>7, CommitAssigns
<1>8. CASE EndCommit
  BY <1>8, EndAssigns
<1> QED
  BY <1>1, <1>2, <1>3, <1>4, <1>5, <1>6, <1>7, <1>8 DEF SettleAction

-----------------------------------------------------------------------------
(* The end of a settle.                                                    *)

\* A pass starts with every instance ahead of it and no overlay.
LEMMA PassIsAhead ==
  ASSUME NEW f, NEW n, StartPass(f, n)
  PROVE  OverlayInv' /\ Ahead(Instance \ {Top})'
<1>1. todo' = PassWork
  BY DEF StartPass
<1>2. Waits(Item("module", Top))'
  BY <1>1, PassItems DEF Waits
<1>3. ASSUME NEW w \in Items(todo') PROVE w.op \notin ModuleOps
  <2>1. \A u \in Items(PassWork) : u.op \in {"input", "module"}
    BY PassItems, ItemParts
  <2> QED
    BY <1>1, <2>1, OpKinds
<1>4. OverlayInv'
  <2>1. \A i : ~Commits(i)'
    BY <1>3, OpKinds DEF Commits
  <2>2. \A w \in Items(todo') : Untouched(w)' /\ Committed(w)'
    BY <1>3, OpKinds DEF Untouched, Committed
  <2> QED
    BY <2>1, <2>2 DEF OverlayInv
<1>5. ASSUME NEW c \in Instance \ {Top} PROVE EnteredLater(c, Instance \ {Top})'
  <2>1. Parent(c) \in Instance
    BY HierarchyAssumption DEF Parent
  <2>2. CASE Parent(c) = Top
    <3>1. Waits(Item("module", Parent(c)))'
      BY <1>2, <2>2 DEF Parent
    <3> QED
      BY <3>1 DEF EnteredLater
  <2>3. CASE Parent(c) # Top
    BY <2>1, <2>3 DEF EnteredLater
  <2> QED
    BY <2>2, <2>3
<1>6. ModuleOK(Top)'
  BY <1>2 DEF ModuleOK
<1>7. \A i \in Instance \ (Instance \ {Top}) : i = Top
  OBVIOUS
<1> QED
  BY <1>4, <1>5, <1>6, <1>7 DEF Ahead

\* A step that changes nothing changes nothing of it.
LEMMA AheadStays ==
  ASSUME UNCHANGED vars
  PROVE  /\ OverlayInv => OverlayInv'
         /\ \A B : Ahead(B) => Ahead(B)'
<1>1. /\ todo' = todo /\ frame' = frame /\ drivers' = drivers
      /\ overlay' = overlay /\ memories' = memories
  BY DEF vars, session, settling
<1>2. /\ \A w : Waits(w)' = Waits(w)
      /\ \A i : Commits(i)' = Commits(i)
      /\ AssignsWait' = AssignsWait
  BY <1>1 DEF Waits, Commits, AssignsWait
<1>3. /\ \A i, n : InFrame(i, n)' = InFrame(i, n)
      /\ \A i, leaf : Kept(i, leaf)' = Kept(i, leaf)
      /\ \A d : Delivered(d)' = Delivered(d)
  BY <1>1 DEF InFrame, Kept, Delivered, TakesBits
<1>4. /\ \A i : OverlayOK(i)' = OverlayOK(i)
      /\ \A i : Differs(i)' = Differs(i)
      /\ \A w : Untouched(w)' = Untouched(w)
      /\ \A w : Committed(w)' = Committed(w)
  BY <1>1, <1>2, <1>3 DEF OverlayOK, Differs, Untouched, Committed
<1>5. OverlayInv => OverlayInv'
  BY <1>1, <1>2, <1>4 DEF OverlayInv
<1>6. ASSUME NEW i, NEW k, NEW n, AssignOK(i, k, n) PROVE AssignOK(i, k, n)'
  <2>1. PICK d : d = AssignDrive(i, k, n, frame)
    OBVIOUS
  <2>2. PICK w : w = AssignWrite(i, k, n)
    OBVIOUS
  <2>3. AssignDrive(i, k, n, frame)' = d /\ AssignWrite(i, k, n)' = w
    BY <1>1, <2>1, <2>2 DEF AssignDrive, AssignWrite, AssignBits
  <2>4. \/ Waits(ItemAt("assign", i, k))'
        \/ AssignLeafOf(i, k, n).kind # "memory" /\ (Waits(w)' \/ Delivered(d)')
    BY <1>2, <1>3, <1>6, <2>1, <2>2 DEF AssignOK
  <2> QED
    BY <2>3, <2>4 DEF AssignOK
<1>7. ASSUME NEW i, ModuleOK(i) PROVE ModuleOK(i)'
  BY <1>2, <1>4, <1>6, <1>7 DEF ModuleOK, AllAssigned
<1>8. ASSUME NEW B, Ahead(B) PROVE Ahead(B)'
  BY <1>2, <1>7, <1>8 DEF Ahead, EnteredLater
<1> QED
  BY <1>5, <1>8

\* Every step keeps what a pass that reports no change has assigned.
LEMMA AssignPreserves ==
  ASSUME FittingTargets, SingleWriters, IInv, StagedInv, OrderInv, AssignInv, [AnyNext]_vars
  PROVE  AssignInv'
<1> SUFFICES ASSUME InSettle', ~changed'
             PROVE  OverlayInv' /\ \E C \in SUBSET (Instance \ {Top}) : Ahead(C)'
  BY DEF AssignInv
<1>1. CASE SettleAction
  <2>1. PICK t : Moves(t)
    BY <1>1, SettleMoves
  <2>2. InSettle /\ ~changed
    BY <1>1, <2>1, SettlesQuietly
  <2>3. OverlayInv
    BY <2>2 DEF AssignInv
  <2>4. PICK B \in SUBSET (Instance \ {Top}) : Ahead(B)
    BY <2>2 DEF AssignInv
  <2>5. AssignsHeld
    BY <1>1, <2>3, SettleAssigns
  <2> QED
    BY <2>4, <2>5 DEF AssignsHeld
<1>2. ASSUME NEW f, NEW n, StartPass(f, n)
      PROVE  OverlayInv' /\ \E C \in SUBSET (Instance \ {Top}) : Ahead(C)'
  BY <1>2, PassIsAhead
<1>3. CASE UNCHANGED vars /\ InSettle
  <2>1. ~changed
    BY <1>3 DEF vars, settling
  <2>2. OverlayInv
    BY <1>3, <2>1 DEF AssignInv
  <2>3. PICK B \in SUBSET (Instance \ {Top}) : Ahead(B)
    BY <1>3, <2>1 DEF AssignInv
  <2>4. OverlayInv' /\ Ahead(B)'
    BY <1>3, <2>2, <2>3, AheadStays
  <2> QED
    BY <2>4
<1> QED
  BY <1>1, <1>2, <1>3, IntoPass

\* When a settle ends nothing waits and nothing is to change the frame.
LEMMA QuietAssigns ==
  ASSUME AssignInv, Converged
  PROVE  \A i \in Instance : \A d \in AssignDrives(i, frame) : Delivered(d)
<1>1. InSettle /\ ~changed /\ todo = <<>>
  BY DEF Converged, EndOfPass, Quiet
<1>2. (\A w : ~Waits(w)) /\ (\A i : ~Differs(i))
  BY <1>1, ListedItems DEF Waits, Differs, Commits
<1>3. PICK B \in SUBSET (Instance \ {Top}) : Ahead(B)
  BY <1>1 DEF AssignInv
<1>4. B = {}
  <2> SUFFICES ASSUME B # {} PROVE FALSE
    OBVIOUS
  <2>1. PICK c \in B : Parent(c) \notin B
    BY HierarchyAssumption DEF Parent
  <2> QED
    BY <1>2, <1>3, <2>1 DEF Ahead, EnteredLater
<1>5. ASSUME NEW i \in Instance, NEW d \in AssignDrives(i, frame) PROVE Delivered(d)
  <2>1. PICK k \in 1..Len(Design[i].assigns) :
          \E n \in 1..Len(Design[i].assigns[k].target.leaves) : d = AssignDrive(i, k, n, frame)
    BY DEF AssignDrives
  <2>2. PICK n \in 1..Len(Design[i].assigns[k].target.leaves) : d = AssignDrive(i, k, n, frame)
    BY <2>1
  <2>3. AssignOK(i, k, n)
    BY <1>2, <1>3, <1>4 DEF Ahead, ModuleOK, AllAssigned
  <2> QED
    BY <1>2, <2>2, <2>3 DEF AssignOK
<1> QED
  BY <1>5

-----------------------------------------------------------------------------
(* The theorem. *)

\* When a settle ends, every continuous assignment holds of the values it ends
\* with, in every design whose targets fit the signals they name and in which
\* nothing else writes the bits an assignment writes: no pass that reports no
\* change has assigned from values that a later one replaced, and no commit has
\* lost what was assigned (execute_continuous_assign, OverlayValues,
\* commit_overlay_to_frame).
THEOREM AssignsHold == ASSUME FittingTargets, SingleWriters PROVE Spec => []AssignsSettle
<1>1. Init => OrderInv /\ AssignInv
  BY DEF Init, OrderInv, AssignInv, InSettle
<1>2. IInv /\ StagedInv /\ OrderInv /\ [AnyNext]_vars => OrderInv'
  BY OrderPreserves
<1>3. IInv /\ StagedInv /\ OrderInv /\ AssignInv /\ [AnyNext]_vars => AssignInv'
  BY AssignPreserves
<1>4. AssignInv => AssignsSettle
  BY QuietAssigns DEF AssignsSettle
<1> QED
  BY <1>1, <1>2, <1>3, <1>4, SpecIsAny, StagedInductive, PTL DEF AnySpec

=============================================================================
