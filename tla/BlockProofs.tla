---------------------------- MODULE BlockProofs ----------------------------
(***************************************************************************)
(* Proofs about the settle loop, for every design whose always_comb blocks *)
(* write signals of their own: when a settle ends, every block holds of    *)
(* the values it ends with.                                                *)
(***************************************************************************)
EXTENDS AssignProofs

-----------------------------------------------------------------------------
(* What a pass that reports no change knows of the blocks of an instance.  *)

BodyOf(i, k)   == Design[i].blocks[k].body
BlockRun(i, k) == Run(i, BodyOf(i, k), frame, memories[i])

\* The signals that an item of a block is to write.
ToWrite(w) ==
  CASE w.op = "comb" /\ w.at \in BlocksOf(w.inst, "comb") -> WriteSets[BodyOf(w.inst, w.at)]
    [] w.op = "stmt"     -> WriteSets[w.stmt]
    [] w.op = CombLeafOp -> {w.leaf.name}
    [] OTHER             -> {}

\* The overlay of an instance has vectors, and what no code of it writes it
\* has as the frame does.
SignalsOK(i) ==
  Commits(i) =>
    \A n \in DOMAIN overlay :
      /\ n \in Names(i)
      /\ n \in CombWrites(i) => IsVector(overlay[n], Binding(i, n).view)
      /\ n \notin Vars(i) \cup CombWrites(i) => InFrame(i, n)

\* What a block that waits is to write, and what is committed, the overlay has
\* as the frame does; the block that runs writes other signals.
BlockItem(w) ==
  /\ w.op = "comb" =>
       /\ \A n \in ToWrite(w) \cap DOMAIN overlay : InFrame(w.inst, n)
       /\ \A v \in Items(todo) :
            v.op \in BlockOps /\ v.inst = w.inst => ToWrite(v) \cap ToWrite(w) = {}
  /\ w.op = "commit" =>
       \A n \in w.done \cap CombWrites(w.inst) \cap DOMAIN overlay : InFrame(w.inst, n)

SignalsInv(i) == SignalsOK(i) /\ \A w \in Items(todo) : w.inst = i => BlockItem(w)

\* A signal that no block is to write any more will change the frame.
StillWritten(i, n) == \E w \in Items(todo) : w.inst = i /\ n \in ToWrite(w)

BlockDiffers(i) ==
  Commits(i) /\ \E n \in CombWrites(i) \cap DOMAIN overlay : ~InFrame(i, n) /\ ~StillWritten(i, n)

\* A block that runs is in front of the work, with the overlay as its table.
InFront(work, s, i) ==
  /\ Len(work) <= Len(s)
  /\ \A k \in 1..Len(work) : s[k] = work[k] /\ s[k].op \in BlockOps /\ s[k].inst = i
  /\ \A k \in 1..Len(s) : k > Len(work) => s[k].op \notin BlockOps

RunsAt(i, st) == IsSequence(st.work) /\ InFront(st.work, todo, i) /\ st.table = Overlaid(i)

Running(i, k) ==
  Commits(i) /\ \E m \in Nat : BlockRun(i, k)[m].work # <<>> /\ RunsAt(i, BlockRun(i, k)[m])

\* Or has come to an end that the frame agrees with.
HasSettled(i, k) ==
  \E m \in Nat : BlockRun(i, k)[m].work = <<>> /\ HasRun(i, BodyOf(i, k), BlockRun(i, k)[m])

BlockOK(i, k) == Waits(ItemAt("comb", i, k)) \/ Running(i, k) \/ HasSettled(i, k)

BlocksOK(i) ==
  \/ Waits(Item("module", i)) \/ Differs(i) \/ BlockDiffers(i)
  \/ \A k \in BlocksOf(i, "comb") : BlockOK(i, k)

\* B are the instances a pass has not come to.
BlocksDue(B) ==
  /\ \A c \in B : EnteredLater(c, B)
  /\ \A i \in Instance \ B : SingleBlocks(i) => BlocksOK(i)

BlockInv ==
  InSettle /\ ~changed =>
    /\ \A i \in Instance : SingleBlocks(i) => SignalsInv(i)
    /\ \E B \in SUBSET (Instance \ {Top}) : BlocksDue(B)

-----------------------------------------------------------------------------
(* Proofs: the run of a block, step by step.                               *)

RunNext(i, s, f, mem, h, k) ==
  IF k = 0 THEN RunState(<<StmtItem("stmt", i, s)>>, Table(i, f)) ELSE Executed(i, h[k - 1], mem)

\* The first n steps of a run.
IsStart(g, n, i, s, f, mem) == g = [k \in 0..n |-> RunNext(i, s, f, mem, g, k)]

LEMMA StartSteps ==
  ASSUME NEW i, NEW s, NEW f, NEW mem, NEW n \in Nat, NEW g, IsStart(g, n, i, s, f, mem),
         NEW k \in 0..n
  PROVE  g[k] = RunNext(i, s, f, mem, g, k)
  BY DEF IsStart

\* Two of them agree as far as they go.
LEMMA StartsAgree ==
  ASSUME NEW i, NEW s, NEW f, NEW mem, NEW n \in Nat, NEW g, IsStart(g, n, i, s, f, mem),
         NEW m \in Nat, NEW h, IsStart(h, m, i, s, f, mem)
  PROVE  \A k \in 0..n : k \in 0..m => g[k] = h[k]
<1> DEFINE S == {k \in Nat : k <= n /\ k <= m /\ g[k] # h[k]}
<1> SUFFICES ASSUME S # {} PROVE FALSE
  OBVIOUS
<1>1. S \in SUBSET Nat
  OBVIOUS
<1>2. PICK k \in S : \A j \in S : k <= j
  <2> HIDE DEF S
  <2> QED
    BY <1>1, LeastNumber
<1>3. k \in 0..n /\ k \in 0..m /\ g[k] # h[k]
  OBVIOUS
<1>4. k # 0 => g[k - 1] = h[k - 1]
  <2> SUFFICES ASSUME k # 0, g[k - 1] # h[k - 1] PROVE FALSE
    OBVIOUS
  <2>1. k - 1 \in S
    BY <1>3
  <2> HIDE DEF S
  <2> QED
    BY <1>1, <1>2, <2>1
<1> HIDE DEF S
<1>5. g[k] = RunNext(i, s, f, mem, g, k) /\ h[k] = RunNext(i, s, f, mem, h, k)
  BY <1>3, StartSteps
<1>6. RunNext(i, s, f, mem, g, k) = RunNext(i, s, f, mem, h, k)
  BY <1>4 DEF RunNext
<1> QED
  BY <1>3, <1>5, <1>6

\* A run has a start of any length.
LEMMA StartsExist ==
  ASSUME NEW i, NEW s, NEW f, NEW mem
  PROVE  \A n \in Nat : \E g : IsStart(g, n, i, s, f, mem)
<1> DEFINE P(n) == \E g : IsStart(g, n, i, s, f, mem)
           S == {n \in Nat : ~P(n)}
<1> SUFFICES ASSUME S # {} PROVE FALSE
  OBVIOUS
<1>1. S \in SUBSET Nat
  OBVIOUS
<1>2. PICK n \in S : \A j \in S : n <= j
  <2> HIDE DEF S
  <2> QED
    BY <1>1, LeastNumber
<1>3. n \in Nat /\ ~P(n)
  OBVIOUS
<1>4. n # 0
  <2> SUFFICES ASSUME n = 0 PROVE FALSE
    OBVIOUS
  <2> DEFINE g == [k \in 0..0 |-> RunState(<<StmtItem("stmt", i, s)>>, Table(i, f))]
  <2>1. \A k \in 0..0 : RunNext(i, s, f, mem, g, k) = RunState(<<StmtItem("stmt", i, s)>>, Table(i, f))
    BY DEF RunNext
  <2>2. g = [k \in 0..0 |-> RunNext(i, s, f, mem, g, k)]
    BY <2>1
  <2> HIDE DEF g
  <2>3. IsStart(g, 0, i, s, f, mem)
    BY <2>2 DEF IsStart
  <2> QED
    BY <1>3, <2>3
<1>5. n - 1 \in Nat /\ P(n - 1)
  <2>1. n - 1 \in Nat /\ ~(n <= n - 1)
    BY <1>3, <1>4
  <2>2. n - 1 \notin S
    BY <1>2, <2>1
  <2> QED
    BY <2>1, <2>2
<1>6. PICK g : IsStart(g, n - 1, i, s, f, mem)
  BY <1>5
<1> DEFINE h == [k \in 0..n |-> RunNext(i, s, f, mem, g, k)]
<1>7. \A k \in 0..(n - 1) : h[k] = g[k]
  <2> SUFFICES ASSUME NEW k \in 0..(n - 1) PROVE h[k] = g[k]
    OBVIOUS
  <2>1. k \in 0..n
    BY <1>3
  <2>2. g[k] = RunNext(i, s, f, mem, g, k)
    BY <1>5, <1>6, StartSteps
  <2> QED
    BY <2>1, <2>2
<1>8. \A k \in 0..n : RunNext(i, s, f, mem, g, k) = RunNext(i, s, f, mem, h, k)
  <2> SUFFICES ASSUME NEW k \in 0..n PROVE RunNext(i, s, f, mem, g, k) = RunNext(i, s, f, mem, h, k)
    OBVIOUS
  <2>1. k # 0 => k - 1 \in 0..(n - 1)
    BY <1>3
  <2>2. k # 0 => h[k - 1] = g[k - 1]
    BY <1>7, <2>1
  <2> HIDE DEF h
  <2> QED
    BY <2>2 DEF RunNext
<1>9. h = [k \in 0..n |-> RunNext(i, s, f, mem, h, k)]
  BY <1>8
<1> HIDE DEF h
<1>10. IsStart(h, n, i, s, f, mem)
  BY <1>9 DEF IsStart
<1> QED
  BY <1>3, <1>10

\* So the run of a statement is its steps, one after the other.
IsRun(run, i, mem) == \A k \in Nat : run[k + 1] = Executed(i, run[k], mem)

LEMMA RunUnfolds ==
  ASSUME NEW i, NEW s, NEW f, NEW mem
  PROVE  /\ Run(i, s, f, mem)[0] = RunState(<<StmtItem("stmt", i, s)>>, Table(i, f))
         /\ IsRun(Run(i, s, f, mem), i, mem)
<1> DEFINE G(n) == CHOOSE g : IsStart(g, n, i, s, f, mem)
           H == [n \in Nat |-> G(n)[n]]
           R == CHOOSE h : h = [k \in Nat |->
                  IF k = 0 THEN RunState(<<StmtItem("stmt", i, s)>>, Table(i, f))
                  ELSE Executed(i, h[k - 1], mem)]
<1>1. \A n \in Nat : IsStart(G(n), n, i, s, f, mem)
  BY StartsExist
<1> HIDE DEF G
<1>2. ASSUME NEW k \in Nat
      PROVE  H[k] = IF k = 0 THEN RunState(<<StmtItem("stmt", i, s)>>, Table(i, f))
                    ELSE Executed(i, H[k - 1], mem)
  <2>1. H[k] = RunNext(i, s, f, mem, G(k), k)
    <3>1. k \in 0..k
      OBVIOUS
    <3>2. G(k)[k] = RunNext(i, s, f, mem, G(k), k)
      BY <1>1, <3>1, StartSteps
    <3> QED
      BY <3>2
  <2>2. k # 0 => H[k - 1] = G(k)[k - 1]
    <3> SUFFICES ASSUME k # 0 PROVE H[k - 1] = G(k)[k - 1]
      OBVIOUS
    <3>1. k - 1 \in Nat /\ k - 1 \in 0..k /\ k - 1 \in 0..(k - 1)
      OBVIOUS
    <3>2. G(k - 1)[k - 1] = G(k)[k - 1]
      BY <1>1, <3>1, StartsAgree
    <3> QED
      BY <3>1, <3>2
  <2> HIDE DEF H
  <2> QED
    BY <2>1, <2>2 DEF RunNext
<1>3. H = [k \in Nat |-> IF k = 0 THEN RunState(<<StmtItem("stmt", i, s)>>, Table(i, f))
                         ELSE Executed(i, H[k - 1], mem)]
  <2>1. H = [k \in Nat |-> H[k]]
    OBVIOUS
  <2> HIDE DEF H
  <2> QED
    BY <1>2, <2>1
<1>4. R = [k \in Nat |-> IF k = 0 THEN RunState(<<StmtItem("stmt", i, s)>>, Table(i, f))
                         ELSE Executed(i, R[k - 1], mem)]
  <2> HIDE DEF H
  <2> QED
    BY <1>3
<1>5. R = Run(i, s, f, mem)
  BY DEF Run
<1> HIDE DEF R
<1>6. \A k \in Nat : R[k + 1] = Executed(i, R[k], mem)
  <2> SUFFICES ASSUME NEW k \in Nat PROVE R[k + 1] = Executed(i, R[k], mem)
    OBVIOUS
  <2>1. k + 1 \in Nat /\ k + 1 # 0 /\ (k + 1) - 1 = k
    OBVIOUS
  <2>2. R[k + 1] = Executed(i, R[(k + 1) - 1], mem)
    BY <1>4, <2>1
  <2> QED
    BY <2>1, <2>2
<1>7. R[0] = RunState(<<StmtItem("stmt", i, s)>>, Table(i, f))
  BY <1>4
<1> QED
  BY <1>5, <1>6, <1>7 DEF IsRun

-----------------------------------------------------------------------------
(* What the actions of a pass put in the place of the work of blocks.      *)

AreBranches(t, i, l) ==
  \E body \in Branches(Code[l]) :
    IsBody(body) /\ t = [k \in 1..Len(body) |-> StmtItem("stmt", i, body[k])]

\* The statements that a statement chooses are some of its branches.
LEMMA ChosenStatements ==
  ASSUME NEW l \in Label, Code[l].kind # "assign", NEW i, NEW table, NEW mem,
         NEW t, t = ChosenItems(i, Code[l], table, mem)
  PROVE  AreBranches(t, i, l)
<1> DEFINE s == Code[l]
           V(e) == ValueIn(e, i, table, mem)
           body == Chosen(s, V)
<1>1. body \in Branches(s)
  <2>1. CASE s.kind = "empty"
    BY <2>1 DEF Chosen, Branches
  <2>2. CASE s.kind = "block"
    BY <2>2 DEF Chosen, Branches
  <2>3. CASE s.kind = "if"
    BY <2>3 DEF Chosen, Branches
  <2>4. CASE s.kind = "case"
    <3> DEFINE hits == Arm(s, V(s.expr), V)
    <3>1. body = <<IF hits = {} THEN s.default ELSE s.arms[Min(hits)].body>>
      BY <2>4 DEF Chosen
    <3>2. hits \subseteq 1..Len(s.arms)
      BY DEF Arm
    <3> HIDE DEF hits, body
    <3>3. CASE hits = {}
      BY <2>4, <3>1, <3>3 DEF Branches
    <3>4. CASE hits # {}
      <4>1. Len(s.arms) \in Nat
        BY <2>4, CodeAssumption, SequenceLength
      <4>2. hits \in SUBSET Nat
        BY <3>2, <4>1
      <4>3. Min(hits) \in 1..Len(s.arms)
        BY <3>2, <3>4, <4>2, MinInSet
      <4> QED
        BY <2>4, <3>1, <3>4, <4>3 DEF Branches
    <3> QED
      BY <3>3, <3>4
  <2> QED
    BY <2>1, <2>2, <2>3, <2>4, CodeAssumption
<1>2. IsBody(body)
  <2> HIDE DEF body
  <2> QED
    BY <1>1, BranchIsBody
<1>3. t = [k \in 1..Len(body) |-> StmtItem("stmt", i, body[k])]
  BY DEF ChosenItems
<1> HIDE DEF body
<1> QED
  BY <1>1, <1>2, <1>3 DEF AreBranches

\* Work of a kind of an instance, that writes some signals.
IsWork(t, op, i, W) ==
  IsSequence(t) /\ \A u \in Items(t) : u.op = op /\ u.inst = i /\ ToWrite(u) \subseteq W

\* They are work of blocks, and write what it writes.
LEMMA ChosenWork ==
  ASSUME NEW l \in Label, Code[l].kind # "assign", NEW i, NEW table, NEW mem,
         NEW t, t = ChosenItems(i, Code[l], table, mem)
  PROVE  IsWork(t, "stmt", i, WriteSets[l])
<1>a. AreBranches(t, i, l)
  BY ChosenStatements
<1>1. PICK body \in Branches(Code[l]) :
        IsBody(body) /\ t = [k \in 1..Len(body) |-> StmtItem("stmt", i, body[k])]
  BY <1>a DEF AreBranches
<1>2. Len(body) \in Nat
  BY <1>1, SequenceLength DEF IsBody
<1>3. \A k \in 1..Len(body) : t[k].op = "stmt" /\ t[k].inst = i /\ t[k].stmt = body[k]
  BY <1>1 DEF StmtItem
<1>4. t = [k \in 1..Len(body) |-> t[k]]
  BY <1>1
<1>5. IsSequence(t) /\ Items(t) = {t[k] : k \in 1..Len(body)}
  BY <1>2, <1>4, ListedItems
<1>6. ASSUME NEW u \in Items(t)
      PROVE  u.op = "stmt" /\ u.inst = i /\ ToWrite(u) \subseteq WriteSets[l]
  <2>1. PICK k \in 1..Len(body) : u = t[k]
    BY <1>5
  <2>2. body[k] \in Substatements(l)
    BY <1>1, BranchesAreSubstatements
  <2>3. WriteSets[body[k]] \subseteq WriteSets[l]
    BY <2>2, WriteSetsGather DEF Gathered
  <2>4. ToWrite(u) = WriteSets[body[k]]
    BY <1>3, <2>1, OpKinds DEF ToWrite
  <2> QED
    BY <1>3, <2>1, <2>3, <2>4
<1> QED
  BY <1>5, <1>6 DEF IsWork

\* So are the writes of an assignment.
LEMMA WriteWork ==
  ASSUME NEW l \in Label, Code[l].kind = "assign", ~HasMemoryLeaf(Code[l].target),
         NEW i, NEW table, NEW mem, NEW t, t = WriteItems(i, Code[l], table, mem)
  PROVE  IsWork(t, CombLeafOp, i, WriteSets[l])
<1> DEFINE target == Code[l].target
           v == ValueIn(Code[l].expr, i, table, mem)
<1>1. IsSequence(target.leaves)
  BY CodeAssumption
<1>2. \A n \in 1..Len(target.leaves) : target.leaves[n].kind # "memory"
  BY DEF HasMemoryLeaf
<1>3. \A n \in 1..Len(target.leaves) : target.leaves[n].name \in WriteSets[l]
  BY <1>2, LeavesAreWritten
<1>4. t = LeafItems(CombLeafOp, i, target, v)
  BY Zenon DEF WriteItems, CombLeafOp
<1> HIDE DEF target, v
<1>5. IsSequence(t) /\ Items(t) = LeafWrites(CombLeafOp, i, target, v)
  BY <1>1, <1>4, LeafItemsItems
<1>6. ASSUME NEW u \in Items(t)
      PROVE  u.op = CombLeafOp /\ u.inst = i /\ ToWrite(u) \subseteq WriteSets[l]
  <2>1. PICK n \in 1..Len(target.leaves) :
          u = LeafItem(CombLeafOp, i, target.leaves[n], LeafBits(target, target.leaves[n], v))
    BY <1>5 DEF LeafWrites
  <2>2. u.op = CombLeafOp /\ u.inst = i /\ u.leaf = target.leaves[n]
    BY <2>1, WaitedParts
  <2>3. ToWrite(u) = {target.leaves[n].name}
    BY <2>2, OpKinds DEF ToWrite
  <2> QED
    BY <1>3, <2>2, <2>3
<1> QED
  BY <1>5, <1>6 DEF IsWork

\* A step of the run of a block does what the action does: its head gives way
\* to t, and its table stays the overlay.
RunsBy(t, i) ==
  \A st : IsSequence(st.work) /\ st.work # <<>> /\ Head(st.work) = Head(todo) /\ st.table = Overlaid(i)
            => Executed(i, st, memories[i]) = RunState(t \o Tail(st.work), Overlaid(i)')

\* New work of a block is to write what its head was.
Brings(t) ==
  \A u \in Items(t) : u.op \in BlockOps /\ u.inst = Head(todo).inst /\ ToWrite(u) \subseteq ToWrite(Head(todo))

\* Work of blocks is of their instance.
LEMMA BroughtArranged ==
  ASSUME Head(todo).op \in CodeOps \ AssignOps, \E x : Moves(x),
         NEW t, IsSequence(t), todo' = t \o Tail(todo), Brings(t),
         ToWrite(Head(todo)) \subseteq CombWrites(Head(todo).inst)
  PROVE  Moves(t) /\ Arranged(t)
<1>1. ASSUME NEW u \in Items(t) PROVE IsModules(u)
  <2>1. u.op \in BlockOps /\ u.inst = Head(todo).inst /\ ToWrite(u) \subseteq CombWrites(u.inst)
    BY DEF Brings
  <2>2. u.op = "stmt" => WriteSets[u.stmt] \subseteq CombWrites(u.inst)
    BY <2>1, OpKinds DEF ToWrite
  <2>3. u.op = CombLeafOp => u.leaf.name \in CombWrites(u.inst)
    BY <2>1, OpKinds DEF ToWrite
  <2> QED
    BY <2>1, <2>2, <2>3, OpKinds DEF IsModules
<1> QED
  BY <1>1, CombArranged DEF Brings

\* What is waited for of a block is of the blocks of its instance.
LEMMA WaitingWrites ==
  ASSUME InSettle, OrderInv, NEW w \in Items(todo)
  PROVE  ToWrite(w) \subseteq CombWrites(w.inst)
<1>1. IsModules(w)
  BY DEF OrderInv
<1>2. CASE w.op = "comb" /\ w.at \in BlocksOf(w.inst, "comb")
  BY <1>2, OpKinds DEF ToWrite, CombWrites, BodyOf
<1>3. CASE w.op = "stmt"
  BY <1>1, <1>3, OpKinds DEF ToWrite, IsModules
<1>4. CASE w.op = CombLeafOp
  BY <1>1, <1>4, OpKinds DEF ToWrite, IsModules
<1>5. CASE ~(w.op = "comb" /\ w.at \in BlocksOf(w.inst, "comb")) /\ w.op # "stmt" /\ w.op # CombLeafOp
  BY <1>5 DEF ToWrite
<1> QED
  BY <1>2, <1>3, <1>4, <1>5

\* The head of an action of a block.
LEMMA BlockHead ==
  ASSUME IInv, StagedInv, CombBlock \/ CombControl \/ CombAssign \/ CombLeaf
  PROVE  /\ InSettle /\ IsSequence(todo) /\ todo # <<>> /\ Head(todo) \in Items(todo)
         /\ Head(todo).inst \in Instance
         /\ Head(todo).op \in CodeOps \ AssignOps
         /\ CombBlock => Head(todo).op = "comb" /\ Head(todo).at \in 1..Len(Design[Head(todo).inst].blocks)
         /\ CombControl \/ CombAssign => Head(todo).op = "stmt" /\ Head(todo).stmt \in Label
         /\ CombLeaf => Head(todo).op = CombLeafOp
<1>1. CASE CombBlock
  <2>1. "comb" \in SettleOps /\ Doing("comb")
    BY <1>1, Zenon DEF SettleOps, CombBlock
  <2>2. /\ InSettle /\ IsSequence(todo) /\ todo # <<>> /\ Head(todo) \in Items(todo)
        /\ Head(todo).op = "comb" /\ IsItem(Head(todo))
    BY <2>1, DoingInPass
  <2>3. ~(CombControl \/ CombAssign \/ CombLeaf)
    BY <2>2, HeadOps, OpKinds
  <2> QED
    BY <2>2, <2>3, OpKinds DEF IsItem
<1>2. CASE CombControl \/ CombAssign
  <2>1. "stmt" \in SettleOps /\ Doing("stmt")
    BY <1>2, Zenon DEF SettleOps, CombControl, CombAssign
  <2>2. /\ InSettle /\ IsSequence(todo) /\ todo # <<>> /\ Head(todo) \in Items(todo)
        /\ Head(todo).op = "stmt" /\ IsItem(Head(todo))
    BY <2>1, DoingInPass
  <2>3. ~(CombBlock \/ CombLeaf)
    BY <2>2, HeadOps, OpKinds
  <2> QED
    BY <2>2, <2>3, OpKinds DEF IsItem
<1>3. CASE CombLeaf
  <2>1. CombLeafOp \in SettleOps /\ Doing(CombLeafOp)
    BY <1>3, Zenon DEF CombLeaf, SettleOps, CombLeafOp
  <2>2. /\ InSettle /\ IsSequence(todo) /\ todo # <<>> /\ Head(todo) \in Items(todo)
        /\ Head(todo).op = CombLeafOp /\ Head(todo).inst \in Instance
    BY <2>1, DoingInPass DEF IsItem
  <2>3. ~(CombControl \/ CombAssign \/ CombBlock)
    BY <2>2, HeadOps, OpKinds
  <2> QED
    BY <2>2, <2>3, OpKinds
<1> QED
  BY <1>1, <1>2, <1>3


\* A statement gives way to what its run gives way to.
LEMMA StatementRuns ==
  ASSUME IInv, StagedInv, OrderInv, CombControl \/ CombAssign, NEW i, i = Head(todo).inst
  PROVE  \E t : Moves(t) /\ Arranged(t) /\ Brings(t) /\ RunsBy(t, i)
<1>1. PICK l : l = Head(todo).stmt
  OBVIOUS
<1>2. PICK table : table = Overlaid(i)
  OBVIOUS
<1>3. PICK mem : mem = memories[i]
  OBVIOUS
<1>4. /\ InSettle /\ Head(todo) \in Items(todo) /\ Head(todo).op \in CodeOps \ AssignOps
      /\ Head(todo).op = "stmt" /\ l \in Label
  BY <1>1, BlockHead
<1>5. ToWrite(Head(todo)) = WriteSets[l] /\ ToWrite(Head(todo)) \subseteq CombWrites(Head(todo).inst)
  BY <1>1, <1>4, WaitingWrites, OpKinds DEF ToWrite
<1>6. Overlaid(i)' = table
  BY <1>2 DEF CombControl, CombAssign, settling, Overlaid
<1>7. \E x : Moves(x)
  BY CodeMoves
<1> DEFINE t == IF Code[l].kind = "assign" THEN WriteItems(i, Code[l], table, mem)
                ELSE ChosenItems(i, Code[l], table, mem)
<1>8. RunsBy(t, i)
  <2> SUFFICES ASSUME NEW st, IsSequence(st.work), st.work # <<>>, Head(st.work) = Head(todo),
                      st.table = Overlaid(i)
               PROVE  Executed(i, st, memories[i]) = RunState(t \o Tail(st.work), Overlaid(i)')
    BY DEF RunsBy
  <2> HIDE DEF t
  <2>1. Executed(i, st, mem) = RunStmt(i, Code[l], st, mem)
    BY <1>1, <1>4 DEF Executed
  <2>2. RunStmt(i, Code[l], st, mem) = RunState(t \o Tail(st.work), st.table)
    BY <1>2 DEF RunStmt, t
  <2> QED
    BY <1>2, <1>3, <1>6, <2>1, <2>2
<1>9. todo' = t \o Tail(todo)
  <2>1. CASE CombAssign
    <3>1. Code[l].kind = "assign"
      BY <1>1, <2>1 DEF CombAssign, Head1
    <3>2. todo' = WriteItems(i, Code[l], table, mem) \o Tail(todo)
      BY <1>1, <1>2, <1>3, <2>1, Zenon DEF CombAssign, Push, Head1, WriteItems, CombValue
    <3> QED
      BY <3>1, <3>2
  <2>2. CASE CombControl
    <3>1. Code[l].kind # "assign"
      BY <1>1, <2>2 DEF CombControl, Head1
    <3>2. todo' = ChosenItems(i, Code[l], table, mem) \o Tail(todo)
      BY <1>1, <1>2, <1>3, <2>2 DEF CombControl, Push, Head1, ChosenItems, CombValue
    <3> QED
      BY <3>1, <3>2
  <2> QED
    BY <2>1, <2>2
<1>10. IsSequence(t) /\ Brings(t)
  <2>1. CASE Code[l].kind = "assign"
    <3>1. ~HasMemoryLeaf(Code[l].target)
      BY <1>1, <2>1 DEF CombAssign, CombControl, Head1
    <3>2. PICK x : x = WriteItems(i, Code[l], table, mem)
      OBVIOUS
    <3>3. IsWork(x, CombLeafOp, i, WriteSets[l])
      BY <1>4, <2>1, <3>1, <3>2, WriteWork
    <3>4. t = x
      BY <2>1, <3>2
    <3> QED
      BY <1>4, <1>5, <3>3, <3>4, OpKinds DEF Brings, IsWork
  <2>2. CASE Code[l].kind # "assign"
    <3>1. PICK x : x = ChosenItems(i, Code[l], table, mem)
      OBVIOUS
    <3>2. IsWork(x, "stmt", i, WriteSets[l])
      BY <1>4, <2>2, <3>1, ChosenWork
    <3>3. t = x
      BY <2>2, <3>1
    <3> QED
      BY <1>4, <1>5, <3>2, <3>3, OpKinds DEF Brings, IsWork
  <2> QED
    BY <2>1, <2>2
<1> HIDE DEF t
<1>11. Moves(t) /\ Arranged(t)
  BY <1>4, <1>5, <1>7, <1>9, <1>10, BroughtArranged
<1> QED
  BY <1>8, <1>10, <1>11


\* The write of a leaf is done as its run does it.
LEMMA LeafRuns ==
  ASSUME IInv, StagedInv, CombLeaf, NEW i, i = Head(todo).inst
  PROVE  Moves(<<>>) /\ RunsBy(<<>>, i)
<1>1. Head(todo).op = CombLeafOp /\ frame' = frame
  BY HeadOps DEF CombLeaf
<1>2. PICK leaf : leaf = Head(todo).leaf
  OBVIOUS
<1>3. PICK bits : bits = Head(todo).bits
  OBVIOUS
<1>4. PICK table : table = Overlaid(i)
  OBVIOUS
<1>5. DOMAIN table = Names(i)
  BY <1>4 DEF Overlaid
<1>6. /\ DOMAIN overlay' = DOMAIN overlay \cup {leaf.name}
      /\ \A n \in DOMAIN overlay : n # leaf.name => overlay'[n] = overlay[n]
      /\ overlay'[leaf.name] = Merged(leaf, table[leaf.name], bits)
  BY <1>2, <1>3, <1>4 DEF CombLeaf, OverlayLeaf, Head1
<1>7. Overlaid(i)' = [table EXCEPT ![leaf.name] = Merged(leaf, table[leaf.name], bits)]
  BY <1>1, <1>4, <1>6 DEF Overlaid
<1>8. ASSUME NEW st, IsSequence(st.work), st.work # <<>>, Head(st.work) = Head(todo), st.table = Overlaid(i)
      PROVE  Executed(i, st, memories[i]) = RunState(<<>> \o Tail(st.work), Overlaid(i)')
  <2>1. Executed(i, st, memories[i]) = RunLeaf(Head(todo), st)
    BY <1>1, <1>8, OpKinds DEF Executed
  <2>2. RunLeaf(Head(todo), st)
          = RunState(Tail(st.work), [table EXCEPT ![leaf.name] = Merged(leaf, table[leaf.name], bits)])
    BY <1>2, <1>3, <1>4, <1>8 DEF RunLeaf
  <2>3. Tail(st.work) = <<>> \o Tail(st.work)
    BY <1>8, PopReplaces
  <2> QED
    BY <1>7, <2>1, <2>2, <2>3
<1>9. Moves(<<>>)
  BY PoppingMoves
<1> QED
  BY <1>8, <1>9 DEF RunsBy

\* A block gives way to its statement; one that is clocked to nothing.
LEMMA BlockEnters ==
  ASSUME IInv, StagedInv, OrderInv, CombBlock, NEW i, i = Head(todo).inst, NEW k, k = Head(todo).at
  PROVE  /\ k \in BlocksOf(i, "comb") =>
              LET t == <<StmtItem("stmt", i, BodyOf(i, k))>>
              IN  Moves(t) /\ Arranged(t) /\ Brings(t)
         /\ k \notin BlocksOf(i, "comb") => Moves(<<>>)
<1>1. /\ Head(todo) \in Items(todo) /\ IsSequence(todo) /\ todo # <<>> /\ InSettle
      /\ Head(todo).op = "comb" /\ Head(todo).op \in CodeOps \ AssignOps
      /\ k \in 1..Len(Design[i].blocks)
  BY BlockHead
<1>2. \E x : Moves(x)
  BY CodeMoves
<1>3. ASSUME k \in BlocksOf(i, "comb")
      PROVE  LET t == <<StmtItem("stmt", i, BodyOf(i, k))>>
             IN  Moves(t) /\ Arranged(t) /\ Brings(t)
  <2> DEFINE w == StmtItem("stmt", i, BodyOf(i, k))
             t == <<w>>
  <2>1. Design[i].blocks[k].kind = "comb"
    BY <1>3 DEF BlocksOf
  <2>2. todo' = t \o Tail(todo)
    BY <2>1 DEF CombBlock, Push, Head1, BodyOf
  <2>3. w.op = "stmt" /\ w.inst = i /\ w.stmt = BodyOf(i, k)
    BY DEF StmtItem
  <2> HIDE DEF w
  <2>4. IsSequence(t) /\ Items(t) = {w}
    BY ListedItems
  <2>5. ToWrite(w) = WriteSets[BodyOf(i, k)]
    BY <2>3, OpKinds DEF ToWrite
  <2>6. ToWrite(Head(todo)) = WriteSets[BodyOf(i, k)]
    BY <1>1, <1>3, OpKinds DEF ToWrite
  <2>7. ToWrite(Head(todo)) \subseteq CombWrites(Head(todo).inst)
    BY <1>1, WaitingWrites
  <2> HIDE DEF t
  <2>8. Brings(t)
    BY <2>3, <2>4, <2>5, <2>6, OpKinds DEF Brings
  <2>9. Moves(t) /\ Arranged(t)
    BY <1>1, <1>2, <2>2, <2>4, <2>7, <2>8, BroughtArranged
  <2> QED
    BY <2>8, <2>9 DEF t, w
<1>4. ASSUME k \notin BlocksOf(i, "comb") PROVE Moves(<<>>)
  <2>1. Design[i].blocks[k].kind # "comb"
    BY <1>1, <1>4 DEF BlocksOf
  <2>2. todo' = <<>> \o Tail(todo) /\ IsSequence(<<>>)
    BY <1>1, <2>1, PopReplaces DEF CombBlock, Pop, Head1
  <2>3. Items(<<>>) = {}
    BY ListedItems
  <2> QED
    BY <1>2, <2>2, <2>3, MovesTo
<1> QED
  BY <1>3, <1>4

\* Every action of a block, with what it puts in the place of its head.
LEMMA BlockBrings ==
  ASSUME IInv, StagedInv, OrderInv, CombBlock \/ CombControl \/ CombAssign \/ CombLeaf
  PROVE  \E t : Moves(t) /\ Arranged(t) /\ Brings(t)
<1>1. Brings(<<>>) /\ Arranged(<<>>)
  BY ListedItems, PopArranged DEF Brings
<1>2. PICK i : i = Head(todo).inst
  OBVIOUS
<1>3. CASE CombControl \/ CombAssign
  BY <1>2, <1>3, StatementRuns
<1>4. CASE CombLeaf
  BY <1>1, <1>2, <1>4, LeafRuns
<1>5. CASE CombBlock
  <2>1. PICK k : k = Head(todo).at
    OBVIOUS
  <2>2. CASE k \in BlocksOf(i, "comb")
    BY <1>2, <1>5, <2>1, <2>2, BlockEnters
  <2>3. CASE k \notin BlocksOf(i, "comb")
    BY <1>1, <1>2, <1>5, <2>1, <2>3, BlockEnters
  <2> QED
    BY <2>2, <2>3
<1> QED
  BY <1>3, <1>4, <1>5


-----------------------------------------------------------------------------
(* What a pass that reports no change keeps of an instance's commit.       *)

\* The head of the other actions.
LEMMA OtherHeads ==
  /\ EnterModule => Head(todo).op = "module"
  /\ EnterChild => Head(todo).op = "child"
  /\ ContinuousAssign => Head(todo).op = "assign"
  /\ SinkOutput => Head(todo).op = "sink"
  BY Zenon DEF EnterModule, EnterChild, ContinuousAssign, SinkOutput, Doing, Head1

\* An instance that is to commit is at its code, or commits.
LEMMA CommitsAtHead ==
  ASSUME InSettle, OrderInv, IsSequence(todo), todo # <<>>, NEW i, Commits(i)
  PROVE  /\ Head(todo).inst = i
         /\ Head(todo).op \in CodeOps \/ Head(todo).op = "commit"
         /\ Head(todo).op = "commit" => \A w \in Items(todo) : w.op = "commit" => w = Head(todo)
<1>1. PICK w \in Items(todo) : w.op = "commit" /\ w.inst = i
  BY DEF Commits
<1>2. w # Head(todo) => Head(todo).op \in CodeOps /\ Head(todo).inst = i
  BY <1>1, HeadFirst, OpKinds DEF Before
<1>3. ASSUME Head(todo).op = "commit", NEW v \in Items(todo), v.op = "commit", v # Head(todo) PROVE FALSE
  <2>1. Head(todo).op \in CodeOps
    BY <1>3, HeadFirst, OpKinds DEF Before
  <2> QED
    BY <1>3, <2>1, OpKinds
<1> QED
  BY <1>1, <1>2, <1>3

\* It is still to, until its commit ends.
LEMMA CommitsStay ==
  ASSUME SingleWriters, IInv, StagedInv, OrderInv, ~changed', SettleAction, ~EndCommit, NEW i, Commits(i)
  PROVE  Commits(i)'
<1>1. CASE CommitName \/ RefreshName
  <2>1. PICK n : CommitDone(n)
    BY <1>1 DEF CommitName, RefreshName
  <2>2. PICK u : u.op = "commit" /\ u.inst = Head(todo).inst /\ Moves(<<u>>)
    BY <1>1, <2>1, CommitArranges
  <2>3. QuietMove(<<u>>) /\ u \in Items(<<u>>)
    BY <2>2, SettlesQuietly, ListedItems
  <2> QED
    BY <2>2, <2>3, CommitsOn
<1>2. CASE ~(CommitName \/ RefreshName)
  <2>1. PICK t : Moves(t)
    BY SettleMoves
  <2>2. QuietMove(t)
    BY <2>1, SettlesQuietly
  <2>3. Head(todo).op # "commit"
    <3>1. "commit" \notin {"input", "drive", LeafOp, CombLeafOp, AssignLeafOp, "comb", "stmt",
                           "module", "child", "assign", "sink"}
      BY OpKinds
    <3> QED
      BY <1>2, <3>1, HeadOps, OtherHeads DEF SettleAction
  <2> QED
    BY <2>2, <2>3, CommitsOn
<1> QED
  BY <1>1, <1>2

\* Which actions write the overlay.
LEMMA OverlayWriters ==
  ASSUME SettleAction PROVE overlay' = overlay \/ EnterModule \/ AssignLeaf \/ CombLeaf
  BY DEF SettleAction, ApplyInput, EnterChild, ContinuousAssign, CombBlock, CombControl, CombAssign,
         CommitName, RefreshName, EndCommit, DriveInput, SinkOutput, SinkLeaf, settling

\* The write of a leaf of a block.
LEMMA CombLeafWrites ==
  ASSUME IInv, StagedInv, OrderInv, ~changed', CombLeaf, NEW i \in Instance, Commits(i)
  PROVE  /\ Head(todo).inst = i /\ Head(todo) \in Items(todo) /\ InSettle
         /\ Head(todo).op = CombLeafOp
         /\ ToWrite(Head(todo)) = {Head(todo).leaf.name} /\ Head(todo).leaf.name \in CombWrites(i)
         /\ frame' = frame /\ QuietMove(<<>>)
         /\ DOMAIN overlay' = DOMAIN overlay \cup {Head(todo).leaf.name}
         /\ \A n \in DOMAIN overlay : n # Head(todo).leaf.name => overlay'[n] = overlay[n]
         /\ overlay'[Head(todo).leaf.name]
              = Merged(Head(todo).leaf, Overlaid(i)[Head(todo).leaf.name], Head(todo).bits)
<1>1. /\ InSettle /\ IsSequence(todo) /\ todo # <<>> /\ Head(todo) \in Items(todo)
      /\ Head(todo).op = CombLeafOp
  BY BlockHead
<1>2. Head(todo).inst = i
  BY <1>1, CommitsAtHead
<1>3. ToWrite(Head(todo)) = {Head(todo).leaf.name}
  BY <1>1, OpKinds DEF ToWrite
<1>4. ToWrite(Head(todo)) \subseteq CombWrites(i)
  BY <1>1, <1>2, WaitingWrites
<1>5. QuietMove(<<>>)
  BY PoppingMoves, SettlesQuietly DEF SettleAction
<1>6. PICK name : name = Head(todo).leaf.name
  OBVIOUS
<1>7. overlay' = [n \in DOMAIN overlay \cup {name} |->
                    IF n = name THEN Merged(Head(todo).leaf, Overlaid(i)[n], Head(todo).bits) ELSE overlay[n]]
  BY <1>2, <1>6 DEF CombLeaf, OverlayLeaf, Head1
<1>8. /\ DOMAIN overlay' = DOMAIN overlay \cup {name}
      /\ \A n \in DOMAIN overlay : n # name => overlay'[n] = overlay[n]
      /\ overlay'[name] = Merged(Head(todo).leaf, Overlaid(i)[name], Head(todo).bits)
  BY <1>7
<1> QED
  BY <1>1, <1>2, <1>3, <1>4, <1>5, <1>6, <1>8 DEF QuietMove


-----------------------------------------------------------------------------
(* What the actions of a pass put into its work, for the blocks of i.      *)

CommitOK(w) ==
  w.op = "commit" => \A n \in w.done \cap CombWrites(w.inst) \cap DOMAIN overlay : InFrame(w.inst, n)

NewWork(t, i) ==
  \A u \in Items(t) :
    /\ u.op \in BlockOps => /\ Head(todo).op \in CodeOps \ AssignOps
                            /\ u.inst = Head(todo).inst /\ ToWrite(u) \subseteq ToWrite(Head(todo))
    /\ u.op = "comb" => Head(todo).op = "module"
    /\ u.op = "commit" => Head(todo).op \in {"module", "commit"}
    /\ Head(todo).op = "commit" => u.inst = Head(todo).inst
    /\ u.inst = i => CommitOK(u)

\* No work, and work that is none of a module's blocks or commit.
LEMMA PlainWork ==
  /\ \A i : NewWork(<<>>, i)
  /\ \A t, i : Head(todo).op # "commit" /\ (\A u \in Items(t) : u.op \notin BlockOps \cup {"comb", "commit"})
                 => NewWork(t, i)
  BY ListedItems DEF NewWork, CommitOK

\* The signals of blocks that are their own.
LEMMA BlockSignals ==
  ASSUME FittingTargets, NEW i \in Instance, SingleBlocks(i), NEW n \in CombWrites(i)
  PROVE  /\ n \in Names(i) /\ n \notin Design[i].childDriven /\ FitsObject(Binding(i, n))
         /\ IsNet(Binding(i, n).obj) => n \in DOMAIN Design[i].specials /\ Special(i, n) = "replace"
<1>1. PICK j \in BlocksOf(i, "comb") : n \in WriteSets[Design[i].blocks[j].body]
  BY DEF CombWrites
<1>2. n \in Names(i) \ Design[i].childDriven
  BY <1>1 DEF SingleBlocks
<1> QED
  BY <1>1, <1>2, DrivesFit DEF SingleBlocks

\* A name that is committed: the frame had its value.
LEMMA CommitSettled ==
  ASSUME FittingTargets, SingleWriters, IInv, StagedInv, OrderInv, ~changed', CommitName \/ RefreshName,
         NEW i \in Instance, SingleBlocks(i), SignalsInv(i)
  PROVE  \E t : Moves(t) /\ Arranged(t) /\ NewWork(t, i)
<1>1. "commit" \in SettleOps /\ Doing("commit")
  BY Zenon DEF CommitName, RefreshName, SettleOps
<1>2. Head(todo) \in Items(todo) /\ Head(todo).op = "commit" /\ InSettle /\ IsFrame(frame)
  BY <1>1, DoingInPass, DoingInSettle
<1>3. PICK n : CommitDone(n) /\ (Head(todo).inst = i /\ n \in CombWrites(i) \cap DOMAIN overlay => InFrame(i, n))
  <2>1. CASE CommitName
    <3> DEFINE h == Head(todo).inst
               b(n) == Binding(h, n)
    <3>1. PICK n \in ToCommit(h) \ Head(todo).done :
            /\ CommitDone(n)
            /\ CASE ~IsNet(b(n).obj) ->
                      WriteFrame(b(n), overlay[n]) /\ UNCHANGED drivers
                 [] IsNet(b(n).obj) /\ Special(h, n) = "replace" ->
                      /\ WriteFrame(b(n), overlay[n])
                      /\ ReplaceDriver(b(n).obj, Stored(b(n), overlay[n]))
                 [] IsNet(b(n).obj) /\ Special(h, n) = "stage" ->
                      StageIfUndriven(b(n), overlay[n]) /\ KeepFrame
      BY <2>1 DEF CommitName, Head1
    <3>2. ASSUME h = i, n \in CombWrites(i), n \in DOMAIN overlay PROVE InFrame(i, n)
      <4>1. (IsNet(b(n).obj) => Special(i, n) = "replace") /\ FitsObject(b(n))
        BY <3>2, BlockSignals
      <4>2. WriteFrame(b(n), overlay[n])
        BY <3>1, <3>2, <4>1
      <4>3. frame[b(n).obj] = Stored(b(n), overlay[n])
        BY <4>2 DEF WriteFrame
      <4>4. Commits(i)
        BY <1>2, <3>2 DEF Commits
      <4>5. IsVector(overlay[n], b(n).view)
        BY <3>2, <4>4 DEF SignalsInv, SignalsOK
      <4>6. ReadBinding(b(n), frame) = overlay[n]
        BY <4>1, <4>3, <4>5, StoredReadsBack
      <4> QED
        BY <3>2, <4>6 DEF InFrame
    <3> QED
      BY <3>1, <3>2
  <2>2. CASE RefreshName
    <3>1. PICK n \in ToRefresh(Head(todo).inst) \ Head(todo).done : CommitDone(n)
      BY <2>2 DEF RefreshName, Head1
    <3>2. n \notin DOMAIN overlay
      BY <3>1 DEF ToRefresh
    <3> QED
      BY <3>1, <3>2
  <2> QED
    BY <2>1, <2>2
<1>4. PICK u : /\ u.op = "commit" /\ u.inst = Head(todo).inst
               /\ u.done = Head(todo).done \cup {n}
               /\ Moves(<<u>>) /\ Arranged(<<u>>)
  BY <1>3, CommitArranges
<1>5. Head(todo).inst = i => CommitOK(u)
  <2>1. Head(todo).inst = i => CommitOK(Head(todo))
    BY <1>2 DEF SignalsInv, BlockItem, CommitOK
  <2> QED
    BY <1>2, <1>3, <1>4, <2>1 DEF CommitOK
<1>6. NewWork(<<u>>, i)
  BY <1>2, <1>4, <1>5, ListedItems, OpKinds DEF NewWork
<1> QED
  BY <1>4, <1>6

\* Every action of a pass puts such work in the place of the head.
LEMMA WorkBrought ==
  ASSUME FittingTargets, SingleWriters, IInv, StagedInv, OrderInv, ~changed', SettleAction,
         NEW i \in Instance, SingleBlocks(i), SignalsInv(i)
  PROVE  \E t : Moves(t) /\ Arranged(t) /\ NewWork(t, i)
<1>1. CASE ApplyInput \/ AssignLeaf \/ CombLeaf \/ EndCommit \/ DriveInput
  BY <1>1, PoppingMoves, PopArranged, PlainWork
<1>2. CASE SinkLeaf
  BY <1>2, SinkLeafMoves, PopArranged, PlainWork
<1>3. CASE EnterModule
  <2>1. /\ Head1.inst \in Instance /\ Head(todo).op = "module"
        /\ Moves(ModuleWork(Head1.inst)) /\ Arranged(ModuleWork(Head1.inst))
    BY <1>3, EnterArranges
  <2>2. PICK q : q = Head1.inst
    OBVIOUS
  <2>3. \A u \in Items(ModuleWork(q)) :
          u.op \in {"assign", "comb", "commit", "child"} /\ (u.op = "commit" => u.done = {})
    BY <2>1, <2>2, ModuleItems, ModuleArranged
  <2>4. NewWork(ModuleWork(q), i)
    BY <2>1, <2>3, OpKinds DEF NewWork, CommitOK
  <2> QED
    BY <2>1, <2>2, <2>4
<1>4. CASE EnterChild
  <2>1. /\ Head1.inst \in Instance /\ Head(todo).op = "child"
        /\ Moves(ChildWork(Head1.inst)) /\ Arranged(ChildWork(Head1.inst))
    BY <1>4, OutsideArranges
  <2>2. PICK q : q = Head1.inst
    OBVIOUS
  <2>3. \A u \in Items(ChildWork(q)) : u.op \in {"drive", "module", "sink"}
    BY <2>1, <2>2, ChildItems, ItemParts
  <2>4. \A u \in Items(ChildWork(q)) : u.op \notin BlockOps \cup {"comb", "commit"}
    BY <2>3, OpKinds
  <2>5. NewWork(ChildWork(q), i)
    BY <2>1, <2>4, PlainWork
  <2> QED
    BY <2>1, <2>2, <2>5
<1>5. CASE SinkOutput
  <2>1. PICK t : /\ Moves(t) /\ Arranged(t) /\ Head(todo).op = "sink"
                 /\ \A u \in Items(t) : u.op = LeafOp
    BY <1>5, OutsideArranges
  <2>2. \A u \in Items(t) : u.op \notin BlockOps \cup {"comb", "commit"}
    BY <2>1, OpKinds
  <2> QED
    BY <2>1, <2>2, PlainWork
<1>6. CASE ContinuousAssign
  <2>1. Moves(AssignWork) /\ Arranged(AssignWork) /\ Head(todo).op = "assign"
    BY <1>6, AssignArranges
  <2>2. \A u \in Items(AssignWork) : u.op \in AssignOps
    BY <2>1, OpKinds DEF Arranged, Narrows
  <2>3. \A u \in Items(AssignWork) : u.op \notin BlockOps \cup {"comb", "commit"}
    BY <2>2, OpKinds
  <2> QED
    BY <2>1, <2>3, PlainWork
<1>7. CASE CombBlock \/ CombControl \/ CombAssign
  <2>1. PICK t : Moves(t) /\ Arranged(t) /\ Brings(t)
    BY <1>7, BlockBrings
  <2>2. Head(todo).op \in CodeOps \ AssignOps
    BY <1>7, BlockHead
  <2>3. NewWork(t, i)
    BY <2>1, <2>2, OpKinds DEF NewWork, Brings, CommitOK
  <2> QED
    BY <2>1, <2>3
<1>8. CASE CommitName \/ RefreshName
  BY <1>8, CommitSettled
<1>9. ApplyInput \/ EnterModule \/ EnterChild \/ ContinuousAssign \/ AssignLeaf \/ CombBlock \/ CombControl
       \/ CombAssign \/ CombLeaf \/ CommitName \/ RefreshName \/ EndCommit \/ DriveInput \/ SinkOutput \/ SinkLeaf
  BY Zenon DEF SettleAction
<1>10. \E t : Moves(t) /\ Arranged(t) /\ NewWork(t, i)
  BY <1>1, <1>2, <1>3, <1>4, <1>5, <1>6, <1>7, <1>8, <1>9
<1> QED
  BY <1>10

-----------------------------------------------------------------------------
(* What a pass that reports no change keeps of the signals of blocks.      *)

\* A name of the overlay after an action: it was there, an assignment wrote it
\* or put it there as the frame has it, or the block that runs wrote it.
Overlays(i, n) ==
  \/ n \in DOMAIN overlay /\ overlay'[n] = overlay[n]
  \/ AssignLeaf /\ n \in Vars(i)
  \/ AssignLeaf /\ n \in Names(i) /\ n \notin DOMAIN overlay /\ InFrame(i, n)'
  \/ /\ Head(todo).op = CombLeafOp /\ n \in ToWrite(Head(todo)) /\ n \in CombWrites(i)
     /\ IsVector(overlay'[n], Binding(i, n).view)

\* A write over a vector is one again.
LEMMA MergedVector ==
  ASSUME NEW w \in Nat, NEW old, IsVector(old, w), NEW leaf, NEW bits
  PROVE  IsVector(Merged(leaf, old, bits), w)
<1>1. Len(old) = w
  BY VectorBits
<1> QED
  BY <1>1, CoercedBits DEF Merged, ReplaceSlice, IsVector

\* What an instance reads of a signal of a block is a vector.
LEMMA OverlaidVectors ==
  ASSUME FittingTargets, NEW i \in Instance, SingleBlocks(i), SignalsInv(i), Commits(i),
         NEW n \in CombWrites(i)
  PROVE  IsVector(Overlaid(i)[n], Binding(i, n).view) /\ Binding(i, n).view \in Nat
<1>1. n \in Names(i) /\ FitsObject(Binding(i, n))
  BY BlockSignals
<1>2. Overlaid(i)[n] = IF n \in DOMAIN overlay THEN overlay[n] ELSE ReadBinding(Binding(i, n), frame)
  BY <1>1 DEF Overlaid
<1>3. n \in DOMAIN overlay => IsVector(overlay[n], Binding(i, n).view)
  BY DEF SignalsInv, SignalsOK
<1> QED
  BY <1>1, <1>2, <1>3, FrameVectors

\* Every action of a pass but the entry of a module.
LEMMA OverlayMoves ==
  ASSUME FittingTargets, SingleWriters, IInv, StagedInv, OrderInv, OverlayInv, ~changed', SettleAction,
         ~EnterModule, NEW i \in Instance, SingleBlocks(i), SignalsInv(i), Commits(i)
  PROVE  /\ DOMAIN overlay \subseteq DOMAIN overlay'
         /\ \A n \in DOMAIN overlay' : Overlays(i, n)
<1>1. CASE overlay' = overlay
  BY <1>1 DEF Overlays
<1>2. CASE AssignLeaf
  <2>1. PICK leaf : leaf = Head(todo).leaf
    OBVIOUS
  <2>2. PICK bits : bits = Head(todo).bits
    OBVIOUS
  <2>3. i = Head(todo).inst /\ frame' = frame
    BY <1>2, LeafLeaves
  <2>4. /\ leaf.name \in Names(i) /\ leaf.kind # "memory" /\ Head(todo) \in Items(todo)
        /\ Head(todo).op = AssignLeafOp
        /\ NetSignal(i, leaf.name) <=> leaf.name \notin Vars(i)
        /\ DOMAIN overlay' = DOMAIN overlay \cup {leaf.name}
        /\ \A n \in DOMAIN overlay : n # leaf.name => overlay'[n] = overlay[n]
        /\ NetSignal(i, leaf.name) => overlay'[leaf.name] = ReadBinding(Binding(i, leaf.name), frame)
    BY <1>2, <2>1, <2>2, <2>3, LeafWritten
  <2>5. leaf.name \notin Vars(i) => InFrame(i, leaf.name)'
    BY <2>3, <2>4 DEF InFrame
  <2>6. leaf.name \notin Vars(i) /\ leaf.name \in DOMAIN overlay => InFrame(i, leaf.name)
    <3>1. AssignsWait
      BY <2>4, OpKinds DEF AssignsWait
    <3>2. OverlayOK(i)
      BY DEF OverlayInv
    <3> QED
      BY <3>1, <3>2 DEF OverlayOK
  <2>7. leaf.name \notin Vars(i) /\ leaf.name \in DOMAIN overlay => overlay'[leaf.name] = overlay[leaf.name]
    BY <2>4, <2>6 DEF InFrame
  <2>8. ASSUME NEW n \in DOMAIN overlay' PROVE Overlays(i, n)
    <3>1. CASE n # leaf.name
      BY <2>4, <3>1 DEF Overlays
    <3>2. CASE n = leaf.name
      BY <1>2, <2>4, <2>5, <2>7, <3>2 DEF Overlays
    <3> QED
      BY <3>1, <3>2
  <2> QED
    BY <2>4, <2>8
<1>3. CASE CombLeaf
  <2>1. PICK name : name = Head(todo).leaf.name
    OBVIOUS
  <2>2. PICK leaf : leaf = Head(todo).leaf
    OBVIOUS
  <2>3. /\ Head(todo).op = CombLeafOp /\ ToWrite(Head(todo)) = {name} /\ name \in CombWrites(i)
        /\ DOMAIN overlay' = DOMAIN overlay \cup {name}
        /\ \A n \in DOMAIN overlay : n # name => overlay'[n] = overlay[n]
        /\ overlay'[name] = Merged(leaf, Overlaid(i)[name], Head(todo).bits)
    BY <1>3, <2>1, <2>2, CombLeafWrites
  <2>4. IsVector(Overlaid(i)[name], Binding(i, name).view) /\ Binding(i, name).view \in Nat
    BY <2>3, OverlaidVectors
  <2>5. IsVector(overlay'[name], Binding(i, name).view)
    BY <2>3, <2>4, MergedVector
  <2> QED
    BY <2>3, <2>5 DEF Overlays
<1> QED
  BY <1>1, <1>2, <1>3, OverlayWriters

\* Work after an action of a pass.
LEMMA WorkAfter ==
  ASSUME IInv, OrderInv, SettleAction, ~changed', NEW t, Moves(t), Arranged(t)
  PROVE  /\ InSettle /\ QuietMove(t) /\ frame' = frame /\ memories' = memories
         /\ Head(todo) \in Items(todo) /\ Items(t) \subseteq Items(todo')
         /\ \A w \in Items(todo') : w \in Items(t) \/ (w \in Items(todo) /\ Before(Head(todo), w))
         /\ \A w \in Items(t) : Narrows(w)
<1>1. QuietMove(t) /\ InSettle
  BY SettlesQuietly
<1>2. IsSequence(todo) /\ todo # <<>> /\ IsSequence(t) /\ Replaces(todo', todo, t)
  BY <1>1 DEF QuietMove, Moves
<1>3. \A w \in Items(todo') : w \in Items(t) \/ (w \in Items(todo) /\ Before(Head(todo), w))
  BY <1>1, <1>2, ArrangedKeeps
<1> QED
  BY <1>1, <1>3, ItemsAfter DEF QuietMove, Arranged

\* A module is entered: the overlay is empty, and no block runs.
LEMMA EnterSignals ==
  ASSUME SingleWriters, IInv, StagedInv, OrderInv, ~changed', EnterModule, NEW i,
         NEW t, Moves(t), Arranged(t), NewWork(t, i)
  PROVE  SignalsInv(i)'
<1>1. DOMAIN overlay' = {} /\ Head(todo).op = "module" /\ SettleAction
  BY OtherHeads DEF EnterModule, Nothing, SettleAction
<1>2. \A w \in Items(todo') : w \in Items(t) \/ (w \in Items(todo) /\ Before(Head(todo), w))
  BY <1>1, WorkAfter
<1>3. \A w \in Items(todo') : w.op \notin BlockOps
  <2>1. \A w \in Items(t) : w.op \notin BlockOps
    BY <1>1, OpKinds DEF NewWork
  <2>2. \A w : Before(Head(todo), w) => w.op \notin BlockOps
    BY <1>1, OpKinds DEF Before
  <2> QED
    BY <1>2, <2>1, <2>2
<1>4. SignalsOK(i)'
  BY <1>1 DEF SignalsOK
<1>5. \A w \in Items(todo') : BlockItem(w)'
  BY <1>1, <1>3 DEF BlockItem
<1> QED
  BY <1>4, <1>5 DEF SignalsInv

\* What a block that waits is to write, the head does not, and nothing of it is new.
LEMMA WaitingApart ==
  ASSUME InSettle, OrderInv, NEW i \in Instance, SingleBlocks(i), SignalsInv(i),
         NEW w \in Items(todo), Before(Head(todo), w), w.op = "comb", w.inst = i,
         Head(todo) \in Items(todo), Head(todo).op \in CodeOps \ AssignOps
  PROVE  Head(todo).inst = i /\ ToWrite(Head(todo)) \cap ToWrite(w) = {}
<1>1. Head(todo).inst = i
  BY OpKinds DEF Before
<1>2. CASE Head(todo).op \in BlockOps
  BY <1>1, <1>2 DEF SignalsInv, BlockItem
<1>3. CASE Head(todo).op = "comb"
  <2>1. Head(todo).at # w.at
    BY <1>3 DEF Before
  <2>2. ASSUME NEW n \in ToWrite(Head(todo)), n \in ToWrite(w) PROVE FALSE
    <3>1. Head(todo).at \in BlocksOf(i, "comb") /\ n \in WriteSets[BodyOf(i, Head(todo).at)]
      BY <1>1, <1>3, <2>2, OpKinds DEF ToWrite
    <3>2. w.at \in BlocksOf(i, "comb") /\ n \in WriteSets[BodyOf(i, w.at)]
      BY <2>2, OpKinds DEF ToWrite
    <3> QED
      BY <2>1, <3>1, <3>2 DEF SingleBlocks, BodyOf
  <2> QED
    BY <1>1, <2>2
<1> QED
  BY <1>2, <1>3 DEF CodeOps

\* The other actions keep what is known of the signals.
LEMMA SignalsKept ==
  ASSUME FittingTargets, SingleWriters, IInv, StagedInv, OrderInv, OverlayInv, ~changed', SettleAction,
         ~EnterModule, NEW i \in Instance, SingleBlocks(i), SignalsInv(i),
         NEW t, Moves(t), Arranged(t), NewWork(t, i)
  PROVE  SignalsInv(i)'
<1>1. /\ InSettle /\ QuietMove(t) /\ frame' = frame /\ Head(todo) \in Items(todo)
      /\ \A w \in Items(todo') : w \in Items(t) \/ (w \in Items(todo) /\ Before(Head(todo), w))
  BY WorkAfter
<1>2. Head(todo).op # "module"
  <2>1. "module" \notin {"input", "drive", LeafOp, CombLeafOp, AssignLeafOp, "commit", "comb", "stmt",
                         "child", "assign", "sink"}
    BY Zenon DEF LeafOp, CombLeafOp, AssignLeafOp
  <2> QED
    BY <2>1, HeadOps, OtherHeads DEF SettleAction
<1>3. Commits(i)' => Commits(i)
  <2> SUFFICES ASSUME NEW w \in Items(todo'), w.op = "commit", w.inst = i PROVE Commits(i)
    BY DEF Commits
  <2>1. CASE w \in Items(t)
    <3>1. Head(todo).op = "commit" /\ Head(todo).inst = i
      BY <1>2, <2>1 DEF NewWork
    <3> QED
      BY <1>1, <3>1 DEF Commits
  <2>2. CASE w \in Items(todo)
    BY <2>2 DEF Commits
  <2> QED
    BY <1>1, <2>1, <2>2
<1>4. \A n : InFrame(i, n) /\ n \in DOMAIN overlay /\ overlay'[n] = overlay[n] => InFrame(i, n)'
  BY <1>1 DEF InFrame
<1>5. \A n \in CombWrites(i) : n \notin Vars(i)
  BY VarsApart
<1>6. SignalsOK(i)'
  <2> SUFFICES ASSUME Commits(i), NEW n \in DOMAIN overlay'
               PROVE  /\ n \in Names(i)
                      /\ n \in CombWrites(i) => IsVector(overlay'[n], Binding(i, n).view)
                      /\ n \notin Vars(i) \cup CombWrites(i) => InFrame(i, n)'
    BY <1>3 DEF SignalsOK
  <2>1. Overlays(i, n)
    BY OverlayMoves
  <2>2. CASE n \in DOMAIN overlay /\ overlay'[n] = overlay[n]
    BY <1>4, <2>2 DEF SignalsInv, SignalsOK
  <2>3. CASE n \in Vars(i)
    BY <1>5, <2>3, VarsNamed
  <2>4. CASE n \in Names(i) /\ InFrame(i, n)'
    <3>1. FitsObject(Binding(i, n))
      BY <2>4, DrivesFit
    <3>2. overlay'[n] = ReadBinding(Binding(i, n), frame)
      BY <1>1, <2>4 DEF InFrame
    <3> QED
      BY <2>4, <3>1, <3>2, FrameVectors
  <2>5. CASE n \in CombWrites(i) /\ IsVector(overlay'[n], Binding(i, n).view)
    BY <2>5, BlockSignals
  <2> QED
    BY <2>1, <2>2, <2>3, <2>4, <2>5 DEF Overlays
<1>7. ASSUME NEW w \in Items(todo'), w.op = "commit", w.inst = i,
             NEW n \in w.done \cap CombWrites(i) \cap DOMAIN overlay'
      PROVE  InFrame(i, n)'
  <2>1. w \in Items(t) /\ Head(todo).op = "commit"
    BY <1>1, <1>2, <1>7 DEF Before, NewWork
  <2>2. Head(todo).inst = i
    BY <1>7, <2>1 DEF NewWork
  <2>3. Commits(i) /\ ~AssignLeaf
    BY <1>1, <2>1, <2>2, HeadOps, OpKinds DEF Commits
  <2>4. Overlays(i, n)
    BY <2>3, OverlayMoves
  <2>5. n \in DOMAIN overlay /\ overlay'[n] = overlay[n]
    BY <2>1, <2>3, <2>4, OpKinds DEF Overlays
  <2>6. CommitOK(w)
    BY <1>7, <2>1 DEF NewWork
  <2> QED
    BY <1>4, <1>7, <2>5, <2>6 DEF CommitOK
<1>8. ASSUME NEW w \in Items(todo'), w.op = "comb", w.inst = i
      PROVE  /\ w \in Items(todo) /\ Before(Head(todo), w) /\ BlockItem(w)
             /\ Head(todo).op \in CodeOps /\ Head(todo).inst = i
  <2>1. w \in Items(todo) /\ Before(Head(todo), w)
    BY <1>1, <1>2, <1>8 DEF NewWork
  <2> QED
    BY <1>8, <2>1, OpKinds DEF SignalsInv, Before
<1>9. ASSUME NEW w \in Items(todo'), w.op = "comb", w.inst = i,
             NEW v \in Items(todo'), v.op \in BlockOps, v.inst = i
      PROVE  ToWrite(v) \cap ToWrite(w) = {}
  <2>1. CASE v \in Items(todo)
    BY <1>8, <1>9, <2>1 DEF BlockItem
  <2>2. CASE v \in Items(t)
    <3>1. Head(todo).op \in CodeOps \ AssignOps /\ ToWrite(v) \subseteq ToWrite(Head(todo))
      BY <1>9, <2>2 DEF NewWork
    <3>2. ToWrite(Head(todo)) \cap ToWrite(w) = {}
      BY <1>1, <1>8, <1>9, <3>1, WaitingApart
    <3> QED
      BY <3>1, <3>2
  <2> QED
    BY <1>1, <2>1, <2>2
<1>10. ASSUME NEW w \in Items(todo'), w.op = "comb", w.inst = i,
              NEW n \in ToWrite(w) \cap DOMAIN overlay'
       PROVE  InFrame(i, n)'
  <2>1. n \in CombWrites(i) /\ n \notin Vars(i)
    BY <1>1, <1>5, <1>8, <1>10, WaitingWrites
  <2>2. Commits(i)
    BY <1>1, <1>8, <1>10 DEF OrderInv
  <2>3. Overlays(i, n)
    BY <2>2, OverlayMoves
  <2>4. CASE n \in DOMAIN overlay /\ overlay'[n] = overlay[n]
    <3>1. InFrame(i, n)
      BY <1>8, <1>10, <2>4 DEF BlockItem
    <3> QED
      BY <1>4, <2>4, <3>1
  <2>5. ~(Head(todo).op = CombLeafOp /\ n \in ToWrite(Head(todo)))
    <3> SUFFICES ASSUME Head(todo).op = CombLeafOp, n \in ToWrite(Head(todo)) PROVE FALSE
      OBVIOUS
    <3>1. Head(todo).op \in CodeOps \ AssignOps
      BY OpKinds
    <3>2. ToWrite(Head(todo)) \cap ToWrite(w) = {}
      BY <1>1, <1>8, <1>10, <3>1, WaitingApart
    <3> QED
      BY <1>10, <3>2
  <2> QED
    BY <2>1, <2>3, <2>4, <2>5 DEF Overlays
<1>11. ASSUME NEW w \in Items(todo'), w.inst = i PROVE BlockItem(w)'
  BY <1>7, <1>9, <1>10, <1>11 DEF BlockItem
<1> QED
  BY <1>6, <1>11 DEF SignalsInv

\* So every action does.
LEMMA SignalsPreserved ==
  ASSUME FittingTargets, SingleWriters, IInv, StagedInv, OrderInv, OverlayInv, ~changed', SettleAction,
         NEW i \in Instance, SingleBlocks(i), SignalsInv(i)
  PROVE  SignalsInv(i)'
<1>1. PICK t : Moves(t) /\ Arranged(t) /\ NewWork(t, i)
  BY WorkBrought
<1>2. CASE EnterModule
  BY <1>1, <1>2, EnterSignals
<1>3. CASE ~EnterModule
  BY <1>1, <1>3, SignalsKept
<1> QED
  BY <1>2, <1>3

\* What is to change the frame still is: the variable of an assignment,
LEMMA VariableDiffers ==
  ASSUME FittingTargets, SingleWriters, IInv, StagedInv, OrderInv, OverlayInv, ~changed', SettleAction,
         ~EnterModule, ~EndCommit, NEW i \in Instance, SingleBlocks(i), SignalsInv(i), Differs(i)
  PROVE  Differs(i)'
<1>1. CASE AssignLeaf
  BY <1>1, LeafDiffers
<1>2. CASE ~AssignLeaf
  <2>1. Commits(i)
    BY DEF Differs
  <2>2. Commits(i)'
    BY <2>1, CommitsStay
  <2>3. PICK n \in Vars(i) \cap DOMAIN overlay : ~InFrame(i, n)
    BY DEF Differs
  <2>4. n \in DOMAIN overlay' /\ Overlays(i, n)
    BY <2>1, <2>3, OverlayMoves
  <2>5. overlay'[n] = overlay[n]
    BY <1>2, <2>3, <2>4, VarsApart DEF Overlays
  <2>6. frame' = frame
    BY SettleMoves, SettlesQuietly DEF QuietMove
  <2> QED
    BY <2>2, <2>3, <2>4, <2>5, <2>6 DEF Differs, InFrame
<1> QED
  BY <1>1, <1>2

\* and the signal of a block that has been written for the last time.
LEMMA SignalDiffers ==
  ASSUME FittingTargets, SingleWriters, IInv, StagedInv, OrderInv, OverlayInv, ~changed', SettleAction,
         ~EnterModule, ~EndCommit, NEW i \in Instance, SingleBlocks(i), SignalsInv(i), BlockDiffers(i)
  PROVE  BlockDiffers(i)'
<1>1. PICK t : Moves(t) /\ Arranged(t) /\ NewWork(t, i)
  BY WorkBrought
<1>2. /\ InSettle /\ QuietMove(t) /\ frame' = frame /\ Head(todo) \in Items(todo)
      /\ \A w \in Items(todo') : w \in Items(t) \/ (w \in Items(todo) /\ Before(Head(todo), w))
  BY <1>1, WorkAfter
<1>3. Commits(i) /\ Commits(i)'
  BY CommitsStay DEF BlockDiffers
<1>4. PICK n \in CombWrites(i) \cap DOMAIN overlay : ~InFrame(i, n) /\ ~StillWritten(i, n)
  BY DEF BlockDiffers
<1>5. n \in DOMAIN overlay' /\ Overlays(i, n) /\ n \notin Vars(i)
  BY <1>3, <1>4, OverlayMoves, VarsApart
<1>6. Head(todo).inst = i /\ Head(todo).op # "module"
  <2>1. IsSequence(todo) /\ todo # <<>>
    BY <1>2 DEF QuietMove
  <2>2. Head(todo).inst = i /\ (Head(todo).op \in CodeOps \/ Head(todo).op = "commit")
    BY <1>2, <1>3, <2>1, CommitsAtHead
  <2> QED
    BY <2>2, OpKinds
<1>7. n \notin ToWrite(Head(todo))
  BY <1>2, <1>4, <1>6 DEF StillWritten
<1>8. overlay'[n] = overlay[n]
  BY <1>4, <1>5, <1>7 DEF Overlays
<1>9. ASSUME NEW w \in Items(todo'), w.inst = i, n \in ToWrite(w) PROVE FALSE
  <2>1. w \in Items(t)
    BY <1>2, <1>4, <1>9 DEF StillWritten
  <2>2. w.op = "comb" \/ w.op \in BlockOps
    BY <1>9, OpKinds DEF ToWrite
  <2>3. ToWrite(w) \subseteq ToWrite(Head(todo))
    BY <1>1, <1>6, <2>1, <2>2 DEF NewWork
  <2> QED
    BY <1>7, <1>9, <2>3
<1>10. ~StillWritten(i, n)' /\ ~InFrame(i, n)'
  BY <1>2, <1>4, <1>8, <1>9 DEF StillWritten, InFrame
<1> QED
  BY <1>3, <1>4, <1>5, <1>10 DEF BlockDiffers

\* And it is while the instance's module is not left: neither the entry of a
\* module nor the end of a commit comes between.
LEMMA DifferingStays ==
  ASSUME FittingTargets, SingleWriters, IInv, StagedInv, OrderInv, OverlayInv, ~changed', SettleAction,
         NEW i \in Instance, SingleBlocks(i), SignalsInv(i), Differs(i) \/ BlockDiffers(i)
  PROVE  (Differs(i) \/ BlockDiffers(i))'
<1>1. Commits(i)
  BY DEF Differs, BlockDiffers
<1>2. /\ InSettle /\ IsSequence(todo) /\ todo # <<>>
  BY SettleHasWork
<1>3. /\ Head(todo).inst = i /\ Head(todo) \in Items(todo)
      /\ Head(todo).op \in CodeOps \/ Head(todo).op = "commit"
      /\ Head(todo).op = "commit" => \A w \in Items(todo) : w.op = "commit" => w = Head(todo)
  BY <1>1, <1>2, CommitsAtHead, HeadWaits
<1>4. ~EnterModule
  BY <1>3, OtherHeads, OpKinds
<1>5. ~EndCommit
  <2> SUFFICES ASSUME EndCommit PROVE FALSE
    OBVIOUS
  <2>1. Head(todo).op = "commit" /\ ToCommit(i) \subseteq Head(todo).done
    BY <1>3, HeadOps DEF EndCommit, Head1
  <2>2. PICK n \in DOMAIN overlay :
          ~InFrame(i, n) /\ (n \in Vars(i) \/ (n \in CombWrites(i) /\ ~StillWritten(i, n)))
    BY DEF Differs, BlockDiffers
  <2>3. n \in ToCommit(i)
    BY <2>2, VarsApart, BlockSignals DEF ToCommit
  <2>4. n \in Vars(i) => InFrame(i, n)
    BY <1>3, <2>1, <2>2, <2>3 DEF OverlayInv, Committed
  <2>5. n \in CombWrites(i) => InFrame(i, n)
    BY <1>3, <2>1, <2>2, <2>3 DEF SignalsInv, BlockItem
  <2> QED
    BY <2>2, <2>4, <2>5
<1> QED
  BY <1>4, <1>5, VariableDiffers, SignalDiffers

-----------------------------------------------------------------------------
(* A block is waited for, runs, or has come to its end.                    *)

\* Work in front stays there when its head and the work's become the same.
LEMMA FrontReplaced ==
  ASSUME NEW work, IsSequence(work), work # <<>>, NEW s, IsSequence(s), s # <<>>,
         NEW i, InFront(work, s, i), NEW t, IsSequence(t),
         \A u \in Items(t) : u.op \in BlockOps /\ u.inst = i, NEW r, Replaces(r, s, t)
  PROVE  IsSequence(t \o Tail(work)) /\ InFront(t \o Tail(work), r, i)
<1>1. PICK x : x = t \o Tail(work)
  OBVIOUS
<1>2. Replaces(x, work, t)
  BY <1>1 DEF Replaces
<1>3. /\ IsSequence(x) /\ Len(t) \in Nat /\ Len(work) \in Nat \ {0}
      /\ Len(x) = Len(t) + Len(work) - 1
      /\ \A k \in 1..Len(t) : k \in 1..Len(x) /\ x[k] = t[k]
      /\ \A k \in 1..Len(x) : k > Len(t) =>
           k - Len(t) + 1 \in 2..Len(work) /\ x[k] = work[k - Len(t) + 1]
  BY <1>2, Replaced
<1>4. /\ Len(s) \in Nat \ {0} /\ Len(r) = Len(t) + Len(s) - 1
      /\ \A k \in 1..Len(t) : k \in 1..Len(r) /\ r[k] = t[k]
      /\ \A k \in 1..Len(r) : k > Len(t) =>
           k - Len(t) + 1 \in 2..Len(s) /\ r[k] = s[k - Len(t) + 1]
  BY Replaced
<1>5. Len(work) <= Len(s)
  BY DEF InFront
<1>6. Len(x) <= Len(r)
  BY <1>3, <1>4, <1>5
<1>7. ASSUME NEW k \in 1..Len(x) PROVE r[k] = x[k] /\ r[k].op \in BlockOps /\ r[k].inst = i
  <2>1. CASE k > Len(t)
    <3>1. k \in 1..Len(r)
      BY <1>3, <1>4, <1>6
    <3>2. PICK m : m = k - Len(t) + 1
      OBVIOUS
    <3>3. m \in 1..Len(work) /\ x[k] = work[m] /\ r[k] = s[m]
      BY <1>3, <1>4, <2>1, <3>1, <3>2
    <3> QED
      BY <3>3 DEF InFront
  <2>2. CASE ~(k > Len(t))
    <3>1. k \in 1..Len(t)
      BY <1>3, <2>2
    <3>2. r[k] = t[k] /\ x[k] = t[k] /\ t[k] \in Items(t)
      BY <1>3, <1>4, <3>1 DEF Items
    <3> QED
      BY <3>2
  <2> QED
    BY <2>1, <2>2
<1>8. ASSUME NEW k \in 1..Len(r), k > Len(x) PROVE r[k].op \notin BlockOps
  <2>1. PICK m : m = k - Len(t) + 1
    OBVIOUS
  <2>2. k > Len(t)
    BY <1>3, <1>8
  <2>3. m \in 1..Len(s) /\ r[k] = s[m] /\ m > Len(work)
    BY <1>3, <1>4, <1>8, <2>1, <2>2
  <2> QED
    BY <2>3 DEF InFront
<1>9. InFront(x, r, i)
  BY <1>6, <1>7, <1>8 DEF InFront
<1> QED
  BY <1>1, <1>3, <1>9

\* What blocks have come to does not change.
LEMMA RunsStay ==
  ASSUME frame' = frame, memories' = memories
  PROVE  /\ \A i, k : BlockRun(i, k)' = BlockRun(i, k)
         /\ \A i, k : HasSettled(i, k) => HasSettled(i, k)'
<1>1. ASSUME NEW i, NEW k PROVE BlockRun(i, k)' = BlockRun(i, k)
  <2>1. PICK r : r = BlockRun(i, k)
    OBVIOUS
  <2>2. r = Run(i, BodyOf(i, k), frame', memories'[i])
    BY <2>1 DEF BlockRun
  <2> QED
    BY <2>1, <2>2 DEF BlockRun
<1>2. ASSUME NEW i, NEW k, HasSettled(i, k) PROVE HasSettled(i, k)'
  <2>1. PICK m \in Nat : BlockRun(i, k)[m].work = <<>> /\ HasRun(i, BodyOf(i, k), BlockRun(i, k)[m])
    BY <1>2 DEF HasSettled
  <2>2. PICK st : st = BlockRun(i, k)[m]
    OBVIOUS
  <2>3. HasRun(i, BodyOf(i, k), st)'
    BY <2>1, <2>2 DEF HasRun
  <2>4. (BlockRun(i, k)[m])' = st
    BY <1>1, <2>2
  <2> QED
    BY <2>1, <2>2, <2>3, <2>4 DEF HasSettled
<1> QED
  BY <1>1, <1>2

\* A block that is entered reads the values of the frame, unless a signal that
\* it may read is to change it.
LEMMA StartsOnFrame ==
  ASSUME InSettle, OrderInv, IsSequence(todo), todo # <<>>, NEW i \in Instance,
         SignalsInv(i), Commits(i), ~Differs(i), ~BlockDiffers(i), Head(todo).op = "comb"
  PROVE  Overlaid(i) = Table(i, frame)
<1>1. ASSUME NEW n \in DOMAIN overlay PROVE InFrame(i, n)
  <2>1. CASE n \in Vars(i)
    BY <1>1, <2>1 DEF Differs
  <2>2. CASE n \in CombWrites(i)
    <3> SUFFICES ASSUME ~InFrame(i, n) PROVE FALSE
      OBVIOUS
    <3>1. PICK w \in Items(todo) : w.inst = i /\ n \in ToWrite(w)
      BY <1>1, <2>2 DEF BlockDiffers, StillWritten
    <3>2. w.op = "comb" \/ w.op \in BlockOps
      BY <3>1, OpKinds DEF ToWrite
    <3>3. w.op # "comb"
      BY <1>1, <3>1 DEF SignalsInv, BlockItem
    <3>4. Before(Head(todo), w)
      BY <3>2, <3>3, HeadFirst
    <3> QED
      BY <3>2, <3>3, <3>4, OpKinds DEF Before
  <2>3. CASE n \notin Vars(i) \cup CombWrites(i)
    BY <1>1, <2>3 DEF SignalsInv, SignalsOK
  <2> QED
    BY <2>1, <2>2, <2>3
<1> QED
  BY <1>1 DEF Overlaid, Table, InFrame

\* A piece of work of a block that comes before other work is in front of it.
LEMMA FrontStarts ==
  ASSUME NEW s, IsSequence(s), s # <<>>, \A m \in 1..Len(s) : m > 1 => s[m].op \notin BlockOps,
         NEW i, NEW w, w.op \in BlockOps, w.inst = i, NEW r, Replaces(r, s, <<w>>)
  PROVE  InFront(<<w>>, r, i)
<1>1. PICK t : t = <<w>>
  OBVIOUS
<1>2. IsSequence(t) /\ Len(t) = 1 /\ t[1] = w
  BY <1>1, ListedItems
<1>a. Replaces(r, s, t) /\ IsSequence(t)
  BY <1>1, <1>2
<1>3. /\ Len(s) \in Nat \ {0} /\ Len(r) = Len(t) + Len(s) - 1
      /\ \A k \in 1..Len(t) : k \in 1..Len(r) /\ r[k] = t[k]
      /\ \A k \in 1..Len(r) : k > Len(t) =>
           k - Len(t) + 1 \in 2..Len(s) /\ r[k] = s[k - Len(t) + 1]
  BY <1>a, Replaced
<1>4. ASSUME NEW k \in 1..Len(r), k > Len(t) PROVE r[k].op \notin BlockOps
  <2>1. PICK m : m = k - Len(t) + 1
    OBVIOUS
  <2>2. m \in 1..Len(s) /\ m > 1 /\ r[k] = s[m]
    BY <1>3, <1>4, <2>1
  <2> QED
    BY <2>2
<1>5. InFront(t, r, i)
  BY <1>2, <1>3, <1>4 DEF InFront
<1> QED
  BY <1>1, <1>5

\* So its run is in front.
LEMMA BlockStarts ==
  ASSUME FittingTargets, SingleWriters, IInv, StagedInv, OrderInv, OverlayInv, ~changed', CombBlock,
         NEW i \in Instance, SingleBlocks(i), SignalsInv(i), ~Differs(i), ~BlockDiffers(i),
         NEW k \in BlocksOf(i, "comb"), Head(todo).inst = i, Head(todo).at = k
  PROVE  Running(i, k)'
<1>1. /\ InSettle /\ IsSequence(todo) /\ todo # <<>> /\ Head(todo) \in Items(todo)
      /\ Head(todo).op = "comb" /\ Head(todo).op \in CodeOps
  BY BlockHead
<1>2. SettleAction /\ overlay' = overlay /\ ~EndCommit
  BY <1>1, HeadOps, OpKinds DEF SettleAction, CombBlock, settling
<1>3. PICK w : w = StmtItem("stmt", i, BodyOf(i, k))
  OBVIOUS
<1>4. PICK t : t = <<w>>
  OBVIOUS
<1>5. Moves(t) /\ Arranged(t) /\ Brings(t)
  <2>1. Moves(<<StmtItem("stmt", i, BodyOf(i, k))>>) /\ Arranged(<<StmtItem("stmt", i, BodyOf(i, k))>>)
          /\ Brings(<<StmtItem("stmt", i, BodyOf(i, k))>>)
    BY BlockEnters
  <2> QED
    BY <1>3, <1>4, <2>1
<1>6. QuietMove(t) /\ frame' = frame /\ memories' = memories
  BY <1>2, <1>5, WorkAfter
<1>7. Commits(i) /\ Commits(i)'
  BY <1>1, <1>2, CommitsStay DEF OrderInv
<1>8. w.op \in BlockOps /\ w.inst = i
  BY <1>3, OpKinds DEF StmtItem
<1>9. IsSequence(t) /\ Len(t) = 1 /\ t[1] = w /\ t # <<>>
  BY <1>4, ListedItems
<1>10. InFront(t, todo', i)
  <2>1. Replaces(todo', todo, t)
    BY <1>5 DEF Moves
  <2>2. ASSUME NEW m \in 1..Len(todo), m > 1 PROVE todo[m].op \notin BlockOps
    <3>1. Len(todo) \in Nat \ {0} /\ Head(todo) = todo[1]
      BY <1>1, SequenceLength, HeadWaits
    <3>2. Before(todo[1], todo[m])
      <4>1. 1 \in 1..Len(todo) /\ 1 < m
        BY <2>2, <3>1
      <4> QED
        BY <1>1, <4>1 DEF OrderInv, InOrder
    <3> QED
      BY <1>1, <3>1, <3>2, OpKinds DEF Before
  <2> QED
    BY <1>1, <1>4, <1>8, <2>1, <2>2, FrontStarts
<1>11. PICK table : table = Table(i, frame)
  OBVIOUS
<1>12. Overlaid(i)' = table
  <2>1. Overlaid(i) = table
    BY <1>1, <1>7, <1>11, StartsOnFrame
  <2> QED
    BY <1>2, <1>6, <2>1 DEF Overlaid
<1>13. PICK st : st = BlockRun(i, k)[0]
  OBVIOUS
<1>14. st.work = t /\ st.table = table
  <2>1. st = RunState(<<StmtItem("stmt", i, BodyOf(i, k))>>, Table(i, frame))
    BY <1>13, RunUnfolds DEF BlockRun
  <2> QED
    BY <1>3, <1>4, <1>11, <2>1 DEF RunState
<1>15. RunsAt(i, st)'
  BY <1>9, <1>10, <1>12, <1>14 DEF RunsAt
<1>16. (BlockRun(i, k)[0])' = st
  BY <1>6, <1>13, RunsStay
<1> QED
  BY <1>7, <1>9, <1>14, <1>15, <1>16 DEF Running

\* The last write of a block leaves what it read and wrote in the overlay, and
\* the frame agrees with it unless it is to change.
LEMMA BlockEnds ==
  ASSUME FittingTargets, NEW i \in Instance, SingleBlocks(i), SignalsInv(i)', ~BlockDiffers(i)', Commits(i)',
         NEW k \in BlocksOf(i, "comb"), \A w \in Items(todo') : w.op \notin BlockOps,
         NEW st, st.table = Overlaid(i)'
  PROVE  HasRun(i, BodyOf(i, k), st)'
<1>1. ASSUME NEW n \in WriteSets[BodyOf(i, k)]
      PROVE  ReadBinding(Binding(i, n), frame') = st.table[n]
  <2>1. n \in CombWrites(i)
    BY <1>1 DEF CombWrites, BodyOf
  <2>2. n \in Names(i)
    BY <2>1, BlockSignals
  <2>3. CASE n \in DOMAIN overlay'
    <3>1. InFrame(i, n)'
      <4> SUFFICES ASSUME ~InFrame(i, n)' PROVE FALSE
        OBVIOUS
      <4>1. PICK w \in Items(todo') : w.inst = i /\ (n \in ToWrite(w))'
        BY <2>1, <2>3 DEF BlockDiffers, StillWritten
      <4>2. n \in ToWrite(w)
        BY <4>1 DEF ToWrite
      <4>3. w.op = "comb"
        BY <4>1, <4>2, OpKinds DEF ToWrite
      <4> QED
        BY <2>3, <4>1, <4>2, <4>3 DEF SignalsInv, BlockItem
    <3> QED
      BY <2>2, <2>3, <3>1 DEF InFrame, Overlaid
  <2>4. CASE n \notin DOMAIN overlay'
    BY <2>2, <2>4 DEF Overlaid
  <2> QED
    BY <2>3, <2>4
<1> QED
  BY <1>1 DEF HasRun

\* The run of a block is its steps.
LEMMA BlockRunSteps ==
  ASSUME NEW i, NEW k
  PROVE  \A m \in Nat : BlockRun(i, k)[m + 1] = Executed(i, BlockRun(i, k)[m], memories[i])
<1>1. PICK mem : mem = memories[i]
  OBVIOUS
<1>2. PICK body : body = BodyOf(i, k)
  OBVIOUS
<1>3. PICK f : f = frame
  OBVIOUS
<1>4. IsRun(Run(i, body, f, mem), i, mem)
  BY RunUnfolds
<1>5. BlockRun(i, k) = Run(i, body, f, mem)
  BY <1>1, <1>2, <1>3 DEF BlockRun
<1> QED
  BY <1>1, <1>4, <1>5 DEF IsRun

\* A block that runs runs on, or comes to its end.
LEMMA BlockRunsOn ==
  ASSUME FittingTargets, SingleWriters, IInv, StagedInv, OrderInv, OverlayInv, ~changed', SettleAction,
         NEW i \in Instance, SingleBlocks(i), SignalsInv(i),
         NEW k \in BlocksOf(i, "comb"), Running(i, k)
  PROVE  Running(i, k)' \/ HasSettled(i, k)' \/ BlockDiffers(i)'
<1>1. PICK m \in Nat : BlockRun(i, k)[m].work # <<>> /\ RunsAt(i, BlockRun(i, k)[m])
  BY DEF Running
<1>2. PICK st : st = BlockRun(i, k)[m]
  OBVIOUS
<1>3. IsSequence(st.work) /\ st.work # <<>> /\ InFront(st.work, todo, i) /\ st.table = Overlaid(i)
  BY <1>1, <1>2 DEF RunsAt
<1>4. InSettle /\ IsSequence(todo) /\ todo # <<>>
  BY SettleHasWork
<1>5. Head(st.work) = Head(todo) /\ Head(todo).op \in BlockOps /\ Head(todo).inst = i
  <2>1. Head(st.work) = st.work[1] /\ 1 \in 1..Len(st.work) /\ Head(todo) = todo[1]
    BY <1>3, <1>4, IsSequenceHead
  <2> QED
    BY <1>3, <2>1 DEF InFront
<1>6. CombControl \/ CombAssign \/ CombLeaf
  BY <1>5, HeadOps, OtherHeads, OpKinds DEF SettleAction
<1>7. PICK t : Moves(t) /\ Arranged(t) /\ Brings(t) /\ RunsBy(t, i)
  <2>1. CASE CombControl \/ CombAssign
    BY <1>5, <2>1, StatementRuns
  <2>2. CASE CombLeaf
    <3>1. Brings(<<>>) /\ Arranged(<<>>)
      BY ListedItems, PopArranged DEF Brings
    <3> QED
      BY <1>5, <2>2, <3>1, LeafRuns
  <2> QED
    BY <1>6, <2>1, <2>2
<1>8. QuietMove(t) /\ frame' = frame /\ memories' = memories
  BY <1>7, WorkAfter
<1>9. Commits(i) /\ Commits(i)' /\ SignalsInv(i)'
  <2>1. ~EndCommit
    BY <1>5, HeadOps, OpKinds
  <2> QED
    BY <2>1, CommitsStay, SignalsPreserved DEF Running
<1>10. IsSequence(t) /\ \A u \in Items(t) : u.op \in BlockOps /\ u.inst = i
  BY <1>5, <1>7 DEF Moves, Brings
<1>11. PICK x : x = t \o Tail(st.work)
  OBVIOUS
<1>12. PICK r : r = todo'
  OBVIOUS
<1>13. IsSequence(x) /\ InFront(x, r, i)
  <2>1. Replaces(r, todo, t)
    BY <1>7, <1>12 DEF Moves
  <2> QED
    BY <1>3, <1>4, <1>10, <1>11, <2>1, FrontReplaced
<1>14. PICK st2 : st2 = BlockRun(i, k)[m + 1]
  OBVIOUS
<1>15. st2.work = x /\ st2.table = Overlaid(i)'
  <2>1. st2 = Executed(i, st, memories[i])
    BY <1>2, <1>14, BlockRunSteps
  <2>2. st2 = RunState(x, Overlaid(i)')
    BY <1>3, <1>5, <1>7, <1>11, <2>1 DEF RunsBy
  <2> QED
    BY <2>2 DEF RunState
<1>16. m + 1 \in Nat /\ (BlockRun(i, k)[m + 1])' = st2
  <2>1. BlockRun(i, k)' = BlockRun(i, k)
    BY <1>8, RunsStay
  <2> QED
    BY <1>14, <2>1
<1>17. CASE x # <<>>
  <2>1. RunsAt(i, st2)'
    BY <1>12, <1>13, <1>15 DEF RunsAt
  <2> QED
    BY <1>9, <1>15, <1>16, <1>17, <2>1 DEF Running
<1>18. CASE x = <<>> /\ ~BlockDiffers(i)'
  <2>1. \A w \in Items(r) : w.op \notin BlockOps
    <3>1. Len(x) = 0
      BY <1>18
    <3>2. Len(r) \in Nat
      BY <1>8, <1>12, SequenceLength, ItemsAfter DEF QuietMove, Moves
    <3> QED
      BY <1>13, <3>1, <3>2 DEF InFront, Items
  <2>2. HasRun(i, BodyOf(i, k), st2)'
    BY <1>9, <1>12, <1>15, <1>18, <2>1, BlockEnds
  <2> QED
    BY <1>15, <1>16, <1>18, <2>2 DEF HasSettled
<1> QED
  BY <1>17, <1>18

\* A block that is waited for runs when the work comes to it.
LEMMA BlockKept ==
  ASSUME FittingTargets, SingleWriters, IInv, StagedInv, OrderInv, OverlayInv, ~changed', SettleAction,
         NEW i \in Instance, SingleBlocks(i), SignalsInv(i), ~Differs(i), ~BlockDiffers(i),
         NEW k \in BlocksOf(i, "comb"), BlockOK(i, k)
  PROVE  BlockOK(i, k)' \/ BlockDiffers(i)'
<1>1. PICK t : Moves(t) /\ Arranged(t) /\ NewWork(t, i)
  BY WorkBrought
<1>2. QuietMove(t) /\ frame' = frame /\ memories' = memories
  BY <1>1, WorkAfter
<1>3. PICK w : w = ItemAt("comb", i, k)
  OBVIOUS
<1>4. w.op = "comb" /\ w.inst = i /\ w.at = k
  BY <1>3, ItemParts
<1>5. CASE Waits(w) /\ w # Head(todo)
  <2>1. Waits(w)'
    BY <1>2, <1>5, WaitsOn
  <2> QED
    BY <1>3, <2>1 DEF BlockOK
<1>6. CASE w = Head(todo)
  <2>1. CombBlock
    BY <1>4, <1>6, HeadOps, OtherHeads, OpKinds DEF SettleAction
  <2>2. Running(i, k)'
    BY <1>4, <1>6, <2>1, BlockStarts
  <2> QED
    BY <2>2 DEF BlockOK
<1>7. CASE Running(i, k)
  BY <1>7, BlockRunsOn DEF BlockOK
<1>8. CASE HasSettled(i, k)
  BY <1>2, <1>8, RunsStay DEF BlockOK
<1> QED
  BY <1>3, <1>5, <1>6, <1>7, <1>8 DEF BlockOK

\* The blocks of an instance, unless its module is entered,
LEMMA BlocksKept ==
  ASSUME FittingTargets, SingleWriters, IInv, StagedInv, OrderInv, OverlayInv, ~changed', SettleAction,
         NEW i \in Instance, SingleBlocks(i), SignalsInv(i), BlocksOK(i), Head(todo) # Item("module", i)
  PROVE  BlocksOK(i)'
<1>1. PICK t : Moves(t) /\ Arranged(t) /\ NewWork(t, i)
  BY WorkBrought
<1>2. QuietMove(t)
  BY <1>1, WorkAfter
<1>3. CASE Waits(Item("module", i))
  <2>1. Waits(Item("module", i))'
    BY <1>2, <1>3, WaitsOn
  <2> QED
    BY <2>1 DEF BlocksOK
<1>4. CASE Differs(i) \/ BlockDiffers(i)
  <2>1. (Differs(i) \/ BlockDiffers(i))'
    BY <1>4, DifferingStays
  <2> QED
    BY <2>1 DEF BlocksOK
<1>5. CASE ~Differs(i) /\ ~BlockDiffers(i) /\ \A k \in BlocksOf(i, "comb") : BlockOK(i, k)
  <2>1. \A k \in BlocksOf(i, "comb") : BlockOK(i, k)' \/ BlockDiffers(i)'
    BY <1>5, BlockKept
  <2> QED
    BY <2>1 DEF BlocksOK
<1> QED
  BY <1>3, <1>4, <1>5 DEF BlocksOK

\* and when it is.
LEMMA BlocksEntered ==
  ASSUME SingleWriters, IInv, StagedInv, ~changed', EnterModule,
         NEW i \in Instance, Head(todo) = Item("module", i)
  PROVE  BlocksOK(i)'
<1>1. Head(todo).op = "module" /\ Moves(ModuleWork(Head1.inst)) /\ Head1.inst = i
  BY EnterArranges, ItemParts DEF Head1
<1>2. SettleAction
  BY DEF SettleAction
<1>3. QuietMove(ModuleWork(i))
  BY <1>1, <1>2, SettlesQuietly
<1>4. ASSUME NEW k \in BlocksOf(i, "comb") PROVE BlockOK(i, k)'
  <2>1. ItemAt("comb", i, k) \in Items(ModuleWork(i))
    <3>1. k \in 1..Len(Design[i].blocks)
      BY DEF BlocksOf
    <3> QED
      BY <1>1, <3>1, ModuleArranged
  <2>2. Waits(ItemAt("comb", i, k))'
    BY <1>3, <2>1, WaitsOn
  <2> QED
    BY <2>2 DEF BlockOK
<1> QED
  BY <1>4 DEF BlocksOK

-----------------------------------------------------------------------------
(* The blocks of every instance.                                           *)

SignalsHold == \A i \in Instance : SingleBlocks(i) => SignalsInv(i)

\* The action of a module or a child at the head.
LEMMA HierarchyHeads ==
  ASSUME SettleAction
  PROVE  /\ \A i : Head(todo) = Item("module", i) => EnterModule
         /\ \A i : Head(todo) = Item("child", i) => EnterChild
<1>1. LeafOp \notin {"module", "child"}
  BY Zenon DEF LeafOp
<1>2. Head(todo).op = "module" => EnterModule
  BY <1>1, HeadOps, OtherHeads, OpKinds DEF SettleAction
<1>3. Head(todo).op = "child" => EnterChild
  BY <1>1, HeadOps, OtherHeads, OpKinds DEF SettleAction
<1> QED
  BY <1>2, <1>3, ItemParts

\* The blocks of the instances that a pass has come to, when it comes to no other.
LEMMA DueReached ==
  ASSUME FittingTargets, SingleWriters, IInv, StagedInv, OrderInv, OverlayInv, ~changed', SettleAction,
         SignalsHold, NEW B \in SUBSET (Instance \ {Top}), BlocksDue(B),
         NEW i \in Instance \ B, SingleBlocks(i)
  PROVE  BlocksOK(i)'
<1>1. BlocksOK(i) /\ SignalsInv(i)
  BY DEF BlocksDue, SignalsHold
<1>2. CASE Head(todo) # Item("module", i)
  BY <1>1, <1>2, BlocksKept
<1>3. CASE Head(todo) = Item("module", i)
  <2>1. EnterModule
    BY <1>3, HierarchyHeads
  <2> QED
    BY <1>3, <2>1, BlocksEntered
<1> QED
  BY <1>2, <1>3

\* A child is entered: its module waits.
LEMMA ChildDue ==
  ASSUME FittingTargets, SingleWriters, IInv, StagedInv, OrderInv, OverlayInv, ~changed', EnterChild,
         SignalsHold, NEW B \in SUBSET (Instance \ {Top}), BlocksDue(B)
  PROVE  \E C \in SUBSET (Instance \ {Top}) : BlocksDue(C)'
<1>1. Head1.inst \in Instance /\ Head(todo).op = "child" /\ Moves(ChildWork(Head1.inst))
  BY OutsideArranges
<1>2. PICK q : q = Head1.inst
  OBVIOUS
<1>3. SettleAction
  BY DEF SettleAction
<1>4. QuietMove(ChildWork(q)) /\ q \in Instance
  BY <1>1, <1>2, <1>3, SettlesQuietly
<1>5. Waits(Item("module", q))'
  <2>1. Item("module", q) \in Items(ChildWork(q))
    BY <1>4, ChildItems
  <2> QED
    BY <1>4, <2>1, WaitsOn
<1> DEFINE C == B \ {q}
<1>6. C \in SUBSET (Instance \ {Top}) /\ C \subseteq B /\ \A c \in B \ C : c = q
  OBVIOUS
<1>7. \A c \in C : Head(todo) # Item("child", c) /\ Head(todo) # Item("module", Parent(c))
  BY <1>1, <1>2, ItemParts DEF Head1
<1> HIDE DEF C
<1>8. ASSUME NEW c \in C PROVE EnteredLater(c, C)'
  <2>1. EnteredLater(c, B)
    BY <1>6 DEF BlocksDue
  <2>2. Waits(Item("child", c)) => Waits(Item("child", c))'
    BY <1>4, <1>7, WaitsOn
  <2>3. Waits(Item("module", Parent(c))) => Waits(Item("module", Parent(c)))'
    BY <1>4, <1>7, WaitsOn DEF Parent
  <2>4. Parent(c) \in B \ C => Waits(Item("module", Parent(c)))'
    <3> SUFFICES ASSUME Parent(c) \in B \ C PROVE Waits(Item("module", Parent(c)))'
      OBVIOUS
    <3>1. Parent(c) = q
      BY <1>6
    <3> QED
      BY <1>5, <3>1 DEF Parent
  <2> QED
    BY <2>1, <2>2, <2>3, <2>4 DEF EnteredLater
<1>9. ASSUME NEW i \in Instance \ C, SingleBlocks(i) PROVE BlocksOK(i)'
  <2>1. CASE i = q
    BY <1>5, <2>1 DEF BlocksOK
  <2>2. CASE i # q
    <3>1. i \in Instance \ B
      BY <1>6, <2>2
    <3> QED
      BY <1>3, <1>9, <3>1, DueReached
  <2> QED
    BY <2>1, <2>2
<1>10. BlocksDue(C)'
  BY <1>8, <1>9 DEF BlocksDue, SingleBlocks
<1> QED
  BY <1>6, <1>10

\* Another action: a module that is entered has its children wait.
LEMMA OtherDue ==
  ASSUME FittingTargets, SingleWriters, IInv, StagedInv, OrderInv, OverlayInv, ~changed', SettleAction,
         ~EnterChild, SignalsHold, NEW B \in SUBSET (Instance \ {Top}), BlocksDue(B)
  PROVE  BlocksDue(B)'
<1>1. PICK t : Moves(t)
  BY SettleMoves
<1>2. QuietMove(t)
  BY <1>1, SettlesQuietly
<1>3. \A c : Head(todo) # Item("child", c)
  BY HierarchyHeads
<1>4. ASSUME NEW c \in B PROVE EnteredLater(c, B)'
  <2>1. EnteredLater(c, B)
    BY DEF BlocksDue
  <2>2. Waits(Item("child", c)) => Waits(Item("child", c))'
    BY <1>2, <1>3, WaitsOn
  <2>3. CASE Waits(Item("module", Parent(c))) /\ Head(todo) # Item("module", Parent(c))
    <3>1. Waits(Item("module", Parent(c)))'
      BY <1>2, <2>3, WaitsOn DEF Parent
    <3> QED
      BY <3>1 DEF EnteredLater
  <2>4. CASE Head(todo) = Item("module", Parent(c))
    <3>1. EnterModule
      BY <2>4, HierarchyHeads
    <3>2. PICK q : q = Parent(c)
      OBVIOUS
    <3>3. Head1.inst = q /\ q \in Instance /\ Moves(ModuleWork(Head1.inst))
      BY <2>4, <3>1, <3>2, EnterArranges, ItemParts DEF Head1
    <3>4. QuietMove(ModuleWork(q))
      BY <3>3, SettlesQuietly
    <3>5. PICK k \in 1..Len(Design[q].children) : Design[q].children[k] = c
      BY <3>2, HierarchyAssumption DEF Parent
    <3>6. Item("child", c) \in Items(ModuleWork(q))
      BY <3>3, <3>5, ModuleItems
    <3>7. Waits(Item("child", c))'
      BY <3>4, <3>6, WaitsOn
    <3> QED
      BY <3>7 DEF EnteredLater
  <2> QED
    BY <2>1, <2>2, <2>3, <2>4 DEF EnteredLater
<1>5. ASSUME NEW i \in Instance \ B, SingleBlocks(i) PROVE BlocksOK(i)'
  BY <1>5, DueReached
<1> QED
  BY <1>4, <1>5 DEF BlocksDue, SingleBlocks

\* A pass starts with every instance ahead of it, and nothing of theirs at work.
LEMMA PassIsDue ==
  ASSUME NEW f, NEW n, StartPass(f, n)
  PROVE  SignalsHold' /\ BlocksDue(Instance \ {Top})'
<1>1. todo' = PassWork
  BY DEF StartPass
<1>2. Waits(Item("module", Top))'
  BY <1>1, PassItems DEF Waits
<1>3. ASSUME NEW w \in Items(todo') PROVE w.op \notin ModuleOps
  <2>1. \A u \in Items(PassWork) : u.op \in {"input", "module"}
    BY PassItems, ItemParts
  <2> QED
    BY <1>1, <2>1, OpKinds
<1>4. ASSUME NEW i PROVE SignalsInv(i)'
  <2>1. ~Commits(i)'
    BY <1>3, OpKinds DEF Commits
  <2>2. \A w \in Items(todo') : BlockItem(w)'
    BY <1>3, OpKinds DEF BlockItem
  <2> QED
    BY <2>1, <2>2 DEF SignalsInv, SignalsOK
<1>5. ASSUME NEW c \in Instance \ {Top} PROVE EnteredLater(c, Instance \ {Top})'
  <2>1. Parent(c) \in Instance
    BY HierarchyAssumption DEF Parent
  <2>2. CASE Parent(c) = Top
    <3>1. Waits(Item("module", Parent(c)))'
      BY <1>2, <2>2 DEF Parent
    <3> QED
      BY <3>1 DEF EnteredLater
  <2>3. CASE Parent(c) # Top
    BY <2>1, <2>3 DEF EnteredLater
  <2> QED
    BY <2>2, <2>3
<1>6. BlocksOK(Top)'
  BY <1>2 DEF BlocksOK
<1>7. \A i \in Instance \ (Instance \ {Top}) : i = Top
  OBVIOUS
<1>8. BlocksDue(Instance \ {Top})'
  BY <1>5, <1>6, <1>7 DEF BlocksDue
<1> QED
  BY <1>4, <1>8 DEF SignalsHold

\* A step that changes nothing changes nothing of it.
LEMMA DueStays ==
  ASSUME UNCHANGED vars
  PROVE  /\ SignalsHold => SignalsHold'
         /\ \A B : BlocksDue(B) => BlocksDue(B)'
<1>1. /\ todo' = todo /\ frame' = frame /\ overlay' = overlay /\ memories' = memories
  BY DEF vars, session, settling
<1>2. /\ \A w : Waits(w)' = Waits(w)
      /\ \A i : Commits(i)' = Commits(i)
      /\ \A i, n : InFrame(i, n)' = InFrame(i, n)
      /\ \A i, n : StillWritten(i, n)' = StillWritten(i, n)
      /\ \A w : BlockItem(w)' = BlockItem(w)
  BY <1>1 DEF Waits, Commits, InFrame, StillWritten, BlockItem
<1>3. /\ \A i : SignalsOK(i)' = SignalsOK(i)
      /\ \A i : Differs(i)' = Differs(i)
      /\ \A i : BlockDiffers(i)' = BlockDiffers(i)
  BY <1>1, <1>2 DEF SignalsOK, Differs, BlockDiffers
<1>4. SignalsHold => SignalsHold'
  BY <1>1, <1>2, <1>3 DEF SignalsHold, SignalsInv
<1>5. \A i, st : RunsAt(i, st)' = RunsAt(i, st)
  BY <1>1 DEF RunsAt, Overlaid
<1>6. ASSUME NEW i, NEW k, Running(i, k) PROVE Running(i, k)'
  <2>1. PICK m \in Nat : BlockRun(i, k)[m].work # <<>> /\ RunsAt(i, BlockRun(i, k)[m])
    BY <1>6 DEF Running
  <2>2. PICK st : st = BlockRun(i, k)[m]
    OBVIOUS
  <2>3. (BlockRun(i, k)[m])' = st
    BY <1>1, <2>2, RunsStay
  <2>4. RunsAt(i, st)' /\ Commits(i)'
    BY <1>2, <1>5, <1>6, <2>1, <2>2 DEF Running
  <2> QED
    BY <2>1, <2>2, <2>3, <2>4 DEF Running
<1>7. ASSUME NEW i, BlocksOK(i) PROVE BlocksOK(i)'
  <2>1. \A k : BlockOK(i, k) => BlockOK(i, k)'
    BY <1>1, <1>2, <1>6, RunsStay DEF BlockOK
  <2> QED
    BY <1>2, <1>3, <1>7, <2>1 DEF BlocksOK
<1>8. ASSUME NEW B, BlocksDue(B) PROVE BlocksDue(B)'
  BY <1>2, <1>7, <1>8 DEF BlocksDue, EnteredLater
<1> QED
  BY <1>4, <1>8

\* Every step keeps what a pass that reports no change has run.
LEMMA BlockPreserves ==
  ASSUME FittingTargets, SingleWriters, IInv, StagedInv, OrderInv, AssignInv, BlockInv, [AnyNext]_vars
  PROVE  BlockInv'
<1> SUFFICES ASSUME InSettle', ~changed'
             PROVE  SignalsHold' /\ \E C \in SUBSET (Instance \ {Top}) : BlocksDue(C)'
  BY DEF BlockInv, SignalsHold
<1>1. CASE SettleAction
  <2>1. PICK t : Moves(t)
    BY <1>1, SettleMoves
  <2>2. InSettle /\ ~changed
    BY <1>1, <2>1, SettlesQuietly
  <2>3. OverlayInv /\ SignalsHold
    BY <2>2 DEF AssignInv, BlockInv, SignalsHold
  <2>4. PICK B \in SUBSET (Instance \ {Top}) : BlocksDue(B)
    BY <2>2 DEF BlockInv
  <2>5. ASSUME NEW i \in Instance, SingleBlocks(i) PROVE SignalsInv(i)'
    BY <1>1, <2>3, <2>5, SignalsPreserved DEF SignalsHold
  <2>6. SignalsHold'
    BY <2>5 DEF SignalsHold, SingleBlocks
  <2>7. CASE EnterChild
    BY <2>3, <2>4, <2>6, <2>7, ChildDue
  <2>8. CASE ~EnterChild
    BY <1>1, <2>3, <2>4, <2>6, <2>8, OtherDue
  <2> QED
    BY <2>7, <2>8
<1>2. ASSUME NEW f, NEW n, StartPass(f, n)
      PROVE  SignalsHold' /\ \E C \in SUBSET (Instance \ {Top}) : BlocksDue(C)'
  BY <1>2, PassIsDue
<1>3. CASE UNCHANGED vars /\ InSettle
  <2>1. ~changed
    BY <1>3 DEF vars, settling
  <2>2. SignalsHold
    BY <1>3, <2>1 DEF BlockInv, SignalsHold
  <2>3. PICK B \in SUBSET (Instance \ {Top}) : BlocksDue(B)
    BY <1>3, <2>1 DEF BlockInv
  <2> QED
    BY <1>3, <2>2, <2>3, DueStays
<1> QED
  BY <1>1, <1>2, <1>3, IntoPass

-----------------------------------------------------------------------------
(* The end of a settle.                                                    *)

\* A run that has come to its end stays there,
LEMMA RunEnded ==
  ASSUME NEW run, NEW i, NEW mem, IsRun(run, i, mem), NEW m \in Nat, run[m].work = <<>>,
         NEW k \in Nat, m <= k
  PROVE  run[k] = run[m]
<1> DEFINE S == {j \in Nat : m <= j /\ run[j] # run[m]}
<1> SUFFICES ASSUME S # {} PROVE FALSE
  OBVIOUS
<1>1. S \in SUBSET Nat
  OBVIOUS
<1>2. PICK j \in S : \A l \in S : j <= l
  <2> HIDE DEF S
  <2> QED
    BY <1>1, LeastNumber
<1>3. j \in Nat /\ m <= j /\ run[j] # run[m] /\ j # m
  OBVIOUS
<1>4. PICK p : p = j - 1
  OBVIOUS
<1>5. p \in Nat /\ m <= p /\ p + 1 = j /\ ~(j <= p)
  BY <1>3, <1>4
<1>6. run[p] = run[m]
  <2>1. p \notin S
    BY <1>2, <1>5
  <2> QED
    BY <1>5, <2>1
<1>7. run[p + 1] = Executed(i, run[p], mem)
  BY <1>5 DEF IsRun
<1>8. Executed(i, run[m], mem) = run[m]
  BY DEF Executed
<1> QED
  BY <1>3, <1>5, <1>6, <1>7, <1>8

\* so that it has one end.
LEMMA OneEnd ==
  ASSUME NEW run, NEW i, NEW mem, IsRun(run, i, mem),
         NEW m \in Nat, run[m].work = <<>>, NEW k \in Nat, run[k].work = <<>>
  PROVE  run[k] = run[m]
<1>1. m <= k \/ k <= m
  OBVIOUS
<1> QED
  BY <1>1, RunEnded

\* When a settle ends nothing waits, nothing runs and nothing is to change the
\* frame.
LEMMA QuietBlocks ==
  ASSUME BlockInv, Converged, NEW i \in Instance, SingleBlocks(i), NEW k \in BlocksOf(i, "comb")
  PROVE  HasSettled(i, k)
<1>1. InSettle /\ ~changed /\ todo = <<>>
  BY DEF Converged, EndOfPass, Quiet
<1>2. (\A w : ~Waits(w)) /\ (\A j : ~Commits(j))
  BY <1>1, ListedItems DEF Waits, Commits
<1>3. PICK B \in SUBSET (Instance \ {Top}) : BlocksDue(B)
  BY <1>1 DEF BlockInv
<1>4. B = {}
  <2> SUFFICES ASSUME B # {} PROVE FALSE
    OBVIOUS
  <2>1. PICK c \in B : Parent(c) \notin B
    BY HierarchyAssumption DEF Parent
  <2> QED
    BY <1>2, <1>3, <2>1 DEF BlocksDue, EnteredLater
<1>5. BlocksOK(i)
  BY <1>3, <1>4 DEF BlocksDue
<1> QED
  BY <1>2, <1>5 DEF BlocksOK, BlockOK, Running, Differs, BlockDiffers

\* So every end of a run of a block is the one that the frame agrees with.
LEMMA SettledBlocks == ASSUME BlockInv PROVE BlocksSettle
<1> SUFFICES ASSUME Converged, NEW i \in Instance, SingleBlocks(i), NEW k \in BlocksOf(i, "comb"),
                    NEW n \in 0..StepBound, BlockRun(i, k)[n].work = <<>>
             PROVE  HasRun(i, BodyOf(i, k), BlockRun(i, k)[n])
  BY DEF BlocksSettle, BlockRun, BodyOf
<1>1. HasSettled(i, k)
  BY QuietBlocks
<1>2. PICK m \in Nat : BlockRun(i, k)[m].work = <<>> /\ HasRun(i, BodyOf(i, k), BlockRun(i, k)[m])
  BY <1>1 DEF HasSettled
<1>3. n \in Nat
  BY StepAssumption
<1>4. IsRun(BlockRun(i, k), i, memories[i])
  BY BlockRunSteps DEF IsRun
<1>5. BlockRun(i, k)[n] = BlockRun(i, k)[m]
  BY <1>2, <1>3, <1>4, OneEnd
<1> QED
  BY <1>2, <1>5

-----------------------------------------------------------------------------
(* The theorem.                                                            *)

\* What every settle ends with, whoever asks for it.
LEMMA ClientsSettle ==
  ASSUME FittingTargets, SingleWriters
  PROVE  AnySpec => []((Converged => NetsResolved) /\ ConnectionsSettle /\ AssignsSettle /\ BlocksSettle)
<1>1. Init => ConnectInv /\ OrderInv /\ AssignInv /\ BlockInv
  BY DEF Init, ConnectInv, OrderInv, AssignInv, BlockInv, InSettle
<1>2. IInv /\ StagedInv /\ ConnectInv /\ [AnyNext]_vars => ConnectInv'
  BY ConnectPreserves
<1>3. IInv /\ StagedInv /\ OrderInv /\ [AnyNext]_vars => OrderInv'
  BY OrderPreserves
<1>4. IInv /\ StagedInv /\ OrderInv /\ AssignInv /\ [AnyNext]_vars => AssignInv'
  BY AssignPreserves
<1>5. IInv /\ StagedInv /\ OrderInv /\ AssignInv /\ BlockInv /\ [AnyNext]_vars => BlockInv'
  BY BlockPreserves
<1>6. IInv /\ StagedInv => (Converged => NetsResolved)
  BY QuietNets
<1>7. IInv /\ StagedInv /\ ConnectInv => ConnectionsSettle
  BY QuietNets, QuietConnections DEF ConnectionsSettle
<1>8. AssignInv => AssignsSettle
  BY QuietAssigns DEF AssignsSettle
<1>9. BlockInv => BlocksSettle
  BY SettledBlocks
<1> QED
  BY <1>1, <1>2, <1>3, <1>4, <1>5, <1>6, <1>7, <1>8, <1>9, StagedInductive, PTL DEF AnySpec

\* When a settle ends, every always_comb block holds of the values it ends with,
\* in every design whose targets fit the signals they name and in which nothing
\* else writes the signals of a block: run from start to end on these values it
\* yields for them the values they have.  No pass that reports no change has run
\* a block on values that a later write replaced, and no commit has lost what
\* the block wrote (execute_proc_block, execute_comb_stmt, OverlayValues,
\* commit_overlay_to_frame).
THEOREM BlocksHold == ASSUME FittingTargets, SingleWriters PROVE Spec => []BlocksSettle
  BY SpecIsAny, ClientsSettle, PTL

=============================================================================
