------------------------------ MODULE StepProofs ------------------------------
(***************************************************************************)
(* Proofs about the clocked step, for every design, every statement and    *)
(* every evaluator: a step samples every clock of every instance, and what *)
(* the session remembers changes only on edges.                            *)
(***************************************************************************)
EXTENDS SessionProofs

-----------------------------------------------------------------------------
(* What is where when the head of a stack is replaced by other work.       *)

\* Popping is replacing the head by no work.
LEMMA PopReplaces ==
  ASSUME NEW s, IsSequence(s), s # <<>>
  PROVE  Tail(s) = <<>> \o Tail(s) /\ IsSequence(<<>>) /\ Len(<<>>) = 0
<1> DEFINE S == {s[k] : k \in DOMAIN s}
<1>1. s \in Seq(S)
  BY DEF IsSequence
<1>2. Tail(s) \in Seq(S) /\ <<>> \in Seq(S) /\ Len(<<>>) = 0
  BY <1>1
<1>3. Tail(s) = <<>> \o Tail(s)
  BY <1>2
<1> QED
  BY <1>2, <1>3, SeqIsSequence

\* The head of a sequence is its first element.
LEMMA IsSequenceHead ==
  ASSUME NEW s, IsSequence(s), s # <<>>
  PROVE  Head(s) = s[1] /\ Len(s) \in Nat \ {0}
<1> DEFINE S == {s[k] : k \in DOMAIN s}
<1>1. s \in Seq(S)
  BY DEF IsSequence
<1> HIDE DEF S
<1> QED
  BY <1>1

Joins(r, s, t) == r = s \o t

\* Work followed by other work.
LEMMA Joined ==
  ASSUME NEW s, IsSequence(s), NEW t, IsSequence(t), NEW r, Joins(r, s, t)
  PROVE  /\ IsSequence(r) /\ Len(s) \in Nat /\ Len(t) \in Nat
         /\ Len(r) = Len(s) + Len(t)
         /\ \A k \in 1..Len(s) : r[k] = s[k]
         /\ \A k \in 1..Len(t) : r[Len(s) + k] = t[k]
<1>1. /\ IsSequence(r) /\ Len(s) \in Nat /\ Len(t) \in Nat
      /\ Len(r) = Len(s) + Len(t)
      /\ \A k \in 1..(Len(s) + Len(t)) : r[k] = IF k <= Len(s) THEN s[k] ELSE t[k - Len(s)]
  BY JoinSequences, Zenon DEF Joins
<1>2. \A k \in 1..Len(s) : r[k] = s[k]
  BY <1>1
<1>3. \A k \in 1..Len(t) : r[Len(s) + k] = t[k]
  BY <1>1
<1> QED
  BY <1>1, <1>2, <1>3

Replaces(r, s, t) == r = t \o Tail(s)

\* The new work comes first, what followed the head comes after it.
LEMMA Replaced ==
  ASSUME NEW s, IsSequence(s), s # <<>>, NEW t, IsSequence(t), NEW r, Replaces(r, s, t)
  PROVE  /\ IsSequence(r)
         /\ Len(t) \in Nat /\ Len(s) \in Nat \ {0} /\ Len(r) \in Nat
         /\ Len(r) = Len(t) + Len(s) - 1
         /\ Head(s) = s[1]
         /\ \A k \in 1..Len(t) : k \in 1..Len(r) /\ r[k] = t[k]
         /\ \A k \in 2..Len(s) : Len(t) + k - 1 \in 1..Len(r) /\ r[Len(t) + k - 1] = s[k]
         /\ \A k \in 1..Len(r) : k > Len(t) =>
              k - Len(t) + 1 \in 2..Len(s) /\ r[k] = s[k - Len(t) + 1]
<1> DEFINE S == {s[k] : k \in DOMAIN s}
           u == Tail(s)
<1>1. s \in Seq(S)
  BY DEF IsSequence
<1>2. /\ u \in Seq(S) /\ Len(u) = Len(s) - 1
      /\ Len(s) \in Nat \ {0} /\ Head(s) = s[1]
      /\ \A k \in 1..(Len(s) - 1) : u[k] = s[k + 1]
  BY <1>1
<1>3. IsSequence(u)
  BY <1>2, SeqIsSequence
<1> HIDE DEF u, S
<1>4. /\ IsSequence(r) /\ Len(t) \in Nat
      /\ Len(r) = Len(t) + Len(u)
      /\ \A k \in 1..(Len(t) + Len(u)) : r[k] = IF k <= Len(t) THEN t[k] ELSE u[k - Len(t)]
  BY <1>3, JoinSequences DEF u, Replaces
<1>5. Len(r) = Len(t) + Len(s) - 1 /\ Len(r) \in Nat
  BY <1>2, <1>4
<1>6. \A k \in 1..Len(t) : k \in 1..Len(r) /\ r[k] = t[k]
  BY <1>2, <1>4, <1>5
<1>7. \A k \in 1..Len(r) : k > Len(t) =>
        k - Len(t) + 1 \in 2..Len(s) /\ r[k] = s[k - Len(t) + 1]
  <2> SUFFICES ASSUME NEW k \in 1..Len(r), k > Len(t)
               PROVE  k - Len(t) + 1 \in 2..Len(s) /\ r[k] = s[k - Len(t) + 1]
    OBVIOUS
  <2>1. k - Len(t) \in 1..(Len(s) - 1)
    BY <1>2, <1>4, <1>5
  <2>2. r[k] = u[k - Len(t)]
    BY <1>2, <1>4, <1>5
  <2>3. u[k - Len(t)] = s[k - Len(t) + 1]
    BY <1>2, <2>1
  <2> QED
    BY <1>2, <2>1, <2>2, <2>3
<1>8. \A k \in 2..Len(s) : Len(t) + k - 1 \in 1..Len(r) /\ r[Len(t) + k - 1] = s[k]
  <2> SUFFICES ASSUME NEW k \in 2..Len(s)
               PROVE  Len(t) + k - 1 \in 1..Len(r) /\ r[Len(t) + k - 1] = s[k]
    OBVIOUS
  <2>1. Len(t) + k - 1 \in 1..Len(r) /\ Len(t) + k - 1 > Len(t)
    BY <1>2, <1>4, <1>5
  <2>2. (Len(t) + k - 1) - Len(t) + 1 = k
    BY <1>2, <1>4
  <2> QED
    BY <1>7, <2>1, <2>2
<1> QED
  BY <1>2, <1>4, <1>5, <1>6, <1>7, <1>8

-----------------------------------------------------------------------------
(* The walk of step_module reaches every instance, and a visit samples all *)
(* the clocks of its instance.                                             *)

LevelsSampled(i) == \A c \in Design[i].clocks : clocks[i][c] = Level(i, c)

\* The walk still reaches every instance that is not done: it is waiting, or
\* it is below one that waits to be entered.  Below holds the second kind.
Reaches(Below) ==
  /\ \A i \in Below : i # Top /\ (Parent(i) \in Below \/ Parent(i) \in Waiting(todo, "step"))
  /\ \A i \in Instance \ Below :
       i \in Waiting(todo, "step") \/ i \in Waiting(todo, "close") \/ LevelsSampled(i)

\* An instance that is opened has all of its blocks before it.
BlocksAhead(s) ==
  \A k \in 1..Len(s) : s[k].op = "open" =>
    \A b \in 1..Len(Design[s[k].inst].blocks) :
      k + b <= Len(s) /\ s[k + b] = ItemAt("block", s[k].inst, b)

\* A block of the running instance that samples c is still to run.
StillSamples(s, i, c) ==
  \E k \in 1..Len(s) :
    /\ \A j \in 1..k : s[j].op \in BodyOps
    /\ s[k].op = "block"
    /\ LET b == Design[i].blocks[s[k].at]
       IN  b.kind = "ff" /\ c \in {b.clock, b.reset}

SamplesClocks ==
  InBody => LET i == Head(todo).inst
            IN  \A c \in Design[i].clocks : sampled[c] = Level(i, c) \/ StillSamples(todo, i, c)

WalkInv ==
  phase = "step" =>
    /\ \E Below \in SUBSET Instance : Reaches(Below)
    /\ BlocksAhead(todo)
    /\ SamplesClocks

-----------------------------------------------------------------------------
(* What a step has written stems from a block that has seen an edge.       *)

\* Before a step runs its blocks it has sampled nothing.
NothingSampled ==
  phase = "settle" => clocks = before.clocks /\ memories = before.memories

\* An object's value is the sequence of its bits.
IsWord(o, v) == v = [k \in 1..Layouts[o].width |-> v[k]]

\* Block k of an instance has seen a clock or a reset go up.
SawEdge(i, k) ==
  \E c \in {Design[i].blocks[k].clock, Design[i].blocks[k].reset} \ {"none"} :
    ~before.clocks[i][c] /\ Level(i, c)

SawEdgeOf(o) == \E w \in WritersOf(o) : SawEdge(w[1], w[2])

BodyWrites(i, k) == WriteSets[Design[i].blocks[k].body]

\* Statements and writes of the stack belong to a block that saw an edge.
Justified(w) ==
  /\ w.op = "seq" =>
       \E k \in BlocksOf(w.inst, "ff") :
         SawEdge(w.inst, k) /\ WriteSets[w.stmt] \subseteq BodyWrites(w.inst, k)
  /\ w.op = "seq leaf" =>
       \E k \in BlocksOf(w.inst, "ff") :
         /\ SawEdge(w.inst, k)
         /\ w.leaf.kind # "memory" => w.leaf.name \in BodyWrites(w.inst, k)

\* What the running instance has staged.
StagedOnEdge(i) ==
  /\ DOMAIN staged = Names(i)
  /\ \A n \in Names(i) :
       staged[n] # ReadBinding(Binding(i, n), before.persisted) => SawEdgeOf(Binding(i, n).obj)
  /\ stagedMem # memories[i] => \E k \in BlocksOf(i, "ff") : SawEdge(i, k)

EdgeInv ==
  /\ NothingSampled
  /\ \A o \in Object : IsWord(o, persisted[o])
  /\ phase = "step" =>
       /\ \A i \in Instance : \A c \in Design[i].clocks :
            clocks[i][c] = before.clocks[i][c] \/ clocks[i][c] = Level(i, c)
       /\ \A o \in Object : IsWord(o, next[o])
       /\ \A o \in Object : next[o] # before.persisted[o] => SawEdgeOf(o)
       /\ \A k \in 1..Len(todo) : Justified(todo[k])
       /\ InBody => StagedOnEdge(Head(todo).inst)

-----------------------------------------------------------------------------
(* What a statement may write (WriteSets): the names of its own leaves, and *)
(* what the statements it may run next may write.                          *)

OwnWrites(s) ==
  IF Code[s].kind = "assign"
  THEN {leaf.name : leaf \in {l \in {Code[s].target.leaves[k] :
          k \in 1..Len(Code[s].target.leaves)} : l.kind # "memory"}}
  ELSE {}

Substatements(s) ==
  CASE Code[s].kind = "block" -> {Code[s].items[k] : k \in 1..Len(Code[s].items)}
    [] Code[s].kind = "if"    -> {Code[s].then, Code[s].else}
    [] Code[s].kind = "case"  ->
         {Code[s].default} \cup {Code[s].arms[k].body : k \in 1..Len(Code[s].arms)}
    [] OTHER                  -> {}

Gathered(W, s) == OwnWrites(s) \cup UNION {W[b] : b \in Substatements(s)}

\* The statements a statement may run next are statements of the design.
LEMMA SubstatementsAreLabels == ASSUME NEW s \in Label PROVE Substatements(s) \subseteq Label
<1>1. CASE Code[s].kind = "block"
  <2>1. \A k \in 1..Len(Code[s].items) : Code[s].items[k] \in Label
    BY <1>1, CodeAssumption
  <2> QED
    BY <1>1, <2>1 DEF Substatements
<1>2. CASE Code[s].kind = "if"
  <2>1. Code[s].then \in Label /\ Code[s].else \in Label
    BY <1>2, CodeAssumption
  <2> QED
    BY <1>2, <2>1 DEF Substatements
<1>3. CASE Code[s].kind = "case"
  <2>1. Code[s].default \in Label /\ \A k \in 1..Len(Code[s].arms) : Code[s].arms[k].body \in Label
    BY <1>3, CodeAssumption
  <2> QED
    BY <1>3, <2>1 DEF Substatements
<1>4. CASE Code[s].kind \notin {"block", "if", "case"}
  BY <1>4 DEF Substatements
<1> QED
  BY <1>1, <1>2, <1>3, <1>4

\* Every statement list that a control statement may choose is of those.
LEMMA BranchesAreSubstatements ==
  ASSUME NEW s \in Label, Code[s].kind # "assign", NEW body \in Branches(Code[s]),
         NEW k \in 1..Len(body)
  PROVE  body[k] \in Substatements(s)
<1>a. \A l : Len(<<l>>) = 1 /\ <<l>>[1] = l
  OBVIOUS
<1>1. CASE Code[s].kind = "empty"
  <2>1. body = <<>> /\ 1..Len(<<>>) = {}
    BY <1>1 DEF Branches
  <2> QED
    BY <2>1
<1>2. CASE Code[s].kind = "block"
  BY <1>2 DEF Branches, Substatements
<1>3. CASE Code[s].kind = "if"
  <2>1. body = <<Code[s].then>> \/ body = <<Code[s].else>>
    BY <1>3 DEF Branches
  <2>2. body[k] \in {Code[s].then, Code[s].else}
    BY <1>a, <2>1
  <2> QED
    BY <1>3, <2>2 DEF Substatements
<1>4. CASE Code[s].kind = "case"
  <2>1. body = <<Code[s].default>> \/ \E n \in 1..Len(Code[s].arms) : body = <<Code[s].arms[n].body>>
    BY <1>4 DEF Branches
  <2>2. body[k] = Code[s].default \/ \E n \in 1..Len(Code[s].arms) : body[k] = Code[s].arms[n].body
    BY <1>a, <2>1
  <2> QED
    BY <1>4, <2>2 DEF Substatements
<1> QED
  BY <1>1, <1>2, <1>3, <1>4, CodeAssumption

\* Some table of write sets agrees with itself: the union of all tables whose
\* entries are gathered from themselves.
LEMMA WriteSetsExist == \E W : W = [s \in Label |-> Gathered(W, s)]
<1> DEFINE U == UNION {OwnWrites(s) : s \in Label}
           Tables == [Label -> SUBSET U]
           Post == {W \in Tables : \A s \in Label : W[s] \subseteq Gathered(W, s)}
           G == [s \in Label |-> {n \in U : \E W \in Post : n \in W[s]}]
           H == [s \in Label |-> Gathered(G, s)]
<1>1. \A s \in Label : Substatements(s) \subseteq Label
  BY SubstatementsAreLabels
<1>2. G \in Tables
  OBVIOUS
<1>3. ASSUME NEW s \in Label PROVE G[s] \subseteq Gathered(G, s)
  <2> SUFFICES ASSUME NEW n \in U, NEW W \in Post, n \in W[s] PROVE n \in Gathered(G, s)
    OBVIOUS
  <2>1. n \in OwnWrites(s) \/ \E b \in Substatements(s) : n \in W[b]
    BY DEF Gathered
  <2>2. \A b \in Label : n \in W[b] => n \in G[b]
    OBVIOUS
  <2> HIDE DEF U, Tables, Post, G
  <2> QED
    BY <1>1, <2>1, <2>2 DEF Gathered
<1>4. H \in Tables
  <2> SUFFICES ASSUME NEW s \in Label PROVE Gathered(G, s) \subseteq U
    OBVIOUS
  <2>1. OwnWrites(s) \subseteq U
    OBVIOUS
  <2>2. \A b \in Substatements(s) : G[b] \subseteq U
    BY <1>1, <1>2
  <2> HIDE DEF U, G
  <2> QED
    BY <2>1, <2>2 DEF Gathered
<1>5. ASSUME NEW s \in Label PROVE H[s] \subseteq Gathered(H, s)
  <2>1. \A b \in Label : G[b] \subseteq H[b]
    BY <1>3
  <2>2. H[s] = Gathered(G, s)
    OBVIOUS
  <2> HIDE DEF G, H
  <2> QED
    BY <1>1, <2>1, <2>2 DEF Gathered
<1>6. H \in Post
  BY <1>4, <1>5
<1>7. ASSUME NEW s \in Label PROVE Gathered(G, s) \subseteq G[s]
  <2>1. H[s] = Gathered(G, s) /\ H[s] \subseteq U
    <3>1. H[s] = Gathered(G, s)
      OBVIOUS
    <3> HIDE DEF H, U
    <3> QED
      BY <1>4, <3>1
  <2> HIDE DEF H, Post, U
  <2> QED
    BY <1>6, <2>1
<1>8. \A s \in Label : G[s] = Gathered(G, s)
  BY <1>3, <1>7
<1>9. G = [s \in Label |-> Gathered(G, s)]
  <2>1. G = [s \in Label |-> G[s]]
    OBVIOUS
  <2> HIDE DEF G
  <2> QED
    BY <1>8, <2>1
<1> QED
  BY <1>9

\* stmt_writes_signal gathers what the parts of a statement write.
LEMMA WriteSetsGather == \A s \in Label : WriteSets[s] = Gathered(WriteSets, s)
<1>1. ASSUME NEW W, NEW s \in Label PROVE WrittenBy(Code[s], W) = Gathered(W, s)
  <2>1. CASE Code[s].kind = "empty"
    BY <2>1 DEF Gathered, OwnWrites, Substatements, WrittenBy
  <2>2. CASE Code[s].kind = "block"
    BY <2>2 DEF Gathered, OwnWrites, Substatements, WrittenBy
  <2>3. CASE Code[s].kind = "if"
    BY <2>3 DEF Gathered, OwnWrites, Substatements, WrittenBy
  <2>4. CASE Code[s].kind = "case"
    BY <2>4 DEF Gathered, OwnWrites, Substatements, WrittenBy
  <2>5. CASE Code[s].kind = "assign"
    BY <2>5 DEF Gathered, OwnWrites, Substatements, WrittenBy
  <2> QED
    BY <2>1, <2>2, <2>3, <2>4, <2>5, CodeAssumption
<1>2. WriteSets = CHOOSE W : W = [s \in Label |-> WrittenBy(Code[s], W)]
  BY DEF WriteSets
<1>3. \E W : W = [s \in Label |-> WrittenBy(Code[s], W)]
  <2>1. PICK W : W = [s \in Label |-> Gathered(W, s)]
    BY WriteSetsExist
  <2>2. [s \in Label |-> Gathered(W, s)] = [s \in Label |-> WrittenBy(Code[s], W)]
    BY <1>1
  <2>3. W = [s \in Label |-> WrittenBy(Code[s], W)]
    BY <2>1, <2>2
  <2> QED
    BY <2>3
<1>4. WriteSets = [s \in Label |-> WrittenBy(Code[s], WriteSets)]
  BY <1>2, <1>3
<1>5. \A s \in Label : WriteSets[s] = WrittenBy(Code[s], WriteSets)
  BY <1>4
<1> QED
  BY <1>1, <1>5

\* An assignment writes the names of its leaves.
LEMMA LeavesAreWritten ==
  ASSUME NEW s \in Label, Code[s].kind = "assign", NEW k \in 1..Len(Code[s].target.leaves),
         Code[s].target.leaves[k].kind # "memory"
  PROVE  Code[s].target.leaves[k].name \in WriteSets[s]
<1> DEFINE leaf == Code[s].target.leaves[k]
<1>1. leaf.name \in OwnWrites(s)
  BY DEF OwnWrites
<1>2. WriteSets[s] = Gathered(WriteSets, s)
  BY WriteSetsGather
<1> QED
  BY <1>1, <1>2 DEF Gathered

-----------------------------------------------------------------------------
(* Which actions work in a step. *)

\* Every action of a pass is a step of a pass.
LEMMA SettleActionSettles == IInv /\ SettleAction => SettleEffect
  BY ApplyInputSettles, EnterModuleSettles, EnterChildSettles,
     ContinuousAssignSettles, AssignLeafSettles,
     CombBlockSettles, CombControlSettles, CombAssignSettles, CombLeafSettles,
     CommitNameSettles, RefreshNameSettles, EndCommitSettles,
     DriveInputSettles, SinkOutputSettles, SinkLeafSettles DEF SettleAction

\* Every action of step_module is a step of step_module.
LEMMA StepActionSteps == IInv /\ StepAction => StepEffect
  BY EnterStepSteps, OpenInstanceSteps, ClockedBlockSteps,
     SeqControlSteps, SeqAssignSteps, SeqLeafSteps, SyncNameSteps, CloseInstanceSteps
     DEF StepAction

\* A step is entered by BeginStep, and only step_module works in it.
LEMMA IntoStep ==
  ASSUME IInv, [AnyNext]_vars, phase' = "step"
  PROVE  BeginStep \/ StepAction \/ (UNCHANGED vars /\ phase = "step")
<1>1. CASE AnyRequest
  BY <1>1 DEF AnyRequest, Begin, Refuse, Return, Load, ReadWord
<1>2. CASE SettleAction
  BY <1>2, SettleActionSettles DEF SettleEffect, InSettle
<1>3. CASE NextPass \/ Reply \/ CommitStep \/ Fail
  BY <1>3 DEF NextPass, EndOfPass, InSettle, Reply, CommitStep, Fail, Return
<1>4. CASE UNCHANGED vars
  BY <1>4 DEF vars
<1> QED
  BY <1>1, <1>2, <1>3, <1>4 DEF AnyNext, Work

\* Statements and writes of a clocked block.
IsBlockWork(t, i) ==
  \A k \in 1..Len(t) : t[k].op \in {"seq", "seq leaf"} /\ t[k].inst = i

AllJustified(s) == \A k \in 1..Len(s) : Justified(s[k])

\* The head of the stack gives way to t, work of the same instance that stems
\* from a block that saw an edge if the head did.
BecomesWork(t) ==
  /\ IsSequence(t) /\ IsBlockWork(t, Head(todo).inst) /\ Replaces(todo', todo, t)
  /\ EdgeInv => AllJustified(t)

BodyAction == ClockedBlock \/ SeqControl \/ SeqAssign \/ SeqLeaf \/ SyncName

\* An item of a block's work is in a stack whose items are justified.
LEMMA HeadIsJustified ==
  ASSUME EdgeInv, phase = "step", IsSequence(todo), todo # <<>>
  PROVE  Justified(Head(todo))
<1>1. Head(todo) = todo[1] /\ 1 \in 1..Len(todo)
  BY IsSequenceHead
<1> QED
  BY <1>1 DEF EdgeInv

\* A pop leaves no work in the place of the head.
LEMMA PopBecomes ==
  ASSUME IsStack(todo, StepOps), todo # <<>>, todo' = Tail(todo)
  PROVE  \E t : BecomesWork(t)
<1>1. IsSequence(todo)
  BY DEF IsStack
<1>2. Replaces(todo', todo, <<>>) /\ IsSequence(<<>>) /\ Len(<<>>) = 0
  BY <1>1, PopReplaces DEF Replaces
<1>3. 1..Len(<<>>) = {}
  BY <1>2
<1>4. BecomesWork(<<>>)
  BY <1>2, <1>3 DEF BecomesWork, IsBlockWork, AllJustified
<1> QED
  BY <1>4

\* A block that fires has seen an edge since the call began: the level of its
\* clock or reset is not the one its instance sampled, so it is the new one.
LEMMA FiringSawEdge ==
  ASSUME IInv, EdgeInv, phase = "step", NEW i \in Instance, NEW k \in BlocksOf(i, "ff"),
         Fires(i, Design[i].blocks[k])
  PROVE  SawEdge(i, k)
<1> DEFINE b == Design[i].blocks[k]
<1>1. b.clock # "none" /\ b.clock \in Design[i].clocks
      /\ (b.reset # "none" => b.reset \in Design[i].clocks)
  BY HierarchyAssumption
<1>2. PICK c \in {b.clock, b.reset} \ {"none"} : Rises(i, c)
  BY <1>1 DEF Fires
<1>3. ~clocks[i][c] /\ Level(i, c)
  BY <1>2 DEF Rises
<1>4. c \in Design[i].clocks
  BY <1>1, <1>2
<1>5. clocks[i][c] \in BOOLEAN /\ Level(i, c) \in BOOLEAN
  BY <1>4 DEF IInv, TypeOK, Level, Truthy
<1>6. clocks[i][c] = before.clocks[i][c] \/ clocks[i][c] = Level(i, c)
  BY <1>4 DEF EdgeInv
<1>7. ~before.clocks[i][c]
  BY <1>3, <1>5, <1>6
<1> QED
  BY <1>2, <1>3, <1>7 DEF SawEdge

\* A clocked block gives way to its body when it fires.
LEMMA ClockedBlockBecomes == ASSUME IInv, ClockedBlock PROVE \E t : BecomesWork(t)
<1>1. "block" \in StepOps /\ Doing("block")
  BY DEF StepOps, BodyOps, ClockedBlock
<1> DEFINE i == Head(todo).inst
           k == Head(todo).at
           b == Design[i].blocks[k]
           w == StmtItem("seq", i, b.body)
<1>2. /\ phase = "step" /\ todo # <<>> /\ i \in Instance /\ IsStack(todo, StepOps)
      /\ k \in 1..Len(Design[i].blocks)
  BY <1>1, DoingInStep DEF IsItem
<1>3. \/ todo' = Tail(todo)
      \/ b.kind # "comb" /\ Fires(i, b) /\ todo' = <<w>> \o Tail(todo)
  BY DEF ClockedBlock, Push, Pop, Head1
<1>4. w.op = "seq" /\ w.inst = i /\ w.stmt = b.body
  BY DEF StmtItem
<1>5. ASSUME b.kind # "comb", Fires(i, b), EdgeInv PROVE Justified(w)
  <2>1. k \in BlocksOf(i, "ff")
    BY <1>2, <1>5, HierarchyAssumption DEF BlocksOf
  <2>2. SawEdge(i, k)
    BY <1>2, <1>5, <2>1, FiringSawEdge
  <2> QED
    BY <1>4, <2>1, <2>2 DEF Justified, BodyWrites
<1> HIDE DEF w
<1>6. IsSequence(<<w>>) /\ \A n \in 1..Len(<<w>>) : <<w>>[n] = w
  <2>1. <<w>> \in Seq({w}) /\ \A n \in 1..Len(<<w>>) : <<w>>[n] = w
    OBVIOUS
  <2> QED
    BY <2>1, SeqIsSequence
<1>7. IsBlockWork(<<w>>, i)
  BY <1>4, <1>6 DEF IsBlockWork
<1>8. CASE todo' = Tail(todo)
  BY <1>2, <1>8, PopBecomes
<1>9. CASE b.kind # "comb" /\ Fires(i, b) /\ todo' = <<w>> \o Tail(todo)
  <2>1. EdgeInv => AllJustified(<<w>>)
    BY <1>5, <1>6, <1>9 DEF AllJustified
  <2>2. BecomesWork(<<w>>)
    BY <1>6, <1>7, <1>9, <2>1 DEF BecomesWork, Replaces
  <2> QED
    BY <2>2
<1> QED
  BY <1>3, <1>8, <1>9

\* A control statement gives way to the statements it chooses, which write no
\* more than it may.
LEMMA SeqControlBecomes == ASSUME IInv, SeqControl PROVE \E t : BecomesWork(t)
<1>1. "seq" \in StepOps /\ Doing("seq")
  BY DEF StepOps, BodyOps, SeqControl
<1> DEFINE i == Head(todo).inst
           s == Head(todo).stmt
<1>2. /\ phase = "step" /\ todo # <<>> /\ i \in Instance /\ IsStack(todo, StepOps)
      /\ Head(todo).op = "seq" /\ s \in Label /\ IsSequence(todo)
  BY <1>1, DoingInStep DEF IsItem, IsStack
<1>3. PICK body \in Branches(Code[s]) :
        /\ Code[s].kind # "assign"
        /\ IsBody(body)
        /\ todo' = [k \in 1..Len(body) |-> StmtItem("seq", i, body[k])] \o Tail(todo)
  BY SeqControlChooses DEF Head1
<1> DEFINE t == [k \in 1..Len(body) |-> StmtItem("seq", i, body[k])]
<1>4. Len(body) \in Nat
  BY <1>3, SequenceLength DEF IsBody
<1>5. IsSequence(t) /\ Len(t) = Len(body)
  BY <1>4, FunctionIsSequence
<1>6. \A k \in 1..Len(t) : t[k].op = "seq" /\ t[k].inst = i /\ t[k].stmt = body[k]
  BY <1>5 DEF StmtItem
<1>7. Replaces(todo', todo, t)
  BY <1>3 DEF Replaces
<1> HIDE DEF t
<1>8. ASSUME EdgeInv, NEW n \in 1..Len(t) PROVE Justified(t[n])
  <2>1. Justified(Head(todo))
    BY <1>2, <1>8, HeadIsJustified
  <2>2. PICK k \in BlocksOf(i, "ff") : SawEdge(i, k) /\ WriteSets[s] \subseteq BodyWrites(i, k)
    BY <1>2, <2>1 DEF Justified
  <2>3. n \in 1..Len(body) /\ t[n].op = "seq" /\ t[n].inst = i /\ t[n].stmt = body[n]
    BY <1>5, <1>6
  <2>4. body[n] \in Substatements(s)
    BY <1>2, <1>3, <2>3, BranchesAreSubstatements
  <2>5. WriteSets[body[n]] \subseteq WriteSets[s]
    BY <1>2, <2>4, WriteSetsGather DEF Gathered
  <2>6. SawEdge(t[n].inst, k) /\ WriteSets[t[n].stmt] \subseteq BodyWrites(t[n].inst, k)
        /\ k \in BlocksOf(t[n].inst, "ff")
    BY <2>2, <2>3, <2>5
  <2> QED
    BY <2>3, <2>6 DEF Justified
<1>9. BecomesWork(t)
  BY <1>5, <1>6, <1>7, <1>8 DEF BecomesWork, IsBlockWork, AllJustified
<1> QED
  BY <1>9

\* An assignment gives way to the writes of its leaves.
LEMMA SeqAssignBecomes == ASSUME IInv, SeqAssign PROVE \E t : BecomesWork(t)
<1>1. "seq" \in StepOps /\ Doing("seq")
  BY DEF StepOps, BodyOps, SeqAssign
<1> DEFINE i == Head(todo).inst
           s == Code[Head(todo).stmt]
           n == Len(s.target.leaves)
           bits(leaf) == LeafBits(s.target, leaf, SeqValue(i, s.expr))
           word(leaf) == IF leaf.kind = "memory"
                         THEN Address(i, leaf) - Design[i].memories[leaf.name].low
                         ELSE 0
           t == [k \in 1..n |->
                  [op |-> "seq leaf", inst |-> i, leaf |-> s.target.leaves[k],
                   bits |-> bits(s.target.leaves[k]), word |-> word(s.target.leaves[k]),
                   blocking |-> s.blocking]]
<1>2. /\ phase = "step" /\ todo # <<>> /\ i \in Instance /\ IsStack(todo, StepOps)
      /\ Head(todo).op = "seq" /\ Head(todo).stmt \in Label /\ IsSequence(todo)
  BY <1>1, DoingInStep DEF IsItem, IsStack
<1>3. s.kind = "assign" /\ todo' = t \o Tail(todo)
  BY DEF SeqAssign, Push, Head1
<1>4. n \in Nat
  BY <1>2, <1>3, CodeAssumption, SequenceLength
<1>5. \A k \in 1..n : t[k].op = "seq leaf" /\ t[k].inst = i /\ t[k].leaf = s.target.leaves[k]
  OBVIOUS
<1>6. IsSequence(t) /\ Len(t) = n
  <2> HIDE DEF n
  <2> QED
    BY <1>4, FunctionIsSequence
<1>7. Replaces(todo', todo, t)
  BY <1>3 DEF Replaces
<1> HIDE DEF t
<1>8. ASSUME EdgeInv, NEW j \in 1..Len(t) PROVE Justified(t[j])
  <2>1. Justified(Head(todo))
    BY <1>2, <1>8, HeadIsJustified
  <2>2. PICK k \in BlocksOf(i, "ff") :
          SawEdge(i, k) /\ WriteSets[Head(todo).stmt] \subseteq BodyWrites(i, k)
    BY <1>2, <2>1 DEF Justified
  <2>3. /\ j \in 1..Len(s.target.leaves)
        /\ t[j].op = "seq leaf" /\ t[j].inst = i /\ t[j].leaf = s.target.leaves[j]
    BY <1>5, <1>6
  <2>4. t[j].leaf.kind # "memory" => t[j].leaf.name \in WriteSets[Head(todo).stmt]
    BY <1>2, <1>3, <2>3, LeavesAreWritten
  <2>5. /\ SawEdge(t[j].inst, k) /\ k \in BlocksOf(t[j].inst, "ff")
        /\ t[j].leaf.kind # "memory" => t[j].leaf.name \in BodyWrites(t[j].inst, k)
    BY <2>2, <2>3, <2>4
  <2> QED
    BY <2>3, <2>5 DEF Justified
<1>9. IsBlockWork(t, i)
  BY <1>5, <1>6 DEF IsBlockWork
<1>10. BecomesWork(t)
  BY <1>6, <1>7, <1>8, <1>9 DEF BecomesWork, AllJustified
<1> HIDE DEF n
<1> QED
  BY <1>10

\* Inside an instance the head of the stack gives way to work of its blocks.
LEMMA BodyReplaces ==
  ASSUME IInv, BodyAction
  PROVE  /\ phase = "step" /\ todo # <<>> /\ Head(todo).op \in BodyOps
         /\ Head(todo).inst \in Instance
         /\ \E t : BecomesWork(t)
         /\ UNCHANGED <<session, before, preFrame>>
         /\ ~ClockedBlock => sampled' = sampled
<1>1. PICK op \in BodyOps : Doing(op)
  BY DEF BodyAction, ClockedBlock, SeqControl, SeqAssign, SeqLeaf, SyncName, BodyOps
<1>2. op \in StepOps
  BY DEF StepOps
<1>3. /\ phase = "step" /\ todo # <<>> /\ Head(todo).op \in BodyOps
      /\ Head(todo).inst \in Instance /\ IsStack(todo, StepOps)
  BY <1>1, <1>2, DoingInStep DEF IsItem
<1>4. UNCHANGED <<session, before, preFrame>>
  BY DEF BodyAction, ClockedBlock, SeqControl, SeqAssign, SeqLeaf, SyncName, stepping
<1>5. ~ClockedBlock => sampled' = sampled
  BY DEF BodyAction, SeqControl, SeqAssign, SeqLeaf, SyncName, stepping
<1>6. CASE SeqLeaf \/ SyncName
  <2>1. todo' = Tail(todo)
    BY <1>6 DEF SeqLeaf, SyncName, Pop
  <2> QED
    BY <1>3, <1>4, <1>5, <2>1, PopBecomes
<1> QED
  BY <1>3, <1>4, <1>5, <1>6, ClockedBlockBecomes, SeqControlBecomes, SeqAssignBecomes
     DEF BodyAction

-----------------------------------------------------------------------------
(* The walk. *)

\* Who waits after the head of the stack has become other work.
LEMMA WaitingReplaced ==
  ASSUME NEW s, IsSequence(s), s # <<>>, NEW t, IsSequence(t), NEW r, Replaces(r, s, t), NEW op
  PROVE  /\ Waiting(t, op) \subseteq Waiting(r, op)
         /\ \A i \in Waiting(s, op) :
              i \in Waiting(r, op) \/ (Head(s).op = op /\ Head(s).inst = i)
         /\ Waiting(r, op) \subseteq Waiting(t, op) \cup Waiting(s, op)
<1>1. /\ Len(t) \in Nat /\ Len(s) \in Nat \ {0} /\ Len(r) \in Nat
      /\ Head(s) = s[1]
      /\ \A k \in 1..Len(t) : k \in 1..Len(r) /\ r[k] = t[k]
      /\ \A k \in 2..Len(s) : Len(t) + k - 1 \in 1..Len(r) /\ r[Len(t) + k - 1] = s[k]
      /\ \A k \in 1..Len(r) : k > Len(t) =>
           k - Len(t) + 1 \in 2..Len(s) /\ r[k] = s[k - Len(t) + 1]
  BY Replaced
<1>2. Waiting(t, op) \subseteq Waiting(r, op)
  BY <1>1 DEF Waiting
<1>3. ASSUME NEW i \in Waiting(s, op)
      PROVE  i \in Waiting(r, op) \/ (Head(s).op = op /\ Head(s).inst = i)
  <2>1. PICK k \in 1..Len(s) : s[k].op = op /\ s[k].inst = i
    BY DEF Waiting
  <2>2. CASE k = 1
    BY <1>1, <2>1, <2>2
  <2>3. CASE k # 1
    <3>1. k \in 2..Len(s)
      BY <1>1, <2>3
    <3>2. PICK m \in 1..Len(r) : r[m] = s[k]
      BY <1>1, <3>1
    <3> QED
      BY <2>1, <3>2 DEF Waiting
  <2> QED
    BY <2>2, <2>3
<1>4. ASSUME NEW i \in Waiting(r, op)
      PROVE  i \in Waiting(t, op) \cup Waiting(s, op)
  <2>1. PICK k \in 1..Len(r) : r[k].op = op /\ r[k].inst = i
    BY DEF Waiting
  <2>2. CASE k <= Len(t)
    <3>1. k \in 1..Len(t)
      BY <1>1, <2>2
    <3> QED
      BY <1>1, <2>1, <3>1 DEF Waiting
  <2>3. CASE k > Len(t)
    <3>1. PICK m \in 2..Len(s) : r[k] = s[m]
      BY <1>1, <2>3
    <3>2. m \in 1..Len(s)
      BY <1>1
    <3> QED
      BY <2>1, <3>1, <3>2 DEF Waiting
  <2> QED
    BY <1>1, <2>2, <2>3
<1> QED
  BY <1>2, <1>3, <1>4

\* The work of an instance, position by position.
LEMMA StepWorkItems ==
  ASSUME NEW i \in Instance
  PROVE  LET n == Len(Design[i].children)
             m == Len(Design[i].blocks)
             d == Len(Design[i].decls)
             s == StepWork(i)
         IN  /\ n \in Nat /\ m \in Nat /\ d \in Nat
             /\ IsSequence(s) /\ Len(s) = n + m + d + 2
             /\ \A k \in 1..n : s[k] = Item("step", Design[i].children[k])
             /\ s[n + 1] = Item("open", i)
             /\ \A k \in 1..m : s[n + 1 + k] = ItemAt("block", i, k)
             /\ \A k \in 1..d : s[n + 1 + m + k] = ItemAt("sync", i, k)
             /\ s[n + m + d + 2] = Item("close", i)
<1> DEFINE n == Len(Design[i].children)
           m == Len(Design[i].blocks)
           d == Len(Design[i].decls)
           cs == [k \in 1..n |-> Item("step", Design[i].children[k])]
           op == <<Item("open", i)>>
           bs == [k \in 1..m |-> ItemAt("block", i, k)]
           ns == [k \in 1..d |-> ItemAt("sync", i, k)]
           cl == <<Item("close", i)>>
<1>1. n \in Nat /\ m \in Nat /\ d \in Nat
  BY DesignAssumption, SequenceLength
<1>2. /\ IsSequence(cs) /\ Len(cs) = n
      /\ \A k \in 1..n : cs[k] = Item("step", Design[i].children[k])
  <2> HIDE DEF n
  <2> QED
    BY <1>1, FunctionIsSequence
<1>3. IsSequence(op) /\ Len(op) = 1 /\ op[1] = Item("open", i)
  <2>1. op \in Seq({Item("open", i)}) /\ Len(op) = 1 /\ op[1] = Item("open", i)
    OBVIOUS
  <2> QED
    BY <2>1, SeqIsSequence
<1>4. /\ IsSequence(bs) /\ Len(bs) = m
      /\ \A k \in 1..m : bs[k] = ItemAt("block", i, k)
  <2> HIDE DEF m
  <2> QED
    BY <1>1, FunctionIsSequence
<1>5. /\ IsSequence(ns) /\ Len(ns) = d
      /\ \A k \in 1..d : ns[k] = ItemAt("sync", i, k)
  <2> HIDE DEF d
  <2> QED
    BY <1>1, FunctionIsSequence
<1>6. IsSequence(cl) /\ Len(cl) = 1 /\ cl[1] = Item("close", i)
  <2>1. cl \in Seq({Item("close", i)}) /\ Len(cl) = 1 /\ cl[1] = Item("close", i)
    OBVIOUS
  <2> QED
    BY <2>1, SeqIsSequence
<1>7. StepWork(i) = (((cs \o op) \o bs) \o ns) \o cl
  BY DEF StepWork
<1> HIDE DEF cs, op, bs, ns, cl, n, m, d
<1> DEFINE s1 == cs \o op
           s2 == s1 \o bs
           s3 == s2 \o ns
           s4 == s3 \o cl
<1>a. Joins(s1, cs, op)
  BY DEF Joins
<1>b. Joins(s2, s1, bs)
  BY DEF Joins
<1>c. Joins(s3, s2, ns)
  BY DEF Joins
<1>d. Joins(s4, s3, cl)
  BY DEF Joins
<1> HIDE DEF s1, s2, s3, s4
<1>8. /\ IsSequence(s1) /\ Len(s1) = n + 1
      /\ \A k \in 1..n : s1[k] = cs[k]
      /\ s1[n + 1] = op[1]
  <2>0. IsSequence(cs) /\ IsSequence(op)
    BY <1>2, <1>3
  <2>1. /\ IsSequence(s1) /\ Len(s1) = Len(cs) + Len(op)
        /\ \A k \in 1..Len(cs) : s1[k] = cs[k]
        /\ \A k \in 1..Len(op) : s1[Len(cs) + k] = op[k]
    BY <2>0, <1>a, Joined
  <2> QED
    BY <1>1, <1>2, <1>3, <2>1
<1>9. /\ IsSequence(s2) /\ Len(s2) = n + 1 + m
      /\ \A k \in 1..(n + 1) : s2[k] = s1[k]
      /\ \A k \in 1..m : s2[n + 1 + k] = bs[k]
  <2>0. IsSequence(s1) /\ IsSequence(bs)
    BY <1>4, <1>8
  <2>1. /\ IsSequence(s2) /\ Len(s2) = Len(s1) + Len(bs)
        /\ \A k \in 1..Len(s1) : s2[k] = s1[k]
        /\ \A k \in 1..Len(bs) : s2[Len(s1) + k] = bs[k]
    BY <2>0, <1>b, Joined
  <2> QED
    BY <1>1, <1>4, <1>8, <2>1
<1>10. /\ IsSequence(s3) /\ Len(s3) = n + 1 + m + d
       /\ \A k \in 1..(n + 1 + m) : s3[k] = s2[k]
       /\ \A k \in 1..d : s3[n + 1 + m + k] = ns[k]
  <2>0. IsSequence(s2) /\ IsSequence(ns)
    BY <1>5, <1>9
  <2>1. /\ IsSequence(s3) /\ Len(s3) = Len(s2) + Len(ns)
        /\ \A k \in 1..Len(s2) : s3[k] = s2[k]
        /\ \A k \in 1..Len(ns) : s3[Len(s2) + k] = ns[k]
    BY <2>0, <1>c, Joined
  <2> QED
    BY <1>1, <1>5, <1>9, <2>1
<1>11. /\ IsSequence(s4) /\ Len(s4) = n + m + d + 2
       /\ \A k \in 1..(n + 1 + m + d) : s4[k] = s3[k]
       /\ s4[n + m + d + 2] = cl[1]
  <2>0. IsSequence(s3) /\ IsSequence(cl)
    BY <1>6, <1>10
  <2>1. /\ IsSequence(s4) /\ Len(s4) = Len(s3) + Len(cl)
        /\ \A k \in 1..Len(s3) : s4[k] = s3[k]
        /\ \A k \in 1..Len(cl) : s4[Len(s3) + k] = cl[k]
    BY <2>0, <1>d, Joined
  <2>2. s4[Len(s3) + 1] = cl[1] /\ Len(s3) + 1 = n + m + d + 2
    BY <1>1, <1>6, <1>10, <2>1
  <2> QED
    BY <1>1, <1>6, <1>10, <2>1, <2>2
<1>12. \A k \in 1..n : s4[k] = cs[k]
  BY <1>1, <1>8, <1>9, <1>10, <1>11
<1>13. s4[n + 1] = op[1]
  BY <1>1, <1>8, <1>9, <1>10, <1>11
<1>14. \A k \in 1..m : s4[n + 1 + k] = bs[k]
  BY <1>1, <1>9, <1>10, <1>11
<1>15. \A k \in 1..d : s4[n + 1 + m + k] = ns[k]
  BY <1>1, <1>10, <1>11
<1>16. StepWork(i) = s4
  BY <1>7, <1>a, <1>b, <1>c, <1>d DEF Joins
<1> QED
  BY <1>1, <1>2, <1>3, <1>4, <1>5, <1>6, <1>11, <1>12, <1>13, <1>14, <1>15, <1>16 DEF n, m, d

\* The parts of an item.
LEMMA ItemParts ==
  /\ \A op, i : Item(op, i).op = op /\ Item(op, i).inst = i
  /\ \A op, i, k : ItemAt(op, i, k).op = op /\ ItemAt(op, i, k).inst = i /\ ItemAt(op, i, k).at = k
  BY DEF Item, ItemAt

\* Blocks follow an instance that is opened also after its head is replaced.
LEMMA BlocksAheadReplaced ==
  ASSUME NEW ops, NEW s, IsStack(s, ops), s # <<>>, BlocksAhead(s),
         NEW t, IsStack(t, ops), BlocksAhead(t), NEW r, Replaces(r, s, t)
  PROVE  BlocksAhead(r)
<1>1. IsSequence(s) /\ IsSequence(t)
  BY DEF IsStack
<1>2. /\ Len(t) \in Nat /\ Len(s) \in Nat \ {0} /\ Len(r) \in Nat
      /\ Len(r) = Len(t) + Len(s) - 1
      /\ \A k \in 1..Len(t) : k \in 1..Len(r) /\ r[k] = t[k]
      /\ \A k \in 2..Len(s) : Len(t) + k - 1 \in 1..Len(r) /\ r[Len(t) + k - 1] = s[k]
      /\ \A k \in 1..Len(r) : k > Len(t) =>
           k - Len(t) + 1 \in 2..Len(s) /\ r[k] = s[k - Len(t) + 1]
  BY <1>1, Replaced
<1> SUFFICES ASSUME NEW k \in 1..Len(r), r[k].op = "open",
                    NEW b \in 1..Len(Design[r[k].inst].blocks)
             PROVE  k + b <= Len(r) /\ r[k + b] = ItemAt("block", r[k].inst, b)
  BY DEF BlocksAhead
<1>3. CASE k <= Len(t)
  <2>1. k \in 1..Len(t) /\ r[k] = t[k]
    BY <1>2, <1>3
  <2>2. t[k].inst \in Instance
    BY <2>1 DEF IsStack, IsItem
  <2>3. b \in Nat \ {0}
    BY <2>1, <2>2, DesignAssumption, SequenceLength
  <2>4. k + b <= Len(t) /\ t[k + b] = ItemAt("block", t[k].inst, b)
    BY <2>1 DEF BlocksAhead
  <2>5. k + b \in 1..Len(t)
    BY <1>2, <2>1, <2>3, <2>4
  <2> QED
    BY <1>2, <2>1, <2>4, <2>5
<1>4. CASE k > Len(t)
  <2> DEFINE j == k - Len(t) + 1
  <2>1. j \in 2..Len(s) /\ r[k] = s[j]
    BY <1>2, <1>4
  <2>2. j \in 1..Len(s)
    BY <1>2, <2>1
  <2>3. s[j].inst \in Instance
    BY <2>2 DEF IsStack, IsItem
  <2>4. b \in Nat \ {0}
    BY <2>1, <2>3, DesignAssumption, SequenceLength
  <2>5. j + b <= Len(s) /\ s[j + b] = ItemAt("block", s[j].inst, b)
    BY <2>1, <2>2 DEF BlocksAhead
  <2>6. j + b \in 2..Len(s) /\ Len(t) + (j + b) - 1 = k + b
    BY <1>2, <2>2, <2>4, <2>5
  <2>7. k + b \in 1..Len(r) /\ r[k + b] = s[j + b]
    BY <1>2, <2>6
  <2> QED
    BY <1>2, <2>1, <2>5, <2>7
<1> QED
  BY <1>2, <1>3, <1>4

\* The work of an instance has its blocks after its "open", its children
\* waiting to be entered and itself waiting to be closed.
LEMMA StepWorkWaits ==
  ASSUME NEW i \in Instance
  PROVE  /\ BlocksAhead(StepWork(i))
         /\ \A k \in 1..Len(Design[i].children) :
              Design[i].children[k] \in Waiting(StepWork(i), "step")
         /\ i \in Waiting(StepWork(i), "close")
         /\ \A k \in 1..Len(StepWork(i)) : StepWork(i)[k].op \notin {"seq", "seq leaf"}
<1> DEFINE n == Len(Design[i].children)
           m == Len(Design[i].blocks)
           d == Len(Design[i].decls)
           s == StepWork(i)
<1>1. /\ n \in Nat /\ m \in Nat /\ d \in Nat /\ Len(s) = n + m + d + 2
      /\ \A k \in 1..n : s[k] = Item("step", Design[i].children[k])
      /\ s[n + 1] = Item("open", i)
      /\ \A k \in 1..m : s[n + 1 + k] = ItemAt("block", i, k)
      /\ \A k \in 1..d : s[n + 1 + m + k] = ItemAt("sync", i, k)
      /\ s[n + m + d + 2] = Item("close", i)
  BY StepWorkItems
<1> HIDE DEF n, m, d, s
<1>a. n \in Nat /\ m \in Nat /\ d \in Nat /\ Len(s) = n + m + d + 2
  BY <1>1
<1>b. \A k \in 1..n : s[k].op = "step" /\ s[k].inst = Design[i].children[k]
  <2>1. \A k \in 1..n : s[k] = Item("step", Design[i].children[k])
    BY <1>1
  <2> QED
    BY <2>1, ItemParts
<1>c. \A k \in 1..m : s[n + 1 + k].op = "block"
  <2>1. \A k \in 1..m : s[n + 1 + k] = ItemAt("block", i, k)
    BY <1>1
  <2> QED
    BY <2>1, ItemParts
<1>d. \A k \in 1..d : s[n + 1 + m + k].op = "sync"
  <2>1. \A k \in 1..d : s[n + 1 + m + k] = ItemAt("sync", i, k)
    BY <1>1
  <2> QED
    BY <2>1, ItemParts
<1>e. s[n + m + d + 2].op = "close" /\ s[n + m + d + 2].inst = i
  <2>1. s[n + m + d + 2] = Item("close", i)
    BY <1>1
  <2> QED
    BY <2>1, ItemParts
<1>f. s[n + 1].op = "open"
  BY <1>1, ItemParts
<1>2. ASSUME NEW k \in 1..Len(s)
      PROVE  s[k].op \in {"step", "block", "sync", "close"} \/ (k = n + 1 /\ s[k].op = "open")
  <2>1. CASE k \in 1..n
    BY <2>1, <1>b
  <2>2. CASE k > n + 1 /\ k <= n + 1 + m
    <3> DEFINE j == k - (n + 1)
    <3>1. j \in 1..m /\ n + 1 + j = k
      BY <1>a, <2>2
    <3> HIDE DEF j
    <3> QED
      BY <3>1, <1>c
  <2>3. CASE k > n + 1 + m /\ k <= n + 1 + m + d
    <3> DEFINE j == k - (n + 1 + m)
    <3>1. j \in 1..d /\ n + 1 + m + j = k
      BY <1>a, <2>3
    <3> HIDE DEF j
    <3> QED
      BY <3>1, <1>d
  <2>4. CASE k = n + m + d + 2
    BY <2>4, <1>e
  <2>5. CASE k = n + 1
    BY <2>5, <1>f
  <2> QED
    BY <1>a, <2>1, <2>2, <2>3, <2>4, <2>5
<1>3. BlocksAhead(s)
  <2> SUFFICES ASSUME NEW k \in 1..Len(s), s[k].op = "open",
                      NEW b \in 1..Len(Design[s[k].inst].blocks)
               PROVE  k + b <= Len(s) /\ s[k + b] = ItemAt("block", s[k].inst, b)
    BY DEF BlocksAhead
  <2>1. k = n + 1
    BY <1>2
  <2>2. s[k].inst = i
    BY <1>1, <2>1 DEF Item
  <2>3. b \in 1..m
    BY <2>2 DEF m
  <2> QED
    BY <1>1, <2>1, <2>2, <2>3
<1>4. ASSUME NEW k \in 1..n PROVE Design[i].children[k] \in Waiting(s, "step")
  <2>1. k \in 1..Len(s) /\ s[k].op = "step" /\ s[k].inst = Design[i].children[k]
    BY <1>a, <1>b
  <2> QED
    BY <2>1 DEF Waiting
<1>5. i \in Waiting(s, "close")
  <2>1. n + m + d + 2 \in 1..Len(s)
    BY <1>a
  <2> QED
    BY <1>e, <2>1 DEF Waiting
<1> QED
  BY <1>2, <1>3, <1>4, <1>5 DEF n, s

\* Levels are read in the frame before the edge.
LEMMA LevelsKept ==
  ASSUME UNCHANGED preFrame PROVE \A i, c : Level(i, c)' = Level(i, c)
  BY DEF Level

\* Whoever waited still waits: the walk reaches what it reached.
LEMMA ReachesKept ==
  ASSUME NEW Below, Reaches(Below), UNCHANGED <<clocks, preFrame>>,
         Waiting(todo, "step") \subseteq Waiting(todo', "step"),
         Waiting(todo, "close") \subseteq Waiting(todo', "close")
  PROVE  Reaches(Below)'
<1>1. \A i \in Instance : LevelsSampled(i)' = LevelsSampled(i)
  BY LevelsKept DEF LevelsSampled
<1> QED
  BY <1>1 DEF Reaches

\* A step starts with the top instance to enter and all others below it.
LEMMA BeginStepWalks == ASSUME IInv, BeginStep PROVE WalkInv'
<1> DEFINE w == Item("step", Top)
           Below == Instance \ {Top}
<1>1. todo' = <<w>>
  BY DEF BeginStep
<1>2. w.op = "step" /\ w.inst = Top
  BY ItemParts
<1> HIDE DEF w
<1>3. Len(<<w>>) = 1 /\ <<w>>[1] = w /\ Head(<<w>>) = w /\ <<w>> # <<>>
  OBVIOUS
<1>4. Top \in Waiting(todo', "step")
  BY <1>1, <1>2, <1>3 DEF Waiting
<1>5. Reaches(Below)'
  <2>1. ASSUME NEW i \in Below
        PROVE  i # Top /\ (Parent(i) \in Below \/ Parent(i) \in Waiting(todo', "step"))
    <3>1. Design[i].parent \in Instance
      BY HierarchyAssumption
    <3> QED
      BY <1>4, <3>1 DEF Parent
  <2> QED
    BY <1>4, <2>1 DEF Reaches
<1>6. BlocksAhead(todo)'
  BY <1>1, <1>2, <1>3 DEF BlocksAhead
<1>7. ~InBody'
  BY <1>1, <1>2, <1>3 DEF InBody, BodyOps
<1> QED
  BY <1>5, <1>6, <1>7 DEF WalkInv, SamplesClocks

\* To enter an instance is not yet to work in it.
LEMMA EnterStepOutside == ASSUME IInv, EnterStep PROVE ~InBody'
<1>1. "step" \in StepOps /\ Doing("step")
  BY DEF StepOps, EnterStep
<1> DEFINE t == StepWork(Head(todo).inst)
<1>2. todo # <<>> /\ Head(todo).inst \in Instance /\ IsSequence(todo)
  BY <1>1, DoingInStep DEF IsItem, IsStack
<1>3. Replaces(todo', todo, t)
  BY DEF EnterStep, Push, Head1, Replaces
<1>4. IsSequence(t) /\ Len(t) > 0 /\ t[1].op \in {"step", "open"}
  BY <1>2, StepWorkStack DEF IsStack
<1> HIDE DEF t
<1>5. Len(t) \in Nat /\ 1 \in 1..Len(t)
  BY <1>4, SequenceLength
<1>6. IsSequence(todo') /\ \A k \in 1..Len(t) : k \in 1..Len(todo') /\ todo'[k] = t[k]
  BY <1>2, <1>3, <1>4, Replaced
<1>7. IsSequence(todo') /\ todo'[1] = t[1]
  BY <1>5, <1>6
<1>8. todo' # <<>> => Head(todo') = todo'[1]
  BY <1>7, IsSequenceHead
<1> QED
  BY <1>4, <1>7, <1>8 DEF InBody, BodyOps

\* An instance is entered: its children wait in turn, and it waits to close.
LEMMA EnterStepWalks == ASSUME IInv, WalkInv, EnterStep PROVE WalkInv'
<1>1. "step" \in StepOps /\ Doing("step")
  BY DEF StepOps, EnterStep
<1> DEFINE i == Head(todo).inst
           t == StepWork(i)
           Kids == {Design[i].children[k] : k \in 1..Len(Design[i].children)}
<1>2. /\ phase = "step" /\ todo # <<>> /\ Head(todo).op = "step" /\ i \in Instance
      /\ IsStack(todo, StepOps) /\ IsSequence(todo)
  BY <1>1, DoingInStep DEF IsItem, IsStack
<1>3. Replaces(todo', todo, t) /\ UNCHANGED <<clocks, preFrame>>
  BY DEF EnterStep, Push, Head1, session, stepping, Replaces
<1>4. /\ IsStack(t, StepOps) /\ IsSequence(t) /\ Len(t) > 0
      /\ t[1].op \in {"step", "open"}
  BY <1>2, StepWorkStack DEF IsStack
<1>5. /\ BlocksAhead(t)
      /\ Kids \subseteq Waiting(t, "step")
      /\ i \in Waiting(t, "close")
  BY <1>2, StepWorkWaits
<1> HIDE DEF t
<1>6. PICK Below \in SUBSET Instance : Reaches(Below)
  BY <1>2 DEF WalkInv
<1>7. /\ \A j \in Waiting(todo, "step") : j \in Waiting(todo', "step") \/ j = i
      /\ Waiting(todo, "close") \subseteq Waiting(todo', "close")
      /\ Kids \subseteq Waiting(todo', "step")
      /\ i \in Waiting(todo', "close")
  <2>1. \A op : /\ Waiting(t, op) \subseteq Waiting(todo', op)
                /\ \A j \in Waiting(todo, op) :
                     j \in Waiting(todo', op) \/ (Head(todo).op = op /\ i = j)
    BY <1>2, <1>3, <1>4, WaitingReplaced
  <2> QED
    BY <1>2, <1>5, <2>1
<1>8. \A j \in Instance : LevelsSampled(j)' = LevelsSampled(j)
  BY <1>3, LevelsKept DEF LevelsSampled
<1> PICK B \in SUBSET Instance : B = Below \ Kids
  BY <1>6
<1>9. Reaches(B)'
  <2>1. ASSUME NEW j \in B
        PROVE  j # Top /\ (Parent(j) \in B \/ Parent(j) \in Waiting(todo', "step"))
    <3>1. j \in Instance /\ j # Top
      BY <1>6 DEF Reaches
    <3>2. Parent(j) # i
      BY <3>1, HierarchyAssumption DEF Parent
    <3>3. Parent(j) \in Below \/ Parent(j) \in Waiting(todo, "step")
      BY <1>6 DEF Reaches
    <3> QED
      BY <1>7, <3>1, <3>2, <3>3
  <2>2. ASSUME NEW j \in Instance \ B
        PROVE  \/ j \in Waiting(todo', "step") \/ j \in Waiting(todo', "close")
               \/ LevelsSampled(j)'
    <3>1. CASE j \in Kids
      BY <1>7, <3>1
    <3>2. CASE j \notin Kids
      <4>1. \/ j \in Waiting(todo, "step") \/ j \in Waiting(todo, "close")
            \/ LevelsSampled(j)
        BY <1>6, <3>2 DEF Reaches
      <4> QED
        BY <1>7, <1>8, <4>1
    <3> QED
      BY <3>1, <3>2
  <2> QED
    BY <2>1, <2>2 DEF Reaches
<1>10. BlocksAhead(todo)'
  <2>1. BlocksAhead(todo)
    BY <1>2 DEF WalkInv
  <2>2. BlocksAhead(todo')
    BY <1>2, <1>3, <1>4, <1>5, <2>1, BlocksAheadReplaced
  <2> QED
    BY <2>2 DEF BlocksAhead
<1>11. ~InBody'
  BY EnterStepOutside
<1> QED
  BY <1>9, <1>10, <1>11 DEF WalkInv, SamplesClocks

\* What SamplesClocks asks of the next state.
LEMMA SamplesNext ==
  ASSUME NEW i, UNCHANGED preFrame,
         InBody' => /\ Head(todo').inst = i
                    /\ \A c \in Design[i].clocks :
                         sampled'[c] = Level(i, c) \/ StillSamples(todo', i, c)
  PROVE  SamplesClocks'
<1> SUFFICES ASSUME InBody', NEW c \in Design[i].clocks
             PROVE  sampled'[c] = Level(i, c)' \/ StillSamples(todo', i, c)
  BY DEF SamplesClocks, StillSamples, Level
<1> QED
  BY LevelsKept

\* Replacing the head by work that waits for nothing keeps the walk on course,
\* unless the head was an instance to enter or to close.
LEMMA QuietReplaceWalks ==
  ASSUME NEW t, IsStack(t, StepOps), BlocksAhead(t), Replaces(todo', todo, t),
         IsStack(todo, StepOps), todo # <<>>, Head(todo).op \notin {"step", "close"},
         UNCHANGED <<clocks, preFrame>>, phase = "step", WalkInv
  PROVE  (\E Below \in SUBSET Instance : Reaches(Below))' /\ BlocksAhead(todo)'
<1>1. PICK Below \in SUBSET Instance : Reaches(Below)
  BY DEF WalkInv
<1>2. IsSequence(t) /\ IsSequence(todo)
  BY DEF IsStack
<1>3. \A op : \A i \in Waiting(todo, op) :
         i \in Waiting(todo', op) \/ (Head(todo).op = op /\ Head(todo).inst = i)
  BY <1>2, WaitingReplaced
<1>4. /\ Waiting(todo, "step") \subseteq Waiting(todo', "step")
      /\ Waiting(todo, "close") \subseteq Waiting(todo', "close")
  BY <1>3
<1>5. Reaches(Below)'
  BY <1>1, <1>4, ReachesKept
<1>6. BlocksAhead(todo')
  <2>1. BlocksAhead(todo)
    BY DEF WalkInv
  <2> QED
    BY <2>1, BlocksAheadReplaced
<1>7. BlocksAhead(todo)'
  BY <1>6 DEF BlocksAhead
<1> QED
  BY <1>5, <1>7

\* A pop replaces the head by no work.
LEMMA PopIsReplace ==
  ASSUME NEW ops, IsStack(todo, ops), todo # <<>>, todo' = Tail(todo)
  PROVE  IsStack(<<>>, ops) /\ Len(<<>>) = 0 /\ BlocksAhead(<<>>) /\ Replaces(todo', todo, <<>>)
<1>1. IsSequence(todo)
  BY DEF IsStack
<1>2. Tail(todo) = <<>> \o Tail(todo) /\ IsSequence(<<>>) /\ Len(<<>>) = 0
  BY <1>1, PopReplaces
<1>3. 1..Len(<<>>) = {}
  BY <1>2
<1> QED
  BY <1>2, <1>3 DEF IsStack, BlocksAhead, Replaces

\* An instance is opened: every clock it watches is one a block of it samples.
LEMMA OpenInstanceWalks == ASSUME IInv, WalkInv, OpenInstance PROVE WalkInv'
<1>1. "open" \in StepOps /\ Doing("open") /\ todo' = Tail(todo)
  BY DEF StepOps, OpenInstance, Pop
<1> DEFINE i == Head(todo).inst
<1>2. /\ phase = "step" /\ todo # <<>> /\ Head(todo).op = "open" /\ i \in Instance
      /\ IsStack(todo, StepOps) /\ IsSequence(todo)
  BY <1>1, DoingInStep DEF IsItem, IsStack
<1>3. UNCHANGED <<clocks, preFrame>>
  BY DEF OpenInstance, session
<1>4. /\ IsStack(<<>>, StepOps) /\ IsSequence(<<>>) /\ Len(<<>>) = 0 /\ BlocksAhead(<<>>)
      /\ Replaces(todo', todo, <<>>)
  BY <1>1, <1>2, PopIsReplace DEF IsStack
<1>5. (\E Below \in SUBSET Instance : Reaches(Below))' /\ BlocksAhead(todo)'
  BY <1>2, <1>3, <1>4, QuietReplaceWalks
<1>6. SamplesClocks'
  <2> SUFFICES ASSUME InBody', NEW c \in Design[i].clocks
               PROVE  StillSamples(todo', i, c)
    <3>1. InBody' => Head(todo').inst = i
      BY <1>1, PopInStep
    <3> QED
      BY <1>3, <3>1, SamplesNext
  <2>1. PICK k \in 1..Len(Design[i].blocks) :
          /\ Design[i].blocks[k].kind = "ff"
          /\ c \in {Design[i].blocks[k].clock, Design[i].blocks[k].reset}
    BY <1>2, HierarchyAssumption DEF BlocksOf
  <2>2. Len(Design[i].blocks) \in Nat
    BY <1>2, DesignAssumption, SequenceLength
  <2>3. \A b \in 1..Len(Design[i].blocks) :
          1 + b <= Len(todo) /\ todo[1 + b] = ItemAt("block", i, b)
    <3>1. todo[1] = Head(todo) /\ 1 \in 1..Len(todo)
      BY <1>2, IsSequenceHead
    <3> QED
      BY <1>2, <3>1 DEF WalkInv, BlocksAhead
  <2>4. /\ Len(todo) \in Nat /\ Len(todo') = Len(todo) - 1
        /\ \A b \in 1..(Len(todo) - 1) : todo'[b] = todo[b + 1]
    BY <1>1, <1>2, PopStack
  <2>5. \A b \in 1..Len(Design[i].blocks) :
          b \in 1..Len(todo') /\ todo'[b] = ItemAt("block", i, b)
    <3> SUFFICES ASSUME NEW b \in 1..Len(Design[i].blocks)
                 PROVE  b \in 1..Len(todo') /\ todo'[b] = ItemAt("block", i, b)
      OBVIOUS
    <3>1. b \in 1..(Len(todo) - 1) /\ b + 1 = 1 + b
      BY <2>2, <2>3, <2>4
    <3> QED
      BY <2>3, <2>4, <3>1
  <2>6. \A b \in 1..Len(Design[i].blocks) : todo'[b].op = "block" /\ todo'[b].at = b
    BY <2>5, ItemParts
  <2>7. ASSUME NEW j \in 1..k PROVE todo'[j].op \in BodyOps
    <3>1. j \in 1..Len(Design[i].blocks)
      BY <2>2
    <3> QED
      BY <2>6, <3>1 DEF BodyOps
  <2>8. k \in 1..Len(todo') /\ todo'[k].op = "block" /\ todo'[k].at = k
    BY <2>5, <2>6
  <2> QED
    BY <2>1, <2>7, <2>8 DEF StillSamples
<1> QED
  BY <1>5, <1>6 DEF WalkInv

\* An instance that closes has no block left to run: it has sampled all the
\* clocks and resets it watches.
LEMMA ClosingHasSampled ==
  ASSUME IInv, WalkInv, Doing("close")
  PROVE  \A c \in Design[Head(todo).inst].clocks : sampled[c] = Level(Head(todo).inst, c)
<1> DEFINE i == Head(todo).inst
<1>1. "close" \in StepOps
  BY DEF StepOps
<1>2. phase = "step" /\ todo # <<>> /\ Head(todo).op = "close" /\ IsSequence(todo)
  BY <1>1, DoingInStep DEF IsStack
<1>3. InBody
  BY <1>2 DEF InBody
<1>4. todo[1].op \notin BodyOps
  BY <1>2, IsSequenceHead DEF BodyOps
<1>5. \A c : ~StillSamples(todo, i, c)
  BY <1>4 DEF StillSamples
<1> QED
  BY <1>2, <1>3, <1>5 DEF WalkInv, SamplesClocks

\* An instance is closed, with its clocks sampled.
LEMMA CloseInstanceWalks == ASSUME IInv, WalkInv, CloseInstance PROVE WalkInv'
<1>1. "close" \in StepOps /\ Doing("close") /\ todo' = Tail(todo)
  BY DEF StepOps, CloseInstance, Pop
<1> DEFINE i == Head(todo).inst
<1>2. /\ phase = "step" /\ todo # <<>> /\ Head(todo).op = "close" /\ i \in Instance
      /\ IsStack(todo, StepOps) /\ IsSequence(todo) /\ DOMAIN clocks = Instance
  BY <1>1, DoingInStep DEF IsItem, IsStack
<1>3. clocks' = [clocks EXCEPT ![i] = sampled] /\ UNCHANGED preFrame
  BY DEF CloseInstance, Head1
<1>4. /\ IsStack(<<>>, StepOps) /\ IsSequence(<<>>) /\ Len(<<>>) = 0 /\ BlocksAhead(<<>>)
      /\ Replaces(todo', todo, <<>>)
  BY <1>1, <1>2, PopIsReplace DEF IsStack
<1>5. \A c \in Design[i].clocks : sampled[c] = Level(i, c)
  BY <1>1, ClosingHasSampled
<1>6. PICK Below \in SUBSET Instance : Reaches(Below)
  BY <1>2 DEF WalkInv
<1>7. \A op : \A j \in Waiting(todo, op) :
         j \in Waiting(todo', op) \/ (Head(todo).op = op /\ Head(todo).inst = j)
  BY <1>2, <1>4, WaitingReplaced
<1>8. ASSUME NEW j \in Instance, LevelsSampled(j) \/ j = i PROVE LevelsSampled(j)'
  <2>1. \A c : Level(j, c)' = Level(j, c)
    BY <1>3, LevelsKept
  <2>2. CASE j = i
    BY <1>2, <1>3, <1>5, <2>1, <2>2 DEF LevelsSampled
  <2>3. CASE j # i
    <3>1. clocks'[j] = clocks[j]
      BY <1>2, <1>3, <2>3
    <3> QED
      BY <1>8, <2>1, <2>3, <3>1 DEF LevelsSampled
  <2> QED
    BY <2>2, <2>3
<1>9. Reaches(Below)'
  <2>1. ASSUME NEW j \in Below
        PROVE  j # Top /\ (Parent(j) \in Below \/ Parent(j) \in Waiting(todo', "step"))
    BY <1>2, <1>6, <1>7 DEF Reaches
  <2>2. ASSUME NEW j \in Instance \ Below
        PROVE  j \in Waiting(todo', "step") \/ j \in Waiting(todo', "close") \/ LevelsSampled(j)'
    <3>1. j \in Waiting(todo, "step") \/ j \in Waiting(todo, "close") \/ LevelsSampled(j)
      BY <1>6 DEF Reaches
    <3> QED
      BY <1>2, <1>7, <1>8, <3>1
  <2> QED
    BY <2>1, <2>2 DEF Reaches
<1>10. BlocksAhead(todo)'
  <2>1. BlocksAhead(todo)
    BY <1>2 DEF WalkInv
  <2>2. BlocksAhead(todo')
    BY <1>2, <1>4, <2>1, BlocksAheadReplaced
  <2> QED
    BY <2>2 DEF BlocksAhead
<1>11. ~InBody'
  BY <1>1, PopInStep DEF BodyOps
<1> QED
  BY <1>9, <1>10, <1>11 DEF WalkInv, SamplesClocks

\* A block of the running instance that is still to sample a clock comes closer
\* when the head gives way to other work of the instance.
LEMMA StillSamplesReplaced ==
  ASSUME NEW s, IsSequence(s), s # <<>>, NEW i, NEW t, IsSequence(t), IsBlockWork(t, i),
         NEW r, Replaces(r, s, t), NEW c, StillSamples(s, i, c),
         ~(/\ Head(s).op = "block"
           /\ Design[i].blocks[Head(s).at].kind = "ff"
           /\ c \in {Design[i].blocks[Head(s).at].clock, Design[i].blocks[Head(s).at].reset})
  PROVE  StillSamples(r, i, c)
<1>1. /\ Len(t) \in Nat /\ Len(s) \in Nat \ {0} /\ Len(r) \in Nat
      /\ Head(s) = s[1]
      /\ \A k \in 1..Len(t) : k \in 1..Len(r) /\ r[k] = t[k]
      /\ \A k \in 2..Len(s) : Len(t) + k - 1 \in 1..Len(r) /\ r[Len(t) + k - 1] = s[k]
      /\ \A k \in 1..Len(r) : k > Len(t) =>
           k - Len(t) + 1 \in 2..Len(s) /\ r[k] = s[k - Len(t) + 1]
  BY Replaced
<1>2. PICK k \in 1..Len(s) :
        /\ \A j \in 1..k : s[j].op \in BodyOps
        /\ s[k].op = "block"
        /\ Design[i].blocks[s[k].at].kind = "ff"
        /\ c \in {Design[i].blocks[s[k].at].clock, Design[i].blocks[s[k].at].reset}
  BY DEF StillSamples
<1>3. k # 1
  BY <1>1, <1>2
<1>4. k \in 2..Len(s)
  BY <1>1, <1>3
<1> DEFINE n == Len(t) + k - 1
<1>5. n \in 1..Len(r) /\ r[n] = s[k]
  BY <1>1, <1>4
<1>6. ASSUME NEW j \in 1..n PROVE r[j].op \in BodyOps
  <2>1. j \in 1..Len(r)
    BY <1>1, <1>4, <1>5
  <2>2. CASE j <= Len(t)
    <3>1. j \in 1..Len(t) /\ r[j] = t[j]
      BY <1>1, <2>1, <2>2
    <3> QED
      BY <3>1 DEF IsBlockWork, BodyOps
  <2>3. CASE j > Len(t)
    <3>1. r[j] = s[j - Len(t) + 1]
      BY <1>1, <2>1, <2>3
    <3>2. j - Len(t) + 1 \in 1..k
      BY <1>1, <1>4, <2>1, <2>3
    <3> QED
      BY <1>2, <3>1, <3>2
  <2> QED
    BY <1>1, <2>1, <2>2, <2>3
<1> HIDE DEF n
<1> QED
  BY <1>2, <1>5, <1>6 DEF StillSamples

\* Work of the running instance keeps it in work.
LEMMA BodyStaysIn ==
  ASSUME IInv, NEW op \in BodyOps, Doing(op), NEW t, BecomesWork(t)
  PROVE  InBody' => Head(todo').inst = Head(todo).inst
<1>1. op \in StepOps
  BY DEF StepOps
<1>2. /\ todo # <<>> /\ Head(todo).op = op
      /\ IsStack(todo, StepOps) /\ IsLinked(todo) /\ IsSequence(todo)
  BY <1>1, DoingInStep DEF IsStack
<1>3. IsSequence(t) /\ IsBlockWork(t, Head(todo).inst) /\ Replaces(todo', todo, t)
  BY DEF BecomesWork
<1>4. /\ Len(t) \in Nat /\ Len(todo) \in Nat \ {0} /\ Len(todo') \in Nat /\ IsSequence(todo')
      /\ Head(todo) = todo[1]
      /\ \A k \in 1..Len(t) : k \in 1..Len(todo') /\ todo'[k] = t[k]
      /\ \A k \in 1..Len(todo') : k > Len(t) =>
           k - Len(t) + 1 \in 2..Len(todo) /\ todo'[k] = todo[k - Len(t) + 1]
  BY <1>2, <1>3, Replaced
<1> SUFFICES ASSUME todo' # <<>>, Head(todo').op \in BodyOps \cup {"close"}
             PROVE  Head(todo').inst = Head(todo).inst
  BY DEF InBody
<1>5. Head(todo') = todo'[1] /\ 1 \in 1..Len(todo')
  BY <1>4, IsSequenceHead
<1>6. CASE Len(t) > 0
  <2>1. 1 \in 1..Len(t)
    BY <1>4, <1>6
  <2> QED
    BY <1>3, <1>4, <1>5, <2>1 DEF IsBlockWork
<1>7. CASE Len(t) = 0
  <2>1. 1 > Len(t) /\ 1 - Len(t) + 1 = 2
    BY <1>7
  <2>2. 2 \in 2..Len(todo) /\ todo'[1] = todo[2]
    BY <1>4, <1>5, <2>1
  <2>3. 1 \in 1..(Len(todo) - 1) /\ 1 + 1 = 2
    BY <1>4, <2>2
  <2>4. Follows(todo[1], todo[2])
    BY <1>2, <2>3 DEF IsLinked
  <2> QED
    BY <1>2, <1>4, <1>5, <2>2, <2>4 DEF Follows
<1> QED
  BY <1>4, <1>6, <1>7

\* The blocks, statements and names of an instance: a clocked block samples its
\* clock and reset, and nothing else touches what is sampled.
LEMMA BodyWalks == ASSUME IInv, IInv', WalkInv, BodyAction PROVE WalkInv'
<1> DEFINE i == Head(todo).inst
<1>1. /\ phase = "step" /\ todo # <<>> /\ Head(todo).op \in BodyOps /\ i \in Instance
      /\ UNCHANGED <<session, before, preFrame>>
      /\ ~ClockedBlock => sampled' = sampled
  BY BodyReplaces
<1>2. PICK t : BecomesWork(t)
  BY BodyReplaces
<1>3. IsSequence(t) /\ IsBlockWork(t, i) /\ Replaces(todo', todo, t)
  BY <1>2 DEF BecomesWork
<1>4. IsStack(todo, StepOps) /\ IsSequence(todo)
  BY <1>1 DEF IInv, StepInv, IsStack
<1>5. /\ IsStack(t, StepOps)
      /\ BlocksAhead(t)
  <2>1. phase' = "step"
    BY <1>1 DEF BodyAction, ClockedBlock, SeqControl, SeqAssign, SeqLeaf, SyncName
  <2>2. IsStack(todo', StepOps)
    BY <2>1 DEF IInv, StepInv
  <2>3. \A k \in 1..Len(t) : k \in 1..Len(todo') /\ todo'[k] = t[k]
    BY <1>1, <1>3, <1>4, Replaced
  <2>4. \A k \in 1..Len(t) : t[k].op # "open"
    BY <1>3 DEF IsBlockWork
  <2> QED
    BY <1>3, <2>2, <2>3, <2>4 DEF IsStack, BlocksAhead
<1>6. Head(todo).op \notin {"step", "close"} /\ UNCHANGED <<clocks, preFrame>>
  BY <1>1 DEF BodyOps, session
<1>7. (\E Below \in SUBSET Instance : Reaches(Below))' /\ BlocksAhead(todo)'
  BY <1>1, <1>3, <1>4, <1>5, <1>6, QuietReplaceWalks
<1>8. InBody' => Head(todo').inst = i
  <2>1. Doing(Head(todo).op)
    BY <1>1 DEF Doing, Head1
  <2> QED
    BY <1>1, <1>2, <2>1, BodyStaysIn
<1>9. ASSUME NEW c \in Design[i].clocks
      PROVE  sampled'[c] = Level(i, c) \/ StillSamples(todo', i, c)
  <2>1. sampled[c] = Level(i, c) \/ StillSamples(todo, i, c)
    BY <1>1 DEF WalkInv, SamplesClocks, InBody
  <2> DEFINE b == Design[i].blocks[Head(todo).at]
             Here == Head(todo).op = "block" /\ b.kind = "ff" /\ c \in {b.clock, b.reset}
  <2>2. CASE Here
    <3>1. ClockedBlock
      BY <1>1, <2>2 DEF BodyAction, ClockedBlock, SeqControl, SeqAssign, SeqLeaf, SyncName,
                         Doing, Head1
    <3>2. sampled' = Sampled(i, b)
      BY <2>2, <3>1 DEF ClockedBlock, Head1
    <3>3. c \in DOMAIN sampled
      BY <1>1 DEF IInv, StepInv, OwnTables, InBody
    <3> QED
      BY <2>2, <3>2, <3>3 DEF Sampled
  <2>3. CASE ~Here
    <3>1. sampled'[c] = sampled[c] \/ sampled'[c] = Level(i, c)
      <4>1. CASE ~ClockedBlock
        BY <1>1, <4>1
      <4>2. CASE ClockedBlock
        <5>1. c \in DOMAIN sampled
          BY <1>1 DEF IInv, StepInv, OwnTables, InBody
        <5>2. sampled' = sampled \/ sampled' = Sampled(i, b)
          BY <4>2 DEF ClockedBlock, Head1
        <5> QED
          BY <5>1, <5>2 DEF Sampled
      <4> QED
        BY <4>1, <4>2
    <3>2. StillSamples(todo, i, c) => StillSamples(todo', i, c)
      BY <1>1, <1>3, <1>4, <2>3, StillSamplesReplaced
    <3> QED
      BY <2>1, <3>1, <3>2
  <2> QED
    BY <2>2, <2>3
<1>10. SamplesClocks'
  BY <1>6, <1>8, <1>9, SamplesNext
<1> QED
  BY <1>7, <1>10 DEF WalkInv

\* Every step keeps the walk on course.
LEMMA WalkPreserves == IInv /\ IInv' /\ WalkInv /\ [AnyNext]_vars => WalkInv'
<1> SUFFICES ASSUME IInv, IInv', WalkInv, [AnyNext]_vars, phase' = "step" PROVE WalkInv'
  BY DEF WalkInv
<1>1. CASE BeginStep
  BY <1>1, BeginStepWalks
<1>2. CASE StepAction
  BY <1>2, EnterStepWalks, OpenInstanceWalks, CloseInstanceWalks, BodyWalks
     DEF StepAction, BodyAction
<1>3. CASE UNCHANGED vars /\ phase = "step"
  <2>1. UNCHANGED <<todo, clocks, preFrame, sampled>>
    BY <1>3 DEF vars, session, stepping
  <2>2. \A i \in Instance : LevelsSampled(i)' = LevelsSampled(i)
    BY <2>1, LevelsKept DEF LevelsSampled
  <2>3. \A Below \in SUBSET Instance : Reaches(Below) => Reaches(Below)'
    BY <2>1, <2>2 DEF Reaches
  <2>4. (\E Below \in SUBSET Instance : Reaches(Below))' /\ BlocksAhead(todo)'
    BY <1>3, <2>1, <2>3 DEF WalkInv, BlocksAhead
  <2>5. SamplesClocks'
    BY <1>3, <2>1 DEF WalkInv, SamplesClocks, StillSamples, InBody, Level
  <2> QED
    BY <2>4, <2>5 DEF WalkInv
<1> QED
  BY <1>1, <1>2, <1>3, IntoStep

\* When the work of a step is done the walk has been everywhere: an instance it
\* missed would have its parent missed too, and so on up, but the instances
\* below the top one are a tree.
LEMMA WalkCovers == WalkInv => EveryClockSampled
<1> SUFFICES ASSUME WalkInv, phase = "step", todo = <<>>,
                    NEW i \in Instance, NEW c \in Design[i].clocks
             PROVE  clocks[i][c] = Level(i, c)
  BY DEF EveryClockSampled
<1>1. PICK Below \in SUBSET Instance : Reaches(Below)
  BY DEF WalkInv
<1>2. \A op : Waiting(todo, op) = {}
  <2>1. 1..Len(<<>>) = {}
    OBVIOUS
  <2> QED
    BY <2>1 DEF Waiting
<1>3. \A j \in Below : j # Top /\ Parent(j) \in Below
  BY <1>1, <1>2 DEF Reaches
<1>4. Below = {}
  <2> SUFFICES ASSUME Below # {} PROVE FALSE
    OBVIOUS
  <2>1. Below \in SUBSET (Instance \ {Top})
    BY <1>1, <1>3
  <2>2. \E j \in Below : Design[j].parent \notin Below
    BY <2>1, HierarchyAssumption
  <2> QED
    BY <1>3, <2>2 DEF Parent
<1> QED
  BY <1>1, <1>2, <1>4 DEF Reaches, LevelsSampled

\* Both invariants hold in every state of every behaviour.
LEMMA WalkInductive == AnySpec => [](IInv /\ WalkInv)
<1>1. Init => IInv /\ WalkInv
  BY InitHolds DEF Init, WalkInv
<1>2. IInv /\ WalkInv /\ [AnyNext]_vars => (IInv /\ WalkInv)'
  BY NextPreserves, WalkPreserves
<1> QED
  BY <1>1, <1>2, PTL DEF AnySpec

\* When a step commits, every instance of the hierarchy has sampled every clock
\* and reset its clocked blocks watch at the level settled before the edge, so
\* that no edge is missed and none is seen twice (step_module, previous_clocks).
THEOREM ClocksAreSampled == Spec => []EveryClockSampled
  BY WalkInductive, WalkCovers, SpecIsAny, PTL

-----------------------------------------------------------------------------
(* Words and views. *)

\* An object's value cut or extended to the object's width is a word of it.
LEMMA CoercedIsWord == ASSUME NEW o \in Object, NEW v PROVE IsWord(o, Coerce(v, Layouts[o].width))
  BY DEF IsWord, Coerce

\* A word of an object keeps its bits at the object's width.
LEMMA CoerceKeepsWord ==
  ASSUME NEW o \in Object, NEW v, IsWord(o, v)
  PROVE  Coerce(v, Layouts[o].width) = v
<1> DEFINE w == Layouts[o].width
<1>1. w \in Nat
  BY HierarchyAssumption
<1>2. v = [k \in 1..w |-> v[k]]
  BY DEF IsWord
<1> HIDE DEF w
<1>3. Len(v) = w
  BY <1>1, <1>2, FunctionIsSequence
<1>4. \A k \in 1..w : BitOf(v, k) = v[k]
  BY <1>3 DEF BitOf
<1>5. [k \in 1..w |-> BitOf(v, k)] = [k \in 1..w |-> v[k]]
  BY <1>4
<1> QED
  BY <1>2, <1>5 DEF Coerce, w

\* What is read from an object through a view of its width goes back unchanged.
LEMMA WholeViewRestores ==
  ASSUME NEW b, b.obj \in Object, b.view = Layouts[b.obj].width, NEW f, IsWord(b.obj, f[b.obj])
  PROVE  Stored(b, ReadBinding(b, f)) = f[b.obj]
<1>1. Coerce(f[b.obj], b.view) = f[b.obj]
  BY CoerceKeepsWord
<1> QED
  BY <1>1 DEF Stored, ReadBinding

\* Edges are told from the levels the call found and the settled frame.
LEMMA EdgesKept ==
  ASSUME UNCHANGED <<before, preFrame>>
  PROVE  /\ \A i, c : Level(i, c)' = Level(i, c)
         /\ \A i, k : SawEdge(i, k)' = SawEdge(i, k)
         /\ \A o : SawEdgeOf(o)' = SawEdgeOf(o)
         /\ \A s : AllJustified(s)' = AllJustified(s)
<1>1. \A i, c : Level(i, c)' = Level(i, c)
  BY LevelsKept
<1>2. \A i, k : SawEdge(i, k)' = SawEdge(i, k)
  BY <1>1 DEF SawEdge
<1>3. \A o : SawEdgeOf(o)' = SawEdgeOf(o)
  BY <1>2 DEF SawEdgeOf
<1>4. \A w : Justified(w)' = Justified(w)
  BY <1>2 DEF Justified
<1>5. \A s : AllJustified(s)' = AllJustified(s)
  BY <1>4 DEF AllJustified
<1> QED
  BY <1>1, <1>2, <1>3, <1>5

\* Work put in the place of the head is justified with the rest.
LEMMA JustifiedReplaced ==
  ASSUME NEW s, IsSequence(s), s # <<>>, AllJustified(s), NEW t, IsSequence(t), AllJustified(t),
         NEW r, Replaces(r, s, t)
  PROVE  AllJustified(r)
<1>1. /\ Len(t) \in Nat /\ Len(s) \in Nat \ {0} /\ Len(r) \in Nat
      /\ \A k \in 1..Len(t) : k \in 1..Len(r) /\ r[k] = t[k]
      /\ \A k \in 1..Len(r) : k > Len(t) =>
           k - Len(t) + 1 \in 2..Len(s) /\ r[k] = s[k - Len(t) + 1]
  BY Replaced
<1> SUFFICES ASSUME NEW k \in 1..Len(r) PROVE Justified(r[k])
  BY DEF AllJustified
<1>2. CASE k <= Len(t)
  <2>1. k \in 1..Len(t)
    BY <1>1, <1>2
  <2> QED
    BY <1>1, <2>1 DEF AllJustified
<1>3. CASE k > Len(t)
  <2>1. k - Len(t) + 1 \in 1..Len(s) /\ r[k] = s[k - Len(t) + 1]
    BY <1>1, <1>3
  <2> QED
    BY <2>1 DEF AllJustified
<1> QED
  BY <1>1, <1>2, <1>3

\* The edge invariant in a step: the levels an instance holds are those the
\* call found or those of the frame, and only edges have changed the objects.
InStepEdges ==
  /\ \A i \in Instance : \A c \in Design[i].clocks :
       clocks[i][c] = before.clocks[i][c] \/ clocks[i][c] = Level(i, c)
  /\ \A o \in Object : IsWord(o, next[o])
  /\ \A o \in Object : next[o] # before.persisted[o] => SawEdgeOf(o)
  /\ AllJustified(todo)
  /\ InBody => StagedOnEdge(Head(todo).inst)

\* The edge invariant by its parts.
LEMMA EdgeParts ==
  EdgeInv <=> /\ NothingSampled
              /\ \A o \in Object : IsWord(o, persisted[o])
              /\ phase = "step" => InStepEdges
  BY DEF EdgeInv, InStepEdges, AllJustified

\* What StagedOnEdge asks of the next state when only locals have changed.
LEMMA StagedNext ==
  ASSUME NEW i, UNCHANGED <<memories, before, preFrame>>,
         InBody' => /\ Head(todo').inst = i
                    /\ DOMAIN staged' = Names(i)
                    /\ \A n \in Names(i) :
                         staged'[n] # ReadBinding(Binding(i, n), before.persisted)
                           => SawEdgeOf(Binding(i, n).obj)
                    /\ stagedMem' # memories[i] => \E k \in BlocksOf(i, "ff") : SawEdge(i, k)
  PROVE  (InBody => StagedOnEdge(Head(todo).inst))'
<1> SUFFICES ASSUME InBody' PROVE StagedOnEdge(i)'
  BY DEF StagedOnEdge
<1>1. /\ \A k : SawEdge(i, k)' = SawEdge(i, k)
      /\ \A o : SawEdgeOf(o)' = SawEdgeOf(o)
  BY EdgesKept
<1> QED
  BY <1>1 DEF StagedOnEdge

\* What EdgeInv asks of the next state of a step.
LEMMA EdgesNext ==
  ASSUME EdgeInv, phase = "step", phase' = "step", UNCHANGED <<persisted, before, preFrame>>,
         \A i \in Instance : \A c \in Design[i].clocks :
           clocks'[i][c] = before.clocks[i][c] \/ clocks'[i][c] = Level(i, c),
         \A o \in Object : IsWord(o, next'[o]),
         \A o \in Object : next'[o] # before.persisted[o] => SawEdgeOf(o),
         AllJustified(todo'),
         (InBody => StagedOnEdge(Head(todo).inst))'
  PROVE  EdgeInv'
<1>1. /\ \A i, c : Level(i, c)' = Level(i, c)
      /\ \A o : SawEdgeOf(o)' = SawEdgeOf(o)
  BY EdgesKept
<1>2. AllJustified(todo)'
  BY DEF AllJustified, Justified, SawEdge, Level
<1>3. \A o \in Object : IsWord(o, next[o])'
  BY DEF IsWord
<1>4. \A o \in Object : IsWord(o, persisted[o])'
  BY DEF EdgeInv, IsWord
<1>5. \A o \in Object : (next[o] # before.persisted[o] => SawEdgeOf(o))'
  BY <1>1
<1>6. InStepEdges'
  BY <1>1, <1>2, <1>3, <1>5 DEF InStepEdges
<1>7. NothingSampled'
  BY DEF NothingSampled
<1> QED
  BY <1>4, <1>6, <1>7 DEF EdgeInv, InStepEdges, AllJustified

\* A step starts with the clocks and objects the call found, and no work of a
\* block.
LEMMA BeginStepEdges == ASSUME IInv, EdgeInv, BeginStep PROVE EdgeInv'
<1> DEFINE w == Item("step", Top)
           s == <<w>>
<1>1. /\ phase = "settle" /\ phase' = "step" /\ todo' = s /\ next' = persisted
      /\ UNCHANGED <<persisted, clocks, memories, before>>
  BY DEF BeginStep, session
<1>2. persisted = before.persisted /\ clocks = before.clocks
  BY <1>1 DEF IInv, ObjectsWaitForCommit, EdgeInv, NothingSampled
<1>3. w.op = "step"
  BY ItemParts
<1> HIDE DEF w
<1>4. s # <<>> /\ Head(s) = w /\ \A k \in 1..Len(s) : s[k] = w
  OBVIOUS
<1> HIDE DEF s
<1>5. AllJustified(todo)'
  <2>1. \A k \in 1..Len(todo') : todo'[k].op = "step"
    BY <1>1, <1>3, <1>4
  <2> QED
    BY <2>1 DEF AllJustified, Justified
<1>6. ~InBody'
  BY <1>1, <1>3, <1>4 DEF InBody, BodyOps
<1>7. \A o \in Object : IsWord(o, persisted[o])' /\ IsWord(o, next[o])'
  BY <1>1 DEF EdgeInv, IsWord
<1>8. InStepEdges'
  BY <1>1, <1>2, <1>5, <1>6, <1>7 DEF InStepEdges
<1>9. NothingSampled'
  BY <1>1 DEF NothingSampled
<1> QED
  BY <1>7, <1>8, <1>9 DEF EdgeInv, InStepEdges, AllJustified

\* To enter an instance is no work of a block.
LEMMA EnterStepEdges == ASSUME IInv, EdgeInv, EnterStep PROVE EdgeInv'
<1>1. "step" \in StepOps /\ Doing("step")
  BY DEF StepOps, EnterStep
<1> DEFINE t == StepWork(Head(todo).inst)
<1>2. phase = "step" /\ todo # <<>> /\ Head(todo).inst \in Instance /\ IsSequence(todo)
  BY <1>1, DoingInStep DEF IsItem, IsStack
<1>3. /\ Replaces(todo', todo, t) /\ phase' = "step"
      /\ UNCHANGED <<persisted, clocks, before, preFrame, next>>
  BY <1>2 DEF EnterStep, Push, Head1, session, stepping, Replaces
<1>4. IsSequence(t) /\ AllJustified(t)
  <2>1. \A k \in 1..Len(t) : t[k].op \notin {"seq", "seq leaf"}
    BY <1>2, StepWorkWaits
  <2>2. IsStack(t, StepOps)
    BY <1>2, StepWorkStack
  <2> HIDE DEF t
  <2> QED
    BY <2>1, <2>2 DEF AllJustified, Justified, IsStack
<1> HIDE DEF t
<1>5. InStepEdges
  BY <1>2, EdgeParts
<1>6. AllJustified(todo')
  BY <1>2, <1>3, <1>4, <1>5, JustifiedReplaced DEF InStepEdges
<1>7. ~InBody'
  BY EnterStepOutside
<1>8. (InBody => StagedOnEdge(Head(todo).inst))'
  BY <1>7
<1> QED
  BY <1>2, <1>3, <1>5, <1>6, <1>8, EdgesNext DEF InStepEdges

\* A pop leaves justified work.
LEMMA PopJustified ==
  ASSUME IsSequence(todo), todo # <<>>, AllJustified(todo), todo' = Tail(todo)
  PROVE  AllJustified(todo')
<1>1. Replaces(todo', todo, <<>>) /\ IsSequence(<<>>) /\ Len(<<>>) = 0
  BY PopReplaces DEF Replaces
<1>2. 1..Len(<<>>) = {}
  BY <1>1
<1>3. AllJustified(<<>>)
  BY <1>2 DEF AllJustified
<1> QED
  BY <1>1, <1>3, JustifiedReplaced

\* What an instance stages to begin with are the next objects, which only
\* edges have changed, and its memories.
LEMMA OpenInstanceEdges == ASSUME IInv, EdgeInv, OpenInstance PROVE EdgeInv'
<1>1. "open" \in StepOps /\ Doing("open") /\ todo' = Tail(todo)
  BY DEF StepOps, OpenInstance, Pop
<1> DEFINE i == Head(todo).inst
<1>2. phase = "step" /\ todo # <<>> /\ i \in Instance /\ IsSequence(todo)
  BY <1>1, DoingInStep DEF IsItem, IsStack
<1>3. /\ phase' = "step" /\ UNCHANGED <<persisted, clocks, memories, before, preFrame, next>>
      /\ staged' = Table(i, next) /\ stagedMem' = memories[i]
  BY <1>2 DEF OpenInstance, session, StagedFrom, Head1
<1>4. InStepEdges
  BY <1>2, EdgeParts
<1>5. AllJustified(todo')
  BY <1>1, <1>2, <1>4, PopJustified DEF InStepEdges
<1>6. InBody' => Head(todo').inst = i
  BY <1>1, PopInStep
<1>7. DOMAIN staged' = Names(i)
  BY <1>3 DEF Table
<1>8. ASSUME NEW n \in Names(i), staged'[n] # ReadBinding(Binding(i, n), before.persisted)
      PROVE  SawEdgeOf(Binding(i, n).obj)
  <2>1. Binding(i, n).obj \in Object
    BY <1>2, HierarchyAssumption
  <2>2. staged'[n] = ReadBinding(Binding(i, n), next)
    BY <1>3 DEF Table
  <2>3. next[Binding(i, n).obj] # before.persisted[Binding(i, n).obj]
    BY <1>8, <2>2 DEF ReadBinding
  <2> QED
    BY <1>4, <2>1, <2>3 DEF InStepEdges
<1>9. (InBody => StagedOnEdge(Head(todo).inst))'
  BY <1>3, <1>6, <1>7, <1>8, StagedNext
<1> QED
  BY <1>2, <1>3, <1>4, <1>5, <1>9, EdgesNext DEF InStepEdges

\* An instance that closes keeps the levels of the settled frame.
LEMMA CloseInstanceEdges == ASSUME IInv, WalkInv, EdgeInv, CloseInstance PROVE EdgeInv'
<1>1. "close" \in StepOps /\ "close" \notin BodyOps \cup {"open"} /\ Doing("close")
      /\ todo' = Tail(todo)
  BY DEF StepOps, BodyOps, CloseInstance, Pop
<1> DEFINE i == Head(todo).inst
<1>2. phase = "step" /\ todo # <<>> /\ i \in Instance /\ IsSequence(todo) /\ DOMAIN clocks = Instance
  BY <1>1, DoingInStep DEF IsItem, IsStack
<1>3. /\ phase' = "step" /\ UNCHANGED <<persisted, before, preFrame, next>>
      /\ clocks' = [clocks EXCEPT ![i] = sampled]
  BY <1>2 DEF CloseInstance, Head1
<1>4. InStepEdges
  BY <1>2, EdgeParts
<1>5. AllJustified(todo')
  BY <1>1, <1>2, <1>4, PopJustified DEF InStepEdges
<1>6. ~InBody'
  BY <1>1, PopInStep
<1>7. ASSUME NEW j \in Instance, NEW c \in Design[j].clocks
      PROVE  clocks'[j][c] = before.clocks[j][c] \/ clocks'[j][c] = Level(j, c)
  <2>1. CASE j = i
    BY <1>1, <1>2, <1>3, <2>1, ClosingHasSampled
  <2>2. CASE j # i
    <3>1. clocks'[j] = clocks[j]
      BY <1>2, <1>3, <2>2
    <3> QED
      BY <1>4, <3>1 DEF InStepEdges
  <2> QED
    BY <2>1, <2>2
<1>8. (InBody => StagedOnEdge(Head(todo).inst))'
  BY <1>6
<1> QED
  BY <1>2, <1>3, <1>4, <1>5, <1>7, <1>8, EdgesNext DEF InStepEdges

\* An object is written when a block that has seen an edge may write it.
LEMMA WriterSawEdge ==
  ASSUME NEW i \in Instance, NEW k \in BlocksOf(i, "ff"), SawEdge(i, k),
         NEW n \in BodyWrites(i, k)
  PROVE  SawEdgeOf(Binding(i, n).obj)
<1> DEFINE w == <<i, k>>
<1>1. w[1] = i /\ w[2] = k
  OBVIOUS
<1>2. w \in UNION {{j} \X BlocksOf(j, "ff") : j \in Instance}
  OBVIOUS
<1>3. n \in WriteSets[Design[i].blocks[k].body]
  BY DEF BodyWrites
<1> HIDE DEF w
<1>4. w \in WritersOf(Binding(i, n).obj)
  BY <1>1, <1>2, <1>3 DEF WritersOf
<1> QED
  BY <1>1, <1>4 DEF SawEdgeOf

\* What a leaf stages it stages for a block that has seen an edge.
LEMMA SeqLeafStages ==
  ASSUME IInv, EdgeInv, SeqLeaf
  PROVE  LET i == Head(todo).inst
         IN  /\ DOMAIN staged' = Names(i)
             /\ \A n \in Names(i) :
                  staged'[n] # ReadBinding(Binding(i, n), before.persisted)
                    => SawEdgeOf(Binding(i, n).obj)
             /\ stagedMem' # memories[i] => \E k \in BlocksOf(i, "ff") : SawEdge(i, k)
<1> DEFINE w == Head(todo)
           i == w.inst
<1>1. "seq leaf" \in StepOps /\ Doing("seq leaf")
  BY DEF StepOps, BodyOps, SeqLeaf
<1>2. /\ phase = "step" /\ todo # <<>> /\ w.op = "seq leaf" /\ i \in Instance
      /\ IsSequence(todo)
  BY <1>1, DoingInStep DEF IsItem, IsStack
<1>3. staged' = WithLeaf(staged, w) /\ stagedMem' = WithWord(stagedMem, w)
  BY DEF SeqLeaf, Head1
<1>4. PICK k \in BlocksOf(i, "ff") :
        SawEdge(i, k) /\ (w.leaf.kind # "memory" => w.leaf.name \in BodyWrites(i, k))
  BY <1>2, HeadIsJustified DEF Justified
<1>5. StagedOnEdge(i)
  BY <1>2, EdgeParts DEF InStepEdges, InBody, BodyOps
<1>6. CASE w.leaf.kind = "memory"
  <2>1. staged' = staged
    BY <1>3, <1>6 DEF WithLeaf
  <2> QED
    BY <1>4, <1>5, <2>1 DEF StagedOnEdge
<1>7. CASE w.leaf.kind # "memory"
  <2>1. stagedMem' = stagedMem
    BY <1>3, <1>7 DEF WithWord
  <2>2. staged' = [staged EXCEPT ![w.leaf.name] = Merged(w.leaf, staged[w.leaf.name], w.bits)]
    BY <1>3, <1>7 DEF WithLeaf
  <2>3. DOMAIN staged' = DOMAIN staged /\ \A n \in DOMAIN staged : n # w.leaf.name => staged'[n] = staged[n]
    BY <2>2
  <2>4. SawEdgeOf(Binding(i, w.leaf.name).obj)
    BY <1>2, <1>4, <1>7, WriterSawEdge
  <2> QED
    BY <1>5, <2>1, <2>3, <2>4 DEF StagedOnEdge
<1> QED
  BY <1>6, <1>7

\* A name goes back to its object changed only when a block that saw an edge
\* may write the object: the views through which an instance writes back see
\* their objects whole.
LEMMA SyncNameCommits ==
  ASSUME WholeViews, IInv, EdgeInv, SyncName
  PROVE  \A o \in Object : IsWord(o, next'[o]) /\ (next'[o] # before.persisted[o] => SawEdgeOf(o))
<1> DEFINE i == Head(todo).inst
           d == Design[i].decls[Head(todo).at]
           b == Binding(i, d.name)
           v == Stored(b, staged[d.name])
           writtenBack == \/ ~IsNet(b.obj)
                          \/ d.storage = "variable" /\ d.dir \in {"output", "none"}
                          \/ d.name \in Design[i].procedural
<1>1. "sync" \in StepOps /\ Doing("sync")
  BY DEF StepOps, BodyOps, SyncName
<1>2. /\ phase = "step" /\ todo # <<>> /\ Head(todo).op = "sync" /\ i \in Instance
      /\ Head(todo).at \in 1..Len(Design[i].decls)
  BY <1>1, DoingInStep DEF IsItem
<1>3. next' = next \/ (writtenBack /\ next' = [next EXCEPT ![b.obj] = v])
  BY DEF SyncName, Head1
<1>4. InStepEdges /\ StagedOnEdge(i)
  BY <1>2, EdgeParts DEF InStepEdges, InBody, BodyOps
<1>5. d.name \in Names(i) /\ b.obj \in Object
  BY <1>2, HierarchyAssumption
<1>6. writtenBack => b.view = Layouts[b.obj].width
  BY <1>2 DEF WholeViews
<1>7. IsWord(b.obj, v)
  BY <1>5, CoercedIsWord DEF Stored
<1>8. ASSUME writtenBack, v # before.persisted[b.obj] PROVE SawEdgeOf(b.obj)
  <2>1. persisted = before.persisted
    BY <1>2 DEF IInv, ObjectsWaitForCommit
  <2>2. IsWord(b.obj, before.persisted[b.obj])
    BY <1>5, <2>1 DEF EdgeInv
  <2>3. Stored(b, ReadBinding(b, before.persisted)) = before.persisted[b.obj]
    BY <1>5, <1>6, <1>8, <2>2, WholeViewRestores
  <2>4. staged[d.name] # ReadBinding(b, before.persisted)
    BY <1>8, <2>3
  <2> QED
    BY <1>4, <1>5, <2>4 DEF StagedOnEdge
<1> HIDE DEF v, writtenBack
<1>9. ASSUME NEW o \in Object
      PROVE  IsWord(o, next'[o]) /\ (next'[o] # before.persisted[o] => SawEdgeOf(o))
  <2>1. CASE next'[o] = next[o]
    BY <1>4, <2>1 DEF InStepEdges
  <2>2. CASE next'[o] # next[o]
    <3>1. writtenBack /\ o = b.obj /\ next'[o] = v
      <4>1. DOMAIN next = Object
        BY <1>2 DEF IInv, TypeOK, IsFrame
      <4> QED
        BY <1>3, <2>2, <4>1
    <3> QED
      BY <1>7, <1>8, <3>1
  <2> QED
    BY <2>1, <2>2
<1> QED
  BY <1>9

\* The work of an instance changes what it stages, and the next objects, on
\* edges only.
LEMMA BodyEdges == ASSUME WholeViews, IInv, EdgeInv, BodyAction PROVE EdgeInv'
<1> DEFINE i == Head(todo).inst
<1>1. /\ phase = "step" /\ todo # <<>> /\ Head(todo).op \in BodyOps /\ i \in Instance
      /\ UNCHANGED <<session, before, preFrame>>
  BY BodyReplaces
<1>2. PICK t : BecomesWork(t)
  BY BodyReplaces
<1>3. IsSequence(todo)
  BY <1>1 DEF IInv, StepInv, IsStack
<1>4. InStepEdges /\ StagedOnEdge(i)
  BY <1>1, EdgeParts DEF InStepEdges, InBody
<1>5. AllJustified(todo')
  BY <1>1, <1>2, <1>3, <1>4, JustifiedReplaced DEF BecomesWork, InStepEdges
<1>6. InBody' => Head(todo').inst = i
  <2>1. Doing(Head(todo).op)
    BY <1>1 DEF Doing, Head1
  <2> QED
    BY <1>1, <1>2, <2>1, BodyStaysIn
<1>7. /\ phase' = "step" /\ UNCHANGED <<persisted, memories, clocks, before, preFrame>>
      /\ ~SeqLeaf => UNCHANGED <<staged, stagedMem>>
      /\ ~SyncName => next' = next
  BY <1>1 DEF BodyAction, ClockedBlock, SeqControl, SeqAssign, SeqLeaf, SyncName, session, stepping
<1>8. /\ DOMAIN staged' = Names(i)
      /\ \A n \in Names(i) :
           staged'[n] # ReadBinding(Binding(i, n), before.persisted) => SawEdgeOf(Binding(i, n).obj)
      /\ stagedMem' # memories[i] => \E k \in BlocksOf(i, "ff") : SawEdge(i, k)
  <2>1. CASE SeqLeaf
    BY <2>1, SeqLeafStages
  <2>2. CASE ~SeqLeaf
    BY <1>4, <1>7, <2>2 DEF StagedOnEdge
  <2> QED
    BY <2>1, <2>2
<1>9. \A o \in Object : IsWord(o, next'[o]) /\ (next'[o] # before.persisted[o] => SawEdgeOf(o))
  <2>1. CASE SyncName
    BY <2>1, SyncNameCommits
  <2>2. CASE ~SyncName
    BY <1>4, <1>7, <2>2 DEF InStepEdges
  <2> QED
    BY <2>1, <2>2
<1>10. (InBody => StagedOnEdge(Head(todo).inst))'
  BY <1>6, <1>7, <1>8, StagedNext
<1> QED
  BY <1>1, <1>4, <1>5, <1>7, <1>9, <1>10, EdgesNext DEF InStepEdges

\* The edge invariant speaks of the variables only.
LEMMA StutterEdges == ASSUME EdgeInv, UNCHANGED vars PROVE EdgeInv'
<1>1. UNCHANGED <<persisted, memories, clocks, before, phase, todo, preFrame, next, staged, stagedMem>>
  BY DEF vars, session, stepping
<1>2. CASE phase = "step"
  <2>1. InStepEdges
    BY <1>2, EdgeParts
  <2>2. AllJustified(todo')
    BY <1>1, <2>1 DEF InStepEdges
  <2>3. (InBody => StagedOnEdge(Head(todo).inst))'
    BY <1>1, <2>1, StagedNext DEF InStepEdges, StagedOnEdge, InBody
  <2> QED
    BY <1>1, <1>2, <2>1, <2>2, <2>3, EdgesNext DEF InStepEdges
<1>3. CASE phase # "step"
  BY <1>1, <1>3 DEF EdgeInv, NothingSampled, IsWord
<1> QED
  BY <1>2, <1>3

\* Objects change in a commit only.
LEMMA CommitsChange == ASSUME IInv, [AnyNext]_vars PROVE persisted' = persisted \/ CommitStep
<1>1. CASE AnyRequest
  BY <1>1 DEF AnyRequest, Begin, Refuse, Load, ReadWord, session
<1>2. CASE SettleAction
  BY <1>2, SettleActionSettles DEF SettleEffect, session
<1>3. CASE StepAction
  BY <1>3, StepActionSteps DEF StepEffect
<1>4. CASE NextPass \/ BeginStep \/ Reply \/ Fail
  BY <1>4 DEF NextPass, BeginStep, Reply, Fail, session
<1>5. CASE UNCHANGED vars
  BY <1>5 DEF vars, session
<1> QED
  BY <1>1, <1>2, <1>3, <1>4, <1>5 DEF AnyNext, Work

\* Memories change, while stepping, when an instance closes only.
LEMMA ClosingChanges ==
  ASSUME IInv, [AnyNext]_vars, phase = "step" PROVE memories' = memories \/ CloseInstance
<1>1. CASE AnyRequest
  BY <1>1 DEF AnyRequest, Begin, Refuse, Load, ReadWord
<1>2. CASE SettleAction
  BY <1>2, SettleActionSettles DEF SettleEffect, InSettle
<1>3. CASE StepAction
  BY <1>3 DEF StepAction, EnterStep, OpenInstance, ClockedBlock, SeqControl, SeqAssign, SeqLeaf,
              SyncName, session
<1>4. CASE NextPass \/ BeginStep \/ Reply \/ CommitStep \/ Fail
  BY <1>4 DEF NextPass, BeginStep, Reply, CommitStep, Fail, session
<1>5. CASE UNCHANGED vars
  BY <1>5 DEF vars, session
<1> QED
  BY <1>1, <1>2, <1>3, <1>4, <1>5 DEF AnyNext, Work

\* Every step keeps the edge invariant.
LEMMA EdgePreserves ==
  ASSUME WholeViews, IInv, IInv', WalkInv, EdgeInv, [AnyNext]_vars PROVE EdgeInv'
<1>1. CASE phase' = "step"
  <2>1. CASE BeginStep
    BY <2>1, BeginStepEdges
  <2>2. CASE StepAction
    BY <2>2, EnterStepEdges, OpenInstanceEdges, CloseInstanceEdges, BodyEdges
       DEF StepAction, BodyAction
  <2>3. CASE UNCHANGED vars
    BY <2>3, StutterEdges
  <2> QED
    BY <1>1, <2>1, <2>2, <2>3, IntoStep
<1>2. CASE phase' # "step"
  <2>1. \A o \in Object : IsWord(o, persisted'[o])
    <3>1. CASE persisted' = persisted
      BY <3>1 DEF EdgeInv
    <3>2. CASE CommitStep
      BY <3>2 DEF EdgeInv, CommitStep
    <3> QED
      BY <3>1, <3>2, CommitsChange
  <2>2. NothingSampled'
    <3>1. CASE AnyRequest
      BY <1>2, <3>1 DEF AnyRequest, Begin, Refuse, Return, Load, ReadWord, NothingSampled, session
    <3>2. CASE SettleAction
      BY <3>2, SettleActionSettles DEF SettleEffect, EdgeInv, NothingSampled, session
    <3>3. CASE StepAction
      BY <1>2, <3>3, StepActionSteps DEF StepEffect
    <3>4. CASE NextPass
      BY <3>4 DEF NextPass, EdgeInv, NothingSampled, session
    <3>5. CASE BeginStep \/ Reply \/ CommitStep \/ Fail
      BY <3>5 DEF BeginStep, Reply, CommitStep, Fail, Return, NothingSampled
    <3>6. CASE UNCHANGED vars
      BY <3>6 DEF vars, session, EdgeInv, NothingSampled
    <3> QED
      BY <3>1, <3>2, <3>3, <3>4, <3>5, <3>6 DEF AnyNext, Work
  <2> QED
    BY <1>2, <2>1, <2>2 DEF EdgeInv, IsWord
<1> QED
  BY <1>1, <1>2

\* A new session has sampled nothing, and all its objects are zero.
LEMMA InitEdges == Init => EdgeInv
<1> SUFFICES ASSUME Init PROVE EdgeInv
  OBVIOUS
<1>1. phase = "idle" /\ persisted = [o \in Object |-> ZeroOf(Layouts[o].width)]
  BY DEF Init
<1>2. \A o \in Object : IsWord(o, persisted[o])
  BY <1>1 DEF IsWord, ZeroOf, Filled
<1> QED
  BY <1>1, <1>2 DEF EdgeInv, NothingSampled

\* A block that has seen an edge is one whose clock or reset is up in the
\* levels its instance has sampled since.
LEMMA EdgeRose ==
  ASSUME NEW i \in Instance, NEW k \in BlocksOf(i, "ff"), SawEdge(i, k), NEW levels,
         \A c \in Design[i].clocks : levels[i][c] = Level(i, c)
  PROVE  RoseInCall(i, k, levels)
<1>1. PICK c \in {Design[i].blocks[k].clock, Design[i].blocks[k].reset} \ {"none"} :
        ~before.clocks[i][c] /\ Level(i, c)
  BY DEF SawEdge
<1>2. c \in Design[i].clocks
  BY HierarchyAssumption
<1>3. levels[i][c]
  BY <1>1, <1>2
<1> QED
  BY <1>1, <1>3 DEF RoseInCall

\* An object that a commit changes has a writer that saw an edge.
LEMMA CommitChangesOnEdges ==
  ASSUME IInv, WalkInv, EdgeInv, CommitStep, NEW o \in Object, persisted'[o] # persisted[o]
  PROVE  \E w \in WritersOf(o) : RoseInCall(w[1], w[2], clocks')
<1>1. /\ phase = "step" /\ todo = <<>> /\ persisted' = next /\ clocks' = clocks
      /\ persisted = before.persisted
  BY DEF CommitStep, IInv, ObjectsWaitForCommit
<1>2. SawEdgeOf(o)
  BY <1>1 DEF EdgeInv
<1>3. PICK w \in WritersOf(o) : SawEdge(w[1], w[2])
  BY <1>2 DEF SawEdgeOf
<1>4. w[1] \in Instance /\ w[2] \in BlocksOf(w[1], "ff")
  BY DEF WritersOf
<1>5. \A c \in Design[w[1]].clocks : clocks'[w[1]][c] = Level(w[1], c)
  BY <1>1, <1>4, WalkCovers DEF EveryClockSampled
<1>6. RoseInCall(w[1], w[2], clocks')
  BY <1>3, <1>4, <1>5, EdgeRose
<1> QED
  BY <1>6

\* Memories that an instance changes when it closes are those of an instance
\* with a block that saw an edge.
LEMMA ClosingChangesOnEdges ==
  ASSUME IInv, WalkInv, EdgeInv, CloseInstance, NEW i \in Instance, memories'[i] # memories[i]
  PROVE  \E k \in BlocksOf(i, "ff") : RoseInCall(i, k, clocks')
<1>1. "close" \in StepOps /\ Doing("close")
  BY DEF StepOps, CloseInstance
<1>2. /\ phase = "step" /\ todo # <<>> /\ Head(todo).op = "close"
      /\ DOMAIN memories = Instance /\ DOMAIN clocks = Instance
  BY <1>1, DoingInStep
<1>3. /\ memories' = [memories EXCEPT ![Head(todo).inst] = stagedMem]
      /\ clocks' = [clocks EXCEPT ![Head(todo).inst] = sampled]
  BY DEF CloseInstance, Head1
<1>4. i = Head(todo).inst /\ stagedMem # memories[i] /\ clocks'[i] = sampled
  BY <1>2, <1>3
<1>5. StagedOnEdge(i)
  BY <1>2, <1>4, EdgeParts DEF InStepEdges, InBody
<1>6. PICK k \in BlocksOf(i, "ff") : SawEdge(i, k)
  BY <1>4, <1>5 DEF StagedOnEdge
<1>7. \A c \in Design[i].clocks : clocks'[i][c] = Level(i, c)
  BY <1>1, <1>4, ClosingHasSampled
<1>8. RoseInCall(i, k, clocks')
  BY <1>6, <1>7, EdgeRose
<1> QED
  BY <1>8

-----------------------------------------------------------------------------
(* The theorems. *)

\* The invariants of the session, of the walk and of the edges together.
LEMMA EdgesInductive == ASSUME WholeViews PROVE AnySpec => [](IInv /\ WalkInv /\ EdgeInv)
<1>1. Init => IInv /\ WalkInv /\ EdgeInv
  BY InitHolds, InitEdges DEF Init, WalkInv
<1>2. IInv /\ WalkInv /\ EdgeInv /\ [AnyNext]_vars => (IInv /\ WalkInv /\ EdgeInv)'
  BY NextPreserves, WalkPreserves, EdgePreserves
<1> QED
  BY <1>1, <1>2, PTL DEF AnySpec

\* Changes stem from edges, whatever the session is asked.
LEMMA ClientsOnEdges == ASSUME WholeViews PROVE AnySpec => StateChangesOnEdges
<1> DEFINE A == /\ \A o \in Object : persisted'[o] # persisted[o] =>
                     \E w \in WritersOf(o) : RoseInCall(w[1], w[2], clocks')
                /\ \A i \in Instance : phase = "step" /\ memories'[i] # memories[i] =>
                     \E k \in BlocksOf(i, "ff") : RoseInCall(i, k, clocks')
<1>1. ASSUME IInv /\ WalkInv /\ EdgeInv, [AnyNext]_vars PROVE A
  <2>1. ASSUME NEW o \in Object, persisted'[o] # persisted[o]
        PROVE  \E w \in WritersOf(o) : RoseInCall(w[1], w[2], clocks')
    BY <1>1, <2>1, CommitsChange, CommitChangesOnEdges
  <2>2. ASSUME NEW i \in Instance, phase = "step", memories'[i] # memories[i]
        PROVE  \E k \in BlocksOf(i, "ff") : RoseInCall(i, k, clocks')
    BY <1>1, <2>2, ClosingChanges, ClosingChangesOnEdges
  <2> QED
    BY <2>1, <2>2
<1>2. IInv /\ WalkInv /\ EdgeInv /\ [AnyNext]_vars => [A]_vars
  BY <1>1
<1> HIDE DEF A
<1>3. AnySpec => [][A]_vars
  BY <1>2, EdgesInductive, PTL DEF AnySpec
<1> QED
  BY <1>3 DEF StateChangesOnEdges, A

\* What a session remembers changes only on edges: a commit changes an object
\* only if a clocked block that may write it has seen its clock or its reset go
\* up since the call began, and a step changes a memory only if a block of its
\* instance has.  The hypothesis is about the design: what an instance writes
\* back it sees whole (step_module, sync_instance_values_to_frame).
THEOREM StateOnEdges == ASSUME WholeViews PROVE Spec => StateChangesOnEdges
  BY ClientsOnEdges, SpecIsAny, PTL
===============================================================================
