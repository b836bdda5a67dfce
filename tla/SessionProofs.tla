---------------------------- MODULE SessionProofs ----------------------------
(***************************************************************************)
(* Proofs of properties of Session, for every design, every statement and  *)
(* every evaluator.                                                        *)
(***************************************************************************)
EXTENDS SessionProperties, TLAPS, WellFoundedInduction

-----------------------------------------------------------------------------
(* Numbers and sequences. *)

\* Every nonempty set of natural numbers has a least element.
LEMMA LeastNumber ==
  ASSUME NEW S \in SUBSET Nat, S # {} PROVE \E x \in S : \A y \in S : x <= y
<1> DEFINE R == {p \in Nat \X Nat : p[1] < p[2]}
<1>1. IsWellFoundedOn(R, Nat)
  BY NatLessThanWellFounded DEF OpToRel
<1>2. PICK x \in S : \A y \in S : ~(<<y, x>> \in R)
  BY <1>1, WFMin
<1>3. \A y \in S : x <= y
  <2> SUFFICES ASSUME NEW y \in S, ~(x <= y) PROVE FALSE
    OBVIOUS
  <2>1. <<y, x>> \in Nat \X Nat /\ y < x
    OBVIOUS
  <2> QED
    BY <1>2, <2>1
<1> QED
  BY <1>3

\* So Min finds it.
LEMMA MinInSet == ASSUME NEW S \in SUBSET Nat, S # {} PROVE Min(S) \in S
  BY LeastNumber DEF Min

\* A sequence over any set is one over the set of its elements.
LEMMA SeqIsSequence == ASSUME NEW U, NEW s \in Seq(U) PROVE IsSequence(s)
<1> DEFINE S == {s[k] : k \in DOMAIN s}
<1>1. Len(s) \in Nat /\ DOMAIN s = 1..Len(s) /\ s = [k \in 1..Len(s) |-> s[k]]
  OBVIOUS
<1>2. \A k \in 1..Len(s) : s[k] \in S
  BY <1>1
<1>3. [k \in 1..Len(s) |-> s[k]] \in Seq(S)
  BY <1>1, <1>2
<1> QED
  BY <1>1, <1>3 DEF IsSequence

\* The domain of a sequence starts at 1.
LEMMA SequenceLength ==
  ASSUME NEW s, IsSequence(s) PROVE Len(s) \in Nat /\ DOMAIN s = 1..Len(s)
  BY DEF IsSequence

\* A sequence with a length is not the empty one.
LEMMA NotEmpty == ASSUME NEW s, IsSequence(s), Len(s) > 0 PROVE s # <<>>
<1>1. Len(<<>>) = 0
  OBVIOUS
<1> QED
  BY <1>1

\* A function on 1..n is a sequence of length n.
LEMMA FunctionIsSequence ==
  ASSUME NEW n \in Nat, NEW s, s = [k \in 1..n |-> s[k]]
  PROVE  IsSequence(s) /\ Len(s) = n
<1> DEFINE S == {s[k] : k \in 1..n}
<1>1. [k \in 1..n |-> s[k]] \in Seq(S) /\ Len([k \in 1..n |-> s[k]]) = n
  OBVIOUS
<1> QED
  BY <1>1, SeqIsSequence

\* A sequence joined to another.
LEMMA JoinSequences ==
  ASSUME NEW s, IsSequence(s), NEW t, IsSequence(t)
  PROVE  /\ IsSequence(s \o t)
         /\ Len(s) \in Nat /\ Len(t) \in Nat
         /\ Len(s \o t) = Len(s) + Len(t)
         /\ \A k \in 1..Len(s) : (s \o t)[k] = s[k]
         /\ \A k \in 1..Len(t) : (s \o t)[Len(s) + k] = t[k]
         /\ \A k \in 1..(Len(s) + Len(t)) :
              (s \o t)[k] = IF k <= Len(s) THEN s[k] ELSE t[k - Len(s)]
<1> DEFINE S == {s[k] : k \in DOMAIN s}
           T == {t[k] : k \in DOMAIN t}
           U == S \cup T
<1>1. s \in Seq(U) /\ t \in Seq(U)
  BY DEF IsSequence
<1>2. /\ s \o t \in Seq(U)
      /\ Len(s \o t) = Len(s) + Len(t)
      /\ Len(s) \in Nat /\ Len(t) \in Nat
  BY <1>1
<1>3. \A k \in 1..(Len(s) + Len(t)) :
              (s \o t)[k] = IF k <= Len(s) THEN s[k] ELSE t[k - Len(s)]
  BY <1>1, <1>2
<1>4. \A k \in 1..Len(s) : (s \o t)[k] = s[k]
  BY <1>2, <1>3
<1>5. \A k \in 1..Len(t) : (s \o t)[Len(s) + k] = t[k]
  BY <1>2, <1>3
<1>6. IsSequence(s \o t)
  BY <1>2, SeqIsSequence
<1> QED
  BY <1>2, <1>3, <1>4, <1>5, <1>6

-----------------------------------------------------------------------------
(* The work stack. *)

SettleOps == {"input", "module", "child", "assign", "assign leaf", "comb", "stmt",
              "comb leaf", "commit", "drive", "sink", "sink leaf"}

\* The work of an instance between its "open" and its "close".
BodyOps == {"block", "seq", "seq leaf", "sync"}
StepOps == {"step", "open", "close"} \cup BodyOps

\* What an item names exists in the design.
IsItem(w) ==
  /\ w.inst \in Instance
  /\ w.op \in {"stmt", "seq"} => w.stmt \in Label
  /\ w.op \in {"comb", "block"} => w.at \in 1..Len(Design[w.inst].blocks)
  /\ w.op = "assign" => w.at \in 1..Len(Design[w.inst].assigns)
  /\ w.op = "sink" => w.at \in 1..Len(Design[w.inst].sinks)
  /\ w.op = "sync" => w.at \in 1..Len(Design[w.inst].decls)

IsStack(s, ops) ==
  IsSequence(s) /\ \A k \in 1..Len(s) : s[k].op \in ops /\ IsItem(s[k])

\* What is left of a stack of work without its head, and the head itself.
LEMMA PopStack ==
  ASSUME NEW ops, NEW s, IsStack(s, ops), s # <<>>
  PROVE  /\ IsStack(Tail(s), ops)
         /\ Len(Tail(s)) = Len(s) - 1 /\ Len(s) \in Nat \ {0}
         /\ \A k \in 1..(Len(s) - 1) : Tail(s)[k] = s[k + 1]
         /\ Head(s) = s[1] /\ Head(s).op \in ops /\ IsItem(Head(s))
<1> DEFINE S == {s[k] : k \in DOMAIN s}
<1>1. s \in Seq(S)
  BY DEF IsStack, IsSequence
<1>2. /\ Tail(s) \in Seq(S) /\ Len(Tail(s)) = Len(s) - 1
      /\ Len(s) \in Nat \ {0} /\ Head(s) = s[1]
      /\ \A k \in 1..(Len(s) - 1) : Tail(s)[k] = s[k + 1]
  BY <1>1
<1>3. IsSequence(Tail(s))
  BY <1>2, SeqIsSequence
<1> QED
  BY <1>2, <1>3 DEF IsStack

\* Work before other work.
LEMMA JoinStacks ==
  ASSUME NEW ops, NEW s, IsStack(s, ops), NEW t, IsStack(t, ops)
  PROVE  IsStack(s \o t, ops)
<1>1. IsSequence(s) /\ IsSequence(t)
  BY DEF IsStack
<1>2. SUFFICES ASSUME NEW k \in 1..(Len(s) + Len(t))
               PROVE  (s \o t)[k].op \in ops /\ IsItem((s \o t)[k])
  BY <1>1, JoinSequences DEF IsStack
<1>3. CASE k <= Len(s)
  BY <1>1, <1>3, JoinSequences DEF IsStack
<1>4. CASE ~(k <= Len(s))
  <2>1. k - Len(s) \in 1..Len(t) /\ (s \o t)[k] = t[k - Len(s)]
    BY <1>1, <1>4, JoinSequences
  <2> QED
    BY <2>1 DEF IsStack
<1> QED
  BY <1>3, <1>4

\* The head of the stack replaced by more work (Push).
LEMMA PushStack ==
  ASSUME NEW ops, NEW s, IsStack(s, ops), s # <<>>, NEW t, IsStack(t, ops)
  PROVE  IsStack(t \o Tail(s), ops)
  BY PopStack, JoinStacks

\* Work listed by a function of positions.
LEMMA FunctionIsStack ==
  ASSUME NEW ops, NEW n \in Nat, NEW s, s = [k \in 1..n |-> s[k]],
         \A k \in 1..n : s[k].op \in ops /\ IsItem(s[k])
  PROVE  IsStack(s, ops)
  BY FunctionIsSequence DEF IsStack

\* One item of work.
LEMMA SingletonIsStack ==
  ASSUME NEW ops, NEW w, w.op \in ops, IsItem(w)
  PROVE  IsStack(<<w>>, ops)
<1>1. <<w>> \in Seq({w}) /\ Len(<<w>>) = 1 /\ <<w>>[1] = w
  OBVIOUS
<1>2. IsSequence(<<w>>)
  BY <1>1, SeqIsSequence
<1>3. \A k \in 1..Len(<<w>>) : <<w>>[k] = w
  BY <1>1
<1> QED
  BY <1>2, <1>3 DEF IsStack

-----------------------------------------------------------------------------
(* The work the actions push is a stack of items of their kind. *)

\* The writes of an assignment, one per leaf of its target.
LEMMA LeafItemsStack ==
  ASSUME NEW ops, NEW op \in ops, op \in {"assign leaf", "comb leaf", "sink leaf"},
         NEW i \in Instance, NEW target, IsSequence(target.leaves), NEW value
  PROVE  IsStack(LeafItems(op, i, target, value), ops)
<1> DEFINE s == LeafItems(op, i, target, value)
<1>1. Len(target.leaves) \in Nat
  BY SequenceLength
<1>2. s = [k \in 1..Len(target.leaves) |-> s[k]]
  BY DEF LeafItems
<1>3. \A k \in 1..Len(target.leaves) : s[k].op \in ops /\ IsItem(s[k])
  BY DEF LeafItems, LeafItem, IsItem
<1> QED
  BY <1>1, <1>2, <1>3, FunctionIsStack

\* The work of a pass is that of a settle.
LEMMA PassWorkStack == IsStack(PassWork, SettleOps)
<1> DEFINE s == [k \in 1..Len(DrivenFromOutside) |->
                   [op |-> "input", inst |-> Top, name |-> DrivenFromOutside[k].name]]
<1>1. Top \in Instance /\ Len(DrivenFromOutside) \in Nat
  BY DesignAssumption, SequenceLength DEF DrivenFromOutside
<1>2. \A k \in 1..Len(DrivenFromOutside) : s[k].op \in SettleOps /\ IsItem(s[k])
  BY <1>1 DEF IsItem, SettleOps
<1>3. IsStack(s, SettleOps)
  BY <1>1, <1>2, FunctionIsStack
<1>4. IsStack(<<Item("module", Top)>>, SettleOps)
  <2>1. Item("module", Top).op \in SettleOps /\ IsItem(Item("module", Top))
    BY <1>1 DEF Item, IsItem, SettleOps
  <2> QED
    BY <2>1, SingletonIsStack
<1> QED
  BY <1>3, <1>4, JoinStacks DEF PassWork

\* So is the work of one module of a pass.
LEMMA ModuleWorkStack == ASSUME NEW i \in Instance PROVE IsStack(ModuleWork(i), SettleOps)
<1> DEFINE as == [k \in 1..Len(Design[i].assigns) |-> ItemAt("assign", i, k)]
           bs == [k \in 1..Len(Design[i].blocks) |-> ItemAt("comb", i, k)]
           co == [op |-> "commit", inst |-> i, done |-> {}]
           cs == [k \in 1..Len(Design[i].children) |-> Item("child", Design[i].children[k])]
<1>1. /\ Len(Design[i].assigns) \in Nat
      /\ Len(Design[i].blocks) \in Nat
      /\ Len(Design[i].children) \in Nat
      /\ \A k \in 1..Len(Design[i].children) : Design[i].children[k] \in Instance
  BY DesignAssumption, SequenceLength
<1>2. IsStack(as, SettleOps)
  <2>1. \A k \in 1..Len(Design[i].assigns) : as[k].op \in SettleOps /\ IsItem(as[k])
    BY DEF ItemAt, IsItem, SettleOps
  <2> QED
    BY <1>1, <2>1, FunctionIsStack
<1>3. IsStack(bs, SettleOps)
  <2>1. \A k \in 1..Len(Design[i].blocks) : bs[k].op \in SettleOps /\ IsItem(bs[k])
    BY DEF ItemAt, IsItem, SettleOps
  <2> QED
    BY <1>1, <2>1, FunctionIsStack
<1>4. IsStack(<<co>>, SettleOps)
  <2>1. co.op \in SettleOps /\ IsItem(co)
    BY DEF IsItem, SettleOps
  <2> HIDE DEF co
  <2> QED
    BY <2>1, SingletonIsStack
<1>5. IsStack(cs, SettleOps)
  <2>1. \A k \in 1..Len(Design[i].children) : cs[k].op \in SettleOps /\ IsItem(cs[k])
    BY <1>1 DEF Item, IsItem, SettleOps
  <2> QED
    BY <1>1, <2>1, FunctionIsStack
<1> HIDE DEF as, bs, co, cs
<1>6. IsStack(as \o bs \o <<co>> \o cs, SettleOps)
  BY <1>2, <1>3, <1>4, <1>5, JoinStacks
<1> QED
  BY <1>6 DEF ModuleWork, as, bs, co, cs

\* And so is the work of one child of a module.
LEMMA ChildWorkStack == ASSUME NEW c \in Instance PROVE IsStack(ChildWork(c), SettleOps)
<1> DEFINE ds == [k \in 1..Len(Design[c].drivers) |-> ItemAt("drive", c, k)]
           ss == [k \in 1..Len(Design[c].sinks) |-> ItemAt("sink", c, k)]
           mo == Item("module", c)
<1>1. Len(Design[c].drivers) \in Nat /\ Len(Design[c].sinks) \in Nat
  BY DesignAssumption, SequenceLength
<1>2. IsStack(ds, SettleOps)
  <2>1. \A k \in 1..Len(Design[c].drivers) : ds[k].op \in SettleOps /\ IsItem(ds[k])
    BY DEF ItemAt, IsItem, SettleOps
  <2> QED
    BY <1>1, <2>1, FunctionIsStack
<1>3. IsStack(ss, SettleOps)
  <2>1. \A k \in 1..Len(Design[c].sinks) : ss[k].op \in SettleOps /\ IsItem(ss[k])
    BY DEF ItemAt, IsItem, SettleOps
  <2> QED
    BY <1>1, <2>1, FunctionIsStack
<1>4. IsStack(<<mo>>, SettleOps)
  <2>1. mo.op \in SettleOps /\ IsItem(mo)
    BY DEF Item, IsItem, SettleOps
  <2> HIDE DEF mo
  <2> QED
    BY <2>1, SingletonIsStack
<1> HIDE DEF ds, ss, mo
<1>5. IsStack(ds \o <<mo>> \o ss, SettleOps)
  BY <1>2, <1>3, <1>4, JoinStacks
<1> QED
  BY <1>5 DEF ChildWork, ds, ss, mo

\* The statements a control statement may choose to run next.
Branches(s) ==
  CASE s.kind = "empty" -> {<<>>}
    [] s.kind = "block" -> {s.items}
    [] s.kind = "if"    -> {<<s.then>>, <<s.else>>}
    [] s.kind = "case"  -> {<<s.default>>} \cup {<<s.arms[k].body>> : k \in 1..Len(s.arms)}

IsBody(body) == IsSequence(body) /\ \A k \in 1..Len(body) : body[k] \in Label

\* One statement is a list of statements.
LEMMA SingletonIsBody == ASSUME NEW l \in Label PROVE IsBody(<<l>>)
<1>1. <<l>> \in Seq({l}) /\ Len(<<l>>) = 1 /\ <<l>>[1] = l
  OBVIOUS
<1>2. IsSequence(<<l>>)
  BY <1>1, SeqIsSequence
<1> QED
  BY <1>1, <1>2 DEF IsBody

\* Whatever a control statement chooses to run is a list of statements.
LEMMA BranchIsBody ==
  ASSUME NEW l \in Label, Code[l].kind # "assign", NEW body \in Branches(Code[l])
  PROVE  IsBody(body)
<1> DEFINE s == Code[l]
<1>1. CASE s.kind = "empty"
  <2>1. body = <<>>
    BY <1>1 DEF Branches
  <2>2. <<>> \in Seq({}) /\ 1..Len(<<>>) = {}
    OBVIOUS
  <2>3. IsSequence(<<>>)
    BY <2>2, SeqIsSequence
  <2> QED
    BY <2>1, <2>2, <2>3 DEF IsBody
<1>2. CASE s.kind = "block"
  BY <1>2, CodeAssumption DEF Branches, IsBody
<1>3. CASE s.kind = "if"
  <2>1. s.then \in Label /\ s.else \in Label
    BY <1>3, CodeAssumption
  <2>2. body = <<s.then>> \/ body = <<s.else>>
    BY <1>3 DEF Branches
  <2> QED
    BY <2>1, <2>2, SingletonIsBody
<1>4. CASE s.kind = "case"
  <2>1. s.default \in Label /\ \A k \in 1..Len(s.arms) : s.arms[k].body \in Label
    BY <1>4, CodeAssumption
  <2>2. body = <<s.default>> \/ \E k \in 1..Len(s.arms) : body = <<s.arms[k].body>>
    BY <1>4 DEF Branches
  <2> QED
    BY <2>1, <2>2, SingletonIsBody
<1> QED
  BY <1>1, <1>2, <1>3, <1>4, CodeAssumption

\* The statements of a list, pushed as work.
LEMMA StmtItemsStack ==
  ASSUME NEW ops, NEW op \in ops, op \in {"stmt", "seq"}, NEW i \in Instance,
         NEW body, IsBody(body)
  PROVE  IsStack([k \in 1..Len(body) |-> StmtItem(op, i, body[k])], ops)
<1> DEFINE s == [k \in 1..Len(body) |-> StmtItem(op, i, body[k])]
<1>1. Len(body) \in Nat
  BY SequenceLength DEF IsBody
<1>2. \A k \in 1..Len(body) : s[k].op \in ops /\ IsItem(s[k])
  BY DEF StmtItem, IsItem, IsBody
<1> QED
  BY <1>1, <1>2, FunctionIsStack

-----------------------------------------------------------------------------
(* step_module keeps an instance's work together: between its "open" and   *)
(* its "close" only its own blocks and names are worked on.                *)

Follows(v, w) ==
  IF v.op \in BodyOps \cup {"open"}
  THEN w.op \in BodyOps \cup {"close"} /\ w.inst = v.inst
  ELSE w.op \in {"step", "open"}

\* One instance of a step may follow another.
LEMMA StepFollows ==
  ASSUME NEW v, NEW w, v.op \in {"step", "close"}, w.op \in {"step", "open"}
  PROVE  Follows(v, w)
  BY DEF Follows, BodyOps

IsLinked(s) == \A k \in 1..(Len(s) - 1) : Follows(s[k], s[k + 1])

\* Two linked stacks, the second of which may follow the first, are linked.
LEMMA JoinLinked ==
  ASSUME NEW s, IsSequence(s), IsLinked(s), NEW t, IsSequence(t), IsLinked(t),
         Len(s) > 0 /\ Len(t) > 0 => Follows(s[Len(s)], t[1])
  PROVE  IsLinked(s \o t)
<1> SUFFICES ASSUME NEW k \in 1..(Len(s \o t) - 1)
             PROVE  Follows((s \o t)[k], (s \o t)[k + 1])
  BY DEF IsLinked
<1>1. Len(s) \in Nat /\ Len(t) \in Nat /\ Len(s \o t) = Len(s) + Len(t)
  BY JoinSequences
<1>2. \A j \in 1..(Len(s) + Len(t)) :
        (s \o t)[j] = IF j <= Len(s) THEN s[j] ELSE t[j - Len(s)]
  BY JoinSequences
<1>3. k \in 1..(Len(s) + Len(t)) /\ k + 1 \in 1..(Len(s) + Len(t))
  BY <1>1
<1>4. CASE k < Len(s)
  <2>1. (s \o t)[k] = s[k] /\ (s \o t)[k + 1] = s[k + 1]
    BY <1>1, <1>2, <1>3, <1>4
  <2> QED
    BY <1>1, <1>3, <1>4, <2>1 DEF IsLinked
<1>5. CASE k = Len(s)
  <2>1. (s \o t)[k] = s[k] /\ (s \o t)[k + 1] = t[1]
    BY <1>1, <1>2, <1>3, <1>5
  <2> QED
    BY <1>1, <1>3, <1>5, <2>1
<1>6. CASE k > Len(s)
  <2> DEFINE j == k - Len(s)
  <2>1. j \in 1..(Len(t) - 1) /\ (k + 1) - Len(s) = j + 1
    BY <1>1, <1>3, <1>6
  <2>2. (s \o t)[k] = t[j] /\ (s \o t)[k + 1] = t[j + 1]
    BY <1>1, <1>2, <1>3, <1>6, <2>1
  <2>3. Follows(t[j], t[j + 1])
    BY <2>1 DEF IsLinked
  <2> QED
    BY <2>2, <2>3
<1> QED
  BY <1>1, <1>3, <1>4, <1>5, <1>6

\* The end of a stack that instance i is still working on.
IsOpen(s, i) ==
  Len(s) > 0 /\ s[Len(s)].op \in BodyOps \cup {"open"} /\ s[Len(s)].inst = i

\* Work of instance i alone.
IsBodyOf(s, i) == \A k \in 1..Len(s) : s[k].op \in BodyOps /\ s[k].inst = i

\* Work of one instance is linked.
LEMMA BodyIsLinked ==
  ASSUME NEW s, IsSequence(s), NEW i, IsBodyOf(s, i)
  PROVE  IsLinked(s)
<1>1. Len(s) \in Nat
  BY SequenceLength
<1> QED
  BY <1>1 DEF IsBodyOf, IsLinked, Follows

\* Work of an open instance, extended by more of its own, stays open.
LEMMA BodyExtends ==
  ASSUME NEW s, IsSequence(s), IsLinked(s), NEW i, IsOpen(s, i),
         NEW t, IsSequence(t), IsBodyOf(t, i)
  PROVE  IsLinked(s \o t) /\ IsOpen(s \o t, i)
<1>1. Len(s) \in Nat /\ Len(t) \in Nat /\ Len(s \o t) = Len(s) + Len(t)
  BY JoinSequences
<1>2. \A j \in 1..(Len(s) + Len(t)) :
        (s \o t)[j] = IF j <= Len(s) THEN s[j] ELSE t[j - Len(s)]
  BY JoinSequences
<1>3. Len(s) > 0 /\ Len(t) > 0 => Follows(s[Len(s)], t[1])
  BY <1>1 DEF IsOpen, IsBodyOf, Follows
<1>4. IsLinked(t)
  BY BodyIsLinked
<1>5. IsLinked(s \o t)
  BY <1>3, <1>4, JoinLinked
<1>6. CASE Len(t) = 0
  <2>1. Len(s \o t) = Len(s) /\ (s \o t)[Len(s)] = s[Len(s)]
    BY <1>1, <1>6, <1>2 DEF IsOpen
  <2> QED
    BY <1>5, <2>1 DEF IsOpen
<1>7. CASE Len(t) > 0
  <2>1. (s \o t)[Len(s \o t)] = t[Len(t)]
    BY <1>1, <1>7, <1>2
  <2> QED
    BY <1>1, <1>5, <1>7, <2>1 DEF IsOpen, IsBodyOf
<1> QED
  BY <1>1, <1>6, <1>7

\* A linked stack is linked without its head, and its new head follows the old.
LEMMA PopLinked ==
  ASSUME NEW ops, NEW s, IsStack(s, ops), IsLinked(s), s # <<>>
  PROVE  /\ IsLinked(Tail(s))
         /\ Tail(s) # <<>> => Follows(Head(s), Tail(s)[1])
<1>1. /\ Len(Tail(s)) = Len(s) - 1 /\ Len(s) \in Nat \ {0}
      /\ \A k \in 1..(Len(s) - 1) : Tail(s)[k] = s[k + 1]
      /\ Head(s) = s[1] /\ IsStack(Tail(s), ops)
  BY PopStack
<1>2. IsLinked(Tail(s))
  BY <1>1 DEF IsLinked
<1>3. ASSUME Tail(s) # <<>> PROVE Follows(Head(s), Tail(s)[1])
  <2>1. Len(Tail(s)) > 0
    BY <1>1, <1>3, PopStack
  <2> QED
    BY <1>1, <2>1 DEF IsLinked
<1> QED
  BY <1>2, <1>3

\* Replacing the head of a linked stack by work that ends like it.
LEMMA PushLinked ==
  ASSUME NEW ops, NEW s, IsStack(s, ops), IsLinked(s), s # <<>>,
         NEW t, IsStack(t, ops), IsLinked(t), Len(t) > 0,
         Tail(s) # <<>> => Follows(t[Len(t)], Tail(s)[1])
  PROVE  IsLinked(t \o Tail(s)) /\ (t \o Tail(s))[1] = t[1]
<1>1. /\ IsSequence(t) /\ IsSequence(Tail(s)) /\ IsLinked(Tail(s))
      /\ Len(Tail(s)) \in Nat
  BY PopStack, PopLinked, SequenceLength DEF IsStack
<1>2. Len(Tail(s)) > 0 => Tail(s) # <<>>
  BY <1>1
<1>3. IsLinked(t \o Tail(s))
  BY <1>1, <1>2, JoinLinked
<1>4. (t \o Tail(s))[1] = t[1]
  BY <1>1, JoinSequences
<1> QED
  BY <1>3, <1>4

\* The work step_module has for an instance, children first, is linked.
LEMMA StepWorkStack ==
  ASSUME NEW i \in Instance
  PROVE  /\ IsStack(StepWork(i), StepOps) /\ IsLinked(StepWork(i))
         /\ Len(StepWork(i)) > 0
         /\ StepWork(i)[1].op \in {"step", "open"}
         /\ StepWork(i)[Len(StepWork(i))].op = "close"
<1> DEFINE cs == [k \in 1..Len(Design[i].children) |-> Item("step", Design[i].children[k])]
           op == Item("open", i)
           bs == [k \in 1..Len(Design[i].blocks) |-> ItemAt("block", i, k)]
           ns == [k \in 1..Len(Design[i].decls) |-> ItemAt("sync", i, k)]
           cl == Item("close", i)
<1>1. /\ Len(Design[i].children) \in Nat
      /\ Len(Design[i].blocks) \in Nat
      /\ Len(Design[i].decls) \in Nat
      /\ \A k \in 1..Len(Design[i].children) : Design[i].children[k] \in Instance
  BY DesignAssumption, SequenceLength
<1>2. /\ IsStack(cs, StepOps) /\ IsLinked(cs) /\ Len(cs) \in Nat
      /\ \A k \in 1..Len(cs) : cs[k].op = "step"
  <2>1. Len(cs) = Len(Design[i].children)
    BY <1>1, FunctionIsSequence
  <2>2. \A k \in 1..Len(cs) : cs[k].op = "step" /\ cs[k].op \in StepOps /\ IsItem(cs[k])
    BY <1>1, <2>1 DEF Item, IsItem, StepOps
  <2>3. IsStack(cs, StepOps)
    BY <1>1, <2>1, <2>2, FunctionIsStack
  <2>4. \A k \in 1..(Len(cs) - 1) : Follows(cs[k], cs[k + 1])
    <3> SUFFICES ASSUME NEW k \in 1..(Len(cs) - 1) PROVE Follows(cs[k], cs[k + 1])
      OBVIOUS
    <3>1. k \in 1..Len(cs) /\ k + 1 \in 1..Len(cs)
      BY <1>1, <2>1
    <3> HIDE DEF cs
    <3> QED
      BY <2>2, <3>1, StepFollows
  <2> QED
    BY <1>1, <2>1, <2>2, <2>3, <2>4 DEF IsLinked
<1>3. /\ IsStack(<<op>>, StepOps) /\ IsLinked(<<op>>) /\ IsOpen(<<op>>, i)
      /\ Len(<<op>>) = 1 /\ <<op>>[1] = op /\ op.op = "open"
  <2>1. op.op = "open" /\ op.inst = i /\ IsItem(op) /\ op.op \in StepOps
    BY DEF Item, IsItem, StepOps
  <2> HIDE DEF op
  <2>2. IsStack(<<op>>, StepOps)
    BY <2>1, SingletonIsStack
  <2>3. Len(<<op>>) = 1 /\ <<op>>[1] = op
    OBVIOUS
  <2>4. IsLinked(<<op>>)
    BY <2>3 DEF IsLinked
  <2>5. IsOpen(<<op>>, i)
    BY <2>1, <2>3 DEF IsOpen
  <2> QED
    BY <2>1, <2>2, <2>3, <2>4, <2>5
<1>4. IsStack(bs, StepOps) /\ IsBodyOf(bs, i)
  <2>1. Len(bs) = Len(Design[i].blocks)
    BY <1>1, FunctionIsSequence
  <2>2. \A k \in 1..Len(bs) :
          /\ bs[k].op \in BodyOps /\ bs[k].op \in StepOps /\ bs[k].inst = i
          /\ IsItem(bs[k])
    BY <2>1 DEF ItemAt, IsItem, BodyOps, StepOps
  <2>3. IsStack(bs, StepOps)
    BY <1>1, <2>1, <2>2, FunctionIsStack
  <2> QED
    BY <2>2, <2>3 DEF IsBodyOf
<1>5. IsStack(ns, StepOps) /\ IsBodyOf(ns, i)
  <2>1. Len(ns) = Len(Design[i].decls)
    BY <1>1, FunctionIsSequence
  <2>2. \A k \in 1..Len(ns) :
          /\ ns[k].op \in BodyOps /\ ns[k].op \in StepOps /\ ns[k].inst = i
          /\ IsItem(ns[k])
    BY <2>1 DEF ItemAt, IsItem, BodyOps, StepOps
  <2>3. IsStack(ns, StepOps)
    BY <1>1, <2>1, <2>2, FunctionIsStack
  <2> QED
    BY <2>2, <2>3 DEF IsBodyOf
<1>6. /\ IsStack(<<cl>>, StepOps) /\ IsLinked(<<cl>>)
      /\ Len(<<cl>>) = 1 /\ <<cl>>[1] = cl /\ cl.op = "close" /\ cl.inst = i
  <2>1. cl.op = "close" /\ cl.inst = i /\ IsItem(cl) /\ cl.op \in StepOps
    BY DEF Item, IsItem, StepOps
  <2> HIDE DEF cl
  <2>2. IsStack(<<cl>>, StepOps)
    BY <2>1, SingletonIsStack
  <2>3. Len(<<cl>>) = 1 /\ <<cl>>[1] = cl
    OBVIOUS
  <2>4. IsLinked(<<cl>>)
    BY <2>3 DEF IsLinked
  <2> QED
    BY <2>1, <2>2, <2>3, <2>4
<1> HIDE DEF cs, op, bs, ns, cl
<1> DEFINE s1 == cs \o <<op>>
           s2 == s1 \o bs
           s3 == s2 \o ns
           s4 == s3 \o <<cl>>
<1>7. /\ IsStack(s1, StepOps) /\ IsLinked(s1) /\ IsOpen(s1, i)
      /\ s1[1].op \in {"step", "open"}
  <2>1. IsStack(s1, StepOps)
    BY <1>2, <1>3, JoinStacks
  <2>2. Len(cs) > 0 /\ Len(<<op>>) > 0 => Follows(cs[Len(cs)], <<op>>[1])
    <3>1. ASSUME Len(cs) > 0 PROVE Follows(cs[Len(cs)], op)
      BY <1>2, <1>3, <3>1, StepFollows
    <3> QED
      BY <1>3, <3>1
  <2>3. IsLinked(s1)
    BY <1>2, <1>3, <2>2, JoinLinked DEF IsStack
  <2>4. /\ Len(s1) = Len(cs) + 1
        /\ \A k \in 1..(Len(cs) + 1) : s1[k] = IF k <= Len(cs) THEN cs[k] ELSE <<op>>[k - Len(cs)]
    BY <1>2, <1>3, JoinSequences DEF IsStack
  <2>5. s1[Len(s1)] = op
    BY <1>2, <1>3, <2>4
  <2>6. IsOpen(s1, i)
    BY <1>2, <1>3, <2>4, <2>5 DEF IsOpen
  <2>7. s1[1].op \in {"step", "open"}
    BY <1>2, <1>3, <2>4
  <2> QED
    BY <2>1, <2>3, <2>6, <2>7
<1>8. IsStack(s2, StepOps) /\ IsLinked(s2) /\ IsOpen(s2, i) /\ s2[1] = s1[1]
  <2>1. IsStack(s2, StepOps) /\ IsLinked(s2) /\ IsOpen(s2, i)
    BY <1>4, <1>7, JoinStacks, BodyExtends DEF IsStack
  <2>2. s2[1] = s1[1]
    BY <1>4, <1>7, JoinSequences DEF IsStack, IsOpen
  <2> QED
    BY <2>1, <2>2
<1>9. IsStack(s3, StepOps) /\ IsLinked(s3) /\ IsOpen(s3, i) /\ s3[1] = s1[1]
  <2>1. IsStack(s3, StepOps) /\ IsLinked(s3) /\ IsOpen(s3, i)
    BY <1>5, <1>8, JoinStacks, BodyExtends DEF IsStack
  <2>2. s3[1] = s2[1]
    BY <1>5, <1>8, JoinSequences DEF IsStack, IsOpen
  <2> QED
    BY <1>8, <2>1, <2>2
<1>10. /\ IsStack(s4, StepOps) /\ IsLinked(s4) /\ Len(s4) > 0
       /\ s4[1] = s1[1] /\ s4[Len(s4)].op = "close"
  <2>1. IsStack(s4, StepOps)
    BY <1>6, <1>9, JoinStacks
  <2>2. Follows(s3[Len(s3)], <<cl>>[1])
    BY <1>6, <1>9 DEF Follows, IsOpen
  <2>3. IsLinked(s4)
    BY <1>6, <1>9, <2>2, JoinLinked DEF IsStack
  <2>a. IsSequence(s3) /\ IsSequence(<<cl>>)
    BY <1>6, <1>9 DEF IsStack
  <2>4. /\ Len(s3) \in Nat /\ Len(s4) = Len(s3) + 1
        /\ \A k \in 1..(Len(s3) + 1) :
             s4[k] = IF k <= Len(s3) THEN s3[k] ELSE <<cl>>[k - Len(s3)]
    <3>1. /\ Len(s3) \in Nat /\ Len(s4) = Len(s3) + Len(<<cl>>)
          /\ \A k \in 1..(Len(s3) + Len(<<cl>>)) :
               s4[k] = IF k <= Len(s3) THEN s3[k] ELSE <<cl>>[k - Len(s3)]
      BY <2>a, JoinSequences
    <3>2. Len(<<cl>>) = 1
      BY <1>6
    <3> HIDE DEF s3, s4
    <3> QED
      BY <3>1, <3>2
  <2>5. s4[1] = s1[1] /\ s4[Len(s4)] = cl
    <3>1. Len(s3) > 0
      BY <1>9 DEF IsOpen
    <3> HIDE DEF s3, s4
    <3>2. s4[1] = s3[1]
      BY <2>4, <3>1
    <3>3. s4[Len(s4)] = <<cl>>[1]
      BY <2>4, <3>1
    <3> QED
      BY <1>6, <1>9, <3>2, <3>3
  <2> QED
    BY <1>6, <2>1, <2>3, <2>4, <2>5
<1>11. StepWork(i) = s4
  BY DEF StepWork, cs, op, bs, ns, cl
<1> QED
  BY <1>7, <1>10, <1>11

-----------------------------------------------------------------------------
(* The inductive invariant. *)

\* A frame is a function on the objects: writing back what an object holds
\* leaves it as it is.
IsMap(f) == f = [o \in Object |-> f[o]]

\* Between its "open" and its "close" an instance works on tables of its own.
InBody == todo # <<>> /\ Head(todo).op \in BodyOps \cup {"close"}

OwnTables(i) == sampled \in [Design[i].clocks -> BOOLEAN] /\ IsMemoryTable(stagedMem, i)

SettleInv ==
  InSettle => IsStack(todo, SettleOps) /\ IsMap(frame)

StepInv ==
  phase = "step" => /\ IsStack(todo, StepOps) /\ IsLinked(todo)
                    /\ IsMap(next)
                    /\ InBody => OwnTables(Head(todo).inst)

IInv ==
  /\ TypeOK
  /\ IsMap(persisted)
  /\ phase = "idle" => todo = <<>>
  /\ SettleInv
  /\ StepInv
  /\ TrackedChange
  /\ ObjectsWaitForCommit

\* A settle may always take 16 passes (settle_module).
LEMMA MaxPassesInNat == MaxPasses \in Nat /\ MaxPasses >= 16
  BY BudgetAssumption DEF MaxPasses

\* A first pass on a frame.
LEMMA PassStarts ==
  ASSUME NEW f, IsFrame(f), IsMap(f), NEW n \in 0..MaxPasses, StartPass(f, n)
  PROVE  /\ IsFrame(frame') /\ IsFrame(passStart') /\ IsMap(frame') /\ frame' = passStart'
         /\ DOMAIN drivers' = Object
         /\ changed' \in BOOLEAN /\ passes' \in 0..MaxPasses
         /\ IsStack(todo', SettleOps)
  BY PassWorkStack DEF StartPass, NoDrivers

\* A new session satisfies the invariant.
LEMMA InitHolds == Init => IInv
<1> SUFFICES ASSUME Init PROVE IInv
  OBVIOUS
<1>1. IsFrame(persisted) /\ IsMap(persisted)
  BY DEF Init, IsFrame, IsMap, ZeroOf, Filled
<1>2. DOMAIN memories = Instance /\ \A i \in Instance : IsMemoryTable(memories[i], i)
  BY DEF Init, IsMemoryTable, ZeroOf, Filled
<1>3. DOMAIN clocks = Instance /\ \A i \in Instance : clocks[i] \in [Design[i].clocks -> BOOLEAN]
  BY DEF Init
<1>4. /\ phase = "idle" /\ call = Idle /\ todo = <<>>
      /\ changed \in BOOLEAN /\ passes = 0
  BY DEF Init
<1>5. passes \in 0..MaxPasses
  BY <1>4, MaxPassesInNat
<1>6. TypeOK
  BY <1>1, <1>2, <1>3, <1>4, <1>5 DEF TypeOK, Phases, InSettle
<1> QED
  BY <1>1, <1>4, <1>6 DEF IInv, SettleInv, StepInv, TrackedChange, ObjectsWaitForCommit, InSettle

-----------------------------------------------------------------------------
(* What a step of a pass may do, and what a step of step_module may do. *)

SettleEffect ==
  /\ InSettle
  /\ UNCHANGED <<session, call, before, phase, passes, passStart>>
  /\ IsFrame(frame') /\ IsMap(frame')
  /\ changed' \in BOOLEAN /\ (~changed' => ~changed /\ frame' = frame)
  /\ DOMAIN drivers' = Object
  /\ IsStack(todo', SettleOps)

\* A step of a pass that has no other effect keeps the invariant.
LEMMA SettleEffectPreserves == IInv /\ SettleEffect => IInv'
<1> SUFFICES ASSUME IInv, SettleEffect PROVE IInv'
  OBVIOUS
<1>1. /\ phase \in {"settle", "resettle"} /\ phase' = phase
      /\ persisted' = persisted /\ memories' = memories /\ clocks' = clocks
      /\ call' = call /\ before' = before /\ passes' = passes /\ passStart' = passStart
  BY DEF SettleEffect, InSettle, session
<1>2. TypeOK'
  BY <1>1 DEF IInv, SettleEffect, TypeOK, InSettle
<1>3. SettleInv' /\ StepInv'
  BY <1>1 DEF SettleEffect, SettleInv, StepInv, InSettle
<1>4. TrackedChange'
  BY <1>1 DEF IInv, SettleEffect, TrackedChange, InSettle
<1>5. ObjectsWaitForCommit' /\ IsMap(persisted') /\ phase' # "idle"
  BY <1>1 DEF IInv, ObjectsWaitForCommit
<1> QED
  BY <1>2, <1>3, <1>4, <1>5 DEF IInv

StepEffect ==
  /\ phase = "step"
  /\ UNCHANGED <<persisted, call, before, phase, changed, passes, preFrame>>
  /\ DOMAIN memories' = Instance /\ \A i \in Instance : IsMemoryTable(memories'[i], i)
  /\ DOMAIN clocks' = Instance
  /\ \A i \in Instance : clocks'[i] \in [Design[i].clocks -> BOOLEAN]
  /\ IsFrame(next') /\ IsMap(next')
  /\ IsStack(todo', StepOps) /\ IsLinked(todo')
  /\ InBody' => OwnTables(Head(todo).inst)'

\* So does a step of step_module that has no other effect.
LEMMA StepEffectPreserves == IInv /\ StepEffect => IInv'
<1> SUFFICES ASSUME IInv, StepEffect PROVE IInv'
  OBVIOUS
<1>1. /\ phase = "step" /\ phase' = phase /\ persisted' = persisted
      /\ call' = call /\ before' = before /\ passes' = passes /\ changed' = changed
      /\ preFrame' = preFrame
  BY DEF StepEffect
<1>2. TypeOK'
  BY <1>1 DEF IInv, StepEffect, TypeOK, InSettle
<1>3. SettleInv' /\ StepInv'
  BY <1>1 DEF StepEffect, SettleInv, StepInv, InSettle
<1>4. TrackedChange' /\ ObjectsWaitForCommit' /\ IsMap(persisted') /\ phase' # "idle"
  BY <1>1 DEF IInv, TrackedChange, ObjectsWaitForCommit, InSettle
<1> QED
  BY <1>2, <1>3, <1>4 DEF IInv

-----------------------------------------------------------------------------
(* The actions of a pass. *)

\* No work of a settle is work of a step.
LEMMA SettleOpsOnly == ASSUME NEW op \in SettleOps PROVE op \notin StepOps
  BY DEF SettleOps, StepOps, BodyOps

\* And no work of a step is work of a settle.
LEMMA StepOpsOnly == ASSUME NEW op \in StepOps PROVE op \notin SettleOps
  BY DEF SettleOps, StepOps, BodyOps

\* An item of a pass is only worked on in a pass.
LEMMA DoingInSettle ==
  ASSUME IInv, NEW op \in SettleOps, Doing(op)
  PROVE  /\ InSettle /\ phase # "step" /\ phase # "idle"
         /\ todo # <<>> /\ Head(todo).op = op /\ IsItem(Head(todo))
         /\ IsStack(todo, SettleOps) /\ IsStack(Tail(todo), SettleOps)
         /\ IsFrame(frame) /\ IsMap(frame) /\ changed \in BOOLEAN /\ DOMAIN drivers = Object
<1>1. todo # <<>> /\ Head(todo).op = op
  BY DEF Doing, Head1
<1>2. phase \in Phases /\ phase # "idle"
  BY <1>1 DEF IInv, TypeOK
<1>3. phase # "step"
  <2> SUFFICES ASSUME phase = "step" PROVE FALSE
    OBVIOUS
  <2>1. IsStack(todo, StepOps)
    BY DEF IInv, StepInv
  <2> QED
    BY <1>1, <2>1, PopStack, SettleOpsOnly
<1>4. InSettle
  BY <1>2, <1>3 DEF InSettle, Phases
<1>5. IsStack(todo, SettleOps) /\ IsMap(frame)
  BY <1>4 DEF IInv, SettleInv
<1>6. IsStack(Tail(todo), SettleOps) /\ IsItem(Head(todo))
  BY <1>1, <1>5, PopStack
<1>7. IsFrame(frame) /\ changed \in BOOLEAN /\ DOMAIN drivers = Object
  BY <1>4 DEF IInv, TypeOK
<1> QED
  BY <1>1, <1>2, <1>3, <1>4, <1>5, <1>6, <1>7

\* Of a write, only what it does to the frame and to the flag.
FrameStep ==
  /\ IsFrame(frame') /\ IsMap(frame')
  /\ changed' \in BOOLEAN /\ (~changed' => ~changed /\ frame' = frame)

\* Writing a binding keeps the frame's widths and reports every change.
LEMMA WriteFrameSteps ==
  ASSUME NEW b, NEW v, IsFrame(frame), IsMap(frame), changed \in BOOLEAN, WriteFrame(b, v)
  PROVE  FrameStep
<1>1. DOMAIN Stored(b, v) = 1..Layouts[b.obj].width
  BY DEF Stored, Coerce
<1>2. frame' = [frame EXCEPT ![b.obj] = Stored(b, v)]
  BY DEF WriteFrame
<1>3. DOMAIN frame = Object
  BY DEF IsFrame
<1>4. frame' = [o \in Object |-> IF o = b.obj THEN Stored(b, v) ELSE frame[o]]
  BY <1>2, <1>3
<1>5. IsFrame(frame')
  BY <1>1, <1>4 DEF IsFrame
<1>6. IsMap(frame')
  BY <1>4 DEF IsMap
<1>7. changed' = (changed \/ frame[b.obj] # Stored(b, v))
  BY DEF WriteFrame
<1>8. ~changed' => frame' = frame
  <2> SUFFICES ASSUME ~changed' PROVE frame' = frame
    OBVIOUS
  <2>1. frame[b.obj] = Stored(b, v)
    BY <1>7
  <2> QED
    BY <1>4, <2>1 DEF IsMap
<1> QED
  BY <1>5, <1>6, <1>7, <1>8 DEF FrameStep

\* Writing nothing does, too.
LEMMA KeepFrameSteps ==
  ASSUME IsFrame(frame), IsMap(frame), changed \in BOOLEAN, KeepFrame
  PROVE  FrameStep
  BY DEF KeepFrame, FrameStep

\* A driver staged on an object leaves the table with every object.
LEMMA DriversKeepDomain ==
  ASSUME NEW o, NEW v, DOMAIN drivers = Object,
         StageDriver(o, v) \/ ReplaceDriver(o, v) \/ UNCHANGED drivers
  PROVE  DOMAIN drivers' = Object
  BY DEF StageDriver, ReplaceDriver

\* Driving a binding writes the frame or stages a driver, each as above.
LEMMA DriveBindingSteps ==
  ASSUME NEW b, NEW v, IsFrame(frame), IsMap(frame), changed \in BOOLEAN,
         DOMAIN drivers = Object, DriveBinding(b, v)
  PROVE  FrameStep /\ DOMAIN drivers' = Object
<1>1. CASE IsNet(b.obj)
  BY <1>1, DriversKeepDomain, KeepFrameSteps DEF DriveBinding
<1>2. CASE ~IsNet(b.obj)
  BY <1>2, DriversKeepDomain, WriteFrameSteps DEF DriveBinding
<1> QED
  BY <1>1, <1>2

\* Staging where nothing is staged leaves the table with every object.
LEMMA StageIfUndrivenKeeps ==
  ASSUME NEW b, NEW v, DOMAIN drivers = Object, StageIfUndriven(b, v)
  PROVE  DOMAIN drivers' = Object
  BY DriversKeepDomain DEF StageIfUndriven

\* ApplyInput is a step of a pass.
LEMMA ApplyInputSettles == IInv /\ ApplyInput => SettleEffect
<1> SUFFICES ASSUME IInv, ApplyInput PROVE SettleEffect
  OBVIOUS
<1>1. "input" \in SettleOps
  BY DEF SettleOps
<1>2. Doing("input") /\ todo' = Tail(todo)
  BY DEF ApplyInput, Pop
<1> DEFINE d == DeclOf(Top, Head1.name)
<1>3. FrameStep /\ DOMAIN drivers' = Object
  <2>1. CASE d.name \in DOMAIN call.inputs
    BY <1>1, <1>2, <2>1, DoingInSettle, DriveBindingSteps DEF ApplyInput
  <2>2. CASE d.name \notin DOMAIN call.inputs /\ d.dir = "input"
    BY <1>1, <1>2, <2>2, DoingInSettle, DriveBindingSteps DEF ApplyInput
  <2>3. CASE d.name \notin DOMAIN call.inputs /\ d.dir # "input"
    BY <1>1, <1>2, <2>3, DoingInSettle, KeepFrameSteps DEF ApplyInput
  <2> QED
    BY <2>1, <2>2, <2>3
<1>4. InSettle /\ IsStack(todo', SettleOps)
  BY <1>1, <1>2, DoingInSettle
<1>5. UNCHANGED <<session, call, before, phase, passes, passStart>>
  BY DEF ApplyInput
<1> QED
  BY <1>3, <1>4, <1>5 DEF SettleEffect, FrameStep

\* Actions that leave the frame and the drivers alone and push work.
QuietPush(op) ==
  /\ Doing(op)
  /\ UNCHANGED <<session, call, before, phase, frame, drivers, changed, passes, passStart>>
  /\ IsStack(todo', SettleOps)

\* An action that only pushes work of a settle is a step of a pass.
LEMMA QuietPushSettles == ASSUME NEW op \in SettleOps, IInv, QuietPush(op) PROVE SettleEffect
<1>1. Doing(op)
  BY DEF QuietPush
<1>2. /\ InSettle /\ IsFrame(frame) /\ IsMap(frame) /\ changed \in BOOLEAN
      /\ DOMAIN drivers = Object
  BY <1>1, DoingInSettle
<1> QED
  BY <1>2 DEF QuietPush, SettleEffect

\* EnterModule is a step of a pass: widths, work and the change flag are kept.
LEMMA EnterModuleSettles == IInv /\ EnterModule => SettleEffect
<1> SUFFICES ASSUME IInv, EnterModule PROVE SettleEffect
  OBVIOUS
<1>1. "module" \in SettleOps /\ Doing("module")
  BY DEF SettleOps, EnterModule
<1>2. Head1.inst \in Instance
  BY <1>1, DoingInSettle DEF IsItem, Head1
<1>3. IsStack(todo', SettleOps)
  BY <1>1, <1>2, DoingInSettle, ModuleWorkStack, PushStack DEF EnterModule, Push
<1>4. QuietPush("module")
  BY <1>1, <1>3 DEF EnterModule, QuietPush
<1> QED
  BY <1>1, <1>4, QuietPushSettles

\* EnterChild is a step of a pass: widths, work and the change flag are kept.
LEMMA EnterChildSettles == IInv /\ EnterChild => SettleEffect
<1> SUFFICES ASSUME IInv, EnterChild PROVE SettleEffect
  OBVIOUS
<1>1. "child" \in SettleOps /\ Doing("child")
  BY DEF SettleOps, EnterChild
<1>2. Head1.inst \in Instance
  BY <1>1, DoingInSettle DEF IsItem, Head1
<1>3. IsStack(todo', SettleOps)
  BY <1>1, <1>2, DoingInSettle, ChildWorkStack, PushStack DEF EnterChild, Push
<1>4. QuietPush("child")
  BY <1>1, <1>3 DEF EnterChild, QuietPush, settling
<1> QED
  BY <1>1, <1>4, QuietPushSettles

\* ContinuousAssign is a step of a pass: widths, work and the change flag are kept.
LEMMA ContinuousAssignSettles == IInv /\ ContinuousAssign => SettleEffect
<1> SUFFICES ASSUME IInv, ContinuousAssign PROVE SettleEffect
  OBVIOUS
<1>1. "assign" \in SettleOps /\ "assign leaf" \in SettleOps /\ Doing("assign")
  BY DEF SettleOps, ContinuousAssign
<1> DEFINE i == Head1.inst
           a == AssignOf(Head1)
<1>2. i \in Instance /\ Head1.at \in 1..Len(Design[i].assigns)
  BY <1>1, DoingInSettle DEF IsItem, Head1
<1>3. IsSequence(a.target.leaves)
  BY <1>2, DesignAssumption DEF AssignOf
<1>4. todo' = LeafItems("assign leaf", i, a.target, CombValue(i, a.expr)) \o Tail(todo)
  BY DEF ContinuousAssign, Push
<1>5. IsStack(LeafItems("assign leaf", i, a.target, CombValue(i, a.expr)), SettleOps)
  BY <1>1, <1>2, <1>3, LeafItemsStack
<1>6. IsStack(todo', SettleOps)
  BY <1>1, <1>4, <1>5, DoingInSettle, PushStack
<1>7. QuietPush("assign")
  BY <1>1, <1>6 DEF ContinuousAssign, QuietPush, settling
<1> QED
  BY <1>1, <1>7, QuietPushSettles

\* AssignLeaf is a step of a pass: widths, work and the change flag are kept.
LEMMA AssignLeafSettles == IInv /\ AssignLeaf => SettleEffect
<1> SUFFICES ASSUME IInv, AssignLeaf PROVE SettleEffect
  OBVIOUS
<1>1. "assign leaf" \in SettleOps /\ Doing("assign leaf") /\ todo' = Tail(todo)
  BY DEF SettleOps, AssignLeaf, Pop
<1>2. DOMAIN drivers' = Object
  <2>1. DOMAIN drivers = Object
    BY <1>1, DoingInSettle
  <2> QED
    BY <2>1, DriversKeepDomain DEF AssignLeaf
<1>3. /\ InSettle /\ IsStack(todo', SettleOps)
      /\ IsFrame(frame) /\ IsMap(frame) /\ changed \in BOOLEAN
  BY <1>1, DoingInSettle
<1>4. UNCHANGED <<session, call, before, phase, frame, changed, passes, passStart>>
  BY DEF AssignLeaf
<1> QED
  BY <1>2, <1>3, <1>4 DEF SettleEffect

\* CombBlock is a step of a pass: widths, work and the change flag are kept.
LEMMA CombBlockSettles == IInv /\ CombBlock => SettleEffect
<1> SUFFICES ASSUME IInv, CombBlock PROVE SettleEffect
  OBVIOUS
<1>1. "comb" \in SettleOps /\ "stmt" \in SettleOps /\ Doing("comb")
  BY DEF SettleOps, CombBlock
<1> DEFINE i == Head1.inst
           b == Design[i].blocks[Head1.at]
           w == StmtItem("stmt", i, b.body)
<1>2. i \in Instance /\ b.body \in Label
  BY <1>1, DoingInSettle, DesignAssumption DEF IsItem, Head1
<1>3. w.op \in SettleOps /\ IsItem(w)
  BY <1>1, <1>2 DEF StmtItem, IsItem
<1>4. IsStack(<<w>> \o Tail(todo), SettleOps)
  <2> HIDE DEF w
  <2> QED
    BY <1>1, <1>3, DoingInSettle, SingletonIsStack, PushStack
<1>5. todo' = <<w>> \o Tail(todo) \/ todo' = Tail(todo)
  BY DEF CombBlock, Push, Pop
<1>6. IsStack(todo', SettleOps)
  BY <1>1, <1>4, <1>5, DoingInSettle
<1>7. QuietPush("comb")
  BY <1>1, <1>6 DEF CombBlock, QuietPush, settling
<1> QED
  BY <1>1, <1>7, QuietPushSettles

\* What CombControl pushes is the statements of one of the branches.
LEMMA CombControlChooses ==
  ASSUME IInv, CombControl
  PROVE  /\ Doing("stmt") /\ Head1.inst \in Instance /\ Code[Head1.stmt].kind # "assign"
         /\ \E body \in Branches(Code[Head1.stmt]) :
              /\ IsBody(body)
              /\ todo' = [k \in 1..Len(body) |-> StmtItem("stmt", Head1.inst, body[k])] \o Tail(todo)
<1>1. "stmt" \in SettleOps /\ Doing("stmt")
  BY DEF SettleOps, CombControl
<1> DEFINE i == Head1.inst
           s == Code[Head1.stmt]
           V(e) == CombValue(i, e)
           body == Chosen(s, V)
<1>2. i \in Instance /\ Head1.stmt \in Label
  BY <1>1, DoingInSettle DEF IsItem, Head1
<1>3. s.kind # "assign"
  BY DEF CombControl
<1>4. body \in Branches(s)
  <2>1. CASE s.kind = "empty"
    BY <2>1 DEF Chosen, Branches
  <2>2. CASE s.kind = "block"
    BY <2>2 DEF Chosen, Branches
  <2>3. CASE s.kind = "if"
    BY <2>3 DEF Chosen, Branches
  <2>4. CASE s.kind = "case"
    <3> DEFINE hits == Arm(s, V(s.expr), V)
    <3>1. body = <<IF hits = {} THEN s.default ELSE s.arms[Min(hits)].body>>
      BY <2>4 DEF Chosen
    <3>2. hits \subseteq 1..Len(s.arms)
      BY DEF Arm
    <3> HIDE DEF hits, body
    <3>3. CASE hits = {}
      BY <2>4, <3>1, <3>3 DEF Branches
    <3>4. CASE hits # {}
      <4>1. Len(s.arms) \in Nat
        BY <1>2, <2>4, CodeAssumption, SequenceLength
      <4>2. hits \in SUBSET Nat
        BY <3>2, <4>1
      <4>3. Min(hits) \in 1..Len(s.arms)
        BY <3>2, <3>4, <4>2, MinInSet
      <4> QED
        BY <2>4, <3>1, <3>4, <4>3 DEF Branches
    <3> QED
      BY <3>3, <3>4
  <2> QED
    BY <1>2, <1>3, <2>1, <2>2, <2>3, <2>4, CodeAssumption
<1>5. IsBody(body)
  <2> HIDE DEF body
  <2> QED
    BY <1>2, <1>3, <1>4, BranchIsBody
<1>6. todo' = [k \in 1..Len(body) |-> StmtItem("stmt", i, body[k])] \o Tail(todo)
  BY DEF CombControl, Push
<1> HIDE DEF body
<1> QED
  BY <1>1, <1>2, <1>3, <1>4, <1>5, <1>6

\* CombControl is a step of a pass: widths, work and the change flag are kept.
LEMMA CombControlSettles == IInv /\ CombControl => SettleEffect
<1> SUFFICES ASSUME IInv, CombControl PROVE SettleEffect
  OBVIOUS
<1>1. "stmt" \in SettleOps
  BY DEF SettleOps
<1>2. Doing("stmt") /\ Head1.inst \in Instance
  BY CombControlChooses
<1>3. PICK body : /\ IsBody(body)
                  /\ todo' = [k \in 1..Len(body) |-> StmtItem("stmt", Head1.inst, body[k])]
                              \o Tail(todo)
  BY CombControlChooses
<1>4. IsStack([k \in 1..Len(body) |-> StmtItem("stmt", Head1.inst, body[k])], SettleOps)
  BY <1>1, <1>2, <1>3, StmtItemsStack
<1>5. IsStack(todo', SettleOps)
  BY <1>1, <1>2, <1>3, <1>4, DoingInSettle, PushStack
<1>6. QuietPush("stmt")
  BY <1>2, <1>5 DEF CombControl, QuietPush, settling
<1> QED
  BY <1>1, <1>6, QuietPushSettles

\* CombAssign is a step of a pass: widths, work and the change flag are kept.
LEMMA CombAssignSettles == IInv /\ CombAssign => SettleEffect
<1> SUFFICES ASSUME IInv, CombAssign PROVE SettleEffect
  OBVIOUS
<1>1. "stmt" \in SettleOps /\ "comb leaf" \in SettleOps /\ Doing("stmt")
  BY DEF SettleOps, CombAssign
<1> DEFINE i == Head1.inst
           s == Code[Head1.stmt]
<1>2. i \in Instance /\ Head1.stmt \in Label
  BY <1>1, DoingInSettle DEF IsItem, Head1
<1>3. IsSequence(s.target.leaves)
  BY <1>2, CodeAssumption DEF CombAssign
<1>4. todo' = LeafItems("comb leaf", i, s.target, CombValue(i, s.expr)) \o Tail(todo)
  BY DEF CombAssign, Push
<1>5. IsStack(LeafItems("comb leaf", i, s.target, CombValue(i, s.expr)), SettleOps)
  BY <1>1, <1>2, <1>3, LeafItemsStack
<1>6. IsStack(todo', SettleOps)
  BY <1>1, <1>4, <1>5, DoingInSettle, PushStack
<1>7. QuietPush("stmt")
  BY <1>1, <1>6 DEF CombAssign, QuietPush, settling
<1> QED
  BY <1>1, <1>7, QuietPushSettles

\* CombLeaf is a step of a pass: widths, work and the change flag are kept.
LEMMA CombLeafSettles == IInv /\ CombLeaf => SettleEffect
<1> SUFFICES ASSUME IInv, CombLeaf PROVE SettleEffect
  OBVIOUS
<1>1. "comb leaf" \in SettleOps /\ Doing("comb leaf") /\ todo' = Tail(todo)
  BY DEF SettleOps, CombLeaf, Pop
<1>2. IsStack(todo', SettleOps)
  BY <1>1, DoingInSettle
<1>3. QuietPush("comb leaf")
  BY <1>1, <1>2 DEF CombLeaf, QuietPush
<1> QED
  BY <1>1, <1>3, QuietPushSettles

\* A commit goes on until every name is done.
LEMMA CommitDoneStack ==
  ASSUME IInv, NEW n, Doing("commit"), CommitDone(n)
  PROVE  IsStack(todo', SettleOps)
<1> DEFINE w == [Head1 EXCEPT !.done = @ \cup {n}]
<1>1. "commit" \in SettleOps
  BY DEF SettleOps
<1>2. Head1.op = "commit" /\ Head1.inst \in Instance
  BY <1>1, DoingInSettle DEF IsItem, Head1
<1>3. w.op = Head1.op /\ w.inst = Head1.inst
  OBVIOUS
<1>4. w.op \in SettleOps /\ IsItem(w)
  BY <1>1, <1>2, <1>3 DEF IsItem
<1>5. todo' = <<w>> \o Tail(todo)
  BY DEF CommitDone, Push
<1> HIDE DEF w
<1> QED
  BY <1>1, <1>4, <1>5, DoingInSettle, SingletonIsStack, PushStack

\* CommitName is a step of a pass: widths, work and the change flag are kept.
LEMMA CommitNameSettles == IInv /\ CommitName => SettleEffect
<1> SUFFICES ASSUME IInv, CommitName PROVE SettleEffect
  OBVIOUS
<1>1. "commit" \in SettleOps /\ Doing("commit")
  BY DEF SettleOps, CommitName
<1> DEFINE i == Head1.inst
<1>2. PICK n \in ToCommit(i) \ Head1.done :
        LET b == Binding(i, n)
        IN  /\ CommitDone(n)
            /\ CASE ~IsNet(b.obj) ->
                      WriteFrame(b, overlay[n]) /\ UNCHANGED drivers
                 [] IsNet(b.obj) /\ Special(i, n) = "replace" ->
                      /\ WriteFrame(b, overlay[n])
                      /\ ReplaceDriver(b.obj, Stored(b, overlay[n]))
                 [] IsNet(b.obj) /\ Special(i, n) = "stage" ->
                      StageIfUndriven(b, overlay[n]) /\ KeepFrame
  BY DEF CommitName
<1> DEFINE b == Binding(i, n)
<1>3. InSettle /\ IsFrame(frame) /\ IsMap(frame) /\ changed \in BOOLEAN /\ DOMAIN drivers = Object
  BY <1>1, DoingInSettle
<1>4. FrameStep /\ DOMAIN drivers' = Object
  <2>1. CASE ~IsNet(b.obj)
    BY <1>2, <1>3, <2>1, WriteFrameSteps, DriversKeepDomain
  <2>2. CASE IsNet(b.obj) /\ Special(i, n) = "replace"
    BY <1>2, <1>3, <2>2, WriteFrameSteps, DriversKeepDomain
  <2>3. CASE IsNet(b.obj) /\ Special(i, n) = "stage"
    BY <1>2, <1>3, <2>3, KeepFrameSteps, StageIfUndrivenKeeps
  <2>4. IsNet(b.obj) => Special(i, n) \in {"replace", "stage"}
    <3>1. i \in Instance
      BY <1>1, DoingInSettle DEF IsItem, Head1
    <3>2. IsNet(b.obj) => n \in DOMAIN Design[i].specials
      BY <1>2 DEF ToCommit
    <3> QED
      BY <3>1, <3>2, DesignAssumption DEF Special
  <2> QED
    BY <2>1, <2>2, <2>3, <2>4
<1>5. IsStack(todo', SettleOps)
  BY <1>1, <1>2, CommitDoneStack
<1>6. UNCHANGED <<session, call, before, phase, passes, passStart>>
  BY DEF CommitName
<1> QED
  BY <1>3, <1>4, <1>5, <1>6 DEF SettleEffect, FrameStep

\* RefreshName is a step of a pass: widths, work and the change flag are kept.
LEMMA RefreshNameSettles == IInv /\ RefreshName => SettleEffect
<1> SUFFICES ASSUME IInv, RefreshName PROVE SettleEffect
  OBVIOUS
<1>1. "commit" \in SettleOps /\ Doing("commit")
  BY DEF SettleOps, RefreshName
<1> DEFINE i == Head1.inst
<1>2. PICK n \in ToRefresh(i) \ Head1.done :
        LET b == Binding(i, n)
            v == ReadBinding(b, frame)
        IN  /\ CommitDone(n)
            /\ IF Special(i, n) = "replace"
               THEN ReplaceDriver(b.obj, Stored(b, v))
               ELSE StageIfUndriven(b, v)
  BY DEF RefreshName
<1>3. InSettle /\ IsFrame(frame) /\ IsMap(frame) /\ changed \in BOOLEAN /\ DOMAIN drivers = Object
  BY <1>1, DoingInSettle
<1>4. DOMAIN drivers' = Object
  BY <1>2, <1>3, DriversKeepDomain, StageIfUndrivenKeeps
<1>5. IsStack(todo', SettleOps)
  BY <1>1, <1>2, CommitDoneStack
<1>6. UNCHANGED <<session, call, before, phase, frame, changed, passes, passStart>>
  BY DEF RefreshName
<1> QED
  BY <1>3, <1>4, <1>5, <1>6 DEF SettleEffect

\* EndCommit is a step of a pass: widths, work and the change flag are kept.
LEMMA EndCommitSettles == IInv /\ EndCommit => SettleEffect
<1> SUFFICES ASSUME IInv, EndCommit PROVE SettleEffect
  OBVIOUS
<1>1. "commit" \in SettleOps /\ Doing("commit") /\ todo' = Tail(todo)
  BY DEF SettleOps, EndCommit, Pop
<1>2. IsStack(todo', SettleOps)
  BY <1>1, DoingInSettle
<1>3. QuietPush("commit")
  BY <1>1, <1>2 DEF EndCommit, QuietPush, settling
<1> QED
  BY <1>1, <1>3, QuietPushSettles

\* DriveInput is a step of a pass: widths, work and the change flag are kept.
LEMMA DriveInputSettles == IInv /\ DriveInput => SettleEffect
<1> SUFFICES ASSUME IInv, DriveInput PROVE SettleEffect
  OBVIOUS
<1>1. "drive" \in SettleOps /\ Doing("drive") /\ todo' = Tail(todo)
  BY DEF SettleOps, DriveInput, Pop
<1> DEFINE c == Head1.inst
           d == Design[c].drivers[Head1.at]
           b == Binding(c, d.port)
<1>2. DriveBinding(b, CoerceValue(FrameValue(Parent(c), d.expr), b.view))
  BY DEF DriveInput
<1>3. /\ InSettle /\ IsFrame(frame) /\ IsMap(frame) /\ changed \in BOOLEAN
      /\ DOMAIN drivers = Object /\ IsStack(todo', SettleOps)
  BY <1>1, DoingInSettle
<1>4. FrameStep /\ DOMAIN drivers' = Object
  BY <1>2, <1>3, DriveBindingSteps
<1>5. UNCHANGED <<session, call, before, phase, passes, passStart>>
  BY DEF DriveInput
<1> QED
  BY <1>3, <1>4, <1>5 DEF SettleEffect, FrameStep

\* SinkOutput is a step of a pass: widths, work and the change flag are kept.
LEMMA SinkOutputSettles == IInv /\ SinkOutput => SettleEffect
<1> SUFFICES ASSUME IInv, SinkOutput PROVE SettleEffect
  OBVIOUS
<1>1. "sink" \in SettleOps /\ "sink leaf" \in SettleOps /\ Doing("sink")
  BY DEF SettleOps, SinkOutput
<1> DEFINE c == Head1.inst
           s == Design[c].sinks[Head1.at]
           v == Unsigned(ReadBinding(Binding(c, s.port), frame))
<1>2. c \in Instance /\ Head1.at \in 1..Len(Design[c].sinks)
  BY <1>1, DoingInSettle DEF IsItem, Head1
<1>3. IsSequence(s.target.leaves) /\ Parent(c) \in Instance
  BY <1>2, DesignAssumption DEF Parent
<1>4. todo' = LeafItems("sink leaf", Parent(c), s.target, v) \o Tail(todo)
  BY DEF SinkOutput, Push
<1>5. IsStack(LeafItems("sink leaf", Parent(c), s.target, v), SettleOps)
  BY <1>1, <1>3, LeafItemsStack
<1>6. IsStack(todo', SettleOps)
  BY <1>1, <1>4, <1>5, DoingInSettle, PushStack
<1>7. QuietPush("sink")
  BY <1>1, <1>6 DEF SinkOutput, QuietPush, settling
<1> QED
  BY <1>1, <1>7, QuietPushSettles

\* SinkLeaf is a step of a pass: widths, work and the change flag are kept.
LEMMA SinkLeafSettles == IInv /\ SinkLeaf => SettleEffect
<1> SUFFICES ASSUME IInv, SinkLeaf PROVE SettleEffect
  OBVIOUS
<1>1. "sink leaf" \in SettleOps /\ Doing("sink leaf") /\ todo' = Tail(todo)
  BY DEF SettleOps, SinkLeaf, Pop
<1> DEFINE i == Head1.inst
           leaf == Head1.leaf
           b == Binding(i, leaf.name)
           v == Merged(leaf, ReadBinding(b, frame), Head1.bits)
<1>2. /\ InSettle /\ IsFrame(frame) /\ IsMap(frame) /\ changed \in BOOLEAN
      /\ DOMAIN drivers = Object /\ IsStack(todo', SettleOps)
  BY <1>1, DoingInSettle
<1>3. FrameStep /\ DOMAIN drivers' = Object
  <2>1. CASE NetSignal(i, leaf.name)
    BY <1>2, <2>1, KeepFrameSteps, DriversKeepDomain DEF SinkLeaf
  <2>2. CASE ~NetSignal(i, leaf.name)
    <3>1. WriteFrame(b, v)
      BY <2>2 DEF SinkLeaf
    <3>2. ReplaceDriver(b.obj, Stored(b, v)) \/ UNCHANGED drivers
      BY <2>2 DEF SinkLeaf
    <3> QED
      BY <1>2, <3>1, <3>2, WriteFrameSteps, DriversKeepDomain
  <2> QED
    BY <2>1, <2>2
<1>4. UNCHANGED <<session, call, before, phase, passes, passStart>>
  BY DEF SinkLeaf
<1> QED
  BY <1>2, <1>3, <1>4 DEF SettleEffect, FrameStep

\* Every action of a pass keeps the invariant.
LEMMA SettleActionPreserves == IInv /\ SettleAction => IInv'
  BY ApplyInputSettles, EnterModuleSettles, EnterChildSettles,
     ContinuousAssignSettles, AssignLeafSettles,
     CombBlockSettles, CombControlSettles, CombAssignSettles, CombLeafSettles,
     CommitNameSettles, RefreshNameSettles, EndCommitSettles,
     DriveInputSettles, SinkOutputSettles, SinkLeafSettles,
     SettleEffectPreserves DEF SettleAction

-----------------------------------------------------------------------------
(* The actions of step_module. *)

\* An item of a step is only worked on in a step.
LEMMA DoingInStep ==
  ASSUME IInv, NEW op \in StepOps, Doing(op)
  PROVE  /\ phase = "step" /\ todo # <<>> /\ Head(todo).op = op /\ IsItem(Head(todo))
         /\ IsStack(todo, StepOps) /\ IsLinked(todo)
         /\ IsFrame(next) /\ IsMap(next)
         /\ DOMAIN memories = Instance /\ \A i \in Instance : IsMemoryTable(memories[i], i)
         /\ DOMAIN clocks = Instance
         /\ \A i \in Instance : clocks[i] \in [Design[i].clocks -> BOOLEAN]
         /\ op \in BodyOps \cup {"close"} => OwnTables(Head(todo).inst)
<1>1. todo # <<>> /\ Head(todo).op = op
  BY DEF Doing, Head1
<1>2. phase \in Phases /\ phase # "idle"
  BY <1>1 DEF IInv, TypeOK
<1>3. ~InSettle
  <2> SUFFICES ASSUME InSettle PROVE FALSE
    OBVIOUS
  <2>1. IsStack(todo, SettleOps)
    BY DEF IInv, SettleInv
  <2> QED
    BY <1>1, <2>1, PopStack, StepOpsOnly
<1>4. phase = "step"
  BY <1>2, <1>3 DEF InSettle, Phases
<1>5. /\ IsStack(todo, StepOps) /\ IsLinked(todo) /\ IsMap(next)
      /\ InBody => OwnTables(Head(todo).inst)
  BY <1>4 DEF IInv, StepInv
<1>6. IsItem(Head(todo))
  BY <1>1, <1>5, PopStack
<1>7. op \in BodyOps \cup {"close"} => InBody
  BY <1>1 DEF InBody
<1>8. /\ IsFrame(next)
      /\ DOMAIN memories = Instance /\ \A i \in Instance : IsMemoryTable(memories[i], i)
      /\ DOMAIN clocks = Instance
      /\ \A i \in Instance : clocks[i] \in [Design[i].clocks -> BOOLEAN]
  BY <1>4 DEF IInv, TypeOK
<1> QED
  BY <1>1, <1>4, <1>5, <1>6, <1>7, <1>8

\* After a pop the instance in work stays the same, or the next one begins.
LEMMA PopInStep ==
  ASSUME IInv, NEW op \in StepOps, Doing(op), todo' = Tail(todo)
  PROVE  /\ IsStack(todo', StepOps) /\ IsLinked(todo')
         /\ InBody' => op \in BodyOps \cup {"open"} /\ Head(todo').inst = Head(todo).inst
<1>1. /\ todo # <<>> /\ Head(todo).op = op
      /\ IsStack(todo, StepOps) /\ IsLinked(todo)
  BY DoingInStep
<1>2. IsStack(todo', StepOps)
  BY <1>1, PopStack
<1>3. IsLinked(todo') /\ (todo' # <<>> => Follows(Head(todo), todo'[1]))
  BY <1>1, PopLinked
<1>4. ASSUME InBody' PROVE op \in BodyOps \cup {"open"} /\ Head(todo').inst = Head(todo).inst
  <2>1. todo' # <<>> /\ Head(todo').op \in BodyOps \cup {"close"}
    BY <1>4 DEF InBody
  <2>2. Head(todo') = todo'[1]
    BY <1>2, <2>1, PopStack
  <2>3. Follows(Head(todo), Head(todo'))
    BY <1>3, <2>1, <2>2
  <2> QED
    BY <1>1, <2>1, <2>3 DEF Follows, BodyOps
<1> QED
  BY <1>2, <1>3, <1>4

\* So it does when more work of the same instance is pushed.
LEMMA PushInStep ==
  ASSUME IInv, NEW op \in BodyOps, Doing(op),
         NEW t, IsStack(t, StepOps), IsBodyOf(t, Head(todo).inst), todo' = t \o Tail(todo)
  PROVE  /\ IsStack(todo', StepOps) /\ IsLinked(todo')
         /\ InBody' => Head(todo').inst = Head(todo).inst
<1>0. op \in StepOps
  BY DEF StepOps
<1>1. /\ todo # <<>> /\ Head(todo).op = op
      /\ IsStack(todo, StepOps) /\ IsLinked(todo)
  BY <1>0, DoingInStep
<1> DEFINE r == Tail(todo)
<1>2. IsStack(r, StepOps) /\ IsLinked(r) /\ (r # <<>> => Follows(Head(todo), r[1]))
  BY <1>1, PopStack, PopLinked
<1>3. IsStack(todo', StepOps)
  BY <1>2, JoinStacks
<1>4. IsSequence(t) /\ IsSequence(r) /\ Len(t) \in Nat /\ Len(r) \in Nat
  BY <1>2, SequenceLength DEF IsStack
<1>5. Len(r) > 0 => Follows(Head(todo), r[1])
  <2>1. Len(r) > 0 => r # <<>>
    BY <1>4, NotEmpty
  <2> QED
    BY <1>2, <2>1
<1>6. Len(r) > 0 => r[1].op \in BodyOps \cup {"close"} /\ r[1].inst = Head(todo).inst
  BY <1>1, <1>5 DEF Follows
<1>7. Len(t) > 0 => t[Len(t)].op \in BodyOps /\ t[Len(t)].inst = Head(todo).inst
  BY <1>4 DEF IsBodyOf
<1>8. Len(t) > 0 /\ Len(r) > 0 => Follows(t[Len(t)], r[1])
  BY <1>6, <1>7 DEF Follows
<1>9. IsLinked(t)
  BY <1>4, BodyIsLinked
<1>10. IsLinked(todo')
  BY <1>2, <1>4, <1>8, <1>9, JoinLinked
<1>11. ASSUME InBody' PROVE Head(todo').inst = Head(todo).inst
  <2>1. todo' # <<>>
    BY <1>11 DEF InBody
  <2>2. Head(todo') = todo'[1] /\ Len(todo') > 0
    BY <1>3, <2>1, PopStack
  <2>3. /\ Len(todo') = Len(t) + Len(r)
        /\ \A k \in 1..(Len(t) + Len(r)) :
             todo'[k] = IF k <= Len(t) THEN t[k] ELSE r[k - Len(t)]
    BY <1>4, JoinSequences
  <2>4. CASE Len(t) > 0
    <3>1. todo'[1] = t[1]
      BY <1>4, <2>3, <2>4
    <3> QED
      BY <1>4, <2>2, <2>4, <3>1 DEF IsBodyOf
  <2>5. CASE Len(t) = 0
    <3>1. Len(r) > 0 /\ todo'[1] = r[1]
      BY <1>4, <2>2, <2>3, <2>5
    <3> QED
      BY <1>6, <2>2, <3>1
  <2>6. Len(t) > 0 \/ Len(t) = 0
    BY <1>4
  <2> QED
    BY <2>4, <2>5, <2>6
<1> QED
  BY <1>3, <1>10, <1>11

\* Steps that leave the objects, memories and clocks of the session alone.
InnerStep ==
  /\ UNCHANGED <<session, call, before, phase, changed, passes, preFrame, next>>
  /\ IsStack(todo', StepOps) /\ IsLinked(todo')
  /\ InBody' => OwnTables(Head(todo).inst)'

\* An action that only changes the locals of an instance is a step of step_module.
LEMMA InnerStepSteps == ASSUME NEW op \in StepOps, IInv, Doing(op), InnerStep PROVE StepEffect
<1>1. /\ phase = "step" /\ IsFrame(next) /\ IsMap(next)
      /\ DOMAIN memories = Instance /\ \A i \in Instance : IsMemoryTable(memories[i], i)
      /\ DOMAIN clocks = Instance
      /\ \A i \in Instance : clocks[i] \in [Design[i].clocks -> BOOLEAN]
  BY DoingInStep
<1>2. memories' = memories /\ clocks' = clocks /\ persisted' = persisted /\ next' = next
  BY DEF InnerStep, session
<1> QED
  BY <1>1, <1>2 DEF InnerStep, StepEffect

\* EnterStep is a step of step_module: next objects, tables and work are kept.
LEMMA EnterStepSteps == IInv /\ EnterStep => StepEffect
<1> SUFFICES ASSUME IInv, EnterStep PROVE StepEffect
  OBVIOUS
<1>1. "step" \in StepOps /\ Doing("step")
  BY DEF StepOps, EnterStep
<1> DEFINE i == Head1.inst
           t == StepWork(i)
           r == Tail(todo)
<1>2. i \in Instance /\ todo # <<>> /\ Head(todo).op = "step"
  BY <1>1, DoingInStep DEF IsItem, Head1
<1>3. IsStack(todo, StepOps) /\ IsLinked(todo)
  BY <1>1, DoingInStep
<1>4. /\ IsStack(t, StepOps) /\ IsLinked(t) /\ Len(t) > 0
      /\ t[1].op \in {"step", "open"} /\ t[Len(t)].op = "close"
  BY <1>2, StepWorkStack
<1>5. todo' = t \o r
  BY DEF EnterStep, Push
<1> HIDE DEF t
<1>6. IsStack(r, StepOps) /\ (r # <<>> => Follows(Head(todo), r[1]))
  BY <1>2, <1>3, PopStack, PopLinked
<1>7. r # <<>> => Follows(t[Len(t)], r[1])
  BY <1>2, <1>4, <1>6 DEF Follows, BodyOps
<1>8. IsStack(todo', StepOps) /\ IsLinked(todo') /\ todo'[1] = t[1]
  BY <1>2, <1>3, <1>4, <1>5, <1>7, PushStack, PushLinked
<1>9. ~InBody'
  <2> SUFFICES ASSUME InBody' PROVE FALSE
    OBVIOUS
  <2>1. Head(todo') = t[1]
    BY <1>8, PopStack DEF InBody
  <2> QED
    BY <1>4, <2>1 DEF InBody, BodyOps
<1>10. InnerStep
  BY <1>8, <1>9 DEF EnterStep, InnerStep, settling, stepping
<1> QED
  BY <1>1, <1>10, InnerStepSteps

\* OpenInstance is a step of step_module: next objects, tables and work are kept.
LEMMA OpenInstanceSteps == IInv /\ OpenInstance => StepEffect
<1> SUFFICES ASSUME IInv, OpenInstance PROVE StepEffect
  OBVIOUS
<1>1. "open" \in StepOps /\ Doing("open") /\ todo' = Tail(todo)
  BY DEF StepOps, OpenInstance, Pop
<1> DEFINE i == Head1.inst
<1>2. i \in Instance
  BY <1>1, DoingInStep DEF IsItem, Head1
<1>3. sampled' \in [Design[i].clocks -> BOOLEAN] /\ IsMemoryTable(stagedMem', i)
  BY <1>1, <1>2, DoingInStep DEF OpenInstance
<1>4. /\ IsStack(todo', StepOps) /\ IsLinked(todo')
      /\ InBody' => Head(todo').inst = i
  BY <1>1, PopInStep DEF Head1
<1>5. InnerStep
  BY <1>3, <1>4 DEF OpenInstance, InnerStep, OwnTables
<1> QED
  BY <1>1, <1>5, InnerStepSteps

\* ClockedBlock is a step of step_module: next objects, tables and work are kept.
LEMMA ClockedBlockSteps == IInv /\ ClockedBlock => StepEffect
<1> SUFFICES ASSUME IInv, ClockedBlock PROVE StepEffect
  OBVIOUS
<1>1. "block" \in StepOps /\ "block" \in BodyOps /\ "seq" \in StepOps /\ "seq" \in BodyOps
  BY DEF StepOps, BodyOps
<1>2. Doing("block")
  BY DEF ClockedBlock
<1> DEFINE i == Head1.inst
           b == Design[i].blocks[Head1.at]
           w == StmtItem("seq", i, b.body)
<1>3. i \in Instance /\ b.body \in Label
  BY <1>1, <1>2, DoingInStep, DesignAssumption DEF IsItem, Head1
<1>4. OwnTables(i)
  BY <1>1, <1>2, DoingInStep DEF Head1
<1>5. sampled' \in [Design[i].clocks -> BOOLEAN]
  <2>1. Sampled(i, b) \in [Design[i].clocks -> BOOLEAN]
    BY <1>4 DEF OwnTables, Sampled, Level, Truthy
  <2>2. sampled' = sampled \/ sampled' = Sampled(i, b)
    BY DEF ClockedBlock
  <2> QED
    BY <1>4, <2>1, <2>2 DEF OwnTables
<1>6. IsMemoryTable(stagedMem', i)
  BY <1>4 DEF ClockedBlock, OwnTables
<1>7. todo' = Tail(todo) \/ todo' = <<w>> \o Tail(todo)
  BY DEF ClockedBlock, Push, Pop
<1>8. IsStack(<<w>>, StepOps) /\ IsBodyOf(<<w>>, i)
  <2>1. w.op \in StepOps /\ w.op \in BodyOps /\ w.inst = i /\ IsItem(w)
    BY <1>1, <1>3 DEF StmtItem, IsItem
  <2> HIDE DEF w
  <2>2. IsStack(<<w>>, StepOps)
    BY <2>1, SingletonIsStack
  <2>3. \A k \in 1..Len(<<w>>) : <<w>>[k] = w
    OBVIOUS
  <2> QED
    BY <2>1, <2>2, <2>3 DEF IsBodyOf
<1>9. /\ IsStack(todo', StepOps) /\ IsLinked(todo')
      /\ InBody' => Head(todo').inst = i
  <2>1. CASE todo' = Tail(todo)
    BY <1>1, <1>2, <2>1, PopInStep DEF Head1
  <2>2. CASE todo' = <<w>> \o Tail(todo)
    <3> HIDE DEF w
    <3> QED
      BY <1>1, <1>2, <1>8, <2>2, PushInStep DEF Head1
  <2> QED
    BY <1>7, <2>1, <2>2
<1>10. InnerStep
  BY <1>5, <1>6, <1>9 DEF ClockedBlock, InnerStep, OwnTables, settling
<1> QED
  BY <1>1, <1>2, <1>10, InnerStepSteps

\* Statements of a clocked block, pushed with their instance.
LEMMA SeqPushSteps ==
  ASSUME IInv, Doing("seq"), NEW t, IsStack(t, StepOps), IsBodyOf(t, Head(todo).inst),
         todo' = t \o Tail(todo),
         UNCHANGED <<session, call, before, phase, settling, stepping, result>>
  PROVE  StepEffect
<1>1. "seq" \in StepOps /\ "seq" \in BodyOps
  BY DEF StepOps, BodyOps
<1> DEFINE i == Head(todo).inst
<1>2. OwnTables(i)
  BY <1>1, DoingInStep
<1>3. /\ IsStack(todo', StepOps) /\ IsLinked(todo')
      /\ InBody' => Head(todo').inst = i
  BY <1>1, PushInStep
<1>4. sampled' = sampled /\ stagedMem' = stagedMem
  BY DEF stepping
<1>5. InnerStep
  BY <1>2, <1>3, <1>4 DEF InnerStep, OwnTables, settling, stepping
<1> QED
  BY <1>1, <1>5, InnerStepSteps

\* A control statement of a clocked block runs one of its branches.
LEMMA SeqControlChooses ==
  ASSUME IInv, SeqControl
  PROVE  /\ Head1.inst \in Instance /\ Head1.stmt \in Label /\ Code[Head1.stmt].kind # "assign"
         /\ \E body \in Branches(Code[Head1.stmt]) :
              /\ IsBody(body)
              /\ todo' = [k \in 1..Len(body) |-> StmtItem("seq", Head1.inst, body[k])]
                         \o Tail(todo)
<1>1. "seq" \in StepOps /\ "seq" \in BodyOps /\ Doing("seq")
  BY DEF StepOps, BodyOps, SeqControl
<1> DEFINE i == Head1.inst
           s == Code[Head1.stmt]
           V(e) == SeqValue(i, e)
           body == Chosen(s, V)
<1>2. i \in Instance /\ Head1.stmt \in Label
  BY <1>1, DoingInStep DEF IsItem, Head1
<1>3. s.kind # "assign"
  BY DEF SeqControl
<1>4. body \in Branches(s)
  <2>1. CASE s.kind = "empty"
    BY <2>1 DEF Chosen, Branches
  <2>2. CASE s.kind = "block"
    BY <2>2 DEF Chosen, Branches
  <2>3. CASE s.kind = "if"
    BY <2>3 DEF Chosen, Branches
  <2>4. CASE s.kind = "case"
    <3> DEFINE hits == Arm(s, V(s.expr), V)
    <3>1. body = <<IF hits = {} THEN s.default ELSE s.arms[Min(hits)].body>>
      BY <2>4 DEF Chosen
    <3>2. hits \subseteq 1..Len(s.arms)
      BY DEF Arm
    <3> HIDE DEF hits, body
    <3>3. CASE hits = {}
      BY <2>4, <3>1, <3>3 DEF Branches
    <3>4. CASE hits # {}
      <4>1. Len(s.arms) \in Nat
        BY <1>2, <2>4, CodeAssumption, SequenceLength
      <4>2. hits \in SUBSET Nat
        BY <3>2, <4>1
      <4>3. Min(hits) \in 1..Len(s.arms)
        BY <3>2, <3>4, <4>2, MinInSet
      <4> QED
        BY <2>4, <3>1, <3>4, <4>3 DEF Branches
    <3> QED
      BY <3>3, <3>4
  <2> QED
    BY <1>2, <1>3, <2>1, <2>2, <2>3, <2>4, CodeAssumption
<1>5. IsBody(body)
  <2> HIDE DEF body
  <2> QED
    BY <1>2, <1>3, <1>4, BranchIsBody
<1>6. todo' = [k \in 1..Len(body) |-> StmtItem("seq", i, body[k])] \o Tail(todo)
  BY DEF SeqControl, Push
<1> HIDE DEF body
<1> QED
  BY <1>2, <1>3, <1>4, <1>5, <1>6

\* SeqControl is a step of step_module: next objects, tables and work are kept.
LEMMA SeqControlSteps == IInv /\ SeqControl => StepEffect
<1> SUFFICES ASSUME IInv, SeqControl PROVE StepEffect
  OBVIOUS
<1>1. "seq" \in StepOps /\ "seq" \in BodyOps /\ Doing("seq")
  BY DEF StepOps, BodyOps, SeqControl
<1> DEFINE i == Head1.inst
<1>2. PICK body \in Branches(Code[Head1.stmt]) :
        /\ IsBody(body)
        /\ todo' = [k \in 1..Len(body) |-> StmtItem("seq", i, body[k])] \o Tail(todo)
  BY SeqControlChooses
<1>3. i \in Instance
  BY SeqControlChooses
<1> DEFINE t == [k \in 1..Len(body) |-> StmtItem("seq", i, body[k])]
<1>4. IsStack(t, StepOps) /\ IsBodyOf(t, i)
  <2>1. IsStack(t, StepOps)
    BY <1>1, <1>2, <1>3, StmtItemsStack
  <2>2. Len(t) = Len(body)
    <3>1. Len(body) \in Nat
      BY <1>2, SequenceLength DEF IsBody
    <3> QED
      BY <3>1, FunctionIsSequence
  <2>3. \A k \in 1..Len(t) : t[k].op = "seq" /\ t[k].inst = i
    BY <2>2 DEF StmtItem
  <2> QED
    BY <1>1, <2>1, <2>3 DEF IsBodyOf
<1>5. UNCHANGED <<session, call, before, phase, settling, stepping, result>>
  BY DEF SeqControl
<1> HIDE DEF t
<1> QED
  BY <1>1, <1>2, <1>4, <1>5, SeqPushSteps DEF Head1, t

\* SeqAssign is a step of step_module: next objects, tables and work are kept.
LEMMA SeqAssignSteps == IInv /\ SeqAssign => StepEffect
<1> SUFFICES ASSUME IInv, SeqAssign PROVE StepEffect
  OBVIOUS
<1>1. /\ "seq" \in StepOps /\ "seq leaf" \in StepOps /\ "seq leaf" \in BodyOps
      /\ Doing("seq")
  BY DEF StepOps, BodyOps, SeqAssign
<1> DEFINE i == Head1.inst
           s == Code[Head1.stmt]
           bits(leaf) == LeafBits(s.target, leaf, SeqValue(i, s.expr))
           word(leaf) == IF leaf.kind = "memory"
                         THEN Address(i, leaf) - Design[i].memories[leaf.name].low
                         ELSE 0
           n == Len(s.target.leaves)
           t == [k \in 1..n |->
                  [op |-> "seq leaf", inst |-> i, leaf |-> s.target.leaves[k],
                   bits |-> bits(s.target.leaves[k]), word |-> word(s.target.leaves[k]),
                   blocking |-> s.blocking]]
<1>2. i \in Instance /\ Head1.stmt \in Label
  BY <1>1, DoingInStep DEF IsItem, Head1
<1>3. n \in Nat
  BY <1>2, CodeAssumption, SequenceLength DEF SeqAssign
<1>4. todo' = t \o Tail(todo)
  BY DEF SeqAssign, Push
<1>5. IsStack(t, StepOps) /\ IsBodyOf(t, i)
  <2> HIDE DEF n
  <2>1. \A k \in 1..n : t[k].op = "seq leaf" /\ t[k].inst = i
    OBVIOUS
  <2>2. \A k \in 1..n : t[k].op \in StepOps /\ IsItem(t[k])
    <3> HIDE DEF t
    <3> QED
      BY <1>1, <1>2, <2>1 DEF IsItem
  <2>3. Len(t) = n
    BY <1>3, FunctionIsSequence
  <2>4. IsStack(t, StepOps)
    BY <1>3, <2>2, FunctionIsStack
  <2> HIDE DEF t
  <2> QED
    BY <1>1, <2>1, <2>3, <2>4 DEF IsBodyOf
<1>6. UNCHANGED <<session, call, before, phase, settling, stepping, result>>
  BY DEF SeqAssign
<1> HIDE DEF t
<1> QED
  BY <1>1, <1>4, <1>5, <1>6, SeqPushSteps DEF Head1

\* A write of one word keeps the shape of a memory table.
LEMMA WithWordKeepsTable ==
  ASSUME NEW i, NEW mem, IsMemoryTable(mem, i), NEW w, w.inst = i
  PROVE  IsMemoryTable(WithWord(mem, w), i)
<1>1. CASE w.leaf.kind # "memory"
  BY <1>1 DEF WithWord
<1>2. CASE w.leaf.kind = "memory"
  <2> DEFINE m == w.leaf.name
             width == Design[i].memories[m].width
             new == [mem EXCEPT ![m][w.word] = Coerce(w.bits, width)]
  <2>1. WithWord(mem, w) = new
    BY <1>2 DEF WithWord
  <2>2. DOMAIN new = DOMAIN mem
    OBVIOUS
  <2>3. \A n \in DOMAIN mem : n # m => new[n] = mem[n]
    OBVIOUS
  <2>4. m \in DOMAIN mem => new[m] = [mem[m] EXCEPT ![w.word] = Coerce(w.bits, width)]
    OBVIOUS
  <2>5. DOMAIN Coerce(w.bits, width) = 1..width
    BY DEF Coerce
  <2> HIDE DEF new
  <2>6. ASSUME m \in DOMAIN mem
        PROVE  /\ DOMAIN new[m] = DOMAIN mem[m]
               /\ \A a \in DOMAIN mem[m] : DOMAIN new[m][a] = 1..width
    BY <2>4, <2>5, <2>6 DEF IsMemoryTable
  <2> QED
    BY <2>1, <2>2, <2>3, <2>6 DEF IsMemoryTable
<1> QED
  BY <1>1, <1>2

\* SeqLeaf is a step of step_module: next objects, tables and work are kept.
LEMMA SeqLeafSteps == IInv /\ SeqLeaf => StepEffect
<1> SUFFICES ASSUME IInv, SeqLeaf PROVE StepEffect
  OBVIOUS
<1>1. "seq leaf" \in StepOps /\ Doing("seq leaf") /\ todo' = Tail(todo)
  BY DEF StepOps, BodyOps, SeqLeaf, Pop
<1> DEFINE i == Head1.inst
<1>2. OwnTables(i)
  BY <1>1, DoingInStep DEF BodyOps, Head1
<1>3. sampled' = sampled /\ stagedMem' = WithWord(stagedMem, Head1)
  BY DEF SeqLeaf
<1>4. IsMemoryTable(stagedMem', i)
  BY <1>2, <1>3, WithWordKeepsTable DEF OwnTables
<1>5. /\ IsStack(todo', StepOps) /\ IsLinked(todo')
      /\ InBody' => Head(todo').inst = i
  BY <1>1, PopInStep DEF Head1
<1>6. InnerStep
  BY <1>2, <1>3, <1>4, <1>5 DEF SeqLeaf, InnerStep, OwnTables, settling
<1> QED
  BY <1>1, <1>6, InnerStepSteps

\* SyncName is a step of step_module: next objects, tables and work are kept.
LEMMA SyncNameSteps == IInv /\ SyncName => StepEffect
<1> SUFFICES ASSUME IInv, SyncName PROVE StepEffect
  OBVIOUS
<1>1. "sync" \in StepOps /\ Doing("sync") /\ todo' = Tail(todo)
  BY DEF StepOps, BodyOps, SyncName, Pop
<1> DEFINE i == Head1.inst
           d == Design[i].decls[Head1.at]
           b == Binding(i, d.name)
           v == Stored(b, staged[d.name])
<1>2. OwnTables(i)
  BY <1>1, DoingInStep DEF BodyOps, Head1
<1>3. next' = next \/ next' = [next EXCEPT ![b.obj] = v]
  BY DEF SyncName
<1>4. DOMAIN v = 1..Layouts[b.obj].width
  BY DEF Stored, Coerce
<1>5. IsFrame(next) /\ IsMap(next)
  BY <1>1, DoingInStep
<1>6. IsFrame(next') /\ IsMap(next')
  <2>1. CASE next' = next
    BY <1>5, <2>1
  <2>2. CASE next' = [next EXCEPT ![b.obj] = v]
    <3>1. next' = [o \in Object |-> IF o = b.obj THEN v ELSE next[o]]
      BY <1>5, <2>2 DEF IsFrame
    <3> HIDE DEF v
    <3>2. IsFrame(next')
      BY <1>4, <1>5, <3>1 DEF IsFrame
    <3>3. IsMap(next')
      BY <3>1 DEF IsMap
    <3> QED
      BY <3>2, <3>3
  <2> QED
    BY <1>3, <2>1, <2>2
<1>7. /\ IsStack(todo', StepOps) /\ IsLinked(todo')
      /\ InBody' => Head(todo').inst = i
  BY <1>1, PopInStep DEF Head1
<1>8. InBody' => OwnTables(Head(todo).inst)'
  BY <1>2, <1>7 DEF SyncName, OwnTables
<1>9. /\ phase = "step"
      /\ DOMAIN memories = Instance /\ \A j \in Instance : IsMemoryTable(memories[j], j)
      /\ DOMAIN clocks = Instance
      /\ \A j \in Instance : clocks[j] \in [Design[j].clocks -> BOOLEAN]
  BY <1>1, DoingInStep
<1>10. /\ UNCHANGED <<persisted, call, before, phase, changed, passes, preFrame>>
       /\ memories' = memories /\ clocks' = clocks
  BY DEF SyncName, session
<1> QED
  BY <1>6, <1>7, <1>8, <1>9, <1>10 DEF StepEffect

\* CloseInstance is a step of step_module: next objects, tables and work are kept.
LEMMA CloseInstanceSteps == IInv /\ CloseInstance => StepEffect
<1> SUFFICES ASSUME IInv, CloseInstance PROVE StepEffect
  OBVIOUS
<1>1. "close" \in StepOps /\ "close" \notin BodyOps \cup {"open"}
      /\ Doing("close") /\ todo' = Tail(todo)
  BY DEF StepOps, BodyOps, CloseInstance, Pop
<1> DEFINE i == Head1.inst
<1>2. OwnTables(i)
  BY <1>1, DoingInStep DEF Head1
<1>3. /\ phase = "step" /\ IsFrame(next) /\ IsMap(next)
      /\ DOMAIN memories = Instance /\ \A j \in Instance : IsMemoryTable(memories[j], j)
      /\ DOMAIN clocks = Instance
      /\ \A j \in Instance : clocks[j] \in [Design[j].clocks -> BOOLEAN]
  BY <1>1, DoingInStep
<1>4. /\ memories' = [memories EXCEPT ![i] = stagedMem]
      /\ clocks' = [clocks EXCEPT ![i] = sampled]
  BY DEF CloseInstance
<1>5. DOMAIN memories' = Instance /\ \A j \in Instance : IsMemoryTable(memories'[j], j)
  <2>1. \A j \in Instance : memories'[j] = IF j = i THEN stagedMem ELSE memories[j]
    BY <1>3, <1>4
  <2> QED
    BY <1>2, <1>3, <1>4, <2>1 DEF OwnTables
<1>6. DOMAIN clocks' = Instance
      /\ \A j \in Instance : clocks'[j] \in [Design[j].clocks -> BOOLEAN]
  <2>1. \A j \in Instance : clocks'[j] = IF j = i THEN sampled ELSE clocks[j]
    BY <1>3, <1>4
  <2> QED
    BY <1>2, <1>3, <1>4, <2>1 DEF OwnTables
<1>7. IsStack(todo', StepOps) /\ IsLinked(todo') /\ ~InBody'
  BY <1>1, PopInStep
<1>8. UNCHANGED <<persisted, call, before, phase, changed, passes, preFrame, next>>
  BY DEF CloseInstance, settling
<1> QED
  BY <1>3, <1>5, <1>6, <1>7, <1>8 DEF StepEffect

\* Every action of step_module keeps the invariant.
LEMMA StepActionPreserves == IInv /\ StepAction => IInv'
  BY EnterStepSteps, OpenInstanceSteps, ClockedBlockSteps,
     SeqControlSteps, SeqAssignSteps, SeqLeafSteps, SyncNameSteps, CloseInstanceSteps,
     StepEffectPreserves DEF StepAction

-----------------------------------------------------------------------------
(* Calls, and the turns of a call. *)

\* The session as TypeOK describes it between calls.
SessionOK ==
  /\ IsFrame(persisted) /\ IsMap(persisted)
  /\ DOMAIN memories = Instance /\ \A i \in Instance : IsMemoryTable(memories[i], i)
  /\ DOMAIN clocks = Instance
  /\ \A i \in Instance : clocks[i] \in [Design[i].clocks -> BOOLEAN]

\* The session part of the invariant.
LEMMA IInvSessionOK == IInv => SessionOK
  BY DEF IInv, TypeOK, SessionOK

\* Between calls the session part is all there is to keep.
LEMMA IdlePreserves ==
  ASSUME SessionOK', phase' = "idle", call' = Idle, todo' = <<>>,
         changed' \in BOOLEAN, passes' \in 0..MaxPasses
  PROVE  IInv'
<1>1. TypeOK'
  BY DEF SessionOK, TypeOK, Phases, InSettle
<1> QED
  BY <1>1 DEF SessionOK, IInv, SettleInv, StepInv, TrackedChange, ObjectsWaitForCommit, InSettle

\* A call that returns without touching the session keeps the invariant.
LEMMA ReturnPreserves ==
  ASSUME IInv, NEW r, Return(r), UNCHANGED session
  PROVE  IInv'
<1>1. SessionOK'
  BY IInvSessionOK DEF SessionOK, session
<1>2. /\ phase' = "idle" /\ call' = Idle /\ todo' = <<>>
      /\ changed' = FALSE /\ passes' = 0
  BY DEF Return
<1>3. 0 \in 0..MaxPasses
  BY MaxPassesInNat
<1>4. changed' \in BOOLEAN /\ passes' \in 0..MaxPasses
  BY <1>2, <1>3
<1> QED
  BY <1>1, <1>2, <1>4, IdlePreserves

\* A pass begins within a call.
LEMMA PassPreserves ==
  ASSUME NEW f, IsFrame(f), IsMap(f), NEW n \in 0..MaxPasses, StartPass(f, n),
         SessionOK', phase' \in {"settle", "resettle"},
         call' # Idle, call'.op \in Ops,
         phase' = "settle" => persisted' = before'.persisted
  PROVE  IInv'
<1>1. /\ IsFrame(frame') /\ IsFrame(passStart') /\ IsMap(frame') /\ frame' = passStart'
      /\ DOMAIN drivers' = Object
      /\ changed' \in BOOLEAN /\ passes' \in 0..MaxPasses
      /\ IsStack(todo', SettleOps)
  BY PassStarts
<1>2. TypeOK'
  BY <1>1 DEF SessionOK, TypeOK, Phases, InSettle
<1>3. SettleInv' /\ StepInv' /\ TrackedChange'
  BY <1>1 DEF SettleInv, StepInv, TrackedChange
<1>4. ObjectsWaitForCommit'
  BY DEF ObjectsWaitForCommit
<1> QED
  BY <1>2, <1>3, <1>4 DEF IInv, SessionOK

\* So does a call that begins,
LEMMA BeginPreserves == ASSUME IInv, NEW r, Begin(r) PROVE IInv'
<1>1. SessionOK /\ persisted' = persisted /\ memories' = memories /\ clocks' = clocks
  BY IInvSessionOK DEF Begin, session
<1>2. SessionOK'
  BY <1>1 DEF SessionOK
<1>3. call' = r /\ r.op \in Ops /\ r # Idle
  BY DEF Begin, Ops, Idle
<1>4. phase' = "settle" /\ before'.persisted = persisted /\ StartPass(persisted, 1)
  BY DEF Begin
<1>5. 1 \in 0..MaxPasses
  BY MaxPassesInNat
<1> QED
  BY <1>1, <1>2, <1>3, <1>4, <1>5, PassPreserves DEF SessionOK

\* one that is refused,
LEMMA RefusePreserves == ASSUME IInv, NEW r, Refuse(r) PROVE IInv'
  BY ReturnPreserves DEF Refuse

\* a memory load, complete or not: every word is coerced to the element's width,
LEMMA LoadPreserves == ASSUME IInv, NEW r, Load(r) PROVE IInv'
<1>1. /\ phase = "idle" /\ phase' = "idle" /\ call' = call /\ todo' = todo
      /\ changed' = changed /\ passes' = passes
      /\ persisted' = persisted /\ clocks' = clocks
  BY DEF Load, settling
<1>2. SessionOK /\ call = Idle /\ todo = <<>> /\ changed \in BOOLEAN /\ passes \in 0..MaxPasses
  BY <1>1, IInvSessionOK DEF IInv, TypeOK
<1>3. DOMAIN memories' = Instance /\ \A i \in Instance : IsMemoryTable(memories'[i], i)
  <2>1. CASE ~Addressable(r)
    BY <1>2, <2>1 DEF Load, SessionOK
  <2>2. CASE Addressable(r)
    <3> DEFINE i == r.inst
               m == r.memory
               decl == Design[i].memories[m]
               words == Written(decl, memories[i][m], WritesOf(r, decl))
    <3>1. memories' = [memories EXCEPT ![i][m] = words]
      BY <2>2 DEF Load
    <3>2. i \in Instance /\ m \in DOMAIN memories[i] /\ IsMemoryTable(memories[i], i)
      BY <1>2, <2>2 DEF Addressable, SessionOK, IsMemoryTable
    <3>3. /\ DOMAIN words = DOMAIN memories[i][m]
          /\ \A a \in DOMAIN words : DOMAIN words[a] = 1..decl.width
      BY <3>2 DEF Written, Coerce, IsMemoryTable
    <3> HIDE DEF words
    <3>4. /\ DOMAIN memories' = Instance
          /\ \A j \in Instance : j # i => memories'[j] = memories[j]
          /\ memories'[i] = [memories[i] EXCEPT ![m] = words]
      BY <1>2, <3>1, <3>2 DEF SessionOK
    <3>5. IsMemoryTable(memories'[i], i)
      BY <3>2, <3>3, <3>4 DEF IsMemoryTable
    <3> QED
      BY <1>2, <3>4, <3>5 DEF SessionOK
  <2> QED
    BY <2>1, <2>2
<1>4. SessionOK'
  BY <1>1, <1>2, <1>3 DEF SessionOK
<1> QED
  BY <1>1, <1>2, <1>4, IdlePreserves

\* and a memory read.
LEMMA ReadWordPreserves == ASSUME IInv, NEW r, ReadWord(r) PROVE IInv'
<1>1. /\ phase = "idle" /\ phase' = "idle" /\ call' = call /\ todo' = todo
      /\ changed' = changed /\ passes' = passes
      /\ persisted' = persisted /\ clocks' = clocks /\ memories' = memories
  BY DEF ReadWord, settling, session
<1>2. SessionOK /\ call = Idle /\ todo = <<>> /\ changed \in BOOLEAN /\ passes \in 0..MaxPasses
  BY <1>1, IInvSessionOK DEF IInv, TypeOK
<1>3. SessionOK'
  BY <1>1, <1>2 DEF SessionOK
<1> QED
  BY <1>1, <1>2, <1>3, IdlePreserves

\* Resolving the nets keeps every width, so the next pass starts from a frame.
LEMMA NextPassPreserves == ASSUME IInv, NextPass PROVE IInv'
<1>1. /\ phase \in {"settle", "resettle"} /\ InSettle /\ passes < MaxPasses
      /\ StartPass(Resolved, passes + 1)
      /\ persisted' = persisted /\ memories' = memories /\ clocks' = clocks
      /\ phase' = phase /\ call' = call /\ before' = before
  BY DEF NextPass, EndOfPass, InSettle, PassesLeft, session
<1>2. IsFrame(frame) /\ passes \in 0..MaxPasses /\ call # Idle /\ call.op \in Ops
  BY <1>1 DEF IInv, TypeOK
<1>3. IsFrame(Resolved) /\ IsMap(Resolved)
  BY <1>2 DEF IsFrame, IsMap, Resolved, ResolveNet
<1>4. SessionOK'
  BY <1>1, IInvSessionOK DEF SessionOK
<1>5. passes + 1 \in 0..MaxPasses
  BY <1>1, <1>2, MaxPassesInNat
<1>6. phase' = "settle" => persisted' = before'.persisted
  BY <1>1 DEF IInv, ObjectsWaitForCommit
<1> HIDE DEF Resolved
<1> QED
  BY <1>1, <1>2, <1>3, <1>4, <1>5, <1>6, PassPreserves

\* A step begins from the settled frame, with nothing committed.
LEMMA BeginStepPreserves == ASSUME IInv, BeginStep PROVE IInv'
<1>1. /\ phase = "settle" /\ phase' = "step" /\ InSettle
      /\ todo' = <<Item("step", Top)>>
      /\ preFrame' = frame /\ next' = persisted
      /\ changed' = FALSE /\ passes' = 0
      /\ persisted' = persisted /\ memories' = memories /\ clocks' = clocks
      /\ call' = call /\ before' = before
  BY DEF BeginStep, InSettle, session
<1>2. SessionOK /\ IsFrame(frame) /\ call # Idle /\ call.op \in Ops
  BY <1>1, IInvSessionOK DEF IInv, TypeOK
<1>3. IsStack(todo', StepOps) /\ IsLinked(todo') /\ ~InBody'
  <2> DEFINE w == Item("step", Top)
  <2>1. w.op = "step" /\ w.op \in StepOps /\ IsItem(w)
    BY DesignAssumption DEF Item, IsItem, StepOps
  <2> HIDE DEF w
  <2>2. IsStack(<<w>>, StepOps)
    BY <2>1, SingletonIsStack
  <2>3. Len(<<w>>) = 1 /\ Head(<<w>>) = w
    OBVIOUS
  <2>4. IsLinked(<<w>>)
    BY <2>3 DEF IsLinked
  <2>5. todo' = <<w>>
    BY <1>1 DEF w
  <2>6. ~InBody'
    BY <2>1, <2>3, <2>5 DEF InBody, BodyOps
  <2> QED
    BY <2>2, <2>4, <2>5, <2>6
<1>4. 0 \in 0..MaxPasses
  BY MaxPassesInNat
<1>5. TypeOK'
  BY <1>1, <1>2, <1>4 DEF SessionOK, TypeOK, Phases, InSettle
<1>6. SettleInv' /\ StepInv' /\ TrackedChange'
  BY <1>1, <1>2, <1>3 DEF SessionOK, SettleInv, StepInv, TrackedChange, InSettle
<1>7. ObjectsWaitForCommit'
  BY <1>1 DEF IInv, ObjectsWaitForCommit
<1> QED
  BY <1>1, <1>2, <1>5, <1>6, <1>7 DEF SessionOK, IInv

\* Its commit makes a frame of the next objects the session's.
LEMMA CommitStepPreserves == ASSUME IInv, CommitStep PROVE IInv'
<1>1. /\ phase = "step" /\ phase' = "resettle" /\ persisted' = next
      /\ StartPass(next, 1)
      /\ memories' = memories /\ clocks' = clocks /\ call' = call
  BY DEF CommitStep
<1>2. SessionOK /\ IsFrame(next) /\ IsMap(next) /\ call # Idle /\ call.op \in Ops
  BY <1>1, IInvSessionOK DEF IInv, TypeOK, StepInv
<1>3. SessionOK'
  BY <1>1, <1>2 DEF SessionOK
<1>4. 1 \in 0..MaxPasses
  BY MaxPassesInNat
<1> QED
  BY <1>1, <1>2, <1>3, <1>4, PassPreserves

\* The invariant speaks of the variables only.
LEMMA StutterPreserves == IInv /\ UNCHANGED vars => IInv'
<1> SUFFICES ASSUME IInv, UNCHANGED vars PROVE IInv'
  OBVIOUS
<1> USE DEF vars, session, settling, stepping
<1>1. TypeOK'
  BY DEF IInv, TypeOK, InSettle
<1>2. SettleInv' /\ StepInv'
  BY DEF IInv, SettleInv, StepInv, InSettle, InBody, OwnTables
<1>3. TrackedChange' /\ ObjectsWaitForCommit'
  BY DEF IInv, TrackedChange, ObjectsWaitForCommit, InSettle
<1> QED
  BY <1>1, <1>2, <1>3 DEF IInv

-----------------------------------------------------------------------------
(* A session and any client of it.                                         *)

\* What is proved of a session does not depend on what it is asked: a request
\* may be anything.
AnyRequest == \E r : Begin(r) \/ Refuse(r) \/ Load(r) \/ ReadWord(r)
AnyNext    == AnyRequest \/ Work
AnySpec    == Init /\ [][AnyNext]_vars

\* The client that makes the requests of Requests is one of them.
LEMMA SpecIsAny == Spec => AnySpec
<1>1. [Next]_vars => [AnyNext]_vars
  BY DEF Next, Request, AnyNext, AnyRequest
<1> QED
  BY <1>1, PTL DEF Spec, AnySpec

\* Every step keeps the invariant.
LEMMA NextPreserves == IInv /\ [AnyNext]_vars => IInv'
<1> SUFFICES ASSUME IInv, [AnyNext]_vars PROVE IInv'
  OBVIOUS
<1>1. CASE AnyRequest
  BY <1>1, BeginPreserves, RefusePreserves, LoadPreserves, ReadWordPreserves DEF AnyRequest
<1>2. CASE SettleAction
  BY <1>2, SettleActionPreserves
<1>3. CASE StepAction
  BY <1>3, StepActionPreserves
<1>4. CASE NextPass
  BY <1>4, NextPassPreserves
<1>5. CASE BeginStep
  BY <1>5, BeginStepPreserves
<1>6. CASE Reply
  BY <1>6, ReturnPreserves DEF Reply
<1>7. CASE CommitStep
  BY <1>7, CommitStepPreserves
<1>8. CASE Fail
  BY <1>8, ReturnPreserves DEF Fail
<1>9. CASE UNCHANGED vars
  BY <1>9, StutterPreserves
<1> QED
  BY <1>1, <1>2, <1>3, <1>4, <1>5, <1>6, <1>7, <1>8, <1>9 DEF AnyNext, Work

-----------------------------------------------------------------------------
(* The theorems. *)

\* The invariant holds in every state of every behaviour.
LEMMA Inductive == AnySpec => []IInv
  BY InitHolds, NextPreserves, PTL DEF AnySpec

\* Whatever is written to them and however a call ends, every object keeps its
\* width and every memory its shape, and a settle stays within its budget of
\* passes (write_binding, MemoryState::write, settle_module).
THEOREM TypeCorrect == Spec => []TypeOK
<1>1. IInv => TypeOK
  BY DEF IInv
<1> QED
  BY <1>1, Inductive, SpecIsAny, PTL

\* The change flag that settle_module_pass threads through every write of a
\* pass is sound: a pass that reports no change has left the frame alone.
THEOREM ChangeIsTracked == Spec => []TrackedChange
<1>1. IInv => TrackedChange
  BY DEF IInv
<1> QED
  BY <1>1, Inductive, SpecIsAny, PTL

\* A settle that ends has reached a fixed point: the pass that ends it started
\* from the frame it ends with, and resolving the nets leaves that frame.
THEOREM SettleEndsAtFixedPoint == Spec => [](Converged => frame = passStart /\ Resolved = frame)
<1>1. TrackedChange => (Converged => frame = passStart /\ Resolved = frame)
  BY DEF TrackedChange, Converged, EndOfPass, Quiet
<1> QED
  BY <1>1, ChangeIsTracked, PTL

\* The objects a step computes are a private copy until it commits: a call that
\* fails earlier leaves them as it found them (next_persisted in step).
THEOREM ObjectsWait == Spec => []ObjectsWaitForCommit
<1>1. IInv => ObjectsWaitForCommit
  BY DEF IInv
<1> QED
  BY <1>1, Inductive, SpecIsAny, PTL

\* And so an action that ends a call before its step commits, with an answer
\* or with an error, leaves every object of the session as the call found it.
THEOREM FailureKeepsObjects ==
  Spec => [][(phase \in {"settle", "step"} /\ call' = Idle)
               => persisted' = before.persisted]_vars
<1> DEFINE P == phase \in {"settle", "step"} /\ call' = Idle => persisted' = before.persisted
<1>1. ASSUME IInv, [AnyNext]_vars PROVE [P]_vars
  <2> SUFFICES ASSUME phase \in {"settle", "step"}, call' = Idle
               PROVE  persisted' = persisted
    BY <1>1 DEF IInv, ObjectsWaitForCommit
  <2>1. call # Idle /\ call' # call
    BY <1>1 DEF IInv, TypeOK
  <2>2. CASE AnyRequest
    BY <2>2 DEF AnyRequest, Begin, Refuse, Load, ReadWord
  <2>3. CASE Reply \/ Fail
    BY <2>3 DEF Reply, Fail, session
  <2>4. CASE NextPass \/ BeginStep \/ CommitStep
    BY <2>1, <2>4 DEF NextPass, BeginStep, CommitStep
  <2>5. CASE SettleAction
    BY <2>1, <2>5 DEF SettleAction, ApplyInput, EnterModule, EnterChild, ContinuousAssign,
         AssignLeaf, CombBlock, CombControl, CombAssign, CombLeaf, CommitName, RefreshName,
         EndCommit, DriveInput, SinkOutput, SinkLeaf
  <2>6. CASE StepAction
    BY <2>1, <2>6 DEF StepAction, EnterStep, OpenInstance, ClockedBlock, SeqControl,
         SeqAssign, SeqLeaf, SyncName, CloseInstance
  <2>7. CASE UNCHANGED vars
    BY <2>1, <2>7 DEF vars
  <2> QED
    BY <1>1, <2>2, <2>3, <2>4, <2>5, <2>6, <2>7 DEF AnyNext, Work
<1> QED
  BY <1>1, Inductive, SpecIsAny, PTL DEF AnySpec

=============================================================================
