-------------------------------- MODULE Hir --------------------------------
(***************************************************************************)
(* The parts of the HIR (hir.rs) the simulator reads, as records: they are *)
(* what a compiled design is made of and what expr_eval.rs and sim/ walk.  *)
(***************************************************************************)
EXTENDS Naturals, Sequences, FiniteSetsExt, TLC

\* Expressions.  The two selects are one: a part from low to high.
Id(n)           == [e |-> "id", name |-> n]
Lit(v)          == [e |-> "literal", value |-> v]
ConcatOf(parts) == [e |-> "concat", parts |-> parts]
RepeatOf(c, x)  == [e |-> "repeat", count |-> c, x |-> x]
MemRead(m, x)   == [e |-> "memory", memory |-> m, x |-> x]
Part(x, lo, hi) == [e |-> "part", x |-> x, low |-> lo, high |-> hi]
Un(op, x)       == [e |-> "unary", op |-> op, x |-> x]
Bin(op, l, r)   == [e |-> "binary", op |-> op, l |-> l, r |-> r]
Cond(c, t, f)   == [e |-> "cond", c |-> c, t |-> t, f |-> f]

\* Ports (direction "input", "output" or "inout") and signals ("none").
Decl(n, dir, storage, width) ==
  [name |-> n, dir |-> dir, storage |-> storage, width |-> width]

\* Assignment targets.  A concatenation lists its leaves from the most
\* significant; a leaf takes its bits above those of the leaves after it.
Whole(n, w)        == [kind |-> "whole", name |-> n, low |-> 0, width |-> w]
PartOf(n, low, w)  == [kind |-> "part", name |-> n, low |-> low, width |-> w]
Element(m, w, idx) == [kind |-> "memory", name |-> m, low |-> 0, width |-> w, index |-> idx]

WidthFrom(leaves, k) == MapThenSumSet(LAMBDA j : leaves[j].width, k..Len(leaves))

Target(leaves) ==
  [width  |-> WidthFrom(leaves, 1),
   leaves |-> [k \in 1..Len(leaves) |-> [from |-> WidthFrom(leaves, k + 1)] @@ leaves[k]]]

\* Statements; the branches of a control statement are labels.
Empty             == [kind |-> "empty"]
Block(items)      == [kind |-> "block", items |-> items]
If(c, then, else) == [kind |-> "if", cond |-> c, then |-> then, else |-> else]
CaseOf(x, arms, default) == [kind |-> "case", expr |-> x, arms |-> arms, default |-> default]
ArmOf(pattern, body) == [pattern |-> pattern, body |-> body]
Blocking(leaves, x) ==
  [kind |-> "assign", blocking |-> TRUE, target |-> Target(leaves), expr |-> x]
Nonblocking(leaves, x) ==
  [kind |-> "assign", blocking |-> FALSE, target |-> Target(leaves), expr |-> x]

\* stmt_writes_signal: the signals a statement may write, memories left out.
\* W[s] is what statement s, one it may run next, writes.
WrittenBy(st, W) ==
  CASE st.kind = "empty"  -> {}
    [] st.kind = "block"  -> UNION {W[st.items[k]] : k \in 1..Len(st.items)}
    [] st.kind = "if"     -> W[st.then] \cup W[st.else]
    [] st.kind = "case"   -> W[st.default] \cup
                             UNION {W[st.arms[k].body] : k \in 1..Len(st.arms)}
    [] st.kind = "assign" ->
         {leaf.name : leaf \in {l \in {st.target.leaves[k] :
                        k \in 1..Len(st.target.leaves)} : l.kind # "memory"}}

\* Continuous assignments and always blocks; reset "none" when there is none.
Assign(leaves, x)      == [target |-> Target(leaves), expr |-> x]
Comb(body)             == [kind |-> "comb", body |-> body]
Ff(clock, reset, body) == [kind |-> "ff", clock |-> clock, reset |-> reset, body |-> body]

\* A memory and the low end of its index range.
Memory(low, depth, width) == [low |-> low, depth |-> depth, width |-> width]

\* A connection of a port: an expression and, when it names an assignable
\* place (expr_to_lvalue), the leaves of that place.
Connection(expr, leaves) == [expr |-> expr, leaves |-> leaves]
Wire(n, w)               == Connection(Id(n), <<Whole(n, w)>>)

-----------------------------------------------------------------------------
(* What the source has and the HIR has not: a select at an expression, and *)
(* a loop.  A target is a signal, or its bit at an index.                  *)

NoIndex == [e |-> "none"]

SelectOf(n, index) == [e |-> "select", x |-> Id(n), index |-> index]

Write(n, index, x) == [kind |-> "write", target |-> [name |-> n, index |-> index], expr |-> x]

For(v, init, cond, step, body) ==
  [kind |-> "for", var |-> v, init |-> init, cond |-> cond, step |-> step, body |-> body]
=============================================================================
