----------------------------- MODULE Validator -----------------------------
(***************************************************************************)
(* What validate.rs asks of one module, and of one instance of a module,   *)
(* before a design may be simulated.                                       *)
(*                                                                         *)
(* A module is a record: params (a sequence of [name, width, default]),    *)
(* decls, memories, assigns and blocks as in Layout, and instances, each   *)
(* [name, module, overrides, connections] with overrides a sequence of     *)
(* [param, expr] and connections one of [port, expr].                      *)
(***************************************************************************)
EXTENDS Expr

LOCAL INSTANCE SequencesExt

CONSTANT Code \* statement label -> statement

Ports(m) == SelectSeq(m.decls, LAMBDA d : d.dir # "none")

DeclsNamed(m, n) == {k \in 1..Len(m.decls) : m.decls[k].name = n}
IsPort(m, n)     == \E k \in DeclsNamed(m, n) : m.decls[k].dir # "none"
DeclIn(m, n)     == m.decls[CHOOSE k \in DeclsNamed(m, n) : TRUE]
ParamsNamed(m, n) == {k \in 1..Len(m.params) : m.params[k].name = n}

\* ModuleSummary::signal_width; a width of zero stands for "not declared",
\* which validation refuses like a width of zero.
SignalWidth(m, n) ==
  IF DeclsNamed(m, n) # {} THEN DeclIn(m, n).width
  ELSE IF ParamsNamed(m, n) # {} THEN m.params[Min(ParamsNamed(m, n))].width
  ELSE 0

NoEnvironment == [values |-> <<>>, words |-> <<>>, low |-> <<>>]

\* validate_constant_memory_index: an index that evaluates without any value,
\* and is known, must be in range.  Any other one is left to the runtime.
IndexAllowed(x, mem) ==
  LET val == EvalExpr(x, NoEnvironment)
  IN  IsError(val) \/ ~IsTwoState(val.bits)
      \/ ToNat(val.bits) \in mem.low..(mem.low + mem.depth - 1)

\* Fault: a part may reach one bit too far.
PartReaches(x, w) == x.high <= w

\* A part select lies within the w bits selected from.
PartAllowed(x, w) == x.high < w

\* validate_expr: the width of an expression, ws being those of its operands,
\* or zero when it is refused.
AllowedWidth(x, ws, m) ==
  IF \E k \in 1..Len(ws) : ws[k] = 0 THEN 0
  ELSE CASE x.e = "id"      -> SignalWidth(m, x.name)
         [] x.e = "literal" -> Len(x.value)
         [] x.e = "concat"  -> FoldLeft(LAMBDA a, b : a + b, 0, ws)
         [] x.e = "repeat"  -> x.count * ws[1]
         [] x.e = "memory"  -> IF x.memory \in DOMAIN m.memories
                                  /\ IndexAllowed(x.x, m.memories[x.memory])
                               THEN m.memories[x.memory].width ELSE 0
         [] x.e = "part"    -> IF PartAllowed(x, ws[1]) THEN x.high - x.low + 1 ELSE 0
         [] x.e = "unary"   -> IF x.op \in {"~", "-", "signed", "unsigned"} THEN ws[1] ELSE 1
         [] x.e = "binary"  -> CASE x.op \in LogicalOps \cup EqualityOps \cup OrderOps -> 1
                                 [] x.op \in ShiftOps -> ws[1]
                                 [] OTHER -> Wider(ws[1], ws[2])
         [] x.e = "cond"    -> Wider(ws[2], ws[3])

RECURSIVE ValidWidth(_, _)
ValidWidth(x, m) ==
  AllowedWidth(x, [k \in 1..Len(Operands(x)) |-> ValidWidth(Operands(x)[k], m)], m)

ValidExpr(x, m) == ValidWidth(x, m) > 0

\* validate_assignment_target, one leaf: its bits exist, and it is no input.
ValidLeaf(leaf, m) ==
  CASE leaf.kind = "memory" ->
         /\ ValidExpr(leaf.index, m)
         /\ leaf.name \in DOMAIN m.memories
         /\ IndexAllowed(leaf.index, m.memories[leaf.name])
    [] OTHER ->
         /\ leaf.low + leaf.width <= SignalWidth(m, leaf.name)
         /\ IsPort(m, leaf.name) => DeclIn(m, leaf.name).dir # "input"

ValidTarget(leaves, m) == leaves # <<>> /\ \A k \in 1..Len(leaves) : ValidLeaf(leaves[k], m)
NoMemory(leaves) == \A k \in 1..Len(leaves) : leaves[k].kind # "memory"

\* validate_stmt: a combinational block neither writes memories nor assigns
\* without blocking.
ValidStatements(m, kind) ==
  LET V[s \in DOMAIN Code] ==
        LET st == Code[s]
        IN  CASE st.kind = "empty" -> TRUE
              [] st.kind = "block" -> \A k \in 1..Len(st.items) : V[st.items[k]]
              [] st.kind = "if"    -> ValidExpr(st.cond, m) /\ V[st.then] /\ V[st.else]
              [] st.kind = "case"  ->
                   /\ ValidExpr(st.expr, m)
                   /\ \A k \in 1..Len(st.arms) :
                        ValidExpr(st.arms[k].pattern, m) /\ V[st.arms[k].body]
                   /\ V[st.default]
              [] st.kind = "assign" ->
                   /\ ValidExpr(st.expr, m)
                   /\ ValidTarget(st.target.leaves, m)
                   /\ kind = "comb" => NoMemory(st.target.leaves) /\ st.blocking
  IN  V

ValidBlock(b, m) ==
  /\ b.kind = "ff" => /\ SignalWidth(m, b.clock) > 0
                      /\ b.reset # "none" => SignalWidth(m, b.reset) > 0
  /\ ValidStatements(m, b.kind)[b.body]

-----------------------------------------------------------------------------
\* validate_unique_declarations and validate_unique_instance_names.
AllNames(m) == [k \in 1..Len(m.decls) |-> m.decls[k].name]
               \o [k \in 1..Len(m.params) |-> m.params[k].name]

Distinct(names) == Cardinality({names[k] : k \in 1..Len(names)}) = Len(names)

UniqueNames(m) ==
  /\ Distinct(AllNames(m))
  /\ {AllNames(m)[k] : k \in 1..Len(AllNames(m))} \cap DOMAIN m.memories = {}
  /\ Distinct([k \in 1..Len(m.instances) |-> m.instances[k].name])

\* validate_runtime_widths
RuntimeWidths(m) ==
  /\ \A k \in 1..Len(m.decls) : m.decls[k].width > 0
  /\ \A k \in 1..Len(m.params) : m.params[k].width > 0
  /\ \A n \in DOMAIN m.memories : m.memories[n].width > 0

\* validate_module, without the shape of the built-in ROM's wrapper.
ValidModule(m) ==
  /\ \A k \in 1..Len(m.decls) : m.decls[k].dir # "ref"
  /\ UniqueNames(m)
  /\ RuntimeWidths(m)
  /\ \A k \in 1..Len(m.params) : ValidExpr(m.params[k].default, m)
  /\ \A k \in 1..Len(m.assigns) :
       /\ ValidExpr(m.assigns[k].expr, m)
       /\ ValidTarget(m.assigns[k].target.leaves, m)
       /\ NoMemory(m.assigns[k].target.leaves)
  /\ \A k \in 1..Len(m.blocks) : ValidBlock(m.blocks[k], m)

-----------------------------------------------------------------------------
\* expr_to_lvalue: the leaves of an expression that names a place in m, none
\* for any other.
RECURSIVE LvalueOf(_, _)
LvalueOf(x, m) ==
  CASE x.e = "id" -> <<Whole(x.name, SignalWidth(m, x.name))>>
    [] x.e = "part" /\ x.x.e = "id" -> <<PartOf(x.x.name, x.low, x.high - x.low + 1)>>
    [] x.e = "memory" /\ x.memory \in DOMAIN m.memories ->
         <<Element(x.memory, m.memories[x.memory].width, x.x)>>
    [] x.e = "concat" ->
         LET parts == [k \in 1..Len(x.parts) |-> LvalueOf(x.parts[k], m)]
         IN  IF <<>> \in {parts[k] : k \in 1..Len(parts)} THEN <<>> ELSE FlattenSeq(parts)
    [] OTHER -> <<>>

\* validate_inout_connection_target
WholeNet(x, m) == x.e = "id" /\ DeclsNamed(m, x.name) # {} /\ DeclIn(m, x.name).storage # "variable"

ValidConnection(c, parent, child) ==
  /\ IsPort(child, c.port)
  /\ ValidExpr(c.expr, parent)
  /\ DeclIn(child, c.port).dir \in {"output", "inout"} =>
       ValidTarget(LvalueOf(c.expr, parent), parent) /\ NoMemory(LvalueOf(c.expr, parent))
  /\ DeclIn(child, c.port).dir = "inout" => WholeNet(c.expr, parent)

\* Fault: an input may be left open.
AllowsOpenInputs(parent, inst, child) ==
  /\ Distinct([k \in 1..Len(inst.overrides) |-> inst.overrides[k].param])
  /\ \A k \in 1..Len(inst.overrides) :
       /\ ParamsNamed(child, inst.overrides[k].param) # {}
       /\ ValidExpr(inst.overrides[k].expr, parent)
  /\ Distinct([k \in 1..Len(inst.connections) |-> inst.connections[k].port])
  /\ \A k \in 1..Len(inst.connections) : ValidConnection(inst.connections[k], parent, child)

\* validate_instance
ValidInstance(parent, inst, child) ==
  /\ Distinct([k \in 1..Len(inst.overrides) |-> inst.overrides[k].param])
  /\ \A k \in 1..Len(inst.overrides) :
       /\ ParamsNamed(child, inst.overrides[k].param) # {}
       /\ ValidExpr(inst.overrides[k].expr, parent)
  /\ Distinct([k \in 1..Len(inst.connections) |-> inst.connections[k].port])
  /\ \A k \in 1..Len(inst.connections) : ValidConnection(inst.connections[k], parent, child)
  /\ \A k \in 1..Len(child.decls) :
       child.decls[k].dir = "input" =>
         \E j \in 1..Len(inst.connections) : inst.connections[j].port = child.decls[k].name
=============================================================================
