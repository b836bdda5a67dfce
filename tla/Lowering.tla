------------------------------ MODULE Lowering ------------------------------
(***************************************************************************)
(* Statements from the source to the HIR (statements.rs, loop_unroll.rs):  *)
(* loops are unrolled, conditions that are constant are decided, selects   *)
(* get their place, all with the defaults of the module's parameters.      *)
(*                                                                         *)
(* A statement of the source is a record like one of Hir whose parts are   *)
(* statements and not labels, or a loop; its expressions may have selects  *)
(* at an expression, and so may its targets, [name, index] with NoIndex    *)
(* for a whole signal.  Memories, case and concatenated targets are left   *)
(* out: none of them evaluates a constant.                                 *)
(***************************************************************************)
EXTENDS Parameters, Hir

CONSTANTS
  LoopWidth,  \* width of a loop variable, 32 in the code
  UnrollLimit \* conditions looked at before a loop is refused, 16384 in the code

\* An index that is not constant; no expression evaluates with it.
NoPlace == Id("")

\* lower_usize_expression: the place a value of an index stands for.
IsPlace(val) == ~IsError(val) /\ IsTwoState(val.bits)

\* The expression with its selects at the places their indexes have in values.
RECURSIVE Placed(_, _)
Placed(x, values) ==
  CASE x.e = "select" ->
         LET val == Baked(Placed(x.index, values), values)
         IN  IF IsPlace(val) THEN Part(x.x, ToNat(val.bits), ToNat(val.bits)) ELSE NoPlace
    [] x.e = "unary"  -> Un(x.op, Placed(x.x, values))
    [] x.e = "binary" -> Bin(x.op, Placed(x.l, values), Placed(x.r, values))
    [] x.e = "cond"   -> Cond(Placed(x.c, values), Placed(x.t, values), Placed(x.f, values))
    [] OTHER          -> x

RECURSIVE AllPlaced(_)
AllPlaced(x) == x # NoPlace /\ \A k \in 1..Len(Operands(x)) : AllPlaced(Operands(x)[k])

\* lower_expression, with the parameters of m at their defaults: an expression
\* that has its places, or none.
LowerExpr(x, m) == {y \in {Placed(x, Defaults(m))} : AllPlaced(y)}

\* The value lowering finds for x, or none (const_eval_param_expr).
Evaluated(x, m) ==
  {val \in {Baked(y, Defaults(m)) : y \in LowerExpr(x, m)} : ~IsError(val)}

\* The parameters of m that the places of x depend on.
RECURSIVE PlaceRefs(_, _)
PlaceRefs(x, m) ==
  IF x.e = "select"
  THEN PlaceRefs(x.index, m) \cup ParamRefs(Placed(x.index, Defaults(m)), m)
  ELSE UNION {PlaceRefs(Operands(x)[k], m) : k \in 1..Len(Operands(x))}

\* What freezes when x is evaluated: what its places depend on, and its value.
Consumed(x, m) == PlaceRefs(x, m) \cup ParamRefs(Placed(x, Defaults(m)), m)

-----------------------------------------------------------------------------
\* module_with_const_binding: the variable as the first parameter.
WithBinding(m, var, bits) ==
  [m EXCEPT !.params = <<[name |-> var, width |-> LoopWidth, default |-> Lit(bits)]>> \o @]

\* normalize_for_loop_value
Normalized(val) == CoerceValue(val, Wider(WidthOf(val), LoopWidth))

\* substitute_expr_ident
RECURSIVE Substitute(_, _, _)
Substitute(x, var, lit) ==
  CASE x.e = "id" /\ x.name = var -> lit
    [] x.e = "part"   -> [x EXCEPT !.x = Substitute(@, var, lit)]
    [] x.e = "unary"  -> [x EXCEPT !.x = Substitute(@, var, lit)]
    [] x.e = "binary" -> Bin(x.op, Substitute(x.l, var, lit), Substitute(x.r, var, lit))
    [] x.e = "cond"   -> Cond(Substitute(x.c, var, lit), Substitute(x.t, var, lit),
                              Substitute(x.f, var, lit))
    [] OTHER -> x

\* substitute_stmt_ident
RECURSIVE SubstituteIn(_, _, _)
SubstituteIn(st, var, lit) ==
  CASE st.kind = "empty" -> st
    [] st.kind = "block" -> Block([k \in 1..Len(st.items) |-> SubstituteIn(st.items[k], var, lit)])
    [] st.kind = "if"    -> If(Substitute(st.cond, var, lit), SubstituteIn(st.then, var, lit),
                               SubstituteIn(st.else, var, lit))
    [] st.kind = "write" -> [st EXCEPT !.expr = Substitute(@, var, lit)]

\* stmt_is_inert
RECURSIVE IsInert(_)
IsInert(st) ==
  CASE st.kind = "empty" -> TRUE
    [] st.kind = "block" -> \A k \in 1..Len(st.items) : IsInert(st.items[k])
    [] st.kind = "if"    -> IsInert(st.then) /\ IsInert(st.else)
    [] st.kind = "write" -> FALSE

-----------------------------------------------------------------------------
(* lower_statement: what is lowered and the parameters that froze, or none     *)
(* where the code returns an error.                                            *)

Lowered(st, frozen) == [stmt |-> st, frozen |-> frozen]

LowerWrite(st, m) ==
  IF st.target.index = NoIndex
  THEN {Lowered([st EXCEPT !.expr = x], PlaceRefs(st.expr, m)) : x \in LowerExpr(st.expr, m)}
  ELSE {Lowered(Write(st.target.name, Lit(val.bits), x),
                PlaceRefs(st.expr, m) \cup Consumed(st.target.index, m)) :
          x \in LowerExpr(st.expr, m),
          val \in {v \in Evaluated(st.target.index, m) : IsPlace(v)}}

RECURSIVE Lower(_, _), LowerItems(_, _), Unroll(_, _, _, _)

\* An iteration and those after it; a body that is empty leaves nothing.
Iterate(st, m, bits, n, inner) ==
  {Lowered((IF body.stmt = Empty THEN <<>>
            ELSE <<SubstituteIn(body.stmt, st.var, Lit(bits))>>) \o rest.stmt,
           body.frozen \cup Consumed(st.step, inner) \cup rest.frozen) :
     body \in Lower(st.body, inner),
     rest \in UNION {Unroll(st, m, Normalized(next), n - 1) : next \in Evaluated(st.step, inner)}}

\* Fault: the condition of a loop freezes nothing.
UnrollFree(st, m, bits, n) ==
  IF n = 0 THEN {}
  ELSE LET inner == WithBinding(m, st.var, bits)
       IN  UNION {IF Truthy(cond.bits) THEN Iterate(st, m, bits, n, inner)
                  ELSE {Lowered(<<>>, {})} : cond \in Evaluated(st.cond, inner)}

\* lower_for_loop_statement from a value of its variable, with n conditions
\* left to look at.
Unroll(st, m, bits, n) ==
  IF n = 0 THEN {}
  ELSE LET inner == WithBinding(m, st.var, bits)
       IN  {Lowered(items.stmt, Consumed(st.cond, inner) \cup items.frozen) :
              items \in UNION {IF Truthy(cond.bits) THEN Iterate(st, m, bits, n, inner)
                               ELSE {Lowered(<<>>, {})} : cond \in Evaluated(st.cond, inner)}}

LowerFor(st, m) ==
  {Lowered(IF items.stmt = <<>> THEN Empty ELSE Block(items.stmt),
           Consumed(st.init, m) \cup items.frozen) :
     items \in UNION {Unroll(st, m, Normalized(init), UnrollLimit) : init \in Evaluated(st.init, m)}}

\* lower_conditional_statement: a condition that lowering can evaluate leaves
\* only its branch, and the other one is not looked at.
Decided(st, m, val) ==
  {Lowered(taken.stmt, Consumed(st.cond, m) \cup taken.frozen) :
     taken \in Lower(IF Truthy(val.bits) THEN st.then ELSE st.else, m)}

Undecided(st, m) ==
  {Lowered(If(x, then.stmt, IF IsInert(else.stmt) THEN Empty ELSE else.stmt),
           PlaceRefs(st.cond, m) \cup then.frozen \cup else.frozen) :
     x \in LowerExpr(st.cond, m), then \in Lower(st.then, m), else \in Lower(st.else, m)}

LowerIf(st, m) ==
  IF Evaluated(st.cond, m) = {} THEN Undecided(st, m)
  ELSE UNION {Decided(st, m, val) : val \in Evaluated(st.cond, m)}

LowerItems(items, m) ==
  IF items = <<>> THEN {Lowered(<<>>, {})}
  ELSE {Lowered(<<first.stmt>> \o others.stmt, first.frozen \cup others.frozen) :
          first \in Lower(Head(items), m), others \in LowerItems(Tail(items), m)}

Lower(st, m) ==
  CASE st.kind = "empty" -> {Lowered(Empty, {})}
    [] st.kind = "write" -> LowerWrite(st, m)
    [] st.kind = "block" -> {Lowered(Block(items.stmt), items.frozen) :
                               items \in LowerItems(st.items, m)}
    [] st.kind = "if"    -> LowerIf(st, m)
    [] st.kind = "for"   -> LowerFor(st, m)
=============================================================================
