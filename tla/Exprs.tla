------------------------------- MODULE Exprs -------------------------------
(***************************************************************************)
(* Expressions built one operator at a time, and what validation, widths   *)
(* and evaluation say of each: three recursions over the same tree         *)
(* (validate.rs, width.rs, expr_eval.rs) that the runtime takes to agree.  *)
(***************************************************************************)
EXTENDS Validator

CONSTANTS
  Scope,    \* the module whose names the expressions use
  Leaves,   \* expressions without operators
  Unaries,  \* unary operators
  Binaries, \* binary operators
  Worlds,   \* the environments an expression is evaluated in
  MaxSize   \* bound: operators of an expression

VARIABLES
  expr, \* the expression built so far
  size  \* its operators

Init == expr \in Leaves /\ size = 0

Grow(x) == size < MaxSize /\ expr' = x /\ size' = size + 1

\* An expression that is complete stays.
Stay == size = MaxSize /\ UNCHANGED <<expr, size>>

Next ==
  \/ Stay
  \/ \E op \in Unaries : Grow(Un(op, expr))
  \/ \E op \in Binaries, x \in Leaves : Grow(Bin(op, expr, x)) \/ Grow(Bin(op, x, expr))
  \/ \E x, y \in Leaves : \/ Grow(Cond(expr, x, y))
                          \/ Grow(Cond(x, expr, y))
                          \/ Grow(Cond(x, y, expr))
  \/ \E x \in Leaves : Grow(ConcatOf(<<expr, x>>))
  \/ Grow(RepeatOf(2, expr))
  \/ \E low \in 0..1, w \in 1..2 : Grow(Part(expr, low, low + w - 1))
  \/ \E m \in DOMAIN Scope.memories : Grow(MemRead(m, expr))

vars == <<expr, size>>
Spec == Init /\ [][Next]_vars

-----------------------------------------------------------------------------
RECURSIVE Inside(_)
Inside(x) == {x} \cup UNION {Inside(Operands(x)[k]) : k \in 1..Len(Operands(x))}

\* A memory is read at an address that is unknown or not one of its own.
StrayRead(x, env) ==
  \E y \in Inside(x) :
    y.e = "memory" /\ IsError(ReadMemory(y.memory, EvalExpr(y.x, env), env))

\* What validation lets pass evaluates, whatever the values: only a memory
\* index is left to the runtime (validate_expr, eval_expr).
ValidatedEvaluates ==
  ValidExpr(expr, Scope) =>
    \A env \in Worlds : IsError(EvalExpr(expr, env)) => StrayRead(expr, env)

\* A shift by an amount wider than what is shifted has the amount's width when
\* it is evaluated, and the other one's everywhere else.
WidensByAmount(x) ==
  x.e = "binary" /\ x.op \in ShiftOps /\ ValidWidth(x.r, Scope) > ValidWidth(x.l, Scope)

\* The width an expression is validated with is the width of its value, and
\* the one a ternary brings its branches to, but for such shifts.
WidthsAgree ==
  ValidExpr(expr, Scope) /\ (\A x \in Inside(expr) : ~WidensByAmount(x)) =>
    \A env \in Worlds :
      LET val == EvalExpr(expr, env)
      IN  /\ ExprWidth(expr, env) = ValidWidth(expr, Scope)
          /\ ~IsError(val) => WidthOf(val) = ValidWidth(expr, Scope)

\* v is u with some of its unknown bits decided.
Decides(v, u) == Len(v) = Len(u) /\ \A k \in 1..Len(u) : u[k] \in {"X", v[k]}

\* The values other are those of values with some unknown bits decided.
Sharper(other, values) == \A n \in DOMAIN values : Decides(other[n], values[n])

\* Where the operand of an operator is signed and unknown, Value::unknown
\* drops its sign, and a later widening fills it with known zeros.
IsSigned(x) == \E y \in Inside(x) : y.e = "unary" /\ y.op = "signed"

\* A bit that is known in spite of unknown inputs is what it would be for any
\* values of them: no X makes a result that the real design cannot have
\* (logic_ternary_merge, values_logical_equal, eval_logical), but for signed
\* operands.
UnknownIsAnything ==
  ValidExpr(expr, Scope) /\ ~IsSigned(expr) =>
    LET outcomes == {[of |-> env.values, bits |-> EvalExpr(expr, env).bits] : env \in Worlds}
    IN  \A result, other \in outcomes :
          Sharper(other.of, result.of) =>
            result.bits = <<>> \/ Decides(other.bits, result.bits)
=============================================================================
