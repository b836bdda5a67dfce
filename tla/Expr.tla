------------------------------- MODULE Expr -------------------------------
(***************************************************************************)
(* eval_expr (expr_eval.rs) and expr_width (width.rs).                     *)
(*                                                                         *)
(* Evaluation reads an environment env = [values, words, low]: the         *)
(* readable values by name, the memories by name and offset, and the low   *)
(* index of each memory.  Any error of the code is Error, a value of width *)
(* zero, which no successful evaluation returns.                           *)
(***************************************************************************)
EXTENDS FourState, Hir

LOCAL INSTANCE SequencesExt

Error == Unsigned(<<>>)
IsError(val) == val.bits = <<>>

FromBit(b)  == Unsigned(<<b>>)
Unknown(w)  == Unsigned(Filled(w, "X"))
Wider(a, b) == IF a >= b THEN a ELSE b

-----------------------------------------------------------------------------
(* Reductions and comparisons. *)

TruthBit(v) == CASE Truthiness(v) = "true"  -> "1"
                 [] Truthiness(v) = "false" -> "0"
                 [] OTHER                   -> "X"

ReduceAnd(v) == IF \E k \in 1..Len(v) : v[k] = "0" THEN "0"
                ELSE IF IsTwoState(v) THEN "1" ELSE "X"

ReduceXor(v) == IF ~IsTwoState(v) THEN "X"
                ELSE IF Cardinality({k \in 1..Len(v) : v[k] = "1"}) % 2 = 1 THEN "1" ELSE "0"

\* values_logical_equal, on operands of one width.
LogicalEqual(a, b) ==
  IF \E k \in 1..Len(a) : {a[k], b[k]} = {"0", "1"} THEN "0"
  ELSE IF IsTwoState(a) /\ IsTwoState(b) THEN "1"
  ELSE "X"

\* compare_values orders signed operands by their two's complement; adding
\* half the range to both keeps the order and the numbers natural.
Rank(v, signed) ==
  IF signed THEN (ToNat(v) + 2^(Len(v) - 1)) % 2^Len(v) ELSE ToNat(v)

-----------------------------------------------------------------------------
(* Operators on values. *)

UnaryValue(op, val) ==
  LET v == val.bits
      w == WidthOf(val)
  IN  CASE op = "~"        -> Value([k \in 1..w |-> NotBit(v[k])], val.signed)
        [] op = "-"        -> IF IsTwoState(v)
                              THEN Value(FromNat(2^w - ToNat(v), w), val.signed)
                              ELSE Unknown(w)
        [] op = "!"        -> FromBit(NotBit(TruthBit(v)))
        [] op = "|"        -> FromBit(TruthBit(v))
        [] op = "&"        -> FromBit(ReduceAnd(v))
        [] op = "~&"       -> FromBit(NotBit(ReduceAnd(v)))
        [] op = "^"        -> FromBit(ReduceXor(v))
        [] op = "signed"   -> Value(v, TRUE)
        [] op = "unsigned" -> Value(v, FALSE)

BitwiseOps  == {"&", "|", "^"}
ShiftOps    == {"<<", ">>", ">>>"}
EqualityOps == {"==", "!="}
OrderOps    == {"<", "<=", ">", ">="}
ArithOps    == {"+", "-", "*"}
LogicalOps  == {"&&", "||"}

BitwiseBit(op, a, b) ==
  CASE op = "&" -> AndBit(a, b) [] op = "|" -> OrBit(a, b) [] op = "^" -> XorBit(a, b)

\* logic_shift_left_value, logic_shift_right_value and the arithmetic one: an
\* unknown amount makes the result unknown, bits shifted in are zeros or, for
\* the arithmetic shift, the top bit.
Shifted(op, v, amount) ==
  LET w == Len(v)
      fill == IF op = ">>>" THEN v[w] ELSE "0"
  IN  [k \in 1..w |->
         IF op = "<<" THEN (IF k > amount THEN v[k - amount] ELSE "0")
         ELSE IF k + amount <= w THEN v[k + amount] ELSE fill]

Ordered(op, a, b) ==
  CASE op = "<" -> a < b [] op = "<=" -> a <= b [] op = ">" -> a > b [] op = ">=" -> a >= b

ArithNat(op, a, b, w) ==
  CASE op = "+" -> a + b [] op = "-" -> a + 2^w - b [] op = "*" -> a * b

\* A binary operator other than && and ||: both operands are first brought to
\* the wider one's width, the amount of a shift included.
BinaryValue(op, left, right) ==
  LET w == Wider(WidthOf(left), WidthOf(right))
      a == CoerceValue(left, w)
      b == CoerceValue(right, w)
      both  == left.signed /\ right.signed
      known == IsTwoState(a) /\ IsTwoState(b)
  IN  CASE op \in BitwiseOps ->
             Value([k \in 1..w |-> BitwiseBit(op, a[k], b[k])], both)
        [] op \in ShiftOps ->
             IF IsTwoState(b) THEN Value(Shifted(op, a, ToNat(b)), left.signed) ELSE Unknown(w)
        [] op = "==" -> FromBit(LogicalEqual(a, b))
        [] op = "!=" -> FromBit(NotBit(LogicalEqual(a, b)))
        [] op \in OrderOps ->
             FromBit(IF ~known THEN "X"
                     ELSE IF Ordered(op, Rank(a, both), Rank(b, both)) THEN "1" ELSE "0")
        [] op \in ArithOps ->
             IF known THEN Value(FromNat(ArithNat(op, ToNat(a), ToNat(b), w), w), both)
             ELSE Unknown(w)

\* Fault: an unknown condition takes the first branch.
MergeThen(t, f, w) == Value(CoerceValue(t, w), t.signed)

\* logic_ternary_merge: where the branches agree, and x elsewhere.
Merge(t, f, w) ==
  LET a == CoerceValue(t, w)
      b == CoerceValue(f, w)
  IN  Value([k \in 1..w |-> IF a[k] = b[k] THEN a[k] ELSE "X"], t.signed /\ f.signed)

-----------------------------------------------------------------------------
(* The recursion over expressions: the operands first, then the operator.  *)

Operands(x) ==
  CASE x.e \in {"id", "literal"}                    -> <<>>
    [] x.e = "concat"                               -> x.parts
    [] x.e \in {"repeat", "memory", "part", "unary"} -> <<x.x>>
    [] x.e = "binary"                               -> <<x.l, x.r>>
    [] x.e = "cond"                                 -> <<x.c, x.t, x.f>>

\* Fault: a ternary has the width of its first branch.
ThenWidth(t, f) == t

\* The width a ternary brings both branches to.
BranchWidth(t, f) == Wider(t, f)

\* The width of an expression, ws being those of its operands.  A shift has
\* the width of its left operand, unlike its value.
WidthGiven(x, ws, env) ==
  CASE x.e = "id"      -> Len(env.values[x.name])
    [] x.e = "literal" -> Len(x.value)
    [] x.e = "concat"  -> FoldLeft(LAMBDA a, b : a + b, 0, ws)
    [] x.e = "repeat"  -> x.count * ws[1]
    [] x.e = "memory"  -> Len(env.words[x.memory][0])
    [] x.e = "part"    -> x.high - x.low + 1
    [] x.e = "unary"   -> IF x.op \in {"~", "-", "signed", "unsigned"} THEN ws[1] ELSE 1
    [] x.e = "binary"  -> CASE x.op \in LogicalOps \cup EqualityOps \cup OrderOps -> 1
                            [] x.op \in ShiftOps -> ws[1]
                            [] OTHER -> Wider(ws[1], ws[2])
    [] x.e = "cond"    -> BranchWidth(ws[2], ws[3])

RECURSIVE ExprWidth(_, _)
ExprWidth(x, env) ==
  WidthGiven(x, [k \in 1..Len(Operands(x)) |-> ExprWidth(Operands(x)[k], env)], env)

\* MemoryState::read: the index must be known and in range.
ReadMemory(m, index, env) ==
  IF ~IsTwoState(index.bits) \/ m \notin DOMAIN env.words
  THEN Error
  ELSE LET offset == ToNat(index.bits) - env.low[m]
       IN  IF offset \in DOMAIN env.words[m] THEN Unsigned(env.words[m][offset]) ELSE Error

\* concat_values: the first part is the most significant one.
Concatenated(vals) ==
  Unsigned(FlattenSeq(Reverse([k \in 1..Len(vals) |-> vals[k].bits])))

\* && and || look at the right operand only when the left does not decide.
EvalLogical(op, left, right) ==
  LET decided == IF op = "&&" THEN "0" ELSE "1"
      a == TruthBit(left.bits)
      b == TruthBit(right.bits)
  IN  IF a = decided THEN FromBit(decided)
      ELSE IF IsError(right) THEN Error
      ELSE FromBit(IF op = "&&" THEN AndBit(a, b) ELSE OrBit(a, b))

\* The branch a condition chooses, or both merged, at their common width w.
Choice(c, t, f, w) ==
  LET truth == Truthiness(c.bits)
  IN  IF truth = "unknown" THEN Merge(t, f, w)
      ELSE LET v == IF truth = "true" THEN t ELSE f
           IN  Value(CoerceValue(v, w), v.signed)

\* The value of an expression, vals being those of its operands: an operand in
\* error makes it an error, but for what && and || leave out.
ValueGiven(x, vals, env) ==
  CASE x.e = "id" ->
         IF x.name \in DOMAIN env.values THEN Unsigned(env.values[x.name]) ELSE Error
    [] x.e = "literal" -> Unsigned(x.value)
    [] x.e = "binary" /\ x.op \in LogicalOps ->
         IF IsError(vals[1]) THEN Error ELSE EvalLogical(x.op, vals[1], vals[2])
    [] OTHER ->
         IF \E k \in 1..Len(vals) : IsError(vals[k]) THEN Error
         ELSE CASE x.e = "concat" -> Concatenated(vals)
                [] x.e = "repeat" -> Concatenated([k \in 1..x.count |-> vals[1]])
                [] x.e = "memory" -> ReadMemory(x.memory, vals[1], env)
                [] x.e = "part"   -> IF x.high >= WidthOf(vals[1]) THEN Error
                                     ELSE Unsigned(Slice(vals[1].bits, x.low, x.high - x.low + 1))
                [] x.e = "unary"  -> UnaryValue(x.op, vals[1])
                [] x.e = "binary" -> BinaryValue(x.op, vals[1], vals[2])
                [] x.e = "cond"   -> Choice(vals[1], vals[2], vals[3], ExprWidth(x, env))

RECURSIVE EvalExpr(_, _)
EvalExpr(x, env) ==
  ValueGiven(x, [k \in 1..Len(Operands(x)) |-> EvalExpr(Operands(x)[k], env)], env)
=============================================================================
