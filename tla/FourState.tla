----------------------------- MODULE FourState -----------------------------
(***************************************************************************)
(* Four-state values: LogicBit and LogicValue (logic_value.rs), the truth  *)
(* tables of logic_ops.rs, and Value, a LogicValue with a signedness       *)
(* (expr_eval.rs).                                                         *)
(*                                                                         *)
(* A LogicValue is the sequence of its bits, least significant first: bit  *)
(* i of the code is v[i + 1].  The three masks of LogicBits (ones, x_mask, *)
(* z_mask) are at most one of them set at an index, so a bit is one of     *)
(* four values.                                                            *)
(***************************************************************************)
EXTENDS Naturals, Sequences

Bit == {"0", "1", "X", "Z"}

\* The values of width w (LogicValue::new gives every value a width >= 1).
Vec(w) == [1..w -> Bit]

LogicValues == UNION {Vec(w) : w \in Nat \ {0}}

Filled(w, b) == [k \in 1..w |-> b]
ZeroOf(w) == Filled(w, "0")
AllZ(w) == Filled(w, "Z")

\* Bits beyond the width read as zero.
BitOf(v, k) == IF k \in 1..Len(v) THEN v[k] ELSE "0"

\* LogicValue::coerced_to: truncation, or zero extension.
Coerce(v, w) == [k \in 1..w |-> BitOf(v, k)]

\* logic_sign_extend: the sign bit is replicated, x and z included.
SignExtend(v, w) == [k \in 1..w |-> IF k <= Len(v) THEN v[k] ELSE v[Len(v)]]

-----------------------------------------------------------------------------
(* Value: what eval_expr returns. *)

Value(v, s) == [bits |-> v, signed |-> s]
Unsigned(v) == Value(v, FALSE)

WidthOf(val) == Len(val.bits)

\* Value::coerced_to, the logic of the result.
CoerceValue(val, w) ==
  IF val.signed THEN SignExtend(val.bits, w) ELSE Coerce(val.bits, w)

IsTwoState(v) == \A k \in 1..Len(v) : v[k] \in {"0", "1"}

\* Value::truthiness: a known one decides, else an unknown bit, else false.
Truthiness(v) ==
  IF \E k \in 1..Len(v) : v[k] = "1" THEN "true"
  ELSE IF IsTwoState(v) THEN "false"
  ELSE "unknown"

Truthy(v) == Truthiness(v) = "true"

\* values_case_equal: every bit equal at the common width, x and z included.
CaseEqual(a, b) ==
  LET w == IF WidthOf(a) >= WidthOf(b) THEN WidthOf(a) ELSE WidthOf(b)
  IN  CoerceValue(a, w) = CoerceValue(b, w)

-----------------------------------------------------------------------------
(* Truth tables. *)

Normalize(b) == IF b = "Z" THEN "X" ELSE b

NotBit(b) ==
  CASE b = "0" -> "1"
    [] b = "1" -> "0"
    [] OTHER   -> "X"

AndBit(a, b) ==
  IF "0" \in {a, b} THEN "0"
  ELSE IF {a, b} = {"1"} THEN "1"
  ELSE "X"

OrBit(a, b) ==
  IF "1" \in {a, b} THEN "1"
  ELSE IF {a, b} = {"0"} THEN "0"
  ELSE "X"

XorBit(a, b) ==
  IF {a, b} \cap {"X", "Z"} # {} THEN "X"
  ELSE IF a = b THEN "0"
  ELSE "1"

-----------------------------------------------------------------------------
(* Slices.  low is the code's 0-based index. *)

Slice(v, low, w) == [k \in 1..w |-> BitOf(v, low + k)]

ReplaceSlice(base, low, w, new) ==
  [k \in 1..Len(base) |->
     IF k \in (low + 1)..(low + w) THEN BitOf(new, k - low) ELSE base[k]]

\* stage_partial_signal_logic_driver: the bits a partial driver leaves alone
\* are driven to Z.
PadZ(v, low, w, objWidth) == ReplaceSlice(AllZ(objWidth), low, w, v)

-----------------------------------------------------------------------------
(* Numbers, for arithmetic on two-state values of small width. *)

ToNat(v) ==
  LET n[k \in 0..Len(v)] ==
        IF k = 0 THEN 0 ELSE n[k - 1] + (IF v[k] = "1" THEN 2^(k - 1) ELSE 0)
  IN  n[Len(v)]

\* The low w bits of n.
FromNat(n, w) == [k \in 1..w |-> IF (n \div 2^(k - 1)) % 2 = 1 THEN "1" ELSE "0"]
=============================================================================
