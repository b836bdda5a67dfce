------------------------------ MODULE Vectors ------------------------------
(***************************************************************************)
(* What LogicValue promises, and what the specifications of the evaluator  *)
(* take it to be: a four-state vector as a sequence of bits (FourState),   *)
(* the subject of one operation after another.                             *)
(***************************************************************************)
EXTENDS FourState

CONSTANTS
  Widths,    \* the width arguments
  Lows,      \* the lowest indexes of slices
  Operands,  \* the vectors written over a slice
  Numerals,  \* the numbers converted
  Readings   \* texts and what they mean: [text, bits], no bits to refuse it

VARIABLES bits, did

Length(n) == CHOOSE w \in 1..(n + 1) : n < 2^w /\ (w = 1 \/ 2^(w - 1) <= n)

Init == bits = ZeroOf(1) /\ did = <<"zero">>

Becomes(v, what) == bits' = v /\ did' = what

Read(r) ==
  IF r.bits = <<>> THEN Becomes(bits, <<"refused", r.text>>)
  ELSE Becomes(r.bits, <<"read", r.text>>)

Next ==
  \/ \E w \in Widths : \/ Becomes(Coerce(bits, w), <<"coerce", w>>)
                       \/ Becomes(SignExtend(bits, w), <<"sign", w>>)
                       \/ Becomes(AllZ(w), <<"z", w>>)
                       \/ \E b \in Bit : Becomes(Filled(w, b), <<"fill", w, b>>)
                       \/ \E low \in Lows : Becomes(Slice(bits, low, w), <<"slice", low, w>>)
  \/ \E w \in Widths, low \in Lows, o \in Operands :
       Becomes(ReplaceSlice(bits, low, w, o), <<"replace", low, w, o>>)
  \/ \E n \in Numerals : Becomes(FromNat(n, Length(n)), <<"number", n>>)
  \/ \E r \in Readings : Read(r)

Spec == Init /\ [][Next]_<<bits, did>>
=============================================================================
