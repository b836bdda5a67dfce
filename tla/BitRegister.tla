---------------------------- MODULE BitRegister ----------------------------
(***************************************************************************)
(* A BitValue on which the evaluator executes one operation after another: *)
(* any long chain of calls of bit_value.rs.                                *)
(***************************************************************************)
EXTENDS BitValue

CONSTANTS
  Widths,    \* the width arguments
  Amounts,   \* the shift amounts and bit indexes
  Values,    \* the other operands, as numbers
  Texts,     \* the numbers parsed, as [digits, radix]
  ChunkBase, \* DECIMAL_CHUNK_BASE: fits a limb
  MaxLen     \* bound: the length in bits a shift may reach

VARIABLES
  value, \* the BitValue
  did    \* history: the last operation

vars == <<value, did>>

\* From<u128>: the limbs of a number (of at most MaxLen limbs).
Of(n) == New([k \in 1..MaxLen |-> (n \div Base^(k - 1)) % Base])

\* The number a BitValue stands for.
NumberOf(v) == MapThenSumSet(LAMBDA k : LimbAt(v, k) * 2^(k * LimbBits), 0..(Len(v.limbs) - 1))

Init == value = Zero /\ did = <<"zero">>

DoParse(digits, radix) ==
  value' = FromDigits(digits, radix) /\ did' = <<"parse", digits, radix>>

DoTruncate(w)   == value' = Truncate(value, w) /\ did' = <<"truncate", w>>
DoMask(w)       == value' = Mask(w) /\ did' = <<"mask", w>>
DoAnd(n)        == value' = BitAnd(value, Of(n)) /\ did' = <<"and", n>>
DoOr(n)         == value' = BitOr(value, Of(n)) /\ did' = <<"or", n>>
DoXor(n)        == value' = BitXor(value, Of(n)) /\ did' = <<"xor", n>>
DoNot(w)        == value' = BitNot(value, w) /\ did' = <<"not", w>>
DoSetBit(k)     == value' = SetBit(value, k, TRUE) /\ did' = <<"set", k>>
DoClearBit(k)   == value' = SetBit(value, k, FALSE) /\ did' = <<"clear", k>>
DoShiftRight(k) == value' = ShiftRight(value, k) /\ did' = <<"right", k>>
DoSlice(low, w) == value' = SliceOf(value, low, w) /\ did' = <<"slice", low, w>>
DoAdd(n, w)     == value' = Add(value, Of(n), w) /\ did' = <<"add", n, w>>
DoSub(n, w)     == value' = Sub(value, Of(n), w) /\ did' = <<"sub", n, w>>
DoMul(n, w)     == value' = Mul(value, Of(n), w) /\ did' = <<"mul", n, w>>

DoShiftLeft(k) ==
  /\ BitLen(value) + k <= MaxLen
  /\ value' = ShiftLeft(value, k)
  /\ did' = <<"left", k>>

Next ==
  \/ \E t \in Texts : DoParse(t.digits, t.radix)
  \/ \E w \in Widths : DoTruncate(w) \/ DoMask(w) \/ DoNot(w)
  \/ \E n \in Values : DoAnd(n) \/ DoOr(n) \/ DoXor(n)
  \/ \E k \in Amounts : DoSetBit(k) \/ DoClearBit(k) \/ DoShiftLeft(k) \/ DoShiftRight(k)
  \/ \E w \in Widths, k \in Amounts : DoSlice(k, w)
  \/ \E w \in Widths, n \in Values : DoAdd(n, w) \/ DoSub(n, w) \/ DoMul(n, w)

Spec == Init /\ [][Next]_vars

-----------------------------------------------------------------------------
\* Every operation, on whatever the ones before it left, is arithmetic modulo
\* 2^width: inline and heap paths, carries, borrows and masks together.
Exact == INSTANCE Numbers WITH number <- NumberOf(value)
ComputesExactly == Exact!Spec

\* A number has one representation, so that the derived equality and hash are
\* those of numbers (Limbs).
EqualityIsNumeric ==
  /\ value = Of(NumberOf(value))
  /\ \A n \in Values : (value = Of(n)) = (NumberOf(value) = n)

\* cmp_unsigned orders values as their numbers are ordered.
OrderIsNumeric ==
  \A n \in Values : /\ Less(value, Of(n)) = (NumberOf(value) < n)
                    /\ Less(Of(n), value) = (n < NumberOf(value))

\* What Display writes, from_str_radix reads back as the same value, and no
\* zero chunk leads.
DisplayReadsBack ==
  LET chunks == Chunks(value, ChunkBase)
  IN  /\ FromDigits(chunks, ChunkBase) = value
      /\ chunks # <<>> => Head(chunks) # 0

-----------------------------------------------------------------------------
(* For model checking, in limbs of two or three bits: values of up to four *)
(* limbs.                                                                  *)

MCTexts ==
  {[digits |-> d, radix |-> r] : d \in {<<0>>, <<1, 0, 1, 1>>, <<0, 1, 1, 1, 1, 1>>}, r \in {2, 3}}
  \cup {[digits |-> d, radix |-> 4] : d \in {<<3, 2>>, <<2, 0, 3>>}}
=============================================================================
