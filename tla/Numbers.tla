------------------------------ MODULE Numbers ------------------------------
(***************************************************************************)
(* What BitValue promises: natural numbers and arithmetic modulo 2^width.  *)
(* A number is the subject of one operation after another; did names the   *)
(* last one, so that an implementation must agree on each of them.         *)
(***************************************************************************)
EXTENDS Naturals, Sequences, FiniteSetsExt

VARIABLES number, did

Modulo(n, width) == n % 2^width

Ones(n) ==
  LET length == CHOOSE k \in 0..n : n < 2^k
  IN  {k \in 0..length : (n \div 2^k) % 2 = 1}
OfOnes(bits) == MapThenSumSet(LAMBDA k : 2^k, bits)

\* The number digits stand for, first to last.
Read(digits, radix) ==
  LET n[k \in 0..Len(digits)] == IF k = 0 THEN 0 ELSE n[k - 1] * radix + digits[k] IN n[Len(digits)]

Init == number = 0 /\ did = <<"zero">>

Becomes(n, what) == number' = n /\ did' = what

Parse(digits, radix) == Becomes(Read(digits, radix), <<"parse", digits, radix>>)
Truncate(w)     == Becomes(Modulo(number, w), <<"truncate", w>>)
Mask(w)         == Becomes(2^w - 1, <<"mask", w>>)
BitAnd(n)       == Becomes(OfOnes(Ones(number) \cap Ones(n)), <<"and", n>>)
BitOr(n)        == Becomes(OfOnes(Ones(number) \cup Ones(n)), <<"or", n>>)
BitXor(n)       == Becomes(OfOnes((Ones(number) \cup Ones(n)) \ (Ones(number) \cap Ones(n))),
                           <<"xor", n>>)
BitNot(w)       == Becomes(2^w - 1 - Modulo(number, w), <<"not", w>>)
SetBit(k)       == Becomes(OfOnes(Ones(number) \cup {k}), <<"set", k>>)
ClearBit(k)     == Becomes(OfOnes(Ones(number) \ {k}), <<"clear", k>>)
ShiftLeft(k)    == Becomes(number * 2^k, <<"left", k>>)
ShiftRight(k)   == Becomes(number \div 2^k, <<"right", k>>)
SliceOf(low, w) == Becomes(Modulo(number \div 2^low, w), <<"slice", low, w>>)
Add(n, w)       == Becomes(Modulo(number + n, w), <<"add", n, w>>)
Sub(n, w)       == Becomes(Modulo(number + 2^w - Modulo(n, w), w), <<"sub", n, w>>)
Mul(n, w)       == Becomes(Modulo(number * n, w), <<"mul", n, w>>)

CONSTANTS Widths, Amounts, Values, Texts

Next ==
  \/ \E t \in Texts : Parse(t.digits, t.radix)
  \/ \E w \in Widths : Truncate(w) \/ Mask(w) \/ BitNot(w)
  \/ \E n \in Values : BitAnd(n) \/ BitOr(n) \/ BitXor(n)
  \/ \E k \in Amounts : SetBit(k) \/ ClearBit(k) \/ ShiftLeft(k) \/ ShiftRight(k)
  \/ \E w \in Widths, k \in Amounts : SliceOf(k, w)
  \/ \E w \in Widths, n \in Values : Add(n, w) \/ Sub(n, w) \/ Mul(n, w)

Spec == Init /\ [][Next]_<<number, did>>
=============================================================================
