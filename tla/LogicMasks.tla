----------------------------- MODULE LogicMasks -----------------------------
(***************************************************************************)
(* LogicValue as logic_value.rs stores it: three BitValues, the masks of   *)
(* the ones, the x and the z bits.  Here are the operations of             *)
(* logic_value.rs and logic_ops.rs on the masks, what they print, and what *)
(* the JSON harness and the command line read.                             *)
(*                                                                         *)
(* A text is the sequence of its characters, first to last; "X" and "Z"    *)
(* stand for both cases of the letter, and underscores are left out.       *)
(***************************************************************************)
EXTENDS BitValue

ZeroBits == [ones |-> Zero, x_mask |-> Zero, z_mask |-> Zero]

IsKnown(bits) == bits.x_mask = Zero /\ bits.z_mask = Zero

\* LogicBits::bit and set_bit, which clears all three masks before it sets one.
BitIn(bits, k) ==
  IF GetBit(bits.x_mask, k) THEN "X"
  ELSE IF GetBit(bits.z_mask, k) THEN "Z"
  ELSE IF GetBit(bits.ones, k) THEN "1"
  ELSE "0"

SetBitIn(bits, k, bit) ==
  [ones   |-> SetBit(bits.ones, k, bit = "1"),
   x_mask |-> SetBit(bits.x_mask, k, bit = "X"),
   z_mask |-> SetBit(bits.z_mask, k, bit = "Z")]

TruncateBits(bits, width) == [mask \in DOMAIN bits |-> Truncate(bits[mask], width)]

\* Bits set one after another, from index 0.
Built(width, bitAt(_)) ==
  LET bits[n \in 0..width] ==
        IF n = 0 THEN ZeroBits ELSE SetBitIn(bits[n - 1], n - 1, bitAt(n - 1))
  IN  bits[width]

-----------------------------------------------------------------------------
(* LogicValue. *)

AtLeastOne(width) == Max({width, 1})

\* Fault: the bits beyond the width stay in the masks.
LogicNewUncut(bits, width) == [bits |-> bits, width |-> AtLeastOne(width)]

LogicNew(bits, width) ==
  [bits |-> TruncateBits(bits, AtLeastOne(width)), width |-> AtLeastOne(width)]

LogicBit(v, k) == IF k >= v.width THEN "0" ELSE BitIn(v.bits, k)

\* LogicBits::filled
LogicFilled(width, bit) == LogicNew(Built(AtLeastOne(width), LAMBDA k : bit), width)

LogicAllZ(width) == LogicNew([ZeroBits EXCEPT !.z_mask = Mask(AtLeastOne(width))], width)

CoercedTo(v, width) == IF AtLeastOne(width) = v.width THEN v ELSE LogicNew(v.bits, width)

\* to_bit_value_checked, of a value that is known.
ToNumber(v) == Truncate(v.bits.ones, v.width)

FromNumber(n) == LogicNew([ZeroBits EXCEPT !.ones = n], AtLeastOne(BitLen(n)))

LogicSignExtend(v, from, to) ==
  LET bitAt(k) == LogicBit(v, IF k < AtLeastOne(from) THEN k ELSE AtLeastOne(from) - 1)
  IN  LogicNew(Built(AtLeastOne(to), bitAt), AtLeastOne(to))

LogicSlice(v, low, width) ==
  LogicNew(Built(AtLeastOne(width), LAMBDA k : LogicBit(v, low + k)), AtLeastOne(width))

\* Fault: one bit too many is replaced.
ReplaceInclusive(base, low, width, new) ==
  LET bitAt(k) ==
        IF k \in low..(low + width) THEN LogicBit(CoercedTo(new, width), k - low)
        ELSE LogicBit(base, k)
  IN  LogicNew(Built(base.width, bitAt), base.width)

LogicReplaceSlice(base, low, width, new) ==
  LET bitAt(k) ==
        IF k \in low..(low + width - 1) THEN LogicBit(CoercedTo(new, width), k - low)
        ELSE LogicBit(base, k)
  IN  LogicNew(Built(base.width, bitAt), base.width)

-----------------------------------------------------------------------------
(* What is printed: a known value as its number, another as its bits. *)

Number(n) == [kind |-> "number", of |-> n]
Text(t)   == [kind |-> "text", of |-> t]

\* Fault: the lowest bit first.
RenderedLowFirst(bits, wildcard, width) ==
  [n \in 1..AtLeastOne(width) |->
     IF GetBit(wildcard, n - 1) THEN "?" ELSE BitIn(bits, n - 1)]

\* render_logic_string
Rendered(bits, wildcard, width) ==
  LET w == AtLeastOne(width)
  IN  [n \in 1..w |-> IF GetBit(wildcard, w - n) THEN "?" ELSE BitIn(bits, w - n)]

Printed(v) ==
  IF IsKnown(v.bits) THEN Number(ToNumber(v)) ELSE Text(Rendered(v.bits, Zero, v.width))

-----------------------------------------------------------------------------
(* What is read.  Each operator yields the set of what a text reads as: it *)
(* is empty when the text is refused.                                      *)

DigitOf == [c \in {"0", "1", "8", "b"} |->
              CASE c = "0" -> 0 [] c = "1" -> 1 [] c = "8" -> 8 [] c = "b" -> 11]

\* from_str_radix
InRadix(t, radix) ==
  IF /\ t # <<>>
     /\ \A n \in DOMAIN t : t[n] \in DOMAIN DigitOf /\ DigitOf[t[n]] < radix
  THEN {FromDigits([n \in DOMAIN t |-> DigitOf[t[n]]], radix)}
  ELSE {}

\* from_prefixed_str
Prefixed(t) ==
  LET marked(c) == Len(t) >= 2 /\ t[1] = "0" /\ t[2] = c
      rest == SubSeq(t, 3, Len(t))
  IN  CASE marked("X") -> InRadix(rest, 16)
        [] marked("b") -> InRadix(rest, 2)
        [] OTHER       -> InRadix(t, 10)

\* parse_logic_bits: the last character is bit 0.
ReadBits(t) ==
  IF t # <<>> /\ \A n \in DOMAIN t : t[n] \in {"0", "1", "X", "Z"}
  THEN {LogicNew(Built(Len(t), LAMBDA k : t[Len(t) - k]), Len(t))}
  ELSE {}

\* LogicValue::from_str: a number if the text can be one.
ReadText(t) ==
  IF Prefixed(t) # {} THEN {FromNumber(n) : n \in Prefixed(t)} ELSE ReadBits(t)

\* Deserialize
ReadValue(p) == IF p.kind = "number" THEN {FromNumber(p.of)} ELSE ReadText(p.of)

-----------------------------------------------------------------------------
(* LogicPattern, what a test expects. *)

PatternOf(v) ==
  [bits |-> v.bits, wildcard_mask |-> Zero, width |-> v.width, explicit |-> FALSE]

\* Fault: the wildcards are counted from the first character.
PatternLowFirst(t) ==
  IF t # <<>> /\ \A n \in DOMAIN t : t[n] \in {"0", "1", "X", "Z", "?"}
  THEN {[bits |-> Built(Len(t), LAMBDA k : IF t[Len(t) - k] = "?" THEN "0" ELSE t[Len(t) - k]),
         wildcard_mask |-> New([n \in 1..LimbCount(Len(t)) |->
           FromBits({k \in 0..(LimbBits - 1) :
             LET at == (n - 1) * LimbBits + k IN at < Len(t) /\ t[at + 1] = "?"})]),
         width |-> Len(t),
         explicit |-> TRUE]}
  ELSE {}

\* parse_logic_pattern and from_logic_str
PatternBits(t) ==
  LET at(k) == t[Len(t) - k]
      wildcards[n \in 0..Len(t)] ==
        IF n = 0 THEN Zero
        ELSE IF at(n - 1) = "?" THEN SetBit(wildcards[n - 1], n - 1, TRUE)
        ELSE wildcards[n - 1]
  IN  IF t # <<>> /\ \A n \in DOMAIN t : t[n] \in {"0", "1", "X", "Z", "?"}
      THEN {[bits |-> Built(Len(t), LAMBDA k : IF at(k) = "?" THEN "0" ELSE at(k)),
             wildcard_mask |-> wildcards[Len(t)],
             width |-> Len(t),
             explicit |-> TRUE]}
      ELSE {}

\* LogicPattern::from_str and its Deserialize
ReadPattern(p) ==
  IF p.kind = "number" THEN {PatternOf(FromNumber(p.of))}
  ELSE IF Prefixed(p.of) # {} THEN {PatternOf(FromNumber(n)) : n \in Prefixed(p.of)}
  ELSE PatternBits(p.of)

IsExplicit(p) == p.explicit \/ p.wildcard_mask # Zero \/ ~IsKnown(p.bits)

MatchesNumber(p, v) ==
  IsKnown(p.bits) /\ IsKnown(v.bits) /\ Truncate(p.bits.ones, p.width) = ToNumber(v)

MatchesBits(p, v) ==
  \A k \in 0..(p.width - 1) :
    GetBit(p.wildcard_mask, k) \/ BitIn(p.bits, k) = LogicBit(v, k)

\* Fault: a longer value matches by its low bits.
MatchesLowBits(p, v) == IF IsExplicit(p) THEN MatchesBits(p, v) ELSE MatchesNumber(p, v)

\* LogicPattern::matches
Matches(p, v) ==
  IF IsExplicit(p) THEN p.width = v.width /\ MatchesBits(p, v) ELSE MatchesNumber(p, v)
=============================================================================
