--------------------------- MODULE LogicRegister ---------------------------
(***************************************************************************)
(* A LogicValue on which the runtime executes one operation after another, *)
(* and the texts it is printed as and compared with.                       *)
(***************************************************************************)
EXTENDS LogicMasks

CONSTANTS
  Widths, Lows, Operands, Numerals, Readings, \* as in Vectors
  Others                                      \* vectors to compare with

VARIABLES
  value, \* the LogicValue
  did    \* history: the last operation

vars == <<value, did>>

\* From<u64>: a number below Base.
FromSmall(n) == FromNumber(New(<<n % Base, n \div Base>>))

\* A LogicValue built from a sequence of bits, and the sequence of one.
Stored(o) == LogicNew(Built(Len(o), LAMBDA k : o[k + 1]), Len(o))
BitsOfLogic(v) == [k \in 1..v.width |-> LogicBit(v, k - 1)]

Init == value = LogicNew(ZeroBits, 1) /\ did = <<"zero">>

DoCoerce(w)     == value' = CoercedTo(value, w) /\ did' = <<"coerce", w>>
DoSignExtend(w) == value' = LogicSignExtend(value, value.width, w) /\ did' = <<"sign", w>>
DoAllZ(w)       == value' = LogicAllZ(w) /\ did' = <<"z", w>>
DoFill(w, b)    == value' = LogicFilled(w, b) /\ did' = <<"fill", w, b>>
DoSlice(low, w) == value' = LogicSlice(value, low, w) /\ did' = <<"slice", low, w>>
DoNumber(n)     == value' = FromSmall(n) /\ did' = <<"number", n>>

DoReplace(low, w, o) ==
  value' = LogicReplaceSlice(value, low, w, Stored(o)) /\ did' = <<"replace", low, w, o>>

DoRead(t) == value' \in ReadText(t) /\ did' = <<"read", t>>

\* A text that is refused leaves the value alone.
DoRefuse(t) == ReadText(t) = {} /\ value' = value /\ did' = <<"refused", t>>

Next ==
  \/ \E w \in Widths : DoCoerce(w) \/ DoSignExtend(w) \/ DoAllZ(w)
  \/ \E w \in Widths, b \in {"0", "1", "X", "Z"} : DoFill(w, b)
  \/ \E w \in Widths, low \in Lows : DoSlice(low, w)
  \/ \E w \in Widths, low \in Lows, o \in Operands : DoReplace(low, w, o)
  \/ \E n \in Numerals : DoNumber(n)
  \/ \E r \in Readings : DoRead(r.text) \/ DoRefuse(r.text)

Spec == Init /\ [][Next]_vars

-----------------------------------------------------------------------------
\* The masks do what FourState says of sequences of bits, through any chain of
\* operations: what a narrowing drops does not come back when it is widened.
Bits == INSTANCE Vectors WITH bits <- BitsOfLogic(value)
ImplementsFourState == Bits!Spec

\* One representation for each vector: the masks are disjoint and empty beyond
\* the width, so that the derived equality, on which the settle loop and the
\* nets rely to notice a change, is equality of the bits.
EqualityIsBitwise == value = Stored(BitsOfLogic(value))

Reads(v) == ReadValue(Printed(v))

\* A four-state value is printed as a text that Prefixed takes for a number:
\* "0x" and binary digits.
LooksHex(v) == ~IsKnown(v.bits) /\ Prefixed(Rendered(v.bits, Zero, v.width)) # {}

\* What is printed reads back as the value; a known one in the least width.
PrintedReadsBack ==
  ~LooksHex(value) =>
    Reads(value) = {IF IsKnown(value.bits) THEN FromNumber(ToNumber(value)) ELSE value}

\* Of the values a test can compare with, the one expected as it was printed
\* is matched and no other: a number by its value, x and z bit by bit.
ExpectedAsPrinted ==
  ~LooksHex(value) =>
    \A p \in ReadPattern(Printed(value)), o \in Others :
      LET other == Stored(o)
      IN  Matches(p, other) <=>
            IF IsKnown(value.bits)
            THEN IsKnown(other.bits) /\ ToNumber(other) = ToNumber(value)
            ELSE other = value

\* A ? in an expected text stands for the bit at its place and for no other.
WildcardsAreLocal ==
  \A n \in 1..value.width, b \in {"0", "1", "X", "Z"} :
    LET text == Rendered(value.bits, Zero, value.width)
        wild == Text([text EXCEPT ![n] = "?"])
    IN  \A m \in 1..value.width :
          LET other == LogicReplaceSlice(value, value.width - m, 1, Stored(<<b>>))
          IN  \A p \in ReadPattern(wild) : Matches(p, other) <=> (m = n \/ other = value)

-----------------------------------------------------------------------------
\* "JSON reports, and CLI output can round-trip literal four-state values"
\* (wiki/architecture/runtime-and-state.md:27).
FourStateRoundTrips == IsKnown(value.bits) \/ Reads(value) = {value}
=============================================================================
