------------------------------ MODULE BitValue ------------------------------
(***************************************************************************)
(* BitValue (bit_value.rs): a natural number of any size as limbs of       *)
(* LimbBits bits, least significant first.  A number below 2^LimbBits is   *)
(* inline, a single limb; a larger one is a heap of at least two limbs     *)
(* whose last one is not zero.  Indexes of limbs and bits start at zero.   *)
(***************************************************************************)
EXTENDS Integers, Sequences, FiniteSetsExt

CONSTANT LimbBits  \* BIT_VALUE_LIMB_BITS, 64 in the code

ASSUME LimbBitsAssumption == LimbBits \in Nat \ {0}

Base == 2^LimbBits

Inline(limb) == [heap |-> FALSE, limbs |-> <<limb>>]
Heap(limbs)  == [heap |-> TRUE, limbs |-> limbs]

Zero == Inline(0)

Limbs(v) == IF v = Zero THEN <<>> ELSE v.limbs

At(limbs, k) == IF k + 1 \in DOMAIN limbs THEN limbs[k + 1] ELSE 0
LimbAt(v, k) == At(Limbs(v), k)

\* BitValue::new and canonicalize: the zero limbs at the top are dropped.
Trimmed(limbs) ==
  SubSeq(limbs, 1, Max({0} \cup {k \in DOMAIN limbs : limbs[k] # 0}))

\* Fault: a lone limb is left on the heap.
NewOnHeap(limbs) == IF Trimmed(limbs) = <<>> THEN Zero ELSE Heap(Trimmed(limbs))

New(limbs) ==
  LET trimmed == Trimmed(limbs)
  IN  CASE trimmed = <<>>     -> Zero
        [] Len(trimmed) = 1   -> Inline(trimmed[1])
        [] OTHER              -> Heap(trimmed)

LimbCount(width) == (width + LimbBits - 1) \div LimbBits

\* A limb and low_mask(bits), which takes no bits to mean all of them.
LowBits(limb, bits) == IF bits \in {0, LimbBits} THEN limb ELSE limb % 2^bits

-----------------------------------------------------------------------------
(* Bits. *)

BitLen(v) ==
  LET limbs == Limbs(v)
  IN  IF limbs = <<>> THEN 0
      ELSE (Len(limbs) - 1) * LimbBits + Min({n \in 0..LimbBits : limbs[Len(limbs)] < 2^n})

\* truncate_in_place.  The mask falls on the last limb there is.
Truncate(v, width) ==
  IF ~v.heap
  THEN CASE width = 0       -> Zero
         [] width < LimbBits -> Inline(LowBits(v.limbs[1], width))
         [] OTHER           -> v
  ELSE LET kept == SubSeq(v.limbs, 1, Min({LimbCount(width), Len(v.limbs)}))
       IN  IF width = 0 THEN Zero
           ELSE New([kept EXCEPT ![Len(kept)] = LowBits(@, width % LimbBits)])

Mask(width) ==
  IF LimbCount(width) = 0 THEN Zero
  ELSE New([k \in 1..LimbCount(width) |->
              IF k = LimbCount(width) THEN LowBits(Base - 1, width % LimbBits) ELSE Base - 1])

BitsOf(limb) == {k \in 0..(LimbBits - 1) : (limb \div 2^k) % 2 = 1}
FromBits(bits) == MapThenSumSet(LAMBDA k : 2^k, bits)

\* The limbs of two values side by side.
Paired(v, w, op(_, _)) ==
  New([k \in 1..Max({Len(Limbs(v)), Len(Limbs(w))}) |->
         FromBits(op(BitsOf(LimbAt(v, k - 1)), BitsOf(LimbAt(w, k - 1))))])

BitAnd(v, w) == Paired(v, w, LAMBDA a, b : a \cap b)
BitOr(v, w)  == Paired(v, w, LAMBDA a, b : a \cup b)
BitXor(v, w) == Paired(v, w, LAMBDA a, b : (a \cup b) \ (a \cap b))

\* bitnot_with_width
BitNot(v, width) ==
  CASE width = 0 -> Zero
    [] width \in 1..LimbBits -> Inline(LowBits(Base - 1 - LimbAt(v, 0), width % LimbBits))
    [] OTHER -> Truncate(New([k \in 1..LimbCount(width) |-> Base - 1 - LimbAt(v, k - 1)]), width)

GetBit(v, index) == index % LimbBits \in BitsOf(LimbAt(v, index \div LimbBits))

\* Clearing a bit beyond the limbs changes nothing.
SetBit(v, index, value) ==
  LET k    == index \div LimbBits
      bits == BitsOf(LimbAt(v, k))
      limb == FromBits(IF value THEN bits \cup {index % LimbBits} ELSE bits \ {index % LimbBits})
      len  == IF value THEN Max({Len(Limbs(v)), k + 1}) ELSE Len(Limbs(v))
  IN  New([n \in 1..len |-> IF n = k + 1 THEN limb ELSE LimbAt(v, n - 1)])

-----------------------------------------------------------------------------
(* Shifts: by whole limbs, and within them. *)

ShiftLeft(v, amount) ==
  LET limbs == Limbs(v)
      whole == amount \div LimbBits
      part  == amount % LimbBits
      spill == IF part = 0 THEN 0 ELSE 1
      high(k) == IF part = 0 \/ k = 0 THEN 0 ELSE At(limbs, k - 1) \div 2^(LimbBits - part)
  IN  IF v = Zero \/ amount = 0 THEN v
      ELSE IF ~v.heap /\ amount + BitLen(v) <= LimbBits THEN Inline(v.limbs[1] * 2^amount)
      ELSE New([n \in 1..(Len(limbs) + whole + spill) |->
                  IF n <= whole THEN 0
                  ELSE ((At(limbs, n - 1 - whole) * 2^part) % Base) + high(n - 1 - whole)])

ShiftRight(v, amount) ==
  LET limbs == Limbs(v)
      whole == amount \div LimbBits
      part  == amount % LimbBits
      low(k) == IF part = 0 THEN 0 ELSE (At(limbs, k + 1) * 2^(LimbBits - part)) % Base
  IN  IF v = Zero \/ amount = 0 THEN v
      ELSE IF ~v.heap THEN Inline(IF amount >= LimbBits THEN 0 ELSE v.limbs[1] \div 2^amount)
      ELSE New([n \in 1..(Len(limbs) - whole) |->
                  (At(limbs, n - 1 + whole) \div 2^part) + low(n - 1 + whole)])

\* slice
SliceOf(v, low, width) == Truncate(ShiftRight(v, low), width)

-----------------------------------------------------------------------------
(* Arithmetic modulo 2^width.  One limb wraps; several carry or borrow.    *)

\* Fault: limbs are added without their carries.
AddWithoutCarry(v, w, width) ==
  Truncate(New([k \in 1..LimbCount(width) |-> (LimbAt(v, k - 1) + LimbAt(w, k - 1)) % Base]), width)

Add(v, w, width) ==
  LET count == LimbCount(width)
      sum[k \in 0..(count - 1)] ==
        LimbAt(v, k) + LimbAt(w, k) + (IF k = 0 THEN 0 ELSE sum[k - 1] \div Base)
      carry == sum[count - 1] \div Base
  IN  CASE width = 0 -> Zero
        [] width \in 1..LimbBits ->
             Inline(LowBits((LimbAt(v, 0) + LimbAt(w, 0)) % Base, width % LimbBits))
        [] OTHER ->
             Truncate(New([k \in 1..count |-> sum[k - 1] % Base]
                          \o (IF carry = 0 THEN <<>> ELSE <<carry>>)), width)

Sub(v, w, width) ==
  LET count == LimbCount(width)
      borrow[k \in 0..count] ==
        IF k = 0 THEN 0
        ELSE IF LimbAt(v, k - 1) >= LimbAt(w, k - 1) + borrow[k - 1] THEN 0 ELSE 1
  IN  CASE width = 0 -> Zero
        [] width \in 1..LimbBits ->
             Inline(LowBits((LimbAt(v, 0) + Base - LimbAt(w, 0)) % Base, width % LimbBits))
        [] OTHER ->
             Truncate(New([k \in 1..count |->
                             (LimbAt(v, k - 1) + Base - LimbAt(w, k - 1) - borrow[k - 1]) % Base]),
                      width)

\* The row of limb i of v in the schoolbook product, added to limbs.  What
\* it carries beyond the last limb of w is dropped.
MulRow(v, w, i, count, limbs) ==
  LET product[j \in 0..(count - 1)] ==
        LimbAt(v, i) * LimbAt(w, j) + At(limbs, i + j)
        + (IF j = 0 THEN 0 ELSE product[j - 1] \div Base)
  IN  [n \in DOMAIN limbs |->
         IF n - 1 \in i..(i + count - 1) THEN product[n - 1 - i] % Base ELSE limbs[n]]

Mul(v, w, width) ==
  LET count == LimbCount(width)
      rows[i \in 0..count] ==
        IF i = 0 THEN [n \in 1..(count + 1) |-> 0] ELSE MulRow(v, w, i - 1, count, rows[i - 1])
  IN  CASE width = 0 -> Zero
        [] width \in 1..LimbBits ->
             Inline(LowBits((LimbAt(v, 0) * LimbAt(w, 0)) % Base, width % LimbBits))
        [] OTHER -> Truncate(New(rows[count]), width)

-----------------------------------------------------------------------------
(* Order, text. *)

\* Fault: the lowest limb that differs decides.
LessFromLow(v, w) ==
  LET a == Limbs(v)
      b == Limbs(w)
      differ == {k \in DOMAIN a : a[k] # b[k]}
  IN  IF Len(a) # Len(b) THEN Len(a) < Len(b)
      ELSE differ # {} /\ a[Min(differ)] < b[Min(differ)]

\* cmp_unsigned is "less": fewer limbs, or the highest limb that differs.
Less(v, w) ==
  LET a == Limbs(v)
      b == Limbs(w)
      differ == {k \in DOMAIN a : a[k] # b[k]}
  IN  IF Len(a) # Len(b) THEN Len(a) < Len(b)
      ELSE differ # {} /\ a[Max(differ)] < b[Max(differ)]

\* mul_small_assign, then add_small_assign.
WithDigit(limbs, radix, digit) ==
  LET sum[k \in 0..Len(limbs)] ==
        At(limbs, k) * radix + (IF k = 0 THEN digit ELSE sum[k - 1] \div Base)
      top == sum[Len(limbs)]
  IN  [k \in 1..Len(limbs) |-> sum[k - 1] % Base] \o (IF top = 0 THEN <<>> ELSE <<top>>)

\* from_str_radix, on digits that are valid for the radix, first to last.  A
\* radix is at most Base.
FromDigits(digits, radix) ==
  LET limbs[k \in 0..Len(digits)] ==
        IF k = 0 THEN <<>> ELSE WithDigit(limbs[k - 1], radix, digits[k])
  IN  New(limbs[Len(digits)])

\* Fault: each limb is divided alone.
DivRemAlone(limbs, divisor) ==
  [quotient  |-> Trimmed([k \in 1..Len(limbs) |-> limbs[k] \div divisor]),
   remainder |-> At(limbs, 0) % divisor]

\* div_rem_small: the quotient and the remainder, from the top limb down.
DivRem(limbs, divisor) ==
  LET value[k \in 0..Len(limbs)] ==
        IF k = Len(limbs) THEN 0 ELSE (value[k + 1] % divisor) * Base + limbs[k + 1]
  IN  [quotient  |-> Trimmed([k \in 1..Len(limbs) |-> value[k - 1] \div divisor]),
       remainder |-> value[0] % divisor]

\* Display: the remainders of dividing by a power of ten that fits a limb, the
\* last one first.
Chunks(v, chunkBase) ==
  LET rest[k \in 0..BitLen(v)] ==
        IF k = 0 THEN Limbs(v) ELSE DivRem(rest[k - 1], chunkBase).quotient
      count == Min({k \in 0..BitLen(v) : rest[k] = <<>>})
  IN  [k \in 1..count |-> DivRem(rest[count - k], chunkBase).remainder]
=============================================================================
