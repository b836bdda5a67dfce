----------------------------- MODULE MemoryFile -----------------------------
(***************************************************************************)
(* Memory files (sim/memory.rs): the lines of a text, from which comments  *)
(* and empty lines are gone, as the writes they stand for.                 *)
(*                                                                         *)
(* A line is [address, word], both numerals; a numeral is [prefix, digits] *)
(* with the digits as numbers, first to last, and NoNumeral is the address *)
(* of a line that names none.                                              *)
(***************************************************************************)
EXTENDS FourState, FiniteSetsExt

NoNumeral == [prefix |-> "", digits |-> <<>>]
Decimal(digits) == [prefix |-> "", digits |-> digits]

\* parse_prefixed_value
PrefixRadix(n) ==
  CASE n.prefix = "0x" -> 16 [] n.prefix = "0b" -> 2 [] n.prefix = "0o" -> 8 [] n.prefix = "" -> 10

\* parse_memory_value: a word of zeros and ones alone is binary.
WordRadix(n) ==
  IF n.prefix = "" /\ \A k \in 1..Len(n.digits) : n.digits[k] < 2 THEN 2 ELSE PrefixRadix(n)

IsNumeral(n, radix) == n.digits # <<>> /\ \A k \in 1..Len(n.digits) : n.digits[k] < radix

NumberIn(n, radix) ==
  MapThenSumSet(LAMBDA k : n.digits[k] * radix^(Len(n.digits) - k), 1..Len(n.digits))

HasAddress(line) == line.address # NoNumeral
Named(line)      == NumberIn(line.address, PrefixRadix(line.address))

\* Fault: an address that is named does not move those after it.
AddressesAlone(lines) ==
  [k \in 1..Len(lines) |-> IF HasAddress(lines[k]) THEN Named(lines[k]) ELSE k - 1]

\* current_address: a line without an address continues after the one before.
Addresses(lines) ==
  LET after[k \in 0..Len(lines)] ==
        IF k = 0 THEN 0 ELSE 1 + IF HasAddress(lines[k]) THEN Named(lines[k]) ELSE after[k - 1]
  IN  [k \in 1..Len(lines) |-> after[k] - 1]

\* parse_memory_text fails on an address or a word that cannot be read, or an
\* address outside the depth; nothing has been written then.
Parses(lines, depth) ==
  \A k \in 1..Len(lines) :
    /\ HasAddress(lines[k]) => IsNumeral(lines[k].address, PrefixRadix(lines[k].address))
    /\ Addresses(lines)[k] < depth
    /\ IsNumeral(lines[k].word, WordRadix(lines[k].word))

\* The low w bits of a word, whichever of its digits they come from.
WordOf(line, w) == FromNat(NumberIn(line.word, WordRadix(line.word)), w)

WritesIn(lines, w) ==
  [k \in 1..Len(lines) |-> [index |-> Addresses(lines)[k], word |-> WordOf(lines[k], w)]]
=============================================================================
