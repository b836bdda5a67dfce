---------------------------- MODULE NetResolve ----------------------------
(***************************************************************************)
(* Net resolution (net_resolve.rs): the value of a net from the drivers    *)
(* staged on it, bit by bit, by the net's kind and the drivers' strengths. *)
(***************************************************************************)
EXTENDS FourState, FiniteSets

NetKinds == {"supply0", "supply1", "tri", "triand", "trior", "trireg",
             "tri0", "tri1", "uwire", "wire", "wand", "wor"}

\* DriveStrength in its declared (derived Ord) order; None is no driver.
None == 0
Weak == 1
Pull == 2
Strong == 3
Supply == 4
Strengths == Weak..Supply

\* A driver's contribution to one bit: a bit and the strength it has when it
\* drives a zero and when it drives a one (DriveStrengthPair).
BitDrivers == [bit : Bit, zero : Strengths, one : Strengths]

\* implicit_regular_driver: the pull or supply built into the net's kind.
ImplicitDrivers(kind) ==
  CASE kind = "tri0"    -> <<[bit |-> "0", zero |-> Pull,   one |-> Pull]>>
    [] kind = "tri1"    -> <<[bit |-> "1", zero |-> Pull,   one |-> Pull]>>
    [] kind = "supply0" -> <<[bit |-> "0", zero |-> Supply, one |-> Supply]>>
    [] kind = "supply1" -> <<[bit |-> "1", zero |-> Supply, one |-> Supply]>>
    [] OTHER            -> <<>>

BitsOf(ds) == {ds[n].bit : n \in 1..Len(ds)}
Active(ds) == {n \in 1..Len(ds) : ds[n].bit # "Z"}

\* The strongest of a set of strengths, None when there is none.
Strongest(S) == CHOOSE s \in S \cup {None} : \A t \in S : t <= s

\* apply_strength and update_strength over the drivers: an x drives both ways.
ZeroStrength(ds) ==
  Strongest({ds[n].zero : n \in {m \in 1..Len(ds) : ds[m].bit \in {"0", "X"}}})
OneStrength(ds) ==
  Strongest({ds[n].one : n \in {m \in 1..Len(ds) : ds[m].bit \in {"1", "X"}}})

\* Fault: of two drivers of one strength the zero wins.
ZeroWins(kind, previous, drivers) ==
  LET ds   == ImplicitDrivers(kind) \o drivers
      zero == ZeroStrength(ds)
      one  == OneStrength(ds)
  IN  CASE zero = None /\ one = None -> (IF kind = "trireg" THEN previous ELSE "Z")
        [] zero >= one               -> "0"
        [] OTHER                     -> "1"

\* resolve_regular_net_bit: the stronger side wins, equal strengths conflict,
\* and an undriven bit floats (a trireg keeps its charge).
RegularBit(kind, previous, drivers) ==
  LET ds   == ImplicitDrivers(kind) \o drivers
      zero == ZeroStrength(ds)
      one  == OneStrength(ds)
  IN  CASE zero = None /\ one = None -> (IF kind = "trireg" THEN previous ELSE "Z")
        [] zero > one                -> "0"
        [] one > zero                -> "1"
        [] OTHER                     -> "X"

\* resolve_wired_and_bit and resolve_wired_or_bit: strengths are not used;
\* the dominant bit decides, an x is weaker than it and stronger than the
\* other bit, and z counts for nothing.
WiredBit(dominant, recessive, drivers) ==
  LET bits == BitsOf(drivers)
  IN  CASE dominant \in bits  -> dominant
        [] "X" \in bits       -> "X"
        [] recessive \in bits -> recessive
        [] OTHER              -> "Z"

ResolveBit(kind, previous, drivers) ==
  CASE kind \in {"wand", "triand"} -> WiredBit("0", "1", drivers)
    [] kind \in {"wor", "trior"}   -> WiredBit("1", "0", drivers)
    [] OTHER                       -> RegularBit(kind, previous, drivers)

\* A uwire with two active drivers on a bit is the resolver's one error.
BitConflict(kind, drivers) ==
  kind = "uwire" /\ Cardinality(Active(ImplicitDrivers(kind) \o drivers)) > 1

-----------------------------------------------------------------------------
(* Whole nets.  A driver is a value with its pair of strengths. *)

NetDriver(v, zero, one) == [value |-> v, zero |-> zero, one |-> one]
StrongDriver(v) == NetDriver(v, Strong, Strong)

\* What the drivers of a net contribute to its bit k.
AtBit(drivers, k) ==
  [n \in 1..Len(drivers) |->
     [bit  |-> BitOf(drivers[n].value, k),
      zero |-> drivers[n].zero,
      one  |-> drivers[n].one]]

\* resolve_net.
ResolveNet(kind, w, previous, drivers) ==
  [k \in 1..w |-> ResolveBit(kind, BitOf(previous, k), AtBit(drivers, k))]

NetConflict(kind, w, drivers) ==
  \E k \in 1..w : BitConflict(kind, AtBit(drivers, k))
=============================================================================
