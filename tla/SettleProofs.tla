---------------------------- MODULE SettleProofs ----------------------------
(***************************************************************************)
(* Proofs about the settle loop, for every design, every statement and     *)
(* every evaluator: when a settle ends, every net is the resolution of the *)
(* set of its drivers, and every connection has delivered.                 *)
(***************************************************************************)
EXTENDS StepProofs, Wiring

-----------------------------------------------------------------------------
(* Nets.  The drivers of the runtime are strong ones.                      *)

IsStrong(ds) == IsSequence(ds) /\ \A n \in 1..Len(ds) : ds[n].zero = Strong /\ ds[n].one = Strong

\* The strength of nobody, of one strength, and of the stronger of two.
LEMMA StrongestOf ==
  /\ Strongest({}) = None
  /\ \A s \in Strengths : Strongest({s}) = s
  /\ \A s, t \in Strengths : s < t => Strongest({s, t}) = t
<1>1. Strongest({}) = None
  BY DEF Strongest, None
<1>2. ASSUME NEW s \in Strengths PROVE Strongest({s}) = s
  BY DEF Strongest, None, Strengths, Weak, Supply
<1>3. ASSUME NEW s \in Strengths, NEW t \in Strengths, s < t PROVE Strongest({s, t}) = t
  BY <1>3 DEF Strongest, None, Strengths, Weak, Supply
<1> QED
  BY <1>1, <1>2, <1>3

\* What strong drivers that drive a bit of B give to a side.
Given(ds, B) == IF BitsOf(ds) \cap B = {} THEN {} ELSE {Strong}

\* The strengths of strong drivers, and with a driver of the net before them.
LEMMA StrongSides ==
  ASSUME NEW ds, IsStrong(ds)
  PROVE  /\ ZeroStrength(ds) = Strongest(Given(ds, {"0", "X"}))
         /\ OneStrength(ds) = Strongest(Given(ds, {"1", "X"}))
<1> DEFINE zs == {ds[n].zero : n \in {m \in 1..Len(ds) : ds[m].bit \in {"0", "X"}}}
           os == {ds[n].one : n \in {m \in 1..Len(ds) : ds[m].bit \in {"1", "X"}}}
<1>1. ZeroStrength(ds) = Strongest(zs) /\ OneStrength(ds) = Strongest(os)
  BY Zenon DEF ZeroStrength, OneStrength
<1>2. zs = Given(ds, {"0", "X"})
  BY DEF IsStrong, BitsOf, Given
<1>3. os = Given(ds, {"1", "X"})
  BY DEF IsStrong, BitsOf, Given
<1> HIDE DEF zs, os
<1> QED
  BY <1>1, <1>2, <1>3

\* With a driver before them, they add theirs to its.
LEMMA ImplicitSides ==
  ASSUME NEW e, NEW ds, IsStrong(ds), NEW D, D = <<e>> \o ds
  PROVE  /\ ZeroStrength(D) =
              Strongest((IF e.bit \in {"0", "X"} THEN {e.zero} ELSE {}) \cup Given(ds, {"0", "X"}))
         /\ OneStrength(D) =
              Strongest((IF e.bit \in {"1", "X"} THEN {e.one} ELSE {}) \cup Given(ds, {"1", "X"}))
<1> DEFINE At(B) == {m \in 1..Len(D) : D[m].bit \in B}
           Of(B) == {m \in 1..Len(ds) : ds[m].bit \in B}
           zs == {D[n].zero : n \in {m \in 1..Len(D) : D[m].bit \in {"0", "X"}}}
           os == {D[n].one : n \in {m \in 1..Len(D) : D[m].bit \in {"1", "X"}}}
<1>1. IsSequence(<<e>>) /\ Len(<<e>>) = 1 /\ <<e>>[1] = e
  <2>1. <<e>> \in Seq({e}) /\ Len(<<e>>) = 1 /\ <<e>>[1] = e
    OBVIOUS
  <2> QED
    BY <2>1, SeqIsSequence
<1>2. IsSequence(ds)
  BY DEF IsStrong
<1>3. /\ Len(ds) \in Nat /\ Len(D) = 1 + Len(ds)
      /\ D[1] = e /\ \A k \in 1..Len(ds) : D[1 + k] = ds[k]
  <2>1. Joins(D, <<e>>, ds)
    BY DEF Joins
  <2>2. /\ Len(ds) \in Nat /\ Len(D) = Len(<<e>>) + Len(ds)
        /\ \A k \in 1..Len(<<e>>) : D[k] = <<e>>[k]
        /\ \A k \in 1..Len(ds) : D[Len(<<e>>) + k] = ds[k]
    BY <1>1, <1>2, <2>1, Joined
  <2> QED
    BY <1>1, <2>2
<1>4. ASSUME NEW B PROVE At(B) = (IF e.bit \in B THEN {1} ELSE {}) \cup {1 + m : m \in Of(B)}
  <2>1. ASSUME NEW m \in At(B) PROVE (m = 1 /\ e.bit \in B) \/ m \in {1 + k : k \in Of(B)}
    <3>1. CASE m = 1
      BY <1>3, <3>1
    <3>2. CASE m # 1
      <4>1. m - 1 \in 1..Len(ds) /\ m = 1 + (m - 1)
        BY <1>3, <3>2
      <4> QED
        BY <1>3, <4>1
    <3> QED
      BY <3>1, <3>2
  <2>2. e.bit \in B => 1 \in At(B)
    BY <1>3
  <2>3. \A m \in Of(B) : 1 + m \in At(B)
    BY <1>3
  <2> QED
    BY <2>1, <2>2, <2>3
<1>5. ZeroStrength(D) = Strongest(zs) /\ OneStrength(D) = Strongest(os)
  BY Zenon DEF ZeroStrength, OneStrength
<1>6. zs = (IF e.bit \in {"0", "X"} THEN {e.zero} ELSE {}) \cup Given(ds, {"0", "X"})
  <2> DEFINE A == At({"0", "X"})
             O == Of({"0", "X"})
  <2>1. A = (IF e.bit \in {"0", "X"} THEN {1} ELSE {}) \cup {1 + m : m \in O}
    BY <1>4
  <2>2. zs = {D[n].zero : n \in A} /\ Given(ds, {"0", "X"}) = {ds[m].zero : m \in O}
    BY DEF IsStrong, BitsOf, Given
  <2>3. \A m \in O : D[1 + m] = ds[m]
    BY <1>3
  <2>4. \A n \in A : D[n].zero \in (IF e.bit \in {"0", "X"} THEN {e.zero} ELSE {}) \cup {ds[m].zero : m \in O}
    <3> SUFFICES ASSUME NEW n \in A
                 PROVE  (e.bit \in {"0", "X"} /\ D[n] = e) \/ \E m \in O : D[n] = ds[m]
      OBVIOUS
    <3> HIDE DEF A, O
    <3> QED
      BY <1>3, <2>1, <2>3
  <2>5. e.bit \in {"0", "X"} => \E n \in A : D[n].zero = e.zero
    <3> HIDE DEF A, O
    <3> QED
      BY <1>3, <2>1
  <2>6. \A m \in O : \E n \in A : D[n].zero = ds[m].zero
    <3> HIDE DEF A, O
    <3> QED
      BY <2>1, <2>3
  <2> DEFINE sum == (IF e.bit \in {"0", "X"} THEN {e.zero} ELSE {}) \cup Given(ds, {"0", "X"})
  <2> HIDE DEF A, O, zs
  <2>7. \A x \in zs : x \in sum
    BY <2>2, <2>4
  <2>8. \A x \in sum : x \in zs
    BY <2>2, <2>5, <2>6
  <2> QED
    BY <2>7, <2>8, Zenon
<1>7. os = (IF e.bit \in {"1", "X"} THEN {e.one} ELSE {}) \cup Given(ds, {"1", "X"})
  <2> DEFINE A == At({"1", "X"})
             O == Of({"1", "X"})
  <2>1. A = (IF e.bit \in {"1", "X"} THEN {1} ELSE {}) \cup {1 + m : m \in O}
    BY <1>4
  <2>2. os = {D[n].one : n \in A} /\ Given(ds, {"1", "X"}) = {ds[m].one : m \in O}
    BY DEF IsStrong, BitsOf, Given
  <2>3. \A m \in O : D[1 + m] = ds[m]
    BY <1>3
  <2>4. \A n \in A : D[n].one \in (IF e.bit \in {"1", "X"} THEN {e.one} ELSE {}) \cup {ds[m].one : m \in O}
    <3> SUFFICES ASSUME NEW n \in A
                 PROVE  (e.bit \in {"1", "X"} /\ D[n] = e) \/ \E m \in O : D[n] = ds[m]
      OBVIOUS
    <3> HIDE DEF A, O
    <3> QED
      BY <1>3, <2>1, <2>3
  <2>5. e.bit \in {"1", "X"} => \E n \in A : D[n].one = e.one
    <3> HIDE DEF A, O
    <3> QED
      BY <1>3, <2>1
  <2>6. \A m \in O : \E n \in A : D[n].one = ds[m].one
    <3> HIDE DEF A, O
    <3> QED
      BY <2>1, <2>3
  <2> DEFINE sum == (IF e.bit \in {"1", "X"} THEN {e.one} ELSE {}) \cup Given(ds, {"1", "X"})
  <2> HIDE DEF A, O, os
  <2>7. \A x \in os : x \in sum
    BY <2>2, <2>4
  <2>8. \A x \in sum : x \in os
    BY <2>2, <2>5, <2>6
  <2> QED
    BY <2>7, <2>8, Zenon
<1> HIDE DEF zs, os
<1> QED
  BY <1>5, <1>6, <1>7

\* What the strengths of a net bit come to: nobody, the strong drivers alone,
\* or with the pull or the supply of the net's kind.
LEMMA GivenStrength ==
  ASSUME NEW ds, NEW B
  PROVE  LET none == BitsOf(ds) \cap B = {}
         IN  /\ Strongest(Given(ds, B)) = IF none THEN None ELSE Strong
             /\ Strongest({} \cup Given(ds, B)) = IF none THEN None ELSE Strong
             /\ Strongest({Pull} \cup Given(ds, B)) = IF none THEN Pull ELSE Strong
             /\ Strongest({Supply} \cup Given(ds, B)) = Supply
<1>1. /\ Pull \in Strengths /\ Strong \in Strengths /\ Supply \in Strengths
      /\ Pull < Strong /\ Strong < Supply
  BY DEF Weak, Pull, Strong, Supply, Strengths
<1>2. CASE BitsOf(ds) \cap B = {}
  <2>1. Given(ds, B) = {}
    BY <1>2 DEF Given
  <2>2. {} \cup {} = {} /\ {Pull} \cup {} = {Pull} /\ {Supply} \cup {} = {Supply}
    OBVIOUS
  <2> QED
    BY <1>1, <1>2, <2>1, <2>2, StrongestOf
<1>3. CASE BitsOf(ds) \cap B # {}
  <2>1. Given(ds, B) = {Strong}
    BY <1>3 DEF Given
  <2>2. /\ {} \cup {Strong} = {Strong} /\ {Pull} \cup {Strong} = {Pull, Strong}
        /\ {Supply} \cup {Strong} = {Strong, Supply}
    OBVIOUS
  <2> QED
    BY <1>1, <1>3, <2>1, <2>2, StrongestOf
<1> QED
  BY <1>2, <1>3

\* A net bit of strong drivers is what the net's kind makes of the set of their
\* bits: neither their order nor their number matters (resolve_net_bit).
LEMMA StrongBit ==
  ASSUME NEW kind \in NetKinds, NEW previous, NEW ds, IsStrong(ds)
  PROVE  ResolveBit(kind, previous, ds) = NetBit(kind, previous, BitsOf(ds))
<1> DEFINE bits == BitsOf(ds)
           D    == ImplicitDrivers(kind) \o ds
           no0  == bits \cap {"0", "X"} = {}
           no1  == bits \cap {"1", "X"} = {}
<1>s. /\ None = 0 /\ 0 < Pull /\ Pull < Strong /\ Strong < Supply
      /\ Pull \in Nat /\ Strong \in Nat /\ Supply \in Nat
  BY DEF None, Pull, Strong, Supply
<1>r. ZeroStrength(D) \in Nat /\ OneStrength(D) \in Nat =>
        RegularBit(kind, previous, ds) =
        IF ZeroStrength(D) = None /\ OneStrength(D) = None
        THEN (IF kind = "trireg" THEN previous ELSE "Z")
        ELSE IF ZeroStrength(D) > OneStrength(D) THEN "0"
        ELSE IF OneStrength(D) > ZeroStrength(D) THEN "1" ELSE "X"
  <2>1. RegularBit(kind, previous, ds) =
          CASE ZeroStrength(D) = None /\ OneStrength(D) = None ->
                 (IF kind = "trireg" THEN previous ELSE "Z")
            [] ZeroStrength(D) > OneStrength(D) -> "0"
            [] OneStrength(D) > ZeroStrength(D) -> "1"
            [] OTHER -> "X"
    BY Zenon DEF RegularBit
  <2> HIDE DEF D
  <2> DEFINE z == ZeroStrength(D)
             o == OneStrength(D)
  <2> SUFFICES ASSUME z \in Nat, o \in Nat
               PROVE  RegularBit(kind, previous, ds) =
                        IF z = None /\ o = None
                        THEN (IF kind = "trireg" THEN previous ELSE "Z")
                        ELSE IF z > o THEN "0" ELSE IF o > z THEN "1" ELSE "X"
    OBVIOUS
  <2> HIDE DEF z, o
  <2>2. None = 0 /\ z \in Nat /\ o \in Nat
    BY <1>s
  <2>3. CASE z = None /\ o = None
    <3>1. ~(z > o) /\ ~(o > z)
      BY <2>2, <2>3
    <3> QED
      BY <2>1, <2>3, <3>1, Zenon DEF z, o
  <2>4. CASE ~(z = None /\ o = None) /\ z > o
    <3>1. ~(o > z)
      BY <2>2, <2>4
    <3> QED
      BY <2>1, <2>4, <3>1, Zenon DEF z, o
  <2>5. CASE ~(z = None /\ o = None) /\ ~(z > o) /\ o > z
    BY <2>1, <2>5, Zenon DEF z, o
  <2>6. CASE ~(z = None /\ o = None) /\ ~(z > o) /\ ~(o > z)
    BY <2>1, <2>6, Zenon DEF z, o
  <2> QED
    BY <2>3, <2>4, <2>5, <2>6
<1>a. \A idle : Agreed(bits, idle) =
        IF no0 /\ no1 THEN idle ELSE IF no1 THEN "0" ELSE IF no0 THEN "1" ELSE "X"
  <2> SUFFICES ASSUME NEW idle
               PROVE  Agreed(bits, idle) =
                        IF no0 /\ no1 THEN idle ELSE IF no1 THEN "0" ELSE IF no0 THEN "1" ELSE "X"
    OBVIOUS
  <2> HIDE DEF bits
  <2>1. /\ bits \cap {"0", "1", "X"} = {} <=> no0 /\ no1
        /\ bits \cap {"0", "1", "X"} = {"0"} <=> no1 /\ ~no0
        /\ bits \cap {"0", "1", "X"} = {"1"} <=> no0 /\ ~no1
    OBVIOUS
  <2> QED
    BY <2>1 DEF Agreed
<1>b. kind \notin {"wand", "triand", "wor", "trior"} =>
        ResolveBit(kind, previous, ds) = RegularBit(kind, previous, ds)
  BY DEF ResolveBit
<1>1. CASE kind \in {"wand", "triand", "wor", "trior"}
  BY <1>1 DEF ResolveBit, NetBit, WiredBit, Wired
<1>2. CASE kind \in {"wire", "tri", "uwire", "trireg"}
  <2>1. D = ds
    <3>1. ImplicitDrivers(kind) = <<>>
      BY <1>2 DEF ImplicitDrivers
    <3>2. ds \in Seq({ds[n] : n \in DOMAIN ds})
      BY DEF IsStrong, IsSequence
    <3> QED
      BY <3>1, <3>2
  <2>2. /\ ZeroStrength(D) = IF no0 THEN None ELSE Strong
        /\ OneStrength(D) = IF no1 THEN None ELSE Strong
    <3>1. /\ ZeroStrength(ds) = Strongest(Given(ds, {"0", "X"}))
          /\ OneStrength(ds) = Strongest(Given(ds, {"1", "X"}))
      BY StrongSides
    <3>2. /\ Strongest(Given(ds, {"0", "X"})) = IF no0 THEN None ELSE Strong
          /\ Strongest(Given(ds, {"1", "X"})) = IF no1 THEN None ELSE Strong
      BY GivenStrength
    <3> HIDE DEF D, no0, no1
    <3> QED
      BY <2>1, <3>1, <3>2
  <2>3. NetBit(kind, previous, bits) = Agreed(bits, IF kind = "trireg" THEN previous ELSE "Z")
    BY <1>2 DEF NetBit
  <2> HIDE DEF bits, D
  <2> QED
    BY <1>s, <1>r, <1>a, <1>b, <1>2, <2>2, <2>3 DEF bits
<1>3. CASE kind \in {"tri0", "tri1", "supply0", "supply1"}
  <2> DEFINE bit == IF kind \in {"tri0", "supply0"} THEN "0" ELSE "1"
             s   == IF kind \in {"tri0", "tri1"} THEN Pull ELSE Supply
             e   == [bit |-> bit, zero |-> s, one |-> s]
  <2>1. D = <<e>> \o ds
    BY <1>3 DEF ImplicitDrivers
  <2>2. e.bit = bit /\ e.zero = s /\ e.one = s
    OBVIOUS
  <2> HIDE DEF e, D
  <2>3. /\ ZeroStrength(D) =
             Strongest((IF bit \in {"0", "X"} THEN {s} ELSE {}) \cup Given(ds, {"0", "X"}))
        /\ OneStrength(D) =
             Strongest((IF bit \in {"1", "X"} THEN {s} ELSE {}) \cup Given(ds, {"1", "X"}))
    BY <2>1, <2>2, ImplicitSides
  <2>4. CASE kind = "tri0"
    <3>1. /\ ZeroStrength(D) = IF no0 THEN Pull ELSE Strong
          /\ OneStrength(D) = IF no1 THEN None ELSE Strong
      BY <2>3, <2>4, GivenStrength
    <3>2. NetBit(kind, previous, bits) = Agreed(bits, "0")
      BY <2>4 DEF NetBit
    <3> HIDE DEF bits
    <3> QED
      BY <1>s, <1>r, <1>a, <1>b, <2>4, <3>1, <3>2 DEF bits
  <2>5. CASE kind = "tri1"
    <3>1. /\ ZeroStrength(D) = IF no0 THEN None ELSE Strong
          /\ OneStrength(D) = IF no1 THEN Pull ELSE Strong
      BY <2>3, <2>5, GivenStrength
    <3>2. NetBit(kind, previous, bits) = Agreed(bits, "1")
      BY <2>5 DEF NetBit
    <3> HIDE DEF bits
    <3> QED
      BY <1>s, <1>r, <1>a, <1>b, <2>5, <3>1, <3>2 DEF bits
  <2>6. CASE kind = "supply0"
    <3>1. /\ ZeroStrength(D) = Supply
          /\ OneStrength(D) = IF no1 THEN None ELSE Strong
      BY <2>3, <2>6, GivenStrength
    <3>2. NetBit(kind, previous, bits) = "0"
      BY <2>6 DEF NetBit
    <3> HIDE DEF bits
    <3> QED
      BY <1>s, <1>r, <1>b, <2>6, <3>1, <3>2 DEF bits
  <2>7. CASE kind = "supply1"
    <3>1. /\ ZeroStrength(D) = IF no0 THEN None ELSE Strong
          /\ OneStrength(D) = Supply
      BY <2>3, <2>7, GivenStrength
    <3>2. NetBit(kind, previous, bits) = "1"
      BY <2>7 DEF NetBit
    <3> HIDE DEF bits
    <3> QED
      BY <1>s, <1>r, <1>b, <2>7, <3>1, <3>2 DEF bits
  <2> QED
    BY <1>3, <2>4, <2>5, <2>6, <2>7
<1> QED
  BY <1>1, <1>2, <1>3 DEF NetKinds

-----------------------------------------------------------------------------
(* Nets at the end of a settle.                                            *)

\* The drivers of every object, and the writes of outputs to their targets, are
\* what the pass has put there.
FromSink(w) ==
  \E c \in Instance : \E k \in 1..Len(Design[c].sinks) :
    \E n \in 1..Len(Design[c].sinks[k].target.leaves) :
      w.inst = Parent(c) /\ w.leaf = Design[c].sinks[k].target.leaves[n]

Items(s) == {s[m] : m \in 1..Len(s)}

Justifies(w) == w.op = "sink leaf" => FromSink(w)

DriversStaged == \A o \in Object : IsSequence(drivers[o])
SinksWritten  == \A w \in Items(todo) : Justifies(w)

StagedInv == InSettle => DriversStaged /\ SinksWritten

\* What the drivers of a net contribute to one of its bits is strong.
LEMMA DriversAreStrong ==
  ASSUME NEW o, IsSequence(drivers[o]), NEW k
  PROVE  /\ IsStrong(AtBit(DriversOf(o), k))
         /\ BitsOf(AtBit(DriversOf(o), k)) = {BitOf(drivers[o][n], k) : n \in 1..Len(drivers[o])}
<1> DEFINE m == Len(drivers[o])
           ds == DriversOf(o)
           bs == AtBit(ds, k)
<1>1. m \in Nat
  BY SequenceLength
<1>2. ds = [n \in 1..m |-> StrongDriver(drivers[o][n])] /\ Len(ds) = m
  BY <1>1 DEF DriversOf
<1>3. \A n \in 1..m : /\ ds[n].value = drivers[o][n]
                      /\ ds[n].zero = Strong /\ ds[n].one = Strong
  BY <1>2 DEF StrongDriver, NetDriver
<1> HIDE DEF ds, m
<1>4. bs = [n \in 1..m |-> [bit |-> BitOf(ds[n].value, k), zero |-> ds[n].zero, one |-> ds[n].one]]
  BY <1>2 DEF AtBit
<1>5. IsSequence(bs) /\ Len(bs) = m
  BY <1>1, <1>4, FunctionIsSequence
<1>6. \A n \in 1..m : /\ bs[n].bit = BitOf(drivers[o][n], k)
                      /\ bs[n].zero = Strong /\ bs[n].one = Strong
  BY <1>3, <1>4
<1> HIDE DEF bs
<1>7. IsStrong(bs)
  BY <1>5, <1>6 DEF IsStrong
<1>8. BitsOf(bs) = {BitOf(drivers[o][n], k) : n \in 1..m}
  BY <1>5, <1>6 DEF BitsOf
<1> QED
  BY <1>7, <1>8 DEF bs, ds, m

\* So the nets a settle ends with are resolved.
LEMMA QuietNets == ASSUME IInv, StagedInv, Converged PROVE NetsResolved
<1> SUFFICES ASSUME NEW o \in Object, IsNet(o), NEW k \in 1..Layouts[o].width
             PROVE  frame[o][k] = NetBit(Layouts[o].storage, frame[o][k],
                                         {BitOf(drivers[o][n], k) : n \in 1..Len(drivers[o])})
  BY DEF NetsResolved
<1> DEFINE kind == Layouts[o].storage
           w    == Layouts[o].width
           ds   == DriversOf(o)
<1>1. InSettle /\ Resolved = frame
  BY DEF Converged, EndOfPass, Quiet
<1>2. frame[o] = ResolveNet(kind, w, frame[o], ds)
  <2>1. Resolved[o] = ResolveNet(kind, w, frame[o], ds)
    BY DEF Resolved
  <2> QED
    BY <1>1, <2>1
<1>3. kind \in NetKinds /\ w \in Nat
  BY HierarchyAssumption DEF IsNet
<1>4. frame[o] = [j \in 1..w |-> ResolveBit(kind, BitOf(frame[o], j), AtBit(ds, j))]
  BY <1>2 DEF ResolveNet
<1> HIDE DEF ds, kind, w
<1>5. Len(frame[o]) = w
  <2> DEFINE g == frame[o]
  <2>1. g = [j \in 1..w |-> g[j]]
    BY <1>4
  <2> HIDE DEF g
  <2>2. Len(g) = w
    BY <1>3, <2>1, FunctionIsSequence
  <2> QED
    BY <2>2 DEF g
<1>6. BitOf(frame[o], k) = frame[o][k]
  BY <1>5 DEF BitOf, w
<1>7. frame[o][k] = ResolveBit(kind, frame[o][k], AtBit(ds, k))
  BY <1>4, <1>6 DEF w
<1>8. IsSequence(drivers[o])
  BY <1>1 DEF StagedInv, DriversStaged
<1>9. ResolveBit(kind, frame[o][k], AtBit(ds, k)) = NetBit(kind, frame[o][k], BitsOf(AtBit(ds, k)))
  BY <1>3, <1>8, DriversAreStrong, StrongBit DEF ds
<1> QED
  BY <1>7, <1>8, <1>9, DriversAreStrong DEF ds, kind

-----------------------------------------------------------------------------
(* The work of a pass as a set of items.                                   *)

\* The items of work followed by other work.
LEMMA JoinedItems ==
  ASSUME NEW s, IsSequence(s), NEW t, IsSequence(t), NEW r, Joins(r, s, t)
  PROVE  IsSequence(r) /\ Items(r) = Items(s) \cup Items(t)
<1>1. /\ IsSequence(r) /\ Len(s) \in Nat /\ Len(t) \in Nat
      /\ Len(r) = Len(s) + Len(t)
      /\ \A k \in 1..Len(s) : r[k] = s[k]
      /\ \A k \in 1..Len(t) : r[Len(s) + k] = t[k]
  BY Joined
<1>2. ASSUME NEW k \in 1..Len(r) PROVE r[k] \in Items(s) \cup Items(t)
  <2>1. CASE k <= Len(s)
    BY <1>1, <2>1 DEF Items
  <2>2. CASE ~(k <= Len(s))
    <3>1. k - Len(s) \in 1..Len(t) /\ k = Len(s) + (k - Len(s))
      BY <1>1, <2>2
    <3> QED
      BY <1>1, <3>1 DEF Items
  <2> QED
    BY <2>1, <2>2
<1>3. \A k \in 1..Len(s) : s[k] \in Items(r)
  BY <1>1 DEF Items
<1>4. ASSUME NEW k \in 1..Len(t) PROVE t[k] \in Items(r)
  <2>1. Len(s) + k \in 1..Len(r) /\ r[Len(s) + k] = t[k]
    BY <1>1
  <2> QED
    BY <2>1 DEF Items
<1> QED
  BY <1>1, <1>2, <1>3, <1>4 DEF Items

\* The items of work whose head becomes other work.
LEMMA ItemsReplaced ==
  ASSUME NEW s, IsSequence(s), s # <<>>, NEW t, IsSequence(t), NEW r, Replaces(r, s, t)
  PROVE  /\ Items(t) \subseteq Items(r)
         /\ \A w \in Items(s) : w \in Items(r) \/ w = Head(s)
         /\ Items(r) \subseteq Items(t) \cup Items(s)
<1>1. /\ Len(t) \in Nat /\ Len(s) \in Nat \ {0} /\ Len(r) \in Nat
      /\ Head(s) = s[1]
      /\ \A k \in 1..Len(t) : k \in 1..Len(r) /\ r[k] = t[k]
      /\ \A k \in 2..Len(s) : Len(t) + k - 1 \in 1..Len(r) /\ r[Len(t) + k - 1] = s[k]
      /\ \A k \in 1..Len(r) : k > Len(t) =>
           k - Len(t) + 1 \in 2..Len(s) /\ r[k] = s[k - Len(t) + 1]
  BY Replaced
<1>2. \A k \in 1..Len(t) : t[k] \in Items(r)
  BY <1>1 DEF Items
<1>3. ASSUME NEW k \in 1..Len(s) PROVE s[k] \in Items(r) \/ s[k] = Head(s)
  <2>1. CASE k = 1
    BY <1>1, <2>1
  <2>2. CASE k # 1
    <3>1. k \in 2..Len(s)
      BY <1>1, <2>2
    <3>2. Len(t) + k - 1 \in 1..Len(r) /\ r[Len(t) + k - 1] = s[k]
      BY <1>1, <3>1
    <3> QED
      BY <3>2 DEF Items
  <2> QED
    BY <2>1, <2>2
<1>4. ASSUME NEW k \in 1..Len(r) PROVE r[k] \in Items(t) \cup Items(s)
  <2>1. CASE k > Len(t)
    <3>1. k - Len(t) + 1 \in 2..Len(s) /\ r[k] = s[k - Len(t) + 1]
      BY <1>1, <2>1
    <3>2. k - Len(t) + 1 \in 1..Len(s)
      BY <1>1, <3>1
    <3> QED
      BY <3>1, <3>2 DEF Items
  <2>2. CASE ~(k > Len(t))
    <3>1. k \in 1..Len(t)
      BY <1>1, <2>2
    <3> QED
      BY <1>1, <3>1 DEF Items
  <2> QED
    BY <2>1, <2>2
<1> QED
  BY <1>2, <1>3, <1>4 DEF Items

\* The items of no work, of one item, and of a list.
LEMMA ListedItems ==
  /\ IsSequence(<<>>) /\ Items(<<>>) = {}
  /\ \A w : IsSequence(<<w>>) /\ Items(<<w>>) = {w}
  /\ \A n \in Nat : \A s : s = [k \in 1..n |-> s[k]] =>
       IsSequence(s) /\ Items(s) = {s[k] : k \in 1..n}
<1>1. IsSequence(<<>>) /\ Items(<<>>) = {}
  <2>1. <<>> \in Seq({}) /\ 1..Len(<<>>) = {}
    OBVIOUS
  <2> QED
    BY <2>1, SeqIsSequence DEF Items
<1>2. ASSUME NEW w PROVE IsSequence(<<w>>) /\ Items(<<w>>) = {w}
  <2>1. <<w>> \in Seq({w}) /\ Len(<<w>>) = 1 /\ <<w>>[1] = w
    OBVIOUS
  <2>2. IsSequence(<<w>>)
    BY <2>1, SeqIsSequence
  <2> QED
    BY <2>1, <2>2 DEF Items
<1>3. ASSUME NEW n \in Nat, NEW s, s = [k \in 1..n |-> s[k]]
      PROVE  IsSequence(s) /\ Items(s) = {s[k] : k \in 1..n}
  <2>1. IsSequence(s) /\ Len(s) = n
    BY <1>3, FunctionIsSequence
  <2> QED
    BY <2>1 DEF Items
<1> QED
  BY <1>1, <1>2, <1>3

\* The work of a pass: an item for every input, and the top module.
LEMMA PassItems ==
  /\ IsSequence(PassWork)
  /\ Items(PassWork) =
       {[op |-> "input", inst |-> Top, name |-> DrivenFromOutside[k].name] :
          k \in 1..Len(DrivenFromOutside)} \cup {Item("module", Top)}
<1> DEFINE s == [k \in 1..Len(DrivenFromOutside) |->
                   [op |-> "input", inst |-> Top, name |-> DrivenFromOutside[k].name]]
           t == <<Item("module", Top)>>
<1>1. Len(DrivenFromOutside) \in Nat
  BY DesignAssumption, SequenceLength DEF DrivenFromOutside
<1>2. s = [k \in 1..Len(DrivenFromOutside) |-> s[k]]
  OBVIOUS
<1>3. \A k \in 1..Len(DrivenFromOutside) :
        s[k] = [op |-> "input", inst |-> Top, name |-> DrivenFromOutside[k].name]
  OBVIOUS
<1>4. Joins(PassWork, s, t)
  BY DEF PassWork, Joins
<1>5. IsSequence(t) /\ Items(t) = {Item("module", Top)}
  BY ListedItems
<1> HIDE DEF s, t
<1>6. IsSequence(s) /\ Items(s) = {s[k] : k \in 1..Len(DrivenFromOutside)}
  BY <1>1, <1>2, ListedItems
<1>7. IsSequence(PassWork) /\ Items(PassWork) = Items(s) \cup Items(t)
  BY <1>4, <1>5, <1>6, JoinedItems
<1> QED
  BY <1>3, <1>5, <1>6, <1>7

\* The work of a module: its code, and an item for every child.
LEMMA ModuleItems ==
  ASSUME NEW i \in Instance
  PROVE  /\ IsSequence(ModuleWork(i))
         /\ \A k \in 1..Len(Design[i].children) :
              Item("child", Design[i].children[k]) \in Items(ModuleWork(i))
         /\ \A w \in Items(ModuleWork(i)) : w.op \in {"assign", "comb", "commit", "child"}
<1> DEFINE as == [k \in 1..Len(Design[i].assigns) |-> ItemAt("assign", i, k)]
           bs == [k \in 1..Len(Design[i].blocks) |-> ItemAt("comb", i, k)]
           co == [op |-> "commit", inst |-> i, done |-> {}]
           cs == [k \in 1..Len(Design[i].children) |-> Item("child", Design[i].children[k])]
           cm == <<co>>
           s1 == as \o bs
           s2 == s1 \o cm
           s3 == s2 \o cs
<1>1. /\ Len(Design[i].assigns) \in Nat
      /\ Len(Design[i].blocks) \in Nat
      /\ Len(Design[i].children) \in Nat
  BY DesignAssumption, SequenceLength
<1>2. \A k \in 1..Len(Design[i].assigns) : as[k].op = "assign"
  BY ItemParts
<1>3. \A k \in 1..Len(Design[i].blocks) : bs[k].op = "comb"
  BY ItemParts
<1>4. co.op = "commit"
  OBVIOUS
<1>5. \A k \in 1..Len(Design[i].children) :
        cs[k] = Item("child", Design[i].children[k]) /\ cs[k].op = "child"
  BY ItemParts
<1>6. /\ as = [k \in 1..Len(Design[i].assigns) |-> as[k]]
      /\ bs = [k \in 1..Len(Design[i].blocks) |-> bs[k]]
      /\ cs = [k \in 1..Len(Design[i].children) |-> cs[k]]
  OBVIOUS
<1>7. ModuleWork(i) = s3
  BY DEF ModuleWork
<1>8. Joins(s1, as, bs) /\ Joins(s2, s1, cm) /\ Joins(s3, s2, cs)
  BY DEF Joins
<1>0. IsSequence(cm) /\ Items(cm) = {co}
  BY ListedItems
<1> HIDE DEF as, bs, co, cs, cm, s1, s2, s3
<1>9. /\ IsSequence(as) /\ Items(as) = {as[k] : k \in 1..Len(Design[i].assigns)}
      /\ IsSequence(bs) /\ Items(bs) = {bs[k] : k \in 1..Len(Design[i].blocks)}
      /\ IsSequence(cs) /\ Items(cs) = {cs[k] : k \in 1..Len(Design[i].children)}
  BY <1>1, <1>6, ListedItems
<1>10. IsSequence(s1) /\ Items(s1) = Items(as) \cup Items(bs)
  BY <1>8, <1>9, JoinedItems
<1>11. IsSequence(s2) /\ Items(s2) = Items(s1) \cup {co}
  <2>1. IsSequence(s1) /\ IsSequence(cm) /\ Joins(s2, s1, cm)
    BY <1>8, <1>0, <1>10
  <2>2. IsSequence(s2) /\ Items(s2) = Items(s1) \cup Items(cm)
    BY <2>1, JoinedItems
  <2> QED
    BY <1>0, <2>2
<1>12. IsSequence(s3) /\ Items(s3) = Items(s2) \cup Items(cs)
  BY <1>8, <1>9, <1>11, JoinedItems
<1>13. ASSUME NEW w \in Items(s3) PROVE w.op \in {"assign", "comb", "commit", "child"}
  <2>1. w \in Items(as) \/ w \in Items(bs) \/ w = co \/ w \in Items(cs)
    BY <1>10, <1>11, <1>12
  <2> QED
    BY <1>2, <1>3, <1>4, <1>5, <1>9, <2>1
<1>14. \A k \in 1..Len(Design[i].children) : Item("child", Design[i].children[k]) \in Items(s3)
  BY <1>5, <1>9, <1>12
<1> QED
  BY <1>7, <1>12, <1>13, <1>14

\* The writes of a target, one for each leaf.
LeafWrites(op, i, target, value) ==
  {LeafItem(op, i, target.leaves[k], LeafBits(target, target.leaves[k], value)) :
     k \in 1..Len(target.leaves)}

\* They are the work of an assignment to it.
LEMMA LeafItemsItems ==
  ASSUME NEW op, NEW i, NEW target, IsSequence(target.leaves), NEW value
  PROVE  /\ IsSequence(LeafItems(op, i, target, value))
         /\ Items(LeafItems(op, i, target, value)) = LeafWrites(op, i, target, value)
<1> DEFINE t == LeafItems(op, i, target, value)
           w(k) == LeafItem(op, i, target.leaves[k], LeafBits(target, target.leaves[k], value))
           n == Len(target.leaves)
<1>1. n \in Nat
  BY SequenceLength
<1> HIDE DEF w
<1>2. t = [k \in 1..n |-> w(k)]
  BY DEF LeafItems, w
<1>3. t = [k \in 1..n |-> t[k]] /\ \A k \in 1..n : t[k] = w(k)
  BY <1>2
<1> HIDE DEF t, n
<1>4. IsSequence(t) /\ Items(t) = {t[k] : k \in 1..n}
  BY <1>1, <1>3, ListedItems
<1>5. Items(t) = {w(k) : k \in 1..n}
  BY <1>3, <1>4
<1> QED
  BY <1>4, <1>5 DEF t, n, w, LeafWrites

\* The work of a child: its inputs, its module, its outputs.
LEMMA ChildItems ==
  ASSUME NEW c \in Instance
  PROVE  /\ IsSequence(ChildWork(c))
         /\ Items(ChildWork(c)) =
              {ItemAt("drive", c, k) : k \in 1..Len(Design[c].drivers)} \cup {Item("module", c)}
                \cup {ItemAt("sink", c, k) : k \in 1..Len(Design[c].sinks)}
<1> DEFINE ds == [k \in 1..Len(Design[c].drivers) |-> ItemAt("drive", c, k)]
           ss == [k \in 1..Len(Design[c].sinks) |-> ItemAt("sink", c, k)]
           mo == Item("module", c)
           s1 == ds \o <<mo>>
           s2 == s1 \o ss
<1>1. Len(Design[c].drivers) \in Nat /\ Len(Design[c].sinks) \in Nat
  BY DesignAssumption, SequenceLength
<1>2. /\ \A k \in 1..Len(Design[c].drivers) : ds[k] = ItemAt("drive", c, k)
      /\ \A k \in 1..Len(Design[c].sinks) : ss[k] = ItemAt("sink", c, k)
  OBVIOUS
<1>3. /\ ds = [k \in 1..Len(Design[c].drivers) |-> ds[k]]
      /\ ss = [k \in 1..Len(Design[c].sinks) |-> ss[k]]
  OBVIOUS
<1>4. ChildWork(c) = s2
  BY DEF ChildWork
<1>5. Joins(s1, ds, <<mo>>) /\ Joins(s2, s1, ss)
  BY DEF Joins
<1> HIDE DEF ds, ss, mo, s1, s2
<1>6. /\ IsSequence(ds) /\ Items(ds) = {ds[k] : k \in 1..Len(Design[c].drivers)}
      /\ IsSequence(ss) /\ Items(ss) = {ss[k] : k \in 1..Len(Design[c].sinks)}
      /\ IsSequence(<<mo>>) /\ Items(<<mo>>) = {mo}
  BY <1>1, <1>3, ListedItems
<1>7. IsSequence(s1) /\ Items(s1) = Items(ds) \cup {mo}
  BY <1>5, <1>6, JoinedItems
<1>8. IsSequence(s2) /\ Items(s2) = Items(s1) \cup Items(ss)
  BY <1>5, <1>6, <1>7, JoinedItems
<1> QED
  BY <1>2, <1>4, <1>6, <1>7, <1>8 DEF mo

-----------------------------------------------------------------------------
(* What an action of a pass does to its work and its drivers.              *)

\* The drivers that nothing replaces stay where they are.
DriversGrow ==
  \A o \in Object : ~IsReplaced(o) =>
    \A n \in 1..Len(drivers[o]) : n \in 1..Len(drivers'[o]) /\ drivers'[o][n] = drivers[o][n]

Moves(t) ==
  /\ IsSequence(t) /\ Replaces(todo', todo, t)
  /\ \A w \in Items(t) : Justifies(w)
  /\ DriversStaged' /\ DriversGrow

\* A driver more at the end of those of a net.
LEMMA AppendGrows ==
  ASSUME NEW s, IsSequence(s), NEW v
  PROVE  /\ IsSequence(Append(s, v))
         /\ Len(s) \in Nat /\ Len(Append(s, v)) = Len(s) + 1
         /\ Append(s, v)[Len(s) + 1] = v
         /\ \A n \in 1..Len(s) : n \in 1..Len(Append(s, v)) /\ Append(s, v)[n] = s[n]
<1> DEFINE S == {s[k] : k \in DOMAIN s} \cup {v}
<1>1. s \in Seq(S) /\ v \in S
  <2>1. s \in Seq({s[k] : k \in DOMAIN s})
    BY DEF IsSequence
  <2> QED
    BY <2>1
<1> HIDE DEF S
<1>2. Append(s, v) \in Seq(S) /\ Len(s) \in Nat /\ Len(Append(s, v)) = Len(s) + 1
  BY <1>1
<1>3. \A n \in 1..(Len(s) + 1) : Append(s, v)[n] = IF n = Len(s) + 1 THEN v ELSE s[n]
  BY <1>1, <1>2
<1>4. IsSequence(Append(s, v))
  BY <1>2, SeqIsSequence
<1> DEFINE r == Append(s, v)
<1> HIDE DEF r
<1>5. \A n \in 1..Len(s) : n \in 1..Len(r) /\ r[n] = s[n]
  BY <1>2, <1>3 DEF r
<1>6. r[Len(s) + 1] = v
  BY <1>2, <1>3 DEF r
<1> QED
  BY <1>2, <1>4, <1>5, <1>6 DEF r

\* Staging adds a driver; one that is replaced is of an object of that kind.
LEMMA StageGrows ==
  ASSUME NEW o, NEW v, DriversStaged, DOMAIN drivers = Object,
         \/ StageDriver(o, v)
         \/ UNCHANGED drivers
         \/ ReplaceDriver(o, v) /\ IsReplaced(o)
  PROVE  DriversStaged' /\ DriversGrow
<1>1. CASE StageDriver(o, v)
  <2>1. \A p \in Object : drivers'[p] = IF p = o THEN Append(drivers[p], v) ELSE drivers[p]
    BY <1>1 DEF StageDriver
  <2>2. \A p \in Object : /\ IsSequence(drivers'[p])
                          /\ \A n \in 1..Len(drivers[p]) :
                               n \in 1..Len(drivers'[p]) /\ drivers'[p][n] = drivers[p][n]
    <3> SUFFICES ASSUME NEW p \in Object
                 PROVE  /\ IsSequence(drivers'[p])
                        /\ \A n \in 1..Len(drivers[p]) :
                             n \in 1..Len(drivers'[p]) /\ drivers'[p][n] = drivers[p][n]
      OBVIOUS
    <3>1. IsSequence(drivers[p])
      BY DEF DriversStaged
    <3>2. CASE p = o
      <4>1. drivers'[p] = Append(drivers[p], v)
        BY <2>1, <3>2
      <4>2. /\ IsSequence(Append(drivers[p], v))
            /\ \A n \in 1..Len(drivers[p]) : /\ n \in 1..Len(Append(drivers[p], v))
                                             /\ Append(drivers[p], v)[n] = drivers[p][n]
        BY <3>1, AppendGrows
      <4> QED
        BY <4>1, <4>2, Zenon
    <3>3. CASE p # o
      BY <2>1, <3>1, <3>3
    <3> QED
      BY <3>2, <3>3
  <2> QED
    BY <2>2 DEF DriversStaged, DriversGrow
<1>2. CASE UNCHANGED drivers
  BY <1>2 DEF DriversStaged, DriversGrow
<1>3. CASE ReplaceDriver(o, v) /\ IsReplaced(o)
  <2>1. \A p \in Object : drivers'[p] = IF p = o THEN <<v>> ELSE drivers[p]
    BY <1>3 DEF ReplaceDriver
  <2>2. IsSequence(<<v>>)
    BY ListedItems
  <2>3. \A p \in Object : IsSequence(drivers'[p])
    <3> SUFFICES ASSUME NEW p \in Object PROVE IsSequence(drivers'[p])
      OBVIOUS
    <3>1. CASE p = o
      BY <2>1, <2>2, <3>1
    <3>2. CASE p # o
      BY <2>1, <3>2 DEF DriversStaged
    <3> QED
      BY <3>1, <3>2
  <2>4. \A p \in Object : ~IsReplaced(p) => drivers'[p] = drivers[p]
    BY <1>3, <2>1
  <2> QED
    BY <2>3, <2>4 DEF DriversStaged, DriversGrow
<1> QED
  BY <1>1, <1>2, <1>3

\* What holds while a pass works on an item.
LEMMA DoingInPass ==
  ASSUME IInv, StagedInv, NEW op \in SettleOps, Doing(op)
  PROVE  /\ InSettle /\ todo # <<>> /\ IsSequence(todo)
         /\ Head(todo).op = op /\ IsItem(Head(todo)) /\ Head(todo) \in Items(todo)
         /\ DriversStaged /\ SinksWritten /\ DOMAIN drivers = Object
<1>1. /\ InSettle /\ todo # <<>> /\ Head(todo).op = op /\ IsItem(Head(todo))
      /\ IsStack(todo, SettleOps) /\ DOMAIN drivers = Object
  BY DoingInSettle
<1>2. IsSequence(todo)
  BY <1>1 DEF IsStack
<1>3. Head(todo) = todo[1] /\ 1 \in 1..Len(todo)
  BY <1>1, <1>2, IsSequenceHead
<1> QED
  BY <1>1, <1>2, <1>3 DEF StagedInv, Items

\* An action that pops its item and stages at most one driver,
LEMMA PopMoves ==
  ASSUME IInv, StagedInv, NEW op \in SettleOps, Doing(op), Pop, NEW o, NEW v,
         \/ StageDriver(o, v)
         \/ UNCHANGED drivers
         \/ ReplaceDriver(o, v) /\ IsReplaced(o)
  PROVE  Moves(<<>>)
<1>1. todo # <<>> /\ IsSequence(todo) /\ DriversStaged /\ DOMAIN drivers = Object
  BY DoingInPass
<1>2. DriversStaged' /\ DriversGrow
  BY <1>1, StageGrows
<1>3. Replaces(todo', todo, <<>>) /\ IsSequence(<<>>)
  BY <1>1, PopReplaces DEF Pop, Replaces
<1> QED
  BY <1>2, <1>3, ListedItems DEF Moves

\* and one that pushes work in its place.
LEMMA PushMoves ==
  ASSUME IInv, StagedInv, NEW op \in SettleOps, Doing(op),
         NEW t, IsSequence(t), \A w \in Items(t) : Justifies(w), todo' = t \o Tail(todo),
         NEW o, NEW v,
         \/ StageDriver(o, v)
         \/ UNCHANGED drivers
         \/ ReplaceDriver(o, v) /\ IsReplaced(o)
  PROVE  Moves(t)
<1>1. DriversStaged /\ DOMAIN drivers = Object
  BY DoingInPass
<1>2. DriversStaged' /\ DriversGrow
  BY <1>1, StageGrows
<1> QED
  BY <1>2 DEF Moves, Replaces

WritesNoOutput(ops) == "sink leaf" \notin ops

\* A stack of work that writes no output is justified.
LEMMA StackJustified ==
  ASSUME NEW ops, WritesNoOutput(ops), NEW t, IsStack(t, ops)
  PROVE  IsSequence(t) /\ \A w \in Items(t) : Justifies(w)
<1>1. IsSequence(t) /\ \A k \in 1..Len(t) : t[k].op \in ops
  BY DEF IsStack
<1>2. \A w \in Items(t) : w.op \in ops
  BY <1>1 DEF Items
<1> QED
  BY <1>1, <1>2, Zenon DEF Justifies, WritesNoOutput

\* Actions that pop their item: inputs, writes of leaves, the end of a commit.
LEMMA PoppingMoves ==
  ASSUME IInv, StagedInv,
         ApplyInput \/ AssignLeaf \/ CombLeaf \/ EndCommit \/ DriveInput
  PROVE  Moves(<<>>)
<1>1. CASE ApplyInput
  <2> DEFINE d == DeclOf(Top, Head1.name)
             b == Binding(Top, d.name)
  <2>1. "input" \in SettleOps /\ Doing("input") /\ Pop
    BY <1>1 DEF SettleOps, ApplyInput
  <2>2. \E v : StageDriver(b.obj, v) \/ UNCHANGED drivers
    BY <1>1 DEF ApplyInput, DriveBinding
  <2> QED
    BY <2>1, <2>2, PopMoves
<1>2. CASE AssignLeaf
  <2>1. "assign leaf" \in SettleOps /\ Doing("assign leaf") /\ Pop
    BY <1>2, Zenon DEF SettleOps, AssignLeaf
  <2>2. \E o, v : StageDriver(o, v) \/ UNCHANGED drivers
    BY <1>2 DEF AssignLeaf
  <2> QED
    BY <2>1, <2>2, PopMoves, Zenon
<1>3. CASE CombLeaf
  <2>1. "comb leaf" \in SettleOps /\ Doing("comb leaf") /\ Pop
    BY <1>3, Zenon DEF SettleOps, CombLeaf
  <2>2. UNCHANGED drivers
    BY <1>3 DEF CombLeaf
  <2> QED
    BY <2>1, <2>2, PopMoves, Zenon
<1>4. CASE EndCommit
  <2>1. "commit" \in SettleOps /\ Doing("commit") /\ Pop
    BY <1>4, Zenon DEF SettleOps, EndCommit
  <2>2. UNCHANGED drivers
    BY <1>4 DEF EndCommit, settling
  <2> QED
    BY <2>1, <2>2, PopMoves, Zenon
<1>5. CASE DriveInput
  <2>1. "drive" \in SettleOps /\ Doing("drive") /\ Pop
    BY <1>5, Zenon DEF SettleOps, DriveInput
  <2>2. \E o, v : StageDriver(o, v) \/ UNCHANGED drivers
    BY <1>5 DEF DriveInput, DriveBinding
  <2> QED
    BY <2>1, <2>2, PopMoves, Zenon
<1> QED
  BY <1>1, <1>2, <1>3, <1>4, <1>5

\* The write of an output to a leaf of its target replaces the drivers of a net
\* only under a name that is no net.
LEMMA SinkLeafMoves == ASSUME IInv, StagedInv, SinkLeaf PROVE Moves(<<>>)
<1> DEFINE i == Head1.inst
           leaf == Head1.leaf
           b == Binding(i, leaf.name)
           v == Merged(leaf, ReadBinding(b, frame), Head1.bits)
<1>1. "sink leaf" \in SettleOps /\ Doing("sink leaf") /\ Pop
  BY Zenon DEF SettleOps, SinkLeaf
<1>2. FromSink(Head(todo))
  <2>1. SinksWritten /\ Head(todo) \in Items(todo) /\ Head(todo).op = "sink leaf"
    BY <1>1, DoingInPass, Zenon
  <2> QED
    BY <2>1, Zenon DEF SinksWritten, Justifies
<1>3. CASE NetSignal(i, leaf.name)
  <2>1. StageDriver(b.obj, LeafDriver(i, leaf, Head1.bits))
    BY <1>3 DEF SinkLeaf
  <2> QED
    BY <1>1, <2>1, PopMoves, Zenon
<1>4. CASE ~NetSignal(i, leaf.name)
  <2>1. ReplaceDriver(b.obj, Stored(b, v)) \/ UNCHANGED drivers
    BY <1>4 DEF SinkLeaf
  <2>2. IsReplaced(b.obj)
    <3>1. PICK c \in Instance : \E k \in 1..Len(Design[c].sinks) :
            \E n \in 1..Len(Design[c].sinks[k].target.leaves) :
              i = Parent(c) /\ leaf = Design[c].sinks[k].target.leaves[n]
      BY <1>2 DEF FromSink, Head1
    <3>2. PICK k \in 1..Len(Design[c].sinks) :
            \E n \in 1..Len(Design[c].sinks[k].target.leaves) :
              i = Parent(c) /\ leaf = Design[c].sinks[k].target.leaves[n]
      BY <3>1
    <3> HIDE DEF i, leaf
    <3> QED
      BY <1>4, <3>2 DEF IsReplaced
  <2> QED
    BY <1>1, <2>1, <2>2, PopMoves, Zenon
<1> QED
  BY <1>3, <1>4

\* A commit replaces drivers only under a name whose drivers it may replace.
LEMMA CommitMoves ==
  ASSUME IInv, StagedInv, CommitName \/ RefreshName
  PROVE  \E t : Moves(t)
<1> DEFINE i == Head1.inst
<1>1. "commit" \in SettleOps /\ Doing("commit")
  BY Zenon DEF SettleOps, CommitName, RefreshName
<1>2. i \in Instance /\ Head1.op = "commit"
  BY <1>1, DoingInPass, Zenon DEF IsItem, Head1
<1>3. ASSUME NEW n \in DOMAIN Design[i].specials, Special(i, n) = "replace"
      PROVE  IsReplaced(Binding(i, n).obj)
  BY <1>2, <1>3 DEF IsReplaced
<1>4. PICK n : /\ CommitDone(n)
               /\ \E v : \/ StageDriver(Binding(i, n).obj, v)
                         \/ UNCHANGED drivers
                         \/ ReplaceDriver(Binding(i, n).obj, v) /\ IsReplaced(Binding(i, n).obj)
  <2>1. CASE CommitName
    <3>1. PICK n \in ToCommit(i) \ Head1.done :
            LET b == Binding(i, n)
            IN  /\ CommitDone(n)
                /\ CASE ~IsNet(b.obj) ->
                          WriteFrame(b, overlay[n]) /\ UNCHANGED drivers
                     [] IsNet(b.obj) /\ Special(i, n) = "replace" ->
                          /\ WriteFrame(b, overlay[n])
                          /\ ReplaceDriver(b.obj, Stored(b, overlay[n]))
                     [] IsNet(b.obj) /\ Special(i, n) = "stage" ->
                          StageIfUndriven(b, overlay[n]) /\ KeepFrame
      BY <2>1 DEF CommitName
    <3> DEFINE b == Binding(i, n)
    <3>2. IsNet(b.obj) => n \in DOMAIN Design[i].specials
      BY <3>1 DEF ToCommit
    <3>3. CASE ~IsNet(b.obj)
      BY <3>1, <3>3
    <3>4. CASE IsNet(b.obj) /\ Special(i, n) = "replace"
      BY <1>3, <3>1, <3>2, <3>4
    <3>5. CASE IsNet(b.obj) /\ Special(i, n) = "stage"
      BY <3>1, <3>5 DEF StageIfUndriven
    <3>6. IsNet(b.obj) => Special(i, n) \in {"replace", "stage"}
      BY <1>2, <3>2, DesignAssumption DEF Special
    <3> QED
      BY <3>3, <3>4, <3>5, <3>6
  <2>2. CASE RefreshName
    <3>1. PICK n \in ToRefresh(i) \ Head1.done :
            LET b == Binding(i, n)
                v == ReadBinding(b, frame)
            IN  /\ CommitDone(n)
                /\ IF Special(i, n) = "replace"
                   THEN ReplaceDriver(b.obj, Stored(b, v))
                   ELSE StageIfUndriven(b, v)
      BY <2>2 DEF RefreshName
    <3>2. n \in DOMAIN Design[i].specials
      BY <3>1 DEF ToRefresh
    <3>3. CASE Special(i, n) = "replace"
      BY <1>3, <3>1, <3>2, <3>3
    <3>4. CASE Special(i, n) # "replace"
      BY <3>1, <3>4 DEF StageIfUndriven
    <3> QED
      BY <3>3, <3>4
  <2> QED
    BY <2>1, <2>2
<1> DEFINE w == [Head1 EXCEPT !.done = @ \cup {n}]
           t == <<w>>
<1>5. w.op = "commit"
  BY <1>2
<1>6. todo' = t \o Tail(todo)
  BY <1>4 DEF CommitDone, Push
<1> HIDE DEF w
<1>7. IsSequence(t) /\ Items(t) = {w}
  BY ListedItems
<1>8. \A u \in Items(t) : Justifies(u)
  BY <1>5, <1>7, Zenon DEF Justifies
<1> HIDE DEF t
<1>9. Moves(t)
  BY <1>1, <1>4, <1>6, <1>7, <1>8, PushMoves, Zenon
<1> QED
  BY <1>9

\* Actions that run a module's code write no output.
LEMMA CodeMoves ==
  ASSUME IInv, StagedInv, ContinuousAssign \/ CombBlock \/ CombControl \/ CombAssign
  PROVE  \E t : Moves(t)
<1> DEFINE i == Head1.inst
<1>1. CASE ContinuousAssign
  <2> DEFINE a == AssignOf(Head1)
             t == LeafItems("assign leaf", i, a.target, CombValue(i, a.expr))
             ops == {"assign leaf"}
  <2>1. "assign" \in SettleOps /\ Doing("assign") /\ UNCHANGED drivers
    BY <1>1, Zenon DEF SettleOps, ContinuousAssign, settling
  <2>2. i \in Instance /\ Head1.at \in 1..Len(Design[i].assigns)
    BY <2>1, DoingInPass, Zenon DEF IsItem, Head1
  <2>3. IsSequence(a.target.leaves)
    BY <2>2, DesignAssumption DEF AssignOf
  <2>4. WritesNoOutput(ops) /\ "assign leaf" \in {"assign leaf", "comb leaf", "sink leaf"}
    BY Zenon DEF WritesNoOutput
  <2>5. IsStack(t, ops)
    BY <2>2, <2>3, <2>4, LeafItemsStack, Zenon
  <2>6. todo' = t \o Tail(todo)
    BY <1>1, Zenon DEF ContinuousAssign, Push
  <2> HIDE DEF t, ops
  <2>7. IsSequence(t) /\ \A w \in Items(t) : Justifies(w)
    BY <2>4, <2>5, StackJustified, Zenon
  <2>8. Moves(t)
    BY <2>1, <2>6, <2>7, PushMoves, Zenon
  <2> QED
    BY <2>8
<1>2. CASE CombBlock
  <2> DEFINE b == Design[Head1.inst].blocks[Head1.at]
             w == StmtItem("stmt", i, b.body)
             t == <<w>>
  <2>1. "comb" \in SettleOps /\ Doing("comb") /\ UNCHANGED drivers
    BY <1>2, Zenon DEF SettleOps, CombBlock, settling
  <2>2. t \o Tail(todo) = todo' \/ Pop
    BY <1>2 DEF CombBlock, Push
  <2>3. w.op = "stmt"
    BY DEF StmtItem
  <2> HIDE DEF w
  <2>4. IsSequence(t) /\ Items(t) = {w}
    BY ListedItems
  <2>5. \A u \in Items(t) : Justifies(u)
    BY <2>3, <2>4, Zenon DEF Justifies
  <2> HIDE DEF t
  <2>6. t \o Tail(todo) = todo' => Moves(t)
    BY <2>1, <2>4, <2>5, PushMoves, Zenon
  <2>7. Pop => Moves(<<>>)
    BY <2>1, PopMoves, Zenon
  <2> QED
    BY <2>2, <2>6, <2>7
<1>3. CASE CombControl
  <2> DEFINE ops == {"stmt"}
  <2>1. "stmt" \in SettleOps /\ UNCHANGED drivers
    BY <1>3, Zenon DEF SettleOps, CombControl, settling
  <2>2. Doing("stmt") /\ i \in Instance
    BY <1>3, CombControlChooses, Zenon
  <2>3. PICK body : /\ IsBody(body)
                    /\ todo' = [k \in 1..Len(body) |-> StmtItem("stmt", i, body[k])] \o Tail(todo)
    BY <1>3, CombControlChooses, Zenon
  <2> DEFINE t == [k \in 1..Len(body) |-> StmtItem("stmt", i, body[k])]
  <2>4. IsStack(t, ops)
    BY <2>2, <2>3, StmtItemsStack, Zenon
  <2>5. todo' = t \o Tail(todo)
    BY <2>3
  <2>6. WritesNoOutput(ops)
    BY Zenon DEF WritesNoOutput
  <2> HIDE DEF t, ops
  <2>7. IsSequence(t) /\ \A w \in Items(t) : Justifies(w)
    BY <2>4, <2>6, StackJustified, Zenon
  <2>8. Moves(t)
    BY <2>1, <2>2, <2>5, <2>7, PushMoves, Zenon
  <2> QED
    BY <2>8
<1>4. CASE CombAssign
  <2> DEFINE s == Code[Head1.stmt]
             t == LeafItems("comb leaf", i, s.target, CombValue(i, s.expr))
             ops == {"comb leaf"}
  <2>1. "stmt" \in SettleOps /\ Doing("stmt") /\ UNCHANGED drivers
    BY <1>4, Zenon DEF SettleOps, CombAssign, settling
  <2>2. i \in Instance /\ Head1.stmt \in Label
    BY <2>1, DoingInPass, Zenon DEF IsItem, Head1
  <2>3. IsSequence(s.target.leaves)
    BY <1>4, <2>2, CodeAssumption DEF CombAssign
  <2>4. WritesNoOutput(ops) /\ "comb leaf" \in {"assign leaf", "comb leaf", "sink leaf"}
    BY Zenon DEF WritesNoOutput
  <2>5. IsStack(t, ops)
    BY <2>2, <2>3, <2>4, LeafItemsStack, Zenon
  <2>6. todo' = t \o Tail(todo)
    BY <1>4, Zenon DEF CombAssign, Push
  <2> HIDE DEF t, ops
  <2>7. IsSequence(t) /\ \A w \in Items(t) : Justifies(w)
    BY <2>4, <2>5, StackJustified, Zenon
  <2>8. Moves(t)
    BY <2>1, <2>6, <2>7, PushMoves, Zenon
  <2> QED
    BY <2>8
<1> QED
  BY <1>1, <1>2, <1>3, <1>4

\* The walk over the hierarchy, and what it pushes.
LEMMA HierarchyMoves ==
  ASSUME IInv, StagedInv
  PROVE  /\ EnterModule => Head1.inst \in Instance /\ Moves(ModuleWork(Head1.inst))
         /\ EnterChild => Head1.inst \in Instance /\ Moves(ChildWork(Head1.inst))
<1>1. ASSUME EnterModule PROVE Head1.inst \in Instance /\ Moves(ModuleWork(Head1.inst))
  <2> DEFINE t == ModuleWork(Head1.inst)
  <2>1. "module" \in SettleOps /\ Doing("module") /\ UNCHANGED drivers /\ todo' = t \o Tail(todo)
    BY <1>1, Zenon DEF SettleOps, EnterModule, Push
  <2>2. Head1.inst \in Instance
    BY <2>1, DoingInPass, Zenon DEF IsItem, Head1
  <2>3. IsSequence(t) /\ \A w \in Items(t) : w.op \in {"assign", "comb", "commit", "child"}
    BY <2>2, ModuleItems, Zenon
  <2> HIDE DEF t
  <2>4. \A w \in Items(t) : Justifies(w)
    BY <2>3, Zenon DEF Justifies
  <2>5. Moves(t)
    BY <2>1, <2>3, <2>4, PushMoves, Zenon
  <2> QED
    BY <2>2, <2>5 DEF t
<1>2. ASSUME EnterChild PROVE Head1.inst \in Instance /\ Moves(ChildWork(Head1.inst))
  <2> DEFINE c == Head1.inst
             t == ChildWork(c)
  <2>1. "child" \in SettleOps /\ Doing("child") /\ UNCHANGED drivers /\ todo' = t \o Tail(todo)
    BY <1>2, Zenon DEF SettleOps, EnterChild, Push, settling
  <2>2. c \in Instance
    BY <2>1, DoingInPass, Zenon DEF IsItem, Head1
  <2> HIDE DEF c
  <2>3. /\ IsSequence(t)
        /\ Items(t) = {ItemAt("drive", c, k) : k \in 1..Len(Design[c].drivers)}
                        \cup {Item("module", c)}
                        \cup {ItemAt("sink", c, k) : k \in 1..Len(Design[c].sinks)}
    BY <2>2, ChildItems
  <2> HIDE DEF t
  <2>4. \A w \in Items(t) : w.op \in {"drive", "module", "sink"}
    BY <2>3, ItemParts
  <2>5. \A w \in Items(t) : Justifies(w)
    BY <2>4, Zenon DEF Justifies
  <2>6. Moves(t)
    BY <2>1, <2>3, <2>5, PushMoves, Zenon
  <2> QED
    BY <2>2, <2>6 DEF t, c
<1> QED
  BY <1>1, <1>2

\* An output is written to the leaves of its target.
LEMMA SinkOutputMoves ==
  ASSUME IInv, StagedInv, SinkOutput
  PROVE  LET c == Head1.inst
             s == Design[c].sinks[Head1.at]
         IN  /\ c \in Instance /\ Head1.at \in 1..Len(Design[c].sinks)
             /\ IsSequence(s.target.leaves) /\ ~HasMemoryLeaf(s.target)
             /\ Moves(LeafItems("sink leaf", Parent(c), s.target,
                                Unsigned(ReadBinding(Binding(c, s.port), frame))))
<1> DEFINE c == Head1.inst
           s == Design[c].sinks[Head1.at]
           v == Unsigned(ReadBinding(Binding(c, s.port), frame))
           n == Len(s.target.leaves)
           t == LeafItems("sink leaf", Parent(c), s.target, v)
<1>1. "sink" \in SettleOps /\ Doing("sink") /\ UNCHANGED drivers
  BY Zenon DEF SettleOps, SinkOutput, settling
<1>2. c \in Instance /\ Head1.at \in 1..Len(Design[c].sinks)
  BY <1>1, DoingInPass DEF IsItem, Head1
<1>3. IsSequence(s.target.leaves) /\ n \in Nat
  BY <1>2, DesignAssumption, SequenceLength
<1>4. todo' = t \o Tail(todo) /\ ~HasMemoryLeaf(s.target)
  BY Zenon DEF SinkOutput, Push
<1> DEFINE op == "sink leaf"
           target == s.target
           p == Parent(c)
<1>t. t = LeafItems(op, p, target, v) /\ IsSequence(target.leaves)
  BY <1>3
<1> HIDE DEF op, t, v, n, target, p
<1>5. IsSequence(t) /\ Items(t) = LeafWrites(op, p, target, v)
  BY <1>t, LeafItemsItems
<1>6. \A u \in Items(t) : FromSink(u)
  <2> SUFFICES ASSUME NEW u \in LeafWrites(op, p, target, v) PROVE FromSink(u)
    BY <1>5
  <2>1. PICK k \in 1..Len(target.leaves) : u.inst = p /\ u.leaf = target.leaves[k]
    BY DEF LeafWrites, LeafItem
  <2> QED
    BY <1>2, <2>1 DEF FromSink, target, p
<1>7. \A u \in Items(t) : Justifies(u)
  BY <1>6, Zenon DEF Justifies
<1>8. Moves(t)
  BY <1>1, <1>4, <1>5, <1>7, PushMoves, Zenon
<1> QED
  BY <1>2, <1>3, <1>4, <1>8, <1>t, Zenon DEF op, v, target, p

\* Every action of a pass moves on.
LEMMA SettleMoves == ASSUME IInv, StagedInv, SettleAction PROVE \E t : Moves(t)
  BY PoppingMoves, SinkLeafMoves, CommitMoves, CodeMoves, HierarchyMoves, SinkOutputMoves
     DEF SettleAction

\* An action of a pass works on the head of its stack.
LEMMA SettleHasWork ==
  ASSUME IInv, SettleAction
  PROVE  InSettle /\ IsSequence(todo) /\ todo # <<>>
<1>1. InSettle
  BY SettleActionSettles DEF SettleEffect
<1>2. todo # <<>>
  BY DEF SettleAction, ApplyInput, EnterModule, EnterChild, ContinuousAssign, AssignLeaf,
         CombBlock, CombControl, CombAssign, CombLeaf, CommitName, RefreshName, EndCommit,
         DriveInput, SinkOutput, SinkLeaf, Doing
<1> QED
  BY <1>1, <1>2 DEF IInv, SettleInv, IsStack

\* A pass is started, or an action of it runs.
LEMMA IntoPass ==
  ASSUME IInv, [AnyNext]_vars, InSettle'
  PROVE  SettleAction \/ (\E f, n : StartPass(f, n)) \/ (UNCHANGED vars /\ InSettle)
<1>1. CASE AnyRequest
  BY <1>1 DEF AnyRequest, Begin, Refuse, Return, Load, ReadWord, InSettle
<1>2. CASE StepAction
  BY <1>2, StepActionSteps DEF StepEffect, InSettle
<1>3. CASE NextPass \/ CommitStep
  BY <1>3 DEF NextPass, CommitStep
<1>4. CASE BeginStep \/ Reply \/ Fail
  BY <1>4 DEF BeginStep, Reply, Fail, Return, InSettle
<1>5. CASE UNCHANGED vars
  BY <1>5 DEF vars, InSettle
<1> QED
  BY <1>1, <1>2, <1>3, <1>4, <1>5 DEF AnyNext, Work

\* Every step keeps the staged drivers sequences and the writes those of outputs.
LEMMA StagedPreserves == IInv /\ StagedInv /\ [AnyNext]_vars => StagedInv'
<1> SUFFICES ASSUME IInv, StagedInv, [AnyNext]_vars, InSettle'
             PROVE  DriversStaged' /\ SinksWritten'
  BY DEF StagedInv
<1>1. CASE SettleAction
  <2>1. InSettle /\ IsSequence(todo) /\ todo # <<>>
    BY <1>1, SettleHasWork
  <2>2. PICK t : Moves(t)
    BY <1>1, SettleMoves
  <2>3. Items(todo') \subseteq Items(t) \cup Items(todo)
    BY <2>1, <2>2, ItemsReplaced DEF Moves
  <2> QED
    BY <2>1, <2>2, <2>3 DEF Moves, StagedInv, SinksWritten
<1>2. ASSUME NEW f, NEW n, StartPass(f, n) PROVE DriversStaged' /\ SinksWritten'
  <2>1. todo' = PassWork /\ drivers' = NoDrivers
    BY <1>2 DEF StartPass
  <2>2. \A w \in Items(PassWork) : w.op \in {"input", "module"}
    BY PassItems, ItemParts
  <2>3. \A w \in Items(PassWork) : Justifies(w)
    BY <2>2, Zenon DEF Justifies
  <2>4. \A o \in Object : NoDrivers[o] = <<>> /\ IsSequence(<<>>)
    BY ListedItems DEF NoDrivers
  <2> QED
    BY <2>1, <2>3, <2>4 DEF DriversStaged, SinksWritten
<1>3. CASE UNCHANGED vars /\ InSettle
  <2>1. drivers' = drivers /\ todo' = todo
    BY <1>3 DEF vars, settling
  <2> QED
    BY <1>3, <2>1 DEF StagedInv, DriversStaged, SinksWritten
<1> QED
  BY <1>1, <1>2, <1>3, IntoPass

-----------------------------------------------------------------------------
(* What a write leaves behind.                                             *)

IsVector(v, w) == v = [k \in 1..w |-> v[k]]

\* A vector has its width; beyond it there are zeros.
LEMMA VectorBits ==
  ASSUME NEW w \in Nat, NEW v, IsVector(v, w)
  PROVE  /\ Len(v) = w
         /\ \A k : BitOf(v, k) = IF k \in 1..w THEN v[k] ELSE "0"
<1>1. Len(v) = w
  BY FunctionIsSequence DEF IsVector
<1> QED
  BY <1>1 DEF BitOf

\* A vector that is cut or extended.
LEMMA CoercedBits ==
  ASSUME NEW w \in Nat, NEW v
  PROVE  /\ IsVector(Coerce(v, w), w) /\ Len(Coerce(v, w)) = w
         /\ \A k : BitOf(Coerce(v, w), k) = IF k \in 1..w THEN BitOf(v, k) ELSE "0"
<1>1. IsVector(Coerce(v, w), w) /\ \A k \in 1..w : Coerce(v, w)[k] = BitOf(v, k)
  BY DEF IsVector, Coerce
<1> QED
  BY <1>1, VectorBits

\* A part of a vector.
LEMMA SlicedBits ==
  ASSUME NEW w \in Nat, NEW low, NEW v
  PROVE  IsVector(Slice(v, low, w), w) /\ \A k \in 1..w : Slice(v, low, w)[k] = BitOf(v, low + k)
  BY DEF IsVector, Slice

\* Two vectors with the same bits are the same.
LEMMA SameBits ==
  ASSUME NEW w, NEW u, IsVector(u, w), NEW v, IsVector(v, w), \A k \in 1..w : u[k] = v[k]
  PROVE  u = v
  BY DEF IsVector

FitsObject(b) == b.obj \in Object /\ b.view \in 1..Layouts[b.obj].width

\* What a binding stores: the value, and zeros in the object's other bits.
LEMMA StoredBits ==
  ASSUME NEW b, FitsObject(b), NEW v, IsVector(v, b.view)
  PROVE  Stored(b, v) = [k \in 1..Layouts[b.obj].width |-> BitOf(v, k)]
<1> DEFINE w == b.view
           W == Layouts[b.obj].width
           u == Coerce(v, w)
<1>1. w \in Nat /\ W \in Nat
  BY HierarchyAssumption DEF FitsObject
<1>2. \A k : BitOf(v, k) = IF k \in 1..w THEN v[k] ELSE "0"
  BY <1>1, VectorBits
<1>3. \A k : BitOf(u, k) = IF k \in 1..w THEN BitOf(v, k) ELSE "0"
  BY <1>1, CoercedBits
<1>4. Stored(b, v) = Coerce(u, W)
  BY DEF Stored
<1> HIDE DEF u, w, W
<1>5. \A k \in 1..W : BitOf(u, k) = BitOf(v, k)
  BY <1>1, <1>2, <1>3
<1>6. Coerce(u, W) = [k \in 1..W |-> BitOf(v, k)]
  BY <1>5 DEF Coerce
<1> QED
  BY <1>4, <1>6 DEF W

\* The binding reads it back.
LEMMA StoredReadsBack ==
  ASSUME NEW b, FitsObject(b), NEW v, IsVector(v, b.view),
         NEW f, f[b.obj] = Stored(b, v)
  PROVE  ReadBinding(b, f) = v
<1> DEFINE w == b.view
           W == Layouts[b.obj].width
           x == Stored(b, v)
<1>1. w \in Nat /\ W \in Nat /\ w <= W
  BY HierarchyAssumption DEF FitsObject
<1>2. x = [k \in 1..W |-> BitOf(v, k)]
  BY StoredBits
<1>3. ReadBinding(b, f) = Coerce(x, w)
  BY DEF ReadBinding
<1>4. \A k : BitOf(v, k) = IF k \in 1..w THEN v[k] ELSE "0"
  BY <1>1, VectorBits
<1> HIDE DEF w, W, x
<1>5. IsVector(x, W) /\ \A k \in 1..W : x[k] = BitOf(v, k)
  BY <1>2 DEF IsVector
<1>6. \A k \in 1..w : BitOf(x, k) = v[k]
  BY <1>1, <1>4, <1>5, VectorBits
<1>7. Coerce(x, w) = [k \in 1..w |-> v[k]]
  BY <1>6 DEF Coerce
<1> QED
  BY <1>3, <1>7 DEF IsVector, w

\* A binding that is driven has delivered when the pass still reports no change:
\* a net has the driver, and a variable had the value already.
LEMMA DriveDelivers ==
  ASSUME NEW b, FitsObject(b), NEW v, IsVector(v, b.view),
         DriversStaged, DOMAIN drivers = Object, IsFrame(frame), DriveBinding(b, v), ~changed'
  PROVE  Delivered(WholeDrive(b, v))'
<1> DEFINE d == WholeDrive(b, v)
           o == b.obj
<1>1. d.binding = b /\ d.bits = v /\ d.low = 0 /\ d.whole
  BY DEF WholeDrive
<1> HIDE DEF d
<1>2. o \in Object /\ b.view \in Nat
  BY HierarchyAssumption DEF FitsObject
<1>3. CASE IsNet(o)
  <2>1. drivers'[o] = Append(drivers[o], Stored(b, v)) /\ IsSequence(drivers[o])
    BY <1>2, <1>3 DEF DriveBinding, StageDriver, DriversStaged
  <2>2. Stored(b, v) = [k \in 1..Layouts[o].width |-> BitOf(v, k)]
    BY StoredBits
  <2>3. \A k : DrivenBit(d, k) = BitOf(v, k)
    BY <1>1 DEF DrivenBit
  <2> DEFINE n == Len(drivers[o]) + 1
             x == Append(drivers[o], Stored(b, v))
  <2>4. n \in 1..Len(x) /\ x[n] = Stored(b, v)
    <3>1. Len(drivers[o]) \in Nat /\ Len(x) = n /\ x[n] = Stored(b, v)
      BY <2>1, AppendGrows
    <3> QED
      BY <3>1
  <2> HIDE DEF n, x
  <2>5. n \in 1..Len(drivers'[o])
        /\ drivers'[o][n] = [k \in 1..Layouts[o].width |-> DrivenBit(d, k)]
    BY <2>1, <2>2, <2>3, <2>4 DEF x
  <2> QED
    BY <1>1, <1>3, <2>5 DEF Delivered, d
<1>4. CASE ~IsNet(o)
  <2>1. frame'[o] = Stored(b, v)
    BY <1>2, <1>4 DEF DriveBinding, WriteFrame, IsFrame
  <2>2. ReadBinding(b, frame') = v
    BY <2>1, StoredReadsBack
  <2>3. Len(v) = b.view /\ \A k \in 1..b.view : BitOf(v, 0 + k) = v[k]
    BY <1>2, VectorBits
  <2>4. Slice(v, 0, Len(v)) = v
    BY <1>2, <2>3 DEF Slice, IsVector
  <2>5. TakesBits(frame', d)
    BY <1>1, <2>2, <2>4 DEF TakesBits
  <2> QED
    BY <1>1, <1>4, <2>5 DEF Delivered, d
<1> QED
  BY <1>3, <1>4

IsPart(leaf, w) ==
  /\ leaf.low \in Nat /\ leaf.width \in Nat \ {0} /\ leaf.low + leaf.width <= w
  /\ leaf.kind = "whole" => leaf.low = 0 /\ leaf.width = w

\* The bits of a leaf, written over a vector: it is one again, and has the bits
\* where the leaf lies.
LEMMA MergedBits ==
  ASSUME NEW w \in Nat, NEW old, Len(old) = w, NEW leaf, IsPart(leaf, w),
         NEW bits, IsVector(bits, leaf.width)
  PROVE  /\ IsVector(Merged(leaf, old, bits), w)
         /\ Slice(Merged(leaf, old, bits), leaf.low, leaf.width) = bits
<1> DEFINE low == leaf.low
           n == leaf.width
           m == Merged(leaf, old, bits)
<1>1. low \in Nat /\ n \in Nat /\ low + n <= w
  BY DEF IsPart
<1>2. \A k \in 1..n : BitOf(bits, k) = bits[k]
  BY <1>1, VectorBits
<1>3. IsVector(m, w) /\ \A k \in 1..n : m[low + k] = bits[k]
  <2>1. CASE leaf.kind = "whole"
    <3>1. m = Coerce(bits, w) /\ low = 0 /\ n = w
      BY <2>1 DEF Merged, IsPart
    <3> HIDE DEF m, low, n
    <3>2. IsVector(m, w) /\ \A k \in 1..w : m[k] = BitOf(bits, k)
      BY <3>1 DEF Coerce, IsVector
    <3> QED
      BY <1>1, <1>2, <3>1, <3>2
  <2>2. CASE leaf.kind # "whole"
    <3>1. m = ReplaceSlice(old, low, n, bits)
      BY <2>2 DEF Merged
    <3> HIDE DEF m, low, n
    <3>2. m = [k \in 1..w |-> IF k \in (low + 1)..(low + n) THEN BitOf(bits, k - low) ELSE old[k]]
      BY <3>1 DEF ReplaceSlice
    <3>3. IsVector(m, w)
      BY <3>2 DEF IsVector
    <3>4. ASSUME NEW k \in 1..n PROVE m[low + k] = bits[k]
      <4>1. low + k \in 1..w /\ low + k \in (low + 1)..(low + n) /\ (low + k) - low = k
        BY <1>1
      <4>2. m[low + k] = BitOf(bits, (low + k) - low)
        BY <3>2, <4>1
      <4> QED
        BY <1>2, <4>1, <4>2
    <3> QED
      BY <3>3, <3>4
  <2> QED
    BY <2>1, <2>2
<1> HIDE DEF m, low, n
<1>4. \A k \in 1..n : BitOf(m, low + k) = bits[k]
  <2> SUFFICES ASSUME NEW k \in 1..n PROVE BitOf(m, low + k) = bits[k]
    OBVIOUS
  <2>1. low + k \in 1..w
    BY <1>1
  <2>2. BitOf(m, low + k) = m[low + k]
    BY <1>3, <2>1, VectorBits
  <2> QED
    BY <1>3, <2>2
<1>5. Slice(m, low, n) = [k \in 1..n |-> bits[k]]
  BY <1>4 DEF Slice
<1> QED
  BY <1>3, <1>5 DEF IsVector, m, low, n

\* What a leaf drives onto a net.
LEMMA LeafDriverBits ==
  ASSUME NEW i, NEW leaf, NEW bits, IsVector(bits, leaf.width),
         FitsObject(Binding(i, leaf.name)), IsPart(leaf, Binding(i, leaf.name).view)
  PROVE  LeafDriver(i, leaf, bits) =
           [k \in 1..Layouts[Binding(i, leaf.name).obj].width |-> DrivenBit(LeafDrive(i, leaf, bits), k)]
<1> DEFINE b == Binding(i, leaf.name)
           W == Layouts[b.obj].width
           d == LeafDrive(i, leaf, bits)
<1>1. d.low = leaf.low /\ d.bits = bits /\ d.whole = (leaf.kind = "whole")
  BY DEF LeafDrive
<1>2. W \in Nat /\ leaf.low \in Nat /\ leaf.width \in Nat
  BY HierarchyAssumption DEF FitsObject, IsPart
<1>3. Len(bits) = leaf.width /\ \A k \in 1..leaf.width : BitOf(bits, k) = bits[k]
  BY <1>2, VectorBits
<1> HIDE DEF d
<1>4. CASE leaf.kind = "whole"
  <2>1. IsVector(bits, b.view)
    BY <1>4 DEF IsPart
  <2>2. LeafDriver(i, leaf, bits) = [k \in 1..W |-> BitOf(bits, k)]
    BY <1>4, <2>1, StoredBits DEF LeafDriver
  <2>3. \A k : DrivenBit(d, k) = BitOf(bits, k)
    BY <1>1, <1>4 DEF DrivenBit
  <2> QED
    BY <2>2, <2>3 DEF d
<1>5. CASE leaf.kind # "whole"
  <2> DEFINE z == AllZ(W)
             low == leaf.low
             n == leaf.width
  <2>1. Len(z) = W /\ \A k \in 1..W : z[k] = "Z"
    <3>1. z = [k \in 1..W |-> "Z"]
      BY DEF AllZ, Filled
    <3>2. IsVector(z, W) /\ \A k \in 1..W : z[k] = "Z"
      BY <3>1 DEF IsVector
    <3> HIDE DEF z, W
    <3> QED
      BY <1>2, <3>2, VectorBits
  <2>2. LeafDriver(i, leaf, bits) = ReplaceSlice(z, low, n, bits)
    BY <1>5 DEF LeafDriver, PadZ
  <2> HIDE DEF z, W
  <2>3. ASSUME NEW k \in 1..W
        PROVE  DrivenBit(d, k) =
                 IF k \in (low + 1)..(low + n) THEN BitOf(bits, k - low) ELSE z[k]
    <3>1. DrivenBit(d, k) = IF k \in (low + 1)..(low + n) THEN bits[k - low] ELSE "Z"
      BY <1>1, <1>3, <1>5 DEF DrivenBit
    <3>2. k \in (low + 1)..(low + n) => k - low \in 1..n
      BY <1>2
    <3> QED
      BY <1>3, <2>1, <3>1, <3>2
  <2>4. ReplaceSlice(z, low, n, bits) = [k \in 1..W |-> DrivenBit(d, k)]
    BY <2>1, <2>3 DEF ReplaceSlice
  <2> QED
    BY <2>2, <2>4 DEF d, W
<1> QED
  BY <1>4, <1>5

\* A leaf that is written has delivered when the pass still reports no change:
\* a net signal has the driver, a variable had the bits already.
LEMMA LeafDelivers ==
  ASSUME NEW i, NEW leaf, NEW bits, IsVector(bits, leaf.width),
         FitsObject(Binding(i, leaf.name)), IsPart(leaf, Binding(i, leaf.name).view),
         DriversStaged, DOMAIN drivers = Object, IsFrame(frame), ~changed',
         \/ /\ IsNet(Binding(i, leaf.name).obj)
            /\ StageDriver(Binding(i, leaf.name).obj, LeafDriver(i, leaf, bits))
         \/ /\ ~IsNet(Binding(i, leaf.name).obj)
            /\ WriteFrame(Binding(i, leaf.name),
                          Merged(leaf, ReadBinding(Binding(i, leaf.name), frame), bits))
         \/ IsNet(Binding(i, leaf.name).obj) /\ IsReplaced(Binding(i, leaf.name).obj)
  PROVE  Delivered(LeafDrive(i, leaf, bits))'
<1> DEFINE b == Binding(i, leaf.name)
           o == b.obj
           d == LeafDrive(i, leaf, bits)
           v == LeafDriver(i, leaf, bits)
           m == Merged(leaf, ReadBinding(b, frame), bits)
<1>1. d.binding = b /\ d.low = leaf.low /\ d.bits = bits
  BY DEF LeafDrive
<1>2. o \in Object /\ b.view \in Nat /\ leaf.width \in Nat
  BY HierarchyAssumption DEF FitsObject, IsPart
<1>3. CASE IsNet(o) /\ StageDriver(o, v)
  <2>1. v = [k \in 1..Layouts[o].width |-> DrivenBit(d, k)]
    BY LeafDriverBits
  <2> HIDE DEF d, v
  <2>2. drivers'[o] = Append(drivers[o], v) /\ IsSequence(drivers[o])
    BY <1>2, <1>3 DEF StageDriver, DriversStaged
  <2> DEFINE n == Len(drivers[o]) + 1
             x == Append(drivers[o], v)
  <2>3. n \in 1..Len(x) /\ x[n] = v
    <3>1. Len(drivers[o]) \in Nat /\ Len(x) = n /\ x[n] = v
      BY <2>2, AppendGrows
    <3> QED
      BY <3>1
  <2> HIDE DEF n, x
  <2>4. n \in 1..Len(drivers'[o])
        /\ drivers'[o][n] = [k \in 1..Layouts[o].width |-> DrivenBit(d, k)]
    BY <2>1, <2>2, <2>3 DEF x
  <2> QED
    BY <1>1, <1>3, <2>4 DEF Delivered, d
<1>4. CASE ~IsNet(o) /\ WriteFrame(b, m)
  <2>1. Len(ReadBinding(b, frame)) = b.view
    BY <1>2, CoercedBits DEF ReadBinding
  <2>2. IsVector(m, b.view) /\ Slice(m, leaf.low, leaf.width) = bits
    BY <1>2, <2>1, MergedBits
  <2> HIDE DEF d, m
  <2>3. frame'[o] = Stored(b, m)
    BY <1>2, <1>4 DEF WriteFrame, IsFrame
  <2>4. ReadBinding(b, frame') = m
    BY <2>2, <2>3, StoredReadsBack
  <2>5. Len(bits) = leaf.width
    BY <1>2, VectorBits
  <2>6. TakesBits(frame', d)
    BY <1>1, <2>2, <2>4, <2>5 DEF TakesBits
  <2> QED
    BY <1>1, <1>4, <2>6 DEF Delivered, d
<1>5. CASE IsNet(o) /\ IsReplaced(o)
  BY <1>1, <1>5 DEF Delivered
<1> QED
  BY <1>3, <1>4, <1>5

-----------------------------------------------------------------------------
(* What is still to deliver.                                               *)

Waits(w) == w \in Items(todo)

InputItem(d) == [op |-> "input", inst |-> Top, name |-> d.name]

\* The part of a target that an output writes, and its write.
SinkLeafOf(c, k, n) == Design[c].sinks[k].target.leaves[n]

LeafOp             == "sink leaf"
SinkWrite(c, k, n) == LeafItem(LeafOp, Parent(c), SinkLeafOf(c, k, n), SinkBits(c, k, n, frame))

\* A connection is waited for, or has delivered.
OutsideOK(d)     == Waits(InputItem(d)) \/ ~IsDriven(d) \/ Delivered(OutsideDrive(d))
InputOK(c, k)    == Waits(ItemAt("drive", c, k)) \/ Delivered(InputDrive(c, k, frame))
SinkOK(c, k, n)  == \/ Waits(ItemAt("sink", c, k))
                    \/ /\ SinkLeafOf(c, k, n).kind # "memory"
                       /\ Waits(SinkWrite(c, k, n)) \/ Delivered(SinkDrive(c, k, n, frame))

\* A child to be entered waits, or an instance above it does.
EnteredLater(c, B) ==
  Waits(Item("child", c)) \/ Parent(c) \in B \/ Waits(Item("module", Parent(c)))

ChildOK(c) ==
  /\ \A k \in 1..Len(Design[c].drivers) : InputOK(c, k)
  /\ \A k \in 1..Len(Design[c].sinks) :
       \A n \in 1..Len(Design[c].sinks[k].target.leaves) : SinkOK(c, k, n)

\* B are the instances a pass has not come to.
Pending(B) ==
  /\ \A c \in B : EnteredLater(c, B)
  /\ \A c \in (Instance \ {Top}) \ B : ChildOK(c)
  /\ \A k \in 1..Len(DrivenFromOutside) : OutsideOK(DrivenFromOutside[k])

ConnectInv == InSettle /\ ~changed => \E B \in SUBSET (Instance \ {Top}) : Pending(B)

\* An action of a pass that reports no change, with its new work.
QuietMove(t) ==
  /\ Moves(t)
  /\ IsSequence(todo) /\ todo # <<>>
  /\ frame' = frame /\ call' = call /\ memories' = memories

\* Work waits on unless it is the head; new work waits.
LEMMA WaitsOn ==
  ASSUME NEW t, QuietMove(t), NEW w
  PROVE  /\ Waits(w) => Waits(w)' \/ w = Head(todo)
         /\ w \in Items(t) => Waits(w)'
  BY ItemsReplaced DEF QuietMove, Moves, Waits

\* What has delivered stays delivered.
LEMMA DeliveredOn ==
  ASSUME NEW t, QuietMove(t), NEW d, d.binding.obj \in Object, Delivered(d)
  PROVE  Delivered(d)'
<1> DEFINE o == d.binding.obj
<1>1. frame' = frame /\ DriversGrow
  BY DEF QuietMove, Moves
<1>2. CASE IsNet(o)
  BY <1>1, <1>2 DEF Delivered, DriversGrow
<1>3. CASE ~IsNet(o)
  BY <1>1, <1>3 DEF Delivered, TakesBits
<1> QED
  BY <1>2, <1>3

\* The drives themselves do not change.
LEMMA DrivesKept ==
  ASSUME NEW t, QuietMove(t)
  PROVE  /\ \A c, k : InputDrive(c, k, frame)' = InputDrive(c, k, frame)
         /\ \A c, k, n : SinkDrive(c, k, n, frame)' = SinkDrive(c, k, n, frame)
         /\ \A c, k, n : SinkWrite(c, k, n)' = SinkWrite(c, k, n)
         /\ \A d : OutsideDrive(d)' = OutsideDrive(d)
         /\ \A d : IsDriven(d)' = IsDriven(d)
<1>1. frame' = frame /\ call' = call /\ memories' = memories
  BY DEF QuietMove
<1>2. \A c, k : InputDrive(c, k, frame)' = InputDrive(c, k, frame)
  BY <1>1 DEF InputDrive
<1>3. \A c, k, n : SinkDrive(c, k, n, frame)' = SinkDrive(c, k, n, frame)
  BY <1>1 DEF SinkDrive, SinkBits
<1>4. \A c, k, n : SinkWrite(c, k, n)' = SinkWrite(c, k, n)
  BY <1>1 DEF SinkWrite, SinkBits
<1>5. \A d : OutsideDrive(d)' = OutsideDrive(d)
  BY <1>1 DEF OutsideDrive
<1>6. \A d : IsDriven(d)' = IsDriven(d)
  BY <1>1 DEF IsDriven
<1> QED
  BY <1>2, <1>3, <1>4, <1>5, <1>6

\* The objects of connections are objects of the design.
LEMMA DrivesFit ==
  ASSUME FittingTargets
  PROVE  /\ \A i \in Instance : \A n \in Names(i) : FitsObject(Binding(i, n))
         /\ \A c \in Instance : \A k \in 1..Len(Design[c].drivers) :
              FitsObject(InputDrive(c, k, frame).binding)
         /\ \A c \in Instance \ {Top} : \A k \in 1..Len(Design[c].sinks) :
              \A n \in 1..Len(Design[c].sinks[k].target.leaves) :
                SinkLeafOf(c, k, n).kind # "memory" => FitsObject(SinkDrive(c, k, n, frame).binding)
         /\ \A k \in 1..Len(DrivenFromOutside) :
              FitsObject(OutsideDrive(DrivenFromOutside[k]).binding)
<1>1. \A i \in Instance : \A n \in Names(i) : FitsObject(Binding(i, n))
  BY HierarchyAssumption DEF FittingTargets, FitsObject
<1>2. ASSUME NEW c \in Instance, NEW k \in 1..Len(Design[c].drivers)
      PROVE  FitsObject(InputDrive(c, k, frame).binding)
  <2>1. InputDrive(c, k, frame).binding = Binding(c, Design[c].drivers[k].port)
    BY DEF InputDrive, WholeDrive
  <2>2. Design[c].drivers[k].port \in Names(c)
    BY DEF FittingTargets
  <2> QED
    BY <1>1, <2>1, <2>2
<1>3. ASSUME NEW c \in Instance \ {Top}, NEW k \in 1..Len(Design[c].sinks),
             NEW n \in 1..Len(Design[c].sinks[k].target.leaves),
             SinkLeafOf(c, k, n).kind # "memory"
      PROVE  FitsObject(SinkDrive(c, k, n, frame).binding)
  <2>1. SinkDrive(c, k, n, frame).binding = Binding(Parent(c), SinkLeafOf(c, k, n).name)
    BY DEF SinkDrive, LeafDrive, SinkLeafOf
  <2>2. SinkLeafOf(c, k, n).name \in Names(Parent(c))
    BY <1>3 DEF FittingTargets, LeafFits, SinkLeafOf
  <2>3. Parent(c) \in Instance
    BY HierarchyAssumption DEF Parent
  <2> QED
    BY <1>1, <2>1, <2>2, <2>3
<1>4. ASSUME NEW k \in 1..Len(DrivenFromOutside)
      PROVE  FitsObject(OutsideDrive(DrivenFromOutside[k]).binding)
  <2>1. OutsideDrive(DrivenFromOutside[k]).binding = Binding(Top, DrivenFromOutside[k].name)
    BY DEF OutsideDrive, WholeDrive
  <2>2. DrivenFromOutside[k].name \in Names(Top) /\ Top \in Instance
    BY DesignAssumption DEF FittingTargets
  <2> QED
    BY <1>1, <2>1, <2>2
<1> QED
  BY <1>1, <1>2, <1>3, <1>4

\* So a connection is waited for or has delivered until its own work is the
\* head: the drive of an input,
LEMMA InputKept ==
  ASSUME FittingTargets, NEW t, QuietMove(t),
         NEW c \in Instance, NEW k \in 1..Len(Design[c].drivers),
         InputOK(c, k), Head(todo) # ItemAt("drive", c, k)
  PROVE  InputOK(c, k)'
<1>1. CASE Waits(ItemAt("drive", c, k))
  BY <1>1, WaitsOn DEF InputOK
<1>2. CASE Delivered(InputDrive(c, k, frame))
  <2>1. PICK d : d = InputDrive(c, k, frame)
    OBVIOUS
  <2>2. InputDrive(c, k, frame)' = d
    BY <2>1, DrivesKept
  <2>3. d.binding.obj \in Object
    BY <2>1, DrivesFit DEF FitsObject
  <2>4. Delivered(d)
    BY <1>2, <2>1
  <2>5. Delivered(d)'
    BY <2>3, <2>4, DeliveredOn
  <2>6. Delivered(InputDrive(c, k, frame))'
    BY <2>2, <2>5
  <2> QED
    BY <2>6 DEF InputOK
<1> QED
  BY <1>1, <1>2 DEF InputOK

\* that of a port of the top instance,
LEMMA OutsideKept ==
  ASSUME FittingTargets, NEW t, QuietMove(t), NEW k \in 1..Len(DrivenFromOutside),
         OutsideOK(DrivenFromOutside[k]), Head(todo) # InputItem(DrivenFromOutside[k])
  PROVE  OutsideOK(DrivenFromOutside[k])'
<1> DEFINE e == DrivenFromOutside[k]
<1>0. FitsObject(OutsideDrive(e).binding)
  BY DrivesFit
<1> HIDE DEF e
<1>1. CASE Waits(InputItem(e))
  BY <1>1, WaitsOn DEF OutsideOK, e
<1>2. CASE ~IsDriven(e)
  BY <1>2, DrivesKept DEF OutsideOK, e
<1>3. CASE Delivered(OutsideDrive(e))
  <2>1. PICK d : d = OutsideDrive(e)
    OBVIOUS
  <2>2. OutsideDrive(e)' = d
    BY <2>1, DrivesKept DEF e
  <2>3. d.binding.obj \in Object
    BY <1>0, <2>1 DEF FitsObject
  <2>4. Delivered(d)
    BY <1>3, <2>1
  <2>5. Delivered(d)'
    BY <2>3, <2>4, DeliveredOn
  <2>6. Delivered(OutsideDrive(e))'
    BY <2>2, <2>5
  <2> QED
    BY <2>6 DEF OutsideOK, e
<1> QED
  BY <1>1, <1>2, <1>3 DEF OutsideOK, e

\* that of an output, and the write of a leaf of its target.
LEMMA SinkKept ==
  ASSUME FittingTargets, NEW t, QuietMove(t),
         NEW c \in Instance \ {Top}, NEW k \in 1..Len(Design[c].sinks),
         NEW n \in 1..Len(Design[c].sinks[k].target.leaves),
         SinkOK(c, k, n), Head(todo) # ItemAt("sink", c, k), Head(todo) # SinkWrite(c, k, n)
  PROVE  SinkOK(c, k, n)'
<1>1. CASE Waits(ItemAt("sink", c, k))
  BY <1>1, WaitsOn DEF SinkOK
<1>2. CASE SinkLeafOf(c, k, n).kind # "memory" /\ Waits(SinkWrite(c, k, n))
  <2>1. PICK w : w = SinkWrite(c, k, n)
    OBVIOUS
  <2>2. SinkWrite(c, k, n)' = w
    BY <2>1, DrivesKept
  <2>3. Waits(w) /\ w # Head(todo)
    BY <1>2, <2>1
  <2>4. Waits(w)'
    BY <2>3, WaitsOn
  <2>5. Waits(SinkWrite(c, k, n))'
    BY <2>2, <2>4
  <2> QED
    BY <1>2, <2>5 DEF SinkOK
<1>3. CASE SinkLeafOf(c, k, n).kind # "memory" /\ Delivered(SinkDrive(c, k, n, frame))
  <2>1. PICK d : d = SinkDrive(c, k, n, frame)
    OBVIOUS
  <2>2. SinkDrive(c, k, n, frame)' = d
    BY <2>1, DrivesKept
  <2>3. d.binding.obj \in Object
    BY <1>3, <2>1, DrivesFit DEF FitsObject
  <2>4. Delivered(d)
    BY <1>3, <2>1
  <2>5. Delivered(d)'
    BY <2>3, <2>4, DeliveredOn
  <2>6. Delivered(SinkDrive(c, k, n, frame))'
    BY <2>2, <2>5
  <2> QED
    BY <1>3, <2>6 DEF SinkOK
<1> QED
  BY <1>1, <1>2, <1>3 DEF SinkOK

\* The parts of the items that connections wait for.
LEMMA WaitedParts ==
  /\ \A d : InputItem(d).op = "input" /\ InputItem(d).name = d.name
  /\ \A op, i, leaf, bits : LET w == LeafItem(op, i, leaf, bits)
                            IN  w.op = op /\ w.inst = i /\ w.leaf = leaf /\ w.bits = bits
  /\ LeafOp \notin {"input", "child", "module", "drive", "sink"}
<1>1. LeafOp \notin {"input", "child", "module", "drive", "sink"}
  BY Zenon DEF LeafOp
<1>2. \A d : InputItem(d).op = "input" /\ InputItem(d).name = d.name
  BY DEF InputItem
<1>3. \A op, i, leaf, bits : LET w == LeafItem(op, i, leaf, bits)
                             IN  w.op = op /\ w.inst = i /\ w.leaf = leaf /\ w.bits = bits
  BY DEF LeafItem
<1> QED
  BY <1>1, <1>2, <1>3

\* Which of them the head may be.
LEMMA HeadParts ==
  ASSUME NEW w
  PROVE  /\ \A d : w = InputItem(d) => w.op = "input" /\ w.name = d.name
         /\ \A c : w = Item("child", c) => w.op = "child" /\ w.inst = c
         /\ \A c : w = Item("module", c) => w.op = "module" /\ w.inst = c
         /\ \A c, k : w = ItemAt("drive", c, k) => w.op = "drive" /\ w.inst = c /\ w.at = k
         /\ \A c, k : w = ItemAt("sink", c, k) => w.op = "sink" /\ w.inst = c /\ w.at = k
         /\ \A c, k, n : w = SinkWrite(c, k, n) =>
              /\ w.op = LeafOp /\ w.inst = Parent(c)
              /\ w.leaf = SinkLeafOf(c, k, n) /\ w.bits = SinkBits(c, k, n, frame)
<1>1. \A c, k, n : w = SinkWrite(c, k, n) =>
        /\ w.op = LeafOp /\ w.inst = Parent(c)
        /\ w.leaf = SinkLeafOf(c, k, n) /\ w.bits = SinkBits(c, k, n, frame)
  BY WaitedParts DEF SinkWrite
<1> QED
  BY <1>1, WaitedParts, ItemParts

\* What is pending stays so if the head's own connections are dealt with.
LEMMA StillPending ==
  ASSUME FittingTargets, NEW t, QuietMove(t),
         NEW B \in SUBSET (Instance \ {Top}), Pending(B), NEW C \in SUBSET B,
         \A c \in C : Head(todo) = Item("child", c) \/ Head(todo) = Item("module", Parent(c))
                        \/ Parent(c) \in B \ C => EnteredLater(c, C)',
         \A c \in B \ C : ChildOK(c)',
         \A c \in (Instance \ {Top}) \ B : \A k \in 1..Len(Design[c].drivers) :
           Head(todo) = ItemAt("drive", c, k) => InputOK(c, k)',
         \A c \in (Instance \ {Top}) \ B : \A k \in 1..Len(Design[c].sinks) :
           \A n \in 1..Len(Design[c].sinks[k].target.leaves) :
             SinkOK(c, k, n) /\ (Head(todo) = ItemAt("sink", c, k) \/ Head(todo) = SinkWrite(c, k, n))
               => SinkOK(c, k, n)',
         \A k \in 1..Len(DrivenFromOutside) :
           Head(todo) = InputItem(DrivenFromOutside[k]) => OutsideOK(DrivenFromOutside[k])'
  PROVE  Pending(C)'
<1>1. ASSUME NEW c \in C PROVE EnteredLater(c, C)'
  <2>1. EnteredLater(c, B)
    BY DEF Pending
  <2>2. CASE Head(todo) # Item("child", c) /\ Head(todo) # Item("module", Parent(c))
             /\ Parent(c) \notin B \ C
    <3>1. Waits(Item("child", c)) => Waits(Item("child", c))'
      BY <2>2, WaitsOn
    <3>2. Waits(Item("module", Parent(c))) => Waits(Item("module", Parent(c)))'
      BY <2>2, WaitsOn DEF Parent
    <3> QED
      BY <2>1, <2>2, <3>1, <3>2 DEF EnteredLater
  <2> QED
    BY <2>2
<1>2. ASSUME NEW c \in (Instance \ {Top}) \ C PROVE ChildOK(c)'
  <2>1. CASE c \notin B
    <3>1. ChildOK(c)
      BY <2>1 DEF Pending
    <3>2. ASSUME NEW k \in 1..Len(Design[c].drivers) PROVE InputOK(c, k)'
      BY <2>1, <3>1, InputKept DEF ChildOK
    <3>3. ASSUME NEW k \in 1..Len(Design[c].sinks),
                 NEW n \in 1..Len(Design[c].sinks[k].target.leaves)
          PROVE  SinkOK(c, k, n)'
      <4>1. SinkOK(c, k, n)
        BY <3>1 DEF ChildOK
      <4>2. CASE Head(todo) # ItemAt("sink", c, k) /\ Head(todo) # SinkWrite(c, k, n)
        BY <4>1, <4>2, SinkKept
      <4>3. CASE Head(todo) = ItemAt("sink", c, k) \/ Head(todo) = SinkWrite(c, k, n)
        BY <2>1, <4>1, <4>3
      <4> QED
        BY <4>2, <4>3
    <3> QED
      BY <3>2, <3>3 DEF ChildOK
  <2>2. CASE c \in B
    BY <2>2
  <2> QED
    BY <2>1, <2>2
<1>3. ASSUME NEW k \in 1..Len(DrivenFromOutside) PROVE OutsideOK(DrivenFromOutside[k])'
  <2>1. OutsideOK(DrivenFromOutside[k])
    BY DEF Pending
  <2> QED
    BY <2>1, OutsideKept
<1> QED
  BY <1>1, <1>2, <1>3 DEF Pending

\* One that reports no change leaves the frame as it is.
LEMMA SettlesQuietly ==
  ASSUME IInv, SettleAction, ~changed', NEW t, Moves(t)
  PROVE  QuietMove(t) /\ InSettle /\ ~changed
  BY SettleHasWork, SettleActionSettles DEF SettleEffect, QuietMove, session

-----------------------------------------------------------------------------
(* The actions of a pass deliver.                                          *)

\* What a pass has to show for an action that does t.
Delivers(t) ==
  \A B \in SUBSET (Instance \ {Top}) : QuietMove(t) /\ Pending(B) =>
    \E C \in SUBSET (Instance \ {Top}) : Pending(C)'

\* An input of the top instance.
LEMMA ApplyInputDelivers ==
  ASSUME FittingTargets, IInv, StagedInv, ApplyInput, ~changed'
  PROVE  Delivers(<<>>)
<1> SUFFICES ASSUME NEW B \in SUBSET (Instance \ {Top}), QuietMove(<<>>), Pending(B)
             PROVE  Pending(B)'
  BY DEF Delivers
<1>1. /\ Head(todo).op = "input" /\ IsFrame(frame)
      /\ DriversStaged /\ DOMAIN drivers = Object
  BY DoingInSettle, DoingInPass DEF ApplyInput, SettleOps
<1>2. ASSUME NEW k \in 1..Len(DrivenFromOutside), Head(todo) = InputItem(DrivenFromOutside[k])
      PROVE  OutsideOK(DrivenFromOutside[k])'
  <2> DEFINE e == DrivenFromOutside[k]
             b == Binding(Top, e.name)
             v == IF e.name \in DOMAIN call.inputs THEN Coerce(call.inputs[e.name], e.width)
                  ELSE ZeroOf(e.width)
  <2>1. Head1.name = e.name /\ DeclOf(Top, e.name) = e /\ e.width = b.view
    BY <1>2, HeadParts DEF FittingTargets, Head1
  <2>2. FitsObject(b)
    <3>1. OutsideDrive(e).binding = b
      BY DEF OutsideDrive, WholeDrive
    <3> QED
      BY <3>1, DrivesFit
  <2>3. CASE ~IsDriven(e)
    BY <2>3, DrivesKept DEF OutsideOK
  <2>4. CASE IsDriven(e)
    <3>1. DriveBinding(b, v)
      BY <2>1, <2>4 DEF ApplyInput, IsDriven
    <3>2. IsVector(v, e.width)
      BY DEF IsVector, Coerce, ZeroOf, Filled
    <3>3. OutsideDrive(e) = WholeDrive(b, v)
      BY DEF OutsideDrive
    <3> HIDE DEF e, v
    <3>4. PICK u : u = v
      OBVIOUS
    <3>5. Delivered(WholeDrive(b, u))'
      BY <1>1, <2>1, <2>2, <3>1, <3>2, <3>4, DriveDelivers
    <3>6. OutsideDrive(e)' = WholeDrive(b, u)
      BY <3>3, <3>4, DrivesKept
    <3>7. Delivered(OutsideDrive(e))'
      BY <3>5, <3>6
    <3> QED
      BY <3>7 DEF OutsideOK, e
  <2> QED
    BY <2>3, <2>4
<1> QED
  BY <1>1, <1>2, HeadParts, WaitedParts, StillPending

\* A module is entered: its children wait.
LEMMA EnterModuleDelivers ==
  ASSUME FittingTargets, IInv, StagedInv, EnterModule
  PROVE  Delivers(ModuleWork(Head1.inst))
<1> DEFINE p == Head1.inst
           t == ModuleWork(p)
<1> SUFFICES ASSUME NEW B \in SUBSET (Instance \ {Top}), QuietMove(t), Pending(B)
             PROVE  Pending(B)'
  BY DEF Delivers
<1>1. Head(todo).op = "module" /\ p \in Instance
  BY HierarchyMoves DEF EnterModule, Doing, Head1
<1>2. PICK q : q = p
  OBVIOUS
<1> HIDE DEF p
<1>3. QuietMove(ModuleWork(q)) /\ q \in Instance
  BY <1>1, <1>2
<1>4. ASSUME NEW c \in B, Head(todo) = Item("module", Parent(c)) PROVE EnteredLater(c, B)'
  <2>1. Parent(c) = q
    BY <1>2, <1>4, HeadParts DEF p, Head1
  <2>2. PICK k \in 1..Len(Design[q].children) : Design[q].children[k] = c
    BY <2>1, HierarchyAssumption DEF Parent
  <2>3. Item("child", c) \in Items(ModuleWork(q))
    BY <1>3, <2>2, ModuleItems
  <2>4. Waits(Item("child", c))'
    BY <1>3, <2>3, WaitsOn
  <2> QED
    BY <2>4 DEF EnteredLater
<1> QED
  BY <1>1, <1>3, <1>4, HeadParts, WaitedParts, StillPending

\* A child is entered: its connections wait, and its module.
LEMMA EnterChildDelivers ==
  ASSUME FittingTargets, IInv, StagedInv, EnterChild
  PROVE  Delivers(ChildWork(Head1.inst))
<1> DEFINE p == Head1.inst
           t == ChildWork(p)
<1> SUFFICES ASSUME NEW B \in SUBSET (Instance \ {Top}), QuietMove(t), Pending(B)
             PROVE  \E C \in SUBSET (Instance \ {Top}) : Pending(C)'
  BY DEF Delivers
<1>1. Head(todo).op = "child" /\ p \in Instance
  BY HierarchyMoves DEF EnterChild, Doing, Head1
<1>2. PICK q : q = p
  OBVIOUS
<1> HIDE DEF p
<1>3. QuietMove(ChildWork(q)) /\ q \in Instance
  BY <1>1, <1>2
<1> DEFINE C == B \ {q}
<1>4. /\ Waits(Item("module", q))'
      /\ \A k \in 1..Len(Design[q].drivers) : Waits(ItemAt("drive", q, k))'
      /\ \A k \in 1..Len(Design[q].sinks) : Waits(ItemAt("sink", q, k))'
  <2>1. /\ Item("module", q) \in Items(ChildWork(q))
        /\ \A k \in 1..Len(Design[q].drivers) : ItemAt("drive", q, k) \in Items(ChildWork(q))
        /\ \A k \in 1..Len(Design[q].sinks) : ItemAt("sink", q, k) \in Items(ChildWork(q))
    BY <1>3, ChildItems
  <2> QED
    BY <1>3, <2>1, WaitsOn
<1>5. ChildOK(q)'
  BY <1>4 DEF ChildOK, InputOK, SinkOK
<1>6. ASSUME NEW c \in C, Parent(c) \in B \ C PROVE EnteredLater(c, C)'
  <2>1. Parent(c) = q
    BY <1>6
  <2>2. Waits(Item("module", Parent(c)))'
    BY <1>4, <2>1 DEF Parent
  <2> QED
    BY <2>2 DEF EnteredLater
<1>7. \A c \in C : Head(todo) # Item("child", c)
  BY <1>2, HeadParts DEF p, Head1
<1>8. C \in SUBSET B /\ C \in SUBSET (Instance \ {Top}) /\ (\A c \in B \ C : c = q)
  OBVIOUS
<1> HIDE DEF C
<1>9. Pending(C)'
  BY <1>1, <1>3, <1>5, <1>6, <1>7, <1>8, HeadParts, WaitedParts, StillPending
<1> QED
  BY <1>8, <1>9

\* An input of a child is driven.
LEMMA DriveInputDelivers ==
  ASSUME FittingTargets, IInv, StagedInv, DriveInput, ~changed'
  PROVE  Delivers(<<>>)
<1> SUFFICES ASSUME NEW B \in SUBSET (Instance \ {Top}), QuietMove(<<>>), Pending(B)
             PROVE  Pending(B)'
  BY DEF Delivers
<1>1. /\ Head(todo).op = "drive" /\ IsFrame(frame)
      /\ DriversStaged /\ DOMAIN drivers = Object
  BY DoingInSettle, DoingInPass DEF DriveInput, SettleOps
<1>2. ASSUME NEW c \in (Instance \ {Top}) \ B, NEW k \in 1..Len(Design[c].drivers),
             Head(todo) = ItemAt("drive", c, k)
      PROVE  InputOK(c, k)'
  <2> DEFINE d == Design[c].drivers[k]
             b == Binding(c, d.port)
             v == CoerceValue(FrameValue(Parent(c), d.expr), b.view)
  <2>1. Head1.inst = c /\ Head1.at = k
    BY <1>2, HeadParts DEF Head1
  <2>2. DriveBinding(b, v)
    BY <2>1 DEF DriveInput
  <2>3. InputDrive(c, k, frame) = WholeDrive(b, v)
    BY DEF InputDrive, FrameValue
  <2>4. IsVector(v, b.view)
    BY DEF IsVector, CoerceValue, Coerce, SignExtend
  <2>5. FitsObject(b)
    BY DrivesFit DEF FittingTargets
  <2> HIDE DEF v, b
  <2>6. PICK u : u = v
    OBVIOUS
  <2>7. Delivered(WholeDrive(b, u))'
    BY <1>1, <2>2, <2>4, <2>5, <2>6, DriveDelivers
  <2>8. InputDrive(c, k, frame)' = WholeDrive(b, u)
    BY <2>3, <2>6, DrivesKept
  <2>9. Delivered(InputDrive(c, k, frame))'
    BY <2>7, <2>8
  <2> QED
    BY <2>9 DEF InputOK
<1> QED
  BY <1>1, <1>2, HeadParts, WaitedParts, StillPending

\* An output of a child is read: the leaves of its target wait to be written.
LEMMA SinkOutputDelivers ==
  ASSUME FittingTargets, IInv, StagedInv, SinkOutput
  PROVE  \E t : Moves(t) /\ Delivers(t)
<1> DEFINE p == Head1.inst
           a == Head1.at
           s == Design[p].sinks[a]
           v == Unsigned(ReadBinding(Binding(p, s.port), frame))
           t == LeafItems(LeafOp, Parent(p), s.target, v)
<1>1. /\ p \in Instance /\ a \in 1..Len(Design[p].sinks)
      /\ IsSequence(s.target.leaves) /\ ~HasMemoryLeaf(s.target)
      /\ Moves(t)
  BY SinkOutputMoves, Zenon DEF LeafOp
<1>2. Head(todo).op = "sink"
  BY Zenon DEF SinkOutput, Doing, Head1
<1>3. Items(t) = LeafWrites(LeafOp, Parent(p), s.target, v)
  BY <1>1, LeafItemsItems
<1>4. ASSUME NEW B \in SUBSET (Instance \ {Top}), QuietMove(t), Pending(B)
      PROVE  Pending(B)'
  <2>1. ASSUME NEW c \in (Instance \ {Top}) \ B, NEW k \in 1..Len(Design[c].sinks),
               NEW n \in 1..Len(Design[c].sinks[k].target.leaves),
               Head(todo) = ItemAt("sink", c, k)
        PROVE  SinkOK(c, k, n)'
    <3>1. p = c /\ a = k
      BY <2>1, HeadParts DEF Head1
    <3>2. SinkLeafOf(c, k, n).kind # "memory"
      BY <1>1, <3>1 DEF HasMemoryLeaf, SinkLeafOf
    <3>3. SinkWrite(c, k, n) \in Items(t)
      BY <1>3, <3>1 DEF LeafWrites, SinkWrite, SinkBits, SinkLeafOf
    <3> HIDE DEF t
    <3>4. PICK w : w = SinkWrite(c, k, n)
      OBVIOUS
    <3>5. PICK u : u = t
      OBVIOUS
    <3>6. Waits(w)'
      BY <1>4, <3>3, <3>4, <3>5, WaitsOn
    <3>7. SinkWrite(c, k, n)' = w
      BY <1>4, <3>4, <3>5, DrivesKept
    <3>8. Waits(SinkWrite(c, k, n))'
      BY <3>6, <3>7
    <3> QED
      BY <3>2, <3>8 DEF SinkOK
  <2> HIDE DEF t
  <2>2. PICK u : u = t
    OBVIOUS
  <2>3. QuietMove(u)
    BY <1>4, <2>2
  <2> QED
    BY <1>2, <1>4, <2>1, <2>3, HeadParts, WaitedParts, StillPending
<1> HIDE DEF t
<1>5. PICK u : u = t
  OBVIOUS
<1>6. Moves(u) /\ Delivers(u)
  BY <1>1, <1>4, <1>5 DEF Delivers
<1> QED
  BY <1>6

\* A leaf of the target of an output is written.
LEMMA SinkLeafDelivers ==
  ASSUME FittingTargets, IInv, StagedInv, SinkLeaf, ~changed'
  PROVE  Delivers(<<>>)
<1> SUFFICES ASSUME NEW B \in SUBSET (Instance \ {Top}), QuietMove(<<>>), Pending(B)
             PROVE  Pending(B)'
  BY DEF Delivers
<1>0. LeafOp \in SettleOps /\ Doing(LeafOp)
  BY Zenon DEF SinkLeaf, SettleOps, LeafOp
<1>1. /\ Head(todo).op = LeafOp /\ IsFrame(frame)
      /\ DriversStaged /\ DOMAIN drivers = Object
  BY <1>0, DoingInSettle, DoingInPass
<1>2. ASSUME NEW c \in (Instance \ {Top}) \ B, NEW k \in 1..Len(Design[c].sinks),
             NEW n \in 1..Len(Design[c].sinks[k].target.leaves),
             SinkOK(c, k, n), Head(todo) = SinkWrite(c, k, n)
      PROVE  SinkOK(c, k, n)'
  <2> DEFINE i == Parent(c)
             leaf == SinkLeafOf(c, k, n)
             b == Binding(i, leaf.name)
             bits == SinkBits(c, k, n, frame)
             v == Merged(leaf, ReadBinding(b, frame), bits)
  <2>1. Head1.inst = i /\ Head1.leaf = leaf /\ Head1.bits = bits
    BY <1>2, HeadParts DEF Head1
  <2>2. CASE Waits(ItemAt("sink", c, k))
    <3>1. Head(todo) # ItemAt("sink", c, k)
      BY <1>1, HeadParts, WaitedParts
    <3>2. Waits(ItemAt("sink", c, k))'
      BY <2>2, <3>1, WaitsOn
    <3> QED
      BY <3>2 DEF SinkOK
  <2>3. CASE leaf.kind # "memory"
    <3>1. /\ leaf.name \in Names(i) /\ IsPart(leaf, b.view)
          /\ NetSignal(i, leaf.name) => IsNet(b.obj)
      BY <2>3 DEF FittingTargets, LeafFits, SinkLeafOf, IsPart
    <3>2. FitsObject(b)
      BY <3>1, DrivesFit, HierarchyAssumption DEF Parent
    <3>3. IsVector(bits, leaf.width)
      BY DEF SinkBits, LeafBits, Slice, IsVector, SinkLeafOf
    <3>4. SinkDrive(c, k, n, frame) = LeafDrive(i, leaf, bits)
      BY DEF SinkDrive, SinkLeafOf
    <3>5. \/ IsNet(b.obj) /\ StageDriver(b.obj, LeafDriver(i, leaf, bits))
          \/ ~IsNet(b.obj) /\ WriteFrame(b, v)
          \/ IsNet(b.obj) /\ IsReplaced(b.obj)
      <4>1. ~NetSignal(i, leaf.name) => IsReplaced(b.obj)
        BY DEF IsReplaced, SinkLeafOf
      <4>2. IF NetSignal(i, leaf.name) THEN StageDriver(b.obj, LeafDriver(i, leaf, bits))
            ELSE WriteFrame(b, v)
        BY <2>1, Zenon DEF SinkLeaf
      <4> QED
        BY <3>1, <4>1, <4>2
    <3> HIDE DEF bits, leaf
    <3>6. PICK u : u = bits
      OBVIOUS
    <3>7. Delivered(LeafDrive(i, leaf, u))'
      BY <1>1, <3>1, <3>2, <3>3, <3>5, <3>6, LeafDelivers
    <3>8. SinkDrive(c, k, n, frame)' = LeafDrive(i, leaf, u)
      BY <3>4, <3>6, DrivesKept
    <3>9. Delivered(SinkDrive(c, k, n, frame))'
      BY <3>7, <3>8
    <3> QED
      BY <2>3, <3>9 DEF SinkOK, leaf
  <2> QED
    BY <1>2, <2>2, <2>3 DEF SinkOK
<1>3. /\ \A c : Head(todo) # Item("child", c) /\ Head(todo) # Item("module", c)
      /\ \A c, k : Head(todo) # ItemAt("drive", c, k) /\ Head(todo) # ItemAt("sink", c, k)
      /\ \A d : Head(todo) # InputItem(d)
  BY <1>1, HeadParts, WaitedParts
<1> QED
  BY <1>2, <1>3, StillPending

\* The code of a module and its commit are no connections.
LEMMA CodeDelivers ==
  ASSUME FittingTargets, IInv, StagedInv,
         \/ ContinuousAssign \/ AssignLeaf
         \/ CombBlock \/ CombControl \/ CombAssign \/ CombLeaf
         \/ CommitName \/ RefreshName \/ EndCommit
  PROVE  \E t : Moves(t) /\ Delivers(t)
<1>1. /\ Head(todo).op # "input" /\ Head(todo).op # "child" /\ Head(todo).op # "module"
      /\ Head(todo).op # "drive" /\ Head(todo).op # "sink" /\ Head(todo).op # LeafOp
  BY Zenon DEF ContinuousAssign, AssignLeaf, CombBlock, CombControl, CombAssign, CombLeaf,
               CommitName, RefreshName, EndCommit, Doing, Head1, LeafOp
<1>2. PICK t : Moves(t)
  BY SettleMoves, Zenon DEF SettleAction
<1>3. Delivers(t)
  <2> SUFFICES ASSUME NEW B \in SUBSET (Instance \ {Top}), QuietMove(t), Pending(B)
               PROVE  Pending(B)'
    BY DEF Delivers
  <2> QED
    BY <1>1, HeadParts, StillPending
<1> QED
  BY <1>2, <1>3

\* So every action of a pass that reports no change delivers.
LEMMA SettleDelivers ==
  ASSUME FittingTargets, IInv, StagedInv, SettleAction, ~changed'
  PROVE  \E t : Moves(t) /\ Delivers(t)
<1>1. CASE ApplyInput
  BY <1>1, ApplyInputDelivers, PoppingMoves
<1>2. CASE EnterModule
  <2>1. PICK t : t = ModuleWork(Head1.inst)
    OBVIOUS
  <2>2. Moves(t) /\ Delivers(t)
    BY <1>2, <2>1, EnterModuleDelivers, HierarchyMoves
  <2> QED
    BY <2>2
<1>3. CASE EnterChild
  <2>1. PICK t : t = ChildWork(Head1.inst)
    OBVIOUS
  <2>2. Moves(t) /\ Delivers(t)
    BY <1>3, <2>1, EnterChildDelivers, HierarchyMoves
  <2> QED
    BY <2>2
<1>4. CASE DriveInput
  BY <1>4, DriveInputDelivers, PoppingMoves
<1>5. CASE SinkOutput
  BY <1>5, SinkOutputDelivers
<1>6. CASE SinkLeaf
  BY <1>6, SinkLeafDelivers, SinkLeafMoves
<1> QED
  BY <1>1, <1>2, <1>3, <1>4, <1>5, <1>6, CodeDelivers DEF SettleAction

-----------------------------------------------------------------------------
(* The end of a settle.                                                    *)

\* A pass starts with everything ahead of it.
LEMMA PassPends ==
  ASSUME NEW f, NEW n, StartPass(f, n)
  PROVE  Pending(Instance \ {Top})'
<1>1. todo' = PassWork
  BY DEF StartPass
<1>2. /\ Waits(Item("module", Top))'
      /\ \A k \in 1..Len(DrivenFromOutside) : Waits(InputItem(DrivenFromOutside[k]))'
  BY <1>1, PassItems DEF Waits, InputItem
<1>3. ASSUME NEW c \in Instance \ {Top} PROVE EnteredLater(c, Instance \ {Top})'
  <2>1. Parent(c) \in Instance
    BY HierarchyAssumption DEF Parent
  <2>2. CASE Parent(c) = Top
    <3>1. Waits(Item("module", Parent(c)))'
      BY <1>2, <2>2 DEF Parent
    <3> QED
      BY <3>1 DEF EnteredLater
  <2>3. CASE Parent(c) # Top
    BY <2>1, <2>3 DEF EnteredLater
  <2> QED
    BY <2>2, <2>3
<1> QED
  BY <1>2, <1>3 DEF Pending, OutsideOK

\* A step that changes nothing changes nothing of it.
LEMMA PendingStays == ASSUME UNCHANGED vars, NEW B, Pending(B) PROVE Pending(B)'
<1>1. /\ todo' = todo /\ frame' = frame /\ drivers' = drivers
      /\ call' = call /\ memories' = memories
  BY DEF vars, session, settling
<1>2. \A w : Waits(w)' = Waits(w)
  BY <1>1 DEF Waits
<1>3. \A d : Delivered(d)' = Delivered(d)
  BY <1>1 DEF Delivered, TakesBits
<1>4. ASSUME NEW c, EnteredLater(c, B) PROVE EnteredLater(c, B)'
  BY <1>2, <1>4 DEF EnteredLater
<1>5. ASSUME NEW c, NEW k, InputOK(c, k) PROVE InputOK(c, k)'
  <2>1. PICK d : d = InputDrive(c, k, frame)
    OBVIOUS
  <2>2. InputDrive(c, k, frame)' = d
    BY <1>1, <2>1 DEF InputDrive
  <2>3. Waits(ItemAt("drive", c, k))' \/ Delivered(d)'
    BY <1>2, <1>3, <1>5, <2>1 DEF InputOK
  <2> QED
    BY <2>2, <2>3 DEF InputOK
<1>6. ASSUME NEW c, NEW k, NEW n, SinkOK(c, k, n) PROVE SinkOK(c, k, n)'
  <2>1. PICK d : d = SinkDrive(c, k, n, frame)
    OBVIOUS
  <2>2. PICK w : w = SinkWrite(c, k, n)
    OBVIOUS
  <2>3. SinkDrive(c, k, n, frame)' = d /\ SinkWrite(c, k, n)' = w
    BY <1>1, <2>1, <2>2 DEF SinkDrive, SinkWrite, SinkBits
  <2>4. \/ Waits(ItemAt("sink", c, k))'
        \/ SinkLeafOf(c, k, n).kind # "memory" /\ (Waits(w)' \/ Delivered(d)')
    BY <1>2, <1>3, <1>6, <2>1, <2>2 DEF SinkOK
  <2> QED
    BY <2>3, <2>4 DEF SinkOK
<1>7. ASSUME NEW e, OutsideOK(e) PROVE OutsideOK(e)'
  <2>1. PICK d : d = OutsideDrive(e)
    OBVIOUS
  <2>2. OutsideDrive(e)' = d /\ IsDriven(e)' = IsDriven(e)
    BY <1>1, <2>1 DEF OutsideDrive, IsDriven
  <2>3. Waits(InputItem(e))' \/ ~IsDriven(e) \/ Delivered(d)'
    BY <1>2, <1>3, <1>7, <2>1 DEF OutsideOK
  <2> QED
    BY <2>2, <2>3 DEF OutsideOK
<1>8. \A c \in (Instance \ {Top}) \ B : ChildOK(c)'
  BY <1>5, <1>6 DEF Pending, ChildOK
<1> QED
  BY <1>4, <1>7, <1>8 DEF Pending

\* Every step keeps what a pass that reports no change has delivered.
LEMMA ConnectPreserves ==
  ASSUME FittingTargets, IInv, StagedInv, ConnectInv, [AnyNext]_vars
  PROVE  ConnectInv'
<1> SUFFICES ASSUME InSettle', ~changed'
             PROVE  \E C \in SUBSET (Instance \ {Top}) : Pending(C)'
  BY DEF ConnectInv
<1>1. CASE SettleAction
  <2>1. PICK t : Moves(t) /\ Delivers(t)
    BY <1>1, SettleDelivers
  <2>2. QuietMove(t) /\ InSettle /\ ~changed
    BY <1>1, <2>1, SettlesQuietly
  <2>3. PICK B \in SUBSET (Instance \ {Top}) : Pending(B)
    BY <2>2 DEF ConnectInv
  <2> QED
    BY <2>1, <2>2, <2>3 DEF Delivers
<1>2. ASSUME NEW f, NEW n, StartPass(f, n)
      PROVE  \E C \in SUBSET (Instance \ {Top}) : Pending(C)'
  BY <1>2, PassPends
<1>3. CASE UNCHANGED vars /\ InSettle
  <2>1. changed' = changed
    BY <1>3 DEF vars, settling
  <2>2. PICK B \in SUBSET (Instance \ {Top}) : Pending(B)
    BY <1>3, <2>1 DEF ConnectInv
  <2>3. Pending(B)'
    BY <1>3, <2>2, PendingStays
  <2> QED
    BY <2>3
<1> QED
  BY <1>1, <1>2, <1>3, IntoPass

\* When a settle ends nothing waits, so no instance is ahead of it and every
\* connection has delivered.
LEMMA QuietConnections ==
  ASSUME ConnectInv, Converged
  PROVE  \A d \in ConnectionDrives(frame) : Delivered(d)
<1>1. InSettle /\ ~changed /\ todo = <<>>
  BY DEF Converged, EndOfPass, Quiet
<1>2. \A w : ~Waits(w)
  BY <1>1, ListedItems DEF Waits
<1>3. PICK B \in SUBSET (Instance \ {Top}) : Pending(B)
  BY <1>1 DEF ConnectInv
<1>4. B = {}
  <2> SUFFICES ASSUME B # {} PROVE FALSE
    OBVIOUS
  <2>1. PICK c \in B : Parent(c) \notin B
    BY HierarchyAssumption DEF Parent
  <2> QED
    BY <1>2, <1>3, <2>1 DEF Pending, EnteredLater
<1>5. ASSUME NEW d \in OutsideDrives PROVE Delivered(d)
  <2>1. PICK k \in 1..Len(DrivenFromOutside) :
          IsDriven(DrivenFromOutside[k]) /\ d = OutsideDrive(DrivenFromOutside[k])
    BY DEF OutsideDrives
  <2> QED
    BY <1>2, <1>3, <2>1 DEF Pending, OutsideOK
<1>6. ASSUME NEW c \in Instance \ {Top}, NEW d \in InputDrives(c, frame) PROVE Delivered(d)
  <2>1. PICK k \in 1..Len(Design[c].drivers) : d = InputDrive(c, k, frame)
    BY DEF InputDrives
  <2> QED
    BY <1>2, <1>3, <1>4, <2>1 DEF Pending, ChildOK, InputOK
<1>7. ASSUME NEW c \in Instance \ {Top}, NEW d \in SinkDrives(c, frame) PROVE Delivered(d)
  <2>1. PICK k \in 1..Len(Design[c].sinks) :
          \E n \in 1..Len(Design[c].sinks[k].target.leaves) : d = SinkDrive(c, k, n, frame)
    BY DEF SinkDrives
  <2>2. PICK n \in 1..Len(Design[c].sinks[k].target.leaves) : d = SinkDrive(c, k, n, frame)
    BY <2>1
  <2>3. SinkOK(c, k, n)
    BY <1>3, <1>4 DEF Pending, ChildOK
  <2> QED
    BY <1>2, <2>2, <2>3 DEF SinkOK
<1> QED
  BY <1>5, <1>6, <1>7 DEF ConnectionDrives

-----------------------------------------------------------------------------
(* The theorems. *)

\* The nets' part of the invariant, in every state.
LEMMA StagedInductive == AnySpec => [](IInv /\ StagedInv)
<1>1. Init => StagedInv
  BY DEF Init, StagedInv, InSettle
<1> QED
  BY <1>1, InitHolds, NextPreserves, StagedPreserves, PTL DEF AnySpec

\* When a settle ends, every net has the value that its kind and the set of the
\* bits driven onto it determine, bit by bit: no order of the drivers, no pass
\* and no strength is left in it (resolve_staged_nets, resolve_net).
THEOREM NetsSettle == Spec => [](Converged => NetsResolved)
<1>1. IInv /\ StagedInv => (Converged => NetsResolved)
  BY QuietNets
<1> QED
  BY <1>1, SpecIsAny, StagedInductive, PTL

\* And every connection of the hierarchy has delivered what the values it ends
\* with say, in every design whose targets fit the signals they name
\* (settle_module_pass, drive_child_inputs, apply_child_output_sinks,
\* apply_external_inputs).
THEOREM ConnectionsDeliver == ASSUME FittingTargets PROVE Spec => []ConnectionsSettle
<1>1. Init => ConnectInv
  BY DEF Init, ConnectInv, InSettle
<1>2. IInv /\ StagedInv /\ ConnectInv /\ [AnyNext]_vars => ConnectInv'
  BY ConnectPreserves
<1>3. IInv /\ StagedInv /\ ConnectInv => ConnectionsSettle
  BY QuietNets, QuietConnections DEF ConnectionsSettle
<1> QED
  BY <1>1, <1>2, <1>3, SpecIsAny, StagedInductive, PTL DEF AnySpec

=============================================================================
