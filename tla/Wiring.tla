------------------------------- MODULE Wiring -------------------------------
(***************************************************************************)
(* How the parts of a design are wired: what a port or an input puts on    *)
(* the object it drives, and the value a net has, bit by bit, from the set *)
(* of bits driven onto it.  No passes, order or staged drivers.            *)
(***************************************************************************)
EXTENDS SessionProperties

\* Bits driven with one strength: they agree, or the net is unknown.
Agreed(bits, idle) ==
  LET driven == bits \cap {"0", "1", "X"}
  IN  CASE driven = {}    -> idle
        [] driven = {"0"} -> "0"
        [] driven = {"1"} -> "1"
        [] OTHER          -> "X"

\* A wired net: one value wins, an unknown may hide it.
Wired(bits, wins, loses) ==
  CASE wins \in bits  -> wins
    [] "X" \in bits   -> "X"
    [] loses \in bits -> loses
    [] OTHER          -> "Z"

\* The value of a net of a kind; an undriven trireg keeps what it had.
NetBit(kind, kept, bits) ==
  CASE kind \in {"wire", "tri", "uwire"} -> Agreed(bits, "Z")
    [] kind = "trireg"                   -> Agreed(bits, kept)
    [] kind = "tri0"                     -> Agreed(bits, "0")
    [] kind = "tri1"                     -> Agreed(bits, "1")
    [] kind = "supply0"                  -> "0"
    [] kind = "supply1"                  -> "1"
    [] kind \in {"wand", "triand"}       -> Wired(bits, "0", "1")
    [] kind \in {"wor", "trior"}         -> Wired(bits, "1", "0")

-----------------------------------------------------------------------------
(* Drives: a binding, the lowest bit and the bits that are driven, and     *)
(* whether they are the whole signal.                                      *)

WholeDrive(b, bits) == [binding |-> b, low |-> 0, bits |-> bits, whole |-> TRUE]

LeafDrive(i, leaf, bits) ==
  [binding |-> Binding(i, leaf.name), low |-> leaf.low, bits |-> bits,
   whole |-> leaf.kind = "whole"]

\* An input of a child that does not share an object with the parent, under
\* the values of a frame f.
InputDrive(c, k, f) ==
  LET d == Design[c].drivers[k]
      b == Binding(c, d.port)
  IN  WholeDrive(b, CoerceValue(ValueIn(d.expr, Parent(c), Table(Parent(c), f),
                                        memories[Parent(c)]), b.view))

\* The bits an output of a child has for the leaf n of its target.
SinkBits(c, k, n, f) ==
  LET s == Design[c].sinks[k]
  IN  LeafBits(s.target, s.target.leaves[n], Unsigned(ReadBinding(Binding(c, s.port), f)))

SinkDrive(c, k, n, f) ==
  LeafDrive(Parent(c), Design[c].sinks[k].target.leaves[n], SinkBits(c, k, n, f))

\* The leaves a continuous assignment writes, and what it drives on one of them
\* under the values of a frame f.
AssignLeafOf(i, k, n) == Design[i].assigns[k].target.leaves[n]

AssignBits(i, k, n, f) ==
  LET a == Design[i].assigns[k]
  IN  LeafBits(a.target, AssignLeafOf(i, k, n), ValueIn(a.expr, i, Table(i, f), memories[i]))

AssignDrive(i, k, n, f) == LeafDrive(i, AssignLeafOf(i, k, n), AssignBits(i, k, n, f))

\* The caller drives the inputs, zero by default, and the inouts it names.
IsDriven(d) == d.name \in DOMAIN call.inputs \/ d.dir = "input"

OutsideDrive(d) ==
  WholeDrive(Binding(Top, d.name),
             IF d.name \in DOMAIN call.inputs THEN Coerce(call.inputs[d.name], d.width)
             ELSE ZeroOf(d.width))

InputDrives(c, f) == {InputDrive(c, k, f) : k \in 1..Len(Design[c].drivers)}

SinkDrives(c, f) ==
  UNION {{SinkDrive(c, k, n, f) : n \in 1..Len(Design[c].sinks[k].target.leaves)} :
           k \in 1..Len(Design[c].sinks)}

AssignDrives(i, f) ==
  UNION {{AssignDrive(i, k, n, f) : n \in 1..Len(Design[i].assigns[k].target.leaves)} :
           k \in 1..Len(Design[i].assigns)}

OutsideDrives ==
  {OutsideDrive(d) : d \in {e \in {DrivenFromOutside[k] : k \in 1..Len(DrivenFromOutside)} :
                              IsDriven(e)}}

ConnectionDrives(f) ==
  OutsideDrives \cup UNION {InputDrives(c, f) \cup SinkDrives(c, f) : c \in Instance \ {Top}}

\* What a drive puts on bit k of its object: a whole value is zero-extended.
DrivenBit(d, k) ==
  IF d.whole THEN BitOf(d.bits, k)
  ELSE IF k \in (d.low + 1)..(d.low + Len(d.bits)) THEN d.bits[k - d.low] ELSE "Z"

\* A variable has the bits that drive it.
TakesBits(f, d) == Slice(ReadBinding(d.binding, f), d.low, Len(d.bits)) = d.bits

-----------------------------------------------------------------------------
(* What a settle promises of every design, whatever its code computes.     *)

\* A signal of an instance that is no net may be bound to the object of one:
\* whatever drives it replaces the drivers staged before it.
IsReplaced(o) ==
  \/ \E i \in Instance : \E n \in DOMAIN Design[i].specials :
       Special(i, n) = "replace" /\ Binding(i, n).obj = o
  \/ \E c \in Instance : \E k \in 1..Len(Design[c].sinks) :
       \E n \in 1..Len(Design[c].sinks[k].target.leaves) :
         LET leaf == Design[c].sinks[k].target.leaves[n]
         IN  ~NetSignal(Parent(c), leaf.name) /\ Binding(Parent(c), leaf.name).obj = o

\* A connection has delivered: its variable has its bits, its net a driver.
Delivered(d) ==
  LET o == d.binding.obj
  IN  IF IsNet(o)
      THEN ~IsReplaced(o) =>
             \E n \in 1..Len(drivers[o]) :
               drivers[o][n] = [k \in 1..Layouts[o].width |-> DrivenBit(d, k)]
      ELSE TakesBits(frame, d)

NetsResolved ==
  \A o \in {p \in Object : IsNet(p)} : \A k \in 1..Layouts[o].width :
    frame[o][k] = NetBit(Layouts[o].storage, frame[o][k],
                         {BitOf(drivers[o][n], k) : n \in 1..Len(drivers[o])})

\* When a settle ends, every connection has delivered what the values it ends
\* with say: to the ports of every child what their expressions yield, to the
\* targets of their outputs what the outputs have, to the top what the caller
\* gave; and every net is the resolution of the set of its drivers.  So no
\* connection is skipped, late, or undone by a pass that reports no change
\* (settle_module_pass, apply_external_inputs, resolve_staged_nets).
ConnectionsSettle ==
  Converged => NetsResolved /\ \A d \in ConnectionDrives(frame) : Delivered(d)

\* And every continuous assignment holds of the values a settle ends with: its
\* variables have the bits its expression yields under them, its nets a driver
\* with these bits.  In a pass the expression reads what the assignments before
\* it have written, and the children have not run (execute_continuous_assign,
\* OverlayValues, commit_overlay_to_frame).
AssignsSettle ==
  Converged => \A i \in Instance : \A d \in AssignDrives(i, frame) : Delivered(d)

\* The properties ask of a design what instantiation and validation see to:
\* views lie in their objects, ports are declared once, and targets lie in
\* signals that exist.
LeafFits(i, leaf) ==
  LET b == Binding(i, leaf.name)
  IN  leaf.kind # "memory" =>
        /\ leaf.name \in Names(i)
        /\ leaf.low \in Nat /\ leaf.width \in Nat \ {0} /\ leaf.low + leaf.width <= b.view
        /\ leaf.kind = "whole" => leaf.low = 0 /\ leaf.width = b.view
        /\ NetSignal(i, leaf.name) => IsNet(b.obj)

FittingTargets ==
  /\ \A i \in Instance : \A n \in Names(i) : Binding(i, n).view \in 1..Layouts[Binding(i, n).obj].width
  /\ \A k \in 1..Len(DrivenFromOutside) :
       LET d == DrivenFromOutside[k]
       IN  DeclOf(Top, d.name) = d /\ d.name \in Names(Top) /\ d.width = Binding(Top, d.name).view
  /\ \A c \in Instance : \A k \in 1..Len(Design[c].drivers) : Design[c].drivers[k].port \in Names(c)
  /\ \A c \in Instance : \A k \in 1..Len(Design[c].sinks) :
       \A n \in 1..Len(Design[c].sinks[k].target.leaves) :
         LeafFits(Parent(c), Design[c].sinks[k].target.leaves[n])
  /\ \A i \in Instance : \A k \in 1..Len(Design[i].assigns) :
       \A n \in 1..Len(Design[i].assigns[k].target.leaves) : LeafFits(i, AssignLeafOf(i, k, n))

\* Of assignments they ask what SystemVerilog does, and svsim does not check:
\* a bit of a variable is assigned once, and no block or child drives the
\* variable as a whole.  One that is bound to a net replaces its drivers.
ApartIn(i, l, m) ==
  l.name = m.name /\ l.kind # "memory" /\ m.kind # "memory" /\ ~NetSignal(i, l.name) =>
    l.low + l.width <= m.low \/ m.low + m.width <= l.low

CombWrites(i) == UNION {WriteSets[Design[i].blocks[j].body] : j \in BlocksOf(i, "comb")}

SingleWriters ==
  \A i \in Instance : \A k \in 1..Len(Design[i].assigns) :
    \A n \in 1..Len(Design[i].assigns[k].target.leaves) :
      LET leaf == AssignLeafOf(i, k, n)
      IN  /\ leaf.kind # "memory" /\ ~NetSignal(i, leaf.name) =>
               /\ leaf.name \notin Design[i].childDriven \cup CombWrites(i)
               /\ IsNet(Binding(i, leaf.name).obj) =>
                    leaf.name \in DOMAIN Design[i].specials /\ Special(i, leaf.name) = "replace"
          /\ \A j \in 1..Len(Design[i].assigns) :
               \A m \in 1..Len(Design[i].assigns[j].target.leaves) :
                 k # j \/ n # m => ApartIn(i, leaf, AssignLeafOf(i, j, m))
-----------------------------------------------------------------------------
(* What an always_comb block computes of the values of a frame: its        *)
(* statement run from start to end, with nothing between its steps.        *)

\* A block that is run: the work left, and the signals as it has them.
RunState(work, table) == [work |-> work, table |-> table]

\* What a statement gives way to: the statements it chooses, or the writes of
\* its leaves.
ChosenItems(i, s, table, mem) ==
  LET V(e) == ValueIn(e, i, table, mem)
      body == Chosen(s, V)
  IN  [k \in 1..Len(body) |-> StmtItem("stmt", i, body[k])]

WriteItems(i, s, table, mem) ==
  LeafItems("comb leaf", i, s.target, ValueIn(s.expr, i, table, mem))

RunStmt(i, s, st, mem) ==
  RunState((IF s.kind = "assign" THEN WriteItems(i, s, st.table, mem)
            ELSE ChosenItems(i, s, st.table, mem)) \o Tail(st.work), st.table)

RunLeaf(w, st) ==
  RunState(Tail(st.work), [st.table EXCEPT ![w.leaf.name] = Merged(w.leaf, @, w.bits)])

Executed(i, st, mem) ==
  LET w == Head(st.work)
  IN  CASE st.work = <<>>   -> st
        [] st.work # <<>> /\ w.op = "stmt" -> RunStmt(i, Code[w.stmt], st, mem)
        [] OTHER -> RunLeaf(w, st)

\* The run of a statement of an instance on the values of a frame f, by steps.
Run(i, s, f, mem) ==
  LET run[k \in Nat] == IF k = 0 THEN RunState(<<StmtItem("stmt", i, s)>>, Table(i, f))
                        ELSE Executed(i, run[k - 1], mem)
  IN  run

\* A run takes one step for a statement and one for each of its leaves.
StepsOf(l) == IF Code[l].kind = "assign" THEN Len(Code[l].target.leaves) + 1 ELSE 1

StepBound == MapThenSumSet(StepsOf, Label)

\* A sum of lengths.
ASSUME StepAssumption == StepBound \in Nat

\* The frame has what a run has made of the signals its statement writes.
HasRun(i, s, st) == \A n \in WriteSets[s] : ReadBinding(Binding(i, n), frame) = st.table[n]

\* Of blocks the property asks that their signals are their own: no child and
\* no other block drives them and, bound to a net, they replace its drivers.
SingleBlocks(i) ==
  \A j \in BlocksOf(i, "comb") : \A n \in WriteSets[Design[i].blocks[j].body] :
    /\ n \in Names(i) \ Design[i].childDriven
    /\ IsNet(Binding(i, n).obj) => n \in DOMAIN Design[i].specials /\ Special(i, n) = "replace"
    /\ \A k \in BlocksOf(i, "comb") : n \in WriteSets[Design[i].blocks[k].body] => k = j

\* And every always_comb block holds of the values a settle ends with: run on
\* them, it yields for the signals it writes the values they have.  In a pass it
\* starts from what the assignments have written, its own partial writes are in
\* the overlay, and the commit, the children and the nets come after it
\* (execute_proc_block, execute_comb_stmt, commit_overlay_to_frame).
BlocksSettle ==
  Converged =>
    \A i \in {x \in Instance : SingleBlocks(x)} : \A j \in BlocksOf(i, "comb") :
      LET body == Design[i].blocks[j].body
          run  == Run(i, body, frame, memories[i])
      IN  \A k \in 0..StepBound : run[k].work = <<>> => HasRun(i, body, run[k])
=============================================================================
