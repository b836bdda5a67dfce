------------------------------ MODULE Netlist ------------------------------
(***************************************************************************)
(* What a design means, without passes, overlays or staged drivers: the    *)
(* equations its values solve.  A settle of Session is to end in a         *)
(* solution.                                                               *)
(*                                                                         *)
(* A variable has the value of the one thing that drives it.  A net has,   *)
(* bit by bit, the value its kind gives the set of bits driven onto it.    *)
(***************************************************************************)
EXTENDS Wiring

-----------------------------------------------------------------------------
\* Running a combinational block on a table of values, from top to bottom.
AssignTo(i, s, table) ==
  LET val == ValueIn(s.expr, i, table, memories[i])
      leaves == s.target.leaves
      At(n) == {k \in 1..Len(leaves) : leaves[k].name = n}
  IN  [n \in DOMAIN table |->
         [b \in 1..Len(table[n]) |->
            LET hits == {k \in At(n) : b \in (leaves[k].low + 1)..(leaves[k].low + leaves[k].width)}
            IN  IF hits = {} THEN table[n][b]
                ELSE LeafBits(s.target, leaves[Max(hits)], val)[b - leaves[Max(hits)].low]]]

RECURSIVE RunAll(_, _, _)
RunAll(i, labels, table) ==
  IF labels = <<>> THEN table
  ELSE LET s == Code[Head(labels)]
           V(e) == ValueIn(e, i, table, memories[i])
       IN  IF s.kind = "assign"
           THEN RunAll(i, Tail(labels), AssignTo(i, s, table))
           ELSE RunAll(i, Chosen(s, V) \o Tail(labels), table)

-----------------------------------------------------------------------------
(* Everything that drives something, under a frame f. *)

\* A combinational block drives what it writes with what it computes.
CombDrives(i, f) ==
  UNION {LET body == Design[i].blocks[k].body
             out  == RunAll(i, <<body>>, Table(i, f))
         IN  {WholeDrive(Binding(i, n), out[n]) : n \in WriteSets[body]} :
           k \in BlocksOf(i, "comb")}

\* A clocked block drives what it writes with what the session remembers.
FfDrives(i) ==
  UNION {{WholeDrive(Binding(i, n), ReadBinding(Binding(i, n), persisted)) :
            n \in WriteSets[Design[i].blocks[k].body]} : k \in BlocksOf(i, "ff")}

AllDrives(f) ==
  ConnectionDrives(f) \cup
  UNION {AssignDrives(i, f) \cup CombDrives(i, f) \cup FfDrives(i) : i \in Instance}

NetSolved(f, drives) ==
  \A o \in {p \in Object : IsNet(p)} : \A k \in 1..Layouts[o].width :
    f[o][k] = NetBit(Layouts[o].storage, f[o][k],
                     {DrivenBit(d, k) : d \in {e \in drives : e.binding.obj = o}})

VariableSolved(f, drives) ==
  \A d \in drives : ~IsNet(d.binding.obj) => TakesBits(f, d)

Solution(f) ==
  LET drives == AllDrives(f)
  IN  NetSolved(f, drives) /\ VariableSolved(f, drives)

\* eval_once settles to a fixed point that solves the design: whatever the
\* order of passes, commits and children, each net is the resolution of its
\* drivers and each variable the value of its own.
SettledIsSolution == Converged => Solution(frame)
=============================================================================
