------------------------------- MODULE MCComb -------------------------------
(***************************************************************************)
(* Combinational code across a hierarchy, with a loop:                     *)
(*   module alu(input logic [1:0] a, input op, output logic [1:0] y);      *)
(*     always_comb begin y = 2'b00;                                        *)
(*       case (op) 1'b0: y = a;                                            *)
(*                 1'b1: if (a[1]) y[0] = ~a[0]; else {y[0], y[1]} = a;    *)
(*       endcase end                                                       *)
(*   module tap(input t, output wire n);                                   *)
(*     always_comb n = t;                                                  *)
(*   module top(input [1:0] a, input op, input en,                         *)
(*              output logic [2:0] r, output logic osc, output wire n);    *)
(*     logic t, s;                                                         *)
(*     alu u(.a(a ^ 2'b01), .op(op), .y(r[1:0]));                          *)
(*     tap v(.t(t), .n(n));                                                *)
(*     assign r[2] = t & r[0];                                             *)
(*     assign osc = en & ~osc;                                             *)
(*     always_comb t = s;                                                  *)
(*     always_comb s = r[1];                                               *)
(***************************************************************************)
EXTENDS MCSession

MCCode ==
  ("alu"  :> Block(<<"y=0", "case">>)) @@
  ("y=0"  :> Blocking(<<Whole("y", 2)>>, Lit(<<"0", "0">>))) @@
  ("case" :> CaseOf(Id("op"), <<ArmOf(Lit(<<"0">>), "y=a"), ArmOf(Lit(<<"1">>), "if")>>, "skip")) @@
  ("y=a"  :> Blocking(<<Whole("y", 2)>>, Id("a"))) @@
  ("if"   :> If(Part(Id("a"), 1, 1), "y0=", "swap")) @@
  ("y0="  :> Blocking(<<PartOf("y", 0, 1)>>, Un("~", Part(Id("a"), 0, 0)))) @@
  ("swap" :> Blocking(<<PartOf("y", 0, 1), PartOf("y", 1, 1)>>, Id("a"))) @@
  ("skip" :> Empty) @@
  ("t=s"  :> Blocking(<<Whole("t", 1)>>, Id("s"))) @@
  ("s="   :> Blocking(<<Whole("s", 1)>>, Part(Id("r"), 1, 1))) @@
  ("n=t"  :> Blocking(<<Whole("n", 1)>>, Id("t")))

Alu ==
  [decls    |-> <<Decl("a", "input", "variable", 2), Decl("op", "input", "wire", 1),
                  Decl("y", "output", "variable", 2)>>,
   memories |-> NoMemories, assigns |-> <<>>, blocks |-> <<Comb("alu")>>]

Tap ==
  [decls    |-> <<Decl("t", "input", "wire", 1), Decl("n", "output", "wire", 1)>>,
   memories |-> NoMemories, assigns |-> <<>>, blocks |-> <<Comb("n=t")>>]

CombTop ==
  [decls    |-> <<Decl("a", "input", "wire", 2), Decl("op", "input", "wire", 1),
                  Decl("en", "input", "wire", 1),
                  Decl("r", "output", "variable", 3), Decl("osc", "output", "variable", 1),
                  Decl("n", "output", "wire", 1), Decl("t", "none", "variable", 1),
                  Decl("s", "none", "variable", 1)>>,
   memories |-> NoMemories,
   assigns  |-> <<Assign(<<PartOf("r", 2, 1)>>, Bin("&", Id("t"), Part(Id("r"), 0, 0))),
                  Assign(<<Whole("osc", 1)>>, Bin("&", Id("en"), Un("~", Id("osc"))))>>,
   blocks   |-> <<Comb("t=s"), Comb("s=")>>]

CombHierarchy ==
  ("top" :> [module |-> "top", parent |-> "none", children |-> <<"u", "v">>,
             params |-> NoParams, connections |-> NoPorts]) @@
  ("u" :> [module |-> "alu", parent |-> "top", children |-> <<>>, params |-> NoParams,
           connections |->
             ("a" :> Connection(Bin("^", Id("a"), Lit(<<"1", "0">>)), <<>>)) @@
             ("op" :> Wire("op", 1)) @@
             ("y" :> Connection(Part(Id("r"), 0, 1), <<PartOf("r", 0, 2)>>))]) @@
  ("v" :> [module |-> "tap", parent |-> "top", children |-> <<>>, params |-> NoParams,
           connections |-> ("t" :> Wire("t", 1)) @@ ("n" :> Wire("n", 1))])

L == INSTANCE Layout WITH
       Modules    <- ("alu" :> Alu) @@ ("tap" :> Tap) @@ ("top" :> CombTop),
       Hierarchy  <- CombHierarchy,
       Statements <- MCCode

ASSUME L!Instantiable

MCDesign  == LET tables == L!InstanceTables IN tables
MCLayouts == LET objects == L!ObjectLayouts IN objects

ASSUME FittingTargets /\ SingleWriters

\* The block of the tap writes a net, that of its parent: its driver is staged.
ASSUME SingleBlocks("top") /\ SingleBlocks("u") /\ ~SingleBlocks("v")

\* With en at one the loop oscillates; with en unknown it settles to unknown.
MCRequests ==
  {Call("eval", ("a" :> a) @@ ("op" :> op)) :
     a \in [1..2 -> {"0", "1"}] \cup {<<"X", "1">>}, op \in {<<"0">>, <<"1">>, <<"X">>}}
  \cup
  {Call("eval", ("a" :> <<"1", "1">>) @@ ("en" :> <<"X">>)),
   Call("eval", ("en" :> <<"1">>)),
   Call("eval", ("nosuch" :> <<"1">>))}
=============================================================================
