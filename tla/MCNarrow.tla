------------------------------ MODULE MCNarrow ------------------------------
(***************************************************************************)
(* A register looked at through a narrower input port:                     *)
(*   module probe(input logic d, output logic y); assign y = d; endmodule  *)
(*   module top(input clk, input we, input [1:0] in, output logic y);      *)
(*     logic [1:0] r;                                                      *)
(*     probe p(.d(r), .y(y));                                              *)
(*     always_ff @(posedge clk) if (we) r <= in;                           *)
(***************************************************************************)
EXTENDS MCSession

MCCode ==
  ("if"    :> If(Id("we"), "r<=in", "skip")) @@
  ("r<=in" :> Nonblocking(<<Whole("r", 2)>>, Id("in"))) @@
  ("skip"  :> Empty)

Probe ==
  [decls    |-> <<Decl("d", "input", "variable", 1), Decl("y", "output", "variable", 1)>>,
   memories |-> NoMemories,
   assigns  |-> <<Assign(<<Whole("y", 1)>>, Id("d"))>>, blocks |-> <<>>]

NarrowTop ==
  [decls    |-> <<Decl("clk", "input", "wire", 1), Decl("we", "input", "wire", 1),
                  Decl("in", "input", "wire", 2), Decl("y", "output", "variable", 1),
                  Decl("r", "none", "variable", 2)>>,
   memories |-> NoMemories, assigns |-> <<>>, blocks |-> <<Ff("clk", "none", "if")>>]

L == INSTANCE Layout WITH
       Modules    <- ("probe" :> Probe) @@ ("top" :> NarrowTop),
       Hierarchy  <-
         ("top" :> [module |-> "top", parent |-> "none", children |-> <<"p">>,
                    params |-> NoParams, connections |-> NoPorts]) @@
         ("p" :> [module |-> "probe", parent |-> "top", children |-> <<>>, params |-> NoParams,
                  connections |-> ("d" :> Wire("r", 2)) @@ ("y" :> Wire("y", 1))]),
       Statements <- MCCode

MCDesign  == LET tables == L!InstanceTables IN tables
MCLayouts == LET objects == L!ObjectLayouts IN objects

MCRequests ==
  {Call("step", ("clk" :> <<clk>>) @@ ("we" :> <<we>>) @@ ("in" :> <<"1", "1">>)) :
     clk \in {"0", "1"}, we \in {"0", "1"}}
=============================================================================
