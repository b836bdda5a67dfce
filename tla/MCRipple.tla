------------------------------ MODULE MCRipple ------------------------------
(***************************************************************************)
(* A carry chain written as one vector:                                    *)
(*   module top(input cin, output logic [15:0] c);                         *)
(*     assign c = {c[14:0], cin};                                          *)
(* Bit k depends on bit k - 1: the chain is 16 long and has no loop.       *)
(***************************************************************************)
EXTENDS MCSession

MCCode == "none" :> Empty

RippleTop ==
  [decls    |-> <<Decl("cin", "input", "wire", 1), Decl("c", "output", "variable", 16)>>,
   memories |-> NoMemories,
   assigns  |-> <<Assign(<<Whole("c", 16)>>, ConcatOf(<<Part(Id("c"), 0, 14), Id("cin")>>))>>,
   blocks   |-> <<>>]

L == INSTANCE Layout WITH
       Modules    <- "top" :> RippleTop,
       Hierarchy  <- "top" :> [module |-> "top", parent |-> "none", children |-> <<>>,
                               params |-> NoParams, connections |-> NoPorts],
       Statements <- MCCode

MCDesign  == LET tables == L!InstanceTables IN tables
MCLayouts == LET objects == L!ObjectLayouts IN objects
MCRequests == {Call("eval", "cin" :> <<b>>) : b \in {"0", "1"}}
=============================================================================
