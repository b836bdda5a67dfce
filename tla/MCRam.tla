------------------------------- MODULE MCRam -------------------------------
(***************************************************************************)
(* State in a child and a memory in the parent, which can fail:            *)
(*   module toggle(input clk, input rst, output logic t);                  *)
(*     always_ff @(posedge clk or posedge rst)                             *)
(*       if (rst) t <= 1'b0; else t <= ~t;                                 *)
(*   module top(input clk, input rst, input [1:0] addr, input d,           *)
(*              output logic q, output logic t);                           *)
(*     logic mem [2:1]; logic held;                                        *)
(*     toggle u(.clk(clk), .rst(rst), .t(t));                              *)
(*     always_ff @(posedge clk) begin                                      *)
(*       held = d; mem[addr] <= held; q <= mem[addr]; end                  *)
(* An address outside 1..2, or an unknown one, is an error of the step.    *)
(***************************************************************************)
EXTENDS MCSession

MCCode ==
  ("toggle" :> If(Id("rst"), "t<=0", "t<=~t")) @@
  ("t<=0"   :> Nonblocking(<<Whole("t", 1)>>, Lit(<<"0">>))) @@
  ("t<=~t"  :> Nonblocking(<<Whole("t", 1)>>, Un("~", Id("t")))) @@
  ("ram"    :> Block(<<"held=d", "mem<=", "q<=">>)) @@
  ("held=d" :> Blocking(<<Whole("held", 1)>>, Id("d"))) @@
  ("mem<="  :> Nonblocking(<<Element("mem", 1, Id("addr"))>>, Id("held"))) @@
  ("q<="    :> Nonblocking(<<Whole("q", 1)>>, MemRead("mem", Id("addr"))))

Toggle ==
  [decls    |-> <<Decl("clk", "input", "wire", 1), Decl("rst", "input", "wire", 1),
                  Decl("t", "output", "variable", 1)>>,
   memories |-> NoMemories, assigns |-> <<>>, blocks |-> <<Ff("clk", "rst", "toggle")>>]

RamTop ==
  [decls    |-> <<Decl("clk", "input", "wire", 1), Decl("rst", "input", "wire", 1),
                  Decl("addr", "input", "wire", 2), Decl("d", "input", "wire", 1),
                  Decl("q", "output", "variable", 1), Decl("t", "output", "variable", 1),
                  Decl("held", "none", "variable", 1)>>,
   memories |-> "mem" :> Memory(1, 2, 1),
   assigns  |-> <<>>,
   blocks   |-> <<Ff("clk", "none", "ram")>>]

RamHierarchy ==
  ("top" :> [module |-> "top", parent |-> "none", children |-> <<"u">>,
             params |-> NoParams, connections |-> NoPorts]) @@
  ("u" :> [module |-> "toggle", parent |-> "top", children |-> <<>>, params |-> NoParams,
           connections |-> ("clk" :> Wire("clk", 1)) @@ ("rst" :> Wire("rst", 1)) @@
                           ("t" :> Wire("t", 1))])

L == INSTANCE Layout WITH
       Modules    <- ("toggle" :> Toggle) @@ ("top" :> RamTop),
       Hierarchy  <- RamHierarchy,
       Statements <- MCCode

ASSUME L!Instantiable

MCDesign  == LET tables == L!InstanceTables IN tables
MCLayouts == LET objects == L!ObjectLayouts IN objects

ASSUME WholeViews

One     == <<"1", "0">>
Two     == <<"0", "1">>
Three   == <<"1", "1">>
Unclear == <<"X", "0">>

Step(clk, rst, addr, d) ==
  Call("step", ("clk" :> clk) @@ ("rst" :> rst) @@ ("addr" :> addr) @@ ("d" :> d))

MCRequests ==
  {Step(<<"0">>, <<"0">>, One, <<"0">>), Step(<<"0">>, <<"1">>, One, <<"0">>),
   Step(<<"1">>, <<"0">>, Two, <<"0">>), Step(<<"1">>, <<"0">>, One, <<"1">>),
   Step(<<"1">>, <<"0">>, Three, <<"1">>), Step(<<"1">>, <<"0">>, Unclear, <<"1">>),
   [Step(<<"1">>, <<"0">>, One, <<"X">>) EXCEPT !.two = TRUE],
   [op |-> "read", inputs |-> NoPorts, two |-> FALSE, inst |-> "u", name |-> "t"],
   [op |-> "read", inputs |-> NoPorts, two |-> FALSE, inst |-> "v", name |-> "t"],
   [op |-> "words", inst |-> "top", memory |-> "mem", words |-> << <<"1", "1">>, <<"1">>, <<"1">> >>],
   [op |-> "words", inst |-> "u", memory |-> "mem", words |-> <<>>],
   [op |-> "file", inst |-> "top", memory |-> "mem", parsed |-> TRUE,
    writes |-> <<[index |-> 1, word |-> <<"0">>], [index |-> 0, word |-> <<"1">>]>>],
   [op |-> "word", inst |-> "top", memory |-> "mem", index |-> 1],
   [op |-> "word", inst |-> "top", memory |-> "mem", index |-> 0]}
=============================================================================
