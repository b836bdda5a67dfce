------------------------------- MODULE MCPipe -------------------------------
(***************************************************************************)
(* Three flip-flops in a row, in three places of a hierarchy:              *)
(*   module dff(input clk, input logic d, output logic q);                 *)
(*     always_ff @(posedge clk) q <= d;                                    *)
(*   module top(input clk, input logic d, output logic q);                 *)
(*     wire mid; logic last;                                               *)
(*     dff a(.clk(clk), .d(d), .q(mid));                                   *)
(*     dff b(.clk(clk), .d(mid), .q(last));                                *)
(*     always_ff @(posedge clk) q <= last;                                 *)
(* mid is shared with a's output and b's input; last is fed by a sink.     *)
(***************************************************************************)
EXTENDS MCSession

MCCode ==
  ("q<=d"    :> Nonblocking(<<Whole("q", 1)>>, Id("d"))) @@
  ("q<=last" :> Nonblocking(<<Whole("q", 1)>>, Id("last")))

Dff ==
  [decls    |-> <<Decl("clk", "input", "wire", 1),
                  Decl("d", "input", "variable", 1),
                  Decl("q", "output", "variable", 1)>>,
   memories |-> NoMemories,
   assigns  |-> <<>>,
   blocks   |-> <<Ff("clk", "none", "q<=d")>>]

PipeTop ==
  [decls    |-> <<Decl("clk", "input", "wire", 1),
                  Decl("d", "input", "variable", 1),
                  Decl("q", "output", "variable", 1),
                  Decl("mid", "none", "wire", 1),
                  Decl("last", "none", "variable", 1)>>,
   memories |-> NoMemories,
   assigns  |-> <<>>,
   blocks   |-> <<Ff("clk", "none", "q<=last")>>]

DffInstance(d, q) ==
  [module |-> "dff", parent |-> "top", children |-> <<>>, params |-> NoParams,
   connections |-> ("clk" :> Wire("clk", 1)) @@ ("d" :> Wire(d, 1)) @@ ("q" :> Wire(q, 1))]

PipeHierarchy ==
  ("top" :> [module |-> "top", parent |-> "none", children |-> <<"a", "b">>,
             params |-> NoParams, connections |-> NoPorts]) @@
  ("a" :> DffInstance("d", "mid")) @@
  ("b" :> DffInstance("mid", "last"))

L == INSTANCE Layout WITH
       Modules    <- ("dff" :> Dff) @@ ("top" :> PipeTop),
       Hierarchy  <- PipeHierarchy,
       Statements <- MCCode

ASSUME L!Instantiable

MCDesign  == LET tables == L!InstanceTables IN tables
MCLayouts == LET objects == L!ObjectLayouts IN objects

ASSUME WholeViews

Levels == {<<"0">>, <<"1">>, <<"X">>}

MCRequests ==
  {Call(op, ("clk" :> c) @@ ("d" :> d)) : op \in {"eval", "step"}, c \in Levels, d \in Levels}

-----------------------------------------------------------------------------
\* The abstract shift register: the persisted registers, and the clock level
\* of the last step that reached its commit.
StageObjects == << <<"top", "mid">>, <<"b", "q">>, <<"top", "q">> >>

SR == INSTANCE ShiftRegister WITH
        Requests <- Requests,
        NoCall   <- Idle,
        Zero     <- <<"0">>,
        IsHigh   <- LAMBDA r : r.inputs["clk"] = <<"1">>,
        DataOf   <- LAMBDA r : r.inputs["d"],
        stages   <- [k \in 1..3 |-> persisted[StageObjects[k]]],
        high     <- IF phase = "step" THEN before.clocks["a"]["clk"] ELSE clocks["a"]["clk"],
        pending  <- call,
        ticked   <- phase = "resettle",
        output   <- IF result.values = Nothing THEN <<"0">> ELSE result.values["q"]

\* The session implements the shift register: through parent, children, shared
\* net and sink, all stages move together and only on a rising clock.
ShiftsTogether == SR!Spec
=============================================================================
