------------------------------- MODULE MCBus -------------------------------
(***************************************************************************)
(* Shared nets of several kinds, driven from children, the parent and the  *)
(* caller:                                                                 *)
(*   module drv(input en, input d, output y); assign y = en ? d : 1'bz;    *)
(*   module top(input e1, input e2, input d, inout bus,                    *)
(*              output tri1 up, output [1:0] pair, output logic seen);     *)
(*     trireg keep; wand both; uwire one; supply0 gnd;                     *)
(*     drv u1(.en(e1), .d(d), .y(bus));                                    *)
(*     drv u2(.en(e2), .d(~d), .y(bus));                                   *)
(*     drv u3(.en(e1), .d(e2), .y(pair[1]));                               *)
(*     assign up = e2 ? d : 1'bz;                                          *)
(*     assign keep = e1 ? d : 1'bz;                                        *)
(*     assign both = bus; assign both = up;                                *)
(*     assign one = e1 ? d : 1'bz; assign one = e2 ? d : 1'bz;             *)
(*     assign pair[0] = gnd | both;                                        *)
(*     assign gnd = e1;                                                    *)
(*     assign seen = bus & keep;                                           *)
(***************************************************************************)
EXTENDS MCSession

MCCode == "none" :> Empty

Gate(en, d) == Cond(Id(en), Id(d), Lit(<<"Z">>))
W(n) == <<Whole(n, 1)>>

Drv ==
  [decls    |-> <<Decl("en", "input", "wire", 1), Decl("d", "input", "wire", 1),
                  Decl("y", "output", "wire", 1)>>,
   memories |-> NoMemories, assigns |-> <<Assign(W("y"), Gate("en", "d"))>>, blocks |-> <<>>]

BusTop ==
  [decls |->
     <<Decl("e1", "input", "wire", 1), Decl("e2", "input", "wire", 1),
       Decl("d", "input", "wire", 1), Decl("bus", "inout", "wire", 1),
       Decl("up", "output", "tri1", 1), Decl("pair", "output", "wire", 2),
       Decl("seen", "output", "variable", 1),
       Decl("keep", "none", "trireg", 1), Decl("both", "none", "wand", 1),
       Decl("one", "none", "uwire", 1), Decl("gnd", "none", "supply0", 1)>>,
   memories |-> NoMemories,
   assigns |->
     <<Assign(W("up"), Gate("e2", "d")), Assign(W("keep"), Gate("e1", "d")),
       Assign(W("both"), Id("bus")), Assign(W("both"), Id("up")),
       Assign(W("one"), Gate("e1", "d")), Assign(W("one"), Gate("e2", "d")),
       Assign(W("gnd"), Id("e1")),
       Assign(<<PartOf("pair", 0, 1)>>, Bin("|", Id("gnd"), Id("both"))),
       Assign(W("seen"), Bin("&", Id("bus"), Id("keep")))>>,
   blocks |-> <<>>]

Driver(en, d, y) ==
  [module |-> "drv", parent |-> "top", children |-> <<>>, params |-> NoParams,
   connections |-> ("en" :> Wire(en, 1)) @@ ("d" :> d) @@ ("y" :> y)]

BusHierarchy ==
  ("top" :> [module |-> "top", parent |-> "none", children |-> <<"u1", "u2", "u3">>,
             params |-> NoParams, connections |-> NoPorts]) @@
  ("u1" :> Driver("e1", Wire("d", 1), Wire("bus", 1))) @@
  ("u2" :> Driver("e2", Connection(Un("~", Id("d")), <<>>), Wire("bus", 1))) @@
  ("u3" :> Driver("e1", Wire("e2", 1),
                  Connection(Part(Id("pair"), 1, 1), <<PartOf("pair", 1, 1)>>)))

L == INSTANCE Layout WITH
       Modules    <- ("drv" :> Drv) @@ ("top" :> BusTop),
       Hierarchy  <- BusHierarchy,
       Statements <- MCCode

ASSUME L!Instantiable

MCDesign  == LET tables == L!InstanceTables IN tables
MCLayouts == LET objects == L!ObjectLayouts IN objects

ASSUME FittingTargets /\ SingleWriters

Inputs(enables1, enables2, data) ==
  {("e1" :> e1) @@ ("e2" :> e2) @@ ("d" :> d) : e1 \in enables1, e2 \in enables2, d \in data}

\* The bus is left alone, or driven by the caller too.
MCRequests ==
  {Call("eval", inputs @@ bus) :
     inputs \in Inputs({<<"0">>, <<"1">>}, {<<"0">>, <<"1">>}, {<<"0">>, <<"1">>, <<"X">>}),
     bus \in {NoPorts, "bus" :> <<"1">>}}
  \cup
  {Call("eval", inputs) :
     inputs \in Inputs({<<"X">>}, {<<"0">>, <<"1">>}, {<<"0">>, <<"1">>, <<"Z">>})}
=============================================================================
