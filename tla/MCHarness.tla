----------------------------- MODULE MCHarness -----------------------------
(***************************************************************************)
(* Suites on two flip-flops whose inputs are inverted by a word that is    *)
(* loaded from a file, and a net that keeps a charge:                      *)
(*   module cell(input clk, input logic d, output logic q);                *)
(*     logic inv [2:0];                                                    *)
(*     always_ff @(posedge clk) q <= d ^ inv[0];                           *)
(*   module back(input clk, input d, input e, output logic q,              *)
(*               output wire y);                                           *)
(*     cell b(.clk(clk), .d(d), .q(q));                                    *)
(*     assign y = e ? 1'b1 : 1'bz;                                         *)
(*   module top(input clk, input logic d, output logic q, output trireg c);*)
(*     wire mid;                                                           *)
(*     cell b(.clk(clk), .d(d), .q(mid));                                  *)
(*     back h(.clk(clk), .d(mid), .e(d), .q(q), .y(c));                    *)
(***************************************************************************)
EXTENDS JsonHarness, Hir

LOCAL INSTANCE Expr

Environment(i, values, mem) ==
  [values |-> values, words |-> mem,
   low |-> [m \in DOMAIN Design[i].memories |-> Design[i].memories[m].low]]

MCEval(e, i, values, mem) == LET env == Environment(i, values, mem) IN EvalExpr(e, env)

MCFails(e, i, values, mem) == LET env == Environment(i, values, mem) IN IsError(EvalExpr(e, env))

NoMemories == [m \in {} |-> 0]
NoParams   == [p \in {} |-> <<>>]
NoPorts    == [p \in {} |-> 0]

MCCode == "q<=" :> Nonblocking(<<Whole("q", 1)>>, Bin("^", Id("d"), MemRead("inv", Lit(<<"0">>))))

Cell ==
  [decls    |-> <<Decl("clk", "input", "wire", 1), Decl("d", "input", "variable", 1),
                  Decl("q", "output", "variable", 1)>>,
   memories |-> "inv" :> Memory(0, 3, 1),
   assigns  |-> <<>>, blocks |-> <<Ff("clk", "none", "q<=")>>]

Back ==
  [decls    |-> <<Decl("clk", "input", "wire", 1), Decl("d", "input", "wire", 1),
                  Decl("e", "input", "wire", 1), Decl("q", "output", "variable", 1),
                  Decl("y", "output", "wire", 1)>>,
   memories |-> NoMemories,
   assigns  |-> <<Assign(<<Whole("y", 1)>>, Cond(Id("e"), Lit(<<"1">>), Lit(<<"Z">>)))>>,
   blocks   |-> <<>>]

TopModule ==
  [decls    |-> <<Decl("clk", "input", "wire", 1), Decl("d", "input", "variable", 1),
                  Decl("q", "output", "variable", 1), Decl("c", "output", "trireg", 1),
                  Decl("mid", "none", "wire", 1)>>,
   memories |-> NoMemories, assigns |-> <<>>, blocks |-> <<>>]

Inside(parent, module, children, connections) ==
  [module |-> module, parent |-> parent, children |-> children, params |-> NoParams,
   connections |-> connections]

CellPorts(d, q) == ("clk" :> Wire("clk", 1)) @@ ("d" :> Wire(d, 1)) @@ ("q" :> Wire(q, 1))

MCHierarchy ==
  ("top" :> Inside("none", "top", <<"b", "h">>, NoPorts)) @@
  ("b" :> Inside("top", "cell", <<>>, CellPorts("d", "mid"))) @@
  ("h" :> Inside("top", "back", <<"h.b">>,
                 CellPorts("mid", "q") @@ ("e" :> Wire("d", 1)) @@ ("y" :> Wire("c", 1)))) @@
  ("h.b" :> Inside("h", "cell", <<>>, CellPorts("d", "q")))

L == INSTANCE Layout WITH
       Modules    <- ("cell" :> Cell) @@ ("back" :> Back) @@ ("top" :> TopModule),
       Hierarchy  <- MCHierarchy,
       Statements <- MCCode

ASSUME L!Instantiable

MCDesign  == LET tables == L!InstanceTables IN tables
MCLayouts == LET objects == L!ObjectLayouts IN objects
MCModules == [i \in DOMAIN MCHierarchy |-> MCHierarchy[i].module]
MCPaths   == ("top" :> <<>>) @@ ("b" :> <<"b">>) @@ ("h" :> <<"h">>) @@ ("h.b" :> <<"h", "b">>)

-----------------------------------------------------------------------------
One  == <<"1">>
Zero == <<"0">>

Line(word)        == [address |-> NoNumeral, word |-> Decimal(word)]
At(address, word) == [address |-> Decimal(<<address>>), word |-> word]
Hex(digit)        == [prefix |-> "0x", digits |-> <<digit>>]
Ones              == <<Line(<<1>>)>>

Binding4(module, suffix, memory, file) ==
  [module |-> module, suffix |-> suffix, memory |-> memory, file |-> file]

Sequential(bindings, signals) == [kind |-> "sequential", bindings |-> bindings, trace |-> signals]

Signal(inst, name) == [inst |-> inst, name |-> name]

MCSuites ==
  {[kind |-> "combinational", bindings |-> <<>>, trace |-> <<>>],
   Sequential(<<>>, <<Signal("h", "y")>>),
   Sequential(<<Binding4("cell", <<>>, "", Ones),
                Binding4("", <<"b">>, "inv", <<At(2, Decimal(<<1, 0>>)), At(0, Hex(10)), Line(<<1>>)>>)>>,
              <<Signal("top", "q")>>),
   Sequential(<<Binding4("", <<>>, "", Ones)>>, <<>>),
   Sequential(<<Binding4("back", <<"b">>, "inv", Ones)>>, <<>>),
   Sequential(<<Binding4("cell", <<>>, "inv", <<Line(<<1>>), At(2, Decimal(<<3>>)), Line(<<1>>)>>)>>,
              <<>>),
   Sequential(<<>>, <<Signal("top", "mid")>>),
   Sequential(<<Binding4("", <<"h", "b">>, "", Ones)>>, <<Signal("h.b", "none")>>)}

Levels == {Zero, One, <<"X">>}

MCTestInputs ==
  {("clk" :> c) @@ ("d" :> d) : c \in Levels, d \in {Zero, One}} \cup {"clck" :> One}

MCExpectations ==
  {NoPorts, ("q" :> One) @@ ("c" :> One), ("q" :> Zero) @@ ("c" :> <<"-">>), "p" :> One}

\* The words that the bindings of each suite leave at address zero.
MCBound ==
  [s \in MCSuites |-> [first |-> BoundWord(s.bindings, "b", "inv", 0),
                       last  |-> BoundWord(s.bindings, "h.b", "inv", 0)]]

-----------------------------------------------------------------------------
\* The machine: two flip-flops, each inverting its input or not.
Flip(bit, word) == IF word = One THEN (IF bit = One THEN Zero ELSE One) ELSE bit

Shows(e, s, x) ==
  /\ DOMAIN e \subseteq {"q", "c"}
  /\ "q" \in DOMAIN e => e["q"] = s[2]
  /\ "c" \in DOMAIN e => e["c"] \in {<<"-">>, x["d"]}

TC == INSTANCE TestCycles WITH
        Plans    <- [clocked : BOOLEAN, first : {Zero, One}, last : {Zero, One}],
        Start    <- <<Zero, Zero>>,
        Inputs   <- TestInputs,
        Expected <- Expectations,
        IsCycle  <- LAMBDA x : x["clk"] = One,
        After    <- LAMBDA p, s, x : <<Flip(x["d"], p.first), Flip(s[1], p.last)>>,
        Accepts  <- Shows,
        plan     <- [clocked |-> suite.kind = "sequential",
                     first |-> MCBound[suite].first, last |-> MCBound[suite].last],
        state    <- <<persisted[<<"top", "mid">>], persisted[<<"h.b", "q">>]>>,
        inputs   <- test,
        done     <- \/ actual # Nothing
                    \/ stage = "step" /\ phase = "resettle"
                    \/ stage = "step" /\ Returned /\ result.ok,
        count    <- steps,
        bad      <- failing,
        verdicts <- report

\* A suite reports what its author expects of the design: one cycle for a step
\* with its clock high and none for any other, cases that share nothing but
\* flip-flops, memories that hold what was bound, and no verdict that the
\* outputs do not bear out (run_sequential_step, compare_outputs).
ReportsTheDesign == TC!Spec
=============================================================================
