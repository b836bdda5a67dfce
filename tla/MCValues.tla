------------------------------ MODULE MCValues ------------------------------
(***************************************************************************)
(* The layers below a session, each by itself: one BitValue, one           *)
(* LogicValue, one expression or one statement, chosen at the start.       *)
(***************************************************************************)
EXTENDS BitRegister, Hir

VARIABLES
  layer,           \* "number", "vector", "expression" or "statement"
  vector, changed, \* the LogicValue and its last operation
  expr, size,      \* the expression
  stmt, depth      \* the statement

MCOperands == {<<"1">>, <<"X", "Z">>}

MCOthers == {<<"1">>, <<"X">>, <<"Z">>, <<"1", "0", "0">>, <<"X", "0", "0">>,
             <<"0", "Z", "1">>, <<"1", "0", "1", "0", "0">>, <<"1", "X", "0", "Z", "1">>}

MCReadings ==
  {[text |-> <<"1", "8">>, bits |-> <<"0", "1", "0", "0", "1">>],
   [text |-> <<"0", "b", "1", "1">>, bits |-> <<"1", "1">>],
   [text |-> <<"0", "X", "1", "b">>, bits |-> <<"1", "1", "0", "1", "1">>],
   [text |-> <<"1", "X", "Z">>, bits |-> <<"Z", "X", "1">>],
   [text |-> <<"0", "X">>, bits |-> <<"X", "0">>],
   [text |-> <<"1", "?">>, bits |-> <<>>],
   [text |-> <<"8", "'", "b", "Z">>, bits |-> <<>>]}

\* Vectors of one limb and of two.
L == INSTANCE LogicRegister WITH
       Widths   <- {1, 3, 5},
       Lows     <- {0, 1, 3},
       Numerals <- {0, 1, 5, 19},
       Operands <- MCOperands,
       Others   <- MCOthers,
       Readings <- MCReadings,
       value    <- vector,
       did      <- changed

MCCode == "none" :> Empty

\* module scope(input a, input [1:0] b); reg [1:0] m [2:1];
MCScope ==
  [decls    |-> <<Decl("a", "input", "wire", 1), Decl("b", "input", "wire", 2)>>,
   params   |-> <<>>,
   memories |-> "m" :> Memory(1, 2, 2)]

MCLeaves == {Id("a"), Id("b"), Lit(<<"1", "1", "0">>)}

MCWords == "m" :> (0 :> <<"1", "X">> @@ 1 :> <<"0", "1">>)

MCWorlds ==
  {[values |-> ("a" :> <<p>>) @@ ("b" :> <<q, r>>), words |-> MCWords, low |-> "m" :> 1] :
     p \in {"0", "1", "X", "Z"}, q \in {"0", "1", "X"}, r \in {"0", "1", "X"}}

E == INSTANCE Exprs WITH
       Code     <- MCCode,
       Scope    <- MCScope,
       Leaves   <- MCLeaves,
       Unaries  <- {"~", "-", "!", "&", "signed"},
       Binaries <- {"&", "<<", ">>>", "==", "<", "+", "&&"},
       Worlds   <- MCWorlds,
       MaxSize  <- 2

\* module sized #(parameter [1:0] W = 2, D = W - 1)(input a, output [2:0] y);
MCSized ==
  [decls    |-> <<Decl("a", "input", "wire", 1), Decl("y", "output", "variable", 3)>>,
   params   |-> <<[name |-> "W", width |-> 2, default |-> Lit(<<"0", "1">>)],
                  [name |-> "D", width |-> 2, default |-> Bin("-", Id("W"), Lit(<<"1">>))]>>,
   memories |-> [m \in {} |-> 0]]

LoopHead(init, cond, step) == [init |-> init, cond |-> cond, step |-> step]

Three == Lit(<<"1", "1">>)

MCLoops ==
  [v \in {"i", "j", "k"} |->
     {LoopHead(Lit(<<"0">>), Bin("<", Id(v), Three), Bin("+", Id(v), Lit(<<"1">>))),
      LoopHead(Lit(<<"0">>), Bin("<", Id(v), Id("W")), Bin("+", Id(v), Lit(<<"1">>))),
      LoopHead(Id("D"), Bin("<", Id(v), Three), Bin("+", Id(v), Lit(<<"1">>))),
      LoopHead(Lit(<<"0">>), Bin("<", Id(v), Three), Bin("+", Id(v), Id("D"))),
      LoopHead(Three, Bin("<", SelectOf("W", Id(v)), Id("a")), Id(v))}]

MCWrites == {Write("y", Id("i"), Id("a")), Write("y", Id("j"), Bin("<", Id("a"), Id("W"))),
             Write("y", Id("D"), Id("i"))}
MCBeside == {Write("y", NoIndex, Bin("+", Bin("<<", Id("y"), Id("D")), Id("W")))}

MCTests == {Bin("==", Id("i"), Lit(<<"1">>)), Bin("==", Id("j"), Lit(<<"1">>)),
            Bin("<", Lit(<<"1">>), Id("W")), SelectOf("y", Id("D")), Bin("&&", Id("D"), Id("a"))}

MCSettings == {[n \in {} |-> 0]} \cup
              {("W" :> <<p, q>>) : p \in {"0", "1"}, q \in {"0", "1"}} \cup
              {("W" :> <<"1", "1">>) @@ ("D" :> <<"1", "0">>)}

T == INSTANCE Statements WITH
       Code        <- MCCode,
       LoopWidth   <- 3,
       UnrollLimit <- 4,
       Scope       <- MCSized,
       Writes      <- MCWrites,
       Others      <- MCBeside,
       Tests       <- MCTests,
       Loops       <- MCLoops,
       Settings    <- MCSettings,
       Inputs      <- {("a" :> <<a>>) @@ ("y" :> y) :
                         a \in {"0", "1"}, y \in {<<"0", "0", "0">>, <<"1", "1", "X">>}},
       MaxDepth    <- 3

-----------------------------------------------------------------------------
numbers     == <<value, did>>
vectors     == <<vector, changed>>
expressions == <<expr, size>>
statements  == <<stmt, depth>>

ValuesInit ==
  /\ Init /\ L!Init
  /\ \/ /\ layer \in {"number", "vector"}
        /\ expr = Id("a") /\ size = 0 /\ stmt = Empty /\ depth = 0
     \/ layer = "expression" /\ E!Init /\ stmt = Empty /\ depth = 0
     \/ layer = "statement" /\ T!Init /\ expr = Id("a") /\ size = 0

OnNumber ==
  layer = "number" /\ Next /\ UNCHANGED <<layer, vectors, expressions, statements>>

OnVector ==
  layer = "vector" /\ L!Next /\ UNCHANGED <<layer, numbers, expressions, statements>>

OnExpression ==
  layer = "expression" /\ E!Next /\ UNCHANGED <<layer, numbers, vectors, statements>>

OnStatement ==
  layer = "statement" /\ T!Next /\ UNCHANGED <<layer, numbers, vectors, expressions>>

ValuesNext == OnNumber \/ OnVector \/ OnExpression \/ OnStatement

ValuesSpec ==
  ValuesInit /\ [][ValuesNext]_<<layer, numbers, vectors, expressions, statements>>

\* States that differ in history only are one: no invariant reads it, and no
\* action but through the value it writes.
ValuesView == <<layer, value, vector, expr, size, stmt, depth>>

-----------------------------------------------------------------------------
\* Any chain of operations on the masks does what the same operations do on
\* sequences of bits (logic_value.rs, logic_ops.rs).
ImplementsFourState == L!ImplementsFourState

\* A vector has one representation, so that the derived equality is equality
\* of the bits (logic_value.rs).
EqualityIsBitwise == layer = "vector" => L!EqualityIsBitwise

\* What a LogicValue is printed as reads back as the same value, but for texts
\* that look like hexadecimal numbers (Serialize and Deserialize).
PrintedReadsBack == layer = "vector" => L!PrintedReadsBack

\* An expected value is matched by itself, as a number or bit by bit, and by
\* no other (LogicPattern::matches).
ExpectedAsPrinted == layer = "vector" => L!ExpectedAsPrinted

\* A ? in an expected text frees the bit at its place only (LogicPattern).
WildcardsAreLocal == layer = "vector" => L!WildcardsAreLocal

\* What validate_expr lets pass eval_expr evaluates, but for stray indexes.
ValidatedEvaluates == layer = "expression" => E!ValidatedEvaluates

\* Validation, expr_width and eval_expr give an expression one width, but for
\* the shifts that its amount widens.
WidthsAgree == layer = "expression" => E!WidthsAgree

\* No result has a known bit that some values of the unknown inputs would
\* change (eval_expr).
UnknownIsAnything == layer = "expression" => E!UnknownIsAnything

\* A lowered statement does what its source does, with the parameters of any
\* instance that elaboration accepts (loop_unroll.rs, frozen_parameters).
LoweredAsWritten == layer = "statement" => T!LoweredAsWritten

\* "JSON reports, and CLI output can round-trip literal four-state values"
\* (wiki/architecture/runtime-and-state.md:27).
FourStateRoundTrips == layer = "vector" => L!FourStateRoundTrips
=============================================================================
