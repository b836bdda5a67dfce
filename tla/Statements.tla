----------------------------- MODULE Statements -----------------------------
(***************************************************************************)
(* Statements built one construct at a time, and what is left of each when *)
(* it is lowered with the defaults of a module's parameters.               *)
(***************************************************************************)
EXTENDS Lowering

CONSTANTS
  Scope,     \* the module
  Writes,    \* assignments
  Others,    \* assignments beside what is there already
  Tests,     \* conditions
  Loops,     \* variable -> the heads of its loops, each [init, cond, step]
  Settings,  \* what instances override: parameter -> bits
  Inputs,    \* values of the signals
  MaxDepth   \* bound: constructs around an assignment

VARIABLES
  stmt, \* the statement built so far
  depth \* its constructs

Init == stmt \in Writes /\ depth = 0

Wrap(st) == depth < MaxDepth /\ stmt' = st /\ depth' = depth + 1

\* Loops around one another have variables of their own: the code takes an
\* outer loop's value for an inner variable of the same name, since it puts
\* the inner one first and resolve_parameter_defaults lets the last one win.
LoopVars == <<"i", "j", "k">>

\* A statement that is complete stays.
Stay == depth = MaxDepth /\ UNCHANGED <<stmt, depth>>

Next ==
  \/ Stay
  \/ \E w \in Others : Wrap(Block(<<stmt, w>>)) \/ Wrap(Block(<<w, stmt>>))
  \/ \E c \in Tests, w \in Others : Wrap(If(c, stmt, Empty)) \/ Wrap(If(c, w, stmt))
  \/ \E v \in {LoopVars[d] : d \in {depth + 1} \cap DOMAIN LoopVars} : \E head \in Loops[v] :
       Wrap(For(v, head.init, head.cond, head.step, stmt))

-----------------------------------------------------------------------------
(* What a statement of the source does: values are those of signals,           *)
(* parameters and loop variables, and a loop is executed.  No outcome is an    *)
(* error.                                                                      *)

Meaning(x, values) ==
  {val \in {EvalExpr(Placed(x, values), Constants(values))} : ~IsError(val)}

Written(st, values) ==
  LET n == st.target.name
  IN  IF st.target.index = NoIndex
      THEN {[values EXCEPT ![n] = CoerceValue(val, Len(@))] : val \in Meaning(st.expr, values)}
      ELSE {[values EXCEPT ![n] = ReplaceSlice(@, ToNat(at.bits), 1, CoerceValue(val, 1))] :
              val \in Meaning(st.expr, values),
              at \in {v \in Meaning(st.target.index, values) :
                        IsPlace(v) /\ ToNat(v.bits) < Len(values[n])}}

RECURSIVE Run(_, _), RunItems(_, _), RunLoop(_, _, _)

RunItems(items, values) ==
  IF items = <<>> THEN {values}
  ELSE UNION {RunItems(Tail(items), after) : after \in Run(Head(items), values)}

\* A loop from the value its variable has in values, at most n iterations.
RunLoop(st, values, n) ==
  UNION {IF ~Truthy(cond.bits) THEN {values}
         ELSE IF n = 0 THEN {}
         ELSE UNION {UNION {RunLoop(st, [after EXCEPT ![st.var] = CoerceValue(next, LoopWidth)], n - 1) :
                              next \in Meaning(st.step, after)} : after \in Run(st.body, values)} :
           cond \in Meaning(st.cond, values)}

\* The variable of a loop is its own.
RunFor(st, values) ==
  UNION {{[n \in DOMAIN values |-> IF n = st.var THEN values[n] ELSE after[n]] :
            after \in RunLoop(st, (st.var :> CoerceValue(init, LoopWidth)) @@ values, UnrollLimit)} :
           init \in Meaning(st.init, values)}

Run(st, values) ==
  CASE st.kind = "empty" -> {values}
    [] st.kind = "write" -> Written(st, values)
    [] st.kind = "block" -> RunItems(st.items, values)
    [] st.kind = "if"    -> UNION {Run(IF Truthy(cond.bits) THEN st.then ELSE st.else, values) :
                                     cond \in Meaning(st.cond, values)}
    [] st.kind = "for"   -> RunFor(st, values)

-----------------------------------------------------------------------------
\* The overrides elaboration accepts for a lowered module.
Accepted(frozen, values) ==
  Resolvable(values) /\ Thawed(frozen, values, Defaults(Scope)) = {}

\* A lowered statement does what its source does, with the parameters of any
\* instance that is accepted: whatever was decided, unrolled or placed with the
\* defaults is frozen (const_eval_param_expr, frozen_parameters).
LoweredAsWritten ==
  \A lowered \in Lower(stmt, Scope), given \in Settings :
    \A values \in {ParamValues(Scope, [n \in DOMAIN given |-> Unsigned(given[n])])} :
      Accepted(lowered.frozen, values) =>
        \A inputs \in Inputs :
          Run(lowered.stmt, values @@ inputs) = Run(stmt, values @@ inputs)
=============================================================================
