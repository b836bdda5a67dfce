----------------------------- MODULE MCSession -----------------------------
(* Session with the evaluator of expr_eval.rs, for model checking. *)
EXTENDS Netlist, Expr

Environment(i, values, mem) ==
  [values |-> values, words |-> mem,
   low |-> [m \in DOMAIN Design[i].memories |-> Design[i].memories[m].low]]

\* Definitions that give a constant its value are LET expressions: coverage
\* statistics would otherwise repeat their bodies wherever the constant occurs.
MCEval(e, i, values, mem) ==
  LET env == Environment(i, values, mem) IN EvalExpr(e, env)

MCFails(e, i, values, mem) ==
  LET env == Environment(i, values, mem) IN IsError(EvalExpr(e, env))

NoMemories == [m \in {} |-> 0]
NoParams   == [p \in {} |-> <<>>]
NoPorts    == [p \in {} |-> 0]

\* A call of eval_once, step or read_signal.
Call(op, inputs) == [op |-> op, inputs |-> inputs, two |-> FALSE]
=============================================================================
