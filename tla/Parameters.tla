----------------------------- MODULE Parameters -----------------------------
(***************************************************************************)
(* Parameters of modules: the values they have (expr_eval.rs,              *)
(* elaborate.rs), the constant expressions that lowering evaluates with    *)
(* their defaults, and the parameters it freezes by that (const_eval.rs).  *)
(***************************************************************************)
EXTENDS Validator

Constants(values) == [values |-> values, words |-> <<>>, low |-> <<>>]

NoValues == [n \in {} |-> <<>>]

\* Values of parameters in the order of their declaration, each seeing those
\* before it; given[n], where there is one, stands for the default.  An
\* expression that fails leaves Error's bits.
ParamValues(m, given) ==
  LET P[k \in 0..Len(m.params)] ==
        IF k = 0 THEN NoValues
        ELSE LET p   == m.params[k]
                 val == IF p.name \in DOMAIN given THEN given[p.name]
                        ELSE EvalExpr(p.default, Constants(P[k - 1]))
             IN  (p.name :> IF IsError(val) THEN <<>> ELSE CoerceValue(val, p.width)) @@ P[k - 1]
  IN  P[Len(m.params)]

Resolvable(values) == \A n \in DOMAIN values : values[n] # <<>>

\* resolve_parameter_defaults
Defaults(m) == ParamValues(m, NoValues)

\* The overrides of an instance, evaluated with the parent's parameters.
Given(inst, outer) ==
  [n \in {inst.overrides[k].param : k \in 1..Len(inst.overrides)} |->
     LET o == inst.overrides[Min({k \in 1..Len(inst.overrides) : inst.overrides[k].param = n})]
     IN  EvalExpr(o.expr, Constants(outer))]

\* collect_expr_param_refs
RECURSIVE ParamRefs(_, _)
ParamRefs(x, m) ==
  IF x.e = "id" THEN {x.name} \cap {m.params[k].name : k \in 1..Len(m.params)}
  ELSE UNION {ParamRefs(Operands(x)[k], m) : k \in 1..Len(Operands(x))}

\* const_eval_param_expr: the value of an expression as lowering sees it.
Baked(x, defaults) ==
  IF Resolvable(defaults) THEN EvalExpr(x, Constants(defaults)) ELSE Error

\* Frozen parameters with a value that is not their default, although it may
\* only depend on one that was overridden (elaborate_module_parameters).
Thawed(frozen, values, defaults) ==
  {n \in frozen \cap DOMAIN values : values[n] # defaults[n]}

\* frozen_parameters: those that the evaluated constructs of a module mention.
\* A module has, besides what Validator reads, a sequence constructs: the
\* expressions of its text that were evaluated when it was lowered.
Frozen(m, defaults) ==
  UNION {ParamRefs(m.constructs[k], m) :
           k \in {j \in 1..Len(m.constructs) : ~IsError(Baked(m.constructs[j], defaults))}}

\* elaborate_module_parameters, in the parent with the values outer.
InstanceValues(m, inst, outer) == ParamValues(m, Given(inst, outer))

\* Fault: only an override of a frozen parameter itself is looked at.
ContradictsDirectly(m, inst, values) ==
  inst.overrides # <<>> /\
  \E defaults \in {Defaults(m)} :
    Thawed(Frozen(m, defaults) \cap {inst.overrides[k].param : k \in 1..Len(inst.overrides)},
           values, defaults) # {}

\* The fence of elaborate_module_parameters.
Contradicts(m, inst, values) ==
  inst.overrides # <<>> /\
  \E defaults \in {Defaults(m)} : Thawed(Frozen(m, defaults), values, defaults) # {}
=============================================================================
