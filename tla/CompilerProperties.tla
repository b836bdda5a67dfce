------------------------- MODULE CompilerProperties -------------------------
(***************************************************************************)
(* What a compilation leaves behind: the hierarchy it has elaborated, with *)
(* what Validator asks of a module and the values Parameters gives it.     *)
(***************************************************************************)
EXTENDS Compiler, Parameters

LOCAL INSTANCE SequencesExt

\* A path as a name for Layout; no instance of the runs has a dot in its name.
PathName(path) == FoldLeft(LAMBDA a, b : a \o "." \o b, "top", path)

Hierarchy ==
  [i \in {PathName(p) : p \in DOMAIN tree} |->
     LET path  == CHOOSE p \in DOMAIN tree : PathName(p) = i
         inst  == tree[path].inst
         outer == tree[path].parent
         insts == Module(inst.module).instances
     IN  [module   |-> inst.module,
          parent   |-> IF path = <<>> THEN "none" ELSE PathName(outer),
          children |-> [k \in 1..Len(insts) |-> PathName(Append(path, insts[k].name))],
          params   |-> tree[path].params,
          connections |->
            [n \in {inst.connections[k].port : k \in 1..Len(inst.connections)} |->
               LET c == inst.connections[Min({k \in 1..Len(inst.connections) :
                                                inst.connections[k].port = n})]
               IN  Connection(c.expr, LvalueOf(c.expr, Module(tree[outer].inst.module)))]]]

Runtime == INSTANCE Layout WITH
             Modules    <- [n \in Compiled |-> Module(n)],
             Statements <- Code

\* An elaborated design can be instantiated: validation has seen to it that
\* inputs are connected, and inouts to whole nets (instantiate_module_state).
ElaboratedInstantiates == status = "elaborated" => Runtime!Instantiable

\* A construct evaluated with the defaults, when the module was lowered, has
\* the same value with the parameters of every instance that is accepted.
FrozenStaysTrue ==
  \A p \in DOMAIN tree :
    LET m == Module(tree[p].inst.module)
    IN  \A k \in 1..Len(m.constructs) :
          ~IsError(Baked(m.constructs[k], Defaults(m))) =>
            EvalExpr(m.constructs[k], Constants(tree[p].params)) = Baked(m.constructs[k], Defaults(m))
=============================================================================
