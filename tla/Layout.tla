------------------------------ MODULE Layout ------------------------------
(***************************************************************************)
(* instantiate_module_state (sim/state.rs): from an elaborated hierarchy   *)
(* to the runtime objects of a session and the tables of every instance.   *)
(*                                                                         *)
(* A port connected to a whole signal of the parent shares the signal's    *)
(* object instead of getting one: always for an input, and for an output   *)
(* or inout when the signal is a net.  An object is named by the instance  *)
(* and the name that allocated it.                                         *)
(***************************************************************************)
EXTENDS Hir

CONSTANTS
  Modules,    \* module -> [decls, memories, assigns, blocks]
  Hierarchy,  \* instance -> [module, parent, children, params, connections]
  Statements  \* statement label -> statement

-----------------------------------------------------------------------------
Instances   == DOMAIN Hierarchy
ModuleOf(i) == Modules[Hierarchy[i].module]
DeclSet(i)  == {ModuleOf(i).decls[k] : k \in 1..Len(ModuleOf(i).decls)}
NamesOf(i)  == {d.name : d \in DeclSet(i)}
DeclFor(i, n) == CHOOSE d \in DeclSet(i) : d.name = n

IsConnected(i, n) == n \in DOMAIN Hierarchy[i].connections
LeavesOf(i, n)  == Hierarchy[i].connections[n].leaves
ToWhole(i, n) ==
  IsConnected(i, n) /\ Len(LeavesOf(i, n)) = 1 /\ LeavesOf(i, n)[1].kind = "whole"
ParentName(i, n) == LeavesOf(i, n)[1].name

\* aliasable_parent_signal_name.
Aliased(i, n) ==
  /\ ToWhole(i, n)
  /\ \/ DeclFor(i, n).dir = "input"
     \/ /\ DeclFor(i, n).dir \in {"output", "inout"}
        /\ DeclFor(Hierarchy[i].parent, ParentName(i, n)).storage # "variable"

\* The object of a port or signal: its parent's, or one of its own.
ObjectOf[i \in Instances] ==
  [n \in NamesOf(i) |->
     IF Aliased(i, n) THEN ObjectOf[Hierarchy[i].parent][ParentName(i, n)] ELSE <<i, n>>]

\* allocate_runtime_object, then grow_runtime_object for each wider alias.
ObjectLayouts ==
  LET obj == ObjectOf
      uses == UNION {{i} \X NamesOf(i) : i \in Instances}
      Views(o) == {DeclFor(u[1], u[2]).width : u \in {v \in uses : obj[v[1]][v[2]] = o}}
  IN  [o \in {obj[u[1]][u[2]] : u \in uses} |->
         [width |-> Max(Views(o)), storage |-> DeclFor(o[1], o[2]).storage]]

\* What the code refuses to instantiate: an input left open, or an inout that
\* is connected to anything but a whole net.
Instantiable ==
  \A i \in Instances : \A d \in DeclSet(i) :
    Hierarchy[i].parent # "none" =>
      /\ d.dir = "input" => IsConnected(i, d.name)
      /\ d.dir = "inout" /\ IsConnected(i, d.name) => Aliased(i, d.name)

-----------------------------------------------------------------------------
(* The tables of an instance. *)

PortsWith(i, dir) ==
  SelectSeq(ModuleOf(i).decls,
            LAMBDA d : d.dir = dir /\ IsConnected(i, d.name) /\ ~Aliased(i, d.name))

\* The ports a caller may drive, were the instance the top one.
OutsidePorts(i) ==
  SelectSeq(ModuleOf(i).decls, LAMBDA d : d.dir \in {"input", "inout"})

InputDrivers(i) ==
  LET ports == PortsWith(i, "input")
  IN  [k \in 1..Len(ports) |->
         [port |-> ports[k].name, expr |-> Hierarchy[i].connections[ports[k].name].expr]]

OutputSinks(i) ==
  LET ports == PortsWith(i, "output")
  IN  [k \in 1..Len(ports) |->
         [port |-> ports[k].name, target |-> Target(LeavesOf(i, ports[k].name))]]

WriteSets[s \in DOMAIN Statements] == WrittenBy(Statements[s], WriteSets)

\* signal_has_procedural_driver.
Procedural(i) ==
  UNION {WriteSets[ModuleOf(i).blocks[k].body] : k \in 1..Len(ModuleOf(i).blocks)}

\* build_net_special_table.
NetSpecials(i) ==
  LET obj      == ObjectOf[i]
      onNet    == {n \in NamesOf(i) : DeclFor(obj[n][1], obj[n][2]).storage # "variable"}
      replaced == {n \in onNet : /\ DeclFor(i, n).storage = "variable"
                                 /\ DeclFor(i, n).dir \in {"output", "none"}}
  IN  [n \in replaced \cup (onNet \cap Procedural(i)) |->
         IF n \in replaced THEN "replace" ELSE "stage"]

\* build_child_output_driven_table.
WholeSinks(c) ==
  {s.target.leaves[1].name :
     s \in {t \in {OutputSinks(c)[k] : k \in 1..Len(OutputSinks(c))} :
              Len(t.target.leaves) = 1 /\ t.target.leaves[1].kind = "whole"}}

ChildrenOf(i) == {Hierarchy[i].children[k] : k \in 1..Len(Hierarchy[i].children)}

\* build_clock_state_table.
ClocksOf(i) ==
  LET ff == {b \in {ModuleOf(i).blocks[k] : k \in 1..Len(ModuleOf(i).blocks)} : b.kind = "ff"}
  IN  {b.clock : b \in ff} \cup ({b.reset : b \in ff} \ {"none"})

InstanceTables ==
  LET obj == ObjectOf
  IN [i \in Instances |->
     [parent      |-> Hierarchy[i].parent,
      children    |-> Hierarchy[i].children,
      decls       |-> ModuleOf(i).decls,
      inputs      |-> OutsidePorts(i),
      signals     |-> [n \in NamesOf(i) |-> [obj  |-> obj[i][n],
                                             view |-> DeclFor(i, n).width]],
      params      |-> Hierarchy[i].params,
      memories    |-> ModuleOf(i).memories,
      clocks      |-> ClocksOf(i),
      assigns     |-> ModuleOf(i).assigns,
      blocks      |-> ModuleOf(i).blocks,
      drivers     |-> InputDrivers(i),
      sinks       |-> OutputSinks(i),
      specials    |-> NetSpecials(i),
      childDriven |-> UNION {WholeSinks(c) : c \in ChildrenOf(i)},
      procedural  |-> Procedural(i)]]
=============================================================================
