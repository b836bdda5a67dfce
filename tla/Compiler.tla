------------------------------ MODULE Compiler ------------------------------
(***************************************************************************)
(* A compilation from its source files to an elaborated hierarchy: the     *)
(* files are loaded (Loader), validate_design walks the modules, and       *)
(* elaborate_design builds the tree of instances with their parameters.    *)
(*                                                                         *)
(* Both walks are recursions of the code; here each is a stack of frames,  *)
(* and a step enters a module, looks at one instance or leaves a module.   *)
(* What is asked of one module and of one instance (Validator), and the    *)
(* values of parameters (Parameters), are constants of this module, so     *)
(* that what is proved of the walks does not depend on them.               *)
(***************************************************************************)
EXTENDS Loader, TLC

CONSTANTS
  Passes(_),      \* validate_module lets a module pass
  Fits(_, _, _),  \* validate_instance lets (parent, instance, child) pass
  Values(_, _, _),\* parameter values of (module, instance, parent's values)
  HasAll(_),      \* every parameter has a value
  Refuses(_, _, _)\* (module, instance, values) change a frozen parameter

VARIABLES
  visit,     \* validate_design's loops: the next module, its file, its place
  frames,    \* the stack of the running walk, [module, at, path]
  validated, \* modules whose validation is complete
  tree       \* instances elaborated so far: path -> [inst, parent, params]

walking == <<visit, frames, validated, tree>>
vars    == <<loading, walking>>

Errors   == {"io", "parse", "empty", "not found", "duplicate",
             "recursive", "missing", "invalid", "parameter", "frozen"}
Finished == Errors \cup {"elaborated"}

-----------------------------------------------------------------------------
(* The modules of the design. *)

Compiled == UNION {NamesIn(files[k].modules) : k \in 1..Len(files)}

\* HirDesign::module: the first of that name, which is the only one, since a
\* second one is refused when its file is registered.
Source(n) == files[Min({k \in 1..Len(files) : n \in NamesIn(files[k].modules)})].modules
Module(n) == Source(n)[Min({j \in 1..Len(Source(n)) : Source(n)[j].name = n})]

\* compile_from_source_file: the top module is the last one of the root file.
TopModule == files[1].modules[Len(files[1].modules)].name

Frame(n, path) == [module |-> n, at |-> 1, path |-> path]
Top            == frames[Len(frames)]
Below          == SubSeq(frames, 1, Len(frames) - 1)
OnStack(n)     == \E k \in 1..Len(frames) : frames[k].module = n

\* The instance a frame looks at next.
Ahead     == Top.at <= Len(Module(Top.module).instances)
Inst      == Module(Top.module).instances[Top.at]
Advanced  == Append(Below, [Top EXCEPT !.at = @ + 1])

Become(s) == status' = s /\ UNCHANGED <<disk, call, cursor, pending, seen, provided, files>>

-----------------------------------------------------------------------------
(* validate_design. *)

StartValidation ==
  /\ status = "loaded"
  /\ Become("validating")
  /\ visit' = <<1, 1>>
  /\ UNCHANGED <<frames, validated, tree>>

\* Fault: a module that is being validated counts as validated.
EnterOnce(n, below) ==
  IF n \in validated \/ OnStack(n)
  THEN frames' = below /\ UNCHANGED loading
  ELSE IF \E m \in {Module(n)} : ~Passes(m)
  THEN Become("invalid") /\ UNCHANGED frames
  ELSE frames' = Append(below, Frame(n, <<>>)) /\ UNCHANGED loading

\* validate_module_recursive up to its loop, called with the stack below.
Enter(n, below) ==
  IF n \in validated
  THEN frames' = below /\ UNCHANGED loading
  ELSE IF OnStack(n)
  THEN Become("recursive") /\ UNCHANGED frames
  ELSE IF \E m \in {Module(n)} : ~Passes(m)
  THEN Become("invalid") /\ UNCHANGED frames
  ELSE frames' = Append(below, Frame(n, <<>>)) /\ UNCHANGED loading

InstanceAllowed ==
  \E m \in {Module(Top.module)}, inst \in {Inst}, child \in {Module(Inst.module)} :
    Fits(m, inst, child)

\* The loop over the modules of the file that is visited.
InFile == visit[1] <= Len(files) /\ visit[2] <= Len(files[visit[1]].modules)

VisitModule ==
  /\ status = "validating" /\ frames = <<>> /\ InFile
  /\ Enter(files[visit[1]].modules[visit[2]].name, <<>>)
  /\ visit' = <<visit[1], visit[2] + 1>>
  /\ UNCHANGED <<validated, tree>>

NextFile ==
  /\ status = "validating" /\ frames = <<>> /\ ~InFile /\ visit[1] <= Len(files)
  /\ visit' = <<visit[1] + 1, 1>>
  /\ UNCHANGED <<loading, frames, validated, tree>>

\* Fault: an instance of a module that was validated is looked at for ever.
VisitAgain ==
  /\ status = "validating" /\ frames # <<>> /\ Ahead
  /\ IF Inst.module \notin Compiled THEN Become("missing") /\ UNCHANGED frames
     ELSE IF ~InstanceAllowed
     THEN Become("invalid") /\ UNCHANGED frames
     ELSE Enter(Inst.module, IF Inst.module \in validated THEN frames ELSE Advanced)
  /\ UNCHANGED <<visit, validated, tree>>

\* Fault: nothing is asked of an instance of a module that was validated.
VisitNewOnly ==
  /\ status = "validating" /\ frames # <<>> /\ Ahead
  /\ IF Inst.module \notin Compiled THEN Become("missing") /\ UNCHANGED frames
     ELSE IF Inst.module \notin validated /\ ~InstanceAllowed
     THEN Become("invalid") /\ UNCHANGED frames
     ELSE Enter(Inst.module, Advanced)
  /\ UNCHANGED <<visit, validated, tree>>

VisitInstance ==
  /\ status = "validating" /\ frames # <<>> /\ Ahead
  /\ IF Inst.module \notin Compiled THEN Become("missing") /\ UNCHANGED frames
     ELSE IF ~InstanceAllowed
     THEN Become("invalid") /\ UNCHANGED frames
     ELSE Enter(Inst.module, Advanced)
  /\ UNCHANGED <<visit, validated, tree>>

LeaveModule ==
  /\ status = "validating" /\ frames # <<>> /\ ~Ahead
  /\ frames' = Below
  /\ validated' = validated \cup {Top.module}
  /\ UNCHANGED <<loading, visit, tree>>

Validated ==
  /\ status = "validating" /\ frames = <<>> /\ visit[1] > Len(files)
  /\ Become("compiled")
  /\ UNCHANGED walking

-----------------------------------------------------------------------------
(* elaborate_design. *)

\* Fault: the names above the instance are forgotten.
PathAlone(name) == <<name>>

\* The names on the way to an instance from the top.
PathOf(name) == Append(Top.path, name)

Elaboration(inst, parent, values) == [inst |-> inst, parent |-> parent, params |-> values]

\* elaborate_instance up to its loop, for an instance in the module on top.
Elaborate(inst) ==
  LET fails(error) == Become(error) /\ UNCHANGED <<frames, tree>>
      path == PathOf(inst.name)
  IN  IF OnStack(inst.module) THEN fails("recursive")
      ELSE IF inst.module \notin Compiled THEN fails("missing")
      ELSE \E m \in {Module(inst.module)}, outer \in {tree[Top.path].params} :
           \E values \in {Values(m, inst, outer)} :
             IF ~HasAll(values) THEN fails("parameter")
             ELSE IF Refuses(m, inst, values) THEN fails("frozen")
             ELSE /\ frames' = Append(Advanced, Frame(inst.module, path))
                  /\ tree' = [p \in DOMAIN tree \cup {path} |->
                                IF p = path THEN Elaboration(inst, Top.path, values) ELSE tree[p]]
                  /\ UNCHANGED loading

TopInstance == [name |-> "", module |-> TopModule, overrides |-> <<>>, connections |-> <<>>]

\* The top instance has its defaults.
StartElaboration ==
  /\ status = "compiled"
  /\ \E values \in {Values(Module(TopModule), TopInstance, [n \in {} |-> 0])} :
         IF HasAll(values)
         THEN /\ Become("elaborating")
              /\ frames' = <<Frame(TopModule, <<>>)>>
              /\ tree' = [p \in {<<>>} |-> Elaboration(TopInstance, <<>>, values)]
         ELSE Become("parameter") /\ UNCHANGED <<frames, tree>>
  /\ UNCHANGED <<visit, validated>>

ElaborateInstance ==
  /\ status = "elaborating" /\ frames # <<>> /\ Ahead
  /\ Elaborate(Inst)
  /\ UNCHANGED <<visit, validated>>

LeaveInstance ==
  /\ status = "elaborating" /\ frames # <<>> /\ ~Ahead
  /\ frames' = Below
  /\ UNCHANGED <<loading, visit, validated, tree>>

Elaborated ==
  /\ status = "elaborating" /\ frames = <<>>
  /\ Become("elaborated")
  /\ UNCHANGED walking

-----------------------------------------------------------------------------
CompilerInit ==
  /\ Init
  /\ visit = <<1, 1>> /\ frames = <<>> /\ validated = {} /\ tree = <<>>

Next ==
  \/ Load /\ UNCHANGED walking
  \/ StartValidation \/ VisitModule \/ NextFile \/ VisitInstance \/ LeaveModule \/ Validated
  \/ StartElaboration \/ ElaborateInstance \/ LeaveInstance \/ Elaborated

Spec == CompilerInit /\ [][Next]_vars /\ WF_vars(Next)

-----------------------------------------------------------------------------
(* Validation and elaboration. *)

\* A compiled design has a finite hierarchy: what validate_design lets pass,
\* elaborate_design does not refuse for a cycle or a module that is not there.
CompiledElaborates == tree # <<>> => status \notin {"recursive", "missing"}

\* An instance is what its parent's module says at its name, validate_instance
\* has let it pass there, and its parameters have the values that its overrides
\* yield with those of its parent, which change nothing that is frozen.
StandsIn(p) ==
  LET inst  == tree[p].inst
      outer == tree[p].parent
      m     == Module(tree[outer].inst.module)
      child == Module(inst.module)
  IN  /\ outer \in DOMAIN tree /\ p = Append(outer, inst.name)
      /\ \E j \in 1..Len(m.instances) : inst = m.instances[j]
      /\ Fits(m, inst, child)
      /\ tree[p].params = Values(child, inst, tree[outer].params)
      /\ ~Refuses(child, inst, tree[p].params)

\* validate_unique_instance_names: the instances of a module have names of their own.
NamedApart(m) ==
  \A i, j \in 1..Len(m.instances) : m.instances[i].name = m.instances[j].name => i = j

\* Whatever is elaborated has been validated, though validate_design walks the
\* modules, each once, and elaborate_design the instances.
HierarchyValidated ==
  \A p \in DOMAIN tree :
    /\ tree[p].inst.module \in Compiled /\ Passes(Module(tree[p].inst.module))
    /\ HasAll(tree[p].params)
    /\ p = <<>> \/ StandsIn(p)

\* And nothing is left out: the children of an instance are those of its module.
HierarchyWhole ==
  status = "elaborated" =>
    \A p \in DOMAIN tree : LET m == Module(tree[p].inst.module)
                           IN  \A j \in 1..Len(m.instances) :
                                 LET c == Append(p, m.instances[j].name)
                                 IN  c \in DOMAIN tree /\ tree[c].inst = m.instances[j]

\* Every compilation comes to an end, with a hierarchy or an error, cycles of
\* instantiations included.
CompilationEnds == <>(status \in Finished)
=============================================================================
