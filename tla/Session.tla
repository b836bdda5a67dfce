------------------------------ MODULE Session ------------------------------
(***************************************************************************)
(* SimulationSession and its scheduler (sim/session.rs), with the commit   *)
(* and driver staging of sim/state.rs and sim/eval.rs.                     *)
(*                                                                         *)
(* A session owns the values of the runtime objects (persisted), and for   *)
(* every module instance its memories and the clock values its last step   *)
(* sampled.  A call settles combinational logic pass by pass on a frame    *)
(* copied from persisted; step also runs the clocked blocks of every       *)
(* instance, children first, against the frame settled before the edge,    *)
(* and settles again.                                                      *)
(*                                                                         *)
(* The recursive walks of the code (settle_module_pass, execute_comb_stmt, *)
(* step_module, execute_sequential_stmt) are one work stack, todo: a step  *)
(* takes its head and may push what the recursion would visit next.  A     *)
(* step is therefore one assignment, statement, commit of a name, child    *)
(* input, child output or clocked block, and an error can strike between   *)
(* any two of them.                                                        *)
(***************************************************************************)
EXTENDS NetResolve, FiniteSetsExt

CONSTANTS
  Top,           \* the top instance
  Design,        \* instance -> its ModuleState and ModuleSummary, elaborated
  Layouts,       \* runtime object -> [width, storage]
  Code,          \* statement label -> statement
  Requests,      \* the API calls a client may make
  Eval(_,_,_,_), \* eval_expr(expr, instance, readable values, memories)
  Fails(_,_,_,_) \* that evaluation is an error

Instance == DOMAIN Design
Object   == DOMAIN Layouts
Label    == DOMAIN Code

\* Names(i): ports and declared signals of the instance's module.
Names(i)      == DOMAIN Design[i].signals
Binding(i, n) == Design[i].signals[n]
DeclOf(i, n)  == CHOOSE d \in {Design[i].decls[k] : k \in 1..Len(Design[i].decls)} : d.name = n
IsNet(o)      == Layouts[o].storage # "variable"
NetSignal(i, n) == DeclOf(i, n).storage # "variable"

\* The blocks of an instance of a kind: "comb" or "ff".
BlocksOf(i, kind) == {k \in 1..Len(Design[i].blocks) : Design[i].blocks[k].kind = kind}

-----------------------------------------------------------------------------
(* What elaboration hands to a session (Layout computes such a design).  *)

IsSequence(s) == s \in Seq({s[k] : k \in DOMAIN s})

\* The branches of a statement are statements.
ASSUME CodeAssumption ==
  \A l \in Label :
    LET s == Code[l]
    IN  \/ s.kind = "empty"
        \/ s.kind = "block" /\ IsSequence(s.items) /\ \A k \in 1..Len(s.items) : s.items[k] \in Label
        \/ s.kind = "if" /\ {s.then, s.else} \subseteq Label
        \/ /\ s.kind = "case" /\ IsSequence(s.arms) /\ s.default \in Label
           /\ \A k \in 1..Len(s.arms) : s.arms[k].body \in Label
        \/ s.kind = "assign" /\ IsSequence(s.target.leaves)

\* The tables of an instance list its parts in order, and name instances and
\* statements of the design.
ASSUME DesignAssumption ==
  /\ Top \in Instance
  /\ \A i \in Instance :
       /\ IsSequence(Design[i].decls) /\ IsSequence(Design[i].inputs)
       /\ IsSequence(Design[i].assigns)
       /\ \A k \in 1..Len(Design[i].assigns) : IsSequence(Design[i].assigns[k].target.leaves)
       /\ IsSequence(Design[i].blocks)
       /\ \A k \in 1..Len(Design[i].blocks) : Design[i].blocks[k].body \in Label
       /\ IsSequence(Design[i].children)
       /\ \A k \in 1..Len(Design[i].children) :
            Design[i].children[k] \in Instance /\ Design[Design[i].children[k]].parent = i
       /\ IsSequence(Design[i].drivers) /\ IsSequence(Design[i].sinks)
       /\ \A k \in 1..Len(Design[i].sinks) :
            IsSequence(Design[i].sinks[k].target.leaves) /\ Design[i].parent \in Instance
       /\ \A n \in DOMAIN Design[i].specials : Design[i].specials[n] \in {"replace", "stage"}

\* The instances are a tree below the top one.  An instance has a level for
\* every clock and reset its clocked blocks watch, its ports and signals are
\* bound to objects, and an object is a variable or a net of at least one bit.
ASSUME HierarchyAssumption ==
  /\ \A i \in Instance \ {Top} :
       LET p == Design[i].parent
       IN  p \in Instance /\ \E k \in 1..Len(Design[p].children) : Design[p].children[k] = i
  /\ \A S \in SUBSET (Instance \ {Top}) : S # {} => \E i \in S : Design[i].parent \notin S
  /\ \A i \in Instance :
       /\ \A k \in 1..Len(Design[i].blocks) : Design[i].blocks[k].kind \in {"comb", "ff"}
       /\ \A k \in BlocksOf(i, "ff") : Design[i].blocks[k].clock # "none"
       /\ Design[i].clocks =
            UNION {{Design[i].blocks[k].clock, Design[i].blocks[k].reset} \ {"none"} :
                     k \in BlocksOf(i, "ff")}
       /\ \A k \in 1..Len(Design[i].decls) : Design[i].decls[k].name \in Names(i)
       /\ \A n \in Names(i) : Binding(i, n).obj \in Object
  /\ \A o \in Object : /\ Layouts[o].width \in Nat \ {0}
                       /\ Layouts[o].storage \in NetKinds \cup {"variable"}

\* Every instance is a ModuleState of its own: a child of one parent, once,
\* and the top one of none.
ASSUME ChildrenAssumption ==
  \A i \in Instance : \A j, k \in 1..Len(Design[i].children) :
    /\ Design[i].children[k] # Top
    /\ Design[i].children[j] = Design[i].children[k] => j = k

-----------------------------------------------------------------------------
VARIABLES
  persisted,  \* object values between calls (SimulationSession.persisted)
  memories,   \* instance -> memory -> its words, by offset
  clocks,     \* instance -> clock or reset -> sampled level (previous_clocks)
  call,       \* the call in progress, Idle between calls
  before,     \* history: the session as the call found it
  phase,      \* "idle", "settle", "step" or "resettle"
  todo,       \* work stack of the running pass or of step_module
  frame,      \* the values the running settle reads and writes
  overlay,    \* values written by the current module in this pass
  drivers,    \* drivers staged on each net object in this pass
  changed,    \* the pass has changed the frame
  passes,     \* passes started by the running settle
  passStart,  \* history: the frame the running pass started from
  preFrame,   \* the frame settled before the clocked blocks run
  next,       \* next_persisted
  current,    \* values the running clocked block reads (exec_values)
  currentMem, \* memories it reads (exec_memories)
  staged,     \* values the instance's clocked blocks have staged
  stagedMem,  \* memories they have staged
  sampled,    \* clock levels sampled for the instance
  result      \* what the last call returned

session  == <<persisted, memories, clocks>>
settling == <<frame, overlay, drivers, changed, passes, passStart>>
stepping == <<preFrame, next, current, currentMem, staged, stagedMem, sampled>>
vars     == <<session, call, before, phase, todo, settling, stepping, result>>

Idle    == [op |-> "none"]
Failed  == [ok |-> FALSE]
Nothing == <<>>   \* value of a local that is out of scope

-----------------------------------------------------------------------------
(* Reading and writing bindings. *)

\* read_binding: an object seen through a port's own width.
ReadBinding(b, f) == Coerce(f[b.obj], b.view)

\* write_binding: cut to the view, then extended with zeros to the object.
Stored(b, v) == Coerce(Coerce(v, b.view), Layouts[b.obj].width)

\* build_instance_value_table.
Table(i, f) == [n \in Names(i) |-> ReadBinding(Binding(i, n), f)]

\* The values an expression of instance i can name; parameters shadow.
Readable(i, table) ==
  [n \in DOMAIN table \cup DOMAIN Design[i].params |->
     IF n \in DOMAIN Design[i].params THEN Design[i].params[n] ELSE table[n]]

\* OverlayValues: this pass's own writes first, then the frame.
Overlaid(i) ==
  [n \in Names(i) |->
     IF n \in DOMAIN overlay THEN overlay[n] ELSE ReadBinding(Binding(i, n), frame)]

\* The value a reader of table sees for an expression, and whether reading fails.
ValueIn(e, i, table, mem) == Eval(e, i, Readable(i, table), mem)
FailsIn(e, i, table, mem) == Fails(e, i, Readable(i, table), mem)

\* The part of an assigned value that a leaf of the target receives.  A
\* target lists its leaves with the offset each takes its bits from.
LeafBits(target, leaf, value) ==
  Slice(CoerceValue(value, target.width), leaf.from, leaf.width)

\* A leaf's new value over the old one: the whole signal or a part of it.
Merged(leaf, old, bits) ==
  IF leaf.kind = "whole" THEN Coerce(bits, Len(old))
  ELSE ReplaceSlice(old, leaf.low, leaf.width, bits)

HasMemoryLeaf(target) ==
  \E k \in 1..Len(target.leaves) : target.leaves[k].kind = "memory"

-----------------------------------------------------------------------------
(* Work items. *)

Item(op, i) == [op |-> op, inst |-> i]
ItemAt(op, i, k) == [op |-> op, inst |-> i, at |-> k]
StmtItem(op, i, s) == [op |-> op, inst |-> i, stmt |-> s]
LeafItem(op, i, leaf, bits) == [op |-> op, inst |-> i, leaf |-> leaf, bits |-> bits]

\* One write per leaf of the target, in order.
LeafItems(op, i, target, value) ==
  [k \in 1..Len(target.leaves) |->
     LeafItem(op, i, target.leaves[k], LeafBits(target, target.leaves[k], value))]

Head1 == Head(todo)
Doing(op) == todo # <<>> /\ Head1.op = op
Pop == todo' = Tail(todo)
Push(items) == todo' = items \o Tail(todo)

\* The ports apply_external_inputs visits, in declaration order.
DrivenFromOutside == Design[Top].inputs

PassWork ==
  [k \in 1..Len(DrivenFromOutside) |->
     [op |-> "input", inst |-> Top, name |-> DrivenFromOutside[k].name]]
  \o <<Item("module", Top)>>

\* One module of a pass: its assigns, its blocks, its commit, its children.
ModuleWork(i) ==
  [k \in 1..Len(Design[i].assigns) |-> ItemAt("assign", i, k)]
  \o [k \in 1..Len(Design[i].blocks) |-> ItemAt("comb", i, k)]
  \o <<[op |-> "commit", inst |-> i, done |-> {}]>>
  \o [k \in 1..Len(Design[i].children) |-> Item("child", Design[i].children[k])]

\* One child of a module: its input drivers, its own pass, its output sinks.
ChildWork(c) ==
  [k \in 1..Len(Design[c].drivers) |-> ItemAt("drive", c, k)]
  \o <<Item("module", c)>>
  \o [k \in 1..Len(Design[c].sinks) |-> ItemAt("sink", c, k)]

\* Fault: the children are stepped after the instance.
OwnFirst(i) ==
  <<Item("open", i)>>
  \o [k \in 1..Len(Design[i].blocks) |-> ItemAt("block", i, k)]
  \o [k \in 1..Len(Design[i].decls) |-> ItemAt("sync", i, k)]
  \o <<Item("close", i)>>
  \o [k \in 1..Len(Design[i].children) |-> Item("step", Design[i].children[k])]

\* step_module: the children first, then the instance's own clocked blocks.
StepWork(i) ==
  [k \in 1..Len(Design[i].children) |-> Item("step", Design[i].children[k])]
  \o <<Item("open", i)>>
  \o [k \in 1..Len(Design[i].blocks) |-> ItemAt("block", i, k)]
  \o [k \in 1..Len(Design[i].decls) |-> ItemAt("sync", i, k)]
  \o <<Item("close", i)>>

-----------------------------------------------------------------------------
(* settle_iteration_budget and the number of passes a settle may take. *)

OwnBudget(i) ==
  LET own == Len(Design[i].assigns) + Len(Design[i].blocks)
             + Len(Design[i].children) + Cardinality(Names(i))
  IN  IF own = 0 THEN 1 ELSE own

Budget == MapThenSumSet(OwnBudget, Instance)

\* Fault: one pass per module instance.
PassPerInstance == Cardinality(Instance)

MaxPasses == IF Budget + 1 > 16 THEN Budget + 1 ELSE 16

\* A sum of lengths.
ASSUME BudgetAssumption == Budget \in Nat

-----------------------------------------------------------------------------
NoDrivers == [o \in Object |-> <<>>]

Init ==
  /\ persisted = [o \in Object |-> ZeroOf(Layouts[o].width)]
  /\ memories = [i \in Instance |->
                   [m \in DOMAIN Design[i].memories |->
                      [a \in 0..(Design[i].memories[m].depth - 1) |->
                         ZeroOf(Design[i].memories[m].width)]]]
  /\ clocks = [i \in Instance |-> [c \in Design[i].clocks |-> FALSE]]
  /\ call = Idle /\ before = Nothing /\ phase = "idle" /\ todo = <<>>
  /\ frame = Nothing /\ overlay = Nothing /\ drivers = Nothing
  /\ changed = FALSE /\ passes = 0 /\ passStart = Nothing
  /\ preFrame = Nothing /\ next = Nothing /\ current = Nothing /\ currentMem = Nothing
  /\ staged = Nothing /\ stagedMem = Nothing /\ sampled = Nothing
  /\ result = [ok |-> TRUE, values |-> Nothing]

\* A pass begins: fresh driver table, nothing changed yet.
StartPass(f, n) ==
  /\ todo' = PassWork
  /\ frame' = f /\ passStart' = f
  /\ overlay' = Nothing /\ drivers' = NoDrivers
  /\ changed' = FALSE /\ passes' = n

\* A call returns and its locals go out of scope.
Return(r) ==
  /\ result' = r
  /\ call' = Idle /\ before' = Nothing /\ phase' = "idle" /\ todo' = <<>>
  /\ frame' = Nothing /\ overlay' = Nothing /\ drivers' = Nothing
  /\ changed' = FALSE /\ passes' = 0 /\ passStart' = Nothing
  /\ preFrame' = Nothing /\ next' = Nothing /\ current' = Nothing /\ currentMem' = Nothing
  /\ staged' = Nothing /\ stagedMem' = Nothing /\ sampled' = Nothing

-----------------------------------------------------------------------------
(* Calls. *)

\* seed_runtime_frame: an input that names no port of the top module fails
\* the call before anything runs; an input may name any port.
KnownInputs(r) ==
  DOMAIN r.inputs \subseteq {d.name : d \in {Design[Top].decls[k] :
                               k \in {n \in 1..Len(Design[Top].decls) :
                                        Design[Top].decls[n].dir # "none"}}}

\* eval_once, step and read_signal start alike: seed a frame and settle it.
Begin(r) ==
  /\ phase = "idle"
  /\ r.op \in {"eval", "step", "read"}
  /\ KnownInputs(r)
  /\ call' = r /\ phase' = "settle"
  /\ before' = [persisted |-> persisted, memories |-> memories, clocks |-> clocks]
  /\ StartPass(persisted, 1)
  /\ UNCHANGED <<session, stepping, result>>

Refuse(r) ==
  /\ phase = "idle"
  /\ r.op \in {"eval", "step", "read"}
  /\ ~KnownInputs(r)
  /\ Return(Failed)
  /\ UNCHANGED session

\* MemoryState::write over a list of writes: each lands before the next is
\* looked at, so an index out of range leaves the writes before it in place.
InRange(decl, index) == index \in decl.low..(decl.low + decl.depth - 1)

Landed(decl, writes) ==
  {k \in 1..Len(writes) : \A j \in 1..k : InRange(decl, writes[j].index)}

\* Fault: a word is stored at its own width.
WrittenAsGiven(decl, words, writes) ==
  [a \in DOMAIN words |->
     LET hits == {k \in Landed(decl, writes) : writes[k].index = decl.low + a}
     IN  IF hits = {} THEN words[a] ELSE writes[Max(hits)].word]

Written(decl, words, writes) ==
  [a \in DOMAIN words |->
     LET hits == {k \in Landed(decl, writes) : writes[k].index = decl.low + a}
     IN  IF hits = {} THEN words[a] ELSE Coerce(writes[Max(hits)].word, decl.width)]

\* load_memory_words numbers the words from the low end of the index range;
\* load_memory_file takes the indexes the file's parser returns.
WritesOf(r, decl) ==
  IF r.op = "words"
  THEN [k \in 1..Len(r.words) |-> [index |-> decl.low + k - 1, word |-> r.words[k]]]
  ELSE r.writes

\* An unknown instance or memory is refused; so is a file that does not parse,
\* as one does that names an address outside the depth.
Addressable(r) ==
  /\ r.inst \in Instance
  /\ r.memory \in DOMAIN Design[r.inst].memories
  /\ r.op = "file" =>
       /\ r.parsed
       /\ \A k \in 1..Len(r.writes) :
            r.writes[k].index < Design[r.inst].memories[r.memory].depth

Load(r) ==
  /\ phase = "idle"
  /\ r.op \in {"words", "file"}
  /\ IF Addressable(r)
     THEN LET decl   == Design[r.inst].memories[r.memory]
              writes == WritesOf(r, decl)
          IN  /\ memories' = [memories EXCEPT ![r.inst][r.memory] = Written(decl, @, writes)]
              /\ result' = IF Cardinality(Landed(decl, writes)) = Len(writes)
                           THEN [ok |-> TRUE, values |-> Nothing]
                           ELSE Failed
     ELSE /\ result' = Failed
          /\ UNCHANGED memories
  /\ UNCHANGED <<persisted, clocks, call, before, phase, todo, settling, stepping>>

\* read_memory_word
ReadWord(r) ==
  /\ phase = "idle"
  /\ r.op = "word"
  /\ result' =
       IF /\ r.inst \in Instance
          /\ r.memory \in DOMAIN Design[r.inst].memories
          /\ InRange(Design[r.inst].memories[r.memory], r.index)
       THEN LET low == Design[r.inst].memories[r.memory].low
            IN  [ok |-> TRUE, values |-> memories[r.inst][r.memory][r.index - low]]
       ELSE Failed
  /\ UNCHANGED <<session, call, before, phase, todo, settling, stepping>>

-----------------------------------------------------------------------------
(* A settle pass.  InSettle: the work stack belongs to a pass. *)

InSettle == phase \in {"settle", "resettle"}

\* Fault: the flag tells of the last write only.
WriteFrameForgetting(b, v) ==
  /\ frame' = [frame EXCEPT ![b.obj] = Stored(b, v)]
  /\ changed' = (frame[b.obj] # Stored(b, v))

\* Writes one object of the frame and reports whether it changed.
WriteFrame(b, v) ==
  /\ frame' = [frame EXCEPT ![b.obj] = Stored(b, v)]
  /\ changed' = (changed \/ frame[b.obj] # Stored(b, v))

KeepFrame == UNCHANGED <<frame, changed>>

\* Fault: a net takes one driver in a pass.
StageFirst(o, v) == drivers' = [drivers EXCEPT ![o] = IF @ = <<>> THEN <<v>> ELSE @]

StageDriver(o, v)   == drivers' = [drivers EXCEPT ![o] = Append(@, v)]
ReplaceDriver(o, v) == drivers' = [drivers EXCEPT ![o] = <<v>>]

\* apply_fixed_binding_drive: a net gets a driver, a variable gets the value.
DriveBinding(b, v) ==
  IF IsNet(b.obj)
  THEN StageDriver(b.obj, Stored(b, v)) /\ KeepFrame
  ELSE WriteFrame(b, v) /\ UNCHANGED drivers

\* apply_external_inputs, one port: an input the caller left out is zero, an
\* inout the caller left out is not driven.
ApplyInput ==
  /\ Doing("input")
  /\ Pop
  /\ LET d == DeclOf(Top, Head1.name)
     IN  IF d.name \in DOMAIN call.inputs
         THEN DriveBinding(Binding(Top, d.name), Coerce(call.inputs[d.name], d.width))
         ELSE IF d.dir = "input"
         THEN DriveBinding(Binding(Top, d.name), ZeroOf(d.width))
         ELSE KeepFrame /\ UNCHANGED drivers
  /\ UNCHANGED <<session, call, before, phase, overlay, passes, passStart, stepping, result>>

EnterModule ==
  /\ Doing("module")
  /\ Push(ModuleWork(Head1.inst))
  /\ overlay' = Nothing
  /\ UNCHANGED <<session, call, before, phase, frame, drivers, changed, passes, passStart,
                 stepping, result>>

EnterChild ==
  /\ Doing("child")
  /\ Push(ChildWork(Head1.inst))
  /\ UNCHANGED <<session, call, before, phase, settling, stepping, result>>

\* Combinational code reads the overlay, then the frame, and its memories.
CombValue(i, e) == ValueIn(e, i, Overlaid(i), memories[i])
CombFails(i, e) == FailsIn(e, i, Overlaid(i), memories[i])

AssignOf(w) == Design[w.inst].assigns[w.at]

ContinuousAssign ==
  /\ Doing("assign")
  /\ LET a == AssignOf(Head1)
         i == Head1.inst
     IN  /\ ~CombFails(i, a.expr)
         /\ ~HasMemoryLeaf(a.target)
         /\ Push(LeafItems("assign leaf", i, a.target, CombValue(i, a.expr)))
  /\ UNCHANGED <<session, call, before, phase, settling, stepping, result>>

\* Fault: the leaf is written over the value the frame has.
OverlayLeafOnFrame(i, leaf, bits) ==
  overlay' = [n \in DOMAIN overlay \cup {leaf.name} |->
                IF n = leaf.name THEN Merged(leaf, Table(i, frame)[n], bits) ELSE overlay[n]]

\* seed_overlay_for_lvalue, then the write of one leaf.
OverlayLeaf(i, leaf, bits) ==
  overlay' = [n \in DOMAIN overlay \cup {leaf.name} |->
                IF n = leaf.name THEN Merged(leaf, Overlaid(i)[n], bits) ELSE overlay[n]]

SeedOverlay(i, n) ==
  overlay' = [m \in DOMAIN overlay \cup {n} |-> Overlaid(i)[m]]

\* What a leaf drives onto a net: the whole net, or part of it and Z elsewhere.
LeafDriver(i, leaf, bits) ==
  LET b == Binding(i, leaf.name)
  IN  IF leaf.kind = "whole" THEN Stored(b, bits)
      ELSE PadZ(bits, leaf.low, leaf.width, Layouts[b.obj].width)

\* apply_or_stage_resolved_lvalue: a net signal is staged, a variable is
\* written in the overlay.
AssignLeaf ==
  /\ Doing("assign leaf")
  /\ Pop
  /\ LET i == Head1.inst
         leaf == Head1.leaf
     IN  IF NetSignal(i, leaf.name)
         THEN /\ SeedOverlay(i, leaf.name)
              /\ StageDriver(Binding(i, leaf.name).obj, LeafDriver(i, leaf, Head1.bits))
         ELSE /\ OverlayLeaf(i, leaf, Head1.bits)
              /\ UNCHANGED drivers
  /\ UNCHANGED <<session, call, before, phase, frame, changed, passes, passStart, stepping, result>>

\* execute_proc_block: clocked blocks do nothing in a settle.
CombBlock ==
  /\ Doing("comb")
  /\ LET b == Design[Head1.inst].blocks[Head1.at]
     IN  IF b.kind = "comb" THEN Push(<<StmtItem("stmt", Head1.inst, b.body)>>) ELSE Pop
  /\ UNCHANGED <<session, call, before, phase, settling, stepping, result>>

-----------------------------------------------------------------------------
(* Statements.  op is "stmt" in always_comb and "seq" in always_ff; Val and *)
(* Err are the readers of the two executors.                               *)

\* The statements a control statement runs next.  An x or z condition takes
\* the else branch, and case compares all four states.
Arm(s, value, Val(_)) ==
  {k \in 1..Len(s.arms) : CaseEqual(value, Val(s.arms[k].pattern))}

Chosen(s, Val(_)) ==
  CASE s.kind = "empty" -> <<>>
    [] s.kind = "block" -> s.items
    [] s.kind = "if"    -> <<IF Truthy(Val(s.cond).bits) THEN s.then ELSE s.else>>
    [] s.kind = "case"  -> LET hits == Arm(s, Val(s.expr), Val)
                           IN  <<IF hits = {} THEN s.default ELSE s.arms[Min(hits)].body>>

\* Patterns are evaluated in order, up to the first that matches.
ControlFails(s, Val(_), Err(_)) ==
  CASE s.kind = "if"   -> Err(s.cond)
    [] s.kind = "case" -> \/ Err(s.expr)
                          \/ \E k \in 1..Len(s.arms) :
                               /\ Err(s.arms[k].pattern)
                               /\ \A j \in 1..(k - 1) :
                                    ~CaseEqual(Val(s.expr), Val(s.arms[j].pattern))
    [] OTHER           -> FALSE

\* execute_comb_stmt.  A nonblocking assignment or a memory element is an error.
CombControl ==
  /\ Doing("stmt")
  /\ LET i == Head1.inst
         s == Code[Head1.stmt]
         V(e) == CombValue(i, e)
         F(e) == CombFails(i, e)
     IN  /\ s.kind # "assign"
         /\ ~ControlFails(s, V, F)
         /\ LET body == Chosen(s, V)
            IN  Push([k \in 1..Len(body) |-> StmtItem("stmt", i, body[k])])
  /\ UNCHANGED <<session, call, before, phase, settling, stepping, result>>

CombAssign ==
  /\ Doing("stmt")
  /\ LET i == Head1.inst
         s == Code[Head1.stmt]
     IN  /\ s.kind = "assign"
         /\ s.blocking
         /\ ~CombFails(i, s.expr)
         /\ ~HasMemoryLeaf(s.target)
         /\ Push(LeafItems("comb leaf", i, s.target, CombValue(i, s.expr)))
  /\ UNCHANGED <<session, call, before, phase, settling, stepping, result>>

\* apply_resolved_lvalue on the overlay: procedural writes stage nothing,
\* the commit below does.
CombLeaf ==
  /\ Doing("comb leaf")
  /\ Pop
  /\ OverlayLeaf(Head1.inst, Head1.leaf, Head1.bits)
  /\ UNCHANGED <<session, call, before, phase, frame, drivers, changed, passes, passStart,
                 stepping, result>>

-----------------------------------------------------------------------------
(* commit_overlay_to_frame.  The overlay and the special names are hash    *)
(* maps: names are taken in any order, the written ones before the others. *)

Special(i, n) == Design[i].specials[n]

\* Written names that have something to commit: the others are passed over.
ToCommit(i) ==
  {n \in DOMAIN overlay \ Design[i].childDriven :
     IsNet(Binding(i, n).obj) => n \in DOMAIN Design[i].specials}

ToRefresh(i) == DOMAIN Design[i].specials \ (DOMAIN overlay \cup Design[i].childDriven)

CommitDone(n) == Push(<<[Head1 EXCEPT !.done = @ \cup {n}]>>)

\* A special name is staged when no driver of its net has been staged yet.
StageIfUndriven(b, v) ==
  IF drivers[b.obj] = <<>> THEN StageDriver(b.obj, Stored(b, v)) ELSE UNCHANGED drivers

\* One name this pass has written.
CommitName ==
  /\ Doing("commit")
  /\ \E n \in ToCommit(Head1.inst) \ Head1.done :
       LET i == Head1.inst
           b == Binding(i, n)
       IN  /\ CommitDone(n)
           /\ CASE ~IsNet(b.obj) ->
                     WriteFrame(b, overlay[n]) /\ UNCHANGED drivers
                [] IsNet(b.obj) /\ Special(i, n) = "replace" ->
                     /\ WriteFrame(b, overlay[n])
                     /\ ReplaceDriver(b.obj, Stored(b, overlay[n]))
                [] IsNet(b.obj) /\ Special(i, n) = "stage" ->
                     StageIfUndriven(b, overlay[n]) /\ KeepFrame
  /\ UNCHANGED <<session, call, before, phase, overlay, passes, passStart, stepping, result>>

\* One special name it has not written: its driver is refreshed.
RefreshName ==
  /\ Doing("commit")
  /\ ToCommit(Head1.inst) \subseteq Head1.done
  /\ \E n \in ToRefresh(Head1.inst) \ Head1.done :
       LET b == Binding(Head1.inst, n)
           v == ReadBinding(b, frame)
       IN  /\ CommitDone(n)
           /\ IF Special(Head1.inst, n) = "replace"
              THEN ReplaceDriver(b.obj, Stored(b, v))
              ELSE StageIfUndriven(b, v)
  /\ UNCHANGED <<session, call, before, phase, frame, overlay, changed, passes, passStart,
                 stepping, result>>

EndCommit ==
  /\ Doing("commit")
  /\ ToCommit(Head1.inst) \cup ToRefresh(Head1.inst) \subseteq Head1.done
  /\ Pop
  /\ UNCHANGED <<session, call, before, phase, settling, stepping, result>>

-----------------------------------------------------------------------------
(* Across the hierarchy. *)

Parent(c) == Design[c].parent

\* Outside a module's own code its parent reads the frame only.
FrameValue(i, e) == ValueIn(e, i, Table(i, frame), memories[i])
FrameFails(i, e) == FailsIn(e, i, Table(i, frame), memories[i])

\* drive_child_inputs, one port.
DriveInput ==
  /\ Doing("drive")
  /\ LET c == Head1.inst
         d == Design[c].drivers[Head1.at]
         b == Binding(c, d.port)
     IN  /\ ~FrameFails(Parent(c), d.expr)
         /\ DriveBinding(b, CoerceValue(FrameValue(Parent(c), d.expr), b.view))
  /\ Pop
  /\ UNCHANGED <<session, call, before, phase, overlay, passes, passStart, stepping, result>>

\* apply_child_output_sinks, one port: the child's value goes to the leaves of
\* the parent's target.
SinkOutput ==
  /\ Doing("sink")
  /\ LET c == Head1.inst
         s == Design[c].sinks[Head1.at]
     IN  /\ ~HasMemoryLeaf(s.target)
         /\ Push(LeafItems("sink leaf", Parent(c), s.target,
                           Unsigned(ReadBinding(Binding(c, s.port), frame))))
  /\ UNCHANGED <<session, call, before, phase, settling, stepping, result>>

\* apply_resolved_lvalue_to_frame, one leaf: a net signal is staged; a
\* variable is read, modified and written, and is the driver of a net object.
SinkLeaf ==
  /\ Doing("sink leaf")
  /\ Pop
  /\ LET i == Head1.inst
         leaf == Head1.leaf
         b == Binding(i, leaf.name)
         v == Merged(leaf, ReadBinding(b, frame), Head1.bits)
     IN  IF NetSignal(i, leaf.name)
         THEN StageDriver(b.obj, LeafDriver(i, leaf, Head1.bits)) /\ KeepFrame
         ELSE /\ WriteFrame(b, v)
              /\ IF IsNet(b.obj) THEN ReplaceDriver(b.obj, Stored(b, v))
                 ELSE UNCHANGED drivers
  /\ UNCHANGED <<session, call, before, phase, overlay, passes, passStart, stepping, result>>

-----------------------------------------------------------------------------
(* The end of a pass: resolve_staged_nets, then stop, repeat or give up. *)

EndOfPass == InSettle /\ todo = <<>>

DriversOf(o) == [k \in 1..Len(drivers[o]) |-> StrongDriver(drivers[o][k])]

Conflict == \E o \in Object :
  IsNet(o) /\ NetConflict(Layouts[o].storage, Layouts[o].width, DriversOf(o))

\* Every net is resolved anew from this pass's drivers.
Resolved ==
  [o \in Object |->
     IF IsNet(o)
     THEN ResolveNet(Layouts[o].storage, Layouts[o].width, frame[o], DriversOf(o))
     ELSE frame[o]]

\* Fault: only the nets decide whether a pass was quiet.
NetsQuiet == Resolved = frame

Quiet == ~changed /\ Resolved = frame

PassesLeft == passes < MaxPasses

\* Fault: passes are not counted.
NextPassUncounted ==
  /\ EndOfPass /\ ~Conflict /\ ~Quiet
  /\ PassesLeft
  /\ StartPass(Resolved, passes)
  /\ UNCHANGED <<session, call, before, phase, stepping, result>>

NextPass ==
  /\ EndOfPass /\ ~Conflict /\ ~Quiet
  /\ PassesLeft
  /\ StartPass(Resolved, passes + 1)
  /\ UNCHANGED <<session, call, before, phase, stepping, result>>

Converged == EndOfPass /\ ~Conflict /\ Quiet

\* collect_outputs_logic, or the one signal read_signal was asked for.
TopOutputs ==
  {d.name : d \in {e \in {Design[Top].decls[k] : k \in 1..Len(Design[Top].decls)} :
                     e.dir \in {"output", "inout"}}}

Answer ==
  IF call.op = "read"
  THEN ReadBinding(Binding(call.inst, call.name), frame)
  ELSE [n \in TopOutputs |-> ReadBinding(Binding(Top, n), frame)]

AnswerExists ==
  call.op = "read" => call.inst \in Instance /\ call.name \in Names(call.inst)

AnswerTwoState ==
  IF call.op = "read" THEN IsTwoState(Answer)
  ELSE \A n \in TopOutputs : IsTwoState(Answer[n])

\* The settle whose frame the call reports.  A *_2state wrapper turns an
\* unknown bit into an error, after everything the call did has been done.
Reply ==
  /\ Converged
  /\ call.op = "step" => phase = "resettle"
  /\ Return(IF AnswerExists /\ (call.two => AnswerTwoState)
            THEN [ok |-> TRUE, values |-> Answer]
            ELSE Failed)
  /\ UNCHANGED session

\* A step's first settle is done: its frame is what the clocked blocks read.
BeginStep ==
  /\ Converged
  /\ call.op = "step" /\ phase = "settle"
  /\ phase' = "step"
  /\ todo' = <<Item("step", Top)>>
  /\ preFrame' = frame /\ next' = persisted
  /\ frame' = Nothing /\ overlay' = Nothing /\ drivers' = NoDrivers
  /\ changed' = FALSE /\ passes' = 0 /\ passStart' = Nothing
  /\ UNCHANGED <<session, call, before, current, currentMem, staged, stagedMem, sampled, result>>

-----------------------------------------------------------------------------
(* step_module. *)

EnterStep ==
  /\ Doing("step")
  /\ Push(StepWork(Head1.inst))
  /\ UNCHANGED <<session, call, before, phase, settling, stepping, result>>

\* Faults: staged values start from the settled frame, so that combinational
\* values are stored; clocked blocks read what was already clocked.
StagedFromSettled(i) == Table(i, preFrame)
AfterEdge(i) == Table(i, next)

\* The instance's staged values start from the next objects, which its
\* children have already written; its blocks read the values before the edge.
StagedFrom(i) == Table(i, next)
BeforeEdge(i) == Table(i, preFrame)

OpenInstance ==
  /\ Doing("open")
  /\ Pop
  /\ LET i == Head1.inst
     IN  /\ staged' = StagedFrom(i)
         /\ stagedMem' = memories[i]
         /\ sampled' = clocks[i]
  /\ drivers' = NoDrivers
  /\ UNCHANGED <<session, call, before, phase, frame, overlay, changed, passes, passStart,
                 preFrame, next, current, currentMem, result>>

Level(i, n) == Truthy(ReadBinding(Binding(i, n), preFrame))
Rises(i, n) == ~clocks[i][n] /\ Level(i, n)

\* Fault: the sampled level is not looked at.
FiresOnLevel(i, b) == Level(i, b.clock) \/ (b.reset # "none" /\ Level(i, b.reset))

\* A clocked block fires on a rising clock or a rising asynchronous reset
\* ("none" when it has none).  Edges are told from the levels sampled by the
\* instance's last step; unknown levels count as low.
Fires(i, b) == Rises(i, b.clock) \/ (b.reset # "none" /\ Rises(i, b.reset))

\* Fault: a block that does not fire samples nothing.
SampledWhenFiring(i, b) ==
  [c \in DOMAIN sampled |->
     IF Fires(i, b) /\ c \in {b.clock, b.reset} THEN Level(i, c) ELSE sampled[c]]

Sampled(i, b) ==
  [c \in DOMAIN sampled |-> IF c \in {b.clock, b.reset} THEN Level(i, c) ELSE sampled[c]]

ClockedBlock ==
  /\ Doing("block")
  /\ LET i == Head1.inst
         b == Design[i].blocks[Head1.at]
     IN  IF b.kind = "comb"
         THEN Pop /\ UNCHANGED <<sampled, current, currentMem>>
         ELSE /\ sampled' = Sampled(i, b)
              /\ IF Fires(i, b)
                 THEN /\ Push(<<StmtItem("seq", i, b.body)>>)
                      /\ current' = BeforeEdge(i)
                      /\ currentMem' = memories[i]
                 ELSE Pop /\ UNCHANGED <<current, currentMem>>
  /\ UNCHANGED <<session, call, before, phase, settling, preFrame, next, staged, stagedMem, result>>

\* execute_sequential_stmt.
SeqValue(i, e) == ValueIn(e, i, current, currentMem)
SeqFails(i, e) == FailsIn(e, i, current, currentMem)

SeqControl ==
  /\ Doing("seq")
  /\ LET i == Head1.inst
         s == Code[Head1.stmt]
         V(e) == SeqValue(i, e)
         F(e) == SeqFails(i, e)
     IN  /\ s.kind # "assign"
         /\ ~ControlFails(s, V, F)
         /\ LET body == Chosen(s, V)
            IN  Push([k \in 1..Len(body) |-> StmtItem("seq", i, body[k])])
  /\ UNCHANGED <<session, call, before, phase, settling, stepping, result>>

\* resolve_lvalue fails on a memory index with an unknown bit; the write of
\* the element fails on an index out of range.
Address(i, leaf) == ToNat(SeqValue(i, leaf.index).bits)

AddressFails(i, leaf) ==
  \/ SeqFails(i, leaf.index)
  \/ ~IsTwoState(SeqValue(i, leaf.index).bits)
  \/ ~InRange(Design[i].memories[leaf.name], Address(i, leaf))

SeqAssignFails(i, s) ==
  \/ SeqFails(i, s.expr)
  \/ \E k \in 1..Len(s.target.leaves) :
       /\ s.target.leaves[k].kind = "memory"
       /\ AddressFails(i, s.target.leaves[k])

\* Every index of the target is evaluated before any leaf is written.
SeqAssign ==
  /\ Doing("seq")
  /\ LET i == Head1.inst
         s == Code[Head1.stmt]
         bits(leaf) == LeafBits(s.target, leaf, SeqValue(i, s.expr))
         word(leaf) == IF leaf.kind = "memory"
                       THEN Address(i, leaf) - Design[i].memories[leaf.name].low
                       ELSE 0
     IN  /\ s.kind = "assign"
         /\ ~SeqAssignFails(i, s)
         /\ Push([k \in 1..Len(s.target.leaves) |->
                    [op |-> "seq leaf", inst |-> i, leaf |-> s.target.leaves[k],
                     bits |-> bits(s.target.leaves[k]), word |-> word(s.target.leaves[k]),
                     blocking |-> s.blocking]])
  /\ UNCHANGED <<session, call, before, phase, settling, stepping, result>>

\* Writes one leaf into a value table, or one word into a memory table.
WithLeaf(table, w) ==
  IF w.leaf.kind = "memory" THEN table
  ELSE [table EXCEPT ![w.leaf.name] = Merged(w.leaf, @, w.bits)]
WithWord(mem, w) ==
  IF w.leaf.kind = "memory"
  THEN [mem EXCEPT ![w.leaf.name][w.word] =
          Coerce(w.bits, Design[w.inst].memories[w.leaf.name].width)]
  ELSE mem

\* A nonblocking write is staged; a blocking write is also seen by the rest
\* of the block.
SeqLeaf ==
  /\ Doing("seq leaf")
  /\ Pop
  /\ staged' = WithLeaf(staged, Head1)
  /\ stagedMem' = WithWord(stagedMem, Head1)
  /\ current' = IF Head1.blocking THEN WithLeaf(current, Head1) ELSE current
  /\ currentMem' = IF Head1.blocking THEN WithWord(currentMem, Head1) ELSE currentMem
  /\ UNCHANGED <<session, call, before, phase, settling, preFrame, next, sampled, result>>

\* sync_instance_values_to_frame on the next objects, one name: variables are
\* written; a net object only for a variable output port, or for a signal
\* written in a procedural block when no name before it drove the object.
SyncName ==
  /\ Doing("sync")
  /\ Pop
  /\ LET i == Head1.inst
         d == Design[i].decls[Head1.at]
         b == Binding(i, d.name)
         v == Stored(b, staged[d.name])
         replaces == d.storage = "variable" /\ d.dir \in {"output", "none"}
         writes == \/ ~IsNet(b.obj)
                   \/ replaces
                   \/ drivers[b.obj] = <<>> /\ d.name \in Design[i].procedural
     IN  /\ next' = IF writes THEN [next EXCEPT ![b.obj] = v] ELSE next
         /\ drivers' = IF writes /\ IsNet(b.obj) THEN [drivers EXCEPT ![b.obj] = <<v>>]
                       ELSE drivers
  /\ UNCHANGED <<session, call, before, phase, frame, overlay, changed, passes, passStart,
                 preFrame, current, currentMem, staged, stagedMem, sampled, result>>

\* Fault: the objects are committed with the instance.
CloseAndCommit ==
  /\ Doing("close")
  /\ Pop
  /\ persisted' = next
  /\ memories' = [memories EXCEPT ![Head1.inst] = stagedMem]
  /\ clocks' = [clocks EXCEPT ![Head1.inst] = sampled]
  /\ current' = Nothing /\ currentMem' = Nothing
  /\ staged' = Nothing /\ stagedMem' = Nothing /\ sampled' = Nothing
  /\ UNCHANGED <<call, before, phase, settling, preFrame, next, result>>

\* The instance's memories and sampled clocks are updated in place, while
\* the objects of the step are still a private copy.
CloseInstance ==
  /\ Doing("close")
  /\ Pop
  /\ memories' = [memories EXCEPT ![Head1.inst] = stagedMem]
  /\ clocks' = [clocks EXCEPT ![Head1.inst] = sampled]
  /\ current' = Nothing /\ currentMem' = Nothing
  /\ staged' = Nothing /\ stagedMem' = Nothing /\ sampled' = Nothing
  /\ UNCHANGED <<persisted, call, before, phase, settling, preFrame, next, result>>

\* step_module has returned: the objects are committed and settled again.
CommitStep ==
  /\ phase = "step" /\ todo = <<>>
  /\ persisted' = next
  /\ phase' = "resettle"
  /\ StartPass(next, 1)
  /\ preFrame' = Nothing /\ next' = Nothing
  /\ UNCHANGED <<memories, clocks, call, before, current, currentMem, staged, stagedMem,
                 sampled, result>>

-----------------------------------------------------------------------------
(* Errors.  A call that meets one returns at once: what it has written to   *)
(* the session stays, and the rest of its work is dropped.                  *)

CombStmtFails(i, s) ==
  LET V(e) == CombValue(i, e)
      F(e) == CombFails(i, e)
  IN  IF s.kind = "assign"
      THEN ~s.blocking \/ CombFails(i, s.expr) \/ HasMemoryLeaf(s.target)
      ELSE ControlFails(s, V, F)

SeqStmtFails(i, s) ==
  LET V(e) == SeqValue(i, e)
      F(e) == SeqFails(i, e)
  IN  IF s.kind = "assign" THEN SeqAssignFails(i, s) ELSE ControlFails(s, V, F)

WorkFails ==
  /\ todo # <<>>
  /\ LET w == Head1
     IN  CASE w.op = "assign" -> \/ CombFails(w.inst, AssignOf(w).expr)
                                \/ HasMemoryLeaf(AssignOf(w).target)
           [] w.op = "stmt"   -> CombStmtFails(w.inst, Code[w.stmt])
           [] w.op = "seq"    -> SeqStmtFails(w.inst, Code[w.stmt])
           [] w.op = "drive"  -> FrameFails(Parent(w.inst), Design[w.inst].drivers[w.at].expr)
           [] w.op = "sink"   -> HasMemoryLeaf(Design[w.inst].sinks[w.at].target)
           [] OTHER           -> FALSE

\* "did not converge": the passes have run out.
Exhausted == EndOfPass /\ ~Conflict /\ ~Quiet /\ ~PassesLeft

Fail ==
  /\ \/ WorkFails
     \/ EndOfPass /\ Conflict
     \/ Exhausted
  /\ Return(Failed)
  /\ UNCHANGED session

-----------------------------------------------------------------------------
SettleAction ==
  \/ ApplyInput \/ EnterModule \/ EnterChild
  \/ ContinuousAssign \/ AssignLeaf
  \/ CombBlock \/ CombControl \/ CombAssign \/ CombLeaf
  \/ CommitName \/ RefreshName \/ EndCommit
  \/ DriveInput \/ SinkOutput \/ SinkLeaf

StepAction ==
  \/ EnterStep \/ OpenInstance \/ ClockedBlock
  \/ SeqControl \/ SeqAssign \/ SeqLeaf
  \/ SyncName \/ CloseInstance

\* One step of the call in progress.
Work ==
  \/ SettleAction
  \/ NextPass \/ BeginStep \/ Reply
  \/ StepAction
  \/ CommitStep
  \/ Fail

Request == \E r \in Requests : Begin(r) \/ Refuse(r) \/ Load(r) \/ ReadWord(r)

Next == Request \/ Work

Spec == Init /\ [][Next]_vars

\* A call runs to its end on the caller's thread.
FairSpec == Spec /\ WF_vars(Work)
=============================================================================
