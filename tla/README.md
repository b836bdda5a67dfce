# A verification model of svsim

svsim compiles a subset of SystemVerilog and simulates it with four-state
values.  This directory models what decides which designs are simulated and
what a simulation *means*: how a compilation finds its files, lowers loops and
constants, validates and elaborates (`compiler.rs`, `frontend/sv_parser/`,
`validate.rs`, `elaborate.rs`); the session, its settle loop, its clocked step,
the net resolver and the expression evaluator (`sim/`, `net_resolve.rs`,
`expr_eval.rs`); the values they compute with (`logic_value.rs`,
`bit_value.rs`); and the harness that judges a design by a suite of steps
(`test.rs`).  TLC checks the model on small designs and small disks; TLAPS
proves those that hold of the walks of a call and of a compilation for every
design and every disk.

Paths below are relative to `src/crates/svsim/src/` unless they start
otherwise.  Line numbers are in `PROJECT.json`, definition by definition.

## The system

| Component | Source | State it keeps | Operations | Hard part |
|---|---|---|---|---|
| Session | `sim/session.rs` | object values `persisted`; per instance memories and `previous_clocks` | `eval_once`, `step`, `read_signal`, `load_memory_words`, `load_memory_file`, `read_memory_word`, `*_2state` | an error at any point of a call; what a failed call leaves behind |
| Settle | `settle_module`, `settle_module_pass` | a frame, an overlay per module, staged drivers, a change flag (all local) | passes until quiet, at most a budget of them | order of commits, fixed point, termination |
| Clocked step | `step_module` | pre-edge frame, next objects, staged values and memories (local) | children first, then the clocked blocks of the instance | simultaneity across the hierarchy, edges, shared objects |
| Objects and drivers | `sim/state.rs`, `sim/eval.rs` | runtime objects, bindings with a view width | read, write, stage, replace, commit, sync | aliases of different widths, nets with several drivers |
| Instantiation | `sim/state.rs` | instance tables | aliasing, allocation | which port shares an object |
| Net resolver | `net_resolve.rs` | none | resolve a net bit by bit | net kinds, pulls, charge, conflicts |
| Four-state values | `logic_value.rs`, `logic_ops.rs` | three masks and a width | coerce, slice, print, read, match | bits hidden by the width, ambiguous texts |
| Expressions | `expr_eval.rs`, `width.rs` | none | evaluate | X and Z, widths, short circuits |
| Elaboration | `elaborate.rs` | the instance tree | specialise parameters, bind ports | recursion, overrides |
| Memory files | `sim/memory.rs` | running address (local) | parse | addresses, radix of a word |
| Built-in ROM | `sim/legacy_rom.rs` | ROM contents | look up | |
| Two-state integers | `bit_value.rs` | limbs, inline or on the heap | arithmetic, order, digits | limb boundaries, one form per number |
| Validator | `validate.rs` | modules visited and on the path (local) | refuse a design | what it lets pass must elaborate, instantiate and evaluate |
| Compiler, loader | `compiler.rs`, `design.rs` | pending files, paths seen, modules provided (local) | find, parse, register, batch run | order, links and duplicates, cycles |
| JSON harness | `test.rs` | a session per suite | bind memories, low and high clock step per logical cycle, trace, compare | implicit clock, state that cases share |
| Frontend | `frontend/` | parameters frozen so far, per module | syntax tree to HIR | constants evaluated with defaults, loop unrolling |
| CLI, render, corpus | `svsim-cli`, `svsim-render`, `parts/` | none | | |

A client (the CLI, the JSON harness or an embedding program) compiles a design,
gets a session and makes one call at a time: every method takes `&mut self` or
borrows the session, so there is no concurrency between calls.  What is hard is
inside a call: it is a long walk over an instance tree that writes shared
objects, in an order that hash maps decide in places, and that can end with an
error after each of its steps.  Nothing is persisted outside the process and
there are no timers or messages.

What makes each part correct:

- a session: a call that fails before it commits leaves the objects as they were;
  a state change is the effect of a clock edge; no edge is lost or seen twice;
- a settle: it ends, and when it ends without an error the values solve the
  design's equations, whatever the order of commits and children; it does not
  give up on a design without feedback;
- a step: registers of all instances move together, from values before the edge;
- objects: they keep their width whoever writes them through whichever port;
- values: an operation yields the bits it would on sequences of bits, whatever
  the limbs; equality, which the settle loop and the nets use to notice a
  change, is equality of bits; a printed value reads back as itself;
- the resolver: a net has the value its kind gives to the set of its drivers;
- a compilation: it ends, whatever the files and however they instantiate each
  other; it refuses as defined twice only what is; what it accepts has a finite
  hierarchy that can be instantiated, and expressions that evaluate;
- lowering: what it decides with the defaults of parameters stays true of every
  instance, or the instance is refused;
- a suite: a step with its clock high is one cycle, and its verdict is that of
  the design with the memories that were bound.

`PROJECT.json` lists the hazards behind these properties, each at its line.

## Modules

| Module | Models | Notes |
|---|---|---|
| `FourState` | `logic_value.rs`, `logic_ops.rs`, `Value` of `expr_eval.rs` | a value is a sequence of `"0" "1" "X" "Z"`, bit 0 first |
| `NetResolve` | `net_resolve.rs` | strengths are numbers, a bit's drivers a set of records |
| `Hir` | the constructs of `hir.rs`, `ResolvedLValue`; of the source, loops and selects at an expression | constructors used to write designs down; a concatenated target is its list of leaves |
| `Expr` | `eval_expr`, `expr_width` | a recursive operator, returning `Error` where the code returns `Err` |
| `Layout` | `instantiate_module_state` | from a hierarchy of instances to the tables of `Session` |
| `Session` | `sim/session.rs`, `sim/state.rs`, `sim/eval.rs` | the state machine |
| `SessionProperties` | | type invariant, invariants and action properties |
| `Wiring` | | abstract: how parts are wired; what connections, nets, assignments and blocks promise of a settle: `ConnectionsSettle`, `AssignsSettle`, `BlocksSettle` |
| `Netlist` | | abstract: the equations of a design, and `SettledIsSolution`; extends `Wiring` |
| `ShiftRegister` | | abstract: what a caller sees of a chain of flip-flops |
| `Protocol` | | abstract: what a call may write, when and in what order |
| `SessionProofs`, `StepProofs`, `ProtocolProofs` | | theorems about `Session`, with their proofs |
| `SettleProofs`, `AssignProofs`, `BlockProofs` | | theorems about `Wiring`, with their proofs |
| `HarnessProofs` | | theorems about `JsonHarness` and `MemoryFile`, with their proofs |
| `BitValue` | `bit_value.rs` | limbs of `LimbBits` bits, 64 in the code |
| `BitRegister` | any chain of calls of it | the state is one BitValue |
| `Numbers` | | abstract: natural numbers, modulo 2^width |
| `LogicMasks` | `logic_value.rs`, `logic_ops.rs` | the masks, texts and patterns; extends `BitValue` |
| `LogicRegister` | any chain of calls of it | the state is one LogicValue |
| `Vectors` | | abstract: the operators of `FourState`, on one vector |
| `Loader` | the search for files: `compiler.rs`, `compile_file`, `compile_str`, `register_source_file` | a state machine over a disk |
| `Validator` | the checks of a module, `validate.rs` | predicates over a module and its tables |
| `Parameters` | values of parameters (`elaborate.rs`, `expr_eval.rs`), constants and what they freeze (`const_eval.rs`) | extends `Validator` |
| `Compiler` | loading, then `validate_design` and `elaborate_design` as walks | extends `Loader`; what is asked of a module and an instance is a constant |
| `CompilerProperties` | | the hierarchy a compilation leaves and what is claimed of it; extends `Compiler` and `Parameters` |
| `CompilerProofs` | | theorems about `Loader` and `Compiler`, with their proofs |
| `Exprs` | any expression of a few operators | built one operator at a time; validation against evaluation |
| `Lowering` | `statements.rs`, `loop_unroll.rs`: from such statements to the HIR, with what freezes | sets of results, empty where the code returns an error |
| `Statements` | any statement of a few constructs; what a statement means | lowering against meaning |
| `MemoryFile` | `sim/memory.rs` | the lines of a file as the writes they stand for |
| `JsonHarness` | `test.rs` | extends `Session`: suites that drive a session |
| `TestCycles` | | abstract: a suite on a machine with one cycle per clocked step |
| `MCValues` | | `BitRegister`, `LogicRegister`, `Exprs` and `Statements` side by side |
| `MCCompiler`, `MCHarness` | | the disks of `compile`, the design and suites of `harness` |
| `MCSession`, other `MC*` | | one design, with its requests, per run |

`Session` knows nothing of expressions or of how a design was laid out: `Eval`
and `Fails` (the value of an expression and whether evaluating it is an error),
`Design`, `Layouts` and `Code` are constants.  The MC modules give the first
two the evaluator of `Expr`, the others a design laid out by `Layout`; the
proofs leave them open.

### State and actions

`persisted`, `memories` and `clocks` are the session between calls.  The other
variables are the locals of a call in progress and go back to `Nothing` when
it returns; `before` and `passStart` are history variables that no guard
reads.

The recursion of the code is one work stack, `todo`.  Each action takes its
head, and may push what the recursive call would visit:

| Action | Code |
|---|---|
| `Begin`, `Refuse` | start of `eval_once`, `step`, `read_signal`; `seed_runtime_frame` |
| `Load`, `ReadWord` | memory loads and reads, each atomic: nothing runs beside them |
| `ApplyInput` | one port of `apply_external_inputs` |
| `EnterModule`, `EnterChild` | `settle_module_pass` and its loop over children |
| `ContinuousAssign`, `AssignLeaf` | one continuous assignment, one leaf of its target |
| `CombBlock`, `CombControl`, `CombAssign`, `CombLeaf` | `execute_comb_stmt` |
| `CommitName`, `RefreshName`, `EndCommit` | `commit_overlay_to_frame`, a name at a time **in any order** |
| `DriveInput`, `SinkOutput`, `SinkLeaf` | `drive_child_inputs`, `apply_child_output_sinks` |
| `NextPass`, `BeginStep`, `Reply` | end of a pass: `resolve_staged_nets`, then again, the edge, or the answer |
| `EnterStep`, `OpenInstance`, `ClockedBlock` | `step_module`, edge detection |
| `SeqControl`, `SeqAssign`, `SeqLeaf` | `execute_sequential_stmt` |
| `SyncName`, `CloseInstance`, `CommitStep` | `sync_instance_values_to_frame`, end of `step_module`, commit in `step` |
| `Fail` | an error: of an expression, a target, a net conflict, or passes run out |

`commit_overlay_to_frame` iterates over two hash maps, so `CommitName` and
`RefreshName` choose any name that is left, first among those written, then
among the special ones.

`Compiler` is one compilation, from `status = "start"` to an error or
`"elaborated"`.  Of its variables `seen`, `provided` and `pending` are the
`seen_paths`, `provided_modules` and `pending_paths` of the code; `cursor` is the loop over the instantiations of the file
registered last; `frames` is the recursion of `validate_module_recursive` and
later of `elaborate_instance`, `visit` the place `validate_design`'s two loops
have reached, and `tree` the instances built so far.  What validation asks of a
module and an instance (`Passes`, `Fits`) and the parameters of an instance
(`Values`, `HasAll`, `Refuses`) are constants, to which `MCCompiler` gives the
operators of `Validator` and `Parameters`.

| Action | Code |
|---|---|
| `RootFails`, `LoadRoot` | start of `compile_file` and `compile_str` |
| `Instantiation`, `NextModule` | the loop of `register_source_file`, one instantiation at a time |
| `LoadNext`, `Loaded` | `compile_from_source_file`: the file that became pending last |
| `StartValidation`, `VisitModule`, `NextFile`, `VisitInstance`, `LeaveModule`, `Validated` | `validate_design`, `validate_module_recursive` |
| `StartElaboration`, `ElaborateInstance`, `LeaveInstance`, `Elaborated` | `elaborate_design`, `elaborate_instance`, `elaborate_module_parameters` |

The error a compilation stops with is kept apart for each check, since the
properties tell a duplicate from a cycle; what kind of invalid module, of
override or of connection it was is not.

`JsonHarness` puts a second thread of control over `Session`: the harness
submits a call, waits for it to return (`Returned`) and goes on.

| Action | Code |
|---|---|
| `ApplyBinding`, `LoadMemory`, `Bound` | `apply_memory_bindings`, one binding, one memory at a time |
| `RunStep`, `LowDone`, `StepDone` | `run_sequential_step`: the low step, the high step, its outputs |
| `RunCase` | one case of `run_combinational` |
| `TraceOutput`, `TraceSignal`, `SignalTraced` | `collect_trace_values`, one signal at a time |
| `Compare`, `CloseCase`, `Report` | `compare_outputs`, the end of a case and of a suite |

An error of the session ends the suite, as `?` does in the code: the report of
the cases before it is lost.

`BitRegister` and `LogicRegister` are built alike: one value, one action per
operation, applied to what the operations before it left.  They are there
because most of what can be wrong in `bit_value.rs` and `logic_value.rs` is in
the *form* of a value, which a later operation depends on and no single call
shows.  `Session` stands on `FourState`, where a value is a sequence of bits;
`LogicRegister` shows that the masks implement it, and `BitRegister` that the
limbs implement numbers, in the widths named under Findings 4.

`Exprs` and `Statements` likewise have one expression, or one statement, that
grows by one operator or construct at a time; their invariants relate what
`validate.rs`, `width.rs` and `expr_eval.rs`, or lowering and running, make of it.

Left out of `Session`: the built-in ROM branch of a pass; spans, messages and
statistics; the `Vec<String>` stack that refuses recursive instantiation, which
a finite `Hierarchy` cannot contain.  A memory file is the list of writes its
parser returns; `JsonHarness` gets it from `MemoryFile`.

## Runs

| Run | Design | Shows |
|---|---|---|
| `pipe` | three flip-flops: two children and the parent, linked by a shared net and an output sink | `ShiftsTogether`: implements `ShiftRegister` under the refinement mapping in `MCPipe`; `EveryClockSampled`; `StateChangesOnEdges` |
| `bus` | wire, inout, tri1, trireg, wand, uwire, supply0 and a net driven bit by bit | `SettledIsSolution`, `ConnectionsSettle`, `SettlesInBudget` |
| `comb` | three instances with `case`, `if`, part and concatenated targets, two blocks in a chain, a block on a net; a loop that settles or oscillates | `SettledIsSolution`, `AssignsSettle`, `BlocksSettle`, `TrackedChange`, `CallsReturn` |
| `ram` | a toggle child with asynchronous reset; a memory whose address may be illegal; loads, reads, 2-state calls | `TypeOK`, `ObjectsWaitForCommit`, `StateChangesOnEdges`, `KeepsProtocol` |
| `values` | one BitValue in limbs of three bits; one LogicValue in limbs of four bits; one expression of up to two operators; one statement of up to three constructs | `ComputesExactly`, `EqualityIsNumeric`, `OrderIsNumeric`, `DisplayReadsBack`; `ImplementsFourState`, `EqualityIsBitwise`, `PrintedReadsBack`, `ExpectedAsPrinted`, `WildcardsAreLocal`; `ValidatedEvaluates`, `WidthsAgree`, `UnknownIsAnything`; `LoweredAsWritten` |
| `compile` | disks with a root file, two files beside it and two on a search path, any of them missing, broken, linked, cyclic or with duplicate modules | `DuplicatesAreReal`, `ConventionLoads`, `CompiledElaborates`, `HierarchyValidated`, `HierarchyWhole`, `ElaboratedInstantiates`, `FrozenStaysTrue`, `CompilationEnds` |
| `harness` | two flip-flops that a loaded word inverts, a net that keeps a charge; eight suites | `TraceAgrees`, `BindingsHold`, `WritesInSteps`, `ReportsTheDesign` |
| `ripple`, `narrow`, `torn`, `wide`, `round_trip` | see Findings | a property that does not hold |

A design of a session is 1 to 4 instances with 1 to 11 names each, of 1 to 3 bits (16
in `ripple`), and calls may follow one another without bound: the only bounds
are the designs and the inputs in `MCRequests`.  That is enough for the hazards
because each of them is between two parts: two instances on one object, a
parent and a child, one call and the next.  The designs contain every kind of
such a pair that `Layout` can make: aliased and sunk outputs, aliased and
driven inputs, inouts, variables and nets, whole and partial targets.  Inputs
include X, and Z where a caller may drive a bus.

In `values` the limbs are short so that values have several: the code does the
same to each limb, and only its first, its last and the step from one to the
next are special.  All 512 values of nine bits are reached, 686 vectors of up to
five bits, about 11,000 expressions over signals, parameters and a memory, and
15,660 statements with loops inside loops, conditions and places that depend on
loop variables and on parameters.  A loop is refused at its fourth condition
(`UnrollLimit`, 16384 in the code) and its variable has three bits (`LoopWidth`,
32 in the code), so that loops that are empty, complete, or do not end are all
there.  Two operators are enough for each operator to see every other as an
operand; a shift below a shift below a ternary needs three and is not seen.
The history variables `did` and `changed` are what the refinements read to know
which operation is due; a `VIEW` leaves them out of the state, since no action or
invariant reads them.

`compile` has one root, `d/top.sv`, with one of thirteen texts, files `a` and `b`
in its directory and on the search path, and two links, one of them back to the
root (`MCDisks`); three calls, one through a link and one of a string.  Cycles
of one, two and three modules are among them, and every order in which two
files can become pending.  126,624 states.

`harness` bounds a suite by two cases of two steps each (`MaxCases`,
`MaxSteps`): what one step leaves the next one finds, and what one case leaves
the next.  The clock of a step is 0, 1, X or not given.  213,554 states.

Deadlock is checked in the runs of a session, where a client may always call
again, and in `values`.  It is not in `compile` and `harness`: a compilation and
a suite are over at some point, and that a compilation does not stop before it
is over is `CompilationEnds`.

Each passing run's properties are also tried on faulty versions of the model,
the operators marked `Fault:` in their modules; `PROJECT.json`
lists which fault breaks which property.

### Properties

- `SettledIsSolution` compares the frame a settle ends with to the equations of
  `Netlist`, which have no passes, overlays, commits or staged drivers: each
  net bit is a function of the *set* of bits driven onto it.  It therefore also
  says that commit order does not matter.
- `ConnectionsSettle` is the part of it that needs no evaluator: the nets are
  resolved, and what an input of a child, the target of an output or the caller
  puts on an object is there when a settle ends, computed from the values it ends
  with.  A pass computes it from what its parent's pass had found by then, often
  something else, so that it is the last, quiet pass that must have come to every
  connection and changed nothing.  Drivers of an object that something replaces
  (`IsReplaced`) are excepted: there the last to drive wins.
- `AssignsSettle` is the part about continuous assignments: under the values a
  settle ends with, what an expression yields is in the bits of its variables, or
  among the drivers of its nets.  A pass evaluates it on the overlay of the
  instance, after the assignments before it, before its blocks and its children,
  and commits the overlay later: a bit assigned early must still be what the
  frame has in the end.
- `BlocksSettle` is the part about `always_comb` blocks whose signals nothing else
  writes (`SingleBlocks`).  `Wiring` says what such a block means as a run of its own:
  from the values a settle ends with, a statement or a leaf at a time, with nothing
  between its steps (`Run`).  When that run is over it must have, for the signals of
  the block, the values they have in the frame.  In a pass the block starts from
  an overlay that assignments and earlier blocks have written, reads its own partial
  writes there, and its signals reach the frame only with the commit, before the
  children and the nets.
- `ShiftsTogether` is a refinement: the persisted registers of three instances
  are the stages of one shift register, `CommitStep` is its tick.
- `StateChangesOnEdges` says of every change of an object or a memory that a
  clocked block that writes it has seen its clock or reset rise in this call.
- `KeepsProtocol` is a refinement: a session implements `Protocol`, which knows
  the instances, their clocks and who is below whom, and nothing of frames,
  bindings or code.  Its step samples all levels at one moment, leaves every
  instance once, after those below it, and commits when it has left them all; its
  calls return at any moment and change nothing by returning; a call that is no
  step, `eval_once` or a read, never writes what the session remembers.  What is left when
  a step fails half-way, finding 3, is what `Protocol` allows and no more.
- `ReportsTheDesign` is a refinement: under the mapping in `MCHarness` a suite is
  one of `TestCycles`, where a step with its clock high is one cycle of a machine
  and every other step none, cases share nothing but the machine's state, and a
  verdict is what the outputs bear out.  The low step, the two settles, the
  passes and the traces are stutters.
- `BindingsHold` says what a memory contains when the first step begins from
  what the bindings say, without instances visited or files loaded in an order:
  the last line of the last binding that names a word.
- `WritesInSteps` says when a suite writes what its session remembers: memories
  while they are bound, all of it in the steps of a sequential suite, and never in
  a trace or a combinational case.
- `TraceAgrees` says that a signal read after a step, in a settle of its own, is
  of the same moment as the outputs the step returned.
- `DuplicatesAreReal` and `ConventionLoads` are about the order in which files
  are found and parsed; the second says of a library with one module to a file
  that this order does not matter.
- `CompiledElaborates`, `ElaboratedInstantiates` and `ValidatedEvaluates` are
  about the seams between validation and what follows it: the walk of
  elaboration, `Layout`, and the evaluator.  `ValidatedEvaluates` leaves only an
  index that a memory does not have to the runtime.
- `HierarchyValidated` and `HierarchyWhole` say that the tree of instances is the
  unfolding of the modules: each instance is one of its parent's module at its
  name, `validate_instance` let it pass in that parent, its parameters have the
  values its overrides yield with those of the parent; and every instance of its
  module is below it.  Validation visits each module once, by whatever path it is
  found, elaboration each instance; and instances are told apart by paths only.
- `FrozenStaysTrue` and `LoweredAsWritten` are about constants that were evaluated
  before an instance overrode a parameter: the first of any construct of a
  module, the second of statements, by running the lowered one and its source.
  `Statements` gives nested loops variables of their own; see the notes below.
- `WidthsAgree` says that three computations of a width agree, but for shifts by
  an amount wider than what is shifted; `UnknownIsAnything` that a bit that is
  known does not depend on an unknown one, but for signed operands.  Both
  exceptions are in the notes below.
- `ComputesExactly` and `ImplementsFourState` are refinements: after any chain of
  operations the limbs stand for the number, and the masks for the sequence of
  bits, that the same operations yield in `Numbers` and in `FourState`.
- `EqualityIsNumeric` and `EqualityIsBitwise` say that a number and a vector have
  one representation, since the code derives `Eq` and `Hash` from it.
- `ExpectedAsPrinted` and `WildcardsAreLocal` are about what the JSON harness
  accepts: `LogicPattern` matches what was printed and nothing else, and a `?`
  frees one bit.
- `EveryClockSampled`, `TrackedChange`, `ObjectsWaitForCommit`,
  `SettlesInBudget`, `EdgesSurviveFailure` and `CallsReturn` are explained at
  their definitions.

### Fairness

`FairSpec` adds `WF_vars(Work)`.  `Work` is the next step of the call in
progress, executed by the caller's own thread in a loop without waits, so that
it cannot stay enabled for ever without happening.  Nothing is assumed of the
client: it may stop calling.  `CallsReturn` is the liveness property of a
session.  `Compiler`'s `Spec` has `WF_vars(Next)` for the same reason: a
compilation is one thread that walks and reads files and waits for nobody.
`CompilationEnds` follows from no bound in the model: files and modules are
finitely many, and it is `seen` and the stack of the walk that keep the loader
and the validator from going round.

## Findings

1. **`ripple`** The pass budget counts assignments, blocks, children and
   signals, not bits.  `assign c = {c[14:0], cin}` over 16 bits has no loop,
   needs 17 passes and gets 16.  The comment on `settle_iteration_budget` calls
   the sum an over-approximation of the longest dependency chain.
2. **`narrow`** Every step writes a child's variable input port back to the
   object it shares with the parent.  A narrower port truncates the parent's
   register, without a clock edge.
3. **`torn`** A step that fails in a parent has already stored its children's
   sampled clocks and memories, but not their registers: a retry misses the edge.
4. **`wide`** `truncate_in_place` takes the last limb present for the last limb
   of the width.  Two limbs in a width of three lose the upper bits of the
   second: 2^100 in 130 bits is 0.  Widths up to 128 bits and whole multiples of
   64 are exact, which is what `values` checks and `FourState` assumes.
5. **`round_trip`** The bits `0x1` are printed as such and read back as a
   hexadecimal number.  Only "0x" followed by binary digits is affected
   (`LooksHex`): `PrintedReadsBack` and `ExpectedAsPrinted` hold of every other
   value.

Each is a violation run whose trace TLC prints.  Seen while modelling, without a
run of their own:

- Two variable outputs connected to one net replace each other's driver in every
  pass, and the design is refused as not converging.
- A loop within a loop over a variable of the same name is unrolled with the
  outer value: `module_with_const_binding` puts the inner variable first, and
  `resolve_parameter_defaults` lets the last of a name win.
  `for (int i = 3; i > 2; i--) for (int i = 0; i < 2; i++) y[i] = 1;` loses the
  inner loop without an error; loop_unroll.rs:4-6 says the variable is
  substituted with that iteration's literal.  With one variable in `LoopVars`,
  TLC finds it as a violation of `LoweredAsWritten`.
- `for (int i = 3; i >= 0; i--)` is refused as exceeding the limit, since a loop
  variable is unsigned; and a loop of exactly 16384 iterations is refused,
  because its last condition would be the 16385th.
- A loop value of more than 32 bits is cut where a condition reads it and not
  where the body has it substituted.
- In a memory file a word of zeros and ones alone is binary and any other word
  without a prefix is decimal: lines `9`, `10`, `11` fill a memory with 9, 2, 3.
- `load_memory_file` counts addresses from zero and writes them as indexes: a
  memory declared `[2:1]` cannot be filled from a file.
- `Value::unknown` drops the sign of a value, so that a later widening fills an
  unknown number with known zeros: with `b` unknown,
  `($signed(b) << b) >>> 3'b011` is known, and wrong for some `b`
  (wiki/architecture/runtime-and-state.md:25 has X propagate).  `IsSigned` keeps
  such operands out of `UnknownIsAnything`.
- A shift by an amount wider than what is shifted has the amount's width when it
  is evaluated and the other one's in `expr_width` and `validate.rs`
  (`WidensByAmount`).
- A clock that a clocked block derives is sampled from the frame before the edge,
  so that a block on it fires one step later; in a suite that is the low step of
  the next one, and such a design takes more than one cycle per step.  Read from
  `step_module` and not checked: the designs of the runs have one clock each.
- Which of two files that define one module is refused, or whether a file that
  defines several is read at all, depends on the order of instantiations:
  pending files are a stack.  `ConventionLoads` says when it does not.
- wiki/architecture/runtime-and-state.md:44 and
  docs/sap1-port-compromises.md:64 say that a test step releases a bus with
  `"8'bz"`, a text `ReadText` refuses; `"zzzzzzzz"` is read.  `values` has the
  refusal among its `MCReadings`.

## Proofs

`SessionProofs` proves, for every `Design`, `Layouts`, `Code`, `Requests`,
`Eval` and `Fails`:

| Theorem | Says |
|---|---|
| `TypeCorrect` | `TypeOK` is an invariant: objects keep their widths, memories their shape, passes their bound |
| `ChangeIsTracked` | `TrackedChange` is an invariant |
| `SettleEndsAtFixedPoint` | a settle that stops does so on the frame its last pass started from, and resolving the nets leaves that frame |
| `ObjectsWait` | `ObjectsWaitForCommit` is an invariant |
| `FailureKeepsObjects` | a call that returns before its commit leaves the objects as it found them |

They hold of any client: their lemmas are about `AnySpec`, in which every call
may follow every other, whatever its arguments are, and `Spec`, with the calls of
`Requests`, is a case of it (`SpecIsAny`).  That is what lets them be lifted to a
suite below.

Assumptions: `CodeAssumption` and `DesignAssumption` (branches of statements
are statements, tables are finite lists of the design's own names, a child's
parent lists it), `HierarchyAssumption` (every instance but the top one is a
child of its parent, and every set of such instances has one whose parent is
not in it: instances are a tree; the clocks of an instance are those of its
blocks, and an object is a variable or a net of one of the kinds of
`net_resolve.rs`), `ChildrenAssumption` (a parent lists a child once, and nobody the top) and `BudgetAssumption` (a sum of lengths is a natural number).
They are what the types of `ModuleState` and `ModuleSummary` and
`instantiate_module_state` guarantee, and TLC evaluates them for every design
of the runs.  Nothing is assumed of `Eval`: its result is coerced wherever it
is stored, which is why widths are safe.

The argument: `TypeOK` is not inductive, since what an action does depends on
the head of `todo` and on locals `TypeOK` does not mention.  `IInv` adds

- `SettleInv`: in a settle, `todo` is a sequence of items a settle pushes, each
  naming an instance and a statement, child, driver or sink of the design, and
  `frame` gives every object a value of its width;
- `StepInv`: in a step, `todo` is a sequence of items a step pushes, in which
  only the work of one instance lies between its "open" and its "close"
  (`IsLinked`); `next` gives every object a value of its width; and while an
  instance is open, the sampled clocks and staged memories have the shape of its
  tables (`OwnTables`);
- that `todo` is empty between calls, and the properties `TrackedChange` and
  `ObjectsWaitForCommit` themselves.

`InitHolds` and `NextPreserves` are the two halves of the induction; the latter
has a lemma per action or group of like actions.  Lemmas on `Coerce`, `Slice`,
`ReplaceSlice`, on pushing work and on resolving nets carry the details.
`FailureKeepsObjects` follows from the invariant and from the guards: the only
actions that end a call are `Reply` and `Fail`, and neither writes `persisted`.

Six modules build on it.

| Module | Theorem | Says |
|---|---|---|
| `StepProofs` | `ClocksAreSampled` | `EveryClockSampled` holds of every step |
| `StepProofs` | `StateOnEdges` | `StateChangesOnEdges` holds of every step, of a design with `WholeViews` |
| `ProtocolProofs` | `SessionKeepsProtocol` | `Spec => KeepsProtocol`: a session implements `Protocol` |
| `SettleProofs` | `NetsSettle` | when a settle ends, every net is the resolution of the set of its drivers, as `Wiring` defines it bit by bit |
| `SettleProofs` | `ConnectionsDeliver` | `ConnectionsSettle` is an invariant of a design with `FittingTargets` |
| `AssignProofs` | `AssignsHold` | `AssignsSettle` is an invariant of a design with `FittingTargets` and `SingleWriters` |
| `BlockProofs` | `BlocksHold` | `BlocksSettle` is an invariant of a design with `FittingTargets` and `SingleWriters` |
| `HarnessProofs` | `SuitesKeepInvariants` | the invariants above hold of the session of any suite |
| `HarnessProofs` | `SuitesKeepProtocol`, `SuitesOnEdges` | so does the protocol, and state changes on edges |
| `HarnessProofs` | `SuitesSettle` | and so do the four results on what a settle ends with, under the same two hypotheses |
| `HarnessProofs` | `SuitesWriteInSteps` | `WritesInSteps` holds of every suite and every design |
| `HarnessProofs` | `AddressesRunOn` | the addresses the parser of a memory file counts are those the lines say |

`StepProofs`, on clocks: that all instances have been sampled when a step commits is a
fact about the whole walk, and `todo` holds only what is left of it.  `WalkInv`
ties the two (`Reaches`): there is a set `Below` whose members have a parent in
`Below` or waiting to be entered, and every instance outside it waits itself or has
its levels sampled.  When `todo` is empty, `Below` holds the parent of each of its
members, so that by `HierarchyAssumption` it is empty and all are sampled.
That a visit samples all clocks of its instance is `SamplesClocks`: a clock is
sampled already or a block that samples it is still to run.

`StepProofs`, on edges: an object that differs in `next` was written by a block that has
seen an edge (`SawEdgeOf`), and what an instance has staged while it is open was
staged by such a block (`StagedOnEdge`).  `EdgeInv` needs of every statement
that waits that its block has seen an edge and may write what the statement
writes (`Justified`), which follows `WriteSets` from a statement to its branches.
The delicate step is `SyncName`, which writes back names that no block has
staged: that this leaves the object alone is true only if the name sees the
object whole, the hypothesis `WholeViews`.  Run `narrow` shows what happens
without it, finding 2; the designs of `pipe` and `ram`, where TLC checks the
property, satisfy it (an `ASSUME` of `MCPipe` and `MCRam`).

`ProtocolProofs`: the refinement mapping reads the place of a step off its
stack.  Still to be entered are the instances that wait for it and all below
them (`ToEnter`); left are those that are neither that nor waiting for their
"close" (`Left`).  `OrderInv` says that each instance has one turn on the stack
at most, that none waits below one that waits to be entered, and that the children of
one that waits to be left are left or have their turn before.  Entering an
instance hands its place to its children, with its "close" behind them, and
`StartIsOrdered` and `EnterKeepsOrder` need for this that instances are a tree
and children are listed once.  Then each action is a step of `Protocol` or a
stutter: `BeginMaps`, `LoadMaps`, `BeginStepMaps`, `CloseMaps`, `CommitMaps`,
`ReturnMaps`, and `InsideIsNoStep`, `OutsideIsNoStep` for all others.

`SettleProofs`, on nets: `ResolveNet` compares strengths and collects drivers in
a fold over four kinds of strength; every driver the runtime stages is strong
(`DriversAreStrong`), and of strong drivers only the set of bits counts
(`StrongBit`), which is what `Wiring` says.  A settle that ends does so on a frame
that resolving leaves alone, so that its nets are already what its drivers make
of them.

`SettleProofs`, on connections: a pass that reports no change has left the frame
alone (`QuietMove`), so that what a connection delivered earlier in it was computed from
the values the settle ends with.  `ConnectInv` says that as long as a pass has
reported no change, each connection waits on the stack or has delivered, but for
those of instances in a set `B` the pass has not come to, each of which has its
parent in `B` or waiting (`Pending`).  Each action keeps this: it takes one item off
the stack, pushes what that item stands for, and if it changes nothing has
delivered it (`ConnectPreserves`).  A staged driver stays staged, save where
a signal replaces it.  With an empty stack `B` holds the parent of each of its
members and is empty, as above.  That delivering to a view and finding nothing to
change means that the view has the bits needs that targets lie within their
signals, `FittingTargets`; the designs of `bus` and `comb` satisfy it (an `ASSUME` of
`MCBus` and `MCComb`).

`AssignProofs`: an assignment writes the overlay, not the frame, so that it has
delivered only once the overlay is committed, and what it has read was the
overlay too.  Two facts tie this to the frame.  The work of an instance is in order
on the stack (`OrderInv`): the leaves of its assignments, its blocks, its commit, with
no other instance's between, and leaves that wait are of different bits.  And as long
as a pass has reported no change (`OverlayInv`), the overlay has, while an assignment
waits, the frame's values of all signals but the assigned variables, and of these
the frame's bits where they are still to be assigned; what is committed is in the
frame.  Then either a variable of the overlay differs from the frame: the
difference is in bits that no later leaf writes, so that it lasts until the
commit, which reports a change (`Differs`, `LeafDiffers`); or the overlay is the frame, so
that the expression had the value it has under the frame, and its leaf has found
its bits there (`ExecuteAssigns`, `LeafAssigned`).  `AssignInv` says this of every
instance but those in a set `B` ahead of the pass, as for connections.

It needs `SingleWriters`: a bit of a variable is assigned once, and no block or child
drives that variable; one that is bound to a net is an output that replaces the
net's drivers.  SystemVerilog asks the first two of a design and svsim does not
check them; without them there may be no values that satisfy all, and the last
to write wins.  The designs of `bus` and `comb` satisfy it, by the same `ASSUME`.

`BlockProofs`: what a pass does with a block is compared with the run of it that
`Wiring` defines on the frame.  As long as a pass has reported no change (`BlockInv`),
of each block of an instance that commits one of these is true (`BlockOK`): it waits,
and the overlay has the frame's values of its signals; it runs, and the work on the
stack and the values it sees are those of some step of its run (`Running`); its run
has ended with what the frame has (`HasSettled`); or one of its signals differs from the frame
and nothing is left on the stack that writes it (`BlockDiffers`).  The last two stay
so until the commit, which in the last case reports a change.  The start of a
block needs that the overlay is the frame at that moment, which `AssignInv` gives for
assigned variables and `SignalsInv` for all others, or else that something
differs already.  That a step of the pass and one of the run do the same
(`Executed`) is so because every expression is evaluated on the overlay over the
frame, which the run has as its table.

It needs of a block what `SingleBlocks` says, which SystemVerilog asks of
`always_comb`: other blocks that write its signals, and children that drive
them, leave no values that suit all.  A block that writes a net is left out:
it stages a driver, which `SettledIsSolution` covers.  `ClientsSettle` has the
four results for every client, `BlocksHold` for the calls of `Requests`, and
`SuitesSettle` for the suites of the harness: the outputs a suite compares are those of a
frame in which every connection, assignment and block holds.

`HarnessProofs`: a step of the harness that is not a step of the session submits
a call, loads a memory or leaves the session alone, so that `HarnessSpec` implements
`AnySpec` (`HarnessIsClient`) and what holds of any client holds of a suite.  For
`WritesInSteps`, `AsksInStages` says that the harness waits for each call, and
that a step is only ever asked for in two stages of a sequential suite;
then `SessionWrites` and `LoadsBetween` say which steps of a session write it.
`AddressesRunOn` is about a recursive function over the lines and needs no
induction: the solution is exhibited, and is the only one that the recursion
admits, by the least line where another would differ.  Its hypothesis, that an
address a line names is a natural number, is what parsing it yields.

`CompilerProofs` proves of the loader, for every disk, search path and call:

| Theorem | Says |
|---|---|
| `DuplicatesReal` | `DuplicatesAreReal` is an invariant of `LoadSpec`: a file is never read against itself |
| `ConventionalLoads` | `ConventionLoads` is an invariant of `LoadSpec`: a library of one module to a file is loaded without duplicates, and each instantiation gets the module of the file it leads to |

Assumption: `LoaderAssumption`, that canonical paths lead to texts and that
modules and instances of a text are sequences, of whatever length.  `LoadSpec`
is the part of a compilation before validation, which does not write these
variables.

The argument: `DuplicatesAreReal` is not inductive, since why a pending file was
not registered before is only known from when it became pending.  `LoadInv` adds
that the pending files and the registered ones are different paths, all of them
in `seen` (`Separate`).  `ConventionInv` adds, of a conventional library,
`LibraryInv`: every registered file has one module, named like it, as every name
in `provided`; every path in `seen` is pending or registered; and what an
instantiation before the cursor leads to is in `seen`.  When nothing is pending
any more, what was seen is registered, under the name that was looked for.

And of a compilation, for every disk, search path and call, and for every
`Passes`, `Fits`, `Values`, `HasAll` and `Refuses`:

| Theorem | Says |
|---|---|
| `ElaborationIsFinite` | `CompiledElaborates` is an invariant: elaboration meets no cycle and no missing module in what validation let pass |
| `OnlyValidated`, `NoneLeftOut` | `HierarchyValidated` and `HierarchyWhole` are invariants, if the instances of a module that passes have names of their own |
| `CompilationLoads` | `DuplicatesAreReal` and `ConventionLoads` hold throughout a compilation, whose later steps leave alone what was loaded |

Assumption: `LoaderAssumption`; and for the hierarchy that what `Passes` lets pass
is `NamedApart`, which is `validate_unique_instance_names` and which TLC evaluates for
every module on the disks of `compile` (an `ASSUME` of `MCCompiler`).

The argument: elaboration refuses a module that is on its own path, so it must
be shown that no path of instances of a validated design meets a module twice.
`CompilerInv` says that the modules in `validated` are *grounded*: they
instantiate validated modules only, and every set of them has one that
instantiates none of the set.  So a chain of instances of validated modules,
which the frames of elaboration are (`Chained`), meets no module twice: the
modules between the two places would be a set without such a member.  In
validation the modules of the frames are distinct and not validated yet, and the
instances they have passed are of validated modules or of the next frame's
(`Entered`); what the two loops of `validate_design` have passed is validated, or is
where the frames begin (`Visited`).

For the hierarchy, `ChecksInv` says that whatever is validated is `Sound`: the module
passes and its instances fit, those of the frames up to their place.  So what
elaboration takes from a validated module was let pass, whichever way validation
came to it.  `TreeInv` says of the tree that each entry stands in its parent's
(`ElaboratedAt`); and while it grows (`Growing`) that a frame is at an instance of its
module whose elaborated children it has passed (`FrameAt`), that no two frames are
at one path, and that a child that is not there is ahead of a frame at its parent
(`Due`).  The delicate point is that nothing is overwritten: the path of the
instance a frame looks at is new (`PathIsNew`), since an entry at it would be a
child of the frame's instance, with the name of one that the frame has passed.
When the last frame is left, nothing is ahead of any, so nothing is missing.

Only model-checked, and why:

- `SettledIsSolution`: `Netlist` runs blocks by a recursive operator.  Its parts
  about connections, nets, continuous assignments and blocks with signals of their
  own are proved, `ConnectionsDeliver`, `AssignsHold` and `BlocksHold`; that they
  are all a net is driven by, and blocks that drive nets, are not.
- `SettlesInBudget`: the budget does not suffice for every design (finding 1).
- `CallsReturn`, `CompilationEnds`: liveness.
- `ShiftsTogether`: a refinement of one design.  What of it holds of all is in
  `KeepsProtocol` and `StateChangesOnEdges`.
- all of `BitRegister` and `LogicRegister`, whose operators recur over limbs and
  bits, so that each fact about them is an induction over data; likewise the
  facts about expressions and statements (`Validator`, `Exprs`, `Lowering`,
  `Statements`).
- `ElaboratedInstantiates`, `FrozenStaysTrue`: about `Layout` and constant
  evaluation, recursive operators; `CompilerProperties` keeps them apart from
  `Compiler` for that reason.
- `BindingsHold`: what the bindings say is collected and flattened by recursion
  over instances and lines.
- `TraceAgrees`, `ReportsTheDesign`: about one design and its suites.

## Not modelled

- The rest of the frontend: declarations, ports, ranges, literals, `case` and
  concatenations are copied from the syntax tree of the `sv-parser` library to
  the HIR node by node; `initial` and `always` blocks and loop headers that are
  not in the subset are refused.  What decides something there, constants,
  branches, places and loops, is modelled.  The models of `compile` start from
  HIR modules and the constructs that were evaluated.
- The batch runner of `compiler.rs` and of the harness: it compiles, or runs,
  each file of a directory with a compiler of its own and counts.  JSON text.
- `sim/legacy_rom.rs`: one hard-wired module; planned.
- The CLI, the render crate and the corpus; support types; serialisation other
  than that of values; the text of messages.
- Strengths below strong in a session: `NetResolve` has them, but no driver of
  the runtime has another than the strong one.

## Plan

Done: `FourState`, `NetResolve`, `Hir`, `Expr`, `Layout`, `Session`, its
properties, runs and first theorems; `BitValue` and `LogicMasks` with their
registers; `Loader` with its theorems, `Validator`, `Parameters`, `Compiler`;
`Exprs`, `Lowering`, `Statements`; `MemoryFile`, `JsonHarness` over `TestCycles`.

The proofs about sessions and compilations described above.

Next, in this order:

1. Proofs: blocks that drive nets, so that `SettledIsSolution` is proved whole;
   `BindingsHold`, with the collection of bindings restated without recursion.
2. `AtomicSession`: a session whose calls are single steps, over abstract
   settle and edge functions, with `Session` shown to implement it.
3. The built-in ROM branch; a design with a divided clock, one with a transient
   memory index; `NetResolve` with all strengths against a reference.
