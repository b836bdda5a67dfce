---------------------------- MODULE JsonHarness ----------------------------
(***************************************************************************)
(* A JSON suite run on a session (test.rs): its memory files are loaded,   *)
(* then its cases run one after the other on the same session, each a      *)
(* sequence of steps or, in a combinational suite, one evaluation.  The    *)
(* outputs of a step are compared with what the step expects, and signals  *)
(* of a trace are read after it.  Any error of the session ends the suite. *)
(*                                                                         *)
(* The cases and steps of a suite are chosen as it runs: a suite may be    *)
(* any sequence of them, up to the bounds MaxCases and MaxSteps.           *)
(***************************************************************************)
EXTENDS Session, MemoryFile

LOCAL INSTANCE SequencesExt

CONSTANTS
  Suites,       \* the suites: [kind, bindings, trace]
  TestInputs,   \* the inputs a step may have
  Expectations, \* what a step may expect: output -> pattern
  MaxCases,     \* bound: cases of a suite
  MaxSteps,     \* bound: steps of a case
  Modules,      \* instance -> the name of its module
  Paths         \* instance -> its path, a sequence of instance names

VARIABLES
  suite,   \* the suite
  stage,   \* what the harness does next, or how the suite has ended
  toBind,  \* memory bindings still to apply
  toLoad,  \* memories the current binding has still to load
  test,    \* inputs of the running step
  actual,  \* outputs of the running step
  toTrace, \* signals of the trace still to read
  trace,   \* values read for the step, as [signal, value]
  steps,   \* steps of the running case that are complete
  failing, \* a comparison of the running case has failed
  report   \* completed cases, each [steps, passed]

harness == <<suite, stage, toBind, toLoad, test, actual, toTrace, trace, steps, failing, report>>
running == <<call, before, phase, todo, settling, stepping>>
all     == <<vars, harness>>

Stages == {"bind", "ready", "low", "step", "trace", "tracing", "aborted", "reported"}

-----------------------------------------------------------------------------
(* Memory bindings: [module, suffix, memory, file], with "" or <<>> for a    *)
(* part that is not given; a file is the sequence of its lines.              *)

\* collect_matching_instances visits an instance before its children.
Visited[i \in Instance] ==
  <<i>> \o FlattenSeq([k \in 1..Len(Design[i].children) |-> Visited[Design[i].children[k]]])

\* A dotted path ends with the suffix, at a dot.
MatchesInstance(binding, i) ==
  /\ binding.module \in {"", Modules[i]}
  /\ IsSuffix(binding.suffix, Paths[i])

MatchingInstances(binding) ==
  SelectSeq(Visited[Top], LAMBDA i : MatchesInstance(binding, i))

\* The memories of one instance that a binding names, all where it names none;
\* Missing where the instance has none to load.
Missing == [inst |-> Top, memory |-> ""]

LoadsOf(binding, i) ==
  IF binding.memory # "" THEN <<[inst |-> i, memory |-> binding.memory]>>
  ELSE IF DOMAIN Design[i].memories = {} THEN <<Missing>>
  ELSE SetToSeq({[inst |-> i, memory |-> m] : m \in DOMAIN Design[i].memories})

\* load_memory_file reads the file for the width and depth of the memory.
FileOf(load, file) ==
  LET request == [op |-> "file", inst |-> load.inst, memory |-> load.memory]
  IN  IF load.memory \notin DOMAIN Design[load.inst].memories
      THEN request @@ [parsed |-> FALSE, writes |-> <<>>]
      ELSE LET decl == Design[load.inst].memories[load.memory]
           IN  IF Parses(file, decl.depth)
               THEN request @@ [parsed |-> TRUE, writes |-> WritesIn(file, decl.width)]
               ELSE request @@ [parsed |-> FALSE, writes |-> <<>>]

-----------------------------------------------------------------------------
HarnessInit ==
  /\ Init
  /\ suite \in Suites
  /\ stage = "bind" /\ toBind = suite.bindings /\ toLoad = <<>>
  /\ test = Nothing /\ actual = Nothing /\ toTrace = <<>> /\ trace = <<>>
  /\ steps = 0 /\ failing = FALSE /\ report = <<>>

\* The caller's thread waits for a call to return.
Returned == call = Idle

\* Any error ends the suite, and its report is lost.
Abort ==
  /\ stage' = "aborted"
  /\ UNCHANGED <<suite, toBind, toLoad, test, actual, toTrace, trace, steps, failing, report>>

\* apply_memory_bindings: the next binding, whose file goes into the memories
\* of every instance that matches; none is an error.
ApplyBinding ==
  /\ stage = "bind" /\ toLoad = <<>> /\ toBind # <<>>
  /\ LET matches == MatchingInstances(Head(toBind))
     IN  IF matches = <<>> THEN Abort
         ELSE /\ toLoad' = FlattenSeq([k \in 1..Len(matches) |->
                                         LoadsOf(Head(toBind), matches[k])])
              /\ UNCHANGED <<suite, stage, toBind, test, actual, toTrace, trace, steps, failing,
                             report>>
  /\ UNCHANGED vars

LoadMemory ==
  /\ stage = "bind" /\ toLoad # <<>>
  /\ Load(FileOf(Head(toLoad), Head(toBind).file))
  /\ IF ~result'.ok THEN Abort
     ELSE /\ toLoad' = Tail(toLoad)
          /\ toBind' = IF Tail(toLoad) = <<>> THEN Tail(toBind) ELSE toBind
          /\ UNCHANGED <<suite, stage, test, actual, toTrace, trace, steps, failing, report>>

Bound ==
  /\ stage = "bind" /\ toBind = <<>>
  /\ stage' = "ready"
  /\ UNCHANGED <<vars, suite, toBind, toLoad, test, actual, toTrace, trace, steps, failing, report>>

-----------------------------------------------------------------------------
(* One step. *)

Ask(op, inputs) == [op |-> op, inputs |-> inputs, two |-> FALSE]
Submit(r) == Begin(r) \/ Refuse(r)

\* The step's input clk is known, and not zero.
ClockIsHigh(inputs) ==
  "clk" \in DOMAIN inputs /\ IsTwoState(inputs["clk"]) /\ ToNat(inputs["clk"]) # 0

WithLowClock(inputs) == [inputs EXCEPT !["clk"] = <<"0">>]

MayRun(limit) == stage = "ready" /\ Len(report) < MaxCases /\ steps < limit

\* Fault: a step with its clock high is one step of the session.
RunStepOnce(inputs) ==
  /\ suite.kind = "sequential" /\ MayRun(MaxSteps)
  /\ test' = inputs
  /\ Submit(Ask("step", inputs)) /\ stage' = "step"
  /\ UNCHANGED <<suite, toBind, toLoad, actual, toTrace, trace, steps, failing, report>>

\* run_sequential_step: a step with its clock high is one cycle, and the clock
\* is sampled low before it is sampled high.
RunStep(inputs) ==
  /\ suite.kind = "sequential" /\ MayRun(MaxSteps)
  /\ test' = inputs
  /\ IF ClockIsHigh(inputs)
     THEN Submit(Ask("step", WithLowClock(inputs))) /\ stage' = "low"
     ELSE Submit(Ask("step", inputs)) /\ stage' = "step"
  /\ UNCHANGED <<suite, toBind, toLoad, actual, toTrace, trace, steps, failing, report>>

LowDone ==
  /\ stage = "low" /\ Returned
  /\ IF result.ok
     THEN /\ Submit(Ask("step", test)) /\ stage' = "step"
          /\ UNCHANGED <<suite, toBind, toLoad, test, actual, toTrace, trace, steps, failing, report>>
     ELSE Abort /\ UNCHANGED vars

\* Fault: a case is a step of the session.
RunCaseByStep(inputs) ==
  /\ suite.kind = "combinational" /\ MayRun(1)
  /\ test' = inputs
  /\ Submit(Ask("step", inputs)) /\ stage' = "step"
  /\ UNCHANGED <<suite, toBind, toLoad, actual, toTrace, trace, steps, failing, report>>

\* run_combinational: one evaluation, on the session of all cases.
RunCase(inputs) ==
  /\ suite.kind = "combinational" /\ MayRun(1)
  /\ test' = inputs
  /\ Submit(Ask("eval", inputs)) /\ stage' = "step"
  /\ UNCHANGED <<suite, toBind, toLoad, actual, toTrace, trace, steps, failing, report>>

StepDone ==
  /\ stage = "step" /\ Returned
  /\ IF result.ok
     THEN /\ stage' = "trace" /\ actual' = result.values
          /\ toTrace' = suite.trace /\ trace' = <<>>
          /\ UNCHANGED <<suite, toBind, toLoad, test, steps, failing, report>>
     ELSE Abort
  /\ UNCHANGED vars

-----------------------------------------------------------------------------
(* The trace: a signal is [inst, name]; an output of the top module has the   *)
(* value the step returned, any other is read from its instance.              *)

IsOutput(signal) == signal.inst = Top /\ signal.name \in DOMAIN actual

Record(value) ==
  /\ toTrace' = Tail(toTrace)
  /\ trace' = Append(trace, [signal |-> Head(toTrace), value |-> value])

TraceOutput ==
  /\ stage = "trace" /\ toTrace # <<>>
  /\ LET signal == Head(toTrace)
     IN  \/ /\ IsOutput(signal)
            /\ Record(actual[signal.name])
            /\ UNCHANGED <<suite, stage, toBind, toLoad, test, actual, steps, failing, report>>
         \/ /\ signal.inst = Top /\ ~IsOutput(signal)
            /\ Abort
  /\ UNCHANGED vars

SignalRead(signal, inputs) ==
  [op |-> "read", inputs |-> inputs, two |-> FALSE, inst |-> signal.inst, name |-> signal.name]

\* Fault: the signal is read without the step's inputs.
TraceWithoutInputs ==
  /\ stage = "trace" /\ toTrace # <<>> /\ Head(toTrace).inst # Top
  /\ Submit(SignalRead(Head(toTrace), [n \in {} |-> <<>>]))
  /\ stage' = "tracing"
  /\ UNCHANGED <<suite, toBind, toLoad, test, actual, toTrace, trace, steps, failing, report>>

TraceSignal ==
  /\ stage = "trace" /\ toTrace # <<>> /\ Head(toTrace).inst # Top
  /\ Submit(SignalRead(Head(toTrace), test))
  /\ stage' = "tracing"
  /\ UNCHANGED <<suite, toBind, toLoad, test, actual, toTrace, trace, steps, failing, report>>

SignalTraced ==
  /\ stage = "tracing" /\ Returned
  /\ IF result.ok
     THEN /\ Record(result.values) /\ stage' = "trace"
          /\ UNCHANGED <<suite, toBind, toLoad, test, actual, steps, failing, report>>
     ELSE Abort
  /\ UNCHANGED vars

-----------------------------------------------------------------------------
(* Comparison and report. *)

\* LogicPattern::matches on vectors of bits; "-" is a wildcard.
MatchesPattern(pattern, value) ==
  Len(pattern) = Len(value) /\ \A k \in 1..Len(value) : pattern[k] \in {"-", value[k]}

\* compare_outputs
Failures(expected, outputs) ==
  {n \in DOMAIN expected : n \notin DOMAIN outputs \/ ~MatchesPattern(expected[n], outputs[n])}

Compare(expected) ==
  /\ stage = "trace" /\ toTrace = <<>>
  /\ stage' = "ready"
  /\ steps' = steps + 1
  /\ failing' = (failing \/ Failures(expected, actual) # {})
  /\ test' = Nothing /\ actual' = Nothing /\ trace' = <<>>
  /\ UNCHANGED <<vars, suite, toBind, toLoad, toTrace, report>>

\* A sequential case may have no steps at all.
CloseCase ==
  /\ stage = "ready" /\ Len(report) < MaxCases
  /\ suite.kind = "combinational" => steps = 1
  /\ report' = Append(report, [steps |-> steps, passed |-> ~failing])
  /\ steps' = 0 /\ failing' = FALSE
  /\ UNCHANGED <<vars, suite, stage, toBind, toLoad, test, actual, toTrace, trace>>

Report ==
  /\ stage = "ready" /\ steps = 0
  /\ stage' = "reported"
  /\ UNCHANGED <<vars, suite, toBind, toLoad, test, actual, toTrace, trace, steps, failing, report>>

-----------------------------------------------------------------------------
HarnessNext ==
  \/ ApplyBinding \/ LoadMemory \/ Bound
  \/ \E inputs \in TestInputs : RunStep(inputs) \/ RunCase(inputs)
  \/ LowDone \/ StepDone
  \/ TraceOutput \/ TraceSignal \/ SignalTraced
  \/ \E expected \in Expectations : Compare(expected)
  \/ CloseCase \/ Report
  \/ Work /\ UNCHANGED harness

HarnessSpec == HarnessInit /\ [][HarnessNext]_all

-----------------------------------------------------------------------------
\* A traced signal that shares its object with an output shows what the output
\* shows, although it is read in a settle of its own (read_signal).
TraceAgrees ==
  stage = "trace" =>
    \A k \in 1..Len(trace), n \in TopOutputs :
      Binding(trace[k].signal.inst, trace[k].signal.name) = Binding(Top, n) =>
        trace[k].value = actual[n]

\* A suite writes the memories of its session when it binds them, and the
\* session otherwise in the steps of a sequential suite only: neither reading a
\* trace nor a case of a combinational suite leaves anything to what follows.
WritesInSteps ==
  [][\/ UNCHANGED session
     \/ stage = "bind" /\ UNCHANGED <<persisted, clocks>>
     \/ stage \in {"low", "step"} /\ suite.kind = "sequential"]_all

\* What the bindings of a suite say of a word: the last line of the last of
\* those that name its memory and its address, or zero.
Covers(binding, i, m) ==
  /\ binding.module \in {"", Modules[i]}
  /\ binding.memory \in {"", m}
  /\ \E j \in 0..Len(Paths[i]) : binding.suffix = SubSeq(Paths[i], j + 1, Len(Paths[i]))

\* A line is as many words after the last address named as there are lines.
AddressOf(lines, k) ==
  LET named == {j \in 1..k : HasAddress(lines[j])}
  IN  IF named = {} THEN k - 1 ELSE Named(lines[Max(named)]) + k - Max(named)

LinesAt(lines, address) == {n \in 1..Len(lines) : AddressOf(lines, n) = address}

BoundWord(bindings, i, m, address) ==
  LET hits == {k \in 1..Len(bindings) :
                 Covers(bindings[k], i, m) /\ LinesAt(bindings[k].file, address) # {}}
  IN  IF hits = {} THEN ZeroOf(Design[i].memories[m].width)
      ELSE LET lines == bindings[Max(hits)].file
           IN  WordOf(lines[Max(LinesAt(lines, address))], Design[i].memories[m].width)

\* A suite that gets to its first step has every memory as its bindings say,
\* whichever instances they matched and in whatever order they were loaded.
BindingsHold ==
  stage = "ready" =>
    \A i \in Instance : \A m \in DOMAIN memories[i] : \A a \in DOMAIN memories[i][m] :
      memories[i][m][a] = BoundWord(suite.bindings, i, m, a)
=============================================================================
