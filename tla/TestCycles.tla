----------------------------- MODULE TestCycles -----------------------------
(***************************************************************************)
(* What the author of a JSON suite has in mind: the design under test is a *)
(* machine of which, in a clocked suite, a step with its clock high is one *)
(* cycle and any other step none.  Its outputs after a step depend on its  *)
(* state and the step's inputs, and a case passes when every step of it    *)
(* had the outputs that were expected.                                     *)
(***************************************************************************)
EXTENDS Naturals, Sequences

CONSTANTS
  Plans,            \* kinds of suite and what they load, [clocked, ...]
  Start,            \* state of the machine before the first step
  Inputs,           \* the inputs of a step
  Expected,         \* the expectations of a step
  IsCycle(_),       \* the clock of the inputs is high
  After(_, _, _),   \* state after a cycle
  Accepts(_, _, _)  \* an expectation holds in a state, with the inputs

VARIABLES
  plan,     \* what the suite sets up before the first step
  state,   \* of the machine
  inputs,  \* of the running step, or NoInputs
  done,    \* the running step has taken its cycle, if it has one
  count,   \* steps of the running case
  bad,     \* an expectation of the running case did not hold
  verdicts \* of the completed cases

vars == <<plan, state, inputs, done, count, bad, verdicts>>

NoInputs == <<>>

Init ==
  /\ plan \in Plans
  /\ state = Start
  /\ inputs = NoInputs /\ done = FALSE /\ count = 0 /\ bad = FALSE /\ verdicts = <<>>

Step(x) ==
  /\ inputs = NoInputs
  /\ inputs' = x
  /\ UNCHANGED <<plan, state, done, count, bad, verdicts>>

Cycle ==
  /\ inputs # NoInputs /\ ~done
  /\ done' = TRUE
  /\ state' = IF plan.clocked /\ IsCycle(inputs) THEN After(plan, state, inputs) ELSE state
  /\ UNCHANGED <<plan, inputs, count, bad, verdicts>>

Check(e) ==
  /\ inputs # NoInputs /\ done
  /\ inputs' = NoInputs /\ done' = FALSE
  /\ count' = count + 1
  /\ bad' = (bad \/ ~Accepts(e, state, inputs))
  /\ UNCHANGED <<plan, state, verdicts>>

Close ==
  /\ inputs = NoInputs
  /\ verdicts' = Append(verdicts, [steps |-> count, passed |-> ~bad])
  /\ count' = 0 /\ bad' = FALSE
  /\ UNCHANGED <<plan, state, inputs, done>>

Next == (\E x \in Inputs : Step(x)) \/ Cycle \/ (\E e \in Expected : Check(e)) \/ Close

Spec == Init /\ [][Next]_vars
=============================================================================
