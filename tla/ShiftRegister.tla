--------------------------- MODULE ShiftRegister ---------------------------
(***************************************************************************)
(* What a caller of step sees of a chain of flip-flops on one clock: on a  *)
(* rising clock every stage takes, at once, what the stage before it held  *)
(* before the edge.  A call is its beginning, its one clock tick if it is  *)
(* a step, and its answer.                                                 *)
(***************************************************************************)
EXTENDS Naturals, Sequences

CONSTANTS
  Requests,    \* the calls
  NoCall,      \* no call in progress
  Zero,        \* the initial value of a stage
  IsHigh(_),   \* the clock of a call is high
  DataOf(_)    \* the data input of a call

VARIABLES
  stages,  \* values of the flip-flops, first to last
  high,    \* clock level of the last step
  pending, \* the call in progress
  ticked,  \* its clock tick has happened
  output   \* the last stage, as the last eval or step reported it

vars == <<stages, high, pending, ticked, output>>

Init ==
  /\ stages = <<Zero, Zero, Zero>>
  /\ high = FALSE /\ pending = NoCall /\ ticked = FALSE /\ output = Zero

Begin(r) ==
  /\ pending = NoCall
  /\ pending' = r
  /\ UNCHANGED <<stages, high, ticked, output>>

Tick ==
  /\ pending # NoCall /\ pending.op = "step" /\ ~ticked
  /\ stages' = IF IsHigh(pending) /\ ~high
               THEN <<DataOf(pending), stages[1], stages[2]>>
               ELSE stages
  /\ high' = IsHigh(pending)
  /\ ticked' = TRUE
  /\ UNCHANGED <<pending, output>>

Answer ==
  /\ pending # NoCall
  /\ pending.op = "step" => ticked
  /\ output' = stages[3]
  /\ pending' = NoCall /\ ticked' = FALSE
  /\ UNCHANGED <<stages, high>>

Next == (\E r \in Requests : Begin(r)) \/ Tick \/ Answer

Spec == Init /\ [][Next]_vars
=============================================================================
