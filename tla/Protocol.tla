------------------------------ MODULE Protocol ------------------------------
(***************************************************************************)
(* What calls do to a session, whatever the design: which of its parts a   *)
(* call may write, when, and in what order.  A call settles, and one that  *)
(* is no step writes nothing.  A step then takes the levels of all clocks  *)
(* at one moment, leaves every instance once, after the instances below    *)
(* it, with those levels sampled, and commits the objects when it has left *)
(* them all.  A call may return at any moment, and returning changes       *)
(* nothing.                                                                *)
(***************************************************************************)

CONSTANTS
  Instance, \* the instances of the design
  Below,    \* instance -> its children
  Clocks,   \* instance -> the clocks and resets it watches
  None      \* no levels

VARIABLES
  objects,  \* the values of the objects
  memories, \* instance -> its memories
  clocks,   \* instance -> clock -> the level sampled last
  stage,    \* where the call in progress is, "idle" between calls, "ask"
            \* in one that is no step
  levels,   \* instance -> clock -> the level the step has settled
  left      \* the instances the step has left

session == <<objects, memories, clocks>>
vars    == <<session, stage, levels, left>>

OnlyMemoriesOf(i) == \A j \in Instance \ {i} : memories'[j] = memories[j]

Init ==
  /\ clocks = [i \in Instance |-> [c \in Clocks[i] |-> FALSE]]
  /\ stage = "idle" /\ levels = None /\ left = {}

Call ==
  /\ stage = "idle"
  /\ stage' \in {"ask", "settle"}
  /\ UNCHANGED <<session, levels, left>>

\* Words are loaded into a memory.
Load(i) ==
  /\ stage = "idle"
  /\ OnlyMemoriesOf(i)
  /\ UNCHANGED <<objects, clocks, stage, levels, left>>

Edge ==
  /\ stage = "settle"
  /\ stage' = "step"
  /\ \A i \in Instance : levels'[i] \in [Clocks[i] -> BOOLEAN]
  /\ UNCHANGED <<session, left>>

Leave(i) ==
  /\ stage = "step"
  /\ i \notin left /\ Below[i] \subseteq left
  /\ left' = left \cup {i}
  /\ clocks' = [clocks EXCEPT ![i] = levels[i]]
  /\ OnlyMemoriesOf(i)
  /\ UNCHANGED <<objects, stage, levels>>

\* The objects may take any value.
Commit ==
  /\ stage = "step" /\ left = Instance
  /\ stage' = "resettle" /\ levels' = None /\ left' = {}
  /\ UNCHANGED <<memories, clocks>>

\* An answer or an error.
Return ==
  /\ stage # "idle"
  /\ stage' = "idle" /\ levels' = None /\ left' = {}
  /\ UNCHANGED session

Next == Call \/ Edge \/ Commit \/ Return \/ \E i \in Instance : Load(i) \/ Leave(i)

Spec == Init /\ [][Next]_vars
=============================================================================
