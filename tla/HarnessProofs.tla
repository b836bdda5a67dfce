--------------------------- MODULE HarnessProofs ---------------------------
(***************************************************************************)
(* A suite is a client of its session like any other, so that what is      *)
(* proved of sessions holds under JsonHarness; and it writes what the      *)
(* session remembers in its steps only.                                    *)
(***************************************************************************)
EXTENDS BlockProofs, ProtocolProofs, JsonHarness

-----------------------------------------------------------------------------
(* Suites and sessions. *)

\* A step of a harness is one of its session, or leaves the session alone.
LEMMA HarnessSteps == [HarnessNext]_all => [AnyNext]_vars
<1> SUFFICES ASSUME [HarnessNext]_all PROVE [AnyNext]_vars
  OBVIOUS
<1>1. CASE ApplyBinding \/ Bound
  BY <1>1 DEF ApplyBinding, Bound
<1>2. CASE LoadMemory
  BY <1>2 DEF LoadMemory, AnyNext, AnyRequest
<1>3. ASSUME NEW inputs \in TestInputs, RunStep(inputs) \/ RunCase(inputs) PROVE [AnyNext]_vars
  BY <1>3 DEF RunStep, RunCase, Submit, AnyNext, AnyRequest
<1>4. CASE LowDone \/ TraceSignal
  BY <1>4 DEF LowDone, TraceSignal, Submit, AnyNext, AnyRequest
<1>5. CASE StepDone \/ TraceOutput \/ SignalTraced
  BY <1>5 DEF StepDone, TraceOutput, SignalTraced
<1>6. ASSUME NEW expected \in Expectations, Compare(expected) PROVE [AnyNext]_vars
  BY <1>6 DEF Compare
<1>7. CASE CloseCase \/ Report
  BY <1>7 DEF CloseCase, Report
<1>8. CASE Work /\ UNCHANGED harness
  BY <1>8 DEF AnyNext
<1>9. CASE UNCHANGED all
  BY <1>9 DEF all
<1> QED
  BY <1>1, <1>2, <1>3, <1>4, <1>5, <1>6, <1>7, <1>8, <1>9 DEF HarnessNext

\* And so a suite is a client.
LEMMA HarnessIsClient == HarnessSpec => AnySpec
<1>1. HarnessInit => Init
  BY DEF HarnessInit
<1> QED
  BY <1>1, HarnessSteps, PTL DEF HarnessSpec, AnySpec

\* The session of a suite keeps its invariants, whatever the suite: objects and
\* memories their shapes, settles their budget, objects a private copy until a
\* step commits, and no clock is left out by a step.
THEOREM SuitesKeepInvariants ==
  HarnessSpec => [](TypeOK /\ TrackedChange /\ ObjectsWaitForCommit /\ EveryClockSampled)
<1>1. IInv => TypeOK /\ TrackedChange /\ ObjectsWaitForCommit
  BY DEF IInv
<1> QED
  BY <1>1, HarnessIsClient, WalkInductive, WalkCovers, PTL

\* The session of a suite keeps to the protocol of its calls.
THEOREM SuitesKeepProtocol == HarnessSpec => KeepsProtocol
  BY HarnessIsClient, ClientsKeepProtocol, PTL

\* In a suite as in any session, state changes on edges.
THEOREM SuitesOnEdges == ASSUME WholeViews PROVE HarnessSpec => StateChangesOnEdges
  BY HarnessIsClient, ClientsOnEdges, PTL

\* What a suite compares and traces is settled: when a settle of its session
\* ends, its nets are resolved, and the connections, the continuous assignments
\* and the always_comb blocks hold of the values it ends with, whatever was loaded
\* and whichever steps and cases came before.
THEOREM SuitesSettle ==
  ASSUME FittingTargets, SingleWriters
  PROVE  HarnessSpec =>
           []((Converged => NetsResolved) /\ ConnectionsSettle /\ AssignsSettle /\ BlocksSettle)
  BY HarnessIsClient, ClientsSettle, PTL

-----------------------------------------------------------------------------
(* When a suite writes what its session remembers. *)

\* A session is written by a step, or its memories between calls.
LEMMA SessionWrites ==
  ASSUME IInv, [AnyNext]_vars, session' # session
  PROVE  phase = "step" \/ (phase = "idle" /\ UNCHANGED <<persisted, clocks>>)
<1>1. CASE AnyRequest
  BY <1>1 DEF AnyRequest, Begin, Refuse, Load, ReadWord
<1>2. CASE SettleAction
  BY <1>2, SettleActionSettles DEF SettleEffect
<1>3. CASE StepAction
  BY <1>3, StepActionSteps DEF StepEffect
<1>4. CASE NextPass \/ BeginStep \/ Reply \/ Fail
  BY <1>4 DEF NextPass, BeginStep, Reply, Fail
<1>5. CASE CommitStep
  BY <1>5 DEF CommitStep
<1>6. CASE UNCHANGED vars
  BY <1>6 DEF vars, session
<1> QED
  BY <1>1, <1>2, <1>3, <1>4, <1>5, <1>6 DEF AnyNext, Work

\* A call in progress comes to its edge, commits, ends or goes on.
LEMMA CallGoesOn ==
  ASSUME IInv, Work
  PROVE  BeginStep \/ CommitStep \/ (phase' = "idle" /\ call' = Idle) \/ UNCHANGED <<phase, call>>
<1>1. CASE SettleAction
  BY <1>1, SettleActionSettles DEF SettleEffect
<1>2. CASE StepAction
  BY <1>2, StepActionSteps DEF StepEffect
<1>3. CASE Reply \/ Fail
  BY <1>3 DEF Reply, Fail, Return
<1>4. CASE NextPass
  BY <1>4 DEF NextPass
<1> QED
  BY <1>1, <1>2, <1>3, <1>4 DEF Work

\* The harness waits for its calls, and a step is asked for in two stages of a
\* sequential suite only.
AsksInStages ==
  /\ phase \in {"step", "resettle"} => call.op = "step"
  /\ stage \notin {"low", "step", "tracing"} => phase = "idle"
  /\ stage = "low" => suite.kind = "sequential"
  /\ phase # "idle" /\ call.op = "step" =>
       stage \in {"low", "step"} /\ suite.kind = "sequential"

\* A call of the harness begins, or is refused and over.
LEMMA SubmitBegins ==
  ASSUME NEW r, Submit(r)
  PROVE  \/ phase' = "settle" /\ call' = r
         \/ phase' = "idle"
  BY DEF Submit, Begin, Refuse, Return

\* What is asked for.
LEMMA AskedFor ==
  ASSUME NEW inputs, NEW signal
  PROVE  /\ \A op : Ask(op, inputs).op = op
         /\ SignalRead(signal, inputs).op = "read"
  BY DEF Ask, SignalRead

\* Every step of the harness keeps to the stages.
LEMMA StagesPreserved ==
  ASSUME IInv, AsksInStages, [HarnessNext]_all PROVE AsksInStages'
<1>1. CASE Work /\ UNCHANGED harness
  <2>1. UNCHANGED <<stage, suite>>
    BY <1>1 DEF harness
  <2>2. CASE UNCHANGED <<phase, call>> \/ (phase' = "idle" /\ call' = Idle)
    BY <2>1, <2>2 DEF AsksInStages
  <2>3. CASE BeginStep
    BY <2>1, <2>3 DEF AsksInStages, BeginStep
  <2>4. CASE CommitStep
    BY <2>1, <2>4 DEF AsksInStages, CommitStep
  <2> QED
    BY <1>1, <2>2, <2>3, <2>4, CallGoesOn
<1>2. CASE ApplyBinding \/ Bound \/ StepDone \/ TraceOutput \/ SignalTraced \/ CloseCase \/ Report
  <2>1. UNCHANGED <<phase, call, suite>>
    BY <1>2 DEF ApplyBinding, Bound, StepDone, TraceOutput, SignalTraced, CloseCase, Report, Abort, vars
  <2>2. phase = "idle"
    BY <1>2 DEF ApplyBinding, Bound, StepDone, TraceOutput, SignalTraced, CloseCase, Report,
                AsksInStages, Returned, IInv, TypeOK
  <2>3. stage' # "low"
    BY <1>2 DEF ApplyBinding, Bound, StepDone, TraceOutput, SignalTraced, CloseCase, Report, Abort
  <2> QED
    BY <2>1, <2>2, <2>3 DEF AsksInStages
<1>3. CASE LoadMemory
  <2>1. UNCHANGED <<phase, call, suite>> /\ phase = "idle" /\ stage' # "low"
    BY <1>3 DEF LoadMemory, Load, Abort
  <2> QED
    BY <2>1 DEF AsksInStages
<1>4. ASSUME NEW inputs \in TestInputs, RunStep(inputs) PROVE AsksInStages'
  <2>1. suite' = suite /\ suite.kind = "sequential" /\ stage' \in {"low", "step"}
    BY <1>4 DEF RunStep
  <2>2. PICK r : r.op = "step" /\ Submit(r)
    BY <1>4, AskedFor DEF RunStep
  <2> QED
    BY <2>1, <2>2, SubmitBegins DEF AsksInStages
<1>5. CASE LowDone
  <2>1. CASE result.ok
    <3>1. suite' = suite /\ stage' = "step" /\ suite.kind = "sequential"
      BY <1>5, <2>1 DEF LowDone, AsksInStages
    <3>2. PICK r : r.op = "step" /\ Submit(r)
      BY <1>5, <2>1, AskedFor DEF LowDone
    <3> QED
      BY <3>1, <3>2, SubmitBegins DEF AsksInStages
  <2>2. CASE ~result.ok
    BY <1>5, <2>2 DEF LowDone, Abort, AsksInStages, vars, Returned, IInv, TypeOK
  <2> QED
    BY <2>1, <2>2
<1>6. ASSUME NEW inputs \in TestInputs, RunCase(inputs) PROVE AsksInStages'
  <2>1. suite' = suite /\ stage' = "step"
    BY <1>6 DEF RunCase
  <2>2. PICK r : r.op = "eval" /\ Submit(r)
    BY <1>6, AskedFor DEF RunCase
  <2> QED
    BY <2>1, <2>2, SubmitBegins DEF AsksInStages
<1>7. CASE TraceSignal
  <2>1. suite' = suite /\ stage' = "tracing"
    BY <1>7 DEF TraceSignal
  <2>2. PICK r : r.op = "read" /\ Submit(r)
    BY <1>7, AskedFor DEF TraceSignal
  <2> QED
    BY <2>1, <2>2, SubmitBegins DEF AsksInStages
<1>8. ASSUME NEW expected \in Expectations, Compare(expected) PROVE AsksInStages'
  BY <1>8 DEF Compare, AsksInStages, vars
<1>9. CASE UNCHANGED all
  BY <1>9 DEF all, vars, harness, AsksInStages
<1> QED
  BY <1>1, <1>2, <1>3, <1>4, <1>5, <1>6, <1>7, <1>8, <1>9 DEF HarnessNext

\* Between calls only the loading of memories writes the session.
LEMMA LoadsBetween ==
  ASSUME IInv, [HarnessNext]_all, phase = "idle", session' # session PROVE LoadMemory
<1>1. ~Work
  BY SettleActionSettles, StepActionSteps
     DEF Work, SettleEffect, StepEffect, InSettle, NextPass, BeginStep, Reply, CommitStep, Fail
<1>2. ~\E r : Submit(r)
  BY DEF Submit, Begin, Refuse
<1>3. \A inputs \in TestInputs : ~RunStep(inputs) /\ ~RunCase(inputs)
  BY <1>2 DEF RunStep, RunCase
<1>4. ~LowDone /\ ~TraceSignal
  BY <1>2 DEF LowDone, TraceSignal, vars
<1>5. /\ ~ApplyBinding /\ ~Bound /\ ~StepDone /\ ~TraceOutput /\ ~SignalTraced
      /\ ~CloseCase /\ ~Report
      /\ \A expected \in Expectations : ~Compare(expected)
  BY DEF ApplyBinding, Bound, StepDone, TraceOutput, SignalTraced, CloseCase, Report, Compare, vars
<1>6. ~UNCHANGED all
  BY DEF all, vars
<1> QED
  BY <1>1, <1>3, <1>4, <1>5, <1>6 DEF HarnessNext

\* Whatever the suite and the design, a suite writes the memories of its session
\* when it binds them, and the session otherwise in the steps of a sequential
\* suite only: reading signals for a trace and the cases of a combinational
\* suite leave everything as they found it (collect_trace_values,
\* run_combinational).
THEOREM SuitesWriteInSteps == HarnessSpec => WritesInSteps
<1> DEFINE A == \/ UNCHANGED session
                \/ stage = "bind" /\ UNCHANGED <<persisted, clocks>>
                \/ stage \in {"low", "step"} /\ suite.kind = "sequential"
<1>1. HarnessInit => IInv /\ AsksInStages
  <2>1. HarnessInit => AsksInStages
    BY DEF HarnessInit, Init, AsksInStages
  <2> QED
    BY <2>1, InitHolds DEF HarnessInit
<1>2. IInv /\ AsksInStages /\ [HarnessNext]_all => (IInv /\ AsksInStages)'
  BY HarnessSteps, NextPreserves, StagesPreserved
<1>3. ASSUME IInv, AsksInStages, [HarnessNext]_all PROVE A
  <2> SUFFICES ASSUME session' # session PROVE A
    OBVIOUS
  <2>1. phase = "step" \/ (phase = "idle" /\ UNCHANGED <<persisted, clocks>>)
    BY <1>3, HarnessSteps, SessionWrites
  <2>2. CASE phase = "step"
    BY <1>3, <2>2 DEF AsksInStages
  <2>3. CASE phase = "idle" /\ UNCHANGED <<persisted, clocks>>
    BY <1>3, <2>3, LoadsBetween DEF LoadMemory
  <2> QED
    BY <2>1, <2>2, <2>3
<1>4. IInv /\ AsksInStages /\ [HarnessNext]_all => [A]_all
  BY <1>3
<1> HIDE DEF A
<1>5. HarnessSpec => [][A]_all
  BY <1>1, <1>2, <1>4, PTL DEF HarnessSpec
<1> QED
  BY <1>5 DEF WritesInSteps, A

-----------------------------------------------------------------------------
(* The addresses of a memory file. *)

\* The largest member of a set of numbers up to n.
LEMMA MaxUpTo ==
  ASSUME NEW n \in Nat, NEW S \in SUBSET (1..n), S # {}
  PROVE  Max(S) \in S /\ \A j \in S : j <= Max(S)
<1> DEFINE D == {n - j : j \in S}
<1>1. D \in SUBSET Nat /\ D # {}
  <2>1. \A j \in S : n - j \in Nat
    OBVIOUS
  <2> QED
    BY <2>1
<1>2. PICK d \in D : \A e \in D : d <= e
  <2> HIDE DEF D
  <2> QED
    BY <1>1, LeastNumber
<1>3. PICK m \in S : d = n - m
  BY <1>2
<1>4. \A j \in S : n - m <= n - j
  BY <1>2, <1>3
<1>5. \A j \in S : m >= j
  BY <1>4
<1> QED
  BY <1>5 DEF Max

\* What the parser counts is what the lines say: an address runs on from the
\* last one that was named, or from zero (current_address in parse_memory_text).
THEOREM AddressesRunOn ==
  ASSUME NEW lines, Len(lines) \in Nat,
         \A k \in 1..Len(lines) : HasAddress(lines[k]) => Named(lines[k]) \in Nat
  PROVE  Addresses(lines) = [k \in 1..Len(lines) |-> AddressOf(lines, k)]
<1> DEFINE n == Len(lines)
           Next1(h, k) == IF k = 0 THEN 0
                          ELSE 1 + IF HasAddress(lines[k]) THEN Named(lines[k]) ELSE h[k - 1]
           g == [k \in 0..n |-> IF k = 0 THEN 0 ELSE 1 + AddressOf(lines, k)]
           f == CHOOSE h : h = [k \in 0..n |-> Next1(h, k)]
           N(k) == {j \in 1..k : HasAddress(lines[j])}
<1>1. ASSUME NEW k \in 1..n
      PROVE  /\ AddressOf(lines, k) \in Int
             /\ HasAddress(lines[k]) => AddressOf(lines, k) = Named(lines[k])
             /\ ~HasAddress(lines[k]) => AddressOf(lines, k) = g[k - 1]
  <2>1. N(k) # {} => Max(N(k)) \in N(k) /\ \A j \in N(k) : j <= Max(N(k))
    <3>1. k \in Nat /\ N(k) \in SUBSET (1..k)
      OBVIOUS
    <3> HIDE DEF N
    <3> QED
      BY <3>1, MaxUpTo
  <2>2. CASE HasAddress(lines[k])
    <3>1. k \in N(k)
      BY <2>2
    <3>2. Max(N(k)) = k
      <4>1. Max(N(k)) \in 1..k /\ k <= Max(N(k))
        BY <2>1, <3>1
      <4> QED
        BY <4>1
    <3>3. AddressOf(lines, k) = Named(lines[k]) + k - k
      BY <3>1, <3>2 DEF AddressOf
    <3>4. Named(lines[k]) \in Nat
      BY <2>2
    <3> QED
      BY <2>2, <3>3, <3>4
  <2>3. CASE ~HasAddress(lines[k]) /\ N(k) = {}
    <3>1. AddressOf(lines, k) = k - 1
      BY <2>3 DEF AddressOf
    <3>2. N(k - 1) = {}
      BY <2>3
    <3>3. k - 1 # 0 => AddressOf(lines, k - 1) = k - 2
      BY <3>2 DEF AddressOf
    <3> QED
      BY <2>3, <3>1, <3>3
  <2>4. CASE ~HasAddress(lines[k]) /\ N(k) # {}
    <3>1. N(k - 1) = N(k)
      BY <2>4
    <3>2. PICK m \in 1..(k - 1) : m = Max(N(k)) /\ HasAddress(lines[m])
      BY <2>1, <2>4, <3>1
    <3>3. AddressOf(lines, k) = Named(lines[m]) + k - m
      BY <2>4, <3>2 DEF AddressOf
    <3>4. AddressOf(lines, k - 1) = Named(lines[m]) + (k - 1) - m
      BY <2>4, <3>1, <3>2 DEF AddressOf
    <3>5. Named(lines[m]) \in Nat
      BY <3>2
    <3>6. g[k - 1] = 1 + AddressOf(lines, k - 1)
      BY <3>2
    <3> HIDE DEF g
    <3> QED
      BY <2>4, <3>3, <3>4, <3>5, <3>6
  <2> QED
    BY <2>2, <2>3, <2>4
<1>2. g = [k \in 0..n |-> Next1(g, k)]
  <2>1. ASSUME NEW k \in 0..n PROVE g[k] = Next1(g, k)
    BY <1>1
  <2> QED
    BY <2>1
<1>3. f = [k \in 0..n |-> Next1(f, k)]
  <2> HIDE DEF g, Next1
  <2> QED
    BY <1>2
<1>4. \A k \in 0..n : f[k] = g[k]
  <2> DEFINE S == {k \in 0..n : f[k] # g[k]}
  <2> SUFFICES ASSUME S # {} PROVE FALSE
    OBVIOUS
  <2>1. S \in SUBSET Nat
    OBVIOUS
  <2>2. PICK k \in S : \A j \in S : k <= j
    <3> HIDE DEF S
    <3> QED
      BY <2>1, LeastNumber
  <2>3. k \in 0..n /\ f[k] # g[k] /\ (k # 0 => f[k - 1] = g[k - 1])
    <3> HIDE DEF f, g
    <3> QED
      BY <2>2
  <2> HIDE DEF f, g
  <2> QED
    BY <1>2, <1>3, <2>3
<1>5. Addresses(lines) = [k \in 1..n |-> f[k] - 1]
  BY DEF Addresses
<1>6. \A k \in 1..n : f[k] - 1 = AddressOf(lines, k)
  <2>1. ASSUME NEW k \in 1..n PROVE f[k] - 1 = AddressOf(lines, k)
    <3>1. k \in 0..n /\ k # 0
      OBVIOUS
    <3>2. f[k] = 1 + AddressOf(lines, k)
      <4>1. g[k] = 1 + AddressOf(lines, k)
        BY <3>1
      <4> HIDE DEF f, g
      <4> QED
        BY <1>4, <3>1, <4>1
    <3>3. AddressOf(lines, k) \in Int
      BY <1>1
    <3> HIDE DEF f
    <3> QED
      BY <3>2, <3>3
  <2> HIDE DEF f
  <2> QED
    BY <2>1
<1> QED
  BY <1>5, <1>6

=============================================================================
