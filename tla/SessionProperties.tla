------------------------- MODULE SessionProperties -------------------------
(***************************************************************************)
(* What a simulation session promises: the properties of Session.          *)
(***************************************************************************)
EXTENDS Session, Hir

Phases == {"idle", "settle", "step", "resettle"}
Ops    == {"eval", "step", "read"}

\* A value of every object, each of its own width; what the bits are is the
\* evaluator's affair.
IsFrame(f) == DOMAIN f = Object /\ \A o \in Object : DOMAIN f[o] = 1..Layouts[o].width

IsMemoryTable(mem, i) ==
  /\ DOMAIN mem = DOMAIN Design[i].memories
  /\ \A m \in DOMAIN mem :
       /\ DOMAIN mem[m] = 0..(Design[i].memories[m].depth - 1)
       /\ \A a \in DOMAIN mem[m] : DOMAIN mem[m][a] = 1..Design[i].memories[m].width

\* Every object keeps its width and every memory its shape, whatever is written
\* to them and however a call ends; and the passes of a settle never outnumber
\* the budget (write_binding, MemoryState::write, settle_module).
TypeOK ==
  /\ IsFrame(persisted)
  /\ DOMAIN memories = Instance /\ \A i \in Instance : IsMemoryTable(memories[i], i)
  /\ DOMAIN clocks = Instance /\ \A i \in Instance : clocks[i] \in [Design[i].clocks -> BOOLEAN]
  /\ phase \in Phases
  /\ (phase = "idle") = (call = Idle)
  /\ phase # "idle" => call.op \in Ops
  /\ changed \in BOOLEAN
  /\ passes \in 0..MaxPasses
  /\ InSettle => IsFrame(frame) /\ IsFrame(passStart) /\ DOMAIN drivers = Object
  /\ phase = "step" => IsFrame(preFrame) /\ IsFrame(next)

-----------------------------------------------------------------------------
(* Settling. *)

\* The change flag is sound: as long as a pass reports no change, the frame is
\* the one the pass started from, so a settle that stops has reached a fixed
\* point (settle_module: pass_changed replaces comparing whole frames).
TrackedChange == InSettle /\ ~changed => frame = passStart

\* The pass budget bounds oscillating designs only: a design whose values do
\* not feed back settles before the passes run out (settle_iteration_budget).
SettlesInBudget == ~Exhausted

\* A call comes to its end: it settles or gives up, whatever the design.
CallsReturn == (call # Idle) ~> (call = Idle)

-----------------------------------------------------------------------------
(* Stepping. *)

WriteSets[s \in Label] == WrittenBy(Code[s], WriteSets)

\* The clocked blocks that write an object, as pairs of instance and block.
WritersOf(o) ==
  {w \in UNION {{i} \X BlocksOf(i, "ff") : i \in Instance} :
     \E n \in WriteSets[Design[w[1]].blocks[w[2]].body] : Binding(w[1], n).obj = o}

\* A clock or reset of the block has gone up since the call began.
RoseInCall(i, k, levels) ==
  \E c \in {Design[i].blocks[k].clock, Design[i].blocks[k].reset} \ {"none"} :
    ~before.clocks[i][c] /\ levels[i][c]

\* What a session remembers changes only on edges: an object only when a
\* clocked block that writes it has fired, and a memory, while stepping, only
\* when a clocked block of its instance has.  So no combinational value, input
\* or neighbour's port leaks into the state (step_module, sync_instance_values).
StateChangesOnEdges ==
  [][/\ \A o \in Object : persisted'[o] # persisted[o] =>
           \E w \in WritersOf(o) : RoseInCall(w[1], w[2], clocks')
     /\ \A i \in Instance : phase = "step" /\ memories'[i] # memories[i] =>
           \E k \in BlocksOf(i, "ff") : RoseInCall(i, k, clocks')]_vars

\* What an instance writes back after its blocks have run it sees whole.  The
\* property above asks this of a design: a port narrower than the object it is
\* bound to cuts the object when it is written back (sync_instance_values).
WholeViews ==
  \A i \in Instance : \A k \in 1..Len(Design[i].decls) :
    LET d == Design[i].decls[k]
        b == Binding(i, d.name)
        writtenBack == \/ ~IsNet(b.obj)
                       \/ d.storage = "variable" /\ d.dir \in {"output", "none"}
                       \/ d.name \in Design[i].procedural
    IN  writtenBack => b.view = Layouts[b.obj].width

\* When a step commits, every instance has sampled every clock it watches, at
\* the level settled before the edge: no edge is seen twice or missed.
EveryClockSampled ==
  phase = "step" /\ todo = <<>> =>
    \A i \in Instance : \A c \in Design[i].clocks : clocks[i][c] = Level(i, c)

\* The instances that an item of the stack of kind op is for.
Waiting(s, op) == {s[k].inst : k \in {n \in 1..Len(s) : s[n].op = op}}

\* The instances of W and all that are below one of them.
WithAllBelow(W) ==
  {i \in Instance :
     \A S \in SUBSET Instance :
       W \subseteq S /\ (\A c \in Instance \ {Top} : Parent(c) \in S => c \in S) => i \in S}

\* The instances that a step with the stack s has still to enter, and those it
\* has left: one that is entered and not left has its "close" waiting.
ToEnter(s) == WithAllBelow(Waiting(s, "step"))
Left(s)    == Instance \ (ToEnter(s) \cup Waiting(s, "close"))

ChildrenOf(i) == {Design[i].children[k] : k \in 1..Len(Design[i].children)}

Calls == INSTANCE Protocol WITH
          Below   <- [i \in Instance |-> ChildrenOf(i)],
          Clocks  <- [i \in Instance |-> Design[i].clocks],
          None    <- Nothing,
          objects <- persisted,
          stage   <- IF phase = "settle" /\ call.op # "step" THEN "ask" ELSE phase,
          levels  <- IF phase = "step"
                     THEN [i \in Instance |-> [c \in Design[i].clocks |-> Level(i, c)]]
                     ELSE Nothing,
          left    <- IF phase = "step" THEN Left(todo) ELSE {}

\* A step leaves every instance once, its children before it, and all of them
\* with levels of one moment; and the session is written at no other time, so
\* that an evaluation or a read leaves it alone.
KeepsProtocol == Calls!Spec

\* Until a step commits, its objects are a private copy: a call that fails
\* before leaves the objects of the session as it found them.
ObjectsWaitForCommit == phase \in {"settle", "step"} => persisted = before.persisted

\* step executes one sampled sequential step: one that fails while its blocks
\* run has not consumed an edge, so that a retry sees it.
EdgesSurviveFailure ==
  [][phase = "step" /\ call' = Idle => clocks' = before.clocks]_vars
=============================================================================
