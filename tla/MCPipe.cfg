SPECIFICATION FairSpec
CONSTANTS
  Top = "top"
  Design <- MCDesign
  Layouts <- MCLayouts
  Code <- MCCode
  Requests <- MCRequests
  Eval <- MCEval
  Fails <- MCFails
INVARIANT EveryClockSampled
PROPERTIES ShiftsTogether StateChangesOnEdges
