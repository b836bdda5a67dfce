SPECIFICATION FairSpec
CONSTANTS
  Top = "top"
  Design <- MCDesign
  Layouts <- MCLayouts
  Code <- MCCode
  Requests <- MCRequests
  Eval <- MCEval
  Fails <- MCFails
PROPERTY StateChangesOnEdges
