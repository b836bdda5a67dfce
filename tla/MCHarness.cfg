SPECIFICATION HarnessSpec
CHECK_DEADLOCK FALSE
CONSTANTS
  Top = "top"
  Design <- MCDesign
  Layouts <- MCLayouts
  Code <- MCCode
  Requests = {}
  Eval <- MCEval
  Fails <- MCFails
  Suites <- MCSuites
  TestInputs <- MCTestInputs
  Expectations <- MCExpectations
  MaxCases = 2
  MaxSteps = 2
  Modules <- MCModules
  Paths <- MCPaths
INVARIANTS TraceAgrees BindingsHold
PROPERTIES ReportsTheDesign WritesInSteps
