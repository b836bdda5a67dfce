SPECIFICATION Spec
CHECK_DEADLOCK FALSE
CONSTANTS
  SearchPaths <- MCSearchPaths
  Disks <- MCDisks
  Roots <- MCRoots
  Code <- MCCode
  Passes <- ValidModule
  Fits <- ValidInstance
  Values <- InstanceValues
  HasAll <- Resolvable
  Refuses <- Contradicts
INVARIANTS DuplicatesAreReal ConventionLoads CompiledElaborates HierarchyValidated HierarchyWhole ElaboratedInstantiates FrozenStaysTrue
PROPERTY CompilationEnds
