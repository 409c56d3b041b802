\* A diamond, a chain, two inputs of one node and every relation over three nodes; every outcome.
SPECIFICATION FairSpec
CONSTANTS
  Node <- FourNodes
  NodeKey = {"fetch", "meta", "scan", "check", "x"}
  Graphs <- RunGraphs
  Inputs <- RunInputs
  AutoSkip = {"meta", "check"}
  Fetch = {"fetch", "scan"}
  Readable = {"fetch"}
  Overridable = {"meta"}
  Returns <- RunReturns
  Overrides <- RunOverrides
  URL = {"u1", "u2", "u3"}
  NoURL = "none"
  Package = {"pkg"}
INVARIANTS
  Inv
  OutputsAvailable
  DependenciesReachInput
  SkipsPropagate
  CycleVerdict
  FallbackOnlyFillsGaps
  OverridesAccountedFor
  SpansClosed
PROPERTIES
  StageIsolation
  ExecuteReturns
  ImplementsContract
