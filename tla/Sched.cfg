CONSTANTS
  MaxPid = 4
  Quantum = 2
  NoPid = NoPid
SPECIFICATION TimedSpec
INVARIANTS Conservation NextTaskResumable BoundedWait
PROPERTIES ReapedFromOtherStack ImplementsLifecycle ReadyRuns
