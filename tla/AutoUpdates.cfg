\* A package with three versions and a core with two.
CONSTANTS
  Dnp = {"d1"}
  MaxVersion = 3
  MaxCore = 2
  MinDelay = 1
  MaxDelay = 1
  BreakingDnp = {}
  BreakingCore = {}
  MaxRestarts = 1
  None = None
SPECIFICATION Spec
INVARIANT TypeOK
INVARIANT PendingOnlyWhenEnabled
INVARIANT CompletedReached
PROPERTY DelayEnforced
PROPERTY RemovedNotAuthorized
