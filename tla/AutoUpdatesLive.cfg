\* A package with four versions, the last breaking, and a restart; no history, one version of the core.
CONSTANTS
  Dnp = {"d1"}
  MaxVersion = 4
  MaxCore = 1
  MinDelay = 0
  MaxDelay = 1
  BreakingDnp = {4}
  BreakingCore = {}
  MaxRestarts = 1
  None = None
SPECIFICATION PackagesSpec
PROPERTY EventuallyUpdated
