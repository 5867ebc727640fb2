\* The core publishes twice after the version that is installed, the second
\* time more than a patch.
CONSTANTS
  Dnp = {}
  MaxVersion = 3
  MaxCore = 3
  MinDelay = 1
  MaxDelay = 1
  BreakingDnp = {}
  BreakingCore = {3}
  MaxRestarts = 0
  None = None
SPECIFICATION FairSpec
PROPERTY CoreDelayEnforced
