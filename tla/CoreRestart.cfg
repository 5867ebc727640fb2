\* Plain restarts of a dappmanager that cannot be started.
CONSTANTS
  Pkg = {"core"}
  DM = "dappmanager"
  MaxVersion = 1
  MaxRestart = 1
  MaxReboot = 0
  Faults = {"start"}
  None = None
SPECIFICATION Spec
CHECK_DEADLOCK FALSE
INVARIANT RestartHasBackup
