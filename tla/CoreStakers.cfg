\* Two updates of a core of three packages, two plain restarts and a reboot, or
\* two clients between which users switch.
CONSTANTS
  Pkg = {"core", "bind"}
  DM = "dappmanager"
  MaxVersion = 2
  MaxRestart = 2
  MaxReboot = 1
  Faults = {"up", "start", "launch", "remove", "frozen", "inspect"}
  None = None
  Client = {"geth", "besu"}
  Unset = "none"
SPECIFICATION CoreStakersSpec
CHECK_DEADLOCK FALSE
INVARIANT CoreStakersTypeOK
INVARIANT PendingCanRollBack
INVARIANT FallbackHasBackup
INVARIANT FinishedIsNew
INVARIANT AllOrNothing
 
 
PROPERTY RecordSettles
PROPERTY UpdateRevives
PROPERTY ImplementsAtomicUpdate
PROPERTY SelectedJoins
