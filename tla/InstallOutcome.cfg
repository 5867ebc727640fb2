\* Two requests for two packages of which some are stopped, failures that leave docker consistent, containers that are taken down and upped again, with fairness.
CONSTANTS
  Req = {r1, r2}
  DevReq = {}
  Dnp = {d1, d2}
  PidDnp = {}
  EnvOp = {}
  RemoveOp = {}
  Faults = {"prepare", "expose", "rename", "clean"}
  Installed = Installed
  None = None
SPECIFICATION FairSpec
CHECK_DEADLOCK FALSE
INVARIANT QuietConsistent
INVARIANT RollbackUpsPrevious
INVARIANT RunningRunsAgain
PROPERTY StoppedStaysStopped
PROPERTY EventuallyUnflagged
