\* A request and an edit of the environment of the same package.
CONSTANTS
  Req = {r1}
  DevReq = {}
  Dnp = {d1}
  PidDnp = {}
  EnvOp = {e1}
  RemoveOp = {}
  Faults = {}
  Installed = Installed
  None = None
SPECIFICATION Spec
CHECK_DEADLOCK FALSE
INVARIANT RollbackUpsPrevious
