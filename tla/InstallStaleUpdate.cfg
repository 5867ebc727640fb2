\* Two requests for one package of which one is rolled back.
CONSTANTS
  Req = {r1, r2}
  DevReq = {}
  Dnp = {d1}
  PidDnp = {}
  EnvOp = {}
  RemoveOp = {}
  Faults = {"expose"}
  Installed = Installed
  None = None
SPECIFICATION Spec
CHECK_DEADLOCK FALSE
INVARIANT DoneStaysInstalled
