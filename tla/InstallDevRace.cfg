\* A packageInstall and a packageInstallDev of one package.
CONSTANTS
  Req = {r1, r2}
  DevReq = {r2}
  Dnp = {d1}
  PidDnp = {}
  EnvOp = {}
  RemoveOp = {}
  Faults = {}
  Installed = Installed
  None = None
SPECIFICATION Spec
CHECK_DEADLOCK FALSE
INVARIANT NoDoubleInstall
