\* Every failure of a step but a rename (InstallOutcome.cfg) and a restart, and either two requests for two packages
\* or a packageInstallDev of a package that is edited twice and removed meanwhile.
CONSTANTS
  Req = {r1, r2, r3}
  DevReq = {r3}
  Dnp = {d1, d2}
  PidDnp = {d2}
  EnvOp = {e1, e2}
  RemoveOp = {x1}
  Faults = {"prepare", "validate", "create", "start", "expose", "rollback", "clean", "crash", "expire"}
  Installed = Installed
  None = None
SPECIFICATION ScenesSpec
ACTION_CONSTRAINT InScene
CHECK_DEADLOCK FALSE
INVARIANT TypeOK
INVARIANT NoDoubleInstall
INVARIANT BackupSound
INVARIANT RollbackRestores
INVARIANT LockNotLeaked
PROPERTY ImplementsGuard
