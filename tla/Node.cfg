\* The resolver, the NAT renewal and the https portal, one at a time.
CONSTANTS
  Name = {"app", "dep", "aux"}
  Request = "app"
  MaxVer = 2
  Worlds <- MCWorlds
  Port = {"p", "q"}
  NoPort = "none"
  MaxCrashes = 1
  Package = {"pkg"}
  Service = {"web", "api"}
  PackageOf <- MCPackageOf
  Subdomain = {"one", "two"}
  NoService = "none"
  Exposable <- MCExposable
  Caller = {"user"}
SPECIFICATION NodeSpec
CHECK_DEADLOCK FALSE
INVARIANT NodeTypeOK
INVARIANT AggregateConfluent
INVARIANT ResultSound
INVARIANT DependantsKept
INVARIANT ResultBest
INVARIANT PortsNotMissed
INVARIANT PortalReachable
PROPERTY ResolutionEnds
PROPERTY PortsOpened
