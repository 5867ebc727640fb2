\* Three containers, one listed before bind and one after, and three addresses.
CONSTANTS
  Container = {"besu", "bind", "dappmanager"}
  Bind = "bind"
  Dappmanager = "dappmanager"
  Pos <- ByName
  Ip = {2, 7, 9}
  BindIp = 2
  DappmanagerIp = 7
  None = None
  MaxAttempts = 3
  MaxMoves = 1
  MaxFails = 1
SPECIFICATION FairSpec
CHECK_DEADLOCK FALSE
INVARIANT TypeOK
INVARIANT TwoRoundsSettle
PROPERTY NetworkSettles
