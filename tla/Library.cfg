SPECIFICATION FairSpec
CONSTANTS
  a1 = a1
  a2 = a2
  Nobody = Nobody
  Apps <- TwoApps
  MaxClients = 3
  Asked <- OnceAuto
  hardware_concurrency = 1
INVARIANTS
  ClientsHaveRuntime
  NothingLeftWithoutUsers
PROPERTY CallsReturn
CHECK_DEADLOCK FALSE
