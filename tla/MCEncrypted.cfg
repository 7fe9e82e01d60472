SPECIFICATION Spec
CONSTANTS
  Ann = Ann
  Ben = Ben
  o1 = o1
  o2 = o2
  m1 = m1
  Nobody = Nobody
  Devices = {o1, o2, m1}
  Accounts = {Ann, Ben}
  AccountOf <- TheAccounts
  TeamOwner = Ann
  Projects = {P}
  Kits = {K1}
  Epochs = {E1}
  MaxSeq = 3
  MaxChecking = 2
  MaxRequests = 1
  EventIds = {a, b}
  None = None
  PageSize = 1
  MaxSealed = 2
  MaxLosses = 1
  Concerns = {"device", "signer", "recover", "delete"}
  MaxConcerns = 2
  MaxGenerations = 2
  MaxLives = 2
  Orders <- TheOrders
  MaxSent = 2
  MaxTurns = 2
  MaxFaults = 2
INVARIANTS TypesOK HubFollowsChain OneHistory DeletedStaysDeleted  TaskHistoryTrue
PROPERTIES ProofsAreCurrent
CHECK_DEADLOCK FALSE
