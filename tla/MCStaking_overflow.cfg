\* A tiny first stake, a launch where weight * accumulator nears the width.
SPECIFICATION Spec
CONSTANTS
  mainMint = mainMint
  coinMint = coinMint
  Launches <- OneLaunch
  MainLaunch <- mainMint
  Precision = 1000
  DaySeconds = 1
  U64Max = 10000
  U128Max = 10000
  RentFloor = 2
  AtaRent = 2
  FeeOwnerShareBps = 5000
  InitialCreators = {"direct"}
  FeeVenues = {"pump"}
  FeeRoutes = {"direct"}
  FeeAmounts = {4}
  MaxArrivals = 2
  NumOwners = 2
  InitialTokens = 3
  LockChoices = {7}
  Times = {0, 7}
  MaxEntries = 2
  GiftAccounts = {}
INVARIANT
  UnlockedIsComputable
CHECK_DEADLOCK FALSE
