\* One launch, two owners: exits around claims, increases and a shortage.
SPECIFICATION ExitSpec
CONSTANTS
  mainMint = mainMint
  coinMint = coinMint
  Launches <- OneLaunch
  MainLaunch <- mainMint
  Precision = 2
  DaySeconds = 1
  U64Max = 1000000
  U128Max = 1000000000
  RentFloor = 2
  AtaRent = 2
  FeeOwnerShareBps = 5000
  InitialCreators = {"direct"}
  FeeVenues = {"pump"}
  FeeRoutes = {"direct"}
  FeeAmounts = {1}
  MaxArrivals = 2
  NumOwners = 2
  InitialTokens = 2
  LockChoices = {7, 180}
  Times = {0, 7, 187}
  MaxEntries = 3
  GiftAccounts = {}
PROPERTIES
  ExitsUnlessShort
CHECK_DEADLOCK FALSE
