\* Two launches, both routes: does weight join past waiting fees?
SPECIFICATION Spec
CONSTANTS
  mainMint = mainMint
  coinMint = coinMint
  Launches <- TwoLaunches
  MainLaunch <- mainMint
  Precision = 2
  DaySeconds = 1
  U64Max = 1000000
  U128Max = 1000000000
  RentFloor = 20
  AtaRent = 2
  FeeOwnerShareBps = 5000
  InitialCreators = {"direct", "other"}
  FeeVenues = {"pump", "amm"}
  FeeRoutes = {"direct", "shared"}
  FeeAmounts = {60}
  MaxArrivals = 2
  NumOwners = 1
  InitialTokens = 2
  LockChoices = {30}
  Times = {0}
  MaxEntries = 2
  GiftAccounts = {}
PROPERTY
  NoFeesWaitOnEntry
CHECK_DEADLOCK FALSE
