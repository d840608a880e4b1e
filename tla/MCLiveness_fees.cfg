\* Two launches, both venues and routes: fees that wait and the stake they wait
\* for.  fee_owner is the only shareholder, so that both routes bring the same.
SPECIFICATION ClaimSpec
CONSTANTS
  mainMint = mainMint
  coinMint = coinMint
  Launches <- TwoLaunches
  MainLaunch <- mainMint
  Precision = 10
  DaySeconds = 1
  U64Max = 1000000
  U128Max = 1000000000
  RentFloor = 61
  AtaRent = 2
  FeeOwnerShareBps = 10000
  InitialCreators = {"direct"}
  FeeVenues = {"pump", "amm"}
  FeeRoutes = {"direct", "shared"}
  FeeAmounts = {60}
  MaxArrivals = 2
  NumOwners = 1
  InitialTokens = 1
  LockChoices = {180}
  Times = {0, 180}
  MaxEntries = 1
  GiftAccounts = {}
PROPERTIES
  FeesReachStakers
CHECK_DEADLOCK FALSE
