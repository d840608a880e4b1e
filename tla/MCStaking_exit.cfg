\* Three owners, two rewards: can the last unlocked position be paid?
SPECIFICATION Spec
CONSTANTS
  mainMint = mainMint
  coinMint = coinMint
  Launches <- OneLaunch
  MainLaunch <- mainMint
  Precision = 2
  DaySeconds = 1
  U64Max = 1000000
  U128Max = 1000000000
  RentFloor = 2
  AtaRent = 2
  FeeOwnerShareBps = 5000
  InitialCreators = {"direct"}
  FeeVenues = {"pump"}
  FeeRoutes = {"direct"}
  FeeAmounts = {1, 2}
  MaxArrivals = 2
  NumOwners = 3
  InitialTokens = 2
  LockChoices = {7, 180}
  Times = {0, 7, 187}
  MaxEntries = 3
  GiftAccounts = {}
INVARIANT
  UnlockedIsPayable
CHECK_DEADLOCK FALSE
