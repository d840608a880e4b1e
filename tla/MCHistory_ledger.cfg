\* One launch, the main one, three owners: the reward ledger in depth, with a
\* memory, and widths so small that a credit can overflow a position.
SPECIFICATION HistorySpec
CONSTANTS
  mainMint = mainMint
  Launches <- OneLaunch
  MainLaunch <- mainMint
  Precision = 1000
  DaySeconds = 1
  U64Max = 10000
  U128Max = 10000
  RentFloor = 5
  AtaRent = 2
  FeeOwnerShareBps = 5000
  InitialCreators = {"direct"}
  FeeVenues = {"pump"}
  FeeRoutes = {"direct"}
  FeeAmounts = {2}
  MaxArrivals = 2
  NumOwners = 3
  InitialTokens = 2
  LockChoices = {7, 180}
  Times = {0, 7, 187}
  MaxEntries = 3
  GiftAccounts = {"stakingVault"}
INVARIANTS
  TypeOK
  WeightsAddUp
  PrincipalBacked
  DebtCovered
  OwedBounded
  ShortfallBounded
  OwnersWhole
  WeightMatchesLock
  CreditsConserved
  AccrualsWithinCredits
  LifetimeShare
  RewardsStayComputable
PROPERTIES
  LockHonoured
  SettledInFull
  NeverDiluted
  ImplementsShareLedger
CHECK_DEADLOCK FALSE
