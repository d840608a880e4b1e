\* One launch, one quote pool, two owners: the quote ledger in depth, with its memory.
SPECIFICATION QuoteHistorySpec
CONSTANTS
  mainMint = mainMint
  usdc = usdc
  Launches <- OneLaunch
  MainLaunch <- mainMint
  Quotes <- OneQuote
  Precision = 2
  DaySeconds = 1
  U64Max = 1000000
  U128Max = 1000000000
  RentFloor = 2
  AtaRent = 2
  FeeOwnerShareBps = 5000
  InitialCreators = {"direct"}
  FeeVenues = {}
  FeeRoutes = {"direct", "shared"}
  FeeAmounts = {1}
  MaxArrivals = 0
  QuoteAmounts = {10}
  MaxQuoteArrivals = 2
  NumOwners = 2
  InitialTokens = 3
  LockChoices = {7}
  Times = {0, 7}
  MaxEntries = 2
  GiftAccounts = {}
INVARIANTS
  QuoteTypeOK
  QuoteReserveBacked
  QuoteFeeReserveBacked
  QuoteDebtCovered
  QuoteOwedBounded
  QuoteCreditsConserved
  QuoteLifetimeShare
  ShortageExplained
PROPERTIES
  QuoteSettledInFull
  QuoteNeverDiluted
  ImplementsPoolLedger
CHECK_DEADLOCK FALSE
