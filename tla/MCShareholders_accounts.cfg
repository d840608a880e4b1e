\* Every short vector of shares and every short list of remaining accounts.
SPECIFICATION ShareholderSpec
CONSTANTS
  feeOwner = feeOwner
  alice = alice
  bob = bob
  Addresses <- ThreeAddresses
  FeeOwner <- feeOwner
  U16Max = 10000
  U32Max = 19999
  Calls <- SomeCalls
INVARIANTS
  ShareholderTypeOK
  SharesAddUp
  AccountsFollowShares
  LoopsAcceptExactly
PROPERTIES
  LoopsDecide
CHECK_DEADLOCK FALSE
