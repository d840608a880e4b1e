\* The list the README describes, against the list the loops accept.
SPECIFICATION ShareholderSpec
CONSTANTS
  feeOwner = feeOwner
  alice = alice
  bob = bob
  Addresses <- ThreeAddresses
  FeeOwner <- feeOwner
  U16Max = 10000
  U32Max = 19999
  Calls <- SomeCalls
INVARIANTS
  ReadmeListAccepted
CHECK_DEADLOCK FALSE
