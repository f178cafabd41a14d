CONSTANTS
  d1 = d1
  r1 = r1
  r2 = r2
  NoDeposit = NoDeposit
  Deposits = {d1}
  Relayers = {r1, r2}
  MaxAttempts = 2
  MaxCrashes = 1
  MaxRequeues = 1
SPECIFICATION FairSpec
INVARIANTS
  TypeOK
  MintedIsUsed
  BurnIsRecorded
  OneHolderPerLease
PROPERTIES
  MintedIsFinal
  LandedIsResolved
