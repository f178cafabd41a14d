CONSTANTS
  t1 = t1
  c1 = c1
  c2 = c2
  c3 = c3
  NoTx = NoTx
  OtherTx = OtherTx
  NoTrade = NoTrade
  Trades = {t1}
  Callers = {c1, c2, c3}
  MaxMined = 2
SPECIFICATION FairSpec
INVARIANTS
  TypeOK
  SettledOnce
  OnePartyIsPaid
  DisputeFreezes
  CompletedIsPaid
  CancelledIsRefunded
PROPERTIES
  ResolutionEnds
  ImplementsAccounts
CHECK_DEADLOCK FALSE
