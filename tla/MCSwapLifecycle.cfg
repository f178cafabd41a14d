SPECIFICATION FairSpec
CONSTANTS
  Requested = 2
  NoAmount = NoAmount
  NoDest = NoDest
  Workers = {w1, w2}
  Reconcilers = {r1}
  Routes = {"lifi", "zerox", "evm"}
  Amounts = {0, 1, 2}
  Dests = {d1}
  MaxCrashes = 1
  MaxChecks = 1
INVARIANTS
  TypeOK
  CanonicalIsReplay
  FillIsDelivery
  TerminalIsProjected
PROPERTIES
  PolledToTheEnd
  ReconcilingResolves
CHECK_DEADLOCK FALSE
