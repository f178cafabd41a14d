SPECIFICATION FairSpec
CONSTANTS
  Requested = 2
  NoAmount = NoAmount
  NoDest = NoDest
  Workers = {w1}
  Reconcilers = {r1}
  Routes = {"lifi"}
  Amounts = {1}
  Dests = {d1}
  MaxCrashes = 0
  MaxChecks = 0
PROPERTY LifiPolledToTheEnd
CHECK_DEADLOCK FALSE
