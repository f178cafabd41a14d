SPECIFICATION Spec
CONSTANTS
  Requested = 2
  NoAmount = NoAmount
  NoDest = NoDest
  Workers = {w1, w2}
  Reconcilers = {r1}
  Routes = {"lifi"}
  Amounts = {1}
  Dests = {d1}
  MaxCrashes = 0
  MaxChecks = 0
INVARIANT DeliveredIsNeverFailed
CHECK_DEADLOCK FALSE
