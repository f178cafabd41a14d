SPECIFICATION Spec
CONSTANTS
  r1 = r1
  r2 = r2
  rc = rc
  dw = dw
  api = api
  bg = bg
  Nobody = Nobody
  NoCursor = NoCursor
  Processes = {api, bg}
  Actors = {r1, r2, rc, dw}
  Topologies <- SingleTopology
  InitialBalance = 2
  Requests = {r1, r2}
  Keys = {k1, k2}
  NoKey = NoKey
  Amount <- MCAmount
  Reconcilers = {rc}
  MaxRetries = 2
  MaxBroken = 0
  BotRequests = {r2}
  Watchers = {dw}
  DepositSet <- MCDeposits
  Chunks = 1
  CONFIRMATIONS = 1
  MAX_BLOCK_RANGE = 1
  MIN_DEPOSIT = 2
  COLD_START_LOOKBACK = 2
  InitialHead = 2
  MaxHead = 3
  MaxErrors = 1
  MaxCrashes = 0
INVARIANT RevertedIsRefunded
CHECK_DEADLOCK FALSE
