CONSTANTS
  l1 = l1
  l2 = l2
  Loops = {l1, l2}
  MaxExecutions = 2
  MaxHour = 1
  MaxFaults = 1
SYMMETRY Symmetry
SPECIFICATION Spec
INVARIANTS
  TypeOK
  SentOncePerKey
  ExecutedIsSent
  LimitOnceInOneLoop
  DcaCountInOneLoop
