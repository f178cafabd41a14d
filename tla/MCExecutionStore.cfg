SPECIFICATION Spec
CONSTANTS
  Requested = 2
  Sessions = {s1, s2, s3}
  Events <- MCEvents
  Fills <- MCFills
  MaxEvents = 6
  Free = Free
INVARIANTS
  TypeOK
  SnapshotIsReplay
  FillsCountedOnce
PROPERTIES
  TerminalIsFinal
  ImplementsHistory
