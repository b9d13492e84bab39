SPECIFICATION Spec
CONSTANTS
  a = a
  b = b
  Info = {a, b}
  Struck = Struck
  Blank = Blank
  Failure = Failure
  Rejections <- MCRejections
  InitialRows = 1
  MaxRows = 2
  MaxAsked = 2
  MaxWaiting = 1
  MaxOverflow = 2
INVARIANTS
  TypeOK
  CountsExact
  NoIndexPanic
  BlocksOnlyWhenFull
PROPERTIES
  BurstFitsVacancies
  DeleteDrawsOnOverflow
  OverflowLeavesToRows
  SelectionStaysLive
  RejectedNeverEnters
CHECK_DEADLOCK FALSE
