SPECIFICATION Spec
CONSTANTS
  a = a
  b = b
  Info = {a, b}
  Struck = Struck
  Blank = Blank
  Failure = Failure
  Rejections <- MCRejections
  InitialRows = 2
  MaxRows = 3
  MaxAsked = 2
  MaxWaiting = 1
  MaxOverflow = 2
INVARIANTS
  DeleteOfferedOnEntry
CHECK_DEADLOCK FALSE
