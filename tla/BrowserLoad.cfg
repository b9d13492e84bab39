SPECIFICATION LoadSpec
CONSTANTS
  a = a
  b = b
  Info = {a, b}
  Struck = Struck
  Blank = Blank
  Failure = Failure
  Rejections <- MCRejections
  InitialRows = 2
  MaxRows = 2
  MaxAsked = 4
  MaxWaiting = 1
  MaxOverflow = 4
PROPERTIES
  FillsUp
CHECK_DEADLOCK FALSE
