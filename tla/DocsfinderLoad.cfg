SPECIFICATION Load
CONSTANTS
  Task = {t1}
  Crate = {c1, c2}
  NoCrate = NoCrate
  DConn = {d1}
  FConn = {f1}
  NoConn = NoConn
  Failure = Failure
  Struck = Struck
  Blank = Blank
  Rejections <- NoRejections
  InitialRows = 1
  MaxRows = 1
  MaxAsked = 3
  MaxWaiting = 1
  MaxOverflow = 3
PROPERTIES
  TableFills
CHECK_DEADLOCK FALSE
