SPECIFICATION System
CONSTANTS
  Task = {t1, t2}
  Crate = {c1}
  NoCrate = NoCrate
  DConn = {d1, d2}
  FConn = {f1}
  NoConn = NoConn
  Failure = Failure
  Struck = Struck
  Blank = Blank
  Rejections <- NoRejections
  InitialRows = 1
  MaxRows = 1
  MaxAsked = 2
  MaxWaiting = 1
  MaxOverflow = 1
SYMMETRY Symmetry
PROPERTIES
  ImplementsBrowser
  GoneStaysAway
CHECK_DEADLOCK FALSE
