SPECIFICATION Spec
CONSTANTS
  Task = {t1, t2}
  Crate = {c1, c2}
  NoCrate = NoCrate
  DConn = {d1, d2}
  FConn = {f1, f2}
  NoConn = NoConn
  Failure = Failure
  MaxAsked = 2
  MaxWaiting = 1
SYMMETRY Symmetry
INVARIANTS
  TypeOK
  AsksOverGoodConnections
  ReturnsConnections
PROPERTIES
  ImplementsSource
  SettledIsNotFetchedAgain
