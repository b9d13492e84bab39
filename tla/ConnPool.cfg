SPECIFICATION Spec
CONSTANTS
  Conn = {c1, c2, c3, c4}
  NoConn = NoConn
  Holder = {h1, h2, h3}
INVARIANTS
  ExclusiveUse
  SpentNeverReused
  PoolBounded
