SPECIFICATION Spec
CONSTANTS
  Info = {a, b}
  Struck = Struck
  Blank = Blank
  MaxTable = 5
  Letter = {"a", "A"}
  Lowercase <- MCLowercase
  NoDuration = NoDuration
  Upper <- MCUpper
  Key = {"a", "A", ",", " ", "-", "::"}
  Sign = {"a", "A", "-", "_", " ", "::"}
  MaxText = 3
  Starts <- MCStarts
  Window = 2000
  Capacity = 4
  MaxBytes = 6
  Note = {n1, n2, n3, n4}
  Show = 3
  InitialRows = 1
  MaxRows = 3
INVARIANTS
  SortIsInsertionSort
  DownVisitsEveryEntry
  TextsMeanKeywords
  CaseDoesNotMatter
  KeywordsAreWords
  OffByOneDigit
  DeliversStream
  ClaimsAreTrue
  NeverPanics
  NewestFirst
  NeverLingers
PROPERTIES
  ShrinkKeepsEntries
  Monotone
  EveryNoteFades
CHECK_DEADLOCK FALSE
