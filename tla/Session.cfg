SPECIFICATION Spec
CONSTANTS
  Letter <- MCLetter
  Lowercase <- MCLowercase
  NoDuration = NoDuration
  Meaning <- MCMeaning
  Written <- MCWritten
  KeywordKey = {"A", ","}
  DurationKey = {"1", "m", "s"}
  MaxKeywords = 2
  MaxDuration = 2
  EarlierFilters <- MCEarlierFilters
INVARIANTS
  RestartKeepsPromise
  ShownKeywordsApply
  ShownDurationFilters
