SPECIFICATION Spec
CONSTANTS
  MaxOffset = 8
  Texts <- MCTexts
  Thresholds = {0, 2, 3}
  Jobs <- MCJobs
  Formats <- MCFormats
  Decay = 2
INVARIANTS
  DedupIsQuotient
  SplitIsExact
  GraphIsFaithful
CHECK_DEADLOCK FALSE
