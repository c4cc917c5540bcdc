SPECIFICATION Spec
CONSTANTS
  Bits = 8
  MantissaMax = 31
  MaxExp = 20
  MaxBlock = 48
  Percent = 70
  Lz4 <- MCLz4
  Word = 64
  Modulus = 27
  Merges <- MCMerges
  Selectors <- MCSelectors
  MaxRuns = 2
INVARIANTS
  TableIsFaithful
  RefusesBadInput
  RootsAreExact
  SelectionIsExact
CHECK_DEADLOCK FALSE
