SPECIFICATION Spec
CONSTANTS
  Bits = 8
  MantissaMax = 31
  MaxExp = 20
  MaxBlock = 48
  Percent = 70
  Lz4 <- MCLz4
  Word = 4
  Modulus = 27
  Merges <- MCMerges
  Selectors <- MCSelectors
  MaxRuns = 2
INVARIANT RandomIsUniform
CHECK_DEADLOCK FALSE
