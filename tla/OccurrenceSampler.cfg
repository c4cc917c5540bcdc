SPECIFICATION Spec
CONSTANTS
  num_samples = 6
  number_of_threads = 4
  nthreads = 3
  MinPerThread = 2
  BatchesPerThread = 1
  end_exclusive = 6
  ToMax = 20
  Timed = {TRUE, FALSE}
  Samplers = {"OccurrenceSampler", "HyperOccurrenceSampler"}
INVARIANTS
  EachIndexOnce
  TableComplete
  StopsPromptly
PROPERTIES
  ImplementsSampleSpec
  Termination
