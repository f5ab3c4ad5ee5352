SPECIFICATION FairSpec
CONSTANTS
  Requests <- TwoSets
  HostOps = {"ADD", "START", "READ"}
  ReadSizes = {5}
  HeapCells = 2
  BUFFER_LENGTH = 5
  ADC_BYTES_PER_SAMPLE = 2
  MaxOverflows = 1
INVARIANTS ClaimJustified RateMatchesHead StaleAtMostOnce
PROPERTIES TickServed SamplingEnds
