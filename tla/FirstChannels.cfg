SPECIFICATION Spec
CONSTANTS
  Requests <- NarrowSet
  HostOps = {"ADD", "START"}
  ReadSizes = {5}
  HeapCells = 1
  BUFFER_LENGTH = 8
  ADC_BYTES_PER_SAMPLE = 2
  MaxOverflows = 1
INVARIANT OwnChannels
