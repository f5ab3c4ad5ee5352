SPECIFICATION Spec
CONSTANTS
  Requests <- OneSet
  HostOps = {"ADD", "RM", "STOP", "START", "READ"}
  ReadSizes = {3}
  HeapCells = 2
  BUFFER_LENGTH = 3
  ADC_BYTES_PER_SAMPLE = 2
  MaxOverflows = 2
INVARIANT CriticalSectionMasks
