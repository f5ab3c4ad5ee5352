SPECIFICATION Spec
CONSTANTS
  Requests <- OneShort
  HostOps = {"ADD", "STOP", "START"}
  ReadSizes = {5}
  HeapCells = 2
  BUFFER_LENGTH = 8
  ADC_BYTES_PER_SAMPLE = 2
  MaxOverflows = 1
PROPERTY StopIsFinal
