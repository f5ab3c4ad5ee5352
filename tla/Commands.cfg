SPECIFICATION Spec
CONSTANTS
  Requests <- TwoSetsAndARefusal
  HostOps = {"ADD", "RM", "STOP", "START", "READ", "RST"}
  ReadSizes = {5}
  HeapCells = 2
  BUFFER_LENGTH = 5
  ADC_BYTES_PER_SAMPLE = 2
  MaxOverflows = 1
INVARIANTS TypeOK SectionsKept NoTornSample UnreadAccounted CountExact StatusMatchesDevice
  HandshakeExclusive BufferBounded
