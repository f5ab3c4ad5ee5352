SPECIFICATION Spec
CONSTANTS
  Messages <- PoliteMessages
  HostOps = {"CLEAR"}
  AdcSizes = {0, 18}
  DEVICE_DATA_BUFFER_SIZE = 60
  UDD_ENDPOINT_MAX_TRANS = 64
INVARIANTS JobMatchesHardware
