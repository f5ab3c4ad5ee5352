SPECIFICATION Spec
CONSTANTS
  Messages <- AnyMessages
  HostOps = {"ABORT", "HALT", "UNSTALL", "UNCONFIGURE", "REUSE"}
  AdcSizes = {0, 18}
  DEVICE_DATA_BUFFER_SIZE = 60
  UDD_ENDPOINT_MAX_TRANS = 64
INVARIANTS JobMatchesHardware CountsAddUp
PROPERTIES ReplyStable
