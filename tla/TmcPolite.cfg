SPECIFICATION FairSpec
CONSTANTS
  Messages <- PoliteMessages
  HostOps = {"CLEAR", "UNCONFIGURE"}
  AdcSizes = {0, 18, 54}
  DEVICE_DATA_BUFFER_SIZE = 60
  UDD_ENDPOINT_MAX_TRANS = 64
INVARIANTS TypeOK NeverDeaf JobServed
PROPERTIES ListensAgain
