SPECIFICATION Spec
CONSTANTS
  Requests <- HostRequests
  USB_DEVICE_EP_CTRL_SIZE = 16
  NumConfigurations = 1
  MaxGiveUps = 1
INVARIANTS TypeOK FullAnswer StallOnlyRefused Reachable
PROPERTIES Answered KeepsPromise
