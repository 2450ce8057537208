CONSTANTS
  Messages <- MCMessages
  Stamps = {128}
  DeviceStamps = {247}
  Bundles <- MCSysexFirst
  Noise = {}
  Mtu = 5
  MaxMessages = 1
  MaxAliens = 0
  MaxWire = 1
SPECIFICATION Spec
INVARIANTS
  RoundTrip
CHECK_DEADLOCK FALSE
