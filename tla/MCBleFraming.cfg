CONSTANTS
  Messages <- MCMessages
  Stamps = {128, 247}
  DeviceStamps = {240}
  Bundles <- MCBundles
  Noise <- MCNoise
  Mtu = 5
  MaxMessages = 2
  MaxAliens = 2
  MaxWire = 1
SPECIFICATION Spec
INVARIANTS
  TypeOK
  PacketsFit
  MessagesDelimited
  RoundTrip
  SysexResyncs
CHECK_DEADLOCK FALSE
