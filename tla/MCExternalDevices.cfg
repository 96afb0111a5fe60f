SPECIFICATION Spec
CONSTANTS
  phone = phone
  tablet = tablet
  goggles = goggles
  lo = lo
  eth0 = eth0
  Ips <- MCIps
  Localhost = lo
  SelfIps <- MCSelfIps
  Contained <- MCContained
  ManualIps <- MCManualIps
INVARIANTS
  ReceiversAreDevices
  ForwardersInv
CHECK_DEADLOCK FALSE
