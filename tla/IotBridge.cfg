SPECIFICATION BridgeSpec
CONSTANTS
  d = d
  e = e
  h = h
  Nameless = nameless
  Devices <- MCDevices
  Callers <- MCCallers
  IotKey = iot
  NoKey = none
  MaxMessages = 2
  MaxLosses = 1
  MaxRepeats = 1
INVARIANT EachItsOwn
PROPERTY NotLeftWaiting
CHECK_DEADLOCK FALSE
