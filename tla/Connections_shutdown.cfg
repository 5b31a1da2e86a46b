SPECIFICATION FairSpec
CONSTANTS
  Conn = {c1, c2, c3}
  Device = {d1}
  None = None
  DeviceOf <- MCDeviceOf
CHECK_DEADLOCK FALSE
INVARIANTS TypeOK DisplacedIsTold OverdueIsTold
PROPERTY ShutdownEndsAll
