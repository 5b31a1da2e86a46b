SPECIFICATION Spec
CONSTANTS
  Conn = {c1, c2, c3}
  Device = {d1}
  None = None
  DeviceOf <- MCDeviceOf
CHECK_DEADLOCK FALSE
INVARIANT DrainedMeansNone
