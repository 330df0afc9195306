CONSTANTS
  s1 = s1
  s2 = s2
  m1 = m1
  m2 = m2
  Sockets = {s1, s2}
  Msgs = {m1}
  DeviceIds <- Device1
  CommandNames <- Commands1
  EventNames <- Events2
  Malformed = malformed
  Whitespace <- Spaces
  LowerOf <- Lower
  MaxDeviceMsgs = 2
  MaxRestarts = 1
SPECIFICATION Spec
CHECK_DEADLOCK FALSE
PROPERTY OneClientCannotCloseAnother
