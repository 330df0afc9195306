\* The server idles once the bounded clients and devices are done: the
\* model stops when frame ids and device messages are used up.
CONSTANTS
  s1 = s1
  s2 = s2
  m1 = m1
  m2 = m2
  Sockets = {s1, s2}
  Msgs = {m1}
  DeviceIds <- Device1
  CommandNames <- Commands1
  EventNames <- Events2
  Malformed = malformed
  Whitespace <- Spaces
  LowerOf <- Lower
  MaxDeviceMsgs = 2
  MaxRestarts = 1
SPECIFICATION Spec
INVARIANT TypeOK
PROPERTY CommandsAfterConfirmationPublished
CHECK_DEADLOCK FALSE
