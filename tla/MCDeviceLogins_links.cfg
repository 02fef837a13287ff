CONSTANTS
  Devices = {d1, d2, d3}
  Logins = {s1}
  LinkRequests = {r1, r2, r3}
  SignOuts = {q1}
  NoDevice = NoDevice
  NoLogin = NoLogin
  MaxActiveDevices = 2
  MaxAge = 2
SPECIFICATION Spec
CHECK_DEADLOCK FALSE
INVARIANTS CapHolds 
PROPERTIES LinksMoveOnlyOffDeadDevices
SYMMETRY Symmetry
