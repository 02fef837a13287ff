CONSTANTS
  u1 = u1  u2 = u2  u3 = u3
  d1 = d1  d2 = d2  d3 = d3
  Users = {u1, u2}
  Devices = {d1, d2, d3}
  InitialDevices = {d1, d2}
  UserOf <- TwoUserOwners
  Creator = u1
  Kind = "DIRECT"
  MaxGroupMembers = 3
  MaxDevicesPerCommit = 2
  MaxEpoch = 3
  MaxChanges = 3
  MaxRequests = 2
  MaxMessages = 0
SPECIFICATION Spec
CHECK_DEADLOCK FALSE
INVARIANTS LeavingHasLeafToRemove
PROPERTIES PromiseKept
