CONSTANTS
  u1 = u1  u2 = u2  u3 = u3
  d1 = d1  d2 = d2  d3 = d3
  Users = {u1, u2, u3}
  Devices = {d1, d2, d3}
  InitialDevices = {d1, d2, d3}
  UserOf <- ThreeDeviceOwners
  Creator = u1
  Kind = "GROUP"
  MaxGroupMembers = 3
  MaxDevicesPerCommit = 2
  MaxEpoch = 2
  MaxChanges = 2
  MaxRequests = 2
  MaxMessages = 1
SPECIFICATION Spec
CHECK_DEADLOCK FALSE
INVARIANTS LeafOwnersBelong RosterReplaysLog AtMostOneOwner 
PROPERTIES MembersAreAdmittedByCommit SentOnlyToEntitledLeaves
SYMMETRY SwapOthers
