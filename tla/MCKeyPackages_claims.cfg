CONSTANTS
  Packages = {s1, s2, s3, l1}
  LastResorts = {l1}
  Claims = {c1, c2, c3}
  NoPackage = NoPackage
  MaxClaimAttempts = 2
SPECIFICATION Spec
CHECK_DEADLOCK FALSE
INVARIANTS SingleUseGivenOnce
PROPERTIES RevokedGivesNothing
SYMMETRY Alike
