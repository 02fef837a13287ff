CONSTANTS
  s1 = s1  s2 = s2  v1 = v1  v2 = v2  mod = mod  plat = plat  q1 = q1  q2 = q2
  Sanctions = {s1, s2}
  Findings = {v1, v2}
  Staff = {mod, plat}
  WorksFor <- Workspaces
  Requests = {q1, q2}
  Types = {"WARNING", "COMMUNITY_BAN", "PLATFORM_SUSPENSION"}
  Durations = {1, 2}
  MaxTime = 2
  MaxAdjusted = 1
SPECIFICATION Spec
SYMMETRY Interchangeable
INVARIANTS ReversalReachesConsequences OneSanctionInForce
PROPERTIES DecisionsEndForGood
CHECK_DEADLOCK FALSE
