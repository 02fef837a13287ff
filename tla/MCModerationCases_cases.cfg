CONSTANTS
  case1 = case1  case2 = case2  rep1 = rep1  rep2 = rep2  post = post
  admin = admin  mod = mod  plat = plat  game = game  platform = platform
  Cases = {case1, case2}
  Reporters = {rep1, rep2}
  Targets = {post}
  Moderators = {admin, mod, plat}
  Games = {game}
  Platform = platform
  ScopeOf <- GamePost
  Candidates <- OneRightEach
  Admin = admin
  MaxTries = 2
SPECIFICATION Spec
SYMMETRY Interchangeable
INVARIANTS OneActiveCasePerTarget 
PROPERTIES ReportsJoinActiveCases
