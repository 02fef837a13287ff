CONSTANTS
  p = p  c = c  item = item
  Users = {1, 2}
  Posts = {p}
  Comments = {c}
  Items = {item}
  Author <- TwoAuthors
  PostOf <- CommentOnPost
  Established = {1, 2}
  InitialOwners <- OwnedBySecond
  Requests <- Calls
  MaxOpen = 2
  MaxFlips = 1
  MaxAdjustments = 1
  LikeSteps <- SmallSteps
  CommentSteps <- SmallSteps
  Milestones <- FirstIsMilestone
  InteractionShards = 1
  CheckInShards = 1
  DailyShardCap = 1
  PayingComments = 1
  GiverCap = 2
  RefundShards = 1
  Ranks <- TwoRanks
SPECIFICATION Spec
CHECK_DEADLOCK FALSE
INVARIANTS RestoreGivesBackWhatWasTaken DailyCapHolds RankIsExact HiddenWhileRestricted NobodyWearsRemovedItems OwnersRefundedOnce 
