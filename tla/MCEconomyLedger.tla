---------------------------- MODULE MCEconomyLedger ----------------------------
(* Two users, a post of the first and a comment of the second on it, one cosmetic item.           *)
EXTENDS EconomyLedger

CONSTANTS p, c, item

TwoAuthors == p :> 1 @@ c :> 2
CommentOnPost == c :> p

Request(op, who, on, arg) == [op |-> op, who |-> who, on |-> on, arg |-> arg]

Calls == {
  Request("LIKE", 1, c, 0), Request("COMMENT", 2, c, 0),
  Request("CHECKIN", 1, 0, 0), Request("ADJUST", 1, "SHARDS", -1),
  Request("HIDE", 0, c, "COMMUNITY"), Request("HIDE", 0, c, "PLATFORM"),
  Request("UNHIDE", 0, c, "PLATFORM"), Request("REVERSE", 0, c, "PLATFORM"),
  Request("TAKEDOWN", 0, item, 0), Request("REACTIVATE", 0, item, 0),
  Request("GRANT", 1, item, 0), Request("EQUIP", 2, item, 0)}

OwnedBySecond == item :> {2}

\* The first interaction of the day earns a point, then every second one; the first like of a content is a milestone.
SmallSteps == <<[upTo |-> 1, per |-> 1], [upTo |-> 9, per |-> 2]>>
FirstIsMilestone == 1 :> 2
TwoRanks == <<[lifetime |-> 1, keep |-> 0], [lifetime |-> 2, keep |-> 2]>>
=============================================================================
