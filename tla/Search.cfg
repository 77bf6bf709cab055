SPECIFICATION FairSpecSearch
CONSTANTS
  Posts = {p1}
  Authors = {a1}
  Departing = {}
  Texts = {x1}
  Tags = {g1}
  Repeats = FALSE
  Requests = {r1}
  Absent = Absent
  MaxEvents = 4
  MaxFaults = 1
  MaxLosses = 1
INVARIANTS IndexConverges FaultsSkipNothing
PROPERTIES IndexCatchesUp
CHECK_DEADLOCK FALSE
