SPECIFICATION Spec
CONSTANTS
  Posts = {p1}
  Authors = {a1}
  Departing = {}
  Texts = {x1}
  Tags = {g1}
  Repeats = TRUE
  Requests = {r1}
  Absent = Absent
  MaxEvents = 2
  MaxFaults = 0
INVARIANTS PostsAreAnnounced
CHECK_DEADLOCK FALSE
