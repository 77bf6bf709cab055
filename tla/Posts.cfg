SPECIFICATION Spec
CONSTANTS
  Posts = {p1}
  Authors = {a1}
  Departing = {a1}
  Texts = {x1, x2}
  Tags = {g1}
  Repeats = FALSE
  Requests = {r1, r2}
  Absent = Absent
  MaxEvents = 4
  MaxFaults = 1
SYMMETRY Symmetry
INVARIANTS TypeOK PublishedHasDate PublishedIsAnnounced 
PROPERTIES DeletedPostStaysGone
CHECK_DEADLOCK FALSE
