SPECIFICATION FairSpec
CONSTANTS
  Posts = {p1, p2}
  Existing = {p1}
  Users = {u1}
  Requests = {r1}
  Absent = Absent
  MaxEvents = 2
  MaxComments = 2
  MaxFaults = 1
INVARIANTS TypeOK CommentsGoWithPostAndAuthor NoticesGoWithUser RepliesStayOnPost OneNoticePerEvent
PROPERTIES DeletionReachesComments EventsAreTold
CHECK_DEADLOCK FALSE
