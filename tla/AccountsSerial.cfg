\* One request at a time and no faults, for what only holds then.
SPECIFICATION FairSpec
CONSTANTS
  Users = {u1, u2}
  Names = {boss, ann}
  AdminName = boss
  Roles = {"user", "writer", "admin"}
  Requests = {r1}
  Absent = Absent
  MaxEvents = 2
  MaxFaults = 0
INVARIANTS RolesConverge
PROPERTIES ProfileLifecycle DeletionReachesAuth
CHECK_DEADLOCK FALSE
