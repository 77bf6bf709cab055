\* The first deployment: auth-service may be up before user-service.
SPECIFICATION FairSpec
CONSTANTS
  Users = {u1, u2}
  Names = {boss, ann}
  AdminName = boss
  Roles = {"user", "admin"}
  Requests = {r1}
  Absent = Absent
  MaxEvents = 1
  MaxFaults = 0
PROPERTIES AdminGetsProfile
CHECK_DEADLOCK FALSE
