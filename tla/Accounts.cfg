SPECIFICATION Spec
CONSTANTS
  Users = {u1, u2}
  Names = {boss, ann}
  AdminName = boss
  Roles = {"user", "admin"}
  Requests = {r1, r2}
  Absent = Absent
  MaxEvents = 2
  MaxFaults = 1
SYMMETRY Symmetry
INVARIANTS TypeOK CredentialDeletionFinal RoleHasOrigin
PROPERTIES ProfileReturnsOnlyByRedelivery CredentialLifecycle
CHECK_DEADLOCK FALSE
