SPECIFICATION Spec
CONSTANTS
  Users = {u1}
  Tokens = {t1, t2}
  Keys = {k1}
  Requests = {r1, r2}
  Absent = Absent
  Exclusive = FALSE
  MaxChanges = 1
  MaxRestarts = 0
INVARIANTS PasswordChangeEndsSessions
CHECK_DEADLOCK FALSE
