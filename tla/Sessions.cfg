SPECIFICATION Spec
CONSTANTS
  Users = {u1, u2}
  Tokens = {t1, t2, t3}
  Keys = {k1, k2}
  Requests = {r1, r2}
  Absent = Absent
  Exclusive = TRUE
  MaxChanges = 2
  MaxRestarts = 1
SYMMETRY Symmetry
INVARIANTS TypeOK  OneSuccessor PasswordChangeEndsSessions
CHECK_DEADLOCK FALSE
