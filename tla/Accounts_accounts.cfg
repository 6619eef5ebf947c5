CONSTANTS
  Reqs = {r1, r2}
  Links = {l1}
  Chals = {c1}
  MaxFailures = 2
  MaxOtp = 2
  MaxChanges = 2
  MaxOps = 4
  MaxFaults = 1
SYMMETRY RequestSymmetry
SPECIFICATION Spec
INVARIANTS TypeOK ResetOnce OldSessionsOvertaken GuessesBounded
CHECK_DEADLOCK FALSE
