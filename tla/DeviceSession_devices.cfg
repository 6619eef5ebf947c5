SPECIFICATION Spec
CONSTANTS
  Charts <- OneChart
  Agents = {a1, a2}
  MaxSeats = 2
  MaxExpiries = 1
  MaxOps = 2
  MaxFaults = 2
  None = None
CHECK_DEADLOCK FALSE
INVARIANTS ChainSound SeatsRespected
PROPERTIES RevokedLeaseFinal Reconnects
