SPECIFICATION Spec
CONSTANTS
  Subs = {s1}
  Crypto = {c1}
  Cards = {k1}
  Shops <- OneGateway
  Copies = {1}
  Levels = 1
  Strict = TRUE
  MaxOps = 1
  MaxFaults = 1
  None = None
CHECK_DEADLOCK FALSE
INVARIANTS SettlementSound
PROPERTIES  LicenceFollows CommissionFollows
