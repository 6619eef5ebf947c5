CONSTANTS
  Tabs = {t1, t2}
  Ghosts = {g1}
  Fams = {f1, f2, f3}
  Slots = {1, 2, 3, 4}
  NoRow = NoRow
  WebLocks = TRUE
  MaxTrouble = 2
SPECIFICATION Spec
INVARIANTS OneLivePerFamily NoSelfReuse
PROPERTIES SignedInStays  InactiveSignsOut
