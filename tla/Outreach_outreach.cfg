CONSTANTS
  Emails = {e1, e2}
  Subscribed = {e1}
  Reqs = {r1, r2}
  Sends = {s1, s2}
  Loads <- Together
  MaxAttempts = 2
  MaxRecipients = 2
  MaxChallenges = 2
  MaxFaults = 1
  None = None
SPECIFICATION Spec
INVARIANTS CodesSound  UnsubscribedSpared
PROPERTIES SendingEnds
CHECK_DEADLOCK FALSE
