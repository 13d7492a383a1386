\* A test request whose outcome is not recorded.
CONSTANTS
  Tasks = {t1}
  Threshold = 1
  Cooldown = 1
  Deadline = 0
  MaxDisturbances = 1
SPECIFICATION FairSpec
PROPERTY EventuallyProbed
