\* One crash, and nothing else goes wrong: between the commit and the start of a
\* workflow.
CONSTANTS
  Events = {e1}
  Keyed = {e1}
  Malformed = {}
  Targets = {t1}
  Endpoints = {}
  Workflows = {w1}
  Strict = {}
  Requests = {r1}
  Drivers = {"sqlx"}
  MaxDisturbances = 1
  RowCap = 2
SPECIFICATION CrashSpec
PROPERTY NothingIsLost
