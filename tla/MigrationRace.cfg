\* Two processes start, and nothing fails.
CONSTANTS
  Starters = {s1, s2}
  MySql = FALSE
  MaxMigrationFaults = 0
SPECIFICATION MigrationSpec
INVARIANT SchemaIsComplete
CHECK_DEADLOCK FALSE
