\* The same documents; the claim is about a binding with an auth block.
SPECIFICATION Spec
CONSTANTS
  Compiled = {"postgres", "mysql", "mariadb", "sqlite"}
  Providers = {"rds_iam"}
  MaxEdits = 2
INVARIANTS
  AuthBlockLogsIn
CHECK_DEADLOCK FALSE
