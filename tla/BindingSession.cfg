\* The same documents; the claim is about the session variables of a call.
SPECIFICATION Spec
CONSTANTS
  Compiled = {"postgres", "mysql", "mariadb", "sqlite"}
  Providers = {"rds_iam"}
  MaxEdits = 2
INVARIANTS
  VariablesApplied
CHECK_DEADLOCK FALSE
