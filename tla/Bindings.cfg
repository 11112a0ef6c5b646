\* Two edits of an ordinary document in a build with three drivers and the RDS
\* provider; a call with up to one row more than is served; two registrations
\* over a cache and a table that is empty in between.
SPECIFICATION MCSpec
CONSTANTS
  MaxRows = 2
  MaxBatch = 3
  Caller = {c1}
  MaxChanges = 2
  MaxRuntimes = 2
  Empty = {2}
  Compiled = {"postgres", "mysql", "mariadb", "sqlite"}
  Providers = {"rds_iam"}
  MaxEdits = 2
INVARIANTS
  AppliedAtMostOnce
  BilledOnce
  HitsAreFresh
  DeclaredIsDone
  SubmittedWasGated
  ManagedValuesWin
CHECK_DEADLOCK FALSE
