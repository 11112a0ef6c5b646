\* A call of each kind and a re-registration; a handle with three callers of two
\* session variables each; tokens of 6 with a margin of 3, fetches of at most 1,
\* two failures in a row.
SPECIFICATION CallsSpec
CONSTANTS
  Query = {q1}
  Await = {a1}
  Transaction = {t1}
  MaxRuntimes = 2
  Callers = {c1, c2, c3}
  Keys = 2
  TTL = 6
  SafetyMargin = 3
  MinInterval = 1
  MaxFetch = 1
  MaxFailures = 2
  MaxAge = 16
INVARIANTS
  EarlyCallsDrained
  OwnVariables
  OkStatementsKept
  TokenValid
PROPERTIES
  ShutdownEnds
CHECK_DEADLOCK FALSE
