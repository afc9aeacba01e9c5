\* One create command, issued twice over one stream.
SPECIFICATION Spec
CONSTANTS
  create = create
  stop = stop
  list = list
  bad = bad
  Keys = {create}
  Kind <- MCKind
  MaxConns = 1
  Callers = {w1}
  MaxIssues = 2
  MaxCommands = 1
  MaxFaults = 0
  None = None
CHECK_DEADLOCK FALSE
INVARIANTS
  RetryFindsResult
