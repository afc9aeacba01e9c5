\* A command of one of three kinds, issued at most twice; two streams and one fault
\* at any point.
SPECIFICATION FairSpec
CONSTANTS
  create = create
  stop = stop
  list = list
  bad = bad
  Keys = {create, list, bad}
  Kind <- MCKind
  MaxConns = 2
  Callers = {w1}
  MaxIssues = 2
  MaxCommands = 1
  MaxFaults = 1
  None = None
INVARIANTS
  ListIsStored
  SentIsAnswered
PROPERTIES
  ImplementsContract
  CleanUpIsOwn
  CommandsEnd
