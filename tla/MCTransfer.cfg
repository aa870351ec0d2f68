SPECIFICATION MCSpec
CONSTANTS
  Routine = {1, 2}
  PAGESIZE = 2
  Requests <- MCRequests
  Directories <- MCDirectories
  MaxFaults = 1
  Logs = {log1, log2}
  Others = {other}
  NewLog = log3
  EOF = EOF
  DIR = DIR
  Client = {c1, c2}
  MaxTexts = 2
INVARIANTS
  TransferKept
PROPERTIES
  TransferEnds
\* The programs end.
CHECK_DEADLOCK FALSE
