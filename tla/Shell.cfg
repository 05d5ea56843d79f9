\* Every kind of command line with every handler, two processes at a time; the
\* lines are those parseline() makes, over every short text.
SPECIFICATION Spec
CONSTANTS
  MaxJobs = 2
  MaxJid = 3
  Pids <- MCPids
  Letters <- MCLetters
  Lines <- MCLines
INVARIANTS
  TypeOK
  ListedAreChildren
  ForegroundIsAwaited
  NothingUnnoticed
  LinesAreParsed
PROPERTIES
  AliveStaysListed
