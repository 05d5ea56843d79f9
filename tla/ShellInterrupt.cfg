\* Ctrl-C just after a command was started, or just after it ended.
SPECIFICATION Spec
CONSTANTS
  MaxJobs = 2
  MaxJid = 3
  Pids <- MCPids
  Letters <- MCLetters
  Lines <- MCFewLines
PROPERTIES
  InterruptSparesShell
