\* A command in the background that ends before the shell has announced it.
SPECIFICATION Spec
CONSTANTS
  MaxJobs = 2
  MaxJid = 3
  Pids <- MCPids
  Letters <- MCLetters
  Lines <- MCFewLines
PROPERTIES
  BackgroundReturns
