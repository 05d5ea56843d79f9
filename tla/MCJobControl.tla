---------------------------- MODULE MCJobControl ----------------------------
(* Values for the constants of Shell.                                      *)
EXTENDS Shell

Run(name, arg, id) == [name |-> name, arg |-> arg, id |-> id]
program == Run("program", "none", 0)

CommandLine(cmds, mode) == [cmds |-> cmds, mode |-> mode, outfile |-> FALSE]
Redirected(cmd) == [cmds |-> <<cmd>>, mode |-> FG, outfile |-> TRUE]

MCLetters == {"a", "b"}

MCPids == {1, 2}

\* a    a | a    a &    fg %1    fg %2    bg 1    fg %1 > f    jobs    quit
MCLines ==
  {CommandLine(<<program>>, FG), CommandLine(<<program, program>>, FG),
   CommandLine(<<program>>, BG),
   CommandLine(<<Run("fg", "jid", 1)>>, FG),
   CommandLine(<<Run("fg", "jid", 2)>>, FG),
   CommandLine(<<Run("bg", "pid", 1)>>, FG),
   Redirected(Run("fg", "jid", 1)),
   CommandLine(<<Run("jobs", "none", 0)>>, FG),
   CommandLine(<<Run("quit", "none", 0)>>, FG)}

\* a    a &
MCFewLines ==
  {CommandLine(<<program>>, FG), CommandLine(<<program>>, BG)}

=============================================================================
