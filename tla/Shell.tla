------------------------------- MODULE Shell --------------------------------
(* The shell: job control, and the scan that makes the lines it runs.      *)
EXTENDS JobControl, ParseLine

\* What the shell runs is what was typed: every spelling of the lines of the
\* grammar is understood, and nothing of a short text is lost. Stated of the
\* state before the first line: parseline keeps none of its own.
LinesAreParsed == Init => GrammarIsParsed /\ NothingIsLost

=============================================================================
