----------------------------- MODULE ParseLine ------------------------------
(***************************************************************************)
(* parseline() of csapsh.c: the scan that turns a command line into what   *)
(* eval() runs.  Its states are numbered "modes", every character class    *)
(* acts on them, and the line must be what the comment above it says:      *)
(*                                                                         *)
(*     cmdline = command { "|" command } [ ioredir ] ["&"]                 *)
(*     command = cmd { arg }        ioredir = ">" filename                 *)
(*                                                                         *)
(* A line is a sequence of characters: letters, a blank (space or tab),    *)
(* the three operators, the two quotes and the newline.  Behind its end    *)
(* stands the '\0' of the C string.                                        *)
(***************************************************************************)
EXTENDS Integers, Sequences, Functions

CONSTANT Letters \* every other character

Nul == "NUL"
NL == "\n"
Operators == {"|", ">", "&"}
Quotes == {"'", "\""}
Chars == Letters \cup Operators \cup Quotes \cup {" "}
AllChars == Chars \cup {NL, Nul}

ASSUME LettersAssumption ==
  /\ {"a", "b"} \subseteq Letters \* the lines checked below are made of them
  /\ Letters \cap (Operators \cup Quotes \cup {" ", NL, Nul}) = {}

\* The modes, by what may be read next.
ReadCommand == 0   \* a command, which must come
ReadArguments == 1 \* arguments, an operator or the end
ReadFilename == 2  \* a file name, which must come
ReadAmpersand == 3 \* only & or the end
ReadNewline == 4   \* only the end

At(t, pos) == IF pos <= Len(t) THEN t[pos] ELSE Nul

\* The first position from pos on with one of these characters, or the one
\* behind the '\0'.
FirstFrom(t, pos, stops) ==
  CHOOSE p \in pos .. Len(t) + 2 :
    /\ p = Len(t) + 2 \/ At(t, p) \in stops
    /\ \A q \in pos .. p - 1 : At(t, q) \notin stops

\* With no quote to look for, extra is NONE, which is '\0' and so one more
\* delimiter.
isdelim(c, extra) == (extra = Nul /\ c \in {" ", "|", ">"}) \/ c = extra

skip_whitespace(t, pos) == FirstFrom(t, pos, AllChars \ {" "})

Start == [pos |-> 1, mode |-> ReadCommand, cmds |-> <<>>, outfile |-> <<>>, res |-> "FG"]
Wrong(s) == [s EXCEPT !.res = "error"]

Pipe(s) ==
  IF s.mode # ReadArguments THEN Wrong(s) ELSE [s EXCEPT !.pos = @ + 1, !.mode = ReadCommand]

Redirect(s) ==
  IF s.mode # ReadArguments THEN Wrong(s) ELSE [s EXCEPT !.pos = @ + 1, !.mode = ReadFilename]

\* Slip in Background: after any word.
BackgroundEarly(s) ==
  IF s.mode = ReadCommand \/ s.mode = ReadNewline THEN Wrong(s)
  ELSE [s EXCEPT !.pos = @ + 1, !.mode = ReadNewline, !.res = "BG"]

Background(s) ==
  IF s.mode \notin {ReadArguments, ReadAmpersand} THEN Wrong(s)
  ELSE [s EXCEPT !.pos = @ + 1, !.mode = ReadNewline, !.res = "BG"]

\* The line's end behind blanks; the loop ends when it sees it again.
Blanks(s) == IF s.mode \in {ReadCommand, ReadFilename} THEN Wrong(s) ELSE s

\* A word is a command, an argument or the file name.
Store(s, word) ==
  CASE s.mode = ReadCommand   -> [s EXCEPT !.cmds = Append(@, <<word>>), !.mode = ReadArguments]
    [] s.mode = ReadArguments -> [s EXCEPT !.cmds[Len(s.cmds)] = Append(@, word)]
    [] s.mode = ReadFilename  -> [s EXCEPT !.outfile = <<word>>, !.mode = ReadAmpersand]

\* A word, quoted or not.  A quote that is not closed in a string without a
\* newline is searched for behind the string.
Word(t, s) ==
  LET extra == IF At(t, s.pos) \in Quotes THEN At(t, s.pos) ELSE Nul
      first == IF extra = Nul THEN s.pos ELSE s.pos + 1
      end   == FirstFrom(t, first, {c \in AllChars : c = NL \/ isdelim(c, extra)})
      past  == IF extra = Nul THEN end ELSE end + 1
  IN  CASE s.mode >= ReadAmpersand -> Wrong(s)
        [] s.mode < ReadAmpersand /\ end = Len(t) + 2 -> [s EXCEPT !.res = "overrun"]
        [] s.mode < ReadAmpersand /\ end # Len(t) + 2 /\ extra # Nul /\ At(t, end) # extra -> Wrong(s)
        [] OTHER -> [Store(s, SubSeq(t, first, end - 1)) EXCEPT !.pos = past]

\* One turn of the loop.
Turn(t, s0) ==
  LET s == [s0 EXCEPT !.pos = skip_whitespace(t, @)]
      c == At(t, s.pos)
  IN  CASE c = "|" -> Pipe(s)
        [] c = ">" -> Redirect(s)
        [] c = "&" -> Background(s)
        [] c = NL -> Blanks(s)
        [] OTHER -> Word(t, s)

\* Behind the loop: a line that breaks off.  An empty one is no error.
Finished(s) ==
  IF s.cmds # <<>> /\ s.mode \in {ReadCommand, ReadFilename} THEN Wrong(s) ELSE s

\* What comes after s; s itself once the scan is over.  A turn that changes
\* neither position nor mode is repeated for ever (at the '\0', which the loop
\* does not know).
Step(t, s) ==
  LET n == Turn(t, s)
  IN  CASE s.res \notin {"FG", "BG"} -> s
        [] s.res \in {"FG", "BG"} /\ At(t, s.pos) = NL -> Finished(s)
        [] OTHER -> IF n.res \in {"FG", "BG"} /\ n.pos = s.pos /\ n.mode = s.mode
                      THEN [n EXCEPT !.res = "loops"] ELSE n

\* The state after so many turns, and the result.  Each turn but two gets
\* further in the line.
Scan(t) ==
  LET scan[n \in 0 .. Len(t) + 2] == IF n = 0 THEN Start ELSE Step(t, scan[n - 1])
  IN  scan

parseline(t) ==
  LET last == Scan(t)[Len(t) + 2]
  IN  [cmds |-> last.cmds, outfile |-> last.outfile, res |-> last.res]

-----------------------------------------------------------------------------
(* Lines written by the grammar, and its properties on bounded lines.      *)

\* A word as it can be written: plain, or in a quote it does not contain.
Written(word, quote) ==
  IF quote = Nul THEN word ELSE <<quote>> \o word \o <<quote>>

Writable(word, quote) ==
  IF quote = Nul THEN /\ word # <<>> /\ word[1] \in Letters
                      /\ Range(word) \cap {" ", "|", ">"} = {}
  ELSE quote \notin Range(word)

Joined(parts, separator) ==
  LET joined[n \in 0 .. Len(parts)] ==
        IF n = 0 THEN <<>>
        ELSE joined[n - 1] \o (IF n = 1 THEN <<>> ELSE separator) \o parts[n]
  IN  joined[Len(parts)]

\* The text of a command line, with gap around its operators.  Words are
\* parted by a blank, and so is an &: behind a letter it is part of the word.
Argv(argv, quote) ==
  Joined([i \in DOMAIN argv |-> Written(argv[i], quote[argv[i]])], <<" ">>)

Render(typed, quote, gap) ==
  gap \o Joined([i \in DOMAIN typed.cmds |-> Argv(typed.cmds[i], quote)], gap \o <<"|">> \o gap)
  \o (IF typed.outfile = <<>> THEN <<>>
      ELSE gap \o <<">">> \o gap \o Written(typed.outfile[1], quote[typed.outfile[1]]))
  \o (IF typed.res = "BG" THEN <<" ", "&">> ELSE <<>>)
  \o gap \o <<NL>>

WordsOf(typed) ==
  Range(typed.outfile) \cup UNION {Range(typed.cmds[i]) : i \in DOMAIN typed.cmds}

\* How its words may be written.
Spellings(typed) ==
  {quote \in [WordsOf(typed) -> Quotes \cup {Nul}] :
     \A word \in WordsOf(typed) : Writable(word, quote[word])}

\* A line without its blanks and quotes.
Skeleton(t) ==
  LET kept[n \in 0 .. Len(t)] ==
        IF n = 0 THEN <<>>
        ELSE IF t[n] \in Quotes \cup {" "} THEN kept[n - 1] ELSE Append(kept[n - 1], t[n])
  IN  kept[Len(t)]

\* A line of the grammar is understood as what it says, however it is spaced
\* and its words are quoted.
Understood(typed, gap) ==
  \A quote \in Spellings(typed) : parseline(Render(typed, quote, gap)) = typed

\* A line that ends in a newline gets an answer, and nothing of a line that is
\* accepted is lost, doubled or moved: what was understood, written out, is the
\* line again, but for blanks and quotes.  A line that fgets cut off before its
\* newline is never run.
Kept(text) ==
  LET parsed == parseline(text \o <<NL>>)
  IN  /\ parsed.res \in {"FG", "BG", "error"}
      /\ parsed.res # "error" =>
           Skeleton(Render(parsed, [word \in WordsOf(parsed) |-> Nul], <<>>))
             = Skeleton(text \o <<NL>>)
      /\ parseline(text).res \notin {"FG", "BG"}

Argvs == UNION {[1 .. n -> {<<>>, <<"a">>, <<" ", "|", "'">>}] : n \in 1 .. 2}

GrammarLines ==
  [cmds : UNION {[1 .. n -> Argvs] : n \in 1 .. 2},
   outfile : {<<>>, <<<<"b", "&">>>>}, res : {"FG", "BG"}]

GrammarIsParsed == \A typed \in GrammarLines, gap \in {<<>>, <<" ">>} : Understood(typed, gap)

Texts(n) == UNION {[1 .. m -> Chars] : m \in 0 .. n}

NothingIsLost == \A text \in Texts(5) : Kept(text)

=============================================================================
