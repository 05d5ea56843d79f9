--------------------------- MODULE ParseLineProofs ---------------------------
(***************************************************************************)
(* parseline() understands every line of the grammar, of any length, as    *)
(* what it says, and loses nothing of any line that it accepts.            *)
(*                                                                         *)
(* The proof goes turn by turn, by induction over the turns of the scan    *)
(* and over the words and commands of a line.  In one direction, what was  *)
(* read up to a position, written out, is the text up to there but for     *)
(* blanks and quotes (Reading), each turn reads on, and no turn but the    *)
(* last stays where it is.  In the other, a line of the grammar is cut     *)
(* into its pieces, from one position to the next (Spans): a state that    *)
(* the scan comes to in front of a piece (Reached) leads to one behind it. *)
(***************************************************************************)
EXTENDS ParseLine, SequenceTheorems, WellFoundedInduction, TLAPS

(***************************************************************************)
(* Induction over numbers up to a bound, and functions defined by it.      *)
(***************************************************************************)

Less == OpToRel(<, Nat)

\* The order by which LeastNumber picks.
LEMMA Descends ==
  ASSUME NEW x \in Nat, NEW y \in Nat, x < y
  PROVE  <<x, y>> \in Less
  BY Zenon DEF Less, OpToRel

\* A set of numbers that is not empty has a least one.
LEMMA LeastNumber ==
  ASSUME NEW S \in SUBSET Nat, S # {}
  PROVE  \E n \in S : \A m \in S : n <= m
<1>1. IsWellFoundedOn(Less, Nat)
  BY NatLessThanWellFounded, Zenon DEF Less
<1>2. PICK n \in S : \A m \in S : <<m, n>> \notin Less
  BY <1>1, WFMin, Zenon
<1>3. \A m \in S : ~(m < n)
  BY <1>2, Descends
<1> QED
  BY <1>3

\* Induction with a set in the place of a predicate: it holds up to N if it
\* holds for 0 and each number hands it on.
LEMMA UpTo ==
  ASSUME NEW N \in Nat, NEW S, 0 \in S,
         \A n \in 1 .. N : n - 1 \in S => n \in S
  PROVE  \A n \in 0 .. N : n \in S
<1> DEFINE Bad == {n \in 0 .. N : n \notin S}
<1>1. SUFFICES ASSUME Bad # {} PROVE FALSE
  OBVIOUS
<1>2. PICK n \in Bad : \A m \in Bad : n <= m
  <2>1. Bad \in SUBSET Nat
    OBVIOUS
  <2> HIDE DEF Bad
  <2> QED
    BY <1>1, <2>1, LeastNumber
<1>3. n \in 1 .. N /\ n - 1 \in 0 .. N /\ ~(n <= n - 1)
  BY <1>2
<1>4. n - 1 \notin Bad
  BY <1>2, <1>3
<1>5. n - 1 \in S /\ n \notin S
  BY <1>2, <1>3, <1>4
<1> QED
  BY <1>3, <1>5

\* A function by recursion up to N exists, for steps given as functions.
Steps(A, N) == [1 .. N -> [A -> A]]

Recursion(A, a, N, F) ==
  \E g \in [0 .. N -> A] : \A n \in 0 .. N : g[n] = IF n = 0 THEN a ELSE F[n][g[n - 1]]

\* There is the function of these steps.
LEMMA RecursionExists ==
  ASSUME NEW A, NEW a \in A, NEW N \in Nat, NEW F \in Steps(A, N)
  PROVE  Recursion(A, a, N, F)
<1>0. F \in [1 .. N -> [A -> A]]
  BY DEF Steps
<1> DEFINE Good(k) ==
      \E g \in [0 .. k -> A] : \A n \in 0 .. k : g[n] = IF n = 0 THEN a ELSE F[n][g[n - 1]]
    S == {k \in 0 .. N : Good(k)}
<1>1. 0 \in S
  <2> DEFINE g == [n \in 0 .. 0 |-> a]
  <2>1. g \in [0 .. 0 -> A] /\ \A n \in 0 .. 0 : g[n] = IF n = 0 THEN a ELSE F[n][g[n - 1]]
    OBVIOUS
  <2>2. Good(0)
    <3> HIDE DEF g
    <3> QED
      BY <2>1
  <2> QED
    BY <2>2
<1>2. ASSUME NEW k \in 1 .. N, k - 1 \in S
      PROVE  k \in S
  <2>1. PICK f \in [0 .. k - 1 -> A] :
          \A n \in 0 .. k - 1 : f[n] = IF n = 0 THEN a ELSE F[n][f[n - 1]]
    BY <1>2
  <2> DEFINE g == [n \in 0 .. k |-> IF n = k THEN F[k][f[k - 1]] ELSE f[n]]
  <2>2. F[k][f[k - 1]] \in A
    BY <1>0, <2>1
  <2>3. g \in [0 .. k -> A]
    BY <2>1, <2>2
  <2>4. ASSUME NEW n \in 0 .. k
        PROVE  g[n] = IF n = 0 THEN a ELSE F[n][g[n - 1]]
    <3>1. CASE n = k
      <4>1. k - 1 \in 0 .. k /\ k - 1 # k /\ k # 0
        OBVIOUS
      <4> QED
        BY <3>1, <4>1
    <3>2. CASE n # k
      <4>1. n \in 0 .. k - 1 /\ g[n] = f[n]
        BY <3>2
      <4>2. n # 0 => n - 1 \in 0 .. k /\ n - 1 # k /\ g[n - 1] = f[n - 1]
        BY <3>2
      <4> QED
        BY <2>1, <4>1, <4>2
    <3> QED
      BY <3>1, <3>2
  <2>5. Good(k)
    <3> HIDE DEF g
    <3> QED
      BY <2>3, <2>4
  <2> QED
    BY <2>5
<1>3. \A n \in 0 .. N : n \in S
  <2> HIDE DEF S
  <2> QED
    BY <1>1, <1>2, UpTo
<1>4. Good(N)
  <2>1. N \in 0 .. N
    OBVIOUS
  <2> QED
    BY <1>3, <2>1, Zenon
<1> QED
  BY <1>4, Zenon DEF Recursion


(***************************************************************************)
(* Sequences.                                                              *)
(***************************************************************************)

\* The first elements of a sequence.
LEMMA PrefixIs ==
  ASSUME NEW S, NEW q \in Seq(S), NEW n \in Nat, n <= Len(q)
  PROVE  /\ SubSeq(q, 1, n) \in Seq(S)
         /\ Len(SubSeq(q, 1, n)) = n
         /\ \A j \in 1 .. n : SubSeq(q, 1, n)[j] = q[j]
<1>1. \A j \in 1 .. n : q[j] \in S
  BY ElementOfSeq
<1>2. SubSeq(q, 1, n) \in Seq(S)
  BY <1>1, SubSeqProperties
<1>3. Len(SubSeq(q, 1, n)) = n
  BY <1>1
<1>4. \A j \in 1 .. n : SubSeq(q, 1, n)[j] = q[j]
  OBVIOUS
<1> QED
  BY <1>2, <1>3, <1>4

\* A sequence is its prefix with the last element behind it.
LEMMA PrefixAppend ==
  ASSUME NEW S, NEW q \in Seq(S), NEW n \in 1 .. Len(q)
  PROVE  SubSeq(q, 1, n) = Append(SubSeq(q, 1, n - 1), q[n])
<1>0. n \in Nat /\ n - 1 \in Nat /\ n - 1 <= Len(q) /\ n <= Len(q) /\ Len(q) \in Nat
  OBVIOUS
<1> DEFINE a == SubSeq(q, 1, n)
           b == SubSeq(q, 1, n - 1)
<1>1. a \in Seq(S) /\ Len(a) = n /\ \A j \in 1 .. n : a[j] = q[j]
  BY <1>0, PrefixIs
<1>2. b \in Seq(S) /\ Len(b) = n - 1 /\ \A j \in 1 .. n - 1 : b[j] = q[j]
  BY <1>0, PrefixIs
<1>3. q[n] \in S
  BY ElementOfSeq
<1> HIDE DEF a, b
<1>4. /\ Append(b, q[n]) \in Seq(S) /\ Len(Append(b, q[n])) = Len(b) + 1
      /\ \A j \in 1 .. Len(b) : Append(b, q[n])[j] = b[j]
      /\ Append(b, q[n])[Len(b) + 1] = q[n]
  BY <1>2, <1>3, AppendProperties
<1>5. Len(a) = Len(Append(b, q[n])) /\ \A j \in 1 .. Len(a) : a[j] = Append(b, q[n])[j]
  BY <1>0, <1>1, <1>2, <1>4
<1>6. a = Append(b, q[n])
  BY <1>1, <1>4, <1>5, SeqEqual
<1> QED
  BY <1>6 DEF a, b

(***************************************************************************)
(* Texts and the searches in them.                                         *)
(***************************************************************************)

\* What parseline() gets: characters, and a newline perhaps.
LineText == Seq(Chars \cup {NL})

\* The characters differ from one another.
LEMMA CharsApart ==
  /\ \A c \in Letters : c \notin {"|", ">", "&", "'", "\"", " ", NL, Nul}
  /\ NL \notin Chars /\ Nul \notin Chars \cup {NL}
  BY LettersAssumption DEF LettersAssumption, Operators, Quotes, Chars, NL, Nul

\* What is at a position of a text.
LEMMA AtIs ==
  ASSUME NEW t \in LineText
  PROVE  /\ Len(t) \in Nat
         /\ \A p \in Nat \ {0} : At(t, p) \in AllChars
         /\ \A p \in 1 .. Len(t) : At(t, p) = t[p] /\ At(t, p) \in Chars \cup {NL} /\ At(t, p) # Nul
         /\ \A p \in Nat : p > Len(t) => At(t, p) = Nul
<1>1. Len(t) \in Nat /\ \A p \in 1 .. Len(t) : t[p] \in Chars \cup {NL}
  BY DEF LineText
<1>2. \A p \in 1 .. Len(t) : At(t, p) = t[p]
  BY <1>1 DEF At
<1>3. \A p \in Nat : p > Len(t) => At(t, p) = Nul
  BY <1>1 DEF At
<1>4. \A p \in Nat \ {0} : p \in 1 .. Len(t) \/ p > Len(t)
  BY <1>1
<1> QED
  BY <1>1, <1>2, <1>3, <1>4, CharsApart DEF AllChars

\* A search stops at the first of the characters it looks for, or behind the
\* end of the string.
LEMMA FirstFromIs ==
  ASSUME NEW t \in LineText, NEW pos \in 1 .. Len(t) + 2, NEW stops
  PROVE  LET p == FirstFrom(t, pos, stops)
         IN  /\ p \in pos .. Len(t) + 2
             /\ p = Len(t) + 2 \/ At(t, p) \in stops
             /\ \A q \in pos .. p - 1 : At(t, q) \notin stops
<1> DEFINE S == {p \in pos .. Len(t) + 2 : p = Len(t) + 2 \/ At(t, p) \in stops}
<1>1. Len(t) \in Nat
  BY AtIs
<1>2. S \in SUBSET Nat /\ Len(t) + 2 \in S
  BY <1>1
<1>3. PICK p \in S : \A q \in S : p <= q
  <2> HIDE DEF S
  <2> QED
    BY <1>2, LeastNumber
<1>4. \A q \in pos .. p - 1 : At(t, q) \notin stops
  <2> SUFFICES ASSUME NEW q \in pos .. p - 1, At(t, q) \in stops PROVE FALSE
    OBVIOUS
  <2>1. q \in S /\ ~(p <= q)
    BY <1>1, <1>3
  <2> QED
    BY <1>3, <2>1
<1>5. p \in pos .. Len(t) + 2 /\ (p = Len(t) + 2 \/ At(t, p) \in stops)
  BY <1>3
<1> QED
  BY <1>4, <1>5, Zenon DEF FirstFrom

\* It is at the only place where it can be.
LEMMA FirstFromThere ==
  ASSUME NEW t \in LineText, NEW pos \in 1 .. Len(t) + 2, NEW stops,
         NEW p \in pos .. Len(t) + 1, At(t, p) \in stops,
         \A q \in pos .. p - 1 : At(t, q) \notin stops
  PROVE  FirstFrom(t, pos, stops) = p
<1> DEFINE r == FirstFrom(t, pos, stops)
<1>1. /\ r \in pos .. Len(t) + 2
      /\ r = Len(t) + 2 \/ At(t, r) \in stops
      /\ \A q \in pos .. r - 1 : At(t, q) \notin stops
  BY FirstFromIs
<1> HIDE DEF r
<1>2. Len(t) \in Nat
  BY AtIs
<1>3. CASE r < p
  <2>1. r \in pos .. p - 1 /\ r # Len(t) + 2
    BY <1>1, <1>2, <1>3
  <2> QED
    BY <1>1, <2>1
<1>4. CASE p < r
  <2>1. p \in pos .. r - 1
    BY <1>1, <1>2, <1>4
  <2> QED
    BY <1>1, <2>1
<1>5. r = p
  BY <1>1, <1>2, <1>3, <1>4
<1> QED
  BY <1>5 DEF r

\* Behind the blanks, at the '\0' at the latest.
LEMMA SkipIs ==
  ASSUME NEW t \in LineText, NEW pos \in 1 .. Len(t) + 1
  PROVE  LET p == skip_whitespace(t, pos)
         IN  /\ p \in pos .. Len(t) + 1
             /\ At(t, p) # " "
             /\ \A q \in pos .. p - 1 : At(t, q) = " "
<1> DEFINE r == skip_whitespace(t, pos)
<1>1. Len(t) \in Nat /\ pos \in 1 .. Len(t) + 2
  BY AtIs
<1>2. /\ r \in pos .. Len(t) + 2
      /\ r = Len(t) + 2 \/ At(t, r) \in AllChars \ {" "}
      /\ \A q \in pos .. r - 1 : At(t, q) \notin AllChars \ {" "}
  BY <1>1, FirstFromIs DEF skip_whitespace
<1> HIDE DEF r
<1>3. At(t, Len(t) + 1) = Nul /\ Nul \in AllChars \ {" "}
  BY <1>1, AtIs DEF AllChars, Nul
<1>4. r # Len(t) + 2
  <2> SUFFICES ASSUME r = Len(t) + 2 PROVE FALSE
    OBVIOUS
  <2>1. Len(t) + 1 \in pos .. r - 1
    BY <1>1
  <2> QED
    BY <1>2, <1>3, <2>1
<1>5. \A q \in pos .. r - 1 : At(t, q) \in AllChars
  <2>0. r \in pos .. Len(t) + 2
    BY <1>2
  <2>1. \A q \in pos .. r - 1 : q \in Nat \ {0}
    BY ONLY <1>1, <2>0
  <2> QED
    BY <2>1, AtIs
<1>6. r \in pos .. Len(t) + 1
  <2>1. r \in pos .. Len(t) + 2
    BY <1>2
  <2> QED
    BY <1>1, <1>4, <2>1
<1> QED
  BY <1>2, <1>4, <1>5, <1>6 DEF r

(***************************************************************************)
(* One turn.                                                               *)
(***************************************************************************)

Words == Seq(Chars)
Vectors == Seq(Words) \ {<<>>}
Running == {"FG", "BG"}

\* The states of the scan of a text.
ScanStates(t) ==
  [pos : 1 .. Len(t) + 1, mode : 0 .. 4, cmds : Seq(Vectors),
   outfile : {<<>>} \cup {<<w>> : w \in Words}, res : Running \cup {"error", "overrun", "loops"}]

\* What the modes mean.
Proper(s) ==
  /\ s.mode # ReadCommand => s.cmds # <<>>
  /\ s.mode \in {ReadCommand, ReadArguments, ReadFilename} => s.outfile = <<>>
  /\ s.mode = ReadAmpersand => s.outfile # <<>>
  /\ s.res = "BG" <=> s.mode = ReadNewline

Modes == {ReadCommand, ReadArguments, ReadFilename, ReadAmpersand, ReadNewline}

\* The modes are five numbers.
LEMMA ModesApart ==
  /\ Modes = 0 .. 4
  /\ ReadCommand # ReadArguments /\ ReadCommand # ReadFilename
  /\ ReadArguments # ReadFilename
  /\ \A m \in Modes : m >= ReadAmpersand <=> m \in {ReadAmpersand, ReadNewline}
  /\ \A m \in Modes : m < ReadAmpersand <=> m \in {ReadCommand, ReadArguments, ReadFilename}
  /\ ReadAmpersand # ReadNewline /\ ReadAmpersand \notin {ReadCommand, ReadArguments, ReadFilename}
  /\ ReadNewline \notin {ReadCommand, ReadArguments, ReadFilename}
  BY DEF Modes, ReadCommand, ReadArguments, ReadFilename, ReadAmpersand, ReadNewline

\* From pos up to next stands the word, plain or in quotes.
WordAt(t, pos, next, word) ==
  \/ /\ word = SubSeq(t, pos, next - 1)
     /\ next > pos \/ (next = pos /\ At(t, pos) = Nul)
     /\ At(t, pos) \notin Quotes
  \/ /\ next >= pos + 2
     /\ word = SubSeq(t, pos + 1, next - 2)
     /\ At(t, pos) \in Quotes /\ At(t, next - 1) = At(t, pos)

\* Where the search of Word ends.
WordStops(extra) == {c \in AllChars : c = NL \/ isdelim(c, extra)}

\* It ends at the line's end, and at a delimiter or the quote.
LEMMA StopsAre ==
  /\ WordStops(Nul) = {" ", "|", ">", NL, Nul}
  /\ \A extra \in Quotes : WordStops(extra) = {extra, NL}
  BY CharsApart DEF WordStops, isdelim, AllChars, Chars, Operators, Quotes, NL, Nul

\* What stands between two positions of the line is a word.
LEMMA Between ==
  ASSUME NEW t \in LineText, NEW p \in Nat \ {0}, NEW q \in Nat, q <= Len(t) + 1,
         \A i \in p .. q - 1 : At(t, i) # NL
  PROVE  SubSeq(t, p, q - 1) \in Words
<1>1. Len(t) \in Nat
  BY AtIs
<1>2. ASSUME NEW i \in p .. q - 1
      PROVE  t[i] \in Chars
  <2>1. i \in 1 .. Len(t)
    BY <1>1
  <2> QED
    BY <2>1, AtIs
<1>3. p \in Int /\ q - 1 \in Int
  OBVIOUS
<1> QED
  BY ONLY <1>2, <1>3, SubSeqProperties DEF Words

\* A plain word.
LEMMA PlainWord ==
  ASSUME NEW t \in LineText, NEW s \in ScanStates(t), s.mode < ReadAmpersand,
         At(t, s.pos) \notin Quotes
  PROVE  \E word \in Words, next \in s.pos .. Len(t) + 1 :
           /\ Word(t, s) = [Store(s, word) EXCEPT !.pos = next]
           /\ word = SubSeq(t, s.pos, next - 1)
           /\ At(t, next) \in WordStops(Nul)
           /\ \A q \in s.pos .. next - 1 : At(t, q) \notin WordStops(Nul)
<1> DEFINE end == FirstFrom(t, s.pos, WordStops(Nul))
<1>1. Len(t) \in Nat /\ s.pos \in 1 .. Len(t) + 2
  BY AtIs DEF ScanStates
<1>2. /\ end \in s.pos .. Len(t) + 2
      /\ end = Len(t) + 2 \/ At(t, end) \in WordStops(Nul)
      /\ \A q \in s.pos .. end - 1 : At(t, q) \notin WordStops(Nul)
  BY <1>1, FirstFromIs
<1>3. Word(t, s) = IF end = Len(t) + 2 THEN [s EXCEPT !.res = "overrun"]
                   ELSE [Store(s, SubSeq(t, s.pos, end - 1)) EXCEPT !.pos = end]
  <2>1. ~(s.mode >= ReadAmpersand)
    BY ModesApart DEF ScanStates
  <2> QED
    BY <2>1, Zenon DEF Word, WordStops
<1> HIDE DEF end
<1>4. At(t, Len(t) + 1) = Nul /\ Nul \in WordStops(Nul)
  <2>1. At(t, Len(t) + 1) = Nul
    BY <1>1, AtIs
  <2> QED
    BY <2>1, StopsAre, Zenon
<1>5. end # Len(t) + 2
  <2> SUFFICES ASSUME end = Len(t) + 2 PROVE FALSE
    OBVIOUS
  <2>1. Len(t) + 1 \in s.pos .. end - 1
    BY <1>1 DEF ScanStates
  <2> QED
    BY <1>2, <1>4, <2>1
<1>6. end \in s.pos .. Len(t) + 1
  BY <1>1, <1>2, <1>5
<1>7. SubSeq(t, s.pos, end - 1) \in Words
  <2>1. NL \in WordStops(Nul)
    BY StopsAre
  <2>2. end \in Nat /\ end <= Len(t) + 1 /\ s.pos \in Nat \ {0}
    BY <1>1, <1>6
  <2> QED
    BY <1>2, <2>1, <2>2, Between
<1> QED
  BY <1>2, <1>3, <1>5, <1>6, <1>7

\* A word in quotes, if they are closed in the line.
LEMMA QuotedWord ==
  ASSUME NEW t \in LineText, NEW s \in ScanStates(t), s.mode < ReadAmpersand,
         At(t, s.pos) \in Quotes
  PROVE  LET end == FirstFrom(t, s.pos + 1, WordStops(At(t, s.pos)))
         IN  /\ end \in s.pos + 1 .. Len(t) + 2
             /\ \A q \in s.pos + 1 .. end - 1 : At(t, q) \notin {At(t, s.pos), NL}
             /\ \/ /\ end = Len(t) + 2
                   /\ Word(t, s) = [s EXCEPT !.res = "overrun"]
                \/ /\ end # Len(t) + 2 /\ At(t, end) # At(t, s.pos)
                   /\ Word(t, s) = Wrong(s)
                \/ /\ end # Len(t) + 2 /\ At(t, end) = At(t, s.pos)
                   /\ end \in s.pos + 1 .. Len(t)
                   /\ SubSeq(t, s.pos + 1, end - 1) \in Words
                   /\ Word(t, s) = [Store(s, SubSeq(t, s.pos + 1, end - 1)) EXCEPT !.pos = end + 1]
<1> DEFINE extra == At(t, s.pos)
           end == FirstFrom(t, s.pos + 1, WordStops(extra))
<1>0. extra # Nul /\ extra # NL
  BY CharsApart DEF Chars, Quotes
<1>1. Len(t) \in Nat /\ s.pos + 1 \in 1 .. Len(t) + 2 /\ s.pos \in Nat
  BY AtIs DEF ScanStates
<1>2. /\ end \in s.pos + 1 .. Len(t) + 2
      /\ end = Len(t) + 2 \/ At(t, end) \in WordStops(extra)
      /\ \A q \in s.pos + 1 .. end - 1 : At(t, q) \notin WordStops(extra)
  BY <1>1, FirstFromIs
<1>3. Word(t, s) = IF end = Len(t) + 2 THEN [s EXCEPT !.res = "overrun"]
                   ELSE IF At(t, end) # extra THEN Wrong(s)
                   ELSE [Store(s, SubSeq(t, s.pos + 1, end - 1)) EXCEPT !.pos = end + 1]
  <2>1. ~(s.mode >= ReadAmpersand)
    BY ModesApart DEF ScanStates
  <2> QED
    BY <1>0, <2>1, Zenon DEF Word, WordStops
<1>4. \A q \in s.pos + 1 .. end - 1 : At(t, q) \notin {extra, NL}
  BY <1>2, StopsAre
<1>5. ASSUME end # Len(t) + 2, At(t, end) = extra
      PROVE  end \in s.pos + 1 .. Len(t) /\ SubSeq(t, s.pos + 1, end - 1) \in Words
  <2> HIDE DEF end, extra
  <2>1. end \in Nat /\ end # Len(t) + 1
    BY <1>0, <1>1, <1>2, <1>5, AtIs
  <2>2. end \in s.pos + 1 .. Len(t)
    BY <1>1, <1>2, <1>5, <2>1
  <2>3. s.pos + 1 \in Nat \ {0} /\ end <= Len(t) + 1
    BY <1>1, <2>2
  <2> QED
    BY <1>4, <2>1, <2>2, <2>3, Between
<1> QED
  BY <1>2, <1>3, <1>4, <1>5

\* A state that is changed in its fields to values of their types.
LEMMA StateWith ==
  ASSUME NEW t, NEW pos \in 1 .. Len(t) + 1, NEW mode \in 0 .. 4, NEW cmds \in Seq(Vectors),
         NEW outfile \in {<<>>} \cup {<<w>> : w \in Words},
         NEW res \in Running \cup {"error", "overrun", "loops"}
  PROVE  [pos |-> pos, mode |-> mode, cmds |-> cmds, outfile |-> outfile, res |-> res] \in ScanStates(t)
  BY DEF ScanStates

\* A word appended to the arguments of the last command.
LEMMA LastVector ==
  ASSUME NEW cmds \in Seq(Vectors), cmds # <<>>, NEW word \in Words
  PROVE  /\ Append(cmds[Len(cmds)], word) \in Vectors
         /\ [cmds EXCEPT ![Len(cmds)] = Append(@, word)] \in Seq(Vectors)
         /\ [cmds EXCEPT ![Len(cmds)] = Append(@, word)]
              = Append(SubSeq(cmds, 1, Len(cmds) - 1), Append(cmds[Len(cmds)], word))
<1>1. Len(cmds) \in Nat /\ Len(cmds) >= 1 /\ Len(cmds) \in 1 .. Len(cmds)
  <2>1. Len(cmds) \in Nat \ {0}
    BY EmptySeq
  <2> QED
    BY <2>1
<1>2. cmds[Len(cmds)] \in Vectors
  BY <1>1, ElementOfSeq
<1>3. Append(cmds[Len(cmds)], word) \in Vectors
  BY <1>2, AppendProperties DEF Vectors
<1> DEFINE v == Append(cmds[Len(cmds)], word)
           new == [cmds EXCEPT ![Len(cmds)] = v]
           front == SubSeq(cmds, 1, Len(cmds) - 1)
<1> HIDE DEF v
<1>4. /\ new \in Seq(Vectors) /\ Len(new) = Len(cmds)
      /\ \A j \in 1 .. Len(cmds) : new[j] = IF j = Len(cmds) THEN v ELSE cmds[j]
  <2>1. v \in Vectors
    BY <1>3 DEF v
  <2> QED
    BY <1>1, <2>1, ExceptSeq
<1>5. /\ front \in Seq(Vectors) /\ Len(front) = Len(cmds) - 1
      /\ \A j \in 1 .. Len(cmds) - 1 : front[j] = cmds[j]
  <2>1. Len(cmds) - 1 \in Nat /\ Len(cmds) - 1 <= Len(cmds)
    BY <1>1
  <2> QED
    BY <2>1, PrefixIs
<1>6. /\ Append(front, v) \in Seq(Vectors) /\ Len(Append(front, v)) = Len(front) + 1
      /\ \A j \in 1 .. Len(front) : Append(front, v)[j] = front[j]
      /\ Append(front, v)[Len(front) + 1] = v
  <2>1. v \in Vectors
    BY <1>3 DEF v
  <2> HIDE DEF front
  <2> QED
    BY <1>5, <2>1, AppendProperties
<1>7. new = Append(front, v)
  <2> HIDE DEF new, front
  <2>1. Len(new) = Len(Append(front, v))
    BY <1>1, <1>4, <1>5, <1>6
  <2>2. \A j \in 1 .. Len(new) : new[j] = Append(front, v)[j]
    BY <1>1, <1>4, <1>5, <1>6
  <2> QED
    BY <1>4, <1>6, <2>1, <2>2, SeqEqual
<1> QED
  BY <1>3, <1>4, <1>7 DEF v


\* What storing a word makes of a state, and moving on behind it.
StoredAs(s, word, next, n) ==
  \/ /\ s.mode = ReadCommand
     /\ n = [pos |-> next, mode |-> ReadArguments, cmds |-> Append(s.cmds, <<word>>),
             outfile |-> s.outfile, res |-> s.res]
  \/ /\ s.mode = ReadArguments
     /\ n = [pos |-> next, mode |-> ReadArguments,
             cmds |-> [s.cmds EXCEPT ![Len(s.cmds)] = Append(@, word)],
             outfile |-> s.outfile, res |-> s.res]
  \/ /\ s.mode = ReadFilename
     /\ n = [pos |-> next, mode |-> ReadAmpersand, cmds |-> s.cmds,
             outfile |-> <<word>>, res |-> s.res]

\* Store puts the word where the mode says.
LEMMA StoreIs ==
  ASSUME NEW t, NEW s \in ScanStates(t), s.mode < ReadAmpersand, NEW word, NEW next
  PROVE  StoredAs(s, word, next, [Store(s, word) EXCEPT !.pos = next])
<1>1. CASE s.mode = ReadCommand
  <2> DEFINE cmds == Append(s.cmds, <<word>>)
  <2>1. Store(s, word) = [s EXCEPT !.cmds = cmds, !.mode = ReadArguments]
    BY <1>1, ModesApart DEF Store
  <2> HIDE DEF cmds
  <2>2. Store(s, word) = [pos |-> s.pos, mode |-> ReadArguments, cmds |-> cmds,
                          outfile |-> s.outfile, res |-> s.res]
    BY <2>1 DEF ScanStates
  <2>3. [Store(s, word) EXCEPT !.pos = next]
          = [pos |-> next, mode |-> ReadArguments, cmds |-> cmds, outfile |-> s.outfile, res |-> s.res]
    BY <2>2
  <2> QED
    BY <1>1, <2>3 DEF StoredAs, cmds
<1>2. CASE s.mode = ReadArguments
  <2> DEFINE cmds == [s.cmds EXCEPT ![Len(s.cmds)] = Append(@, word)]
  <2>1. Store(s, word) = [s EXCEPT !.cmds = cmds]
    BY <1>2, ModesApart DEF Store, ScanStates
  <2> HIDE DEF cmds
  <2>2. Store(s, word) = [pos |-> s.pos, mode |-> s.mode, cmds |-> cmds,
                          outfile |-> s.outfile, res |-> s.res]
    BY <2>1 DEF ScanStates
  <2>3. [Store(s, word) EXCEPT !.pos = next]
          = [pos |-> next, mode |-> ReadArguments, cmds |-> cmds, outfile |-> s.outfile, res |-> s.res]
    BY <1>2, <2>2
  <2> QED
    BY <1>2, <2>3 DEF StoredAs, cmds
<1>3. CASE s.mode = ReadFilename
  <2>1. Store(s, word) = [s EXCEPT !.outfile = <<word>>, !.mode = ReadAmpersand]
    BY <1>3, ModesApart DEF Store
  <2>2. Store(s, word) = [pos |-> s.pos, mode |-> ReadAmpersand, cmds |-> s.cmds,
                          outfile |-> <<word>>, res |-> s.res]
    BY <2>1 DEF ScanStates
  <2> QED
    BY <1>3, <2>2 DEF StoredAs
<1>4. s.mode \in {ReadCommand, ReadArguments, ReadFilename}
  BY ModesApart DEF ScanStates
<1> QED
  BY <1>1, <1>2, <1>3, <1>4

\* It is a state again, with a mode that means what it should.
LEMMA StoredIsProper ==
  ASSUME NEW t, NEW s \in ScanStates(t), Proper(s), s.res \in Running,
         NEW word \in Words, NEW next \in 1 .. Len(t) + 1, NEW n, StoredAs(s, word, next, n)
  PROVE  n \in ScanStates(t) /\ Proper(n) /\ n.pos = next /\ n.res = "FG" /\ s.res = "FG"
<1>0. /\ s.cmds \in Seq(Vectors) /\ s.outfile \in {<<>>} \cup {<<w>> : w \in Words} /\ s.mode \in 0 .. 4
      /\ s.res \in Running \cup {"error", "overrun", "loops"}
  BY DEF ScanStates
<1>1. CASE s.mode = ReadCommand
  <2>1. <<word>> \in Vectors
    BY DEF Vectors
  <2>2. Append(s.cmds, <<word>>) \in Seq(Vectors) /\ Append(s.cmds, <<word>>) # <<>>
    BY <1>0, <2>1, AppendProperties
  <2>3. s.res = "FG" /\ s.outfile = <<>>
    BY <1>1, ModesApart DEF Proper, Running
  <2>4. n = [pos |-> next, mode |-> ReadArguments, cmds |-> Append(s.cmds, <<word>>),
             outfile |-> s.outfile, res |-> s.res]
    BY <1>1, ModesApart DEF StoredAs
  <2>5. n \in ScanStates(t)
    <3>1. ReadArguments \in 0 .. 4
      BY ModesApart DEF Modes
    <3> QED
      BY <1>0, <2>2, <2>4, <3>1, StateWith
  <2>6. Proper(n)
    BY <2>2, <2>3, <2>4, ModesApart DEF Proper
  <2> QED
    BY <2>3, <2>4, <2>5, <2>6
<1>2. CASE s.mode = ReadArguments
  <2> DEFINE cmds == [s.cmds EXCEPT ![Len(s.cmds)] = Append(@, word)]
  <2>1. s.cmds # <<>>
    BY <1>2, ModesApart DEF Proper
  <2>2. cmds \in Seq(Vectors) /\ cmds # <<>>
    <3>1. /\ cmds \in Seq(Vectors)
          /\ cmds = Append(SubSeq(s.cmds, 1, Len(s.cmds) - 1), Append(s.cmds[Len(s.cmds)], word))
          /\ Append(s.cmds[Len(s.cmds)], word) \in Vectors
      BY <1>0, <2>1, LastVector
    <3>2. Len(s.cmds) \in Nat /\ \A j \in 1 .. Len(s.cmds) - 1 : s.cmds[j] \in Vectors
      BY <1>0, ElementOfSeq
    <3>3. SubSeq(s.cmds, 1, Len(s.cmds) - 1) \in Seq(Vectors)
      BY <3>2, SubSeqProperties
    <3> QED
      BY <3>1, <3>3, AppendProperties
  <2>3. s.res = "FG" /\ s.outfile = <<>>
    BY <1>2, ModesApart DEF Proper, Running
  <2>4. n = [pos |-> next, mode |-> ReadArguments, cmds |-> cmds, outfile |-> s.outfile, res |-> s.res]
    BY <1>2, ModesApart DEF StoredAs
  <2> HIDE DEF cmds
  <2>5. n \in ScanStates(t)
    <3>1. ReadArguments \in 0 .. 4
      BY ModesApart DEF Modes
    <3> QED
      BY <1>0, <2>2, <2>4, <3>1, StateWith
  <2>6. Proper(n)
    BY <2>2, <2>3, <2>4, ModesApart DEF Proper
  <2> QED
    BY <2>3, <2>4, <2>5, <2>6
<1>3. CASE s.mode = ReadFilename
  <2>1. s.cmds # <<>> /\ s.res = "FG"
    BY <1>3, ModesApart DEF Proper, Running
  <2>2. n = [pos |-> next, mode |-> ReadAmpersand, cmds |-> s.cmds, outfile |-> <<word>>, res |-> s.res]
    BY <1>3, ModesApart DEF StoredAs
  <2>3. n \in ScanStates(t)
    <3>1. ReadAmpersand \in 0 .. 4
      BY ModesApart DEF Modes
    <3> QED
      BY <1>0, <2>2, <3>1, StateWith
  <2>4. Proper(n)
    BY <2>1, <2>2, ModesApart DEF Proper
  <2> QED
    BY <2>1, <2>2, <2>3, <2>4
<1> QED
  BY <1>1, <1>2, <1>3 DEF StoredAs

\* What a turn does, at the position p behind the blanks.
Rejects(t, p, n) ==
  n.res = "error" \/ (n.res = "overrun" /\ \A q \in p .. Len(t) : At(t, q) # NL)

PassesBlanks(t, s, p, n) ==
  /\ At(t, p) = NL /\ s.mode \notin {ReadCommand, ReadFilename}
  /\ n = [pos |-> p, mode |-> s.mode, cmds |-> s.cmds, outfile |-> s.outfile, res |-> s.res]

TakesOperator(t, s, p, n) ==
  \/ /\ At(t, p) = "|" /\ s.mode = ReadArguments
     /\ n = [pos |-> p + 1, mode |-> ReadCommand, cmds |-> s.cmds, outfile |-> s.outfile, res |-> s.res]
  \/ /\ At(t, p) = ">" /\ s.mode = ReadArguments
     /\ n = [pos |-> p + 1, mode |-> ReadFilename, cmds |-> s.cmds, outfile |-> s.outfile, res |-> s.res]
  \/ /\ At(t, p) = "&" /\ s.mode \in {ReadArguments, ReadAmpersand}
     /\ n = [pos |-> p + 1, mode |-> ReadNewline, cmds |-> s.cmds, outfile |-> s.outfile, res |-> "BG"]

TakesWord(t, s, p, n) ==
  /\ s.mode < ReadAmpersand
  /\ \E word \in Words, next \in p .. Len(t) + 1 : WordAt(t, p, next, word) /\ StoredAs(s, word, next, n)

\* A state that gives up.
LEMMA GivenUp ==
  ASSUME NEW t, NEW s \in ScanStates(t), NEW res \in {"error", "overrun", "loops"}
  PROVE  /\ [s EXCEPT !.res = res]
              = [pos |-> s.pos, mode |-> s.mode, cmds |-> s.cmds, outfile |-> s.outfile, res |-> res]
         /\ [s EXCEPT !.res = res] \in ScanStates(t)
         /\ [s EXCEPT !.res = res].res = res
<1>1. [s EXCEPT !.res = res]
        = [pos |-> s.pos, mode |-> s.mode, cmds |-> s.cmds, outfile |-> s.outfile, res |-> res]
  BY DEF ScanStates
<1>2. /\ s.pos \in 1 .. Len(t) + 1 /\ s.mode \in 0 .. 4 /\ s.cmds \in Seq(Vectors)
      /\ s.outfile \in {<<>>} \cup {<<w>> : w \in Words}
  BY DEF ScanStates
<1>3. res \in Running \cup {"error", "overrun", "loops"}
  OBVIOUS
<1>4. [pos |-> s.pos, mode |-> s.mode, cmds |-> s.cmds, outfile |-> s.outfile, res |-> res] \in ScanStates(t)
  BY <1>2, <1>3, StateWith
<1>5. [s EXCEPT !.res = res].res = res
  BY <1>1
<1> QED
  BY <1>1, <1>4, <1>5, Zenon

\* An error gives up, wherever it is found.
LEMMA WrongIs ==
  ASSUME NEW t, NEW s \in ScanStates(t)
  PROVE  Wrong(s) \in ScanStates(t) /\ Wrong(s).res = "error" /\ \A p : Rejects(t, p, Wrong(s))
<1>1. Wrong(s) \in ScanStates(t) /\ Wrong(s).res = "error"
  BY GivenUp, "error" \in {"error", "overrun", "loops"} DEF Wrong
<1> QED
  BY <1>1 DEF Rejects

\* Skipping blanks changes the position only.
LEMMA SkippedIs ==
  ASSUME NEW t \in LineText, NEW s \in ScanStates(t), Proper(s)
  PROVE  LET k == [s EXCEPT !.pos = skip_whitespace(t, @)]
         IN  /\ k = [pos |-> skip_whitespace(t, s.pos), mode |-> s.mode, cmds |-> s.cmds,
                     outfile |-> s.outfile, res |-> s.res]
             /\ k \in ScanStates(t) /\ Proper(k)
             /\ k.pos \in s.pos .. Len(t) + 1 /\ At(t, k.pos) # " "
<1> DEFINE p == skip_whitespace(t, s.pos)
           k == [s EXCEPT !.pos = p]
<1>0. s.pos \in 1 .. Len(t) + 1 /\ Len(t) \in Nat
  BY AtIs DEF ScanStates
<1>1. p \in s.pos .. Len(t) + 1 /\ At(t, p) # " "
  BY <1>0, SkipIs
<1> HIDE DEF p
<1>2. k = [pos |-> p, mode |-> s.mode, cmds |-> s.cmds, outfile |-> s.outfile, res |-> s.res]
  BY DEF ScanStates
<1>3. k \in ScanStates(t)
  <2>1. p \in 1 .. Len(t) + 1
    <3>1. p \in s.pos .. Len(t) + 1
      BY <1>1
    <3> QED
      BY ONLY <1>0, <3>1
  <2>2. /\ s.mode \in 0 .. 4 /\ s.cmds \in Seq(Vectors)
        /\ s.outfile \in {<<>>} \cup {<<w>> : w \in Words}
        /\ s.res \in Running \cup {"error", "overrun", "loops"}
    BY DEF ScanStates
  <2> QED
    BY <1>2, <2>1, <2>2, StateWith
<1>4. Proper(k) /\ k.pos = p
  BY <1>2 DEF Proper
<1> QED
  BY <1>1, <1>2, <1>3, <1>4 DEF p

\* A turn at a word.
LEMMA WordIs ==
  ASSUME NEW t \in LineText, NEW s \in ScanStates(t), Proper(s), s.res \in Running,
         At(t, s.pos) \notin {" ", "|", ">", "&", NL}
  PROVE  \/ Rejects(t, s.pos, Word(t, s)) /\ Word(t, s) \in ScanStates(t)
         \/ TakesWord(t, s, s.pos, Word(t, s))
<1>0. s.pos \in 1 .. Len(t) + 1 /\ s.mode \in 0 .. 4 /\ Len(t) \in Nat
  BY AtIs DEF ScanStates
<1>1. ASSUME \/ Word(t, s) = Wrong(s)
             \/ /\ Word(t, s) = [s EXCEPT !.res = "overrun"]
                /\ \A q \in s.pos .. Len(t) : At(t, q) # NL
      PROVE  Rejects(t, s.pos, Word(t, s)) /\ Word(t, s) \in ScanStates(t)
  <2>1. /\ [s EXCEPT !.res = "overrun"].res = "overrun"
        /\ [s EXCEPT !.res = "overrun"] \in ScanStates(t)
    BY GivenUp, "overrun" \in {"error", "overrun", "loops"}
  <2> QED
    BY <1>1, <2>1, WrongIs DEF Rejects
<1>2. CASE s.mode >= ReadAmpersand
  <2>1. Word(t, s) = Wrong(s)
    <3>1. ~(s.mode < ReadAmpersand)
      BY ONLY <1>0, <1>2 DEF ReadAmpersand
    <3> QED
      BY <1>2, <3>1, Zenon DEF Word
  <2> QED
    BY <1>1, <2>1
<1>3. CASE s.mode < ReadAmpersand /\ At(t, s.pos) \notin Quotes
  <2>1. PICK word \in Words, next \in s.pos .. Len(t) + 1 :
           /\ Word(t, s) = [Store(s, word) EXCEPT !.pos = next]
           /\ word = SubSeq(t, s.pos, next - 1)
           /\ At(t, next) \in WordStops(Nul)
    BY <1>3, PlainWord
  <2>2. next = s.pos => At(t, s.pos) = Nul
    <3>1. next = s.pos => At(t, s.pos) \in {" ", "|", ">", NL, Nul}
      BY <2>1, StopsAre
    <3> QED
      BY <3>1
  <2>3. WordAt(t, s.pos, next, word)
    <3>1. next > s.pos \/ next = s.pos
      <4>1. next \in s.pos .. Len(t) + 1
        OBVIOUS
      <4> QED
        BY ONLY <1>0, <4>1
    <3> QED
      BY <1>3, <2>1, <2>2, <3>1 DEF WordAt
  <2>4. StoredAs(s, word, next, Word(t, s))
    <3>1. s.mode < ReadAmpersand
      BY <1>3
    <3>2. StoredAs(s, word, next, [Store(s, word) EXCEPT !.pos = next])
      BY <3>1, StoreIs
    <3> QED
      BY <2>1, <3>2
  <2> QED
    BY <1>3, <2>3, <2>4 DEF TakesWord
<1>4. CASE s.mode < ReadAmpersand /\ At(t, s.pos) \in Quotes
  <2> DEFINE end == FirstFrom(t, s.pos + 1, WordStops(At(t, s.pos)))
  <2>0. \A q \in s.pos + 1 .. end - 1 : At(t, q) # NL
    BY <1>4, QuotedWord
  <2>1. \/ end = Len(t) + 2 /\ Word(t, s) = [s EXCEPT !.res = "overrun"]
        \/ Word(t, s) = Wrong(s)
        \/ /\ At(t, end) = At(t, s.pos) /\ end \in s.pos + 1 .. Len(t)
           /\ SubSeq(t, s.pos + 1, end - 1) \in Words
           /\ Word(t, s) = [Store(s, SubSeq(t, s.pos + 1, end - 1)) EXCEPT !.pos = end + 1]
    BY <1>4, QuotedWord
  <2> HIDE DEF end
  <2>2. CASE Word(t, s) = Wrong(s)
    BY <1>1, <2>2
  <2>3. CASE end = Len(t) + 2 /\ Word(t, s) = [s EXCEPT !.res = "overrun"]
    <3>1. \A q \in s.pos .. Len(t) : q = s.pos \/ q \in s.pos + 1 .. end - 1
      <4>1. end = Len(t) + 2
        BY <2>3
      <4> QED
        BY ONLY <1>0, <4>1
    <3>2. At(t, s.pos) # NL
      BY <1>4, CharsApart DEF Chars, Quotes
    <3> QED
      BY <1>1, <2>0, <2>3, <3>1, <3>2
  <2>4. CASE /\ At(t, end) = At(t, s.pos) /\ end \in s.pos + 1 .. Len(t)
             /\ SubSeq(t, s.pos + 1, end - 1) \in Words
             /\ Word(t, s) = [Store(s, SubSeq(t, s.pos + 1, end - 1)) EXCEPT !.pos = end + 1]
    <3> DEFINE word == SubSeq(t, s.pos + 1, end - 1)
               next == end + 1
    <3>1. /\ next \in s.pos .. Len(t) + 1 /\ next >= s.pos + 2
          /\ next - 2 = end - 1 /\ next - 1 = end
      <4>1. end \in s.pos + 1 .. Len(t)
        BY <2>4
      <4> QED
        BY ONLY <1>0, <4>1 DEF next
    <3>2. WordAt(t, s.pos, next, word)
      BY <1>4, <2>4, <3>1 DEF WordAt
    <3>3. StoredAs(s, word, next, Word(t, s))
      <4>1. s.mode < ReadAmpersand
        BY <1>4
      <4>2. StoredAs(s, word, next, [Store(s, word) EXCEPT !.pos = next])
        BY <4>1, StoreIs
      <4> QED
        BY <2>4, <4>2
    <3>4. word \in Words
      BY <2>4
    <3> HIDE DEF word, next
    <3> QED
      BY <1>4, <3>1, <3>2, <3>3, <3>4 DEF TakesWord
  <2> QED
    BY <2>1, <2>2, <2>4, <2>3
<1>5. s.mode >= ReadAmpersand \/ s.mode < ReadAmpersand
  BY ONLY <1>0 DEF ReadAmpersand
<1> QED
  BY <1>2, <1>3, <1>4, <1>5

\* What a turn can do.
LEMMA TurnCases ==
  ASSUME NEW t \in LineText, NEW s \in ScanStates(t), Proper(s), s.res \in Running
  PROVE  LET p == skip_whitespace(t, s.pos)
             n == Turn(t, s)
         IN  \/ Rejects(t, p, n) /\ n \in ScanStates(t)
             \/ PassesBlanks(t, s, p, n)
             \/ TakesOperator(t, s, p, n)
             \/ TakesWord(t, s, p, n) /\ At(t, p) \notin {" ", "|", ">", "&", NL}
<1> DEFINE p == skip_whitespace(t, s.pos)
           k == [s EXCEPT !.pos = skip_whitespace(t, @)]
           n == Turn(t, s)
<1>1. /\ k = [pos |-> p, mode |-> s.mode, cmds |-> s.cmds, outfile |-> s.outfile, res |-> s.res]
      /\ k \in ScanStates(t) /\ Proper(k)
      /\ k.pos \in s.pos .. Len(t) + 1 /\ At(t, k.pos) # " "
  BY SkippedIs
<1>2. /\ At(t, k.pos) = "|" => n = Pipe(k)
      /\ At(t, k.pos) = ">" => n = Redirect(k)
      /\ At(t, k.pos) = "&" => n = Background(k)
      /\ At(t, k.pos) = NL => n = Blanks(k)
      /\ At(t, k.pos) \notin {"|", ">", "&", NL} => n = Word(t, k)
  BY DEF Turn, NL
<1> HIDE DEF k, n, p
<1>3. k.pos = p /\ k.mode = s.mode /\ k.cmds = s.cmds /\ k.outfile = s.outfile /\ k.res = s.res
  BY <1>1
<1>4. Wrong(k) \in ScanStates(t) /\ Rejects(t, p, Wrong(k))
  BY <1>1, WrongIs
<1>5. CASE At(t, p) = "|"
  <2>1. n = Pipe(k)
    BY <1>2, <1>3, <1>5
  <2>2. CASE k.mode = ReadArguments
    <3>1. n = [pos |-> p + 1, mode |-> ReadCommand, cmds |-> s.cmds, outfile |-> s.outfile, res |-> s.res]
      BY <1>1, <2>1, <2>2 DEF Pipe
    <3> QED
      BY <1>3, <1>5, <2>2, <3>1 DEF TakesOperator, n, p
  <2>3. CASE k.mode # ReadArguments
    BY <1>4, <2>1, <2>3 DEF Pipe, n, p
  <2> QED
    BY <2>2, <2>3
<1>6. CASE At(t, p) = ">"
  <2>1. n = Redirect(k)
    BY <1>2, <1>3, <1>6
  <2>2. CASE k.mode = ReadArguments
    <3>1. n = [pos |-> p + 1, mode |-> ReadFilename, cmds |-> s.cmds, outfile |-> s.outfile, res |-> s.res]
      BY <1>1, <2>1, <2>2 DEF Redirect
    <3> QED
      BY <1>3, <1>6, <2>2, <3>1 DEF TakesOperator, n, p
  <2>3. CASE k.mode # ReadArguments
    BY <1>4, <2>1, <2>3 DEF Redirect, n, p
  <2> QED
    BY <2>2, <2>3
<1>7. CASE At(t, p) = "&"
  <2>1. n = Background(k)
    BY <1>2, <1>3, <1>7
  <2>2. CASE k.mode \in {ReadArguments, ReadAmpersand}
    <3>1. n = [pos |-> p + 1, mode |-> ReadNewline, cmds |-> s.cmds, outfile |-> s.outfile, res |-> "BG"]
      BY <1>1, <2>1, <2>2 DEF Background
    <3> QED
      BY <1>3, <1>7, <2>2, <3>1 DEF TakesOperator, n, p
  <2>3. CASE k.mode \notin {ReadArguments, ReadAmpersand}
    BY <1>4, <2>1, <2>3 DEF Background, n, p
  <2> QED
    BY <2>2, <2>3
<1>8. CASE At(t, p) = NL
  <2>1. n = Blanks(k)
    BY <1>2, <1>3, <1>8
  <2>2. CASE k.mode \in {ReadCommand, ReadFilename}
    BY <1>4, <2>1, <2>2 DEF Blanks, n, p
  <2>3. CASE k.mode \notin {ReadCommand, ReadFilename}
    <3>1. n = k
      BY <2>1, <2>3 DEF Blanks
    <3> QED
      BY <1>1, <1>3, <1>8, <2>3, <3>1 DEF PassesBlanks, n, p
  <2> QED
    BY <2>2, <2>3
<1>9. CASE At(t, p) \notin {"|", ">", "&", NL}
  <2>1. n = Word(t, k) /\ At(t, k.pos) \notin {" ", "|", ">", "&", NL}
    BY <1>1, <1>2, <1>3, <1>9
  <2>2. (Rejects(t, p, n) /\ n \in ScanStates(t)) \/ TakesWord(t, k, k.pos, n)
    BY <1>1, <1>3, <2>1, WordIs
  <2>3. TakesWord(t, k, k.pos, n) => TakesWord(t, s, p, n)
    BY <1>3, Zenon DEF TakesWord, StoredAs
  <2> QED
    BY <1>3, <2>1, <2>2, <2>3 DEF n, p
<1> QED
  BY <1>5, <1>6, <1>7, <1>8, <1>9

(***************************************************************************)
(* The scan.                                                               *)
(***************************************************************************)

\* The states that the scan of a text can be in.
Sane(t) == {s \in ScanStates(t) : s.res \in Running => Proper(s)}

\* A turn leads to such a state, and gets further but at the '\0'.
LEMMA TurnAdvances ==
  ASSUME NEW t \in LineText, NEW s \in ScanStates(t), Proper(s), s.res \in Running,
         At(t, s.pos) # NL
  PROVE  LET n == Turn(t, s)
         IN  /\ n \in Sane(t)
             /\ n.res \in Running =>
                  /\ n.pos >= s.pos
                  /\ n.pos = s.pos =>
                       /\ s.pos = Len(t) + 1
                       /\ \/ n.mode = s.mode
                          \/ s.mode \in {ReadCommand, ReadFilename} /\ n.mode \notin {ReadCommand, ReadFilename}
<1> DEFINE p == skip_whitespace(t, s.pos)
           n == Turn(t, s)
<1>0. s.pos \in 1 .. Len(t) + 1 /\ Len(t) \in Nat
  BY AtIs DEF ScanStates
<1>1. p \in s.pos .. Len(t) + 1
  BY <1>0, SkipIs
<1>2. \/ Rejects(t, p, n) /\ n \in ScanStates(t)
      \/ PassesBlanks(t, s, p, n)
      \/ TakesOperator(t, s, p, n)
      \/ TakesWord(t, s, p, n)
  BY TurnCases
<1>3. /\ s.mode \in 0 .. 4 /\ s.cmds \in Seq(Vectors)
      /\ s.outfile \in {<<>>} \cup {<<w>> : w \in Words}
      /\ s.res \in Running \cup {"error", "overrun", "loops"}
      /\ "BG" \in Running \cup {"error", "overrun", "loops"}
  BY DEF ScanStates, Running
<1> HIDE DEF p, n
<1>4. At(t, p) # Nul => p \in 1 .. Len(t) /\ p + 1 \in 1 .. Len(t) + 1
  <2>1. p \in Nat /\ (p > Len(t) => At(t, p) = Nul)
    <3>1. p \in Nat
      BY ONLY <1>0, <1>1
    <3> QED
      BY <3>1, AtIs
  <2>2. p > Len(t) \/ (p \in 1 .. Len(t) /\ p + 1 \in 1 .. Len(t) + 1)
    BY ONLY <1>0, <1>1
  <2> QED
    BY <2>1, <2>2
<1>5. p \in 1 .. Len(t) + 1 /\ p >= s.pos
  BY ONLY <1>0, <1>1
<1>6. CASE Rejects(t, p, n) /\ n \in ScanStates(t)
  <2>1. n.res \notin Running
    BY <1>6 DEF Rejects, Running
  <2> QED
    BY <1>6, <2>1 DEF Sane, n
<1>7. CASE PassesBlanks(t, s, p, n)
  <2>1. n = [pos |-> p, mode |-> s.mode, cmds |-> s.cmds, outfile |-> s.outfile, res |-> s.res]
    BY <1>7 DEF PassesBlanks
  <2>2. n \in ScanStates(t)
    BY <1>3, <1>5, <2>1, StateWith
  <2>3. Proper(n)
    BY <2>1 DEF Proper
  <2>4. n.pos # s.pos
    BY <1>7, <2>1 DEF PassesBlanks
  <2> QED
    BY <1>5, <2>1, <2>2, <2>3, <2>4 DEF Sane, n
<1>8. CASE TakesOperator(t, s, p, n)
  <2>1. At(t, p) # Nul /\ s.cmds # <<>>
    BY <1>8, ModesApart DEF TakesOperator, Nul, Proper
  <2>2. p + 1 \in 1 .. Len(t) + 1 /\ p + 1 # s.pos /\ p + 1 >= s.pos
    <3>1. p + 1 \in 1 .. Len(t) + 1
      BY <1>4, <2>1
    <3> QED
      BY ONLY <1>0, <1>5, <3>1
  <2>3. ReadCommand \in 0 .. 4 /\ ReadFilename \in 0 .. 4 /\ ReadNewline \in 0 .. 4
    BY ModesApart DEF Modes
  <2>4. CASE /\ s.mode = ReadArguments
             /\ n = [pos |-> p + 1, mode |-> ReadCommand, cmds |-> s.cmds, outfile |-> s.outfile, res |-> s.res]
    <3>1. n \in ScanStates(t)
      BY <1>3, <2>2, <2>3, <2>4, StateWith
    <3>2. Proper(n)
      BY <2>1, <2>4, ModesApart DEF Proper
    <3> QED
      BY <2>2, <2>4, <3>1, <3>2 DEF Sane, n
  <2>5. CASE /\ s.mode = ReadArguments
             /\ n = [pos |-> p + 1, mode |-> ReadFilename, cmds |-> s.cmds, outfile |-> s.outfile, res |-> s.res]
    <3>1. n \in ScanStates(t)
      BY <1>3, <2>2, <2>3, <2>5, StateWith
    <3>2. Proper(n)
      BY <2>1, <2>5, ModesApart DEF Proper
    <3> QED
      BY <2>2, <2>5, <3>1, <3>2 DEF Sane, n
  <2>6. CASE n = [pos |-> p + 1, mode |-> ReadNewline, cmds |-> s.cmds, outfile |-> s.outfile, res |-> "BG"]
    <3>1. n \in ScanStates(t)
      BY <1>3, <2>2, <2>3, <2>6, StateWith
    <3>2. Proper(n)
      BY <2>1, <2>6, ModesApart DEF Proper
    <3> QED
      BY <2>2, <2>6, <3>1, <3>2 DEF Sane, n
  <2> QED
    BY <1>8, <2>4, <2>5, <2>6 DEF TakesOperator
<1>9. CASE TakesWord(t, s, p, n)
  <2>1. PICK word \in Words, next \in p .. Len(t) + 1 :
          WordAt(t, p, next, word) /\ StoredAs(s, word, next, n)
    BY <1>9 DEF TakesWord
  <2>2. next \in 1 .. Len(t) + 1 /\ next >= s.pos /\ (next = s.pos => next = p) /\ next \in Nat /\ p \in Nat
    <3>1. next \in p .. Len(t) + 1
      OBVIOUS
    <3> QED
      BY ONLY <1>0, <1>5, <3>1
  <2>3. n \in ScanStates(t) /\ Proper(n) /\ n.pos = next
    BY <2>1, <2>2, StoredIsProper
  <2>4. ASSUME next = s.pos
        PROVE  s.pos = Len(t) + 1
    <3>1. next = p
      BY <2>2, <2>4
    <3>2. At(t, p) = Nul
      <4>1. ~(next > p) /\ ~(next >= p + 2)
        BY ONLY <2>2, <3>1
      <4> QED
        BY <2>1, <4>1 DEF WordAt
    <3>3. \A q \in 1 .. Len(t) : At(t, q) # Nul
      BY AtIs
    <3>4. p \notin 1 .. Len(t)
      BY <3>2, <3>3
    <3> QED
      BY ONLY <1>0, <1>5, <2>4, <3>1, <3>4
  <2>5. \/ n.mode = s.mode
        \/ s.mode \in {ReadCommand, ReadFilename} /\ n.mode \notin {ReadCommand, ReadFilename}
    BY <2>1, ModesApart DEF StoredAs
  <2> QED
    BY <2>2, <2>3, <2>4, <2>5 DEF Sane, n
<1> QED
  BY <1>2, <1>6, <1>7, <1>8, <1>9

\* So does a step.
LEMMA StepIsSane ==
  ASSUME NEW t \in LineText, NEW s \in Sane(t)
  PROVE  Step(t, s) \in Sane(t)
<1>1. s \in ScanStates(t)
  BY DEF Sane
<1>2. CASE s.res \notin Running
  <2>1. Step(t, s) = s
    BY <1>2 DEF Step, Running
  <2> QED
    BY <2>1
<1>3. CASE s.res \in Running /\ At(t, s.pos) = NL
  <2>1. Step(t, s) = Finished(s)
    BY <1>3 DEF Step, Running
  <2>2. Wrong(s) \in Sane(t)
    BY <1>1, WrongIs DEF Sane, Running
  <2> QED
    BY <2>1, <2>2 DEF Finished
<1>4. CASE s.res \in Running /\ At(t, s.pos) # NL
  <2> DEFINE n == Turn(t, s)
  <2>1. Step(t, s) \in {n, [n EXCEPT !.res = "loops"]}
    BY <1>4 DEF Step, Running
  <2>2. n \in Sane(t)
    BY <1>1, <1>4, TurnAdvances DEF Sane
  <2> HIDE DEF n
  <2>3. [n EXCEPT !.res = "loops"] \in Sane(t)
    <3>1. n \in ScanStates(t)
      BY <2>2 DEF Sane
    <3>2. [n EXCEPT !.res = "loops"] \in ScanStates(t) /\ [n EXCEPT !.res = "loops"].res = "loops"
      BY <3>1, GivenUp, "loops" \in {"error", "overrun", "loops"}
    <3> QED
      BY <3>2 DEF Sane, Running
  <2> QED
    BY <2>1, <2>2, <2>3
<1> QED
  BY <1>2, <1>3, <1>4

\* The scan starts at the first position.
LEMMA StartIsSane ==
  ASSUME NEW t \in LineText
  PROVE  Start \in Sane(t) /\ Start.res = "FG" /\ Start.pos = 1
<1>1. 1 \in 1 .. Len(t) + 1 /\ ReadCommand \in 0 .. 4
  BY AtIs, ModesApart DEF Modes
<1>2. <<>> \in Seq(Vectors) /\ <<>> \in {<<>>} \cup {<<w>> : w \in Words}
      /\ "FG" \in Running \cup {"error", "overrun", "loops"}
  BY EmptySeq DEF Running
<1>3. Start \in ScanStates(t)
  BY <1>1, <1>2, StateWith DEF Start
<1>4. Proper(Start)
  BY ModesApart DEF Proper, Start
<1> QED
  BY <1>3, <1>4 DEF Sane, Start

\* The states after each turn.
LEMMA ScanIs ==
  ASSUME NEW t \in LineText
  PROVE  /\ Scan(t)[0] = Start
         /\ \A n \in 1 .. Len(t) + 2 : Scan(t)[n] = Step(t, Scan(t)[n - 1])
         /\ \A n \in 0 .. Len(t) + 2 : Scan(t)[n] \in Sane(t)
<1> DEFINE N == Len(t) + 2
           F == [n \in 1 .. N |-> [s \in Sane(t) |-> Step(t, s)]]
<1>1. N \in Nat
  BY AtIs
<1>2. F \in [1 .. N -> [Sane(t) -> Sane(t)]]
  BY StepIsSane
<1>3. PICK g \in [0 .. N -> Sane(t)] :
        \A n \in 0 .. N : g[n] = IF n = 0 THEN Start ELSE F[n][g[n - 1]]
  <2>1. Start \in Sane(t)
    BY StartIsSane
  <2> HIDE DEF F, N
  <2>2. F \in Steps(Sane(t), N)
    BY <1>2 DEF Steps
  <2>3. Recursion(Sane(t), Start, N, F)
    BY <1>1, <2>1, <2>2, RecursionExists
  <2> QED
    BY <2>3 DEF Recursion
<1> HIDE DEF N
<1>4. g = [n \in 0 .. N |-> IF n = 0 THEN Start ELSE Step(t, g[n - 1])]
  <2>1. ASSUME NEW n \in 0 .. N, n # 0
        PROVE  F[n][g[n - 1]] = Step(t, g[n - 1])
    <3>1. n \in 1 .. N /\ n - 1 \in 0 .. N
      BY <1>1, <2>1
    <3>2. g[n - 1] \in Sane(t)
      BY <3>1
    <3> QED
      BY <3>1, <3>2
  <2> HIDE DEF F
  <2>2. \A n \in 0 .. N : g[n] = IF n = 0 THEN Start ELSE Step(t, g[n - 1])
    BY <1>3, <2>1
  <2>3. g = [n \in 0 .. N |-> g[n]]
    OBVIOUS
  <2> QED
    BY <2>2, <2>3
<1>5. Scan(t) = [n \in 0 .. N |-> IF n = 0 THEN Start ELSE Step(t, Scan(t)[n - 1])]
  BY <1>4, Zenon DEF Scan, N
<1>6. Scan(t)[0] = Start
  BY <1>1, <1>5
<1>7. \A n \in 1 .. N : Scan(t)[n] = Step(t, Scan(t)[n - 1])
  <2>1. \A n \in 1 .. N : n \in 0 .. N /\ n # 0
    BY <1>1
  <2> QED
    BY <1>5, <2>1
<1>8. \A n \in 0 .. N : Scan(t)[n] \in Sane(t)
  <2> DEFINE S == {n \in 0 .. N : Scan(t)[n] \in Sane(t)}
  <2>1. 0 \in S
    BY <1>1, <1>6, StartIsSane
  <2>2. ASSUME NEW n \in 1 .. N, n - 1 \in S
        PROVE  n \in S
    BY <1>1, <1>7, <2>2, StepIsSane
  <2>3. \A n \in 0 .. N : n \in S
    <3> HIDE DEF S
    <3> QED
      BY <1>1, <2>1, <2>2, UpTo
  <2> QED
    BY <2>3
<1> QED
  BY <1>6, <1>7, <1>8 DEF N


(***************************************************************************)
(* What is written: parts that are joined, and lines without blanks and    *)
(* quotes.                                                                 *)
(***************************************************************************)

\* The functions by which these are defined.
JoinedTo(parts, separator) ==
  LET joined[n \in 0 .. Len(parts)] ==
        IF n = 0 THEN <<>>
        ELSE joined[n - 1] \o (IF n = 1 THEN <<>> ELSE separator) \o parts[n]
  IN  joined

SkeletonTo(t) ==
  LET kept[n \in 0 .. Len(t)] ==
        IF n = 0 THEN <<>>
        ELSE IF t[n] \in Quotes \cup {" "} THEN kept[n - 1] ELSE Append(kept[n - 1], t[n])
  IN  kept

\* Joined adds one part after the other.
LEMMA JoinedToIs ==
  ASSUME NEW C, NEW parts \in Seq(Seq(C)), NEW sep \in Seq(C)
  PROVE  /\ Joined(parts, sep) = JoinedTo(parts, sep)[Len(parts)]
         /\ JoinedTo(parts, sep)[0] = <<>>
         /\ \A n \in 1 .. Len(parts) :
              JoinedTo(parts, sep)[n]
                = JoinedTo(parts, sep)[n - 1] \o (IF n = 1 THEN <<>> ELSE sep) \o parts[n]
         /\ \A n \in 0 .. Len(parts) : JoinedTo(parts, sep)[n] \in Seq(C)
<1> DEFINE N == Len(parts)
           Next(n, a) == a \o (IF n = 1 THEN <<>> ELSE sep) \o parts[n]
           F == [n \in 1 .. N |-> [a \in Seq(C) |-> Next(n, a)]]
<1>0. <<>> \in Seq(C)
  BY EmptySeq
<1>1. N \in Nat
  OBVIOUS
<1>2. \A n \in 1 .. N : \A a \in Seq(C) : Next(n, a) \in Seq(C)
  <2> TAKE n \in 1 .. N
  <2> TAKE a \in Seq(C)
  <2>1. parts[n] \in Seq(C)
    BY ElementOfSeq
  <2>2. (IF n = 1 THEN <<>> ELSE sep) \in Seq(C)
    BY EmptySeq
  <2> HIDE DEF N
  <2>3. a \o (IF n = 1 THEN <<>> ELSE sep) \in Seq(C)
    BY <2>2, ConcatProperties
  <2> QED
    BY <2>1, <2>3, ConcatProperties
<1>3. F \in Steps(Seq(C), N)
  <2> HIDE DEF Next, N
  <2> QED
    BY <1>2 DEF Steps
<1> HIDE DEF N, Next
<1>4. PICK g \in [0 .. N -> Seq(C)] :
        \A n \in 0 .. N : g[n] = IF n = 0 THEN <<>> ELSE F[n][g[n - 1]]
  <2> HIDE DEF F
  <2>2. Recursion(Seq(C), <<>>, N, F)
    BY <1>0, <1>1, <1>3, RecursionExists
  <2> QED
    BY <2>2 DEF Recursion
<1>5. g = [n \in 0 .. N |-> IF n = 0 THEN <<>> ELSE Next(n, g[n - 1])]
  <2>1. ASSUME NEW n \in 0 .. N, n # 0
        PROVE  F[n][g[n - 1]] = Next(n, g[n - 1])
    <3>1. n \in 1 .. N /\ n - 1 \in 0 .. N
      BY <1>1, <2>1
    <3>2. g[n - 1] \in Seq(C)
      BY <3>1
    <3> QED
      BY <3>1, <3>2
  <2> HIDE DEF F
  <2>2. \A n \in 0 .. N : g[n] = IF n = 0 THEN <<>> ELSE Next(n, g[n - 1])
    BY <1>4, <2>1
  <2>3. g = [n \in 0 .. N |-> g[n]]
    OBVIOUS
  <2> QED
    BY <2>2, <2>3
<1> DEFINE J == JoinedTo(parts, sep)
<1>6. J = [n \in 0 .. N |-> IF n = 0 THEN <<>> ELSE Next(n, J[n - 1])]
  BY <1>5, Zenon DEF JoinedTo, N, Next
<1>7. Joined(parts, sep) = J[N]
  BY Zenon DEF Joined, JoinedTo, N
<1> HIDE DEF J
<1>8. J[0] = <<>>
  BY <1>1, <1>6
<1>9. \A n \in 1 .. N : J[n] = Next(n, J[n - 1])
  <2>1. \A n \in 1 .. N : n \in 0 .. N /\ n # 0
    BY <1>1
  <2> QED
    BY <1>6, <2>1
<1>10. \A n \in 0 .. N : J[n] \in Seq(C)
  <2> DEFINE S == {n \in 0 .. N : J[n] \in Seq(C)}
  <2>1. 0 \in S
    <3>1. 0 \in 0 .. N
      BY <1>1
    <3> QED
      BY <1>0, <1>8, <3>1, Zenon
  <2>2. ASSUME NEW n \in 1 .. N, n - 1 \in S
        PROVE  n \in S
    BY <1>1, <1>2, <1>9, <2>2
  <2>3. \A n \in 0 .. N : n \in S
    <3> HIDE DEF S
    <3> QED
      BY <1>1, <2>1, <2>2, UpTo
  <2> QED
    BY <2>3
<1> QED
  BY <1>7, <1>8, <1>9, <1>10, Zenon DEF N, J, Next

\* Skeleton keeps or drops one character after the other.
LEMMA SkeletonToIs ==
  ASSUME NEW t \in Seq(AllChars)
  PROVE  /\ Skeleton(t) = SkeletonTo(t)[Len(t)]
         /\ SkeletonTo(t)[0] = <<>>
         /\ \A n \in 1 .. Len(t) :
              SkeletonTo(t)[n]
                = IF t[n] \in Quotes \cup {" "} THEN SkeletonTo(t)[n - 1]
                  ELSE Append(SkeletonTo(t)[n - 1], t[n])
         /\ \A n \in 0 .. Len(t) : SkeletonTo(t)[n] \in Seq(AllChars)
<1> DEFINE N == Len(t)
           A == Seq(AllChars)
           Next(n, a) == IF t[n] \in Quotes \cup {" "} THEN a ELSE Append(a, t[n])
           F == [n \in 1 .. N |-> [a \in A |-> Next(n, a)]]
<1>1. N \in Nat
  OBVIOUS
<1>2. \A n \in 1 .. N : \A a \in A : Next(n, a) \in A
  <2> TAKE n \in 1 .. N
  <2> TAKE a \in A
  <2>1. t[n] \in AllChars
    BY ElementOfSeq
  <2> HIDE DEF N
  <2> QED
    BY <2>1, AppendProperties
<1>3. F \in Steps(A, N)
  <2> HIDE DEF Next, N, A
  <2> QED
    BY <1>2 DEF Steps
<1>4. <<>> \in A
  BY EmptySeq
<1> HIDE DEF N, Next, A
<1>5. PICK g \in [0 .. N -> A] :
        \A n \in 0 .. N : g[n] = IF n = 0 THEN <<>> ELSE F[n][g[n - 1]]
  <2> HIDE DEF F
  <2>2. Recursion(A, <<>>, N, F)
    BY <1>4, <1>1, <1>3, RecursionExists
  <2> QED
    BY <2>2 DEF Recursion
<1>6. g = [n \in 0 .. N |-> IF n = 0 THEN <<>> ELSE Next(n, g[n - 1])]
  <2>1. ASSUME NEW n \in 0 .. N, n # 0
        PROVE  F[n][g[n - 1]] = Next(n, g[n - 1])
    <3>1. n \in 1 .. N /\ n - 1 \in 0 .. N
      BY <1>1, <2>1
    <3>2. g[n - 1] \in A
      BY <3>1
    <3> QED
      BY <3>1, <3>2
  <2> HIDE DEF F
  <2>2. \A n \in 0 .. N : g[n] = IF n = 0 THEN <<>> ELSE Next(n, g[n - 1])
    BY <1>5, <2>1
  <2>3. g = [n \in 0 .. N |-> g[n]]
    OBVIOUS
  <2> QED
    BY <2>2, <2>3
<1> DEFINE J == SkeletonTo(t)
<1>7. J = [n \in 0 .. N |-> IF n = 0 THEN <<>> ELSE Next(n, J[n - 1])]
  BY <1>6, Zenon DEF SkeletonTo, N, Next
<1>8. Skeleton(t) = J[N]
  BY Zenon DEF Skeleton, SkeletonTo, N
<1> HIDE DEF J
<1>9. J[0] = <<>>
  BY <1>1, <1>7
<1>10. \A n \in 1 .. N : J[n] = Next(n, J[n - 1])
  <2>1. \A n \in 1 .. N : n \in 0 .. N /\ n # 0
    BY <1>1
  <2> QED
    BY <1>7, <2>1
<1>11. \A n \in 0 .. N : J[n] \in A
  <2> DEFINE S == {n \in 0 .. N : J[n] \in A}
  <2>1. 0 \in S
    <3>1. 0 \in 0 .. N
      BY <1>1
    <3> QED
      BY <1>4, <1>9, <3>1, Zenon
  <2>2. ASSUME NEW n \in 1 .. N, n - 1 \in S
        PROVE  n \in S
    BY <1>1, <1>2, <1>10, <2>2
  <2>3. \A n \in 0 .. N : n \in S
    <3> HIDE DEF S
    <3> QED
      BY <1>1, <2>1, <2>2, UpTo
  <2> QED
    BY <2>3
<1> QED
  BY <1>8, <1>9, <1>10, <1>11, Zenon DEF N, J, Next, A

\* Nothing joined is nothing, and each part comes behind a separator, but for
\* the first.
LEMMA JoinedEmpty ==
  ASSUME NEW C, NEW sep \in Seq(C)
  PROVE  Joined(<<>>, sep) = <<>>
<1>1. <<>> \in Seq(Seq(C)) /\ Len(<<>>) = 0
  BY EmptySeq
<1> QED
  BY <1>1, JoinedToIs

\* What comes before the next part.
Before(parts, sep) == IF parts = <<>> THEN <<>> ELSE sep

\* One part more.
LEMMA JoinedAppend ==
  ASSUME NEW C, NEW parts \in Seq(Seq(C)), NEW x \in Seq(C), NEW sep \in Seq(C)
  PROVE  /\ Joined(parts, sep) \in Seq(C)
         /\ Joined(Append(parts, x), sep)
              = Joined(parts, sep) \o Before(parts, sep) \o x
<1> DEFINE all == Append(parts, x)
           J == JoinedTo(parts, sep)
           A == JoinedTo(all, sep)
           N == Len(parts)
<1>1. N \in Nat
  OBVIOUS
<1>2. /\ all \in Seq(Seq(C)) /\ Len(all) = N + 1
      /\ \A n \in 1 .. N : all[n] = parts[n]
      /\ all[N + 1] = x
  BY AppendProperties
<1> HIDE DEF all
<1>3. /\ Joined(parts, sep) = J[N] /\ J[0] = <<>>
      /\ \A n \in 1 .. N : J[n] = J[n - 1] \o (IF n = 1 THEN <<>> ELSE sep) \o parts[n]
      /\ \A n \in 0 .. N : J[n] \in Seq(C)
  BY JoinedToIs
<1>4. /\ Joined(all, sep) = A[N + 1] /\ A[0] = <<>>
      /\ \A n \in 1 .. N + 1 : A[n] = A[n - 1] \o (IF n = 1 THEN <<>> ELSE sep) \o all[n]
  <2> DEFINE M == Len(all)
  <2>1. /\ Joined(all, sep) = A[M] /\ A[0] = <<>>
        /\ \A n \in 1 .. M : A[n] = A[n - 1] \o (IF n = 1 THEN <<>> ELSE sep) \o all[n]
    BY <1>2, JoinedToIs
  <2>2. M = N + 1
    BY <1>2
  <2> HIDE DEF M, A, N
  <2> QED
    BY <2>1, <2>2
<1>5. N = 0 <=> parts = <<>>
  BY EmptySeq
<1> HIDE DEF J, A, N
<1>6. \A n \in 0 .. N : A[n] = J[n]
  <2> DEFINE S == {n \in 0 .. N : A[n] = J[n]}
  <2>1. 0 \in S
    <3>1. 0 \in 0 .. N
      BY <1>1
    <3> QED
      BY <1>3, <1>4, <3>1, Zenon
  <2>2. ASSUME NEW n \in 1 .. N, n - 1 \in S
        PROVE  n \in S
    <3>1. A[n - 1] = J[n - 1] /\ n \in 1 .. N + 1 /\ n \in 0 .. N
      BY <1>1, <2>2
    <3>2. J[n] = J[n - 1] \o (IF n = 1 THEN <<>> ELSE sep) \o parts[n]
      BY <1>3
    <3>3. A[n] = A[n - 1] \o (IF n = 1 THEN <<>> ELSE sep) \o all[n]
      BY <1>4, <3>1
    <3>4. all[n] = parts[n]
      BY <1>2
    <3> QED
      BY <3>1, <3>2, <3>3, <3>4, Zenon
  <2>3. \A n \in 0 .. N : n \in S
    <3> HIDE DEF S
    <3> QED
      BY <1>1, <2>1, <2>2, UpTo
  <2> QED
    BY <2>3
<1>7. A[N + 1] = A[N] \o (IF N + 1 = 1 THEN <<>> ELSE sep) \o all[N + 1] /\ (N + 1) - 1 = N
  <2>1. N + 1 \in 1 .. N + 1 /\ (N + 1) - 1 = N
    BY <1>1
  <2> QED
    BY <1>4, <2>1
<1>8. A[N] = J[N] /\ J[N] \in Seq(C)
  BY <1>1, <1>3, <1>6
<1>9. N + 1 = 1 <=> parts = <<>>
  BY <1>5, <1>1
<1> QED
  BY <1>2, <1>3, <1>4, <1>7, <1>8, <1>9, Zenon DEF all, Before

\* Of nothing, nothing is kept.
LEMMA SkeletonEmpty == Skeleton(<<>>) = <<>>
<1>1. <<>> \in Seq(AllChars) /\ Len(<<>>) = 0
  BY EmptySeq
<1> QED
  BY <1>1, SkeletonToIs

\* A skeleton grows with each character but blanks and quotes.
LEMMA SkeletonAppend ==
  ASSUME NEW t \in Seq(AllChars), NEW c \in AllChars
  PROVE  /\ Skeleton(t) \in Seq(AllChars)
         /\ Skeleton(Append(t, c))
              = IF c \in Quotes \cup {" "} THEN Skeleton(t) ELSE Append(Skeleton(t), c)
<1> DEFINE all == Append(t, c)
           J == SkeletonTo(t)
           A == SkeletonTo(all)
           N == Len(t)
<1>1. N \in Nat
  OBVIOUS
<1>2. /\ all \in Seq(AllChars) /\ Len(all) = N + 1
      /\ \A n \in 1 .. N : all[n] = t[n]
      /\ all[N + 1] = c
  BY AppendProperties
<1> HIDE DEF all
<1>3. /\ Skeleton(t) = J[N] /\ J[0] = <<>>
      /\ \A n \in 1 .. N : J[n] = IF t[n] \in Quotes \cup {" "} THEN J[n - 1] ELSE Append(J[n - 1], t[n])
      /\ \A n \in 0 .. N : J[n] \in Seq(AllChars)
  BY SkeletonToIs
<1>4. /\ Skeleton(all) = A[N + 1] /\ A[0] = <<>>
      /\ \A n \in 1 .. N + 1 : A[n] = IF all[n] \in Quotes \cup {" "} THEN A[n - 1] ELSE Append(A[n - 1], all[n])
  BY <1>2, SkeletonToIs
<1> HIDE DEF J, A, N
<1>5. \A n \in 0 .. N : A[n] = J[n]
  <2> DEFINE S == {n \in 0 .. N : A[n] = J[n]}
  <2>1. 0 \in S
    <3>1. 0 \in 0 .. N
      BY <1>1
    <3> QED
      BY <1>3, <1>4, <3>1, Zenon
  <2>2. ASSUME NEW n \in 1 .. N, n - 1 \in S
        PROVE  n \in S
    <3>1. A[n - 1] = J[n - 1] /\ n \in 1 .. N + 1 /\ n \in 0 .. N
      BY <1>1, <2>2
    <3> QED
      BY <1>2, <1>3, <1>4, <3>1
  <2>3. \A n \in 0 .. N : n \in S
    <3> HIDE DEF S
    <3> QED
      BY <1>1, <2>1, <2>2, UpTo
  <2> QED
    BY <2>3
<1>6. A[N + 1] = (IF all[N + 1] \in Quotes \cup {" "} THEN A[N] ELSE Append(A[N], all[N + 1]))
  <2>1. N + 1 \in 1 .. N + 1 /\ (N + 1) - 1 = N
    BY <1>1
  <2> QED
    BY <1>4, <2>1
<1>7. A[N] = J[N] /\ J[N] \in Seq(AllChars)
  <2>1. N \in 0 .. N
    BY <1>1
  <2> QED
    BY <1>3, <1>5, <2>1, Zenon
<1> QED
  BY <1>2, <1>3, <1>4, <1>6, <1>7, Zenon DEF all

\* The skeleton of two texts is that of the one and that of the other.
LEMMA SkeletonConcat ==
  ASSUME NEW a \in Seq(AllChars), NEW b \in Seq(AllChars)
  PROVE  Skeleton(a \o b) = Skeleton(a) \o Skeleton(b)
<1> DEFINE N == Len(b)
           T == Seq(AllChars)
           Part(n) == SubSeq(b, 1, n)
           S == {n \in 0 .. N : Skeleton(a \o Part(n)) = Skeleton(a) \o Skeleton(Part(n))}
<1>1. N \in Nat
  OBVIOUS
<1>2. \A n \in 0 .. N : Part(n) \in T
  BY PrefixIs
<1>3. \A n \in 1 .. N : Part(n) = Append(Part(n - 1), b[n]) /\ b[n] \in AllChars
  BY PrefixAppend, ElementOfSeq
<1>4. Part(0) = <<>> /\ Part(N) = b
  BY SubSeqEmpty, SubSeqFull
<1>5. \A u \in T : Skeleton(u) \in T
  <2>1. NL \in AllChars
    BY DEF AllChars
  <2> QED
    BY <2>1, SkeletonAppend
<1> HIDE DEF Part, N
<1>6. 0 \in S
  <2>1. Skeleton(a) \in T /\ a \in T
    BY <1>5
  <2>2. a \o <<>> = a /\ Skeleton(a) \o <<>> = Skeleton(a)
    BY <2>1, ConcatEmptySeq
  <2>3. 0 \in 0 .. N
    BY <1>1
  <2> QED
    BY <1>4, <2>2, <2>3, SkeletonEmpty, Zenon
<1>7. ASSUME NEW n \in 1 .. N, n - 1 \in S
      PROVE  n \in S
  <2> DEFINE p == Part(n - 1)
             c == b[n]
  <2>0. n - 1 \in 0 .. N /\ n \in 0 .. N
    BY <1>1
  <2>1. p \in T /\ c \in AllChars /\ Part(n) = Append(p, c) /\ Skeleton(a \o p) = Skeleton(a) \o Skeleton(p)
    BY <1>2, <1>3, <1>7, <2>0
  <2> HIDE DEF p, c
  <2>2. \A x, y \in T : x \o y \in T /\ x \o Append(y, c) = Append(x \o y, c)
    <3> TAKE x, y \in T
    <3>1. <<c>> \in T
      BY <2>1
    <3>2. \A z \in T : Append(z, c) = z \o <<c>>
      BY <2>1, AppendIsConcat
    <3>3. x \o y \in T
      BY ConcatProperties
    <3>4. x \o (y \o <<c>>) = (x \o y) \o <<c>>
      BY <3>1, ConcatAssociative
    <3> QED
      BY <3>2, <3>3, <3>4, Zenon
  <2>3. a \o Append(p, c) = Append(a \o p, c) /\ a \o p \in T
    BY <2>1, <2>2
  <2>4. Skeleton(a) \in T /\ Skeleton(p) \in T
    BY <1>5, <2>1
  <2>5. Skeleton(Append(a \o p, c)) = IF c \in Quotes \cup {" "} THEN Skeleton(a \o p) ELSE Append(Skeleton(a \o p), c)
    BY <2>1, <2>3, SkeletonAppend
  <2>6. Skeleton(Append(p, c)) = IF c \in Quotes \cup {" "} THEN Skeleton(p) ELSE Append(Skeleton(p), c)
    BY <2>1, SkeletonAppend
  <2>7. Skeleton(a) \o Append(Skeleton(p), c) = Append(Skeleton(a) \o Skeleton(p), c)
    BY <2>2, <2>4
  <2>8. Skeleton(a \o Part(n)) = Skeleton(a) \o Skeleton(Part(n))
    BY <2>1, <2>3, <2>5, <2>6, <2>7, Zenon
  <2> QED
    BY <2>0, <2>8
<1>8. \A n \in 0 .. N : n \in S
  <2> HIDE DEF S
  <2> QED
    BY <1>1, <1>6, <1>7, UpTo
<1>9. N \in S
  BY <1>1, <1>8
<1> QED
  BY <1>4, <1>9

\* What is kept is a text.
LEMMA SkeletonIs ==
  ASSUME NEW t \in Seq(AllChars)
  PROVE  Skeleton(t) \in Seq(AllChars)
<1>1. NL \in AllChars
  BY DEF AllChars
<1> QED
  BY <1>1, SkeletonAppend

\* What is kept of a character.
LEMMA SkeletonOne ==
  ASSUME NEW c \in AllChars
  PROVE  Skeleton(<<c>>) = IF c \in Quotes \cup {" "} THEN <<>> ELSE <<c>>
<1>1. <<>> \in Seq(AllChars) /\ <<c>> = Append(<<>>, c)
  BY EmptySeq
<1>2. Skeleton(Append(<<>>, c))
        = IF c \in Quotes \cup {" "} THEN Skeleton(<<>>) ELSE Append(Skeleton(<<>>), c)
  BY <1>1, SkeletonAppend
<1> QED
  BY <1>1, <1>2, SkeletonEmpty

(***************************************************************************)
(* The scan ends.                                                          *)
(***************************************************************************)

\* A line ends in its only newline.
Line(t) == /\ t \in LineText /\ t # <<>>
           /\ At(t, Len(t)) = NL
           /\ \A p \in 1 .. Len(t) - 1 : At(t, p) # NL

\* A line has one newline, at its end.
LEMMA LineIs ==
  ASSUME NEW text \in Seq(Chars)
  PROVE  /\ Line(text \o <<NL>>)
         /\ Len(text \o <<NL>>) = Len(text) + 1
         /\ SubSeq(text \o <<NL>>, 1, Len(text)) = text
         /\ text \in LineText
         /\ \A p \in Nat : At(text, p) # NL \/ p = 0
<1> DEFINE t == text \o <<NL>>
           N == Len(text)
<1>1. text \in LineText /\ <<NL>> \in LineText /\ Len(<<NL>>) = 1 /\ <<NL>>[1] = NL
  BY SeqMonotonic DEF LineText
<1>2. N \in Nat
  OBVIOUS
<1>3. /\ t \in LineText /\ Len(t) = N + 1
      /\ \A p \in 1 .. N + 1 : t[p] = IF p <= N THEN text[p] ELSE <<NL>>[p - N]
  <2>1. /\ t \in LineText /\ Len(t) = Len(text) + Len(<<NL>>)
        /\ \A p \in 1 .. Len(text) + Len(<<NL>>) : t[p] = IF p <= Len(text) THEN text[p] ELSE <<NL>>[p - Len(text)]
    BY <1>1, ConcatProperties DEF LineText
  <2> HIDE DEF t
  <2> QED
    BY <1>1, <2>1
<1>4. \A p \in 1 .. N : text[p] \in Chars /\ text[p] # NL
  <2>1. \A p \in 1 .. N : text[p] \in Chars
    BY ElementOfSeq
  <2>2. NL \notin Chars
    BY CharsApart
  <2> QED
    BY <2>1, <2>2
<1>5. SubSeq(t, 1, N) = text
  <2>1. /\ SubSeq(t, 1, N) \in LineText /\ Len(SubSeq(t, 1, N)) = N
        /\ \A j \in 1 .. N : SubSeq(t, 1, N)[j] = t[j]
    <3>1. N <= Len(t)
      BY <1>2, <1>3
    <3> HIDE DEF t, N
    <3> QED
      BY <1>2, <1>3, <3>1, PrefixIs DEF LineText
  <2>2. \A j \in 1 .. N : t[j] = text[j]
    <3> HIDE DEF t
    <3> QED
      BY <1>2, <1>3
  <2> DEFINE u == SubSeq(t, 1, N)
  <2>3. Len(u) = Len(text) /\ \A j \in 1 .. Len(u) : u[j] = text[j]
    <3> HIDE DEF t
    <3> QED
      BY <2>1, <2>2
  <2> HIDE DEF u
  <2>4. u \in LineText
    BY <2>1 DEF u
  <2>5. u = text
    BY <1>1, <2>3, <2>4, SeqEqual DEF LineText
  <2> QED
    BY <2>5 DEF u
<1>6. Line(t)
  <2>1. N + 1 \in 1 .. Len(t) /\ Len(t) - 1 = N
    <3> HIDE DEF t, N
    <3> QED
      BY <1>2, <1>3
  <2>2. t[N + 1] = NL
    <3>1. N + 1 \in 1 .. N + 1 /\ ~(N + 1 <= N) /\ (N + 1) - N = 1
      BY <1>2
    <3> HIDE DEF t, N
    <3> QED
      BY <1>1, <1>3, <3>1
  <2> HIDE DEF t, N
  <2>3. At(t, Len(t)) = NL /\ t # <<>>
    <3>1. \A p \in 1 .. Len(t) : At(t, p) = t[p]
      BY <1>3, AtIs
    <3> QED
      BY <1>3, <2>1, <2>2, <3>1, EmptySeq
  <2>4. ASSUME NEW p \in 1 .. Len(t) - 1
        PROVE  At(t, p) # NL
    <3>1. p \in 1 .. N /\ p \in 1 .. N + 1 /\ p <= N /\ p \in 1 .. Len(t)
      BY <1>2, <2>1
    <3>2. At(t, p) = t[p] /\ t[p] = text[p]
      BY <1>3, <3>1, AtIs
    <3> QED
      BY <1>4, <3>1, <3>2
  <2> QED
    BY <1>3, <2>3, <2>4 DEF Line
<1>7. \A p \in Nat : At(text, p) # NL \/ p = 0
  <2>1. \A p \in 1 .. N : At(text, p) # NL
    BY <1>1, <1>4, AtIs
  <2>2. \A p \in Nat : p > N => At(text, p) # NL
    BY <1>1, AtIs, CharsApart
  <2>3. \A p \in Nat : p = 0 \/ p \in 1 .. N \/ p > N
    BY <1>2
  <2> QED
    BY <2>1, <2>2, <2>3
<1> QED
  BY <1>1, <1>3, <1>5, <1>6, <1>7

\* In a line, each turn before the newline gets further, but not past it.
LEMMA LineTurn ==
  ASSUME NEW t, Line(t), NEW s \in ScanStates(t), Proper(s), s.res \in Running,
         s.pos \in 1 .. Len(t) - 1
  PROVE  LET n == Turn(t, s)
         IN  n.res = "error" \/ (n.res \in Running /\ n.pos \in s.pos + 1 .. Len(t))
<1> DEFINE p == skip_whitespace(t, s.pos)
           n == Turn(t, s)
           L == Len(t)
<1>0. t \in LineText /\ L \in Nat /\ At(t, L) = NL /\ L \in 1 .. L /\ s.pos \in 1 .. L + 1
  <2>1. t \in LineText /\ At(t, L) = NL /\ L \in Nat \ {0}
    BY EmptySeq DEF Line, LineText
  <2> QED
    BY <2>1
<1>1. p \in s.pos .. L
  <2>1. p \in s.pos .. L + 1 /\ \A q \in s.pos .. p - 1 : At(t, q) = " "
    BY <1>0, SkipIs
  <2>2. p # L + 1
    <3> SUFFICES ASSUME p = L + 1 PROVE FALSE
      OBVIOUS
    <3>1. L \in s.pos .. p - 1
      BY <1>0
    <3> QED
      BY <1>0, <2>1, <3>1 DEF NL
  <2>3. p \in s.pos .. L + 1 /\ L \in Nat /\ s.pos \in 1 .. L + 1
    BY <1>0, <2>1
  <2> HIDE DEF p, L
  <2> QED
    BY ONLY <2>2, <2>3
<1>2. \/ Rejects(t, p, n) /\ n \in ScanStates(t)
      \/ PassesBlanks(t, s, p, n)
      \/ TakesOperator(t, s, p, n)
      \/ TakesWord(t, s, p, n)
  BY <1>0, TurnCases
<1>3. /\ n \in Sane(t)
      /\ n.res \in Running => n.pos >= s.pos /\ (n.pos = s.pos => s.pos = L + 1)
  <2>1. At(t, s.pos) # NL
    BY DEF Line
  <2> QED
    BY <1>0, <2>1, TurnAdvances
<1> HIDE DEF p, n
<1>4. n.res \in Running => n.pos > s.pos /\ n.pos \in Nat
  <2>1. n.pos \in 1 .. L + 1
    BY <1>3 DEF Sane, ScanStates
  <2>2. n.res \in Running => n.pos >= s.pos /\ (n.pos = s.pos => s.pos = L + 1)
    BY <1>3
  <2>3. L \in Nat /\ s.pos \in 1 .. L - 1
    BY <1>0
  <2> HIDE DEF L
  <2> QED
    BY ONLY <2>1, <2>2, <2>3
<1>5. CASE Rejects(t, p, n)
  <2>1. L \in p .. L
    BY <1>0, <1>1
  <2>2. n.res # "overrun"
    BY <1>0, <1>5, <2>1 DEF Rejects
  <2> QED
    BY <1>5, <2>2 DEF Rejects, n
<1>6. ASSUME n.res \in Running, n.pos <= L
      PROVE  n.pos \in s.pos + 1 .. L
  BY <1>0, <1>4, <1>6
<1>7. CASE PassesBlanks(t, s, p, n)
  <2>1. n.res \in Running /\ n.pos = p
    BY <1>7 DEF PassesBlanks
  <2>2. p <= L
    BY <1>1
  <2> QED
    BY <1>6, <2>1, <2>2 DEF n
<1>8. CASE TakesOperator(t, s, p, n)
  <2>1. n.res \in Running /\ n.pos = p + 1 /\ At(t, p) # NL
    BY <1>8 DEF TakesOperator, Running, NL
  <2>2. p # L
    BY <1>0, <2>1
  <2>3. p + 1 <= L
    BY <1>0, <1>1, <2>2
  <2> QED
    BY <1>6, <2>1, <2>3 DEF n
<1>9. CASE TakesWord(t, s, p, n)
  <2>1. PICK word \in Words, next \in p .. L + 1 :
          WordAt(t, p, next, word) /\ StoredAs(s, word, next, n)
    BY <1>9 DEF TakesWord
  <2>2. n.res \in Running /\ n.pos = next
    BY <2>1 DEF StoredAs
  <2>3. next # L + 1
    <3> SUFFICES ASSUME next = L + 1 PROVE FALSE
      OBVIOUS
    <3>1. next - 1 = L /\ p <= L /\ next # p /\ p \in Nat /\ p >= 1
      BY <1>0, <1>1
    <3>2. CASE /\ word = SubSeq(t, p, next - 1) /\ next > p
      <4>1. \A i \in p .. L : t[i] \in Chars \cup {NL}
        <5>1. \A i \in p .. L : i \in 1 .. L
          BY <1>0, <3>1
        <5> QED
          BY <1>0, <5>1, ElementOfSeq DEF LineText
      <4>2. /\ Len(SubSeq(t, p, L)) = L - p + 1
            /\ \A i \in 1 .. L - p + 1 : SubSeq(t, p, L)[i] = t[p + i - 1]
        <5>1. /\ Len(SubSeq(t, p, L)) = IF p <= L THEN L - p + 1 ELSE 0
              /\ \A i \in 1 .. L - p + 1 : SubSeq(t, p, L)[i] = t[p + i - 1]
          <6>1. p \in Int /\ L \in Int
            BY <1>0, <3>1
          <6> HIDE DEF L
          <6> QED
            BY ONLY <4>1, <6>1, SubSeqProperties
        <5> QED
          BY <3>1, <5>1
      <4>3. L - p + 1 \in 1 .. L - p + 1 /\ p + (L - p + 1) - 1 = L
        BY <1>0, <3>1
      <4>4. word[L - p + 1] = t[L] /\ L - p + 1 \in 1 .. Len(word)
        BY <3>1, <3>2, <4>2, <4>3
      <4>5. word[L - p + 1] \in Chars
        BY <4>4, ElementOfSeq DEF Words
      <4>6. t[L] = NL
        BY <1>0, AtIs
      <4> QED
        BY <4>4, <4>5, <4>6, CharsApart
    <3>3. CASE At(t, p) \in Quotes /\ At(t, next - 1) = At(t, p)
      <4>1. At(t, next - 1) = NL
        BY <1>0, <3>1
      <4> QED
        BY <3>3, <4>1, CharsApart DEF Chars
    <3>4. next = p \/ (word = SubSeq(t, p, next - 1) /\ next > p) \/ (At(t, p) \in Quotes /\ At(t, next - 1) = At(t, p))
      BY <2>1 DEF WordAt
    <3> QED
      BY <3>1, <3>2, <3>3, <3>4
  <2>4. next <= L
    <3>1. next \in p .. L + 1
      OBVIOUS
    <3> HIDE DEF L
    <3> QED
      BY <1>0, <1>1, <2>3, <3>1
  <2> QED
    BY <1>6, <2>2, <2>4 DEF n
<1> QED
  BY <1>2, <1>5, <1>7, <1>8, <1>9

\* A step in a line: a turn before the newline, and the last check at it.
LEMMA LineStep ==
  ASSUME NEW t, Line(t), NEW s \in Sane(t), s.res \in Running, s.pos \in 1 .. Len(t)
  PROVE  /\ s.pos = Len(t) => Step(t, s) = Finished(s)
         /\ s.pos # Len(t) =>
              /\ Step(t, s) = Turn(t, s)
              /\ \/ Step(t, s).res = "error"
                 \/ Step(t, s).res \in Running /\ Step(t, s).pos \in s.pos + 1 .. Len(t)
<1> DEFINE n == Turn(t, s)
<1>1. s \in ScanStates(t) /\ Proper(s) /\ Len(t) \in Nat
  BY DEF Sane, Line, LineText
<1>2. CASE s.pos = Len(t)
  BY <1>2 DEF Line, Step, Running
<1>3. CASE s.pos # Len(t)
  <2>1. s.pos \in 1 .. Len(t) - 1
    BY <1>1, <1>3
  <2>2. At(t, s.pos) # NL
    BY <2>1 DEF Line
  <2>3. n.res = "error" \/ (n.res \in Running /\ n.pos \in s.pos + 1 .. Len(t))
    BY <1>1, <2>1, LineTurn
  <2>4. ~(n.res \in {"FG", "BG"} /\ n.pos = s.pos /\ n.mode = s.mode)
    BY <2>1, <2>3 DEF Running
  <2>5. Step(t, s) = n
    BY <2>2, <2>4, Zenon DEF Step, Running
  <2> QED
    BY <1>3, <2>3, <2>5
<1> QED
  BY <1>2, <1>3

\* The scan of a line ends at its newline, if not in an error.
LEMMA LineScan ==
  ASSUME NEW t, Line(t)
  PROVE  LET s == Scan(t)[Len(t) + 2]
         IN  \/ s.res = "error"
             \/ /\ s \in ScanStates(t) /\ Proper(s) /\ s.res \in Running
                /\ s.pos = Len(t)
                /\ s.cmds = <<>> \/ s.mode \notin {ReadCommand, ReadFilename}
<1> DEFINE L == Len(t)
           N == Len(t) + 2
           Good(n) == LET s == Scan(t)[n]
                      IN  \/ s.res = "error"
                          \/ s.res \in Running /\ s.pos \in 1 .. L /\ (s.pos > n \/ s.pos = L)
           S == {n \in 0 .. N : Good(n)}
<1>0. t \in LineText /\ L \in Nat \ {0}
  BY EmptySeq DEF Line, LineText
<1>1. /\ Scan(t)[0] = Start
      /\ \A n \in 1 .. N : Scan(t)[n] = Step(t, Scan(t)[n - 1])
      /\ \A n \in 0 .. N : Scan(t)[n] \in Sane(t)
  BY <1>0, ScanIs
<1>2. 0 \in S
  <2>1. Start.res \in Running /\ Start.pos = 1
    BY <1>0, StartIsSane DEF Running
  <2>2. 0 \in 0 .. N /\ 1 \in 1 .. L /\ 1 > 0
    BY <1>0
  <2> QED
    BY <1>1, <2>1, <2>2
<1> HIDE DEF L, N
<1>3. ASSUME NEW n \in 1 .. N, n - 1 \in S
      PROVE  n \in S
  <2> DEFINE s == Scan(t)[n - 1]
  <2>0. n - 1 \in 0 .. N /\ n \in 0 .. N
    BY <1>3
  <2>1. s \in Sane(t) /\ Scan(t)[n] = Step(t, s)
    BY <1>1, <2>0
  <2>2. s.res = "error" \/ (s.res \in Running /\ s.pos \in 1 .. L /\ (s.pos > n - 1 \/ s.pos = L))
    BY <1>3
  <2> HIDE DEF s
  <2>3. CASE s.res = "error"
    BY <2>0, <2>1, <2>3 DEF Step
  <2>4. CASE s.res \in Running /\ s.pos = L
    <3>1. Step(t, s) = Finished(s)
      <4>1. s.pos \in 1 .. Len(t) /\ s.pos = Len(t) /\ s.res \in Running
        BY <1>0, <2>4 DEF L
      <4>2. s.pos = Len(t) => Step(t, s) = Finished(s)
        BY <2>1, <4>1, LineStep
      <4> QED
        BY <4>1, <4>2
    <3>2. Finished(s) = s \/ Finished(s).res = "error"
      <4>1. s \in ScanStates(t)
        BY <2>1 DEF Sane
      <4> QED
        BY <4>1, WrongIs DEF Finished
    <3>3. L \in 1 .. L
      BY <1>0
    <3> QED
      BY <2>0, <2>1, <2>4, <3>1, <3>2, <3>3
  <2>5. CASE s.res \in Running /\ s.pos # L /\ s.pos \in 1 .. L /\ s.pos > n - 1
    <3> DEFINE m == Step(t, s)
    <3>1. m.res = "error" \/ (m.res \in Running /\ m.pos \in s.pos + 1 .. L)
      BY <2>1, <2>5, LineStep DEF L
    <3> HIDE DEF m
    <3>2. m.pos \in s.pos + 1 .. L => m.pos \in 1 .. L /\ m.pos > n
      BY ONLY <1>0, <2>0, <2>5
    <3> QED
      BY <2>0, <2>1, <3>1, <3>2 DEF m
  <2> QED
    BY <2>2, <2>3, <2>4, <2>5
<1>4. \A n \in 0 .. N : Good(n)
  <2>1. \A n \in 0 .. N : n \in S
    <3>1. N \in Nat
      BY <1>0 DEF L, N
    <3> HIDE DEF S
    <3> QED
      BY <1>2, <1>3, <3>1, UpTo
  <2> QED
    BY <2>1
<1>5. L \in 0 .. N /\ L + 1 \in 1 .. N /\ L + 2 \in 1 .. N /\ (L + 1) - 1 = L /\ (L + 2) - 1 = L + 1 /\ L + 1 \in 0 .. N /\ N = L + 2
  BY <1>0 DEF L, N
<1> DEFINE a == Scan(t)[L]
           b == Scan(t)[L + 1]
           c == Scan(t)[L + 2]
<1>6. b = Step(t, a) /\ c = Step(t, b) /\ a \in Sane(t) /\ b \in Sane(t)
  BY <1>1, <1>5
<1>7. a.res = "error" \/ (a.res \in Running /\ a.pos = L /\ a.pos \in 1 .. L)
  <2>1. Good(L)
    BY <1>4, <1>5
  <2>2. a.pos \in 1 .. L => ~(a.pos > L)
    BY <1>0
  <2> QED
    BY <2>1, <2>2
<1> HIDE DEF a, b, c
<1>8. \A s : s.res = "error" => Step(t, s) = s
  BY DEF Step
<1>9. CASE a.res \in Running /\ a.pos = L /\ a.pos \in 1 .. L
  <2>1. b = Finished(a)
    BY <1>6, <1>9, LineStep DEF L
  <2>2. CASE b = a
    <3>1. c = b
      BY <1>6, <2>2
    <3>2. a \in ScanStates(t) /\ Proper(a)
      BY <1>6, <1>9 DEF Sane
    <3>3. a.cmds = <<>> \/ a.mode \notin {ReadCommand, ReadFilename}
      <4> SUFFICES ASSUME a.cmds # <<>> /\ a.mode \in {ReadCommand, ReadFilename} PROVE FALSE
        OBVIOUS
      <4>1. a = Wrong(a)
        BY <2>1, <2>2 DEF Finished
      <4>2. a.res = "error"
        BY <3>2, <4>1, WrongIs
      <4> QED
        BY <1>9, <4>2 DEF Running
    <3> QED
      BY <1>5, <1>9, <2>2, <3>1, <3>2, <3>3 DEF c, L
  <2>3. CASE b = Wrong(a)
    <3>1. b.res = "error"
      <4>1. a \in ScanStates(t)
        BY <1>6 DEF Sane
      <4> QED
        BY <2>3, <4>1, WrongIs
    <3>2. c = b
      BY <1>6, <1>8, <3>1
    <3> QED
      BY <1>5, <3>1, <3>2 DEF c, L
  <2> QED
    BY <2>1, <2>2, <2>3 DEF Finished
<1>10. CASE a.res = "error"
  <2>1. c = a
    BY <1>6, <1>8, <1>10
  <2> QED
    BY <1>10, <2>1 DEF c, L
<1> QED
  BY <1>7, <1>9, <1>10

\* A text without a newline is never run: the loop does not get behind it.
LEMMA CutIsNotRun ==
  ASSUME NEW t \in Seq(Chars)
  PROVE  parseline(t).res \notin Running
<1> DEFINE L == Len(t)
           N == Len(t) + 2
           Far(s) == s.pos + (IF s.pos = L + 1 /\ s.mode \notin {ReadCommand, ReadFilename} THEN 1 ELSE 0)
           S == {n \in 0 .. N : Scan(t)[n].res \notin Running \/ Far(Scan(t)[n]) > n}
<1>0. t \in LineText /\ L \in Nat /\ \A p \in Nat \ {0} : At(t, p) # NL
  BY LineIs
<1>1. /\ Scan(t)[0] = Start
      /\ \A n \in 1 .. N : Scan(t)[n] = Step(t, Scan(t)[n - 1])
      /\ \A n \in 0 .. N : Scan(t)[n] \in Sane(t)
  BY <1>0, ScanIs
<1>2. 0 \in S
  <2>1. Start.pos = 1 /\ Start.mode = ReadCommand
    BY DEF Start
  <2>2. 0 \in 0 .. N /\ Far(Start) > 0
    BY <1>0, <2>1
  <2> QED
    BY <1>1, <2>2
<1> HIDE DEF L, N
<1>3. ASSUME NEW n \in 1 .. N, n - 1 \in S
      PROVE  n \in S
  <2> DEFINE s == Scan(t)[n - 1]
             m == Scan(t)[n]
             k == Turn(t, s)
  <2>0. n - 1 \in 0 .. N /\ n \in 0 .. N
    BY <1>3
  <2>1. s \in Sane(t) /\ m = Step(t, s) /\ m \in Sane(t)
    BY <1>1, <2>0
  <2>2. s.res \notin Running \/ Far(s) > n - 1
    BY <1>3
  <2> SUFFICES ASSUME m.res \in Running PROVE Far(m) > n
    BY <2>0
  <2> HIDE DEF s, m, k
  <2>3. s.res \in Running
    BY <2>1 DEF Step, Running
  <2>4. s \in ScanStates(t) /\ Proper(s) /\ s.pos \in 1 .. L + 1 /\ m.pos \in 1 .. L + 1
    BY <2>1, <2>3 DEF Sane, ScanStates, L
  <2>5. At(t, s.pos) # NL
    <3>1. s.pos \in Nat \ {0}
      BY <1>0, <2>4
    <3> QED
      BY <1>0, <3>1
  <2>6. /\ k.res \in Running => k.pos >= s.pos
        /\ k.res \in Running /\ k.pos = s.pos =>
             /\ s.pos = L + 1
             /\ \/ k.mode = s.mode
                \/ s.mode \in {ReadCommand, ReadFilename} /\ k.mode \notin {ReadCommand, ReadFilename}
    BY <1>0, <2>3, <2>4, <2>5, TurnAdvances DEF L, k
  <2>7. m = k /\ k.res \in Running /\ ~(k.pos = s.pos /\ k.mode = s.mode)
    <3>1. m = IF k.res \in {"FG", "BG"} /\ k.pos = s.pos /\ k.mode = s.mode
                THEN [k EXCEPT !.res = "loops"] ELSE k
      BY <2>1, <2>3, <2>5, Zenon DEF Step, Running, k
    <3>2. CASE k.res \in {"FG", "BG"} /\ k.pos = s.pos /\ k.mode = s.mode
      <4>1. m.res = "loops"
        <5>1. k \in ScanStates(t)
          BY <1>0, <2>3, <2>4, <2>5, TurnAdvances DEF Sane, k
        <5> QED
          BY <3>1, <3>2, <5>1, GivenUp, "loops" \in {"error", "overrun", "loops"}
      <4> QED
        BY <4>1 DEF Running
    <3>3. CASE ~(k.res \in {"FG", "BG"} /\ k.pos = s.pos /\ k.mode = s.mode)
      BY <3>1, <3>3 DEF Running
    <3> QED
      BY <3>2, <3>3
  <2>8. m.pos \in Nat /\ s.pos \in Nat /\ m.pos <= L + 1 /\ s.pos <= L + 1 /\ n \in Nat
    BY <1>0, <2>0, <2>4
  <2>9. CASE k.pos = s.pos
    <3>1. s.pos = L + 1 /\ s.mode \in {ReadCommand, ReadFilename} /\ m.mode \notin {ReadCommand, ReadFilename} /\ m.pos = L + 1
      BY <2>6, <2>7, <2>9
    <3>2. Far(s) = L + 1 /\ Far(m) = L + 2 /\ Far(s) > n - 1
      BY <1>0, <2>2, <2>3, <3>1
    <3> HIDE DEF Far
    <3> QED
      BY ONLY <1>0, <2>8, <3>2
  <2>10. CASE k.pos # s.pos
    <3>1. m.pos > s.pos
      BY <2>6, <2>7, <2>8, <2>10
    <3>2. s.pos # L + 1
      BY <1>0, <2>8, <3>1
    <3>3. Far(s) = s.pos /\ Far(m) >= m.pos /\ Far(s) > n - 1 /\ Far(m) \in Nat
      BY <2>2, <2>3, <2>8, <3>2
    <3> HIDE DEF Far
    <3> QED
      BY ONLY <2>8, <3>1, <3>3
  <2> QED
    BY <2>9, <2>10
<1>4. N \in S
  <2>1. N \in Nat /\ N \in 0 .. N
    BY <1>0 DEF L, N
  <2> HIDE DEF S
  <2>2. \A n \in 0 .. N : n \in S
    BY <1>2, <1>3, <2>1, UpTo
  <2> QED
    BY <2>1, <2>2
<1>5. Scan(t)[N].res \notin Running
  <2> DEFINE s == Scan(t)[N]
  <2>1. N \in 0 .. N /\ N = L + 2
    BY <1>0 DEF L, N
  <2>2. s.pos \in 1 .. L + 1
    <3>1. s \in Sane(t)
      BY <1>1, <2>1
    <3> QED
      BY <3>1 DEF Sane, ScanStates, L
  <2>3. s.res \notin Running \/ Far(s) > N
    BY <1>4
  <2> HIDE DEF s
  <2>4. ~(Far(s) > N)
    BY <1>0, <2>1, <2>2
  <2> QED
    BY <2>3, <2>4 DEF s
<1> QED
  BY <1>5 DEF parseline, N

(***************************************************************************)
(* What was read, written out again.                                       *)
(***************************************************************************)

\* The elements of a sequence, mapped.
Mapped(q, f) == [i \in DOMAIN q |-> f[q[i]]]

Maps(A, B) == [A -> B]

\* Its length and its elements.
LEMMA MappedIs ==
  ASSUME NEW A, NEW B, NEW f \in Maps(A, B), NEW q \in Seq(A)
  PROVE  /\ Mapped(q, f) \in Seq(B) /\ Len(Mapped(q, f)) = Len(q)
         /\ \A i \in 1 .. Len(q) : Mapped(q, f)[i] = f[q[i]]
         /\ Mapped(q, f) = <<>> <=> q = <<>>
<1>1. DOMAIN q = 1 .. Len(q) /\ Len(q) \in Nat
  BY LenProperties
<1>2. \A i \in 1 .. Len(q) : f[q[i]] \in B
  BY ElementOfSeq DEF Maps
<1>3. Mapped(q, f) = [i \in 1 .. Len(q) |-> f[q[i]]]
  BY <1>1 DEF Mapped
<1>4. Mapped(q, f) \in [1 .. Len(q) -> B]
  BY <1>2, <1>3
<1>5. Mapped(q, f) \in Seq(B)
  BY <1>1, <1>4
<1>6. Len(Mapped(q, f)) = Len(q)
  BY <1>1, <1>3
<1> QED
  BY <1>3, <1>5, <1>6, EmptySeq

\* One element more.
LEMMA MappedAppend ==
  ASSUME NEW A, NEW B, NEW f \in Maps(A, B), NEW q \in Seq(A), NEW x \in A
  PROVE  Mapped(Append(q, x), f) = Append(Mapped(q, f), f[x])
<1> DEFINE a == Mapped(Append(q, x), f)
           m == Mapped(q, f)
           N == Len(q)
<1>1. Append(q, x) \in Seq(A) /\ Len(Append(q, x)) = N + 1 /\ N \in Nat
      /\ (\A i \in 1 .. N : Append(q, x)[i] = q[i]) /\ Append(q, x)[N + 1] = x
  BY AppendProperties
<1>2. /\ a \in Seq(B) /\ Len(a) = Len(Append(q, x))
      /\ \A i \in 1 .. Len(Append(q, x)) : a[i] = f[Append(q, x)[i]]
  <2> DEFINE u == Append(q, x)
  <2>1. u \in Seq(A)
    BY <1>1
  <2> HIDE DEF u
  <2>2. Mapped(u, f) \in Seq(B) /\ Len(Mapped(u, f)) = Len(u) /\ \A i \in 1 .. Len(u) : Mapped(u, f)[i] = f[u[i]]
    BY <2>1, MappedIs
  <2> QED
    BY <2>2 DEF u
<1>3. m \in Seq(B) /\ Len(m) = N /\ \A i \in 1 .. N : m[i] = f[q[i]]
  BY MappedIs
<1>4. f[x] \in B
  BY DEF Maps
<1> HIDE DEF a, m, N
<1>5. /\ Append(m, f[x]) \in Seq(B) /\ Len(Append(m, f[x])) = N + 1
      /\ \A i \in 1 .. N : Append(m, f[x])[i] = m[i]
      /\ Append(m, f[x])[N + 1] = f[x]
  BY <1>3, <1>4, AppendProperties
<1>6. \A i \in 1 .. N + 1 : a[i] = Append(m, f[x])[i]
  <2> TAKE i \in 1 .. N + 1
  <2>1. a[i] = f[Append(q, x)[i]]
    BY <1>1, <1>2
  <2>2. CASE i = N + 1
    BY <1>1, <1>5, <2>1, <2>2
  <2>3. CASE i # N + 1
    <3>1. i \in 1 .. N
      BY <1>1, <2>3
    <3> QED
      BY <1>1, <1>3, <1>5, <2>1, <3>1
  <2> QED
    BY <2>2, <2>3
<1>7. Len(a) = Len(Append(m, f[x])) /\ Len(a) = N + 1
  BY <1>1, <1>2, <1>5
<1>8. a = Append(m, f[x])
  BY <1>2, <1>5, <1>6, <1>7, SeqEqual
<1> QED
  BY <1>8 DEF a, m

\* What words are made of are characters.
LEMMA WordsAreTexts ==
  /\ Words \subseteq Seq(AllChars)
  /\ LineText \subseteq Seq(AllChars)
  /\ Vectors \subseteq Seq(Seq(AllChars)) /\ Vectors \subseteq Seq(Words)
  /\ <<" ">> \in Seq(AllChars) /\ <<"|">> \in Seq(AllChars) /\ <<">">> \in Seq(AllChars)
  /\ <<"&">> \in Seq(AllChars) /\ <<NL>> \in Seq(AllChars) /\ <<>> \in Seq(AllChars)
<1>1. Chars \subseteq AllChars /\ Chars \cup {NL} \subseteq AllChars
  BY DEF AllChars
<1>2. Words \subseteq Seq(AllChars)
  BY <1>1, SeqMonotonic DEF Words
<1>3. LineText \subseteq Seq(AllChars)
  BY <1>1, SeqMonotonic DEF LineText
<1>4. Vectors \subseteq Seq(Words)
  BY DEF Vectors
<1>5. Vectors \subseteq Seq(Seq(AllChars))
  BY <1>2, <1>4, SeqMonotonic
<1>6. " " \in AllChars /\ "|" \in AllChars /\ ">" \in AllChars /\ "&" \in AllChars /\ NL \in AllChars
  BY DEF AllChars, Chars, Operators
<1>7. /\ <<" ">> \in Seq(AllChars) /\ <<"|">> \in Seq(AllChars) /\ <<">">> \in Seq(AllChars)
      /\ <<"&">> \in Seq(AllChars) /\ <<NL>> \in Seq(AllChars) /\ <<>> \in Seq(AllChars)
  <2>1. \A c \in AllChars : <<c>> \in Seq(AllChars)
    OBVIOUS
  <2>2. <<>> \in Seq(AllChars)
    BY EmptySeq
  <2> QED
    BY <1>6, <2>1, <2>2, Zenon
<1> QED
  BY <1>2, <1>3, <1>4, <1>5, <1>7, Zenon

\* Commands with a blank between their words and a bar between each other.
TypedArgv == [argv \in Vectors |-> Joined(argv, <<" ">>)]
Typed(cmds) == Joined(Mapped(cmds, TypedArgv), <<"|">>)

\* A command is written as a text.
LEMMA TypedArgvIs ==
  TypedArgv \in Maps(Vectors, Seq(AllChars))
<1>1. ASSUME NEW argv \in Vectors
      PROVE  Joined(argv, <<" ">>) \in Seq(AllChars)
  <2>1. argv \in Seq(Seq(AllChars)) /\ <<" ">> \in Seq(AllChars)
    BY WordsAreTexts
  <2> QED
    BY <2>1, JoinedAppend
<1> QED
  BY <1>1 DEF TypedArgv, Maps

\* One command more.
LEMMA TypedAppend ==
  ASSUME NEW cmds \in Seq(Vectors), NEW argv \in Vectors
  PROVE  /\ Typed(cmds) \in Seq(AllChars)
         /\ Typed(Append(cmds, argv))
              = Typed(cmds) \o Before(cmds, <<"|">>) \o Joined(argv, <<" ">>)
<1>1. TypedArgv \in Maps(Vectors, Seq(AllChars)) /\ <<"|">> \in Seq(AllChars)
  BY TypedArgvIs, WordsAreTexts
<1> DEFINE m == Mapped(cmds, TypedArgv)
           x == TypedArgv[argv]
<1>2. m \in Seq(Seq(AllChars)) /\ (m = <<>> <=> cmds = <<>>)
  BY <1>1, MappedIs
<1>3. Mapped(Append(cmds, argv), TypedArgv) = Append(m, x)
  BY <1>1, MappedAppend
<1>4. x \in Seq(AllChars) /\ x = Joined(argv, <<" ">>)
  <2>1. x \in Seq(AllChars)
    BY <1>1 DEF Maps
  <2>2. x = Joined(argv, <<" ">>)
    BY DEF TypedArgv
  <2> QED
    BY <2>1, <2>2
<1> HIDE DEF m, x
<1>5. /\ Joined(m, <<"|">>) \in Seq(AllChars)
      /\ Joined(Append(m, x), <<"|">>)
           = Joined(m, <<"|">>) \o Before(m, <<"|">>) \o x
  BY <1>1, <1>2, <1>4, JoinedAppend
<1>6. Typed(cmds) = Joined(m, <<"|">>) /\ Typed(Append(cmds, argv)) = Joined(Append(m, x), <<"|">>)
  BY <1>3 DEF Typed, m
<1>7. Before(m, <<"|">>) = Before(cmds, <<"|">>)
  BY <1>2, Zenon DEF Before
<1> QED
  BY <1>4, <1>5, <1>6, <1>7, Zenon

\* Commands are written as a text.
LEMMA TypedIs ==
  ASSUME NEW cmds \in Seq(Vectors)
  PROVE  Typed(cmds) \in Seq(AllChars) /\ Skeleton(Typed(cmds)) \in Seq(AllChars)
<1>1. TypedArgv \in Maps(Vectors, Seq(AllChars)) /\ <<"|">> \in Seq(AllChars) /\ <<>> \in Seq(AllChars)
  BY TypedArgvIs, WordsAreTexts
<1>2. Mapped(cmds, TypedArgv) \in Seq(Seq(AllChars))
  BY <1>1, MappedIs
<1>3. Typed(cmds) \in Seq(AllChars)
  BY <1>1, <1>2, JoinedAppend DEF Typed
<1> QED
  BY <1>3, SkeletonIs

\* What the operators leave of themselves, and blanks.
LEMMA SkeletonOfOne ==
  /\ Skeleton(<<" ">>) = <<>>
  /\ Skeleton(<<"|">>) = <<"|">> /\ Skeleton(<<">">>) = <<">">> /\ Skeleton(<<"&">>) = <<"&">>
  /\ Skeleton(<<NL>>) = <<NL>>
  /\ \A q \in Quotes : Skeleton(<<q>>) = <<>>
<1>1. /\ "|" \notin Quotes \cup {" "} /\ ">" \notin Quotes \cup {" "} /\ "&" \notin Quotes \cup {" "}
      /\ NL \notin Quotes \cup {" "}
  BY DEF Quotes, NL
<1>2. " " \in AllChars /\ "|" \in AllChars /\ ">" \in AllChars /\ "&" \in AllChars /\ NL \in AllChars
      /\ Quotes \subseteq AllChars
  BY DEF AllChars, Chars, Operators
<1> QED
  BY <1>1, <1>2, SkeletonOne

\* A word more: that of a new command, or one for the last.
LEMMA NewCommand ==
  ASSUME NEW cmds \in Seq(Vectors), NEW word \in Words
  PROVE  Skeleton(Typed(Append(cmds, <<word>>)))
           = (Skeleton(Typed(cmds)) \o Before(cmds, <<"|">>)) \o Skeleton(word)
<1> DEFINE bar == Before(cmds, <<"|">>)
           x == Typed(cmds)
<1>1. <<word>> \in Vectors /\ word \in Seq(AllChars) /\ <<>> \in Seq(Seq(AllChars)) /\ <<" ">> \in Seq(AllChars)
  <2>1. <<word>> \in Vectors
    BY DEF Vectors
  <2>2. <<>> \in Seq(Seq(AllChars))
    BY EmptySeq
  <2> QED
    BY <2>1, <2>2, WordsAreTexts
<1>2. Joined(<<word>>, <<" ">>) = word
  <2>1. <<word>> = Append(<<>>, word)
    OBVIOUS
  <2>2. Joined(Append(<<>>, word), <<" ">>) = Joined(<<>>, <<" ">>) \o <<>> \o word
    BY <1>1, JoinedAppend DEF Before
  <2>3. Joined(<<>>, <<" ">>) = <<>> /\ <<>> \o <<>> = <<>> /\ <<>> \o word = word
    BY <1>1, JoinedEmpty, ConcatEmptySeq
  <2> QED
    BY <2>1, <2>2, <2>3, Zenon
<1>3. x \in Seq(AllChars) /\ Typed(Append(cmds, <<word>>)) = x \o bar \o word
  BY <1>1, <1>2, TypedAppend
<1>4. bar \in Seq(AllChars) /\ Skeleton(bar) = bar
  BY WordsAreTexts, SkeletonOfOne, SkeletonEmpty DEF Before
<1> HIDE DEF bar, x
<1>5. x \o bar \in Seq(AllChars)
  BY <1>3, <1>4, ConcatProperties
<1>6. Skeleton((x \o bar) \o word) = Skeleton(x \o bar) \o Skeleton(word)
  BY <1>1, <1>5, SkeletonConcat
<1>7. Skeleton(x \o bar) = Skeleton(x) \o Skeleton(bar)
  BY <1>3, <1>4, SkeletonConcat
<1> QED
  BY <1>3, <1>4, <1>6, <1>7, Zenon DEF bar, x

\* A word that is added to the last command adds itself to what is kept.
LEMMA NextWord ==
  ASSUME NEW cmds \in Seq(Vectors), cmds # <<>>, NEW word \in Words
  PROVE  Skeleton(Typed([cmds EXCEPT ![Len(cmds)] = Append(@, word)]))
           = Skeleton(Typed(cmds)) \o Skeleton(word)
<1> DEFINE N == Len(cmds)
           front == SubSeq(cmds, 1, N - 1)
           last == cmds[N]
           bar == Before(front, <<"|">>)
           T == Seq(AllChars)
<1>0. N \in Nat /\ N \in 1 .. Len(cmds) /\ N - 1 \in Nat /\ N - 1 <= Len(cmds)
  <2>1. N \in Nat \ {0}
    BY EmptySeq
  <2> QED
    BY <2>1
<1>1. /\ Append(last, word) \in Vectors
      /\ [cmds EXCEPT ![N] = Append(@, word)] = Append(front, Append(last, word))
  BY LastVector
<1>2. cmds = Append(front, last)
  <2>1. SubSeq(cmds, 1, N) = Append(front, last)
    BY <1>0, PrefixAppend
  <2> QED
    BY <2>1, SubSeqFull
<1>3. last \in Vectors /\ front \in Seq(Vectors)
  BY <1>0, ElementOfSeq, PrefixIs
<1>4. word \in T /\ <<" ">> \in T /\ last \in Seq(T) /\ last # <<>>
  BY <1>3, WordsAreTexts DEF Vectors
<1>5. bar \in T
  BY WordsAreTexts DEF Before
<1> HIDE DEF front, last, bar
<1> DEFINE x == Typed(front) \o bar
           y == Joined(last, <<" ">>)
<1>6. Typed(front) \in T /\ Typed(cmds) = x \o y
  BY <1>2, <1>3, TypedAppend DEF bar
<1>7. Typed(Append(front, Append(last, word))) = x \o Joined(Append(last, word), <<" ">>)
  BY <1>1, <1>3, TypedAppend DEF bar
<1>8. y \in T /\ Joined(Append(last, word), <<" ">>) = y \o <<" ">> \o word
  <2>1. /\ y \in T
        /\ Joined(Append(last, word), <<" ">>) = y \o Before(last, <<" ">>) \o word
    BY <1>4, JoinedAppend
  <2>2. Before(last, <<" ">>) = <<" ">>
    BY <1>4 DEF Before
  <2> QED
    BY <2>1, <2>2, Zenon
<1>9. x \in T
  BY <1>5, <1>6, ConcatProperties
<1> HIDE DEF x, y
<1>10. y \o <<" ">> \in T /\ y \o <<" ">> \o word \in T
  BY <1>4, <1>8, ConcatProperties
<1>11. Skeleton(y \o <<" ">> \o word) = Skeleton(y) \o Skeleton(word)
  <2>1. Skeleton((y \o <<" ">>) \o word) = Skeleton(y \o <<" ">>) \o Skeleton(word)
    BY <1>4, <1>10, SkeletonConcat
  <2>2. Skeleton(y \o <<" ">>) = Skeleton(y) \o <<>>
    BY <1>4, <1>8, SkeletonConcat, SkeletonOfOne
  <2>3. Skeleton(y) \o <<>> = Skeleton(y)
    <3>1. Skeleton(y) \in T
      BY <1>8, SkeletonIs
    <3> QED
      BY <3>1, ConcatEmptySeq
  <2> QED
    BY <2>1, <2>2, <2>3, Zenon
<1>12. Skeleton(x \o (y \o <<" ">> \o word)) = Skeleton(x) \o Skeleton(y \o <<" ">> \o word)
  BY <1>9, <1>10, SkeletonConcat
<1>13. Skeleton(x \o y) = Skeleton(x) \o Skeleton(y)
  BY <1>8, <1>9, SkeletonConcat
<1>14. Skeleton(x) \o (Skeleton(y) \o Skeleton(word)) = (Skeleton(x) \o Skeleton(y)) \o Skeleton(word)
  <2>1. Skeleton(x) \in T /\ Skeleton(y) \in T /\ Skeleton(word) \in T
    BY <1>4, <1>8, <1>9, SkeletonIs
  <2> QED
    BY <2>1, ConcatAssociative
<1> QED
  BY <1>1, <1>6, <1>7, <1>8, <1>11, <1>12, <1>13, <1>14, Zenon DEF N

\* A text of blanks and quotes has an empty skeleton.
LEMMA NoSkeleton ==
  ASSUME NEW u \in Seq(AllChars)
  PROVE  (\A i \in 1 .. Len(u) : u[i] \in Quotes \cup {" "}) => Skeleton(u) = <<>>
<1> DEFINE N == Len(u)
           K == SkeletonTo(u)
           S == {n \in 0 .. N : K[n] = <<>>}
<1>0. N \in Nat /\ 0 \in 0 .. N /\ N \in 0 .. N /\ \A n \in 1 .. N : n \in 0 .. N
  OBVIOUS
<1>1. /\ Skeleton(u) = K[N] /\ K[0] = <<>>
      /\ \A n \in 1 .. N : K[n] = IF u[n] \in Quotes \cup {" "} THEN K[n - 1] ELSE Append(K[n - 1], u[n])
  BY SkeletonToIs
<1> HIDE DEF N, K
<1>2. 0 \in S
  BY <1>0, <1>1, Zenon
<1>3. ASSUME NEW n \in 1 .. N, n - 1 \in S, u[n] \in Quotes \cup {" "}
      PROVE  n \in S
  <2>1. K[n] = K[n - 1]
    BY <1>1, <1>3
  <2>2. K[n - 1] = <<>>
    BY <1>3, Zenon
  <2> QED
    BY <1>0, <2>1, <2>2, Zenon
<1>4. ASSUME \A i \in 1 .. N : u[i] \in Quotes \cup {" "}
      PROVE  Skeleton(u) = <<>>
  <2>1. \A n \in 0 .. N : n \in S
    <3> HIDE DEF S
    <3>1. \A n \in 1 .. N : n - 1 \in S => n \in S
      BY <1>3, <1>4
    <3>2. N \in Nat
      BY <1>0
    <3> QED
      BY ONLY <1>2, <3>1, <3>2, UpTo
  <2>2. K[N] = <<>>
    BY <1>0, <2>1, Zenon
  <2> QED
    BY <1>1, <2>2
<1> QED
  BY <1>4 DEF N

\* What a part of a text is.
LEMMA PartIs ==
  ASSUME NEW t \in LineText, NEW a \in Nat \ {0}, NEW b \in Nat, b <= Len(t)
  PROVE  /\ SubSeq(t, a, b) \in Seq(AllChars)
         /\ a <= b + 1 => Len(SubSeq(t, a, b)) = b + 1 - a
         /\ a <= b + 1 => \A i \in 1 .. b + 1 - a : SubSeq(t, a, b)[i] = t[a + i - 1]
<1>0. Len(t) \in Nat
  BY AtIs
<1>1. \A i \in a .. b : i \in 1 .. Len(t)
  BY <1>0
<1>2. \A i \in a .. b : t[i] \in AllChars
  <2>1. \A i \in 1 .. Len(t) : t[i] \in AllChars
    <3>1. t \in Seq(AllChars)
      BY WordsAreTexts
    <3> QED
      BY <3>1, ElementOfSeq
  <2> QED
    BY <1>1, <2>1
<1>3. a \in Int /\ b \in Int
  OBVIOUS
<1>4. /\ SubSeq(t, a, b) \in Seq(AllChars)
      /\ Len(SubSeq(t, a, b)) = IF a <= b THEN b - a + 1 ELSE 0
      /\ \A i \in 1 .. b - a + 1 : SubSeq(t, a, b)[i] = t[a + i - 1]
  BY ONLY <1>2, <1>3, SubSeqProperties
<1>5. b - a + 1 = b + 1 - a /\ (a <= b + 1 => (IF a <= b THEN b - a + 1 ELSE 0) = b + 1 - a)
  OBVIOUS
<1> QED
  BY <1>4, <1>5

\* The skeleton of a text up to a position is that up to an earlier one, and
\* that of what is between.
LEMMA SkeletonBetween ==
  ASSUME NEW t \in LineText, NEW a \in 1 .. Len(t) + 1, NEW b \in a .. Len(t) + 1
  PROVE  Skeleton(SubSeq(t, 1, b - 1)) = Skeleton(SubSeq(t, 1, a - 1)) \o Skeleton(SubSeq(t, a, b - 1))
<1>0. Len(t) \in Nat
  BY AtIs
<1>1. /\ a - 1 \in Nat /\ b - 1 \in Nat /\ a - 1 <= Len(t) /\ b - 1 <= Len(t)
      /\ a \in Nat \ {0} /\ 1 \in Nat \ {0} /\ (a - 1) + 1 = a
      /\ 1 \in 1 .. Len(t) + 1 /\ a - 1 \in 1 - 1 .. Len(t) /\ b - 1 \in a - 1 .. Len(t)
  BY <1>0
<1>2. SubSeq(t, 1, a - 1) \o SubSeq(t, (a - 1) + 1, b - 1) = SubSeq(t, 1, b - 1)
  BY <1>1, ConcatAdjacentSubSeq DEF LineText
<1>3. SubSeq(t, 1, a - 1) \in Seq(AllChars) /\ SubSeq(t, a, b - 1) \in Seq(AllChars)
  BY <1>1, PartIs
<1>4. Skeleton(SubSeq(t, 1, a - 1) \o SubSeq(t, a, b - 1))
        = Skeleton(SubSeq(t, 1, a - 1)) \o Skeleton(SubSeq(t, a, b - 1))
  BY <1>3, SkeletonConcat
<1> QED
  BY <1>1, <1>2, <1>4

\* The skeleton of a word on the line is that of the word.
LEMMA SkeletonOfWord ==
  ASSUME NEW t \in LineText, NEW p \in 1 .. Len(t) + 1, NEW next \in p .. Len(t) + 1,
         NEW word \in Words, WordAt(t, p, next, word)
  PROVE  Skeleton(SubSeq(t, p, next - 1)) = Skeleton(word)
<1>0. Len(t) \in Nat
  BY AtIs
<1>1. CASE word = SubSeq(t, p, next - 1)
  BY <1>1
<1>2. CASE /\ next >= p + 2 /\ word = SubSeq(t, p + 1, next - 2)
           /\ At(t, p) \in Quotes /\ At(t, next - 1) = At(t, p)
  <2> DEFINE q == At(t, p)
             m == p + 1
             n == next - 1
  <2>1. /\ p \in 1 .. Len(t) /\ n \in p .. Len(t) /\ m \in 1 .. Len(t) /\ n \in m .. Len(t) /\ n - 1 = next - 2
        /\ n \in 1 .. Len(t)
    BY <1>0, <1>2
  <2>2. t[p] = q /\ t[n] = q
    BY <1>2, <2>1, AtIs
  <2>3. SubSeq(t, p, n) = <<t[p]>> \o SubSeq(t, m, n)
    BY <2>1, SubSeqRecursiveFirst DEF LineText
  <2> HIDE DEF m
  <2>4. SubSeq(t, m, n) = SubSeq(t, m, n - 1) \o <<t[n]>>
    BY <2>1, SubSeqRecursiveSecond DEF LineText
  <2>5. SubSeq(t, p, n) = <<q>> \o (word \o <<q>>)
    BY <1>2, <2>1, <2>2, <2>3, <2>4 DEF m
  <2> HIDE DEF q, n
  <2>6. word \in Seq(AllChars) /\ <<q>> \in Seq(AllChars) /\ Skeleton(<<q>>) = <<>>
    <3>1. q \in Quotes
      BY <1>2 DEF q
    <3>2. q \in AllChars
      BY <3>1 DEF AllChars, Chars
    <3>3. \A c \in AllChars : <<c>> \in Seq(AllChars)
      OBVIOUS
    <3>4. Skeleton(<<q>>) = <<>>
      BY <3>1, SkeletonOfOne
    <3>5. word \in Seq(AllChars)
      BY WordsAreTexts
    <3> QED
      BY <3>2, <3>3, <3>4, <3>5, Zenon
  <2>7. word \o <<q>> \in Seq(AllChars) /\ Skeleton(word) \in Seq(AllChars)
    BY <2>6, ConcatProperties, SkeletonIs
  <2>8. Skeleton(<<q>> \o (word \o <<q>>)) = Skeleton(<<q>>) \o Skeleton(word \o <<q>>)
    BY <2>6, <2>7, SkeletonConcat
  <2>9. Skeleton(word \o <<q>>) = Skeleton(word) \o Skeleton(<<q>>)
    BY <2>6, SkeletonConcat
  <2>10. <<>> \o (Skeleton(word) \o <<>>) = Skeleton(word)
    BY <2>7, ConcatEmptySeq
  <2> QED
    BY <2>5, <2>6, <2>8, <2>9, <2>10, Zenon DEF n
<1> QED
  BY <1>1, <1>2 DEF WordAt

\* What stands behind the commands that were read.
File(s) == IF s.outfile = <<>> THEN <<>> ELSE <<">">> \o Skeleton(s.outfile[1])

After(s) ==
  CASE s.mode = ReadCommand   -> Before(s.cmds, <<"|">>)
    [] s.mode = ReadArguments -> <<>>
    [] s.mode = ReadFilename  -> <<">">>
    [] s.mode = ReadAmpersand -> File(s)
    [] s.mode = ReadNewline   -> File(s) \o <<"&">>

\* The text up to the position is what was read, but for blanks and quotes.
Reading(t, s) ==
  Skeleton(SubSeq(t, 1, s.pos - 1)) = Skeleton(Typed(s.cmds)) \o After(s)

\* What was read, by the mode.
LEMMA AfterIs ==
  ASSUME NEW t, NEW s \in ScanStates(t), Proper(s)
  PROVE  /\ File(s) \in Seq(AllChars) /\ After(s) \in Seq(AllChars)
         /\ s.mode = ReadArguments => File(s) = <<>> /\ After(s) = <<>> /\ s.outfile = <<>>
         /\ s.mode = ReadFilename => After(s) = <<">">>
         /\ s.mode = ReadAmpersand => After(s) = File(s)
         /\ s.mode = ReadNewline => After(s) = File(s) \o <<"&">>
         /\ s.mode = ReadCommand => After(s) = Before(s.cmds, <<"|">>) /\ File(s) = <<>>
<1>1. s.mode \in Modes /\ s.outfile \in {<<>>} \cup {<<w>> : w \in Words}
  BY ModesApart DEF ScanStates
<1>2. File(s) \in Seq(AllChars)
  <2>1. CASE s.outfile = <<>>
    BY <2>1, WordsAreTexts DEF File
  <2>2. CASE s.outfile # <<>>
    <3>1. PICK w \in Words : s.outfile = <<w>>
      BY <1>1, <2>2
    <3>2. s.outfile[1] = w /\ Skeleton(w) \in Seq(AllChars)
      <4>1. w \in Seq(AllChars)
        BY WordsAreTexts
      <4>2. Skeleton(w) \in Seq(AllChars)
        BY <4>1, SkeletonIs
      <4>3. s.outfile[1] = w
        BY <3>1
      <4> QED
        BY <4>2, <4>3
    <3>3. <<">">> \o Skeleton(w) \in Seq(AllChars)
      BY <3>2, WordsAreTexts, ConcatProperties
    <3> QED
      BY <2>2, <3>2, <3>3 DEF File
  <2> QED
    BY <2>1, <2>2
<1>3. s.mode \in {ReadCommand, ReadArguments, ReadFilename} => s.outfile = <<>> /\ File(s) = <<>>
  BY DEF Proper, File
<1>4. /\ s.mode = ReadArguments => After(s) = <<>>
      /\ s.mode = ReadFilename => After(s) = <<">">>
      /\ s.mode = ReadAmpersand => After(s) = File(s)
      /\ s.mode = ReadNewline => After(s) = File(s) \o <<"&">>
      /\ s.mode = ReadCommand => After(s) = Before(s.cmds, <<"|">>)
  BY ModesApart, Zenon DEF After
<1>5. Before(s.cmds, <<"|">>) \in Seq(AllChars) /\ File(s) \o <<"&">> \in Seq(AllChars)
  BY <1>2, WordsAreTexts, ConcatProperties DEF Before
<1>6. After(s) \in Seq(AllChars)
  BY <1>1, <1>2, <1>4, <1>5, WordsAreTexts DEF Modes
<1> QED
  BY <1>2, <1>3, <1>4, <1>6

\* A turn reads on.
LEMMA ReadsOn ==
  ASSUME NEW t \in LineText, NEW s \in ScanStates(t), Proper(s), s.res \in Running,
         Reading(t, s), At(t, s.pos) # NL, Turn(t, s).res \in Running
  PROVE  Reading(t, Turn(t, s))
<1> DEFINE p == skip_whitespace(t, s.pos)
           n == Turn(t, s)
           T == Seq(AllChars)
           B(k) == Skeleton(SubSeq(t, 1, k - 1))
           K == Skeleton(Typed(s.cmds))
<1>0. s.pos \in 1 .. Len(t) + 1 /\ Len(t) \in Nat /\ s.cmds \in Seq(Vectors)
  BY AtIs DEF ScanStates
<1>1. p \in s.pos .. Len(t) + 1 /\ \A q \in s.pos .. p - 1 : At(t, q) = " "
  BY <1>0, SkipIs
<1>2. \/ PassesBlanks(t, s, p, n)
      \/ TakesOperator(t, s, p, n)
      \/ TakesWord(t, s, p, n)
  BY TurnCases DEF Rejects, Running
<1>3. n \in ScanStates(t) /\ Proper(n) /\ n.pos \in 1 .. Len(t) + 1
  <2>1. n \in Sane(t)
    BY TurnAdvances
  <2> QED
    BY <2>1 DEF Sane, ScanStates
<1> HIDE DEF p, n
<1>4. p \in s.pos .. Len(t) + 1 /\ s.pos \in 1 .. Len(t) + 1 /\ Len(t) \in Nat
  BY <1>0, <1>1
<1>5. p \in 1 .. Len(t) + 1 /\ p \in Nat \ {0}
  BY ONLY <1>4
<1>6. K \in T /\ After(s) \in T
  BY <1>0, TypedIs, AfterIs
<1>7. B(p) = K \o After(s)
  <2> DEFINE u == SubSeq(t, s.pos, p - 1)
  <2>1. s.pos \in Nat \ {0} /\ p - 1 \in Nat /\ p - 1 <= Len(t) /\ s.pos <= (p - 1) + 1
    BY ONLY <1>4
  <2>2. /\ u \in T /\ Len(u) = (p - 1) + 1 - s.pos
        /\ \A i \in 1 .. (p - 1) + 1 - s.pos : u[i] = t[s.pos + i - 1]
    BY <2>1, PartIs
  <2>3. \A i \in 1 .. Len(u) : u[i] = " "
    <3> TAKE i \in 1 .. Len(u)
    <3>1. i \in 1 .. (p - 1) + 1 - s.pos
      BY <2>2
    <3>2. s.pos + i - 1 \in s.pos .. p - 1 /\ s.pos + i - 1 \in 1 .. Len(t)
      BY ONLY <1>4, <3>1
    <3> DEFINE j == s.pos + i - 1
    <3> HIDE DEF j, u
    <3>3. u[i] = t[j] /\ j \in s.pos .. p - 1 /\ j \in 1 .. Len(t)
      BY <2>2, <3>1, <3>2 DEF j
    <3>4. At(t, j) = " " /\ At(t, j) = t[j]
      BY <1>1, <3>3, AtIs
    <3> QED
      BY <3>3, <3>4
  <2> HIDE DEF u
  <2>4. Skeleton(u) = <<>>
    <3>1. \A i \in 1 .. Len(u) : u[i] \in Quotes \cup {" "}
      BY <2>3
    <3> QED
      BY <2>2, <3>1, NoSkeleton
  <2>5. B(p) = B(s.pos) \o Skeleton(u)
    BY <1>0, <1>1, SkeletonBetween DEF u
  <2>6. B(s.pos) = K \o After(s)
    BY DEF Reading
  <2>7. K \o After(s) \in T
    BY <1>6, ConcatProperties
  <2>8. (K \o After(s)) \o <<>> = K \o After(s)
    BY <2>7, ConcatEmptySeq
  <2> QED
    BY <2>4, <2>5, <2>6, <2>8, Zenon
<1>8. CASE PassesBlanks(t, s, p, n)
  <2>1. n = [pos |-> p, mode |-> s.mode, cmds |-> s.cmds, outfile |-> s.outfile, res |-> s.res]
    BY <1>8 DEF PassesBlanks
  <2>2. n.pos = p /\ n.mode = s.mode /\ n.cmds = s.cmds /\ n.outfile = s.outfile
    BY <2>1
  <2>3. After(n) = After(s)
    BY <2>2, Zenon DEF After, File
  <2> QED
    BY <1>7, <2>2, <2>3 DEF Reading, n
<1>9. ASSUME NEW c, c \in {"|", ">", "&"}, At(t, p) = c, n.pos = p + 1
      PROVE  B(n.pos) = K \o (After(s) \o <<c>>)
  <2>1. p \in 1 .. Len(t)
    <3>1. c # Nul
      BY <1>9 DEF Nul
    <3>2. p > Len(t) => At(t, p) = Nul
      BY <1>5, AtIs
    <3>3. p > Len(t) \/ p \in 1 .. Len(t)
      BY ONLY <1>0, <1>5
    <3> QED
      BY <1>9, <3>1, <3>2, <3>3
  <2>2. t[p] = c /\ c \in AllChars /\ p + 1 \in p .. Len(t) + 1
    <3>1. p + 1 \in p .. Len(t) + 1
      BY ONLY <1>0, <2>1
    <3>2. t[p] = c
      BY <1>9, <2>1, AtIs
    <3>3. c \in AllChars
      BY <1>9 DEF AllChars, Chars, Operators
    <3> QED
      BY <3>1, <3>2, <3>3
  <2>3. SubSeq(t, p, (p + 1) - 1) = <<c>>
    <3>1. (p + 1) - 1 = p
      BY <1>5
    <3>2. SubSeq(t, p, p) = <<t[p]>>
      <4>1. /\ SubSeq(t, p, p) \in T /\ Len(SubSeq(t, p, p)) = p + 1 - p
            /\ \A i \in 1 .. p + 1 - p : SubSeq(t, p, p)[i] = t[p + i - 1]
        BY <1>5, <2>1, PartIs
      <4>2. p + 1 - p = 1 /\ p + 1 - 1 = p
        BY <1>5
      <4> DEFINE u == SubSeq(t, p, p)
      <4>3. Len(u) = 1 /\ u[1] = t[p]
        BY <4>1, <4>2
      <4>4. u \in Seq(AllChars)
        BY <4>1
      <4> HIDE DEF u
      <4>5. u = <<t[p]>>
        BY ONLY <4>3, <4>4
      <4> QED
        BY <4>5 DEF u
    <3> QED
      BY <2>2, <3>1, <3>2
  <2>4. B(p + 1) = B(p) \o Skeleton(<<c>>)
    BY <1>5, <2>2, <2>3, SkeletonBetween
  <2>5. Skeleton(<<c>>) = <<c>> /\ <<c>> \in T
    BY <1>9, SkeletonOfOne, WordsAreTexts
  <2>6. (K \o After(s)) \o <<c>> = K \o (After(s) \o <<c>>)
    BY <1>6, <2>5, ConcatAssociative
  <2> QED
    BY <1>7, <1>9, <2>4, <2>5, <2>6, Zenon
<1>10. CASE TakesOperator(t, s, p, n)
  <2> USE <1>3
  <2>1. ASSUME NEW c, c \in {"|", ">", "&"}, At(t, p) = c, n.pos = p + 1, n.cmds = s.cmds,
               After(n) = After(s) \o <<c>>
        PROVE  Reading(t, n)
    BY <1>9, <2>1 DEF Reading
  <2>2. <<"|">> \in T /\ <<">">> \in T /\ <<>> \o <<"|">> = <<"|">> /\ <<>> \o <<">">> = <<">">>
    BY WordsAreTexts, ConcatEmptySeq
  <2>3. CASE /\ At(t, p) = "|" /\ s.mode = ReadArguments
             /\ n = [pos |-> p + 1, mode |-> ReadCommand, cmds |-> s.cmds, outfile |-> s.outfile, res |-> s.res]
    <3>1. n.pos = p + 1 /\ n.mode = ReadCommand /\ n.cmds = s.cmds
      BY <2>3
    <3>2. s.cmds # <<>>
      BY <2>3, ModesApart DEF Proper
    <3>3. After(n) = <<"|">> /\ After(s) = <<>>
      BY <2>3, <3>1, <3>2, AfterIs DEF Before
    <3> QED
      BY <2>1, <2>2, <2>3, <3>1, <3>3 DEF n
  <2>4. CASE /\ At(t, p) = ">" /\ s.mode = ReadArguments
             /\ n = [pos |-> p + 1, mode |-> ReadFilename, cmds |-> s.cmds, outfile |-> s.outfile, res |-> s.res]
    <3>1. n.pos = p + 1 /\ n.mode = ReadFilename /\ n.cmds = s.cmds
      BY <2>4
    <3>2. After(n) = <<">">> /\ After(s) = <<>>
      BY <2>4, <3>1, AfterIs
    <3> QED
      BY <2>1, <2>2, <2>4, <3>1, <3>2 DEF n
  <2>5. CASE /\ At(t, p) = "&" /\ s.mode \in {ReadArguments, ReadAmpersand}
             /\ n = [pos |-> p + 1, mode |-> ReadNewline, cmds |-> s.cmds, outfile |-> s.outfile, res |-> "BG"]
    <3>1. n.pos = p + 1 /\ n.mode = ReadNewline /\ n.cmds = s.cmds /\ n.outfile = s.outfile
      BY <2>5
    <3>2. After(n) = File(n) \o <<"&">> /\ After(s) = File(s)
      BY <2>5, <3>1, AfterIs
    <3>3. File(n) = File(s)
      BY <3>1, Zenon DEF File
    <3> QED
      BY <2>1, <2>5, <3>1, <3>2, <3>3 DEF n
  <2> QED
    BY <1>10, <2>3, <2>4, <2>5 DEF TakesOperator, n
<1>11. CASE TakesWord(t, s, p, n)
  <2>1. PICK word \in Words, next \in p .. Len(t) + 1 :
          WordAt(t, p, next, word) /\ StoredAs(s, word, next, n)
    BY <1>11 DEF TakesWord
  <2> DEFINE w == Skeleton(word)
  <2>2. B(next) = (K \o After(s)) \o w
    <3>1. B(next) = B(p) \o Skeleton(SubSeq(t, p, next - 1))
      BY <1>5, SkeletonBetween
    <3>2. Skeleton(SubSeq(t, p, next - 1)) = w
      BY <1>5, <2>1, SkeletonOfWord
    <3> QED
      BY <1>7, <3>1, <3>2
  <2>3. word \in T /\ w \in T
    BY WordsAreTexts, SkeletonIs
  <2>4. CASE s.mode = ReadCommand
    <3> DEFINE cmds == Append(s.cmds, <<word>>)
    <3>1. n = [pos |-> next, mode |-> ReadArguments, cmds |-> cmds, outfile |-> s.outfile, res |-> s.res]
      BY <2>1, <2>4, ModesApart DEF StoredAs
    <3>2. Skeleton(Typed(cmds)) = (K \o Before(s.cmds, <<"|">>)) \o w
      BY <1>0, NewCommand
    <3> HIDE DEF cmds
    <3>3. n.pos = next /\ n.mode = ReadArguments /\ n.cmds = cmds
      BY <3>1
    <3>4. After(n) = <<>> /\ After(s) = Before(s.cmds, <<"|">>)
      BY <1>3, <2>4, <3>3, AfterIs
    <3>5. (K \o After(s)) \o w \in T
      <4>1. K \o After(s) \in T
        BY <1>6, ConcatProperties
      <4> QED
        BY <2>3, <4>1, ConcatProperties
    <3>6. ((K \o After(s)) \o w) \o <<>> = (K \o After(s)) \o w
      BY <3>5, ConcatEmptySeq
    <3>7. Skeleton(Typed(n.cmds)) \o After(n) = B(next)
      BY <2>2, <3>2, <3>3, <3>4, <3>6, Zenon
    <3> QED
      BY <3>3, <3>7 DEF Reading, n
  <2>5. CASE s.mode = ReadArguments
    <3> DEFINE cmds == [s.cmds EXCEPT ![Len(s.cmds)] = Append(@, word)]
    <3>1. n = [pos |-> next, mode |-> ReadArguments, cmds |-> cmds, outfile |-> s.outfile, res |-> s.res]
      BY <2>1, <2>5, ModesApart DEF StoredAs
    <3>2. Skeleton(Typed(cmds)) = K \o w
      <4>1. s.cmds # <<>>
        BY <2>5, ModesApart DEF Proper
      <4> QED
        BY <1>0, <4>1, NextWord
    <3> HIDE DEF cmds
    <3>3. n.pos = next /\ n.mode = ReadArguments /\ n.cmds = cmds
      BY <3>1
    <3>4. After(n) = <<>> /\ After(s) = <<>>
      BY <1>3, <2>5, <3>3, AfterIs
    <3>5. K \o <<>> = K /\ K \o w \in T
      BY <1>6, <2>3, ConcatEmptySeq, ConcatProperties
    <3>6. (K \o w) \o <<>> = K \o w
      BY <3>5, ConcatEmptySeq
    <3>7. Skeleton(Typed(n.cmds)) \o After(n) = B(next)
      BY <2>2, <3>2, <3>3, <3>4, <3>5, <3>6, Zenon
    <3> QED
      BY <3>3, <3>7 DEF Reading, n
  <2>6. CASE s.mode = ReadFilename
    <3>1. n = [pos |-> next, mode |-> ReadAmpersand, cmds |-> s.cmds, outfile |-> <<word>>, res |-> s.res]
      BY <2>1, <2>6, ModesApart DEF StoredAs
    <3>2. n.pos = next /\ n.mode = ReadAmpersand /\ n.cmds = s.cmds /\ n.outfile = <<word>>
      BY <3>1
    <3>3. After(n) = File(n) /\ After(s) = <<">">>
      BY <1>3, <2>6, <3>2, AfterIs
    <3>4. File(n) = <<">">> \o w
      BY <3>2 DEF File
    <3>5. (K \o <<">">>) \o w = K \o (<<">">> \o w)
      <4>1. <<">">> \in T
        BY WordsAreTexts
      <4> HIDE DEF K, w
      <4> QED
        BY <1>6, <2>3, <4>1, ConcatAssociative
    <3>6. Skeleton(Typed(n.cmds)) \o After(n) = B(next)
      BY <2>2, <3>2, <3>3, <3>4, <3>5, Zenon
    <3> QED
      BY <3>2, <3>6 DEF Reading, n
  <2> QED
    BY <2>1, <2>4, <2>5, <2>6 DEF StoredAs
<1> QED
  BY <1>2, <1>8, <1>10, <1>11

\* What the scan of a line got is what is on the line.
LEMMA LineIsRead ==
  ASSUME NEW t, Line(t), Scan(t)[Len(t) + 2].res \in Running
  PROVE  Reading(t, Scan(t)[Len(t) + 2])
<1> DEFINE L == Len(t)
           N == Len(t) + 2
           Good(s) == s.res = "error" \/ (s.res \in Running /\ s.pos \in 1 .. L /\ Reading(t, s))
           S == {n \in 0 .. N : Good(Scan(t)[n])}
<1>0. t \in LineText /\ L \in Nat \ {0} /\ 1 \in 1 .. L /\ N \in Nat /\ 0 \in 0 .. N /\ N \in 0 .. N
  <2>1. t \in LineText /\ L \in Nat \ {0}
    BY EmptySeq DEF Line, LineText
  <2> QED
    BY <2>1
<1>1. /\ Scan(t)[0] = Start
      /\ \A n \in 1 .. N : Scan(t)[n] = Step(t, Scan(t)[n - 1])
      /\ \A n \in 0 .. N : Scan(t)[n] \in Sane(t)
  BY <1>0, ScanIs
<1>2. 0 \in S
  <2>1. Start.res \in Running /\ Start.pos = 1 /\ Start.mode = ReadCommand /\ Start.cmds = <<>>
    BY DEF Start, Running
  <2>2. Start \in ScanStates(t) /\ Proper(Start)
    BY <1>0, <2>1, StartIsSane DEF Sane
  <2>3. After(Start) = <<>>
    BY <2>1, <2>2, AfterIs DEF Before
  <2>4. SubSeq(t, 1, 1 - 1) = <<>>
    BY <1>0, SubSeqEmpty
  <2>5. Typed(<<>>) = <<>>
    <3>1. TypedArgv \in Maps(Vectors, Seq(AllChars)) /\ <<"|">> \in Seq(AllChars) /\ <<>> \in Seq(Vectors)
      BY TypedArgvIs, WordsAreTexts, EmptySeq
    <3>2. Mapped(<<>>, TypedArgv) = <<>>
      BY <3>1, MappedIs
    <3> QED
      BY <3>1, <3>2, JoinedEmpty DEF Typed
  <2>6. <<>> \o <<>> = <<>>
    BY WordsAreTexts, ConcatEmptySeq
  <2>7. Reading(t, Start)
    BY <2>1, <2>3, <2>4, <2>5, <2>6, SkeletonEmpty DEF Reading
  <2> QED
    BY <1>0, <1>1, <2>1, <2>7
<1> HIDE DEF L, N
<1>3. ASSUME NEW n \in 1 .. N, n - 1 \in S
      PROVE  n \in S
  <2> DEFINE s == Scan(t)[n - 1]
             m == Scan(t)[n]
  <2>0. n - 1 \in 0 .. N /\ n \in 0 .. N
    BY <1>0, <1>3
  <2>1. s \in Sane(t) /\ m = Step(t, s)
    BY <1>1, <2>0
  <2>2. s.res = "error" \/ (s.res \in Running /\ s.pos \in 1 .. L /\ Reading(t, s))
    BY <1>3
  <2> SUFFICES Good(m)
    BY <2>0
  <2> HIDE DEF s, m
  <2>3. CASE s.res = "error"
    BY <2>1, <2>3 DEF Step
  <2>4. CASE s.res \in Running /\ s.pos \in 1 .. L /\ Reading(t, s) /\ s.pos = L
    <3>1. Step(t, s) = Finished(s)
      <4>1. s.pos \in 1 .. Len(t) /\ s.pos = Len(t) /\ s.res \in Running
        BY <2>4 DEF L
      <4>2. s.pos = Len(t) => Step(t, s) = Finished(s)
        BY <2>1, <4>1, LineStep
      <4> QED
        BY <4>1, <4>2
    <3>2. Finished(s) = s \/ Finished(s).res = "error"
      <4>1. s \in ScanStates(t)
        BY <2>1 DEF Sane
      <4> QED
        BY <4>1, WrongIs DEF Finished
    <3> QED
      BY <2>1, <2>4, <3>1, <3>2
  <2>5. CASE s.res \in Running /\ s.pos \in 1 .. L /\ Reading(t, s) /\ s.pos # L
    <3>1. m = Turn(t, s) /\ (m.res = "error" \/ (m.res \in Running /\ m.pos \in s.pos + 1 .. L))
      BY <2>1, <2>5, LineStep DEF L
    <3>2. s.pos \in 1 .. Len(t) - 1
      BY <1>0, <2>5 DEF L
    <3>3. At(t, s.pos) # NL
      BY <3>2 DEF Line
    <3>4. s \in ScanStates(t) /\ Proper(s)
      BY <2>1, <2>5 DEF Sane
    <3>5. m.res \in Running => Reading(t, m)
      BY <1>0, <2>5, <3>1, <3>3, <3>4, ReadsOn
    <3>6. m.pos \in s.pos + 1 .. L => m.pos \in 1 .. L
      <4>1. s.pos \in 1 .. L /\ L \in Nat
        BY <1>0, <2>5
      <4> QED
        BY ONLY <4>1
    <3> QED
      BY <3>1, <3>5, <3>6
  <2> QED
    BY <2>2, <2>3, <2>4, <2>5
<1>4. N \in S
  <2> HIDE DEF S
  <2>1. \A n \in 0 .. N : n \in S
    BY <1>0, <1>2, <1>3, UpTo
  <2> QED
    BY <1>0, <2>1
<1> QED
  BY <1>4 DEF N, Running

\* The words of a line.
LEMMA WordsOfIs ==
  ASSUME NEW typed
  PROVE  /\ \A i \in DOMAIN typed.cmds : \A j \in DOMAIN typed.cmds[i] : typed.cmds[i][j] \in WordsOf(typed)
         /\ \A j \in DOMAIN typed.outfile : typed.outfile[j] \in WordsOf(typed)
<1>1. ASSUME NEW i \in DOMAIN typed.cmds, NEW j \in DOMAIN typed.cmds[i]
      PROVE  typed.cmds[i][j] \in WordsOf(typed)
  <2>1. typed.cmds[i][j] \in Range(typed.cmds[i])
    BY DEF Range
  <2> QED
    BY <2>1 DEF WordsOf
<1>2. ASSUME NEW j \in DOMAIN typed.outfile
      PROVE  typed.outfile[j] \in WordsOf(typed)
  <2>1. typed.outfile[j] \in Range(typed.outfile)
    BY DEF Range
  <2> QED
    BY <2>1 DEF WordsOf
<1> QED
  BY <1>1, <1>2

\* A pair is two sequences of one.
LEMMA PairIs ==
  ASSUME NEW a, NEW b
  PROVE  <<a, b>> = <<a>> \o <<b>>
<1> DEFINE C == {a, b}
           s == <<a>>
<1>1. s \in Seq(C) /\ b \in C
  OBVIOUS
<1>2. Append(s, b) = s \o <<b>>
  <2> HIDE DEF s, C
  <2> QED
    BY <1>1, AppendIsConcat
<1>3. Append(<<a>>, b) = <<a, b>>
  <2> DEFINE p == <<a, b>>
             q == Append(s, b)
  <2>1. p \in Seq(C) /\ Len(p) = 2 /\ p[1] = a /\ p[2] = b /\ Len(s) = 1 /\ s[1] = a
    OBVIOUS
  <2> HIDE DEF s, p, C
  <2>2. /\ q \in Seq(C) /\ Len(q) = Len(s) + 1
        /\ \A i \in 1 .. Len(s) : q[i] = s[i]
        /\ q[Len(s) + 1] = b
    BY <1>1, AppendProperties
  <2> HIDE DEF q
  <2>3. Len(q) = 2 /\ q[1] = a /\ q[2] = b
    BY <2>1, <2>2
  <2>4. \A i \in 1 .. Len(p) : p[i] = q[i]
    BY <2>1, <2>3
  <2>5. p = q
    BY <2>1, <2>2, <2>3, <2>4, SeqEqual
  <2> QED
    BY <2>5 DEF p, q, s
<1> QED
  BY <1>2, <1>3

\* Written out with no quotes and no gaps, what was understood.
LEMMA RenderIs ==
  ASSUME NEW t, NEW s \in ScanStates(t), s.res \in Running, NEW parsed,
         parsed = [cmds |-> s.cmds, outfile |-> s.outfile, res |-> s.res]
  PROVE  Skeleton(Render(parsed, [word \in WordsOf(parsed) |-> Nul], <<>>))
           = ((Skeleton(Typed(s.cmds)) \o File(s)) \o (IF s.res = "BG" THEN <<"&">> ELSE <<>>)) \o <<NL>>
<1> DEFINE T == Seq(AllChars)
           quote == [word \in WordsOf(parsed) |-> Nul]
           argvs == [i \in DOMAIN parsed.cmds |-> Argv(parsed.cmds[i], quote)]
           file == IF parsed.outfile = <<>> THEN <<>>
                   ELSE <<>> \o <<">">> \o <<>> \o Written(parsed.outfile[1], quote[parsed.outfile[1]])
           back == IF parsed.res = "BG" THEN <<" ", "&">> ELSE <<>>
           bar == <<>> \o <<"|">> \o <<>>
<1>0. s.cmds \in Seq(Vectors) /\ s.outfile \in {<<>>} \cup {<<w>> : w \in Words}
      /\ parsed.cmds = s.cmds /\ parsed.outfile = s.outfile /\ parsed.res = s.res
  BY DEF ScanStates
<1>1. <<>> \in T /\ <<"|">> \in T /\ <<">">> \in T /\ <<"&">> \in T /\ <<" ">> \in T /\ <<NL>> \in T
  BY WordsAreTexts
<1>2. \A x \in T : <<>> \o x = x /\ x \o <<>> = x
  BY ConcatEmptySeq
<1>3. bar = <<"|">>
  BY <1>1, <1>2, Zenon
<1>4. \A word \in WordsOf(parsed) : quote[word] = Nul
  OBVIOUS
<1>5. argvs = Mapped(s.cmds, TypedArgv)
  <2>1. ASSUME NEW i \in DOMAIN s.cmds
        PROVE  Argv(s.cmds[i], quote) = TypedArgv[s.cmds[i]]
    <3> DEFINE argv == s.cmds[i]
    <3>1. argv \in Vectors
      BY <1>0
    <3>2. argv \in Seq(Words)
      BY <3>1, WordsAreTexts
    <3>3. \A j \in DOMAIN argv : argv[j] \in WordsOf(parsed)
      BY <1>0, WordsOfIs
    <3> HIDE DEF argv, quote
    <3>4. \A j \in DOMAIN argv : Written(argv[j], quote[argv[j]]) = argv[j]
      BY <1>4, <3>3 DEF Written
    <3>5. [j \in DOMAIN argv |-> argv[j]] = argv
      BY <3>2
    <3>6. [j \in DOMAIN argv |-> Written(argv[j], quote[argv[j]])] = argv
      BY <3>4, <3>5, Zenon
    <3>7. Argv(argv, quote) = Joined(argv, <<" ">>)
      BY <3>6, Zenon DEF Argv
    <3> QED
      BY <3>1, <3>7 DEF TypedArgv, argv
  <2> HIDE DEF quote
  <2> QED
    BY <1>0, <2>1 DEF Mapped
<1>6. Joined(argvs, bar) = Typed(s.cmds)
  BY <1>3, <1>5 DEF Typed
<1>7. file \in T /\ Skeleton(file) = File(s)
  <2>1. CASE s.outfile = <<>>
    BY <1>0, <1>1, <2>1, SkeletonEmpty DEF File
  <2>2. CASE s.outfile # <<>>
    <3>1. PICK w \in Words : s.outfile = <<w>>
      BY <1>0, <2>2
    <3>2. s.outfile[1] = w /\ DOMAIN s.outfile = {1}
      BY <3>1
    <3>3. w \in WordsOf(parsed)
      <4>1. 1 \in DOMAIN parsed.outfile /\ parsed.outfile[1] = w
        BY <1>0, <3>2
      <4> QED
        BY <4>1, WordsOfIs
    <3>4. Written(w, quote[w]) = w
      BY <1>4, <3>3 DEF Written
    <3>5. w \in T /\ <<">">> \o w \in T
      BY <1>1, WordsAreTexts, ConcatProperties
    <3>6. <<>> \o <<">">> \o <<>> \o w = <<">">> \o w
      BY <1>1, <1>2, Zenon
    <3>7. file = <<">">> \o w
      BY <1>0, <2>2, <3>2, <3>4, <3>6, Zenon
    <3>8. Skeleton(<<">">> \o w) = <<">">> \o Skeleton(w)
      BY <1>1, <3>5, SkeletonConcat, SkeletonOfOne
    <3> QED
      BY <2>2, <3>2, <3>5, <3>7, <3>8 DEF File
  <2> QED
    BY <2>1, <2>2
<1>8. back \in T /\ Skeleton(back) = IF s.res = "BG" THEN <<"&">> ELSE <<>>
  <2>1. <<" ", "&">> = <<" ">> \o <<"&">>
    BY PairIs, Zenon
  <2>2. <<" ">> \o <<"&">> \in T /\ Skeleton(<<" ">> \o <<"&">>) = <<>> \o <<"&">>
    BY <1>1, SkeletonConcat, SkeletonOfOne, ConcatProperties
  <2>3. <<" ", "&">> \in T /\ Skeleton(<<" ", "&">>) = <<"&">>
    BY <1>1, <1>2, <2>1, <2>2, Zenon
  <2> QED
    BY <1>0, <1>1, <2>3, SkeletonEmpty
<1>9. Render(parsed, quote, <<>>) = <<>> \o Joined(argvs, bar) \o file \o back \o <<>> \o <<NL>>
  BY DEF Render
<1> HIDE DEF quote, argvs, file, back, bar
<1> DEFINE x == Typed(s.cmds)
<1>10. x \in T
  BY <1>0, TypedIs
<1> HIDE DEF x
<1>11. x \o file \in T /\ (x \o file) \o back \in T
  BY <1>7, <1>8, <1>10, ConcatProperties
<1>12. Render(parsed, quote, <<>>) = ((x \o file) \o back) \o <<NL>>
  <2>1. <<>> \o Joined(argvs, bar) = x
    BY <1>2, <1>6, <1>10 DEF x
  <2>2. ((x \o file) \o back) \o <<>> = (x \o file) \o back
    BY <1>2, <1>11
  <2> QED
    BY <1>9, <2>1, <2>2, Zenon
<1>13. Skeleton(((x \o file) \o back) \o <<NL>>) = Skeleton((x \o file) \o back) \o <<NL>>
  <2> DEFINE y == (x \o file) \o back
  <2>1. y \in T
    BY <1>11
  <2> HIDE DEF y
  <2>2. Skeleton(y \o <<NL>>) = Skeleton(y) \o Skeleton(<<NL>>)
    BY <1>1, <2>1, SkeletonConcat
  <2>3. Skeleton(<<NL>>) = <<NL>>
    BY SkeletonOfOne
  <2> QED
    BY <2>2, <2>3 DEF y
<1>14. Skeleton((x \o file) \o back) = Skeleton(x \o file) \o Skeleton(back)
  BY <1>8, <1>11, SkeletonConcat
<1>15. Skeleton(x \o file) = Skeleton(x) \o Skeleton(file)
  BY <1>7, <1>10, SkeletonConcat
<1>16. Skeleton(Render(parsed, quote, <<>>)) = ((Skeleton(x) \o File(s)) \o Skeleton(back)) \o <<NL>>
  BY <1>7, <1>12, <1>13, <1>14, <1>15, Zenon
<1> QED
  BY <1>8, <1>16, Zenon DEF x, quote

\* parseline() answers to every line, loses nothing of one that it accepts and
\* never runs one that was cut off: as the runs check it for short lines, for
\* lines of any length over any characters.
THEOREM NothingIsEverLost ==
  \A text \in Seq(Chars) : Kept(text)
<1> SUFFICES ASSUME NEW text \in Seq(Chars) PROVE Kept(text)
  OBVIOUS
<1> DEFINE t == text \o <<NL>>
           L == Len(t)
           s == Scan(t)[L + 2]
           parsed == parseline(t)
           T == Seq(AllChars)
<1>1. /\ Line(t) /\ L = Len(text) + 1 /\ SubSeq(t, 1, Len(text)) = text
      /\ parseline(text).res \notin Running
  BY LineIs, CutIsNotRun
<1>2. parsed = [cmds |-> s.cmds, outfile |-> s.outfile, res |-> s.res]
  BY DEF parseline
<1>3. \/ s.res = "error"
      \/ /\ s \in ScanStates(t) /\ Proper(s) /\ s.res \in Running
         /\ s.pos = L
         /\ s.cmds = <<>> \/ s.mode \notin {ReadCommand, ReadFilename}
  BY <1>1, LineScan
<1>4. s.res \in Running => Reading(t, s)
  BY <1>1, LineIsRead
<1> HIDE DEF s
<1>5. ASSUME s \in ScanStates(t), Proper(s), s.res \in Running, s.pos = L,
             s.cmds = <<>> \/ s.mode \notin {ReadCommand, ReadFilename}
      PROVE  Skeleton(Render(parsed, [word \in WordsOf(parsed) |-> Nul], <<>>)) = Skeleton(t)
  <2> DEFINE K == Skeleton(Typed(s.cmds))
             back == IF s.res = "BG" THEN <<"&">> ELSE <<>>
  <2>1. Skeleton(Render(parsed, [word \in WordsOf(parsed) |-> Nul], <<>>)) = ((K \o File(s)) \o back) \o <<NL>>
    BY <1>2, <1>5, RenderIs
  <2>2. L - 1 = Len(text)
    BY <1>1
  <2>3. Skeleton(text) = K \o After(s)
    BY <1>1, <1>4, <1>5, <2>2 DEF Reading
  <2>4. text \in T /\ <<NL>> \in T
    <3>1. text \in Words
      BY DEF Words
    <3> QED
      BY <3>1, WordsAreTexts
  <2>5. Skeleton(t) = Skeleton(text) \o <<NL>>
    BY <2>4, SkeletonConcat, SkeletonOfOne
  <2>6. K \in T /\ File(s) \in T /\ After(s) \in T
    <3>1. s.cmds \in Seq(Vectors)
      BY <1>5 DEF ScanStates
    <3> QED
      BY <1>5, <3>1, TypedIs, AfterIs
  <2>7. (K \o File(s)) \o back = K \o After(s)
    <3> HIDE DEF K
    <3>0. s.mode \in Modes /\ (s.res = "BG" <=> s.mode = ReadNewline)
      BY <1>5, ModesApart DEF Proper, ScanStates
    <3>1. CASE s.mode = ReadNewline
      <4>1. back = <<"&">> /\ After(s) = File(s) \o <<"&">>
        BY <1>5, <3>0, <3>1, AfterIs
      <4>2. (K \o File(s)) \o <<"&">> = K \o (File(s) \o <<"&">>)
        <5>1. <<"&">> \in T
          BY WordsAreTexts
        <5> QED
          BY <2>6, <5>1, ConcatAssociative
      <4> QED
        BY <4>1, <4>2
    <3>2. CASE s.mode # ReadNewline
      <4>1. back = <<>>
        BY <3>0, <3>2
      <4>2. File(s) = After(s)
        <5>1. s.mode \in {ReadCommand, ReadArguments, ReadAmpersand}
          <6>1. s.mode # ReadFilename
            BY <1>5, ModesApart DEF Proper
          <6> QED
            BY <3>0, <3>2, <6>1 DEF Modes
        <5>2. s.mode = ReadCommand => s.cmds = <<>>
          BY <1>5
        <5> QED
          BY <1>5, <5>1, <5>2, AfterIs DEF Before
      <4>3. (K \o File(s)) \o <<>> = K \o File(s)
        <5>1. K \o File(s) \in T
          BY <2>6, ConcatProperties
        <5> QED
          BY <5>1, ConcatEmptySeq
      <4> QED
        BY <4>1, <4>2, <4>3
    <3> QED
      BY <3>1, <3>2
  <2> QED
    BY <2>1, <2>3, <2>5, <2>7
<1>6. parsed.res = s.res
  BY <1>2
<1>7. s.res \in {"FG", "BG", "error"} /\ (s.res # "error" => Skeleton(Render(parsed, [word \in WordsOf(parsed) |-> Nul], <<>>)) = Skeleton(t))
  BY <1>3, <1>5 DEF Running
<1> QED
  BY <1>1, <1>6, <1>7, Zenon DEF Kept, Running

(***************************************************************************)
(* Lines of the grammar are understood.                                    *)
(***************************************************************************)

\* The pieces of a text.
Occurs(t, p, u) ==
  p + Len(u) <= Len(t) + 1 /\ \A j \in 1 .. Len(u) : At(t, p + j - 1) = u[j]

\* A text stands in itself, from 1 on.
LEMMA OccursWhole ==
  ASSUME NEW t \in LineText
  PROVE  Occurs(t, 1, t)
<1>1. Len(t) \in Nat /\ \A j \in 1 .. Len(t) : At(t, j) = t[j]
  BY AtIs
<1>2. \A j \in 1 .. Len(t) : 1 + j - 1 = j
  BY <1>1
<1> QED
  BY <1>1, <1>2 DEF Occurs

\* Where two pieces stand, stands the first, and behind it the second.
LEMMA OccursConcat ==
  ASSUME NEW t \in LineText, NEW p \in Nat \ {0}, NEW u \in LineText, NEW v \in LineText,
         Occurs(t, p, u \o v)
  PROVE  /\ Occurs(t, p, u) /\ Occurs(t, p + Len(u), v)
         /\ p + Len(u) \in Nat \ {0} /\ Len(u \o v) = Len(u) + Len(v)
         /\ p + Len(u \o v) = (p + Len(u)) + Len(v)
<1> DEFINE w == u \o v
           M == Len(u)
           N == Len(v)
           L == Len(t)
<1>1. M \in Nat /\ N \in Nat /\ L \in Nat
  BY DEF LineText
<1>2. Len(w) = M + N /\ \A i \in 1 .. M + N : w[i] = IF i <= M THEN u[i] ELSE v[i - M]
  BY ConcatProperties DEF LineText
<1>3. p + Len(w) <= L + 1 /\ \A j \in 1 .. Len(w) : At(t, p + j - 1) = w[j]
  BY DEF Occurs
<1> HIDE DEF w, M, N, L
<1>4. \A j \in 1 .. M : At(t, p + j - 1) = u[j]
  <2> TAKE j \in 1 .. M
  <2>1. j \in 1 .. M + N /\ j <= M
    BY <1>1
  <2> QED
    BY <1>2, <1>3, <2>1
<1>5. \A j \in 1 .. N : At(t, (p + M) + j - 1) = v[j]
  <2> TAKE j \in 1 .. N
  <2> DEFINE i == M + j
  <2>1. i \in 1 .. M + N /\ ~(i <= M) /\ i - M = j /\ p + i - 1 = (p + M) + j - 1
    BY <1>1
  <2> HIDE DEF i
  <2>2. At(t, p + i - 1) = w[i] /\ w[i] = v[i - M]
    BY <1>2, <1>3, <2>1
  <2> QED
    BY <2>1, <2>2
<1>6. p + M <= L + 1 /\ (p + M) + N <= L + 1 /\ p + M \in Nat \ {0} /\ p + (M + N) = (p + M) + N
  <2>1. p + (M + N) <= L + 1
    BY <1>2, <1>3
  <2> QED
    BY ONLY <1>1, <2>1
<1> QED
  BY <1>2, <1>4, <1>5, <1>6 DEF Occurs, M, N, L, w

\* A character that occurs.
LEMMA OccursOne ==
  ASSUME NEW t \in LineText, NEW p \in Nat \ {0}, NEW c, Occurs(t, p, <<c>>)
  PROVE  p \in 1 .. Len(t) /\ At(t, p) = c
<1>1. Len(<<c>>) = 1 /\ <<c>>[1] = c /\ Len(t) \in Nat
  BY AtIs
<1>2. p + 1 <= Len(t) + 1 /\ 1 \in 1 .. 1 /\ p + 1 - 1 = p
  BY <1>1 DEF Occurs
<1>3. At(t, p) = c
  BY <1>1, <1>2 DEF Occurs
<1> QED
  BY <1>1, <1>2, <1>3

\* What stands where a piece occurs is the piece.
LEMMA PieceIs ==
  ASSUME NEW t \in LineText, NEW p \in Nat \ {0}, NEW u \in LineText, Occurs(t, p, u)
  PROVE  SubSeq(t, p, p + Len(u) - 1) = u
<1> DEFINE N == Len(u)
           L == Len(t)
           b == p + N - 1
           w == SubSeq(t, p, b)
<1>1. N \in Nat /\ L \in Nat /\ p + N <= L + 1 /\ \A j \in 1 .. N : At(t, p + j - 1) = u[j]
  BY DEF Occurs, LineText
<1>2. b \in Nat /\ b <= L /\ b + 1 - p = N /\ p <= b + 1
  BY ONLY <1>1, p \in Nat \ {0}
<1>3. w \in Seq(AllChars) /\ Len(w) = b + 1 - p /\ \A i \in 1 .. b + 1 - p : w[i] = t[p + i - 1]
  BY <1>2, PartIs
<1>4. \A i \in 1 .. N : t[p + i - 1] = u[i]
  <2> TAKE i \in 1 .. N
  <2>1. p + i - 1 \in 1 .. L
    BY <1>1
  <2>2. At(t, p + i - 1) = t[p + i - 1]
    BY <2>1, AtIs
  <2> QED
    BY <1>1, <2>2
<1>5. u \in Seq(AllChars)
  BY WordsAreTexts
<1> HIDE DEF w, b, N
<1>6. Len(w) = N /\ \A i \in 1 .. N : w[i] = u[i]
  BY <1>2, <1>3, <1>4
<1>7. w = u
  <2>1. Len(w) = Len(u) /\ \A i \in 1 .. Len(w) : w[i] = u[i]
    BY <1>6 DEF N
  <2> QED
    BY <1>3, <1>5, <2>1, SeqEqual
<1> QED
  BY <1>7 DEF w, b, N

\* Gaps are blanks.
Gaps == Seq({" "})

\* A gap is a text of blanks.
LEMMA GapIs ==
  ASSUME NEW gap \in Gaps
  PROVE  /\ gap \in LineText /\ Len(gap) \in Nat
         /\ \A j \in 1 .. Len(gap) : gap[j] = " "
<1>1. {" "} \subseteq Chars \cup {NL}
  BY DEF Chars
<1>2. gap \in LineText
  BY <1>1, SeqMonotonic DEF LineText, Gaps
<1>3. \A j \in 1 .. Len(gap) : gap[j] \in {" "}
  BY ElementOfSeq DEF Gaps
<1>4. Len(gap) \in Nat
  BY <1>2, AtIs
<1> QED
  BY <1>2, <1>3, <1>4

\* Gaps are skipped.
LEMMA GapIsSkipped ==
  ASSUME NEW t \in LineText, NEW p \in Nat \ {0}, NEW gap \in Gaps, Occurs(t, p, gap),
         At(t, p + Len(gap)) # " "
  PROVE  skip_whitespace(t, p) = p + Len(gap) /\ p + Len(gap) \in p .. Len(t) + 1
<1> DEFINE r == skip_whitespace(t, p)
           N == Len(gap)
           L == Len(t)
           e == p + N
<1>1. N \in Nat /\ L \in Nat /\ p + N <= L + 1
  BY AtIs, GapIs DEF Occurs
<1>2. \A j \in 1 .. N : At(t, p + j - 1) = " "
  BY GapIs DEF Occurs
<1>3. p \in 1 .. L + 1 /\ e \in p .. L + 1 /\ e \in Nat /\ p \in Nat
  BY ONLY <1>1, p \in Nat \ {0}
<1>4. r \in p .. L + 1 /\ At(t, r) # " " /\ \A q \in p .. r - 1 : At(t, q) = " "
  BY <1>3, SkipIs
<1>5. r \in p .. L + 1
  BY <1>4
<1> HIDE DEF r, N, L
<1>6. ~(r < e)
  <2> SUFFICES ASSUME r < e PROVE FALSE
    OBVIOUS
  <2> DEFINE j == r - p + 1
  <2>1. j \in 1 .. N /\ p + j - 1 = r
    BY ONLY <1>1, <1>3, <1>5, r < e
  <2> HIDE DEF j
  <2> QED
    BY <1>2, <1>4, <2>1
<1>7. ~(e < r)
  <2> SUFFICES ASSUME e < r PROVE FALSE
    OBVIOUS
  <2>1. e \in p .. r - 1
    BY ONLY <1>1, <1>3, <1>5, e < r
  <2>2. At(t, e) # " "
    BY DEF N
  <2> QED
    BY <1>4, <2>1, <2>2
<1>8. r = e
  BY ONLY <1>1, <1>3, <1>5, <1>6, <1>7
<1> QED
  BY <1>3, <1>8 DEF r, N, L

\* What comes first of a gap and a character.
LEMMA FirstOfGap ==
  ASSUME NEW t \in LineText, NEW p \in Nat \ {0}, NEW gap \in Gaps, NEW c \in Chars \cup {NL},
         Occurs(t, p, gap \o <<c>>)
  PROVE  At(t, p) \in {" ", c}
<1>1. gap \in LineText /\ <<c>> \in LineText
  <2>1. <<c>> \in LineText
    BY DEF LineText
  <2> QED
    BY <2>1, GapIs
<1>2. Occurs(t, p, gap) /\ Occurs(t, p + Len(gap), <<c>>) /\ p + Len(gap) \in Nat \ {0} /\ Len(gap) \in Nat
  BY <1>1, OccursConcat, GapIs
<1>3. CASE Len(gap) = 0
  <2>1. p + Len(gap) = p
    BY <1>3
  <2> QED
    BY <1>2, <2>1, OccursOne
<1>4. CASE Len(gap) # 0
  <2>1. 1 \in 1 .. Len(gap) /\ p + 1 - 1 = p
    BY <1>2, <1>4
  <2>2. At(t, p) = gap[1] /\ gap[1] = " "
    BY <1>2, <2>1, GapIs DEF Occurs
  <2> QED
    BY <2>2
<1> QED
  BY <1>3, <1>4

(***************************************************************************)
(* One piece of the line, one turn of the scan.                            *)
(***************************************************************************)

\* The scan comes to this state, after fewer turns than it has got far.
Reached(t, s) == \E n \in 0 .. Len(t) + 2 : n < s.pos /\ Scan(t)[n] = s

\* A state that the scan comes to, and goes on from, is one of its states.
LEMMA ReachedIs ==
  ASSUME NEW t \in LineText, NEW s, Reached(t, s), s.res \in Running
  PROVE  s \in ScanStates(t) /\ Proper(s) /\ s.pos \in Nat \ {0} /\ s.pos \in 1 .. Len(t) + 1 /\ Len(t) \in Nat
<1>1. s \in Sane(t)
  BY ScanIs DEF Reached
<1>2. s \in ScanStates(t) /\ Proper(s)
  BY <1>1 DEF Sane
<1> QED
  BY <1>2, AtIs DEF ScanStates

\* A turn that gets further leads to a state the scan comes to.
LEMMA ReachedTurn ==
  ASSUME NEW t \in LineText, NEW s, Reached(t, s), s.res \in Running, At(t, s.pos) # NL,
         NEW n, Turn(t, s) = n, n.pos \in s.pos + 1 .. Len(t) + 1
  PROVE  Reached(t, n)
<1>1. s.pos \in 1 .. Len(t) + 1 /\ Len(t) \in Nat
  BY ReachedIs
<1>2. PICK i \in 0 .. Len(t) + 2 : i < s.pos /\ Scan(t)[i] = s
  BY DEF Reached
<1>3. i + 1 \in 1 .. Len(t) + 2 /\ i + 1 \in 0 .. Len(t) + 2 /\ i + 1 < n.pos /\ n.pos # s.pos /\ (i + 1) - 1 = i
  BY <1>1, <1>2
<1>4. Step(t, s) = n
  BY <1>3 DEF Step, Running
<1>5. Scan(t)[i + 1] = n
  BY <1>2, <1>3, <1>4, ScanIs
<1> QED
  BY <1>3, <1>5 DEF Reached

\* The first turn behind a gap begins where the gap ends.
LEMMA BehindGap ==
  ASSUME NEW t \in LineText, NEW s, Reached(t, s), s.res \in Running, NEW gap \in Gaps,
         Occurs(t, s.pos, gap), At(t, s.pos + Len(gap)) \notin {" ", NL}
  PROVE  LET p == s.pos + Len(gap)
             k == [pos |-> p, mode |-> s.mode, cmds |-> s.cmds, outfile |-> s.outfile, res |-> s.res]
             c == At(t, p)
         IN  /\ k \in ScanStates(t) /\ Proper(k) /\ k.pos = p
             /\ p \in s.pos .. Len(t) + 1 /\ p \in Nat \ {0} /\ s.pos \in Nat \ {0} /\ Len(t) \in Nat
             /\ At(t, s.pos) # NL
             /\ c = "|" => Turn(t, s) = Pipe(k)
             /\ c = ">" => Turn(t, s) = Redirect(k)
             /\ c = "&" => Turn(t, s) = Background(k)
             /\ c \notin {"|", ">", "&"} => Turn(t, s) = Word(t, k)
<1> DEFINE p == s.pos + Len(gap)
           k == [pos |-> p, mode |-> s.mode, cmds |-> s.cmds, outfile |-> s.outfile, res |-> s.res]
           h == [s EXCEPT !.pos = skip_whitespace(t, @)]
           c == At(t, p)
<1>1. s \in ScanStates(t) /\ Proper(s) /\ s.pos \in Nat \ {0} /\ Len(t) \in Nat
  BY ReachedIs
<1>2. c # " " /\ c # NL
  OBVIOUS
<1>3. skip_whitespace(t, s.pos) = p /\ p \in s.pos .. Len(t) + 1
  BY <1>1, <1>2, GapIsSkipped
<1>4. /\ h = [pos |-> skip_whitespace(t, s.pos), mode |-> s.mode, cmds |-> s.cmds,
              outfile |-> s.outfile, res |-> s.res]
      /\ h \in ScanStates(t) /\ Proper(h)
  BY <1>1, SkippedIs
<1>5. h = k /\ h.pos = p
  BY <1>3, <1>4, Zenon
<1>6. Turn(t, s) = CASE At(t, h.pos) = "|" -> Pipe(h)
                     [] At(t, h.pos) = ">" -> Redirect(h)
                     [] At(t, h.pos) = "&" -> Background(h)
                     [] At(t, h.pos) = NL -> Blanks(h)
                     [] OTHER -> Word(t, h)
  BY Zenon DEF Turn
<1>7. p \in Nat \ {0} /\ s.pos \in Nat /\ Len(gap) \in Nat
  <2>1. Len(gap) \in Nat
    BY GapIs
  <2> QED
    BY ONLY <1>1, <2>1
<1>8. At(t, s.pos) # NL
  <2>1. CASE Len(gap) = 0
    <3>1. p = s.pos
      BY ONLY <1>7, <2>1
    <3> QED
      BY <1>2, <3>1
  <2>2. CASE Len(gap) # 0
    <3>1. 1 \in 1 .. Len(gap) /\ s.pos + 1 - 1 = s.pos
      BY ONLY <1>7, <2>2
    <3>2. At(t, s.pos) = gap[1] /\ gap[1] = " "
      BY <3>1, GapIs DEF Occurs
    <3> QED
      BY <3>2, CharsApart DEF Chars
  <2> QED
    BY <2>1, <2>2
<1> HIDE DEF k, h, p
<1>9. Turn(t, s) = CASE c = "|" -> Pipe(k)
                     [] c = ">" -> Redirect(k)
                     [] c = "&" -> Background(k)
                     [] c = NL -> Blanks(k)
                     [] OTHER -> Word(t, k)
  BY <1>5, <1>6
<1>10. /\ c = "|" => Turn(t, s) = Pipe(k)
       /\ c = ">" => Turn(t, s) = Redirect(k)
       /\ c = "&" => Turn(t, s) = Background(k)
       /\ c \notin {"|", ">", "&"} => Turn(t, s) = Word(t, k)
  <2> HIDE DEF c
  <2> QED
    BY <1>2, <1>9 DEF NL
<1>11. k \in ScanStates(t) /\ Proper(k) /\ k.pos = p
  BY <1>4, <1>5
<1> QED
  BY <1>1, <1>3, <1>7, <1>8, <1>10, <1>11 DEF k, p

\* An operator that may come is taken.
LEMMA OperatorIsTaken ==
  ASSUME NEW t \in LineText, NEW s, Reached(t, s), s.res \in Running, NEW gap \in Gaps,
         NEW c \in Operators, Occurs(t, s.pos, gap \o <<c>>),
         NEW n, TakesOperator(t, s, s.pos + Len(gap), n)
  PROVE  Reached(t, n) /\ n.pos = s.pos + Len(gap) + 1
<1> DEFINE p == s.pos + Len(gap)
           k == [pos |-> p, mode |-> s.mode, cmds |-> s.cmds, outfile |-> s.outfile, res |-> s.res]
<1>0. s.pos \in Nat \ {0}
  BY ReachedIs
<1>1. Occurs(t, s.pos, gap) /\ Occurs(t, p, <<c>>) /\ p \in Nat \ {0}
  <2>1. c \in Chars \cup {NL}
    BY DEF Chars
  <2>2. <<c>> \in LineText
    BY <2>1 DEF LineText
  <2>3. gap \in LineText
    BY GapIs
  <2> QED
    BY <1>0, <2>2, <2>3, OccursConcat
<1>2. p \in 1 .. Len(t) /\ At(t, p) = c
  BY <1>1, OccursOne
<1>3. At(t, p) \notin {" ", NL}
  BY <1>2 DEF Operators, NL
<1>4. /\ k \in ScanStates(t) /\ k.pos = p
      /\ p \in s.pos .. Len(t) + 1 /\ Len(t) \in Nat
      /\ At(t, s.pos) # NL
      /\ At(t, p) = "|" => Turn(t, s) = Pipe(k)
      /\ At(t, p) = ">" => Turn(t, s) = Redirect(k)
      /\ At(t, p) = "&" => Turn(t, s) = Background(k)
  BY <1>1, <1>3, BehindGap
<1>5. Turn(t, s) = n
  <2>1. CASE At(t, p) = "|"
    BY <1>4, <2>1, ModesApart DEF TakesOperator, Pipe
  <2>2. CASE At(t, p) = ">"
    BY <1>4, <2>2, ModesApart DEF TakesOperator, Redirect
  <2>3. CASE At(t, p) = "&"
    BY <1>4, <2>3, ModesApart DEF TakesOperator, Background
  <2> QED
    BY <1>2, <2>1, <2>2, <2>3 DEF Operators
<1>6. n.pos = p + 1
  BY DEF TakesOperator
<1>7. n.pos \in s.pos + 1 .. Len(t) + 1
  BY <1>0, <1>2, <1>4, <1>6
<1>8. Reached(t, n)
  BY <1>4, <1>5, <1>7, ReachedTurn
<1> QED
  BY <1>6, <1>8

\* How a word is written, and that the search for its end passes over it.
LEMMA WrittenIs ==
  ASSUME NEW w \in Words, NEW q \in Quotes \cup {Nul}, Writable(w, q)
  PROVE  /\ w \in LineText /\ Written(w, q) \in LineText /\ Len(w) \in Nat
         /\ \A j \in 1 .. Len(w) : w[j] \notin WordStops(q)
         /\ q = Nul => Written(w, q) = w /\ Len(w) # 0 /\ w[1] \in Letters
         /\ q # Nul => /\ q \in Quotes /\ q \in WordStops(q) /\ <<q>> \in LineText
                       /\ Written(w, q) = (<<q>> \o w) \o <<q>> /\ <<q>> \o w \in LineText
<1>1. w \in LineText /\ Len(w) \in Nat /\ \A j \in 1 .. Len(w) : w[j] \in Chars
  <2>1. w \in LineText
    <3>1. Chars \subseteq Chars \cup {NL}
      OBVIOUS
    <3> QED
      BY <3>1, SeqMonotonic DEF Words, LineText
  <2> QED
    BY <2>1, AtIs, ElementOfSeq DEF Words
<1>2. \A j \in 1 .. Len(w) : w[j] \in Range(w)
  <2>1. DOMAIN w = 1 .. Len(w)
    BY DEF Words
  <2> QED
    BY <2>1, Zenon DEF Range
<1>3. CASE q = Nul
  <2>1. Written(w, q) = w /\ w # <<>> /\ w[1] \in Letters /\ Range(w) \cap {" ", "|", ">"} = {}
    BY <1>3, Zenon DEF Written, Writable
  <2>2. ASSUME NEW c \in Chars, c \notin {" ", "|", ">"}
        PROVE  c \notin WordStops(q)
    BY <1>3, <2>2, StopsAre, CharsApart, Zenon
  <2>3. \A j \in 1 .. Len(w) : w[j] \notin WordStops(q)
    BY <1>1, <1>2, <2>1, <2>2, Zenon
  <2>4. Len(w) # 0
    BY <2>1, EmptySeq DEF Words
  <2> QED
    BY <1>1, <1>3, <2>1, <2>3, <2>4, Zenon
<1>4. CASE q # Nul
  <2>1. q \in Quotes
    BY <1>4
  <2>2. Written(w, q) = <<q>> \o w \o <<q>> /\ q \notin Range(w)
    BY <1>4, Zenon DEF Written, Writable
  <2>3. WordStops(q) = {q, NL} /\ q \in WordStops(q)
    BY <2>1, StopsAre, Zenon
  <2>4. \A j \in 1 .. Len(w) : w[j] \notin WordStops(q)
    BY <1>1, <1>2, <2>2, <2>3, CharsApart, Zenon
  <2>5. <<q>> \in LineText
    <3>1. q \in Chars \cup {NL}
      BY <2>1 DEF Chars
    <3> QED
      BY <3>1 DEF LineText
  <2>6. <<q>> \o w \in LineText
    BY <1>1, <2>5, ConcatProperties DEF LineText
  <2>7. (<<q>> \o w) \o <<q>> \in LineText
    BY <2>5, <2>6, ConcatProperties DEF LineText
  <2> QED
    BY <1>1, <1>4, <2>1, <2>2, <2>3, <2>4, <2>5, <2>6, <2>7, Zenon
<1> QED
  BY <1>3, <1>4

\* The piece of the line from p up to where it ends has no such character.
LEMMA NoStopIn ==
  ASSUME NEW t \in LineText, NEW p \in Nat \ {0}, NEW w \in LineText, Occurs(t, p, w),
         NEW stops, \A j \in 1 .. Len(w) : w[j] \notin stops
  PROVE  \A i \in p .. p + Len(w) - 1 : At(t, i) \notin stops
<1> TAKE i \in p .. p + Len(w) - 1
<1> DEFINE j == i - p + 1
<1>1. Len(w) \in Nat
  BY AtIs
<1>2. j \in 1 .. Len(w) /\ p + j - 1 = i
  BY <1>1
<1> HIDE DEF j
<1>3. At(t, p + j - 1) = w[j]
  BY <1>2 DEF Occurs
<1> QED
  BY <1>2, <1>3

\* A word in quotes that stands at the state's position.
LEMMA QuotedIsRead ==
  ASSUME NEW t \in LineText, NEW k \in ScanStates(t), k.mode < ReadAmpersand, k.pos \in Nat \ {0},
         NEW w \in Words, NEW q \in Quotes, Writable(w, q), Occurs(t, k.pos, Written(w, q))
  PROVE  LET e == k.pos + Len(Written(w, q))
         IN  /\ At(t, k.pos) = q
             /\ e \in k.pos + 1 .. Len(t) + 1
             /\ Word(t, k) = [Store(k, w) EXCEPT !.pos = e]
<1> DEFINE p == k.pos
           N == Len(w)
           e == p + Len(Written(w, q))
           L == Len(t)
<1>1. q # Nul /\ q # NL
  BY CharsApart DEF Chars
<1>2. /\ w \in LineText /\ Written(w, q) \in LineText /\ N \in Nat /\ L \in Nat
      /\ q \in WordStops(q) /\ <<q>> \in LineText
      /\ Written(w, q) = (<<q>> \o w) \o <<q>> /\ <<q>> \o w \in LineText
      /\ \A j \in 1 .. N : w[j] \notin WordStops(q)
  BY <1>1, WrittenIs, AtIs
<1>3. /\ Occurs(t, p, <<q>> \o w) /\ Occurs(t, p + Len(<<q>> \o w), <<q>>)
      /\ p + Len(<<q>> \o w) \in Nat \ {0} /\ Len(Written(w, q)) = Len(<<q>> \o w) + Len(<<q>>)
  <2> DEFINE a == <<q>>
             b == <<q>> \o w
  <2>1. Occurs(t, p, b \o a) /\ b \in LineText /\ a \in LineText /\ Written(w, q) = b \o a
    BY <1>2
  <2> HIDE DEF a, b
  <2>2. Occurs(t, p, b) /\ Occurs(t, p + Len(b), a) /\ p + Len(b) \in Nat \ {0} /\ Len(b \o a) = Len(b) + Len(a)
    BY <2>1, OccursConcat
  <2> QED
    BY <2>1, <2>2 DEF a, b
<1>4. /\ Occurs(t, p, <<q>>) /\ Occurs(t, p + Len(<<q>>), w)
      /\ p + Len(<<q>>) \in Nat \ {0} /\ Len(<<q>> \o w) = Len(<<q>>) + Len(w)
  <2> DEFINE a == <<q>>
  <2>1. Occurs(t, p, a \o w) /\ w \in LineText /\ a \in LineText
    BY <1>2, <1>3
  <2> HIDE DEF a
  <2>2. Occurs(t, p, a) /\ Occurs(t, p + Len(a), w) /\ p + Len(a) \in Nat \ {0} /\ Len(a \o w) = Len(a) + Len(w)
    BY <2>1, OccursConcat
  <2> QED
    BY <2>2 DEF a
<1>5. Len(<<q>>) = 1
  OBVIOUS
<1>6. /\ p + 1 \in Nat \ {0} /\ p + N + 1 \in Nat \ {0} /\ e = p + N + 2 /\ p + Len(<<q>> \o w) = p + N + 1
  BY ONLY <1>2, <1>3, <1>4, <1>5, k.pos \in Nat \ {0}
<1>7. At(t, p) = q /\ At(t, p + N + 1) = q /\ p + N + 1 \in 1 .. L
  <2>1. Occurs(t, p + N + 1, <<q>>)
    BY <1>3, <1>6
  <2> QED
    BY <1>4, <1>6, <2>1, OccursOne
<1>8. Occurs(t, p + 1, w)
  BY <1>4, <1>5
<1>9. \A i \in p + 1 .. p + 1 + N - 1 : At(t, i) \notin WordStops(q)
  BY <1>2, <1>6, <1>8, NoStopIn
<1>10. /\ p + 1 \in 1 .. L + 2 /\ p + N + 1 \in p + 1 .. L + 1 /\ p + 1 + N - 1 = (p + N + 1) - 1
       /\ e \in p + 1 .. L + 1 /\ (p + N + 1) + 1 = e /\ p + N + 1 # L + 2
  <2>1. N \in Nat /\ L \in Nat /\ p + N + 1 \in 1 .. L /\ e = p + N + 2 /\ p \in Nat \ {0}
    BY <1>2, <1>6, <1>7
  <2> HIDE DEF N, L, e, p
  <2> QED
    BY ONLY <2>1
<1>11. FirstFrom(t, p + 1, WordStops(q)) = p + N + 1
  <2> DEFINE d == p + N + 1
  <2>1. d \in p + 1 .. L + 1 /\ At(t, d) \in WordStops(q) /\ \A i \in p + 1 .. d - 1 : At(t, i) \notin WordStops(q)
    BY <1>2, <1>7, <1>9, <1>10
  <2> HIDE DEF d
  <2>2. FirstFrom(t, p + 1, WordStops(q)) = d
    BY <1>10, <2>1, FirstFromThere
  <2> QED
    BY <2>2 DEF d
<1>12. SubSeq(t, p + 1, p + N) = w
  <2>1. SubSeq(t, p + 1, p + 1 + N - 1) = w
    BY <1>2, <1>6, <1>8, PieceIs
  <2>2. p + 1 + N - 1 = p + N
    BY ONLY <1>2, k.pos \in Nat \ {0}
  <2> QED
    BY <2>1, <2>2
<1>13. Word(t, k) = [Store(k, w) EXCEPT !.pos = e]
  <2> DEFINE end == FirstFrom(t, p + 1, WordStops(q))
  <2>1. \/ /\ end = L + 2
           /\ Word(t, k) = [k EXCEPT !.res = "overrun"]
        \/ /\ end # L + 2 /\ At(t, end) # q
           /\ Word(t, k) = Wrong(k)
        \/ /\ end # L + 2 /\ At(t, end) = q
           /\ Word(t, k) = [Store(k, SubSeq(t, p + 1, end - 1)) EXCEPT !.pos = end + 1]
    BY <1>7, QuotedWord
  <2>2. Word(t, k) = [Store(k, SubSeq(t, p + 1, end - 1)) EXCEPT !.pos = end + 1]
    BY <1>7, <1>10, <1>11, <2>1, Zenon
  <2>3. end - 1 = p + N /\ end + 1 = e
    <3>1. (p + N + 1) - 1 = p + N
      BY ONLY <1>2, k.pos \in Nat \ {0}
    <3> QED
      BY <1>10, <1>11, <3>1
  <2> HIDE DEF end
  <2> QED
    BY <1>12, <2>2, <2>3
<1> QED
  BY <1>7, <1>10, <1>13

\* A plain word that stands at the state's position.
LEMMA PlainIsRead ==
  ASSUME NEW t \in LineText, NEW k \in ScanStates(t), k.mode < ReadAmpersand, k.pos \in Nat \ {0},
         NEW w \in Words, Writable(w, Nul), Occurs(t, k.pos, w),
         At(t, k.pos + Len(w)) \in WordStops(Nul)
  PROVE  LET e == k.pos + Len(w)
         IN  /\ At(t, k.pos) \in Letters
             /\ e \in k.pos + 1 .. Len(t) + 1
             /\ Word(t, k) = [Store(k, w) EXCEPT !.pos = e]
<1> DEFINE p == k.pos
           N == Len(w)
           e == p + N
           L == Len(t)
<1>1. /\ w \in LineText /\ N \in Nat /\ L \in Nat /\ N # 0 /\ w[1] \in Letters
      /\ \A j \in 1 .. N : w[j] \notin WordStops(Nul)
  <2>1. Nul \in Quotes \cup {Nul}
    OBVIOUS
  <2> QED
    BY <2>1, WrittenIs, AtIs
<1>2. p + N <= L + 1
  BY DEF Occurs
<1>3. e \in p + 1 .. L + 1 /\ e \in Nat /\ p \in Nat /\ 1 \in 1 .. N /\ p + 1 - 1 = p
  BY ONLY <1>1, <1>2, k.pos \in Nat \ {0}
<1>4. At(t, p) = w[1]
  BY <1>3 DEF Occurs
<1>5. At(t, p) \notin Quotes
  BY <1>1, <1>4, CharsApart, Zenon DEF Quotes
<1>6. PICK word \in Words, next \in p .. L + 1 :
        /\ Word(t, k) = [Store(k, word) EXCEPT !.pos = next]
        /\ word = SubSeq(t, p, next - 1)
        /\ At(t, next) \in WordStops(Nul)
        /\ \A i \in p .. next - 1 : At(t, i) \notin WordStops(Nul)
  BY <1>5, PlainWord
<1>7. \A i \in p .. e - 1 : At(t, i) \notin WordStops(Nul)
  BY <1>1, NoStopIn
<1>8. next = e
  <2>0. next \in p .. L + 1
    BY <1>6
  <2>1. ~(next < e)
    <3> SUFFICES ASSUME next < e PROVE FALSE
      OBVIOUS
    <3>1. next \in p .. e - 1
      BY ONLY <1>1, <1>3, <2>0, next < e
    <3> QED
      BY <1>6, <1>7, <3>1
  <2>2. ~(e < next)
    <3> SUFFICES ASSUME e < next PROVE FALSE
      OBVIOUS
    <3>1. e \in p .. next - 1
      BY ONLY <1>1, <1>3, <2>0, e < next
    <3> QED
      BY <1>6, <3>1
  <2> QED
    BY ONLY <1>1, <1>3, <2>0, <2>1, <2>2
<1>9. SubSeq(t, p, e - 1) = w
  <2> HIDE DEF p
  <2>1. p \in Nat \ {0} /\ Occurs(t, p, w)
    BY DEF p
  <2> QED
    BY <1>1, <2>1, PieceIs
<1>10. Word(t, k) = [Store(k, w) EXCEPT !.pos = e]
  <2> HIDE DEF e
  <2> QED
    BY <1>6, <1>8, <1>9
<1> QED
  BY <1>1, <1>3, <1>4, <1>10


\* A word that may come is taken.
LEMMA WordIsTaken ==
  ASSUME NEW t \in LineText, NEW s, Reached(t, s), s.res \in Running, s.mode < ReadAmpersand,
         NEW gap \in Gaps, NEW w \in Words, NEW q \in Quotes \cup {Nul}, Writable(w, q),
         Occurs(t, s.pos, gap \o Written(w, q)),
         q = Nul => At(t, s.pos + Len(gap) + Len(Written(w, q))) \in WordStops(Nul),
         NEW n, StoredAs(s, w, s.pos + Len(gap) + Len(Written(w, q)), n)
  PROVE  Reached(t, n)
<1> DEFINE p == s.pos + Len(gap)
           u == Written(w, q)
           e == p + Len(u)
           k == [pos |-> p, mode |-> s.mode, cmds |-> s.cmds, outfile |-> s.outfile, res |-> s.res]
<1>0. s \in ScanStates(t) /\ s.pos \in Nat \ {0} /\ Len(t) \in Nat /\ Len(gap) \in Nat /\ gap \in LineText
  BY ReachedIs, GapIs
<1>1. Occurs(t, s.pos, gap) /\ Occurs(t, p, u) /\ p \in Nat \ {0} /\ u \in LineText /\ Len(u) \in Nat
  <2>1. u \in LineText /\ Len(u) \in Nat
    BY WrittenIs, AtIs
  <2> HIDE DEF u
  <2>2. Occurs(t, s.pos, gap \o u)
    BY DEF u
  <2> QED
    BY <1>0, <2>1, <2>2, OccursConcat
<1>2. k \in ScanStates(t) /\ k.pos = p /\ k.mode < ReadAmpersand /\ p \in s.pos .. Len(t) + 1
  <2>1. p + Len(u) <= Len(t) + 1
    BY <1>1 DEF Occurs
  <2> HIDE DEF u
  <2>2. p \in 1 .. Len(t) + 1 /\ p \in s.pos .. Len(t) + 1
    BY ONLY <1>0, <1>1, <2>1
  <2>3. /\ s.mode \in 0 .. 4 /\ s.cmds \in Seq(Vectors) /\ s.outfile \in {<<>>} \cup {<<v>> : v \in Words}
        /\ s.res \in Running \cup {"error", "overrun", "loops"}
    BY <1>0 DEF ScanStates
  <2> HIDE DEF p
  <2>4. k \in ScanStates(t)
    BY <2>2, <2>3, StateWith
  <2> QED
    BY <2>2, <2>4
<1>3. /\ At(t, p) \in Letters \cup Quotes
      /\ e \in p + 1 .. Len(t) + 1
      /\ Word(t, k) = [Store(k, w) EXCEPT !.pos = e]
  <2>1. CASE q = Nul
    <3>1. u = w
      BY <2>1, WrittenIs
    <3>2. Writable(w, Nul) /\ Occurs(t, p, w) /\ At(t, p + Len(w)) \in WordStops(Nul)
      BY <1>1, <2>1, <3>1
    <3> HIDE DEF k, p
    <3>3. At(t, p) \in Letters /\ p + Len(w) \in p + 1 .. Len(t) + 1
          /\ Word(t, k) = [Store(k, w) EXCEPT !.pos = p + Len(w)]
      BY <1>1, <1>2, <3>2, PlainIsRead
    <3> QED
      BY <3>1, <3>3
  <2>2. CASE q # Nul
    <3>1. q \in Quotes
      BY <2>2
    <3> HIDE DEF k, p
    <3>2. At(t, p) = q /\ e \in p + 1 .. Len(t) + 1 /\ Word(t, k) = [Store(k, w) EXCEPT !.pos = e]
      BY <1>1, <1>2, <3>1, QuotedIsRead
    <3> QED
      BY <3>1, <3>2
  <2> QED
    BY <2>1, <2>2
<1>4. At(t, p) \notin {" ", NL} /\ At(t, p) \notin {"|", ">", "&"}
  <2>1. \A c \in Quotes : c \notin {" ", NL} /\ c \notin {"|", ">", "&"}
    <3>1. \A c \in Quotes : c \notin {"|", ">", "&", " "}
      BY DEF Quotes
    <3>2. \A c \in Quotes : c # NL
      BY CharsApart, Zenon DEF Chars
    <3> QED
      BY <3>1, <3>2, Zenon
  <2> QED
    BY <1>3, <2>1, CharsApart, Zenon
<1>5. At(t, s.pos) # NL /\ Turn(t, s) = Word(t, k)
  <2> HIDE DEF k
  <2>1. At(t, s.pos) # NL /\ (At(t, p) \notin {"|", ">", "&"} => Turn(t, s) = Word(t, k))
    BY <1>1, <1>4, BehindGap DEF k
  <2> QED
    BY <1>4, <2>1, Zenon
<1>6. StoredAs(k, w, e, Turn(t, s))
  <2> HIDE DEF k, e
  <2> QED
    BY <1>2, <1>3, <1>5, StoreIs
<1>7. Turn(t, s) = n
  <2> DEFINE x == Turn(t, s)
  <2>1. k.mode = s.mode /\ k.cmds = s.cmds /\ k.outfile = s.outfile /\ k.res = s.res
    OBVIOUS
  <2> HIDE DEF k, e, x
  <2>2. StoredAs(k, w, e, x) /\ StoredAs(s, w, e, n)
    BY <1>6 DEF x, e
  <2>3. ReadCommand # ReadArguments /\ ReadCommand # ReadFilename /\ ReadArguments # ReadFilename
    BY ModesApart
  <2>4. StoredAs(s, w, e, x)
    BY <2>1, <2>2, Zenon DEF StoredAs
  <2>5. x = n
    BY <2>2, <2>3, <2>4, Zenon DEF StoredAs
  <2> QED
    BY <2>5 DEF x
<1>8. n.pos \in s.pos + 1 .. Len(t) + 1
  <2>1. n.pos = e
    <3> HIDE DEF e
    <3>1. StoredAs(s, w, e, n)
      BY DEF e
    <3> QED
      BY ONLY <3>1 DEF StoredAs
  <2> HIDE DEF u
  <2> QED
    BY ONLY <1>0, <1>1, <1>2, <1>3, <2>1
<1> QED
  BY <1>5, <1>7, <1>8, ReachedTurn

\* At the newline the scan stays.
LEMMA ScanStays ==
  ASSUME NEW t \in LineText, NEW s, Reached(t, s), s.res \in Running, At(t, s.pos) = NL,
         s.mode \notin {ReadCommand, ReadFilename}
  PROVE  Scan(t)[Len(t) + 2] = s
<1> DEFINE N == Len(t) + 2
<1>1. N \in Nat
  BY AtIs
<1>2. PICK n \in 0 .. N : Scan(t)[n] = s
  BY DEF Reached
<1>3. Step(t, s) = s
  BY DEF Step, Finished, Running
<1>4. \A i \in 1 .. N : Scan(t)[i] = Step(t, Scan(t)[i - 1])
  BY ScanIs
<1> HIDE DEF N
<1> DEFINE S == {i \in 0 .. N : i >= n => Scan(t)[i] = s}
<1>5. 0 \in S
  <2>1. 0 \in 0 .. N
    BY <1>1
  <2>2. 0 >= n => n = 0
    BY <1>1
  <2>3. 0 >= n => Scan(t)[0] = s
    BY <1>2, <2>2
  <2> QED
    BY <2>1, <2>3, Zenon
<1>6. ASSUME NEW i \in 1 .. N, i - 1 \in S
      PROVE  i \in S
  <2>1. i \in 0 .. N /\ i - 1 \in 0 .. N
    BY <1>1
  <2>2. i >= n => i = n \/ i - 1 >= n
    BY <1>1
  <2>3. i - 1 >= n => Scan(t)[i - 1] = s
    BY <1>6, <2>1
  <2>4. i >= n => Scan(t)[i] = s
    BY <1>2, <1>3, <1>4, <2>2, <2>3
  <2> QED
    BY <2>1, <2>4
<1>7. \A i \in 0 .. N : i \in S
  <2> HIDE DEF S
  <2> QED
    BY <1>1, <1>5, <1>6, UpTo
<1>8. N \in 0 .. N /\ N >= n
  BY <1>1
<1>9. Scan(t)[N] = s
  BY <1>7, <1>8
<1> QED
  BY <1>9 DEF N

\* A line whose end follows is read as what was read of it.
LEMMA EndIsRead ==
  ASSUME NEW t \in LineText, NEW s, Reached(t, s), s.res \in Running, NEW gap \in Gaps,
         s.mode \notin {ReadCommand, ReadFilename}, Occurs(t, s.pos, gap \o <<NL>>)
  PROVE  parseline(t) = [cmds |-> s.cmds, outfile |-> s.outfile, res |-> s.res]
<1> DEFINE p == s.pos + Len(gap)
           k == [pos |-> p, mode |-> s.mode, cmds |-> s.cmds, outfile |-> s.outfile, res |-> s.res]
<1>0. s \in ScanStates(t) /\ Proper(s) /\ s.pos \in Nat \ {0} /\ Len(t) \in Nat /\ Len(gap) \in Nat
  BY ReachedIs, GapIs
<1>1. Occurs(t, s.pos, gap) /\ Occurs(t, p, <<NL>>) /\ p \in Nat \ {0}
  <2>1. <<NL>> \in LineText
    BY DEF LineText
  <2>2. gap \in LineText
    BY GapIs
  <2> QED
    BY <1>0, <2>1, <2>2, OccursConcat
<1>2. p \in 1 .. Len(t) /\ At(t, p) = NL
  BY <1>1, OccursOne
<1>3. At(t, p) # " "
  BY <1>2, CharsApart, Zenon DEF Chars
<1>4. Reached(t, k)
  <2>1. CASE Len(gap) = 0
    <3>1. p = s.pos
      BY ONLY <1>0, <2>1
    <3> HIDE DEF p
    <3>2. k = s
      BY <1>0, <3>1 DEF ScanStates
    <3> QED
      BY <3>2
  <2>2. CASE Len(gap) # 0
    <3>1. 1 \in 1 .. Len(gap) /\ s.pos + 1 - 1 = s.pos /\ p \in s.pos + 1 .. Len(t) + 1
      BY ONLY <1>0, <1>2, <2>2
    <3>2. At(t, s.pos) = " "
      BY <1>1, <3>1, GapIs DEF Occurs
    <3>3. At(t, s.pos) # NL
      BY <3>2, CharsApart, Zenon DEF Chars
    <3>4. skip_whitespace(t, s.pos) = p
      BY <1>0, <1>1, <1>3, GapIsSkipped
    <3> DEFINE h == [s EXCEPT !.pos = skip_whitespace(t, @)]
    <3>5. h = [pos |-> skip_whitespace(t, s.pos), mode |-> s.mode, cmds |-> s.cmds,
               outfile |-> s.outfile, res |-> s.res]
      BY <1>0, SkippedIs
    <3>6. h = k
      BY <3>4, <3>5, Zenon
    <3>7. k.pos = p /\ k.mode = s.mode
      OBVIOUS
    <3>8. Turn(t, s) = CASE At(t, h.pos) = "|" -> Pipe(h)
                         [] At(t, h.pos) = ">" -> Redirect(h)
                         [] At(t, h.pos) = "&" -> Background(h)
                         [] At(t, h.pos) = NL -> Blanks(h)
                         [] OTHER -> Word(t, h)
      BY Zenon DEF Turn
    <3> HIDE DEF h, k, p
    <3>9. At(t, h.pos) = NL
      BY <1>2, <3>6, <3>7
    <3>10. NL \notin {"|", ">", "&"}
      BY CharsApart, Zenon DEF Chars, Operators
    <3>11. Turn(t, s) = Blanks(h)
      BY <3>8, <3>9, <3>10, Zenon
    <3>12. Turn(t, s) = k
      BY <3>6, <3>7, <3>11, Zenon DEF Blanks
    <3> QED
      BY <3>1, <3>3, <3>7, <3>12, ReachedTurn
  <2> QED
    BY <2>1, <2>2
<1>5. k.pos = p /\ k.mode = s.mode /\ k.cmds = s.cmds /\ k.outfile = s.outfile /\ k.res = s.res
  OBVIOUS
<1> HIDE DEF k, p
<1>6. Scan(t)[Len(t) + 2] = k
  BY <1>2, <1>4, <1>5, ScanStays
<1> QED
  BY <1>5, <1>6, Zenon DEF parseline

(***************************************************************************)
(* The pieces of a line of the grammar, from one position to the next.     *)
(***************************************************************************)

Spans(t, p, u, e) == p \in Nat \ {0} /\ e = p + Len(u) /\ Occurs(t, p, u)

\* Between two pieces there is a position.
LEMMA SpansConcat ==
  ASSUME NEW t \in LineText, NEW p, NEW e, NEW u \in LineText, NEW v \in LineText, Spans(t, p, u \o v, e)
  PROVE  \E m : Spans(t, p, u, m) /\ Spans(t, m, v, e)
<1> DEFINE m == p + Len(u)
<1>1. p \in Nat \ {0} /\ e = p + Len(u \o v) /\ Occurs(t, p, u \o v)
  BY DEF Spans
<1>2. /\ Occurs(t, p, u) /\ Occurs(t, m, v) /\ m \in Nat \ {0}
      /\ p + Len(u \o v) = m + Len(v)
  BY <1>1, OccursConcat
<1>3. Spans(t, p, u, m)
  BY <1>1, <1>2, Zenon DEF Spans
<1>4. Spans(t, m, v, e)
  BY <1>1, <1>2, Zenon DEF Spans
<1> QED
  BY <1>3, <1>4, Zenon

\* An empty piece ends where it begins.
LEMMA SpansNothing ==
  ASSUME NEW t \in LineText, NEW p, NEW e, Spans(t, p, <<>>, e)
  PROVE  e = p
<1>1. Len(<<>>) = 0
  OBVIOUS
<1>2. p \in Nat \ {0} /\ e = p + Len(<<>>)
  BY DEF Spans
<1> QED
  BY ONLY <1>1, <1>2

\* Where a word without a quote may end.
LEMMA StopsThere ==
  ASSUME NEW t \in LineText, NEW p, NEW e, NEW gap \in Gaps, NEW c \in {"|", ">", NL},
         Spans(t, p, gap \o <<c>>, e)
  PROVE  At(t, p) \in WordStops(Nul)
<1>1. c \in Chars \cup {NL}
  BY Zenon DEF Chars, Operators
<1>2. At(t, p) \in {" ", c}
  BY <1>1, FirstOfGap DEF Spans
<1> QED
  BY <1>2, StopsAre, Zenon

\* The same as WordIsTaken, from one position to the next.
LEMMA WordFollows ==
  ASSUME NEW t \in LineText, NEW s, Reached(t, s), s.res \in Running, s.mode < ReadAmpersand,
         NEW gap \in Gaps, NEW w \in Words, NEW q \in Quotes \cup {Nul}, Writable(w, q),
         NEW e, Spans(t, s.pos, gap \o Written(w, q), e), At(t, e) \in WordStops(Nul),
         NEW n, StoredAs(s, w, e, n)
  PROVE  Reached(t, n)
<1> DEFINE u == Written(w, q)
<1>1. /\ Occurs(t, s.pos, gap \o u) /\ s.pos \in Nat \ {0} /\ e = s.pos + Len(gap \o u)
  BY DEF Spans
<1>2. gap \in LineText /\ u \in LineText
  BY GapIs, WrittenIs
<1>3. s.pos + Len(gap \o u) = s.pos + Len(gap) + Len(u)
  <2> HIDE DEF u
  <2> QED
    BY <1>1, <1>2, OccursConcat
<1> QED
  BY <1>1, <1>3, WordIsTaken

\* The same as OperatorIsTaken, from one position to the next.
LEMMA OperatorFollows ==
  ASSUME NEW t \in LineText, NEW s, Reached(t, s), s.res \in Running, NEW gap \in Gaps,
         NEW c \in Operators, NEW e, Spans(t, s.pos, gap \o <<c>>, e)
  PROVE  /\ c = "|" /\ s.mode = ReadArguments =>
              Reached(t, [pos |-> e, mode |-> ReadCommand, cmds |-> s.cmds, outfile |-> s.outfile, res |-> s.res])
         /\ c = ">" /\ s.mode = ReadArguments =>
              Reached(t, [pos |-> e, mode |-> ReadFilename, cmds |-> s.cmds, outfile |-> s.outfile, res |-> s.res])
         /\ c = "&" /\ s.mode \in {ReadArguments, ReadAmpersand} =>
              Reached(t, [pos |-> e, mode |-> ReadNewline, cmds |-> s.cmds, outfile |-> s.outfile, res |-> "BG"])
<1> DEFINE p == s.pos + Len(gap)
<1>1. Occurs(t, s.pos, gap \o <<c>>) /\ s.pos \in Nat \ {0} /\ e = s.pos + Len(gap \o <<c>>)
  BY DEF Spans
<1>2. gap \in LineText /\ <<c>> \in LineText
  <2>1. c \in Chars \cup {NL}
    BY DEF Chars
  <2>2. <<c>> \in LineText
    BY <2>1 DEF LineText
  <2> QED
    BY <2>2, GapIs
<1>3. Occurs(t, p, <<c>>) /\ p \in Nat \ {0} /\ s.pos + Len(gap \o <<c>>) = p + Len(<<c>>)
  BY <1>1, <1>2, OccursConcat
<1>4. At(t, p) = c
  BY <1>3, OccursOne
<1>5. e = p + 1
  <2>1. Len(<<c>>) = 1
    OBVIOUS
  <2> QED
    BY <1>1, <1>3, <2>1, Zenon
<1>6. \A n : TakesOperator(t, s, p, n) => Reached(t, n)
  BY <1>1, OperatorIsTaken
<1> HIDE DEF p
<1> QED
  BY <1>4, <1>5, <1>6, Zenon DEF TakesOperator

(***************************************************************************)
(* Words one after the other, and commands.                                *)
(***************************************************************************)

\* What the members of q stand for, with a separator between them.
Chained(q, f, sep) == Joined(Mapped(q, f), sep)

\* Texts are joined to a text.
LEMMA JoinedIsText ==
  ASSUME NEW parts \in Seq(LineText), NEW sep \in LineText
  PROVE  Joined(parts, sep) \in LineText
<1>1. <<>> \in Seq(Chars \cup {NL})
  BY EmptySeq
<1> QED
  BY <1>1, JoinedAppend DEF LineText

\* One more of them.
LEMMA ChainedAppend ==
  ASSUME NEW A, NEW f \in Maps(A, LineText), NEW sep \in LineText, NEW q \in Seq(A), NEW x \in A
  PROVE  /\ Chained(q, f, sep) \in LineText /\ f[x] \in LineText
         /\ Chained(Append(q, x), f, sep) = (Chained(q, f, sep) \o Before(q, sep)) \o f[x]
<1> DEFINE m == Mapped(q, f)
           y == f[x]
<1>1. m \in Seq(LineText) /\ (m = <<>> <=> q = <<>>)
  BY MappedIs
<1>2. y \in LineText
  BY DEF Maps
<1>3. Mapped(Append(q, x), f) = Append(m, y)
  BY MappedAppend
<1> HIDE DEF m, y
<1>4. /\ Joined(m, sep) \in LineText
      /\ Joined(Append(m, y), sep) = (Joined(m, sep) \o Before(m, sep)) \o y
  BY <1>1, <1>2, JoinedAppend DEF LineText
<1>5. Before(m, sep) = Before(q, sep)
  BY <1>1, Zenon DEF Before
<1> QED
  BY <1>2, <1>3, <1>4, <1>5, Zenon DEF Chained, m, y

\* The same for the beginning of a sequence up to k.
Grows(A, f, sep, q, k) ==
  LET a == SubSeq(q, 1, k - 1)
      b == SubSeq(q, 1, k)
  IN  /\ a \in Seq(A) /\ b \in Seq(A) /\ b = Append(a, q[k]) /\ q[k] \in A /\ f[q[k]] \in LineText
      /\ Chained(a, f, sep) \in LineText
      /\ k = 1 => a = <<>> /\ Chained(b, f, sep) = f[q[k]]
      /\ k # 1 => a # <<>> /\ Chained(b, f, sep) = (Chained(a, f, sep) \o sep) \o f[q[k]]

\* Each begins with those before it, and with nothing.
LEMMA ChainedPrefix ==
  ASSUME NEW A, NEW f \in Maps(A, LineText), NEW sep \in LineText, NEW q \in Seq(A), NEW k \in 1 .. Len(q)
  PROVE  Grows(A, f, sep, q, k)
<1> DEFINE a == SubSeq(q, 1, k - 1)
           b == SubSeq(q, 1, k)
<1>1. Len(q) \in Nat /\ k \in Nat /\ k - 1 \in Nat /\ k - 1 <= Len(q) /\ k <= Len(q)
  OBVIOUS
<1>2. a \in Seq(A) /\ Len(a) = k - 1 /\ b \in Seq(A)
  BY <1>1, PrefixIs
<1>3. b = Append(a, q[k])
  BY PrefixAppend
<1>4. q[k] \in A
  BY ElementOfSeq
<1> HIDE DEF a, b
<1>5. /\ Chained(a, f, sep) \in LineText /\ f[q[k]] \in LineText
      /\ Chained(b, f, sep) = (Chained(a, f, sep) \o Before(a, sep)) \o f[q[k]]
  BY <1>2, <1>3, <1>4, ChainedAppend
<1>6. CASE k = 1
  <2>1. a = <<>>
    BY <1>2, <1>6, EmptySeq
  <2>2. Before(a, sep) = <<>>
    BY <2>1, Zenon DEF Before
  <2>3. Chained(a, f, sep) = <<>>
    <3>1. <<>> \in Seq(A)
      BY EmptySeq
    <3>2. Mapped(<<>>, f) = <<>>
      BY <3>1, MappedIs
    <3>3. Joined(<<>>, sep) = <<>>
      <4>1. sep \in Seq(Chars \cup {NL})
        BY DEF LineText
      <4> QED
        BY <4>1, JoinedEmpty
    <3> QED
      BY <2>1, <3>2, <3>3, Zenon DEF Chained
  <2>4. Chained(b, f, sep) = f[q[k]]
    <3> DEFINE x == f[q[k]]
    <3>1. x \in LineText /\ Chained(b, f, sep) = (<<>> \o <<>>) \o x
      BY <1>5, <2>2, <2>3
    <3> HIDE DEF x
    <3>2. x \in Seq(Chars \cup {NL})
      BY <3>1 DEF LineText
    <3>3. <<>> \in Seq(Chars \cup {NL}) /\ <<>> \o <<>> = <<>>
      BY EmptySeq, ConcatEmptySeq
    <3>4. <<>> \o x = x
      BY <3>2, ConcatEmptySeq
    <3> QED
      BY <3>1, <3>3, <3>4 DEF x
  <2> QED
    BY <1>2, <1>3, <1>4, <1>5, <1>6, <2>1, <2>4, Zenon DEF a, b, Grows
<1>7. CASE k # 1
  <2>1. a # <<>>
    BY <1>1, <1>2, <1>7, EmptySeq
  <2>2. Before(a, sep) = sep
    BY <2>1, Zenon DEF Before
  <2> QED
    BY <1>2, <1>3, <1>4, <1>5, <1>7, <2>1, <2>2, Zenon DEF a, b, Grows
<1> QED
  BY <1>6, <1>7

\* Ways to write words.
Spells(W, quote) ==
  /\ W \in SUBSET Words /\ quote \in Maps(W, Quotes \cup {Nul})
  /\ \A w \in W : Writable(w, quote[w])

Spelled(W, quote) == [w \in W |-> Written(w, quote[w])]

\* Each word is spelled as a text.
LEMMA SpelledIs ==
  ASSUME NEW W, NEW quote, Spells(W, quote)
  PROVE  /\ Spelled(W, quote) \in Maps(W, LineText)
         /\ \A w \in W : /\ w \in Words /\ quote[w] \in Quotes \cup {Nul} /\ Writable(w, quote[w])
                         /\ Spelled(W, quote)[w] = Written(w, quote[w])
<1>1. \A w \in W : w \in Words /\ quote[w] \in Quotes \cup {Nul} /\ Writable(w, quote[w])
  BY DEF Spells, Maps
<1>2. \A w \in W : Written(w, quote[w]) \in LineText
  BY <1>1, WrittenIs
<1> QED
  BY <1>1, <1>2, Zenon DEF Spelled, Maps

\* A command is written as its words are spelled.
LEMMA ArgvIs ==
  ASSUME NEW W, NEW quote, Spells(W, quote), NEW argv \in Seq(W)
  PROVE  Argv(argv, quote) = Chained(argv, Spelled(W, quote), <<" ">>)
<1>1. DOMAIN argv = 1 .. Len(argv)
  OBVIOUS
<1>2. \A i \in DOMAIN argv : Written(argv[i], quote[argv[i]]) = Spelled(W, quote)[argv[i]]
  BY <1>1, SpelledIs, ElementOfSeq
<1>3. [i \in DOMAIN argv |-> Written(argv[i], quote[argv[i]])] = Mapped(argv, Spelled(W, quote))
  BY <1>2 DEF Mapped
<1> QED
  BY <1>3, Zenon DEF Argv, Chained

\* A state of the scan in a line that has no file name yet.
InLine(p, mode, cmds) ==
  [pos |-> p, mode |-> mode, cmds |-> cmds, outfile |-> <<>>, res |-> "FG"]

\* A word of a command.
LEMMA ArgumentFollows ==
  ASSUME NEW t \in LineText, NEW W, NEW quote, Spells(W, quote), NEW w \in W,
         NEW gap \in Gaps, NEW front \in Seq(Vectors), NEW argv \in Seq(W),
         NEW p, NEW e, Spans(t, p, gap \o Spelled(W, quote)[w], e), At(t, e) \in WordStops(Nul),
         \/ argv = <<>> /\ Reached(t, InLine(p, ReadCommand, front))
         \/ argv # <<>> /\ Reached(t, InLine(p, ReadArguments, Append(front, argv)))
  PROVE  Reached(t, InLine(e, ReadArguments, Append(front, Append(argv, w))))
<1>1. /\ w \in Words /\ quote[w] \in Quotes \cup {Nul} /\ Writable(w, quote[w])
      /\ Spelled(W, quote)[w] = Written(w, quote[w])
  BY SpelledIs
<1>2. \A mode, cmds : /\ InLine(p, mode, cmds).pos = p /\ InLine(p, mode, cmds).mode = mode
                      /\ InLine(p, mode, cmds).cmds = cmds /\ InLine(p, mode, cmds).outfile = <<>>
                      /\ InLine(p, mode, cmds).res = "FG"
  BY DEF InLine
<1>3. "FG" \in Running
  BY DEF Running
<1>4. ReadCommand < ReadAmpersand /\ ReadArguments < ReadAmpersand
  BY DEF ReadCommand, ReadArguments, ReadAmpersand
<1>5. ASSUME NEW s, NEW n, s.pos = p, s.res = "FG", s.mode \in {ReadCommand, ReadArguments},
             Reached(t, s), StoredAs(s, w, e, n)
      PROVE  Reached(t, n)
  <2>1. s.res \in Running /\ s.mode < ReadAmpersand
    BY <1>3, <1>4, <1>5
  <2>2. Spans(t, s.pos, gap \o Written(w, quote[w]), e)
    BY <1>1, <1>5
  <2> QED
    BY <1>1, <1>5, <2>1, <2>2, WordFollows
<1>6. CASE argv = <<>> /\ Reached(t, InLine(p, ReadCommand, front))
  <2> DEFINE s == InLine(p, ReadCommand, front)
             n == InLine(e, ReadArguments, Append(front, <<w>>))
  <2>1. StoredAs(s, w, e, n)
    BY <1>2, Zenon DEF StoredAs, InLine
  <2>2. Append(argv, w) = <<w>>
    BY <1>6
  <2>3. Reached(t, n)
    <3>1. s.pos = p /\ s.res = "FG" /\ s.mode \in {ReadCommand, ReadArguments}
      BY <1>2
    <3> HIDE DEF s, n
    <3>2. Reached(t, s)
      BY <1>6 DEF s
    <3> QED
      BY <1>5, <2>1, <3>1, <3>2
  <2> QED
    BY <2>2, <2>3
<1>7. CASE argv # <<>> /\ Reached(t, InLine(p, ReadArguments, Append(front, argv)))
  <2> DEFINE cmds == Append(front, argv)
             s == InLine(p, ReadArguments, cmds)
             more == [cmds EXCEPT ![Len(cmds)] = Append(@, w)]
             n == InLine(e, ReadArguments, more)
  <2>1. argv \in Vectors
    <3>1. argv \in Seq(Words)
      BY SeqMonotonic DEF Spells
    <3> QED
      BY <1>7, <3>1 DEF Vectors
  <2>2. /\ cmds \in Seq(Vectors) /\ Len(cmds) = Len(front) + 1 /\ cmds[Len(cmds)] = argv /\ cmds # <<>>
        /\ Len(front) \in Nat
        /\ \A i \in 1 .. Len(front) : cmds[i] = front[i]
    BY <2>1, AppendProperties
  <2>3. SubSeq(cmds, 1, Len(cmds) - 1) = front
    <3> DEFINE b == SubSeq(cmds, 1, Len(cmds) - 1)
    <3>1. Len(cmds) - 1 \in Nat /\ Len(cmds) - 1 <= Len(cmds) /\ Len(cmds) - 1 = Len(front)
      BY <2>2
    <3> HIDE DEF cmds
    <3>2. b \in Seq(Vectors) /\ Len(b) = Len(cmds) - 1 /\ \A i \in 1 .. Len(cmds) - 1 : b[i] = cmds[i]
      BY <2>2, <3>1, PrefixIs
    <3> HIDE DEF b
    <3>3. Len(b) = Len(front) /\ \A i \in 1 .. Len(b) : b[i] = front[i]
      BY <2>2, <3>1, <3>2
    <3>4. b = front
      BY <3>2, <3>3, SeqEqual
    <3> QED
      BY <3>4 DEF b
  <2>4. more = Append(front, Append(argv, w))
    <3> HIDE DEF cmds
    <3> QED
      BY <1>1, <2>2, <2>3, LastVector
  <2>5. StoredAs(s, w, e, n)
    <3> HIDE DEF cmds
    <3> QED
      BY <1>2, Zenon DEF StoredAs, InLine
  <2>6. Reached(t, n)
    <3>1. s.pos = p /\ s.res = "FG" /\ s.mode \in {ReadCommand, ReadArguments}
      BY <1>2
    <3> HIDE DEF s, n
    <3>2. Reached(t, s)
      BY <1>7 DEF s
    <3> QED
      BY <1>5, <2>5, <3>1, <3>2
  <2> HIDE DEF more
  <2> QED
    BY <2>4, <2>6
<1> QED
  BY <1>6, <1>7

\* A blank ends a word.
LEMMA BlankEnds ==
  /\ " " \in WordStops(Nul)
  /\ <<" ">> \in Gaps /\ <<" ">> \in LineText
<1>1. " " \in WordStops(Nul)
  BY StopsAre, Zenon
<1>2. <<" ">> \in Gaps
  BY DEF Gaps
<1>3. <<" ">> \in LineText
  BY <1>2, GapIs
<1> QED
  BY <1>1, <1>2, <1>3

FourTexts(a, b, c, d) == a \in LineText /\ b \in LineText /\ c \in LineText /\ d \in LineText

\* Pieces can be taken together in another way.
LEMMA Regrouped ==
  ASSUME NEW a, NEW b, NEW c, NEW d, FourTexts(a, b, c, d)
  PROVE  a \o ((b \o c) \o d) = (a \o b) \o (c \o d)
<1> DEFINE C == Chars \cup {NL}
<1>0. a \in Seq(C) /\ b \in Seq(C) /\ c \in Seq(C) /\ d \in Seq(C)
  BY DEF LineText, FourTexts
<1> HIDE DEF C
<1>1. a \o b \in Seq(C) /\ c \o d \in Seq(C) /\ b \o c \in Seq(C)
  BY <1>0, ConcatProperties
<1>3. (b \o c) \o d = b \o (c \o d)
  BY <1>0, ConcatAssociative
<1>4. a \o (b \o (c \o d)) = (a \o b) \o (c \o d)
  <2> DEFINE cd == c \o d
  <2>1. cd \in Seq(C)
    BY <1>1
  <2>2. a \in Seq(C) /\ b \in Seq(C)
    BY <1>0
  <2> HIDE DEF cd
  <2>3. a \o (b \o cd) = (a \o b) \o cd
    BY ONLY <2>1, <2>2, ConcatAssociative
  <2> QED
    BY <2>3 DEF cd
<1> QED
  BY <1>3, <1>4

\* Two texts make a text.
LEMMA TextsJoin ==
  ASSUME NEW a \in LineText, NEW b \in LineText
  PROVE  a \o b \in LineText
  BY ConcatProperties DEF LineText

\* The first of a piece stands where the piece begins.
LEMMA FirstStands ==
  ASSUME NEW t \in LineText, NEW p, NEW e, NEW c, <<c>> \in LineText, NEW x \in LineText, Spans(t, p, <<c>> \o x, e)
  PROVE  At(t, p) = c
<1> DEFINE u == <<c>>
<1>1. u \in LineText /\ Spans(t, p, u \o x, e)
  OBVIOUS
<1> HIDE DEF u
<1>2. PICK m : Spans(t, p, u, m)
  BY <1>1, SpansConcat
<1>3. p \in Nat \ {0} /\ Occurs(t, p, <<c>>)
  BY <1>2, Zenon DEF Spans, u
<1> QED
  BY <1>3, OccursOne

\* The beginning of a sequence up to its length is all of it.
LEMMA WholeIs ==
  ASSUME NEW A, NEW q \in Seq(A)
  PROVE  SubSeq(q, 1, Len(q)) = q
<1> DEFINE b == SubSeq(q, 1, Len(q))
<1>1. Len(q) \in Nat /\ Len(q) <= Len(q)
  OBVIOUS
<1>2. b \in Seq(A) /\ Len(b) = Len(q) /\ \A j \in 1 .. Len(q) : b[j] = q[j]
  BY <1>1, PrefixIs
<1> HIDE DEF b
<1>3. b = q
  BY <1>2, SeqEqual
<1> QED
  BY <1>3 DEF b

\* A command and its arguments.
LEMMA ArgvIsRead ==
  ASSUME NEW t \in LineText, NEW W, NEW quote, Spells(W, quote), NEW gap \in Gaps,
         NEW front \in Seq(Vectors), NEW argv \in Seq(W), argv # <<>>,
         NEW p, NEW e, Spans(t, p, gap \o Argv(argv, quote), e), At(t, e) \in WordStops(Nul),
         Reached(t, InLine(p, ReadCommand, front))
  PROVE  Reached(t, InLine(e, ReadArguments, Append(front, argv)))
<1> DEFINE sep == <<" ">>
           N == Len(argv)
           f == Spelled(W, quote)
           A(k) == Chained(SubSeq(argv, 1, k), f, sep)
           Read(k) ==
             \A z : Spans(t, p, gap \o A(k), z) /\ At(t, z) \in WordStops(Nul)
                      => Reached(t, InLine(z, ReadArguments, Append(front, SubSeq(argv, 1, k))))
           S == {k \in 0 .. N : k # 0 => Read(k)}
<1>0. sep \in Gaps /\ sep \in LineText
  BY BlankEnds
<1>1. \A m, z : \A x \in LineText : Spans(t, m, sep \o x, z) => At(t, m) \in WordStops(Nul)
  BY BlankEnds, FirstStands
<1>2. N \in Nat /\ N # 0
  BY EmptySeq
<1>3. f \in Maps(W, LineText)
  BY SpelledIs
<1>4. 0 \in S
  <2>1. 0 \in 0 .. N
    BY <1>2
  <2> HIDE DEF Read
  <2> QED
    BY <2>1, Zenon
<1>5. ASSUME NEW k \in 1 .. N, k - 1 \in S
      PROVE  k \in S
  <2> DEFINE a == SubSeq(argv, 1, k - 1)
             x == f[argv[k]]
  <2> HIDE DEF f, a
  <2>1. /\ a \in Seq(W) /\ SubSeq(argv, 1, k) = Append(a, argv[k]) /\ argv[k] \in W /\ x \in LineText
        /\ Chained(a, f, sep) \in LineText
        /\ k = 1 => a = <<>> /\ A(k) = x
        /\ k # 1 => a # <<>> /\ A(k) = (Chained(a, f, sep) \o sep) \o x
    <3> HIDE DEF sep, N, A
    <3>1. argv \in Seq(W) /\ k \in 1 .. Len(argv) /\ f \in Maps(W, LineText) /\ sep \in LineText
      BY <1>0, <1>3 DEF N
    <3>2. Grows(W, f, sep, argv, k)
      BY ONLY <3>1, ChainedPrefix
    <3> QED
      BY <3>2, Zenon DEF a, A, Grows
  <2>2. ASSUME NEW z, Spans(t, p, gap \o A(k), z), At(t, z) \in WordStops(Nul)
        PROVE  Reached(t, InLine(z, ReadArguments, Append(front, SubSeq(argv, 1, k))))
    <3>1. CASE k = 1
      <4>1. a = <<>> /\ Spans(t, p, gap \o f[argv[k]], z)
        BY <2>1, <2>2, <3>1
      <4> HIDE DEF A
      <4>2. Reached(t, InLine(z, ReadArguments, Append(front, Append(a, argv[k]))))
        BY <2>1, <2>2, <4>1, ArgumentFollows DEF f
      <4> QED
        BY <2>1, <4>2
    <3>2. CASE k # 1
      <4> DEFINE b == Chained(a, f, sep)
      <4>1. a # <<>> /\ A(k) = (b \o sep) \o x /\ b \in LineText /\ gap \in LineText
        BY <2>1, <3>2, GapIs
      <4> HIDE DEF b, x, A, sep
      <4>2. gap \in LineText /\ b \in LineText /\ sep \in LineText /\ x \in LineText
        BY <1>0, <2>1, <4>1
      <4>3. gap \o A(k) = (gap \o b) \o (sep \o x) /\ gap \o b \in LineText /\ sep \o x \in LineText
        <5>1. gap \o ((b \o sep) \o x) = (gap \o b) \o (sep \o x)
          <6>1. FourTexts(gap, b, sep, x)
            BY <4>2 DEF FourTexts
          <6> QED
            BY <6>1, Regrouped
        <5>2. gap \o b \in LineText /\ sep \o x \in LineText
          BY <4>2, TextsJoin
        <5> QED
          BY <4>1, <5>1, <5>2, Zenon
      <4>4. PICK m : Spans(t, p, gap \o b, m) /\ Spans(t, m, sep \o x, z)
        BY <2>2, <4>3, SpansConcat
      <4>5. At(t, m) \in WordStops(Nul)
        BY <1>1, <2>1, <4>4
      <4>6. Read(k - 1)
        <5>1. k - 1 # 0
          BY <1>2, <3>2
        <5> HIDE DEF Read
        <5> QED
          BY <1>5, <5>1
      <4>7. Reached(t, InLine(m, ReadArguments, Append(front, a)))
        <5>1. b = A(k - 1)
          BY DEF A, a, b
        <5> QED
          BY <1>0, <4>4, <4>5, <4>6, <5>1 DEF a
      <4>8. Reached(t, InLine(z, ReadArguments, Append(front, Append(a, argv[k]))))
        BY <1>0, <2>1, <2>2, <4>1, <4>4, <4>7, ArgumentFollows DEF f, x
      <4> QED
        BY <2>1, <4>8
    <3> QED
      BY <3>1, <3>2
  <2>3. Read(k)
    BY <2>2
  <2>4. k \in 0 .. N
    BY <1>2
  <2> HIDE DEF Read
  <2> QED
    BY <2>3, <2>4
<1>6. N \in S
  <2>1. N \in 0 .. N
    BY <1>2
  <2> HIDE DEF S, N
  <2> QED
    BY <1>2, <1>4, <1>5, <2>1, UpTo
<1>7. Read(N)
  <2> HIDE DEF Read
  <2> QED
    BY <1>2, <1>6
<1>8. SubSeq(argv, 1, N) = argv
  BY WholeIs
<1>9. Argv(argv, quote) = A(N)
  <2> HIDE DEF f, N
  <2> QED
    BY <1>8, ArgvIs, Zenon DEF f
<1> QED
  BY <1>7, <1>8, <1>9

\* The same for three pieces.
LEMMA ThreeRegrouped ==
  ASSUME NEW a \in LineText, NEW b \in LineText, NEW c \in LineText
  PROVE  (a \o b) \o c = a \o (b \o c)
  BY ConcatAssociative DEF LineText

\* A bar between two commands, with gaps around it.
LEMMA BarFollows ==
  ASSUME NEW t \in LineText, NEW gap \in Gaps, NEW c \in {"|", ">"}, NEW x \in LineText, NEW m, NEW z,
         Spans(t, m, ((gap \o <<c>>) \o gap) \o x, z)
  PROVE  /\ At(t, m) \in WordStops(Nul)
         /\ \E k : Spans(t, m, gap \o <<c>>, k) /\ Spans(t, k, gap \o x, z)
<1> DEFINE u == gap \o <<c>>
<1>1. u \in LineText /\ gap \in LineText
  <2>1. gap \in LineText
    BY GapIs
  <2>2. c \in Chars \cup {NL}
    BY Zenon DEF Chars, Operators
  <2>3. <<c>> \in LineText
    BY <2>2 DEF LineText
  <2> QED
    BY <2>1, <2>3, TextsJoin
<1>2. PICK k : Spans(t, m, u, k) /\ Spans(t, k, gap \o x, z)
  <2> HIDE DEF u
  <2>1. (u \o gap) \o x = u \o (gap \o x)
    BY <1>1, ThreeRegrouped
  <2>2. gap \o x \in LineText
    BY <1>1, TextsJoin
  <2>3. Spans(t, m, u \o (gap \o x), z)
    BY <2>1 DEF u
  <2> QED
    BY <1>1, <2>2, <2>3, SpansConcat
<1>3. At(t, m) \in WordStops(Nul)
  BY <1>2, StopsThere
<1> QED
  BY <1>2, <1>3

\* Commands, by the ways to write their words.
ArgvsOf(W) == Seq(W) \ {<<>>}

SpelledArgv(W, quote) == [argv \in ArgvsOf(W) |-> Argv(argv, quote)]

\* Each command is written as a text.
LEMMA SpelledArgvIs ==
  ASSUME NEW W, NEW quote, Spells(W, quote)
  PROVE  /\ SpelledArgv(W, quote) \in Maps(ArgvsOf(W), LineText)
         /\ \A argv \in ArgvsOf(W) : SpelledArgv(W, quote)[argv] = Argv(argv, quote) /\ argv \in Vectors
<1>1. ASSUME NEW argv \in ArgvsOf(W)
      PROVE  Argv(argv, quote) \in LineText /\ argv \in Vectors
  <2>1. argv \in Seq(W) /\ argv # <<>>
    BY DEF ArgvsOf
  <2>2. Argv(argv, quote) = Chained(argv, Spelled(W, quote), <<" ">>)
    BY <2>1, ArgvIs
  <2>3. Mapped(argv, Spelled(W, quote)) \in Seq(LineText)
    BY <2>1, SpelledIs, MappedIs
  <2>4. Chained(argv, Spelled(W, quote), <<" ">>) \in LineText
    <3> DEFINE a == Mapped(argv, Spelled(W, quote))
               sep == <<" ">>
    <3>1. a \in Seq(LineText) /\ sep \in LineText
      BY <2>3, BlankEnds
    <3> HIDE DEF a, sep
    <3>2. Joined(a, sep) \in LineText
      BY <3>1, JoinedIsText
    <3> QED
      BY <3>2, Zenon DEF Chained, a, sep
  <2>5. argv \in Vectors
    <3>1. argv \in Seq(Words)
      BY <2>1, SeqMonotonic DEF Spells
    <3> QED
      BY <2>1, <3>1 DEF Vectors
  <2> QED
    BY <2>2, <2>4, <2>5
<1> QED
  BY <1>1, Zenon DEF SpelledArgv, Maps

\* The commands of a line.
LEMMA CommandsAreRead ==
  ASSUME NEW t \in LineText, NEW W, NEW quote, Spells(W, quote), NEW gap \in Gaps,
         NEW cmds \in Seq(ArgvsOf(W)), cmds # <<>>, NEW e,
         Spans(t, 1, gap \o Chained(cmds, SpelledArgv(W, quote), (gap \o <<"|">>) \o gap), e),
         At(t, e) \in WordStops(Nul)
  PROVE  Reached(t, InLine(e, ReadArguments, cmds))
<1> DEFINE bar == (gap \o <<"|">>) \o gap
           N == Len(cmds)
           f == SpelledArgv(W, quote)
           A(k) == Chained(SubSeq(cmds, 1, k), f, bar)
           Read(k) ==
             \A z : Spans(t, 1, gap \o A(k), z) /\ At(t, z) \in WordStops(Nul)
                      => Reached(t, InLine(z, ReadArguments, SubSeq(cmds, 1, k)))
           S == {k \in 0 .. N : k # 0 => Read(k)}
<1>0. bar \in LineText /\ gap \in LineText
  <2>1. <<"|">> \in LineText
    <3>1. "|" \in Chars \cup {NL}
      BY Zenon DEF Chars, Operators
    <3> QED
      BY <3>1 DEF LineText
  <2>2. gap \in LineText
    BY GapIs
  <2> QED
    BY <2>1, <2>2, TextsJoin
<1>1. ASSUME NEW x \in LineText, NEW m, NEW z, Spans(t, m, bar \o x, z)
      PROVE  /\ At(t, m) \in WordStops(Nul)
             /\ \A prev : Reached(t, InLine(m, ReadArguments, prev)) =>
                  \E k : Reached(t, InLine(k, ReadCommand, prev)) /\ Spans(t, k, gap \o x, z)
  <2>1. "|" \in {"|", ">"} /\ "|" \in Operators
    BY Zenon DEF Operators
  <2>2. PICK k : At(t, m) \in WordStops(Nul) /\ Spans(t, m, gap \o <<"|">>, k) /\ Spans(t, k, gap \o x, z)
    BY <1>1, <2>1, BarFollows
  <2>3. ASSUME NEW prev, Reached(t, InLine(m, ReadArguments, prev))
        PROVE  Reached(t, InLine(k, ReadCommand, prev))
    <3> DEFINE s == InLine(m, ReadArguments, prev)
    <3>1. s.pos = m /\ s.mode = ReadArguments /\ s.cmds = prev /\ s.outfile = <<>> /\ s.res = "FG"
      BY DEF InLine
    <3>2. s.res \in Running
      BY <3>1 DEF Running
    <3>3. Reached(t, s)
      BY <2>3
    <3> HIDE DEF s
    <3>4. Spans(t, s.pos, gap \o <<"|">>, k)
      BY <2>2, <3>1, Zenon
    <3>5. Reached(t, [pos |-> k, mode |-> ReadCommand, cmds |-> s.cmds, outfile |-> s.outfile, res |-> s.res])
      BY <2>1, <3>1, <3>2, <3>3, <3>4, OperatorFollows
    <3> QED
      BY <3>1, <3>5, Zenon DEF InLine
  <2> QED
    BY <2>2, <2>3
<1>2. N \in Nat /\ N # 0
  BY EmptySeq
<1>3. f \in Maps(ArgvsOf(W), LineText)
  BY SpelledArgvIs
<1>4. 0 \in S
  <2>1. 0 \in 0 .. N
    BY <1>2
  <2> HIDE DEF Read
  <2> QED
    BY <2>1, Zenon
<1>5. Reached(t, InLine(1, ReadCommand, <<>>))
  <2>1. Scan(t)[0] = Start /\ Len(t) \in Nat
    BY ScanIs, AtIs
  <2>2. Start = InLine(1, ReadCommand, <<>>) /\ Start.pos = 1
    BY Zenon DEF Start, InLine
  <2>3. 0 \in 0 .. Len(t) + 2 /\ 0 < 1
    BY <2>1
  <2> QED
    BY <2>1, <2>2, <2>3, Zenon DEF Reached
<1> HIDE DEF bar
<1>6. ASSUME NEW k \in 1 .. N, k - 1 \in S
      PROVE  k \in S
  <2> DEFINE a == SubSeq(cmds, 1, k - 1)
             argv == cmds[k]
             x == f[argv]
  <2> HIDE DEF f, a
  <2>1. /\ a \in Seq(ArgvsOf(W)) /\ SubSeq(cmds, 1, k) = Append(a, argv) /\ argv \in ArgvsOf(W) /\ x \in LineText
        /\ Chained(a, f, bar) \in LineText
        /\ k = 1 => a = <<>> /\ A(k) = x
        /\ k # 1 => a # <<>> /\ A(k) = (Chained(a, f, bar) \o bar) \o x
    <3> HIDE DEF N, A
    <3>1. cmds \in Seq(ArgvsOf(W)) /\ k \in 1 .. Len(cmds) /\ f \in Maps(ArgvsOf(W), LineText) /\ bar \in LineText
      BY <1>0, <1>3 DEF N
    <3>2. Grows(ArgvsOf(W), f, bar, cmds, k)
      BY ONLY <3>1, ChainedPrefix
    <3> QED
      BY <3>2, Zenon DEF a, A, Grows
  <2>2. x = Argv(argv, quote) /\ argv \in Seq(W) /\ argv # <<>> /\ a \in Seq(Vectors)
    <3>1. ArgvsOf(W) \subseteq Vectors
      BY SpelledArgvIs
    <3>2. a \in Seq(Vectors)
      BY <2>1, <3>1, SeqMonotonic
    <3>3. argv \in Seq(W) /\ argv # <<>>
      BY <2>1 DEF ArgvsOf
    <3> QED
      BY <2>1, <3>2, <3>3, SpelledArgvIs DEF f
  <2> HIDE DEF argv, x
  <2>3. ASSUME NEW z, NEW p, Spans(t, p, gap \o x, z), At(t, z) \in WordStops(Nul),
               Reached(t, InLine(p, ReadCommand, a))
        PROVE  Reached(t, InLine(z, ReadArguments, SubSeq(cmds, 1, k)))
    <3>1. Spans(t, p, gap \o Argv(argv, quote), z)
      BY <2>2, <2>3
    <3>2. Reached(t, InLine(z, ReadArguments, Append(a, argv)))
      BY <2>2, <2>3, <3>1, ArgvIsRead
    <3> QED
      BY <2>1, <3>2
  <2>4. ASSUME NEW z, Spans(t, 1, gap \o A(k), z), At(t, z) \in WordStops(Nul)
        PROVE  Reached(t, InLine(z, ReadArguments, SubSeq(cmds, 1, k)))
    <3>1. CASE k = 1
      <4> HIDE DEF A
      <4>1. Spans(t, 1, gap \o x, z) /\ Reached(t, InLine(1, ReadCommand, a))
        BY <1>5, <2>1, <2>4, <3>1
      <4> QED
        BY <2>3, <2>4, <4>1
    <3>2. CASE k # 1
      <4> DEFINE b == Chained(a, f, bar)
      <4>1. a # <<>> /\ A(k) = (b \o bar) \o x /\ b \in LineText
        BY <2>1, <3>2
      <4>2. b = A(k - 1)
        BY DEF A, a, b
      <4>3. Read(k - 1)
        <5>1. k - 1 # 0
          BY <1>2, <3>2
        <5> HIDE DEF Read
        <5> QED
          BY <1>6, <5>1
      <4> HIDE DEF b, A
      <4>4. gap \o A(k) = (gap \o b) \o (bar \o x) /\ gap \o b \in LineText /\ bar \o x \in LineText
        <5>1. FourTexts(gap, b, bar, x)
          BY <1>0, <2>1, <4>1 DEF FourTexts
        <5>2. gap \o ((b \o bar) \o x) = (gap \o b) \o (bar \o x)
          BY <5>1, Regrouped
        <5>3. gap \o b \in LineText /\ bar \o x \in LineText
          BY <1>0, <2>1, <4>1, TextsJoin
        <5> QED
          BY <4>1, <5>2, <5>3, Zenon
      <4>5. PICK m : Spans(t, 1, gap \o b, m) /\ Spans(t, m, bar \o x, z)
        BY <2>4, <4>4, SpansConcat
      <4>6. At(t, m) \in WordStops(Nul)
        BY <1>1, <2>1, <4>5
      <4>7. Reached(t, InLine(m, ReadArguments, a))
        BY <4>2, <4>3, <4>5, <4>6 DEF a
      <4>8. PICK p : Reached(t, InLine(p, ReadCommand, a)) /\ Spans(t, p, gap \o x, z)
        BY <1>1, <2>1, <4>5, <4>7
      <4> QED
        BY <2>3, <2>4, <4>8
    <3> QED
      BY <3>1, <3>2
  <2>5. Read(k)
    BY <2>4
  <2>6. k \in 0 .. N
    BY <1>2
  <2> HIDE DEF Read
  <2> QED
    BY <2>5, <2>6
<1>7. N \in S
  <2>1. N \in 0 .. N
    BY <1>2
  <2> HIDE DEF S, N
  <2> QED
    BY <1>2, <1>4, <1>6, <2>1, UpTo
<1>8. Read(N)
  <2> HIDE DEF Read
  <2> QED
    BY <1>2, <1>7
<1>9. SubSeq(cmds, 1, N) = cmds
  BY WholeIs
<1>10. Spans(t, 1, gap \o A(N), e)
  BY <1>9, Zenon DEF bar
<1> QED
  BY <1>8, <1>9, <1>10

(***************************************************************************)
(* The end of the line, and the whole line.                                *)
(***************************************************************************)

\* A state of the scan whose mode is one of these.
Somewhere(t, p, modes, cmds, outfile, res) ==
  \E mode \in modes :
    Reached(t, [pos |-> p, mode |-> mode, cmds |-> cmds, outfile |-> outfile, res |-> res])

FileText(outfile, quote, gap) ==
  IF outfile = <<>> THEN <<>>
  ELSE gap \o <<">">> \o gap \o Written(outfile[1], quote[outfile[1]])

BackText(res) == IF res = "BG" THEN <<" ", "&">> ELSE <<>>

\* The file name is written as a text.
LEMMA FileIsText ==
  ASSUME NEW W, NEW quote, Spells(W, quote), NEW gap \in Gaps,
         NEW outfile \in {<<>>} \cup {<<w>> : w \in W}
  PROVE  FileText(outfile, quote, gap) \in LineText
<1>1. CASE outfile = <<>>
  <2>1. FileText(outfile, quote, gap) = <<>>
    BY <1>1, Zenon DEF FileText
  <2>2. <<>> \in LineText
    BY EmptySeq DEF LineText
  <2> QED
    BY <2>1, <2>2
<1>2. CASE outfile # <<>>
  <2>1. PICK w \in W : outfile = <<w>>
    BY <1>2
  <2> DEFINE x == Written(w, quote[w])
  <2>2. x \in LineText
    <3>1. w \in Words /\ quote[w] \in Quotes \cup {Nul} /\ Writable(w, quote[w])
      BY SpelledIs
    <3> QED
      BY <3>1, WrittenIs
  <2>3. FileText(outfile, quote, gap) = ((gap \o <<">">>) \o gap) \o x
    <3>1. outfile[1] = w
      BY <2>1
    <3> QED
      BY <1>2, <3>1, Zenon DEF FileText
  <2>4. <<">">> \in LineText
    <3>1. ">" \in Chars \cup {NL}
      BY Zenon DEF Chars, Operators
    <3> QED
      BY <3>1 DEF LineText
  <2>5. gap \in LineText
    BY GapIs
  <2>6. (gap \o <<">">>) \o gap \in LineText
    BY <2>4, <2>5, TextsJoin
  <2> HIDE DEF x
  <2>7. ((gap \o <<">">>) \o gap) \o x \in LineText
    BY <2>2, <2>6, TextsJoin
  <2> QED
    BY <2>3, <2>7
<1> QED
  BY <1>1, <1>2

\* The & is written as a text.
LEMMA BackIsText ==
  ASSUME NEW res \in Running
  PROVE  BackText(res) \in LineText
<1>1. <<>> \in LineText
  BY EmptySeq DEF LineText
<1>2. <<" ", "&">> \in LineText
  <2>1. "&" \in Chars \cup {NL}
    BY Zenon DEF Chars, Operators
  <2>2. <<"&">> \in LineText
    BY <2>1 DEF LineText
  <2>3. <<" ">> \o <<"&">> \in LineText
    BY <2>2, BlankEnds, TextsJoin
  <2> QED
    BY <2>3, PairIs, Zenon
<1> QED
  BY <1>1, <1>2, Zenon DEF BackText

\* The file name.
LEMMA FileFollows ==
  ASSUME NEW t \in LineText, NEW W, NEW quote, Spells(W, quote), NEW gap \in Gaps, NEW cmds,
         NEW outfile \in {<<>>} \cup {<<w>> : w \in W}, NEW m, NEW e,
         Spans(t, m, FileText(outfile, quote, gap), e), At(t, e) \in WordStops(Nul)
  PROVE  /\ At(t, m) \in WordStops(Nul)
         /\ Reached(t, InLine(m, ReadArguments, cmds))
              => Somewhere(t, e, {ReadArguments, ReadAmpersand}, cmds, outfile, "FG")
<1>1. CASE outfile = <<>>
  <2>1. FileText(outfile, quote, gap) = <<>>
    BY <1>1, Zenon DEF FileText
  <2>2. e = m
    BY <2>1, SpansNothing
  <2> QED
    BY <1>1, <2>2, Zenon DEF Somewhere, InLine
<1>2. CASE outfile # <<>>
  <2>1. PICK w \in W : outfile = <<w>>
    BY <1>2
  <2> DEFINE x == Written(w, quote[w])
  <2>2. w \in Words /\ quote[w] \in Quotes \cup {Nul} /\ Writable(w, quote[w])
    BY SpelledIs
  <2>3. x \in LineText
    BY <2>2, WrittenIs
  <2>4. FileText(outfile, quote, gap) = ((gap \o <<">">>) \o gap) \o x
    <3>1. outfile[1] = w
      BY <2>1
    <3> QED
      BY <1>2, <3>1, Zenon DEF FileText
  <2>5. ">" \in {"|", ">"} /\ ">" \in Operators
    BY Zenon DEF Operators
  <2>6. PICK k : At(t, m) \in WordStops(Nul) /\ Spans(t, m, gap \o <<">">>, k) /\ Spans(t, k, gap \o x, e)
    <3> HIDE DEF x
    <3>1. Spans(t, m, ((gap \o <<">">>) \o gap) \o x, e)
      BY <2>4
    <3> QED
      BY <2>3, <2>5, <3>1, BarFollows
  <2>7. ASSUME Reached(t, InLine(m, ReadArguments, cmds))
        PROVE  Somewhere(t, e, {ReadArguments, ReadAmpersand}, cmds, outfile, "FG")
    <3> DEFINE s == InLine(m, ReadArguments, cmds)
               n == [pos |-> k, mode |-> ReadFilename, cmds |-> cmds, outfile |-> <<>>, res |-> "FG"]
               f == [pos |-> e, mode |-> ReadAmpersand, cmds |-> cmds, outfile |-> <<w>>, res |-> "FG"]
    <3>1. s.pos = m /\ s.mode = ReadArguments /\ s.cmds = cmds /\ s.outfile = <<>> /\ s.res = "FG"
      BY DEF InLine
    <3>2. n.pos = k /\ n.mode = ReadFilename /\ n.cmds = cmds /\ n.outfile = <<>> /\ n.res = "FG"
      OBVIOUS
    <3>3. "FG" \in Running /\ ReadFilename < ReadAmpersand
      BY DEF Running, ReadFilename, ReadAmpersand
    <3>4. Reached(t, n)
      <4>1. Reached(t, s) /\ s.res \in Running
        BY <2>7, <3>1, <3>3
      <4> HIDE DEF s
      <4>2. Spans(t, s.pos, gap \o <<">">>, k)
        BY <2>6, <3>1, Zenon
      <4>3. Reached(t, [pos |-> k, mode |-> ReadFilename, cmds |-> s.cmds, outfile |-> s.outfile, res |-> s.res])
        BY <2>5, <3>1, <4>1, <4>2, OperatorFollows
      <4> QED
        BY <3>1, <4>3, Zenon
    <3>5. StoredAs(n, w, e, f)
      <4> HIDE DEF n
      <4> QED
        BY <3>2, Zenon DEF StoredAs
    <3>6. Reached(t, f)
      <4>1. n.res \in Running /\ n.mode < ReadAmpersand
        BY <3>2, <3>3
      <4> HIDE DEF n, f
      <4>2. Spans(t, n.pos, gap \o Written(w, quote[w]), e)
        BY <2>6, <3>2, Zenon
      <4> QED
        BY <2>2, <3>4, <3>5, <4>1, <4>2, WordFollows
    <3>7. f = [pos |-> e, mode |-> ReadAmpersand, cmds |-> cmds, outfile |-> outfile, res |-> "FG"]
      BY <2>1, Zenon
    <3> HIDE DEF f
    <3> QED
      BY <3>6, <3>7, Zenon DEF Somewhere
  <2> QED
    BY <2>6, <2>7
<1> QED
  BY <1>1, <1>2

\* The & at the end.
LEMMA AmpersandFollows ==
  ASSUME NEW t \in LineText, NEW cmds, NEW outfile, NEW res \in Running, NEW m, NEW e,
         Spans(t, m, BackText(res), e), At(t, e) \in WordStops(Nul)
  PROVE  /\ At(t, m) \in WordStops(Nul)
         /\ Somewhere(t, m, {ReadArguments, ReadAmpersand}, cmds, outfile, "FG")
              => Somewhere(t, e, Modes \ {ReadCommand, ReadFilename}, cmds, outfile, res)
<1>0. {ReadArguments, ReadAmpersand, ReadNewline} \subseteq Modes \ {ReadCommand, ReadFilename}
  BY ModesApart DEF Modes
<1>1. CASE res = "FG"
  <2>1. BackText(res) = <<>>
    BY <1>1 DEF BackText
  <2>2. e = m
    BY <2>1, SpansNothing
  <2> QED
    BY <1>0, <1>1, <2>2, Zenon DEF Somewhere
<1>2. CASE res = "BG"
  <2>1. BackText(res) = <<" ">> \o <<"&">>
    BY <1>2, PairIs, Zenon DEF BackText
  <2>2. "&" \in Operators /\ "&" \in Chars \cup {NL}
    BY Zenon DEF Operators, Chars
  <2>3. <<"&">> \in LineText
    BY <2>2 DEF LineText
  <2>4. Spans(t, m, <<" ">> \o <<"&">>, e)
    BY <2>1
  <2>5. At(t, m) \in WordStops(Nul)
    BY <2>3, <2>4, BlankEnds, FirstStands
  <2>6. ASSUME NEW mode \in {ReadArguments, ReadAmpersand},
               Reached(t, [pos |-> m, mode |-> mode, cmds |-> cmds, outfile |-> outfile, res |-> "FG"])
        PROVE  Reached(t, [pos |-> e, mode |-> ReadNewline, cmds |-> cmds, outfile |-> outfile, res |-> "BG"])
    <3> DEFINE s == [pos |-> m, mode |-> mode, cmds |-> cmds, outfile |-> outfile, res |-> "FG"]
    <3>1. s.pos = m /\ s.mode = mode /\ s.cmds = cmds /\ s.outfile = outfile /\ s.res = "FG" /\ Reached(t, s)
      BY <2>6
    <3>2. s.res \in Running
      BY <3>1 DEF Running
    <3> HIDE DEF s
    <3>3. Spans(t, s.pos, <<" ">> \o <<"&">>, e)
      BY <2>4, <3>1, Zenon
    <3>4. <<" ">> \in Gaps
      BY BlankEnds
    <3>5. Reached(t, [pos |-> e, mode |-> ReadNewline, cmds |-> s.cmds, outfile |-> s.outfile, res |-> "BG"])
      BY <2>2, <2>6, <3>1, <3>2, <3>3, <3>4, OperatorFollows
    <3> QED
      BY <3>1, <3>5, Zenon
  <2> QED
    BY <1>0, <1>2, <2>5, <2>6, Zenon DEF Somewhere
<1> QED
  BY <1>1, <1>2 DEF Running

\* What the grammar may say, in lines of any length.
CommandLines ==
  [cmds : Seq(Vectors) \ {<<>>}, outfile : {<<>>} \cup {<<w>> : w \in Words}, res : Running]

\* The words of such a line can be written where its commands stand.
LEMMA WordsOfLine ==
  ASSUME NEW typed \in CommandLines
  PROVE  LET W == WordsOf(typed)
         IN  /\ W \in SUBSET Words
             /\ typed.cmds \in Seq(ArgvsOf(W)) /\ typed.cmds # <<>>
             /\ typed.outfile \in {<<>>} \cup {<<w>> : w \in W}
             /\ typed.res \in Running
<1> DEFINE W == WordsOf(typed)
<1>1. /\ typed.cmds \in Seq(Vectors) /\ typed.cmds # <<>> /\ typed.res \in Running
      /\ typed.outfile \in {<<>>} \cup {<<w>> : w \in Words}
  BY DEF CommandLines
<1>2. DOMAIN typed.cmds = 1 .. Len(typed.cmds)
  BY <1>1
<1>3. ASSUME NEW i \in 1 .. Len(typed.cmds)
      PROVE  /\ typed.cmds[i] \in Seq(Words) /\ typed.cmds[i] # <<>>
             /\ DOMAIN typed.cmds[i] = 1 .. Len(typed.cmds[i])
             /\ \A j \in 1 .. Len(typed.cmds[i]) : typed.cmds[i][j] \in Words
  <2> DEFINE v == typed.cmds[i]
  <2>1. v \in Vectors
    BY <1>1, ElementOfSeq
  <2> HIDE DEF v
  <2>2. v \in Seq(Words) /\ v # <<>>
    BY <2>1 DEF Vectors
  <2>3. DOMAIN v = 1 .. Len(v) /\ \A j \in 1 .. Len(v) : v[j] \in Words
    BY <2>2, ElementOfSeq
  <2> QED
    BY <2>2, <2>3 DEF v
<1>4. W \in SUBSET Words
  <2>1. ASSUME NEW w \in Range(typed.outfile)
        PROVE  w \in Words
    <3>1. PICK j \in DOMAIN typed.outfile : w = typed.outfile[j]
      BY Zenon DEF Range
    <3>2. typed.outfile # <<>>
      BY <3>1
    <3>3. PICK x \in Words : typed.outfile = <<x>>
      BY <1>1, <3>2
    <3> QED
      BY <3>1, <3>3
  <2>2. ASSUME NEW i \in DOMAIN typed.cmds, NEW w \in Range(typed.cmds[i])
        PROVE  w \in Words
    <3>1. PICK j \in DOMAIN typed.cmds[i] : w = typed.cmds[i][j]
      BY Zenon DEF Range
    <3> QED
      BY <1>2, <1>3, <3>1
  <2> QED
    BY <2>1, <2>2, Zenon DEF WordsOf
<1> HIDE DEF W
<1>5. ASSUME NEW i \in 1 .. Len(typed.cmds)
      PROVE  typed.cmds[i] \in ArgvsOf(W)
  <2> DEFINE v == typed.cmds[i]
  <2>1. \A j \in 1 .. Len(v) : v[j] \in W
    BY <1>2, <1>3, WordsOfIs DEF W
  <2>2. v \in Seq(Words) /\ v # <<>>
    BY <1>3
  <2> HIDE DEF v
  <2>3. v \in Seq(W)
    BY <2>1, <2>2
  <2> QED
    BY <2>2, <2>3 DEF ArgvsOf, v
<1>6. typed.cmds \in Seq(ArgvsOf(W))
  BY <1>1, <1>5
<1>7. typed.outfile \in {<<>>} \cup {<<w>> : w \in W}
  <2>1. SUFFICES ASSUME typed.outfile # <<>>
                 PROVE  \E w \in W : typed.outfile = <<w>>
    BY Zenon
  <2>2. PICK x \in Words : typed.outfile = <<x>>
    BY <1>1, <2>1
  <2>3. 1 \in DOMAIN typed.outfile /\ typed.outfile[1] = x
    BY <2>2
  <2>4. x \in W
    BY <2>3, WordsOfIs DEF W
  <2> QED
    BY <2>2, <2>4
<1> QED
  BY <1>1, <1>4, <1>6, <1>7 DEF W

\* The scan takes a line to what was to be written.
LEMMA LineIsUnderstood ==
  ASSUME NEW typed \in CommandLines, NEW gap \in Gaps, NEW quote \in Spellings(typed)
  PROVE  parseline(Render(typed, quote, gap)) = typed
<1> DEFINE t == Render(typed, quote, gap)
           W == WordsOf(typed)
           bar == (gap \o <<"|">>) \o gap
           cmds == Chained(typed.cmds, SpelledArgv(W, quote), bar)
           file == FileText(typed.outfile, quote, gap)
           back == BackText(typed.res)
           end == gap \o <<NL>>
           a == gap \o cmds
           b == a \o file
           c == b \o back
<1>1. /\ typed.cmds \in Seq(ArgvsOf(W)) /\ typed.cmds # <<>>
      /\ typed.outfile \in {<<>>} \cup {<<w>> : w \in W}
      /\ typed.res \in Running /\ W \in SUBSET Words
  BY WordsOfLine
<1>2. Spells(W, quote)
  <2>1. quote \in [W -> Quotes \cup {Nul}] /\ \A w \in W : Writable(w, quote[w])
    BY Zenon DEF Spellings
  <2> QED
    BY <1>1, <2>1, Zenon DEF Spells, Maps
<1>3. t = (((a \o file) \o back) \o gap) \o <<NL>>
  <2>1. DOMAIN typed.cmds = 1 .. Len(typed.cmds)
    BY <1>1
  <2>2. \A i \in DOMAIN typed.cmds : Argv(typed.cmds[i], quote) = SpelledArgv(W, quote)[typed.cmds[i]]
    <3> HIDE DEF W
    <3>1. \A i \in DOMAIN typed.cmds : typed.cmds[i] \in ArgvsOf(W)
      BY <1>1, <2>1, ElementOfSeq
    <3> QED
      BY <1>2, <3>1, SpelledArgvIs
  <2>3. [i \in DOMAIN typed.cmds |-> Argv(typed.cmds[i], quote)] = Mapped(typed.cmds, SpelledArgv(W, quote))
    <3> HIDE DEF W
    <3> QED
      BY <2>2 DEF Mapped
  <2> HIDE DEF W
  <2> QED
    BY <2>3, Zenon DEF Render, Chained, FileText, BackText
<1>4. gap \in LineText /\ <<NL>> \in LineText /\ end \in LineText
  <2>1. <<NL>> \in LineText
    BY DEF LineText
  <2>2. gap \in LineText
    BY GapIs
  <2> QED
    BY <2>1, <2>2, TextsJoin
<1>5. cmds \in LineText
  <2>1. bar \in LineText
    <3>1. <<"|">> \in LineText
      <4>1. "|" \in Chars \cup {NL}
        BY Zenon DEF Chars, Operators
      <4> QED
        BY <4>1 DEF LineText
    <3> QED
      BY <1>4, <3>1, TextsJoin
  <2> DEFINE m == Mapped(typed.cmds, SpelledArgv(W, quote))
  <2>2. m \in Seq(LineText)
    <3> HIDE DEF W
    <3>1. SpelledArgv(W, quote) \in Maps(ArgvsOf(W), LineText)
      BY <1>2, SpelledArgvIs
    <3> QED
      BY <1>1, <3>1, MappedIs
  <2> HIDE DEF m, bar
  <2>3. Joined(m, bar) \in LineText
    BY <2>1, <2>2, JoinedIsText
  <2> QED
    BY <2>3, Zenon DEF Chained, m
<1>6. file \in LineText
  <2> HIDE DEF W
  <2> QED
    BY <1>1, <1>2, FileIsText
<1>7. back \in LineText
  BY <1>1, BackIsText
<1> HIDE DEF file, back, cmds, t, W, bar
<1>8. a \in LineText
  BY <1>4, <1>5, TextsJoin
<1>9. b \in LineText
  <2> HIDE DEF a
  <2> QED
    BY <1>6, <1>8, TextsJoin
<1>10. c \in LineText
  <2> HIDE DEF b
  <2> QED
    BY <1>7, <1>9, TextsJoin
<1>11. t = c \o end /\ t \in LineText
  <2> HIDE DEF c
  <2>1. t = (c \o gap) \o <<NL>>
    BY <1>3 DEF c, b
  <2>2. (c \o gap) \o <<NL>> = c \o (gap \o <<NL>>)
    BY <1>4, <1>10, ThreeRegrouped
  <2>3. c \o end \in LineText
    BY <1>4, <1>10, TextsJoin
  <2> QED
    BY <2>1, <2>2, <2>3
<1> DEFINE z == 1 + Len(t)
<1>12. Spans(t, 1, c \o end, z)
  <2>1. Occurs(t, 1, t) /\ 1 \in Nat \ {0}
    BY <1>11, OccursWhole
  <2>2. Spans(t, 1, t, z)
    BY <2>1, Zenon DEF Spans
  <2> QED
    BY <1>11, <2>2
<1> HIDE DEF a, b, c, z
<1>13. PICK p : Spans(t, 1, c, p) /\ Spans(t, p, end, z)
  <2> HIDE DEF end
  <2> QED
    BY <1>4, <1>10, <1>11, <1>12, SpansConcat
<1>14. At(t, p) \in WordStops(Nul)
  BY <1>11, <1>13, StopsThere
<1>15. PICK q : Spans(t, 1, b, q) /\ Spans(t, q, back, p)
  BY <1>7, <1>9, <1>11, <1>13, SpansConcat DEF c
<1>16. /\ At(t, q) \in WordStops(Nul)
       /\ Somewhere(t, q, {ReadArguments, ReadAmpersand}, typed.cmds, typed.outfile, "FG")
            => Somewhere(t, p, Modes \ {ReadCommand, ReadFilename}, typed.cmds, typed.outfile, typed.res)
  BY <1>1, <1>11, <1>14, <1>15, AmpersandFollows DEF back
<1>17. PICK r : Spans(t, 1, a, r) /\ Spans(t, r, file, q)
  BY <1>6, <1>8, <1>11, <1>15, SpansConcat DEF b
<1>18. /\ At(t, r) \in WordStops(Nul)
       /\ Reached(t, InLine(r, ReadArguments, typed.cmds))
            => Somewhere(t, q, {ReadArguments, ReadAmpersand}, typed.cmds, typed.outfile, "FG")
  BY <1>1, <1>2, <1>11, <1>16, <1>17, FileFollows DEF file
<1>19. Reached(t, InLine(r, ReadArguments, typed.cmds))
  <2>1. Spans(t, 1, gap \o Chained(typed.cmds, SpelledArgv(W, quote), (gap \o <<"|">>) \o gap), r)
    BY <1>17 DEF a, cmds, bar
  <2> QED
    BY <1>1, <1>2, <1>11, <1>18, <2>1, CommandsAreRead
<1>20. PICK mode \in Modes \ {ReadCommand, ReadFilename} :
         Reached(t, [pos |-> p, mode |-> mode, cmds |-> typed.cmds, outfile |-> typed.outfile, res |-> typed.res])
  BY <1>16, <1>18, <1>19, Zenon DEF Somewhere
<1>21. parseline(t) = [cmds |-> typed.cmds, outfile |-> typed.outfile, res |-> typed.res]
  <2> DEFINE s == [pos |-> p, mode |-> mode, cmds |-> typed.cmds, outfile |-> typed.outfile, res |-> typed.res]
  <2>1. /\ s.pos = p /\ s.mode = mode /\ s.cmds = typed.cmds /\ s.outfile = typed.outfile /\ s.res = typed.res
        /\ Reached(t, s)
    BY <1>20
  <2> HIDE DEF s
  <2>2. Occurs(t, s.pos, gap \o <<NL>>)
    BY <1>13, <2>1, Zenon DEF Spans
  <2>3. s.res \in Running /\ s.mode \notin {ReadCommand, ReadFilename}
    BY <1>1, <1>20, <2>1
  <2>4. parseline(t) = [cmds |-> s.cmds, outfile |-> s.outfile, res |-> s.res]
    BY <1>11, <2>1, <2>2, <2>3, EndIsRead
  <2> QED
    BY <2>1, <2>4
<1>22. typed = [cmds |-> typed.cmds, outfile |-> typed.outfile, res |-> typed.res]
  BY DEF CommandLines
<1> QED
  BY <1>21, <1>22 DEF t

\* A line of the grammar, of any number of words of any length, is understood
\* by parseline() as what it says, however it is spaced and its words are
\* quoted.
THEOREM EveryLineIsUnderstood ==
  \A typed \in CommandLines, gap \in Gaps : Understood(typed, gap)
  BY LineIsUnderstood DEF Understood

(***************************************************************************)
(* The bounded lines that are checked are among those.                     *)
(***************************************************************************)

\* The lines that are checked are lines of the grammar.
LEMMA ParsedLines ==
  GrammarLines \subseteq CommandLines
<1>1. {<<>>, <<"a">>, <<" ", "|", "'">>, <<"b", "&">>} \subseteq Words
  <2>1. {"a", "b", " ", "|", "'", "&"} \subseteq Chars
    BY LettersAssumption, Zenon DEF LettersAssumption, Chars, Operators, Quotes
  <2>2. <<>> \in Words
    BY EmptySeq DEF Words
  <2>3. \A c \in Chars : <<c>> \in Words
    BY DEF Words
  <2>4. \A c, d \in Chars : <<c, d>> \in Words
    BY DEF Words
  <2>5. \A c, d, e \in Chars : <<c, d, e>> \in Words
    BY DEF Words
  <2> QED
    BY <2>1, <2>2, <2>3, <2>4, <2>5, Zenon
<1> DEFINE Some == {<<>>, <<"a">>, <<" ", "|", "'">>}
<1>2. Some \subseteq Words
  BY <1>1, Zenon
<1>3. Argvs = UNION {[1 .. n -> Some] : n \in 1 .. 2}
  BY Zenon DEF Argvs
<1> HIDE DEF Some
<1>4. Argvs \subseteq Vectors
  <2> SUFFICES ASSUME NEW argv \in Argvs
               PROVE  argv \in Vectors
    OBVIOUS
  <2>1. PICK n \in 1 .. 2 : argv \in [1 .. n -> Some]
    BY <1>3
  <2>2. argv \in Seq(Words)
    BY <1>2, <2>1
  <2>3. argv # <<>>
    BY <2>1
  <2> QED
    BY <2>2, <2>3 DEF Vectors
<1> DEFINE Cmds == UNION {[1 .. n -> Argvs] : n \in 1 .. 2}
<1>5. Cmds \subseteq Seq(Vectors) \ {<<>>}
  <2> SUFFICES ASSUME NEW cmds \in Cmds
               PROVE  cmds \in Seq(Vectors) /\ cmds # <<>>
    OBVIOUS
  <2>1. PICK n \in 1 .. 2 : cmds \in [1 .. n -> Argvs]
    OBVIOUS
  <2>2. cmds \in Seq(Vectors)
    BY <1>4, <2>1
  <2>3. cmds # <<>>
    BY <2>1
  <2> QED
    BY <2>2, <2>3
<1> DEFINE Files == {<<>>, <<<<"b", "&">>>>}
<1>6. Files \subseteq {<<>>} \cup {<<w>> : w \in Words}
  BY <1>1, Zenon
<1>7. GrammarLines = [cmds : Cmds, outfile : Files, res : Running]
  BY Zenon DEF GrammarLines, Running
<1> HIDE DEF Cmds, Files
<1> QED
  BY <1>5, <1>6, <1>7 DEF CommandLines

\* The lines and the texts that the runs check are among those of the two
\* theorems: parseline() is right about them.
THEOREM CheckedLinesAreParsed == GrammarIsParsed /\ NothingIsLost
<1>1. GrammarIsParsed
  <2>1. {<<>>, <<" ">>} \subseteq Gaps
    <3>1. <<>> \in Gaps
      BY EmptySeq DEF Gaps
    <3> QED
      BY <3>1, BlankEnds, Zenon
  <2> QED
    BY <2>1, ParsedLines, EveryLineIsUnderstood, Zenon DEF GrammarIsParsed
<1>2. NothingIsLost
  <2>1. Texts(5) \subseteq Seq(Chars)
    <3> SUFFICES ASSUME NEW text \in Texts(5)
                 PROVE  text \in Seq(Chars)
      OBVIOUS
    <3>1. PICK m \in 0 .. 5 : text \in [1 .. m -> Chars]
      BY DEF Texts
    <3> QED
      BY <3>1
  <2> QED
    BY <2>1, NothingIsEverLost, Zenon DEF NothingIsLost
<1> QED
  BY <1>1, <1>2
=============================================================================
