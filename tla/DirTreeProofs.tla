---------------------------- MODULE DirTreeProofs ----------------------------
(***************************************************************************)
(* dirtree, for any tree, any arguments and any calls that fail.           *)
(*                                                                         *)
(* An entry is pending while a call of processDir has yet to list it,      *)
(* itself or in a call that it makes.  At every point of a walk the        *)
(* entries to list are those listed and those pending, and each step takes *)
(* one entry from the one to the other or hides some that are pending.     *)
(* What the summaries and the order come to follows.                       *)
(***************************************************************************)
EXTENDS DirTree, SequenceTheorems, FiniteSetTheorems, WellFoundedInduction, TLAPS

(***************************************************************************)
(* Numbers.                                                                *)
(***************************************************************************)

Less == OpToRel(<, Nat)

\* The order by which LeastNumber picks.
LEMMA Descends ==
  ASSUME NEW x \in Nat, NEW y \in Nat, x < y
  PROVE  <<x, y>> \in Less
  BY Zenon DEF Less, OpToRel

\* A set of numbers that is not empty has a least one; what an induction over
\* entries would show is shown by the first counterexample.
LEMMA LeastNumber ==
  ASSUME NEW S \in SUBSET Nat, S # {}
  PROVE  \E n \in S : \A m \in S : n <= m
<1>1. IsWellFoundedOn(Less, Nat)
  BY NatLessThanWellFounded, Zenon DEF Less
<1>2. PICK n \in S : \A m \in S : <<m, n>> \notin Less
  BY <1>1, WFMin, Zenon
<1>3. \A m \in S : ~(m < n)
  BY <1>2, Descends
<1> QED
  BY <1>3

\* Entries are numbers from 1 on.
LEMMA EntriesAre ==
  /\ IsFiniteSet(Entries) /\ Cardinality(Entries) \in Nat
  /\ Entries \subseteq Nat \ {0} /\ 1 \in Entries
  /\ \A e \in Entries : e \in 1 .. Cardinality(Entries)
<1>1. IsFiniteSet(Entries) /\ Entries = 1 .. Cardinality(Entries) /\ 1 \in Entries
  BY TreeAssumption DEF TreeAssumption
<1>2. Cardinality(Entries) \in Nat
  BY <1>1, FS_CardinalityType
<1>3. \A e \in Entries : e \in 1 .. Cardinality(Entries)
  BY <1>1
<1>4. Entries \subseteq Nat \ {0}
  BY <1>2, <1>3
<1> QED
  BY <1>1, <1>2, <1>3, <1>4

\* The first entry of a set, and the last one.
LEMMA FirstEntry ==
  ASSUME NEW S \in SUBSET Entries, S # {}
  PROVE  \E n \in S : \A m \in S : n <= m
  BY LeastNumber, EntriesAre

LEMMA LastEntry ==
  ASSUME NEW S \in SUBSET Entries, S # {}
  PROVE  \E n \in S : \A m \in S : m <= n
<1> DEFINE N == Cardinality(Entries)
           T == {k \in 0 .. N : N - k \in S}
<1>1. N \in Nat /\ \A e \in S : e \in 1 .. N /\ e \in Nat
  BY EntriesAre
<1> HIDE DEF N
<1>2. PICK s \in S : TRUE
  OBVIOUS
<1>3. N - s \in 0 .. N /\ N - (N - s) = s
  BY <1>1, <1>2
<1>4. T \in SUBSET Nat /\ T # {}
  BY <1>1, <1>2, <1>3
<1> HIDE DEF T
<1>5. PICK k \in T : \A l \in T : k <= l
  BY <1>4, LeastNumber
<1>6. k \in 0 .. N /\ N - k \in S
  BY <1>5 DEF T
<1>7. ASSUME NEW m \in S PROVE m <= N - k
  <2>1. m \in 1 .. N /\ N - m \in 0 .. N /\ N - (N - m) = m
    BY <1>1, <1>7
  <2>2. N - m \in T
    BY <1>7, <2>1 DEF T
  <2>3. k <= N - m
    BY <1>5, <2>2
  <2> QED
    BY <2>1, <2>3, <1>1, <1>6
<1> QED
  BY <1>6, <1>7

(***************************************************************************)
(* The tree.                                                               *)
(***************************************************************************)

\* Every entry but the first is in a directory that comes before it.
TreeInv ==
  /\ kind \in [Entries -> Kinds] /\ parent \in [Entries -> Entries]
  /\ parent[1] = 1 /\ IsDir(1)
  /\ \A e \in Entries \ {1} : parent[e] < e /\ IsDir(parent[e])

\* What is reached from e by going up, whatever the depth.
Ancestors(e) ==
  {a \in Entries : \A S \in SUBSET Entries :
     e \in S /\ (\A x \in S : parent[x] \in S) => a \in S}

\* The equation that defines Path has a solution, so Path is one.
LEMMA PathEquation ==
  ASSUME TreeInv
  PROVE  Path = [e \in Entries |-> IF e = 1 THEN {1} ELSE Path[parent[e]] \cup {e}]
<1> DEFINE F == [e \in Entries |-> Ancestors(e)]
<1>1. parent \in [Entries -> Entries] /\ parent[1] = 1 /\ 1 \in Entries
  BY EntriesAre DEF TreeInv
<1>2. Ancestors(1) = {1}
  <2>1. 1 \in Ancestors(1)
    BY <1>1 DEF Ancestors
  <2>2. {1} \in SUBSET Entries /\ \A x \in {1} : parent[x] \in {1}
    BY <1>1
  <2>3. \A a \in Ancestors(1) : a \in {1}
    BY <2>2 DEF Ancestors
  <2> QED
    BY <2>1, <2>3
<1>3. ASSUME NEW e \in Entries \ {1}
      PROVE  Ancestors(e) = Ancestors(parent[e]) \cup {e}
  <2>1. parent[e] \in Entries
    BY <1>1
  <2>2. Ancestors(parent[e]) \subseteq Ancestors(e)
    BY <2>1 DEF Ancestors
  <2>3. e \in Ancestors(e)
    BY DEF Ancestors
  <2>4. ASSUME NEW x \in Ancestors(parent[e]) \cup {e}
        PROVE  parent[x] \in Ancestors(parent[e]) \cup {e}
    <3>1. CASE x = e
      BY <3>1, <2>1 DEF Ancestors
    <3>2. CASE x \in Ancestors(parent[e])
      <4>1. x \in Entries /\ parent[x] \in Entries
        BY <3>2, <1>1 DEF Ancestors
      <4> QED
        BY <4>1, <3>2 DEF Ancestors
    <3> QED
      BY <3>1, <3>2, <2>4
  <2>5. Ancestors(parent[e]) \cup {e} \in SUBSET Entries
    BY DEF Ancestors
  <2>6. Ancestors(e) \subseteq Ancestors(parent[e]) \cup {e}
    <3> DEFINE U == Ancestors(parent[e]) \cup {e}
    <3>1. U \in SUBSET Entries /\ e \in U /\ \A x \in U : parent[x] \in U
      BY <2>4, <2>5
    <3> HIDE DEF U
    <3>2. \A a \in Ancestors(e) : a \in U
      BY <3>1 DEF Ancestors
    <3> QED
      BY <3>2 DEF U
  <2> QED
    BY <2>2, <2>3, <2>6
<1>4. F = [e \in Entries |-> IF e = 1 THEN {1} ELSE F[parent[e]] \cup {e}]
  <2>1. \A e \in Entries :
          Ancestors(e) = IF e = 1 THEN {1} ELSE Ancestors(parent[e]) \cup {e}
    BY <1>2, <1>3
  <2>2. \A e \in Entries : F[parent[e]] = Ancestors(parent[e])
    BY <1>1
  <2> HIDE DEF Ancestors
  <2> QED
    BY <2>1, <2>2
<1> HIDE DEF F
<1>5. Path = CHOOSE path :
        path = [e \in Entries |-> IF e = 1 THEN {1} ELSE path[parent[e]] \cup {e}]
  BY DEF Path
<1> QED
  BY <1>4, <1>5

\* A step that keeps the tree keeps the paths.
LEMMA PathKept ==
  ASSUME parent' = parent
  PROVE  Path' = Path
  BY DEF Path

\* A path is the entry at its end and the path to the entry above it.
LEMMA PathStep ==
  ASSUME TreeInv, NEW e \in Entries
  PROVE  /\ Path[1] = {1}
         /\ parent[e] \in Entries
         /\ e # 1 => Path[e] = Path[parent[e]] \cup {e} /\ parent[e] < e
                     /\ IsDir(parent[e])
<1>1. Path = [x \in Entries |-> IF x = 1 THEN {1} ELSE Path[parent[x]] \cup {x}]
  BY PathEquation
<1>2. 1 \in Entries /\ parent[e] \in Entries
  BY EntriesAre DEF TreeInv
<1>3. Path[1] = {1} /\ (e # 1 => Path[e] = Path[parent[e]] \cup {e})
  BY <1>1, <1>2
<1> QED
  BY <1>2, <1>3 DEF TreeInv

\* A path has its entry and the first one, and goes up in the numbering.
LEMMA PathBounds ==
  ASSUME TreeInv, NEW e \in Entries
  PROVE  /\ Path[e] \subseteq Entries /\ e \in Path[e] /\ 1 \in Path[e]
         /\ \A x \in Path[e] : x <= e
<1> DEFINE Good(y) == /\ Path[y] \subseteq Entries /\ y \in Path[y] /\ 1 \in Path[y]
                      /\ \A x \in Path[y] : x <= y
           Bad == {y \in Entries : ~Good(y)}
<1>1. Bad = {}
  <2> SUFFICES ASSUME Bad # {} PROVE FALSE
    OBVIOUS
  <2>1. PICK y \in Bad : \A z \in Bad : y <= z
    <3>1. Bad \in SUBSET Entries
      OBVIOUS
    <3> HIDE DEF Bad
    <3> QED
      BY <3>1, FirstEntry
  <2>2. y \in Entries /\ ~Good(y) /\ y \in Nat /\ 1 \in Entries
    BY <2>1, EntriesAre
  <2>3. y # 1
    BY <2>2, PathStep
  <2>4. /\ parent[y] \in Entries /\ parent[y] < y /\ parent[y] \in Nat
        /\ Path[y] = Path[parent[y]] \cup {y}
    BY <2>2, <2>3, PathStep, EntriesAre
  <2>5. Good(parent[y])
    BY <2>1, <2>4, <2>2
  <2>6. \A x \in Path[parent[y]] : x \in Nat
    BY <2>5, EntriesAre
  <2> QED
    BY <2>2, <2>4, <2>5, <2>6
<1> QED
  BY <1>1

\* An entry on the path to another, unless it is the same, is on the path to the
\* directory of that other one, and is a directory.
LEMMA PathUp ==
  ASSUME TreeInv, NEW y \in Entries, NEW x \in Path[y], x # y
  PROVE  y # 1 /\ x \in Path[parent[y]] /\ IsDir(x)
<1>1. ASSUME NEW z \in Entries, NEW w \in Path[z], w # z
      PROVE  z # 1 /\ w \in Path[parent[z]]
  BY <1>1, PathStep
<1> DEFINE Bad == {z \in Entries : \E w \in Path[z] : w # z /\ ~IsDir(w)}
<1>2. Bad = {}
  <2> SUFFICES ASSUME Bad # {} PROVE FALSE
    OBVIOUS
  <2>1. PICK z \in Bad : \A v \in Bad : z <= v
    <3>1. Bad \in SUBSET Entries
      OBVIOUS
    <3> HIDE DEF Bad
    <3> QED
      BY <3>1, FirstEntry
  <2>2. PICK w \in Path[z] : w # z /\ ~IsDir(w)
    BY <2>1
  <2>3. /\ z \in Entries /\ z # 1 /\ w \in Path[parent[z]] /\ z \in Nat
        /\ parent[z] \in Entries /\ parent[z] \in Nat
        /\ parent[z] < z /\ IsDir(parent[z])
    BY <2>1, <2>2, <1>1, PathStep, EntriesAre
  <2>4. w # parent[z]
    BY <2>2, <2>3
  <2>5. parent[z] \in Bad
    BY <2>2, <2>3, <2>4
  <2> QED
    BY <2>1, <2>3, <2>5
<1> QED
  BY <1>1, <1>2

\* Paths are transitive, and what is on one path is on the path of one another.
LEMMA PathTransitive ==
  ASSUME TreeInv, NEW z \in Entries, NEW y \in Path[z], NEW x \in Path[y]
  PROVE  x \in Path[z]
<1> DEFINE Bad == {e \in Entries : \E v \in Path[e] : ~(Path[v] \subseteq Path[e])}
<1>1. Bad = {}
  <2> SUFFICES ASSUME Bad # {} PROVE FALSE
    OBVIOUS
  <2>1. PICK e \in Bad : \A v \in Bad : e <= v
    <3>1. Bad \in SUBSET Entries
      OBVIOUS
    <3> HIDE DEF Bad
    <3> QED
      BY <3>1, FirstEntry
  <2>2. PICK v \in Path[e] : ~(Path[v] \subseteq Path[e])
    BY <2>1
  <2>3. e \in Entries /\ e \in Nat /\ v # e
    BY <2>1, <2>2, EntriesAre
  <2>4. e # 1 /\ v \in Path[parent[e]]
    BY <2>2, <2>3, PathUp
  <2>5. /\ parent[e] \in Entries /\ parent[e] \in Nat /\ parent[e] < e
        /\ Path[e] = Path[parent[e]] \cup {e}
    BY <2>3, <2>4, PathStep, EntriesAre
  <2>6. parent[e] \in Bad
    BY <2>2, <2>4, <2>5
  <2> QED
    BY <2>1, <2>3, <2>5, <2>6
<1> QED
  BY <1>1

LEMMA PathChain ==
  ASSUME TreeInv, NEW z \in Entries, NEW x \in Path[z], NEW y \in Path[z]
  PROVE  x \in Path[y] \/ y \in Path[x]
<1> DEFINE Bad == {e \in Entries :
                     \E v, w \in Path[e] : v \notin Path[w] /\ w \notin Path[v]}
<1>1. Bad = {}
  <2> SUFFICES ASSUME Bad # {} PROVE FALSE
    OBVIOUS
  <2>1. PICK e \in Bad : \A v \in Bad : e <= v
    <3>1. Bad \in SUBSET Entries
      OBVIOUS
    <3> HIDE DEF Bad
    <3> QED
      BY <3>1, FirstEntry
  <2>2. PICK v \in Path[e], w \in Path[e] : v \notin Path[w] /\ w \notin Path[v]
    BY <2>1
  <2>3. e \in Entries /\ e \in Nat /\ v # e /\ w # e
    BY <2>1, <2>2, EntriesAre
  <2>4. e # 1 /\ v \in Path[parent[e]] /\ w \in Path[parent[e]]
    BY <2>2, <2>3, PathUp
  <2>5. parent[e] \in Entries /\ parent[e] \in Nat /\ parent[e] < e
    BY <2>3, <2>4, PathStep, EntriesAre
  <2>6. parent[e] \in Bad
    BY <2>2, <2>4, <2>5
  <2> QED
    BY <2>1, <2>3, <2>5, <2>6
<1> QED
  BY <1>1

\* What is below a directory is below one of its entries or is one.
LEMMA PathDown ==
  ASSUME TreeInv, NEW x \in Entries, NEW d \in Path[x], x # d
  PROVE  \E c \in EntriesOf(d) : c \in Path[x]
<1> DEFINE Bad == {e \in Entries : d \in Path[e] /\ e # d
                                   /\ ~ \E c \in EntriesOf(d) : c \in Path[e]}
<1>1. Bad = {}
  <2> SUFFICES ASSUME Bad # {} PROVE FALSE
    OBVIOUS
  <2>1. PICK e \in Bad : \A v \in Bad : e <= v
    <3>1. Bad \in SUBSET Entries
      OBVIOUS
    <3> HIDE DEF Bad
    <3> QED
      BY <3>1, FirstEntry
  <2>2. /\ e \in Entries /\ e \in Nat /\ d \in Path[e] /\ e # d
        /\ ~ \E c \in EntriesOf(d) : c \in Path[e]
    BY <2>1, EntriesAre
  <2>3. e # 1 /\ d \in Path[parent[e]] /\ e \in Path[e]
    BY <2>2, PathUp, PathBounds
  <2>4. /\ parent[e] \in Entries /\ parent[e] \in Nat /\ parent[e] < e
        /\ Path[e] = Path[parent[e]] \cup {e}
    BY <2>2, <2>3, PathStep, EntriesAre
  <2>5. parent[e] # d
    BY <2>2, <2>3 DEF EntriesOf
  <2>6. parent[e] \in Bad
    BY <2>2, <2>3, <2>4, <2>5
  <2> QED
    BY <2>1, <2>2, <2>4, <2>6
<1> QED
  BY <1>1

\* A path has at most one entry of a directory.
LEMMA PathUnique ==
  ASSUME TreeInv, NEW z \in Entries, NEW x \in Path[z], NEW y \in Path[z],
         x # 1, y # 1, parent[x] = parent[y]
  PROVE  x = y
<1> SUFFICES ASSUME x # y PROVE FALSE
  OBVIOUS
<1>1. x \in Entries /\ y \in Entries /\ x \in Nat /\ y \in Nat
  BY PathBounds, EntriesAre
<1>2. parent[x] \in Entries /\ parent[x] \in Nat /\ parent[x] < x /\ parent[x] < y
  BY <1>1, PathStep, EntriesAre
<1>3. CASE x \in Path[y]
  <2>1. x \in Path[parent[y]]
    BY <1>1, <1>3, PathUp
  <2>2. x <= parent[y]
    BY <1>2, <2>1, PathBounds
  <2> QED
    BY <1>1, <1>2, <2>2
<1>4. CASE y \in Path[x]
  <2>1. y \in Path[parent[x]]
    BY <1>1, <1>4, PathUp
  <2>2. y <= parent[x]
    BY <1>2, <2>1, PathBounds
  <2> QED
    BY <1>1, <1>2, <2>2
<1> QED
  BY <1>3, <1>4, PathChain

\* Below, in terms of paths; a directory's entries are below it.
LEMMA BelowIs ==
  ASSUME TreeInv, NEW d \in Entries
  PROVE  /\ \A x \in Entries : x \in Below(d) <=> x # d /\ d \in Path[x]
         /\ Below(d) # {} => IsDir(d)
         /\ EntriesOf(d) \subseteq Below(d)
         /\ Below(d) \subseteq Entries
<1>1. \A x \in Entries : x \in Below(d) <=> x # d /\ d \in Path[x]
  BY PathUp DEF Below
<1>2. ASSUME NEW c \in EntriesOf(d) PROVE c \in Below(d)
  <2>1. c \in Entries /\ c # 1 /\ parent[c] = d /\ c \in Nat /\ d \in Nat
    BY EntriesAre DEF EntriesOf
  <2>2. d < c /\ Path[c] = Path[d] \cup {c} /\ d \in Path[d]
    BY <2>1, PathStep, PathBounds
  <2> QED
    BY <1>1, <2>1, <2>2
<1> QED
  BY <1>1, <1>2 DEF Below

\* The order of the listing: nothing follows itself.
LEMMA FollowsIrreflexive ==
  ASSUME TreeInv, NEW e \in Entries
  PROVE  ~Follows(e, e)
  BY PathUnique DEF Follows

\* Nothing comes before itself in the order of qsort.
LEMMA BeforeIs ==
  ASSUME NEW x \in Entries, NEW y \in Entries
  PROVE  /\ Before(x, y) <=> \/ IsDir(x) /\ ~IsDir(y)
                             \/ (IsDir(x) <=> IsDir(y)) /\ x < y
         /\ ~Before(x, x)
<1>1. x \in Nat /\ y \in Nat
  BY EntriesAre
<1> QED
  BY <1>1 DEF Before, IsDir

\* Entries of one directory are listed in that order, and so is all below them.
LEMMA BeforeFollows ==
  ASSUME TreeInv, NEW x \in Entries, NEW y \in Entries,
         NEW v \in Path[x], NEW w \in Path[y], Before(v, w),
         v # 1, w # 1, parent[v] = parent[w]
  PROVE  Follows(x, y)
<1>1. v \in Entries /\ w \in Entries
  BY PathBounds
<1>2. v # w /\ ((IsDir(v) /\ ~IsDir(w)) \/ ((IsDir(v) <=> IsDir(w)) /\ v < w))
  BY <1>1, BeforeIs
<1>3. IsDir(v) \in BOOLEAN /\ IsDir(w) \in BOOLEAN
  BY DEF IsDir
<1>4. (IsDir(v) /\ ~IsDir(w)) \/ (IsDir(v) = IsDir(w) /\ v < w)
  BY <1>2, <1>3
<1> QED
  BY <1>2, <1>4 DEF Follows

(***************************************************************************)
(* qsort.                                                                  *)
(***************************************************************************)

Ordered(s) == \A m, n \in DOMAIN s : m < n => Before(s[m], s[n])

\* A set of entries has one that all others come before.
LEMMA LastOf ==
  ASSUME NEW S \in SUBSET Entries, S # {}
  PROVE  \E e \in S : \A x \in S \ {e} : Before(x, e)
<1> DEFINE F == {x \in S : ~IsDir(x)}
<1>1. CASE F # {}
  <2>1. F \in SUBSET Entries
    OBVIOUS
  <2> HIDE DEF F
  <2>2. PICK e \in F : \A x \in F : x <= e
    BY <1>1, <2>1, LastEntry
  <2> USE DEF F
  <2>3. ASSUME NEW x \in S \ {e} PROVE Before(x, e)
    <3>1. x \in Entries /\ e \in Entries /\ x \in Nat /\ e \in Nat /\ ~IsDir(e)
      BY <2>2, EntriesAre
    <3>2. CASE IsDir(x)
      BY <3>1, <3>2, BeforeIs
    <3>3. CASE ~IsDir(x)
      <4>1. x <= e /\ x # e
        BY <2>2, <3>3
      <4> QED
        BY <3>1, <3>3, <4>1, BeforeIs
    <3> QED
      BY <3>2, <3>3
  <2> QED
    BY <2>2, <2>3
<1>2. CASE F = {}
  <2>1. PICK e \in S : \A x \in S : x <= e
    BY LastEntry
  <2>2. ASSUME NEW x \in S \ {e} PROVE Before(x, e)
    <3>1. x \in Entries /\ e \in Entries /\ x \in Nat /\ e \in Nat
      BY EntriesAre
    <3>2. IsDir(x) /\ IsDir(e) /\ x < e
      BY <1>2, <2>1, <3>1
    <3> QED
      BY <3>1, <3>2, BeforeIs
  <2> QED
    BY <2>1, <2>2
<1> QED
  BY <1>1, <1>2

\* A set of entries can be sorted: all but the last of them, and then that one.
LEMMA SortExists ==
  ASSUME NEW S \in SUBSET Entries
  PROVE  \E s \in SetToSeqs(S) : Ordered(s)
<1> DEFINE Good(T) == \E s \in SetToSeqs(T) : Ordered(s)
           Bad == {n \in Nat : \E T \in SUBSET Entries : Cardinality(T) = n /\ ~Good(T)}
<1> HIDE DEF Good
<1>1. \A T \in SUBSET Entries : IsFiniteSet(T) /\ Cardinality(T) \in Nat
  BY EntriesAre, FS_Subset, FS_CardinalityType
<1>2. Bad = {}
  <2> SUFFICES ASSUME Bad # {} PROVE FALSE
    OBVIOUS
  <2>1. Bad \in SUBSET Nat
    OBVIOUS
  <2> HIDE DEF Bad
  <2>2. PICK n \in Bad : \A m \in Bad : n <= m
    BY <2>1, LeastNumber
  <2>3. n \in Nat /\ \E T \in SUBSET Entries : Cardinality(T) = n /\ ~Good(T)
    BY <2>2 DEF Bad
  <2>4. PICK T \in SUBSET Entries : Cardinality(T) = n /\ ~Good(T)
    BY <2>3
  <2>5. CASE T = {}
    <3>1. Cardinality(T) = 0 /\ DOMAIN <<>> = {}
      BY <2>5, FS_EmptySet
    <3>2. <<>> \in [1 .. 0 -> T] /\ 1 .. 0 = {}
      BY <2>5
    <3>3. <<>> \in SetToSeqs(T)
      BY <3>1, <3>2 DEF SetToSeqs
    <3>4. Ordered(<<>>)
      BY <3>1 DEF Ordered
    <3> QED
      BY <2>4, <3>3, <3>4 DEF Good
  <2>6. CASE T # {}
    <3>1. PICK e \in T : \A x \in T \ {e} : Before(x, e)
      BY <2>6, LastOf
    <3>2. /\ Cardinality(T \ {e}) = n - 1 /\ n - 1 \in Nat
          /\ T \ {e} \in SUBSET Entries
      <4>1. Cardinality(T \ {e}) = n - 1
        BY <2>4, <1>1, FS_RemoveElement
      <4>2. Cardinality(T \ {e}) \in Nat
        BY <1>1
      <4> QED
        BY <4>1, <4>2
    <3>3. Good(T \ {e})
      <4>1. n - 1 \notin Bad
        BY <2>2, <2>3, <3>2
      <4> QED
        BY <3>2, <4>1 DEF Bad
    <3>4. PICK t \in SetToSeqs(T \ {e}) : Ordered(t)
      BY <3>3 DEF Good
    <3>5. /\ t \in [1 .. n - 1 -> T \ {e}] /\ DOMAIN t = 1 .. n - 1
          /\ \A i, j \in 1 .. n - 1 : i # j => t[i] # t[j]
      BY <3>4, <3>2 DEF SetToSeqs
    <3> DEFINE s == [i \in 1 .. n |-> IF i = n THEN e ELSE t[i]]
    <3>6. \A i \in 1 .. n : i # n => i \in 1 .. n - 1
      BY <2>3
    <3>7. s \in [1 .. n -> T] /\ DOMAIN s = 1 .. n
      BY <3>5, <3>6
    <3>8. \A i, j \in 1 .. n : i # j => s[i] # s[j]
      BY <3>5, <3>6
    <3>9. s \in SetToSeqs(T)
      BY <3>7, <3>8, <2>4 DEF SetToSeqs
    <3>10. Ordered(s)
      <4> SUFFICES ASSUME NEW i \in 1 .. n, NEW j \in 1 .. n, i < j
                   PROVE  Before(s[i], s[j])
        BY <3>7 DEF Ordered
      <4>1. i \in 1 .. n - 1 /\ s[i] = t[i] /\ t[i] \in T \ {e}
        BY <2>3, <3>5
      <4>2. CASE j = n
        <5>1. s[j] = e
          BY <4>2
        <5> QED
          BY <3>1, <4>1, <5>1
      <4>3. CASE j # n
        <5>1. j \in 1 .. n - 1 /\ s[j] = t[j]
          BY <4>3, <3>6
        <5> QED
          BY <3>4, <3>5, <4>1, <5>1 DEF Ordered
      <4> QED
        BY <4>2, <4>3
    <3> QED
      BY <2>4, <3>9, <3>10 DEF Good
  <2> QED
    BY <2>5, <2>6
<1>3. Good(S)
  <2>1. Cardinality(S) \in Nat
    BY <1>1
  <2> QED
    BY <1>2, <2>1
<1> QED
  BY <1>3 DEF Good

\* What qsort leaves: the entries of the set, each once, in order.
LEMMA SortedIs ==
  ASSUME NEW S \in SUBSET Entries
  PROVE  /\ Sorted(S) \in Seq(S)
         /\ Ordered(Sorted(S))
         /\ \A x \in S : \E i \in DOMAIN Sorted(S) : Sorted(S)[i] = x
<1> DEFINE n == Cardinality(S)
           s == Sorted(S)
<1>1. IsFiniteSet(S) /\ n \in Nat
  BY EntriesAre, FS_Subset, FS_CardinalityType
<1>2. s \in SetToSeqs(S) /\ Ordered(s)
  <2>1. \E t \in SetToSeqs(S) : \A k, l \in DOMAIN t : k < l => Before(t[k], t[l])
    BY SortExists DEF Ordered
  <2> QED
    BY <2>1 DEF Sorted, Ordered
<1> HIDE DEF s
<1>3. s \in [1 .. n -> S] /\ \A i, j \in 1 .. n : i # j => s[i] # s[j]
  BY <1>2 DEF SetToSeqs
<1> HIDE DEF n
<1>4. s \in Seq(S) /\ DOMAIN s = 1 .. n
  BY <1>1, <1>3, SeqDef
<1>5. s \in Injection(1 .. n, S)
  BY <1>3 DEF Injection, IsInjective
<1>6. Cardinality(1 .. n) = n
  BY <1>1, FS_Interval
<1>7. s \in Surjection(1 .. n, S)
  BY <1>1, <1>5, <1>6, FS_Injection DEF n
<1>8. \A x \in S : \E i \in 1 .. n : s[i] = x
  BY <1>7 DEF Surjection
<1> QED
  BY <1>2, <1>4, <1>8 DEF s

(***************************************************************************)
(* The calls of processDir.                                                *)
(***************************************************************************)

Frame == [dir : Entries, at : {"open", "read", "visit"}, children : Seq(Entries), i : Nat]

\* What a call has: entries of its directory, in order.
FrameOK(f) ==
  /\ f.at # "open" => IsDir(f.dir)
  /\ f.at # "visit" => f.i = 1
  /\ f.i \in 1 .. Len(f.children) + 1
  /\ \A j \in DOMAIN f.children : f.children[j] \in EntriesOf(f.dir)
  /\ Ordered(f.children)

Stacked(s) == s \in Seq(Frame) /\ \A n \in DOMAIN s : FrameOK(s[n])

\* A call inside another is for the entry that the outer one visits; all are on
\* one path down from d.
Nested(s, d) ==
  /\ \A n \in DOMAIN s \ {1} :
       /\ s[n].at = "visit" /\ s[n].i > 1
       /\ s[n - 1].dir = s[n].children[s[n].i - 1]
  /\ \A m, n \in DOMAIN s : m < n =>
       s[n].dir \in Path[s[m].dir] /\ s[n].dir < s[m].dir
  /\ \A n \in DOMAIN s : d \in Path[s[n].dir]

\* What a call has yet to list, itself or in the calls that it makes.
Pends(f, x) ==
  IF f.at = "visit"
  THEN \E j \in f.i .. Len(f.children) : f.children[j] \in Path[x]
  ELSE x \in Below(f.dir)

Pending(s, x) == \E n \in DOMAIN s : Pends(s[n], x)

\* ToList, for the entries hidden.
Listable(d, hidden) == {e \in Below(d) : Path[e] \cap Below(d) \cap hidden = {}}

\* An entry to be listed is listed or pending, and what is listed comes before
\* all that is pending.
Covered(s, p, d, hidden) ==
  /\ \A x \in Entries : x \in Listable(d, hidden) <=> x \in Range(p) \/ Pending(s, x)
  /\ \A y \in Range(p), x \in Entries : Pending(s, x) => Follows(y, x)

OpenDirs(s) == {s[n].dir : n \in {m \in DOMAIN s : s[m].at # "open"}}

\* A stack is its top and the rest.
LEMMA Push ==
  ASSUME NEW f \in Frame, NEW r \in Seq(Frame)
  PROVE  LET s == <<f>> \o r
         IN  /\ s \in Seq(Frame) /\ s # <<>> /\ Head(s) = f /\ Tail(s) = r
             /\ Len(s) = Len(r) + 1 /\ s[1] = f /\ 1 \in DOMAIN s
             /\ \A n \in DOMAIN r : n + 1 \in DOMAIN s /\ n + 1 # 1 /\ s[n + 1] = r[n]
             /\ \A n \in DOMAIN s \ {1} :
                  n - 1 \in DOMAIN r /\ s[n] = r[n - 1] /\ n - 1 + 1 = n
<1> DEFINE s == <<f>> \o r
<1>1. <<f>> \in Seq(Frame) /\ Len(<<f>>) = 1 /\ <<f>>[1] = f
  OBVIOUS
<1>2. Len(r) \in Nat /\ DOMAIN r = 1 .. Len(r)
  BY LenProperties
<1>3. /\ s \in Seq(Frame) /\ Len(s) = Len(r) + 1
      /\ \A i \in 1 .. 1 + Len(r) : s[i] = IF i <= 1 THEN <<f>>[i] ELSE r[i - 1]
  BY <1>1, <1>2, ConcatProperties
<1> HIDE DEF s
<1>4. DOMAIN s = 1 .. Len(r) + 1 /\ s # <<>>
  BY <1>2, <1>3, LenProperties, EmptySeq
<1>5. s[1] = f /\ 1 \in DOMAIN s
  BY <1>1, <1>2, <1>3, <1>4
<1>6. ASSUME NEW n \in DOMAIN r
      PROVE  n + 1 \in DOMAIN s /\ n + 1 # 1 /\ s[n + 1] = r[n]
  <2>1. n \in Nat /\ n >= 1 /\ n + 1 \in 1 .. 1 + Len(r) /\ ~ n + 1 <= 1 /\ n + 1 - 1 = n
    BY <1>2, <1>6
  <2>2. s[n + 1] = r[n + 1 - 1]
    BY <2>1, <1>3
  <2> QED
    BY <1>2, <1>4, <2>1, <2>2
<1>7. ASSUME NEW n \in DOMAIN s \ {1}
      PROVE  n - 1 \in DOMAIN r /\ s[n] = r[n - 1] /\ n - 1 + 1 = n
  <2>1. n \in 1 .. 1 + Len(r) /\ ~ n <= 1 /\ n - 1 \in 1 .. Len(r) /\ n - 1 + 1 = n
    BY <1>2, <1>4, <1>7
  <2> QED
    BY <1>2, <1>3, <2>1
<1>8. Head(s) = f
  BY <1>3, <1>4, <1>5
<1>9. Tail(s) = r
  <2>1. Tail(s) \in Seq(Frame) /\ Len(Tail(s)) = Len(r)
    BY <1>2, <1>3, <1>4, HeadTailProperties
  <2>2. \A i \in 1 .. Len(r) : Tail(s)[i] = r[i]
    BY <1>2, <1>3, <1>4, <1>6, <2>1, HeadTailProperties
  <2> QED
    BY <2>1, <2>2, SeqEqual
<1> QED
  BY <1>3, <1>4, <1>5, <1>6, <1>7, <1>8, <1>9 DEF s

LEMMA Pop ==
  ASSUME NEW s \in Seq(Frame), s # <<>>
  PROVE  /\ Head(s) \in Frame /\ Tail(s) \in Seq(Frame)
         /\ s = <<Head(s)>> \o Tail(s)
<1>1. /\ Head(s) \in Frame /\ Tail(s) \in Seq(Frame) /\ Len(s) \in Nat /\ Len(s) # 0
      /\ Len(Tail(s)) = Len(s) - 1 /\ Head(s) = s[1]
      /\ \A i \in 1 .. Len(Tail(s)) : Tail(s)[i] = s[i + 1]
  BY HeadTailProperties, EmptySeq, LenProperties
<1> DEFINE f == Head(s)
           r == Tail(s)
<1> HIDE DEF f, r
<1>2. <<f>> \in Seq(Frame) /\ Len(<<f>>) = 1 /\ <<f>>[1] = f
  BY <1>1 DEF f
<1>3. /\ <<f>> \o r \in Seq(Frame) /\ Len(<<f>> \o r) = Len(s)
      /\ \A i \in 1 .. Len(s) : (<<f>> \o r)[i] = IF i <= 1 THEN <<f>>[i] ELSE r[i - 1]
  BY <1>1, <1>2, ConcatProperties DEF f, r
<1>4. \A i \in 1 .. Len(s) : (<<f>> \o r)[i] = s[i]
  <2> SUFFICES ASSUME NEW i \in 1 .. Len(s) PROVE (<<f>> \o r)[i] = s[i]
    OBVIOUS
  <2>1. CASE i = 1
    BY <1>1, <1>2, <1>3, <2>1 DEF f
  <2>2. CASE i # 1
    <3>1. i - 1 \in 1 .. Len(s) - 1 /\ ~ i <= 1 /\ i - 1 + 1 = i
      BY <1>1, <2>2
    <3>2. r[i - 1] = s[i - 1 + 1]
      BY <1>1, <3>1 DEF r
    <3> QED
      BY <1>3, <3>1, <3>2
  <2> QED
    BY <2>1, <2>2
<1>5. <<f>> \o r = s
  BY <1>3, <1>4, SeqEqual
<1> QED
  BY <1>1, <1>5 DEF f, r

\* What the parts of the invariant say of a stack, by its top and the rest.
LEMMA PushStacked ==
  ASSUME NEW f \in Frame, NEW r \in Seq(Frame)
  PROVE  Stacked(<<f>> \o r) <=> FrameOK(f) /\ Stacked(r)
<1> DEFINE s == <<f>> \o r
<1>1. /\ s \in Seq(Frame) /\ s[1] = f /\ 1 \in DOMAIN s
      /\ \A n \in DOMAIN r : n + 1 \in DOMAIN s /\ s[n + 1] = r[n]
      /\ \A n \in DOMAIN s \ {1} : n - 1 \in DOMAIN r /\ s[n] = r[n - 1]
  BY Push
<1> HIDE DEF s
<1>2. ASSUME Stacked(s) PROVE FrameOK(f) /\ Stacked(r)
  <2>1. \A n \in DOMAIN s : FrameOK(s[n])
    BY <1>2 DEF Stacked
  <2>2. FrameOK(f) /\ \A n \in DOMAIN r : FrameOK(r[n])
    BY <1>1, <2>1
  <2> QED
    BY <2>2 DEF Stacked
<1>3. ASSUME FrameOK(f), Stacked(r) PROVE Stacked(s)
  <2>1. \A n \in DOMAIN r : FrameOK(r[n])
    BY <1>3 DEF Stacked
  <2>2. \A n \in DOMAIN s : FrameOK(s[n])
    BY <1>1, <1>3, <2>1
  <2> QED
    BY <1>1, <2>2 DEF Stacked
<1> QED
  BY <1>2, <1>3 DEF s

LEMMA PushPending ==
  ASSUME NEW f \in Frame, NEW r \in Seq(Frame), NEW x
  PROVE  Pending(<<f>> \o r, x) <=> Pends(f, x) \/ Pending(r, x)
<1> DEFINE s == <<f>> \o r
<1>1. /\ s[1] = f /\ 1 \in DOMAIN s
      /\ \A n \in DOMAIN r : n + 1 \in DOMAIN s /\ s[n + 1] = r[n]
      /\ \A n \in DOMAIN s \ {1} : n - 1 \in DOMAIN r /\ s[n] = r[n - 1]
  BY Push
<1> HIDE DEF s
<1>2. Pending(s, x) <=> Pends(f, x) \/ Pending(r, x)
  BY <1>1 DEF Pending
<1> QED
  BY <1>2 DEF s

LEMMA PushOpenDirs ==
  ASSUME NEW f \in Frame, NEW r \in Seq(Frame)
  PROVE  OpenDirs(<<f>> \o r) = OpenDirs(r) \cup (IF f.at = "open" THEN {} ELSE {f.dir})
<1> DEFINE s == <<f>> \o r
<1>1. /\ s[1] = f /\ 1 \in DOMAIN s
      /\ \A n \in DOMAIN r : n + 1 \in DOMAIN s /\ s[n + 1] = r[n]
      /\ \A n \in DOMAIN s \ {1} : n - 1 \in DOMAIN r /\ s[n] = r[n - 1]
  BY Push
<1> HIDE DEF s
<1>2. OpenDirs(s) = OpenDirs(r) \cup (IF f.at = "open" THEN {} ELSE {f.dir})
  <2>1. \A d : d \in OpenDirs(s) <=> \E n \in DOMAIN s : s[n].at # "open" /\ d = s[n].dir
    BY DEF OpenDirs
  <2>2. \A d : d \in OpenDirs(r) <=> \E n \in DOMAIN r : r[n].at # "open" /\ d = r[n].dir
    BY DEF OpenDirs
  <2>3. ASSUME NEW d PROVE d \in OpenDirs(s) <=> d \in OpenDirs(r) \/ (f.at # "open" /\ d = f.dir)
    <3>1. ASSUME NEW n \in DOMAIN s, s[n].at # "open", d = s[n].dir
          PROVE  d \in OpenDirs(r) \/ (f.at # "open" /\ d = f.dir)
      <4>1. CASE n = 1
        BY <1>1, <3>1, <4>1
      <4>2. CASE n # 1
        <5>1. n - 1 \in DOMAIN r /\ s[n] = r[n - 1]
          BY <1>1, <4>2
        <5> QED
          BY <2>2, <3>1, <5>1
      <4> QED
        BY <4>1, <4>2
    <3>2. ASSUME NEW n \in DOMAIN r, r[n].at # "open", d = r[n].dir
          PROVE  d \in OpenDirs(s)
      <4>1. n + 1 \in DOMAIN s /\ s[n + 1] = r[n]
        BY <1>1
      <4> QED
        BY <2>1, <3>2, <4>1
    <3>3. ASSUME f.at # "open", d = f.dir PROVE d \in OpenDirs(s)
      BY <1>1, <2>1, <3>3
    <3> QED
      BY <2>1, <2>2, <3>1, <3>2, <3>3
  <2> QED
    BY <2>3
<1> QED
  BY <1>2 DEF s

LEMMA PushNested ==
  ASSUME NEW f \in Frame, NEW r \in Seq(Frame), NEW d
  PROVE  Nested(<<f>> \o r, d) <=>
           /\ Nested(r, d) /\ d \in Path[f.dir]
           /\ r # <<>> => /\ r[1].at = "visit" /\ r[1].i > 1
                          /\ f.dir = r[1].children[r[1].i - 1]
           /\ \A n \in DOMAIN r : r[n].dir \in Path[f.dir] /\ r[n].dir < f.dir
<1> DEFINE s == <<f>> \o r
<1>1. /\ s[1] = f /\ 1 \in DOMAIN s
      /\ \A n \in DOMAIN r : n + 1 \in DOMAIN s /\ n + 1 # 1 /\ s[n + 1] = r[n]
      /\ \A n \in DOMAIN s \ {1} : n - 1 \in DOMAIN r /\ s[n] = r[n - 1] /\ n - 1 + 1 = n
  BY Push
<1>2. /\ DOMAIN r = 1 .. Len(r) /\ Len(r) \in Nat /\ DOMAIN s = 1 .. Len(r) + 1
      /\ (r # <<>> <=> 1 \in DOMAIN r)
  BY LenProperties, EmptySeq, Push
<1> HIDE DEF s
<1>3. ASSUME Nested(s, d)
      PROVE  /\ Nested(r, d) /\ d \in Path[f.dir]
             /\ r # <<>> => /\ r[1].at = "visit" /\ r[1].i > 1
                            /\ f.dir = r[1].children[r[1].i - 1]
             /\ \A n \in DOMAIN r : r[n].dir \in Path[f.dir] /\ r[n].dir < f.dir
  <2>1. /\ \A n \in DOMAIN s \ {1} : /\ s[n].at = "visit" /\ s[n].i > 1
                                     /\ s[n - 1].dir = s[n].children[s[n].i - 1]
        /\ \A m, n \in DOMAIN s : m < n => s[n].dir \in Path[s[m].dir] /\ s[n].dir < s[m].dir
        /\ \A n \in DOMAIN s : d \in Path[s[n].dir]
    BY <1>3 DEF Nested
  <2>2. ASSUME NEW n \in DOMAIN r \ {1}
        PROVE  /\ r[n].at = "visit" /\ r[n].i > 1
               /\ r[n - 1].dir = r[n].children[r[n].i - 1]
    <3>1. n + 1 \in DOMAIN s \ {1} /\ s[n + 1] = r[n] /\ n - 1 \in DOMAIN r /\ n + 1 - 1 = n - 1 + 1
      BY <1>1, <1>2
    <3>2. s[n + 1 - 1] = r[n - 1]
      BY <1>1, <3>1
    <3> QED
      BY <2>1, <3>1, <3>2
  <2>3. ASSUME NEW m \in DOMAIN r, NEW n \in DOMAIN r, m < n
        PROVE  r[n].dir \in Path[r[m].dir] /\ r[n].dir < r[m].dir
    <3>1. m + 1 \in DOMAIN s /\ n + 1 \in DOMAIN s /\ m + 1 < n + 1
      BY <1>1, <1>2, <2>3
    <3> QED
      BY <1>1, <2>1, <3>1
  <2>4. \A n \in DOMAIN r : d \in Path[r[n].dir]
    BY <1>1, <2>1
  <2>5. ASSUME r # <<>>
        PROVE  /\ r[1].at = "visit" /\ r[1].i > 1
               /\ f.dir = r[1].children[r[1].i - 1]
    <3>1. 2 \in DOMAIN s \ {1} /\ s[2] = r[1] /\ 2 - 1 = 1
      BY <1>1, <1>2, <2>5
    <3> QED
      BY <1>1, <2>1, <3>1
  <2>6. ASSUME NEW n \in DOMAIN r
        PROVE  r[n].dir \in Path[f.dir] /\ r[n].dir < f.dir
    <3>1. n + 1 \in DOMAIN s /\ 1 < n + 1 /\ s[n + 1] = r[n]
      BY <1>1, <1>2
    <3> QED
      BY <1>1, <2>1, <3>1
  <2> QED
    BY <2>2, <2>3, <2>4, <2>5, <2>6, <2>1, <1>1 DEF Nested
<1>4. ASSUME Nested(r, d), d \in Path[f.dir],
             r # <<>> => /\ r[1].at = "visit" /\ r[1].i > 1
                         /\ f.dir = r[1].children[r[1].i - 1],
             \A n \in DOMAIN r : r[n].dir \in Path[f.dir] /\ r[n].dir < f.dir
      PROVE  Nested(s, d)
  <2>1. /\ \A n \in DOMAIN r \ {1} : /\ r[n].at = "visit" /\ r[n].i > 1
                                     /\ r[n - 1].dir = r[n].children[r[n].i - 1]
        /\ \A m, n \in DOMAIN r : m < n => r[n].dir \in Path[r[m].dir] /\ r[n].dir < r[m].dir
        /\ \A n \in DOMAIN r : d \in Path[r[n].dir]
    BY <1>4 DEF Nested
  <2>2. ASSUME NEW n \in DOMAIN s \ {1}
        PROVE  /\ s[n].at = "visit" /\ s[n].i > 1
               /\ s[n - 1].dir = s[n].children[s[n].i - 1]
    <3>1. n - 1 \in DOMAIN r /\ s[n] = r[n - 1] /\ n \in Nat
      BY <1>1, <1>2
    <3>2. CASE n - 1 = 1
      <4>1. r # <<>>
        BY <1>2, <3>1, <3>2
      <4> QED
        BY <1>1, <1>4, <3>1, <3>2, <4>1
    <3>3. CASE n - 1 # 1
      <4>1. n - 1 \in DOMAIN s \ {1}
        <5>1. n - 1 \in 1 .. Len(r) + 1
          BY <1>2, <3>1
        <5> QED
          BY <1>2, <3>3, <5>1
      <4>2. s[n - 1] = r[n - 1 - 1]
        BY <1>1, <4>1
      <4> QED
        BY <2>1, <3>1, <3>3, <4>2
    <3> QED
      BY <3>2, <3>3
  <2>3. ASSUME NEW m \in DOMAIN s, NEW n \in DOMAIN s, m < n
        PROVE  s[n].dir \in Path[s[m].dir] /\ s[n].dir < s[m].dir
    <3>1. n # 1 /\ n - 1 \in DOMAIN r /\ s[n] = r[n - 1] /\ n \in Nat /\ m \in Nat
      BY <1>1, <1>2, <2>3
    <3>2. CASE m = 1
      BY <1>1, <1>4, <3>1, <3>2
    <3>3. CASE m # 1
      <4>1. m - 1 \in DOMAIN r /\ s[m] = r[m - 1] /\ m - 1 < n - 1
        BY <1>1, <2>3, <3>1, <3>3
      <4> QED
        BY <2>1, <3>1, <4>1
    <3> QED
      BY <3>2, <3>3
  <2>4. \A n \in DOMAIN s : d \in Path[s[n].dir]
    BY <1>1, <1>4, <2>1
  <2> QED
    BY <2>2, <2>3, <2>4 DEF Nested
<1> QED
  BY <1>3, <1>4 DEF s

(***************************************************************************)
(* What is pending.                                                        *)
(***************************************************************************)

\* What a call has to list is below its directory.
LEMMA PendsBelow ==
  ASSUME TreeInv, NEW f \in Frame, FrameOK(f), NEW x \in Entries, Pends(f, x)
  PROVE  x \in Below(f.dir)
<1>1. f.dir \in Entries /\ f.i \in Nat /\ f.children \in Seq(Entries)
  BY DEF Frame
<1>2. CASE f.at # "visit"
  BY <1>2 DEF Pends
<1>3. CASE f.at = "visit"
  <2>1. PICK j \in f.i .. Len(f.children) : f.children[j] \in Path[x]
    BY <1>3 DEF Pends
  <2>2. j \in DOMAIN f.children
    <3>1. /\ DOMAIN f.children = 1 .. Len(f.children) /\ Len(f.children) \in Nat
          /\ f.i \in 1 .. Len(f.children) + 1
      BY <1>1, LenProperties DEF FrameOK
    <3> QED
      BY <3>1, <2>1
  <2> DEFINE c == f.children[j]
  <2>3. c \in EntriesOf(f.dir)
    BY <2>2 DEF FrameOK
  <2>4. c \in Path[x]
    BY <2>1
  <2> HIDE DEF c
  <2>5. /\ c \in Entries /\ c # 1 /\ parent[c] = f.dir /\ c \in Nat /\ x \in Nat
        /\ f.dir \in Nat
    BY <1>1, <2>3, EntriesAre DEF EntriesOf
  <2>6. Path[c] = Path[f.dir] \cup {c} /\ f.dir < c /\ f.dir \in Path[f.dir]
    BY <1>1, <2>5, PathStep, PathBounds
  <2>7. f.dir \in Path[x]
    BY <2>4, <2>5, <2>6, PathTransitive
  <2>8. c <= x
    BY <2>4, PathBounds
  <2>9. x # f.dir
    BY <2>5, <2>6, <2>8
  <2> QED
    BY <1>1, <2>7, <2>9, BelowIs
<1> QED
  BY <1>2, <1>3

\* What the calls outside the innermost one have yet to list comes after all
\* that is in its directory.
LEMMA OuterFollows ==
  ASSUME TreeInv, NEW f \in Frame, NEW r \in Seq(Frame), NEW d,
         Stacked(<<f>> \o r), Nested(<<f>> \o r, d),
         NEW x \in Entries, Pending(r, x), NEW e \in Entries, f.dir \in Path[e]
  PROVE  Follows(e, x)
<1> DEFINE s == <<f>> \o r
<1>1. /\ s \in Seq(Frame) /\ s[1] = f /\ 1 \in DOMAIN s
      /\ \A n \in DOMAIN r : n + 1 \in DOMAIN s /\ n + 1 # 1 /\ s[n + 1] = r[n]
  BY Push
<1>2. DOMAIN s = 1 .. Len(s) /\ Len(s) \in Nat /\ DOMAIN r = 1 .. Len(r) /\ Len(r) \in Nat
  BY <1>1, LenProperties
<1>3. Stacked(s) /\ Nested(s, d)
  OBVIOUS
<1> HIDE DEF s
<1>4. PICK k \in DOMAIN r : Pends(r[k], x)
  BY DEF Pending
<1> DEFINE n == k + 1
<1>5. n \in DOMAIN s /\ n # 1 /\ s[n] = r[k] /\ n - 1 \in DOMAIN s
  BY <1>1, <1>2
<1> HIDE DEF n
<1> DEFINE g == s[n]
<1>6. g \in Frame /\ FrameOK(g) /\ Pends(g, x) /\ g.at = "visit" /\ g.i > 1
      /\ s[n - 1] \in Frame /\ s[n - 1].dir = g.children[g.i - 1]
  BY <1>1, <1>2, <1>3, <1>4, <1>5, ElementOfSeq DEF Stacked, Nested
<1>7. /\ g.dir \in Entries /\ g.children \in Seq(Entries) /\ g.i \in Nat
      /\ DOMAIN g.children = 1 .. Len(g.children) /\ Len(g.children) \in Nat
      /\ s[n - 1].dir \in Entries /\ f.dir \in Entries
  BY <1>6, LenProperties DEF Frame
<1> HIDE DEF g
<1>8. PICK j \in g.i .. Len(g.children) : g.children[j] \in Path[x]
  BY <1>6 DEF Pends
<1> DEFINE c == s[n - 1].dir
           w == g.children[j]
<1>9. j \in DOMAIN g.children /\ g.i - 1 \in DOMAIN g.children /\ g.i - 1 < j
  BY <1>6, <1>7, <1>8
<1>10. Before(c, w) /\ c \in EntriesOf(g.dir) /\ w \in EntriesOf(g.dir) /\ w \in Path[x]
  BY <1>6, <1>8, <1>9 DEF FrameOK, Ordered
<1>11. c \in Path[f.dir]
  <2>1. CASE n - 1 = 1
    BY <1>1, <1>7, <2>1, PathBounds
  <2>2. CASE n - 1 # 1
    <3>1. 1 < n - 1
      BY <1>2, <1>5, <2>2
    <3> QED
      BY <1>1, <1>3, <1>5, <3>1 DEF Nested
  <2> QED
    BY <2>1, <2>2
<1> HIDE DEF c, w
<1>12. c \in Path[e]
  BY <1>7, <1>11, PathTransitive
<1>13. c # 1 /\ w # 1 /\ parent[c] = parent[w]
  BY <1>10 DEF EntriesOf
<1> QED
  BY <1>10, <1>12, <1>13, BeforeFollows

\* So nothing is pending in two calls.
LEMMA OuterApart ==
  ASSUME TreeInv, NEW f \in Frame, NEW r \in Seq(Frame), NEW d,
         Stacked(<<f>> \o r), Nested(<<f>> \o r, d), NEW x \in Entries, f.dir \in Path[x]
  PROVE  ~Pending(r, x)
  BY OuterFollows, FollowsIrreflexive

(***************************************************************************)
(* Steps of the walk.                                                      *)
(***************************************************************************)

\* d is walked: p is listed, s has what is left.
Walked(s, p, d, hidden) ==
  Stacked(s) /\ Nested(s, d) /\ Covered(s, p, d, hidden)

\* Another frame for the same directory, and as much pending.
LEMMA StepSame ==
  ASSUME NEW f \in Frame, NEW g \in Frame, NEW r \in Seq(Frame),
         NEW p \in Seq(Entries), NEW d, NEW hidden,
         Walked(<<f>> \o r, p, d, hidden), FrameOK(g), g.dir = f.dir,
         \A x \in Entries : Pends(g, x) <=> Pends(f, x)
  PROVE  Walked(<<g>> \o r, p, d, hidden)
<1>1. Stacked(<<g>> \o r)
  BY PushStacked DEF Walked
<1>2. Nested(<<g>> \o r, d)
  BY PushNested DEF Walked
<1>3. \A x \in Entries : Pending(<<g>> \o r, x) <=> Pending(<<f>> \o r, x)
  BY PushPending
<1>4. Covered(<<g>> \o r, p, d, hidden)
  BY <1>3 DEF Walked, Covered
<1> QED
  BY <1>1, <1>2, <1>4 DEF Walked

\* Entries of the innermost call's directory that no call lists any more, and
\* what is below them, are neither listed nor pending elsewhere.
LEMMA CoverHide ==
  ASSUME TreeInv, NEW f \in Frame, NEW r \in Seq(Frame), NEW s,
         NEW p \in Seq(Entries), NEW d \in Entries, NEW hidden,
         Walked(<<f>> \o r, p, d, hidden), f.at # "visit",
         NEW lost \in SUBSET EntriesOf(f.dir),
         \A x \in Entries : Pending(s, x) <=>
           \/ Pending(r, x)
           \/ Pends(f, x) /\ Path[x] \cap lost = {}
  PROVE  Covered(s, p, d, hidden \cup lost)
<1>1. /\ Stacked(<<f>> \o r) /\ Nested(<<f>> \o r, d)
      /\ Covered(<<f>> \o r, p, d, hidden) /\ f.dir \in Entries
  BY DEF Walked, Frame
<1>2. d \in Path[f.dir]
  BY <1>1, PushNested
<1>3. ASSUME NEW x \in Entries, NEW c \in lost, c \in Path[x]
      PROVE  f.dir \in Path[x] /\ Pends(f, x)
  <2>1. c \in Below(f.dir) /\ c \in Entries /\ f.dir \in Path[c] /\ c # f.dir
    BY <1>1, BelowIs
  <2>2. f.dir \in Path[x]
    BY <1>3, <2>1, PathTransitive
  <2>3. c <= x /\ f.dir <= c /\ c \in Nat /\ x \in Nat /\ f.dir \in Nat
    BY <1>1, <1>3, <2>1, PathBounds, EntriesAre
  <2>4. x # f.dir
    BY <2>1, <2>3
  <2> QED
    BY <1>1, <2>2, <2>4, BelowIs DEF Pends
<1>4. \A x \in Entries : Pending(<<f>> \o r, x) <=> Pends(f, x) \/ Pending(r, x)
  BY PushPending
<1>5. ASSUME NEW x \in Entries, Pending(r, x) PROVE Path[x] \cap lost = {}
  BY <1>1, <1>3, <1>5, OuterApart
<1>6. ASSUME NEW x \in Entries, x \in Range(p) PROVE Path[x] \cap lost = {}
  <2> SUFFICES ASSUME NEW c \in lost, c \in Path[x] PROVE FALSE
    OBVIOUS
  <2>1. Pends(f, x)
    BY <1>3
  <2>2. Follows(x, x)
    BY <1>1, <1>4, <1>6, <2>1 DEF Covered
  <2> QED
    BY <2>2, FollowsIrreflexive
<1>7. ASSUME NEW x \in Entries
      PROVE  x \in Listable(d, hidden \cup lost) <=>
               x \in Listable(d, hidden) /\ Path[x] \cap lost = {}
  <2>1. lost \subseteq Below(d)
    <3> SUFFICES ASSUME NEW c \in lost PROVE c \in Below(d)
      OBVIOUS
    <3>1. c \in Below(f.dir) /\ c \in Entries /\ f.dir \in Path[c] /\ c # f.dir
      BY <1>1, BelowIs
    <3>2. d \in Path[c]
      BY <1>2, <3>1, PathTransitive
    <3>3. d <= f.dir /\ f.dir <= c /\ c \in Nat /\ d \in Nat /\ f.dir \in Nat
      BY <1>1, <1>2, <3>1, PathBounds, EntriesAre
    <3>4. c # d
      BY <3>1, <3>3
    <3> QED
      BY <3>1, <3>2, <3>4, BelowIs
  <2> QED
    BY <2>1 DEF Listable
<1>8. \A x \in Entries : Pending(s, x) <=> Pending(<<f>> \o r, x) /\ Path[x] \cap lost = {}
  BY <1>4, <1>5
<1>9. ASSUME NEW x \in Entries
      PROVE  x \in Listable(d, hidden \cup lost) <=> x \in Range(p) \/ Pending(s, x)
  <2>1. x \in Listable(d, hidden) <=> x \in Range(p) \/ Pending(<<f>> \o r, x)
    BY <1>1 DEF Covered
  <2> QED
    BY <1>6, <1>7, <1>8, <2>1
<1>10. \A y \in Range(p), x \in Entries : Pending(s, x) => Follows(y, x)
  BY <1>1, <1>8 DEF Covered
<1> QED
  BY <1>9, <1>10 DEF Covered

\* The call is given up before it has listed anything.
LEMMA StepDrop ==
  ASSUME TreeInv, NEW f \in Frame, NEW r \in Seq(Frame),
         NEW p \in Seq(Entries), NEW d \in Entries, NEW hidden,
         Walked(<<f>> \o r, p, d, hidden), f.at # "visit"
  PROVE  Walked(r, p, d, hidden \cup EntriesOf(f.dir))
<1>1. f.dir \in Entries
  BY DEF Frame
<1>2. ASSUME NEW x \in Entries, Pends(f, x) PROVE Path[x] \cap EntriesOf(f.dir) # {}
  <2>1. x # f.dir /\ f.dir \in Path[x]
    BY <1>1, <1>2, BelowIs DEF Pends
  <2> QED
    BY <1>1, <2>1, PathDown
<1>3. Covered(r, p, d, hidden \cup EntriesOf(f.dir))
  BY <1>2, CoverHide
<1> QED
  BY <1>3, PushStacked, PushNested DEF Walked

\* The call has read its directory, all of it or a part.
LEMMA StepRead ==
  ASSUME TreeInv, NEW f \in Frame, NEW g \in Frame, NEW r \in Seq(Frame),
         NEW p \in Seq(Entries), NEW d \in Entries, NEW hidden,
         Walked(<<f>> \o r, p, d, hidden), f.at = "read", f.i = 1,
         NEW read \in SUBSET EntriesOf(f.dir),
         g.dir = f.dir, g.at = "visit", g.i = 1, g.children = Sorted(read)
  PROVE  Walked(<<g>> \o r, p, d, hidden \cup (EntriesOf(f.dir) \ read))
<1> DEFINE lost == EntriesOf(f.dir) \ read
<1>1. f.dir \in Entries /\ read \in SUBSET Entries /\ FrameOK(f)
  BY PushStacked DEF Frame, Walked, EntriesOf
<1>2. /\ g.children \in Seq(read) /\ Ordered(g.children)
      /\ \A x \in read : \E i \in DOMAIN g.children : g.children[i] = x
  BY <1>1, SortedIs
<1>3. /\ DOMAIN g.children = 1 .. Len(g.children) /\ Len(g.children) \in Nat
      /\ \A i \in DOMAIN g.children : g.children[i] \in read
  BY <1>2, LenProperties, ElementOfSeq
<1>4. FrameOK(g)
  BY <1>1, <1>2, <1>3 DEF FrameOK
<1>5. ASSUME NEW x \in Entries PROVE Pends(g, x) <=> \E c \in read : c \in Path[x]
  <2>1. Pends(g, x) <=> \E j \in DOMAIN g.children : g.children[j] \in Path[x]
    BY <1>3 DEF Pends
  <2> QED
    BY <1>2, <1>3, <2>1
<1>6. ASSUME NEW x \in Entries PROVE Pends(g, x) <=> Pends(f, x) /\ Path[x] \cap lost = {}
  <2>1. ASSUME NEW c \in read, c \in Path[x]
        PROVE  Pends(f, x) /\ Path[x] \cap lost = {}
    <3>1. c \in Entries /\ c # 1 /\ parent[c] = f.dir
      BY DEF EntriesOf
    <3>2. x \in Below(f.dir)
      BY <1>1, <1>4, <1>5, <2>1, PendsBelow
    <3>3. ASSUME NEW b \in lost, b \in Path[x] PROVE FALSE
      <4>1. b # 1 /\ parent[b] = f.dir /\ b \notin read
        BY DEF EntriesOf
      <4>2. b = c
        BY <2>1, <3>1, <3>3, <4>1, PathUnique
      <4> QED
        BY <4>1, <4>2
    <3> QED
      BY <3>2, <3>3 DEF Pends
  <2>2. ASSUME Pends(f, x), Path[x] \cap lost = {}
        PROVE  \E c \in read : c \in Path[x]
    <3>1. x # f.dir /\ f.dir \in Path[x]
      BY <1>1, <2>2, BelowIs DEF Pends
    <3>2. PICK c \in EntriesOf(f.dir) : c \in Path[x]
      BY <1>1, <3>1, PathDown
    <3> QED
      BY <2>2, <3>2
  <2> QED
    BY <1>5, <2>1, <2>2
<1>7. \A x \in Entries : Pending(<<g>> \o r, x) <=>
        Pending(r, x) \/ (Pends(f, x) /\ Path[x] \cap lost = {})
  BY <1>6, PushPending
<1>8. Covered(<<g>> \o r, p, d, hidden \cup lost)
  BY <1>7, CoverHide
<1>9. Stacked(<<g>> \o r) /\ Nested(<<g>> \o r, d)
  BY <1>4, PushStacked, PushNested DEF Walked
<1> QED
  BY <1>8, <1>9 DEF Walked

\* The call returns when all is listed.
LEMMA StepReturn ==
  ASSUME NEW f \in Frame, NEW r \in Seq(Frame),
         NEW p \in Seq(Entries), NEW d \in Entries, NEW hidden,
         Walked(<<f>> \o r, p, d, hidden), f.at = "visit", f.i > Len(f.children)
  PROVE  Walked(r, p, d, hidden)
<1>1. f.i \in Nat /\ Len(f.children) \in Nat
  BY LenProperties DEF Frame
<1>2. \A x : ~Pends(f, x)
  BY <1>1 DEF Pends
<1>3. \A x \in Entries : Pending(<<f>> \o r, x) <=> Pending(r, x)
  BY <1>2, PushPending
<1>4. Covered(r, p, d, hidden)
  BY <1>3 DEF Covered, Walked
<1> QED
  BY <1>4, PushStacked, PushNested DEF Walked

LEMMA RangeAppend ==
  ASSUME NEW p \in Seq(Entries), NEW e \in Entries
  PROVE  /\ Append(p, e) \in Seq(Entries)
         /\ Range(Append(p, e)) = Range(p) \cup {e}
         /\ Range(p) \subseteq Entries
<1>1. /\ Append(p, e) \in Seq(Entries) /\ Len(Append(p, e)) = Len(p) + 1
      /\ \A i \in 1 .. Len(p) : Append(p, e)[i] = p[i]
      /\ Append(p, e)[Len(p) + 1] = e /\ Len(p) \in Nat
  BY AppendProperties, LenProperties
<1>2. /\ Range(p) = {p[i] : i \in 1 .. Len(p)}
      /\ Range(Append(p, e)) = {Append(p, e)[i] : i \in 1 .. Len(p) + 1}
  BY <1>1, RangeEquality
<1> DEFINE q == Append(p, e)
<1> HIDE DEF q
<1>3. ASSUME NEW i \in 1 .. Len(p) + 1 PROVE q[i] \in {p[j] : j \in 1 .. Len(p)} \cup {e}
  <2>1. i = Len(p) + 1 \/ i \in 1 .. Len(p)
    BY <1>1
  <2> QED
    BY <1>1, <2>1 DEF q
<1>4. ASSUME NEW i \in 1 .. Len(p) PROVE p[i] \in {q[j] : j \in 1 .. Len(p) + 1}
  <2>1. i \in 1 .. Len(p) + 1
    BY <1>1
  <2> QED
    BY <1>1, <2>1 DEF q
<1>5. e \in {q[j] : j \in 1 .. Len(p) + 1}
  <2>1. Len(p) + 1 \in 1 .. Len(p) + 1
    BY <1>1
  <2> QED
    BY <1>1, <2>1 DEF q
<1>6. {q[j] : j \in 1 .. Len(p) + 1} = {p[j] : j \in 1 .. Len(p)} \cup {e}
  BY <1>3, <1>4, <1>5
<1> QED
  BY <1>1, <1>2, <1>6, RangeOfSeq DEF q

\* A new call.
LEMMA CallIs ==
  ASSUME NEW e \in Entries
  PROVE  /\ Call(e) \in Frame /\ FrameOK(Call(e)) /\ Call(e).dir = e /\ Call(e).at = "open"
         /\ \A x : Pends(Call(e), x) <=> x \in Below(e)
<1> DEFINE none == <<>>
<1>1. none \in Seq(Entries) /\ Len(none) = 0 /\ DOMAIN none = {}
  OBVIOUS
<1> HIDE DEF none
<1>2. Call(e) = [dir |-> e, at |-> "open", children |-> none, i |-> 1]
  BY DEF Call, none
<1>3. Call(e) \in Frame /\ Call(e).dir = e /\ Call(e).at = "open"
  BY <1>1, <1>2 DEF Frame
<1>4. Call(e).i = 1 /\ Call(e).children = none
  BY <1>2
<1>5. FrameOK(Call(e))
  BY <1>1, <1>3, <1>4 DEF FrameOK, Ordered
<1>6. \A x : Pends(Call(e), x) <=> x \in Below(e)
  BY <1>3 DEF Pends
<1> QED
  BY <1>3, <1>5, <1>6

\* The walk of d begins.
LEMMA StepStart ==
  ASSUME TreeInv, NEW d \in Entries
  PROVE  Walked(<<Call(d)>>, <<>>, d, {})
<1>1. /\ <<>> \in Seq(Frame) /\ Stacked(<<>>) /\ Nested(<<>>, d)
      /\ \A x : ~Pending(<<>>, x)
  <2> DEFINE none == <<>>
  <2>1. none \in Seq(Frame) /\ DOMAIN none = {}
    OBVIOUS
  <2> HIDE DEF none
  <2>2. Stacked(none) /\ Nested(none, d) /\ \A x : ~Pending(none, x)
    BY <2>1 DEF Stacked, Nested, Pending
  <2> QED
    BY <2>1, <2>2 DEF none
<1>2. <<Call(d)>> = <<Call(d)>> \o <<>>
  <2>1. <<Call(d)>> \in Seq(Frame)
    BY CallIs
  <2> QED
    BY <2>1, ConcatEmptySeq
<1> DEFINE c == Call(d)
           none == <<>>
<1>3. c \in Frame /\ FrameOK(c) /\ c.dir = d /\ \A x : Pends(c, x) <=> x \in Below(d)
  BY CallIs
<1>4. d \in Path[d] /\ DOMAIN none = {}
  BY PathBounds
<1> HIDE DEF c, none
<1>5. Stacked(<<c>> \o none) /\ Nested(<<c>> \o none, d)
  BY <1>1, <1>3, <1>4, PushStacked, PushNested DEF none
<1>6. \A x : Pending(<<c>> \o none, x) <=> x \in Below(d)
  BY <1>1, <1>3, PushPending DEF none
<1>7. Stacked(<<Call(d)>>) /\ Nested(<<Call(d)>>, d)
  BY <1>2, <1>5 DEF c, none
<1>8. \A x : Pending(<<Call(d)>>, x) <=> x \in Below(d)
  BY <1>2, <1>6 DEF c, none
<1>9. Range(<<>>) = {} /\ Listable(d, {}) = Below(d)
  BY DEF Range, Listable
<1>10. Covered(<<Call(d)>>, <<>>, d, {})
  BY <1>8, <1>9 DEF Covered
<1> QED
  BY <1>7, <1>10 DEF Walked

\* The calls that there are when e has been counted.
Descend(e, t) == IF IsDir(e) THEN <<Call(e)>> \o t ELSE t

\* The next entry is listed, and walked if it is a directory.
LEMMA StepVisit ==
  ASSUME TreeInv, NEW f \in Frame, NEW g \in Frame, NEW r \in Seq(Frame),
         NEW p \in Seq(Entries), NEW d \in Entries, NEW hidden,
         Walked(<<f>> \o r, p, d, hidden), f.at = "visit", f.i <= Len(f.children),
         g.dir = f.dir, g.at = "visit", g.children = f.children, g.i = f.i + 1
  PROVE  LET e == f.children[f.i]
         IN  /\ Walked(Descend(e, <<g>> \o r), Append(p, e), d, hidden)
             /\ e \in Entries /\ e \notin Range(p)
             /\ \A y \in Range(p) : Follows(y, e)
<1> DEFINE e == f.children[f.i]
           s == Descend(e, <<g>> \o r)
<1>0. e = f.children[f.i] /\ s = IF IsDir(e) THEN <<Call(e)>> \o (<<g>> \o r) ELSE <<g>> \o r
  BY DEF Descend
<1> SUFFICES /\ Walked(s, Append(p, e), d, hidden)
             /\ e \in Entries /\ e \notin Range(p)
             /\ \A y \in Range(p) : Follows(y, e)
  OBVIOUS
<1> HIDE DEF e, s
<1>1. /\ Stacked(<<f>> \o r) /\ Nested(<<f>> \o r, d) /\ Covered(<<f>> \o r, p, d, hidden)
      /\ FrameOK(f) /\ Stacked(r) /\ Nested(r, d) /\ d \in Path[f.dir]
  BY PushStacked, PushNested DEF Walked
<1>2. /\ f.dir \in Entries /\ f.i \in Nat /\ f.i >= 1
      /\ DOMAIN f.children = 1 .. Len(f.children) /\ Len(f.children) \in Nat
      /\ f.i \in DOMAIN f.children
  <2>1. f.dir \in Entries /\ f.i \in Nat /\ f.children \in Seq(Entries)
    BY DEF Frame
  <2>2. DOMAIN f.children = 1 .. Len(f.children) /\ Len(f.children) \in Nat
    BY <2>1, LenProperties
  <2>3. f.i >= 1
    BY <1>1, <2>2 DEF FrameOK
  <2> QED
    BY <2>1, <2>2, <2>3
<1>3. e \in EntriesOf(f.dir) /\ e \in Entries /\ e # 1 /\ parent[e] = f.dir
  BY <1>0, <1>1, <1>2 DEF FrameOK, EntriesOf
<1>4. /\ f.dir \in Path[e] /\ e \in Path[e] /\ f.dir < e /\ e \in Nat /\ f.dir \in Nat
      /\ d \in Path[e]
  <2>1. Path[e] = Path[f.dir] \cup {e} /\ f.dir < e
    BY <1>3, PathStep
  <2> QED
    BY <1>1, <1>2, <1>3, <2>1, PathBounds, EntriesAre
<1>5. ASSUME NEW j \in f.i + 1 .. Len(f.children)
      PROVE  /\ Before(e, f.children[j]) /\ f.children[j] \in EntriesOf(f.dir)
             /\ f.children[j] # 1 /\ f.children[j] \in Entries
             /\ parent[f.children[j]] = parent[e]
  <2>1. j \in DOMAIN f.children /\ f.i < j
    BY <1>2
  <2> QED
    BY <1>0, <1>1, <1>2, <1>3, <2>1 DEF FrameOK, Ordered, EntriesOf
<1>6. ASSUME NEW x \in Entries
      PROVE  Pends(f, x) <=> e \in Path[x] \/ Pends(g, x)
  <2>1. \A j : j \in f.i .. Len(f.children) <=> j = f.i \/ j \in f.i + 1 .. Len(f.children)
    BY <1>2
  <2>2. Pends(f, x) <=> \E j \in f.i .. Len(f.children) : f.children[j] \in Path[x]
    BY DEF Pends
  <2>3. Pends(g, x) <=> \E j \in f.i + 1 .. Len(f.children) : f.children[j] \in Path[x]
    BY DEF Pends
  <2> QED
    BY <1>0, <2>1, <2>2, <2>3
<1>7. ASSUME NEW x \in Entries, Pends(g, x)
      PROVE  Follows(e, x)
  <2>1. PICK j \in f.i + 1 .. Len(f.children) : f.children[j] \in Path[x]
    BY <1>7 DEF Pends
  <2>2. /\ Before(e, f.children[j]) /\ f.children[j] # 1
        /\ parent[f.children[j]] = parent[e]
    BY <1>5
  <2> QED
    BY <1>3, <1>4, <2>1, <2>2, BeforeFollows
<1>8. ASSUME NEW x \in Entries, Pending(r, x)
      PROVE  Follows(e, x)
  BY <1>1, <1>3, <1>4, <1>8, OuterFollows
<1>9. ASSUME NEW x \in Entries
      PROVE  Pending(s, x) <=> x \in Below(e) \/ Pends(g, x) \/ Pending(r, x)
  <2>1. Pending(<<g>> \o r, x) <=> Pends(g, x) \/ Pending(r, x)
    BY PushPending
  <2>2. CASE IsDir(e)
    <3>1. Call(e) \in Frame /\ <<g>> \o r \in Seq(Frame)
      BY <1>3, CallIs, Push
    <3>2. Pending(<<Call(e)>> \o (<<g>> \o r), x) <=>
            Pends(Call(e), x) \/ Pending(<<g>> \o r, x)
      BY <3>1, PushPending
    <3> QED
      BY <1>0, <1>3, <2>1, <2>2, <3>2, CallIs
  <2>3. CASE ~IsDir(e)
    BY <1>0, <1>3, <2>1, <2>3, BelowIs
  <2> QED
    BY <2>2, <2>3
<1>10. ASSUME NEW x \in Entries, Pending(s, x)
       PROVE  Follows(e, x) /\ x # e
  <2>1. CASE x \in Below(e)
    BY <1>3, <2>1, BelowIs DEF Follows
  <2>2. CASE ~(x \in Below(e))
    <3>1. Follows(e, x)
      BY <1>7, <1>8, <1>9, <1>10, <2>2
    <3> QED
      BY <3>1, <1>3, FollowsIrreflexive
  <2> QED
    BY <2>1, <2>2
<1>11. ASSUME NEW x \in Entries
       PROVE  Pending(<<f>> \o r, x) <=> x = e \/ Pending(s, x)
  <2>1. Pending(<<f>> \o r, x) <=> e \in Path[x] \/ Pends(g, x) \/ Pending(r, x)
    BY <1>6, PushPending
  <2>2. e \in Path[x] <=> x = e \/ x \in Below(e)
    BY <1>3, <1>4, BelowIs
  <2> QED
    BY <1>9, <2>1, <2>2
<1>12. \A y \in Range(p) : Follows(y, e)
  BY <1>1, <1>3, <1>11 DEF Covered
<1>13. e \notin Range(p)
  BY <1>3, <1>12, FollowsIrreflexive
<1>14. Covered(s, Append(p, e), d, hidden)
  <2>1. Range(Append(p, e)) = Range(p) \cup {e} /\ Range(p) \subseteq Entries
    BY <1>3, RangeAppend
  <2>2. \A x \in Entries : x \in Listable(d, hidden) <=> x \in Range(p) \/ x = e \/ Pending(s, x)
    BY <1>1, <1>11 DEF Covered
  <2>3. \A y \in Range(p), x \in Entries : Pending(s, x) => Follows(y, x)
    BY <1>1, <1>11 DEF Covered
  <2> QED
    BY <1>10, <2>1, <2>2, <2>3 DEF Covered
<1>15. FrameOK(g)
  <2>1. f.i + 1 \in 1 .. Len(f.children) + 1
    BY <1>2
  <2> QED
    BY <1>1, <2>1 DEF FrameOK
<1>16. Stacked(<<g>> \o r) /\ Nested(<<g>> \o r, d) /\ <<g>> \o r \in Seq(Frame)
  BY <1>1, <1>15, PushStacked, PushNested, Push
<1>17. CASE IsDir(e)
  <2> DEFINE t == <<g>> \o r
  <2>1. t[1] = g /\ 1 \in DOMAIN t /\ t # <<>>
        /\ DOMAIN t = 1 .. Len(t) /\ Len(t) \in Nat /\ t \in Seq(Frame)
    BY <1>16, Push, LenProperties
  <2>2. Nested(t, d) /\ Stacked(t)
    BY <1>16
  <2> HIDE DEF t
  <2>3. ASSUME NEW n \in DOMAIN t
        PROVE  t[n].dir \in Path[e] /\ t[n].dir < e
    <3>1. CASE n = 1
      BY <1>4, <2>1, <3>1
    <3>2. CASE n # 1
      <4>1. t[n].dir \in Path[f.dir] /\ t[n].dir < f.dir
        <5>1. 1 < n
          BY <2>1, <3>2
        <5> QED
          BY <2>1, <2>2, <5>1 DEF Nested
      <4>2. t[n].dir \in Path[e]
        BY <1>3, <1>4, <4>1, PathTransitive
      <4>3. t[n].dir \in Entries /\ t[n].dir \in Nat
        BY <1>3, <4>2, PathBounds, EntriesAre
      <4> QED
        BY <1>4, <4>1, <4>2, <4>3
    <3> QED
      BY <3>1, <3>2
  <2>4. t[1].at = "visit" /\ t[1].i > 1 /\ e = t[1].children[t[1].i - 1]
    <3>1. g.i > 1 /\ g.i - 1 = f.i
      BY <1>2
    <3>2. e = g.children[g.i - 1]
      BY <1>0, <3>1
    <3> QED
      BY <2>1, <3>1, <3>2
  <2>5. Call(e) \in Frame /\ FrameOK(Call(e)) /\ Call(e).dir = e
    BY <1>3, CallIs
  <2> DEFINE c == Call(e)
  <2>6. c \in Frame /\ FrameOK(c) /\ c.dir = e
    BY <2>5
  <2> HIDE DEF c
  <2>7. Nested(<<c>> \o t, d)
    <3>1. /\ d \in Path[c.dir] /\ c.dir = t[1].children[t[1].i - 1]
          /\ \A n \in DOMAIN t : t[n].dir \in Path[c.dir] /\ t[n].dir < c.dir
      BY <1>4, <2>3, <2>4, <2>6
    <3> QED
      BY <2>1, <2>2, <2>4, <2>6, <3>1, PushNested
  <2>8. Stacked(<<c>> \o t)
    BY <2>1, <2>2, <2>6, PushStacked
  <2> QED
    BY <1>0, <1>3, <1>12, <1>13, <1>14, <1>17, <2>7, <2>8 DEF Walked, t, c
<1>18. CASE ~IsDir(e)
  BY <1>0, <1>3, <1>12, <1>13, <1>14, <1>16, <1>18 DEF Walked
<1> QED
  BY <1>17, <1>18

(***************************************************************************)
(* The invariant.                                                          *)
(***************************************************************************)

Root == directories[arg]

\* Where main stands.
MainInv ==
  /\ main \in {"next", "done"} => stack = <<>>
  /\ main = "walk" => arg \in DOMAIN directories
  /\ main = "done" => arg = Len(directories) + 1

WalkInv ==
  /\ Stacked(stack)
  /\ main = "walk" => Walked(stack, printed, Root, skipped)

\* The counters count what is listed.
CountInv ==
  main = "walk" =>
    \A k \in Counted :
      dstat.count[k] = Cardinality({e \in Range(printed) : kind[e] = k})

SizeInv ==
  /\ main = "walk" =>
       \A e \in Entries :
         dstat.size[e] = IF e \in Range(printed) \ (unsized \cup stale) THEN 1 ELSE 0
  /\ unsized \cup stale \subseteq Range(printed)

\* An errno that is set has a failed call to its name for which no entry was left
\* out yet; without a failed call nothing is hidden.
FaultInv ==
  /\ Cardinality(stale) + Cardinality(unsized) + (IF errno THEN 1 ELSE 0) <= faults
  /\ faults = 0 => skipped = {}

\* The grand total has the trees of the arguments done.
TotalInv ==
  faults = 0 =>
    \A e \in Entries :
      tstat.size[e] = Cardinality({n \in 1 .. arg - 1 : e \in Below(directories[n])})

DirInv ==
  /\ TypeOK /\ TreeInv /\ MainInv /\ WalkInv
  /\ StreamsOfThePath /\ ListedInOrder
  /\ CountInv /\ SizeInv /\ FaultInv /\ TotalInv

InOrder(p) == \A m, n \in DOMAIN p : m < n => Follows(p[m], p[n])

\* The tree stays as it is, so a step is seen in what it does to the rest.
LEMMA Frozen ==
  ASSUME UNCHANGED tree
  PROVE  /\ TreeInv' <=> TreeInv
         /\ Stacked(stack)' <=> Stacked(stack')
         /\ Walked(stack, printed, Root, skipped)' <=>
              Walked(stack', printed', directories[arg'], skipped')
         /\ ListedInOrder' <=> InOrder(printed')
         /\ StreamsOfThePath' <=> (main' # "crashed" => streams' = OpenDirs(stack'))
         /\ TotalInv' <=>
              (faults' = 0 =>
                 \A e \in Entries : tstat'.size[e] =
                   Cardinality({n \in 1 .. arg' - 1 : e \in Below(directories[n])}))
<1>1. kind' = kind /\ parent' = parent /\ directories' = directories
  BY DEF tree
<1>2. Path' = Path
  BY <1>1, PathKept
<1>3. TreeInv' <=> TreeInv
  BY <1>1 DEF TreeInv, IsDir
<1>4. Stacked(stack)' <=> Stacked(stack')
  BY <1>1 DEF Stacked, FrameOK, EntriesOf, Ordered, Before, IsDir
<1>5. Nested(stack, Root)' <=> Nested(stack', directories[arg'])
  BY <1>1, <1>2 DEF Nested, Root
<1>6. Covered(stack, printed, Root, skipped)' <=>
        Covered(stack', printed', directories[arg'], skipped')
  BY <1>1, <1>2 DEF Covered, Root, Listable, Below, IsDir, Pending, Pends, Follows
<1>7. Walked(stack, printed, Root, skipped)' <=>
        Walked(stack', printed', directories[arg'], skipped')
  BY <1>4, <1>5, <1>6 DEF Walked
<1>8. ListedInOrder' <=> InOrder(printed')
  BY <1>1, <1>2 DEF ListedInOrder, InOrder, Follows, IsDir
<1>9. StreamsOfThePath' <=> (main' # "crashed" => streams' = OpenDirs(stack'))
  BY DEF StreamsOfThePath, OpenDirs
<1>10. TotalInv' <=>
         (faults' = 0 =>
            \A e \in Entries : tstat'.size[e] =
              Cardinality({n \in 1 .. arg' - 1 : e \in Below(directories[n])}))
  BY <1>1, <1>2 DEF TotalInv, Below, IsDir
<1> QED
  BY <1>3, <1>4, <1>7, <1>8, <1>9, <1>10

\* While a call is running.
LEMMA Running ==
  ASSUME DirInv, main = "walk", stack # <<>>
  PROVE  /\ TreeInv /\ Top \in Frame /\ Tail(stack) \in Seq(Frame) /\ FrameOK(Top)
         /\ stack = <<Top>> \o Tail(stack)
         /\ Root \in Entries /\ printed \in Seq(Entries)
         /\ Walked(<<Top>> \o Tail(stack), printed, Root, skipped)
         /\ streams = OpenDirs(Tail(stack)) \cup (IF Top.at = "open" THEN {} ELSE {Top.dir})
         /\ Top.dir \notin OpenDirs(Tail(stack))
<1> DEFINE f == Top
           r == Tail(stack)
<1>1. /\ stack \in Seq(Frame) /\ Walked(stack, printed, Root, skipped) /\ TreeInv
      /\ printed \in Seq(Entries)
  BY DEF DirInv, WalkInv, Stacked, TypeOK
<1>2. f \in Frame /\ r \in Seq(Frame) /\ stack = <<f>> \o r
  BY <1>1, Pop DEF Top
<1>3. Root \in Entries
  <2>1. directories \in Seq(Entries) /\ arg \in DOMAIN directories
    BY DEF DirInv, TypeOK, MainInv
  <2> QED
    BY <2>1 DEF Root
<1>4. streams = OpenDirs(stack)
  BY DEF DirInv, StreamsOfThePath, OpenDirs
<1> HIDE DEF f, r
<1>5. FrameOK(f) /\ Nested(<<f>> \o r, Root)
  BY <1>1, <1>2, PushStacked DEF Walked
<1>6. OpenDirs(<<f>> \o r) = OpenDirs(r) \cup (IF f.at = "open" THEN {} ELSE {f.dir})
  BY <1>2, PushOpenDirs
<1>7. \A n \in DOMAIN r : r[n].dir < f.dir
  BY <1>2, <1>5, PushNested
<1>8. f.dir \notin OpenDirs(r)
  <2> SUFFICES ASSUME f.dir \in OpenDirs(r) PROVE FALSE
    OBVIOUS
  <2>1. PICK n \in DOMAIN r : f.dir = r[n].dir
    BY DEF OpenDirs
  <2>2. f.dir \in Nat
    BY <1>2, EntriesAre DEF Frame
  <2> QED
    BY <1>7, <2>1, <2>2
<1> QED
  BY <1>1, <1>2, <1>3, <1>4, <1>5, <1>6, <1>8 DEF f, r

(***************************************************************************)
(* The walk, step by step.                                                 *)
(***************************************************************************)

\* What each step of a walk has to show.
Onward ==
  /\ Walked(stack', printed', Root, skipped')
  /\ streams' = OpenDirs(stack')

LEMMA OpenFailsOnward == DirInv /\ OpenFails => Onward
<1> SUFFICES ASSUME DirInv, OpenFails PROVE Onward
  OBVIOUS
<1> DEFINE f == Top
           r == Tail(stack)
<1>1. /\ TreeInv /\ f \in Frame /\ r \in Seq(Frame)
      /\ Root \in Entries /\ printed \in Seq(Entries)
      /\ Walked(<<f>> \o r, printed, Root, skipped)
      /\ streams = OpenDirs(r) \cup (IF f.at = "open" THEN {} ELSE {f.dir})
  BY Running DEF OpenFails, At
<1>2. /\ f.at = "open" /\ stack' = r /\ printed' = printed /\ streams' = streams
      /\ skipped' = IF IsDir(f.dir) THEN skipped \cup EntriesOf(f.dir) ELSE skipped
  BY DEF OpenFails, At
<1> HIDE DEF f, r
<1>3. f.dir \in Entries
  BY <1>1 DEF Frame
<1>4. skipped' = skipped \cup EntriesOf(f.dir)
  BY <1>1, <1>2, <1>3, BelowIs
<1>5. Walked(r, printed, Root, skipped \cup EntriesOf(f.dir))
  BY <1>1, <1>2, StepDrop
<1> QED
  BY <1>1, <1>2, <1>4, <1>5 DEF Onward

LEMMA OpenOnward == DirInv /\ Open => Onward
<1> SUFFICES ASSUME DirInv, Open PROVE Onward
  OBVIOUS
<1> DEFINE f == Top
           r == Tail(stack)
           g == [f EXCEPT !.at = "read"]
<1>1. /\ TreeInv /\ f \in Frame /\ r \in Seq(Frame) /\ FrameOK(f)
      /\ Root \in Entries /\ printed \in Seq(Entries)
      /\ Walked(<<f>> \o r, printed, Root, skipped)
      /\ streams = OpenDirs(r) \cup (IF f.at = "open" THEN {} ELSE {f.dir})
  BY Running DEF Open, At
<1>2. /\ f.at = "open" /\ IsDir(f.dir) /\ stack' = <<g>> \o r /\ printed' = printed
      /\ streams' = streams \cup {f.dir} /\ skipped' = skipped
  BY DEF Open, At, history
<1> HIDE DEF f, r
<1>3. /\ g \in Frame /\ g.dir = f.dir /\ g.at = "read" /\ g.i = f.i
      /\ g.children = f.children
  BY <1>1 DEF Frame
<1> HIDE DEF g
<1>4. FrameOK(g) /\ \A x \in Entries : Pends(g, x) <=> Pends(f, x)
  BY <1>1, <1>2, <1>3 DEF FrameOK, Pends
<1>5. Walked(<<g>> \o r, printed, Root, skipped)
  BY <1>1, <1>3, <1>4, StepSame
<1>6. OpenDirs(<<g>> \o r) = OpenDirs(r) \cup {f.dir}
  BY <1>1, <1>3, PushOpenDirs
<1> QED
  BY <1>1, <1>2, <1>5, <1>6 DEF Onward

\* What has been read is sorted and listed from the first on.
LEMMA ListedOnward ==
  ASSUME DirInv, At("read"), NEW read \in SUBSET EntriesOf(Top.dir), Listed(read),
         skipped' = skipped \cup (EntriesOf(Top.dir) \ read),
         printed' = printed, streams' = streams
  PROVE  Onward
<1> DEFINE f == Top
           r == Tail(stack)
           g == [f EXCEPT !.at = "visit", !.children = Sorted(read)]
<1>1. /\ TreeInv /\ f \in Frame /\ r \in Seq(Frame) /\ FrameOK(f)
      /\ Root \in Entries /\ printed \in Seq(Entries)
      /\ Walked(<<f>> \o r, printed, Root, skipped)
      /\ streams = OpenDirs(r) \cup (IF f.at = "open" THEN {} ELSE {f.dir})
  BY Running DEF At
<1>2. /\ f.at = "read" /\ stack' = <<g>> \o r /\ read \in SUBSET EntriesOf(f.dir)
      /\ skipped' = skipped \cup (EntriesOf(f.dir) \ read)
  BY DEF At, Listed
<1> HIDE DEF f, r
<1>3. f.i = 1
  BY <1>1, <1>2 DEF FrameOK
<1>4. read \in SUBSET Entries /\ Sorted(read) \in Seq(Entries)
  <2>1. read \in SUBSET Entries
    BY <1>2 DEF EntriesOf
  <2>2. Sorted(read) \in Seq(read)
    BY <2>1, SortedIs
  <2> QED
    BY <2>1, <2>2, SeqMonotonic
<1>5. /\ g \in Frame /\ g.dir = f.dir /\ g.at = "visit" /\ g.i = f.i
      /\ g.children = Sorted(read)
  BY <1>1, <1>4 DEF Frame
<1> HIDE DEF g
<1>6. Walked(<<g>> \o r, printed, Root, skipped \cup (EntriesOf(f.dir) \ read))
  BY <1>1, <1>2, <1>3, <1>5, StepRead
<1>7. OpenDirs(<<g>> \o r) = OpenDirs(r) \cup {f.dir}
  BY <1>1, <1>5, PushOpenDirs
<1> QED
  BY <1>1, <1>2, <1>6, <1>7 DEF Onward

LEMMA ReadAllOnward == DirInv /\ ReadAll => Onward
<1> SUFFICES ASSUME DirInv, ReadAll PROVE Onward
  OBVIOUS
<1> DEFINE read == EntriesOf(Top.dir)
<1>1. /\ At("read") /\ Listed(read) /\ skipped' = skipped
      /\ printed' = printed /\ streams' = streams
  BY DEF ReadAll, history
<1>2. skipped' = skipped \cup (EntriesOf(Top.dir) \ read)
  BY <1>1
<1> QED
  BY <1>1, <1>2, ListedOnward

LEMMA ReadFailsOnward == DirInv /\ ReadFails => Onward
<1> SUFFICES ASSUME DirInv, ReadFails PROVE Onward
  OBVIOUS
<1>1. PICK read \in SUBSET EntriesOf(Top.dir) :
        Listed(read) /\ skipped' = skipped \cup (EntriesOf(Top.dir) \ read)
  BY DEF ReadFails
<1>2. At("read") /\ printed' = printed /\ streams' = streams
  BY DEF ReadFails
<1> QED
  BY <1>1, <1>2, ListedOnward

LEMMA OutOfMemoryOnward == DirInv /\ OutOfMemory => Onward
<1> SUFFICES ASSUME DirInv, OutOfMemory PROVE Onward
  OBVIOUS
<1> DEFINE f == Top
           r == Tail(stack)
<1>1. /\ TreeInv /\ f \in Frame /\ r \in Seq(Frame)
      /\ Root \in Entries /\ printed \in Seq(Entries)
      /\ Walked(<<f>> \o r, printed, Root, skipped)
      /\ streams = OpenDirs(r) \cup (IF f.at = "open" THEN {} ELSE {f.dir})
      /\ f.dir \notin OpenDirs(r)
  BY Running DEF OutOfMemory, At
<1>2. /\ f.at = "read" /\ stack' = r /\ printed' = printed
      /\ streams' = streams \ {f.dir} /\ skipped' = skipped \cup EntriesOf(f.dir)
  BY DEF OutOfMemory, At
<1> HIDE DEF f, r
<1>3. Walked(r, printed, Root, skipped \cup EntriesOf(f.dir))
  BY <1>1, <1>2, StepDrop
<1>4. streams' = OpenDirs(r)
  BY <1>1, <1>2
<1> QED
  BY <1>2, <1>3, <1>4 DEF Onward

LEMMA ReturnOnward == DirInv /\ Return => Onward
<1> SUFFICES ASSUME DirInv, Return PROVE Onward
  OBVIOUS
<1> DEFINE f == Top
           r == Tail(stack)
<1>1. /\ TreeInv /\ f \in Frame /\ r \in Seq(Frame)
      /\ Root \in Entries /\ printed \in Seq(Entries)
      /\ Walked(<<f>> \o r, printed, Root, skipped)
      /\ streams = OpenDirs(r) \cup (IF f.at = "open" THEN {} ELSE {f.dir})
      /\ f.dir \notin OpenDirs(r)
  BY Running DEF Return, At
<1>2. /\ f.at = "visit" /\ f.i > Len(f.children) /\ stack' = r /\ printed' = printed
      /\ streams' = streams \ {f.dir} /\ skipped' = skipped
  BY DEF Return, At, history
<1> HIDE DEF f, r
<1>3. Walked(r, printed, Root, skipped)
  BY <1>1, <1>2, StepReturn
<1>4. streams' = OpenDirs(r)
  BY <1>1, <1>2
<1> QED
  BY <1>2, <1>3, <1>4 DEF Onward

\* The next entry, with whatever is added to the sizes.
LEMMA VisitOnward ==
  ASSUME DirInv, NEW e, NEW stat, Visit(e, stat)
  PROVE  /\ Onward
         /\ e \in Entries /\ e \notin Range(printed)
         /\ \A y \in Range(printed) : Follows(y, e)
         /\ printed' \in Seq(Entries) /\ printed' = Append(printed, e)
         /\ Range(printed') = Range(printed) \cup {e} /\ Range(printed) \subseteq Entries
<1> DEFINE f == Top
           r == Tail(stack)
           g == [f EXCEPT !.i = @ + 1]
<1>1. /\ TreeInv /\ f \in Frame /\ r \in Seq(Frame) /\ FrameOK(f)
      /\ Root \in Entries /\ printed \in Seq(Entries)
      /\ Walked(<<f>> \o r, printed, Root, skipped)
      /\ streams = OpenDirs(r) \cup (IF f.at = "open" THEN {} ELSE {f.dir})
  BY Running DEF Visit, At
<1>2. /\ f.at = "visit" /\ f.i <= Len(f.children) /\ e = f.children[f.i]
      /\ printed' = Append(printed, e) /\ streams' = streams /\ skipped' = skipped
      /\ stack' = IF IsDir(e) THEN <<Call(e)>> \o (<<g>> \o r) ELSE <<g>> \o r
  BY DEF Visit, At
<1> HIDE DEF f, r
<1>3. /\ g \in Frame /\ g.dir = f.dir /\ g.at = "visit" /\ g.i = f.i + 1
      /\ g.children = f.children
  <2>1. /\ f = [dir |-> f.dir, at |-> f.at, children |-> f.children, i |-> f.i]
        /\ f.dir \in Entries /\ f.children \in Seq(Entries) /\ f.i \in Nat /\ f.i + 1 \in Nat
    BY <1>1 DEF Frame
  <2>2. f.at = "visit"
    BY <1>2
  <2>3. g = [dir |-> f.dir, at |-> "visit", children |-> f.children, i |-> f.i + 1]
    BY <2>1, <2>2
  <2> QED
    BY <2>1, <2>3 DEF Frame
<1> HIDE DEF g
<1>4. /\ Walked(stack', Append(printed, e), Root, skipped)
      /\ e \in Entries /\ e \notin Range(printed)
      /\ \A y \in Range(printed) : Follows(y, e)
  <2>1. stack' = Descend(e, <<g>> \o r)
    BY <1>2 DEF Descend
  <2>2. f.at = "visit" /\ f.i <= Len(f.children) /\ e = f.children[f.i]
    BY <1>2
  <2>3. /\ Walked(Descend(e, <<g>> \o r), Append(printed, e), Root, skipped)
        /\ e \in Entries /\ e \notin Range(printed)
        /\ \A y \in Range(printed) : Follows(y, e)
    BY <1>1, <1>3, <2>2, StepVisit
  <2> QED
    BY <2>1, <2>3
<1>5. OpenDirs(<<g>> \o r) = OpenDirs(r) \cup {f.dir} /\ <<g>> \o r \in Seq(Frame)
  BY <1>1, <1>3, PushOpenDirs, Push
<1>6. OpenDirs(stack') = OpenDirs(r) \cup {f.dir}
  <2>1. CASE IsDir(e)
    <3>1. Call(e) \in Frame /\ Call(e).at = "open"
      BY <1>4, CallIs
    <3>2. OpenDirs(<<Call(e)>> \o (<<g>> \o r)) = OpenDirs(<<g>> \o r)
      BY <1>5, <3>1, PushOpenDirs
    <3> QED
      BY <1>2, <1>5, <2>1, <3>2
  <2>2. CASE ~IsDir(e)
    BY <1>2, <1>5, <2>2
  <2> QED
    BY <2>1, <2>2
<1>7. Onward
  BY <1>1, <1>2, <1>4, <1>6 DEF Onward
<1> QED
  BY <1>1, <1>2, <1>4, <1>7, RangeAppend

(***************************************************************************)
(* The invariant holds at first.                                           *)
(***************************************************************************)

LEMMA AcceptedIs ==
  ASSUME NEW list \in ArgumentLists
  PROVE  Accepted(list) \in Seq(Entries) /\ Len(Accepted(list)) \in 1 .. MAX_DIR
<1>1. list \in Seq(Entries) /\ list # <<>> /\ MAX_DIR \in Nat \ {0}
  BY TreeAssumption DEF TreeAssumption
<1> DEFINE n == IF Len(list) < MAX_DIR THEN Len(list) ELSE MAX_DIR
<1>2. Len(list) \in Nat \ {0}
  BY <1>1, EmptySeq
<1>3. n \in 1 .. MAX_DIR /\ n \in 1 .. Len(list) /\ n \in Nat
  BY <1>1, <1>2
<1> HIDE DEF n
<1>4. \A i \in 1 .. n : list[i] \in Entries
  <2> SUFFICES ASSUME NEW i \in 1 .. n PROVE list[i] \in Entries
    OBVIOUS
  <2>1. i \in 1 .. Len(list)
    BY <1>2, <1>3
  <2> QED
    BY <1>1, <2>1, ElementOfSeq
<1>5. SubSeq(list, 1, n) \in Seq(Entries) /\ Len(SubSeq(list, 1, n)) = n
  <2>1. n - 1 + 1 = n /\ 1 <= n
    BY <1>3
  <2> QED
    BY <1>3, <1>4, <2>1, SubSeqProperties
<1>6. Accepted(list) = SubSeq(list, 1, n)
  BY DEF Accepted, n
<1> QED
  BY <1>3, <1>5, <1>6

LEMMA NothingIs ==
  /\ Nothing \in Summary
  /\ \A k \in Counted : Nothing.count[k] = 0
  /\ \A e \in Entries : Nothing.size[e] = 0
  BY DEF Nothing, Summary

LEMMA DirInvInit == Init => DirInv
<1> SUFFICES ASSUME Init PROVE DirInv
  OBVIOUS
<1>1. /\ kind \in [Entries -> Kinds] /\ kind[1] = "dirs"
      /\ parent \in [Entries -> Entries] /\ parent[1] = 1
      /\ \A e \in Entries \ {1} : parent[e] < e /\ kind[parent[e]] = "dirs"
      /\ verbose \in BOOLEAN /\ arg = 1 /\ main = "next" /\ errno = FALSE
      /\ dstat = Nothing /\ tstat = Nothing /\ streams = {}
      /\ faults = 0 /\ skipped = {} /\ unsized = {} /\ stale = {}
  BY DEF Init
<1>2. directories \in Seq(Entries) /\ Len(directories) \in 1 .. MAX_DIR
  <2>1. PICK list \in ArgumentLists : directories = Accepted(list)
    BY DEF Init
  <2> QED
    BY <2>1, AcceptedIs
<1>3. stack \in Seq(Frame) /\ DOMAIN stack = {} /\ stack = <<>>
  BY DEF Init
<1>4. printed \in Seq(Entries) /\ DOMAIN printed = {}
  BY DEF Init
<1>5. MAX_DIR \in Nat /\ MaxFaults \in Nat
  BY TreeAssumption DEF TreeAssumption
<1>6. TypeOK
  <2>1. 1 \in 1 .. Len(directories) + 1 /\ 0 \in 0 .. MaxFaults
    BY <1>2, <1>5
  <2>2. \A n \in DOMAIN stack :
          /\ stack[n].dir \in Entries /\ stack[n].at \in {"open", "read", "visit"}
          /\ stack[n].i \in 1 .. Len(stack[n].children) + 1
    BY <1>3
  <2>3. skipped \cup unsized \cup stale \subseteq Entries /\ streams \subseteq Entries
    BY <1>1
  <2> QED
    BY <1>1, <1>2, <1>4, <2>1, <2>2, <2>3, NothingIs DEF TypeOK
<1>7. TreeInv
  BY <1>1 DEF TreeInv, IsDir
<1>8. MainInv /\ WalkInv /\ StreamsOfThePath /\ ListedInOrder /\ CountInv
  BY <1>1, <1>3, <1>4
    DEF MainInv, WalkInv, Stacked, StreamsOfThePath, ListedInOrder, CountInv
<1>9. SizeInv /\ FaultInv
  BY <1>1, FS_EmptySet DEF SizeInv, FaultInv
<1>10. TotalInv
  <2>1. 1 .. arg - 1 = {}
    BY <1>1
  <2>2. \A e \in Entries : {n \in 1 .. arg - 1 : e \in Below(directories[n])} = {}
    BY <2>1
  <2> QED
    BY <1>1, <2>2, NothingIs, FS_EmptySet DEF TotalInv
<1> QED
  BY <1>6, <1>7, <1>8, <1>9, <1>10 DEF DirInv

(***************************************************************************)
(* And after every step.                                                   *)
(***************************************************************************)

\* A step of processDir goes on with the walk or is the last one.
LEMMA ProcessOnward ==
  ASSUME DirInv, ProcessDir
  PROVE  /\ UNCHANGED <<tree, arg, tstat>> /\ main = "walk"
         /\ \/ main' = "walk" /\ Onward
            \/ main' = "crashed" /\ UNCHANGED <<walk, dstat, skipped, unsized, stale>>
<1>1. ASSUME OpenFails \/ Open \/ ReadAll \/ ReadFails \/ OutOfMemory \/ Return
      PROVE  UNCHANGED <<tree, arg, tstat, main>> /\ main = "walk" /\ Onward
  <2>1. Onward
    BY <1>1, OpenFailsOnward, OpenOnward, ReadAllOnward, ReadFailsOnward,
       OutOfMemoryOnward, ReturnOnward
  <2>2. UNCHANGED <<tree, arg, tstat, main>> /\ main = "walk"
    BY <1>1 DEF OpenFails, Open, ReadAll, ReadFails, OutOfMemory, Return, At
  <2> QED
    BY <2>1, <2>2
<1>2. ASSUME ArrayLost \/ TextLost \/ NameUnknown
      PROVE  /\ UNCHANGED <<tree, arg, tstat>> /\ main = "walk" /\ main' = "crashed"
             /\ UNCHANGED <<walk, dstat, skipped, unsized, stale>>
  BY <1>2 DEF ArrayLost, TextLost, NameUnknown, At
<1>3. ASSUME NEW e \in Entries, VisitSized(e) \/ VisitUnsized(e)
      PROVE  UNCHANGED <<tree, arg, tstat, main>> /\ main = "walk" /\ Onward
  <2>1. PICK stat : Visit(e, stat)
    BY <1>3 DEF VisitSized, VisitUnsized
  <2>2. Onward
    BY <2>1, VisitOnward
  <2>3. UNCHANGED <<tree, arg, tstat, main>> /\ main = "walk"
    BY <2>1 DEF Visit, At
  <2> QED
    BY <2>2, <2>3
<1> QED
  BY <1>1, <1>2, <1>3 DEF ProcessDir

\* What there is of a next step.
LEMMA NextIs ==
  ASSUME [Next]_vars
  PROVE  ProcessDir \/ StartDirectory \/ Aggregate \/ Done \/ UNCHANGED vars
  BY DEF Next, Run, Ended

LEMMA WalkNext ==
  ASSUME DirInv, [Next]_vars
  PROVE  UNCHANGED tree /\ TreeInv' /\ MainInv' /\ WalkInv' /\ StreamsOfThePath'
<1>0. /\ TreeInv /\ MainInv /\ WalkInv /\ StreamsOfThePath
      /\ directories \in Seq(Entries) /\ Len(directories) \in Nat
      /\ DOMAIN directories = 1 .. Len(directories)
      /\ arg \in 1 .. Len(directories) + 1
  BY LenProperties DEF DirInv, TypeOK
<1>1. CASE ProcessDir
  <2>1. /\ UNCHANGED tree /\ arg' = arg /\ main = "walk"
        /\ \/ main' = "walk" /\ Onward
           \/ main' = "crashed" /\ UNCHANGED <<stack, streams>>
    BY <1>1, ProcessOnward DEF walk
  <2>2. directories' = directories
    BY <2>1 DEF tree
  <2>3. MainInv'
    BY <1>0, <2>1, <2>2 DEF MainInv
  <2>4. CASE main' = "walk" /\ Onward
    <3>1. Walked(stack', printed', directories[arg'], skipped')
      BY <2>1, <2>4 DEF Onward, Root
    <3>2. Stacked(stack')
      BY <3>1 DEF Walked
    <3>3. WalkInv'
      BY <2>1, <3>1, <3>2, Frozen DEF WalkInv
    <3>4. StreamsOfThePath'
      BY <2>1, <2>4, Frozen DEF Onward
    <3> QED
      BY <1>0, <2>1, <2>3, <3>3, <3>4, Frozen
  <2>5. CASE main' = "crashed" /\ UNCHANGED <<stack, streams>>
    <3>1. Stacked(stack')
      BY <1>0, <2>5 DEF WalkInv
    <3>2. WalkInv' /\ StreamsOfThePath'
      BY <2>1, <2>5, <3>1, Frozen DEF WalkInv
    <3> QED
      BY <1>0, <2>1, <2>3, <3>2, Frozen
  <2> QED
    BY <2>1, <2>4, <2>5
<1>2. CASE StartDirectory
  <2>1. /\ UNCHANGED tree /\ arg' = arg /\ main = "next" /\ main' = "walk"
        /\ stack' = <<Call(directories[arg])>> /\ printed' = <<>>
        /\ skipped' = {} /\ streams' = streams /\ arg <= Len(directories)
    BY <1>2 DEF StartDirectory
  <2>2. arg \in DOMAIN directories /\ directories[arg] \in Entries
    BY <1>0, <2>1
  <2>3. Walked(stack', printed', directories[arg'], skipped')
    BY <1>0, <2>1, <2>2, StepStart
  <2>4. Stacked(stack')
    BY <2>3 DEF Walked
  <2>5. WalkInv'
    BY <2>1, <2>3, <2>4, Frozen DEF WalkInv
  <2>6. streams' = OpenDirs(stack')
    <3>1. streams = {}
      <4>1. stack = <<>>
        BY <1>0, <2>1 DEF MainInv
      <4> QED
        BY <1>0, <2>1, <4>1 DEF StreamsOfThePath
    <3>2. /\ Call(directories[arg]) \in Frame /\ Call(directories[arg]).at = "open"
          /\ <<>> \in Seq(Frame) /\ OpenDirs(<<>>) = {}
      BY <2>2, CallIs DEF OpenDirs
    <3>3. stack' = <<Call(directories[arg])>> \o <<>>
      BY <2>1, <3>2, ConcatEmptySeq
    <3> QED
      BY <2>1, <3>1, <3>2, <3>3, PushOpenDirs
  <2>7. directories' = directories
    BY <2>1 DEF tree
  <2>8. MainInv'
    BY <2>1, <2>2, <2>7 DEF MainInv
  <2> QED
    BY <1>0, <2>1, <2>5, <2>6, <2>8, Frozen
<1>3. CASE Aggregate \/ Done \/ UNCHANGED vars
  <2>1. UNCHANGED tree /\ UNCHANGED <<stack, streams, printed, skipped>>
    BY <1>3 DEF Aggregate, Done, vars, walk, history
  <2>2. directories' = directories
    BY <2>1 DEF tree
  <2>3. MainInv' /\ (main' = "walk" => main = "walk" /\ arg' = arg)
        /\ (main' # "crashed" => main # "crashed")
    BY <1>0, <1>3, <2>1, <2>2 DEF MainInv, Aggregate, Done, vars
  <2>4. Stacked(stack')
    BY <1>0, <2>1 DEF WalkInv
  <2>5. main' = "walk" => Walked(stack', printed', directories[arg'], skipped')
    BY <1>0, <2>1, <2>3 DEF WalkInv, Root
  <2>6. main' # "crashed" => streams' = OpenDirs(stack')
    BY <1>0, <2>1, <2>3 DEF StreamsOfThePath, OpenDirs
  <2>7. WalkInv' /\ StreamsOfThePath'
    BY <2>1, <2>4, <2>5, <2>6, Frozen DEF WalkInv
  <2> QED
    BY <1>0, <2>1, <2>3, <2>7, Frozen
<1> QED
  BY <1>1, <1>2, <1>3, NextIs

\* A step lists an entry, starts with a directory, or keeps what is listed.
LEMMA NextLists ==
  ASSUME [Next]_vars
  PROVE  \/ \E e \in Entries : VisitSized(e) \/ VisitUnsized(e)
         \/ StartDirectory
         \/ /\ UNCHANGED <<dstat, printed, unsized, stale>>
            /\ main' = "walk" => main = "walk"
<1>1. ASSUME OpenFails \/ Open \/ ReadAll \/ ReadFails \/ OutOfMemory \/ ArrayLost
             \/ TextLost \/ NameUnknown \/ Return \/ Aggregate \/ Done \/ UNCHANGED vars
      PROVE  /\ UNCHANGED <<dstat, printed, unsized, stale>>
             /\ main' = "walk" => main = "walk"
  BY <1>1 DEF OpenFails, Open, ReadAll, ReadFails, OutOfMemory, ArrayLost, TextLost, NameUnknown,
       Return, Aggregate, Done, vars, walk, history
<1> QED
  BY <1>1, NextIs DEF ProcessDir

\* The summary with an entry counted.
LEMMA CountsIs ==
  ASSUME NEW stat \in Summary, NEW e \in Entries
  PROVE  /\ Counts(stat, e) \in Summary
         /\ Counts(stat, e).size = stat.size
         /\ \A k \in Counted : Counts(stat, e).count[k] =
              IF kind[e] = k THEN stat.count[k] + 1 ELSE stat.count[k]
<1>1. CASE kind[e] \in Counted
  <2>1. /\ stat = [count |-> stat.count, size |-> stat.size]
        /\ stat.count \in [Counted -> Nat] /\ stat.size \in [Entries -> Nat]
    BY DEF Summary
  <2>2. stat.count[kind[e]] + 1 \in Nat
    BY <1>1, <2>1
  <2> DEFINE more == [stat.count EXCEPT ![kind[e]] = @ + 1]
  <2>3. more \in [Counted -> Nat] /\ \A k \in Counted : more[k] =
          IF kind[e] = k THEN stat.count[k] + 1 ELSE stat.count[k]
    BY <1>1, <2>1, <2>2
  <2>4. Counts(stat, e) = [count |-> more, size |-> stat.size]
    BY <1>1, <2>1 DEF Counts
  <2> HIDE DEF more
  <2> QED
    BY <2>1, <2>3, <2>4 DEF Summary
<1>2. CASE kind[e] \notin Counted
  BY <1>2 DEF Counts
<1> QED
  BY <1>1, <1>2

\* The summary with the size of an entry.
LEMMA SizedIs ==
  ASSUME NEW stat \in Summary, NEW e \in Entries
  PROVE  LET more == [stat EXCEPT !.size[e] = @ + 1]
         IN  /\ more \in Summary /\ more.count = stat.count
             /\ \A x \in Entries : more.size[x] =
                  IF x = e THEN stat.size[x] + 1 ELSE stat.size[x]
<1>1. /\ stat = [count |-> stat.count, size |-> stat.size]
      /\ stat.count \in [Counted -> Nat] /\ stat.size \in [Entries -> Nat]
  BY DEF Summary
<1> DEFINE size == [stat.size EXCEPT ![e] = @ + 1]
           more == [stat EXCEPT !.size[e] = @ + 1]
<1>2. size \in [Entries -> Nat] /\ \A x \in Entries : size[x] =
        IF x = e THEN stat.size[x] + 1 ELSE stat.size[x]
  BY <1>1
<1>3. more = [count |-> stat.count, size |-> size]
  BY <1>1
<1> HIDE DEF size, more
<1>4. more \in Summary /\ more.count = stat.count /\ more.size = size
  BY <1>1, <1>2, <1>3 DEF Summary
<1> QED
  BY <1>2, <1>4 DEF more

\* What listing an entry does to the summary and to the entries left out.
LEMMA VisitCounts ==
  ASSUME DirInv, NEW e \in Entries, VisitSized(e) \/ VisitUnsized(e)
  PROVE  /\ dstat' \in Summary /\ main = "walk" /\ main' = "walk" /\ kind' = kind
         /\ printed' \in Seq(Entries) /\ printed' = Append(printed, e)
         /\ e \notin Range(printed) /\ \A y \in Range(printed) : Follows(y, e)
         /\ Range(printed') = Range(printed) \cup {e} /\ Range(printed) \subseteq Entries
         /\ \A k \in Counted : dstat'.count[k] =
              IF kind[e] = k THEN dstat.count[k] + 1 ELSE dstat.count[k]
         /\ \/ /\ UNCHANGED <<unsized, stale>>
               /\ \A x \in Entries : dstat'.size[x] =
                    IF x = e THEN dstat.size[x] + 1 ELSE dstat.size[x]
            \/ /\ unsized' \cup stale' = unsized \cup stale \cup {e}
               /\ dstat'.size = dstat.size
<1>1. dstat \in Summary
  BY DEF DirInv, TypeOK
<1> DEFINE more == [dstat EXCEPT !.size[e] = @ + 1]
<1>2. /\ more \in Summary /\ more.count = dstat.count
      /\ \A x \in Entries : more.size[x] = IF x = e THEN dstat.size[x] + 1 ELSE dstat.size[x]
  BY <1>1, SizedIs
<1>3. VisitSized(e) => Visit(e, more) /\ UNCHANGED <<unsized, stale>>
  BY DEF VisitSized
<1> HIDE DEF more
<1>4. VisitUnsized(e) =>
        Visit(e, dstat) /\ unsized' \cup stale' = unsized \cup stale \cup {e}
  BY DEF VisitUnsized
<1>5. PICK stat \in {more, dstat} : Visit(e, stat)
  BY <1>3, <1>4
<1>6. /\ main = "walk" /\ main' = "walk" /\ kind' = kind
  BY <1>5 DEF Visit, At, tree
<1>7. /\ printed' \in Seq(Entries) /\ printed' = Append(printed, e)
      /\ e \notin Range(printed) /\ \A y \in Range(printed) : Follows(y, e)
      /\ Range(printed') = Range(printed) \cup {e} /\ Range(printed) \subseteq Entries
  BY <1>5, VisitOnward
<1>8. CASE VisitSized(e)
  <2>1. dstat' = Counts(more, e)
    BY <1>3, <1>8 DEF Visit
  <2> QED
    BY <1>2, <1>3, <1>6, <1>7, <1>8, <2>1, CountsIs
<1>9. CASE VisitUnsized(e)
  <2>1. dstat' = Counts(dstat, e)
    BY <1>4, <1>9 DEF Visit
  <2> QED
    BY <1>1, <1>4, <1>6, <1>7, <1>9, <2>1, CountsIs
<1> QED
  BY <1>8, <1>9

LEMMA OrderNext ==
  ASSUME DirInv, [Next]_vars
  PROVE  ListedInOrder'
<1>1. printed \in Seq(Entries) /\ InOrder(printed)
  BY DEF DirInv, TypeOK, ListedInOrder, InOrder
<1>2. InOrder(printed')
  <2>1. CASE \E e \in Entries : VisitSized(e) \/ VisitUnsized(e)
    <3>1. PICK e \in Entries : VisitSized(e) \/ VisitUnsized(e)
      BY <2>1
    <3>2. printed' = Append(printed, e) /\ \A y \in Range(printed) : Follows(y, e)
      BY <3>1, VisitCounts
    <3> DEFINE q == Append(printed, e)
    <3>3. /\ DOMAIN printed = 1 .. Len(printed) /\ Len(printed) \in Nat
          /\ DOMAIN q = 1 .. Len(printed) + 1
          /\ \A i \in 1 .. Len(printed) : q[i] = printed[i]
          /\ q[Len(printed) + 1] = e
      BY <1>1, <3>1, AppendProperties, LenProperties
    <3> HIDE DEF q
    <3>4. ASSUME NEW m \in DOMAIN q, NEW n \in DOMAIN q, m < n
          PROVE  Follows(q[m], q[n])
      <4>1. m \in DOMAIN printed /\ q[m] = printed[m]
        BY <3>3, <3>4
      <4>2. CASE n \in DOMAIN printed
        <5>1. q[n] = printed[n]
          BY <3>3, <4>2
        <5> QED
          BY <1>1, <3>4, <4>1, <4>2, <5>1 DEF InOrder
      <4>3. CASE n \notin DOMAIN printed
        <5>1. n = Len(printed) + 1
          BY <3>3, <4>3
        <5>2. q[m] \in Range(printed) /\ q[n] = e
          BY <3>3, <4>1, <5>1 DEF Range
        <5> QED
          BY <3>2, <5>2
      <4> QED
        BY <4>2, <4>3
    <3> QED
      BY <3>2, <3>4 DEF InOrder, q
  <2>2. CASE StartDirectory
    <3>1. printed' = <<>>
      BY <2>2 DEF StartDirectory
    <3>2. DOMAIN printed' = {}
      BY <3>1
    <3> QED
      BY <3>2 DEF InOrder
  <2>3. CASE UNCHANGED printed
    BY <1>1, <2>3
  <2> QED
    BY <2>1, <2>2, <2>3, NextLists
<1> QED
  BY <1>2, WalkNext, Frozen

LEMMA CountNext ==
  ASSUME DirInv, [Next]_vars
  PROVE  CountInv' /\ SizeInv'
<1>1. /\ CountInv /\ SizeInv /\ printed \in Seq(Entries) /\ dstat \in Summary
      /\ IsFiniteSet(Entries) /\ kind' = kind
  BY EntriesAre, WalkNext DEF DirInv, TypeOK, tree
<1>2. CASE \E e \in Entries : VisitSized(e) \/ VisitUnsized(e)
  <2>1. PICK e \in Entries : VisitSized(e) \/ VisitUnsized(e)
    BY <1>2
  <2> DEFINE R == Range(printed)
  <2>2. /\ main = "walk" /\ main' = "walk"
        /\ e \notin R /\ Range(printed') = R \cup {e} /\ R \subseteq Entries
        /\ \A k \in Counted : dstat'.count[k] =
             IF kind[e] = k THEN dstat.count[k] + 1 ELSE dstat.count[k]
        /\ \/ /\ UNCHANGED <<unsized, stale>>
              /\ \A x \in Entries : dstat'.size[x] =
                   IF x = e THEN dstat.size[x] + 1 ELSE dstat.size[x]
           \/ /\ unsized' \cup stale' = unsized \cup stale \cup {e}
              /\ dstat'.size = dstat.size
    BY <2>1, VisitCounts
  <2> HIDE DEF R
  <2>3. ASSUME NEW k \in Counted
        PROVE  dstat'.count[k] = Cardinality({x \in Range(printed') : kind[x] = k})
    <3> DEFINE old == {x \in R : kind[x] = k}
    <3>1. dstat.count[k] = Cardinality(old)
      BY <1>1, <2>2 DEF CountInv, R
    <3>2. IsFiniteSet(old) /\ e \notin old
      <4>1. old \in SUBSET Entries
        BY <2>2
      <4> QED
        BY <1>1, <2>2, <4>1, FS_Subset
    <3>3. CASE kind[e] = k
      <4>1. {x \in Range(printed') : kind[x] = k} = old \cup {e}
        BY <2>2, <3>3
      <4>2. Cardinality(old \cup {e}) = Cardinality(old) + 1
        BY <3>2, FS_AddElement
      <4> QED
        BY <2>2, <3>1, <3>3, <4>1, <4>2
    <3>4. CASE kind[e] # k
      <4>1. {x \in Range(printed') : kind[x] = k} = old
        BY <2>2, <3>4
      <4> QED
        BY <2>2, <3>1, <3>4, <4>1
    <3> QED
      BY <3>3, <3>4
  <2>4. CountInv'
    BY <1>1, <2>3 DEF CountInv
  <2>5. \A x \in Entries : dstat.size[x] = IF x \in R \ (unsized \cup stale) THEN 1 ELSE 0
    BY <1>1, <2>2 DEF SizeInv, R
  <2>6. unsized \cup stale \subseteq R
    BY <1>1 DEF SizeInv, R
  <2>7. \A x \in Entries : dstat'.size[x] =
          IF x \in (R \cup {e}) \ (unsized' \cup stale') THEN 1 ELSE 0
    <3>1. CASE /\ UNCHANGED <<unsized, stale>>
               /\ \A x \in Entries : dstat'.size[x] =
                    IF x = e THEN dstat.size[x] + 1 ELSE dstat.size[x]
      <4>1. e \notin unsized \cup stale
        BY <2>2, <2>6
      <4> QED
        BY <2>2, <2>5, <3>1, <4>1
    <3>2. CASE /\ unsized' \cup stale' = unsized \cup stale \cup {e}
               /\ dstat'.size = dstat.size
      BY <2>2, <2>5, <3>2
    <3> QED
      BY <2>2, <3>1, <3>2
  <2>8. unsized' \cup stale' \subseteq R \cup {e}
    BY <2>2, <2>6
  <2>9. SizeInv'
    BY <2>2, <2>7, <2>8 DEF SizeInv
  <2> QED
    BY <2>4, <2>9
<1>3. CASE StartDirectory
  <2>1. dstat' = Nothing /\ printed' = <<>> /\ unsized' = {} /\ stale' = {}
    BY <1>3 DEF StartDirectory
  <2>2. Range(printed') = {}
    BY <2>1 DEF Range
  <2>3. \A k \in Counted : {x \in Range(printed') : kind'[x] = k} = {}
    BY <2>2
  <2>4. CountInv'
    BY <2>1, <2>3, NothingIs, FS_EmptySet DEF CountInv
  <2>5. SizeInv'
    BY <2>1, <2>2, NothingIs DEF SizeInv
  <2> QED
    BY <2>4, <2>5
<1>4. CASE /\ UNCHANGED <<dstat, printed, unsized, stale>>
           /\ main' = "walk" => main = "walk"
  BY <1>1, <1>4 DEF CountInv, SizeInv
<1> QED
  BY <1>2, <1>3, <1>4, NextLists

\* Calls that fail are counted, and hide something or leave an errno.
LEMMA NextFaults ==
  ASSUME DirInv, [Next]_vars
  PROVE  /\ faults \in Nat /\ faults' \in {faults, faults + 1} /\ faults' \in 0 .. MaxFaults
         /\ \/ StartDirectory
            \/ \E e \in Entries : VisitSized(e) \/ VisitUnsized(e)
            \/ /\ UNCHANGED <<unsized, stale>>
               /\ errno' => errno \/ faults' = faults + 1
               /\ faults' = faults => skipped' = skipped
               /\ skipped' \subseteq Entries
         /\ errno' \in BOOLEAN
<1>1. faults \in 0 .. MaxFaults /\ MaxFaults \in Nat /\ errno \in BOOLEAN /\ skipped \subseteq Entries
  BY TreeAssumption DEF TreeAssumption, DirInv, TypeOK
<1>2. /\ Fault => faults' = faults + 1 /\ faults' \in 0 .. MaxFaults
      /\ faults' = faults => faults' \in 0 .. MaxFaults
      /\ faults \in Nat /\ faults + 1 # faults
  BY <1>1 DEF Fault
<1>3. EntriesOf(Top.dir) \subseteq Entries
  BY DEF EntriesOf
<1>4. CASE OpenFails
  <2>1. errno' = FALSE /\ UNCHANGED <<unsized, stale>>
    BY <1>4 DEF OpenFails
  <2>2. \/ Fault /\ skipped' = skipped \cup EntriesOf(Top.dir)
        \/ UNCHANGED <<faults, skipped>>
    BY <1>4 DEF OpenFails
  <2> QED
    BY <1>1, <1>2, <1>3, <2>1, <2>2
<1>5. CASE ReadFails
  <2>1. PICK read \in SUBSET EntriesOf(Top.dir) :
          skipped' = skipped \cup (EntriesOf(Top.dir) \ read)
    BY <1>5 DEF ReadFails
  <2>2. Fault /\ errno' = TRUE /\ UNCHANGED <<unsized, stale>>
    BY <1>5 DEF ReadFails
  <2> QED
    BY <1>1, <1>2, <1>3, <2>1, <2>2
<1>6. CASE OutOfMemory
  <2>1. /\ Fault /\ errno' = FALSE /\ UNCHANGED <<unsized, stale>>
        /\ skipped' = skipped \cup EntriesOf(Top.dir)
    BY <1>6 DEF OutOfMemory
  <2> QED
    BY <1>1, <1>2, <1>3, <2>1
<1>7. CASE ArrayLost \/ TextLost \/ NameUnknown
  <2>1. Fault /\ UNCHANGED <<errno, skipped, unsized, stale>>
    BY <1>7 DEF ArrayLost, TextLost, NameUnknown, walk
  <2> QED
    BY <1>1, <1>2, <2>1
<1>8. CASE Open \/ ReadAll \/ Return \/ Aggregate \/ Done \/ UNCHANGED vars
  <2>1. (errno' = errno \/ errno' = FALSE) /\ UNCHANGED <<faults, skipped, unsized, stale>>
    BY <1>8 DEF Open, ReadAll, Return, Aggregate, Done, vars, history, walk
  <2>2. errno' \in BOOLEAN /\ (errno' => errno)
    <3>1. CASE errno' = errno
      BY <1>1, <3>1
    <3>2. CASE errno' = FALSE
      BY <3>2
    <3> QED
      BY <2>1, <3>1, <3>2
  <2>3. faults' \in {faults, faults + 1} /\ faults' \in 0 .. MaxFaults
    BY <1>2, <2>1
  <2> QED
    BY <1>1, <1>2, <2>1, <2>2, <2>3
<1>9. CASE \E e \in Entries : VisitSized(e) \/ VisitUnsized(e)
  <2>1. PICK e \in Entries : VisitSized(e) \/ VisitUnsized(e)
    BY <1>9
  <2>2. errno' \in BOOLEAN /\ (Fault \/ UNCHANGED faults)
    BY <2>1 DEF VisitSized, VisitUnsized
  <2>3. faults' \in {faults, faults + 1} /\ faults' \in 0 .. MaxFaults
    BY <1>2, <2>2
  <2> QED
    BY <1>2, <1>9, <2>2, <2>3
<1>10. CASE StartDirectory
  <2>1. errno' = errno /\ faults' = faults
    BY <1>10 DEF StartDirectory
  <2> QED
    BY <1>1, <1>2, <1>10, <2>1
<1> QED
  BY <1>4, <1>5, <1>6, <1>7, <1>8, <1>9, <1>10, NextIs DEF ProcessDir

LEMMA FaultNext ==
  ASSUME DirInv, [Next]_vars
  PROVE  FaultInv'
<1> DEFINE c == Cardinality(stale)
           d == Cardinality(unsized)
           b == IF errno THEN 1 ELSE 0
<1>1. /\ faults \in Nat /\ faults' \in {faults, faults + 1} /\ errno' \in BOOLEAN
      /\ errno \in BOOLEAN /\ IsFiniteSet(stale) /\ IsFiniteSet(unsized)
      /\ c \in Nat /\ d \in Nat /\ c + d + b <= faults /\ (faults = 0 => skipped = {})
  <2>1. stale \in SUBSET Entries /\ unsized \in SUBSET Entries /\ errno \in BOOLEAN
    BY DEF DirInv, TypeOK
  <2>2. IsFiniteSet(stale) /\ IsFiniteSet(unsized)
    BY <2>1, EntriesAre, FS_Subset
  <2>3. c \in Nat /\ d \in Nat
    BY <2>2, FS_CardinalityType
  <2>4. c + d + b <= faults /\ (faults = 0 => skipped = {})
    BY DEF DirInv, FaultInv
  <2> QED
    BY <2>1, <2>2, <2>3, <2>4, NextFaults
<1>2. CASE StartDirectory
  <2>1. unsized' = {} /\ stale' = {} /\ skipped' = {} /\ UNCHANGED <<errno, faults>>
    BY <1>2 DEF StartDirectory
  <2>2. Cardinality(stale') = 0 /\ Cardinality(unsized') = 0
    BY <2>1, FS_EmptySet
  <2>3. 0 + 0 + b <= faults
    BY <1>1
  <2> QED
    BY <2>1, <2>2, <2>3 DEF FaultInv
<1>3. CASE \E e \in Entries : VisitSized(e) \/ VisitUnsized(e)
  <2>1. PICK e \in Entries : VisitSized(e) \/ VisitUnsized(e)
    BY <1>3
  <2>2. /\ Cardinality(stale \cup {e}) \in Nat /\ Cardinality(stale \cup {e}) <= c + 1
        /\ Cardinality(unsized \cup {e}) \in Nat /\ Cardinality(unsized \cup {e}) <= d + 1
    <3>1. Cardinality(stale \cup {e}) = IF e \in stale THEN c ELSE c + 1
      BY <1>1, FS_AddElement
    <3>2. Cardinality(unsized \cup {e}) = IF e \in unsized THEN d ELSE d + 1
      BY <1>1, FS_AddElement
    <3> QED
      BY <1>1, <3>1, <3>2
  <2>3. skipped' = skipped
    BY <2>1 DEF VisitSized, VisitUnsized, Visit
  <2>4. faults' = 0 => skipped' = {}
    BY <1>1, <2>3
  <2>5. \/ ~errno /\ UNCHANGED <<stale, unsized>> /\ ~errno' /\ faults' = faults
        \/ ~errno /\ UNCHANGED <<stale, unsized>> /\ faults' = faults + 1
        \/ ~errno' /\ stale' = stale /\ unsized' = unsized \cup {e} /\ faults' = faults + 1
        \/ ~errno' /\ errno /\ stale' = stale \cup {e} /\ unsized' = unsized /\ faults' = faults
    BY <2>1 DEF VisitSized, VisitUnsized, Fault
  <2> HIDE DEF c, d
  <2>6. Cardinality(stale') + Cardinality(unsized') + (IF errno' THEN 1 ELSE 0) <= faults'
    <3>1. CASE UNCHANGED <<stale, unsized>> /\ ~errno
      BY <1>1, <2>5, <3>1 DEF c, d
    <3>2. CASE ~errno' /\ stale' = stale /\ unsized' = unsized \cup {e} /\ faults' = faults + 1
      BY <1>1, <2>2, <3>2 DEF c, d
    <3>3. CASE ~errno' /\ errno /\ stale' = stale \cup {e} /\ unsized' = unsized /\ faults' = faults
      BY <1>1, <2>2, <3>3 DEF c, d
    <3> QED
      BY <2>5, <3>1, <3>2, <3>3
  <2> QED
    BY <2>4, <2>6 DEF FaultInv
<1>4. CASE /\ UNCHANGED <<unsized, stale>>
           /\ errno' => errno \/ faults' = faults + 1
           /\ faults' = faults => skipped' = skipped
  <2>1. Cardinality(stale') = c /\ Cardinality(unsized') = d
    BY <1>4
  <2>2. c + d + (IF errno' THEN 1 ELSE 0) <= faults'
    BY <1>1, <1>4
  <2>3. faults' = 0 => skipped' = {}
    BY <1>1, <1>4
  <2> QED
    BY <2>1, <2>2, <2>3 DEF FaultInv
<1> QED
  BY <1>2, <1>3, <1>4, NextFaults

\* At the end of a walk the list is that of the tree, but for what was hidden.
LEMMA WalkEnds ==
  ASSUME DirInv, main = "walk", stack = <<>>
  PROVE  /\ Range(printed) \subseteq Entries
         /\ \A x \in Entries : x \in ToList(Root) <=> x \in Range(printed)
<1>1. /\ Covered(stack, printed, Root, skipped) /\ printed \in Seq(Entries)
      /\ DOMAIN stack = {}
  BY DEF DirInv, WalkInv, Walked, TypeOK
<1>2. \A x : ~Pending(stack, x)
  BY <1>1 DEF Pending
<1>3. Range(printed) \subseteq Entries
  BY <1>1, RangeOfSeq
<1>4. ToList(Root) = Listable(Root, skipped)
  BY DEF ToList, Listable
<1> QED
  BY <1>1, <1>2, <1>3, <1>4 DEF Covered

LEMMA TotalNext ==
  ASSUME DirInv, [Next]_vars
  PROVE  TotalInv'
<1>1. UNCHANGED tree /\ faults \in Nat /\ faults' \in {faults, faults + 1}
  BY WalkNext, NextFaults
<1>2. arg \in Nat /\ arg >= 1 /\ tstat \in Summary /\ dstat \in Summary
  <2>1. Len(directories) \in Nat
    BY LenProperties DEF DirInv, TypeOK
  <2> QED
    BY <2>1 DEF DirInv, TypeOK
<1> SUFFICES ASSUME faults' = 0, NEW e \in Entries
             PROVE  tstat'.size[e] =
                      Cardinality({n \in 1 .. arg' - 1 : e \in Below(directories[n])})
  BY <1>1, Frozen
<1>3. faults = 0
  BY <1>1
<1> DEFINE old == {n \in 1 .. arg - 1 : e \in Below(directories[n])}
<1>4. tstat.size[e] = Cardinality(old)
  BY <1>3 DEF DirInv, TotalInv
<1>5. CASE ProcessDir \/ StartDirectory \/ Done \/ UNCHANGED vars
  <2>1. tstat' = tstat /\ arg' = arg
    BY <1>5, ProcessOnward DEF StartDirectory, Done, vars
  <2> QED
    BY <1>4, <2>1
<1>6. CASE Aggregate
  <2>1. main = "walk" /\ stack = <<>> /\ arg' = arg + 1 /\ tstat' = Plus(tstat, dstat)
    BY <1>6 DEF Aggregate
  <2>2. tstat'.size[e] = Cardinality(old) + dstat.size[e]
    BY <1>4, <2>1 DEF Plus
  <2>3. skipped = {} /\ unsized = {} /\ stale = {}
    <3>1. /\ stale \in SUBSET Entries /\ unsized \in SUBSET Entries
          /\ Cardinality(stale) + Cardinality(unsized) + (IF errno THEN 1 ELSE 0) <= 0
          /\ skipped = {}
      BY <1>3 DEF DirInv, TypeOK, FaultInv
    <3>2. IsFiniteSet(stale) /\ IsFiniteSet(unsized)
      BY <3>1, EntriesAre, FS_Subset
    <3>3. Cardinality(stale) \in Nat /\ Cardinality(unsized) \in Nat
      BY <3>2, FS_CardinalityType
    <3>4. Cardinality(stale) = 0 /\ Cardinality(unsized) = 0
      BY <3>1, <3>3
    <3> QED
      BY <3>1, <3>2, <3>4, FS_EmptySet
  <2>4. dstat.size[e] = IF e \in Range(printed) THEN 1 ELSE 0
    BY <2>1, <2>3 DEF DirInv, SizeInv
  <2>5. e \in Range(printed) <=> e \in Below(directories[arg])
    <3>1. e \in ToList(Root) <=> e \in Range(printed)
      BY <2>1, WalkEnds
    <3>2. ToList(Root) = Below(Root)
      BY <2>3 DEF ToList
    <3> QED
      BY <3>1, <3>2 DEF Root
  <2>6. IsFiniteSet(old) /\ arg \notin old
    <3>1. old \in SUBSET (1 .. arg - 1) /\ IsFiniteSet(1 .. arg - 1)
      BY <1>2, FS_Interval
    <3>2. IsFiniteSet(old)
      BY <3>1, FS_Subset
    <3>3. arg \notin 1 .. arg - 1
      BY <1>2
    <3> QED
      BY <3>2, <3>3
  <2>7. \A n : n \in 1 .. arg' - 1 <=> n \in 1 .. arg - 1 \/ n = arg
    BY <1>2, <2>1
  <2>8. CASE e \in Below(directories[arg])
    <3>1. {n \in 1 .. arg' - 1 : e \in Below(directories[n])} = old \cup {arg}
      BY <2>7, <2>8
    <3>2. Cardinality(old \cup {arg}) = Cardinality(old) + 1
      BY <2>6, FS_AddElement
    <3> QED
      BY <2>2, <2>4, <2>5, <2>8, <3>1, <3>2
  <2>9. CASE e \notin Below(directories[arg])
    <3>1. {n \in 1 .. arg' - 1 : e \in Below(directories[n])} = old
      BY <2>7, <2>9
    <3>2. Cardinality(old) \in Nat
      BY <2>6, FS_CardinalityType
    <3>3. dstat.size[e] = 0
      BY <2>4, <2>5, <2>9
    <3>4. tstat'.size[e] = Cardinality(old)
      BY <2>2, <3>2, <3>3
    <3> QED
      BY <3>1, <3>4
  <2> QED
    BY <2>8, <2>9
<1> QED
  BY <1>5, <1>6, NextIs

LEMMA TypeNext ==
  ASSUME DirInv, [Next]_vars
  PROVE  TypeOK'
<1>1. /\ TypeOK /\ MainInv /\ UNCHANGED tree /\ WalkInv' /\ StreamsOfThePath' /\ Stacked(stack)'
  BY WalkNext DEF DirInv, WalkInv
<1>2. /\ kind' = kind /\ parent' = parent /\ verbose' = verbose /\ directories' = directories
  BY <1>1 DEF tree
<1>3. Len(directories) \in Nat /\ DOMAIN directories = 1 .. Len(directories)
  BY <1>1, LenProperties DEF TypeOK
<1>4. stack' \in Seq(Frame) /\ \A n \in DOMAIN stack' : FrameOK(stack'[n])
  BY <1>1, Frozen DEF Stacked
<1>5. ASSUME NEW n \in DOMAIN stack'
      PROVE  /\ stack'[n].dir \in Entries /\ stack'[n].at \in {"open", "read", "visit"}
             /\ stack'[n].i \in 1 .. Len(stack'[n].children) + 1
  <2>1. stack'[n] \in Frame
    BY <1>4, <1>5, LenProperties, ElementOfSeq
  <2> QED
    BY <1>4, <2>1 DEF Frame, FrameOK
<1>6. arg' \in 1 .. Len(directories) + 1 /\ main' \in {"next", "walk", "done", "crashed"}
  <2>1. CASE ProcessDir
    BY <1>1, <2>1, ProcessOnward DEF TypeOK
  <2>2. CASE Aggregate
    <3>1. arg \in 1 .. Len(directories) /\ arg' = arg + 1 /\ main' = "next"
      BY <1>1, <1>3, <2>2 DEF Aggregate, MainInv
    <3> QED
      BY <1>3, <3>1
  <2>3. CASE StartDirectory \/ Done \/ UNCHANGED vars
    BY <1>1, <2>3 DEF TypeOK, StartDirectory, Done, vars
  <2> QED
    BY <2>1, <2>2, <2>3, NextIs
<1>7. dstat' \in Summary /\ printed' \in Seq(Entries)
  <2>1. CASE \E e \in Entries : VisitSized(e) \/ VisitUnsized(e)
    BY <2>1, VisitCounts
  <2>2. CASE StartDirectory
    BY <2>2, NothingIs, EmptySeq DEF StartDirectory
  <2>3. CASE UNCHANGED <<dstat, printed>>
    BY <1>1, <2>3 DEF TypeOK
  <2> QED
    BY <2>1, <2>2, <2>3, NextLists
<1>8. tstat' \in Summary
  <2>1. CASE ProcessDir \/ StartDirectory \/ Done \/ UNCHANGED vars
    <3>1. tstat' = tstat
      BY <2>1, ProcessOnward DEF StartDirectory, Done, vars
    <3> QED
      BY <1>1, <3>1 DEF TypeOK
  <2>2. CASE Aggregate
    <3>1. tstat' = Plus(tstat, dstat) /\ tstat \in Summary /\ dstat \in Summary
      BY <1>1, <2>2 DEF Aggregate, TypeOK
    <3>2. \A k \in Counted : tstat.count[k] + dstat.count[k] \in Nat
      BY <3>1 DEF Summary
    <3>3. \A e \in Entries : tstat.size[e] + dstat.size[e] \in Nat
      BY <3>1 DEF Summary
    <3> QED
      BY <3>1, <3>2, <3>3 DEF Plus, Summary
  <2> QED
    BY <2>1, <2>2, NextIs
<1>9. streams' \subseteq Entries
  <2>1. CASE main' # "crashed"
    BY <1>1, <1>5, <2>1 DEF StreamsOfThePath
  <2>2. CASE main' = "crashed"
    <3>1. streams' = streams
      BY <2>2, NextIs, ProcessOnward DEF StartDirectory, Aggregate, Done, walk, vars
    <3> QED
      BY <1>1, <3>1 DEF TypeOK
  <2> QED
    BY <2>1, <2>2
<1>10. faults' \in 0 .. MaxFaults /\ errno' \in BOOLEAN
  BY NextFaults
<1>11. unsized' \cup stale' \subseteq Entries
  <2>1. CASE \E e \in Entries : VisitSized(e) \/ VisitUnsized(e)
    BY <1>1, <2>1, VisitCounts DEF TypeOK
  <2>2. CASE StartDirectory
    BY <2>2 DEF StartDirectory
  <2>3. CASE UNCHANGED <<unsized, stale>>
    BY <1>1, <2>3 DEF TypeOK
  <2> QED
    BY <2>1, <2>2, <2>3, NextLists
<1>12. skipped' \subseteq Entries
  <2>1. CASE \E e \in Entries : VisitSized(e) \/ VisitUnsized(e)
    <3>1. skipped' = skipped
      BY <2>1 DEF VisitSized, VisitUnsized, Visit
    <3> QED
      BY <1>1, <3>1 DEF TypeOK
  <2>2. CASE StartDirectory
    BY <2>2 DEF StartDirectory
  <2>3. CASE skipped' \subseteq Entries
    BY <2>3
  <2> QED
    BY <2>1, <2>2, <2>3, NextFaults
<1>13. skipped' \cup unsized' \cup stale' \subseteq Entries
  BY <1>11, <1>12
<1> QED
  BY <1>1, <1>2, <1>5, <1>6, <1>7, <1>8, <1>9, <1>10, <1>13 DEF TypeOK

LEMMA DirInvNext == DirInv /\ [Next]_vars => DirInv'
  BY TypeNext, WalkNext, OrderNext, CountNext, FaultNext, TotalNext DEF DirInv

LEMMA DirInvAlways == Spec => []DirInv
  BY DirInvInit, DirInvNext, PTL DEF Spec

(***************************************************************************)
(* Theorems.                                                               *)
(***************************************************************************)

\* The variables of dirtree.c have the values that they are declared for, and no
\* call of processDir is past the end of its array (dirtree.c:104-112).
THEOREM TreeTypes == Spec => []TypeOK
<1>1. DirInv => TypeOK
  BY DEF DirInv
<1> QED
  BY <1>1, DirInvAlways, PTL

\* Every directory that is open is on the way to the entry at hand, and closed on
\* each return, whatever fails (dirtree.c:146, :160, :283).
THEOREM StreamsAreClosed == Spec => []StreamsOfThePath
<1>1. DirInv => StreamsOfThePath
  BY DEF DirInv
<1> QED
  BY <1>1, DirInvAlways, PTL

\* The listing of any tree is in the order of the README, at every depth and with
\* no entry twice (dirtree.c:82-95, :180).
THEOREM OrderIsKept == Spec => []ListedInOrder
<1>1. DirInv => ListedInOrder
  BY DEF DirInv
<1> QED
  BY <1>1, DirInvAlways, PTL

\* The total size has what was listed and read, once, and no more entries are
\* left out than calls have failed (dirtree.c:247-254).
THEOREM SizesAreRight == Spec => []SizesAreThere
<1>1. DirInv => SizesAreThere
  <2> SUFFICES ASSUME DirInv PROVE SizesAreThere
    OBVIOUS
  <2>1. stale \in SUBSET Entries /\ unsized \in SUBSET Entries /\ faults \in Nat
    BY TreeAssumption DEF DirInv, TypeOK, TreeAssumption
  <2>2. IsFiniteSet(stale) /\ IsFiniteSet(unsized)
    BY <2>1, EntriesAre, FS_Subset
  <2>3. Cardinality(stale) \in Nat /\ Cardinality(unsized) \in Nat
    BY <2>2, FS_CardinalityType
  <2>4. Cardinality(stale) + Cardinality(unsized) + (IF errno THEN 1 ELSE 0) <= faults
    BY DEF DirInv, FaultInv
  <2>5. Cardinality(stale) + Cardinality(unsized) <= faults
    BY <2>1, <2>3, <2>4
  <2> QED
    BY <2>5 DEF DirInv, SizeInv, SizesAreThere
<1> QED
  BY <1>1, DirInvAlways, PTL

\* The summary of a directory counts each entry below it that no failing call has
\* hidden, once; when nothing failed, the grand total is the sum of the trees of
\* the arguments (dirtree.c:220-275, :405-412).
THEOREM SummariesAreRight == Spec => []SummaryCountsTheTree
<1>1. DirInv => SummaryCountsTheTree
  <2> SUFFICES ASSUME DirInv PROVE SummaryCountsTheTree
    OBVIOUS
  <2>1. ASSUME main = "walk", stack = <<>>, NEW k \in Counted
        PROVE  dstat.count[k] =
                 Cardinality({e \in ToList(directories[arg]) : kind[e] = k})
    <3>1. dstat.count[k] = Cardinality({e \in Range(printed) : kind[e] = k})
      BY <2>1 DEF DirInv, CountInv
    <3>2. /\ Range(printed) \subseteq Entries
          /\ \A x \in Entries : x \in ToList(Root) <=> x \in Range(printed)
      BY <2>1, WalkEnds
    <3>3. ToList(Root) \subseteq Entries
      BY DEF ToList, Below
    <3>4. ToList(directories[arg]) = Range(printed)
      BY <3>2, <3>3 DEF Root
    <3> QED
      BY <3>1, <3>4
  <2>2. ASSUME main = "done", faults = 0, NEW e \in Entries
        PROVE  tstat.size[e] =
                 Cardinality({n \in DOMAIN directories : e \in Below(directories[n])})
    <3>1. /\ arg = Len(directories) + 1 /\ Len(directories) \in Nat
          /\ DOMAIN directories = 1 .. Len(directories)
      BY <2>2, LenProperties DEF DirInv, MainInv, TypeOK
    <3>2. 1 .. arg - 1 = DOMAIN directories
      BY <3>1
    <3>3. tstat.size[e] = Cardinality({n \in 1 .. arg - 1 : e \in Below(directories[n])})
      BY <2>2 DEF DirInv, TotalInv
    <3> QED
      BY <3>2, <3>3
  <2> QED
    BY <2>1, <2>2 DEF SummaryCountsTheTree
<1> QED
  BY <1>1, DirInvAlways, PTL
=============================================================================
