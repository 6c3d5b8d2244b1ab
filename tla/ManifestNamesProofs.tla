------------------------- MODULE ManifestNamesProofs -------------------------
(***************************************************************************)
(* validate_manifest compares neighbours of the sorted names only.  Here   *)
(* it is proved, for every finite set of names, that this finds every      *)
(* prefix collision unless a name that continues another one with a        *)
(* character below "/" can stand in between.                               *)
(***************************************************************************)
EXTENDS ManifestNames, FiniteSetTheorems, SequenceTheorems, TLAPS

Name == Seq(Nat)

-----------------------------------------------------------------------------
(* Prefixes, character by character *)

\* str.startswith
LEMMA PrefixMeaning ==
    ASSUME NEW x \in Name, NEW y \in Name
    PROVE  StartsWith(y, x) <=> Len(x) <= Len(y) /\ \A i \in 1..Len(x) : x[i] = y[i]
<1>1. CASE Len(x) <= Len(y)
  <2> DEFINE p == SubSeq(y, 1, Len(x))
  <2>1. p \in Seq(Nat) /\ Len(p) = Len(x) /\ \A i \in 1..Len(x) : p[i] = y[i]
    BY <1>1 DEF Name
  <2>2. p = x <=> \A i \in 1..Len(x) : x[i] = p[i]
    BY <2>1, SeqEqual DEF Name
  <2> QED
    BY <1>1, <2>1, <2>2 DEF StartsWith
<1> QED
  BY <1>1 DEF StartsWith

\* A proper prefix is shorter.
LEMMA ProperPrefix ==
    ASSUME NEW x \in Name, NEW y \in Name, x # y, StartsWith(y, x)
    PROVE  Len(x) < Len(y)
<1>1. Len(x) <= Len(y) /\ \A i \in 1..Len(x) : x[i] = y[i]
  BY PrefixMeaning
<1>2. ASSUME Len(x) = Len(y) PROVE FALSE
  BY <1>1, <1>2, SeqEqual DEF Name
<1> QED
  BY <1>1, <1>2 DEF Name

\* curr.startswith(prev + "/")
LEMMA InsideMeaning ==
    ASSUME NEW x \in Name, NEW y \in Name
    PROVE  Inside(y, x) <=> /\ Len(x) < Len(y)
                            /\ \A i \in 1..Len(x) : x[i] = y[i]
                            /\ y[Len(x) + 1] = Slash
<1> DEFINE s == Append(x, Slash)
<1>1. s \in Name /\ Len(s) = Len(x) + 1 /\ s[Len(x) + 1] = Slash
      /\ \A i \in 1..Len(x) : s[i] = x[i]
  BY SlashAssumption DEF Name
<1> HIDE DEF s
<1>2. StartsWith(y, s) <=> Len(s) <= Len(y) /\ \A i \in 1..Len(s) : s[i] = y[i]
  BY <1>1, PrefixMeaning
<1>3. Inside(y, x) <=> StartsWith(y, s)
  BY DEF Inside, s
<1>4. Len(x) \in Nat /\ Len(y) \in Nat
  BY DEF Name
<1>5. (\A i \in 1..Len(s) : s[i] = y[i]) <=>
        (\A i \in 1..Len(x) : x[i] = y[i]) /\ y[Len(x) + 1] = Slash
  BY <1>1, <1>4
<1> QED
  BY <1>1, <1>2, <1>3, <1>4, <1>5

-----------------------------------------------------------------------------
(* Python's order *)

\* The place where two names differ first.
Differ(x, y, i) == /\ i \in 1..Len(x) /\ i <= Len(y) /\ x[i] < y[i]
                   /\ \A k \in 1..(i - 1) : x[k] = y[k]

\* No name sorts before itself.
LEMMA Irreflexive ==
    ASSUME NEW x \in Name PROVE ~Before(x, x)
BY DEF Before, Name

\* The order of names is transitive.
LEMMA Transitive ==
    ASSUME NEW x \in Name, NEW y \in Name, NEW z \in Name, Before(x, y), Before(y, z)
    PROVE  Before(x, z)
<1>0. Len(x) \in Nat /\ Len(y) \in Nat /\ Len(z) \in Nat
  BY DEF Name
<1>n. /\ \A i \in 1..Len(x) : x[i] \in Nat
      /\ \A i \in 1..Len(y) : y[i] \in Nat
      /\ \A i \in 1..Len(z) : z[i] \in Nat
  BY DEF Name
<1>p. /\ StartsWith(y, x) <=> Len(x) <= Len(y) /\ \A i \in 1..Len(x) : x[i] = y[i]
      /\ StartsWith(z, y) <=> Len(y) <= Len(z) /\ \A i \in 1..Len(y) : y[i] = z[i]
      /\ StartsWith(z, x) <=> Len(x) <= Len(z) /\ \A i \in 1..Len(x) : x[i] = z[i]
  BY PrefixMeaning
<1>d. (\E i : Differ(x, z, i)) => Before(x, z)
  BY DEF Before, Differ
<1>1. CASE x # y /\ StartsWith(y, x) /\ y # z /\ StartsWith(z, y)
  <2>1. Len(x) < Len(y) /\ Len(y) < Len(z)
    BY <1>1, ProperPrefix
  <2>2. x # z /\ StartsWith(z, x)
    BY <2>1, <1>0, <1>1, <1>p
  <2> QED
    BY <2>2 DEF Before
<1>2. ASSUME x # y, StartsWith(y, x), NEW j, Differ(y, z, j) PROVE Before(x, z)
  <2>1. CASE j <= Len(x)
    <3>1. Differ(x, z, j)
      BY <1>2, <1>0, <1>p, <2>1 DEF Differ
    <3> QED BY <3>1, <1>d
  <2>2. CASE j > Len(x)
    <3>1. Len(x) < Len(z) /\ \A i \in 1..Len(x) : x[i] = z[i]
      BY <1>2, <1>0, <1>p, <2>2 DEF Differ
    <3>2. x # z /\ StartsWith(z, x)
      BY <3>1, <1>0, <1>p
    <3> QED BY <3>2 DEF Before
  <2> QED BY <2>1, <2>2, <1>0, <1>2 DEF Differ
<1>3. ASSUME NEW i, Differ(x, y, i), StartsWith(z, y) PROVE Before(x, z)
  <2>1. Differ(x, z, i)
    BY <1>3, <1>0, <1>p DEF Differ
  <2> QED BY <2>1, <1>d
<1>4. ASSUME NEW i, Differ(x, y, i), NEW j, Differ(y, z, j) PROVE Before(x, z)
  <2>1. CASE i <= j
    <3>1. Differ(x, z, i)
      BY <1>4, <1>0, <1>n, <2>1 DEF Differ
    <3> QED BY <3>1, <1>d
  <2>2. CASE j < i
    <3>1. Differ(x, z, j)
      BY <1>4, <1>0, <1>n, <2>2 DEF Differ
    <3> QED BY <3>1, <1>d
  <2> QED BY <2>1, <2>2, <1>4, <1>0 DEF Differ
<1>5. (x # y /\ StartsWith(y, x)) \/ \E i : Differ(x, y, i)
  BY DEF Before, Differ
<1>6. (y # z /\ StartsWith(z, y)) \/ \E j : Differ(y, z, j)
  BY DEF Before, Differ
<1> QED
  BY <1>1, <1>2, <1>3, <1>4, <1>5, <1>6

\* Every set of numbers has a least one.
LEMMA LeastNat ==
    ASSUME NEW T, T \subseteq Nat, T # {}
    PROVE  \E n \in T : \A k \in T : n <= k
<1>1. PICK n \in T : \A k \in T : <<k, n>> \notin OpToRel(<, Nat)
  BY NatLessThanWellFounded, WFMin
<1>2. ASSUME NEW k \in T PROVE ~(k < n)
  BY <1>1 DEF OpToRel
<1> QED
  BY <1>2

\* Of two names one sorts before the other: at the first place where they differ,
\* or because one continues the other.
LEMMA Comparable ==
    ASSUME NEW x \in Name, NEW y \in Name, x # y
    PROVE  Before(x, y) \/ Before(y, x)
<1> DEFINE D == {i \in Nat : i \in 1..Len(x) /\ i \in 1..Len(y) /\ x[i] # y[i]}
<1>0. Len(x) \in Nat /\ Len(y) \in Nat
  BY DEF Name
<1>1. CASE D = {}
  <2>1. \A i \in 1..Len(x) : i <= Len(y) => x[i] = y[i]
    BY <1>0, <1>1
  <2>2. StartsWith(y, x) \/ StartsWith(x, y)
    <3>1. CASE Len(x) <= Len(y)
      BY <1>0, <2>1, <3>1, PrefixMeaning
    <3>2. CASE Len(y) <= Len(x)
      BY <1>0, <2>1, <3>2, PrefixMeaning
    <3> QED
      BY <1>0, <3>1, <3>2
  <2> QED
    BY <2>2 DEF Before
<1>2. CASE D # {}
  <2>1. PICK n \in D : \A k \in D : n <= k
    BY <1>2, LeastNat
  <2>2. /\ n \in 1..Len(x) /\ n <= Len(y) /\ n \in 1..Len(y) /\ n <= Len(x)
        /\ x[n] \in Nat /\ y[n] \in Nat /\ x[n] # y[n]
    BY <1>0 DEF Name
  <2>3. \A k \in 1..(n - 1) : x[k] = y[k]
    <3> SUFFICES ASSUME NEW k \in 1..(n - 1), x[k] # y[k] PROVE FALSE
      OBVIOUS
    <3>1. k \in D
      BY <1>0, <2>2
    <3> QED
      BY <2>1, <2>2, <3>1
  <2>4. x[n] < y[n] \/ y[n] < x[n]
    BY <2>2
  <2> QED
    BY <2>2, <2>3, <2>4 DEF Before
<1> QED
  BY <1>1, <1>2

\* Before is a strict total order on names, so that sorted(S) is one sequence and
\* Neighbours are what follows each other in it, whatever the names.
THEOREM SortedIsUnique ==
    /\ \A x \in Name : ~Before(x, x)
    /\ \A x, y, z \in Name : Before(x, y) /\ Before(y, z) => Before(x, z)
    /\ \A x, y \in Name : x = y \/ Before(x, y) \/ Before(y, x)
  BY Irreflexive, Transitive, Comparable

\* What sorts between a file and something inside it continues the file's name,
\* with a character no greater than "/".
LEMMA Between ==
    ASSUME NEW x \in Name, NEW w \in Name, NEW y \in Name,
           Inside(y, x), Before(x, w), Before(w, y)
    PROVE  StartsWith(w, x) /\ Len(x) < Len(w) /\ w[Len(x) + 1] <= Slash
<1>0. Len(x) \in Nat /\ Len(y) \in Nat /\ Len(w) \in Nat /\ Slash \in Nat
  BY SlashAssumption DEF Name
<1>n. /\ \A i \in 1..Len(x) : x[i] \in Nat
      /\ \A i \in 1..Len(y) : y[i] \in Nat
      /\ \A i \in 1..Len(w) : w[i] \in Nat
  BY DEF Name
<1>i. Len(x) < Len(y) /\ (\A i \in 1..Len(x) : x[i] = y[i]) /\ y[Len(x) + 1] = Slash
  BY InsideMeaning
<1>p. /\ StartsWith(w, x) <=> Len(x) <= Len(w) /\ \A i \in 1..Len(x) : x[i] = w[i]
      /\ StartsWith(y, w) <=> Len(w) <= Len(y) /\ \A i \in 1..Len(w) : w[i] = y[i]
  BY PrefixMeaning
<1>w. StartsWith(y, w) \/ \E j : Differ(w, y, j)
  BY DEF Before, Differ
<1>1. ASSUME NEW i, Differ(x, w, i) PROVE FALSE
  <2>1. i \in 1..Len(x) /\ i \in 1..Len(w) /\ y[i] = x[i] /\ y[i] < w[i]
        /\ \A k \in 1..(i - 1) : y[k] = w[k]
    BY <1>1, <1>0, <1>i DEF Differ
  <2>2. ~StartsWith(y, w)
    BY <2>1, <1>p, <1>n
  <2>3. ASSUME NEW j, Differ(w, y, j) PROVE FALSE
    <3>1. CASE j < i  BY <3>1, <2>1, <2>3, <1>0, <1>n DEF Differ
    <3>2. CASE j = i  BY <3>2, <2>1, <2>3, <1>0, <1>n, <1>i DEF Differ
    <3>3. CASE j > i  BY <3>3, <2>1, <2>3, <1>0, <1>n, <1>i DEF Differ
    <3> QED BY <3>1, <3>2, <3>3, <2>1, <2>3, <1>0 DEF Differ
  <2> QED BY <2>2, <2>3, <1>w
<1>2. x # w /\ StartsWith(w, x)
  BY <1>1 DEF Before, Differ
<1>3. Len(x) < Len(w)
  BY <1>2, ProperPrefix
<1>4. w[Len(x) + 1] <= Slash
  <2>1. CASE StartsWith(y, w)
    BY <2>1, <1>0, <1>i, <1>p, <1>3
  <2>2. ASSUME NEW j, Differ(w, y, j) PROVE w[Len(x) + 1] <= Slash
    <3>1. CASE j <= Len(x)     BY <3>1, <2>2, <1>0, <1>n, <1>i, <1>p, <1>2 DEF Differ
    <3>2. CASE j = Len(x) + 1  BY <3>2, <2>2, <1>0, <1>n, <1>i DEF Differ
    <3>3. CASE j > Len(x) + 1  BY <3>3, <2>2, <1>0, <1>n, <1>i, <1>3 DEF Differ
    <3> QED BY <3>1, <3>2, <3>3, <2>2, <1>0 DEF Differ
  <2> QED BY <2>1, <2>2, <1>w
<1> QED
  BY <1>2, <1>3, <1>4

-----------------------------------------------------------------------------
(* The theorem *)

\* What validate_manifest accepts has no file that is a directory of another one,
\* unless a name continues another one with a character that sorts before "/".
THEOREM NeighboursSuffice ==
    ASSUME NEW S, S \subseteq Name, IsFiniteSet(S), ValidNames(S), ~Intervenes(S)
    PROVE  ~Collide(S)
<1> SUFFICES ASSUME NEW x \in S, NEW y \in S, Inside(y, x) PROVE FALSE
  BY DEF Collide
<1> DEFINE In == {z \in S : Inside(z, x)}
           B(z) == {w \in S : Before(x, w) /\ Before(w, z)}
           T == {B(z) : z \in In}
\* Something inside x with as few names as possible between x and it.
<1>1. PICK z \in In : \A v \in In : ~(B(v) \subseteq B(z) /\ B(v) # B(z))
  <2>1. T \subseteq FiniteSubsetsOf(S) /\ T # {}
    <3>1. ASSUME NEW v \in In PROVE B(v) \in FiniteSubsetsOf(S)
      <4>1. B(v) \in SUBSET S
        OBVIOUS
      <4> HIDE DEF B
      <4> QED
        BY <4>1, FS_Subset DEF FiniteSubsetsOf
    <3>2. y \in In
      OBVIOUS
    <3> HIDE DEF B, In
    <3> QED
      BY <3>1, <3>2
  <2>2. PICK b \in T : \A c \in T : ~(<<c, b>> \in StrictSubsetOrdering(S))
    BY <2>1, FS_StrictSubsetOrderingWellFounded, WFMin
  <2>3. \A c \in T : ~(c \subseteq b /\ c # b)
    BY <2>2, <2>1 DEF StrictSubsetOrdering
  <2>4. PICK z \in In : b = B(z)
    OBVIOUS
  <2>5. \A v \in In : B(v) \in T
    OBVIOUS
  <2> HIDE DEF B, In, T
  <2> QED
    BY <2>3, <2>4, <2>5
<1>2. ASSUME NEW w \in B(z) PROVE FALSE
  <2>1. w \in Name /\ z \in Name /\ x \in Name /\ Before(x, w) /\ Before(w, z) /\ Inside(z, x)
    OBVIOUS
  <2>2. StartsWith(w, x) /\ Len(x) < Len(w) /\ w[Len(x) + 1] <= Slash
    BY <2>1, Between
  <2>3. ~(w[Len(x) + 1] < Slash)
    BY <2>2 DEF Intervenes
  <2>4. w[Len(x) + 1] = Slash
    BY <2>1, <2>2, <2>3, SlashAssumption DEF Name
  <2>5. Inside(w, x)
    BY <2>1, <2>2, <2>4, InsideMeaning, PrefixMeaning
  <2>6. B(w) \subseteq B(z)
    <3> SUFFICES ASSUME NEW u \in S, Before(u, w) PROVE Before(u, z)
      OBVIOUS
    <3> QED
      BY <2>1, Transitive
  <2>7. w \notin B(w)
    BY <2>1, Irreflexive
  <2> QED
    BY <1>1, <2>5, <2>6, <2>7
<1>3. Before(x, z)
  <2>1. x # z /\ StartsWith(z, x)
    BY InsideMeaning, PrefixMeaning DEF Name
  <2> QED BY <2>1 DEF Before
<1>4. Neighbours(S, x, z)
  BY <1>2, <1>3 DEF Neighbours
<1> QED
  BY <1>4 DEF ValidNames

\* Without such a name the check is exact: it refuses the reserved name and real
\* collisions, and nothing else.
THEOREM NeighboursExact ==
    ASSUME NEW S, S \subseteq Name, IsFiniteSet(S), ~Intervenes(S)
    PROVE  ValidNames(S) <=> MetaName \notin S /\ ~Collide(S)
<1>1. MetaName \notin S /\ ~Collide(S) => ValidNames(S)
  BY DEF ValidNames, Collide
<1>2. ValidNames(S) => MetaName \notin S
  BY DEF ValidNames
<1> QED
  BY <1>1, <1>2, NeighboursSuffice
=============================================================================
