------------------------ MODULE ObjectDirectory_proofs ------------------------
(***************************************************************************)
(* Proofs about ObjectDirectory, for any names of which none begins another *)
(* one and any capacity of a block.  The tree of blocks leads each name to  *)
(* one block, blocks stay sorted, and the binary search finds a name where  *)
(* it is listed and no other (Structure).  First blocks in use are not      *)
(* shared, and only an open file that was removed has an entry without one  *)
(* (Cared).  So the directory is a NamedObjects, by what is listed.         *)
(***************************************************************************)
EXTENDS ObjectDirectory, FiniteSetTheorems, SequenceTheorems, TLAPS

-----------------------------------------------------------------------------
(* Induction and recursion *)

\* Every nonempty set of naturals has a least element: the intervals from 0 are
\* finite sets, which strict inclusion orders well.
LEMMA LeastElement ==
    ASSUME NEW T, T \subseteq Nat, T # {}
    PROVE  \E m \in T : \A n \in T : m <= n
<1> DEFINE Upto == {0 .. n : n \in T}
<1>1. Upto \subseteq FiniteSubsetsOf(Nat)
    <2>1. ASSUME NEW n \in T PROVE 0 .. n \in SUBSET Nat /\ IsFiniteSet(0 .. n)
        BY FS_Interval
    <2> QED BY <2>1 DEF FiniteSubsetsOf
<1>2. Upto # {}
    OBVIOUS
<1>3. PICK u \in Upto : \A w \in Upto : ~(<<w, u>> \in StrictSubsetOrdering(Nat))
    <2> HIDE DEF Upto
    <2> QED BY <1>1, <1>2, FS_StrictSubsetOrderingWellFounded, WFMin, Zenon
<1>4. PICK m \in T : u = 0 .. m
    OBVIOUS
<1>5. ASSUME NEW n \in T, n < m PROVE FALSE
    <2>1. 0 .. n \in SUBSET Nat /\ 0 .. m \in SUBSET Nat /\ 0 .. n \subseteq 0 .. m /\ 0 .. n # 0 .. m
        <3>1. m \in 0 .. m /\ m \notin 0 .. n /\ m \in Nat /\ n \in Nat
            BY <1>5
        <3> QED BY <3>1, <1>5
    <2>2. <<0 .. n, 0 .. m>> \in StrictSubsetOrdering(Nat)
        BY <2>1 DEF StrictSubsetOrdering
    <2> QED BY <1>3, <1>4, <2>2
<1> QED BY <1>5

\* Induction, for a set of naturals.
LEMMA Induction ==
    ASSUME NEW T, 0 \in T, \A n \in Nat : n \in T => n + 1 \in T
    PROVE  Nat \subseteq T
<1> SUFFICES ASSUME Nat \ T # {} PROVE FALSE
    OBVIOUS
<1>1. PICK m \in Nat \ T : \A n \in Nat \ T : m <= n
    BY LeastElement
<1>2. m # 0 /\ m - 1 \in Nat /\ m - 1 \in T
    BY <1>1
<1> QED BY <1>1, <1>2

\* g has what repeating F makes of x, for m times.
Repeats(S, x, F, m, g) ==
    g \in [0 .. m -> S] /\ g[0] = x /\ \A k \in 1 .. m : g[k] = F[g[k - 1]]

LEMMA Iteration ==
    ASSUME NEW S, NEW x \in S, NEW F \in [S -> S], NEW m \in Nat
    PROVE  \E g : Repeats(S, x, F, m, g)
<1> DEFINE Runs(n, g) == g[0] = x /\ \A k \in 1 .. n : g[k] = F[g[k - 1]]
           T == {n \in Nat : \E g \in [0 .. n -> S] : Runs(n, g)}
<1>1. 0 \in T
    <2> DEFINE g == [n \in 0 .. 0 |-> x]
    <2>1. g \in [0 .. 0 -> S] /\ Runs(0, g)
        OBVIOUS
    <2> QED BY <2>1
<1>2. ASSUME NEW n \in Nat, n \in T PROVE n + 1 \in T
    <2>1. PICK g \in [0 .. n -> S] : Runs(n, g)
        BY <1>2
    <2> DEFINE h == [k \in 0 .. n + 1 |-> IF k <= n THEN g[k] ELSE F[g[n]]]
    <2>2. h \in [0 .. n + 1 -> S]
        OBVIOUS
    <2>3. h[0] = x
        BY <2>1
    <2>4. ASSUME NEW k \in 1 .. n + 1 PROVE h[k] = F[h[k - 1]]
        BY <2>1
    <2> HIDE DEF h
    <2> QED BY <2>2, <2>3, <2>4
<1> HIDE DEF T
<1>3. Nat \subseteq T
    BY <1>1, <1>2, Induction
<1>4. m \in T
    BY <1>3
<1> QED BY <1>4 DEF T, Repeats

-----------------------------------------------------------------------------
(* Names and their order *)

Word == Seq(Chars)

\* s comes before t, and neither begins the other.
Below(s, t) ==
    \E k \in 1 .. Len(s) : k <= Len(t) /\ (\A j \in 1 .. k - 1 : s[j] = t[j]) /\ s[k] < t[k]

LEMMA Letters ==
    ASSUME NEW s \in Word
    PROVE  Len(s) \in Nat /\ \A k \in 1 .. Len(s) : s[k] \in Chars /\ s[k] \in Nat
<1>1. Len(s) \in Nat /\ \A k \in 1 .. Len(s) : s[k] \in Chars
    BY LenProperties, ElementOfSeq DEF Word
<1> QED BY <1>1, CharsAssumption

LEMMA DifferAt ==
    ASSUME NEW s \in Word, NEW t \in Word
    PROVE  /\ Differ(s, t) \in 1 .. Len(s) + 1
           /\ Differ(s, t) > Len(s) \/ Differ(s, t) > Len(t) \/ s[Differ(s, t)] # t[Differ(s, t)]
           /\ \A j \in 1 .. Differ(s, t) - 1 : j <= Len(t) /\ s[j] = t[j]
<1> DEFINE K == {k \in Nat : k >= 1 /\ k <= Len(s) + 1 /\ (k > Len(s) \/ k > Len(t) \/ s[k] # t[k])}
           P(k) == /\ k > Len(s) \/ k > Len(t) \/ s[k] # t[k]
                   /\ \A j \in 1 .. k - 1 : j <= Len(t) /\ s[j] = t[j]
<1>1. Len(s) \in Nat /\ Len(t) \in Nat
    BY Letters
<1>2. Len(s) + 1 \in K
    BY <1>1
<1>3. PICK k \in K : \A n \in K : k <= n
    <2> HIDE DEF K
    <2>1. K \subseteq Nat
        BY DEF K
    <2> QED BY <1>2, <2>1, LeastElement
<1>4. k \in 1 .. Len(s) + 1
    BY <1>1
<1>5. ASSUME NEW j \in 1 .. k - 1 PROVE j <= Len(t) /\ s[j] = t[j]
    <2>1. j \notin K
        <3>1. j < k /\ k \in Nat /\ j \in Nat
            BY <1>4
        <3> HIDE DEF K
        <3> QED BY <1>3, <3>1
    <2> QED BY <1>1, <1>4, <2>1
<1>6. P(k)
    BY <1>3, <1>5
<1>7. Differ(s, t) \in 1 .. Len(s) + 1 /\ P(Differ(s, t))
    <2> HIDE DEF K
    <2> QED BY <1>4, <1>6 DEF Differ
<1> QED BY <1>7

LEMMA BelowCompares ==
    ASSUME NEW s \in Word, NEW t \in Word, Below(s, t)
    PROVE  /\ Compare(s, t) \in Int /\ Compare(t, s) \in Int
           /\ Compare(s, t) < 0 /\ Compare(t, s) > 0
<1>1. PICK k \in 1 .. Len(s) : k <= Len(t) /\ (\A j \in 1 .. k - 1 : s[j] = t[j]) /\ s[k] < t[k]
    BY DEF Below
<1>2. /\ Len(s) \in Nat /\ Len(t) \in Nat /\ k \in Nat /\ k \in 1 .. Len(t)
      /\ s[k] \in Nat /\ t[k] \in Nat
    BY <1>1, Letters
<1> DEFINE d == Differ(s, t)
           e == Differ(t, s)
<1>3. /\ d \in 1 .. Len(s) + 1 /\ (d > Len(s) \/ d > Len(t) \/ s[d] # t[d])
      /\ \A j \in 1 .. d - 1 : j <= Len(t) /\ s[j] = t[j]
    BY DifferAt
<1>4. /\ e \in 1 .. Len(t) + 1 /\ (e > Len(t) \/ e > Len(s) \/ t[e] # s[e])
      /\ \A j \in 1 .. e - 1 : j <= Len(s) /\ t[j] = s[j]
    BY DifferAt
<1>5. d = k /\ Compare(s, t) = IF d > Len(s) THEN 0 ELSE IF d > Len(t) THEN s[d] ELSE s[d] - t[d]
    <2>1. Compare(s, t) = IF d > Len(s) THEN 0 ELSE IF d > Len(t) THEN s[d] ELSE s[d] - t[d]
        BY DEF Compare
    <2> HIDE DEF d
    <2>2. ~(d < k)
        BY <1>1, <1>2, <1>3
    <2>3. ~(d > k)
        BY <1>1, <1>2, <1>3
    <2> QED BY <1>2, <1>3, <2>1, <2>2, <2>3
<1>6. e = k /\ Compare(t, s) = IF e > Len(t) THEN 0 ELSE IF e > Len(s) THEN t[e] ELSE t[e] - s[e]
    <2>1. Compare(t, s) = IF e > Len(t) THEN 0 ELSE IF e > Len(s) THEN t[e] ELSE t[e] - s[e]
        BY DEF Compare
    <2> HIDE DEF e
    <2>2. ~(e < k)
        BY <1>1, <1>2, <1>4
    <2>3. ~(e > k)
        BY <1>1, <1>2, <1>4
    <2> QED BY <1>2, <1>4, <2>1, <2>2, <2>3
<1> HIDE DEF d, e
<1>7. Compare(s, t) = s[k] - t[k] /\ Compare(t, s) = t[k] - s[k]
    BY <1>2, <1>5, <1>6
<1> QED BY <1>1, <1>2, <1>7

LEMMA SameCompares == ASSUME NEW s \in Word PROVE Compare(s, s) = 0
<1>1. Differ(s, s) \in 1 .. Len(s) + 1 /\ Differ(s, s) > Len(s) /\ Len(s) \in Nat
    BY DifferAt, Letters
<1> QED BY <1>1 DEF Compare

LEMMA BelowIsStrict == ASSUME NEW s \in Word PROVE ~Below(s, s)
<1>1. \A k \in 1 .. Len(s) : s[k] \in Nat
    BY Letters
<1> QED BY <1>1 DEF Below

LEMMA BelowIsTransitive ==
    ASSUME NEW s \in Word, NEW t \in Word, NEW u \in Word, Below(s, t), Below(t, u)
    PROVE  Below(s, u)
<1>1. PICK k \in 1 .. Len(s) : k <= Len(t) /\ (\A j \in 1 .. k - 1 : s[j] = t[j]) /\ s[k] < t[k]
    BY DEF Below
<1>2. PICK m \in 1 .. Len(t) : m <= Len(u) /\ (\A j \in 1 .. m - 1 : t[j] = u[j]) /\ t[m] < u[m]
    BY DEF Below
<1>3. Len(s) \in Nat /\ Len(t) \in Nat /\ Len(u) \in Nat
    BY Letters
<1>4. CASE k < m
    <2>1. k \in 1 .. m - 1 /\ k <= Len(u) /\ s[k] < u[k]
        BY <1>1, <1>2, <1>3, <1>4
    <2>2. \A j \in 1 .. k - 1 : s[j] = u[j]
        BY <1>1, <1>2, <1>3, <1>4
    <2> QED BY <2>1, <2>2 DEF Below
<1>5. CASE k = m
    <2>1. s[k] \in Nat /\ t[k] \in Nat /\ u[k] \in Nat
        BY <1>1, <1>2, <1>3, <1>5, Letters
    <2>2. s[k] < u[k] /\ k <= Len(u)
        BY <1>1, <1>2, <1>5, <2>1
    <2>3. \A j \in 1 .. k - 1 : s[j] = u[j]
        BY <1>1, <1>2, <1>5
    <2> QED BY <2>2, <2>3 DEF Below
<1>6. CASE k > m
    <2>1. m \in 1 .. Len(s) /\ m \in 1 .. k - 1 /\ s[m] < u[m]
        BY <1>1, <1>2, <1>3, <1>6
    <2>2. \A j \in 1 .. m - 1 : s[j] = u[j]
        BY <1>1, <1>2, <1>3, <1>6
    <2> QED BY <1>2, <2>1, <2>2 DEF Below
<1> QED BY <1>1, <1>2, <1>4, <1>5, <1>6

\* A name that begins another one is that name.
LEMMA NoNameBegins ==
    ASSUME NEW m \in Names, NEW n \in Names, Len(m) <= Len(n), \A i \in 1 .. Len(m) : m[i] = n[i]
    PROVE  m = n
<1>1. m \in Word /\ n \in Word /\ Len(m) \in Nat /\ Len(n) \in Nat
    BY CharsAssumption, LenProperties DEF Word
<1> DEFINE p == SubSeq(m, 1, Len(m))
           q == SubSeq(n, 1, Len(m))
<1>2. \A i \in 1 .. Len(m) : m[i] \in Chars /\ n[i] \in Chars
    BY <1>1, Letters
<1>3. p \in Seq(Chars) /\ Len(p) = Len(m) /\ \A i \in 1 .. Len(m) : p[i] = m[i]
    BY <1>1, <1>2, SubSeqProperties
<1>4. q \in Seq(Chars) /\ Len(q) = Len(m) /\ \A i \in 1 .. Len(m) : q[i] = n[i]
    BY <1>1, <1>2, SubSeqProperties
<1>5. p = q
    <2> HIDE DEF p, q
    <2> QED BY <1>3, <1>4, SeqEqual
<1>6. IsPrefix(m, n)
    BY <1>5 DEF IsPrefix
<1> QED BY <1>6, PrefixFree

\* Of two names that go on from the same beginning one comes before the other.
LEMMA NamesDiffer ==
    ASSUME NEW l \in Word, NEW r \in Word, NEW s \in Word, l \o r \in Names, l \o s \in Names
    PROVE  r = s \/ Below(r, s) \/ Below(s, r)
<1> DEFINE d == Differ(r, s)
<1>1. /\ Len(l) \in Nat /\ Len(r) \in Nat /\ Len(s) \in Nat
      /\ \A k \in 1 .. Len(r) : r[k] \in Nat
      /\ \A k \in 1 .. Len(s) : s[k] \in Nat
    BY Letters
<1>2. /\ d \in 1 .. Len(r) + 1 /\ (d > Len(r) \/ d > Len(s) \/ r[d] # s[d])
      /\ \A j \in 1 .. d - 1 : j <= Len(s) /\ r[j] = s[j]
    BY DifferAt
<1>3. /\ Len(l \o r) = Len(l) + Len(r) /\ Len(l \o s) = Len(l) + Len(s)
      /\ \A i \in 1 .. Len(l) + Len(r) : (l \o r)[i] = IF i <= Len(l) THEN l[i] ELSE r[i - Len(l)]
      /\ \A i \in 1 .. Len(l) + Len(s) : (l \o s)[i] = IF i <= Len(l) THEN l[i] ELSE s[i - Len(l)]
    BY ConcatProperties DEF Word
<1> HIDE DEF d
<1>4. CASE d > Len(r)
    <2>1. Len(r) <= Len(s) /\ \A j \in 1 .. Len(r) : r[j] = s[j]
        BY <1>1, <1>2, <1>4
    <2>2. \A i \in 1 .. Len(l \o r) : (l \o r)[i] = (l \o s)[i]
        BY <1>1, <1>3, <2>1
    <2>3. l \o r = l \o s
        <3>1. Len(l \o r) <= Len(l \o s)
            BY <1>1, <1>3, <2>1
        <3> QED BY <2>2, <3>1, NoNameBegins
    <2>4. Len(r) = Len(s)
        BY <1>1, <1>3, <2>3
    <2> QED BY <2>1, <2>4, SeqEqual DEF Word
<1>5. CASE d <= Len(r) /\ d > Len(s)
    <2>1. Len(s) <= Len(r) /\ \A j \in 1 .. Len(s) : r[j] = s[j]
        BY <1>1, <1>2, <1>5
    <2>2. \A i \in 1 .. Len(l \o s) : (l \o s)[i] = (l \o r)[i]
        BY <1>1, <1>3, <2>1
    <2>3. l \o s = l \o r
        <3>1. Len(l \o s) <= Len(l \o r)
            BY <1>1, <1>3, <2>1
        <3> QED BY <2>2, <3>1, NoNameBegins
    <2>4. Len(r) = Len(s)
        BY <1>1, <1>3, <2>3
    <2>5. s = r
        BY <2>1, <2>4, SeqEqual DEF Word
    <2> QED BY <2>5
<1>6. CASE d <= Len(r) /\ d <= Len(s)
    <2>1. d \in 1 .. Len(r) /\ d \in 1 .. Len(s) /\ r[d] # s[d] /\ r[d] \in Nat /\ s[d] \in Nat
        BY <1>1, <1>2, <1>6
    <2>2. \A j \in 1 .. d - 1 : r[j] = s[j] /\ s[j] = r[j]
        BY <1>2
    <2>3. r[d] < s[d] => Below(r, s)
        BY <2>1, <2>2 DEF Below
    <2>4. s[d] < r[d] => Below(s, r)
        BY <2>1, <2>2 DEF Below
    <2> QED BY <2>1, <2>3, <2>4
<1> QED BY <1>1, <1>2, <1>4, <1>5, <1>6

LEMMA FirstLetters ==
    ASSUME NEW s \in Word, NEW t \in Word, Below(s, t)
    PROVE  /\ s # <<>> /\ t # <<>>
           /\ Head(s) = s[1] /\ Head(t) = t[1]
           /\ Head(s) \in Chars /\ Head(t) \in Chars /\ Head(s) \in Nat /\ Head(t) \in Nat
           /\ Head(s) <= Head(t)
           /\ Head(s) = Head(t) => Below(Tail(s), Tail(t))
<1>1. PICK k \in 1 .. Len(s) : k <= Len(t) /\ (\A j \in 1 .. k - 1 : s[j] = t[j]) /\ s[k] < t[k]
    BY DEF Below
<1>2. /\ Len(s) \in Nat /\ Len(t) \in Nat /\ s # <<>> /\ t # <<>>
      /\ 1 \in 1 .. Len(s) /\ 1 \in 1 .. Len(t)
    BY <1>1, Letters
<1>3. s[1] \in Chars /\ t[1] \in Chars /\ s[1] \in Nat /\ t[1] \in Nat
    BY <1>2, Letters
<1>4. Head(s) = s[1] /\ Head(t) = t[1]
    BY <1>2 DEF Word
<1>5. s[1] <= t[1]
    <2>1. CASE k = 1
        BY <1>1, <1>3, <2>1
    <2>2. CASE k # 1
        BY <1>1, <1>3, <2>2
    <2> QED BY <2>1, <2>2
<1>6. ASSUME s[1] = t[1] PROVE Below(Tail(s), Tail(t))
    <2> DEFINE a == Tail(s)
               b == Tail(t)
    <2>1. /\ Len(a) = Len(s) - 1 /\ Len(b) = Len(t) - 1
          /\ \A i \in 1 .. Len(a) : a[i] = s[i + 1]
          /\ \A i \in 1 .. Len(b) : b[i] = t[i + 1]
        BY <1>2, HeadTailProperties DEF Word
    <2> HIDE DEF a, b
    <2>2. k # 1
        BY <1>1, <1>3, <1>6
    <2>3. k - 1 \in 1 .. Len(a) /\ k - 1 \in 1 .. Len(b) /\ (k - 1) + 1 = k
        BY <1>1, <1>2, <2>1, <2>2
    <2>4. a[k - 1] < b[k - 1]
        BY <1>1, <2>1, <2>3
    <2>5. ASSUME NEW j \in 1 .. (k - 1) - 1 PROVE a[j] = b[j]
        <3>1. j \in 1 .. Len(a) /\ j \in 1 .. Len(b) /\ j + 1 \in 1 .. k - 1
            BY <1>2, <2>3
        <3> QED BY <1>1, <2>1, <3>1
    <2>6. Below(a, b)
        BY <2>3, <2>4, <2>5 DEF Below
    <2> QED BY <2>6 DEF a, b
<1> QED BY <1>2, <1>3, <1>4, <1>5, <1>6

-----------------------------------------------------------------------------
(* The binary search *)

Sorted(s) == \A i, j \in 1 .. Len(s) : i < j => Below(s[i].rest, s[j].rest)

\* No name of a block begins the name looked for, or begins with it.
Comparable(s, rest) ==
    \A i \in 1 .. Len(s) : s[i].rest = rest \/ Below(s[i].rest, rest) \/ Below(rest, s[i].rest)

\* The names before the window come before the one looked for, and those behind it after it.
Windows(s, rest) ==
    {w \in [low : 1 .. Len(s) + 1, high : 0 .. Len(s)] :
        /\ \A i \in 1 .. Len(s) : i < w.low => Below(s[i].rest, rest)
        /\ \A i \in 1 .. Len(s) : i > w.high => Below(rest, s[i].rest)}

\* The search stays where it is.
Rests(s, rest, w) == w.low > w.high \/ Stuck(s, w) \/ s[Middle(w)].rest = rest

LEMMA Halfway == ASSUME NEW l \in Nat, NEW h \in Nat, l <= h PROVE ((l - 1) + (h - 1)) \div 2 + 1 \in l .. h
OBVIOUS

LEMMA MiddleIsInside ==
    ASSUME NEW w, w.low \in Nat, w.high \in Nat, w.low <= w.high
    PROVE  Middle(w) \in w.low .. w.high
BY Halfway DEF Middle

LEMMA EntryRest ==
    ASSUME NEW s \in Seq(Entry)
    PROVE  Len(s) \in Nat /\ \A i \in 1 .. Len(s) : s[i] \in Entry /\ s[i].rest \in Word
<1>1. Len(s) \in Nat /\ \A i \in 1 .. Len(s) : s[i] \in Entry
    BY LenProperties, ElementOfSeq
<1> QED BY <1>1 DEF Entry, Word

LEMMA NarrowStep ==
    ASSUME NEW s \in Seq(Entry), NEW rest \in Word, Sorted(s), Comparable(s, rest),
           NEW w \in Windows(s, rest)
    PROVE  LET v == Narrow(s, rest, w)
           IN  /\ v \in Windows(s, rest)
               /\ Rests(s, rest, w) \/ v.high - v.low < w.high - w.low
               /\ Rests(s, rest, w) => v = w
<1> DEFINE v == Narrow(s, rest, w)
           m == Middle(w)
           r == s[m].rest
<1>1. /\ w \in [low : 1 .. Len(s) + 1, high : 0 .. Len(s)]
      /\ w.low \in 1 .. Len(s) + 1 /\ w.high \in 0 .. Len(s)
      /\ \A i \in 1 .. Len(s) : i < w.low => Below(s[i].rest, rest)
      /\ \A i \in 1 .. Len(s) : i > w.high => Below(rest, s[i].rest)
    BY DEF Windows
<1>2. Len(s) \in Nat /\ \A i \in 1 .. Len(s) : s[i].rest \in Word
    BY EntryRest
<1>3. CASE w.low > w.high \/ Stuck(s, w)
    BY <1>3 DEF Narrow, Rests
<1>4. CASE ~(w.low > w.high \/ Stuck(s, w))
    <2>1. m \in w.low .. w.high
        <3>1. w.low \in Nat /\ w.high \in Nat /\ w.low <= w.high
            BY <1>1, <1>2, <1>4
        <3> QED BY <3>1, MiddleIsInside
    <2>2. m \in 1 .. Len(s) /\ r \in Word
        BY <1>1, <1>2, <2>1
    <2> DEFINE d == Compare(rest, r)
    <2>3. v = IF d = 0 THEN w
              ELSE IF d > 0 THEN [w EXCEPT !.low = m + 1]
              ELSE [w EXCEPT !.high = m - 1]
        BY <1>4 DEF Narrow
    <2>4. Rests(s, rest, w) <=> r = rest
        BY <1>4 DEF Rests
    <2>5. r = rest \/ Below(r, rest) \/ Below(rest, r)
        BY <2>2 DEF Comparable
    <2> HIDE DEF m, r, d, v
    <2>6. CASE r = rest
        <3>1. d = 0
            BY <2>2, <2>6, SameCompares DEF d
        <3> QED BY <2>3, <2>4, <2>6, <3>1 DEF v
    <2>7. CASE Below(r, rest)
        <3>1. d \in Int /\ d > 0 /\ r # rest
            BY <2>2, <2>7, BelowCompares, BelowIsStrict DEF d
        <3>2. v = [w EXCEPT !.low = m + 1]
            BY <2>3, <3>1
        <3>3. /\ v \in [low : 1 .. Len(s) + 1, high : 0 .. Len(s)]
              /\ v.low = m + 1 /\ v.high = w.high
            BY <1>1, <1>2, <2>2, <3>2
        <3>4. ASSUME NEW i \in 1 .. Len(s), i < v.low PROVE Below(s[i].rest, rest)
            <4>1. CASE i < m
                <5>1. Below(s[i].rest, r)
                    BY <2>2, <4>1 DEF Sorted, r
                <5> QED BY <1>2, <2>2, <2>7, <5>1, BelowIsTransitive
            <4>2. CASE i = m
                BY <2>7, <4>2 DEF r
            <4> QED BY <2>2, <3>3, <3>4, <4>1, <4>2
        <3>5. v.high - v.low < w.high - w.low
            BY <1>1, <1>2, <2>1, <3>3
        <3>6. v \in Windows(s, rest)
            BY <1>1, <3>3, <3>4 DEF Windows
        <3> QED BY <2>4, <3>1, <3>5, <3>6 DEF v
    <2>8. CASE Below(rest, r)
        <3>1. d \in Int /\ d < 0 /\ r # rest
            BY <2>2, <2>8, BelowCompares, BelowIsStrict DEF d
        <3>2. v = [w EXCEPT !.high = m - 1]
            BY <2>3, <3>1
        <3>3. /\ v \in [low : 1 .. Len(s) + 1, high : 0 .. Len(s)]
              /\ v.low = w.low /\ v.high = m - 1
            BY <1>1, <1>2, <2>2, <3>2
        <3>4. ASSUME NEW i \in 1 .. Len(s), i > v.high PROVE Below(rest, s[i].rest)
            <4>1. CASE i > m
                <5>1. Below(r, s[i].rest)
                    BY <2>2, <4>1 DEF Sorted, r
                <5> QED BY <1>2, <2>2, <2>8, <5>1, BelowIsTransitive
            <4>2. CASE i = m
                BY <2>8, <4>2 DEF r
            <4> QED BY <2>2, <3>3, <3>4, <4>1, <4>2
        <3>5. v.high - v.low < w.high - w.low
            BY <1>1, <1>2, <2>1, <3>3
        <3>6. v \in Windows(s, rest)
            BY <1>1, <3>3, <3>4 DEF Windows
        <3> QED BY <2>4, <3>1, <3>5, <3>6 DEF v
    <2> QED BY <2>5, <2>6, <2>7, <2>8
<1> QED BY <1>3, <1>4

\* The rounds of a search.
Rounds(s, rest) ==
    CHOOSE window : window =
        [k \in 0 .. Len(s) |->
            IF k = 0 THEN [low |-> 1, high |-> Len(s)] ELSE Narrow(s, rest, window[k - 1])]

LEMMA RoundsEquation ==
    ASSUME NEW s \in Seq(Entry), NEW rest \in Word, Sorted(s), Comparable(s, rest)
    PROVE  LET g == Rounds(s, rest)
           IN  /\ g[0] = [low |-> 1, high |-> Len(s)]
               /\ g[0] \in Windows(s, rest)
               /\ \A k \in 1 .. Len(s) : g[k] = Narrow(s, rest, g[k - 1])
<1> DEFINE w0 == [low |-> 1, high |-> Len(s)]
           W == Windows(s, rest)
           F == [w \in W |-> Narrow(s, rest, w)]
           E(g) == g = [k \in 0 .. Len(s) |-> IF k = 0 THEN w0 ELSE Narrow(s, rest, g[k - 1])]
<1>1. Len(s) \in Nat
    BY EntryRest
<1>2. w0 \in W
    BY <1>1 DEF Windows
<1>3. F \in [W -> W]
    BY NarrowStep
<1>4. PICK g : g \in [0 .. Len(s) -> W] /\ g[0] = w0 /\ \A k \in 1 .. Len(s) : g[k] = F[g[k - 1]]
    <2> HIDE DEF W, F, w0
    <2>1. \E g : Repeats(W, w0, F, Len(s), g)
        BY <1>1, <1>2, <1>3, Iteration
    <2> QED BY <2>1 DEF Repeats
<1>5. E(g)
    <2>1. ASSUME NEW k \in 0 .. Len(s)
          PROVE g[k] = IF k = 0 THEN w0 ELSE Narrow(s, rest, g[k - 1])
        <3>1. CASE k = 0
            BY <1>4, <3>1
        <3>2. CASE k # 0
            <4>1. k \in 1 .. Len(s) /\ k - 1 \in 0 .. Len(s)
                BY <1>1, <3>2
            <4>2. g[k - 1] \in W
                BY <1>4, <4>1
            <4> HIDE DEF W
            <4> QED BY <1>4, <3>2, <4>1, <4>2
        <3> QED BY <3>1, <3>2
    <2> HIDE DEF w0, W, F
    <2>2. g = [k \in 0 .. Len(s) |-> g[k]]
        BY <1>4
    <2> QED BY <2>1, <2>2
<1>6. Rounds(s, rest) = CHOOSE h : E(h)
    BY DEF Rounds
<1>7. E(Rounds(s, rest))
    <2> HIDE DEF E
    <2> QED BY <1>5, <1>6
<1> DEFINE h == Rounds(s, rest)
<1>8. h = [k \in 0 .. Len(s) |-> IF k = 0 THEN w0 ELSE Narrow(s, rest, h[k - 1])]
    BY <1>7
<1> HIDE DEF h, w0, W
<1>9. h[0] = w0
    BY <1>1, <1>8
<1>10. ASSUME NEW k \in 1 .. Len(s) PROVE h[k] = Narrow(s, rest, h[k - 1])
    <2>1. k \in 0 .. Len(s) /\ k # 0
        BY <1>1
    <2> QED BY <1>8, <2>1
<1> QED BY <1>2, <1>9, <1>10 DEF h, w0, W

\* What the search returns, in a block whose names are sorted.
LEMMA SearchFinds ==
    ASSUME NEW s \in Seq(Entry), NEW rest \in Word, Sorted(s), Comparable(s, rest)
    PROVE  \/ Search(s, rest) = None /\ \A i \in 1 .. Len(s) : s[i].rest # rest
           \/ Search(s, rest) = Never /\ \E i \in 1 .. Len(s) : s[i].first = Deleted
           \/ Search(s, rest) \in 1 .. Len(s) /\ s[Search(s, rest)].rest = rest
<1> DEFINE g == Rounds(s, rest)
           W == Windows(s, rest)
           T == {k \in Nat : k <= Len(s) =>
                    /\ g[k] \in W
                    /\ Rests(s, rest, g[k]) \/ g[k].high - g[k].low < Len(s) - k}
           w == g[Len(s)]
<1>1. /\ Len(s) \in Nat
      /\ \A i \in 1 .. Len(s) : s[i].rest \in Word
    BY EntryRest
<1>2. /\ g[0] = [low |-> 1, high |-> Len(s)]
      /\ g[0] \in W
      /\ \A k \in 1 .. Len(s) : g[k] = Narrow(s, rest, g[k - 1])
    BY RoundsEquation
<1>3. Search(s, rest) = IF w.low > w.high THEN None ELSE IF Stuck(s, w) THEN Never ELSE Middle(w)
    BY DEF Search, Rounds
<1> HIDE DEF g
<1>4. 0 \in T
    <2>1. g[0].high - g[0].low < Len(s) - 0
        BY <1>1, <1>2
    <2> QED BY <1>2, <2>1
<1>5. ASSUME NEW k \in Nat, k \in T PROVE k + 1 \in T
    <2> SUFFICES ASSUME k + 1 <= Len(s)
                 PROVE  /\ g[k + 1] \in W
                        /\ \/ Rests(s, rest, g[k + 1])
                           \/ g[k + 1].high - g[k + 1].low < Len(s) - (k + 1)
        OBVIOUS
    <2>1. g[k] \in W /\ (Rests(s, rest, g[k]) \/ g[k].high - g[k].low < Len(s) - k)
        BY <1>1, <1>5
    <2>2. g[k + 1] = Narrow(s, rest, g[k])
        <3>1. k + 1 \in 1 .. Len(s) /\ (k + 1) - 1 = k
            BY <1>1
        <3> QED BY <1>2, <3>1
    <2>3. /\ g[k + 1] \in W
          /\ Rests(s, rest, g[k]) \/ g[k + 1].high - g[k + 1].low < g[k].high - g[k].low
          /\ Rests(s, rest, g[k]) => g[k + 1] = g[k]
        BY <2>1, <2>2, NarrowStep
    <2>4. g[k].high \in Int /\ g[k].low \in Int /\ g[k + 1].high \in Int /\ g[k + 1].low \in Int
        BY <2>1, <2>3 DEF Windows
    <2>5. CASE Rests(s, rest, g[k])
        BY <2>3, <2>5
    <2>6. CASE ~Rests(s, rest, g[k])
        <3>1. g[k].high - g[k].low < Len(s) - k /\ g[k + 1].high - g[k + 1].low < g[k].high - g[k].low
            BY <2>1, <2>3, <2>6
        <3>2. g[k + 1].high - g[k + 1].low < Len(s) - (k + 1)
            BY <1>1, <2>4, <3>1
        <3> QED BY <2>3, <3>2
    <2> QED BY <2>5, <2>6
<1>6. Len(s) \in T
    <2> HIDE DEF T
    <2> QED BY <1>1, <1>4, <1>5, Induction
<1>7. w \in W /\ (Rests(s, rest, w) \/ w.high - w.low < 0)
    BY <1>1, <1>6
<1> HIDE DEF w, T
<1>8. /\ w.low \in 1 .. Len(s) + 1 /\ w.high \in 0 .. Len(s)
      /\ \A i \in 1 .. Len(s) : i < w.low => Below(s[i].rest, rest)
      /\ \A i \in 1 .. Len(s) : i > w.high => Below(rest, s[i].rest)
    BY <1>7 DEF Windows
<1>9. Rests(s, rest, w)
    BY <1>1, <1>7, <1>8 DEF Rests
<1>10. CASE w.low > w.high
    <2>1. Search(s, rest) = None
        BY <1>3, <1>10
    <2>2. ASSUME NEW i \in 1 .. Len(s) PROVE s[i].rest # rest
        <3>1. Below(s[i].rest, rest) \/ Below(rest, s[i].rest)
            BY <1>1, <1>8, <1>10
        <3> QED BY <1>1, <3>1, BelowIsStrict
    <2> QED BY <2>1, <2>2
<1>11. CASE ~(w.low > w.high)
    <2>1. Middle(w) \in w.low .. w.high
        <3>1. w.low \in Nat /\ w.high \in Nat /\ w.low <= w.high
            BY <1>1, <1>8, <1>11
        <3> QED BY <3>1, MiddleIsInside
    <2>2. Middle(w) \in 1 .. Len(s)
        BY <1>1, <1>8, <2>1
    <2>3. CASE Stuck(s, w)
        <3>1. Search(s, rest) = Never
            BY <1>3, <1>11, <2>3
        <3> QED BY <2>2, <2>3, <3>1 DEF Stuck
    <2>4. CASE ~Stuck(s, w)
        <3>1. Search(s, rest) = Middle(w) /\ s[Middle(w)].rest = rest
            BY <1>3, <1>9, <1>11, <2>4 DEF Rests
        <3> QED BY <2>2, <3>1
    <2> QED BY <2>3, <2>4
<1> QED BY <1>10, <1>11

-----------------------------------------------------------------------------
(* The tree of blocks *)

MadeBlock == 0 .. made - 1

\* A block leads to blocks that were made after it, and one block leads to each but the root.
Tree ==
    /\ \A p \in DirBlock, c \in Chars : next[p][c] # Root => p < next[p][c] /\ next[p][c] < made
    /\ \A b \in 1 .. made - 1 : \E p \in 0 .. b - 1 : \E c \in Chars : next[p][c] = b
    /\ \A p, q \in DirBlock, c, d \in Chars :
        next[p][c] = next[q][d] /\ next[p][c] # Root => p = q /\ c = d

LEMMA TreeTypes ==
    ASSUME TypeOK
    PROVE  /\ made \in Nat /\ made > 0 /\ made <= DirBlocks /\ DirBlocks \in Nat
           /\ MadeBlock \subseteq DirBlock /\ Root \in MadeBlock
           /\ \A p \in DirBlock, c \in Chars : next[p][c] \in DirBlock
<1>1. DirBlocks \in Nat /\ DirBlocks > 0
    BY BoundAssumption
<1>2. made \in 1 .. DirBlocks /\ next \in [DirBlock -> [Chars -> DirBlock]]
    BY DEF TypeOK
<1>3. \A p \in DirBlock, c \in Chars : next[p][c] \in DirBlock
    BY <1>2
<1> QED BY <1>1, <1>2, <1>3 DEF MadeBlock, DirBlock, Root

\* A character at the end of a word.
LEMMA Longer ==
    ASSUME NEW s \in Word, NEW c \in Chars
    PROVE  /\ Append(s, c) \in Word /\ Len(Append(s, c)) = Len(s) + 1
           /\ \A i \in 1 .. Len(s) : Append(s, c)[i] = s[i]
           /\ Append(s, c)[Len(s) + 1] = c
BY AppendProperties DEF Word

LEMMA Parents ==
    ASSUME TypeOK, Tree, NEW b \in 1 .. made - 1
    PROVE  /\ Parent(b) \in 0 .. b - 1 /\ Parent(b) \in MadeBlock
           /\ LastOf(b) \in Chars
           /\ next[Parent(b)][LastOf(b)] = b
<1>1. made \in Nat /\ b \in Nat /\ b < made
    BY TreeTypes
<1>2. \E p \in 0 .. b - 1 : \E c \in Chars : next[p][c] = b
    BY DEF Tree
<1>3. Parent(b) \in 0 .. b - 1 /\ \E c \in Chars : next[Parent(b)][c] = b
    BY <1>2 DEF Parent
<1>4. LastOf(b) \in Chars /\ next[Parent(b)][LastOf(b)] = b
    BY <1>3 DEF LastOf
<1>5. Parent(b) \in MadeBlock
    BY <1>1, <1>3 DEF MadeBlock
<1> QED BY <1>3, <1>4, <1>5

LEMMA LeadEquation ==
    ASSUME TypeOK, Tree
    PROVE  /\ Lead \in [MadeBlock -> Word]
           /\ Lead[Root] = <<>>
           /\ \A b \in 1 .. made - 1 : Lead[b] = Append(Lead[Parent(b)], LastOf(b))
<1> DEFINE V(g, b) == IF b = Root THEN <<>> ELSE Append(g[Parent(b)], LastOf(b))
           E(g) == g = [b \in MadeBlock |-> V(g, b)]
           T == {n \in Nat : n <= made =>
                    \E g \in [MadeBlock -> Word] : \A b \in 0 .. n - 1 : g[b] = V(g, b)}
<1>1. made \in Nat /\ made > 0 /\ Root \in MadeBlock
    BY TreeTypes
<1>2. <<>> \in Word
    BY EmptySeq DEF Word
<1>3. 0 \in T
    <2> DEFINE g == [b \in MadeBlock |-> <<>>]
    <2>1. g \in [MadeBlock -> Word] /\ \A b \in 0 .. 0 - 1 : g[b] = V(g, b)
        BY <1>2
    <2> HIDE DEF g
    <2> QED BY <2>1
<1>4. ASSUME NEW n \in Nat, n \in T PROVE n + 1 \in T
    <2> SUFFICES ASSUME n + 1 <= made
                 PROVE  \E g \in [MadeBlock -> Word] : \A b \in 0 .. (n + 1) - 1 : g[b] = V(g, b)
        OBVIOUS
    <2>1. n <= made
        BY <1>1
    <2>2. PICK g \in [MadeBlock -> Word] : \A b \in 0 .. n - 1 : g[b] = V(g, b)
        BY <1>4, <2>1
    <2>3. n \in MadeBlock
        BY <1>1 DEF MadeBlock
    <2>4. n = Root \/ n \in 1 .. made - 1
        BY <1>1, <2>3 DEF Root
    <2>5. V(g, n) \in Word
        <3>1. CASE n = Root
            BY <1>2, <3>1
        <3>2. CASE n \in 1 .. made - 1
            <4>1. g[Parent(n)] \in Word /\ LastOf(n) \in Chars
                BY <3>2, Parents
            <4> QED BY <1>2, <4>1, AppendProperties DEF Word
        <3> QED BY <2>4, <3>1, <3>2
    <2> DEFINE h == [g EXCEPT ![n] = V(g, n)]
    <2>6. h \in [MadeBlock -> Word] /\ h[n] = V(g, n) /\ \A b \in MadeBlock : b # n => h[b] = g[b]
        BY <2>2, <2>3, <2>5
    <2> HIDE DEF h
    <2>7. ASSUME NEW b \in 0 .. (n + 1) - 1 PROVE h[b] = V(h, b)
        <3>1. b \in Nat /\ b <= n /\ b \in MadeBlock /\ (b = Root \/ b \in 1 .. made - 1)
            BY <1>1, <2>3 DEF MadeBlock, Root
        <3>2. h[b] = V(g, b)
            <4>1. CASE b = n
                BY <2>6, <4>1
            <4>2. CASE b # n
                <5>1. b \in 0 .. n - 1
                    BY <3>1, <4>2
                <5> QED BY <2>2, <2>6, <3>1, <4>2, <5>1
            <4> QED BY <4>1, <4>2
        <3>3. CASE b = Root
            BY <3>2, <3>3
        <3>4. CASE b # Root
            <4>1. Parent(b) \in MadeBlock /\ Parent(b) # n
                BY <3>1, <3>4, Parents
            <4>2. h[Parent(b)] = g[Parent(b)]
                BY <2>6, <4>1
            <4> QED BY <3>2, <3>4, <4>2
        <3> QED BY <3>3, <3>4
    <2> HIDE DEF V
    <2> QED BY <2>6, <2>7
<1>5. made \in T
    <2> HIDE DEF T
    <2> QED BY <1>1, <1>3, <1>4, Induction
<1>6. PICK g \in [MadeBlock -> Word] : \A b \in 0 .. made - 1 : g[b] = V(g, b)
    BY <1>1, <1>5
<1>7. E(g)
    <2>1. g = [b \in MadeBlock |-> g[b]]
        BY <1>6
    <2> HIDE DEF V
    <2> QED BY <1>6, <2>1 DEF MadeBlock
<1>8. Lead = CHOOSE h : E(h)
    BY DEF Lead, MadeBlock
<1>9. E(Lead)
    <2> HIDE DEF E
    <2> QED BY <1>7, <1>8
<1> HIDE DEF T
<1>10. \A b \in MadeBlock : Lead[b] = V(Lead, b)
    <2> HIDE DEF V
    <2>1. Lead = [b \in MadeBlock |-> V(Lead, b)]
        BY <1>9
    <2> QED BY <2>1
<1>11. Lead[Root] = <<>>
    BY <1>1, <1>10
<1>12. ASSUME NEW b \in 1 .. made - 1 PROVE Lead[b] = Append(Lead[Parent(b)], LastOf(b))
    <2>1. b \in MadeBlock /\ b # Root
        BY <1>1 DEF MadeBlock, Root
    <2> QED BY <1>10, <2>1
<1>13. \A b \in MadeBlock : Lead[b] \in Word
    <2> DEFINE U == {n \in Nat : \A b \in MadeBlock : b < n => Lead[b] \in Word}
    <2>1. 0 \in U
        BY DEF MadeBlock
    <2>2. ASSUME NEW n \in Nat, n \in U PROVE n + 1 \in U
        <3> SUFFICES ASSUME NEW b \in MadeBlock, b < n + 1 PROVE Lead[b] \in Word
            OBVIOUS
        <3>1. CASE b = Root
            BY <1>2, <1>11, <3>1
        <3>2. CASE b # Root
            <4>1. b \in 1 .. made - 1
                BY <1>1, <3>2 DEF MadeBlock, Root
            <4>2. Parent(b) \in MadeBlock /\ Parent(b) < n /\ LastOf(b) \in Chars
                BY <1>1, <4>1, Parents
            <4>3. Lead[Parent(b)] \in Word
                BY <2>2, <4>2
            <4>4. Append(Lead[Parent(b)], LastOf(b)) \in Word
                BY <4>2, <4>3, Longer
            <4> QED BY <1>12, <4>1, <4>4
        <3> QED BY <3>1, <3>2
    <2>3. made \in U
        <3> HIDE DEF U
        <3> QED BY <1>1, <2>1, <2>2, Induction
    <2> QED BY <1>1, <2>3 DEF MadeBlock
<1>14. Lead = [b \in MadeBlock |-> Lead[b]]
    <2> HIDE DEF V
    <2>1. Lead = [b \in MadeBlock |-> V(Lead, b)]
        BY <1>9
    <2> QED BY <2>1, <1>10
<1> QED BY <1>11, <1>12, <1>13, <1>14

\* A child's way is its parent's and the character that leads to it.
LEMMA LeadExtends ==
    ASSUME TypeOK, Tree, NEW p \in DirBlock, NEW c \in Chars, next[p][c] # Root
    PROVE  /\ p \in MadeBlock /\ next[p][c] \in 1 .. made - 1 /\ p < next[p][c]
           /\ Lead[p] \in Word
           /\ Lead[next[p][c]] = Append(Lead[p], c)
<1> DEFINE b == next[p][c]
<1>1. made \in Nat /\ b \in DirBlock /\ b \in Nat /\ p \in Nat
    BY TreeTypes DEF DirBlock
<1>2. p < b /\ b < made
    BY DEF Tree
<1>3. p \in MadeBlock /\ b \in 1 .. made - 1
    BY <1>1, <1>2 DEF MadeBlock
<1>4. Parent(b) \in DirBlock /\ LastOf(b) \in Chars /\ next[Parent(b)][LastOf(b)] = b
    BY <1>3, Parents, TreeTypes
<1>5. Parent(b) = p /\ LastOf(b) = c
    BY <1>4 DEF Tree
<1>6. Lead[b] = Append(Lead[Parent(b)], LastOf(b)) /\ Lead[p] \in Word
    BY <1>3, LeadEquation
<1> QED BY <1>2, <1>3, <1>5, <1>6

\* The way to a block is the beginning of the way to another one.
OnWay(a, b) ==
    Len(Lead[a]) <= Len(Lead[b]) /\ \A i \in 1 .. Len(Lead[a]) : Lead[a][i] = Lead[b][i]

\* The next character of the way to b leads on from a.
GoesOn(a, b) ==
    Len(Lead[a]) < Len(Lead[b]) /\ next[a][Lead[b][Len(Lead[a]) + 1]] # Root

LEMMA WaysSplit ==
    ASSUME TypeOK, Tree
    PROVE  \A a, b \in MadeBlock : OnWay(a, b) => a = b \/ GoesOn(a, b)
<1> DEFINE T == {n \in Nat : \A a, b \in MadeBlock : b < n /\ OnWay(a, b) => a = b \/ GoesOn(a, b)}
<1>1. /\ made \in Nat /\ made > 0
      /\ \A b \in MadeBlock : b \in Nat /\ b < made /\ (b = Root \/ b \in 1 .. made - 1)
    BY TreeTypes DEF MadeBlock, Root
<1>2. \A b \in MadeBlock : Lead[b] \in Word /\ Len(Lead[b]) \in Nat
    BY LeadEquation, Letters
<1>3. Len(Lead[Root]) = 0
    BY LeadEquation
<1>4. 0 \in T
    BY <1>1
<1>5. ASSUME NEW n \in Nat, n \in T PROVE n + 1 \in T
    <2> SUFFICES ASSUME NEW a \in MadeBlock, NEW b \in MadeBlock, b < n + 1, OnWay(a, b)
                 PROVE  a = b \/ GoesOn(a, b)
        OBVIOUS
    <2>1. CASE b = Root
        <3>1. a = Root
            <4> SUFFICES ASSUME a \in 1 .. made - 1 PROVE FALSE
                BY <1>1
            <4>1. Lead[a] = Append(Lead[Parent(a)], LastOf(a)) /\ Lead[Parent(a)] \in Word
                BY Parents, LeadEquation
            <4>2. LastOf(a) \in Chars
                BY Parents
            <4>3. Len(Lead[a]) > 0
                BY <4>1, <4>2, Longer, Letters
            <4> QED BY <1>2, <1>3, <2>1, <4>3 DEF OnWay
        <3> QED BY <2>1, <3>1
    <2>2. CASE b \in 1 .. made - 1
        <3> DEFINE p == Parent(b)
                   c == LastOf(b)
                   m == Len(Lead[p])
        <3>1. p \in MadeBlock /\ p < b /\ c \in Chars /\ next[p][c] = b
            BY <2>2, Parents
        <3>2. Lead[b] = Append(Lead[p], c)
            BY <2>2, LeadEquation
        <3>3. m \in Nat /\ Lead[p] \in Word
            BY <1>2, <3>1
        <3> HIDE DEF p, c
        <3>4. /\ Len(Lead[b]) = m + 1 /\ Lead[b][m + 1] = c
              /\ \A i \in 1 .. m : Lead[b][i] = Lead[p][i]
            BY <3>1, <3>2, <3>3, Longer
        <3>5. p < n
            BY <1>1, <3>1
        <3>6. \A d \in MadeBlock : OnWay(d, p) => d = p \/ GoesOn(d, p)
            BY <1>5, <3>1, <3>5
        <3> HIDE DEF m, T
        <3>7. /\ Len(Lead[a]) \in Nat /\ Len(Lead[a]) <= m + 1
              /\ \A i \in 1 .. Len(Lead[a]) : Lead[a][i] = Lead[b][i]
            BY <1>2, <3>4 DEF OnWay
        <3>8. CASE Len(Lead[a]) = m + 1
            <4> DEFINE q == Parent(a)
                       d == LastOf(a)
            <4>1. a \in 1 .. made - 1
                BY <1>1, <1>3, <3>3, <3>8
            <4>2. q \in MadeBlock /\ d \in Chars /\ next[q][d] = a /\ Lead[a] = Append(Lead[q], d)
                BY <4>1, Parents, LeadEquation
            <4>3. Len(Lead[q]) \in Nat /\ Lead[q] \in Word
                BY <1>2, <4>2
            <4> HIDE DEF q, d
            <4>4. /\ Len(Lead[q]) = m
                  /\ Lead[a][m + 1] = d
                  /\ \A i \in 1 .. m : Lead[a][i] = Lead[q][i]
                BY <3>3, <3>8, <4>2, <4>3, Longer
            <4>5. OnWay(q, p)
                <5>1. \A i \in 1 .. m : Lead[q][i] = Lead[p][i]
                    BY <3>3, <3>4, <3>7, <3>8, <4>4
                <5> QED BY <3>3, <4>4, <5>1 DEF OnWay, m
            <4>6. ~GoesOn(q, p)
                BY <3>3, <4>4 DEF GoesOn, m
            <4>7. q = p
                BY <3>6, <4>2, <4>5, <4>6
            <4>8. d = c
                <5>1. m + 1 \in 1 .. Len(Lead[a])
                    BY <3>3, <3>8
                <5> QED BY <3>4, <3>7, <4>4, <5>1
            <4> QED BY <3>1, <4>2, <4>7, <4>8
        <3>9. CASE Len(Lead[a]) # m + 1
            <4>1. Len(Lead[a]) <= m /\ Len(Lead[a]) < Len(Lead[b])
                BY <3>3, <3>4, <3>7, <3>9
            <4>2. OnWay(a, p)
                <5>1. \A i \in 1 .. Len(Lead[a]) : Lead[a][i] = Lead[p][i]
                    BY <3>3, <3>4, <3>7, <4>1
                <5> QED BY <4>1, <5>1 DEF OnWay, m
            <4>3. CASE a = p
                <5>1. Lead[b][Len(Lead[a]) + 1] = c
                    BY <3>4, <4>3 DEF m
                <5>2. next[a][c] # Root
                    BY <1>1, <2>2, <3>1, <4>3 DEF Root
                <5> QED BY <4>1, <5>1, <5>2 DEF GoesOn
            <4>4. CASE GoesOn(a, p)
                <5>1. Len(Lead[a]) + 1 \in 1 .. m
                    BY <3>3, <3>7, <4>4 DEF GoesOn, m
                <5>2. Lead[b][Len(Lead[a]) + 1] = Lead[p][Len(Lead[a]) + 1]
                    BY <3>4, <5>1
                <5> QED BY <4>1, <4>4, <5>2 DEF GoesOn
            <4> QED BY <3>6, <4>2, <4>3, <4>4
        <3> QED BY <3>8, <3>9
    <2> QED BY <1>1, <2>1, <2>2
<1>6. made \in T
    <2> HIDE DEF T
    <2> QED BY <1>1, <1>4, <1>5, Induction
<1> QED BY <1>1, <1>6

\* Block b is where the name n leads, and r is what is left of it there.
Leaf(n, b, r) ==
    /\ b \in MadeBlock /\ r \in Word
    /\ Lead[b] \o r = n
    /\ r # <<>> => next[b][Head(r)] = Root

LEMMA Joined ==
    ASSUME NEW l \in Word, NEW r \in Word
    PROVE  /\ l \o r \in Word /\ Len(l \o r) = Len(l) + Len(r)
           /\ \A i \in 1 .. Len(l) : (l \o r)[i] = l[i]
           /\ \A i \in 1 .. Len(r) : (l \o r)[Len(l) + i] = r[i]
<1>1. Len(l) \in Nat /\ Len(r) \in Nat
    BY Letters
<1>2. /\ l \o r \in Word /\ Len(l \o r) = Len(l) + Len(r)
      /\ \A i \in 1 .. Len(l) + Len(r) : (l \o r)[i] = IF i <= Len(l) THEN l[i] ELSE r[i - Len(l)]
    BY ConcatProperties DEF Word
<1>3. ASSUME NEW i \in 1 .. Len(l) PROVE (l \o r)[i] = l[i]
    BY <1>1, <1>2
<1>4. ASSUME NEW i \in 1 .. Len(r) PROVE (l \o r)[Len(l) + i] = r[i]
    <2>1. Len(l) + i \in 1 .. Len(l) + Len(r) /\ ~(Len(l) + i <= Len(l)) /\ (Len(l) + i) - Len(l) = i
        BY <1>1
    <2> QED BY <1>2, <2>1
<1> QED BY <1>2, <1>3, <1>4

LEMMA WordHead ==
    ASSUME NEW r \in Word, r # <<>>
    PROVE  /\ Len(r) \in Nat /\ Len(r) > 0 /\ 1 \in 1 .. Len(r)
           /\ Head(r) = r[1] /\ Head(r) \in Chars
           /\ Tail(r) \in Word /\ Len(Tail(r)) = Len(r) - 1
           /\ \A i \in 1 .. Len(Tail(r)) : Tail(r)[i] = r[i + 1]
<1>1. Len(r) \in Nat /\ Len(r) > 0
    BY EmptySeq DEF Word
<1>2. Head(r) = r[1]
    BY <1>1 DEF Word
<1> QED BY <1>1, <1>2, HeadTailProperties DEF Word

\* The first character of the rest goes to the way.
LEMMA MoveOn ==
    ASSUME NEW l \in Word, NEW r \in Word, r # <<>>
    PROVE  Append(l, Head(r)) \o Tail(r) = l \o r
<1> DEFINE c == Head(r)
           t == Tail(r)
           a == Append(l, c)
<1>1. Len(r) \in Nat /\ Len(r) > 0 /\ c \in Chars /\ t \in Word /\ Len(t) = Len(r) - 1
      /\ c = r[1] /\ \A i \in 1 .. Len(t) : t[i] = r[i + 1]
    BY WordHead
<1> HIDE DEF c, t
<1>2. /\ a \in Word /\ Len(a) = Len(l) + 1 /\ Len(l) \in Nat
      /\ \A i \in 1 .. Len(l) : a[i] = l[i]
      /\ a[Len(l) + 1] = c
    BY <1>1, Longer, Letters
<1> HIDE DEF a
<1> DEFINE x == a \o t
           y == l \o r
<1>3. x \in Word /\ Len(x) = Len(a) + Len(t)
      /\ (\A i \in 1 .. Len(a) : x[i] = a[i]) /\ \A i \in 1 .. Len(t) : x[Len(a) + i] = t[i]
    BY <1>1, <1>2, Joined
<1>4. y \in Word /\ Len(y) = Len(l) + Len(r)
      /\ (\A i \in 1 .. Len(l) : y[i] = l[i]) /\ \A i \in 1 .. Len(r) : y[Len(l) + i] = r[i]
    BY Joined
<1> HIDE DEF x, y
<1>5. ASSUME NEW i \in 1 .. Len(x) PROVE x[i] = y[i]
    <2>1. CASE i \in 1 .. Len(l)
        <3>1. i \in 1 .. Len(a)
            BY <1>2, <2>1
        <3> QED BY <1>2, <1>3, <1>4, <2>1, <3>1
    <2>2. CASE i = Len(l) + 1
        <3>1. i \in 1 .. Len(a) /\ 1 \in 1 .. Len(r)
            BY <1>1, <1>2, <2>2
        <3> QED BY <1>1, <1>2, <1>3, <1>4, <2>2, <3>1
    <2>3. CASE i > Len(l) + 1
        <3> DEFINE j == i - Len(a)
        <3>1. j \in 1 .. Len(t) /\ i = Len(a) + j /\ j + 1 \in 1 .. Len(r) /\ i = Len(l) + (j + 1)
            BY <1>1, <1>2, <1>3, <2>3
        <3> HIDE DEF j
        <3>2. x[Len(a) + j] = t[j] /\ t[j] = r[j + 1] /\ y[Len(l) + (j + 1)] = r[j + 1]
            BY <1>1, <1>3, <1>4, <3>1
        <3> QED BY <3>1, <3>2
    <2> QED BY <1>2, <2>1, <2>2, <2>3
<1>6. Len(x) = Len(y)
    BY <1>1, <1>2, <1>3, <1>4
<1>7. x = y
    BY <1>3, <1>4, <1>5, <1>6, SeqEqual DEF Word
<1> QED BY <1>7 DEF x, y, a, c, t

\* A name leads to one block.
LEMMA OneLeafOf ==
    ASSUME TypeOK, Tree, NEW n, NEW a, NEW r, NEW b, NEW s, Leaf(n, a, r), Leaf(n, b, s),
           Len(Lead[a]) <= Len(Lead[b])
    PROVE  a = b /\ r = s
<1> DEFINE k == Len(Lead[a])
           m == Len(Lead[b])
<1>1. /\ a \in MadeBlock /\ b \in MadeBlock /\ r \in Word /\ s \in Word
      /\ Lead[a] \in Word /\ Lead[b] \in Word
      /\ Lead[a] \o r = n /\ Lead[b] \o s = n
    BY LeadEquation DEF Leaf
<1>2. k \in Nat /\ m \in Nat /\ k <= m /\ Len(r) \in Nat /\ Len(s) \in Nat
    BY <1>1, Letters
<1>3. /\ Len(n) = k + Len(r) /\ Len(n) = m + Len(s)
      /\ \A i \in 1 .. k : n[i] = Lead[a][i]
      /\ \A i \in 1 .. m : n[i] = Lead[b][i]
      /\ \A i \in 1 .. Len(r) : n[k + i] = r[i]
      /\ \A i \in 1 .. Len(s) : n[m + i] = s[i]
    <2>1. /\ Len(Lead[a] \o r) = k + Len(r)
          /\ \A i \in 1 .. k : (Lead[a] \o r)[i] = Lead[a][i]
          /\ \A i \in 1 .. Len(r) : (Lead[a] \o r)[k + i] = r[i]
        BY <1>1, Joined
    <2>2. /\ Len(Lead[b] \o s) = m + Len(s)
          /\ \A i \in 1 .. m : (Lead[b] \o s)[i] = Lead[b][i]
          /\ \A i \in 1 .. Len(s) : (Lead[b] \o s)[m + i] = s[i]
        BY <1>1, Joined
    <2> QED BY <1>1, <2>1, <2>2
<1>4. OnWay(a, b)
    <2>1. \A i \in 1 .. k : Lead[a][i] = Lead[b][i]
        BY <1>2, <1>3
    <2> QED BY <1>2, <2>1 DEF OnWay
<1>5. ~GoesOn(a, b)
    <2> SUFFICES ASSUME GoesOn(a, b) PROVE FALSE
        OBVIOUS
    <2>1. k < m /\ next[a][Lead[b][k + 1]] # Root
        BY DEF GoesOn
    <2>2. Len(r) > 0 /\ k + 1 \in 1 .. m /\ 1 \in 1 .. Len(r)
        BY <1>2, <1>3, <2>1
    <2>3. Lead[b][k + 1] = r[1]
        BY <1>3, <2>2
    <2>4. r # <<>>
        BY <2>2, EmptySeq
    <2>5. Head(r) = r[1]
        BY <1>1, <2>4, WordHead
    <2> QED BY <2>1, <2>3, <2>4, <2>5 DEF Leaf
<1>6. a = b
    BY <1>1, <1>4, <1>5, WaysSplit
<1>7. r = s
    <2>1. k = m
        BY <1>6
    <2> HIDE DEF k, m
    <2>2. Len(r) = Len(s) /\ \A i \in 1 .. Len(r) : r[i] = s[i]
        BY <1>2, <1>3, <2>1
    <2> QED BY <1>1, <2>2, SeqEqual DEF Word
<1> QED BY <1>6, <1>7

LEMMA OneLeaf ==
    ASSUME TypeOK, Tree, NEW n, NEW a, NEW r, NEW b, NEW s, Leaf(n, a, r), Leaf(n, b, s)
    PROVE  a = b /\ r = s
<1>1. Len(Lead[a]) \in Nat /\ Len(Lead[b]) \in Nat
    BY LeadEquation, Letters DEF Leaf
<1>2. CASE Len(Lead[a]) <= Len(Lead[b])
    BY <1>2, OneLeafOf
<1>3. CASE Len(Lead[b]) <= Len(Lead[a])
    BY <1>3, OneLeafOf
<1> QED BY <1>1, <1>2, <1>3

\* The places on the way down for a name: a block, and the rest of the name.
Places(n) == {p \in [blk : MadeBlock, rest : Word] : Lead[p.blk] \o p.rest = n}

LEMMA DownStep ==
    ASSUME TypeOK, Tree, NEW n, NEW p \in Places(n)
    PROVE  /\ Down(p) \in Places(n)
           /\ Leaf(n, p.blk, p.rest) => Down(p) = p
           /\ ~Leaf(n, p.blk, p.rest) => Len(Down(p).rest) < Len(p.rest)
<1>1. /\ p \in [blk : MadeBlock, rest : Word] /\ p.blk \in MadeBlock /\ p.rest \in Word
      /\ Lead[p.blk] \o p.rest = n
    BY DEF Places
<1>2. p.blk \in DirBlock /\ Lead[p.blk] \in Word
    BY <1>1, TreeTypes, LeadEquation
<1>3. CASE p.rest # <<>> /\ next[p.blk][Head(p.rest)] # Root
    <2> DEFINE c == Head(p.rest)
               b == next[p.blk][c]
               t == Tail(p.rest)
    <2>1. c \in Chars /\ t \in Word /\ Len(p.rest) \in Nat /\ Len(t) = Len(p.rest) - 1
        BY <1>1, <1>3, WordHead
    <2>2. Down(p) = [blk |-> b, rest |-> t]
        BY <1>3 DEF Down
    <2>3. b \in 1 .. made - 1 /\ Lead[b] = Append(Lead[p.blk], c)
        <3> DEFINE q == p.blk
        <3>1. q \in DirBlock /\ c \in Chars /\ next[q][c] # Root
            BY <1>2, <1>3, <2>1
        <3> HIDE DEF q, c
        <3>2. next[q][c] \in 1 .. made - 1 /\ Lead[next[q][c]] = Append(Lead[q], c)
            BY <3>1, LeadExtends
        <3> QED BY <3>2 DEF q
    <2>4. b \in MadeBlock
        <3>1. made \in Nat
            BY TreeTypes
        <3> HIDE DEF b
        <3> QED BY <2>3, <3>1 DEF MadeBlock
    <2>5. Lead[b] \o t = n
        BY <1>1, <1>2, <1>3, <2>3, MoveOn
    <2> HIDE DEF b, t
    <2>6. Down(p) \in Places(n) /\ Len(Down(p).rest) < Len(p.rest)
        <3> DEFINE d == Down(p)
        <3>1. d \in [blk : MadeBlock, rest : Word] /\ d.blk = b /\ d.rest = t
            BY <2>1, <2>2, <2>4
        <3> HIDE DEF d
        <3>2. d \in Places(n)
            BY <2>5, <3>1 DEF Places
        <3>3. Len(d.rest) < Len(p.rest)
            BY <2>1, <3>1
        <3> QED BY <3>2, <3>3 DEF d
    <2>7. ~Leaf(n, p.blk, p.rest)
        BY <1>3 DEF Leaf
    <2> QED BY <2>6, <2>7
<1>4. CASE ~(p.rest # <<>> /\ next[p.blk][Head(p.rest)] # Root)
    <2>1. Down(p) = p
        BY <1>4 DEF Down
    <2>2. Leaf(n, p.blk, p.rest)
        BY <1>1, <1>4 DEF Leaf
    <2> QED BY <2>1, <2>2
<1> QED BY <1>3, <1>4

\* The way down.
Ways(n) ==
    CHOOSE walk : walk =
        [k \in 0 .. Len(n) |-> IF k = 0 THEN [blk |-> Root, rest |-> n] ELSE Down(walk[k - 1])]

LEMMA WaysEquation ==
    ASSUME TypeOK, Tree, NEW n \in Word
    PROVE  LET g == Ways(n)
           IN  /\ g[0] = [blk |-> Root, rest |-> n]
               /\ g[0] \in Places(n)
               /\ \A k \in 1 .. Len(n) : g[k] = Down(g[k - 1])
<1> DEFINE p0 == [blk |-> Root, rest |-> n]
           W == Places(n)
           F == [p \in W |-> Down(p)]
           E(g) == g = [k \in 0 .. Len(n) |-> IF k = 0 THEN p0 ELSE Down(g[k - 1])]
<1>1. Len(n) \in Nat
    BY Letters
<1>2. p0 \in W
    <2>1. Lead[Root] \o n = n
        BY LeadEquation, ConcatEmptySeq DEF Word
    <2> QED BY <2>1, TreeTypes DEF Places
<1>3. F \in [W -> W]
    BY DownStep
<1>4. PICK g : g \in [0 .. Len(n) -> W] /\ g[0] = p0 /\ \A k \in 1 .. Len(n) : g[k] = F[g[k - 1]]
    <2> HIDE DEF W, F, p0
    <2>1. \E g : Repeats(W, p0, F, Len(n), g)
        BY <1>1, <1>2, <1>3, Iteration
    <2> QED BY <2>1 DEF Repeats
<1>5. E(g)
    <2>1. ASSUME NEW k \in 0 .. Len(n)
          PROVE g[k] = IF k = 0 THEN p0 ELSE Down(g[k - 1])
        <3>1. CASE k = 0
            BY <1>4, <3>1
        <3>2. CASE k # 0
            <4>1. k \in 1 .. Len(n) /\ k - 1 \in 0 .. Len(n)
                BY <1>1, <3>2
            <4>2. g[k - 1] \in W
                BY <1>4, <4>1
            <4> HIDE DEF W
            <4> QED BY <1>4, <3>2, <4>1, <4>2
        <3> QED BY <3>1, <3>2
    <2> HIDE DEF p0, W, F
    <2>2. g = [k \in 0 .. Len(n) |-> g[k]]
        BY <1>4
    <2> QED BY <2>1, <2>2
<1>6. Ways(n) = CHOOSE h : E(h)
    BY DEF Ways
<1>7. E(Ways(n))
    <2> HIDE DEF E
    <2> QED BY <1>5, <1>6
<1> DEFINE h == Ways(n)
<1>8. h = [k \in 0 .. Len(n) |-> IF k = 0 THEN p0 ELSE Down(h[k - 1])]
    BY <1>7
<1> HIDE DEF h, p0, W
<1>9. h[0] = p0
    BY <1>1, <1>8
<1>10. ASSUME NEW k \in 1 .. Len(n) PROVE h[k] = Down(h[k - 1])
    <2>1. k \in 0 .. Len(n) /\ k # 0
        BY <1>1
    <2> QED BY <1>8, <2>1
<1> QED BY <1>2, <1>9, <1>10 DEF h, p0, W

\* The walk ends where the name leads.
LEMMA DescendEnds ==
    ASSUME TypeOK, Tree, NEW n \in Word
    PROVE  Leaf(n, Descend(n).blk, Descend(n).rest)
<1> DEFINE g == Ways(n)
           W == Places(n)
           T == {k \in Nat : k <= Len(n) =>
                    /\ g[k] \in W
                    /\ Leaf(n, g[k].blk, g[k].rest) \/ Len(g[k].rest) <= Len(n) - k}
           p == g[Len(n)]
<1>1. Len(n) \in Nat
    BY Letters
<1>2. /\ g[0] = [blk |-> Root, rest |-> n]
      /\ g[0] \in W
      /\ \A k \in 1 .. Len(n) : g[k] = Down(g[k - 1])
    BY WaysEquation
<1>3. Descend(n) = p
    BY DEF Descend, Ways
<1> HIDE DEF g
<1>4. 0 \in T
    <2>1. Len(g[0].rest) <= Len(n) - 0
        BY <1>1, <1>2
    <2> QED BY <1>2, <2>1
<1>5. ASSUME NEW k \in Nat, k \in T PROVE k + 1 \in T
    <2> SUFFICES ASSUME k + 1 <= Len(n)
                 PROVE  /\ g[k + 1] \in W
                        /\ \/ Leaf(n, g[k + 1].blk, g[k + 1].rest)
                           \/ Len(g[k + 1].rest) <= Len(n) - (k + 1)
        OBVIOUS
    <2>1. g[k] \in W /\ (Leaf(n, g[k].blk, g[k].rest) \/ Len(g[k].rest) <= Len(n) - k)
        BY <1>1, <1>5
    <2>2. g[k + 1] = Down(g[k])
        <3>1. k + 1 \in 1 .. Len(n) /\ (k + 1) - 1 = k
            BY <1>1
        <3> QED BY <1>2, <3>1
    <2>3. /\ g[k + 1] \in W
          /\ Leaf(n, g[k].blk, g[k].rest) => g[k + 1] = g[k]
          /\ ~Leaf(n, g[k].blk, g[k].rest) => Len(g[k + 1].rest) < Len(g[k].rest)
        BY <2>1, <2>2, DownStep
    <2>4. Len(g[k].rest) \in Nat /\ Len(g[k + 1].rest) \in Nat
        <3>1. g[k].rest \in Word /\ g[k + 1].rest \in Word
            BY <2>1, <2>3 DEF Places
        <3> QED BY <3>1, Letters
    <2>5. CASE Leaf(n, g[k].blk, g[k].rest)
        BY <2>3, <2>5
    <2>6. CASE ~Leaf(n, g[k].blk, g[k].rest)
        <3>1. Len(g[k].rest) <= Len(n) - k /\ Len(g[k + 1].rest) < Len(g[k].rest)
            BY <2>1, <2>3, <2>6
        <3>2. Len(g[k + 1].rest) <= Len(n) - (k + 1)
            BY <1>1, <2>4, <3>1
        <3> QED BY <2>3, <3>2
    <2> QED BY <2>5, <2>6
<1>6. Len(n) \in T
    <2> HIDE DEF T
    <2> QED BY <1>1, <1>4, <1>5, Induction
<1>7. p \in W /\ (Leaf(n, p.blk, p.rest) \/ Len(p.rest) <= 0)
    BY <1>1, <1>6
<1> HIDE DEF p, T
<1>8. CASE Len(p.rest) <= 0
    <2>1. p.rest \in Word /\ p.blk \in MadeBlock /\ Lead[p.blk] \o p.rest = n
        BY <1>7 DEF Places
    <2>2. p.rest = <<>>
        BY <1>8, <2>1, EmptySeq DEF Word
    <2> QED BY <1>3, <2>1, <2>2 DEF Leaf
<1> QED BY <1>3, <1>7, <1>8

\* A place that fits a name is the one the walk finds.
LEMMA DescendFinds ==
    ASSUME TypeOK, Tree, NEW n \in Word, NEW b, NEW r, Leaf(n, b, r)
    PROVE  Descend(n).blk = b /\ Descend(n).rest = r
BY DescendEnds, OneLeaf

-----------------------------------------------------------------------------
(* Lookups *)

NameAt(b, i) == Lead[b] \o entries[b][i].rest

\* Every entry is in the block that its name leads to.
Filed ==
    \A b \in DirBlock : \A i \in 1 .. Len(entries[b]) :
        NameAt(b, i) \in Names /\ Leaf(NameAt(b, i), b, entries[b][i].rest)

InOrder == \A b \in DirBlock : Sorted(entries[b])

LEMMA NamesAreWords == \A n \in Names : n \in Word /\ n # <<>>
BY CharsAssumption DEF Word

LEMMA BlockEntries ==
    ASSUME TypeOK, NEW b \in DirBlock
    PROVE  /\ entries[b] \in Seq(Entry) /\ Len(entries[b]) \in Nat
           /\ DOMAIN entries[b] = 1 .. Len(entries[b])
           /\ \A i \in 1 .. Len(entries[b]) : entries[b][i] \in Entry /\ entries[b][i].rest \in Word
<1>1. entries[b] \in Seq(Entry)
    BY DEF TypeOK
<1> QED BY <1>1, EntryRest, LenProperties

\* No two entries have the same name.
LEMMA NamesAreDistinct ==
    ASSUME TypeOK, Tree, Filed, InOrder,
           NEW b \in DirBlock, NEW i \in 1 .. Len(entries[b]),
           NEW c \in DirBlock, NEW j \in 1 .. Len(entries[c]), NameAt(b, i) = NameAt(c, j)
    PROVE  b = c /\ i = j
<1>1. Leaf(NameAt(b, i), b, entries[b][i].rest) /\ Leaf(NameAt(b, i), c, entries[c][j].rest)
    BY DEF Filed
<1>2. b = c /\ entries[b][i].rest = entries[c][j].rest
    BY <1>1, OneLeaf
<1>3. i \in 1 .. Len(entries[b]) /\ j \in 1 .. Len(entries[b]) /\ entries[b][i].rest = entries[b][j].rest
    BY <1>2
<1>4. entries[b][i].rest \in Word /\ Len(entries[b]) \in Nat
    BY BlockEntries
<1>5. ~Below(entries[b][i].rest, entries[b][j].rest) /\ ~Below(entries[b][j].rest, entries[b][i].rest)
    BY <1>3, <1>4, BelowIsStrict
<1>6. ~(i < j) /\ ~(j < i)
    BY <1>3, <1>5 DEF InOrder, Sorted
<1> QED BY <1>2, <1>3, <1>4, <1>6

\* A lookup finds the entry of a name, if there is one, or does not end.
LEMMA FindName ==
    ASSUME TypeOK, Tree, Filed, InOrder, NEW n \in Names
    PROVE  LET b == Find(n)[1]
               k == Find(n)[2]
           IN  /\ Find(n) = <<b, k>>
               /\ b = Descend(n).blk /\ b \in MadeBlock /\ b \in DirBlock
               /\ \/ k = None /\ \A c \in DirBlock : \A i \in 1 .. Len(entries[c]) : NameAt(c, i) # n
                  \/ k = Never /\ \E i \in 1 .. Len(entries[b]) : entries[b][i].first = Deleted
                  \/ k \in 1 .. Len(entries[b]) /\ NameAt(b, k) = n
<1> DEFINE b == Descend(n).blk
           r == Descend(n).rest
           s == entries[b]
           k == Search(s, r)
<1>1. n \in Word /\ Leaf(n, b, r)
    BY NamesAreWords, DescendEnds
<1>2. b \in MadeBlock /\ b \in DirBlock /\ r \in Word /\ Lead[b] \o r = n /\ Lead[b] \in Word
    BY <1>1, TreeTypes, LeadEquation DEF Leaf
<1>3. Find(n) = <<b, k>>
    BY DEF Find
<1> HIDE DEF b, r
<1>4. s \in Seq(Entry) /\ \A i \in 1 .. Len(s) : s[i].rest \in Word
    BY <1>2, BlockEntries
<1>5. Sorted(s)
    BY <1>2 DEF InOrder
<1>6. Comparable(s, r)
    <2> SUFFICES ASSUME NEW i \in 1 .. Len(s)
                 PROVE  s[i].rest = r \/ Below(s[i].rest, r) \/ Below(r, s[i].rest)
        BY DEF Comparable
    <2>1. Lead[b] \o s[i].rest \in Names
        BY <1>2 DEF Filed, NameAt
    <2>2. Lead[b] \o r \in Names
        BY <1>2
    <2> HIDE DEF s
    <2>3. s[i].rest = r \/ Below(s[i].rest, r) \/ Below(r, s[i].rest)
        BY <1>2, <1>4, <2>1, <2>2, NamesDiffer
    <2> QED BY <2>3
<1>7. \/ k = None /\ \A i \in 1 .. Len(s) : s[i].rest # r
      \/ k = Never /\ \E i \in 1 .. Len(s) : s[i].first = Deleted
      \/ k \in 1 .. Len(s) /\ s[k].rest = r
    <2> HIDE DEF s
    <2> QED BY <1>2, <1>4, <1>5, <1>6, SearchFinds
<1> HIDE DEF k
<1>8. ASSUME \A i \in 1 .. Len(s) : s[i].rest # r, NEW c \in DirBlock, NEW i \in 1 .. Len(entries[c]),
             NameAt(c, i) = n
      PROVE  FALSE
    <2>1. Leaf(n, c, entries[c][i].rest)
        BY <1>8 DEF Filed
    <2>2. c = b /\ entries[c][i].rest = r
        BY <1>1, <2>1, OneLeaf
    <2> QED BY <1>8, <2>2
<1>9. ASSUME k \in 1 .. Len(s), s[k].rest = r PROVE NameAt(b, k) = n
    BY <1>2, <1>9 DEF NameAt
<1>10. Find(n)[1] = b /\ Find(n)[2] = k
    BY <1>3
<1> QED BY <1>2, <1>3, <1>7, <1>8, <1>9, <1>10 DEF b

LEMMA FindListed ==
    ASSUME TypeOK, Tree, Filed, InOrder, \A b \in DirBlock : \A i \in 1 .. Len(entries[b]) : entries[b][i].first # Deleted,
           NEW b \in DirBlock, NEW i \in 1 .. Len(entries[b])
    PROVE  NameAt(b, i) \in Names /\ Find(NameAt(b, i)) = <<b, i>>
<1> DEFINE n == NameAt(b, i)
           c == Find(n)[1]
           k == Find(n)[2]
<1>1. n \in Names
    BY DEF Filed
<1>2. /\ Find(n) = <<c, k>> /\ c \in DirBlock
      /\ \/ k = None /\ \A d \in DirBlock : \A j \in 1 .. Len(entries[d]) : NameAt(d, j) # n
         \/ k = Never /\ \E j \in 1 .. Len(entries[c]) : entries[c][j].first = Deleted
         \/ k \in 1 .. Len(entries[c]) /\ NameAt(c, k) = n
    BY <1>1, FindName
<1> HIDE DEF c, k
<1>3. k \in 1 .. Len(entries[c]) /\ NameAt(c, k) = n
    BY <1>2
<1>4. c = b /\ k = i
    BY <1>2, <1>3, NamesAreDistinct
<1> QED BY <1>1, <1>2, <1>4

\* While no entry of an unlinked file is left, lookups and listing agree.
LEMMA ExactLookup ==
    ASSUME TypeOK, Tree, Filed, InOrder, \A b \in DirBlock : \A i \in 1 .. Len(entries[b]) : entries[b][i].first # Deleted
    PROVE  Listing = {[name |-> n, at |-> Find(n)] : n \in {m \in Names : Found(Find(m))}}
<1> DEFINE Looked == {[name |-> n, at |-> Find(n)] : n \in {m \in Names : Found(Find(m))}}
           In(b) == {[name |-> NameAt(b, i), at |-> <<b, i>>] : i \in 1 .. Len(entries[b])}
<1>1. Listing = UNION {In(b) : b \in MadeBlock}
    <2> DEFINE A(b) ==
            {[name |-> Lead[b] \o entries[b][i].rest, at |-> <<b, i>>] : i \in DOMAIN entries[b]}
    <2>1. ASSUME NEW b \in MadeBlock PROVE A(b) = In(b)
        <3>1. DOMAIN entries[b] = 1 .. Len(entries[b])
            BY TreeTypes, BlockEntries
        <3> QED BY <3>1 DEF NameAt
    <2>2. Listing = UNION {A(b) : b \in MadeBlock}
        BY DEF Listing, MadeBlock
    <2> HIDE DEF A, In
    <2> QED BY <2>1, <2>2
<1>2. ASSUME NEW b \in MadeBlock, NEW i \in 1 .. Len(entries[b])
      PROVE  [name |-> NameAt(b, i), at |-> <<b, i>>] \in Looked
    <2>1. b \in DirBlock /\ i \in Nat /\ i > 0
        BY TreeTypes, BlockEntries
    <2>2. NameAt(b, i) \in Names /\ Find(NameAt(b, i)) = <<b, i>>
        BY <2>1, FindListed
    <2>3. Found(Find(NameAt(b, i)))
        BY <2>1, <2>2 DEF Found, None
    <2> QED BY <2>2, <2>3
<1>3. ASSUME NEW n \in Names, Found(Find(n))
      PROVE  \E b \in MadeBlock : \E i \in 1 .. Len(entries[b]) :
                [name |-> n, at |-> Find(n)] = [name |-> NameAt(b, i), at |-> <<b, i>>]
    <2> DEFINE b == Find(n)[1]
               k == Find(n)[2]
    <2>1. /\ Find(n) = <<b, k>> /\ b \in MadeBlock
          /\ k = None \/ k = Never \/ (k \in 1 .. Len(entries[b]) /\ NameAt(b, k) = n)
        BY FindName
    <2>2. k > None
        BY <1>3 DEF Found
    <2> HIDE DEF b, k
    <2>3. k \in 1 .. Len(entries[b]) /\ NameAt(b, k) = n
        BY <2>1, <2>2 DEF None, Never
    <2> QED BY <2>1, <2>3
<1> HIDE DEF Looked
<1>4. Listing \subseteq Looked
    BY <1>1, <1>2
<1>5. Looked \subseteq Listing
    <2>1. ASSUME NEW x \in Looked PROVE x \in Listing
        <3>1. PICK n \in Names : Found(Find(n)) /\ x = [name |-> n, at |-> Find(n)]
            BY DEF Looked
        <3>2. PICK b \in MadeBlock : \E i \in 1 .. Len(entries[b]) : x = [name |-> NameAt(b, i), at |-> <<b, i>>]
            BY <1>3, <3>1
        <3>3. x \in In(b)
            BY <3>2
        <3> QED BY <1>1, <3>3
    <2> QED BY <2>1
<1> QED BY <1>4, <1>5 DEF Looked

-----------------------------------------------------------------------------
(* What a step leaves alone *)

LeadsOn ==
    /\ Lead[Root] = <<>>
    /\ \A b \in MadeBlock : Lead[b] \in Word
    /\ \A p \in DirBlock, c \in Chars : next[p][c] # Root =>
        /\ p \in MadeBlock /\ next[p][c] \in 1 .. made - 1 /\ p < next[p][c]
        /\ Lead[next[p][c]] = Append(Lead[p], c)

LEMMA WaysLeadOn == TypeOK /\ Tree => LeadsOn
<1> SUFFICES ASSUME TypeOK, Tree PROVE LeadsOn
    OBVIOUS
<1>1. Lead[Root] = <<>> /\ \A b \in MadeBlock : Lead[b] \in Word
    BY LeadEquation
<1> QED BY <1>1, LeadExtends DEF LeadsOn

LEMMA WaysLeadOnNext == TypeOK' /\ Tree' => LeadsOn'
BY WaysLeadOn, PTL

LEMMA Upwards ==
    ASSUME NEW b \in Nat, NEW m \in Nat, NEW n \in Nat, b < m, m <= n
    PROVE  b \in 0 .. n - 1
OBVIOUS

\* Blocks that are made leave the ways to the others as they are.
LEMMA LeadKept ==
    ASSUME TypeOK, Tree, TypeOK', Tree', made <= made',
           \A p \in MadeBlock, c \in Chars : next[p][c] # Root => next'[p][c] = next[p][c]
    PROVE  \A b \in MadeBlock : b \in MadeBlock' /\ Lead'[b] = Lead[b]
<1> DEFINE T == {n \in Nat : \A b \in MadeBlock : b < n => Lead'[b] = Lead[b]}
<1>1. /\ made \in Nat /\ made' \in Nat /\ made > 0 /\ made' > 0
      /\ \A b \in MadeBlock : b \in Nat /\ b < made /\ b \in DirBlock /\ (b = Root \/ b \in 1 .. made - 1)
    <2>1. DirBlocks \in Nat /\ made \in 1 .. DirBlocks /\ made' \in 1 .. DirBlocks
        BY BoundAssumption DEF TypeOK
    <2> QED BY <2>1 DEF MadeBlock, DirBlock, Root
<1>2. LeadsOn /\ LeadsOn'
    BY WaysLeadOn, WaysLeadOnNext
<1>3. 0 \in T
    BY <1>1
<1>4. ASSUME NEW n \in Nat, n \in T PROVE n + 1 \in T
    <2> SUFFICES ASSUME NEW b \in MadeBlock, b < n + 1 PROVE Lead'[b] = Lead[b]
        OBVIOUS
    <2>1. CASE b = Root
        <3>1. Lead[Root] = <<>> /\ Lead'[Root] = <<>>
            BY <1>2 DEF LeadsOn, Root
        <3> QED BY <2>1, <3>1
    <2>2. CASE b # Root
        <3>1. b \in 1 .. made - 1
            BY <1>1, <2>2
        <3>2. PICK p \in 0 .. b - 1 : \E c \in Chars : next[p][c] = b
            BY <3>1 DEF Tree
        <3>3. PICK c \in Chars : next[p][c] = b
            BY <3>2
        <3>4. p \in MadeBlock /\ p \in DirBlock /\ p < n
            BY <1>1, <3>1, <3>2 DEF MadeBlock
        <3>5. next'[p][c] = b /\ next[p][c] # Root
            BY <2>2, <3>3, <3>4
        <3>6. Lead[b] = Append(Lead[p], c)
            BY <1>2, <3>3, <3>4, <3>5 DEF LeadsOn
        <3>7. Lead'[b] = Append(Lead'[p], c)
            <4>1. \A q \in DirBlock', d \in Chars : next'[q][d] # Root' =>
                    Lead'[next'[q][d]] = Append(Lead'[q], d)
                BY <1>2 DEF LeadsOn
            <4>2. p \in DirBlock' /\ Root' = Root
                BY <3>4 DEF DirBlock, Root
            <4> QED BY <3>3, <3>5, <4>1, <4>2
        <3>8. Lead'[p] = Lead[p]
            BY <1>4, <3>4
        <3> QED BY <3>6, <3>7, <3>8
    <2> QED BY <2>1, <2>2
<1>5. made \in T
    <2> HIDE DEF T
    <2> QED BY <1>1, <1>3, <1>4, Induction
<1>6. ASSUME NEW b \in MadeBlock PROVE b \in MadeBlock'
    <2>1. b \in Nat /\ b < made
        BY <1>1
    <2>2. b \in 0 .. made' - 1
        BY <1>1, <2>1, Upwards
    <2> QED BY <2>2 DEF MadeBlock
<1> QED BY <1>1, <1>5, <1>6

-----------------------------------------------------------------------------
(* Parts of sequences *)

\* s without its elements from .. to.
Cut(s, from, to) == SubSeq(s, 1, from - 1) \o SubSeq(s, to + 1, Len(s))

LEMMA Part ==
    ASSUME NEW S, NEW s \in Seq(S), NEW m \in Int, NEW n \in Int, m >= 1, n <= Len(s), m <= n + 1
    PROVE  /\ SubSeq(s, m, n) \in Seq(S) /\ Len(SubSeq(s, m, n)) = n - m + 1
           /\ \A i \in 1 .. n - m + 1 : SubSeq(s, m, n)[i] = s[m + i - 1]
<1>1. Len(s) \in Nat
    BY LenProperties
<1>2. ASSUME NEW i \in m .. n PROVE s[i] \in S
    <2>1. i \in 1 .. Len(s)
        BY <1>1
    <2> QED BY <2>1, ElementOfSeq
<1>3. /\ SubSeq(s, m, n) \in Seq(S)
      /\ Len(SubSeq(s, m, n)) = IF m <= n THEN n - m + 1 ELSE 0
      /\ \A i \in 1 .. n - m + 1 : SubSeq(s, m, n)[i] = s[m + i - 1]
    BY <1>2, SubSeqProperties
<1>4. (IF m <= n THEN n - m + 1 ELSE 0) = n - m + 1
    OBVIOUS
<1> QED BY <1>3, <1>4

LEMMA Joining ==
    ASSUME NEW S, NEW s \in Seq(S), NEW t \in Seq(S)
    PROVE  /\ s \o t \in Seq(S) /\ Len(s \o t) = Len(s) + Len(t) /\ Len(s) \in Nat /\ Len(t) \in Nat
           /\ \A i \in 1 .. Len(s) : (s \o t)[i] = s[i]
           /\ \A i \in 1 .. Len(t) : (s \o t)[Len(s) + i] = t[i]
<1>1. Len(s) \in Nat /\ Len(t) \in Nat
    BY LenProperties
<1>2. /\ s \o t \in Seq(S) /\ Len(s \o t) = Len(s) + Len(t)
      /\ \A i \in 1 .. Len(s) + Len(t) : (s \o t)[i] = IF i <= Len(s) THEN s[i] ELSE t[i - Len(s)]
    BY ConcatProperties
<1> DEFINE u == s \o t
<1> HIDE DEF u
<1>3. \A i \in 1 .. Len(s) + Len(t) : u[i] = IF i <= Len(s) THEN s[i] ELSE t[i - Len(s)]
    BY <1>2 DEF u
<1>4. ASSUME NEW i \in 1 .. Len(s) PROVE u[i] = s[i]
    BY <1>1, <1>3
<1>5. ASSUME NEW i \in 1 .. Len(t) PROVE u[Len(s) + i] = t[i]
    <2>1. Len(s) + i \in 1 .. Len(s) + Len(t) /\ ~(Len(s) + i <= Len(s)) /\ (Len(s) + i) - Len(s) = i
        BY <1>1
    <2> QED BY <1>3, <2>1
<1> QED BY <1>1, <1>2, <1>4, <1>5 DEF u

LEMMA CutSeq ==
    ASSUME NEW S, NEW s \in Seq(S), NEW from \in 1 .. Len(s), NEW to \in from .. Len(s)
    PROVE  /\ Cut(s, from, to) \in Seq(S)
           /\ Len(s) \in Nat /\ Len(Cut(s, from, to)) = Len(s) - (to - from + 1)
           /\ \A i \in 1 .. from - 1 : Cut(s, from, to)[i] = s[i]
           /\ \A i \in from .. Len(s) - (to - from + 1) : Cut(s, from, to)[i] = s[i + (to - from + 1)]
<1>1. Len(s) \in Nat
    BY LenProperties
<1> DEFINE a == SubSeq(s, 1, from - 1)
           b == SubSeq(s, to + 1, Len(s))
<1>2. from \in Int /\ to \in Int /\ from - 1 \in Int /\ to + 1 \in Int /\ from >= 1 /\ from <= to /\ to <= Len(s)
    BY <1>1
<1>3. /\ a \in Seq(S) /\ Len(a) = from - 1
      /\ \A i \in 1 .. from - 1 : a[i] = s[i]
    <2>1. /\ a \in Seq(S) /\ Len(a) = (from - 1) - 1 + 1
          /\ \A i \in 1 .. (from - 1) - 1 + 1 : a[i] = s[1 + i - 1]
        BY <1>1, <1>2, Part
    <2> HIDE DEF a
    <2>2. (from - 1) - 1 + 1 = from - 1 /\ \A i \in 1 .. from - 1 : 1 + i - 1 = i
        BY <1>2
    <2> QED BY <2>1, <2>2
<1>4. /\ b \in Seq(S) /\ Len(b) = Len(s) - to
      /\ \A i \in 1 .. Len(s) - to : b[i] = s[to + i]
    <2>1. /\ b \in Seq(S) /\ Len(b) = Len(s) - (to + 1) + 1
          /\ \A i \in 1 .. Len(s) - (to + 1) + 1 : b[i] = s[(to + 1) + i - 1]
        BY <1>1, <1>2, Part
    <2> HIDE DEF b
    <2>2. Len(s) - (to + 1) + 1 = Len(s) - to /\ \A i \in 1 .. Len(s) - to : (to + 1) + i - 1 = to + i
        BY <1>1, <1>2
    <2> QED BY <2>1, <2>2
<1>5. Cut(s, from, to) = a \o b
    BY DEF Cut
<1> HIDE DEF a, b
<1>6. /\ a \o b \in Seq(S) /\ Len(a \o b) = Len(a) + Len(b)
      /\ \A i \in 1 .. Len(a) : (a \o b)[i] = a[i]
      /\ \A i \in 1 .. Len(b) : (a \o b)[Len(a) + i] = b[i]
    <2>1. a \in Seq(S) /\ b \in Seq(S)
        BY <1>3, <1>4
    <2> QED BY <2>1, Joining
<1> DEFINE c == a \o b
<1> HIDE DEF c
<1>7. Len(c) = Len(s) - (to - from + 1) /\ \A i \in 1 .. from - 1 : c[i] = s[i]
    BY <1>1, <1>2, <1>3, <1>4, <1>6 DEF c
<1>8. ASSUME NEW i \in from .. Len(s) - (to - from + 1) PROVE c[i] = s[i + (to - from + 1)]
    <2> DEFINE j == i - (from - 1)
    <2>1. j \in 1 .. Len(b) /\ i = Len(a) + j /\ j \in 1 .. Len(s) - to /\ to + j = i + (to - from + 1)
        BY <1>1, <1>2, <1>3, <1>4
    <2> HIDE DEF j
    <2>2. c[i] = b[j]
        BY <1>6, <2>1 DEF c
    <2>3. b[j] = s[to + j]
        BY <1>4, <2>1
    <2> QED BY <2>1, <2>2, <2>3
<1>9. c \in Seq(S) /\ Cut(s, from, to) = c
    BY <1>5, <1>6 DEF c
<1> QED BY <1>1, <1>7, <1>8, <1>9

LEMMA InsertSeq ==
    ASSUME NEW S, NEW s \in Seq(S), NEW k \in 1 .. Len(s) + 1, NEW e \in S
    PROVE  /\ InsertAt(s, k, e) \in Seq(S)
           /\ Len(s) \in Nat /\ Len(InsertAt(s, k, e)) = Len(s) + 1
           /\ \A i \in 1 .. k - 1 : InsertAt(s, k, e)[i] = s[i]
           /\ InsertAt(s, k, e)[k] = e
           /\ \A i \in k + 1 .. Len(s) + 1 : InsertAt(s, k, e)[i] = s[i - 1]
<1>1. Len(s) \in Nat
    BY LenProperties
<1> DEFINE a == SubSeq(s, 1, k - 1)
           b == SubSeq(s, k, Len(s))
<1>2. k \in Int /\ k - 1 \in Int /\ k >= 1 /\ k <= Len(s) + 1 /\ k - 1 <= Len(s) /\ 1 <= (k - 1) + 1
    BY <1>1
<1>3. /\ a \in Seq(S) /\ Len(a) = k - 1
      /\ \A i \in 1 .. k - 1 : a[i] = s[i]
    <2>1. /\ a \in Seq(S) /\ Len(a) = (k - 1) - 1 + 1
          /\ \A i \in 1 .. (k - 1) - 1 + 1 : a[i] = s[1 + i - 1]
        BY <1>2, Part
    <2> HIDE DEF a
    <2>2. (k - 1) - 1 + 1 = k - 1 /\ \A i \in 1 .. k - 1 : 1 + i - 1 = i
        BY <1>2
    <2> QED BY <2>1, <2>2
<1>4. /\ b \in Seq(S) /\ Len(b) = Len(s) - k + 1
      /\ \A i \in 1 .. Len(s) - k + 1 : b[i] = s[k + i - 1]
    BY <1>1, <1>2, Part
<1>5. <<e>> \in Seq(S) /\ Len(<<e>>) = 1 /\ <<e>>[1] = e
    OBVIOUS
<1>6. InsertAt(s, k, e) = (a \o <<e>>) \o b
    BY DEF InsertAt
<1> HIDE DEF a, b
<1> DEFINE c == a \o <<e>>
<1>7. /\ c \in Seq(S) /\ Len(c) = Len(a) + 1
      /\ \A i \in 1 .. Len(a) : c[i] = a[i]
      /\ c[Len(a) + 1] = e
    <2> DEFINE f == <<e>>
    <2>1. f \in Seq(S) /\ Len(f) = 1 /\ f[1] = e
        BY <1>5
    <2> HIDE DEF f
    <2>2. /\ a \o f \in Seq(S) /\ Len(a \o f) = Len(a) + Len(f)
          /\ \A i \in 1 .. Len(a) : (a \o f)[i] = a[i]
          /\ \A i \in 1 .. Len(f) : (a \o f)[Len(a) + i] = f[i]
        <3>1. a \in Seq(S) /\ f \in Seq(S)
            BY <1>3, <2>1
        <3> QED BY <3>1, Joining
    <2>3. 1 \in 1 .. Len(f)
        BY <2>1
    <2> QED BY <2>1, <2>2, <2>3 DEF f
<1> HIDE DEF c
<1> DEFINE d == c \o b
<1>8. /\ d \in Seq(S) /\ Len(d) = Len(c) + Len(b)
      /\ \A i \in 1 .. Len(c) : d[i] = c[i]
      /\ \A i \in 1 .. Len(b) : d[Len(c) + i] = b[i]
    <2>1. c \in Seq(S) /\ b \in Seq(S)
        BY <1>4, <1>7
    <2> QED BY <2>1, Joining
<1> HIDE DEF d
<1>9. Len(d) = Len(s) + 1 /\ (\A i \in 1 .. k - 1 : d[i] = s[i]) /\ d[k] = e
    <2>1. Len(c) = k /\ Len(a) = k - 1 /\ Len(a) + 1 = k /\ k \in 1 .. Len(c)
        BY <1>2, <1>3, <1>7
    <2>2. d[k] = e
        BY <1>7, <1>8, <2>1
    <2>3. ASSUME NEW i \in 1 .. k - 1 PROVE d[i] = s[i]
        <3>1. i \in 1 .. Len(c) /\ i \in 1 .. Len(a)
            BY <1>2, <2>1
        <3> QED BY <1>3, <1>7, <1>8, <3>1
    <2>4. Len(d) = Len(s) + 1
        BY <1>1, <1>2, <1>4, <1>8, <2>1
    <2> QED BY <2>2, <2>3, <2>4
<1>10. ASSUME NEW i \in k + 1 .. Len(s) + 1 PROVE d[i] = s[i - 1]
    <2> DEFINE j == i - k
    <2>1. j \in 1 .. Len(b) /\ i = Len(c) + j /\ k + j - 1 = i - 1 /\ j \in 1 .. Len(s) - k + 1
        BY <1>1, <1>2, <1>3, <1>4, <1>7
    <2> HIDE DEF j
    <2>2. d[i] = b[j]
        BY <1>8, <2>1
    <2>3. b[j] = s[k + j - 1]
        BY <1>4, <2>1
    <2> QED BY <2>1, <2>2, <2>3
<1>11. InsertAt(s, k, e) = d
    BY <1>6 DEF c, d
<1> QED BY <1>1, <1>8, <1>9, <1>10, <1>11

-----------------------------------------------------------------------------
(* Steps that add no entry *)

\* The names of s are some names of t, in the order they have there.
Thins(s, t) ==
    \E m \in [1 .. Len(s) -> 1 .. Len(t)] :
        /\ \A i, j \in 1 .. Len(s) : i < j => m[i] < m[j]
        /\ \A i \in 1 .. Len(s) : s[i].rest = t[m[i]].rest

LEMMA SameThins ==
    ASSUME NEW s, NEW t, Len(s) \in Nat, Len(s) = Len(t), \A i \in 1 .. Len(s) : s[i].rest = t[i].rest
    PROVE  Thins(s, t)
<1> DEFINE m == [i \in 1 .. Len(s) |-> i]
<1>1. m \in [1 .. Len(s) -> 1 .. Len(t)] /\ \A i \in 1 .. Len(s) : m[i] = i
    OBVIOUS
<1> HIDE DEF m
<1> QED BY <1>1 DEF Thins

LEMMA CutThins ==
    ASSUME NEW s \in Seq(Entry), NEW from \in 1 .. Len(s), NEW to \in from .. Len(s)
    PROVE  Thins(Cut(s, from, to), s)
<1> DEFINE c == Cut(s, from, to)
           d == to - from + 1
           m == [i \in 1 .. Len(c) |-> IF i < from THEN i ELSE i + d]
<1>1. /\ Len(s) \in Nat /\ Len(c) = Len(s) - d
      /\ \A i \in 1 .. from - 1 : c[i] = s[i]
      /\ \A i \in from .. Len(s) - d : c[i] = s[i + d]
    BY CutSeq
<1>2. d \in Nat /\ d > 0 /\ from \in Nat /\ to \in Nat /\ to = from + d - 1 /\ to <= Len(s) /\ from > 0
    BY <1>1
<1> HIDE DEF c, d
<1>3. m \in [1 .. Len(c) -> 1 .. Len(s)]
    BY <1>1, <1>2
<1>4. \A i \in 1 .. Len(c) : m[i] = IF i < from THEN i ELSE i + d
    OBVIOUS
<1> HIDE DEF m
<1>5. ASSUME NEW i \in 1 .. Len(c), NEW j \in 1 .. Len(c), i < j PROVE m[i] < m[j]
    <2>1. i \in Int /\ j \in Int
        BY <1>1, <1>2
    <2>2. /\ m[i] = IF i < from THEN i ELSE i + d
          /\ m[j] = IF j < from THEN j ELSE j + d
        BY <1>4
    <2>3. (IF i < from THEN i ELSE i + d) < (IF j < from THEN j ELSE j + d)
        BY <1>2, <1>5, <2>1
    <2> QED BY <2>2, <2>3
<1>6. ASSUME NEW i \in 1 .. Len(c) PROVE c[i] = s[m[i]]
    <2>1. CASE i < from
        <3>1. i \in 1 .. from - 1
            BY <1>2, <2>1
        <3> QED BY <1>1, <1>4, <2>1, <3>1
    <2>2. CASE ~(i < from)
        <3>1. i \in from .. Len(s) - d
            BY <1>1, <1>2, <2>2
        <3> QED BY <1>1, <1>4, <2>2, <3>1
    <2> QED BY <2>1, <2>2
<1> QED BY <1>3, <1>5, <1>6 DEF Thins, c

LEMMA ThinsSorted ==
    ASSUME NEW s, NEW t, Thins(s, t), Sorted(t)
    PROVE  Sorted(s)
<1>1. PICK m \in [1 .. Len(s) -> 1 .. Len(t)] :
        /\ \A i, j \in 1 .. Len(s) : i < j => m[i] < m[j]
        /\ \A i \in 1 .. Len(s) : s[i].rest = t[m[i]].rest
    BY DEF Thins
<1>2. ASSUME NEW i \in 1 .. Len(s), NEW j \in 1 .. Len(s), i < j PROVE Below(s[i].rest, s[j].rest)
    <2>1. m[i] \in 1 .. Len(t) /\ m[j] \in 1 .. Len(t) /\ m[i] < m[j]
        BY <1>1, <1>2
    <2>2. Below(t[m[i]].rest, t[m[j]].rest)
        BY <2>1 DEF Sorted
    <2> QED BY <1>1, <2>2
<1> QED BY <1>2 DEF Sorted

\* The name that is being written is not in the directory yet.
NewIsNew ==
    creating # NoCall => \A b \in DirBlock : \A i \in 1 .. Len(entries[b]) : NameAt(b, i) # creating.name

Structure == Tree /\ Filed /\ InOrder /\ NewIsNew

\* What the steps do that leave the blocks as they are and add no name.
Thinner ==
    /\ next' = next /\ made' = made
    /\ \A b \in DirBlock : Thins(entries'[b], entries[b])

LEMMA TreeStays == TypeOK /\ Tree /\ next' = next /\ made' = made => Tree'
BY DEF Tree, Root, DirBlock

LEMMA LeadStays ==
    ASSUME TypeOK, Tree, TypeOK', next' = next, made' = made
    PROVE  Tree' /\ MadeBlock' = MadeBlock /\ \A b \in MadeBlock : Lead'[b] = Lead[b]
<1>1. Tree'
    BY TreeStays
<1>2. made <= made'
    BY TreeTypes
<1>3. MadeBlock' = MadeBlock
    BY DEF MadeBlock
<1> QED BY <1>1, <1>2, <1>3, LeadKept

LEMMA ThinnerNames ==
    ASSUME TypeOK, Structure, TypeOK', Thinner, NEW b \in DirBlock, NEW i \in 1 .. Len(entries'[b])
    PROVE  \E j \in 1 .. Len(entries[b]) : entries'[b][i].rest = entries[b][j].rest /\ NameAt(b, i)' = NameAt(b, j)
<1>1. PICK m \in [1 .. Len(entries'[b]) -> 1 .. Len(entries[b])] :
        \A k \in 1 .. Len(entries'[b]) : entries'[b][k].rest = entries[b][m[k]].rest
    BY DEF Thinner, Thins
<1>2. m[i] \in 1 .. Len(entries[b]) /\ entries'[b][i].rest = entries[b][m[i]].rest
    BY <1>1
<1>3. b \in MadeBlock
    BY <1>2 DEF Structure, Filed, Leaf
<1>4. Lead'[b] = Lead[b]
    BY <1>3, LeadStays DEF Structure, Thinner
<1> QED BY <1>2, <1>4 DEF NameAt

LEMMA ThinnerKeeps ==
    ASSUME TypeOK, Structure, TypeOK', Thinner
    PROVE  Tree' /\ Filed' /\ InOrder'
<1>1. Tree' /\ MadeBlock' = MadeBlock /\ \A b \in MadeBlock : Lead'[b] = Lead[b]
    BY LeadStays DEF Structure, Thinner
<1>2. InOrder'
    <2>1. \A b \in DirBlock : Sorted(entries'[b])
        BY ThinsSorted DEF Thinner, Structure, InOrder
    <2> QED BY <2>1 DEF InOrder, Sorted, Below, DirBlock
<1>3. ASSUME NEW b \in DirBlock, NEW i \in 1 .. Len(entries'[b])
      PROVE  NameAt(b, i)' \in Names /\ Leaf(NameAt(b, i), b, entries[b][i].rest)'
    <2>1. PICK j \in 1 .. Len(entries[b]) : entries'[b][i].rest = entries[b][j].rest /\ NameAt(b, i)' = NameAt(b, j)
        BY ThinnerNames
    <2>2. NameAt(b, j) \in Names /\ Leaf(NameAt(b, j), b, entries[b][j].rest)
        BY DEF Structure, Filed
    <2> DEFINE r == entries[b][j].rest
               n == NameAt(b, j)
    <2>3. b \in MadeBlock /\ r \in Word /\ Lead[b] \o r = n /\ (r # <<>> => next[b][Head(r)] = Root)
        BY <2>2 DEF Leaf
    <2> HIDE DEF r, n
    <2>4. Lead'[b] = Lead[b] /\ b \in MadeBlock' /\ next' = next
        BY <1>1, <2>3 DEF Thinner
    <2>5. entries'[b][i].rest = r /\ NameAt(b, i)' = n /\ n \in Names
        BY <2>1, <2>2 DEF r, n
    <2> QED BY <2>3, <2>4, <2>5 DEF Leaf, Word, Root
<1>4. Filed'
    BY <1>3 DEF Filed, DirBlock
<1> QED BY <1>1, <1>2, <1>4

LEMMA ThinnerStructure ==
    ASSUME TypeOK, Structure, TypeOK', Thinner, creating' = creating
    PROVE  Structure'
<1>1. Tree' /\ Filed' /\ InOrder'
    BY ThinnerKeeps
<1>2. ASSUME creating' # NoCall, NEW b \in DirBlock, NEW i \in 1 .. Len(entries'[b])
      PROVE  NameAt(b, i)' # creating'.name
    <2>1. \E j \in 1 .. Len(entries[b]) : NameAt(b, i)' = NameAt(b, j)
        BY ThinnerNames
    <2> QED BY <1>2, <2>1 DEF Structure, NewIsNew
<1>3. NewIsNew'
    BY <1>2 DEF NewIsNew, DirBlock, NoCall
<1> QED BY <1>1, <1>3 DEF Structure

-----------------------------------------------------------------------------
(* The calls that add no name *)

OpenFile == [blk : DirBlock, idx : 1 .. Capacity, first : DataBlock, doomed : BOOLEAN]

EntriesOK(e) == e \in [DirBlock -> Seq(Entry)] /\ \A b \in DirBlock : Len(e[b]) <= Capacity

OpenOK(o) == o \in Seq(OpenFile) /\ Len(o) <= MaxOpen

LEMMA FoundEntry ==
    ASSUME TypeOK, Structure, NEW n \in Names, Found(Find(n))
    PROVE  \E b \in DirBlock : \E i \in 1 .. Len(entries[b]) :
              /\ Find(n) = <<b, i>> /\ Find(n)[1] = b /\ Find(n)[2] = i
              /\ EntryAt(Find(n)) = entries[b][i] /\ entries[b][i] \in Entry
              /\ NameAt(b, i) = n /\ i \in 1 .. Capacity
<1> DEFINE b == Find(n)[1]
           i == Find(n)[2]
<1>1. /\ Find(n) = <<b, i>> /\ b \in DirBlock
      /\ i = None \/ i = Never \/ (i \in 1 .. Len(entries[b]) /\ NameAt(b, i) = n)
    BY FindName DEF Structure
<1>2. i > None
    BY DEF Found
<1>3. EntryAt(Find(n)) = entries[b][i]
    BY DEF EntryAt
<1> HIDE DEF b, i
<1>4. i \in 1 .. Len(entries[b]) /\ NameAt(b, i) = n
    BY <1>1, <1>2 DEF None, Never
<1>5. entries[b][i] \in Entry /\ Len(entries[b]) \in Nat
    BY <1>1, <1>4, BlockEntries
<1>6. i \in 1 .. Capacity
    <2>1. Len(entries[b]) <= Capacity /\ Capacity \in Nat
        BY <1>1, CapacityAssumption DEF TypeOK
    <2> QED BY <1>4, <1>5, <2>1
<1> QED BY <1>1, <1>3, <1>4, <1>5, <1>6 DEF b, i

LEMMA RewrittenTypes ==
    ASSUME TypeOK, NEW old, NEW content \in Contents \cup {Nothing},
           NEW first \in DataBlock \cup {DIR_ALLOCATING_MARK}, Rewritten(old, content, first)
    PROVE  used' \subseteq DataBlock /\ data' \in [DataBlock -> Contents \cup {Nothing}]
<1>1. used \subseteq DataBlock /\ data \in [DataBlock -> Contents \cup {Nothing}]
    BY DEF TypeOK
<1>2. CASE content = Nothing
    BY <1>1, <1>2 DEF Rewritten
<1>3. CASE content # Nothing
    BY <1>1, <1>3 DEF Rewritten
<1> QED BY <1>2, <1>3

\* Another first block in an entry.
LEMMA EntryChanges ==
    ASSUME TypeOK, NEW b \in DirBlock, NEW i \in 1 .. Len(entries[b]),
           NEW first \in DataBlock \cup {Deleted, DIR_ALLOCATING_MARK},
           entries' = [entries EXCEPT ![b][i].first = first]
    PROVE  /\ EntriesOK(entries')
           /\ \A c \in DirBlock : Thins(entries'[c], entries[c])
           /\ \A c \in DirBlock : Len(entries'[c]) = Len(entries[c])
           /\ \A c \in DirBlock : \A j \in 1 .. Len(entries[c]) :
                /\ entries'[c][j].rest = entries[c][j].rest
                /\ entries'[c][j].first = IF c = b /\ j = i THEN first ELSE entries[c][j].first
<1> DEFINE s == entries[b]
           e == [s[i] EXCEPT !.first = first]
           t == [s EXCEPT ![i] = e]
<1>1. s \in Seq(Entry) /\ Len(s) \in Nat /\ i \in 1 .. Len(s) /\ s[i] \in Entry /\ Len(s) <= Capacity
    BY BlockEntries DEF TypeOK
<1>2. e \in Entry /\ e.rest = s[i].rest /\ e.first = first
    BY <1>1 DEF Entry
<1>3. entries' = [entries EXCEPT ![b] = t] /\ entries \in [DirBlock -> Seq(Entry)]
    BY DEF TypeOK
<1> HIDE DEF s, e
<1>4. /\ t \in Seq(Entry) /\ Len(t) = Len(s)
      /\ \A j \in 1 .. Len(s) : t[j] = IF j = i THEN e ELSE s[j]
    BY <1>1, <1>2
<1> HIDE DEF t
<1>5. entries' \in [DirBlock -> Seq(Entry)] /\ \A c \in DirBlock : entries'[c] = IF c = b THEN t ELSE entries[c]
    BY <1>3, <1>4
<1>6. ASSUME NEW c \in DirBlock
      PROVE  /\ Len(entries'[c]) = Len(entries[c])
             /\ \A j \in 1 .. Len(entries[c]) :
                /\ entries'[c][j].rest = entries[c][j].rest
                /\ entries'[c][j].first = IF c = b /\ j = i THEN first ELSE entries[c][j].first
    <2>1. CASE c = b
        BY <1>2, <1>4, <1>5, <2>1 DEF s
    <2>2. CASE c # b
        BY <1>5, <2>2
    <2> QED BY <2>1, <2>2
<1>7. ASSUME NEW c \in DirBlock PROVE Thins(entries'[c], entries[c]) /\ Len(entries'[c]) <= Capacity
    <2>1. Len(entries[c]) \in Nat /\ Len(entries[c]) <= Capacity
        BY BlockEntries DEF TypeOK
    <2> QED BY <1>6, <2>1, SameThins
<1> QED BY <1>5, <1>6, <1>7 DEF EntriesOK

LEMMA Dropping ==
    ASSUME NEW s \in Seq(Entry), NEW i \in Nat, i > 0
    PROVE  /\ DropEntry(s, i) \in Seq(Entry) /\ Len(DropEntry(s, i)) <= Len(s)
           /\ Thins(DropEntry(s, i), s)
<1>1. Len(s) \in Nat
    BY LenProperties
<1>2. CASE Len(s) = 0
    <2>1. s = <<>>
        BY <1>1, <1>2, EmptySeq
    <2>2. DropEntry(s, i) = SubSeq(s, 1, 0 - 1) \o SubSeq(s, 0 + 1, 0)
        BY <1>2 DEF DropEntry, RemoveAt
    <2>3. SubSeq(s, 1, 0 - 1) = <<>> /\ SubSeq(s, 0 + 1, 0) = <<>>
        BY SubSeqEmpty
    <2>4. <<>> \in Seq(Entry) /\ <<>> \o <<>> = <<>>
        BY EmptySeq, ConcatEmptySeq
    <2>5. DropEntry(s, i) = s
        BY <2>1, <2>2, <2>3, <2>4
    <2> QED BY <1>1, <2>5, SameThins
<1>3. CASE Len(s) # 0
    <2> DEFINE j == IF i <= Len(s) THEN i ELSE Len(s)
    <2>1. j \in 1 .. Len(s) /\ j \in j .. Len(s) /\ j - j + 1 = 1
        BY <1>1, <1>3
    <2>2. DropEntry(s, i) = Cut(s, j, j)
        BY DEF DropEntry, RemoveAt, Cut
    <2> HIDE DEF j
    <2>3. Cut(s, j, j) \in Seq(Entry) /\ Len(Cut(s, j, j)) = Len(s) - (j - j + 1)
        BY <2>1, CutSeq
    <2>4. Thins(Cut(s, j, j), s)
        BY <2>1, CutThins
    <2> QED BY <1>1, <2>1, <2>2, <2>3, <2>4
<1> QED BY <1>2, <1>3

LEMMA EntryDropped ==
    ASSUME TypeOK, NEW b \in DirBlock, NEW i \in Nat, i > 0,
           entries' = [entries EXCEPT ![b] = DropEntry(@, i)]
    PROVE  EntriesOK(entries') /\ \A c \in DirBlock : Thins(entries'[c], entries[c])
<1> DEFINE t == DropEntry(entries[b], i)
<1>1. \A c \in DirBlock : entries[c] \in Seq(Entry) /\ Len(entries[c]) \in Nat /\ Len(entries[c]) <= Capacity
    BY BlockEntries DEF TypeOK
<1>2. t \in Seq(Entry) /\ Len(t) <= Len(entries[b]) /\ Thins(t, entries[b]) /\ Len(t) \in Nat
    BY <1>1, Dropping, LenProperties
<1>3. entries' = [entries EXCEPT ![b] = t] /\ entries \in [DirBlock -> Seq(Entry)] /\ Capacity \in Nat
    BY CapacityAssumption DEF TypeOK
<1> HIDE DEF t
<1>4. entries' \in [DirBlock -> Seq(Entry)] /\ \A c \in DirBlock : entries'[c] = IF c = b THEN t ELSE entries[c]
    BY <1>2, <1>3
<1>5. ASSUME NEW c \in DirBlock PROVE Len(entries'[c]) <= Capacity /\ Thins(entries'[c], entries[c])
    <2>1. CASE c = b
        BY <1>1, <1>2, <1>3, <1>4, <2>1
    <2>2. CASE c # b
        BY <1>1, <1>4, <2>2, SameThins
    <2> QED BY <2>1, <2>2
<1> QED BY <1>4, <1>5 DEF EntriesOK

LEMMA TypesAgain ==
    ASSUME TypeOK, EntriesOK(entries'), next' = next, made' = made,
           used' \subseteq DataBlock, data' \in [DataBlock -> Contents \cup {Nothing}], OpenOK(open'),
           creating' = NoCall \/ creating' \in [name : Names, content : Contents \cup {Nothing}],
           ops' \in 0 .. MaxOps
    PROVE  TypeOK'
BY DEF TypeOK, EntriesOK, OpenOK, OpenFile, NoCall, Nothing, Entry, DirBlock, Deleted, DIR_ALLOCATING_MARK

LEMMA Counted == ASSUME TypeOK, Begin PROVE ops' \in 0 .. MaxOps /\ creating = NoCall
BY BoundAssumption DEF TypeOK, Begin

LEMMA Opened == TypeOK => OpenOK(open) /\ Len(open) \in Nat /\ DOMAIN open = 1 .. Len(open)
BY LenProperties DEF TypeOK, OpenOK, OpenFile

LEMMA SameEntries == ASSUME TypeOK, entries' = entries
                     PROVE  EntriesOK(entries') /\ \A b \in DirBlock : Thins(entries'[b], entries[b])
<1>1. \A b \in DirBlock : Len(entries[b]) \in Nat
    BY BlockEntries
<1> QED BY <1>1, SameThins DEF TypeOK, EntriesOK

LEMMA OverwriteKeeps ==
    ASSUME TypeOK, Structure, NEW n \in Names, NEW content \in Contents \cup {Nothing},
           Overwrite(n, content)
    PROVE  TypeOK' /\ Structure'
<1>1. Begin /\ Found(Find(n)) /\ UNCHANGED <<next, made, open, creating>>
    BY DEF Overwrite, FoundLive
<1>2. PICK first \in DataBlock \cup {DIR_ALLOCATING_MARK} :
        /\ Rewritten(EntryAt(Find(n)).first, content, first)
        /\ entries' = [entries EXCEPT ![Find(n)[1]][Find(n)[2]].first = first]
    BY DEF Overwrite
<1>3. PICK b \in DirBlock : \E i \in 1 .. Len(entries[b]) : Find(n)[1] = b /\ Find(n)[2] = i
    BY <1>1, FoundEntry
<1>4. PICK i \in 1 .. Len(entries[b]) : Find(n)[1] = b /\ Find(n)[2] = i
    BY <1>3
<1>5. entries' = [entries EXCEPT ![b][i].first = first]
    BY <1>2, <1>4
<1>6. EntriesOK(entries') /\ \A c \in DirBlock : Thins(entries'[c], entries[c])
    BY <1>5, EntryChanges
<1>7. used' \subseteq DataBlock /\ data' \in [DataBlock -> Contents \cup {Nothing}]
    BY <1>2, RewrittenTypes
<1>8. OpenOK(open') /\ ops' \in 0 .. MaxOps /\ creating' = creating
    BY <1>1, Opened, Counted
<1>9. TypeOK'
    BY <1>1, <1>6, <1>7, <1>8, Counted, TypesAgain
<1>10. Thinner
    BY <1>1, <1>6 DEF Thinner
<1> QED BY <1>8, <1>9, <1>10, ThinnerStructure

LEMMA StartCreateKeeps ==
    ASSUME TypeOK, Structure, NEW n \in Names, NEW content \in Contents \cup {Nothing},
           StartCreate(n, content)
    PROVE  TypeOK' /\ Structure'
<1>1. /\ Begin /\ Find(n)[2] = None
      /\ creating' = [name |-> n, content |-> content]
      /\ UNCHANGED <<entries, next, made, used, data, open>>
    BY DEF StartCreate
<1>2. EntriesOK(entries') /\ \A b \in DirBlock : Thins(entries'[b], entries[b])
    BY <1>1, SameEntries
<1>3. OpenOK(open') /\ ops' \in 0 .. MaxOps
    BY <1>1, Opened, Counted
<1>4. used' \subseteq DataBlock /\ data' \in [DataBlock -> Contents \cup {Nothing}]
    BY <1>1 DEF TypeOK
<1>5. creating' \in [name : Names, content : Contents \cup {Nothing}]
    BY <1>1
<1>6. TypeOK'
    BY <1>1, <1>2, <1>3, <1>4, <1>5, TypesAgain
<1>7. Thinner
    BY <1>1, <1>2 DEF Thinner
<1>8. Tree' /\ Filed' /\ InOrder'
    BY <1>6, <1>7, ThinnerKeeps
<1>9. \A b \in DirBlock : \A i \in 1 .. Len(entries[b]) : NameAt(b, i) # n
    <2>1. ~(None = Never) /\ \A b \in DirBlock : \A i \in 1 .. Len(entries[b]) : i # None
        BY BlockEntries DEF None, Never
    <2>2. Tree /\ Filed /\ InOrder
        BY DEF Structure
    <2>3. /\ Find(n)[1] \in DirBlock
          /\ \/ Find(n)[2] = None /\ \A c \in DirBlock : \A i \in 1 .. Len(entries[c]) : NameAt(c, i) # n
             \/ Find(n)[2] = Never
             \/ Find(n)[2] \in 1 .. Len(entries[Find(n)[1]])
        BY <2>2, FindName
    <2> QED BY <1>1, <2>1, <2>3
<1>10. ASSUME NEW b \in DirBlock, NEW i \in 1 .. Len(entries'[b]) PROVE NameAt(b, i)' # creating'.name
    <2>1. \E j \in 1 .. Len(entries[b]) : NameAt(b, i)' = NameAt(b, j)
        BY <1>6, <1>7, ThinnerNames
    <2>2. creating'.name = n
        BY <1>1
    <2> QED BY <1>9, <2>1, <2>2
<1>11. NewIsNew'
    BY <1>10 DEF NewIsNew, DirBlock
<1> QED BY <1>6, <1>8, <1>11 DEF Structure

LEMMA RemoveClosedKeeps ==
    ASSUME TypeOK, Structure, NEW n \in Names, RemoveClosed(n)
    PROVE  TypeOK' /\ Structure'
<1>1. /\ Begin /\ Found(Find(n))
      /\ used' = used \ {EntryAt(Find(n)).first}
      /\ entries' = [entries EXCEPT ![Find(n)[1]] = DropEntry(@, Find(n)[2])]
      /\ UNCHANGED <<next, made, data, open, creating>>
    BY DEF RemoveClosed, FoundLive
<1>2. PICK b \in DirBlock : \E i \in 1 .. Len(entries[b]) : Find(n)[1] = b /\ Find(n)[2] = i
    BY <1>1, FoundEntry
<1>3. PICK i \in 1 .. Len(entries[b]) : Find(n)[1] = b /\ Find(n)[2] = i
    BY <1>2
<1>4. entries' = [entries EXCEPT ![b] = DropEntry(@, i)] /\ i \in Nat /\ i > 0
    BY <1>1, <1>3, BlockEntries
<1>5. EntriesOK(entries') /\ \A c \in DirBlock : Thins(entries'[c], entries[c])
    BY <1>4, EntryDropped
<1>6. used' \subseteq DataBlock /\ data' \in [DataBlock -> Contents \cup {Nothing}]
    BY <1>1 DEF TypeOK
<1>7. OpenOK(open') /\ ops' \in 0 .. MaxOps /\ creating' = creating
    BY <1>1, Opened, Counted
<1>8. TypeOK'
    BY <1>1, <1>5, <1>6, <1>7, Counted, TypesAgain
<1>9. Thinner
    BY <1>1, <1>5 DEF Thinner
<1> QED BY <1>7, <1>8, <1>9, ThinnerStructure

\* The open files, with some more of them doomed.
LEMMA Doomed ==
    ASSUME TypeOK, NEW m \in 0 .. Len(open), NEW D,
           open' = [i \in 1 .. m |-> [open[i] EXCEPT !.doomed = @ \/ i \in D]]
    PROVE  /\ OpenOK(open') /\ Len(open') = m /\ DOMAIN open' = 1 .. m
           /\ \A i \in 1 .. m :
                /\ open'[i].blk = open[i].blk /\ open'[i].idx = open[i].idx /\ open'[i].first = open[i].first
                /\ open'[i].doomed <=> (open[i].doomed \/ i \in D)
<1>1. open \in Seq(OpenFile) /\ Len(open) \in Nat /\ Len(open) <= MaxOpen /\ MaxOpen \in Nat
    BY Opened, BoundAssumption DEF OpenOK
<1>2. m \in Nat /\ m <= Len(open) /\ 1 .. m \subseteq 1 .. Len(open)
    BY <1>1
<1>3. \A i \in 1 .. m : open[i] \in OpenFile
    BY <1>1, <1>2, ElementOfSeq
<1>4. ASSUME NEW i \in 1 .. m
      PROVE  /\ open'[i] \in OpenFile
             /\ open'[i].blk = open[i].blk /\ open'[i].idx = open[i].idx /\ open'[i].first = open[i].first
             /\ open'[i].doomed <=> (open[i].doomed \/ i \in D)
    <2>1. open[i] \in OpenFile /\ open[i].doomed \in BOOLEAN
        BY <1>3 DEF OpenFile
    <2>2. open'[i] = [open[i] EXCEPT !.doomed = open[i].doomed \/ i \in D]
        OBVIOUS
    <2>3. (open[i].doomed \/ i \in D) \in BOOLEAN
        OBVIOUS
    <2> DEFINE d == open[i].doomed \/ i \in D
    <2> HIDE DEF d
    <2>4. open'[i] = [open[i] EXCEPT !.doomed = d] /\ d \in BOOLEAN
        BY <2>2, <2>3 DEF d
    <2>5. /\ open'[i] \in OpenFile /\ open'[i].doomed = d
          /\ open'[i].blk = open[i].blk /\ open'[i].idx = open[i].idx /\ open'[i].first = open[i].first
        BY <2>1, <2>4 DEF OpenFile
    <2> QED BY <2>5 DEF d
<1>5. DOMAIN open' = 1 .. m /\ open' = [i \in 1 .. m |-> open'[i]]
    OBVIOUS
<1>6. open' \in [1 .. m -> OpenFile]
    BY <1>4, <1>5
<1>7. open' \in Seq(OpenFile) /\ Len(open') = m
    BY <1>2, <1>6, SeqDef, LenProperties
<1> QED BY <1>1, <1>2, <1>4, <1>5, <1>7 DEF OpenOK

LEMMA RemoveOpenKeeps ==
    ASSUME TypeOK, Structure, NEW n \in Names, RemoveOpen(n)
    PROVE  TypeOK' /\ Structure'
<1> DEFINE D == OpenAt(EntryAt(Find(n)).first)
<1>1. /\ Begin /\ Found(Find(n))
      /\ open' = [i \in DOMAIN open |-> [open[i] EXCEPT !.doomed = @ \/ i \in D]]
      /\ entries' = [entries EXCEPT ![Find(n)[1]][Find(n)[2]].first = Deleted]
      /\ UNCHANGED <<next, made, used, data, creating>>
    BY DEF RemoveOpen, FoundLive
<1> HIDE DEF D
<1>2. PICK b \in DirBlock : \E i \in 1 .. Len(entries[b]) : Find(n)[1] = b /\ Find(n)[2] = i
    BY <1>1, FoundEntry
<1>3. PICK i \in 1 .. Len(entries[b]) : Find(n)[1] = b /\ Find(n)[2] = i
    BY <1>2
<1>4. entries' = [entries EXCEPT ![b][i].first = Deleted]
    BY <1>1, <1>3
<1>5. EntriesOK(entries') /\ \A c \in DirBlock : Thins(entries'[c], entries[c])
    BY <1>4, EntryChanges
<1>6. OpenOK(open')
    <2>1. Len(open) \in 0 .. Len(open) /\ DOMAIN open = 1 .. Len(open)
        BY Opened
    <2> QED BY <1>1, <2>1, Doomed
<1>7. used' \subseteq DataBlock /\ data' \in [DataBlock -> Contents \cup {Nothing}]
    BY <1>1 DEF TypeOK
<1>8. ops' \in 0 .. MaxOps /\ creating' = creating /\ creating = NoCall
    BY <1>1, Counted
<1>9. TypeOK'
    BY <1>1, <1>5, <1>6, <1>7, <1>8, TypesAgain
<1>10. Thinner
    BY <1>1, <1>5 DEF Thinner
<1> QED BY <1>8, <1>9, <1>10, ThinnerStructure

LEMMA ReadKeeps ==
    ASSUME TypeOK, Structure, NEW n \in Names, Read(n)
    PROVE  TypeOK' /\ Structure'
<1> DEFINE h == [blk |-> Find(n)[1], idx |-> Find(n)[2], first |-> EntryAt(Find(n)).first, doomed |-> FALSE]
<1>1. /\ Begin /\ Len(open) < MaxOpen /\ Found(Find(n)) /\ EntryAt(Find(n)).first \in DataBlock
      /\ open' = Append(open, h)
      /\ UNCHANGED <<entries, next, made, used, data, creating>>
    BY DEF Read
<1>2. Find(n)[1] \in DirBlock /\ Find(n)[2] \in 1 .. Capacity
    BY <1>1, FoundEntry
<1>3. h \in OpenFile
    BY <1>1, <1>2 DEF OpenFile
<1> HIDE DEF h
<1>4. OpenOK(open')
    <2>1. open \in Seq(OpenFile) /\ Len(open) \in Nat /\ MaxOpen \in Nat
        BY Opened, BoundAssumption DEF OpenOK
    <2>2. Append(open, h) \in Seq(OpenFile) /\ Len(Append(open, h)) = Len(open) + 1
        BY <1>3, <2>1, AppendProperties
    <2> QED BY <1>1, <2>1, <2>2 DEF OpenOK
<1>5. EntriesOK(entries') /\ \A b \in DirBlock : Thins(entries'[b], entries[b])
    BY <1>1, SameEntries
<1>6. used' \subseteq DataBlock /\ data' \in [DataBlock -> Contents \cup {Nothing}]
    BY <1>1 DEF TypeOK
<1>7. ops' \in 0 .. MaxOps /\ creating' = creating /\ creating = NoCall
    BY <1>1, Counted
<1>8. TypeOK'
    BY <1>1, <1>4, <1>5, <1>6, <1>7, TypesAgain
<1>9. Thinner
    BY <1>1, <1>5 DEF Thinner
<1> QED BY <1>7, <1>8, <1>9, ThinnerStructure

LEMMA EndReadKeeps ==
    ASSUME TypeOK, Structure, EndRead
    PROVE  TypeOK' /\ Structure'
<1> DEFINE h == Last(open)
           others == OpenAt(h.first) \ {Len(open)}
           delete == h.doomed /\ others = {}
           D == {i \in others : h.doomed}
<1>1. /\ creating = NoCall /\ open # <<>>
      /\ open' = [i \in 1 .. Len(open) - 1 |-> [open[i] EXCEPT !.doomed = @ \/ (h.doomed /\ i \in others)]]
      /\ used' = IF delete THEN used \ {h.first} ELSE used
      /\ entries' = IF delete THEN [entries EXCEPT ![h.blk] = DropEntry(@, h.idx)] ELSE entries
      /\ UNCHANGED <<next, made, data, creating, ops>>
    BY DEF EndRead
<1>2. open \in Seq(OpenFile) /\ Len(open) \in Nat /\ Len(open) > 0
    <2>1. open \in Seq(OpenFile) /\ Len(open) \in Nat
        BY Opened DEF OpenOK
    <2> QED BY <1>1, <2>1, EmptySeq
<1>3. h \in OpenFile
    <2>1. Len(open) \in 1 .. Len(open)
        BY <1>2
    <2> QED BY <1>2, <2>1, ElementOfSeq DEF Last
<1>4. OpenOK(open')
    <2>1. open' = [i \in 1 .. Len(open) - 1 |-> [open[i] EXCEPT !.doomed = @ \/ i \in D]]
        <3>1. \A i : (h.doomed /\ i \in others) <=> i \in D
            OBVIOUS
        <3> HIDE DEF D
        <3>2. \A i : (open[i].doomed \/ (h.doomed /\ i \in others)) = (open[i].doomed \/ i \in D)
            BY <3>1
        <3> QED BY <1>1, <3>2
    <2>2. Len(open) - 1 \in 0 .. Len(open)
        BY <1>2
    <2> HIDE DEF D
    <2> QED BY <2>1, <2>2, Doomed
<1> HIDE DEF h, delete
<1>5. EntriesOK(entries') /\ \A b \in DirBlock : Thins(entries'[b], entries[b])
    <2>1. CASE delete
        <3>1. h.blk \in DirBlock /\ h.idx \in Nat /\ h.idx > 0
            BY <1>3, CapacityAssumption DEF OpenFile
        <3>2. entries' = [entries EXCEPT ![h.blk] = DropEntry(@, h.idx)]
            BY <1>1, <2>1
        <3> QED BY <3>1, <3>2, EntryDropped
    <2>2. CASE ~delete
        BY <1>1, <2>2, SameEntries
    <2> QED BY <2>1, <2>2
<1>6. used' \subseteq DataBlock /\ data' \in [DataBlock -> Contents \cup {Nothing}]
    BY <1>1 DEF TypeOK
<1>7. ops' \in 0 .. MaxOps /\ creating' = creating /\ creating = NoCall
    BY <1>1 DEF TypeOK
<1>8. TypeOK'
    BY <1>1, <1>4, <1>5, <1>6, <1>7, TypesAgain
<1>9. Thinner
    BY <1>1, <1>5 DEF Thinner
<1> QED BY <1>7, <1>8, <1>9, ThinnerStructure

-----------------------------------------------------------------------------
(* A new entry *)

LEMMA PlaceFound ==
    ASSUME NEW s \in Seq(Entry), NEW rest \in Word, Sorted(s), Comparable(s, rest),
           \A i \in 1 .. Len(s) : s[i].rest # rest
    PROVE  /\ PlaceFor(s, rest) \in 1 .. Len(s) + 1
           /\ \A i \in 1 .. PlaceFor(s, rest) - 1 : i \in 1 .. Len(s) /\ Below(s[i].rest, rest)
           /\ \A i \in PlaceFor(s, rest) .. Len(s) : i \in 1 .. Len(s) /\ Below(rest, s[i].rest)
<1> DEFINE P(k) == /\ k <= Len(s) => Compare(rest, s[k].rest) < 0
                   /\ \A j \in 1 .. k - 1 : Compare(rest, s[j].rest) >= 0
           T == {k \in 1 .. Len(s) + 1 : k <= Len(s) => Compare(rest, s[k].rest) < 0}
<1>1. Len(s) \in Nat /\ \A i \in 1 .. Len(s) : s[i].rest \in Word
    BY EntryRest
<1>2. ASSUME NEW i \in 1 .. Len(s)
      PROVE  /\ Compare(rest, s[i].rest) \in Int
             /\ Below(s[i].rest, rest) \/ Below(rest, s[i].rest)
             /\ Below(s[i].rest, rest) => Compare(rest, s[i].rest) > 0
             /\ Below(rest, s[i].rest) => Compare(rest, s[i].rest) < 0
    <2>1. Below(s[i].rest, rest) \/ Below(rest, s[i].rest)
        BY DEF Comparable
    <2>2. s[i].rest \in Word
        BY <1>1
    <2> QED BY <2>1, <2>2, BelowCompares
<1>3. \E k \in 1 .. Len(s) + 1 : P(k)
    <2>1. T \subseteq Nat /\ Len(s) + 1 \in T
        BY <1>1
    <2>2. T # {}
        BY <2>1
    <2>3. PICK k \in T : \A j \in T : k <= j
        <3> HIDE DEF T
        <3> QED BY <2>1, <2>2, LeastElement
    <2>4. ASSUME NEW j \in 1 .. k - 1 PROVE Compare(rest, s[j].rest) >= 0
        <3>1. j \in 1 .. Len(s) /\ j < k /\ j \in 1 .. Len(s) + 1 /\ j \in Int /\ k \in Int
            BY <1>1, <2>3
        <3>2. j \notin T
            BY <2>3, <3>1
        <3>3. ~(Compare(rest, s[j].rest) < 0)
            BY <3>1, <3>2
        <3> QED BY <1>2, <3>1, <3>3
    <2> QED BY <2>3, <2>4
<1> DEFINE p == PlaceFor(s, rest)
<1>4. p \in 1 .. Len(s) + 1 /\ P(p)
    <2>1. p = CHOOSE k \in 1 .. Len(s) + 1 : P(k)
        BY DEF PlaceFor
    <2> HIDE DEF P, p
    <2> QED BY <1>3, <2>1
<1> HIDE DEF p, T
<1>5. ASSUME NEW i \in 1 .. p - 1 PROVE i \in 1 .. Len(s) /\ Below(s[i].rest, rest)
    <2>1. i \in 1 .. Len(s)
        BY <1>1, <1>4
    <2>2. Compare(rest, s[i].rest) >= 0
        BY <1>4
    <2> QED BY <1>2, <2>1, <2>2
<1>6. ASSUME NEW i \in p .. Len(s) PROVE i \in 1 .. Len(s) /\ Below(rest, s[i].rest)
    <2>1. i \in 1 .. Len(s) /\ p \in 1 .. Len(s) /\ (p < i \/ p = i)
        BY <1>1, <1>4
    <2>2. Compare(rest, s[p].rest) < 0
        BY <1>1, <1>4, <2>1
    <2>3. Below(rest, s[p].rest)
        BY <1>2, <2>1, <2>2
    <2>4. CASE p < i
        <3>1. Below(s[p].rest, s[i].rest)
            BY <2>1, <2>4 DEF Sorted
        <3>2. s[p].rest \in Word /\ s[i].rest \in Word
            BY <1>1, <2>1
        <3> QED BY <2>1, <2>3, <3>1, <3>2, BelowIsTransitive
    <2> QED BY <2>1, <2>3, <2>4
<1> QED BY <1>4, <1>5, <1>6 DEF p

LEMMA InsertSorted ==
    ASSUME NEW s \in Seq(Entry), NEW e \in Entry, NEW k \in 1 .. Len(s) + 1, Sorted(s),
           \A i \in 1 .. k - 1 : i \in 1 .. Len(s) /\ Below(s[i].rest, e.rest),
           \A i \in k .. Len(s) : i \in 1 .. Len(s) /\ Below(e.rest, s[i].rest)
    PROVE  Sorted(InsertAt(s, k, e))
<1> DEFINE t == InsertAt(s, k, e)
<1>1. /\ Len(s) \in Nat /\ Len(t) = Len(s) + 1
      /\ \A i \in 1 .. k - 1 : t[i] = s[i]
      /\ t[k] = e
      /\ \A i \in k + 1 .. Len(s) + 1 : t[i] = s[i - 1]
    BY InsertSeq
<1> HIDE DEF t
<1> SUFFICES ASSUME NEW i \in 1 .. Len(t), NEW j \in 1 .. Len(t), i < j PROVE Below(t[i].rest, t[j].rest)
    BY DEF Sorted, t
<1>2. i \in Nat /\ j \in Nat /\ k \in Nat /\ j <= Len(s) + 1 /\ i > 0
    BY <1>1
<1>3. CASE j < k
    <2>1. i \in 1 .. k - 1 /\ j \in 1 .. k - 1
        BY <1>2, <1>3
    <2>2. t[i] = s[i] /\ t[j] = s[j] /\ i \in 1 .. Len(s) /\ j \in 1 .. Len(s)
        BY <1>1, <2>1
    <2> QED BY <2>2 DEF Sorted
<1>4. CASE j = k
    <2>1. i \in 1 .. k - 1
        BY <1>2, <1>4
    <2>2. t[i] = s[i] /\ t[j] = e
        BY <1>1, <1>4, <2>1
    <2> QED BY <2>1, <2>2
<1>5. CASE k < j
    <2>1. j \in k + 1 .. Len(s) + 1 /\ j - 1 \in k .. Len(s)
        BY <1>1, <1>2, <1>5
    <2>2. t[j] = s[j - 1] /\ j - 1 \in 1 .. Len(s) /\ Below(e.rest, s[j - 1].rest)
        BY <1>1, <2>1
    <2>3. CASE i < k
        <3>1. i \in 1 .. k - 1 /\ i < j - 1
            BY <1>2, <1>5, <2>3
        <3>2. t[i] = s[i] /\ i \in 1 .. Len(s)
            BY <1>1, <3>1
        <3> QED BY <2>2, <3>1, <3>2 DEF Sorted
    <2>4. CASE i = k
        BY <1>1, <2>2, <2>4
    <2>5. CASE k < i
        <3>1. i \in k + 1 .. Len(s) + 1 /\ i - 1 \in k .. Len(s) /\ i - 1 < j - 1
            BY <1>1, <1>2, <2>5
        <3>2. t[i] = s[i - 1] /\ i - 1 \in 1 .. Len(s)
            BY <1>1, <3>1
        <3> QED BY <2>2, <3>1, <3>2 DEF Sorted
    <2> QED BY <1>2, <2>3, <2>4, <2>5
<1> QED BY <1>2, <1>3, <1>4, <1>5

\* Where a new name goes is known, and it is not there yet.
LEMMA NewPlace ==
    ASSUME TypeOK, Structure, creating # NoCall
    PROVE  LET b == Descend(creating.name).blk
               r == Descend(creating.name).rest
               s == entries[b]
           IN  /\ creating.name \in Names /\ creating.content \in Contents \cup {Nothing}
               /\ Leaf(creating.name, b, r) /\ b \in MadeBlock /\ b \in DirBlock /\ r \in Word
               /\ Lead[b] \o r = creating.name
               /\ s \in Seq(Entry) /\ Sorted(s) /\ Comparable(s, r)
               /\ \A i \in 1 .. Len(s) : s[i].rest # r
<1> DEFINE n == creating.name
           b == Descend(n).blk
           r == Descend(n).rest
           s == entries[b]
<1>1. n \in Names /\ creating.content \in Contents \cup {Nothing}
    BY DEF TypeOK
<1>2. n \in Word /\ Leaf(n, b, r)
    BY <1>1, NamesAreWords, DescendEnds DEF Structure
<1>3. b \in MadeBlock /\ b \in DirBlock /\ r \in Word /\ Lead[b] \o r = n /\ Lead[b] \in Word
    BY <1>2, TreeTypes, LeadEquation DEF Leaf, Structure
<1> HIDE DEF b, r
<1>4. s \in Seq(Entry) /\ Sorted(s) /\ \A i \in 1 .. Len(s) : s[i].rest \in Word
    BY <1>3, BlockEntries DEF Structure, InOrder
<1>5. ASSUME NEW i \in 1 .. Len(s) PROVE s[i].rest # r
    <2>1. NameAt(b, i) # n
        BY <1>3 DEF Structure, NewIsNew
    <2> QED BY <1>3, <2>1 DEF NameAt
<1>6. Comparable(s, r)
    <2> SUFFICES ASSUME NEW i \in 1 .. Len(s)
                 PROVE  s[i].rest = r \/ Below(s[i].rest, r) \/ Below(r, s[i].rest)
        BY DEF Comparable
    <2>1. Lead[b] \o s[i].rest \in Names
        BY <1>3 DEF Filed, NameAt, Structure
    <2>2. Lead[b] \o r \in Names
        BY <1>1, <1>3
    <2> HIDE DEF s
    <2>3. s[i].rest = r \/ Below(s[i].rest, r) \/ Below(r, s[i].rest)
        BY <1>3, <1>4, <2>1, <2>2, NamesDiffer
    <2> QED BY <2>3
<1> QED BY <1>1, <1>2, <1>3, <1>4, <1>5, <1>6 DEF b, r

\* What a new entry does to its block, and to no other.
LEMMA CreateInserts ==
    ASSUME TypeOK, Structure, Create
    PROVE  \E b \in MadeBlock : \E k \in 1 .. Len(entries[b]) + 1 : \E e \in Entry :
              /\ b \in DirBlock /\ Leaf(creating.name, b, e.rest)
              /\ entries' = [entries EXCEPT ![b] = InsertAt(@, k, e)]
              /\ Sorted(InsertAt(entries[b], k, e))
              /\ Len(entries[b]) < Capacity
              /\ e.first \in DataBlock \cup {DIR_ALLOCATING_MARK}
              /\ Rewritten(DIR_ALLOCATING_MARK, creating.content, e.first)
<1> DEFINE b == Descend(creating.name).blk
           r == Descend(creating.name).rest
           s == entries[b]
           k == PlaceFor(s, r)
<1>1. /\ creating # NoCall /\ ~Full(b)
      /\ \E first \in DataBlock \cup {DIR_ALLOCATING_MARK} :
            /\ Rewritten(DIR_ALLOCATING_MARK, creating.content, first)
            /\ entries' = [entries EXCEPT ![b] = InsertAt(@, k, [rest |-> r, first |-> first])]
    BY DEF Create
<1>2. /\ Leaf(creating.name, b, r) /\ b \in MadeBlock /\ b \in DirBlock /\ r \in Word
      /\ s \in Seq(Entry) /\ Sorted(s) /\ Comparable(s, r)
      /\ \A i \in 1 .. Len(s) : s[i].rest # r
    BY <1>1, NewPlace
<1>3. PICK first \in DataBlock \cup {DIR_ALLOCATING_MARK} :
            /\ Rewritten(DIR_ALLOCATING_MARK, creating.content, first)
            /\ entries' = [entries EXCEPT ![b] = InsertAt(@, k, [rest |-> r, first |-> first])]
    BY <1>1
<1> DEFINE e == [rest |-> r, first |-> first]
<1>4. Len(s) < Capacity
    <2>1. Len(s) \in Nat /\ Len(s) <= Capacity /\ Capacity \in Nat
        BY <1>2, BlockEntries, CapacityAssumption DEF TypeOK
    <2> QED BY <1>1, <2>1 DEF Full
<1> HIDE DEF b, r
<1>5. e \in Entry /\ e.rest = r /\ e.first = first
    BY <1>2 DEF Entry, Word
<1>6. /\ k \in 1 .. Len(s) + 1
      /\ \A i \in 1 .. k - 1 : i \in 1 .. Len(s) /\ Below(s[i].rest, r)
      /\ \A i \in k .. Len(s) : i \in 1 .. Len(s) /\ Below(r, s[i].rest)
    <2> HIDE DEF s
    <2> QED BY <1>2, PlaceFound
<1>7. entries' = [entries EXCEPT ![b] = InsertAt(@, k, e)]
    BY <1>3
<1> HIDE DEF k, e
<1>8. Sorted(InsertAt(s, k, e))
    <2> HIDE DEF s
    <2> QED BY <1>2, <1>5, <1>6, InsertSorted
<1>9. Leaf(creating.name, b, e.rest) /\ e.first \in DataBlock \cup {DIR_ALLOCATING_MARK}
      /\ Rewritten(DIR_ALLOCATING_MARK, creating.content, e.first)
    BY <1>2, <1>3, <1>5
<1> QED BY <1>2, <1>4, <1>5, <1>6, <1>7, <1>8, <1>9

LEMMA CreateKeeps ==
    ASSUME TypeOK, Structure, Create
    PROVE  TypeOK' /\ Structure'
<1>1. creating # NoCall /\ creating' = NoCall /\ UNCHANGED <<next, made, open, ops>>
    BY DEF Create
<1>2. PICK b \in MadeBlock : \E k \in 1 .. Len(entries[b]) + 1 : \E e \in Entry :
              /\ b \in DirBlock /\ Leaf(creating.name, b, e.rest)
              /\ entries' = [entries EXCEPT ![b] = InsertAt(@, k, e)]
              /\ Sorted(InsertAt(entries[b], k, e))
              /\ Len(entries[b]) < Capacity
              /\ e.first \in DataBlock \cup {DIR_ALLOCATING_MARK}
              /\ Rewritten(DIR_ALLOCATING_MARK, creating.content, e.first)
    BY CreateInserts
<1>3. PICK k \in 1 .. Len(entries[b]) + 1 : \E e \in Entry :
              /\ b \in DirBlock /\ Leaf(creating.name, b, e.rest)
              /\ entries' = [entries EXCEPT ![b] = InsertAt(@, k, e)]
              /\ Sorted(InsertAt(entries[b], k, e))
              /\ Len(entries[b]) < Capacity
              /\ e.first \in DataBlock \cup {DIR_ALLOCATING_MARK}
              /\ Rewritten(DIR_ALLOCATING_MARK, creating.content, e.first)
    BY <1>2
<1>4. PICK e \in Entry :
              /\ b \in DirBlock /\ Leaf(creating.name, b, e.rest)
              /\ entries' = [entries EXCEPT ![b] = InsertAt(@, k, e)]
              /\ Sorted(InsertAt(entries[b], k, e))
              /\ Len(entries[b]) < Capacity
              /\ e.first \in DataBlock \cup {DIR_ALLOCATING_MARK}
              /\ Rewritten(DIR_ALLOCATING_MARK, creating.content, e.first)
    BY <1>3
<1> DEFINE s == entries[b]
           t == InsertAt(s, k, e)
<1>5. s \in Seq(Entry) /\ Len(s) < Capacity /\ Capacity \in Nat
    BY <1>4, BlockEntries, CapacityAssumption
<1>6. /\ t \in Seq(Entry) /\ Len(s) \in Nat /\ Len(t) = Len(s) + 1
      /\ \A i \in 1 .. k - 1 : t[i] = s[i]
      /\ t[k] = e
      /\ \A i \in k + 1 .. Len(s) + 1 : t[i] = s[i - 1]
    BY <1>5, InsertSeq
<1>7. entries' = [entries EXCEPT ![b] = t] /\ entries \in [DirBlock -> Seq(Entry)] /\ Sorted(t) /\ b \in DirBlock
    BY <1>4 DEF TypeOK
<1> HIDE DEF t
<1>8. entries' \in [DirBlock -> Seq(Entry)] /\ \A c \in DirBlock : entries'[c] = IF c = b THEN t ELSE entries[c]
    BY <1>6, <1>7
<1>9. EntriesOK(entries')
    <2>1. \A c \in DirBlock : Len(entries[c]) <= Capacity
        BY DEF TypeOK
    <2>2. Len(t) <= Capacity
        BY <1>5, <1>6
    <2>3. \A c \in DirBlock : Len(entries'[c]) <= Capacity
        BY <1>8, <2>1, <2>2
    <2> QED BY <1>8, <2>3 DEF EntriesOK
<1>10. used' \subseteq DataBlock /\ data' \in [DataBlock -> Contents \cup {Nothing}]
    <2>1. creating.content \in Contents \cup {Nothing}
        BY <1>1 DEF TypeOK
    <2> QED BY <1>4, <2>1, RewrittenTypes
<1>11. OpenOK(open') /\ ops' \in 0 .. MaxOps
    BY <1>1, Opened DEF TypeOK
<1>12. TypeOK'
    BY <1>1, <1>9, <1>10, <1>11, TypesAgain
<1>13. Tree' /\ MadeBlock' = MadeBlock /\ \A c \in MadeBlock : Lead'[c] = Lead[c]
    BY <1>1, <1>12, LeadStays DEF Structure
<1>14. InOrder'
    <2>1. \A c \in DirBlock : Sorted(entries'[c])
        BY <1>7, <1>8 DEF Structure, InOrder
    <2> QED BY <2>1 DEF InOrder, Sorted, Below, DirBlock
<1>15. ASSUME NEW c \in DirBlock, NEW i \in 1 .. Len(entries'[c])
       PROVE  \E n \in Names : Leaf(n, c, entries'[c][i].rest)
    <2>1. CASE c = b /\ i = k
        <3>1. creating.name \in Names
            BY <1>1 DEF TypeOK
        <3> QED BY <1>4, <1>6, <1>8, <2>1, <3>1
    <2>2. CASE c = b /\ i # k
        <3>1. \E j \in 1 .. Len(s) : entries'[c][i] = s[j]
            <4>1. entries'[c] = t /\ i \in 1 .. Len(s) + 1 /\ k \in Nat
                BY <1>6, <1>8, <2>2
            <4>2. CASE i < k
                <5>1. i \in 1 .. k - 1 /\ i \in 1 .. Len(s)
                    BY <1>6, <4>1, <4>2
                <5> QED BY <1>6, <4>1, <5>1
            <4>3. CASE i > k
                <5>1. i \in k + 1 .. Len(s) + 1 /\ i - 1 \in 1 .. Len(s)
                    BY <1>6, <4>1, <4>3
                <5> QED BY <1>6, <4>1, <5>1
            <4> QED BY <2>2, <4>1, <4>2, <4>3
        <3> QED BY <2>2, <3>1 DEF Structure, Filed
    <2>3. CASE c # b
        <3>1. entries'[c] = entries[c]
            BY <1>8, <2>3
        <3> QED BY <3>1 DEF Structure, Filed
    <2> QED BY <2>1, <2>2, <2>3
<1>16. ASSUME NEW c \in DirBlock, NEW i \in 1 .. Len(entries'[c])
       PROVE  NameAt(c, i)' \in Names /\ Leaf(NameAt(c, i), c, entries[c][i].rest)'
    <2> DEFINE r == entries'[c][i].rest
    <2>1. PICK n \in Names : Leaf(n, c, r)
        BY <1>15
    <2> HIDE DEF r
    <2>2. c \in MadeBlock /\ r \in Word /\ Lead[c] \o r = n /\ (r # <<>> => next[c][Head(r)] = Root)
        BY <2>1 DEF Leaf
    <2>3. Lead'[c] = Lead[c] /\ c \in MadeBlock' /\ next' = next
        BY <1>1, <1>13, <2>2
    <2>4. NameAt(c, i)' = n
        BY <2>2, <2>3 DEF NameAt, r
    <2>5. entries'[c][i].rest = r
        BY DEF r
    <2> QED BY <2>2, <2>3, <2>4, <2>5 DEF Leaf, Word, Root
<1>17. Filed'
    BY <1>16 DEF Filed, DirBlock
<1>18. NewIsNew'
    BY <1>1 DEF NewIsNew, NoCall
<1> QED BY <1>12, <1>13, <1>14, <1>17, <1>18 DEF Structure

-----------------------------------------------------------------------------
(* The names that a conversion moves *)

\* The names of a block with two entries or more all have a first character, and these
\* are in order.
LEMMA FirstChars ==
    ASSUME NEW s \in Seq(Entry), Sorted(s), Len(s) > 1
    PROVE  /\ \A i \in 1 .. Len(s) :
                s[i].rest # <<>> /\ FirstChar(s[i]) \in Chars /\ FirstChar(s[i]) \in Nat
           /\ \A i, j \in 1 .. Len(s) : i < j =>
                /\ FirstChar(s[i]) <= FirstChar(s[j])
                /\ FirstChar(s[i]) = FirstChar(s[j]) => Below(Tail(s[i].rest), Tail(s[j].rest))
<1>1. Len(s) \in Nat /\ \A i \in 1 .. Len(s) : s[i].rest \in Word
    BY EntryRest
<1>2. ASSUME NEW i \in 1 .. Len(s), NEW j \in 1 .. Len(s), i < j
      PROVE  /\ s[i].rest # <<>> /\ s[j].rest # <<>>
             /\ FirstChar(s[i]) \in Chars /\ FirstChar(s[j]) \in Chars
             /\ FirstChar(s[i]) \in Nat /\ FirstChar(s[j]) \in Nat
             /\ FirstChar(s[i]) <= FirstChar(s[j])
             /\ FirstChar(s[i]) = FirstChar(s[j]) => Below(Tail(s[i].rest), Tail(s[j].rest))
    <2>1. Below(s[i].rest, s[j].rest) /\ s[i].rest \in Word /\ s[j].rest \in Word
        BY <1>1, <1>2 DEF Sorted
    <2> QED BY <2>1, FirstLetters DEF FirstChar
<1>3. ASSUME NEW i \in 1 .. Len(s)
      PROVE  s[i].rest # <<>> /\ FirstChar(s[i]) \in Chars /\ FirstChar(s[i]) \in Nat
    <2>1. CASE i = 1
        <3>1. 2 \in 1 .. Len(s) /\ i < 2
            BY <1>1, <2>1
        <3> QED BY <1>2, <3>1
    <2>2. CASE i # 1
        <3>1. 1 \in 1 .. Len(s) /\ 1 < i
            BY <1>1, <2>2
        <3> QED BY <1>2, <3>1
    <2> QED BY <2>1, <2>2
<1> QED BY <1>2, <1>3

LEMMA Counts ==
    ASSUME NEW s \in Seq(Entry), NEW i \in 1 .. Len(s)
    PROVE  Count(s, i) \in Nat /\ Count(s, i) <= Len(s)
<1> DEFINE C == {j \in 1 .. i : FirstChar(s[j]) = FirstChar(s[i])}
<1>1. Len(s) \in Nat /\ i \in Nat /\ i <= Len(s) /\ i > 0
    BY LenProperties
<1>2. IsFiniteSet(1 .. i) /\ Cardinality(1 .. i) = i
    <2>1. IsFiniteSet(1 .. i) /\ Cardinality(1 .. i) = IF 1 > i THEN 0 ELSE i - 1 + 1
        BY <1>1, FS_Interval
    <2> QED BY <1>1, <2>1
<1>3. C \subseteq 1 .. i
    OBVIOUS
<1> HIDE DEF C
<1>4. IsFiniteSet(C) /\ Cardinality(C) <= Cardinality(1 .. i)
    BY <1>2, <1>3, FS_Subset
<1>5. Cardinality(C) \in Nat
    BY <1>4, FS_CardinalityType
<1>6. Count(s, i) = Cardinality(C)
    BY DEF Count, C
<1> QED BY <1>1, <1>2, <1>4, <1>5, <1>6

LEMMA Frequent ==
    ASSUME NEW s \in Seq(Entry), Len(s) > 1
    PROVE  \E i \in 1 .. Len(s) : MostFrequent(s) = FirstChar(s[i])
<1> DEFINE P(i) == \A j \in DOMAIN s :
                Count(s, j) < Count(s, i) \/ (Count(s, j) = Count(s, i) /\ i <= j)
           T == {Len(s) - Count(s, i) : i \in 1 .. Len(s)}
<1>1. Len(s) \in Nat /\ DOMAIN s = 1 .. Len(s)
    BY LenProperties
<1>2. T \subseteq Nat /\ T # {}
    <2>1. \A i \in 1 .. Len(s) : Len(s) - Count(s, i) \in Nat
        <3>1. \A i \in 1 .. Len(s) : Count(s, i) \in Nat /\ Count(s, i) <= Len(s)
            BY Counts
        <3> QED BY <1>1, <3>1
    <2>2. 1 \in 1 .. Len(s)
        BY <1>1
    <2> QED BY <2>1, <2>2
<1>3. PICK d \in T : \A n \in T : d <= n
    <2> HIDE DEF T
    <2> QED BY <1>2, LeastElement
<1>4. PICK k \in 1 .. Len(s) : d = Len(s) - Count(s, k)
    OBVIOUS
<1> DEFINE U == {i \in 1 .. Len(s) : Count(s, i) = Count(s, k)}
<1>5. U \subseteq Nat /\ k \in U
    BY <1>1
<1>6. PICK m \in U : \A i \in U : m <= i
    <2>1. U # {}
        BY <1>5
    <2> HIDE DEF U
    <2> QED BY <1>5, <2>1, LeastElement
<1>7. ASSUME NEW j \in DOMAIN s
      PROVE  Count(s, j) < Count(s, m) \/ (Count(s, j) = Count(s, m) /\ m <= j)
    <2>1. j \in 1 .. Len(s) /\ m \in 1 .. Len(s) /\ Count(s, m) = Count(s, k)
        BY <1>1
    <2>2. Count(s, j) \in Nat /\ Count(s, k) \in Nat
        BY <2>1, Counts
    <2>3. Len(s) - Count(s, k) <= Len(s) - Count(s, j)
        BY <1>3, <1>4, <2>1
    <2>4. Count(s, j) <= Count(s, k)
        BY <1>1, <2>2, <2>3
    <2>5. Count(s, j) = Count(s, k) => m <= j
        BY <1>6, <2>1
    <2> QED BY <2>1, <2>2, <2>4, <2>5
<1>8. m \in DOMAIN s /\ P(m)
    BY <1>1, <1>7
<1>9. MostFrequent(s) = FirstChar(s[CHOOSE i \in DOMAIN s : P(i)])
    BY DEF MostFrequent
<1>10. (CHOOSE i \in DOMAIN s : P(i)) \in DOMAIN s
    <2> HIDE DEF P
    <2> QED BY <1>8
<1> HIDE DEF P
<1> QED BY <1>1, <1>9, <1>10

\* The names that move are those that begin with the character, and no other.
LEMMA WholeRun ==
    ASSUME NEW s \in Seq(Entry), Sorted(s), Len(s) > 1,
           NEW c, \E i \in 1 .. Len(s) : FirstChar(s[i]) = c
    PROVE  /\ RunStart(s, c) \in 1 .. Len(s)
           /\ RunEnd(s, c) \in RunStart(s, c) .. Len(s)
           /\ \A i \in RunStart(s, c) .. RunEnd(s, c) : FirstChar(s[i]) = c
           /\ \A i \in 1 .. Len(s) :
                i < RunStart(s, c) \/ i > RunEnd(s, c) => FirstChar(s[i]) # c
<1>1. Len(s) \in Nat /\ DOMAIN s = 1 .. Len(s)
    BY LenProperties
<1>2. \A i \in 1 .. Len(s) : FirstChar(s[i]) \in Nat
    BY FirstChars
<1> DEFINE P(i) == FirstChar(s[i]) = c /\ \A j \in 1 .. i - 1 : FirstChar(s[j]) # c
           T == {i \in 1 .. Len(s) : FirstChar(s[i]) = c}
           a == RunStart(s, c)
<1>3. \E i \in DOMAIN s : P(i)
    <2>1. T \subseteq Nat /\ T # {}
        BY <1>1
    <2>2. PICK i \in T : \A j \in T : i <= j
        <3> HIDE DEF T
        <3> QED BY <2>1, LeastElement
    <2>3. ASSUME NEW j \in 1 .. i - 1 PROVE FirstChar(s[j]) # c
        <3>1. j \in 1 .. Len(s) /\ ~(i <= j)
            BY <1>1, <2>2
        <3> QED BY <2>2, <3>1
    <2> QED BY <1>1, <2>2, <2>3
<1>4. a \in DOMAIN s /\ P(a)
    <2>1. a = CHOOSE i \in DOMAIN s : P(i)
        BY DEF RunStart
    <2> HIDE DEF P, a
    <2> QED BY <1>3, <2>1
<1> HIDE DEF a, T
<1>5. a \in 1 .. Len(s) /\ a \in Nat /\ a > 0 /\ a <= Len(s) /\ FirstChar(s[a]) = c
    BY <1>1, <1>4
<1> DEFINE Q(i) == /\ \A j \in a .. i : FirstChar(s[j]) = c
                   /\ i < Len(s) => FirstChar(s[i + 1]) # c
           U == {i \in a .. Len(s) : i < Len(s) => FirstChar(s[i + 1]) # c}
           z == RunEnd(s, c)
<1>6. \E i \in a .. Len(s) : Q(i)
    <2>1. U \subseteq Nat /\ Len(s) \in U
        BY <1>1, <1>5
    <2>2. U # {}
        BY <2>1
    <2>3. PICK i \in U : \A j \in U : i <= j
        <3> HIDE DEF U
        <3> QED BY <2>1, <2>2, LeastElement
    <2>4. ASSUME NEW j \in a .. i PROVE FirstChar(s[j]) = c
        <3>1. CASE j = a
            BY <1>5, <3>1
        <3>2. CASE j # a
            <4>1. j - 1 \in a .. Len(s) /\ j - 1 < Len(s) /\ ~(i <= j - 1) /\ (j - 1) + 1 = j
                BY <1>1, <1>5, <2>3, <3>2
            <4>2. j - 1 \notin U
                BY <2>3, <4>1
            <4> QED BY <4>1, <4>2
        <3> QED BY <3>1, <3>2
    <2> QED BY <2>3, <2>4
<1>7. z \in a .. Len(s) /\ Q(z)
    <2>1. z = CHOOSE i \in a .. Len(s) : Q(i)
        BY DEF RunEnd, a
    <2> HIDE DEF Q, z
    <2> QED BY <1>6, <2>1
<1> HIDE DEF z, U
<1>8. ASSUME NEW i \in 1 .. Len(s), i < a \/ i > z PROVE FirstChar(s[i]) # c
    <2>1. CASE i < a
        <3>1. i \in 1 .. a - 1
            BY <1>5, <2>1
        <3> QED BY <1>4, <3>1
    <2>2. CASE i > z
        <3>1. z \in Nat /\ z < Len(s) /\ z + 1 \in 1 .. Len(s) /\ z \in 1 .. Len(s) /\ z < z + 1 /\ (i = z + 1 \/ z + 1 < i)
            BY <1>1, <1>5, <1>7, <2>2
        <3>2. FirstChar(s[z + 1]) # c
            BY <1>7, <3>1
        <3>3. FirstChar(s[z]) = c
            <4>1. z \in a .. z
                BY <1>5, <1>7
            <4> QED BY <1>7, <4>1
        <3>4. FirstChar(s[z]) <= FirstChar(s[z + 1])
            BY <3>1, FirstChars
        <3>5. CASE i = z + 1
            BY <3>2, <3>5
        <3>6. CASE z + 1 < i
            <4>1. FirstChar(s[z + 1]) <= FirstChar(s[i])
                BY <3>1, <3>6, FirstChars
            <4>2. FirstChar(s[z]) \in Nat /\ FirstChar(s[z + 1]) \in Nat /\ FirstChar(s[i]) \in Nat
                BY <1>2, <3>1
            <4> QED BY <3>2, <3>3, <3>4, <4>1, <4>2
        <3> QED BY <3>1, <3>5, <3>6
    <2> QED BY <1>8, <2>1, <2>2
<1>9. \A i \in a .. z : FirstChar(s[i]) = c
    BY <1>7
<1> QED BY <1>5, <1>7, <1>8, <1>9 DEF a, z

-----------------------------------------------------------------------------
(* A conversion *)

\* The entries of block b that begin with c, which are from .. to, move to a new block.
Moves(b, c, from, to) ==
    /\ \A i \in from .. to : FirstChar(entries[b][i]) = c
    /\ \A i \in 1 .. Len(entries[b]) : i < from \/ i > to => FirstChar(entries[b][i]) # c
    /\ next[b][c] = Root
    /\ entries' = [entries EXCEPT
            ![b] = Cut(entries[b], from, to),
            ![made] = [i \in 1 .. to - from + 1 |-> WithoutFirst(entries[b][from + i - 1])]]
    /\ next' = [next EXCEPT ![b][c] = made]

LEMMA ConvertMoves ==
    ASSUME TypeOK, Structure, Convert
    PROVE  \E b \in MadeBlock : \E c \in Chars :
             \E from \in 1 .. Len(entries[b]) : \E to \in from .. Len(entries[b]) : Moves(b, c, from, to)
<1> DEFINE b == Descend(creating.name).blk
           s == entries[b]
           c == MostFrequent(s)
           from == RunStart(s, c)
           to == RunEnd(s, c)
<1>1. /\ creating # NoCall /\ Full(b)
      /\ entries' = [entries EXCEPT
                ![b] = SubSeq(s, 1, from - 1) \o SubSeq(s, to + 1, Len(s)),
                ![made] = [i \in 1 .. to - from + 1 |-> WithoutFirst(s[from + i - 1])]]
      /\ next' = [next EXCEPT ![b][c] = made]
    BY DEF Convert
<1>2. b \in MadeBlock /\ b \in DirBlock /\ s \in Seq(Entry) /\ Sorted(s)
    BY <1>1, NewPlace
<1>3. Len(s) > 1
    BY <1>1, CapacityAssumption DEF Full
<1>4. PICK m \in 1 .. Len(s) : c = FirstChar(s[m])
    <2> HIDE DEF s
    <2> QED BY <1>2, <1>3, Frequent
<1>5. c \in Chars
    <2> HIDE DEF s, c
    <2> QED BY <1>2, <1>3, <1>4, FirstChars
<1>6. /\ from \in 1 .. Len(s) /\ to \in from .. Len(s)
      /\ \A i \in from .. to : FirstChar(s[i]) = c
      /\ \A i \in 1 .. Len(s) : i < from \/ i > to => FirstChar(s[i]) # c
    <2> HIDE DEF s, c
    <2> QED BY <1>2, <1>3, <1>4, WholeRun
<1> HIDE DEF from, to, c
<1>7. next[b][c] = Root
    <2> HIDE DEF b
    <2>1. s[m].rest # <<>>
        <3> HIDE DEF s
        <3> QED BY <1>2, <1>3, <1>4, FirstChars
    <2>2. Leaf(NameAt(b, m), b, s[m].rest)
        BY <1>2, <1>4 DEF Structure, Filed
    <2> QED BY <1>4, <2>1, <2>2 DEF Leaf, FirstChar
<1>8. entries' = [entries EXCEPT
                ![b] = Cut(s, from, to),
                ![made] = [i \in 1 .. to - from + 1 |-> WithoutFirst(s[from + i - 1])]]
    BY <1>1 DEF Cut
<1>9. Moves(b, c, from, to)
    BY <1>1, <1>6, <1>7, <1>8 DEF Moves
<1> HIDE DEF b
<1> QED BY <1>2, <1>5, <1>6, <1>9

\* What is in the blocks after a conversion.
LEMMA MovedEntries ==
    ASSUME TypeOK, Structure, Convert, NEW b \in MadeBlock, NEW c \in Chars,
           NEW from \in 1 .. Len(entries[b]), NEW to \in from .. Len(entries[b]), Moves(b, c, from, to)
    PROVE  /\ made \in DirBlock /\ b \in DirBlock /\ b # made /\ EntriesOK(entries')
           /\ entries'[b] = Cut(entries[b], from, to)
           /\ Len(entries'[made]) = to - from + 1
           /\ \A i \in 1 .. to - from + 1 :
                /\ from + i - 1 \in 1 .. Len(entries[b])
                /\ entries'[made][i] = WithoutFirst(entries[b][from + i - 1])
                /\ entries'[made][i].rest = Tail(entries[b][from + i - 1].rest)
                /\ entries'[made][i].first = entries[b][from + i - 1].first
                /\ entries[b][from + i - 1].rest \in Word /\ entries[b][from + i - 1].rest # <<>>
                /\ Head(entries[b][from + i - 1].rest) = c
           /\ \A d \in DirBlock : d # b /\ d # made => entries'[d] = entries[d]
           /\ Len(entries[b]) > 1
<1> DEFINE s == entries[b]
           n == to - from + 1
           t == [i \in 1 .. n |-> WithoutFirst(s[from + i - 1])]
           u == Cut(s, from, to)
<1>1. made \in Nat /\ made < DirBlocks /\ made \in DirBlock /\ b \in DirBlock /\ b # made /\ creating # NoCall
    <2>1. made \in Nat /\ DirBlocks \in Nat /\ MadeBlock \subseteq DirBlock
        BY TreeTypes
    <2>2. made < DirBlocks /\ creating # NoCall
        BY DEF Convert
    <2>3. b # made
        BY <2>1 DEF MadeBlock
    <2> QED BY <2>1, <2>2, <2>3 DEF DirBlock
<1>2. s \in Seq(Entry) /\ Len(s) \in Nat /\ Len(s) <= Capacity /\ Capacity \in Nat /\ Sorted(s)
    BY <1>1, BlockEntries, CapacityAssumption DEF TypeOK, Structure, InOrder
<1>3. Len(s) > 1
    <2>1. b = Descend(creating.name).blk
        <3> DEFINE a == Descend(creating.name).blk
        <3>1. next' = [next EXCEPT ![a][MostFrequent(entries[a])] = made]
            BY DEF Convert
        <3>2. next' = [next EXCEPT ![b][c] = made] /\ next[b][c] = Root
            BY DEF Moves
        <3>3. made # Root
            BY TreeTypes DEF Root
        <3>4. next \in [DirBlock -> [Chars -> DirBlock]]
            BY DEF TypeOK
        <3>5. next'[b] # next[b]
            <4>1. next'[b][c] = made
                BY <1>1, <3>2, <3>4
            <4> QED BY <3>2, <3>3, <4>1
        <3> HIDE DEF a
        <3>6. a = b
            BY <1>1, <3>1, <3>4, <3>5
        <3> QED BY <3>6 DEF a
    <2>2. Full(b)
        BY <2>1 DEF Convert
    <2> QED BY <2>2, CapacityAssumption DEF Full
<1>4. from \in Nat /\ to \in Nat /\ from > 0 /\ from <= to /\ to <= Len(s) /\ n \in Nat /\ n <= Len(s)
    BY <1>2
<1>5. entries' = [entries EXCEPT ![b] = u, ![made] = t] /\ entries \in [DirBlock -> Seq(Entry)]
    BY DEF Moves, TypeOK
<1>6. u \in Seq(Entry) /\ Len(u) = Len(s) - n
    <2>1. from \in 1 .. Len(s) /\ to \in from .. Len(s)
        OBVIOUS
    <2> HIDE DEF s
    <2> QED BY <1>2, <2>1, CutSeq
<1> HIDE DEF s, u
<1>7. ASSUME NEW i \in 1 .. n
      PROVE  /\ from + i - 1 \in 1 .. Len(s)
             /\ t[i] = WithoutFirst(s[from + i - 1])
             /\ t[i].rest = Tail(s[from + i - 1].rest)
             /\ t[i].first = s[from + i - 1].first
             /\ t[i] \in Entry
             /\ s[from + i - 1].rest \in Word /\ s[from + i - 1].rest # <<>>
             /\ Head(s[from + i - 1].rest) = c
    <2> DEFINE j == from + i - 1
    <2>1. j \in from .. to /\ j \in 1 .. Len(s)
        BY <1>2, <1>4
    <2>2. t[i] = WithoutFirst(s[j])
        OBVIOUS
    <2> HIDE DEF j, t
    <2>3. s[j] \in Entry /\ s[j].rest \in Word /\ s[j].rest # <<>>
        BY <1>2, <1>3, <2>1, EntryRest, FirstChars
    <2>4. FirstChar(s[j]) = c
        BY <2>1 DEF Moves, s
    <2>5. Tail(s[j].rest) \in Word
        BY <2>3, WordHead
    <2>6. WithoutFirst(s[j]) = [s[j] EXCEPT !.rest = Tail(s[j].rest)]
        BY DEF WithoutFirst
    <2>7. t[i].rest = Tail(s[j].rest) /\ t[i].first = s[j].first /\ t[i] \in Entry
        BY <2>2, <2>3, <2>5, <2>6 DEF Entry, Word
    <2> QED BY <2>1, <2>2, <2>3, <2>4, <2>7 DEF j, FirstChar
<1>8. t \in Seq(Entry) /\ Len(t) = n
    <2>1. t \in [1 .. n -> Entry]
        <3>1. \A i \in 1 .. n : t[i] \in Entry
            BY <1>7
        <3>2. t = [i \in 1 .. n |-> t[i]]
            OBVIOUS
        <3> HIDE DEF t, n
        <3> QED BY <3>1, <3>2
    <2> HIDE DEF t, n
    <2> QED BY <1>4, <2>1, SeqDef, LenProperties
<1> HIDE DEF t, n
<1>9. /\ entries' \in [DirBlock -> Seq(Entry)]
      /\ entries'[b] = u /\ entries'[made] = t
      /\ \A d \in DirBlock : d # b /\ d # made => entries'[d] = entries[d]
    BY <1>1, <1>5, <1>6, <1>8
<1>10. EntriesOK(entries')
    <2>1. Len(u) <= Capacity /\ Len(t) <= Capacity
        BY <1>2, <1>4, <1>6, <1>8
    <2>2. \A d \in DirBlock : Len(entries[d]) <= Capacity
        BY DEF TypeOK
    <2>3. \A d \in DirBlock : Len(entries'[d]) <= Capacity
        BY <1>9, <2>1, <2>2
    <2> QED BY <1>9, <2>3 DEF EntriesOK
<1> QED BY <1>1, <1>3, <1>7, <1>8, <1>9, <1>10 DEF n, s, u

LEMMA ConvertTypes == ASSUME TypeOK, Structure, Convert PROVE TypeOK'
<1>1. PICK b \in MadeBlock : \E c \in Chars :
             \E from \in 1 .. Len(entries[b]) : \E to \in from .. Len(entries[b]) : Moves(b, c, from, to)
    BY ConvertMoves
<1>2. PICK c \in Chars :
             \E from \in 1 .. Len(entries[b]) : \E to \in from .. Len(entries[b]) : Moves(b, c, from, to)
    BY <1>1
<1>3. PICK from \in 1 .. Len(entries[b]) : \E to \in from .. Len(entries[b]) : Moves(b, c, from, to)
    BY <1>2
<1>4. PICK to \in from .. Len(entries[b]) : Moves(b, c, from, to)
    BY <1>3
<1>5. EntriesOK(entries') /\ made \in DirBlock /\ b \in DirBlock
    BY <1>4, MovedEntries
<1>6. /\ made' = made + 1 /\ made < DirBlocks /\ made \in Nat /\ DirBlocks \in Nat
      /\ UNCHANGED <<used, data, open, creating, ops>>
    BY TreeTypes DEF Convert
<1>7. next' \in [DirBlock -> [Chars -> DirBlock]]
    <2>1. next' = [next EXCEPT ![b][c] = made] /\ next \in [DirBlock -> [Chars -> DirBlock]]
        BY <1>4 DEF Moves, TypeOK
    <2> QED BY <1>5, <2>1
<1>8. OpenOK(open') /\ made' \in 1 .. DirBlocks
    BY <1>6, Opened
<1> QED BY <1>5, <1>6, <1>7, <1>8
    DEF TypeOK, EntriesOK, OpenOK, OpenFile, NoCall, Nothing, Entry, DirBlock, Deleted, DIR_ALLOCATING_MARK

\* The new block hangs on the one its names come from.
LEMMA ConvertTree ==
    ASSUME TypeOK, Structure, Convert, TypeOK', NEW b \in MadeBlock, NEW c \in Chars,
           next[b][c] = Root, next' = [next EXCEPT ![b][c] = made]
    PROVE  /\ Tree'
           /\ \A d \in MadeBlock : d \in MadeBlock' /\ Lead'[d] = Lead[d]
           /\ made \in MadeBlock' /\ Lead'[made] = Append(Lead[b], c)
           /\ \A d \in Chars : next'[made][d] = Root
           /\ \A p \in DirBlock, d \in Chars : ~(p = b /\ d = c) => next'[p][d] = next[p][d]
<1>1. /\ made \in Nat /\ made > 0 /\ made < DirBlocks /\ DirBlocks \in Nat /\ made' = made + 1
      /\ \A p \in DirBlock, d \in Chars : next[p][d] \in Nat
      /\ b \in DirBlock /\ b \in Nat /\ b < made
      /\ \A p \in DirBlock : p \in Nat
    <2>1. made < DirBlocks /\ made' = made + 1
        BY DEF Convert
    <2>2. /\ made \in Nat /\ made > 0 /\ DirBlocks \in Nat /\ MadeBlock \subseteq DirBlock
          /\ \A p \in DirBlock, d \in Chars : next[p][d] \in DirBlock
        BY TreeTypes
    <2>3. \A p \in DirBlock : p \in Nat
        BY DEF DirBlock
    <2> QED BY <2>1, <2>2, <2>3 DEF MadeBlock
<1>2. /\ next'[b][c] = made
      /\ \A p \in DirBlock, d \in Chars : ~(p = b /\ d = c) => next'[p][d] = next[p][d]
    <2>1. next \in [DirBlock -> [Chars -> DirBlock]]
        BY DEF TypeOK
    <2> QED BY <1>1, <2>1
<1>3. \A p \in DirBlock, d \in Chars : next[p][d] # Root => p < next[p][d] /\ next[p][d] < made
    BY DEF Structure, Tree
<1>4. \A p \in DirBlock, d \in Chars : next'[p][d] # Root => p < next'[p][d] /\ next'[p][d] < made'
    <2> SUFFICES ASSUME NEW p \in DirBlock, NEW d \in Chars, next'[p][d] # Root
                 PROVE  p < next'[p][d] /\ next'[p][d] < made'
        OBVIOUS
    <2>1. CASE p = b /\ d = c
        BY <1>1, <1>2, <2>1
    <2>2. CASE ~(p = b /\ d = c)
        BY <1>1, <1>2, <1>3, <2>2
    <2> QED BY <2>1, <2>2
<1>5. \A x \in 1 .. made' - 1 : \E p \in 0 .. x - 1 : \E d \in Chars : next'[p][d] = x
    <2> SUFFICES ASSUME NEW x \in 1 .. made' - 1 PROVE \E p \in 0 .. x - 1 : \E d \in Chars : next'[p][d] = x
        OBVIOUS
    <2>1. CASE x = made
        <3>1. b \in 0 .. x - 1
            BY <1>1, <2>1
        <3> QED BY <1>2, <2>1, <3>1
    <2>2. CASE x # made
        <3>1. x \in 1 .. made - 1
            BY <1>1, <2>2
        <3>2. PICK p \in 0 .. x - 1 : \E d \in Chars : next[p][d] = x
            BY <3>1 DEF Structure, Tree
        <3>3. PICK d \in Chars : next[p][d] = x
            BY <3>2
        <3>4. p \in DirBlock /\ x # Root
            BY <1>1, <3>1 DEF DirBlock, Root
        <3>5. ~(p = b /\ d = c)
            BY <3>3, <3>4
        <3>6. next'[p][d] = x
            BY <1>2, <3>3, <3>4, <3>5
        <3> QED BY <3>6
    <2> QED BY <2>1, <2>2
<1>6. \A p, q \in DirBlock, d, e \in Chars :
        next'[p][d] = next'[q][e] /\ next'[p][d] # Root => p = q /\ d = e
    <2>1. \A p, q \in DirBlock, d, e \in Chars :
            next[p][d] = next[q][e] /\ next[p][d] # Root => p = q /\ d = e
        BY DEF Structure, Tree
    <2> SUFFICES ASSUME NEW p \in DirBlock, NEW q \in DirBlock, NEW d \in Chars, NEW e \in Chars,
                        next'[p][d] = next'[q][e], next'[p][d] # Root
                 PROVE  p = q /\ d = e
        OBVIOUS
    <2>2. CASE p = b /\ d = c
        <3>1. next'[q][e] = made
            BY <1>2, <2>2
        <3>2. CASE ~(q = b /\ e = c)
            <4>1. next[q][e] = made /\ next[q][e] # Root
                BY <1>2, <3>1, <3>2
            <4>2. made < made
                BY <1>3, <4>1
            <4> QED BY <1>1, <4>2
        <3> QED BY <2>2, <3>2
    <2>3. CASE ~(p = b /\ d = c)
        <3>1. next'[p][d] = next[p][d] /\ next[p][d] # Root /\ next[p][d] < made
            BY <1>2, <1>3, <2>3
        <3>2. ~(q = b /\ e = c)
            BY <1>1, <1>2, <3>1
        <3>3. next[q][e] = next[p][d]
            BY <1>2, <3>1, <3>2
        <3> QED BY <2>1, <3>1, <3>3
    <2> QED BY <2>2, <2>3
<1>7. Tree'
    BY <1>4, <1>5, <1>6 DEF Tree, Root, DirBlock
<1>8. \A d \in MadeBlock : d \in MadeBlock' /\ Lead'[d] = Lead[d]
    <2>1. made <= made' /\ Tree
        BY <1>1 DEF Structure
    <2>2. \A p \in MadeBlock, d \in Chars : next[p][d] # Root => next'[p][d] = next[p][d]
        <3>1. MadeBlock \subseteq DirBlock
            BY TreeTypes
        <3> QED BY <1>2, <3>1
    <2> QED BY <1>7, <2>1, <2>2, LeadKept
<1>9. made \in MadeBlock'
    BY <1>1 DEF MadeBlock
<1>10. Lead'[made] = Append(Lead[b], c)
    <2>1. LeadsOn'
        BY <1>7, WaysLeadOnNext
    <2>2. \A p \in DirBlock, d \in Chars : next'[p][d] # Root => Lead'[next'[p][d]] = Append(Lead'[p], d)
        BY <2>1 DEF LeadsOn, DirBlock, Root
    <2>3. next'[b][c] # Root
        BY <1>1, <1>2 DEF Root
    <2>4. Lead'[b] = Lead[b]
        BY <1>8
    <2> QED BY <1>1, <1>2, <2>2, <2>3, <2>4
<1>11. ASSUME NEW d \in Chars PROVE next'[made][d] = Root
    <2>1. made \in DirBlock /\ made # b
        BY <1>1 DEF DirBlock
    <2>2. next'[made][d] = next[made][d]
        BY <1>2, <2>1
    <2>3. ~(made < next[made][d] /\ next[made][d] < made)
        BY <1>1, <2>1
    <2> QED BY <1>3, <2>1, <2>2, <2>3
<1> QED BY <1>2, <1>7, <1>8, <1>9, <1>10, <1>11

\* Every entry after a conversion is one from before it, with the name it had.
LEMMA ConvertNames ==
    ASSUME TypeOK, Structure, Convert, TypeOK', NEW d \in DirBlock, NEW i \in 1 .. Len(entries'[d])
    PROVE  \E a \in DirBlock : \E j \in 1 .. Len(entries[a]) :
              /\ NameAt(d, i)' = NameAt(a, j)
              /\ entries'[d][i].first = entries[a][j].first
              /\ Leaf(NameAt(d, i), d, entries[d][i].rest)'
<1>1. PICK b \in MadeBlock : \E c \in Chars :
             \E from \in 1 .. Len(entries[b]) : \E to \in from .. Len(entries[b]) : Moves(b, c, from, to)
    BY ConvertMoves
<1>2. PICK c \in Chars :
             \E from \in 1 .. Len(entries[b]) : \E to \in from .. Len(entries[b]) : Moves(b, c, from, to)
    BY <1>1
<1>3. PICK from \in 1 .. Len(entries[b]) : \E to \in from .. Len(entries[b]) : Moves(b, c, from, to)
    BY <1>2
<1>4. PICK to \in from .. Len(entries[b]) : Moves(b, c, from, to)
    BY <1>3
<1>5. /\ made \in DirBlock /\ b \in DirBlock /\ b # made
      /\ entries'[b] = Cut(entries[b], from, to)
      /\ Len(entries'[made]) = to - from + 1
      /\ \A k \in 1 .. to - from + 1 :
           /\ from + k - 1 \in 1 .. Len(entries[b])
           /\ entries'[made][k].rest = Tail(entries[b][from + k - 1].rest)
           /\ entries'[made][k].first = entries[b][from + k - 1].first
           /\ entries[b][from + k - 1].rest \in Word /\ entries[b][from + k - 1].rest # <<>>
           /\ Head(entries[b][from + k - 1].rest) = c
      /\ \A x \in DirBlock : x # b /\ x # made => entries'[x] = entries[x]
      /\ Len(entries[b]) > 1
    BY <1>4, MovedEntries
<1>6. /\ \A x \in MadeBlock : x \in MadeBlock' /\ Lead'[x] = Lead[x]
      /\ made \in MadeBlock' /\ Lead'[made] = Append(Lead[b], c)
      /\ \A x \in Chars : next'[made][x] = Root
      /\ \A p \in DirBlock, x \in Chars : ~(p = b /\ x = c) => next'[p][x] = next[p][x]
    BY <1>4, ConvertTree DEF Moves
<1>7. \A a \in DirBlock : \A j \in 1 .. Len(entries[a]) :
        /\ a \in MadeBlock /\ entries[a][j].rest \in Word
        /\ Lead[a] \o entries[a][j].rest = NameAt(a, j)
        /\ entries[a][j].rest # <<>> => next[a][Head(entries[a][j].rest)] = Root
    BY DEF Structure, Filed, Leaf
\* An entry that stays where it is led to.
<1>8. ASSUME NEW j \in 1 .. Len(entries[d]), entries'[d][i] = entries[d][j],
             d = b => FirstChar(entries[d][j]) # c
      PROVE  /\ NameAt(d, i)' = NameAt(d, j)
             /\ entries'[d][i].first = entries[d][j].first
             /\ Leaf(NameAt(d, i), d, entries[d][i].rest)'
    <2> DEFINE r == entries[d][j].rest
    <2>1. /\ d \in MadeBlock /\ r \in Word /\ Lead[d] \o r = NameAt(d, j)
          /\ r # <<>> => next[d][Head(r)] = Root
        BY <1>7
    <2>2. Lead'[d] = Lead[d] /\ d \in MadeBlock' /\ entries'[d][i].rest = r
        BY <1>6, <1>8, <2>1
    <2>3. d = b => Head(r) # c
        BY <1>8 DEF FirstChar
    <2> HIDE DEF r
    <2>4. r # <<>> => next'[d][Head(r)] = Root
        <3> SUFFICES ASSUME r # <<>> PROVE next'[d][Head(r)] = Root
            OBVIOUS
        <3>1. Head(r) \in Chars
            BY <2>1, WordHead
        <3> QED BY <1>6, <2>1, <2>3, <3>1
    <2>5. NameAt(d, i)' = NameAt(d, j)
        BY <2>1, <2>2 DEF NameAt
    <2>6. entries'[d][i].first = entries[d][j].first
        BY <1>8
    <2>7. Lead'[d] \o r = NameAt(d, j)
        BY <2>1, <2>2
    <2>8. Leaf(NameAt(d, i), d, entries[d][i].rest)'
        <3>1. Lead'[d] \o r = NameAt(d, i)'
            BY <2>5, <2>7
        <3> QED BY <2>1, <2>2, <2>4, <3>1 DEF Leaf, Word, Root
    <2> QED BY <2>5, <2>6, <2>8
<1>9. from \in Nat /\ to \in Nat /\ from > 0 /\ from <= to /\ to <= Len(entries[b]) /\ Len(entries[b]) \in Nat
    BY <1>5, BlockEntries
<1>10. CASE d = b
    <2> DEFINE s == entries[b]
               n == to - from + 1
               u == Cut(s, from, to)
    <2>1. /\ Len(u) = Len(s) - n
          /\ \A k \in 1 .. from - 1 : u[k] = s[k]
          /\ \A k \in from .. Len(s) - n : u[k] = s[k + n]
        <3>1. s \in Seq(Entry)
            BY <1>5, BlockEntries
        <3>2. from \in 1 .. Len(s) /\ to \in from .. Len(s)
            OBVIOUS
        <3> HIDE DEF s
        <3> QED BY <3>1, <3>2, CutSeq
    <2>2. entries'[d] = u /\ n \in Nat /\ n > 0 /\ n = to - from + 1 /\ Len(s) \in Nat /\ to <= Len(s)
        BY <1>5, <1>9, <1>10
    <2> HIDE DEF u, n
    <2>3. \E j \in 1 .. Len(s) : u[i] = s[j] /\ (j < from \/ j > to)
        <3> HIDE DEF s
        <3>1. i \in 1 .. Len(s) - n
            BY <2>1, <2>2
        <3>2. CASE i < from
            <4>1. i \in 1 .. from - 1 /\ i \in 1 .. Len(s)
                BY <1>9, <2>2, <3>1, <3>2
            <4> QED BY <2>1, <3>2, <4>1
        <3>3. CASE ~(i < from)
            <4>1. i \in from .. Len(s) - n /\ i + n \in 1 .. Len(s) /\ i + n > to
                BY <1>9, <2>2, <3>1, <3>3
            <4> QED BY <2>1, <4>1
        <3> QED BY <3>2, <3>3
    <2>4. PICK j \in 1 .. Len(s) : u[i] = s[j] /\ (j < from \/ j > to)
        BY <2>3
    <2>5. FirstChar(entries[d][j]) # c
        BY <1>4, <1>10, <2>4 DEF Moves
    <2>6. j \in 1 .. Len(entries[d]) /\ entries'[d][i] = entries[d][j]
        BY <1>10, <2>2, <2>4
    <2> QED BY <1>8, <2>5, <2>6
<1>11. CASE d = made
    <2> DEFINE j == from + i - 1
               r == entries[b][j].rest
    <2>1. i \in 1 .. to - from + 1
        BY <1>5, <1>11
    <2>2. /\ j \in 1 .. Len(entries[b])
          /\ entries'[d][i].rest = Tail(r)
          /\ entries'[d][i].first = entries[b][j].first
          /\ r \in Word /\ r # <<>> /\ Head(r) = c
        BY <1>5, <1>11, <2>1
    <2> HIDE DEF j
    <2>3. Lead[b] \o r = NameAt(b, j) /\ Lead[b] \in Word
        BY <2>2, LeadEquation DEF Structure, NameAt
    <2> HIDE DEF r
    <2>4. Lead'[d] = Append(Lead[b], Head(r)) /\ d \in MadeBlock'
        BY <1>6, <1>11, <2>2
    <2>5. Lead'[d] \o Tail(r) = NameAt(b, j)
        BY <2>2, <2>3, <2>4, MoveOn
    <2>6. NameAt(d, i)' = NameAt(b, j)
        BY <2>2, <2>5 DEF NameAt
    <2>7. Tail(r) \in Word
        BY <2>2, WordHead
    <2>8. Tail(r) # <<>> => next'[d][Head(Tail(r))] = Root
        <3> SUFFICES ASSUME Tail(r) # <<>> PROVE next'[d][Head(Tail(r))] = Root
            OBVIOUS
        <3>1. Head(Tail(r)) \in Chars
            BY <2>7, WordHead
        <3> QED BY <1>6, <1>11, <3>1
    <2>9. Leaf(NameAt(d, i), d, entries[d][i].rest)'
        <3>1. Lead'[d] \o Tail(r) = NameAt(d, i)'
            BY <2>5, <2>6
        <3> QED BY <2>2, <2>4, <2>7, <2>8, <3>1 DEF Leaf, Word, Root
    <2> QED BY <1>5, <2>2, <2>6, <2>9
<1>12. CASE d # b /\ d # made
    <2>1. entries'[d] = entries[d]
        BY <1>5, <1>12
    <2>2. i \in 1 .. Len(entries[d])
        BY <2>1
    <2> QED BY <1>8, <1>12, <2>1, <2>2
<1> QED BY <1>10, <1>11, <1>12

LEMMA ConvertKeeps == ASSUME TypeOK, Structure, Convert PROVE TypeOK' /\ Structure'
<1>1. TypeOK'
    BY ConvertTypes
<1>2. PICK b \in MadeBlock : \E c \in Chars :
             \E from \in 1 .. Len(entries[b]) : \E to \in from .. Len(entries[b]) : Moves(b, c, from, to)
    BY ConvertMoves
<1>3. PICK c \in Chars :
             \E from \in 1 .. Len(entries[b]) : \E to \in from .. Len(entries[b]) : Moves(b, c, from, to)
    BY <1>2
<1>4. PICK from \in 1 .. Len(entries[b]) : \E to \in from .. Len(entries[b]) : Moves(b, c, from, to)
    BY <1>3
<1>5. PICK to \in from .. Len(entries[b]) : Moves(b, c, from, to)
    BY <1>4
<1>6. Tree'
    BY <1>1, <1>5, ConvertTree DEF Moves
<1>7. ASSUME NEW d \in DirBlock, NEW i \in 1 .. Len(entries'[d])
      PROVE  /\ NameAt(d, i)' \in Names /\ Leaf(NameAt(d, i), d, entries[d][i].rest)'
             /\ creating # NoCall => NameAt(d, i)' # creating.name
    <2>1. /\ \E a \in DirBlock : \E j \in 1 .. Len(entries[a]) : NameAt(d, i)' = NameAt(a, j)
          /\ Leaf(NameAt(d, i), d, entries[d][i].rest)'
        BY <1>1, ConvertNames
    <2> QED BY <2>1 DEF Structure, Filed, NewIsNew
<1>8. Filed'
    BY <1>7 DEF Filed, DirBlock
<1>9. NewIsNew'
    <2>1. creating' = creating
        BY DEF Convert
    <2> QED BY <1>7, <2>1 DEF NewIsNew, DirBlock, NoCall
<1>10. InOrder'
    <2>1. /\ made \in DirBlock /\ b \in DirBlock /\ b # made
          /\ entries'[b] = Cut(entries[b], from, to)
          /\ Len(entries'[made]) = to - from + 1
          /\ \A k \in 1 .. to - from + 1 :
               /\ from + k - 1 \in 1 .. Len(entries[b])
               /\ entries'[made][k].rest = Tail(entries[b][from + k - 1].rest)
               /\ Head(entries[b][from + k - 1].rest) = c
          /\ \A x \in DirBlock : x # b /\ x # made => entries'[x] = entries[x]
          /\ Len(entries[b]) > 1
        BY <1>5, MovedEntries
    <2>2. \A x \in DirBlock : Sorted(entries[x]) /\ entries[x] \in Seq(Entry)
        BY BlockEntries DEF Structure, InOrder
    <2>3. Sorted(entries'[b])
        BY <2>1, <2>2, CutThins, ThinsSorted
    <2>4. Sorted(entries'[made])
        <3> SUFFICES ASSUME NEW i \in 1 .. Len(entries'[made]), NEW j \in 1 .. Len(entries'[made]), i < j
                     PROVE  Below(entries'[made][i].rest, entries'[made][j].rest)
            BY DEF Sorted
        <3> DEFINE s == entries[b]
                   k == from + i - 1
                   m == from + j - 1
        <3>1. i \in 1 .. to - from + 1 /\ j \in 1 .. to - from + 1
            BY <2>1
        <3>2. /\ k \in 1 .. Len(s) /\ m \in 1 .. Len(s)
              /\ entries'[made][i].rest = Tail(s[k].rest) /\ entries'[made][j].rest = Tail(s[m].rest)
              /\ Head(s[k].rest) = c /\ Head(s[m].rest) = c
            BY <2>1, <3>1
        <3>3. k < m
            <4>1. i \in Int /\ j \in Int /\ from \in Int
                BY <2>1, <3>1, BlockEntries
            <4> QED BY <4>1
        <3>4. s \in Seq(Entry) /\ Sorted(s) /\ Len(s) > 1
            BY <2>1, <2>2
        <3> HIDE DEF s, k, m
        <3>5. Below(Tail(s[k].rest), Tail(s[m].rest))
            BY <3>2, <3>3, <3>4, FirstChars DEF FirstChar
        <3> QED BY <3>2, <3>5
    <2>5. \A x \in DirBlock : Sorted(entries'[x])
        BY <2>1, <2>2, <2>3, <2>4
    <2> QED BY <2>5 DEF InOrder, Sorted, Below, DirBlock
<1> QED BY <1>1, <1>6, <1>8, <1>9, <1>10 DEF Structure

-----------------------------------------------------------------------------
(* The structure of the directory *)

LEMMA StructureBegins == Init => TypeOK /\ Structure
<1> SUFFICES ASSUME Init PROVE TypeOK /\ Structure
    OBVIOUS
<1>1. {DirBlocks, MaxOpen, MaxOps} \subseteq Nat /\ DirBlocks > 0 /\ Capacity \in Nat /\ Capacity > 1
    BY BoundAssumption, CapacityAssumption
<1>2. <<>> \in Seq(Entry) /\ <<>> \in Seq(OpenFile) /\ Len(<<>>) = 0
    BY EmptySeq
<1>3. Root \in DirBlock
    BY <1>1 DEF Root, DirBlock
<1>4. /\ entries \in [DirBlock -> Seq(Entry)] /\ \A b \in DirBlock : entries[b] = <<>>
      /\ next \in [DirBlock -> [Chars -> DirBlock]] /\ \A b \in DirBlock, c \in Chars : next[b][c] = Root
      /\ made \in 1 .. DirBlocks /\ made = 1
      /\ used \subseteq DataBlock /\ data \in [DataBlock -> Contents \cup {Nothing}]
      /\ open \in Seq(OpenFile) /\ Len(open) <= MaxOpen
      /\ creating = NoCall /\ ops \in 0 .. MaxOps
    BY <1>1, <1>2, <1>3 DEF Init
<1>5. \A b \in DirBlock : Len(entries[b]) = 0 /\ Len(entries[b]) <= Capacity
    BY <1>1, <1>2, <1>4
<1>6. TypeOK
    BY <1>4, <1>5 DEF TypeOK, OpenFile
<1>7. Tree
    BY <1>4 DEF Tree
<1>8. Filed /\ InOrder /\ NewIsNew
    BY <1>4, <1>5 DEF Filed, InOrder, Sorted, NewIsNew
<1> QED BY <1>6, <1>7, <1>8 DEF Structure

LEMMA StructureStays == TypeOK /\ Structure /\ [Next]_vars => TypeOK' /\ Structure'
<1> SUFFICES ASSUME TypeOK, Structure, [Next]_vars PROVE TypeOK' /\ Structure'
    OBVIOUS
<1>1. ASSUME NEW n \in Names, NEW v \in Contents \cup {Nothing}, Overwrite(n, v) PROVE TypeOK' /\ Structure'
    BY <1>1, OverwriteKeeps
<1>2. ASSUME NEW n \in Names, NEW v \in Contents \cup {Nothing}, StartCreate(n, v) PROVE TypeOK' /\ Structure'
    BY <1>2, StartCreateKeeps
<1>3. ASSUME NEW n \in Names, RemoveClosed(n) PROVE TypeOK' /\ Structure'
    BY <1>3, RemoveClosedKeeps
<1>4. ASSUME NEW n \in Names, RemoveOpen(n) PROVE TypeOK' /\ Structure'
    BY <1>4, RemoveOpenKeeps
<1>5. ASSUME NEW n \in Names, Read(n) PROVE TypeOK' /\ Structure'
    BY <1>5, ReadKeeps
<1>6. CASE Convert
    BY <1>6, ConvertKeeps
<1>7. CASE Create
    BY <1>7, CreateKeeps
<1>8. CASE EndRead
    BY <1>8, EndReadKeeps
<1>9. CASE UNCHANGED vars
    <2>1. EntriesOK(entries') /\ \A b \in DirBlock : Thins(entries'[b], entries[b])
        BY <1>9, SameEntries DEF vars
    <2>2. TypeOK'
        BY <1>9, <2>1, Opened, TypesAgain DEF vars, TypeOK
    <2>3. Thinner /\ creating' = creating
        BY <1>9, <2>1 DEF Thinner, vars
    <2> QED BY <2>2, <2>3, ThinnerStructure
<1> QED BY <1>1, <1>2, <1>3, <1>4, <1>5, <1>6, <1>7, <1>8, <1>9 DEF Next

\* The state has its types, whatever calls are made, in callbacks or not: a block never
\* holds more entries than it has room for (ConvertDirectory before _os_GetNewDirectory).
THEOREM TypesHold == Spec => []TypeOK
<1>1. Spec => [](TypeOK /\ Structure)
    BY StructureBegins, StructureStays, PTL DEF Spec
<1> QED BY <1>1, PTL

\* Blocks form a tree that leads each name to one block, and the entries of a block are in
\* the order of their names.
THEOREM StructureHolds == Spec => []Structure
<1>1. Spec => [](TypeOK /\ Structure)
    BY StructureBegins, StructureStays, PTL DEF Spec
<1> QED BY <1>1, PTL


-----------------------------------------------------------------------------
(* The files of the directory *)

\* Names and first blocks, wherever their entries are.
Files ==
    {x \in [name : Names, first : DataBlock \cup {Deleted, DIR_ALLOCATING_MARK}] :
        \E b \in DirBlock : \E i \in 1 .. Len(entries[b]) :
            x.name = NameAt(b, i) /\ x.first = entries[b][i].first}

FilesSay ==
    /\ \A b \in DirBlock : \A i \in 1 .. Len(entries[b]) :
        [name |-> NameAt(b, i), first |-> entries[b][i].first] \in Files
    /\ \A x \in Files :
        /\ x.name \in Names /\ x.first \in DataBlock \cup {Deleted, DIR_ALLOCATING_MARK}
        /\ x = [name |-> x.name, first |-> x.first]
        /\ \E b \in DirBlock : \E i \in 1 .. Len(entries[b]) : x.name = NameAt(b, i) /\ x.first = entries[b][i].first
    /\ \A x, y \in Files : x.name = y.name => x = y

LEMMA FilesAre == TypeOK /\ Structure => FilesSay
<1> SUFFICES ASSUME TypeOK, Structure PROVE FilesSay
    OBVIOUS
<1>1. ASSUME NEW b \in DirBlock, NEW i \in 1 .. Len(entries[b])
      PROVE  [name |-> NameAt(b, i), first |-> entries[b][i].first] \in Files
    <2>1. NameAt(b, i) \in Names
        BY DEF Structure, Filed
    <2>2. entries[b][i].first \in DataBlock \cup {Deleted, DIR_ALLOCATING_MARK}
        BY BlockEntries DEF Entry
    <2> QED BY <2>1, <2>2 DEF Files
<1>2. ASSUME NEW x \in Files
      PROVE  /\ x.name \in Names /\ x.first \in DataBlock \cup {Deleted, DIR_ALLOCATING_MARK}
             /\ x = [name |-> x.name, first |-> x.first]
             /\ \E b \in DirBlock : \E i \in 1 .. Len(entries[b]) : x.name = NameAt(b, i) /\ x.first = entries[b][i].first
    BY DEF Files
<1>3. ASSUME NEW x \in Files, NEW y \in Files, x.name = y.name PROVE x = y
    <2>1. PICK b \in DirBlock : \E i \in 1 .. Len(entries[b]) : x.name = NameAt(b, i) /\ x.first = entries[b][i].first
        BY <1>2
    <2>2. PICK i \in 1 .. Len(entries[b]) : x.name = NameAt(b, i) /\ x.first = entries[b][i].first
        BY <2>1
    <2>3. PICK c \in DirBlock : \E j \in 1 .. Len(entries[c]) : y.name = NameAt(c, j) /\ y.first = entries[c][j].first
        BY <1>2
    <2>4. PICK j \in 1 .. Len(entries[c]) : y.name = NameAt(c, j) /\ y.first = entries[c][j].first
        BY <2>3
    <2>5. b = c /\ i = j
        <3>1. NameAt(b, i) = NameAt(c, j)
            BY <1>3, <2>2, <2>4
        <3>2. Tree /\ Filed /\ InOrder
            BY DEF Structure
        <3> QED BY <3>1, <3>2, NamesAreDistinct
    <2>6. x.first = y.first
        BY <2>2, <2>4, <2>5
    <2> QED BY <1>2, <1>3, <2>6
<1> QED BY <1>1, <1>2, <1>3 DEF FilesSay

LEMMA FilesAreNext == TypeOK' /\ Structure' => FilesSay'
BY FilesAre, PTL

Others(n) == {x \in Files : x.name # n}

\* If entries are what they were, under their names, but for the one of n.
LEMMA FilesBecome ==
    ASSUME TypeOK, Structure, TypeOK', Structure', NEW n, NEW New, \A x \in New : x = [name |-> x.name, first |-> x.first],
           \A b \in DirBlock : \A i \in 1 .. Len(entries'[b]) :
              \/ [name |-> NameAt(b, i)', first |-> entries'[b][i].first] \in New
              \/ \E c \in DirBlock : \E j \in 1 .. Len(entries[c]) :
                    NameAt(c, j) # n /\ NameAt(b, i)' = NameAt(c, j) /\ entries'[b][i].first = entries[c][j].first,
           \A c \in DirBlock : \A j \in 1 .. Len(entries[c]) : NameAt(c, j) # n =>
              \E b \in DirBlock : \E i \in 1 .. Len(entries'[b]) :
                    NameAt(b, i)' = NameAt(c, j) /\ entries'[b][i].first = entries[c][j].first,
           \A x \in New : \E b \in DirBlock : \E i \in 1 .. Len(entries'[b]) :
                    NameAt(b, i)' = x.name /\ entries'[b][i].first = x.first
    PROVE  Files' = Others(n) \cup New
<1>1. FilesSay
    BY FilesAre
<1>2. /\ \A b \in DirBlock : \A i \in 1 .. Len(entries'[b]) :
            [name |-> NameAt(b, i)', first |-> entries'[b][i].first] \in Files'
      /\ \A x \in Files' :
            /\ x = [name |-> x.name, first |-> x.first]
            /\ \E b \in DirBlock : \E i \in 1 .. Len(entries'[b]) : x.name = NameAt(b, i)' /\ x.first = entries'[b][i].first
    <2>1. FilesSay'
        BY FilesAreNext
    <2> QED BY <2>1 DEF FilesSay, DirBlock
<1>3. ASSUME NEW x \in Files' PROVE x \in Others(n) \cup New
    <2>1. PICK b \in DirBlock : \E i \in 1 .. Len(entries'[b]) : x.name = NameAt(b, i)' /\ x.first = entries'[b][i].first
        BY <1>2
    <2>2. PICK i \in 1 .. Len(entries'[b]) : x.name = NameAt(b, i)' /\ x.first = entries'[b][i].first
        BY <2>1
    <2>3. x = [name |-> NameAt(b, i)', first |-> entries'[b][i].first]
        BY <1>2, <2>2
    <2>4. CASE [name |-> NameAt(b, i)', first |-> entries'[b][i].first] \in New
        BY <2>3, <2>4
    <2>5. CASE \E c \in DirBlock : \E j \in 1 .. Len(entries[c]) :
                    NameAt(c, j) # n /\ NameAt(b, i)' = NameAt(c, j) /\ entries'[b][i].first = entries[c][j].first
        <3>1. PICK c \in DirBlock : \E j \in 1 .. Len(entries[c]) :
                    NameAt(c, j) # n /\ NameAt(b, i)' = NameAt(c, j) /\ entries'[b][i].first = entries[c][j].first
            BY <2>5
        <3>2. PICK j \in 1 .. Len(entries[c]) :
                    NameAt(c, j) # n /\ NameAt(b, i)' = NameAt(c, j) /\ entries'[b][i].first = entries[c][j].first
            BY <3>1
        <3>3. x = [name |-> NameAt(c, j), first |-> entries[c][j].first]
            BY <2>3, <3>2
        <3>4. x \in Files
            BY <1>1, <3>3 DEF FilesSay
        <3>5. x.name # n
            BY <3>2, <3>3
        <3> QED BY <3>4, <3>5 DEF Others
    <2> QED BY <2>4, <2>5
<1>4. ASSUME NEW x \in Others(n) PROVE x \in Files'
    <2>1. x \in Files /\ x.name # n
        BY DEF Others
    <2>2. /\ x = [name |-> x.name, first |-> x.first]
          /\ \E c \in DirBlock : \E j \in 1 .. Len(entries[c]) : x.name = NameAt(c, j) /\ x.first = entries[c][j].first
        BY <1>1, <2>1 DEF FilesSay
    <2>3. PICK c \in DirBlock : \E j \in 1 .. Len(entries[c]) : x.name = NameAt(c, j) /\ x.first = entries[c][j].first
        BY <2>2
    <2>4. PICK j \in 1 .. Len(entries[c]) : x.name = NameAt(c, j) /\ x.first = entries[c][j].first
        BY <2>3
    <2>5. PICK b \in DirBlock : \E i \in 1 .. Len(entries'[b]) :
                    NameAt(b, i)' = NameAt(c, j) /\ entries'[b][i].first = entries[c][j].first
        BY <2>1, <2>4
    <2>6. PICK i \in 1 .. Len(entries'[b]) :
                    NameAt(b, i)' = NameAt(c, j) /\ entries'[b][i].first = entries[c][j].first
        BY <2>5
    <2>7. x = [name |-> NameAt(b, i)', first |-> entries'[b][i].first]
        BY <2>2, <2>4, <2>6
    <2> QED BY <1>2, <2>7
<1>5. ASSUME NEW x \in New PROVE x \in Files'
    <2>1. PICK b \in DirBlock : \E i \in 1 .. Len(entries'[b]) :
                    NameAt(b, i)' = x.name /\ entries'[b][i].first = x.first
        OBVIOUS
    <2>2. PICK i \in 1 .. Len(entries'[b]) :
                    NameAt(b, i)' = x.name /\ entries'[b][i].first = x.first
        BY <2>1
    <2>3. x = [name |-> NameAt(b, i)', first |-> entries'[b][i].first]
        BY <2>2
    <2> QED BY <1>2, <2>3
<1> QED BY <1>3, <1>4, <1>5

LEMMA FilesRemain ==
    ASSUME TypeOK, Structure, TypeOK', Structure', NEW n,
           \A b \in DirBlock : \A i \in 1 .. Len(entries'[b]) :
              \E c \in DirBlock : \E j \in 1 .. Len(entries[c]) :
                    NameAt(c, j) # n /\ NameAt(b, i)' = NameAt(c, j) /\ entries'[b][i].first = entries[c][j].first,
           \A c \in DirBlock : \A j \in 1 .. Len(entries[c]) : NameAt(c, j) # n =>
              \E b \in DirBlock : \E i \in 1 .. Len(entries'[b]) :
                    NameAt(b, i)' = NameAt(c, j) /\ entries'[b][i].first = entries[c][j].first
    PROVE  Files' = Others(n)
<1> DEFINE New == {}
<1>1. /\ \A x \in New : x = [name |-> x.name, first |-> x.first]
      /\ \A x \in New : \E b \in DirBlock : \E i \in 1 .. Len(entries'[b]) :
                    NameAt(b, i)' = x.name /\ entries'[b][i].first = x.first
    OBVIOUS
<1> HIDE DEF New
<1>2. ASSUME NEW b \in DirBlock, NEW i \in 1 .. Len(entries'[b])
      PROVE  \/ [name |-> NameAt(b, i)', first |-> entries'[b][i].first] \in New
             \/ \E c \in DirBlock : \E j \in 1 .. Len(entries[c]) :
                    NameAt(c, j) # n /\ NameAt(b, i)' = NameAt(c, j) /\ entries'[b][i].first = entries[c][j].first
    OBVIOUS
<1>3. Files' = Others(n) \cup New
    BY <1>1, <1>2, FilesBecome
<1> QED BY <1>3 DEF New

\* Where blocks stay as they are, so do the names of entries.
LEMMA NamesStay ==
    ASSUME TypeOK, Structure, TypeOK', next' = next, made' = made
    PROVE  \A b \in MadeBlock : \A i : NameAt(b, i)' = Lead[b] \o entries'[b][i].rest
<1>1. \A b \in MadeBlock : Lead'[b] = Lead[b]
    BY LeadStays DEF Structure
<1> QED BY <1>1 DEF NameAt

LEMMA EntriesAreMade == ASSUME TypeOK, Structure, NEW b \in DirBlock, NEW i \in 1 .. Len(entries[b])
                        PROVE  b \in MadeBlock /\ NameAt(b, i) \in Names
BY DEF Structure, Filed, Leaf

\* A first block is changed.
LEMMA FilesChanged ==
    ASSUME TypeOK, Structure, TypeOK', Structure', next' = next, made' = made,
           NEW b \in DirBlock, NEW i \in 1 .. Len(entries[b]),
           NEW first \in DataBlock \cup {Deleted, DIR_ALLOCATING_MARK},
           entries' = [entries EXCEPT ![b][i].first = first]
    PROVE  Files' = Others(NameAt(b, i)) \cup {[name |-> NameAt(b, i), first |-> first]}
<1> DEFINE n == NameAt(b, i)
           New == {[name |-> n, first |-> first]}
<1>1. /\ \A c \in DirBlock : Len(entries'[c]) = Len(entries[c])
      /\ \A c \in DirBlock : \A j \in 1 .. Len(entries[c]) :
                /\ entries'[c][j].rest = entries[c][j].rest
                /\ entries'[c][j].first = IF c = b /\ j = i THEN first ELSE entries[c][j].first
    BY EntryChanges
<1>2. ASSUME NEW c \in DirBlock, NEW j \in 1 .. Len(entries[c])
      PROVE  /\ NameAt(c, j)' = NameAt(c, j)
             /\ j \in 1 .. Len(entries'[c])
             /\ NameAt(c, j) = n => c = b /\ j = i
    <2>1. c \in MadeBlock
        BY EntriesAreMade
    <2>2. NameAt(c, j)' = NameAt(c, j)
        <3>1. NameAt(c, j)' = Lead[c] \o entries'[c][j].rest
            BY <2>1, NamesStay
        <3>2. entries'[c][j].rest = entries[c][j].rest
            BY <1>1
        <3> QED BY <3>1, <3>2 DEF NameAt
    <2>3. Tree /\ Filed /\ InOrder
        BY DEF Structure
    <2>4. NameAt(c, j) = n => c = b /\ j = i
        BY <2>3, NamesAreDistinct
    <2> QED BY <1>1, <2>2, <2>4
<1> HIDE DEF n
<1>3. ASSUME NEW c \in DirBlock, NEW j \in 1 .. Len(entries'[c])
      PROVE  \/ [name |-> NameAt(c, j)', first |-> entries'[c][j].first] \in New
             \/ \E d \in DirBlock : \E k \in 1 .. Len(entries[d]) :
                    NameAt(d, k) # n /\ NameAt(c, j)' = NameAt(d, k) /\ entries'[c][j].first = entries[d][k].first
    <2>1. j \in 1 .. Len(entries[c])
        BY <1>1
    <2>2. CASE c = b /\ j = i
        <3>1. NameAt(c, j)' = n /\ entries'[c][j].first = first
            BY <1>1, <1>2, <2>1, <2>2 DEF n
        <3> QED BY <3>1
    <2>3. CASE ~(c = b /\ j = i)
        <3>1. NameAt(c, j) # n /\ NameAt(c, j)' = NameAt(c, j) /\ entries'[c][j].first = entries[c][j].first
            BY <1>1, <1>2, <2>1, <2>3
        <3> QED BY <2>1, <3>1
    <2> QED BY <2>2, <2>3
<1>4. ASSUME NEW c \in DirBlock, NEW j \in 1 .. Len(entries[c]), NameAt(c, j) # n
      PROVE  \E d \in DirBlock : \E k \in 1 .. Len(entries'[d]) :
                    NameAt(d, k)' = NameAt(c, j) /\ entries'[d][k].first = entries[c][j].first
    <2>1. ~(c = b /\ j = i)
        BY <1>4 DEF n
    <2>2. entries'[c][j].first = entries[c][j].first /\ NameAt(c, j)' = NameAt(c, j) /\ j \in 1 .. Len(entries'[c])
        BY <1>1, <1>2, <2>1
    <2> QED BY <2>2
<1>5. ASSUME NEW x \in New
      PROVE  /\ x = [name |-> x.name, first |-> x.first]
             /\ \E d \in DirBlock : \E k \in 1 .. Len(entries'[d]) :
                    NameAt(d, k)' = x.name /\ entries'[d][k].first = x.first
    <2>1. NameAt(b, i)' = n /\ entries'[b][i].first = first /\ i \in 1 .. Len(entries'[b])
        BY <1>1, <1>2 DEF n
    <2> QED BY <2>1
<1> HIDE DEF New
<1>6. /\ \A x \in New : x = [name |-> x.name, first |-> x.first]
      /\ \A x \in New : \E d \in DirBlock : \E k \in 1 .. Len(entries'[d]) :
            NameAt(d, k)' = x.name /\ entries'[d][k].first = x.first
    BY <1>5
<1>7. /\ \A c \in DirBlock : \A j \in 1 .. Len(entries'[c]) :
            \/ [name |-> NameAt(c, j)', first |-> entries'[c][j].first] \in New
            \/ \E d \in DirBlock : \E k \in 1 .. Len(entries[d]) :
                    NameAt(d, k) # n /\ NameAt(c, j)' = NameAt(d, k) /\ entries'[c][j].first = entries[d][k].first
      /\ \A c \in DirBlock : \A j \in 1 .. Len(entries[c]) : NameAt(c, j) # n =>
            \E d \in DirBlock : \E k \in 1 .. Len(entries'[d]) :
                    NameAt(d, k)' = NameAt(c, j) /\ entries'[d][k].first = entries[c][j].first
    BY <1>3, <1>4
<1>8. Files' = Others(n) \cup New
    BY <1>6, <1>7, FilesBecome
<1> QED BY <1>8 DEF n, New

\* An entry is dropped.
LEMMA FilesDropped ==
    ASSUME TypeOK, Structure, TypeOK', Structure', next' = next, made' = made,
           NEW b \in DirBlock, NEW i \in 1 .. Len(entries[b]),
           entries' = [entries EXCEPT ![b] = DropEntry(@, i)]
    PROVE  Files' = Others(NameAt(b, i))
<1> DEFINE n == NameAt(b, i)
           s == entries[b]
           t == Cut(s, i, i)
<1>1. s \in Seq(Entry) /\ Len(s) \in Nat /\ i \in Nat /\ i > 0 /\ i <= Len(s) /\ i \in i .. Len(s)
    BY BlockEntries
<1>2. DropEntry(s, i) = t
    BY <1>1 DEF DropEntry, RemoveAt, Cut
<1>3. entries'[b] = t /\ \A c \in DirBlock : c # b => entries'[c] = entries[c]
    <2>1. entries \in [DirBlock -> Seq(Entry)]
        BY DEF TypeOK
    <2> QED BY <1>2, <2>1
<1>4. /\ Len(t) = Len(s) - 1
      /\ \A j \in 1 .. i - 1 : t[j] = s[j]
      /\ \A j \in i .. Len(s) - 1 : t[j] = s[j + 1]
    <2>1. /\ Len(t) = Len(s) - (i - i + 1)
          /\ \A j \in 1 .. i - 1 : t[j] = s[j]
          /\ \A j \in i .. Len(s) - (i - i + 1) : t[j] = s[j + (i - i + 1)]
        <3>1. i \in 1 .. Len(s)
            OBVIOUS
        <3> HIDE DEF s
        <3> QED BY <1>1, <3>1, CutSeq
    <2>2. i - i + 1 = 1
        BY <1>1
    <2> QED BY <2>1, <2>2
<1> HIDE DEF t
<1>5. \A c \in DirBlock : \A j \in 1 .. Len(entries[c]) : NameAt(c, j) = n => c = b /\ j = i
    <2>1. Tree /\ Filed /\ InOrder
        BY DEF Structure
    <2> QED BY <2>1, NamesAreDistinct
<1>6. \A c \in MadeBlock : \A j : NameAt(c, j)' = Lead[c] \o entries'[c][j].rest
    BY NamesStay
<1>7. \A c \in DirBlock : \A j \in 1 .. Len(entries[c]) : c \in MadeBlock
    BY EntriesAreMade
<1> HIDE DEF n
<1>8. ASSUME NEW c \in DirBlock, NEW j \in 1 .. Len(entries'[c])
      PROVE  \E d \in DirBlock : \E k \in 1 .. Len(entries[d]) :
                NameAt(d, k) # n /\ NameAt(c, j)' = NameAt(d, k) /\ entries'[c][j].first = entries[d][k].first
    <2>1. \E k \in 1 .. Len(entries[c]) : entries'[c][j] = entries[c][k] /\ ~(c = b /\ k = i)
        <3>1. CASE c # b
            BY <1>3, <3>1
        <3>2. CASE c = b
            <4>1. j \in 1 .. Len(s) - 1 /\ entries'[c] = t
                BY <1>3, <1>4, <3>2
            <4>2. CASE j < i
                <5>1. j \in 1 .. i - 1 /\ j \in 1 .. Len(s) /\ j # i
                    BY <1>1, <4>1, <4>2
                <5>2. entries'[c][j] = s[j]
                    BY <1>4, <4>1, <5>1
                <5> QED BY <3>2, <5>1, <5>2
            <4>3. CASE ~(j < i)
                <5>1. j \in i .. Len(s) - 1 /\ j + 1 \in 1 .. Len(s) /\ j + 1 # i
                    BY <1>1, <4>1, <4>3
                <5>2. entries'[c][j] = s[j + 1]
                    BY <1>4, <4>1, <5>1
                <5> QED BY <3>2, <5>1, <5>2
            <4> QED BY <4>2, <4>3
        <3> QED BY <3>1, <3>2
    <2>2. PICK k \in 1 .. Len(entries[c]) : entries'[c][j] = entries[c][k] /\ ~(c = b /\ k = i)
        BY <2>1
    <2>3. NameAt(c, j)' = NameAt(c, k)
        BY <1>6, <1>7, <2>2 DEF NameAt
    <2>4. NameAt(c, k) # n
        BY <1>5, <2>2
    <2> QED BY <2>2, <2>3, <2>4
<1>9. ASSUME NEW c \in DirBlock, NEW k \in 1 .. Len(entries[c]), NameAt(c, k) # n
      PROVE  \E d \in DirBlock : \E j \in 1 .. Len(entries'[d]) :
                NameAt(d, j)' = NameAt(c, k) /\ entries'[d][j].first = entries[c][k].first
    <2>1. \E j \in 1 .. Len(entries'[c]) : entries'[c][j] = entries[c][k]
        <3>1. CASE c # b
            BY <1>3, <3>1
        <3>2. CASE c = b
            <4>1. k \in 1 .. Len(s) /\ k # i /\ entries'[c] = t
                BY <1>3, <1>9, <3>2 DEF n
            <4>2. CASE k < i
                <5>1. k \in 1 .. i - 1 /\ k \in 1 .. Len(t)
                    BY <1>1, <1>4, <4>1, <4>2
                <5> QED BY <1>4, <3>2, <4>1, <5>1
            <4>3. CASE k > i
                <5>1. k - 1 \in i .. Len(s) - 1 /\ k - 1 \in 1 .. Len(t) /\ (k - 1) + 1 = k
                    BY <1>1, <1>4, <4>1, <4>3
                <5>2. t[k - 1] = s[k]
                    BY <1>4, <5>1
                <5> QED BY <3>2, <4>1, <5>1, <5>2
            <4> QED BY <1>1, <4>1, <4>2, <4>3
        <3> QED BY <3>1, <3>2
    <2>2. PICK j \in 1 .. Len(entries'[c]) : entries'[c][j] = entries[c][k]
        BY <2>1
    <2>3. NameAt(c, j)' = NameAt(c, k)
        BY <1>6, <1>7, <2>2 DEF NameAt
    <2> QED BY <2>2, <2>3
<1>10. Files' = Others(n)
    BY <1>8, <1>9, FilesRemain
<1> QED BY <1>10 DEF n

\* No entry is changed.
LEMMA FilesSame ==
    ASSUME TypeOK, Structure, TypeOK', Structure', next' = next, made' = made, entries' = entries
    PROVE  Files' = Files
<1>1. ASSUME NEW c \in DirBlock, NEW j \in 1 .. Len(entries[c])
      PROVE  NameAt(c, j)' = NameAt(c, j) /\ NameAt(c, j) # <<>> /\ entries'[c][j].first = entries[c][j].first
    <2>1. c \in MadeBlock /\ NameAt(c, j) # <<>>
        BY EntriesAreMade, NamesAreWords
    <2> QED BY <2>1, NamesStay DEF NameAt
<1>2. ASSUME NEW c \in DirBlock, NEW j \in 1 .. Len(entries'[c])
      PROVE  \E d \in DirBlock : \E k \in 1 .. Len(entries[d]) :
                NameAt(d, k) # <<>> /\ NameAt(c, j)' = NameAt(d, k) /\ entries'[c][j].first = entries[d][k].first
    BY <1>1
<1>3. ASSUME NEW c \in DirBlock, NEW k \in 1 .. Len(entries[c])
      PROVE  \E d \in DirBlock : \E j \in 1 .. Len(entries'[d]) :
                NameAt(d, j)' = NameAt(c, k) /\ entries'[d][j].first = entries[c][k].first
    BY <1>1
<1>4. Files' = Others(<<>>)
    BY <1>2, <1>3, FilesRemain
<1>5. \A x \in Files : x.name # <<>>
    BY FilesAre, NamesAreWords DEF FilesSay
<1> QED BY <1>4, <1>5 DEF Others

\* An entry is added.
LEMMA FilesAdded ==
    ASSUME TypeOK, Structure, TypeOK', Structure', Create
    PROVE  /\ creating.name \in Names /\ creating.content \in Contents \cup {Nothing}
           /\ \A x \in Files : x.name # creating.name
           /\ \E first \in DataBlock \cup {DIR_ALLOCATING_MARK} :
                /\ Rewritten(DIR_ALLOCATING_MARK, creating.content, first)
                /\ Files' = Files \cup {[name |-> creating.name, first |-> first]}
<1> DEFINE n == creating.name
<1>1. creating # NoCall /\ next' = next /\ made' = made
    BY DEF Create
<1>2. n \in Names /\ creating.content \in Contents \cup {Nothing}
    BY <1>1 DEF TypeOK
<1>3. PICK b \in MadeBlock : \E k \in 1 .. Len(entries[b]) + 1 : \E e \in Entry :
              /\ b \in DirBlock /\ Leaf(n, b, e.rest)
              /\ entries' = [entries EXCEPT ![b] = InsertAt(@, k, e)]
              /\ e.first \in DataBlock \cup {DIR_ALLOCATING_MARK}
              /\ Rewritten(DIR_ALLOCATING_MARK, creating.content, e.first)
    BY CreateInserts
<1>4. PICK k \in 1 .. Len(entries[b]) + 1 : \E e \in Entry :
              /\ b \in DirBlock /\ Leaf(n, b, e.rest)
              /\ entries' = [entries EXCEPT ![b] = InsertAt(@, k, e)]
              /\ e.first \in DataBlock \cup {DIR_ALLOCATING_MARK}
              /\ Rewritten(DIR_ALLOCATING_MARK, creating.content, e.first)
    BY <1>3
<1>5. PICK e \in Entry :
              /\ b \in DirBlock /\ Leaf(n, b, e.rest)
              /\ entries' = [entries EXCEPT ![b] = InsertAt(@, k, e)]
              /\ e.first \in DataBlock \cup {DIR_ALLOCATING_MARK}
              /\ Rewritten(DIR_ALLOCATING_MARK, creating.content, e.first)
    BY <1>4
<1> DEFINE s == entries[b]
           t == InsertAt(s, k, e)
           New == {[name |-> n, first |-> e.first]}
<1>6. /\ Len(s) \in Nat /\ Len(t) = Len(s) + 1
      /\ \A i \in 1 .. k - 1 : t[i] = s[i]
      /\ t[k] = e
      /\ \A i \in k + 1 .. Len(s) + 1 : t[i] = s[i - 1]
    <2>1. s \in Seq(Entry) /\ k \in 1 .. Len(s) + 1
        BY <1>5, BlockEntries
    <2> HIDE DEF s
    <2> QED BY <2>1, InsertSeq
<1> HIDE DEF t
<1>7. entries'[b] = t /\ (\A c \in DirBlock : c # b => entries'[c] = entries[c]) /\ b \in DirBlock
    <2>1. entries \in [DirBlock -> Seq(Entry)]
        BY DEF TypeOK
    <2> QED BY <1>5, <2>1 DEF t
<1>8. k \in Nat /\ k > 0 /\ k <= Len(s) + 1
    BY <1>6
<1>9. \A c \in MadeBlock : \A i : NameAt(c, i)' = Lead[c] \o entries'[c][i].rest
    BY <1>1, NamesStay
<1>10. \A c \in DirBlock : \A i \in 1 .. Len(entries[c]) : c \in MadeBlock /\ NameAt(c, i) # n
    BY <1>1, EntriesAreMade DEF Structure, NewIsNew
<1>11. NameAt(b, k)' = n /\ k \in 1 .. Len(entries'[b]) /\ entries'[b][k] = e
    <2>1. Lead[b] \o e.rest = n
        BY <1>5 DEF Leaf
    <2>2. k \in 1 .. Len(entries'[b]) /\ entries'[b][k] = e
        BY <1>6, <1>7, <1>8
    <2> QED BY <1>9, <2>1, <2>2
<1> HIDE DEF n
<1>12. ASSUME NEW c \in DirBlock, NEW i \in 1 .. Len(entries'[c])
       PROVE  \/ [name |-> NameAt(c, i)', first |-> entries'[c][i].first] \in New
              \/ \E d \in DirBlock : \E j \in 1 .. Len(entries[d]) :
                    NameAt(d, j) # n /\ NameAt(c, i)' = NameAt(d, j) /\ entries'[c][i].first = entries[d][j].first
    <2>1. CASE c = b /\ i = k
        BY <1>11, <2>1
    <2>2. CASE ~(c = b /\ i = k)
        <3>1. \E j \in 1 .. Len(entries[c]) : entries'[c][i] = entries[c][j]
            <4>1. CASE c # b
                BY <1>7, <4>1
            <4>2. CASE c = b
                <5>1. i \in 1 .. Len(s) + 1 /\ i # k /\ entries'[c] = t
                    BY <1>6, <1>7, <2>2, <4>2
                <5>2. CASE i < k
                    <6>1. i \in 1 .. k - 1 /\ i \in 1 .. Len(s)
                        BY <1>6, <1>8, <5>1, <5>2
                    <6>2. entries'[c][i] = s[i]
                        BY <1>6, <5>1, <6>1
                    <6> QED BY <4>2, <6>1, <6>2
                <5>3. CASE i > k
                    <6>1. i \in k + 1 .. Len(s) + 1 /\ i - 1 \in 1 .. Len(s)
                        BY <1>6, <1>8, <5>1, <5>3
                    <6>2. entries'[c][i] = s[i - 1]
                        BY <1>6, <5>1, <6>1
                    <6> QED BY <4>2, <6>1, <6>2
                <5> QED BY <1>6, <1>8, <5>1, <5>2, <5>3
            <4> QED BY <4>1, <4>2
        <3>2. PICK j \in 1 .. Len(entries[c]) : entries'[c][i] = entries[c][j]
            BY <3>1
        <3>3. NameAt(c, i)' = NameAt(c, j) /\ NameAt(c, j) # n
            BY <1>9, <1>10, <3>2 DEF NameAt
        <3> QED BY <3>2, <3>3
    <2> QED BY <2>1, <2>2
<1>13. ASSUME NEW c \in DirBlock, NEW j \in 1 .. Len(entries[c]), NameAt(c, j) # n
       PROVE  \E d \in DirBlock : \E i \in 1 .. Len(entries'[d]) :
                NameAt(d, i)' = NameAt(c, j) /\ entries'[d][i].first = entries[c][j].first
    <2>1. \E i \in 1 .. Len(entries'[c]) : entries'[c][i] = entries[c][j]
        <3>1. CASE c # b
            BY <1>7, <3>1
        <3>2. CASE c = b
            <4>1. j \in 1 .. Len(s) /\ entries'[c] = t
                BY <1>7, <3>2
            <4>2. CASE j < k
                <5>1. j \in 1 .. k - 1 /\ j \in 1 .. Len(t)
                    BY <1>6, <1>8, <4>1, <4>2
                <5> QED BY <1>6, <3>2, <4>1, <5>1
            <4>3. CASE ~(j < k)
                <5>1. j + 1 \in k + 1 .. Len(s) + 1 /\ j + 1 \in 1 .. Len(t) /\ (j + 1) - 1 = j
                    BY <1>6, <1>8, <4>1, <4>3
                <5>2. t[j + 1] = s[j]
                    BY <1>6, <5>1
                <5> QED BY <3>2, <4>1, <5>1, <5>2
            <4> QED BY <4>2, <4>3
        <3> QED BY <3>1, <3>2
    <2>2. PICK i \in 1 .. Len(entries'[c]) : entries'[c][i] = entries[c][j]
        BY <2>1
    <2>3. NameAt(c, i)' = NameAt(c, j)
        BY <1>9, <1>10, <2>2 DEF NameAt
    <2> QED BY <2>2, <2>3
<1>14. ASSUME NEW x \in New
       PROVE  /\ x = [name |-> x.name, first |-> x.first]
              /\ \E d \in DirBlock : \E i \in 1 .. Len(entries'[d]) :
                    NameAt(d, i)' = x.name /\ entries'[d][i].first = x.first
    BY <1>7, <1>11
<1> HIDE DEF New
<1>15. Files' = Others(n) \cup New
    BY <1>12, <1>13, <1>14, FilesBecome
<1>16. \A x \in Files : x.name # n
    BY <1>10, FilesAre DEF FilesSay
<1>17. Others(n) = Files
    BY <1>16 DEF Others
<1>18. Files' = Files \cup {[name |-> n, first |-> e.first]}
    BY <1>15, <1>17 DEF New
<1> QED BY <1>2, <1>5, <1>16, <1>18 DEF n

\* A conversion loses no entry and adds none.
LEMMA FilesConverted ==
    ASSUME TypeOK, Structure, TypeOK', Structure', Convert
    PROVE  Files' = Files
<1>1. PICK b \in MadeBlock : \E c \in Chars :
             \E from \in 1 .. Len(entries[b]) : \E to \in from .. Len(entries[b]) : Moves(b, c, from, to)
    BY ConvertMoves
<1>2. PICK c \in Chars :
             \E from \in 1 .. Len(entries[b]) : \E to \in from .. Len(entries[b]) : Moves(b, c, from, to)
    BY <1>1
<1>3. PICK from \in 1 .. Len(entries[b]) : \E to \in from .. Len(entries[b]) : Moves(b, c, from, to)
    BY <1>2
<1>4. PICK to \in from .. Len(entries[b]) : Moves(b, c, from, to)
    BY <1>3
<1>5. /\ made \in DirBlock /\ b \in DirBlock /\ b # made
      /\ entries'[b] = Cut(entries[b], from, to)
      /\ Len(entries'[made]) = to - from + 1
      /\ \A k \in 1 .. to - from + 1 :
           /\ from + k - 1 \in 1 .. Len(entries[b])
           /\ entries'[made][k].rest = Tail(entries[b][from + k - 1].rest)
           /\ entries'[made][k].first = entries[b][from + k - 1].first
           /\ entries[b][from + k - 1].rest \in Word /\ entries[b][from + k - 1].rest # <<>>
           /\ Head(entries[b][from + k - 1].rest) = c
      /\ \A x \in DirBlock : x # b /\ x # made => entries'[x] = entries[x]
    BY <1>4, MovedEntries
<1>6. /\ \A x \in MadeBlock : Lead'[x] = Lead[x]
      /\ Lead'[made] = Append(Lead[b], c)
    BY <1>4, ConvertTree DEF Moves
<1>7. \A a \in DirBlock : \A j \in 1 .. Len(entries[a]) : a \in MadeBlock /\ a # made /\ NameAt(a, j) # <<>>
    <2>1. \A a \in MadeBlock : a # made
        BY TreeTypes DEF MadeBlock
    <2> QED BY <2>1, EntriesAreMade, NamesAreWords
<1>8. from \in Nat /\ to \in Nat /\ from > 0 /\ from <= to /\ to <= Len(entries[b]) /\ Len(entries[b]) \in Nat
    BY <1>5, BlockEntries
<1>9. ASSUME NEW a \in DirBlock, NEW j \in 1 .. Len(entries[a]), NEW i \in 1 .. Len(entries'[a]),
             entries'[a][i] = entries[a][j]
      PROVE  NameAt(a, i)' = NameAt(a, j) /\ entries'[a][i].first = entries[a][j].first
    BY <1>6, <1>7, <1>9 DEF NameAt
<1>10. ASSUME NEW a \in DirBlock, NEW j \in 1 .. Len(entries[a])
       PROVE  \E d \in DirBlock : \E i \in 1 .. Len(entries'[d]) :
                NameAt(d, i)' = NameAt(a, j) /\ entries'[d][i].first = entries[a][j].first
    <2>1. CASE a # b
        <3>1. entries'[a] = entries[a]
            BY <1>5, <1>7, <2>1
        <3> QED BY <1>9, <3>1
    <2>2. CASE a = b /\ j \in from .. to
        <3> DEFINE k == j - from + 1
                   r == entries[b][j].rest
        <3>1. k \in 1 .. to - from + 1 /\ from + k - 1 = j
            BY <1>8, <2>2
        <3> HIDE DEF k
        <3>2. /\ entries'[made][k].rest = Tail(r) /\ entries'[made][k].first = entries[b][j].first
              /\ r \in Word /\ r # <<>> /\ Head(r) = c
            BY <1>5, <3>1
        <3>3. Lead[b] \o r = NameAt(b, j) /\ Lead[b] \in Word
            BY LeadEquation DEF Structure, NameAt
        <3> HIDE DEF r
        <3>4. Append(Lead[b], Head(r)) \o Tail(r) = NameAt(b, j)
            BY <3>2, <3>3, MoveOn
        <3>5. PICK d \in DirBlock : d = made
            BY <1>5
        <3>6. NameAt(d, k)' = NameAt(b, j)
            <4>1. Lead'[d] = Append(Lead[b], Head(r)) /\ entries'[d][k].rest = Tail(r)
                BY <1>6, <3>2, <3>5
            <4> QED BY <3>4, <4>1 DEF NameAt
        <3>7. k \in 1 .. Len(entries'[d]) /\ entries'[d][k].first = entries[b][j].first
            BY <1>5, <3>1, <3>2, <3>5
        <3> QED BY <2>2, <3>6, <3>7
    <2>3. CASE a = b /\ ~(j \in from .. to)
        <3> DEFINE s == entries[b]
                   n == to - from + 1
                   u == Cut(s, from, to)
        <3>1. /\ Len(u) = Len(s) - n
              /\ \A k \in 1 .. from - 1 : u[k] = s[k]
              /\ \A k \in from .. Len(s) - n : u[k] = s[k + n]
            <4>1. s \in Seq(Entry)
                BY <1>5, BlockEntries
            <4>2. from \in 1 .. Len(s) /\ to \in from .. Len(s)
                OBVIOUS
            <4> HIDE DEF s
            <4> QED BY <4>1, <4>2, CutSeq
        <3>2. n \in Nat /\ n = to - from + 1 /\ j \in 1 .. Len(s) /\ entries'[b] = u /\ Len(s) \in Nat /\ to <= Len(s)
            BY <1>5, <1>8, <2>3
        <3> HIDE DEF u, n
        <3>3. \E i \in 1 .. Len(u) : u[i] = s[j]
            <4> HIDE DEF s
            <4>1. CASE j < from
                <5>1. j \in 1 .. from - 1 /\ j \in 1 .. Len(u)
                    BY <1>8, <3>1, <3>2, <4>1
                <5> QED BY <3>1, <5>1
            <4>2. CASE j > to
                <5>1. j - n \in from .. Len(s) - n /\ j - n \in 1 .. Len(u) /\ (j - n) + n = j
                    BY <1>8, <3>1, <3>2, <4>2
                <5> QED BY <3>1, <5>1
            <4>3. j < from \/ j > to
                BY <1>8, <2>3, <3>2
            <4> QED BY <4>1, <4>2, <4>3
        <3>4. PICK i \in 1 .. Len(u) : u[i] = s[j]
            BY <3>3
        <3>5. i \in 1 .. Len(entries'[a]) /\ entries'[a][i] = entries[a][j]
            BY <2>3, <3>2, <3>4
        <3> QED BY <1>9, <3>5
    <2> QED BY <2>1, <2>2, <2>3
<1>11. ASSUME NEW d \in DirBlock, NEW i \in 1 .. Len(entries'[d])
       PROVE  \E a \in DirBlock : \E j \in 1 .. Len(entries[a]) :
                NameAt(a, j) # <<>> /\ NameAt(d, i)' = NameAt(a, j) /\ entries'[d][i].first = entries[a][j].first
    <2>1. \E a \in DirBlock : \E j \in 1 .. Len(entries[a]) :
            NameAt(d, i)' = NameAt(a, j) /\ entries'[d][i].first = entries[a][j].first
        BY ConvertNames
    <2> QED BY <1>7, <2>1
<1>12. Files' = Others(<<>>)
    BY <1>10, <1>11, FilesRemain
<1>13. \A x \in Files : x.name # <<>>
    BY FilesAre, NamesAreWords DEF FilesSay
<1> QED BY <1>12, <1>13 DEF Others

-----------------------------------------------------------------------------
(* Blocks in use, and entries of files that are removed while they are open *)

\* A data block that a file begins with is in use, and no other file begins with it.
InUse ==
    \A x \in Files : x.first \in DataBlock =>
        x.first \in used /\ \A y \in Files : y.first = x.first => y.name = x.name

\* The entry at <<b, i>> is the only one of a removed file; the open files that began at f
\* are the ones that were removed, and they point at the entry.
Shown(b, i, f) ==
    /\ entries[b][i].first = Deleted
    /\ \A x \in Files : (x.first = Deleted => x.name = NameAt(b, i)) /\ x.first # f
    /\ \A k \in 1 .. Len(open) :
        /\ open[k].doomed <=> open[k].first = f
        /\ open[k].doomed => open[k].blk = b /\ open[k].idx = i

DeletedIsShown ==
    /\ creating # NoCall => Settled
    /\ Settled => \A x \in Files : x.first # Deleted
    /\ ~Settled => \E b \in DirBlock : \E i \in 1 .. Len(entries[b]) : \E f \in DataBlock : Shown(b, i, f)

LEMMA Marks == DIR_ALLOCATING_MARK \notin DataBlock /\ Deleted \notin DataBlock /\ DIR_ALLOCATING_MARK # Deleted
BY ContentsAssumption DEF DIR_ALLOCATING_MARK, Deleted

LEMMA UseKept ==
    ASSUME InUse, \A x \in Files' : x.first \in DataBlock => x \in Files /\ x.first \in used'
    PROVE  InUse'
BY DEF InUse

LEMMA UseRewritten ==
    ASSUME InUse, NEW n, NEW old, NEW content, NEW first \in DataBlock \cup {DIR_ALLOCATING_MARK},
           Rewritten(old, content, first),
           \A x \in Others(n) : x.first \in DataBlock => x.first # old,
           Files' = Others(n) \cup {[name |-> n, first |-> first]}
    PROVE  InUse'
<1>1. \A x \in Others(n) : x \in Files
    BY DEF Others
<1>2. ASSUME NEW x \in Others(n), x.first \in DataBlock PROVE x.first \in used' /\ x.first # first
    <2>1. x.first \in used \ {old}
        BY <1>1, <1>2 DEF InUse
    <2> QED BY <1>2, <2>1, Marks DEF Rewritten
<1>3. first \in DataBlock => first \in used'
    BY Marks DEF Rewritten
<1>4. ASSUME NEW x \in Files', x.first \in DataBlock, NEW y \in Files', y.first = x.first
      PROVE  x.first \in used' /\ y.name = x.name
    <2>1. CASE x \in Others(n) /\ y \in Others(n)
        BY <1>1, <1>2, <1>4, <2>1 DEF InUse
    <2>2. CASE x \in Others(n) /\ y \notin Others(n)
        <3>1. y.first = first
            BY <2>2
        <3> QED BY <1>2, <1>4, <2>2, <3>1
    <2>3. CASE x \notin Others(n) /\ y \in Others(n)
        <3>1. x.first = first
            BY <2>3
        <3> QED BY <1>2, <1>4, <2>3, <3>1
    <2>4. CASE x \notin Others(n) /\ y \notin Others(n)
        <3>1. x.first = first /\ x.name = n /\ y.name = n
            BY <2>4
        <3> QED BY <1>3, <1>4, <3>1
    <2> QED BY <2>1, <2>2, <2>3, <2>4
<1> QED BY <1>4 DEF InUse

LEMMA OverwriteFiles ==
    ASSUME TypeOK, Structure, TypeOK', Structure',
           NEW n \in Names, NEW content \in Contents \cup {Nothing}, Overwrite(n, content)
    PROVE  \E old \in DataBlock \cup {DIR_ALLOCATING_MARK} : \E first \in DataBlock \cup {DIR_ALLOCATING_MARK} :
              /\ [name |-> n, first |-> old] \in Files
              /\ Rewritten(old, content, first)
              /\ Files' = Others(n) \cup {[name |-> n, first |-> first]}
<1>1. Found(Find(n)) /\ EntryAt(Find(n)).first # Deleted /\ next' = next /\ made' = made
    BY DEF Overwrite, FoundLive
<1>2. PICK first \in DataBlock \cup {DIR_ALLOCATING_MARK} :
        /\ Rewritten(EntryAt(Find(n)).first, content, first)
        /\ entries' = [entries EXCEPT ![Find(n)[1]][Find(n)[2]].first = first]
    BY DEF Overwrite
<1>3. PICK b \in DirBlock : \E i \in 1 .. Len(entries[b]) :
            /\ Find(n)[1] = b /\ Find(n)[2] = i /\ EntryAt(Find(n)) = entries[b][i] /\ NameAt(b, i) = n
    BY <1>1, FoundEntry
<1>4. PICK i \in 1 .. Len(entries[b]) :
            /\ Find(n)[1] = b /\ Find(n)[2] = i /\ EntryAt(Find(n)) = entries[b][i] /\ NameAt(b, i) = n
    BY <1>3
<1> DEFINE old == entries[b][i].first
<1>5. [name |-> n, first |-> old] \in Files
    BY <1>4, FilesAre DEF FilesSay
<1>6. old \in DataBlock \cup {DIR_ALLOCATING_MARK}
    <2>1. old \in DataBlock \cup {Deleted, DIR_ALLOCATING_MARK}
        BY BlockEntries DEF Entry
    <2> QED BY <1>1, <1>4, <2>1
<1>7. entries' = [entries EXCEPT ![b][i].first = first]
    BY <1>2, <1>4
<1>8. Files' = Others(n) \cup {[name |-> n, first |-> first]}
    <2>1. first \in DataBlock \cup {Deleted, DIR_ALLOCATING_MARK} /\ next' = next /\ made' = made
        BY <1>1
    <2>2. Files' = Others(NameAt(b, i)) \cup {[name |-> NameAt(b, i), first |-> first]}
        BY <1>7, <2>1, FilesChanged
    <2> QED BY <1>4, <2>2
<1>9. Rewritten(old, content, first)
    BY <1>2, <1>4
<1> QED BY <1>5, <1>6, <1>8, <1>9

LEMMA RemoveClosedFiles ==
    ASSUME TypeOK, Structure, TypeOK', Structure', NEW n \in Names, RemoveClosed(n)
    PROVE  \E old \in DataBlock \cup {DIR_ALLOCATING_MARK} :
              [name |-> n, first |-> old] \in Files /\ used' = used \ {old} /\ Files' = Others(n)
<1>1. /\ Found(Find(n)) /\ EntryAt(Find(n)).first # Deleted /\ next' = next /\ made' = made
      /\ used' = used \ {EntryAt(Find(n)).first}
      /\ entries' = [entries EXCEPT ![Find(n)[1]] = DropEntry(@, Find(n)[2])]
    BY DEF RemoveClosed, FoundLive
<1>2. PICK b \in DirBlock : \E i \in 1 .. Len(entries[b]) :
            /\ Find(n)[1] = b /\ Find(n)[2] = i /\ EntryAt(Find(n)) = entries[b][i] /\ NameAt(b, i) = n
    BY <1>1, FoundEntry
<1>3. PICK i \in 1 .. Len(entries[b]) :
            /\ Find(n)[1] = b /\ Find(n)[2] = i /\ EntryAt(Find(n)) = entries[b][i] /\ NameAt(b, i) = n
    BY <1>2
<1> DEFINE old == entries[b][i].first
<1>4. [name |-> n, first |-> old] \in Files
    BY <1>3, FilesAre DEF FilesSay
<1>5. old \in DataBlock \cup {DIR_ALLOCATING_MARK}
    <2>1. old \in DataBlock \cup {Deleted, DIR_ALLOCATING_MARK}
        BY BlockEntries DEF Entry
    <2> QED BY <1>1, <1>3, <2>1
<1>6. entries' = [entries EXCEPT ![b] = DropEntry(@, i)] /\ used' = used \ {old}
    BY <1>1, <1>3
<1>7. Files' = Others(n)
    <2>1. next' = next /\ made' = made /\ entries' = [entries EXCEPT ![b] = DropEntry(@, i)]
        BY <1>1, <1>6
    <2>2. Files' = Others(NameAt(b, i))
        BY <2>1, FilesDropped
    <2> QED BY <1>3, <2>2
<1> QED BY <1>4, <1>5, <1>6, <1>7

\* A removal of an open file leaves its entry, at <<b, i>>, and open files that point at it.
LeavesEntry(n, b, i, f) ==
    /\ NameAt(b, i) = n /\ entries[b][i].first = f
    /\ i \in 1 .. Len(entries'[b]) /\ entries'[b][i].first = Deleted /\ NameAt(b, i)' = n
    /\ Files' = Others(n) \cup {[name |-> n, first |-> Deleted]}
    /\ Len(open') = Len(open) /\ Len(open) \in Nat
    /\ \E k \in 1 .. Len(open) : open[k].first = f
    /\ \A k \in 1 .. Len(open) :
        /\ open'[k].blk = open[k].blk /\ open'[k].idx = open[k].idx /\ open'[k].first = open[k].first
        /\ open'[k].doomed <=> (open[k].doomed \/ open[k].first = f)
        /\ open[k].first = f => open[k].blk = b /\ open[k].idx = i

LEMMA RemoveOpenFiles ==
    ASSUME TypeOK, Structure, TypeOK', Structure', NEW n \in Names, RemoveOpen(n), Careful
    PROVE  \E b \in DirBlock : \E i \in 1 .. Len(entries[b]) : \E f \in DataBlock : LeavesEntry(n, b, i, f)
<1> DEFINE g == EntryAt(Find(n)).first
           D == OpenAt(g)
<1>1. /\ Found(Find(n)) /\ next' = next /\ made' = made /\ D # {}
      /\ \A k \in D : <<open[k].blk, open[k].idx>> = Find(n)
      /\ open' = [i \in DOMAIN open |-> [open[i] EXCEPT !.doomed = @ \/ i \in D]]
      /\ entries' = [entries EXCEPT ![Find(n)[1]][Find(n)[2]].first = Deleted]
    BY DEF RemoveOpen, FoundLive
<1>2. PICK b \in DirBlock : \E i \in 1 .. Len(entries[b]) :
            /\ Find(n) = <<b, i>> /\ Find(n)[1] = b /\ Find(n)[2] = i
            /\ EntryAt(Find(n)) = entries[b][i] /\ NameAt(b, i) = n
    BY <1>1, FoundEntry
<1>3. PICK i \in 1 .. Len(entries[b]) :
            /\ Find(n) = <<b, i>> /\ Find(n)[1] = b /\ Find(n)[2] = i
            /\ EntryAt(Find(n)) = entries[b][i] /\ NameAt(b, i) = n
    BY <1>2
<1>4. \A k : k \in D <=> k \in 1 .. Len(open) /\ open[k].first = g
    BY Opened DEF OpenAt
<1> HIDE DEF g, D
<1>5. Len(open) \in Nat /\ DOMAIN open = 1 .. Len(open) /\ \A k \in 1 .. Len(open) : open[k].first \in DataBlock
    <2>1. open \in Seq(OpenFile) /\ Len(open) \in Nat /\ DOMAIN open = 1 .. Len(open)
        BY Opened DEF OpenOK
    <2>2. \A k \in 1 .. Len(open) : open[k] \in OpenFile
        BY <2>1, ElementOfSeq
    <2> QED BY <2>1, <2>2 DEF OpenFile
<1>6. PICK k0 \in 1 .. Len(open) : open[k0].first = g
    BY <1>1, <1>4
<1>7. g \in DataBlock /\ entries[b][i].first = g
    BY <1>3, <1>5, <1>6 DEF g
<1>8. entries' = [entries EXCEPT ![b][i].first = Deleted]
    BY <1>1, <1>3
<1> DEFINE del == Deleted
<1> HIDE DEF del
<1>9. del \in DataBlock \cup {Deleted, DIR_ALLOCATING_MARK} /\ entries' = [entries EXCEPT ![b][i].first = del]
    BY <1>8 DEF del
<1>10. i \in 1 .. Len(entries'[b]) /\ entries'[b][i].first = Deleted /\ entries'[b][i].rest = entries[b][i].rest
    <2>1. /\ Len(entries'[b]) = Len(entries[b])
          /\ \A j \in 1 .. Len(entries[b]) :
                /\ entries'[b][j].rest = entries[b][j].rest
                /\ entries'[b][j].first = IF b = b /\ j = i THEN del ELSE entries[b][j].first
        BY <1>9, EntryChanges
    <2> QED BY <2>1 DEF del
<1>11. NameAt(b, i)' = n
    <2>1. b \in MadeBlock
        BY EntriesAreMade
    <2>2. NameAt(b, i)' = Lead[b] \o entries'[b][i].rest
        BY <1>1, <2>1, NamesStay
    <2> QED BY <1>3, <1>10, <2>2 DEF NameAt
<1>12. Files' = Others(n) \cup {[name |-> n, first |-> Deleted]}
    <2>1. Files' = Others(NameAt(b, i)) \cup {[name |-> NameAt(b, i), first |-> del]}
        BY <1>1, <1>9, FilesChanged
    <2> QED BY <1>3, <2>1 DEF del
<1>13. /\ Len(open') = Len(open)
       /\ \A k \in 1 .. Len(open) :
            /\ open'[k].blk = open[k].blk /\ open'[k].idx = open[k].idx /\ open'[k].first = open[k].first
            /\ open'[k].doomed <=> (open[k].doomed \/ k \in D)
    <2> DEFINE m == Len(open)
    <2>1. m \in 0 .. Len(open)
        BY <1>5
    <2>2. open' = [k \in 1 .. m |-> [open[k] EXCEPT !.doomed = @ \/ k \in D]]
        BY <1>1, <1>5
    <2> HIDE DEF m
    <2>3. /\ Len(open') = m
          /\ \A k \in 1 .. m :
                /\ open'[k].blk = open[k].blk /\ open'[k].idx = open[k].idx /\ open'[k].first = open[k].first
                /\ open'[k].doomed <=> (open[k].doomed \/ k \in D)
        BY <2>1, <2>2, Doomed
    <2> QED BY <2>3 DEF m
<1>14. \A k \in 1 .. Len(open) : open[k].first = g => open[k].blk = b /\ open[k].idx = i
    <2> SUFFICES ASSUME NEW k \in 1 .. Len(open), open[k].first = g PROVE open[k].blk = b /\ open[k].idx = i
        OBVIOUS
    <2>1. <<open[k].blk, open[k].idx>> = <<b, i>>
        BY <1>1, <1>3, <1>4
    <2> QED BY <2>1
<1>15. \A k \in 1 .. Len(open) : open'[k].doomed <=> (open[k].doomed \/ open[k].first = g)
    BY <1>4, <1>13
<1>16. \A k \in 1 .. Len(open) :
        /\ open'[k].blk = open[k].blk /\ open'[k].idx = open[k].idx /\ open'[k].first = open[k].first
        /\ open'[k].doomed <=> (open[k].doomed \/ open[k].first = g)
        /\ open[k].first = g => open[k].blk = b /\ open[k].idx = i
    BY <1>13, <1>14, <1>15
<1>17. NameAt(b, i) = n
    BY <1>3
<1>18. LeavesEntry(n, b, i, g)
    BY <1>5, <1>6, <1>7, <1>10, <1>11, <1>12, <1>13, <1>16, <1>17 DEF LeavesEntry
<1> QED BY <1>7, <1>18

LEMMA SettledShows ==
    ASSUME Settled', \A x \in Files' : x.first # Deleted
    PROVE  DeletedIsShown'
BY DEF DeletedIsShown, Deleted

LEMMA SettledSays == TypeOK => (Settled <=> \A k \in 1 .. Len(open) : ~open[k].doomed)
BY Opened DEF Settled

Cared == InUse /\ DeletedIsShown

LEMMA OverwriteCares ==
    ASSUME Careful, TypeOK, Structure, Cared, TypeOK', Structure',
           NEW n \in Names, NEW content \in Contents \cup {Nothing}, Overwrite(n, content)
    PROVE  Cared'
<1>1. Settled /\ open' = open
    BY DEF Overwrite, Begin
<1>2. PICK old \in DataBlock \cup {DIR_ALLOCATING_MARK} : \E first \in DataBlock \cup {DIR_ALLOCATING_MARK} :
              /\ [name |-> n, first |-> old] \in Files
              /\ Rewritten(old, content, first)
              /\ Files' = Others(n) \cup {[name |-> n, first |-> first]}
    BY OverwriteFiles
<1>3. PICK first \in DataBlock \cup {DIR_ALLOCATING_MARK} :
              /\ [name |-> n, first |-> old] \in Files
              /\ Rewritten(old, content, first)
              /\ Files' = Others(n) \cup {[name |-> n, first |-> first]}
    BY <1>2
<1>4. \A x \in Others(n) : x.first \in DataBlock => x.first # old
    <2> SUFFICES ASSUME NEW x \in Others(n), x.first \in DataBlock, x.first = old PROVE FALSE
        OBVIOUS
    <2> DEFINE y == [name |-> n, first |-> old]
    <2>1. x \in Files /\ x.name # n /\ y \in Files /\ y.first = x.first /\ y.name = n
        BY <1>3 DEF Others
    <2> HIDE DEF y
    <2> QED BY <2>1 DEF Cared, InUse
<1>5. InUse'
    BY <1>3, <1>4, UseRewritten DEF Cared
<1>6. \A x \in Files' : x.first # Deleted
    BY <1>1, <1>3, Marks DEF Cared, DeletedIsShown, Others
<1>7. Settled'
    BY <1>1 DEF Settled
<1> QED BY <1>5, <1>6, <1>7, SettledShows DEF Cared

LEMMA CreateCares ==
    ASSUME Careful, TypeOK, Structure, Cared, TypeOK', Structure', Create
    PROVE  Cared'
<1>1. Settled /\ open' = open
    BY DEF Create, Cared, DeletedIsShown
<1> DEFINE n == creating.name
<1>2. PICK first \in DataBlock \cup {DIR_ALLOCATING_MARK} :
                /\ Rewritten(DIR_ALLOCATING_MARK, creating.content, first)
                /\ Files' = Files \cup {[name |-> n, first |-> first]}
    BY FilesAdded
<1>3. Others(n) = Files
    BY FilesAdded DEF Others
<1> HIDE DEF n
<1>4. Files' = Others(n) \cup {[name |-> n, first |-> first]}
    BY <1>2, <1>3
<1>5. \A x \in Others(n) : x.first \in DataBlock => x.first # DIR_ALLOCATING_MARK
    BY Marks
<1>6. InUse'
    BY <1>2, <1>4, <1>5, UseRewritten DEF Cared
<1>7. \A x \in Files' : x.first # Deleted
    BY <1>1, <1>2, Marks DEF Cared, DeletedIsShown
<1>8. Settled'
    BY <1>1 DEF Settled
<1> QED BY <1>6, <1>7, <1>8, SettledShows DEF Cared

LEMMA RemoveClosedCares ==
    ASSUME Careful, TypeOK, Structure, Cared, TypeOK', Structure', NEW n \in Names, RemoveClosed(n)
    PROVE  Cared'
<1>1. Settled /\ open' = open
    BY DEF RemoveClosed, Begin
<1>2. PICK old \in DataBlock \cup {DIR_ALLOCATING_MARK} :
              [name |-> n, first |-> old] \in Files /\ used' = used \ {old} /\ Files' = Others(n)
    BY RemoveClosedFiles
<1>3. ASSUME NEW x \in Files', x.first \in DataBlock PROVE x \in Files /\ x.first \in used'
    <2> DEFINE y == [name |-> n, first |-> old]
    <2>1. x \in Files /\ x.name # n /\ y \in Files /\ y.first = old /\ y.name = n
        BY <1>2 DEF Others
    <2> HIDE DEF y
    <2>2. x.first \in used /\ x.first # old
        BY <1>3, <2>1 DEF Cared, InUse
    <2> QED BY <1>2, <2>1, <2>2
<1>4. InUse'
    BY <1>3, UseKept DEF Cared
<1>5. \A x \in Files' : x.first # Deleted
    BY <1>1, <1>2 DEF Cared, DeletedIsShown, Others
<1>6. Settled'
    BY <1>1 DEF Settled
<1> QED BY <1>4, <1>5, <1>6, SettledShows DEF Cared

LEMMA RemoveOpenCares ==
    ASSUME Careful, TypeOK, Structure, Cared, TypeOK', Structure', NEW n \in Names, RemoveOpen(n)
    PROVE  Cared'
<1>1. Settled /\ used' = used /\ creating' = NoCall
    BY DEF RemoveOpen, Begin
<1>2. \A k \in 1 .. Len(open) : ~open[k].doomed
    BY <1>1, SettledSays
<1>3. \E b \in DirBlock : \E i \in 1 .. Len(entries[b]) : \E f \in DataBlock : LeavesEntry(n, b, i, f)
    BY RemoveOpenFiles
<1>4. PICK b \in DirBlock : \E i \in 1 .. Len(entries[b]) : \E f \in DataBlock : LeavesEntry(n, b, i, f)
    BY <1>3
<1>5. PICK i \in 1 .. Len(entries[b]) : \E f \in DataBlock : LeavesEntry(n, b, i, f)
    BY <1>4
<1>6. PICK f \in DataBlock : LeavesEntry(n, b, i, f)
    BY <1>5
<1>7. /\ NameAt(b, i) = n /\ entries[b][i].first = f
      /\ i \in 1 .. Len(entries'[b]) /\ entries'[b][i].first = Deleted /\ NameAt(b, i)' = n
      /\ Files' = Others(n) \cup {[name |-> n, first |-> Deleted]}
      /\ Len(open') = Len(open) /\ Len(open) \in Nat
      /\ \E k \in 1 .. Len(open) : open[k].first = f
      /\ \A k \in 1 .. Len(open) :
            /\ open'[k].blk = open[k].blk /\ open'[k].idx = open[k].idx /\ open'[k].first = open[k].first
            /\ open'[k].doomed <=> (open[k].doomed \/ open[k].first = f)
            /\ open[k].first = f => open[k].blk = b /\ open[k].idx = i
    BY <1>6 DEF LeavesEntry
<1>8. ASSUME NEW x \in Others(n) PROVE x \in Files /\ x.first # Deleted /\ x.first # f
    <2>1. x \in Files /\ x.name # n
        BY DEF Others
    <2> DEFINE y == [name |-> n, first |-> f]
    <2>2. y \in Files /\ y.name = n /\ y.first = f
        BY <1>7, FilesAre DEF FilesSay
    <2> HIDE DEF y
    <2>3. x.first # f
        BY <2>1, <2>2 DEF Cared, InUse
    <2>4. x.first # Deleted
        BY <1>1, <2>1 DEF Cared, DeletedIsShown
    <2> QED BY <2>1, <2>3, <2>4
<1>9. InUse'
    <2>1. ASSUME NEW x \in Files', x.first \in DataBlock PROVE x \in Files /\ x.first \in used'
        <3>1. x \in Others(n)
            BY <1>7, <2>1, Marks
        <3> QED BY <1>1, <1>8, <2>1, <3>1 DEF Cared, InUse
    <2> QED BY <2>1, UseKept DEF Cared
<1>10. Shown(b, i, f)'
    <2>1. entries'[b][i].first = Deleted
        BY <1>7
    <2>2. ASSUME NEW x \in Files' PROVE (x.first = Deleted => x.name = NameAt(b, i)') /\ x.first # f
        <3>1. CASE x \in Others(n)
            BY <1>8, <3>1
        <3>2. CASE x \notin Others(n)
            <4>1. x.name = n /\ x.first = Deleted
                BY <1>7, <3>2
            <4> QED BY <1>7, <4>1, Marks
        <3> QED BY <3>1, <3>2
    <2>3. \A k \in 1 .. Len(open') :
            /\ open'[k].doomed <=> open'[k].first = f
            /\ open'[k].doomed => open'[k].blk = b /\ open'[k].idx = i
        BY <1>2, <1>7
    <2> QED BY <2>1, <2>2, <2>3 DEF Shown, Deleted
<1>11. ~Settled'
    <2>1. PICK k \in 1 .. Len(open) : open[k].first = f
        BY <1>7
    <2>2. open'[k].doomed /\ k \in 1 .. Len(open')
        BY <1>7, <2>1
    <2>3. DOMAIN open' = 1 .. Len(open')
        <3>1. open' \in Seq([blk : DirBlock, idx : 1 .. Capacity, first : DataBlock, doomed : BOOLEAN])
            BY DEF TypeOK, DirBlock
        <3> QED BY <3>1, LenProperties
    <2> QED BY <2>2, <2>3 DEF Settled
<1>12. DeletedIsShown'
    <2>1. i \in 1 .. Len(entries'[b])
        BY <1>7
    <2> QED BY <1>1, <1>10, <1>11, <2>1 DEF DeletedIsShown, DirBlock, NoCall
<1> QED BY <1>9, <1>12 DEF Cared

LEMMA StillCares ==
    ASSUME TypeOK, Structure, Cared, TypeOK', Structure', Settled, Settled', Files' = Files, used' = used
    PROVE  Cared'
<1>1. InUse'
    BY UseKept DEF Cared, InUse
<1>2. \A x \in Files' : x.first # Deleted
    BY DEF Cared, DeletedIsShown
<1> QED BY <1>1, <1>2, SettledShows DEF Cared

LEMMA StartCreateCares ==
    ASSUME Careful, TypeOK, Structure, Cared, TypeOK', Structure',
           NEW n \in Names, NEW content \in Contents \cup {Nothing}, StartCreate(n, content)
    PROVE  Cared'
<1>1. Settled /\ open' = open /\ used' = used /\ next' = next /\ made' = made /\ entries' = entries
    BY DEF StartCreate, Begin
<1>2. Files' = Files /\ Settled'
    BY <1>1, FilesSame DEF Settled
<1> QED BY <1>1, <1>2, StillCares

LEMMA ConvertCares ==
    ASSUME Careful, TypeOK, Structure, Cared, TypeOK', Structure', Convert
    PROVE  Cared'
<1>1. Settled /\ open' = open /\ used' = used
    BY DEF Convert, Cared, DeletedIsShown
<1>2. Files' = Files /\ Settled'
    BY <1>1, FilesConverted DEF Settled
<1> QED BY <1>1, <1>2, StillCares

LEMMA ReadCares ==
    ASSUME Careful, TypeOK, Structure, Cared, TypeOK', Structure', NEW n \in Names, Read(n)
    PROVE  Cared'
<1> DEFINE h == [blk |-> Find(n)[1], idx |-> Find(n)[2], first |-> EntryAt(Find(n)).first, doomed |-> FALSE]
<1>1. /\ Settled /\ used' = used /\ next' = next /\ made' = made /\ entries' = entries
      /\ open' = Append(open, h)
    BY DEF Read, Begin
<1>2. Files' = Files
    BY <1>1, FilesSame
<1>3. ~h.doomed
    OBVIOUS
<1>4. h \in OpenFile
    <2>1. Found(Find(n)) /\ EntryAt(Find(n)).first \in DataBlock
        BY DEF Read
    <2>2. Find(n)[1] \in DirBlock /\ Find(n)[2] \in 1 .. Capacity
        BY <2>1, FoundEntry
    <2> QED BY <2>1, <2>2 DEF OpenFile
<1> HIDE DEF h
<1>5. Settled'
    <2>1. open \in Seq(OpenFile) /\ Len(open) \in Nat
        BY Opened DEF OpenOK
    <2>2. /\ open' \in Seq(OpenFile) /\ Len(open') = Len(open) + 1
          /\ \A k \in 1 .. Len(open) : open'[k] = open[k]
          /\ open'[Len(open) + 1] = h
        BY <1>1, <1>4, <2>1, AppendProperties
    <2>3. DOMAIN open' = 1 .. Len(open')
        BY <2>2, LenProperties
    <2>4. \A k \in 1 .. Len(open) : ~open[k].doomed
        BY <1>1, SettledSays
    <2>5. ASSUME NEW k \in DOMAIN open' PROVE ~open'[k].doomed
        <3>1. k \in 1 .. Len(open) \/ k = Len(open) + 1
            BY <2>1, <2>2, <2>3
        <3>2. CASE k \in 1 .. Len(open)
            BY <2>2, <2>4, <3>2
        <3>3. CASE k = Len(open) + 1
            BY <1>3, <2>2, <3>3
        <3> QED BY <3>1, <3>2, <3>3
    <2> QED BY <2>5 DEF Settled
<1> QED BY <1>1, <1>2, <1>5, StillCares

\* The end of a read: the last open file goes, and with the last removed one its entry.
LEMMA EndReadOpen ==
    ASSUME TypeOK, EndRead
    PROVE  LET m == Len(open)
               h == open[m]
               others == {k \in 1 .. m - 1 : open[k].first = h.first}
           IN  /\ m \in Nat /\ m \in 1 .. m /\ h \in OpenFile
               /\ Len(open') = m - 1 /\ DOMAIN open' = 1 .. m - 1
               /\ \A k \in 1 .. m - 1 :
                    /\ k \in 1 .. m
                    /\ open'[k].blk = open[k].blk /\ open'[k].idx = open[k].idx /\ open'[k].first = open[k].first
                    /\ open'[k].doomed <=> (open[k].doomed \/ (h.doomed /\ open[k].first = h.first))
               /\ h.doomed /\ others = {} =>
                    used' = used \ {h.first} /\ entries' = [entries EXCEPT ![h.blk] = DropEntry(@, h.idx)]
               /\ ~(h.doomed /\ others = {}) => used' = used /\ entries' = entries
               /\ next' = next /\ made' = made /\ creating' = creating /\ creating = NoCall
<1> DEFINE m == Len(open)
           h == open[m]
           others == {k \in 1 .. m - 1 : open[k].first = h.first}
           D == {k \in others : h.doomed}
<1>1. m \in Nat /\ m > 0 /\ open \in Seq(OpenFile) /\ DOMAIN open = 1 .. m
    <2>1. open \in Seq(OpenFile) /\ Len(open) \in Nat /\ DOMAIN open = 1 .. m
        BY Opened DEF OpenOK
    <2> QED BY <2>1, EmptySeq DEF EndRead
<1>2. m \in 1 .. m /\ h \in OpenFile /\ m - 1 \in 0 .. Len(open)
    BY <1>1, ElementOfSeq
<1>3. Last(open) = h /\ OpenAt(h.first) \ {m} = others
    <2>1. \A k : k \in 1 .. m /\ k # m <=> k \in 1 .. m - 1
        BY <1>1
    <2> QED BY <1>1, <2>1 DEF Last, OpenAt
<1>4. /\ open' = [k \in 1 .. m - 1 |-> [open[k] EXCEPT !.doomed = @ \/ (h.doomed /\ k \in others)]]
      /\ used' = IF h.doomed /\ others = {} THEN used \ {h.first} ELSE used
      /\ entries' = IF h.doomed /\ others = {} THEN [entries EXCEPT ![h.blk] = DropEntry(@, h.idx)] ELSE entries
      /\ next' = next /\ made' = made /\ creating' = creating /\ creating = NoCall
    BY <1>3 DEF EndRead
<1>5. open' = [k \in 1 .. m - 1 |-> [open[k] EXCEPT !.doomed = @ \/ k \in D]]
    <2>1. \A k : (h.doomed /\ k \in others) <=> k \in D
        OBVIOUS
    <2> HIDE DEF D
    <2>2. \A k : (open[k].doomed \/ (h.doomed /\ k \in others)) = (open[k].doomed \/ k \in D)
        BY <2>1
    <2> QED BY <1>4, <2>2
<1>6. \A k \in 1 .. m - 1 : k \in D <=> h.doomed /\ open[k].first = h.first
    OBVIOUS
<1> HIDE DEF D
<1>7. /\ Len(open') = m - 1 /\ DOMAIN open' = 1 .. m - 1
      /\ \A k \in 1 .. m - 1 :
            /\ open'[k].blk = open[k].blk /\ open'[k].idx = open[k].idx /\ open'[k].first = open[k].first
            /\ open'[k].doomed <=> (open[k].doomed \/ k \in D)
    BY <1>2, <1>5, Doomed
<1>8. \A k \in 1 .. m - 1 : k \in 1 .. m
    BY <1>1
<1>9. \A k \in 1 .. m - 1 : open'[k].doomed <=> (open[k].doomed \/ (h.doomed /\ open[k].first = h.first))
    BY <1>6, <1>7
<1> QED BY <1>1, <1>2, <1>4, <1>7, <1>8, <1>9

LEMMA EndReadCares ==
    ASSUME Careful, TypeOK, Structure, Cared, TypeOK', Structure', EndRead
    PROVE  Cared'
<1> DEFINE m == Len(open)
           h == open[m]
           others == {k \in 1 .. m - 1 : open[k].first = h.first}
<1>1. /\ m \in Nat /\ m \in 1 .. m /\ h \in OpenFile
      /\ Len(open') = m - 1 /\ DOMAIN open' = 1 .. m - 1
      /\ \A k \in 1 .. m - 1 :
           /\ k \in 1 .. m
           /\ open'[k].blk = open[k].blk /\ open'[k].idx = open[k].idx /\ open'[k].first = open[k].first
           /\ open'[k].doomed <=> (open[k].doomed \/ (h.doomed /\ open[k].first = h.first))
      /\ h.doomed /\ others = {} =>
           used' = used \ {h.first} /\ entries' = [entries EXCEPT ![h.blk] = DropEntry(@, h.idx)]
      /\ ~(h.doomed /\ others = {}) => used' = used /\ entries' = entries
      /\ next' = next /\ made' = made /\ creating' = creating /\ creating = NoCall
    BY EndReadOpen
<1>2. Settled <=> \A k \in 1 .. m : ~open[k].doomed
    BY SettledSays
<1>3. CASE Settled
    <2>1. ~h.doomed
        BY <1>1, <1>2, <1>3
    <2>2. used' = used /\ entries' = entries
        BY <1>1, <2>1
    <2>3. Settled'
        BY <1>1, <1>2, <1>3, <2>1 DEF Settled
    <2>4. Files' = Files
        BY <1>1, <2>2, FilesSame
    <2> QED BY <1>3, <2>2, <2>3, <2>4, StillCares
<1>4. CASE ~Settled
    <2>1. PICK b \in DirBlock : \E i \in 1 .. Len(entries[b]) : \E f \in DataBlock : Shown(b, i, f)
        BY <1>4 DEF Cared, DeletedIsShown
    <2>2. PICK i \in 1 .. Len(entries[b]) : \E f \in DataBlock : Shown(b, i, f)
        BY <2>1
    <2>3. PICK f \in DataBlock : Shown(b, i, f)
        BY <2>2
    <2>4. /\ entries[b][i].first = Deleted
          /\ \A x \in Files : (x.first = Deleted => x.name = NameAt(b, i)) /\ x.first # f
          /\ \A k \in 1 .. m :
                /\ open[k].doomed <=> open[k].first = f
                /\ open[k].doomed => open[k].blk = b /\ open[k].idx = i
        BY <2>3 DEF Shown
    <2>5. \A k \in 1 .. m - 1 : open'[k].doomed <=> open[k].first = f
        BY <1>1, <2>4
    <2>6. CASE h.doomed /\ others = {}
        <3>1. h.first = f /\ h.blk = b /\ h.idx = i
            BY <1>1, <2>4, <2>6
        <3>2. used' = used \ {f} /\ entries' = [entries EXCEPT ![b] = DropEntry(@, i)]
            BY <1>1, <2>6, <3>1
        <3>3. Files' = Others(NameAt(b, i))
            BY <1>1, <3>2, FilesDropped
        <3>4. Settled'
            BY <1>1, <2>5, <2>6, <3>1 DEF Settled
        <3>5. \A x \in Files' : x.first # Deleted /\ x \in Files
            BY <2>4, <3>3 DEF Others
        <3>6. InUse'
            <4>1. \A x \in Files' : x.first \in DataBlock => x \in Files /\ x.first \in used'
                BY <2>4, <3>2, <3>5 DEF Cared, InUse
            <4> QED BY <4>1, UseKept DEF Cared
        <3> QED BY <3>4, <3>5, <3>6, SettledShows DEF Cared
    <2>7. CASE ~(h.doomed /\ others = {})
        <3>1. used' = used /\ entries' = entries
            BY <1>1, <2>7
        <3>2. Files' = Files
            BY <1>1, <3>1, FilesSame
        <3>3. InUse'
            BY <3>1, <3>2, UseKept DEF Cared, InUse
        <3>4. \E k \in 1 .. m - 1 : open[k].first = f
            <4>1. CASE h.doomed
                <5>1. PICK k \in others : TRUE
                    BY <2>7, <4>1
                <5>2. h.first = f
                    BY <1>1, <2>4, <4>1
                <5> QED BY <5>1, <5>2
            <4>2. CASE ~h.doomed
                <5>1. PICK k \in 1 .. m : open[k].doomed
                    BY <1>2, <1>4
                <5>2. k \in 1 .. m - 1
                    BY <1>1, <4>2, <5>1
                <5> QED BY <2>4, <5>1, <5>2
            <4> QED BY <4>1, <4>2
        <3>5. ~Settled'
            BY <1>1, <2>5, <3>4 DEF Settled
        <3>6. NameAt(b, i)' = NameAt(b, i)
            <4>1. b \in MadeBlock
                BY EntriesAreMade
            <4> QED BY <1>1, <3>1, <4>1, NamesStay DEF NameAt
        <3>7. Shown(b, i, f)'
            <4>1. entries'[b][i].first = Deleted
                BY <2>4, <3>1
            <4>2. \A x \in Files' : (x.first = Deleted => x.name = NameAt(b, i)') /\ x.first # f
                BY <2>4, <3>2, <3>6
            <4>3. \A k \in 1 .. Len(open') :
                    /\ open'[k].doomed <=> open'[k].first = f
                    /\ open'[k].doomed => open'[k].blk = b /\ open'[k].idx = i
                BY <1>1, <2>4, <2>5
            <4> QED BY <4>1, <4>2, <4>3 DEF Shown, Deleted
        <3>8. DeletedIsShown'
            <4>1. i \in 1 .. Len(entries'[b]) /\ creating' = NoCall
                BY <1>1, <3>1
            <4> QED BY <3>5, <3>7, <4>1 DEF DeletedIsShown, DirBlock, NoCall
        <3> QED BY <3>3, <3>8 DEF Cared
    <2> QED BY <2>6, <2>7
<1> QED BY <1>3, <1>4

LEMMA CaredBegins == Init => Cared
<1> SUFFICES ASSUME Init PROVE Cared
    OBVIOUS
<1>1. open = <<>> /\ creating = NoCall /\ \A b \in DirBlock : entries[b] = <<>>
    BY DEF Init
<1>2. \A b \in DirBlock : Len(entries[b]) = 0
    BY <1>1
<1>3. Files = {}
    BY <1>2 DEF Files
<1>4. Settled
    BY <1>1 DEF Settled
<1> QED BY <1>1, <1>3, <1>4 DEF Cared, InUse, DeletedIsShown

LEMMA CaredStays ==
    ASSUME Careful, TypeOK, Structure, Cared, [Next]_vars
    PROVE  Cared'
<1>1. TypeOK' /\ Structure'
    BY StructureStays
<1>2. ASSUME NEW n \in Names, NEW v \in Contents \cup {Nothing}, Overwrite(n, v) PROVE Cared'
    BY <1>1, <1>2, OverwriteCares
<1>3. ASSUME NEW n \in Names, NEW v \in Contents \cup {Nothing}, StartCreate(n, v) PROVE Cared'
    BY <1>1, <1>3, StartCreateCares
<1>4. ASSUME NEW n \in Names, RemoveClosed(n) PROVE Cared'
    BY <1>1, <1>4, RemoveClosedCares
<1>5. ASSUME NEW n \in Names, RemoveOpen(n) PROVE Cared'
    BY <1>1, <1>5, RemoveOpenCares
<1>6. ASSUME NEW n \in Names, Read(n) PROVE Cared'
    BY <1>1, <1>6, ReadCares
<1>7. CASE Convert
    BY <1>1, <1>7, ConvertCares
<1>8. CASE Create
    BY <1>1, <1>8, CreateCares
<1>9. CASE EndRead
    BY <1>1, <1>9, EndReadCares
<1>10. CASE UNCHANGED vars
    <2>1. Files' = Files
        BY <1>1, <1>10, FilesSame DEF vars
    <2>2. /\ entries' = entries /\ next' = next /\ made' = made /\ used' = used
          /\ open' = open /\ creating' = creating
        BY <1>10 DEF vars
    <2>3. CASE Settled
        <3>1. Settled'
            BY <2>2, <2>3 DEF Settled
        <3> QED BY <1>1, <2>1, <2>2, <2>3, <3>1, StillCares
    <2>4. CASE ~Settled
        <3>1. PICK b \in DirBlock : \E i \in 1 .. Len(entries[b]) : \E f \in DataBlock : Shown(b, i, f)
            BY <2>4 DEF Cared, DeletedIsShown
        <3>2. PICK i \in 1 .. Len(entries[b]) : \E f \in DataBlock : Shown(b, i, f)
            BY <3>1
        <3>3. PICK f \in DataBlock : Shown(b, i, f)
            BY <3>2
        <3>4. NameAt(b, i)' = NameAt(b, i)
            <4>1. b \in MadeBlock
                BY EntriesAreMade
            <4> QED BY <1>1, <2>2, <4>1, NamesStay DEF NameAt
        <3>5. /\ entries[b][i].first = Deleted
              /\ \A x \in Files : (x.first = Deleted => x.name = NameAt(b, i)) /\ x.first # f
              /\ \A k \in 1 .. Len(open) :
                    /\ open[k].doomed <=> open[k].first = f
                    /\ open[k].doomed => open[k].blk = b /\ open[k].idx = i
            BY <3>3 DEF Shown
        <3>6. Shown(b, i, f)'
            <4>1. entries'[b][i].first = Deleted
                BY <2>2, <3>5
            <4>2. \A x \in Files' : (x.first = Deleted => x.name = NameAt(b, i)') /\ x.first # f
                BY <2>1, <3>4, <3>5
            <4>3. \A k \in 1 .. Len(open') :
                    /\ open'[k].doomed <=> open'[k].first = f
                    /\ open'[k].doomed => open'[k].blk = b /\ open'[k].idx = i
                BY <2>2, <3>5
            <4> QED BY <4>1, <4>2, <4>3 DEF Shown, Deleted
        <3>7. ~Settled' /\ creating' = NoCall
            BY <2>2, <2>4 DEF Settled, Cared, DeletedIsShown
        <3>8. i \in 1 .. Len(entries'[b])
            BY <2>2
        <3>9. DeletedIsShown'
            BY <3>6, <3>7, <3>8 DEF DeletedIsShown, DirBlock, NoCall
        <3>10. InUse'
            BY <2>1, <2>2, UseKept DEF Cared, InUse
        <3> QED BY <3>9, <3>10 DEF Cared
    <2> QED BY <2>3, <2>4
<1> QED BY <1>2, <1>3, <1>4, <1>5, <1>6, <1>7, <1>8, <1>9, <1>10 DEF Next

\* As long as a callback removes the file that is being read in its last call and where its
\* entry was: first blocks in use are not shared, and only an open file that was removed has
\* an entry without one (sack_vfs_os_unlink_file, sack_vfs_os_close).
THEOREM RemovedIsShown == Careful => (Spec => []Cared)
<1> SUFFICES ASSUME Careful PROVE Spec => []Cared
    OBVIOUS
<1>1. Init => TypeOK /\ Structure /\ Cared
    BY StructureBegins, CaredBegins
<1>2. TypeOK /\ Structure /\ Cared /\ [Next]_vars => TypeOK' /\ Structure' /\ Cared'
    BY StructureStays, CaredStays
<1>3. Spec => [](TypeOK /\ Structure /\ Cared)
    BY <1>1, <1>2, PTL DEF Spec
<1> QED BY <1>3, PTL

\* Every name is found where it is listed, and no other is found, whatever was created,
\* moved, removed or opened before: _os_ScanDirectory_ agrees with _os_iterate_find.
THEOREM LookupsAreExact == Careful => (Spec => []LookupIsExact)
<1> SUFFICES ASSUME Careful PROVE Spec => []LookupIsExact
    OBVIOUS
<1>1. TypeOK /\ Structure /\ Cared => LookupIsExact
    <2> SUFFICES ASSUME TypeOK, Structure, Cared, Settled
                 PROVE  Listing = {[name |-> n, at |-> Find(n)] : n \in {m \in Names : Found(Find(m))}}
        BY DEF LookupIsExact
    <2>1. ASSUME NEW b \in DirBlock, NEW i \in 1 .. Len(entries[b]) PROVE entries[b][i].first # Deleted
        <3>1. [name |-> NameAt(b, i), first |-> entries[b][i].first] \in Files
            BY FilesAre DEF FilesSay
        <3> QED BY <3>1 DEF Cared, DeletedIsShown
    <2>2. Tree /\ Filed /\ InOrder
        BY DEF Structure
    <2> QED BY <2>1, <2>2, ExactLookup
<1>2. Spec => []Cared
    BY RemovedIsShown
<1> QED BY <1>1, <1>2, TypesHold, StructureHolds, PTL

-----------------------------------------------------------------------------
(* The names as callers see them *)

ListingSays ==
    /\ \A l \in Listing : \E b \in DirBlock : \E i \in 1 .. Len(entries[b]) :
        l = [name |-> NameAt(b, i), at |-> <<b, i>>]
    /\ \A b \in DirBlock : \A i \in 1 .. Len(entries[b]) : [name |-> NameAt(b, i), at |-> <<b, i>>] \in Listing

LEMMA ListingIs == ASSUME TypeOK, Structure PROVE ListingSays
<1> DEFINE In(b) == {[name |-> Lead[b] \o entries[b][i].rest, at |-> <<b, i>>] : i \in DOMAIN entries[b]}
<1>1. Listing = UNION {In(b) : b \in MadeBlock}
    BY DEF Listing, MadeBlock
<1>2. ASSUME NEW b \in DirBlock
      PROVE  In(b) = {[name |-> NameAt(b, i), at |-> <<b, i>>] : i \in 1 .. Len(entries[b])}
    <2>1. DOMAIN entries[b] = 1 .. Len(entries[b])
        BY BlockEntries
    <2> QED BY <2>1 DEF NameAt
<1> HIDE DEF In
<1>3. ASSUME NEW l \in Listing
      PROVE  \E b \in DirBlock : \E i \in 1 .. Len(entries[b]) : l = [name |-> NameAt(b, i), at |-> <<b, i>>]
    <2>1. PICK b \in MadeBlock : l \in In(b)
        BY <1>1
    <2>2. b \in DirBlock
        BY TreeTypes
    <2> QED BY <1>2, <2>1, <2>2
<1>4. ASSUME NEW b \in DirBlock, NEW i \in 1 .. Len(entries[b])
      PROVE  [name |-> NameAt(b, i), at |-> <<b, i>>] \in Listing
    <2>1. b \in MadeBlock
        BY EntriesAreMade
    <2> QED BY <1>1, <1>2, <2>1
<1> QED BY <1>3, <1>4 DEF ListingSays

ContentAt(first) == IF first = DIR_ALLOCATING_MARK THEN Nothing ELSE data[first]

\* A name is there if its entry has a first block, and has the content of that.
StoredSays ==
    /\ Stored = [n \in Names |-> Stored[n]]
    /\ \A n \in Names : (\A x \in Files : x.name = n => x.first = Deleted) => Stored[n] = "absent"
    /\ \A x \in Files : x.first # Deleted => Stored[x.name] = ContentAt(x.first)

LEMMA StoredIs == TypeOK /\ Structure => StoredSays
<1> SUFFICES ASSUME TypeOK, Structure PROVE StoredSays
    OBVIOUS
<1> DEFINE live == {l \in Listing : EntryAt(l.at).first # Deleted}
           Chosen(n) == CHOOSE l \in live : l.name = n
<1>1. Stored = [n \in Names |->
            IF \A l \in live : l.name # n THEN "absent" ELSE ContentAt(EntryAt(Chosen(n).at).first)]
    BY DEF Stored, ContentAt
<1>2. FilesSay /\ ListingSays
    BY FilesAre, ListingIs
<1>3. ASSUME NEW l \in live
      PROVE  [name |-> l.name, first |-> EntryAt(l.at).first] \in Files /\ EntryAt(l.at).first # Deleted
    <2>1. PICK b \in DirBlock : \E i \in 1 .. Len(entries[b]) : l = [name |-> NameAt(b, i), at |-> <<b, i>>]
        BY <1>2 DEF ListingSays
    <2>2. PICK i \in 1 .. Len(entries[b]) : l = [name |-> NameAt(b, i), at |-> <<b, i>>]
        BY <2>1
    <2>3. EntryAt(l.at) = entries[b][i] /\ l.name = NameAt(b, i)
        BY <2>2 DEF EntryAt
    <2> QED BY <1>2, <2>3 DEF FilesSay
<1>4. ASSUME NEW x \in Files, x.first # Deleted PROVE \E l \in live : l.name = x.name
    <2>1. PICK b \in DirBlock : \E i \in 1 .. Len(entries[b]) : x.name = NameAt(b, i) /\ x.first = entries[b][i].first
        BY <1>2 DEF FilesSay
    <2>2. PICK i \in 1 .. Len(entries[b]) : x.name = NameAt(b, i) /\ x.first = entries[b][i].first
        BY <2>1
    <2> DEFINE l == [name |-> NameAt(b, i), at |-> <<b, i>>]
    <2>3. l \in Listing /\ l.name = x.name /\ EntryAt(l.at) = entries[b][i]
        BY <1>2, <2>2 DEF ListingSays, EntryAt
    <2> HIDE DEF l
    <2>4. l \in live
        BY <1>4, <2>2, <2>3
    <2> QED BY <2>3, <2>4
<1> HIDE DEF live, Chosen
<1>5. ASSUME NEW n \in Names, \A x \in Files : x.name = n => x.first = Deleted PROVE Stored[n] = "absent"
    <2>1. \A l \in live : l.name # n
        <3> SUFFICES ASSUME NEW l \in live, l.name = n PROVE FALSE
            OBVIOUS
        <3> DEFINE x == [name |-> l.name, first |-> EntryAt(l.at).first]
        <3>1. x \in Files /\ x.first # Deleted /\ x.name = n
            BY <1>3
        <3> HIDE DEF x
        <3> QED BY <1>5, <3>1
    <2> QED BY <1>1, <2>1
<1>6. ASSUME NEW x \in Files, x.first # Deleted PROVE Stored[x.name] = ContentAt(x.first)
    <2>1. PICK k \in live : k.name = x.name
        BY <1>4, <1>6
    <2>2. Chosen(x.name) \in live /\ Chosen(x.name).name = x.name
        BY <2>1 DEF Chosen
    <2> DEFINE l == Chosen(x.name)
               y == [name |-> l.name, first |-> EntryAt(l.at).first]
    <2>3. y \in Files /\ y.name = x.name
        BY <1>3, <2>2
    <2>4. y = x
        <3> HIDE DEF y
        <3> QED BY <1>2, <2>3 DEF FilesSay
    <2>5. EntryAt(l.at).first = x.first
        BY <2>4
    <2>6. x.name \in Names
        BY <1>2 DEF FilesSay
    <2>7. ~(\A m \in live : m.name # x.name)
        BY <2>1
    <2> QED BY <1>1, <2>5, <2>6, <2>7
<1> QED BY <1>1, <1>5, <1>6 DEF StoredSays

LEMMA StoredIsNext == TypeOK' /\ Structure' => StoredSays'
BY StoredIs, PTL

\* A name keeps its content with its first block and what that one has.
LEMMA StoredKeeps ==
    ASSUME TypeOK, Structure, TypeOK', Structure', NEW m \in Names,
           \A x \in Files : x.name = m /\ x.first # Deleted => x \in Files',
           \A x \in Files' : x.name = m /\ x.first # Deleted => x \in Files,
           \A x \in Files : x.name = m /\ x.first \in DataBlock => data'[x.first] = data[x.first]
    PROVE  Stored'[m] = Stored[m]
<1>1. StoredSays /\ FilesSay /\ FilesSay'
    BY StoredIs, FilesAre, FilesAreNext
<1>2. /\ (\A x \in Files' : x.name = m => x.first = Deleted) => Stored'[m] = "absent"
      /\ \A x \in Files' : x.first # Deleted =>
            Stored'[x.name] = IF x.first = DIR_ALLOCATING_MARK THEN Nothing ELSE data'[x.first]
    <2>1. StoredSays'
        BY StoredIsNext
    <2> QED BY <2>1 DEF StoredSays, ContentAt, Deleted, DIR_ALLOCATING_MARK
<1>3. CASE \E x \in Files : x.name = m /\ x.first # Deleted
    <2>1. PICK x \in Files : x.name = m /\ x.first # Deleted
        BY <1>3
    <2>2. x \in Files' /\ x.first \in DataBlock \cup {DIR_ALLOCATING_MARK}
        BY <1>1, <2>1 DEF FilesSay
    <2>3. Stored[m] = ContentAt(x.first)
        BY <1>1, <2>1 DEF StoredSays
    <2>4. Stored'[m] = IF x.first = DIR_ALLOCATING_MARK THEN Nothing ELSE data'[x.first]
        BY <1>2, <2>1, <2>2
    <2> QED BY <2>1, <2>2, <2>3, <2>4 DEF ContentAt
<1>4. CASE ~\E x \in Files : x.name = m /\ x.first # Deleted
    <2>1. Stored[m] = "absent"
        BY <1>1, <1>4 DEF StoredSays
    <2>2. \A x \in Files' : x.name = m => x.first = Deleted
        BY <1>4
    <2> QED BY <1>2, <2>1, <2>2
<1> QED BY <1>3, <1>4

LEMMA StoredStays ==
    ASSUME TypeOK, Structure, TypeOK', Structure', data' = data,
           \A x \in Files : x.first # Deleted => x \in Files',
           \A x \in Files' : x.first # Deleted => x \in Files
    PROVE  Stored' = Stored
<1>1. Stored = [n \in Names |-> Stored[n]]
    BY StoredIs DEF StoredSays
<1>2. Stored' = [n \in Names |-> Stored'[n]]
    <2>1. StoredSays'
        BY StoredIsNext
    <2> QED BY <2>1 DEF StoredSays
<1>3. \A m \in Names : Stored'[m] = Stored[m]
    BY StoredKeeps
<1> QED BY <1>1, <1>2, <1>3

LEMMA StoredChanges ==
    ASSUME TypeOK, Structure, TypeOK', Structure', NEW n \in Names,
           \A x \in Others(n) : x \in Files',
           \A x \in Files' : x.name # n => x \in Files,
           \A x \in Others(n) : x.first \in DataBlock => data'[x.first] = data[x.first]
    PROVE  Stored' = [Stored EXCEPT ![n] = Stored'[n]]
<1>1. Stored = [m \in Names |-> Stored[m]]
    BY StoredIs DEF StoredSays
<1>2. Stored' = [m \in Names |-> Stored'[m]]
    <2>1. StoredSays'
        BY StoredIsNext
    <2> QED BY <2>1 DEF StoredSays
<1>3. ASSUME NEW m \in Names, m # n PROVE Stored'[m] = Stored[m]
    <2>1. \A x \in Files : x.name = m => x \in Others(n)
        BY <1>3 DEF Others
    <2>2. /\ \A x \in Files : x.name = m /\ x.first # Deleted => x \in Files'
          /\ \A x \in Files' : x.name = m /\ x.first # Deleted => x \in Files
          /\ \A x \in Files : x.name = m /\ x.first \in DataBlock => data'[x.first] = data[x.first]
        BY <1>3, <2>1
    <2> QED BY <2>2, StoredKeeps
<1> QED BY <1>1, <1>2, <1>3

\* A name whose first block is gone is not there.
LEMMA StoredGoes ==
    ASSUME TypeOK, Structure, TypeOK', Structure', NEW n \in Names, data' = data,
           \A x \in Others(n) : x \in Files',
           \A x \in Files' : x.name # n => x \in Files,
           \A x \in Files' : x.name = n => x.first = Deleted
    PROVE  Stored' = [Stored EXCEPT ![n] = "absent"]
<1>1. StoredSays'
    BY StoredIsNext
<1>2. Stored'[n] = "absent"
    BY <1>1 DEF StoredSays, Deleted
<1>3. Stored' = [Stored EXCEPT ![n] = Stored'[n]]
    BY StoredChanges
<1> QED BY <1>2, <1>3

\* A name has what is written to it, and as the blocks of the others are in use it is
\* written to none of them.
LEMMA StoredWritten ==
    ASSUME TypeOK, Structure, TypeOK', Structure', InUse, NEW n \in Names, NEW old, NEW content,
           NEW first \in DataBlock \cup {DIR_ALLOCATING_MARK}, Rewritten(old, content, first),
           \A x \in Others(n) : x.first \in DataBlock => x.first # old,
           Files' = Others(n) \cup {[name |-> n, first |-> first]}
    PROVE  Stored' = [Stored EXCEPT ![n] = content]
<1> DEFINE new == [name |-> n, first |-> first]
<1>1. new \in Files' /\ new.name = n /\ new.first = first /\ first # Deleted
    BY Marks
<1>2. \A x \in Files' : x \in Others(n) \/ x.name = n
    OBVIOUS
<1>3. \A x \in Others(n) : x \in Files' /\ x \in Files
    BY DEF Others
<1> HIDE DEF new
<1>4. data \in [DataBlock -> Contents \cup {Nothing}]
    BY DEF TypeOK
<1>5. ASSUME NEW x \in Others(n), x.first \in DataBlock PROVE data'[x.first] = data[x.first]
    <2>1. x.first \in used \ {old}
        BY <1>3, <1>5 DEF InUse
    <2> QED BY <1>4, <1>5, <2>1 DEF Rewritten
<1>6. Stored' = [Stored EXCEPT ![n] = Stored'[n]]
    BY <1>2, <1>3, <1>5, StoredChanges
<1>7. Stored'[n] = IF first = DIR_ALLOCATING_MARK THEN Nothing ELSE data'[first]
    <2>1. StoredSays'
        BY StoredIsNext
    <2>2. \A x \in Files' : x.first # Deleted =>
            Stored'[x.name] = IF x.first = DIR_ALLOCATING_MARK THEN Nothing ELSE data'[x.first]
        BY <2>1 DEF StoredSays, ContentAt, Deleted, DIR_ALLOCATING_MARK
    <2> QED BY <1>1, <2>2
<1>8. Stored'[n] = content
    <2>1. CASE content = Nothing
        <3>1. first = DIR_ALLOCATING_MARK
            BY <2>1 DEF Rewritten
        <3> QED BY <1>7, <2>1, <3>1
    <2>2. CASE content # Nothing
        <3>1. first \in DataBlock /\ data' = [data EXCEPT ![first] = content]
            BY <2>2 DEF Rewritten
        <3>2. first # DIR_ALLOCATING_MARK
            BY <3>1, Marks
        <3> QED BY <1>4, <1>7, <3>1, <3>2
    <2> QED BY <2>1, <2>2
<1> QED BY <1>6, <1>8

LEMMA OverwriteStores ==
    ASSUME TypeOK, Structure, Cared, TypeOK', Structure',
           NEW n \in Names, NEW content \in Contents \cup {Nothing}, Overwrite(n, content)
    PROVE  Stored' = [Stored EXCEPT ![n] = content]
<1>1. PICK old \in DataBlock \cup {DIR_ALLOCATING_MARK} : \E first \in DataBlock \cup {DIR_ALLOCATING_MARK} :
              /\ [name |-> n, first |-> old] \in Files
              /\ Rewritten(old, content, first)
              /\ Files' = Others(n) \cup {[name |-> n, first |-> first]}
    BY OverwriteFiles
<1>2. PICK first \in DataBlock \cup {DIR_ALLOCATING_MARK} :
              /\ [name |-> n, first |-> old] \in Files
              /\ Rewritten(old, content, first)
              /\ Files' = Others(n) \cup {[name |-> n, first |-> first]}
    BY <1>1
<1>3. \A x \in Others(n) : x.first \in DataBlock => x.first # old
    <2> SUFFICES ASSUME NEW x \in Others(n), x.first \in DataBlock, x.first = old PROVE FALSE
        OBVIOUS
    <2> DEFINE y == [name |-> n, first |-> old]
    <2>1. x \in Files /\ x.name # n /\ y \in Files /\ y.first = x.first /\ y.name = n
        BY <1>2 DEF Others
    <2> HIDE DEF y
    <2> QED BY <2>1 DEF Cared, InUse
<1>4. InUse
    BY DEF Cared
<1> QED BY <1>2, <1>3, <1>4, StoredWritten

LEMMA CreateStores ==
    ASSUME TypeOK, Structure, Cared, TypeOK', Structure', Create
    PROVE  /\ creating.name \in Names /\ creating.content \in Contents \cup {Nothing}
           /\ Stored' = [Stored EXCEPT ![creating.name] = creating.content]
<1> DEFINE n == creating.name
           content == creating.content
<1>1. n \in Names /\ content \in Contents \cup {Nothing}
    BY FilesAdded
<1>2. PICK first \in DataBlock \cup {DIR_ALLOCATING_MARK} :
                /\ Rewritten(DIR_ALLOCATING_MARK, content, first)
                /\ Files' = Files \cup {[name |-> n, first |-> first]}
    BY FilesAdded
<1>3. Others(n) = Files
    BY FilesAdded DEF Others
<1> HIDE DEF n, content
<1>4. Files' = Others(n) \cup {[name |-> n, first |-> first]}
    BY <1>2, <1>3
<1>5. \A x \in Others(n) : x.first \in DataBlock => x.first # DIR_ALLOCATING_MARK
    BY Marks
<1>6. InUse
    BY DEF Cared
<1>7. Stored' = [Stored EXCEPT ![n] = content]
    BY <1>1, <1>2, <1>4, <1>5, <1>6, StoredWritten
<1> QED BY <1>1, <1>7 DEF n, content

LEMMA RemovesStored ==
    ASSUME TypeOK, Structure, TypeOK', Structure', NEW n \in Names,
           RemoveClosed(n) \/ (Careful /\ RemoveOpen(n))
    PROVE  Stored' = [Stored EXCEPT ![n] = "absent"]
<1>1. data' = data
    BY DEF RemoveClosed, RemoveOpen
<1>2. Files' = Others(n) \/ Files' = Others(n) \cup {[name |-> n, first |-> Deleted]}
    <2>1. CASE RemoveClosed(n)
        BY <2>1, RemoveClosedFiles
    <2>2. CASE Careful /\ RemoveOpen(n)
        <3>1. PICK b \in DirBlock : \E i \in 1 .. Len(entries[b]) : \E f \in DataBlock : LeavesEntry(n, b, i, f)
            BY <2>2, RemoveOpenFiles
        <3> QED BY <3>1 DEF LeavesEntry
    <2> QED BY <2>1, <2>2
<1>3. /\ \A x \in Others(n) : x \in Files' /\ x.name # n /\ x \in Files
      /\ \A x \in Files' : x \in Others(n) \/ (x.name = n /\ x.first = Deleted)
    BY <1>2 DEF Others
<1> QED BY <1>1, <1>3, StoredGoes

\* The end of a read drops no entry but that of a removed file.
LEMMA EndReadStores ==
    ASSUME TypeOK, Structure, Cared, TypeOK', Structure', EndRead
    PROVE  Stored' = Stored
<1> DEFINE m == Len(open)
           h == open[m]
           others == {k \in 1 .. m - 1 : open[k].first = h.first}
<1>1. /\ m \in 1 .. m
      /\ h.doomed /\ others = {} => entries' = [entries EXCEPT ![h.blk] = DropEntry(@, h.idx)]
      /\ ~(h.doomed /\ others = {}) => entries' = entries
      /\ next' = next /\ made' = made
    BY EndReadOpen
<1>2. data' = data
    BY DEF EndRead
<1>3. CASE h.doomed /\ others = {}
    <2>1. ~Settled
        BY <1>1, <1>3, SettledSays
    <2>2. PICK b \in DirBlock : \E i \in 1 .. Len(entries[b]) : \E f \in DataBlock : Shown(b, i, f)
        BY <2>1 DEF Cared, DeletedIsShown
    <2>3. PICK i \in 1 .. Len(entries[b]) : \E f \in DataBlock : Shown(b, i, f)
        BY <2>2
    <2>4. h.blk = b /\ h.idx = i /\ entries[b][i].first = Deleted
        BY <1>1, <1>3, <2>3 DEF Shown
    <2>5. Files' = Others(NameAt(b, i))
        <3>1. next' = next /\ made' = made /\ entries' = [entries EXCEPT ![b] = DropEntry(@, i)]
            BY <1>1, <1>3, <2>4
        <3> QED BY <3>1, FilesDropped
    <2>6. [name |-> NameAt(b, i), first |-> Deleted] \in Files
        BY <2>4, FilesAre DEF FilesSay
    <2>7. \A x \in Files : x.first # Deleted => x.name # NameAt(b, i)
        <3> DEFINE y == [name |-> NameAt(b, i), first |-> Deleted]
        <3>1. y \in Files /\ y.name = NameAt(b, i) /\ y.first = Deleted
            BY <2>6
        <3> HIDE DEF y
        <3>2. FilesSay
            BY FilesAre
        <3> QED BY <3>1, <3>2 DEF FilesSay
    <2>8. /\ \A x \in Files : x.first # Deleted => x \in Files'
          /\ \A x \in Files' : x.first # Deleted => x \in Files
        BY <2>5, <2>7 DEF Others
    <2> QED BY <1>2, <2>8, StoredStays
<1>4. CASE ~(h.doomed /\ others = {})
    <2>1. Files' = Files
        <3>1. entries' = entries /\ next' = next /\ made' = made
            BY <1>1, <1>4
        <3> QED BY <3>1, FilesSame
    <2> QED BY <1>2, <2>1, StoredStays
<1> QED BY <1>3, <1>4

LEMMA OneChange ==
    ASSUME NEW s, NEW D, NEW R, NEW n \in D, NEW v \in R
    PROVE  [s EXCEPT ![n] = v] \in {[s EXCEPT ![m] = w] : m \in D, w \in R}
OBVIOUS

LEMMA StepStores ==
    ASSUME Careful, TypeOK, Structure, Cared, [Next]_vars
    PROVE  [Store!Next]_Stored
<1>1. TypeOK' /\ Structure'
    BY StructureStays
<1>2. ASSUME NEW n \in Names, NEW v \in Contents \cup {Nothing, "absent"}, Stored' = [Stored EXCEPT ![n] = v]
      PROVE  [Store!Next]_Stored
    <2>1. v \in (Contents \cup {Nothing}) \cup {"absent"}
        OBVIOUS
    <2> DEFINE Values == (Contents \cup {Nothing}) \cup {"absent"}
    <2>2. n \in Names /\ v \in Values
        BY <2>1
    <2> HIDE DEF Values
    <2> DEFINE Changed == {[Stored EXCEPT ![m] = w] : m \in Names, w \in Values}
    <2>3. [Stored EXCEPT ![n] = v] \in Changed
        BY <2>2, OneChange
    <2> HIDE DEF Changed
    <2>4. Stored' \in Changed
        BY <1>2, <2>3
    <2>5. Store!Next
        BY <2>4 DEF Store!Next, Store!After, Values, Changed
    <2> QED BY <2>5
<1>3. ASSUME NEW n \in Names, NEW v \in Contents \cup {Nothing}, Overwrite(n, v) PROVE [Store!Next]_Stored
    BY <1>1, <1>2, <1>3, OverwriteStores
<1>4. ASSUME NEW n \in Names, RemoveClosed(n) \/ RemoveOpen(n) PROVE [Store!Next]_Stored
    BY <1>1, <1>2, <1>4, RemovesStored
<1>5. CASE Create
    <2>1. /\ creating.name \in Names /\ creating.content \in Contents \cup {Nothing, "absent"}
          /\ Stored' = [Stored EXCEPT ![creating.name] = creating.content]
        BY <1>1, <1>5, CreateStores
    <2> QED BY <1>2, <2>1
<1>6. CASE EndRead
    BY <1>1, <1>6, EndReadStores
<1>7. ASSUME Files' = Files, data' = data PROVE Stored' = Stored
    BY <1>1, <1>7, StoredStays
<1>8. CASE Convert
    <2>1. Files' = Files /\ data' = data
        BY <1>1, <1>8, FilesConverted DEF Convert
    <2> QED BY <1>7, <2>1
<1>9. ASSUME entries' = entries, next' = next, made' = made, data' = data PROVE Stored' = Stored
    <2>1. Files' = Files
        BY <1>1, <1>9, FilesSame
    <2> QED BY <1>7, <1>9, <2>1
<1>10. ASSUME NEW n \in Names, NEW v \in Contents \cup {Nothing}, StartCreate(n, v) PROVE Stored' = Stored
    BY <1>9, <1>10 DEF StartCreate
<1>11. ASSUME NEW n \in Names, Read(n) PROVE Stored' = Stored
    BY <1>9, <1>11 DEF Read
<1>12. CASE UNCHANGED vars
    BY <1>9, <1>12 DEF vars
<1> QED BY <1>3, <1>4, <1>5, <1>6, <1>8, <1>10, <1>11, <1>12 DEF Next

LEMMA StoreBegins == Init => Store!Init
<1> SUFFICES ASSUME Init PROVE Stored = [n \in Names |-> "absent"]
    BY DEF Store!Init
<1>1. StoredSays
    BY StructureBegins, StoredIs
<1>2. \A b \in DirBlock : Len(entries[b]) = 0
    BY DEF Init
<1>3. Files = {}
    BY <1>2 DEF Files
<1> QED BY <1>1, <1>3 DEF StoredSays

\* As long as a callback is careful the directory is a NamedObjects: a write or removal
\* changes what its own name has and no other, and a conversion or the close of a removed
\* file changes none, wherever entries move and whichever blocks are used again.
THEOREM DirectoryImplements == Careful => (Spec => ImplementsStore)
<1> SUFFICES ASSUME Careful PROVE Spec => ImplementsStore
    OBVIOUS
<1>1. TypeOK /\ Structure /\ Cared /\ [Next]_vars => [Store!Next]_Stored
    BY StepStores
<1>2. Spec => []Cared
    BY RemovedIsShown
<1> QED BY <1>1, <1>2, StoreBegins, TypesHold, StructureHolds, PTL DEF Spec, ImplementsStore, Store!Spec
=============================================================================
