--------------------------- MODULE JournalIndex_proofs ---------------------------
(***************************************************************************)
(* Proofs about JournalIndex for any set of segments whose differences fit *)
(* the int of the comparison, and arrays of any length.                    *)
(***************************************************************************)
EXTENDS JournalIndex, TLAPS

\* Block numbers below 2^31 in the code.
Fits == Segments \subseteq 0 .. Half - 1

\* The difference of two segments is not cut.
LEMMA DiffExact ==
    ASSUME NEW s \in 0 .. Half - 1, NEW t \in 0 .. Half - 1
    PROVE  Diff(s, t) = s - t
<1> DEFINE x == s - t + Half
<1>1. x \in 0 .. 2 * Half - 1 /\ 2 * Half > 0
    BY HalfAssumption
<1>2. \A y, m \in Int : 0 <= y /\ y < m => y % m = y
    OBVIOUS
<1>3. x % (2 * Half) = x
    BY <1>1, <1>2, HalfAssumption
<1> QED
    BY <1>3, HalfAssumption DEF Diff

-----------------------------------------------------------------------------
\* What is outside the window is known to be before or after the segment.
Window ==
    pc = "search" =>
        /\ seg \in Segments
        /\ len > 0 /\ seg < arr[len - 1]
        /\ imax \in 0 .. len - 1
        /\ imin \in 0 .. imax + 1
        /\ cur = (imin + imax) \div 2
        /\ \A i \in 0 .. len - 1 :
               /\ i < imin => arr[i] < seg
               /\ i > imax => seg < arr[i]

\* After the search cur is at the place of the segment, or just before it.
NextToPlace ==
    pc = "insert" =>
        /\ seg \in Segments /\ seg \notin seen
        /\ \/ len = 0 /\ cur = 0
           \/ /\ cur \in 0 .. len - 1
              /\ seg < arr[cur] => cur = 0
              /\ seg > arr[cur] => cur = len - 1 \/ (cur + 1 < len /\ seg < arr[cur + 1])

\* The inductive invariant.
IInv ==
    /\ TypeOK
    /\ SortedSet
    /\ Window
    /\ NextToPlace
    /\ pc = "idle" /\ known => seg \in seen
    /\ len <= avail

\* The segments before the place are smaller, those from it on are larger.
LEMMA PlaceSplits ==
    ASSUME IInv, pc = "insert"
    PROVE  /\ Place \in 0 .. len
           /\ \A i \in 0 .. len - 1 : (i < Place => arr[i] < seg) /\ (i >= Place => seg < arr[i])
<1> USE DEF IInv, TypeOK, NextToPlace, SortedSet
<1> USE SegmentsAssumption
<1>0. \A i \in 0 .. len - 1 : arr[i] \in Nat /\ arr[i] # seg
    OBVIOUS
<1>1. CASE len = 0
    BY <1>1 DEF Place
<1>2. CASE len > 0 /\ seg < arr[cur]
    <2>1. cur = 0 /\ Place = 0
        BY <1>2 DEF Place
    <2>2. \A i \in 0 .. len - 1 : seg < arr[i]
        BY <1>0, <1>2, <2>1
    <2> QED
        BY <2>1, <2>2
<1>3. CASE len > 0 /\ seg > arr[cur] /\ cur = len - 1
    <2>1. Place = len
        BY <1>3, <1>0 DEF Place
    <2>2. \A i \in 0 .. len - 1 : arr[i] < seg
        BY <1>0, <1>3
    <2> QED
        BY <2>1, <2>2
<1>4. CASE len > 0 /\ seg > arr[cur] /\ cur + 1 < len
    <2> DEFINE After(k) == arr[k] >= seg /\ \A i \in cur + 1 .. k - 1 : arr[i] < seg
    <2>1. cur \in 0 .. len - 1 /\ cur + 1 \in cur + 1 .. len - 1 /\ seg < arr[cur + 1]
        BY <1>4
    <2>2. After(cur + 1)
        BY <2>1, <1>0
    <2>3. \A k \in cur + 1 .. len - 1 : After(k) => k = cur + 1
        BY <2>1, <1>0
    <2>4. (CHOOSE k \in cur + 1 .. len - 1 : After(k)) = cur + 1
        BY <2>1, <2>2, <2>3
    <2>5. Place = cur + 1
        BY <2>1, <2>4, <1>4, <1>0 DEF Place
    <2>6. \A i \in 0 .. len - 1 : (i < cur + 1 => arr[i] < seg) /\ (i >= cur + 1 => seg < arr[i])
        <3> SUFFICES ASSUME NEW i \in 0 .. len - 1
                     PROVE  (i < cur + 1 => arr[i] < seg) /\ (i >= cur + 1 => seg < arr[i])
            OBVIOUS
        <3>1. /\ i = cur \/ i < cur \/ i = cur + 1 \/ i > cur + 1
              /\ arr[i] \in Nat /\ arr[cur] \in Nat /\ arr[cur + 1] \in Nat /\ seg \in Nat
            BY <2>1, <1>0
        <3>2. (i < cur => arr[i] < arr[cur]) /\ (i > cur + 1 => arr[cur + 1] < arr[i])
            BY <2>1
        <3> QED
            BY <2>1, <1>4, <3>1, <3>2
    <2>7. cur + 1 \in 0 .. len
        BY <2>1
    <2> HIDE DEF IInv, TypeOK, NextToPlace, SortedSet
    <2> QED
        BY <2>5, <2>6, <2>7
<1> QED
    BY <1>0, <1>1, <1>2, <1>3, <1>4

\* Inserting at the place keeps the array sorted and adds the segment.
LEMMA InsertSteps == IInv /\ Insert => IInv'
<1> SUFFICES ASSUME IInv, Insert PROVE IInv'
    OBVIOUS
<1> USE SegmentsAssumption
<1>1. /\ Place \in 0 .. len
      /\ \A i \in 0 .. len - 1 : (i < Place => arr[i] < seg) /\ (i >= Place => seg < arr[i])
    BY PlaceSplits DEF Insert
<1> DEFINE p == Place
<1> HIDE DEF p
<1>2. /\ p \in 0 .. len
      /\ \A i \in 0 .. len - 1 : (i < p => arr[i] < seg) /\ (i >= p => seg < arr[i])
    BY <1>1 DEF p
<1>3. /\ len \in Nat /\ arr \in [0 .. len - 1 -> Segments] /\ seg \in Segments
      /\ \A i, k \in 0 .. len - 1 : i < k => arr[i] < arr[k]
      /\ {arr[i] : i \in 0 .. len - 1} = seen
    BY DEF IInv, TypeOK, SortedSet, NextToPlace, Insert
<1>4. /\ arr' = [i \in 0 .. len |-> IF i < p THEN arr[i] ELSE IF i = p THEN seg ELSE arr[i - 1]]
      /\ len' = len + 1 /\ len' - 1 = len
      /\ seen' = seen \cup {seg}
    BY <1>3 DEF Insert, p
<1>5. arr' \in [0 .. len' - 1 -> Segments]
    BY <1>2, <1>3, <1>4
<1>6. TypeOK'
    <2>1. avail' \in Nat
        BY DEF IInv, TypeOK, Insert, Expand
    <2>2. seen' \subseteq Segments /\ len' \in Nat
        BY <1>3, <1>4 DEF IInv, TypeOK
    <2>3. /\ seg' \in Nat /\ imin' \in Nat /\ imax' \in Nat /\ cur' \in Nat
          /\ pc' = "idle" /\ known' = FALSE
        BY DEF IInv, TypeOK, Insert, Ends, searchVars
    <2> QED
        BY <1>5, <2>1, <2>2, <2>3 DEF TypeOK
<1>7. \A i, k \in 0 .. len : i < k => arr'[i] < arr'[k]
    <2> SUFFICES ASSUME NEW i \in 0 .. len, NEW k \in 0 .. len, i < k PROVE arr'[i] < arr'[k]
        OBVIOUS
    <2>1. CASE k < p
        BY <2>1, <1>2, <1>3, <1>4
    <2>2. CASE k = p
        BY <2>2, <1>2, <1>3, <1>4
    <2>3. CASE k > p /\ i < p
        BY <2>3, <1>2, <1>3, <1>4
    <2>4. CASE k > p /\ i = p
        BY <2>4, <1>2, <1>3, <1>4
    <2>5. CASE k > p /\ i > p
        BY <2>5, <1>2, <1>3, <1>4
    <2> QED
        BY <2>1, <2>2, <2>3, <2>4, <2>5, <1>2
<1>8. {arr'[i] : i \in 0 .. len} = seen \cup {seg}
    <2>1. ASSUME NEW i \in 0 .. len PROVE arr'[i] \in seen \cup {seg}
        BY <1>2, <1>3, <1>4
    <2>2. ASSUME NEW i \in 0 .. len - 1 PROVE \E k \in 0 .. len : arr'[k] = arr[i]
        <3>1. CASE i < p
            BY <3>1, <1>2, <1>3, <1>4
        <3>2. CASE i >= p
            <4>1. i + 1 \in 0 .. len /\ arr'[i + 1] = arr[i]
                BY <3>2, <1>2, <1>3, <1>4
            <4> QED
                BY <4>1
        <3> QED
            BY <3>1, <3>2, <1>2
    <2>3. p \in 0 .. len /\ arr'[p] = seg
        BY <1>2, <1>3, <1>4
    <2> QED
        BY <2>1, <2>2, <2>3, <1>3
<1>9. SortedSet'
    BY <1>4, <1>7, <1>8 DEF SortedSet
<1>10. len' <= avail'
    BY <1>4 DEF IInv, TypeOK, Insert, Expand
<1> QED
    BY <1>6, <1>9, <1>10 DEF IInv, Window, NextToPlace, Insert, Ends

\* Looking up a segment ends with the answer, with an empty index, with the last
\* segment as its neighbour, or in a search of the whole array.
LEMMA BeginSteps ==
    ASSUME NEW s \in Segments, IInv, Begin(s)
    PROVE  IInv'
<1> USE SegmentsAssumption
<1>1. s \in Nat /\ len \in Nat /\ (len > 0 => len - 1 \in 0 .. len - 1)
    BY DEF IInv, TypeOK
<1>2. \A i \in 0 .. len - 1 : arr[i] \in Nat /\ (i < len - 1 => arr[i] < arr[len - 1])
    <2> SUFFICES ASSUME NEW i \in 0 .. len - 1
                 PROVE  arr[i] \in Nat /\ (i < len - 1 => arr[i] < arr[len - 1])
        OBVIOUS
    <2>1. arr[i] \in Nat
        BY DEF IInv, TypeOK
    <2>2. len - 1 \in 0 .. len - 1
        BY <1>1
    <2>3. \A k, j \in 0 .. len - 1 : k < j => arr[k] < arr[j]
        BY DEF IInv, SortedSet
    <2> QED
        BY <2>1, <2>2, <2>3
<1>3. \A t : t \in seen <=> \E i \in 0 .. len - 1 : arr[i] = t
    BY DEF IInv, SortedSet
<1>4. UNCHANGED <<arr, len, avail, seen>> /\ seg' = s /\ pc = "idle"
    BY DEF Begin
<1>5. SortedSet' /\ (len <= avail)'
    BY <1>4 DEF SortedSet, IInv
<1>6. CASE len = 0 /\ cur' = 0 /\ Ends("insert", FALSE) /\ UNCHANGED <<imin, imax>>
    <2>1. s \notin seen
        BY <1>3, <1>6
    <2> QED
        BY <1>1, <1>4, <1>5, <1>6, <2>1 DEF IInv, TypeOK, Window, NextToPlace, Ends
<1>7. CASE /\ len > 0 /\ s < arr[len - 1] /\ imin' = 0 /\ imax' = len - 1
           /\ cur' = (len - 1) \div 2 /\ Ends("search", FALSE)
    <2>1. cur' \in Nat /\ imax' \in 0 .. len - 1 /\ cur' = (imin' + imax') \div 2
        BY <1>1, <1>7
    <2>2. Window'
        BY <1>1, <1>2, <1>4, <1>7, <2>1 DEF Window
    <2>3. imin' \in Nat /\ imax' \in Nat /\ cur' \in Nat
        BY <1>1, <1>7, <2>1
    <2>4. TypeOK'
        BY <1>1, <1>4, <1>7, <2>3 DEF IInv, TypeOK, Ends
    <2> QED
        BY <1>4, <1>5, <1>7, <2>2, <2>4 DEF IInv, NextToPlace, Ends
<1>8. CASE len > 0 /\ s = arr[len - 1] /\ Ends("idle", TRUE) /\ UNCHANGED searchVars
    <2>1. s \in seen
        BY <1>1, <1>3, <1>8
    <2> QED
        BY <1>1, <1>4, <1>5, <1>8, <2>1 DEF IInv, TypeOK, Window, NextToPlace, Ends, searchVars
<1>9. CASE /\ len > 0 /\ s > arr[len - 1] /\ cur' = len - 1
           /\ Ends("insert", FALSE) /\ UNCHANGED <<imin, imax>>
    <2>1. s \notin seen
        BY <1>1, <1>2, <1>3, <1>9
    <2>2. NextToPlace'
        BY <1>1, <1>2, <1>4, <1>9, <2>1 DEF NextToPlace, Ends
    <2>3. imin' \in Nat /\ imax' \in Nat /\ cur' \in Nat
        BY <1>1, <1>9 DEF IInv, TypeOK
    <2>4. TypeOK'
        BY <1>1, <1>4, <1>9, <2>3 DEF IInv, TypeOK, Ends
    <2> QED
        BY <1>4, <1>5, <1>9, <2>2, <2>4 DEF IInv, Window, Ends
<1> QED
    BY <1>6, <1>7, <1>8, <1>9 DEF Begin

\* A round of the search keeps the window: the segment at cur is outside the new
\* one, and so is everything before or after it.
LEMMA SearchSteps ==
    ASSUME Fits, IInv, Search
    PROVE  IInv'
<1> USE SegmentsAssumption
<1>1. /\ len \in Nat /\ imin \in Nat /\ imax \in Nat /\ cur \in Nat
      /\ seg \in Segments /\ seg \in Nat /\ len > 0 /\ seg < arr[len - 1]
      /\ imax \in 0 .. len - 1 /\ imin \in 0 .. imax + 1
      /\ cur = (imin + imax) \div 2
      /\ pc = "search"
    BY DEF IInv, TypeOK, Window, Search, Found, SearchUpper, SearchLower, NotFound
<1>2. \A i \in 0 .. len - 1 : (i < imin => arr[i] < seg) /\ (i > imax => seg < arr[i])
    BY <1>1 DEF IInv, Window
<1>3. \A i \in 0 .. len - 1 : arr[i] \in Segments /\ arr[i] \in Nat
    BY DEF IInv, TypeOK
<1>4. \A i, k \in 0 .. len - 1 : i < k => arr[i] < arr[k]
    BY DEF IInv, SortedSet
<1>5. \A t : t \in seen <=> \E i \in 0 .. len - 1 : arr[i] = t
    BY DEF IInv, SortedSet
<1>6. UNCHANGED <<arr, len, avail, seg, seen>>
    BY DEF Search, Found, SearchUpper, SearchLower, NotFound
<1>7. SortedSet' /\ (len <= avail)'
    BY <1>6 DEF SortedSet, IInv
<1>8. Searching => cur \in imin .. imax /\ cur \in 0 .. len - 1
    BY <1>1 DEF Searching
<1>9. ~Searching => imin = imax + 1 /\ cur = imax
    BY <1>1 DEF Searching
<1>10. Searching => Diff(seg, arr[cur]) = seg - arr[cur]
    BY <1>1, <1>3, <1>8, DiffExact DEF Fits
<1>11. CASE Found
    <2>1. seg = arr[cur] /\ cur \in 0 .. len - 1
        BY <1>1, <1>3, <1>8, <1>10, <1>11 DEF Found
    <2>2. seg \in seen
        BY <1>5, <2>1
    <2> QED
        BY <1>1, <1>6, <1>7, <1>11, <2>2 DEF IInv, TypeOK, Window, NextToPlace, Found, Ends, searchVars
<1>12. CASE SearchUpper
    <2>1. /\ arr[cur] < seg /\ cur \in imin .. imax /\ cur \in 0 .. len - 1
          /\ imin' = cur + 1 /\ imax' = imax /\ cur' = (imin' + imax') \div 2
        BY <1>1, <1>3, <1>8, <1>10, <1>12 DEF SearchUpper
    <2>2. \A i \in 0 .. len - 1 : i < cur + 1 => arr[i] < seg
        BY <1>1, <1>3, <1>4, <2>1
    <2>3. imin' \in 0 .. imax' + 1 /\ imax' \in 0 .. len' - 1 /\ imin' \in Nat /\ cur' \in Nat
        BY <1>1, <1>6, <2>1
    <2>4. Window'
        BY <1>1, <1>2, <1>6, <2>1, <2>2, <2>3 DEF Window
    <2> QED
        BY <1>1, <1>6, <1>7, <1>12, <2>1, <2>3, <2>4 DEF IInv, TypeOK, NextToPlace, SearchUpper
<1>13. CASE SearchLower
    <2>1. /\ seg < arr[cur] /\ cur \in imin .. imax /\ cur \in 0 .. len - 1 /\ cur > 0
          /\ imax' = cur - 1 /\ imin' = imin /\ cur' = (imin' + imax') \div 2
        BY <1>1, <1>3, <1>8, <1>10, <1>13 DEF SearchLower
    <2>2. \A i \in 0 .. len - 1 : i > cur - 1 => seg < arr[i]
        BY <1>1, <1>3, <1>4, <2>1
    <2>3. imin' \in 0 .. imax' + 1 /\ imax' \in 0 .. len' - 1 /\ imax' \in Nat /\ cur' \in Nat
        BY <1>1, <1>6, <2>1
    <2>4. Window'
        BY <1>1, <1>2, <1>6, <2>1, <2>2, <2>3 DEF Window
    <2> QED
        BY <1>1, <1>6, <1>7, <1>13, <2>1, <2>3, <2>4 DEF IInv, TypeOK, NextToPlace, SearchLower
<1>14. CASE NotFound
    <2>1. CASE Searching /\ Diff(seg, arr[cur]) < 0 /\ cur = 0
        <3>1. seg < arr[0] /\ cur = 0
            BY <1>1, <1>3, <1>8, <1>10, <2>1
        <3>2. seg \notin seen
            BY <1>1, <1>3, <1>4, <1>5, <3>1
        <3>3. NextToPlace'
            <4>1. cur' = 0 /\ 0 \in 0 .. len' - 1 /\ ~(seg' > arr'[cur'])
                BY <1>1, <1>3, <1>6, <1>14, <3>1 DEF NotFound, searchVars
            <4> QED
                BY <1>1, <1>6, <3>2, <4>1 DEF NextToPlace
        <3> QED
            BY <1>1, <1>6, <1>7, <1>14, <3>3 DEF IInv, TypeOK, Window, NotFound, Ends, searchVars
    <2>2. CASE ~Searching
        <3>1. /\ cur \in 0 .. len - 1 /\ arr[cur] < seg
              /\ cur + 1 < len => seg < arr[cur + 1]
            BY <1>1, <1>2, <1>9, <2>2
        <3>2. cur + 1 < len
            BY <1>1, <1>3, <3>1
        <3>3. \A i \in 0 .. len - 1 : arr[i] # seg
            BY <1>1, <1>2, <1>3, <1>9, <2>2
        <3>4. seg \notin seen
            BY <1>5, <3>3
        <3>5. NextToPlace'
            BY <1>1, <1>3, <1>6, <1>14, <3>1, <3>2, <3>4 DEF NextToPlace, NotFound, Ends, searchVars
        <3> QED
            BY <1>1, <1>6, <1>7, <1>14, <3>5 DEF IInv, TypeOK, Window, NotFound, Ends, searchVars
    <2> QED
        BY <1>14, <2>1, <2>2 DEF NotFound
<1> QED
    BY <1>11, <1>12, <1>13, <1>14 DEF Search

\* The invariant holds as long as the differences of the segments fit.
LEMMA Invariance == ASSUME Fits PROVE Spec => []IInv
<1>1. Init => IInv
    <2> SUFFICES ASSUME Init PROVE IInv
        OBVIOUS
    <2>1. 0 .. len - 1 = {} /\ 0 .. -1 = {}
        BY DEF Init
    <2>2. TypeOK
        BY <2>1 DEF Init, Empty, TypeOK
    <2>3. SortedSet
        BY <2>1 DEF Init, SortedSet
    <2> QED
        BY <2>2, <2>3 DEF Init, IInv, Window, NextToPlace
<1>2. IInv /\ [Next]_vars => IInv'
    <2> SUFFICES ASSUME IInv, [Next]_vars PROVE IInv'
        OBVIOUS
    <2>1. CASE \E s \in Segments : Begin(s)
        BY <2>1, BeginSteps
    <2>2. CASE Search
        BY <2>2, SearchSteps
    <2>3. CASE Insert
        BY <2>3, InsertSteps
    <2>4. CASE Queue
        BY <2>4 DEF Queue, Ends, IInv, TypeOK, SortedSet, Window, NextToPlace, searchVars
    <2>5. CASE EmptyIndex
        BY <2>5 DEF EmptyIndex, Empty, IInv, TypeOK, SortedSet, Window, NextToPlace, searchVars
    <2>6. CASE UNCHANGED vars
        BY <2>6 DEF vars, IInv, TypeOK, SortedSet, Window, NextToPlace, searchVars
    <2> QED
        BY <2>1, <2>2, <2>3, <2>4, <2>5, <2>6 DEF Next
<1> QED
    BY <1>1, <1>2, PTL DEF Spec

\* The types: no index of the search leaves the natural numbers.
THEOREM IndexTyping == ASSUME Fits PROVE Spec => []TypeOK
BY Invariance, PTL DEF IInv

\* pJournaled is a sorted array without repetition of the segments inserted.
THEOREM StaysSorted == ASSUME Fits PROVE Spec => []SortedSet
BY Invariance, PTL DEF IInv

\* The search of vfs_os_record_rollback answers membership, for an array of any
\* length, so that RollbackJournal may take pJournaled for a set.
THEOREM SearchIsMembership == ASSUME Fits PROVE Spec => []IndexIsExact
<1>1. IInv => IndexIsExact
    BY DEF IInv, NextToPlace, IndexIsExact
<1> QED
    BY <1>1, Invariance, PTL

\* The insertion stays inside the array, which ExpandJournalIndex has extended in
\* time, and the place is never "bad".
THEOREM InsertionInBounds == ASSUME Fits PROVE Spec => []InBounds
<1>1. IInv => InBounds
    <2> SUFFICES ASSUME IInv, pc = "insert" PROVE InBounds
        BY DEF InBounds
    <2>1. Place \in 0 .. len
        BY PlaceSplits
    <2>2. len < Expand
        BY DEF IInv, TypeOK, Expand
    <2>3. cur < len /\ 0 < cur => ~(seg < arr[cur])
        BY DEF IInv, TypeOK, NextToPlace
    <2> QED
        BY <2>1, <2>2, <2>3 DEF InBounds
<1> QED
    BY <1>1, Invariance, PTL
=============================================================================
