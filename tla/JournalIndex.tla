------------------------------ MODULE JournalIndex ------------------------------
(***************************************************************************)
(* pJournaled, the sorted array in which vfs_os_record_rollback            *)
(* (src/src/sack/sack.cc) keeps the segments that are in the rollback       *)
(* journal: the binary search for a segment, the insertion of a new one at *)
(* the place the search ended, and the growth of the array.                *)
(*                                                                         *)
(* RollbackJournal takes the array for the set it stands for; this module  *)
(* says that it may.                                                       *)
(***************************************************************************)
EXTENDS Integers

CONSTANTS
    Segments,   \* segments that may be recorded
    Half        \* the comparison is made in an int of -Half .. Half - 1

ASSUME SegmentsAssumption == Segments \subseteq Nat
ASSUME HalfAssumption == Half \in Nat \ {0}

VARIABLES
    arr,                \* pJournaled[0 .. journalLength - 1]
    len, avail,         \* journalLength and journalAvail
    seg,                \* the segment that is looked for
    imin, imax, cur,    \* the search
    pc, known,          \* where the call is; whether its last search found seg
    seen                \* ghost: segments inserted since the journal was emptied

searchVars == <<imin, imax, cur>>
vars == <<arr, len, avail, seg, searchVars, pc, known, seen>>

TypeOK ==
    /\ len \in Nat
    /\ arr \in [0 .. len - 1 -> Segments]
    /\ avail \in Nat
    /\ seg \in Nat
    /\ imin \in Nat /\ imax \in Nat /\ cur \in Nat
    /\ pc \in {"idle", "search", "insert"}
    /\ known \in BOOLEAN
    /\ seen \subseteq Segments

Empty == [i \in 0 .. -1 |-> 0]

Init ==
    /\ len = 0 /\ arr = Empty /\ avail = 0
    /\ seg = 0 /\ imin = 0 /\ imax = 0 /\ cur = 0
    /\ pc = "idle" /\ known = FALSE
    /\ seen = {}

\* (int)(s - t): the difference of two block numbers, cut to an int.
Diff(s, t) == ((s - t + Half) % (2 * Half)) - Half

Ends(place, found) == pc' = place /\ known' = found
-----------------------------------------------------------------------------
\* A segment past the last one, or the last one, needs no search.
Begin(s) ==
    /\ pc = "idle"
    /\ seg' = s
    /\ \/ /\ len = 0
          /\ cur' = 0
          /\ Ends("insert", FALSE)
          /\ UNCHANGED <<imin, imax>>
       \/ /\ len > 0
          /\ s < arr[len - 1]
          /\ imin' = 0 /\ imax' = len - 1
          /\ cur' = (len - 1) \div 2
          /\ Ends("search", FALSE)
       \/ /\ len > 0
          /\ s = arr[len - 1]
          /\ Ends("idle", TRUE)
          /\ UNCHANGED searchVars
       \/ /\ len > 0
          /\ s > arr[len - 1]
          /\ cur' = len - 1
          /\ Ends("insert", FALSE)
          /\ UNCHANGED <<imin, imax>>
    /\ UNCHANGED <<arr, len, avail, seen>>

Searching == imin <= imax /\ cur <= imax

Found ==
    /\ pc = "search"
    /\ Searching
    /\ Diff(seg, arr[cur]) = 0
    /\ Ends("idle", TRUE)
    /\ UNCHANGED <<arr, len, avail, seg, searchVars, seen>>

\* mutant: the segment at cur stays in the window.
SearchUpperStays ==
    /\ pc = "search"
    /\ Searching
    /\ Diff(seg, arr[cur]) > 0
    /\ imin' = cur
    /\ cur' = (cur + imax) \div 2
    /\ UNCHANGED <<arr, len, avail, seg, imax, pc, known, seen>>

\* mutant: the segment after the one at cur is not looked at.
SearchUpperSkips ==
    /\ pc = "search"
    /\ Searching
    /\ Diff(seg, arr[cur]) > 0
    /\ imin' = cur + 2
    /\ cur' = (cur + 2 + imax) \div 2
    /\ UNCHANGED <<arr, len, avail, seg, imax, pc, known, seen>>

SearchUpper ==
    /\ pc = "search"
    /\ Searching
    /\ Diff(seg, arr[cur]) > 0
    /\ imin' = cur + 1
    /\ cur' = (cur + 1 + imax) \div 2
    /\ UNCHANGED <<arr, len, avail, seg, imax, pc, known, seen>>

\* mutant: the break at the first segment is missing.
SearchLowerPastZero ==
    /\ pc = "search"
    /\ Searching
    /\ Diff(seg, arr[cur]) < 0
    /\ imax' = cur - 1
    /\ cur' = (imin + cur - 1) \div 2
    /\ UNCHANGED <<arr, len, avail, seg, imin, pc, known, seen>>

SearchLower ==
    /\ pc = "search"
    /\ Searching
    /\ Diff(seg, arr[cur]) < 0
    /\ cur > 0
    /\ imax' = cur - 1
    /\ cur' = (imin + cur - 1) \div 2
    /\ UNCHANGED <<arr, len, avail, seg, imin, pc, known, seen>>

\* The segment comes before the first one, or the window is empty.
NotFound ==
    /\ pc = "search"
    /\ \/ Searching /\ Diff(seg, arr[cur]) < 0 /\ cur = 0
       \/ ~Searching
    /\ Ends("insert", FALSE)
    /\ UNCHANGED <<arr, len, avail, seg, searchVars, seen>>

\* mutant: a segment after the one at cur is put in its place.
PlaceAtCur == IF cur >= len THEN 0 ELSE IF seg < arr[cur] THEN cur
              ELSE IF cur + 1 >= len THEN cur + 1 ELSE cur

\* The search left cur next to the place of the segment; this is the place.
Place ==
    IF cur >= len THEN IF cur > 0 /\ seg < arr[cur - 1] THEN cur - 1 ELSE cur
    ELSE IF seg < arr[cur] THEN cur
    ELSE IF cur + 1 >= len THEN cur + 1
    ELSE CHOOSE k \in cur + 1 .. len - 1 :
             arr[k] >= seg /\ \A i \in cur + 1 .. k - 1 : arr[i] < seg

\* ExpandJournalIndex.
Expand == IF len + 1 >= avail THEN 2 * avail + 1 ELSE avail

\* Later segments are moved up by one.
Insert ==
    /\ pc = "insert"
    /\ avail' = Expand
    /\ arr' = [i \in 0 .. len |->
                 IF i < Place THEN arr[i] ELSE IF i = Place THEN seg ELSE arr[i - 1]]
    /\ len' = len + 1
    /\ seen' = seen \cup {seg}
    /\ Ends("idle", FALSE)
    /\ UNCHANGED <<seg, searchVars>>

\* Another record is in progress: the segment is queued and not inserted.
Queue ==
    /\ pc = "insert"
    /\ Ends("idle", FALSE)
    /\ UNCHANGED <<arr, len, avail, seg, searchVars, seen>>

\* vfs_os_empty_rollback; the array keeps its size.
EmptyIndex ==
    /\ pc = "idle"
    /\ len > 0
    /\ len' = 0 /\ arr' = Empty
    /\ seen' = {}
    /\ known' = FALSE
    /\ UNCHANGED <<avail, seg, searchVars, pc>>

Search == Found \/ SearchUpper \/ SearchLower \/ NotFound

Next ==
    \/ \E s \in Segments : Begin(s)
    \/ Search
    \/ Insert \/ Queue \/ EmptyIndex

Spec == Init /\ [][Next]_vars

\* The call is one thread's loop: it runs to its end.
Fairness == WF_vars(Search)

FairSpec == Spec /\ Fairness
-----------------------------------------------------------------------------
\* The array holds the segments of seen, each once and in order: the search and
\* the insertion agree on the place of a segment, wherever the search ended.
SortedSet ==
    /\ \A i, k \in 0 .. len - 1 : i < k => arr[i] < arr[k]
    /\ {arr[i] : i \in 0 .. len - 1} = seen

\* "sectors that are in rollback already" (sack.cc, at pJournaled): the answer of
\* the search is membership.  A segment is not recorded twice, and none is left
\* out.
IndexIsExact ==
    /\ pc = "idle" /\ known => seg \in seen
    /\ pc = "insert" => seg \notin seen

\* The insertion never reads or moves outside the array, which has room for one
\* segment more, and never finds the place wrong ("segment is bad", sack.cc).
InBounds ==
    pc = "insert" =>
        /\ len < Expand
        /\ Place \in 0 .. len
        /\ cur < len /\ 0 < cur /\ seg < arr[cur] => seg > arr[cur - 1]

\* The loop ends: the window shrinks in every round.
SearchEnds == pc = "search" ~> pc # "search"
=============================================================================
