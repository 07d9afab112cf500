---------------------------- MODULE ObjectDirectory ----------------------------
(***************************************************************************)
(* The directory of an object-store volume, and the files that are open    *)
(* while it changes (sack_vfs_os in src/src/sack/sack.cc).                 *)
(*                                                                         *)
(* The directory is a tree of blocks.  A block has entries, sorted by      *)
(* name, and leads by the next character of a name to other blocks, whose  *)
(* entries have the rest of it.  A block that is full moves the names that *)
(* share its most frequent first character to a new block.                 *)
(*                                                                         *)
(* The calls are those of objStore_module.cc.  A write opens, truncates,   *)
(* writes and closes its file in one call; a remove unlinks; a read keeps  *)
(* its file open while it calls back to JavaScript, which may then make    *)
(* any of these calls.  An open file points at its directory entry, by     *)
(* block and index, and nothing moves the pointer when entries move.       *)
(*                                                                         *)
(* Of the content of a file there is its first block, and what was written *)
(* there last.                                                             *)
(***************************************************************************)
EXTENDS Integers, Sequences, FiniteSets, SequencesExt

CONSTANTS
    Chars,      \* characters, as numbers
    Names,      \* sequences of characters
    Contents,   \* what a file may hold, besides nothing
    Capacity,   \* VFS_DIRECTORY_ENTRIES
    Careful,    \* a callback removes the file being read only as its last call,
                \* and only if no entry has moved
    DirBlocks,  \* bound: directory blocks
    DataBlock,  \* first blocks of files
    MaxOpen,    \* bound: files being read
    MaxOps      \* bound: calls that write, remove or read

ASSUME CharsAssumption == Chars \subseteq Nat \ {0} /\ Names \subseteq Seq(Chars) \ {<<>>}
ASSUME CapacityAssumption == Capacity \in Nat /\ Capacity > 1
ASSUME BoundAssumption == {DirBlocks, MaxOpen, MaxOps} \subseteq Nat /\ DirBlocks > 0
ASSUME CarefulAssumption == Careful \in BOOLEAN

\* _os_PathCaseCmpEx stops at the end of the name it looks for, so a name that
\* begins another one is taken for it.
ASSUME PrefixFree == \A m, n \in Names : IsPrefix(m, n) => m = n

DirBlock == 0 .. DirBlocks - 1
Root == 0               \* FIRST_DIR_BLOCK; as a child, no block
Deleted == 0            \* first_block of an entry whose file is unlinked but open
DIR_ALLOCATING_MARK == -1   \* first_block of a file without content

Nothing == "nothing"    \* the content of an empty file
ASSUME ContentsAssumption ==
    {Deleted, DIR_ALLOCATING_MARK} \cap DataBlock = {} /\ Nothing \notin Contents

NoCall == [name |-> <<>>, content |-> Nothing]

VARIABLES
    entries,    \* of each directory block, in order: rest of the name, first_block
    next,       \* next_block, by character
    made,       \* directory blocks in use
    used,       \* data blocks in use
    data,       \* what was written to the file that begins at the block
    open,       \* vol->files, the last one opened at the end
    creating,   \* the write that makes a new entry
    ops         \* calls made

vars == <<entries, next, made, used, data, open, creating, ops>>

Entry == [rest : Seq(Chars), first : DataBlock \cup {Deleted, DIR_ALLOCATING_MARK}]

TypeOK ==
    /\ entries \in [DirBlock -> Seq(Entry)]
    /\ \A b \in DirBlock : Len(entries[b]) <= Capacity
    /\ next \in [DirBlock -> [Chars -> DirBlock]]
    /\ made \in 1 .. DirBlocks
    /\ used \subseteq DataBlock
    /\ data \in [DataBlock -> Contents \cup {Nothing}]
    /\ open \in Seq([blk : DirBlock, idx : 1 .. Capacity, first : DataBlock, doomed : BOOLEAN])
    /\ Len(open) <= MaxOpen
    /\ creating = NoCall \/ creating \in [name : Names, content : Contents \cup {Nothing}]
    /\ ops \in 0 .. MaxOps

\* A new volume.
Init ==
    /\ entries = [b \in DirBlock |-> <<>>]
    /\ next = [b \in DirBlock |-> [c \in Chars |-> Root]]
    /\ made = 1
    /\ used = {}
    /\ data = [b \in DataBlock |-> Nothing]
    /\ open = <<>>
    /\ creating = NoCall
    /\ ops = 0
-----------------------------------------------------------------------------
\* The first place where two names differ, or one of them ends.
Differ(s, t) ==
    CHOOSE k \in 1 .. Len(s) + 1 :
        /\ k > Len(s) \/ k > Len(t) \/ s[k] # t[k]
        /\ \A j \in 1 .. k - 1 : j <= Len(t) /\ s[j] = t[j]

\* _os_MaskStrCmp: below, at or above 0 as name s comes before, is or comes after t.
Compare(s, t) ==
    LET k == Differ(s, t)
    IN  IF k > Len(s) THEN 0 ELSE IF k > Len(t) THEN s[k] ELSE s[k] - t[k]

\* One step of the way down: a character that leads to another block is used up.
Down(p) ==
    IF p.rest # <<>> /\ next[p.blk][Head(p.rest)] # Root
    THEN [blk |-> next[p.blk][Head(p.rest)], rest |-> Tail(p.rest)]
    ELSE p

\* The block a name leads to, and the rest of the name.
Descend(n) ==
    LET walk[k \in 0 .. Len(n)] == IF k = 0 THEN [blk |-> Root, rest |-> n] ELSE Down(walk[k - 1])
    IN  walk[Len(n)]

None == 0
Never == -1

\* curName, in the window between minName and usedNames.
Middle(w) == ((w.low - 1) + (w.high - 1)) \div 2 + 1

\* An entry of an unlinked file that is not the last of the window is looked at again,
\* for ever.
Stuck(s, w) == Middle(w) < w.high /\ s[Middle(w)].first = Deleted

\* One round of the binary search of _os_ScanDirectory_ for a name in a block's entries.
Narrow(s, rest, w) ==
    IF w.low > w.high \/ Stuck(s, w) THEN w
    ELSE LET d == Compare(rest, s[Middle(w)].rest)
         IN  IF d = 0 THEN w
             ELSE IF d > 0 THEN [w EXCEPT !.low = Middle(w) + 1]
             ELSE [w EXCEPT !.high = Middle(w) - 1]

\* Where the search ends: a round leaves fewer entries, or it is the last one.
Search(s, rest) ==
    LET window[k \in 0 .. Len(s)] ==
            IF k = 0 THEN [low |-> 1, high |-> Len(s)] ELSE Narrow(s, rest, window[k - 1])
        w == window[Len(s)]
    IN  IF w.low > w.high THEN None ELSE IF Stuck(s, w) THEN Never ELSE Middle(w)

\* Where _os_ScanDirectory finds a name: block and index, or None or Never for the latter.
Find(n) ==
    LET leaf == Descend(n) IN <<leaf.blk, Search(entries[leaf.blk], leaf.rest)>>

Found(p) == p[2] > None
EntryAt(p) == entries[p[1]][p[2]]

\* What a call does that finds the entry of an unlinked file, which has the number of
\* the directory's own block, is left out.
FoundLive(p) == Found(p) /\ EntryAt(p).first # Deleted

Settled == \A i \in DOMAIN open : ~open[i].doomed

\* A call to the volume, from the program or from the callback of a read.
Begin ==
    /\ creating = NoCall
    /\ Careful => Settled
    /\ ops < MaxOps
    /\ ops' = ops + 1
-----------------------------------------------------------------------------
\* The blocks of the old content are freed, and one is taken for the new one.
Rewritten(old, content, first) ==
    IF content = Nothing
    THEN first = DIR_ALLOCATING_MARK /\ used' = used \ {old} /\ UNCHANGED data
    ELSE /\ first \in DataBlock \ (used \ {old})
         /\ used' = (used \ {old}) \cup {first}
         /\ data' = [data EXCEPT ![first] = content]

\* fileWrite of a name that exists: open, truncate, write, close.
Overwrite(n, content) ==
    LET p == Find(n) IN
    /\ Begin
    /\ FoundLive(p)
    /\ \E first \in DataBlock \cup {DIR_ALLOCATING_MARK} :
        /\ Rewritten(EntryAt(p).first, content, first)
        /\ entries' = [entries EXCEPT ![p[1]][p[2]].first = first]
    /\ UNCHANGED <<next, made, open, creating>>

\* fileWrite of a name that does not exist.
StartCreate(n, content) ==
    /\ Begin
    /\ Find(n)[2] = None
    /\ creating' = [name |-> n, content |-> content]
    /\ UNCHANGED <<entries, next, made, used, data, open>>

\* mutant: a block may hold one entry more than it has room for.
FullTooLate(b) == Len(entries[b]) > Capacity

Full(b) == Len(entries[b]) = Capacity

FirstChar(e) == Head(e.rest)

\* The counter of an entry's first character when the entry is counted.
Count(s, i) == Cardinality({j \in 1 .. i : FirstChar(s[j]) = FirstChar(s[i])})

\* The character that the names begin with most often, the first to get there.
MostFrequent(s) ==
    FirstChar(s[CHOOSE i \in DOMAIN s : \A j \in DOMAIN s :
        Count(s, j) < Count(s, i) \/ (Count(s, j) = Count(s, i) /\ i <= j)])

\* The names that move are the first run of names with the character.
RunStart(s, c) ==
    CHOOSE i \in DOMAIN s : FirstChar(s[i]) = c /\ \A j \in 1 .. i - 1 : FirstChar(s[j]) # c

\* mutant: the last name of the run is left behind.
RunEndButLast(s, c) ==
    (CHOOSE i \in RunStart(s, c) .. Len(s) :
        /\ \A j \in RunStart(s, c) .. i : FirstChar(s[j]) = c
        /\ i < Len(s) => FirstChar(s[i + 1]) # c) - 1

RunEnd(s, c) ==
    CHOOSE i \in RunStart(s, c) .. Len(s) :
        /\ \A j \in RunStart(s, c) .. i : FirstChar(s[j]) = c
        /\ i < Len(s) => FirstChar(s[i + 1]) # c

WithoutFirst(e) == [e EXCEPT !.rest = Tail(@)]

\* ConvertDirectory, for a block that is full.
Convert ==
    LET b == Descend(creating.name).blk
        s == entries[b]
        c == MostFrequent(s)
        from == RunStart(s, c)
        to == RunEnd(s, c)
    IN  /\ creating # NoCall
        /\ Full(b)
        /\ made < DirBlocks
        /\ entries' = [entries EXCEPT
                ![b] = SubSeq(s, 1, from - 1) \o SubSeq(s, to + 1, Len(s)),
                ![made] = [i \in 1 .. to - from + 1 |-> WithoutFirst(s[from + i - 1])]]
        /\ next' = [next EXCEPT ![b][c] = made]
        /\ made' = made + 1
        /\ UNCHANGED <<used, data, open, creating, ops>>

\* Where a new name goes: before the first that comes after it.
PlaceFor(s, rest) ==
    CHOOSE k \in 1 .. Len(s) + 1 :
        /\ k <= Len(s) => Compare(rest, s[k].rest) < 0
        /\ \A j \in 1 .. k - 1 : Compare(rest, s[j].rest) >= 0

\* _os_GetNewDirectory in a block that has room, and the rest of fileWrite.
Create ==
    LET leaf == Descend(creating.name)
        s == entries[leaf.blk]
    IN  /\ creating # NoCall
        /\ ~Full(leaf.blk)
        /\ \E first \in DataBlock \cup {DIR_ALLOCATING_MARK} :
            /\ Rewritten(DIR_ALLOCATING_MARK, creating.content, first)
            /\ entries' = [entries EXCEPT ![leaf.blk] =
                    InsertAt(@, PlaceFor(s, leaf.rest), [rest |-> leaf.rest, first |-> first])]
        /\ creating' = NoCall
        /\ UNCHANGED <<next, made, open, ops>>
-----------------------------------------------------------------------------
\* The open files that begin at a block.
OpenAt(first) == {i \in DOMAIN open : open[i].first = first}

\* mutant: the entry before the one that is deleted goes.
DropBefore(s, i) == RemoveAt(s, IF i > 1 THEN i - 1 ELSE 1)

\* deleteDirectoryEntryName of the entry a file points at, which may have moved; if no
\* entry is there the last one is dropped.
DropEntry(s, i) == RemoveAt(s, IF i <= Len(s) THEN i ELSE Len(s))

\* sack_vfs_os_unlink_file of a file that is not open: blocks and entry go ...
RemoveClosed(n) ==
    LET p == Find(n) IN
    /\ Begin
    /\ FoundLive(p)
    /\ OpenAt(EntryAt(p).first) = {}
    /\ used' = used \ {EntryAt(p).first}
    /\ entries' = [entries EXCEPT ![p[1]] = DropEntry(@, p[2])]
    /\ UNCHANGED <<next, made, data, open, creating>>

\* ... or, if some open file begins at the same block, are left to its close.
RemoveOpen(n) ==
    LET p == Find(n) IN
    /\ Begin
    /\ FoundLive(p)
    /\ OpenAt(EntryAt(p).first) # {}
    /\ Careful => \A i \in OpenAt(EntryAt(p).first) : <<open[i].blk, open[i].idx>> = p
    /\ open' = [i \in DOMAIN open |->
            [open[i] EXCEPT !.doomed = @ \/ i \in OpenAt(EntryAt(p).first)]]
    /\ entries' = [entries EXCEPT ![p[1]][p[2]].first = Deleted]
    /\ UNCHANGED <<next, made, used, data, creating>>

\* fileRead opens a file that has content, and calls back.
Read(n) ==
    LET p == Find(n) IN
    /\ Begin
    /\ Len(open) < MaxOpen
    /\ Found(p)
    /\ EntryAt(p).first \in DataBlock
    /\ open' = Append(open,
            [blk |-> p[1], idx |-> p[2], first |-> EntryAt(p).first, doomed |-> FALSE])
    /\ UNCHANGED <<entries, next, made, used, data, creating>>

\* The callback returns, and the file is closed; the last close of a file that was
\* unlinked frees its blocks and deletes the entry.
EndRead ==
    LET h == Last(open)
        others == OpenAt(h.first) \ {Len(open)}
        delete == h.doomed /\ others = {}
    IN  /\ creating = NoCall
        /\ open # <<>>
        /\ open' = [i \in 1 .. Len(open) - 1 |->
                [open[i] EXCEPT !.doomed = @ \/ (h.doomed /\ i \in others)]]
        /\ used' = IF delete THEN used \ {h.first} ELSE used
        /\ entries' = IF delete THEN [entries EXCEPT ![h.blk] = DropEntry(@, h.idx)] ELSE entries
        /\ UNCHANGED <<next, made, data, creating, ops>>

Next ==
    \/ \E n \in Names :
        \/ \E v \in Contents \cup {Nothing} : Overwrite(n, v) \/ StartCreate(n, v)
        \/ RemoveClosed(n) \/ RemoveOpen(n) \/ Read(n)
    \/ Convert \/ Create \/ EndRead

Spec == Init /\ [][Next]_vars
-----------------------------------------------------------------------------
\* The block that leads to a block, and the characters on the way there.
Parent(b) == CHOOSE p \in 0 .. b - 1 : \E c \in Chars : next[p][c] = b
LastOf(b) == CHOOSE c \in Chars : next[Parent(b)][c] = b

Lead[b \in 0 .. made - 1] == IF b = Root THEN <<>> ELSE Append(Lead[Parent(b)], LastOf(b))

\* What a listing of the directory shows: names and where their entries are
\* (_os_iterate_find).
Listing ==
    UNION {{[name |-> Lead[b] \o entries[b][i].rest, at |-> <<b, i>>] : i \in DOMAIN entries[b]} :
           b \in 0 .. made - 1}

\* Every name is found where it is listed, once, and not found if it is not there:
\* whatever was created, moved to another block, removed or opened before
\* (_os_ScanDirectory_ against _os_GetNewDirectory, ConvertDirectory and
\* deleteDirectoryEntryName).
LookupIsExact ==
    Settled => Listing = {[name |-> n, at |-> Find(n)] : n \in {m \in Names : Found(Find(m))}}

\* "if file is deleted; don't check it's name." (sack.cc, in _os_ScanDirectory_): a
\* lookup gets past the entry of a file that was unlinked while it was open.
LookupsEnd == \A n \in Names : Find(n)[2] # Never

\* The contents of all names, by what is listed.
Stored ==
    LET live == {l \in Listing : EntryAt(l.at).first # Deleted}
        ContentAt(first) == IF first = DIR_ALLOCATING_MARK THEN Nothing ELSE data[first]
    IN  [n \in Names |->
            IF \A l \in live : l.name # n THEN "absent"
            ELSE ContentAt(EntryAt((CHOOSE l \in live : l.name = n).at).first)]

\* The directory keeps its names as its callers see them: a call changes the content of
\* its own name only, and neither a conversion nor the end of a read changes any.
Store == INSTANCE NamedObjects WITH
    Contents <- Contents \cup {Nothing},
    Absent   <- "absent",
    stored   <- Stored

ImplementsStore == Store!Spec
=============================================================================
