------------------------------ MODULE BlockTable ------------------------------
(***************************************************************************)
(* The block allocation tables (BATs) of an object-store volume, and the   *)
(* lists kept in memory beside them (sack_vfs_os in src/src/sack/sack.cc). *)
(*                                                                         *)
(* A table is a sector of entries, one per block that follows it.  An      *)
(* entry is 0 for a free block, EOFBLOCK for the last block of a file, the *)
(* number of the next block of the file, or EOBBLOCK, which marks where    *)
(* the unused end of the tables of a kind begins.  The tables of a volume  *)
(* are of two kinds: of large blocks and of small ones.                    *)
(*                                                                         *)
(* A file is used the way the addon uses it: a write opens it, truncates   *)
(* it to nothing, writes all of its content and closes it, each under a    *)
(* lock of the volume of its own; a delete frees the blocks in one locked  *)
(* section.  The flusher writes the marked tables whenever it gets the     *)
(* lock, and the volume may be unloaded and loaded again.                  *)
(*                                                                         *)
(* Only marked (smudged) tables are ever written.  A truncate does not     *)
(* mark the tables it frees blocks in, so the tables in memory and on the  *)
(* disk may differ in blocks nobody owns.                                  *)
(***************************************************************************)
EXTENDS Integers, Sequences, FiniteSets, FiniteSetsExt

CONSTANTS
    Files,
    PerBat,     \* BLOCKS_PER_BAT
    Tables,     \* bound: tables a volume grows to
    MaxBlocks,  \* bound: blocks of a file
    MaxOps      \* bound: writes and deletes of a behaviour

ASSUME SizeAssumption == PerBat \in Nat /\ PerBat > 4 /\ Tables \in Nat /\ Tables > 1
ASSUME BoundAssumption == MaxBlocks \in Nat /\ MaxOps \in Nat

Kinds == {"large", "small"}
Table == 0 .. Tables - 1
Block == 0 .. PerBat * Tables - 1

Free == 0
EOBBLOCK == 1
EOFBLOCK == -1

\* The first blocks of a new volume, which no file owns: directory, names,
\* rollback and journal blocks, and the small journal's block.
System == 0 .. 3 \cup {PerBat}

NoFile == "none"
ASSUME FilesAssumption == NoFile \notin Files

TableOf(b) == b \div PerBat
BlocksOf(t) == PerBat * t .. PerBat * t + PerBat - 1

VARIABLES
    bat,        \* the entries, as the cache has them
    kind,       \* of each table (entry BLOCKS_PER_BAT); "none" before it is made
    last,       \* vol->lastBatBlock, vol->lastBatSmallBlock
    free,       \* vol->pdlFreeBlocks, vol->pdlFreeSmallBlocks, the order left out
    first,      \* first_block of each file's directory entry
    dirty,      \* tables that are marked to be written
    disk,       \* tables and directory entries at the last flush
    step,       \* where the operation in progress is
    file,       \* the file it works on
    cur,        \* the block it has reached
    owner,      \* ghost: the file that got the block and has not freed it
    ops         \* writes and deletes begun

tables == <<bat, kind, last, free, dirty>>
vars == <<tables, first, disk, step, file, cur, owner, ops>>

Steps == {"idle", "shrink", "truncated", "write", "unlink"}

TypeOK ==
    /\ bat \in [Block -> Block \cup {EOFBLOCK}]
    /\ kind \in [Table -> Kinds \cup {"none"}]
    /\ last \in [Kinds -> Block]
    /\ free \in [Kinds -> SUBSET Block]
    /\ first \in [Files -> Block \cup {EOFBLOCK}]
    /\ dirty \subseteq Table
    /\ disk \in [bat : [Block -> Block \cup {EOFBLOCK}], kind : [Table -> Kinds \cup {"none"}],
                 first : [Files -> Block \cup {EOFBLOCK}], owner : [Block -> Files \cup {NoFile}]]
    /\ step \in Steps
    /\ file \in Files \cup {NoFile}
    /\ cur \in Block \cup {EOFBLOCK}
    /\ owner \in [Block -> Files \cup {NoFile}]
    /\ ops \in 0 .. MaxOps

\* A volume that has just been created and loaded.
Init ==
    /\ bat = [b \in Block |-> IF b \in System THEN EOFBLOCK
                              ELSE IF b \in {4, PerBat + 1} THEN EOBBLOCK ELSE Free]
    /\ kind = [t \in Table |-> IF t = 0 THEN "large" ELSE IF t = 1 THEN "small" ELSE "none"]
    /\ last = [k \in Kinds |-> IF k = "large" THEN 4 ELSE PerBat + 1]
    /\ free = [k \in Kinds |-> {}]
    /\ first = [f \in Files |-> EOFBLOCK]
    /\ dirty = {}
    /\ step = "idle" /\ file = NoFile /\ cur = EOFBLOCK
    /\ owner = [b \in Block |-> NoFile]
    /\ ops = 0
    /\ disk = [bat |-> bat, kind |-> kind, first |-> first, owner |-> owner]

\* The operation is at step s of its work on file f, at block b.
Goto(s, f, b) == step' = s /\ file' = f /\ cur' = b
Return == Goto("idle", NoFile, EOFBLOCK)

Begin == step = "idle" /\ ops < MaxOps /\ ops' = ops + 1
-----------------------------------------------------------------------------
\* mutant: the link is lost when the new block is in another table.
LinkedInTable(t, prev, b) ==
    IF prev = EOFBLOCK \/ TableOf(prev) # TableOf(b) THEN t ELSE [t EXCEPT ![prev] = b]

\* The tables t with the last block of the file linked to b.
Linked(t, prev, b) == IF prev = EOFBLOCK THEN t ELSE [t EXCEPT ![prev] = b]

\* mutant: the number of the block is marked, not its table.
SmudgeEntry(blocks) == dirty' = dirty \cup (blocks \ {EOFBLOCK})

\* The tables of the blocks are marked to be written.
Smudge(blocks) == dirty' = dirty \cup {TableOf(b) : b \in blocks \ {EOFBLOCK}}

\* mutant: the block stays in the list.
TakeFreedTwice(k, prev, b) ==
    /\ b \in free[k]
    /\ bat' = Linked([bat EXCEPT ![b] = EOFBLOCK], prev, b)
    /\ Smudge({prev, b})
    /\ UNCHANGED <<kind, last, free>>

\* mutant: the tables are not marked.
TakeFreedUnmarked(k, prev, b) ==
    /\ b \in free[k]
    /\ free' = [free EXCEPT ![k] = @ \ {b}]
    /\ bat' = Linked([bat EXCEPT ![b] = EOFBLOCK], prev, b)
    /\ UNCHANGED <<kind, last, dirty>>

\* _os_GetFreeBlock_: a block that was freed is taken first ...
TakeFreed(k, prev, b) ==
    /\ b \in free[k]
    /\ free' = [free EXCEPT ![k] = @ \ {b}]
    /\ bat' = Linked([bat EXCEPT ![b] = EOFBLOCK], prev, b)
    /\ Smudge({prev, b})
    /\ UNCHANGED <<kind, last>>

\* ... then the block at the marker, which moves to the next entry ...
TakeMarked(k, prev, b) ==
    /\ free[k] = {}
    /\ b = last[k]
    /\ b % PerBat < PerBat - 1
    /\ bat' = Linked([bat EXCEPT ![b] = EOFBLOCK, ![b + 1] = EOBBLOCK], prev, b)
    /\ last' = [last EXCEPT ![k] = b + 1]
    /\ Smudge({prev, b})
    /\ UNCHANGED <<kind, free>>

\* mutant: the new table comes behind the last one of its own kind.
TakeLastOfKind(k, prev, b) ==
    LET new == TableOf(last[k]) + 1
        begin == PerBat * new
    IN  /\ free[k] = {}
        /\ b = last[k]
        /\ b % PerBat = PerBat - 1
        /\ new \in Table
        /\ bat' = Linked([bat EXCEPT ![b] = EOFBLOCK, ![begin] = EOBBLOCK], prev, b)
        /\ kind' = [kind EXCEPT ![new] = k]
        /\ last' = [last EXCEPT ![k] = begin]
        /\ Smudge({prev, b, begin})
        /\ UNCHANGED free

\* ... or to a new table, behind the last table of either kind.
TakeLastOfTable(k, prev, b) ==
    LET new == TableOf(Max({last["large"], last["small"]})) + 1
        begin == PerBat * new
    IN  /\ free[k] = {}
        /\ b = last[k]
        /\ b % PerBat = PerBat - 1
        /\ new \in Table
        /\ bat' = Linked([bat EXCEPT ![b] = EOFBLOCK, ![begin] = EOBBLOCK], prev, b)
        /\ kind' = [kind EXCEPT ![new] = k]
        /\ last' = [last EXCEPT ![k] = begin]
        /\ Smudge({prev, b, begin})
        /\ UNCHANGED free

GetFreeBlock(k, prev, b) ==
    TakeFreed(k, prev, b) \/ TakeMarked(k, prev, b) \/ TakeLastOfTable(k, prev, b)
-----------------------------------------------------------------------------
\* sack_vfs_os_openfile and sack_vfs_os_truncate at position 0: a file without
\* content has nothing to shrink.
Truncate(f) ==
    /\ Begin
    /\ Goto(IF first[f] = EOFBLOCK THEN "truncated" ELSE "shrink", f, first[f])
    /\ UNCHANGED <<tables, first, disk, owner>>

\* The block is freed, into the list of its own kind: both loops read it first, to be
\* cleared (VFS_OS_PARANOID_TRUNCATE is defined), and go by the size found there.
FreeBlock ==
    LET k == kind[TableOf(cur)] IN
    /\ bat' = [bat EXCEPT ![cur] = Free]
    /\ free' = [free EXCEPT ![k] = @ \cup {cur}]
    /\ owner' = [owner EXCEPT ![cur] = NoFile]
    /\ UNCHANGED <<kind, last, disk, ops>>

\* One turn of the loop of _os_shrinkBAT.  The table is not marked.
ShrinkBlock ==
    /\ step = "shrink"
    /\ FreeBlock
    /\ IF bat[cur] = EOFBLOCK
       THEN Goto("truncated", file, EOFBLOCK) /\ first' = [first EXCEPT ![file] = EOFBLOCK]
       ELSE Goto("shrink", file, bat[cur]) /\ UNCHANGED first
    /\ UNCHANGED dirty

\* sack_vfs_os_write: the first block of the file, or the next one.  The rest of the
\* content decides the kind: large blocks while much is left, then small ones.
WriteBlock(k, b) ==
    /\ step \in {"truncated", "write"}
    /\ Cardinality({c \in Block : owner[c] = file}) < MaxBlocks
    /\ step = "write" /\ k = "large" => kind[TableOf(cur)] = "large"
    /\ GetFreeBlock(k, cur, b)
    /\ first' = IF step = "write" THEN first ELSE [first EXCEPT ![file] = b]
    /\ owner' = [owner EXCEPT ![b] = file]
    /\ Goto("write", file, b)
    /\ UNCHANGED <<disk, ops>>

\* sack_vfs_os_close, after all of the content, which may be nothing, is written.
Close ==
    /\ step \in {"truncated", "write"}
    /\ Return
    /\ UNCHANGED <<tables, first, disk, owner, ops>>

\* sack_vfs_os_unlink_file: the directory entry goes first ...
Delete(f) ==
    /\ Begin
    /\ first[f] # EOFBLOCK
    /\ first' = [first EXCEPT ![f] = EOFBLOCK]
    /\ Goto("unlink", f, first[f])
    /\ UNCHANGED <<tables, disk, owner>>

\* ... then the chain, in tables that are marked.
UnlinkBlock ==
    /\ step = "unlink"
    /\ FreeBlock
    /\ Smudge({cur})
    /\ IF bat[cur] = EOFBLOCK THEN Return ELSE Goto("unlink", file, bat[cur])
    /\ UNCHANGED first
-----------------------------------------------------------------------------
\* The disk once the marked tables and the directory are written.
Flushed ==
    [bat |-> [b \in Block |-> IF TableOf(b) \in dirty THEN bat[b] ELSE disk.bat[b]],
     kind |-> kind, first |-> first, owner |-> owner]

\* The flusher gets the lock between the locked sections of an operation.
Flush ==
    /\ step \in {"idle", "truncated"}
    /\ dirty' = {}
    /\ disk' = Flushed
    /\ disk' # disk
    /\ UNCHANGED <<bat, kind, last, free, first, step, file, cur, owner, ops>>

\* The entries of the tables of a kind that _os_ValidateBAT looks at: each table up
\* to its marker.
Scanned(t, knd, k) ==
    {b \in Block :
        /\ knd[TableOf(b)] = k
        /\ \A c \in BlocksOf(TableOf(b)) : c < b => t[c] # EOBBLOCK}

\* mutant: the scan does not stop at the marker.
FreedPastMarker(t, knd, k) == {b \in Block : knd[TableOf(b)] = k /\ t[b] = Free}

Freed(t, knd, k) == {b \in Scanned(t, knd, k) : t[b] = Free}

\* The scan leaves the last marker or free entry it met (vol->lastBatBlock is also
\* its temporary variable).
LastScanned(t, knd, k) ==
    LET met == {b \in Scanned(t, knd, k) : t[b] \in {Free, EOBBLOCK}}
    IN  IF met = {} THEN 0 ELSE Max(met)

\* _os_ValidateBAT of tables that read as t and knd.
Validate(t, knd) ==
    /\ free' = [k \in Kinds |-> Freed(t, knd, k)]
    /\ last' = [k \in Kinds |-> LastScanned(t, knd, k)]

\* The volume is unloaded, which flushes it, and loaded again.
Reload ==
    /\ step = "idle"
    /\ disk' = Flushed
    /\ bat' = Flushed.bat
    /\ kind' = kind
    /\ Validate(Flushed.bat, kind)
    /\ dirty' = {}
    /\ UNCHANGED <<first, step, file, cur, owner, ops>>

Next ==
    \/ \E f \in Files : Truncate(f) \/ Delete(f)
    \/ ShrinkBlock \/ UnlinkBlock \/ Close
    \/ \E k \in Kinds, b \in Block : WriteBlock(k, b)
    \/ Flush \/ Reload

Spec == Init /\ [][Next]_vars

\* The process dies while the flusher has written the tables of w and not yet
\* cleaned the journal.  The load looks at the tables as they are on the disk, and
\* only then puts back, from the journal, what they were at the last flush.
\* Bound: no table was made since then.
Crash ==
    \E w \in SUBSET dirty :
        /\ kind = disk.kind
        /\ Validate([b \in Block |-> IF TableOf(b) \in w THEN bat[b] ELSE disk.bat[b]], kind)
        /\ bat' = disk.bat
        /\ first' = disk.first
        /\ owner' = disk.owner
        /\ dirty' = {}
        /\ Return
        /\ UNCHANGED <<kind, disk, ops>>

CrashSpec == Init /\ [][Next \/ Crash]_vars
-----------------------------------------------------------------------------
Owned == {b \in Block : owner[b] # NoFile}

\* The first block the file still has: a file that is being freed has given up those
\* before cur.
HeadOf(f) == IF f = file /\ step \in {"shrink", "unlink"} THEN cur ELSE first[f]

\* No block is in two chains, or twice in one: a chain begins and goes on in blocks
\* of its own file, and no two blocks, nor a block and the directory, lead to the
\* same one (GetNextBlock, unlink and shrink against the lists of free blocks).
ChainsAreSeparate ==
    /\ \A b \in Owned :
        /\ bat[b] # EOFBLOCK => bat[b] \in Block /\ owner[bat[b]] = owner[b]
        /\ \A c \in Owned \ {b} : bat[b] = bat[c] => bat[b] = EOFBLOCK
    /\ \A f \in Files : HeadOf(f) # EOFBLOCK =>
        /\ owner[HeadOf(f)] = f
        /\ \A b \in Owned : bat[b] # HeadOf(f)

\* What the allocator keeps in memory is what a scan of the tables would find: it
\* never forgets a freed block, hands out a used one, or loses the marker when a
\* table is full (_os_GetFreeBlock_ and the frees against _os_ValidateBAT).
AllocatorMatchesTables ==
    \A k \in Kinds :
        /\ free[k] = Freed(bat, kind, k)
        /\ last[k] = LastScanned(bat, kind, k)
        /\ bat[last[k]] = EOBBLOCK

\* A block a file owns is in use in its table, and so is every block of the volume's own.
OwnedIsUsed ==
    \A b \in Owned \cup System : 
        /\ bat[b] \notin {Free, EOBBLOCK}
        /\ b \in System => owner[b] = NoFile

\* A walk of no steps, from any block, and one step more than w in the tables t.
Nowhere == [b \in Block \cup {EOFBLOCK} |-> <<>>]
Onward(t, w) == [b \in Block \cup {EOFBLOCK} |-> IF b = EOFBLOCK THEN <<>> ELSE <<b>> \o w[t[b]]]

\* The blocks met in n steps through the tables t (vfs_os_GetNextBlock).
Walk(t) == LET w[n \in Nat] == IF n = 0 THEN Nowhere ELSE Onward(t, w[n - 1]) IN w

\* The blocks of a file in the order a reader meets them.
ChainOf(f) == Walk(bat)[PerBat * Tables][HeadOf(f)]

\* A file reads exactly the blocks it got and has not freed: an operation leaves no
\* block behind that is neither free nor part of a file.
OwnedIsReachable ==
    \A f \in Files : {b \in Block : owner[b] = f} = {ChainOf(f)[i] : i \in DOMAIN ChainOf(f)}

\* The allocator as its files see it: blocks come at the end of a chain, go from its
\* front, and neither the flusher nor a reload changes a chain.
Chains == INSTANCE BlockChains WITH
    Blocks <- Block \ System,
    chain <- [f \in Files |-> ChainOf(f)]

ImplementsChains == Chains!Spec
=============================================================================
